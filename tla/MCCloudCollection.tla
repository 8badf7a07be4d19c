-------------------------- MODULE MCCloudCollection --------------------------
(* Two items there and one to create; one or two fetches, or a fetch and a   *)
(* write, in whatever order they are asked for.                              *)
EXTENDS CloudCollectionInv, TLC

CONSTANTS fetch, again, write

Kinds == {"calendar", "people", "tasks", "delta", "lists"}
Batch(cs, us, ds) == [create |-> cs, update |-> us, delete |-> ds]
Quiet == [present |-> {1, 2}, foreign |-> 0, troubles |-> 0, cancels |-> 0, restarts |-> 0,
          stale |-> FALSE, endless |-> FALSE, cut |-> FALSE, unruly |-> {}]

Fetches(kind, happens) ==
    happens @@ [kind |-> kind, fetches |-> {fetch, again}, writes |-> <<>>] @@ Quiet
OneFetch(kind, happens) ==
    happens @@ [kind |-> kind, fetches |-> {fetch}, writes |-> <<>>] @@ Quiet
WriteAndFetch(kind, b, happens) ==
    happens @@ [kind |-> kind, fetches |-> {fetch}, writes |-> write :> b] @@ Quiet
Write(kind, b, happens) ==
    happens @@ [kind |-> kind, fetches |-> {}, writes |-> write :> b] @@ Quiet

Reading ==
    {OneFetch(k, [foreign |-> 2]) : k \in Kinds}
    \union {OneFetch(k, [foreign |-> 2, troubles |-> 1]) : k \in {"people", "delta"}}
    \union {Fetches(k, h) : k \in Kinds, h \in {[foreign |-> 1, troubles |-> 1, restarts |-> 1],
                                               [foreign |-> 1, cancels |-> 1]}}
    \union {Fetches("people", [cut |-> TRUE, foreign |-> 1, troubles |-> 1])}
Writing ==
    {Write(k, Batch({3}, {1}, {2}), h) : k \in Kinds, h \in {[troubles |-> 1],
                [foreign |-> 1, cancels |-> 1], [foreign |-> 1, restarts |-> 1]}}
    \union {WriteAndFetch(k, Batch({}, {1}, {2}), [foreign |-> 1]) : k \in {"tasks", "lists"}}
    \union {Write("lists", Batch({}, {}, {1, 2}), [troubles |-> 2]),
            Write("lists", Batch({3}, {1, 2}, {}), [unruly |-> {1, 3}]),
            Write("lists", Batch({3}, {}, {}), [unruly |-> {3}])}
Bad == {Fetches(k, [stale |-> TRUE, troubles |-> 1]) : k \in Kinds}
    \union {OneFetch(k, [troubles |-> 2]) : k \in Kinds}
    \union {Fetches(k, [endless |-> TRUE]) : k \in {"calendar", "tasks", "lists"}}
All == Reading \union Writing \union Bad
=============================================================================
