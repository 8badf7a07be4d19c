-------------------------- MODULE SyncRunInstances --------------------------
(* The topologies and requests the TLC runs of SyncRun are made of.        *)
EXTENDS Naturals

(* Collections a, h, b, d and e; h and b live on one DAV server.          *)
AllEndpoints == {"a", "h", "b", "d", "e"}
AllBackends == {"local", "dav", "disk"}
AllResources == {"local", "server", "disk"}
OnBackend == [c \in AllEndpoints |->
                CASE c = "a" -> "local" [] c \in {"h", "b"} -> "dav" [] OTHER -> "disk"]
OnResource == [b \in AllBackends |-> IF b = "dav" THEN "server" ELSE b]

(* Chain: 1 and 2 meet in the hub h, 3 touches neither of them.            *)
ChainSource == <<"a", "h", "d">>
ChainTarget == <<"h", "b", "e">>
(* Mixed: 1 and 2 share the server only, 1 and 3 the collection a, and 2   *)
(* and 3 nothing but the disk.                                             *)
MixedSource == <<"a", "d", "a">>
MixedTarget == <<"h", "b", "e">>
(* Pair: two mappings that share no endpoint but share the server.         *)
PairSource == <<"a", "d">>
PairTarget == <<"h", "b">>

Unlimited == [b \in AllBackends |-> 0]
DavOneByOne == [b \in AllBackends |-> IF b = "dav" THEN 1 ELSE 0]

Plain(ids, n) == [ids |-> ids, monitored |-> FALSE, clobber |-> FALSE, concurrency |-> n]
Everything == Plain({}, 2)
Monitored == [Everything EXCEPT !.monitored = TRUE]
Clobber == [Everything EXCEPT !.clobber = TRUE]

AllKinds == {Everything, Monitored, Plain({1}, 2)}
ClobberAndSubset == {Clobber, Plain({1, 2}, 2), Plain({2}, 2), [Clobber EXCEPT !.ids = {1}]}
MonitoredOrNot == ClobberAndSubset \union {Monitored}
Sequential == {Plain({}, 1)}
=============================================================================
