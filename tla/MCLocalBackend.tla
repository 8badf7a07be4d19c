---------------------------- MODULE MCLocalBackend ----------------------------
(* Two files, a series with one override; two fetches, a push, a deletion.   *)
EXTENDS LocalBackendInv

CONSTANTS event, other, master, moved, fetch, again, push, remove

Does == [op \in Ops |->
           [kind |-> IF op \in {fetch, again} THEN "fetch" ELSE IF op = push THEN "push" ELSE "delete",
            uid |-> event]]

(* Changes that fall on the same family, on two, and a deletion besides.    *)
Staging(ds, ps) == [dels |-> ds, puts |-> ps]
Staged2 ==
    {Staging({}, {<<event, master>>}),
     Staging({}, {<<event, moved>>, <<other, master>>}),
     Staging({<<event, moved>>}, {<<other, master>>}),
     Staging({<<other, master>>}, {})}

Happens(ss, fs, as, ts, ops) ==
    [stagings |-> ss, foreign |-> fs, applied |-> as, troubles |-> ts, ops |-> ops]
Mixed == {Happens(2, 1, 0, 1, {}), Happens(1, 1, 0, 0, {fetch}), Happens(1, 0, 1, 0, {fetch}),
          Happens(0, 1, 1, 0, {fetch, push}), Happens(0, 1, 2, 0, {fetch}),
          Happens(0, 0, 2, 0, {fetch, again}),
          Happens(2, 0, 0, 0, {push}), Happens(1, 1, 0, 0, {remove})}
=============================================================================
