----------------------------- MODULE MCDecSync ------------------------------
(* One or two other applications, of which one comes before ours by name     *)
(* and one after; a few writes of each at a time.                            *)
EXTENDS DecSync, TLC

Quiet == [held |-> {}, writers |-> {}, changes |-> Props \X {0, 1}, skew |-> FALSE, tick |-> 0, edits |-> 0, removals |-> 0,
          reads |-> 0, lifecycle |-> 0, restarts |-> 0, fetches |-> 0, actives |-> 0, gcs |-> 0]
Everybody == {1, 2, 3} \X {1}
Both == {<<1, 1>>, <<3, 1>>}

Copying ==
    {[held |-> {<<1, 1>>}, writers |-> {<<1, 1>>, <<1, 2>>}, tick |-> 1, edits |-> 2, reads |-> 2]
        @@ Quiet,
     [held |-> Both, writers |-> Everybody, skew |-> TRUE, edits |-> 1, removals |-> 1, reads |-> 1]
        @@ Quiet}
Merging ==
    {[held |-> Both, writers |-> Everybody, tick |-> 2, edits |-> 2, fetches |-> 1, actives |-> 1]
        @@ Quiet,
     [held |-> Both, writers |-> Both, tick |-> 2, edits |-> 2, actives |-> 2] @@ Quiet,
     [held |-> Both, writers |-> Both, tick |-> 1, edits |-> 1, removals |-> 1, fetches |-> 1,
      actives |-> 1] @@ Quiet}
Contesting ==
    {[held |-> Both, writers |-> Both, changes |-> {1, 2} \X Vals, tick |-> 2, edits |-> 2,
      fetches |-> 1, actives |-> 1] @@ Quiet}
Lives ==
    {[writers |-> {2} \X {1, 2}, lifecycle |-> 2, restarts |-> 1, edits |-> 2, removals |-> 1,
      fetches |-> 1] @@ Quiet,
     [held |-> {<<1, 1>>}, writers |-> {<<2, 2>>, <<1, 1>>}, lifecycle |-> 2, restarts |-> 1,
      edits |-> 2] @@ Quiet}
Collecting ==
    {[held |-> {<<1, 1>>}, writers |-> {<<1, 1>>}, tick |-> 3, edits |-> 1, reads |-> 2,
      actives |-> 1, gcs |-> 1] @@ Quiet,
     [held |-> {<<1, 1>>}, writers |-> {<<2, 1>>}, tick |-> 3, edits |-> 1, removals |-> 1,
      actives |-> 1, gcs |-> 2] @@ Quiet,
     [held |-> {<<1, 1>>}, writers |-> {<<3, 1>>, <<2, 1>>}, tick |-> 1, edits |-> 1,
      removals |-> 1, actives |-> 1, gcs |-> 2] @@ Quiet,
     [held |-> {<<1, 1>>}, writers |-> {<<1, 1>>, <<3, 2>>}, edits |-> 2, removals |-> 1,
      actives |-> 2, gcs |-> 2] @@ Quiet}
All == Copying \union Merging \union Contesting \union Lives \union Collecting
=============================================================================
