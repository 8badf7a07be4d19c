------------------------ MODULE MCCollectionRuntime ------------------------
(* Two accounts, the first bound to a device; its mapping or the other's.  *)
EXTENDS CollectionRuntimeInv

CONSTANTS dav, palm, device

Bindings == [p \in Providers |-> IF p = palm THEN device ELSE NoResource]

On(e, kind, name) == [kind |-> kind, at |-> e, name |-> name]
Plain(es, ms) == [replace |-> FALSE, provs |-> {}, eps |-> es, drops |-> TRUE, muts |-> ms]
Replace(ps, es, ms) == [replace |-> TRUE, provs |-> ps, eps |-> es, drops |-> TRUE, muts |-> ms]

(* Collections are created, also one that is there, renamed, updated and    *)
(* destroyed, with and without a new set of accounts; endpoints are kept,   *)
(* dropped or forgotten.  The last creates at an account it replaces, which *)
(* is undone after the accounts were restored.                              *)
Submitted ==
    {Plain({palm, dav}, <<On(palm, "Create", "new"), On(Hub, "Rename", "old")>>),
     [Plain({dav}, <<On(Hub, "Create", "old"), On(Hub, "Adopt", "old")>>)
         EXCEPT !.drops = FALSE],
     Replace({palm}, {palm}, <<On(Hub, "Destroy", "old"), On(palm, "Update", "old")>>),
     Replace({palm, dav}, {palm}, <<On(palm, "Create", "new"), On(Hub, "Untrack", "old")>>)}

Chosen == {All, {palm}, {palm, dav}}
=============================================================================
