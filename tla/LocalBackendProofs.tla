------------------------- MODULE LocalBackendProofs -------------------------
(***************************************************************************)
(* Proofs about LocalBackend: a quiet calendar holds what was asked for,   *)
(* and a fingerprint hides no change.                                      *)
(***************************************************************************)
EXTENDS LocalBackendInv, OperationQueueProofs, FiniteSetTheorems

USE DEF vars, fileVars, writerVars, localVars, fetchVars, batchVars

(***************************************************************************)
(* Families and files.                                                     *)
(***************************************************************************)
LEMMA Values ==
    /\ Empty \in Families /\ \A n \in Nat : [Slots -> 0..n] \subseteq Families
    /\ \A n \in Nat : Empty \in [Slots -> 0..n] /\ \A k \in 0..n : Lone(k) \in [Slots -> 0..n]
    /\ \A f \in Families : IsFamily(f) /\ FamilyIn(f) = f
    /\ FamilyIn(Absent) = Empty /\ FamilyIn(Torn) = Empty
BY FilesAssumption DEF Families, Empty, Lone, IsFamily, FamilyIn

LEMMA FileOfFamily ==
    ASSUME NEW f \in Families
    PROVE  /\ FamilyIn(FileOf(f)) = f
           /\ FileOf(FamilyIn(FileOf(f))) = FileOf(f)
           /\ FileOf(f) \in {Absent, f} /\ FileOf(f) # Torn
BY Values, FilesAssumption DEF FileOf

(* Merging families.                                                       *)
LEMMA MergeTyped ==
    ASSUME NEW n \in Nat, NEW old \in [Slots -> 0..n], NEW new \in [Slots -> 0..n]
    PROVE  /\ Merge(old, new) \in [Slots -> 0..n]
           /\ \A t \in Slots : Merge(old, new)[t] = IF new[t] # 0 THEN new[t] ELSE old[t]
           /\ new # Empty => Merge(old, new) # Empty
           /\ new = Empty => Merge(old, new) = old
<1>1. \A t \in Slots : Merge(old, new)[t] = IF new[t] # 0 THEN new[t] ELSE old[t]
  BY DEF Merge
<1>2. Merge(old, new) \in [Slots -> 0..n]
  BY DEF Merge
<1>3. ASSUME new # Empty PROVE Merge(old, new) # Empty
  <2>1. PICK t \in Slots : new[t] # 0
    BY <1>3 DEF Empty
  <2>2. Merge(old, new)[t] # 0 /\ Empty[t] = 0
    BY <1>1, <2>1 DEF Empty
  <2>. QED
    BY <2>2
<1>4. ASSUME new = Empty PROVE Merge(old, new) = old
  BY <1>4 DEF Empty, Merge
<1>. QED
  BY <1>1, <1>2, <1>3, <1>4

(* A file that is a family of one component is gone without it, and one of *)
(* several is a family still.                                              *)
LEMMA RemoveItemCuts ==
    ASSUME NEW n \in Nat, NEW f \in [Slots -> 0..n] \ {Empty}, NEW s \in Slots, f[s] # 0
    PROVE  RemoveItem(f, s) = FileOf(Without(f, s))
<1>. DEFINE S == {t \in Slots : f[t] # 0}
<1>1. IsFiniteSet(S) /\ s \in S /\ Size(f) = Cardinality(S)
  BY FilesAssumption, FS_Subset DEF Size
<1>2. IsFamily(f)
  BY Values
<1>3. CASE Size(f) > 1
  <2>1. PICK t \in S : t # s
    <3>1. S # {s}
      BY <1>1, <1>3, FS_Singleton
    <3>. QED
      BY <1>1, <3>1
  <2>2. Without(f, s)[t] # 0 /\ Empty[t] = 0
    BY <2>1 DEF Without, Empty
  <2>. QED
    BY <1>2, <1>3, <2>2 DEF RemoveItem, FileOf
<1>4. CASE ~(Size(f) > 1)
  <2>1. S = {s}
    <3>1. Cardinality({s}) = 1 /\ Cardinality(S) \in Nat /\ {s} \in SUBSET S
      BY <1>1, FS_Singleton, FS_CardinalityType
    <3>2. Cardinality({s}) <= Cardinality(S)
      BY <1>1, <3>1, FS_Subset
    <3>3. Cardinality(S) = 1
      BY <1>1, <1>4, <3>1, <3>2
    <3>. QED
      BY <1>1, <3>1, <3>3, FS_Subset
  <2>2. \A t \in Slots : t # s => f[t] = 0
    BY <2>1
  <2>3. Without(f, s) = Empty
    BY <2>2 DEF Without, Empty
  <2>. QED
    BY <1>4, <2>3 DEF RemoveItem, FileOf
<1>. QED
  BY <1>3, <1>4

(* Every write of a file gives it a new stamp.                             *)
Later == \A u \in Uids : stamp'[u] >= stamp[u] /\ (stamp'[u] = stamp[u] => files'[u] = files[u])

LEMMA Writes ==
    ASSUME stamp \in [Uids -> Nat], NEW changed, Write(changed)
    PROVE  /\ Later /\ stamp' \in [Uids -> Nat]
           /\ \A u \in Uids : files'[u] = IF u \in DOMAIN changed THEN changed[u] ELSE files[u]
           /\ files' = [u \in Uids |-> files'[u]]
BY DEF Write, Later

LEMMA NoWrite ==
    ASSUME stamp \in [Uids -> Nat], UNCHANGED fileVars
    PROVE  Later /\ stamp' \in [Uids -> Nat]
BY DEF Later

(***************************************************************************)
(* Fingerprints.                                                           *)
(***************************************************************************)
LEMMA FaithfulLater ==
    ASSUME stamp \in [Uids -> Nat], stamp' \in [Uids -> Nat], Later,
           NEW list, NEW recs, NEW but, Faithful(list, recs, but)
    PROVE  Faithful(list, recs, but)'
<1>1. ASSUME NEW u \in DOMAIN list PROVE list[u] \in Int /\ list[u] <= stamp'[u]
  <2>1. u \in Uids /\ list[u] \in Int /\ list[u] <= stamp[u]
    BY DEF Faithful
  <2>2. stamp[u] \in Nat /\ stamp'[u] \in Nat /\ stamp'[u] >= stamp[u]
    BY <2>1 DEF Later
  <2>. QED
    BY <2>1, <2>2
<1>2. ASSUME NEW u \in Uids \ but, u \in DOMAIN list, list[u] = stamp'[u]
      PROVE  FamilyIn(files'[u]) = FamilyIn(Known(recs, u))
  <2>1. list[u] <= stamp[u] /\ stamp[u] \in Nat /\ stamp'[u] \in Nat /\ stamp'[u] >= stamp[u]
    BY <1>2 DEF Faithful, Later
  <2>2. stamp'[u] = stamp[u]
    BY <1>2, <2>1
  <2>3. files'[u] = files[u]
    BY <2>2 DEF Later
  <2>. QED
    BY <1>2, <2>2, <2>3 DEF Faithful
<1>. QED
  BY <1>1, <1>2 DEF Faithful

LEMMA CurrentLater ==
    ASSUME stamp \in [Uids -> Nat], stamp' \in [Uids -> Nat], Later,
           NEW list, NEW kn \in [Uids -> Int], NEW rest, NEW but, Current(list, kn, rest, but)
    PROVE  Current(list, kn, rest, but)'
<1>1. ASSUME NEW u \in Uids
      PROVE  /\ kn[u] \in Int /\ kn[u] <= stamp'[u]
             /\ kn[u] = stamp'[u] => kn[u] = stamp[u] /\ files'[u] = files[u] /\ stamp'[u] = stamp[u]
  <2>1. /\ kn[u] \in Int /\ kn[u] <= stamp[u]
        /\ stamp[u] \in Nat /\ stamp'[u] \in Nat /\ stamp'[u] >= stamp[u]
        /\ stamp'[u] = stamp[u] => files'[u] = files[u]
    BY DEF Current, Later
  <2>2. kn[u] <= stamp'[u] /\ (kn[u] = stamp'[u] => kn[u] = stamp[u] /\ stamp'[u] = stamp[u])
    BY <2>1
  <2>. QED
    BY <2>1, <2>2
<1>. QED
  BY <1>1 DEF Current

LEMMA NothingFetched ==
    ASSUME stamp' \in [Uids -> Nat], NEW todo \in SUBSET Uids, acc' = Fresh(todo, NoStamps)
    PROVE  FetchSound'
<1>1. PICK none : none = <<>> /\ DOMAIN none = {}
  OBVIOUS
<1>2. acc' = [todo |-> todo, stat |-> None, snap |-> none, recs |-> none, known |-> NoStamps]
  BY <1>1 DEF Fresh
<1>3. /\ acc'.todo = todo /\ acc'.stat = None /\ acc'.snap = none /\ acc'.recs = none
      /\ acc'.known = NoStamps
      /\ acc' = [todo |-> acc'.todo, stat |-> acc'.stat, snap |-> acc'.snap, recs |-> acc'.recs,
                 known |-> acc'.known]
  BY <1>2
<1>4. Faithful(none, none, todo)'
  BY <1>1 DEF Faithful
<1>5. Current(none, NoStamps, todo, None)'
  BY <1>1 DEF Current, NoStamps, NoStamp
<1>6. NoStamps \in [Uids -> Int]
  BY DEF NoStamps, NoStamp
<1>. QED
  BY <1>1, <1>3, <1>4, <1>5, <1>6 DEF FetchSound

(* What was found stays as faithful and as current as it was while the     *)
(* files change around it.                                                 *)
LEMMA FetchLater ==
    ASSUME stamp \in [Uids -> Nat], stamp' \in [Uids -> Nat], FetchSound, Later, UNCHANGED acc
    PROVE  FetchSound'
<1>1. PICK list, recs, todo, kn :
         list = acc.snap /\ recs = acc.recs /\ todo = acc.todo /\ kn = acc.known
  OBVIOUS
<1>2. Faithful(list, recs, todo)' /\ Current(list, kn, todo, None)'
  <2>1. Faithful(list, recs, todo) /\ Current(list, kn, todo, None) /\ kn \in [Uids -> Int]
    BY <1>1 DEF FetchSound
  <2>. QED
    BY <2>1, FaithfulLater, CurrentLater
<1>3. acc'.snap = list /\ acc'.recs = recs /\ acc'.todo = todo /\ acc'.known = kn
  BY <1>1
<1>4. acc' = acc
  OBVIOUS
<1>. QED
  BY <1>1, <1>2, <1>3, <1>4 DEF FetchSound

LEMMA PassLater ==
    ASSUME stamp \in [Uids -> Nat], stamp' \in [Uids -> Nat],
           Faithful(pass.list, pass.recs, {}), Later, UNCHANGED pass
    PROVE  Faithful(pass.list, pass.recs, {})'
<1>1. PICK list, recs : list = pass.list /\ recs = pass.recs
  OBVIOUS
<1>2. Faithful(list, recs, {})'
  BY <1>1, FaithfulLater
<1>. QED
  BY <1>1, <1>2

LEMMA TokenLater ==
    ASSUME stamp \in [Uids -> Nat], stamp' \in [Uids -> Nat], token.known \in [Uids -> Int],
           Current(token.list, token.known, {}, None), Later, UNCHANGED token
    PROVE  Current(token.list, token.known, {}, None)'
<1>1. PICK list, kn : list = token.list /\ kn = token.known
  OBVIOUS
<1>2. Current(list, kn, {}, None)'
  BY <1>1, CurrentLater
<1>. QED
  BY <1>1, <1>2

LEMMA SnapshotLater ==
    ASSUME stamp \in [Uids -> Nat], stamp' \in [Uids -> Nat], known \in [Uids -> Int],
           Current(snapshot, known, {}, applying), Later, UNCHANGED <<snapshot, known, applying>>
    PROVE  Current(snapshot, known, {}, applying)'
<1>1. PICK list, kn, but : list = snapshot /\ kn = known /\ but = applying
  OBVIOUS
<1>2. Current(list, kn, {}, but)'
  BY <1>1, CurrentLater
<1>. QED
  BY <1>1, <1>2

LEMMA RevisionLater ==
    ASSUME stamp \in [Uids -> Nat], stamp' \in [Uids -> Nat], RevisionSound, Later, FetchSound',
           UNCHANGED <<snapshot, pass, known, token, applying>>
    PROVE  RevisionSound'
<1>1. Faithful(pass.list, pass.recs, {})'
  BY PassLater DEF RevisionSound
<1>2. (snapshot # None => Current(snapshot, known, {}, applying))'
  BY SnapshotLater DEF RevisionSound
<1>3. (token # None => token.known \in [Uids -> Int] /\ Current(token.list, token.known, {}, None))'
  BY TokenLater DEF RevisionSound
<1>. QED
  BY <1>1, <1>2, <1>3 DEF RevisionSound

(* applyRecords(): a write it knows of, and the look at what it left.      *)
LEMMA WriteKnown ==
    ASSUME stamp \in [Uids -> Nat], known \in [Uids -> Int], NEW u \in Uids, NEW f,
           Write(Only(u, f)), Current(snapshot, known, {}, None), UNCHANGED snapshot,
           known' = IF known[u] = stamp[u] THEN [known EXCEPT ![u] = stamp'[u]] ELSE known
    PROVE  Current(snapshot, known, {}, u)'
<1>1. /\ \A v \in Uids : v # u => stamp'[v] = stamp[v] /\ files'[v] = files[v]
      /\ stamp'[u] = stamp[u] + 1
  BY DEF Write, Only
<1>2. \A v \in Uids : v # u => known'[v] = known[v]
  OBVIOUS
<1>3. known'[u] \in Int /\ known'[u] <= stamp'[u]
  BY <1>1 DEF Current
<1>. QED
  BY <1>1, <1>2, <1>3, FilesAssumption DEF Current

LEMMA PatchCurrent ==
    ASSUME Typed, NEW u \in Uids, known \in [Uids -> Int], Current(snapshot, known, {}, u)
    PROVE  Current(Patched(u), known, {}, None)
<1>. DEFINE list == Patched(u)
<1>1. stamp[u] \in Nat /\ stamp[u] # Absent
  BY FilesAssumption DEF Typed
<1>2. /\ list = [v \in DOMAIN list |-> list[v]]
      /\ DOMAIN list = IF files[u] = Absent THEN DOMAIN snapshot \ {u} ELSE DOMAIN snapshot \union {u}
      /\ \A v \in DOMAIN list : list[v] = IF v = u THEN stamp[u] ELSE snapshot[v]
  BY <1>1 DEF Patched, With
<1>. HIDE DEF list
<1>3. Current(list, known, {}, None)
  BY <1>2 DEF Current
<1>. QED
  BY <1>3 DEF list

LEMMA RevisionStep ==
    ASSUME Typed, Typed', RevisionSound, Next
    PROVE  RevisionSound'
<1>. DEFINE Calm == UNCHANGED <<snapshot, pass, known, token, applying>>
<1>0. stamp \in [Uids -> Nat] /\ stamp' \in [Uids -> Nat] /\ FetchSound
  BY DEF Typed, RevisionSound
<1>1. ASSUME Later, Calm, UNCHANGED acc \/ FetchSound' PROVE RevisionSound'
  <2>1. FetchSound'
    BY <1>0, <1>1, FetchLater
  <2>. QED
    BY <1>0, <1>1, <2>1, RevisionLater
<1>2. ASSUME UNCHANGED fileVars PROVE Later
  BY <1>0, <1>2, NoWrite
<1>3. ASSUME NEW changed, Write(changed) PROVE Later
  BY <1>0, <1>3, Writes
<1>4. ASSUME NEW todo \in SUBSET Uids, acc' = Fresh(todo, NoStamps) PROVE FetchSound'
  BY <1>0, <1>4, NothingFetched
<1>5. ASSUME acc' = NoAcc PROVE FetchSound'
  <2>1. acc' = Fresh({}, NoStamps) /\ {} \in SUBSET Uids
    BY <1>5 DEF NoAcc
  <2>. QED
    BY <1>4, <2>1
<1>6. \A op \in Ops : Task[op].uid \in Uids /\ {Task[op].uid} \in SUBSET Uids
  BY FilesAssumption
<1>8. ASSUME NEW s \in Stagings, NEW failing \in BOOLEAN, NEW kept \in SUBSET Uids,
             StartSync(s, failing, kept)
      PROVE  RevisionSound'
  <2>1. (\E changed : Write(changed)) /\ Calm /\ UNCHANGED acc
    BY <1>8 DEF StartSync
  <2>. QED
    BY <1>1, <1>3, <2>1
<1>9. CASE OnAsyncWritesFinished \/ AnswerReturns
  <2>1. UNCHANGED fileVars /\ Calm /\ UNCHANGED acc
    BY <1>9 DEF OnAsyncWritesFinished, AnswerReturns
  <2>. QED
    BY <1>1, <1>2, <2>1
<1>10. CASE WorkerWorks \/ WorkerFails
  <2>1. Calm /\ UNCHANGED acc
    BY <1>10 DEF WorkerWorks, WorkerFails
  <2>2. UNCHANGED fileVars \/ \E changed : Write(changed)
    BY <1>10 DEF WorkerWorks, WorkerFails, WorkerStep, WorkerTrouble, WorkerOpens, WorkerWrites,
       WorkerDrains, WorkerCannotOpen, WorkerCannotWrite
  <2>. QED
    BY <1>1, <1>2, <1>3, <2>1, <2>2
<1>11. ASSUME NEW op \in Ops, EnqueueOperation(op) \/ CancelOperation(op) \/ DeleteOperation(op)
       PROVE  RevisionSound'
  <2>1. UNCHANGED fileVars /\ Calm /\ UNCHANGED acc
    BY <1>11 DEF EnqueueOperation, CancelOperation, DeleteOperation
  <2>. QED
    BY <1>1, <1>2, <2>1
<1>12. ASSUME NEW op \in Ops, BodyBegins(op) \/ BodySkipped(op) \/ BodyFails(op)
       PROVE  RevisionSound'
  <2>1. UNCHANGED fileVars /\ Calm
    BY <1>12 DEF BodyBegins, BodySkipped, BodyFails
  <2>2. CASE BodyBegins(op) /\ Task[op].kind = "fetch"
    <3>1. acc' = Fresh(DOMAIN Listing, stamp)
      BY <2>2 DEF BodyBegins
    <3>0. PICK none : none = <<>> /\ DOMAIN none = {}
      OBVIOUS
    <3>2. PICK todo : todo = DOMAIN Listing /\ todo = {v \in Uids : files[v] # Absent}
      BY DEF Listing
    <3>3. acc' = [todo |-> todo, stat |-> None, snap |-> none, recs |-> none, known |-> stamp]
      BY <3>0, <3>1, <3>2 DEF Fresh
    <3>4. Faithful(none, none, todo) /\ Current(none, stamp, todo, None)
      BY <1>0, <3>0, <3>2 DEF Faithful, Current, Known
    <3>5. /\ acc'.todo = todo /\ acc'.stat = None /\ acc'.snap = none /\ acc'.recs = none
          /\ acc'.known = stamp
          /\ acc' = [todo |-> acc'.todo, stat |-> acc'.stat, snap |-> acc'.snap,
                     recs |-> acc'.recs, known |-> acc'.known]
      BY <3>3
    <3>6. /\ Faithful(acc.snap, acc.recs, acc.todo)'
          /\ Current(acc.snap, acc.known, acc.todo, None)'
      BY <2>1, <3>4, <3>5 DEF Faithful, Current
    <3>7. stamp \in [Uids -> Int]
      BY <1>0
    <3>8. FetchSound'
      BY <3>0, <3>2, <3>5, <3>6, <3>7 DEF FetchSound
    <3>. QED
      BY <1>1, <1>2, <2>1, <3>8
  <2>3. CASE BodyBegins(op) /\ Task[op].kind # "fetch"
    <3>1. acc' = Fresh({Task[op].uid}, NoStamps)
      BY <2>3 DEF BodyBegins
    <3>. QED
      BY <1>1, <1>2, <1>4, <1>6, <2>1, <3>1
  <2>4. CASE BodySkipped(op) \/ BodyFails(op)
    <3>1. UNCHANGED acc \/ acc' = NoAcc
      BY <2>4 DEF BodySkipped, BodyFails
    <3>. QED
      BY <1>1, <1>2, <1>5, <2>1, <3>1
  <2>. QED
    BY <1>12, <2>2, <2>3, <2>4
<1>13. ASSUME NEW op \in Ops, PushItem(op) \/ DeleteItem(op) PROVE RevisionSound'
  <2>1. Calm /\ acc' = NoAcc
    BY <1>13 DEF PushItem, DeleteItem
  <2>2. UNCHANGED fileVars \/ \E changed : Write(changed)
    BY <1>13 DEF PushItem, DeleteItem
  <2>. QED
    BY <1>1, <1>2, <1>3, <1>5, <2>1, <2>2
<1>14. ASSUME NEW op \in Ops, FetchStats(op) PROVE RevisionSound'
  <2>1. PICK u \in acc.todo :
           acc' = [acc EXCEPT !.stat = u,
                              !.snap = [v \in DOMAIN @ \union {u} |->
                                           IF v = u THEN Stamp(u) ELSE @[v]]]
    BY <1>14 DEF FetchStats
  <2>2. UNCHANGED fileVars /\ Calm
    BY <1>14 DEF FetchStats
  <2>3. /\ acc'.todo = acc.todo /\ acc'.stat = u /\ acc'.recs = acc.recs /\ acc'.known = acc.known
        /\ acc'.snap = [v \in DOMAIN acc.snap \union {u} |->
                           IF v = u THEN Stamp(u) ELSE acc.snap[v]]
        /\ acc' = [todo |-> acc'.todo, stat |-> acc'.stat, snap |-> acc'.snap, recs |-> acc'.recs,
                   known |-> acc'.known]
    BY <1>0, <2>1 DEF FetchSound
  <2>4. u \in Uids /\ Stamp(u) \in Int /\ Stamp(u) <= stamp[u]
        /\ (files[u] # Absent => Stamp(u) = stamp[u])
    BY <1>0 DEF FetchSound, Stamp, NoStamp
  <2>5. Faithful(acc.snap, acc.recs, acc.todo)'
    BY <1>0, <2>2, <2>3, <2>4 DEF FetchSound, Faithful
  <2>6. Current(acc.snap, acc.known, acc.todo, None)'
    <3>1. Current(acc.snap, acc.known, acc.todo, None) /\ u \in acc.todo
      BY <1>0 DEF FetchSound
    <3>. QED
      BY <2>2, <2>3, <2>4, <3>1, FilesAssumption DEF Current
  <2>7. FetchSound'
    BY <1>0, <2>1, <2>3, <2>5, <2>6 DEF FetchSound
  <2>. QED
    BY <1>1, <1>2, <2>2, <2>7
<1>15. CASE FetchReads
  <2>. DEFINE u == acc.stat
  <2>1. /\ acc.stat # None /\ UNCHANGED fileVars /\ Calm
        /\ acc' = [acc EXCEPT !.todo = @ \ {acc.stat}, !.stat = None,
                              !.recs = IF IsFamily(files[acc.stat])
                                       THEN With(@, acc.stat, files[acc.stat]) ELSE @]
    BY <1>15 DEF FetchReads
  <2>2. /\ acc'.todo = acc.todo \ {u} /\ acc'.stat = None /\ acc'.snap = acc.snap
        /\ acc'.known = acc.known
        /\ acc'.recs = IF IsFamily(files[u]) THEN With(acc.recs, u, files[u]) ELSE acc.recs
        /\ acc' = [todo |-> acc'.todo, stat |-> acc'.stat, snap |-> acc'.snap, recs |-> acc'.recs,
                   known |-> acc'.known]
    BY <1>0, <2>1 DEF FetchSound
  <2>3. u \in acc.todo /\ u \in Uids /\ u \in DOMAIN acc.snap /\ u \notin DOMAIN acc.recs
    BY <1>0, <2>1 DEF FetchSound
  <2>4. /\ DOMAIN acc'.recs \subseteq DOMAIN acc.recs \union {u}
        /\ \A v \in Uids : v # u => Known(acc'.recs, v) = Known(acc.recs, v)
        /\ FamilyIn(files[u]) = FamilyIn(Known(acc'.recs, u))
    <3>1. CASE IsFamily(files[u])
      <4>1. acc'.recs = [v \in DOMAIN acc.recs \union {u} |-> IF v = u THEN files[u] ELSE acc.recs[v]]
        BY <2>2, <3>1 DEF With, IsFamily
      <4>. QED
        BY <4>1 DEF Known
    <3>2. CASE ~IsFamily(files[u])
      BY <2>2, <2>3, <3>2, Values DEF Known, IsFamily
    <3>. QED
      BY <3>1, <3>2
  <2>. HIDE DEF u
  <2>5. Faithful(acc.snap, acc'.recs, acc'.todo)
    <3>1. Faithful(acc.snap, acc.recs, acc.todo)
      BY <1>0 DEF FetchSound
    <3>. QED
      BY <2>2, <2>3, <2>4, <3>1 DEF Faithful
  <2>6. Current(acc.snap, acc.known, acc.todo, None)'
    <3>1. Current(acc.snap, acc.known, acc.todo, None)
      BY <1>0 DEF FetchSound
    <3>. QED
      BY <2>1, <2>2, <2>3, <3>1 DEF Current
  <2>7. Faithful(acc.snap, acc.recs, acc.todo)'
    BY <2>1, <2>2, <2>5 DEF Faithful
  <2>8. FetchSound'
    BY <1>0, <2>2, <2>3, <2>4, <2>6, <2>7 DEF FetchSound
  <2>. QED
    BY <1>1, <1>2, <2>1, <2>8
<1>16. ASSUME NEW op \in Ops, FetchDone(op) PROVE RevisionSound'
  <2>1. /\ UNCHANGED <<fileVars, applying, token>> /\ applying = None
        /\ acc.todo = {} /\ acc' = NoAcc /\ snapshot' = acc.snap /\ known' = acc.known
        /\ pass' = [list |-> acc.snap, recs |-> acc.recs]
    BY <1>16 DEF FetchDone, InLoop, Callable
  <2>2. FetchSound'
    BY <1>5, <2>1
  <2>3. /\ Faithful(acc.snap, acc.recs, {}) /\ Current(acc.snap, acc.known, {}, None)
        /\ acc.known \in [Uids -> Int]
    BY <1>0, <2>1 DEF FetchSound
  <2>4. Faithful(pass.list, pass.recs, {})'
    BY <2>1, <2>3 DEF Faithful
  <2>5. Current(snapshot, known, {}, applying)'
    BY <2>1, <2>3 DEF Current
  <2>6. (token # None => token.known \in [Uids -> Int] /\ Current(token.list, token.known, {}, None))'
    BY <1>0, <1>2, <2>1, TokenLater DEF RevisionSound
  <2>. QED
    BY <2>1, <2>2, <2>3, <2>4, <2>5, <2>6 DEF RevisionSound
<1>17. CASE RecordsFromLastFetch
  <2>1. UNCHANGED fileVars /\ Calm /\ UNCHANGED acc
    BY <1>17 DEF RecordsFromLastFetch
  <2>. QED
    BY <1>1, <1>2, <2>1
<1>18. CASE ApplyWrites
  <2>1. PICK u \in Uids, gone \in BOOLEAN :
           LET want == IF gone THEN Absent ELSE Lone(clock + 1)
           IN /\ Write(Only(u, want)) /\ applying' = u
              /\ known' = IF known[u] = stamp[u] THEN [known EXCEPT ![u] = stamp'[u]] ELSE known
    BY <1>18 DEF ApplyWrites
  <2>2. UNCHANGED <<acc, snapshot, pass, token>> /\ applying = None
    BY <1>18 DEF ApplyWrites, InLoop, Callable
  <2>3. Later
    BY <1>3, <2>1
  <2>4. FetchSound'
    BY <1>0, <2>2, <2>3, FetchLater
  <2>5. Faithful(pass.list, pass.recs, {})'
    BY <1>0, <2>2, <2>3, PassLater DEF RevisionSound
  <2>6. (token # None => token.known \in [Uids -> Int] /\ Current(token.list, token.known, {}, None))'
    BY <1>0, <2>2, <2>3, TokenLater DEF RevisionSound
  <2>7. (snapshot # None => Current(snapshot, known, {}, applying))'
    BY <1>0, <2>1, <2>2, WriteKnown DEF RevisionSound
  <2>8. known' \in [Uids -> Int]
    BY <1>0, <2>1 DEF RevisionSound
  <2>. QED
    BY <2>1, <2>4, <2>5, <2>6, <2>7, <2>8 DEF RevisionSound
<1>19. CASE ApplyFails
  <2>1. /\ UNCHANGED <<fileVars, acc, snapshot, pass, known, applying>> /\ applying = None
        /\ snapshot # None /\ token' = [list |-> snapshot, known |-> known]
    BY <1>19 DEF ApplyFails, InLoop, Callable
  <2>2. FetchSound' /\ Faithful(pass.list, pass.recs, {})'
    BY <1>0, <1>2, <2>1, FetchLater, PassLater DEF RevisionSound
  <2>3. Current(snapshot, known, {}, applying)'
    BY <1>0, <1>2, <2>1, SnapshotLater DEF RevisionSound
  <2>4. token'.list = snapshot' /\ token'.known = known' /\ applying' = None
    BY <2>1
  <2>5. Current(token.list, token.known, {}, None)'
    BY <2>3, <2>4 DEF Current
  <2>. QED
    BY <2>1, <2>2, <2>3, <2>4, <2>5 DEF RevisionSound
<1>20. CASE ApplyStats
  <2>1. UNCHANGED <<fileVars, acc, pass, known>> /\ applying \in Uids /\ applying' = None
    BY <1>20 DEF ApplyStats, RevisionSound
  <2>2. FetchSound' /\ Faithful(pass.list, pass.recs, {})' /\ known' \in [Uids -> Int]
    BY <1>0, <1>2, <2>1, FetchLater, PassLater DEF RevisionSound
  <2>3. CASE snapshot = None
    <3>1. UNCHANGED <<snapshot, token>>
      BY <1>20, <2>3 DEF ApplyStats
    <3>2. (token # None => token.known \in [Uids -> Int] /\ Current(token.list, token.known, {}, None))'
      BY <1>0, <1>2, <2>1, <3>1, TokenLater DEF RevisionSound
    <3>. QED
      BY <2>1, <2>2, <2>3, <3>1, <3>2 DEF RevisionSound
  <2>4. CASE snapshot # None
    <3>1. snapshot' = Patched(applying) /\ token' = [list |-> snapshot', known |-> known]
      BY <1>20, <2>4 DEF ApplyStats
    <3>2. Current(Patched(applying), known, {}, None)
      BY <2>1, <2>4, PatchCurrent DEF RevisionSound
    <3>3. Current(snapshot, known, {}, None)'
      BY <2>1, <3>1, <3>2 DEF Current
    <3>4. token'.list = snapshot' /\ token'.known = known'
      BY <2>1, <3>1
    <3>5. Current(token.list, token.known, {}, None)'
      BY <3>3, <3>4 DEF Current
    <3>. QED
      BY <2>1, <2>2, <3>3, <3>4, <3>5 DEF RevisionSound
  <2>. QED
    BY <2>3, <2>4
<1>21. CASE ForeignEdit
  <2>1. (\E changed : Write(changed)) /\ Calm /\ UNCHANGED acc
    BY <1>21 DEF ForeignEdit
  <2>. QED
    BY <1>1, <1>3, <2>1
<1>22. CASE Destroy
  <2>1. UNCHANGED fileVars /\ Calm /\ UNCHANGED acc
    BY <1>22 DEF Destroy
  <2>. QED
    BY <1>1, <1>2, <2>1
<1>23. ASSUME NEW op \in Ops, OperationTurn(op) PROVE RevisionSound'
  BY <1>12, <1>13, <1>14, <1>16, <1>23 DEF OperationTurn
<1>. QED
  BY <1>8, <1>9, <1>10, <1>11, <1>15, <1>17, <1>18, <1>19, <1>20, <1>21, <1>22, <1>23 DEF Next

(***************************************************************************)
(* The writer and the batches.                                             *)
(***************************************************************************)
FileTypes(n) == {Absent, Torn} \union [Slots -> 0..n]
Requests(n) == [uid : Uids, family : [Slots -> 0..n] \ {Empty}]
BatchesOf(n) == [id : Batches, writes : [Uids -> [Slots -> 0..n]]]

LEMMA Grows ==
    ASSUME NEW n \in Nat, NEW k \in Nat, k >= n
    PROVE  /\ [Slots -> 0..n] \subseteq [Slots -> 0..k]
           /\ FileTypes(n) \subseteq FileTypes(k)
           /\ Requests(n) \subseteq Requests(k) /\ BatchesOf(n) \subseteq BatchesOf(k)
           /\ Seq(Requests(n)) \subseteq Seq(Requests(k))
           /\ Seq(BatchesOf(n)) \subseteq Seq(BatchesOf(k))
<1>1. [Slots -> 0..n] \subseteq [Slots -> 0..k]
  OBVIOUS
<1>2. Requests(n) \subseteq Requests(k)
  BY <1>1 DEF Requests
<1>3. BatchesOf(n) \subseteq BatchesOf(k)
  BY <1>1 DEF BatchesOf
<1>. QED
  BY <1>1, <1>2, <1>3 DEF FileTypes

LEMMA SetAsSeq ==
    ASSUME NEW S, IsFiniteSet(S)
    PROVE  /\ SetToSeq(S) \in [1..Cardinality(S) -> S] /\ Cardinality(S) \in Nat
           /\ \A i, j \in 1..Cardinality(S) : SetToSeq(S)[i] = SetToSeq(S)[j] => i = j
           /\ \A x \in S : \E i \in 1..Cardinality(S) : SetToSeq(S)[i] = x
           /\ Len(SetToSeq(S)) = Cardinality(S)
<1>. DEFINE n == Cardinality(S)
<1>1. n \in Nat /\ ExistsBijection(1..n, S)
  BY FS_CardinalityType
<1>2. PICK g \in [1..n -> S] : \A i, j \in 1..n : g[i] = g[j] => i = j
  BY <1>1 DEF ExistsBijection, Bijection, Injection, IsInjective
<1>3. \E f \in [1..n -> S] : IsInjective(f)
  BY <1>2 DEF IsInjective
<1>4. SetToSeq(S) \in [1..n -> S] /\ IsInjective(SetToSeq(S))
  BY <1>3 DEF SetToSeq
<1>5. PICK f \in [1..n -> S] : f = SetToSeq(S) /\ IsInjective(f)
  BY <1>4
<1>6. f \in Injection(1..n, S)
  BY <1>5 DEF Injection, IsInjective
<1>7. Cardinality(1..n) = n
  BY <1>1, FS_Interval
<1>8. f \in Surjection(1..n, S)
  BY <1>6, <1>7, FS_Injection
<1>9. \A x \in S : \E i \in 1..n : f[i] = x
  BY <1>8 DEF Surjection
<1>10. Len(f) = n
  BY <1>1
<1>. QED
  BY <1>1, <1>5, <1>9, <1>10 DEF IsInjective

(* The writer is given a request for each family of the first batch.       *)
LEMMA StartedBatch ==
    ASSUME NEW n \in Nat, NEW queue \in Seq(BatchesOf(n)), queue # <<>>,
           files' \in [Uids -> FileTypes(n)],
           thread = "off", current = 0, StartNextWriteBatch(queue)
    PROVE  LET b == Head(queue)
           IN  /\ current' = b.id /\ batches' = Tail(queue)
               /\ thread' = "writing" /\ tally' = NoTally /\ finishing' = TRUE
               /\ UNCHANGED <<writing, report>>
               /\ wqueue' \in Seq(Requests(n)) /\ Len(wqueue') = Cardinality(Puts(b))
               /\ \A i, j \in 1..Len(wqueue') : wqueue'[i].uid = wqueue'[j].uid => i = j
               /\ \A i \in 1..Len(wqueue') :
                     /\ wqueue'[i].uid \in Puts(b)
                     /\ wqueue'[i].family = Merge(FamilyIn(files'[wqueue'[i].uid]),
                                                  b.writes[wqueue'[i].uid])
               /\ \A u \in Puts(b) : \E i \in 1..Len(wqueue') : wqueue'[i].uid = u
<1>. DEFINE b == Head(queue)
            us == SetToSeq(Puts(b))
            c == Cardinality(Puts(b))
<1>1. b \in BatchesOf(n)
  OBVIOUS
<1>2. Puts(b) \subseteq Uids /\ IsFiniteSet(Puts(b))
  BY FilesAssumption, FS_Subset DEF Puts
<1>3. /\ us \in [1..c -> Puts(b)] /\ c \in Nat /\ Len(us) = c
      /\ \A i, j \in 1..c : us[i] = us[j] => i = j
      /\ \A u \in Puts(b) : \E i \in 1..c : us[i] = u
  BY <1>2, SetAsSeq
<1>4. /\ current' = b.id /\ batches' = Tail(queue)
      /\ StartBatch([i \in 1..Len(us) |-> Request(b, us[i])])
  BY DEF StartNextWriteBatch, WriterFree
<1>5. /\ thread' = "writing" /\ tally' = NoTally /\ finishing' = TRUE
      /\ UNCHANGED <<writing, report>>
      /\ wqueue' = [i \in 1..Len(us) |-> Request(b, us[i])]
  BY <1>4 DEF StartBatch
<1>. HIDE DEF b, us, c
<1>6. \A u \in Puts(b) :
         LET r == Request(b, u)
         IN  /\ r.uid = u /\ r.family = Merge(FamilyIn(files'[u]), b.writes[u])
             /\ r \in Requests(n)
  <2>. SUFFICES ASSUME NEW u \in Puts(b) PROVE Request(b, u) \in Requests(n)
    BY DEF Request
  <2>1. b.writes[u] \in [Slots -> 0..n] /\ b.writes[u] # Empty /\ u \in Uids
    BY <1>1, <1>2 DEF Puts, BatchesOf
  <2>2. FamilyIn(files'[u]) \in [Slots -> 0..n]
    BY <2>1, Values DEF FileTypes, FamilyIn
  <2>3. Merge(FamilyIn(files'[u]), b.writes[u]) \in [Slots -> 0..n] \ {Empty}
    <3>1. PICK old \in [Slots -> 0..n], new \in [Slots -> 0..n] :
             old = FamilyIn(files'[u]) /\ new = b.writes[u]
      BY <2>1, <2>2
    <3>2. new # Empty
      BY <2>1, <3>1
    <3>3. Merge(old, new) \in [Slots -> 0..n] /\ Merge(old, new) # Empty
      BY <3>2, MergeTyped
    <3>. QED
      BY <3>1, <3>3
  <2>. QED
    BY <2>1, <2>3 DEF Request, Requests
<1>7. wqueue' \in [1..c -> Requests(n)]
  BY <1>3, <1>5, <1>6
<1>8. wqueue' \in Seq(Requests(n)) /\ Len(wqueue') = c
  BY <1>3, <1>7
<1>9. \A i \in 1..c : wqueue'[i] = Request(b, us[i]) /\ us[i] \in Puts(b)
  BY <1>3, <1>5
<1>10. \A i \in 1..c : wqueue'[i].uid = us[i]
  BY <1>6, <1>9
<1>. QED
  BY <1>3, <1>4, <1>5, <1>6, <1>8, <1>9, <1>10 DEF b, c

LEMMA NoBatchStarted ==
    ASSUME NEW queue, current # 0 \/ queue = <<>>, StartNextWriteBatch(queue)
    PROVE  batches' = queue /\ UNCHANGED <<current, writerVars>>
BY DEF StartNextWriteBatch, WriterFree

Works == Typed /\ WriterSound /\ BatchesNumbered

LEMMA TypedIn ==
    Typed => /\ files \in [Uids -> FileTypes(clock)] /\ wqueue \in Seq(Requests(clock))
             /\ writing \in Requests(clock) \union {NoRequest}
             /\ batches \in Seq(BatchesOf(clock)) /\ meant \in [Uids -> [Slots -> 0..clock]]
             /\ clock \in Nat
BY DEF Typed, TypeOK, FileTypes, Requests, BatchesOf, Family, Batch, WriteRequest

LEMMA InTyped ==
    ASSUME OpTypeOK', clock' \in Nat, stamp' \in [Uids -> Nat],
           files' \in [Uids -> FileTypes(clock')], wqueue' \in Seq(Requests(clock')),
           writing' \in Requests(clock') \union {NoRequest},
           batches' \in Seq(BatchesOf(clock')), meant' \in [Uids -> [Slots -> 0..clock']],
           thread' \in {"off", "writing", "drained"}, thread' = "off" <=> current' = 0,
           finishing' \in BOOLEAN, answering' \in BOOLEAN, taken' \in BOOLEAN, alive' \in BOOLEAN,
           Len(report') <= 1, current' \in Batches \union {0}, submitted' \in Batches \union {0},
           submitted' \in Nat, answer' \in [Batches -> {"none", "ok", "failed"}],
           disturbed' \subseteq Uids, budget' \in Budget,
           tally' \in [good : Nat, bad : Nat],
           1..(submitted' + budget'.stagings) \subseteq Batches
    PROVE  Typed'
BY DEF Typed, TypeOK, FileTypes, Requests, BatchesOf, Family, Batch, WriteRequest, Budget

(* What neither the writer nor a caller with staged changes does.          *)
LEMMA WorksKept ==
    ASSUME Works, UNCHANGED <<writerVars, batches, current, answering, submitted, answer>>,
           OpTypeOK', clock' \in Nat, clock' >= clock, stamp' \in [Uids -> Nat],
           files' \in [Uids -> FileTypes(clock')], meant' \in [Uids -> [Slots -> 0..clock']],
           taken' \in BOOLEAN, alive' \in BOOLEAN, disturbed' \subseteq Uids,
           budget' \in Budget, budget'.stagings = budget.stagings
    PROVE  Works'
<1>. USE DEF Works
<1>1. Typed'
  <2>1. /\ wqueue' \in Seq(Requests(clock')) /\ batches' \in Seq(BatchesOf(clock'))
        /\ writing' \in Requests(clock') \union {NoRequest}
    BY TypedIn, Grows
  <2>. QED
    BY <2>1, InTyped DEF Typed, TypeOK
<1>2. WriterSound' /\ BatchesNumbered'
  BY DEF WriterSound, BatchesNumbered
<1>. QED
  BY <1>1, <1>2

Numbered(queue, last, said) ==
    /\ \A i \in 1..Len(queue) : queue[i].id <= last /\ said[queue[i].id] = "none"
    /\ \A i, j \in 1..Len(queue) : queue[i].id = queue[j].id => i = j

LEMMA StartedSound ==
    ASSUME Works, clock' \in Nat, NEW queue \in Seq(BatchesOf(clock')), queue # <<>>, current = 0,
           files' \in [Uids -> FileTypes(clock')], StartNextWriteBatch(queue),
           NEW last \in Nat, NEW said, Numbered(queue, last, said)
    PROVE  /\ WriterSound'
           /\ wqueue' \in Seq(Requests(clock')) /\ writing' = NoRequest
           /\ batches' \in Seq(BatchesOf(clock')) /\ tally' \in [good : Nat, bad : Nat]
           /\ thread' = "writing" /\ finishing' = TRUE /\ report' = <<>>
           /\ current' \in Batches /\ current' # 0 /\ current' <= last /\ said[current'] = "none"
           /\ Numbered(batches', last, said) /\ \A i \in 1..Len(batches') : batches'[i].id # current'
<1>1. /\ thread = "off" /\ writing = NoRequest /\ report = <<>>
  BY DEF Works, Typed, TypeOK, WriterSound
<1>2. PICK n \in Nat : n = clock'
  OBVIOUS
<1>3. PICK b : b = Head(queue)
  OBVIOUS
<1>4. /\ current' = b.id /\ batches' = Tail(queue)
      /\ thread' = "writing" /\ tally' = NoTally /\ finishing' = TRUE
      /\ UNCHANGED <<writing, report>>
      /\ wqueue' \in Seq(Requests(n))
      /\ \A i, j \in 1..Len(wqueue') : wqueue'[i].uid = wqueue'[j].uid => i = j
  BY <1>1, <1>2, <1>3, StartedBatch
<1>5. /\ b = queue[1] /\ 1 \in 1..Len(queue) /\ b \in BatchesOf(n)
      /\ Tail(queue) \in Seq(BatchesOf(n)) /\ Len(Tail(queue)) = Len(queue) - 1
      /\ \A i \in 1..Len(Tail(queue)) : Tail(queue)[i] = queue[i + 1] /\ i + 1 \in 1..Len(queue)
  BY <1>2, <1>3
<1>6. b.id \in Batches /\ b.id # 0
  BY <1>5, StagingAssumption DEF BatchesOf
<1>7. \A i \in 1..Len(Tail(queue)) : Tail(queue)[i].id # b.id
  BY <1>5 DEF Numbered
<1>8. Numbered(Tail(queue), last, said)
  BY <1>5 DEF Numbered
<1>9. WriterSound'
  BY <1>1, <1>4 DEF WriterSound
<1>. QED
  BY <1>1, <1>2, <1>4, <1>5, <1>6, <1>7, <1>8, <1>9 DEF Numbered, NoTally

(* What startSync() is asked for.                                          *)
Named(s, u) == {t \in Slots : <<u, t>> \in s.dels}
Brought(s, failing) ==
    [u \in Uids |-> [t \in Slots |-> IF <<u, t>> \in s.puts /\ ~failing THEN clock + 1 ELSE 0]]
Spared(s) == [u \in Uids |-> [t \in Slots |-> IF t \in Named(s, u) THEN 0 ELSE meant[u][t]]]
Troubled(s) ==
    {u \in Uids : \E t \in Named(s, u) : u \in Held \/ RemovesMore(files[u], t)}
Removed(s, kept) ==
    [u \in {v \in Uids : Named(s, v) # {} /\ files[v] # Absent} \ kept |->
        RemoveItem(files[u], CHOOSE t \in Named(s, u) : TRUE)]
Submitted(s, failing) == [id |-> submitted + 1, writes |-> Brought(s, failing)]

LEMMA SubmittedTyped ==
    ASSUME Works, NEW s \in Stagings, NEW failing \in BOOLEAN, budget.stagings > 0
    PROVE  /\ Submitted(s, failing) \in BatchesOf(clock + 1)
           /\ submitted + 1 \in Batches /\ answer[submitted + 1] = "none"
           /\ Append(batches, Submitted(s, failing)) \in Seq(BatchesOf(clock + 1))
           /\ Numbered(Append(batches, Submitted(s, failing)), submitted + 1, answer)
<1>1. submitted \in Nat /\ clock \in Nat /\ budget.stagings \in Nat
  BY DEF Works, Typed, Budget
<1>2. submitted + 1 \in Batches
  BY <1>1 DEF Works, Typed
<1>3. answer[submitted + 1] = "none"
  BY <1>1, <1>2 DEF Works, BatchesNumbered
<1>4. Submitted(s, failing) \in BatchesOf(clock + 1)
  BY <1>1, <1>2 DEF Submitted, Brought, BatchesOf
<1>5. batches \in Seq(BatchesOf(clock + 1))
  BY <1>1, TypedIn, Grows DEF Works
<1>6. PICK b, q : b = Submitted(s, failing) /\ q = Append(batches, b)
  OBVIOUS
<1>7. /\ q \in Seq(BatchesOf(clock + 1)) /\ Len(q) = Len(batches) + 1 /\ q[Len(batches) + 1] = b
      /\ \A i \in 1..Len(batches) : q[i] = batches[i]
      /\ Len(batches) \in Nat
  BY <1>4, <1>5, <1>6
<1>8. b.id = submitted + 1
  BY <1>6 DEF Submitted
<1>9. \A i \in 1..Len(batches) : batches[i].id \in Nat
  <2>1. \A i \in 1..Len(batches) : batches[i] \in BatchesOf(clock + 1)
    BY <1>5
  <2>2. \A x \in BatchesOf(clock + 1) : x.id \in Nat
    BY StagingAssumption DEF BatchesOf
  <2>. QED
    BY <2>1, <2>2
<1>10. Numbered(q, submitted + 1, answer)
  <2>1. \A i \in 1..Len(batches) : batches[i].id <= submitted /\ answer[batches[i].id] = "none"
    BY DEF Works, BatchesNumbered
  <2>2. \A i \in 1..Len(q) : i \in 1..Len(batches) \/ i = Len(batches) + 1
    BY <1>7
  <2>3. \A i \in 1..Len(q) : q[i].id <= submitted + 1 /\ answer[q[i].id] = "none"
    BY <1>1, <1>3, <1>7, <1>8, <1>9, <2>1, <2>2
  <2>4. \A i \in 1..Len(batches) : q[i].id # b.id
    BY <1>1, <1>7, <1>8, <1>9, <2>1
  <2>5. \A i, j \in 1..Len(batches) : q[i].id = q[j].id => i = j
    BY <1>7 DEF Works, BatchesNumbered
  <2>6. \A i, j \in 1..Len(q) : q[i].id = q[j].id => i = j
    BY <1>7, <2>2, <2>4, <2>5
  <2>. QED
    BY <2>3, <2>6 DEF Numbered
<1>. QED
  BY <1>2, <1>3, <1>4, <1>6, <1>7, <1>10

(* startSync(), case by case.                                              *)
LEMMA StartSyncDoes ==
    ASSUME Works, NEW s \in Stagings, NEW failing \in BOOLEAN, NEW kept \in SUBSET Uids,
           StartSync(s, failing, kept)
    PROVE  /\ Callable /\ budget.stagings > 0
           /\ kept # {} => budget.troubles > 0
           /\ budget' = [budget EXCEPT !.stagings = @ - 1,
                                       !.troubles = IF kept = {} THEN @ ELSE @ - 1]
           /\ submitted' = submitted + 1 /\ clock' = clock + 1
           /\ UNCHANGED <<opVars, fetchVars, answering, alive>>
           /\ meant' = [u \in Uids |-> Merge(Spared(s)[u], Brought(s, failing)[u])]
           /\ Write(Removed(s, kept))
           /\ disturbed' = disturbed \union kept \union Troubled(s)
           /\ \/ /\ s.puts = {} \/ failing
                 /\ answer' = [answer EXCEPT ![submitted + 1] = IF s.puts = {} THEN "ok" ELSE "failed"]
                 /\ UNCHANGED <<batches, current, writerVars>>
              \/ /\ s.puts # {} /\ ~failing
                 /\ StartNextWriteBatch(Append(batches, Submitted(s, failing)))
                 /\ UNCHANGED answer
BY DEF StartSync, Named, Troubled, Removed, Brought, Spared, Submitted

LEMMA StartSyncDisturbs ==
    ASSUME Works, NEW s \in Stagings, NEW failing \in BOOLEAN, NEW kept \in SUBSET Uids,
           StartSync(s, failing, kept)
    PROVE  disturbed' = disturbed \union kept \union Troubled(s)
BY DEF StartSync, Named, Troubled

LEMMA StartSyncWorks ==
    ASSUME Works, OpTypeOK', NEW s \in Stagings, NEW failing \in BOOLEAN,
           NEW kept \in SUBSET Uids, StartSync(s, failing, kept)
    PROVE  Works'
<1>. USE DEF Works
<1>1. /\ submitted \in Nat /\ clock \in Nat /\ budget \in Budget /\ budget.stagings \in Nat
      /\ budget.stagings > 0
  BY StartSyncDoes DEF Typed, Budget
<1>2. /\ clock' = clock + 1 /\ submitted' = submitted + 1
      /\ UNCHANGED <<answering, alive, taken>>
  BY StartSyncDoes
<1>3. /\ budget' \in Budget /\ budget'.stagings = budget.stagings - 1
      /\ submitted' + budget'.stagings = submitted + budget.stagings
  <2>1. PICK left :
           /\ left = IF kept = {} THEN budget.troubles ELSE budget.troubles - 1
           /\ budget' = [budget EXCEPT !.stagings = budget.stagings - 1, !.troubles = left]
    BY StartSyncDoes
  <2>2. budget.stagings - 1 \in Nat /\ left \in Nat
    <3>1. kept # {} => budget.troubles > 0
      BY StartSyncDoes
    <3>2. budget.troubles \in Nat
      BY <1>1 DEF Budget
    <3>. QED
      BY <1>1, <2>1, <3>1, <3>2
  <2>3. budget' \in Budget /\ budget'.stagings = budget.stagings - 1
    BY <1>1, <2>1, <2>2 DEF Budget
  <2>. QED
    BY <1>1, <1>2, <2>3
<1>4. 1..(submitted' + budget'.stagings) \subseteq Batches
  BY <1>3 DEF Typed
<1>5. meant' \in [Uids -> [Slots -> 0..clock']]
  <2>1. \A u \in Uids : /\ Spared(s)[u] \in [Slots -> 0..clock']
                        /\ Brought(s, failing)[u] \in [Slots -> 0..clock']
    BY <1>1, <1>2, TypedIn DEF Spared, Brought
  <2>2. clock' \in Nat
    BY <1>1, <1>2
  <2>3. PICK n \in Nat : n = clock'
    BY <2>2
  <2>4. \A u \in Uids : Merge(Spared(s)[u], Brought(s, failing)[u]) \in [Slots -> 0..n]
    BY <2>1, <2>3, MergeTyped
  <2>5. meant' = [u \in Uids |-> Merge(Spared(s)[u], Brought(s, failing)[u])]
    BY StartSyncDoes
  <2>. QED
    BY <2>3, <2>4, <2>5
<1>6. stamp' \in [Uids -> Nat] /\ files' \in [Uids -> FileTypes(clock')]
  <2>0. PICK changed : changed = Removed(s, kept) /\ Write(changed)
    BY StartSyncDoes
  <2>1. /\ DOMAIN changed \subseteq Uids
        /\ \A u \in DOMAIN changed :
              changed[u] = RemoveItem(files[u], CHOOSE t \in Named(s, u) : TRUE)
    BY <2>0 DEF Removed
  <2>2. \A u \in DOMAIN changed : changed[u] \in FileTypes(clock)
    <3>. SUFFICES ASSUME NEW u \in Uids, NEW t PROVE RemoveItem(files[u], t) \in FileTypes(clock)
      BY <2>1
    <3>1. files[u] \in FileTypes(clock)
      BY TypedIn
    <3>2. CASE IsFamily(files[u])
      <4>1. files[u] \in [Slots -> 0..clock]
        BY <3>1, <3>2 DEF FileTypes, IsFamily
      <4>2. Without(files[u], t) \in [Slots -> 0..clock]
        <5>1. Without(files[u], t) = [x \in Slots |-> IF x = t THEN 0 ELSE files[u][x]]
          BY <4>1 DEF Without
        <5>. QED
          BY <1>1, <4>1, <5>1
      <4>. QED
        BY <4>2 DEF FileTypes, RemoveItem
    <3>3. CASE ~IsFamily(files[u])
      BY <3>1, <3>3 DEF FileTypes, RemoveItem
    <3>. QED
      BY <3>2, <3>3
  <2>3. FileTypes(clock) \subseteq FileTypes(clock')
    BY <1>1, <1>2, Grows
  <2>4. /\ stamp' \in [Uids -> Nat]
        /\ \A u \in Uids : files'[u] = IF u \in DOMAIN changed THEN changed[u] ELSE files[u]
        /\ files' = [u \in Uids |-> files'[u]]
    BY <2>0, Writes DEF Typed
  <2>5. \A u \in Uids : files[u] \in FileTypes(clock)
    BY TypedIn
  <2>6. \A u \in Uids : files'[u] \in FileTypes(clock')
    BY <2>2, <2>3, <2>4, <2>5
  <2>. QED
    BY <2>4, <2>6
<1>7. disturbed' \subseteq Uids
  <2>1. disturbed' = disturbed \union kept \union Troubled(s)
    BY StartSyncDisturbs
  <2>. QED
    BY <2>1 DEF Typed, TypeOK, Troubled
<1>8. submitted + 1 \in Batches /\ submitted' \in Batches
  BY <1>2, StartSyncDoes, SubmittedTyped
<1>0. /\ clock' \in Nat /\ submitted' \in Nat
      /\ answering' \in BOOLEAN /\ taken' \in BOOLEAN /\ alive' \in BOOLEAN
  BY <1>1, <1>2 DEF Typed, TypeOK
<1>9. CASE /\ UNCHANGED <<batches, current, writerVars>>
           /\ \E a \in {"ok", "failed"} : answer' = [answer EXCEPT ![submitted + 1] = a]
  <2>1. Typed'
    <3>1. /\ wqueue' \in Seq(Requests(clock')) /\ batches' \in Seq(BatchesOf(clock'))
          /\ writing' \in Requests(clock') \union {NoRequest}
      BY <1>1, <1>2, <1>9, TypedIn, Grows
    <3>2. answer' \in [Batches -> {"none", "ok", "failed"}]
      BY <1>8, <1>9 DEF Typed, TypeOK
    <3>3. /\ thread' \in {"off", "writing", "drained"} /\ (thread' = "off" <=> current' = 0)
          /\ finishing' \in BOOLEAN /\ Len(report') <= 1 /\ current' \in Batches \union {0}
          /\ tally' \in [good : Nat, bad : Nat]
      BY <1>9 DEF Typed, TypeOK
    <3>. QED
      BY <1>0, <1>3, <1>4, <1>5, <1>6, <1>7, <1>8, <3>1, <3>2, <3>3, InTyped
  <2>2. WriterSound'
    BY <1>9 DEF WriterSound
  <2>3. BatchesNumbered'
    <3>1. \A b \in Batches : b # submitted + 1 => answer'[b] = answer[b]
      BY <1>9 DEF Typed, TypeOK
    <3>2. \A i \in 1..Len(batches) : batches[i].id \in Batches
      <4>1. \A i \in 1..Len(batches) : batches[i] \in Batch
        BY DEF Typed
      <4>. QED
        BY <4>1 DEF Batch
    <3>3. \A b \in Batches \union {0} : b \in Nat
      BY StagingAssumption
    <3>4. current \in Nat /\ current \in Batches \union {0}
      BY <3>3 DEF Typed, TypeOK
    <3>5. \A i \in 1..Len(batches) : /\ batches[i].id <= submitted' /\ batches[i].id # current
                                     /\ answer'[batches[i].id] = "none"
      BY <1>1, <1>2, <3>1, <3>2, <3>3 DEF BatchesNumbered
    <3>6. current <= submitted' /\ (current # 0 => answer'[current] = "none")
      BY <1>1, <1>2, <3>1, <3>4 DEF BatchesNumbered
    <3>7. \A b \in Batches : b > submitted' => answer'[b] = "none"
      BY <1>1, <1>2, <3>1, <3>3 DEF BatchesNumbered
    <3>. QED
      BY <1>9, <3>5, <3>6, <3>7 DEF BatchesNumbered
  <2>. QED
    BY <2>1, <2>2, <2>3
<1>10. CASE /\ StartNextWriteBatch(Append(batches, Submitted(s, failing)))
            /\ UNCHANGED answer
  <2>1. PICK queue : queue = Append(batches, Submitted(s, failing))
    OBVIOUS
  <2>2. /\ queue \in Seq(BatchesOf(clock')) /\ queue # <<>>
        /\ Numbered(queue, submitted', answer) /\ StartNextWriteBatch(queue)
    BY <1>1, <1>2, <1>10, <2>1, SubmittedTyped
  <2>3. \A b \in Batches : b > submitted' => answer'[b] = "none"
    BY <1>1, <1>2, <1>10, StagingAssumption DEF BatchesNumbered
  <2>4. clock' \in Nat /\ submitted' \in Nat
    BY <1>1, <1>2
  <2>5. CASE current = 0
    <3>1. PICK last \in Nat : last = submitted'
      BY <2>4
    <3>0. PICK said : said = answer
      OBVIOUS
    <3>2. /\ WriterSound'
          /\ wqueue' \in Seq(Requests(clock')) /\ writing' = NoRequest
          /\ batches' \in Seq(BatchesOf(clock')) /\ tally' \in [good : Nat, bad : Nat]
          /\ thread' = "writing" /\ finishing' = TRUE /\ report' = <<>>
          /\ current' \in Batches /\ current' # 0 /\ current' <= last /\ said[current'] = "none"
          /\ Numbered(batches', last, said) /\ \A i \in 1..Len(batches') : batches'[i].id # current'
      BY <1>6, <2>2, <2>4, <2>5, <3>0, <3>1, StartedSound
    <3>3. Typed'
      <4>1. answer' \in [Batches -> {"none", "ok", "failed"}]
        BY <1>10 DEF Typed, TypeOK
      <4>2. /\ thread' \in {"off", "writing", "drained"} /\ (thread' = "off" <=> current' = 0)
            /\ finishing' \in BOOLEAN /\ Len(report') <= 1 /\ current' \in Batches \union {0}
            /\ writing' \in Requests(clock') \union {NoRequest}
        BY <3>2
      <4>. QED
        BY <1>0, <1>3, <1>4, <1>5, <1>6, <1>7, <1>8, <3>2, <4>1, <4>2, InTyped
    <3>4. BatchesNumbered'
      BY <1>10, <2>3, <3>0, <3>1, <3>2 DEF BatchesNumbered, Numbered
    <3>. QED
      BY <3>2, <3>3, <3>4
  <2>6. CASE current # 0
    <3>1. batches' = queue /\ UNCHANGED <<current, writerVars>>
      BY <2>2, <2>6, NoBatchStarted
    <3>2. wqueue' \in Seq(Requests(clock')) /\ writing' \in Requests(clock') \union {NoRequest}
      BY <1>1, <1>2, <3>1, TypedIn, Grows
    <3>3. Typed'
      BY <1>1, <1>2, <1>3, <1>4, <1>5, <1>6, <1>7, <1>8, <1>10, <2>2, <2>4, <3>1, <3>2, InTyped
         DEF Typed, TypeOK
    <3>4. \A i \in 1..Len(queue) : queue[i].id # current
      <4>1. current \in Batches /\ current <= submitted
        BY <2>6 DEF Typed, TypeOK, BatchesNumbered
      <4>2. current # submitted + 1
        BY <1>1, <4>1, StagingAssumption
      <4>3. \A i \in 1..Len(queue) : \/ i \in 1..Len(batches) /\ queue[i] = batches[i]
                                     \/ queue[i].id = submitted + 1
        BY <2>1 DEF Typed, Submitted
      <4>. QED
        BY <4>2, <4>3 DEF BatchesNumbered
    <3>5. BatchesNumbered'
      <4>1. current \in Batches /\ current <= submitted /\ answer[current] = "none"
        BY <2>6 DEF Typed, TypeOK, BatchesNumbered
      <4>2. current <= submitted'
        BY <1>1, <1>2, <4>1, StagingAssumption
      <4>. QED
        BY <1>10, <2>2, <2>3, <3>1, <3>4, <4>1, <4>2 DEF BatchesNumbered, Numbered
    <3>6. WriterSound'
      BY <3>1 DEF WriterSound
    <3>. QED
      BY <3>3, <3>5, <3>6
  <2>. QED
    BY <2>5, <2>6
<1>. QED
  BY <1>9, <1>10, StartSyncDoes

LEMMA AnsweredWorks == ASSUME Works, OpTypeOK', OnAsyncWritesFinished PROVE Works'
<1>. USE DEF Works
<1>1. /\ report # <<>> /\ StopWriter
      /\ answer' = [answer EXCEPT ![current] = IF report[1].bad > 0 THEN "failed" ELSE "ok"]
      /\ current' = 0 /\ answering' = TRUE
      /\ UNCHANGED <<fileVars, fetchVars, clock, batches, submitted, alive, budget,
                     meant, disturbed>>
  BY DEF OnAsyncWritesFinished
<1>2. current # 0 /\ current \in Batches
  BY <1>1 DEF Typed, TypeOK, WriterSound
<1>3. /\ \A b \in Batches : b # current => answer'[b] = answer[b]
      /\ answer' \in [Batches -> {"none", "ok", "failed"}]
  BY <1>1, <1>2 DEF Typed, TypeOK
<1>4. /\ thread' = "off" /\ wqueue' = <<>> /\ finishing' = FALSE /\ report' = <<>>
      /\ tally' = NoTally /\ writing' = NoRequest
  BY <1>1 DEF StopWriter
<1>5. Typed'
  <2>1. wqueue' \in Seq(Requests(clock')) /\ tally' \in [good : Nat, bad : Nat] /\ Len(report') <= 1
    BY <1>4 DEF NoTally
  <2>. QED
    BY <1>1, <1>3, <1>4, <2>1, InTyped, TypedIn DEF Typed, TypeOK
<1>6. WriterSound'
  BY <1>4 DEF WriterSound
<1>7. BatchesNumbered'
  <2>1. \A i \in 1..Len(batches) : batches[i].id \in Batches /\ batches[i].id # 0
    <3>1. \A i \in 1..Len(batches) : batches[i] \in Batch
      BY DEF Typed
    <3>. QED
      BY <3>1, StagingAssumption DEF Batch
  <2>2. \A i \in 1..Len(batches) : batches[i].id # current
    BY DEF BatchesNumbered
  <2>3. \A b \in Batches : b > submitted => b # current
    BY <1>2, StagingAssumption DEF BatchesNumbered, Typed
  <2>4. 0 <= submitted
    BY DEF Typed
  <2>. QED
    BY <1>1, <1>3, <2>1, <2>2, <2>3, <2>4 DEF BatchesNumbered
<1>. QED
  BY <1>5, <1>6, <1>7

LEMMA NextBatchWorks == ASSUME Works, OpTypeOK', AnswerReturns PROVE Works'
<1>. USE DEF Works
<1>1. /\ answering' = FALSE /\ StartNextWriteBatch(batches)
      /\ UNCHANGED <<fileVars, fetchVars, clock, submitted, answer, alive, budget,
                     meant, disturbed>>
  BY DEF AnswerReturns
<1>2. /\ clock' = clock /\ clock' \in Nat /\ submitted \in Nat
      /\ files' \in [Uids -> FileTypes(clock')] /\ batches \in Seq(BatchesOf(clock'))
  BY <1>1, TypedIn DEF Typed
<1>3. /\ stamp' \in [Uids -> Nat] /\ meant' \in [Uids -> [Slots -> 0..clock']]
      /\ answering' \in BOOLEAN /\ taken' \in BOOLEAN /\ alive' \in BOOLEAN
      /\ disturbed' \subseteq Uids /\ submitted' \in Batches \union {0} /\ submitted' \in Nat
      /\ answer' \in [Batches -> {"none", "ok", "failed"}] /\ budget' \in Budget
      /\ 1..(submitted' + budget'.stagings) \subseteq Batches
  BY <1>1 DEF Typed, TypeOK
<1>4. CASE current = 0 /\ batches # <<>>
  <2>1. PICK queue : queue = batches
    OBVIOUS
  <2>2. PICK last \in Nat : last = submitted
    BY <1>2
  <2>3. PICK said : said = answer
    OBVIOUS
  <2>4. Numbered(queue, last, said)
    BY <2>1, <2>2, <2>3 DEF BatchesNumbered, Numbered
  <2>5. queue \in Seq(BatchesOf(clock')) /\ queue # <<>> /\ StartNextWriteBatch(queue)
    BY <1>1, <1>2, <1>4, <2>1
  <2>6. /\ WriterSound'
        /\ wqueue' \in Seq(Requests(clock')) /\ writing' = NoRequest
        /\ batches' \in Seq(BatchesOf(clock')) /\ tally' \in [good : Nat, bad : Nat]
        /\ thread' = "writing" /\ finishing' = TRUE /\ report' = <<>>
        /\ current' \in Batches /\ current' # 0 /\ current' <= last /\ said[current'] = "none"
        /\ Numbered(batches', last, said) /\ \A i \in 1..Len(batches') : batches'[i].id # current'
    BY <1>2, <1>4, <2>4, <2>5, StartedSound
  <2>7. Typed'
    <3>1. /\ thread' \in {"off", "writing", "drained"} /\ (thread' = "off" <=> current' = 0)
          /\ finishing' \in BOOLEAN /\ Len(report') <= 1 /\ current' \in Batches \union {0}
          /\ writing' \in Requests(clock') \union {NoRequest}
      BY <2>6
    <3>. QED
      BY <1>2, <1>3, <2>6, <3>1, InTyped
  <2>8. BatchesNumbered'
    <3>1. \A b \in Batches : b > submitted => answer[b] = "none"
      BY DEF BatchesNumbered
    <3>. QED
      BY <1>1, <2>2, <2>3, <2>6, <3>1 DEF BatchesNumbered, Numbered
  <2>. QED
    BY <2>6, <2>7, <2>8
<1>5. CASE current # 0 \/ batches = <<>>
  <2>1. UNCHANGED <<batches, current, writerVars>>
    BY <1>1, <1>5, NoBatchStarted
  <2>2. Typed'
    <3>1. /\ thread' \in {"off", "writing", "drained"} /\ (thread' = "off" <=> current' = 0)
          /\ finishing' \in BOOLEAN /\ Len(report') <= 1 /\ current' \in Batches \union {0}
          /\ wqueue' \in Seq(Requests(clock')) /\ writing' \in Requests(clock') \union {NoRequest}
          /\ tally' \in [good : Nat, bad : Nat] /\ batches' \in Seq(BatchesOf(clock'))
      BY <1>2, <2>1, TypedIn DEF Typed, TypeOK
    <3>. QED
      BY <1>2, <1>3, <3>1, InTyped
  <2>. QED
    BY <1>1, <2>1, <2>2 DEF WriterSound, BatchesNumbered
<1>. QED
  BY <1>4, <1>5

(* The writer goes on.                                                     *)
LEMMA WriterGoesOn ==
    ASSUME Works, OpTypeOK',
           UNCHANGED <<clock, batches, current, answering, submitted, answer, alive, taken, meant>>,
           disturbed' \subseteq Uids, budget' \in Budget, budget'.stagings = budget.stagings,
           WorkerStep \/ WorkerTrouble
    PROVE  Works'
<1>. USE DEF Works
<1>1. /\ files \in [Uids -> FileTypes(clock)] /\ wqueue \in Seq(Requests(clock))
      /\ writing \in Requests(clock) \union {NoRequest}
      /\ batches \in Seq(BatchesOf(clock)) /\ meant \in [Uids -> [Slots -> 0..clock]]
      /\ clock \in Nat /\ stamp \in [Uids -> Nat]
  BY TypedIn DEF Typed
<1>2. /\ clock' \in Nat /\ batches' \in Seq(BatchesOf(clock'))
      /\ meant' \in [Uids -> [Slots -> 0..clock']]
      /\ answering' \in BOOLEAN /\ taken' \in BOOLEAN /\ alive' \in BOOLEAN
      /\ disturbed' \subseteq Uids /\ submitted' \in Batches \union {0} /\ submitted' \in Nat
      /\ answer' \in [Batches -> {"none", "ok", "failed"}] /\ current' \in Batches \union {0}
      /\ budget' \in Budget /\ 1..(submitted' + budget'.stagings) \subseteq Batches
  BY <1>1 DEF Typed, TypeOK
<1>3. thread \in {"off", "writing", "drained"} /\ (thread = "off" <=> current = 0)
  BY DEF Typed, TypeOK
<1>4. tally.good \in Nat /\ tally.bad \in Nat /\ tally = [good |-> tally.good, bad |-> tally.bad]
  BY DEF Typed
<1>5. writing # NoRequest => thread = "writing" /\ report = <<>>
  BY DEF WriterSound
<1>6. ASSUME thread' = thread, UNCHANGED <<finishing, report>>, thread = "writing",
             wqueue' \in Seq(Requests(clock)), writing' \in Requests(clock) \union {NoRequest},
             tally' \in [good : Nat, bad : Nat], WriterSound',
             stamp' \in [Uids -> Nat], files' \in [Uids -> FileTypes(clock)]
      PROVE  Works'
  <2>1. /\ thread' \in {"off", "writing", "drained"} /\ (thread' = "off" <=> current' = 0)
        /\ finishing' \in BOOLEAN /\ Len(report') <= 1
    BY <1>3, <1>6 DEF Typed, TypeOK
  <2>2. wqueue' \in Seq(Requests(clock')) /\ writing' \in Requests(clock') \union {NoRequest}
        /\ files' \in [Uids -> FileTypes(clock')]
    BY <1>6
  <2>3. Typed'
    BY <1>2, <1>6, <2>1, <2>2, InTyped
  <2>4. BatchesNumbered'
    BY DEF BatchesNumbered
  <2>. QED
    BY <1>6, <2>3, <2>4
<1>7. ASSUME wqueue # <<>>
      PROVE  /\ Head(wqueue) = wqueue[1] /\ Head(wqueue) \in Requests(clock)
             /\ Tail(wqueue) \in Seq(Requests(clock)) /\ Len(Tail(wqueue)) = Len(wqueue) - 1
             /\ \A i \in 1..Len(Tail(wqueue)) : /\ Tail(wqueue)[i] = wqueue[i + 1]
                                                /\ i + 1 \in 1..Len(wqueue) /\ i + 1 # 1
             /\ 1 \in 1..Len(wqueue)
  BY <1>1, <1>7
<1>8. ASSUME NEW u \in Uids, NEW f \in FileTypes(clock), Write(Only(u, f))
      PROVE  stamp' \in [Uids -> Nat] /\ files' \in [Uids -> FileTypes(clock)]
  <2>1. PICK changed : changed = Only(u, f) /\ Write(changed)
    BY <1>8
  <2>2. /\ stamp' \in [Uids -> Nat] /\ files' = [v \in Uids |-> files'[v]]
        /\ \A v \in Uids : files'[v] = IF v \in DOMAIN changed THEN changed[v] ELSE files[v]
    BY <1>1, <2>1, Writes
  <2>3. \A v \in Uids : files'[v] \in FileTypes(clock)
    BY <1>1, <2>1, <2>2 DEF Only
  <2>. QED
    BY <2>2, <2>3
<1>9. \A r \in Requests(clock) : r.uid \in Uids /\ r.family \in FileTypes(clock)
  BY DEF Requests, FileTypes
<1>10. [tally EXCEPT !.bad = @ + 1] \in [good : Nat, bad : Nat]
       /\ [tally EXCEPT !.good = @ + 1] \in [good : Nat, bad : Nat]
  <2>1. /\ [tally EXCEPT !.bad = @ + 1] = [good |-> tally.good, bad |-> tally.bad + 1]
        /\ [tally EXCEPT !.good = @ + 1] = [good |-> tally.good + 1, bad |-> tally.bad]
    BY <1>4
  <2>. QED
    BY <1>4, <2>1
<1>11. CASE WorkerOpens
  <2>1. /\ thread = "writing" /\ writing = NoRequest /\ wqueue # <<>>
        /\ wqueue' = Tail(wqueue) /\ writing' = Head(wqueue)
        /\ Write(Only(Head(wqueue).uid, Torn)) /\ UNCHANGED <<thread, finishing, tally, report>>
    BY <1>11 DEF WorkerOpens
  <2>2. stamp' \in [Uids -> Nat] /\ files' \in [Uids -> FileTypes(clock)]
    <3>1. Head(wqueue).uid \in Uids /\ Torn \in FileTypes(clock)
      BY <1>7, <1>9, <2>1 DEF FileTypes
    <3>. QED
      BY <1>8, <2>1, <3>1
  <2>3. WriterSound'
    BY <1>7, <2>1 DEF WriterSound
  <2>4. tally' \in [good : Nat, bad : Nat]
    BY <2>1 DEF Typed
  <2>. QED
    BY <1>6, <1>7, <2>1, <2>2, <2>3, <2>4
<1>12. CASE WorkerCannotOpen
  <2>1. /\ thread = "writing" /\ writing = NoRequest /\ wqueue # <<>>
        /\ wqueue' = Tail(wqueue) /\ tally' = [tally EXCEPT !.bad = @ + 1]
        /\ UNCHANGED <<fileVars, thread, finishing, writing, report>>
    BY <1>12 DEF WorkerCannotOpen
  <2>2. WriterSound'
    BY <1>7, <2>1 DEF WriterSound
  <2>. QED
    BY <1>1, <1>6, <1>7, <1>10, <2>1, <2>2
<1>13. CASE WorkerWrites \/ WorkerCannotWrite
  <2>1. /\ writing # NoRequest /\ writing' = NoRequest
        /\ UNCHANGED <<thread, wqueue, finishing, report>>
        /\ tally' \in [good : Nat, bad : Nat]
    BY <1>10, <1>13 DEF WorkerWrites, WorkerCannotWrite
  <2>2. UNCHANGED fileVars \/ Write(Only(writing.uid, writing.family))
    BY <1>13 DEF WorkerWrites, WorkerCannotWrite
  <2>3. stamp' \in [Uids -> Nat] /\ files' \in [Uids -> FileTypes(clock)]
    <3>1. writing.uid \in Uids /\ writing.family \in FileTypes(clock)
      BY <1>1, <1>9, <2>1
    <3>. QED
      BY <1>1, <1>8, <2>2, <3>1
  <2>4. WriterSound'
    BY <1>5, <2>1 DEF WriterSound
  <2>. QED
    BY <1>1, <1>5, <1>6, <2>1, <2>3, <2>4
<1>14. CASE WorkerDrains
  <2>1. /\ thread = "writing" /\ writing = NoRequest /\ wqueue = <<>>
        /\ thread' = "drained" /\ report' = <<tally>>
        /\ UNCHANGED <<fileVars, wqueue, finishing, writing, tally>>
    BY <1>14 DEF WorkerDrains
  <2>2. /\ thread' \in {"off", "writing", "drained"} /\ (thread' = "off" <=> current' = 0)
        /\ finishing' \in BOOLEAN /\ Len(report') <= 1
        /\ tally' \in [good : Nat, bad : Nat] /\ stamp' \in [Uids -> Nat]
    BY <1>3, <2>1 DEF Typed, TypeOK
  <2>3. /\ wqueue' \in Seq(Requests(clock')) /\ writing' \in Requests(clock') \union {NoRequest}
        /\ files' \in [Uids -> FileTypes(clock')]
    BY <1>1, <2>1
  <2>4. Typed'
    BY <1>2, <2>2, <2>3, InTyped
  <2>5. WriterSound'
    BY <2>1 DEF WriterSound
  <2>6. BatchesNumbered'
    BY DEF BatchesNumbered
  <2>. QED
    BY <2>4, <2>5, <2>6
<1>. QED
  BY <1>11, <1>12, <1>13, <1>14 DEF WorkerStep, WorkerTrouble

(* The operations, whose queue is that of every backend.                   *)
LEMMA OpStep == ASSUME OpInv, Next \/ UNCHANGED vars PROVE OpInv'
<1>1. ASSUME UNCHANGED opVars PROVE OpInv'
  BY <1>1, OpsUnchangedInv
<1>2. ASSUME NEW op \in Ops, NEW outcome \in {"succeeded", "failed"},
             opState[op] = "running", End(op, outcome)
      PROVE  OpInv'
  BY <1>2, EndInv DEF Terminal
<1>3. ASSUME NEW op \in Ops, OperationTurn(op) PROVE OpInv'
  <2>1. CASE BodyBegins(op) \/ BodySkipped(op)
    BY <2>1, StartInv DEF BodyBegins, BodySkipped
  <2>2. CASE FetchStats(op)
    BY <1>1, <2>2 DEF FetchStats
  <2>3. CASE FetchDone(op) \/ PushItem(op) \/ DeleteItem(op) \/ BodyFails(op)
    BY <1>2, <2>3 DEF FetchDone, PushItem, DeleteItem, BodyFails, InBody
  <2>. QED
    BY <1>3, <2>1, <2>2, <2>3 DEF OperationTurn
<1>4. ASSUME NEW op \in Ops, EnqueueOperation(op) \/ CancelOperation(op) \/ DeleteOperation(op)
      PROVE  OpInv'
  <2>1. CASE EnqueueOperation(op)
    BY <2>1, EnqueueInv DEF EnqueueOperation
  <2>2. CASE CancelOperation(op)
    BY <2>2, EndInv DEF CancelOperation, CancelOp, Terminal
  <2>3. CASE DeleteOperation(op)
    BY <2>3, DeleteInv DEF DeleteOperation
  <2>. QED
    BY <1>4, <2>1, <2>2, <2>3
<1>5. ASSUME NEW s \in Stagings, NEW failing \in BOOLEAN, NEW kept \in SUBSET Uids,
             StartSync(s, failing, kept)
      PROVE  UNCHANGED opVars
  BY <1>5 DEF StartSync
<1>6. ASSUME OnAsyncWritesFinished \/ AnswerReturns \/ WorkerWorks \/ WorkerFails PROVE UNCHANGED opVars
  BY <1>6 DEF OnAsyncWritesFinished, AnswerReturns, WorkerWorks, WorkerFails
<1>7. ASSUME FetchReads \/ RecordsFromLastFetch \/ ApplyWrites \/ ApplyFails \/ ApplyStats
             \/ ForeignEdit \/ Destroy
      PROVE  UNCHANGED opVars
  BY <1>7 DEF FetchReads, RecordsFromLastFetch, ApplyWrites, ApplyFails, ApplyStats, ForeignEdit, Destroy
<1>. QED
  BY <1>1, <1>3, <1>4, <1>5, <1>6, <1>7 DEF Next

(* What another party writes to one file.                                  *)
LEMMA OneFile ==
    ASSUME Works, NEW n \in Nat, n >= clock, NEW u \in Uids, NEW f \in FileTypes(n), Write(Only(u, f))
    PROVE  /\ stamp' \in [Uids -> Nat] /\ files' \in [Uids -> FileTypes(n)]
           /\ files'[u] = f /\ \A v \in Uids : v # u => files'[v] = files[v]
<1>1. /\ stamp \in [Uids -> Nat] /\ clock \in Nat /\ files \in [Uids -> FileTypes(clock)]
  BY TypedIn DEF Works, Typed
<1>2. PICK changed : changed = Only(u, f) /\ Write(changed)
  OBVIOUS
<1>3. DOMAIN changed = {u} /\ changed[u] = f
  BY <1>2 DEF Only
<1>4. /\ stamp' \in [Uids -> Nat] /\ files' = [v \in Uids |-> files'[v]]
      /\ \A v \in Uids : files'[v] = IF v \in DOMAIN changed THEN changed[v] ELSE files[v]
  BY <1>1, <1>2, Writes
<1>5. \A v \in Uids : files[v] \in FileTypes(n)
  BY <1>1, Grows
<1>6. \A v \in Uids : files'[v] \in FileTypes(n)
  BY <1>3, <1>4, <1>5
<1>. QED
  BY <1>3, <1>4, <1>6

LEMMA OneMeant ==
    ASSUME Works, NEW n \in Nat, n >= clock, NEW u \in Uids, NEW f \in [Slots -> 0..n],
           meant' = [meant EXCEPT ![u] = f]
    PROVE  meant' \in [Uids -> [Slots -> 0..n]]
<1>1. meant \in [Uids -> [Slots -> 0..clock]] /\ clock \in Nat
  BY TypedIn DEF Works
<1>2. meant \in [Uids -> [Slots -> 0..n]]
  BY <1>1, Grows
<1>. QED
  BY <1>2

LEMMA WorksStep ==
    ASSUME Works, OpInv, OpInv', RevisionSound, Next \/ UNCHANGED vars
    PROVE  Works'
<1>0. /\ OpTypeOK' /\ clock \in Nat /\ clock + 1 \in Nat /\ clock + 1 >= clock
      /\ stamp \in [Uids -> Nat] /\ files \in [Uids -> FileTypes(clock)]
      /\ meant \in [Uids -> [Slots -> 0..clock]]
      /\ taken \in BOOLEAN /\ alive \in BOOLEAN /\ disturbed \subseteq Uids
      /\ budget \in Budget
  BY TypedIn DEF Works, Typed, TypeOK, OpInv
<1>1. \A op \in Ops : Task[op].uid \in Uids
  BY FilesAssumption
<1>2. ASSUME UNCHANGED <<fileVars, writerVars, batchVars, clock, meant, disturbed>>,
             taken' \in BOOLEAN, alive' \in BOOLEAN,
             budget' \in Budget, budget'.stagings = budget.stagings
      PROVE  Works'
  <2>1. /\ clock' \in Nat /\ clock' >= clock /\ stamp' \in [Uids -> Nat]
        /\ files' \in [Uids -> FileTypes(clock')] /\ meant' \in [Uids -> [Slots -> 0..clock']]
        /\ disturbed' \subseteq Uids
    BY <1>0, <1>2
  <2>. QED
    BY <1>0, <1>2, <2>1, WorksKept
<1>3. ASSUME UNCHANGED <<writerVars, batchVars, alive, taken>>, NEW n \in Nat, n >= clock,
             clock' = n, NEW u \in Uids, NEW f \in FileTypes(n),
             \/ Write(Only(u, f))
             \/ UNCHANGED fileVars,
             NEW m \in [Slots -> 0..n], meant' = [meant EXCEPT ![u] = m],
             disturbed' \subseteq Uids, budget' \in Budget, budget'.stagings = budget.stagings
      PROVE  Works'
  <2>1. clock' \in Nat /\ clock' >= clock
    BY <1>3
  <2>2. stamp' \in [Uids -> Nat] /\ files' \in [Uids -> FileTypes(clock')]
    <3>1. CASE Write(Only(u, f))
      BY <1>3, <3>1, OneFile
    <3>2. CASE UNCHANGED fileVars
      BY <1>0, <1>3, <3>2, Grows
    <3>. QED
      BY <1>3, <3>1, <3>2
  <2>3. meant' \in [Uids -> [Slots -> 0..clock']]
    BY <1>3, OneMeant
  <2>. QED
    BY <1>0, <1>3, <2>1, <2>2, <2>3, WorksKept
<1>4. /\ \A o \in SUBSET Ops : /\ [budget EXCEPT !.ops = o] \in Budget
                               /\ [budget EXCEPT !.ops = o].stagings = budget.stagings
      /\ budget.troubles > 0 => /\ [budget EXCEPT !.troubles = @ - 1] \in Budget
                                /\ [budget EXCEPT !.troubles = @ - 1].stagings = budget.stagings
      /\ budget.applied > 0 => /\ [budget EXCEPT !.applied = @ - 1] \in Budget
                               /\ [budget EXCEPT !.applied = @ - 1].stagings = budget.stagings
      /\ budget.foreign > 0 => /\ [budget EXCEPT !.foreign = @ - 1] \in Budget
                               /\ [budget EXCEPT !.foreign = @ - 1].stagings = budget.stagings
  BY <1>0 DEF Budget
<1>5. Lone(clock + 1) \in [Slots -> 0..(clock + 1)] /\ Empty \in [Slots -> 0..(clock + 1)]
      /\ Lone(clock + 1) \in FileTypes(clock + 1) /\ Absent \in FileTypes(clock + 1)
      /\ FamilyIn(Lone(clock + 1)) = Lone(clock + 1) /\ FamilyIn(Absent) = Empty
      /\ Empty \in [Slots -> 0..clock] /\ Absent \in FileTypes(clock)
  <2>1. clock + 1 \in 0..(clock + 1)
    BY <1>0
  <2>. QED
    BY <1>0, <2>1, Values DEF FileTypes
<1>6. ASSUME NEW s \in Stagings, NEW failing \in BOOLEAN, NEW kept \in SUBSET Uids,
             StartSync(s, failing, kept)
      PROVE  Works'
  BY <1>0, <1>6, StartSyncWorks
<1>7. CASE OnAsyncWritesFinished
  BY <1>0, <1>7, AnsweredWorks
<1>8. CASE AnswerReturns
  BY <1>0, <1>8, NextBatchWorks
<1>9. CASE WorkerWorks
  BY <1>0, <1>9, WriterGoesOn DEF WorkerWorks
<1>10. CASE WorkerFails
  <2>1. \A i \in 1..Len(wqueue) : wqueue[i].uid \in Uids
    <3>1. \A i \in 1..Len(wqueue) : wqueue[i] \in Requests(clock)
      BY TypedIn DEF Works
    <3>. QED
      BY <3>1 DEF Requests
  <2>2. writing # NoRequest => writing.uid \in Uids
    BY TypedIn DEF Works, Requests
  <2>3. writing = NoRequest => Head(wqueue).uid \in Uids
    <3>1. writing = NoRequest => wqueue # <<>>
      BY <1>10 DEF WorkerFails, WorkerTrouble, WorkerCannotOpen, WorkerCannotWrite
    <3>2. wqueue # <<>> => 1 \in 1..Len(wqueue) /\ Head(wqueue) = wqueue[1]
      BY TypedIn DEF Works
    <3>. QED
      BY <2>1, <3>1, <3>2
  <2>4. disturbed' \subseteq Uids
    BY <1>0, <1>10, <2>2, <2>3 DEF WorkerFails
  <2>. QED
    BY <1>0, <1>4, <1>10, <2>4, WriterGoesOn DEF WorkerFails
<1>11. ASSUME NEW op \in Ops, EnqueueOperation(op) \/ CancelOperation(op) \/ DeleteOperation(op)
       PROVE  Works'
  <2>1. CASE EnqueueOperation(op)
    <3>1. budget.ops \ {op} \in SUBSET Ops
      BY <1>0 DEF Budget
    <3>. QED
      BY <1>0, <1>2, <1>4, <2>1, <3>1 DEF EnqueueOperation
  <2>2. CASE CancelOperation(op) \/ DeleteOperation(op)
    BY <1>0, <1>2, <2>2 DEF CancelOperation, DeleteOperation
  <2>. QED
    BY <1>11, <2>1, <2>2
<1>12. ASSUME NEW op \in Ops, OperationTurn(op) PROVE Works'
  <2>1. CASE BodyBegins(op) \/ BodySkipped(op) \/ FetchStats(op) \/ FetchDone(op) \/ BodyFails(op)
    BY <1>0, <1>2, <2>1 DEF BodyBegins, BodySkipped, FetchStats, FetchDone, BodyFails
  <2>2. CASE PushItem(op)
    <3>. DEFINE u == Task[op].uid
    <3>1. /\ clock' = clock + 1 /\ Write(Only(u, Lone(clock + 1)))
          /\ meant' = [meant EXCEPT ![u] = Merge(meant[u], Lone(clock + 1))]
          /\ disturbed' \subseteq disturbed \union {u}
          /\ UNCHANGED <<writerVars, batchVars, alive, taken, budget>>
      BY <2>2 DEF PushItem
    <3>2. u \in Uids
      BY <1>1
    <3>3. Merge(meant[u], Lone(clock + 1)) \in [Slots -> 0..(clock + 1)]
      <4>1. PICK old \in [Slots -> 0..(clock + 1)] : old = meant[u]
        BY <1>0, <3>2, Grows
      <4>. QED
        BY <1>0, <1>5, <4>1, MergeTyped
    <3>. QED
      BY <1>0, <1>3, <1>5, <3>1, <3>2, <3>3
  <2>3. CASE DeleteItem(op)
    <3>. DEFINE u == Task[op].uid
    <3>1. /\ clock' = clock /\ (Write(Only(u, Absent)) \/ UNCHANGED fileVars)
          /\ meant' = [meant EXCEPT ![u] = Empty]
          /\ disturbed' \subseteq disturbed \union {u}
          /\ UNCHANGED <<writerVars, batchVars, alive, taken, budget>>
      BY <2>3 DEF DeleteItem
    <3>2. u \in Uids /\ clock >= clock
      BY <1>0, <1>1
    <3>. QED
      BY <1>0, <1>3, <1>5, <3>1, <3>2
  <2>. QED
    BY <1>12, <2>1, <2>2, <2>3 DEF OperationTurn
<1>13. CASE FetchReads \/ RecordsFromLastFetch \/ ApplyFails \/ ApplyStats \/ Destroy
  <2>1. CASE ApplyStats
    BY <1>0, <1>2, <2>1 DEF ApplyStats
  <2>2. CASE ApplyFails
    BY <1>0, <1>2, <1>4, <2>2 DEF ApplyFails
  <2>3. CASE FetchReads \/ RecordsFromLastFetch \/ Destroy
    BY <1>0, <1>2, <2>3 DEF FetchReads, RecordsFromLastFetch, Destroy
  <2>. QED
    BY <1>13, <2>1, <2>2, <2>3
<1>14. CASE ApplyWrites
  <2>1. PICK u \in Uids, gone \in BOOLEAN :
           LET want == IF gone THEN Absent ELSE Lone(clock + 1)
           IN /\ Write(Only(u, want)) /\ meant' = [meant EXCEPT ![u] = FamilyIn(want)]
              /\ disturbed' = disturbed \union ({u} \intersect Held)
    BY <1>14 DEF ApplyWrites
  <2>2. /\ clock' = clock + 1 /\ budget.applied > 0 /\ budget' = [budget EXCEPT !.applied = @ - 1]
        /\ UNCHANGED <<writerVars, batchVars, alive, taken>>
    BY <1>14 DEF ApplyWrites
  <2>3. PICK f \in FileTypes(clock + 1) :
           /\ Write(Only(u, f)) /\ meant' = [meant EXCEPT ![u] = FamilyIn(f)]
           /\ FamilyIn(f) \in [Slots -> 0..(clock + 1)]
    BY <1>5, <2>1
  <2>4. disturbed' \subseteq Uids
    BY <1>0, <2>1
  <2>. QED
    BY <1>0, <1>3, <1>4, <2>2, <2>3, <2>4
<1>15. CASE ForeignEdit
  <2>1. PICK u \in Uids, gone \in BOOLEAN :
           /\ Write(Only(u, IF gone THEN Absent ELSE Lone(clock + 1)))
           /\ meant' = [meant EXCEPT ![u] = FamilyIn(files'[u])]
           /\ disturbed' = disturbed \union ({u} \intersect Held)
    BY <1>15 DEF ForeignEdit
  <2>2. /\ clock' = clock + 1 /\ budget.foreign > 0 /\ budget' = [budget EXCEPT !.foreign = @ - 1]
        /\ UNCHANGED <<writerVars, batchVars, alive, taken>>
    BY <1>15 DEF ForeignEdit
  <2>3. PICK f \in FileTypes(clock + 1) :
           /\ Write(Only(u, f)) /\ FamilyIn(f) \in [Slots -> 0..(clock + 1)]
    BY <1>5, <2>1
  <2>4. files'[u] = f
    BY <1>0, <2>3, OneFile
  <2>5. disturbed' \subseteq Uids
    BY <1>0, <2>1
  <2>. QED
    BY <1>0, <1>3, <1>4, <2>1, <2>2, <2>3, <2>4, <2>5
<1>16. CASE UNCHANGED vars
  BY <1>0, <1>2, <1>16
<1>. QED
  BY <1>6, <1>7, <1>8, <1>9, <1>10, <1>11, <1>12, <1>13, <1>14, <1>15, <1>16 DEF Next

(***************************************************************************)
(* What is staged.                                                         *)
(***************************************************************************)
DueOf(pend, w, f, u) ==
    IF w # NoRequest /\ w.uid = u THEN w.family
    ELSE IF \E i \in 1..Len(pend) : pend[i].uid = u
    THEN pend[CHOOSE i \in 1..Len(pend) : pend[i].uid = u].family
    ELSE FamilyIn(f)

(* A queue of batches, what the writer was given and what it writes make   *)
(* of the file f of a uid what m says.                                     *)
WillBe(queue, pend, w, f, u, m) ==
    /\ IF w # NoRequest /\ w.uid = u THEN f = Torn ELSE f = FileOf(FamilyIn(f))
    /\ \A t \in Slots : Becomes(queue, u, t, DueOf(pend, w, f, u)[t], m[t])

LEMMA StagedIs ==
    /\ StagedSound <=> \A u \in Uids \ disturbed :
                          WillBe(batches, wqueue, writing, files[u], u, meant[u])
    /\ StagedSound' <=> \A u \in Uids \ disturbed' :
                          WillBe(batches', wqueue', writing', files'[u], u, meant'[u])
BY DEF StagedSound, WillBe, Intact, BeingWritten, Due, DueOf

LEMMA DueIs ==
    ASSUME NEW pend, NEW w, NEW f, NEW u,
           \A i, j \in 1..Len(pend) : pend[i].uid = pend[j].uid => i = j
    PROVE  /\ w # NoRequest /\ w.uid = u => DueOf(pend, w, f, u) = w.family
           /\ ~(w # NoRequest /\ w.uid = u) =>
                 /\ \A i \in 1..Len(pend) : pend[i].uid = u => DueOf(pend, w, f, u) = pend[i].family
                 /\ (\A i \in 1..Len(pend) : pend[i].uid # u) => DueOf(pend, w, f, u) = FamilyIn(f)
<1>1. ASSUME ~(w # NoRequest /\ w.uid = u), NEW i \in 1..Len(pend), pend[i].uid = u
      PROVE  DueOf(pend, w, f, u) = pend[i].family
  <2>1. PICK k : k = CHOOSE j \in 1..Len(pend) : pend[j].uid = u
    OBVIOUS
  <2>2. k \in 1..Len(pend) /\ pend[k].uid = u
    BY <1>1, <2>1
  <2>3. k = i
    BY <1>1, <2>2
  <2>. QED
    BY <1>1, <2>1, <2>3 DEF DueOf
<1>. QED
  BY <1>1 DEF DueOf

LEMMA BecomesTail ==
    ASSUME NEW n \in Nat, NEW queue \in Seq(BatchesOf(n)), queue # <<>>, NEW u \in Uids, NEW t \in Slots,
           NEW due, NEW m, Becomes(queue, u, t, due, m)
    PROVE  LET head == Head(queue).writes[u][t]
           IN  Becomes(Tail(queue), u, t, IF head # 0 THEN head ELSE due, m)
<1>1. PICK rest : rest = Tail(queue)
  OBVIOUS
<1>2. /\ Len(rest) = Len(queue) - 1 /\ Len(queue) \in Nat /\ Head(queue) = queue[1]
      /\ 1 \in 1..Len(queue)
      /\ \A i \in 1..Len(rest) : rest[i] = queue[i + 1] /\ i + 1 \in 1..Len(queue)
  BY <1>1
<1>3. \A i \in 1..Len(queue) : i = 1 \/ (i - 1 \in 1..Len(rest) /\ queue[i] = rest[i - 1])
  BY <1>2
<1>4. ASSUME NEW i \in 1..Len(rest), rest[i].writes[u][t] # 0,
             \A j \in (i + 1)..Len(rest) : rest[j].writes[u][t] = 0
      PROVE  m = rest[i].writes[u][t]
  <2>1. ASSUME NEW j \in (i + 2)..Len(queue) PROVE queue[j].writes[u][t] = 0
    <3>1. j - 1 \in (i + 1)..Len(rest) /\ j - 1 \in 1..Len(rest) /\ queue[j] = rest[j - 1]
      BY <1>2, <1>3
    <3>. QED
      BY <1>4, <3>1
  <2>2. (i + 1) + 1 = i + 2
    OBVIOUS
  <2>3. \A j \in ((i + 1) + 1)..Len(queue) : queue[j].writes[u][t] = 0
    BY <2>1, <2>2
  <2>. QED
    BY <1>2, <1>4, <2>3 DEF Becomes
<1>5. ASSUME \A i \in 1..Len(rest) : rest[i].writes[u][t] = 0
      PROVE  m = IF queue[1].writes[u][t] # 0 THEN queue[1].writes[u][t] ELSE due
  <2>1. \A j \in (1 + 1)..Len(queue) : queue[j].writes[u][t] = 0
    BY <1>2, <1>3, <1>5
  <2>2. CASE queue[1].writes[u][t] # 0
    BY <1>2, <2>1, <2>2 DEF Becomes
  <2>3. CASE queue[1].writes[u][t] = 0
    <3>1. \A j \in 1..Len(queue) : queue[j].writes[u][t] = 0
      BY <1>3, <1>5, <2>3
    <3>. QED
      BY <2>3, <3>1 DEF Becomes
  <2>. QED
    BY <2>2, <2>3
<1>. QED
  BY <1>1, <1>2, <1>4, <1>5 DEF Becomes

LEMMA BecomesAppend ==
    ASSUME NEW n \in Nat, NEW queue \in Seq(BatchesOf(n)), NEW b \in BatchesOf(n),
           NEW u \in Uids, NEW t \in Slots, NEW due, NEW m, Becomes(queue, u, t, due, m)
    PROVE  LET last == b.writes[u][t]
           IN  Becomes(Append(queue, b), u, t, due, IF last # 0 THEN last ELSE m)
<1>1. PICK more : more = Append(queue, b)
  OBVIOUS
<1>2. /\ Len(more) = Len(queue) + 1 /\ Len(queue) \in Nat /\ more[Len(queue) + 1] = b
      /\ \A i \in 1..Len(queue) : more[i] = queue[i] /\ i \in 1..Len(more)
      /\ Len(queue) + 1 \in 1..Len(more)
  BY <1>1
<1>3. \A i \in 1..Len(more) : i = Len(queue) + 1 \/ i \in 1..Len(queue)
  BY <1>2
<1>4. ASSUME NEW i \in 1..Len(more), more[i].writes[u][t] # 0,
             \A j \in (i + 1)..Len(more) : more[j].writes[u][t] = 0
      PROVE  (IF b.writes[u][t] # 0 THEN b.writes[u][t] ELSE m) = more[i].writes[u][t]
  <2>1. CASE i = Len(queue) + 1
    BY <1>2, <1>4, <2>1
  <2>2. CASE i \in 1..Len(queue)
    <3>1. Len(queue) + 1 \in (i + 1)..Len(more)
      BY <1>2, <2>2
    <3>2. b.writes[u][t] = 0
      BY <1>2, <1>4, <3>1
    <3>3. \A j \in (i + 1)..Len(queue) : j \in (i + 1)..Len(more) /\ j \in 1..Len(queue)
      BY <1>2, <2>2
    <3>4. \A j \in (i + 1)..Len(queue) : queue[j].writes[u][t] = 0
      BY <1>2, <1>4, <3>3
    <3>. QED
      BY <1>2, <1>4, <2>2, <3>2, <3>4 DEF Becomes
  <2>. QED
    BY <1>3, <2>1, <2>2
<1>5. ASSUME \A i \in 1..Len(more) : more[i].writes[u][t] = 0
      PROVE  (IF b.writes[u][t] # 0 THEN b.writes[u][t] ELSE m) = due
  <2>1. b.writes[u][t] = 0 /\ \A i \in 1..Len(queue) : queue[i].writes[u][t] = 0
    BY <1>2, <1>5
  <2>. QED
    BY <2>1 DEF Becomes
<1>. QED
  BY <1>1, <1>4, <1>5 DEF Becomes

(* A file no batch holds is what it is to be.                              *)
Free(u) == /\ \A i \in 1..Len(batches) : batches[i].writes[u] = Empty
           /\ \A i \in 1..Len(wqueue) : wqueue[i].uid # u
           /\ ~(writing # NoRequest /\ writing.uid = u)

LEMMA NotHeld ==
    ASSUME NEW u \in Uids, u \notin Held
    PROVE  Free(u)
BY DEF Held, Puts, Free

LEMMA FreeIs ==
    ASSUME Works, NEW u \in Uids, Free(u),
           WillBe(batches, wqueue, writing, files[u], u, meant[u])
    PROVE  meant[u] = FamilyIn(files[u]) /\ files[u] = FileOf(meant[u])
<1>1. \A i \in 1..Len(wqueue) : wqueue[i].uid # u
  BY DEF Free
<1>2. DueOf(wqueue, writing, files[u], u) = FamilyIn(files[u])
  BY <1>1 DEF DueOf, Free
<1>3. ASSUME NEW t \in Slots PROVE meant[u][t] = FamilyIn(files[u])[t]
  <2>1. \A i \in 1..Len(batches) : batches[i].writes[u][t] = 0
    BY DEF Free, Empty
  <2>. QED
    BY <1>2, <2>1 DEF WillBe, Becomes
<1>4. meant[u] \in [Slots -> 0..clock] /\ FamilyIn(files[u]) \in [Slots -> 0..clock]
  <2>1. files[u] \in FileTypes(clock) /\ meant[u] \in [Slots -> 0..clock] /\ clock \in Nat
    BY TypedIn DEF Works
  <2>. QED
    BY <2>1, Values DEF FileTypes, FamilyIn
<1>5. PICK f \in [Slots -> 0..clock], g \in [Slots -> 0..clock] : f = meant[u] /\ g = FamilyIn(files[u])
  BY <1>4
<1>6. f = g
  BY <1>3, <1>5
<1>. QED
  BY <1>5, <1>6 DEF WillBe, Free

LEMMA FreeWillBe ==
    ASSUME NEW u \in Uids, Free(u), NEW f \in Families
    PROVE  WillBe(batches, wqueue, writing, FileOf(f), u, f)
<1>1. \A i \in 1..Len(wqueue) : wqueue[i].uid # u
  BY DEF Free
<1>2. PICK g : g = FileOf(f)
  OBVIOUS
<1>3. FamilyIn(g) = f /\ g = FileOf(FamilyIn(g))
  BY <1>2, FileOfFamily
<1>4. DueOf(wqueue, writing, g, u) = f
  BY <1>1, <1>3 DEF DueOf, Free
<1>5. ASSUME NEW t \in Slots PROVE Becomes(batches, u, t, f[t], f[t])
  <2>1. \A i \in 1..Len(batches) : batches[i].writes[u][t] = 0
    BY DEF Free, Empty
  <2>. QED
    BY <2>1 DEF Becomes
<1>. QED
  BY <1>2, <1>3, <1>4, <1>5 DEF WillBe, Free

(* A file that is written over while no batch holds it.                    *)
LEMMA Overwritten ==
    ASSUME UNCHANGED <<writerVars, batches>>, NEW u \in Uids, Free(u), NEW f \in Families,
           files'[u] = FileOf(f), meant'[u] = f
    PROVE  WillBe(batches', wqueue', writing', files'[u], u, meant'[u])
<1>1. WillBe(batches, wqueue, writing, FileOf(f), u, f)
  BY FreeWillBe
<1>2. PICK q, p, w : q = batches /\ p = wqueue /\ w = writing
  OBVIOUS
<1>3. batches' = q /\ wqueue' = p /\ writing' = w
  BY <1>2
<1>. QED
  BY <1>1, <1>2, <1>3

LEMMA StartedStaged ==
    ASSUME Works, NEW n \in Nat, NEW queue \in Seq(BatchesOf(n)), StartNextWriteBatch(queue),
           files' \in [Uids -> FileTypes(n)], NEW u \in Uids, NEW m,
           WillBe(queue, wqueue, writing, files'[u], u, m)
    PROVE  WillBe(batches', wqueue', writing', files'[u], u, m)
<1>. USE DEF Works
<1>1. CASE current # 0 \/ queue = <<>>
  <2>1. batches' = queue /\ wqueue' = wqueue /\ writing' = writing
    BY <1>1, NoBatchStarted
  <2>2. PICK p, w, f : p = wqueue /\ w = writing /\ f = files'[u]
    OBVIOUS
  <2>. QED
    BY <2>1, <2>2
<1>2. CASE current = 0 /\ queue # <<>>
  <2>1. thread = "off" /\ wqueue = <<>> /\ writing = NoRequest
    BY <1>2 DEF Typed, TypeOK, WriterSound
  <2>2. PICK b : b = Head(queue) /\ b \in BatchesOf(n)
    BY <1>2
  <2>3. PICK f \in FileTypes(n) : f = files'[u]
    OBVIOUS
  <2>4. PICK p : p = wqueue'
    OBVIOUS
  <2>5. /\ batches' = Tail(queue) /\ writing' = NoRequest
        /\ p \in Seq(Requests(n))
        /\ \A i, j \in 1..Len(p) : p[i].uid = p[j].uid => i = j
        /\ \A i \in 1..Len(p) : /\ p[i].uid \in Puts(b)
                                /\ p[i].family = Merge(FamilyIn(files'[p[i].uid]), b.writes[p[i].uid])
        /\ \A v \in Puts(b) : \E i \in 1..Len(p) : p[i].uid = v
    <3>1. thread = "off" /\ current = 0 /\ queue # <<>>
      BY <1>2, <2>1
    <3>2. LET c == Head(queue)
          IN  /\ current' = c.id /\ batches' = Tail(queue)
              /\ thread' = "writing" /\ tally' = NoTally /\ finishing' = TRUE
              /\ UNCHANGED <<writing, report>>
              /\ wqueue' \in Seq(Requests(n)) /\ Len(wqueue') = Cardinality(Puts(c))
              /\ \A i, j \in 1..Len(wqueue') : wqueue'[i].uid = wqueue'[j].uid => i = j
              /\ \A i \in 1..Len(wqueue') :
                    /\ wqueue'[i].uid \in Puts(c)
                    /\ wqueue'[i].family = Merge(FamilyIn(files'[wqueue'[i].uid]),
                                                 c.writes[wqueue'[i].uid])
              /\ \A v \in Puts(c) : \E i \in 1..Len(wqueue') : wqueue'[i].uid = v
      BY <3>1, StartedBatch
    <3>. QED
      BY <2>1, <2>2, <2>4, <3>2
  <2>6. f = FileOf(FamilyIn(f)) /\ \A t \in Slots : Becomes(queue, u, t, FamilyIn(f)[t], m[t])
    BY <2>1, <2>3 DEF WillBe, DueOf
  <2>7. b.writes[u] \in [Slots -> 0..n] /\ FamilyIn(f) \in [Slots -> 0..n]
    BY <2>2, <2>3, Values DEF BatchesOf, FileTypes, FamilyIn
  <2>8. PICK old \in [Slots -> 0..n], new \in [Slots -> 0..n] : old = FamilyIn(f) /\ new = b.writes[u]
    BY <2>7
  <2>9. /\ \A t \in Slots : Merge(old, new)[t] = IF new[t] # 0 THEN new[t] ELSE old[t]
        /\ new = Empty => Merge(old, new) = old
    <3>1. n \in Nat /\ old \in [Slots -> 0..n] /\ new \in [Slots -> 0..n]
      OBVIOUS
    <3>. QED
      BY ONLY <3>1, MergeTyped
  <2>10. DueOf(p, NoRequest, f, u) = Merge(old, new)
    <3>0. /\ \A i \in 1..Len(p) : p[i].uid = u => DueOf(p, NoRequest, f, u) = p[i].family
          /\ (\A i \in 1..Len(p) : p[i].uid # u) => DueOf(p, NoRequest, f, u) = FamilyIn(f)
      <4>1. \A i, j \in 1..Len(p) : p[i].uid = p[j].uid => i = j
        BY <2>5
      <4>. QED
        BY <4>1, DueIs
    <3>1. CASE u \in Puts(b)
      <4>1. PICK i \in 1..Len(p) : p[i].uid = u
        BY <2>5, <3>1
      <4>2. p[i].family = Merge(old, new)
        BY <2>3, <2>5, <2>8, <4>1
      <4>. QED
        BY <3>0, <4>1, <4>2
    <3>2. CASE u \notin Puts(b)
      <4>1. new = Empty
        BY <2>8, <3>2 DEF Puts
      <4>2. \A i \in 1..Len(p) : p[i].uid # u
        BY <2>5, <3>2
      <4>. QED
        BY <2>8, <2>9, <3>0, <4>1, <4>2
    <3>. QED
      BY <3>1, <3>2
  <2>11. ASSUME NEW t \in Slots PROVE Becomes(Tail(queue), u, t, Merge(old, new)[t], m[t])
    <3>1. Becomes(queue, u, t, old[t], m[t])
      BY <2>6, <2>8
    <3>2. Becomes(Tail(queue), u, t, IF new[t] # 0 THEN new[t] ELSE old[t], m[t])
      BY <1>2, <2>2, <2>8, <3>1, BecomesTail
    <3>. QED
      BY <2>9, <3>2
  <2>12. WillBe(Tail(queue), p, NoRequest, f, u, m)
    BY <2>6, <2>10, <2>11 DEF WillBe
  <2>. QED
    BY <2>3, <2>4, <2>5, <2>12
<1>. QED
  BY <1>1, <1>2

(* What startSync() deletes: a file nobody disturbed loses the component   *)
(* that was named, as the caller means it.                                 *)
LEMMA DeletionsStaged ==
    ASSUME Works, NEW s \in Stagings, NEW failing \in BOOLEAN, NEW kept \in SUBSET Uids,
           StartSync(s, failing, kept), NEW u \in Uids, u \notin disturbed',
           WillBe(batches, wqueue, writing, files[u], u, meant[u])
    PROVE  WillBe(batches, wqueue, writing, files'[u], u, Spared(s)[u])
<1>0. u \notin kept
  <2>1. disturbed' = disturbed \union kept \union Troubled(s)
    BY StartSyncDisturbs
  <2>. QED
    BY <2>1
<1>1. PICK changed : changed = Removed(s, kept) /\ Write(changed)
  BY StartSyncDoes
<1>2. /\ u \in DOMAIN changed <=> Named(s, u) # {} /\ files[u] # Absent
      /\ u \in DOMAIN changed => changed[u] = RemoveItem(files[u], CHOOSE t \in Named(s, u) : TRUE)
      /\ files'[u] = IF u \in DOMAIN changed THEN changed[u] ELSE files[u]
  <2>1. stamp \in [Uids -> Nat]
    BY DEF Works, Typed
  <2>2. files'[u] = IF u \in DOMAIN changed THEN changed[u] ELSE files[u]
    BY <1>1, <2>1, Writes
  <2>. QED
    BY <1>0, <1>1, <2>2 DEF Removed
<1>3. meant[u] \in [Slots -> 0..clock] /\ files[u] \in FileTypes(clock) /\ clock \in Nat
  BY TypedIn DEF Works
<1>4. PICK spared : spared = Spared(s)[u]
  OBVIOUS
<1>5. spared = [t \in Slots |-> IF t \in Named(s, u) THEN 0 ELSE meant[u][t]]
  BY <1>4 DEF Spared
<1>6. CASE Named(s, u) = {}
  <2>1. files'[u] = files[u]
    BY <1>2, <1>6
  <2>2. PICK m \in [Slots -> 0..clock] : m = meant[u]
    BY <1>3
  <2>3. spared = m
    BY <1>5, <1>6, <2>2
  <2>. QED
    BY <1>4, <2>1, <2>2, <2>3
<1>7. CASE Named(s, u) # {}
  <2>1. PICK t \in Named(s, u) : t = CHOOSE x \in Named(s, u) : TRUE
    BY <1>7
  <2>2. t \in Slots /\ Named(s, u) = {t}
    BY <2>1, StagingAssumption DEF Named
  <2>3. u \notin Held /\ ~RemovesMore(files[u], t)
    <3>1. disturbed' = disturbed \union kept \union Troubled(s)
      BY StartSyncDisturbs
    <3>. QED
      BY <2>1, <3>1 DEF Troubled
  <2>4. Free(u)
    BY <2>3, NotHeld
  <2>5. meant[u] = FamilyIn(files[u]) /\ files[u] = FileOf(meant[u])
    BY <2>4, FreeIs
  <2>6. PICK m \in [Slots -> 0..clock] : m = meant[u]
    BY <1>3
  <2>7. m \in Families
    BY <1>3, Values
  <2>8. spared = Without(m, t)
    <3>1. Without(m, t) = [x \in Slots |-> IF x = t THEN 0 ELSE m[x]]
      BY DEF Without
    <3>. QED
      BY <1>5, <2>2, <2>6, <3>1
  <2>9. spared \in Families
    <3>1. spared \in [Slots -> 0..clock]
      BY <1>3, <1>5
    <3>. QED
      BY <1>3, <3>1, Values
  <2>10. files'[u] = FileOf(spared)
    <3>1. CASE m = Empty
      <4>1. files[u] = Absent
        BY <2>5, <2>6, <3>1 DEF FileOf
      <4>2. files'[u] = Absent
        BY <1>2, <4>1
      <4>3. spared = Empty
        BY <1>5, <2>6, <3>1 DEF Empty
      <4>. QED
        BY <4>2, <4>3 DEF FileOf
    <3>2. CASE m # Empty
      <4>1. files[u] = m /\ IsFamily(m)
        BY <2>5, <2>6, <2>7, <3>2, Values DEF FileOf
      <4>2. m[t] # 0
        BY <2>3, <4>1 DEF RemovesMore
      <4>3. files'[u] = RemoveItem(m, t)
        BY <1>2, <1>7, <2>1, <4>1 DEF IsFamily
      <4>4. RemoveItem(m, t) = FileOf(Without(m, t))
        BY <1>3, <2>2, <3>2, <4>2, RemoveItemCuts
      <4>. QED
        BY <2>8, <4>3, <4>4
    <3>. QED
      BY <3>1, <3>2
  <2>11. WillBe(batches, wqueue, writing, FileOf(spared), u, spared)
    BY <2>4, <2>9, FreeWillBe
  <2>. QED
    BY <1>4, <2>10, <2>11
<1>. QED
  BY <1>6, <1>7

LEMMA AppendWillBe ==
    ASSUME NEW n \in Nat, NEW queue \in Seq(BatchesOf(n)), NEW b \in BatchesOf(n), NEW u \in Uids,
           NEW p, NEW w, NEW f, NEW m, WillBe(queue, p, w, f, u, m)
    PROVE  WillBe(Append(queue, b), p, w, f, u, Merge(m, b.writes[u]))
<1>1. ASSUME NEW t \in Slots
      PROVE  Becomes(Append(queue, b), u, t, DueOf(p, w, f, u)[t], Merge(m, b.writes[u])[t])
  <2>1. Becomes(queue, u, t, DueOf(p, w, f, u)[t], m[t])
    BY DEF WillBe
  <2>2. PICK due, was : due = DueOf(p, w, f, u)[t] /\ was = m[t]
    OBVIOUS
  <2>3. Becomes(Append(queue, b), u, t, due, IF b.writes[u][t] # 0 THEN b.writes[u][t] ELSE was)
    BY <2>1, <2>2, BecomesAppend
  <2>4. Merge(m, b.writes[u])[t] = IF b.writes[u][t] # 0 THEN b.writes[u][t] ELSE was
    BY <2>2 DEF Merge
  <2>. QED
    BY <2>2, <2>3, <2>4
<1>. QED
  BY <1>1 DEF WillBe

LEMMA StartSyncStaged ==
    ASSUME Works, Works', StagedSound, NEW s \in Stagings, NEW failing \in BOOLEAN,
           NEW kept \in SUBSET Uids, StartSync(s, failing, kept)
    PROVE  StagedSound'
<1>. SUFFICES ASSUME NEW u \in Uids, u \notin disturbed'
              PROVE  WillBe(batches', wqueue', writing', files'[u], u, meant'[u])
  BY StagedIs
<1>1. u \notin disturbed /\ clock' = clock + 1 /\ budget.stagings > 0
  BY StartSyncDoes
<1>2. WillBe(batches, wqueue, writing, files'[u], u, Spared(s)[u])
  BY <1>1, StagedIs, DeletionsStaged
<1>3. meant'[u] = Merge(Spared(s)[u], Brought(s, failing)[u])
  <2>1. meant' = [v \in Uids |-> Merge(Spared(s)[v], Brought(s, failing)[v])]
    BY StartSyncDoes
  <2>. QED
    BY <2>1
<1>4. /\ clock \in Nat /\ clock + 1 \in Nat /\ batches \in Seq(BatchesOf(clock + 1))
      /\ files' \in [Uids -> FileTypes(clock + 1)]
      /\ meant[u] \in [Slots -> 0..clock]
  <2>1. /\ clock \in Nat /\ batches \in Seq(BatchesOf(clock)) /\ meant[u] \in [Slots -> 0..clock]
    BY TypedIn DEF Works
  <2>2. files' \in [Uids -> FileTypes(clock')]
    BY DEF Works, Typed, TypeOK, FileTypes
  <2>. QED
    BY <1>1, <2>1, <2>2, Grows
<1>5. CASE /\ s.puts = {} \/ failing
           /\ UNCHANGED <<batches, current, writerVars>>
  <2>1. \A t \in Slots : Brought(s, failing)[u][t] = 0
    BY <1>5 DEF Brought
  <2>2. PICK m \in [Slots -> 0..clock] : m = Spared(s)[u]
    <3>1. Spared(s)[u] = [t \in Slots |-> IF t \in Named(s, u) THEN 0 ELSE meant[u][t]]
      BY DEF Spared
    <3>2. \A t \in Slots : (IF t \in Named(s, u) THEN 0 ELSE meant[u][t]) \in 0..clock
      BY <1>4
    <3>. QED
      BY <3>1, <3>2
  <2>3. meant'[u] = m
    BY <1>3, <2>1, <2>2 DEF Merge
  <2>4. PICK q, p, w : q = batches /\ p = wqueue /\ w = writing
    OBVIOUS
  <2>5. batches' = q /\ wqueue' = p /\ writing' = w
    BY <1>5, <2>4
  <2>. QED
    BY <1>2, <2>2, <2>3, <2>4, <2>5
<1>6. CASE StartNextWriteBatch(Append(batches, Submitted(s, failing)))
  <2>1. PICK b \in BatchesOf(clock + 1) : b = Submitted(s, failing)
    BY <1>1, SubmittedTyped
  <2>2. PICK p, w, f, m : p = wqueue /\ w = writing /\ f = files'[u] /\ m = Spared(s)[u]
    OBVIOUS
  <2>3. WillBe(Append(batches, b), p, w, f, u, Merge(m, b.writes[u]))
    BY <1>2, <1>4, <2>1, <2>2, AppendWillBe
  <2>4. PICK queue \in Seq(BatchesOf(clock + 1)) : queue = Append(batches, b)
    <3>1. PICK q \in Seq(BatchesOf(clock + 1)) : q = batches
      BY <1>4
    <3>2. Append(q, b) \in Seq(BatchesOf(clock + 1))
      OBVIOUS
    <3>. QED
      BY <3>1, <3>2
  <2>5. PICK result : result = Merge(m, b.writes[u])
    OBVIOUS
  <2>6. meant'[u] = result
    BY <1>3, <2>1, <2>2, <2>5 DEF Submitted
  <2>7. WillBe(queue, wqueue, writing, files'[u], u, result)
    BY <2>2, <2>3, <2>4, <2>5
  <2>8. WillBe(batches', wqueue', writing', files'[u], u, result)
    BY <1>4, <1>6, <2>1, <2>4, <2>7, StartedStaged
  <2>. QED
    BY <2>6, <2>8
<1>. QED
  BY <1>5, <1>6, StartSyncDoes

(* A step that leaves the file of a uid, and what it is to be, alone.      *)
LEMMA WillBeKept ==
    ASSUME UNCHANGED <<batches, wqueue, writing>>, NEW u \in Uids,
           files'[u] = files[u], meant'[u] = meant[u],
           WillBe(batches, wqueue, writing, files[u], u, meant[u])
    PROVE  WillBe(batches', wqueue', writing', files'[u], u, meant'[u])
<1>1. PICK q, p, w, f, m : q = batches /\ p = wqueue /\ w = writing /\ f = files[u] /\ m = meant[u]
  OBVIOUS
<1>2. batches' = q /\ wqueue' = p /\ writing' = w /\ files'[u] = f /\ meant'[u] = m
  BY <1>1
<1>. QED
  BY <1>1, <1>2

LEMMA WriterStaged ==
    ASSUME Works, UNCHANGED <<batches, meant>>, NEW u \in Uids,
           WillBe(batches, wqueue, writing, files[u], u, meant[u]),
           \/ WorkerStep
           \/ WorkerTrouble /\ u # IF writing # NoRequest THEN writing.uid ELSE Head(wqueue).uid
    PROVE  WillBe(batches', wqueue', writing', files'[u], u, meant'[u])
<1>1. WillBe(batches, wqueue, writing, files[u], u, meant[u])
  OBVIOUS
<1>2. PICK q, m, f : q = batches /\ m = meant[u] /\ f = files[u] /\ batches' = q /\ meant'[u] = m
  OBVIOUS
<1>3. PICK p \in Seq(Requests(clock)) : p = wqueue
  BY TypedIn DEF Works
<1>4. /\ \A i, j \in 1..Len(p) : p[i].uid = p[j].uid => i = j
      /\ writing # NoRequest => \A i \in 1..Len(p) : p[i].uid # writing.uid
  BY <1>3 DEF Works, WriterSound
<1>5. ASSUME p # <<>>
      PROVE  /\ Head(p) = p[1] /\ 1 \in 1..Len(p) /\ p[1] \in Requests(clock)
             /\ Len(Tail(p)) = Len(p) - 1
             /\ \A i \in 1..Len(Tail(p)) : Tail(p)[i] = p[i + 1] /\ i + 1 \in 1..Len(p) /\ i + 1 # 1
             /\ \A i \in 1..Len(p) : i # 1 => i - 1 \in 1..Len(Tail(p)) /\ Tail(p)[i - 1] = p[i]
  BY <1>5
<1>6. \A i, j \in 1..Len(Tail(p)) : p # <<>> /\ Tail(p)[i].uid = Tail(p)[j].uid => i = j
  BY <1>4, <1>5
<1>7. ASSUME p # <<>>, writing = NoRequest, p[1].uid # u
      PROVE  DueOf(Tail(p), NoRequest, f, u) = DueOf(p, NoRequest, f, u)
  <2>1. /\ \A i \in 1..Len(p) : p[i].uid = u => DueOf(p, NoRequest, f, u) = p[i].family
        /\ (\A i \in 1..Len(p) : p[i].uid # u) => DueOf(p, NoRequest, f, u) = FamilyIn(f)
    BY <1>4, DueIs
  <2>2. PICK r : r = Tail(p)
    OBVIOUS
  <2>3. \A i, j \in 1..Len(r) : r[i].uid = r[j].uid => i = j
    BY <1>6, <1>7, <2>2
  <2>4. /\ \A i \in 1..Len(r) : r[i].uid = u => DueOf(r, NoRequest, f, u) = r[i].family
        /\ (\A i \in 1..Len(r) : r[i].uid # u) => DueOf(r, NoRequest, f, u) = FamilyIn(f)
    BY <2>3, DueIs
  <2>5. CASE \E i \in 1..Len(p) : p[i].uid = u
    <3>1. PICK i \in 1..Len(p) : p[i].uid = u
      BY <2>5
    <3>2. i # 1 /\ i - 1 \in 1..Len(r) /\ r[i - 1] = p[i]
      BY <1>5, <1>7, <2>2, <3>1
    <3>. QED
      BY <2>1, <2>2, <2>4, <3>1, <3>2
  <2>6. CASE \A i \in 1..Len(p) : p[i].uid # u
    <3>1. \A i \in 1..Len(r) : r[i].uid # u
      BY <1>5, <1>7, <2>2, <2>6
    <3>. QED
      BY <2>1, <2>2, <2>4, <2>6, <3>1
  <2>. QED
    BY <2>5, <2>6
<1>8. stamp \in [Uids -> Nat]
  BY DEF Works, Typed
<1>9. ASSUME NEW v, NEW g, Write(Only(v, g)) PROVE files'[u] = IF v = u THEN g ELSE f
  <2>1. PICK changed : changed = Only(v, g) /\ Write(changed)
    BY <1>9
  <2>2. files'[u] = IF u \in DOMAIN changed THEN changed[u] ELSE files[u]
    BY <1>8, <2>1, Writes
  <2>3. DOMAIN changed = {v} /\ (v = u => changed[u] = g)
    BY <2>1 DEF Only
  <2>. QED
    BY <1>2, <2>2, <2>3
<1>10. CASE WorkerOpens
  <2>1. /\ writing = NoRequest /\ p # <<>> /\ wqueue' = Tail(p) /\ writing' = Head(p)
        /\ Write(Only(Head(p).uid, Torn))
    BY <1>3, <1>10 DEF WorkerOpens
  <2>2. PICK r \in Requests(clock) : r = Head(p) /\ r = p[1] /\ r # NoRequest
    <3>1. p[1] \in Requests(clock)
      BY <1>5, <2>1
    <3>2. Requests(clock) \subseteq [uid : Uids, family : Families]
      BY TypedIn, Values DEF Requests, Works
    <3>. QED
      BY <1>5, <2>1, <3>1, <3>2, FilesAssumption
  <2>3. CASE r.uid = u
    <3>1. files'[u] = Torn
      BY <1>9, <2>1, <2>2, <2>3
    <3>2. DueOf(p, NoRequest, f, u) = r.family
      BY <1>4, <1>5, <2>1, <2>2, <2>3, DueIs
    <3>3. DueOf(Tail(p), r, Torn, u) = r.family
      BY <2>2, <2>3 DEF DueOf
    <3>4. WillBe(q, Tail(p), r, Torn, u, m)
      BY <1>1, <1>2, <1>3, <2>1, <2>2, <2>3, <3>2, <3>3 DEF WillBe
    <3>. QED
      BY <1>2, <2>1, <2>2, <3>1, <3>4
  <2>4. CASE r.uid # u
    <3>1. files'[u] = f
      BY <1>9, <2>1, <2>2, <2>4
    <3>2. DueOf(Tail(p), NoRequest, f, u) = DueOf(p, NoRequest, f, u)
      BY <1>7, <2>1, <2>2, <2>4
    <3>3. DueOf(Tail(p), r, f, u) = DueOf(Tail(p), NoRequest, f, u)
      BY <2>4 DEF DueOf
    <3>4. WillBe(q, Tail(p), r, f, u, m)
      BY <1>1, <1>2, <1>3, <2>1, <2>4, <3>2, <3>3 DEF WillBe
    <3>. QED
      BY <1>2, <2>1, <2>2, <3>1, <3>4
  <2>. QED
    BY <2>3, <2>4
<1>11. CASE WorkerCannotOpen /\ u # IF writing # NoRequest THEN writing.uid ELSE Head(wqueue).uid
  <2>1. /\ writing = NoRequest /\ writing' = NoRequest /\ p # <<>> /\ wqueue' = Tail(p)
        /\ files'[u] = f /\ Head(wqueue).uid # u
    BY <1>2, <1>3, <1>11 DEF WorkerCannotOpen
  <2>2. p[1].uid # u
    BY <1>3, <1>5, <2>1
  <2>3. DueOf(Tail(p), NoRequest, f, u) = DueOf(p, NoRequest, f, u)
    BY <1>7, <2>1, <2>2
  <2>4. WillBe(q, Tail(p), NoRequest, f, u, m)
    BY <1>1, <1>2, <1>3, <2>1, <2>3 DEF WillBe
  <2>. QED
    BY <1>2, <2>1, <2>4
<1>12. CASE \/ WorkerWrites
            \/ WorkerCannotWrite /\ u # IF writing # NoRequest THEN writing.uid ELSE Head(wqueue).uid
  <2>1. writing # NoRequest /\ writing' = NoRequest /\ wqueue' = p
    BY <1>3, <1>12 DEF WorkerWrites, WorkerCannotWrite
  <2>2. PICK r \in Requests(clock) : r = writing
    BY <2>1, TypedIn DEF Works
  <2>3. CASE r.uid = u
    <3>1. f = Torn
      BY <1>1, <1>2, <2>1, <2>2, <2>3 DEF WillBe
    <3>2. WorkerWrites
      BY <1>12, <2>1, <2>2, <2>3
    <3>3. files'[u] = r.family
      BY <1>2, <1>9, <2>2, <2>3, <3>1, <3>2 DEF WorkerWrites
    <3>4. r.family \in Families /\ r.family # Empty
      BY TypedIn, Values DEF Requests, Works
    <3>5. FamilyIn(r.family) = r.family /\ FileOf(r.family) = r.family
      BY <3>4, Values DEF FileOf
    <3>6. DueOf(p, r, f, u) = r.family
      BY <2>1, <2>2, <2>3 DEF DueOf
    <3>7. DueOf(p, NoRequest, r.family, u) = r.family
      <4>1. \A i \in 1..Len(p) : p[i].uid # u
        BY <1>4, <2>1, <2>2, <2>3
      <4>. QED
        BY <3>5, <4>1 DEF DueOf
    <3>8. WillBe(q, p, NoRequest, r.family, u, m)
      BY <1>1, <1>2, <1>3, <2>2, <3>5, <3>6, <3>7 DEF WillBe
    <3>. QED
      BY <1>2, <2>1, <3>3, <3>8
  <2>4. CASE r.uid # u
    <3>1. files'[u] = f
      BY <1>2, <1>9, <1>12, <2>2, <2>4 DEF WorkerWrites, WorkerCannotWrite
    <3>2. DueOf(p, NoRequest, f, u) = DueOf(p, r, f, u)
      BY <2>4 DEF DueOf
    <3>3. WillBe(q, p, NoRequest, f, u, m)
      BY <1>1, <1>2, <1>3, <2>2, <2>4, <3>2 DEF WillBe
    <3>. QED
      BY <1>2, <2>1, <3>1, <3>3
  <2>. QED
    BY <2>3, <2>4
<1>13. CASE WorkerDrains
  <2>1. UNCHANGED <<fileVars, wqueue, writing>>
    BY <1>13 DEF WorkerDrains
  <2>2. files'[u] = files[u] /\ meant'[u] = meant[u]
    BY <2>1
  <2>. QED
    BY <1>1, <2>1, <2>2, WillBeKept
<1>. QED
  BY <1>10, <1>11, <1>12, <1>13 DEF WorkerStep, WorkerTrouble

LEMMA StagedStep ==
    ASSUME Works, Works', StagedSound, Next \/ UNCHANGED vars
    PROVE  StagedSound'
<1>0. \A u \in Uids : u \notin disturbed =>
         WillBe(batches, wqueue, writing, files[u], u, meant[u])
  BY StagedIs
<1>1. ASSUME UNCHANGED <<files, meant, batches, wqueue, writing, disturbed>> PROVE StagedSound'
  <2>1. ASSUME NEW u \in Uids, u \notin disturbed'
        PROVE  WillBe(batches', wqueue', writing', files'[u], u, meant'[u])
    BY <1>0, <1>1, <2>1, WillBeKept
  <2>. QED
    BY <2>1, StagedIs
<1>2. ASSUME UNCHANGED <<writerVars, batches>>, NEW u \in Uids,
             \A v \in Uids : v # u => files'[v] = files[v] /\ meant'[v] = meant[v],
             disturbed \subseteq disturbed',
             u \notin disturbed' => /\ u \notin Held
                                    /\ \E f \in Families : files'[u] = FileOf(f) /\ meant'[u] = f
      PROVE  StagedSound'
  <2>1. ASSUME NEW v \in Uids, v \notin disturbed'
        PROVE  WillBe(batches', wqueue', writing', files'[v], v, meant'[v])
    <3>1. WillBe(batches, wqueue, writing, files[v], v, meant[v])
      BY <1>0, <1>2, <2>1
    <3>2. CASE v = u
      <4>1. u \notin disturbed'
        BY <2>1, <3>2
      <4>2. Free(u)
        BY <1>2, <4>1, NotHeld
      <4>3. PICK f \in Families : files'[u] = FileOf(f) /\ meant'[u] = f
        BY <1>2, <4>1
      <4>. QED
        BY <1>2, <3>2, <4>2, <4>3, Overwritten
    <3>3. CASE v # u
      BY <1>2, <3>1, <3>3, WillBeKept
    <3>. QED
      BY <3>2, <3>3
  <2>. QED
    BY <2>1, StagedIs
<1>3. /\ \A op \in Ops : Task[op].uid \in Uids
      /\ clock \in Nat /\ meant \in [Uids -> [Slots -> 0..clock]]
  BY FilesAssumption, TypedIn DEF Works
<1>4. PICK content \in Nat : content = clock + 1 /\ content # 0
  BY <1>3
<1>5. /\ Lone(content) \in Families /\ Empty \in Families
      /\ FileOf(Lone(content)) = Lone(content) /\ FamilyIn(Lone(content)) = Lone(content)
      /\ FileOf(Empty) = Absent /\ FamilyIn(Absent) = Empty
  <2>1. Lone(content)[Master] # 0 /\ Empty[Master] = 0
    BY <1>4, FilesAssumption DEF Lone, Empty
  <2>2. content \in 0..content
    BY <1>4
  <2>3. Lone(content) \in Families
    BY <1>4, <2>2, Values
  <2>. QED
    BY <2>1, <2>3, Values DEF FileOf
<1>6. ASSUME NEW u \in Uids, NEW f, Write(Only(u, f))
      PROVE  files'[u] = f /\ \A v \in Uids : v # u => files'[v] = files[v]
  <2>1. PICK changed : changed = Only(u, f) /\ Write(changed)
    BY <1>6
  <2>2. \A v \in Uids : files'[v] = IF v \in DOMAIN changed THEN changed[v] ELSE files[v]
    BY <2>1, Writes DEF Works, Typed
  <2>3. DOMAIN changed = {u} /\ changed[u] = f
    BY <2>1 DEF Only
  <2>. QED
    BY <2>2, <2>3
<1>7. ASSUME NEW u \in Uids, NEW m, meant' = [meant EXCEPT ![u] = m]
      PROVE  meant'[u] = m /\ \A v \in Uids : v # u => meant'[v] = meant[v]
  BY <1>3, <1>7
<1>8. ASSUME NEW s \in Stagings, NEW failing \in BOOLEAN, NEW kept \in SUBSET Uids,
             StartSync(s, failing, kept)
      PROVE  StagedSound'
  BY <1>8, StartSyncStaged
<1>9. CASE OnAsyncWritesFinished
  <2>1. wqueue = <<>> /\ writing = NoRequest
    BY <1>9 DEF OnAsyncWritesFinished, Works, WriterSound
  <2>. QED
    BY <1>1, <1>9, <2>1 DEF OnAsyncWritesFinished, StopWriter
<1>10. CASE AnswerReturns
  <2>1. StartNextWriteBatch(batches) /\ UNCHANGED <<files, meant, disturbed>>
    BY <1>10 DEF AnswerReturns
  <2>2. ASSUME NEW u \in Uids, u \notin disturbed'
        PROVE  WillBe(batches', wqueue', writing', files'[u], u, meant'[u])
    <3>1. PICK queue \in Seq(BatchesOf(clock)) : queue = batches
      BY TypedIn DEF Works
    <3>2. PICK m, f : m = meant[u] /\ f = files[u] /\ meant'[u] = m /\ files'[u] = f
      BY <2>1
    <3>3. WillBe(queue, wqueue, writing, files'[u], u, m)
      BY <1>0, <2>1, <2>2, <3>1, <3>2
    <3>4. files' \in [Uids -> FileTypes(clock)] /\ StartNextWriteBatch(queue)
      BY <2>1, <3>1, TypedIn DEF Works
    <3>5. WillBe(batches', wqueue', writing', files'[u], u, m)
      BY <1>3, <3>3, <3>4, StartedStaged
    <3>. QED
      BY <3>2, <3>5
  <2>. QED
    BY <2>2, StagedIs
<1>11. CASE WorkerWorks \/ WorkerFails
  <2>1. ASSUME NEW u \in Uids, u \notin disturbed'
        PROVE  WillBe(batches', wqueue', writing', files'[u], u, meant'[u])
    <3>1. /\ u \notin disturbed /\ UNCHANGED <<batches, meant>>
          /\ \/ WorkerStep
             \/ WorkerTrouble /\ u # IF writing # NoRequest THEN writing.uid ELSE Head(wqueue).uid
      BY <1>11, <2>1 DEF WorkerWorks, WorkerFails
    <3>. QED
      BY <1>0, <3>1, WriterStaged
  <2>. QED
    BY <2>1, StagedIs
<1>12. ASSUME NEW op \in Ops, EnqueueOperation(op) \/ CancelOperation(op) \/ DeleteOperation(op)
       PROVE  StagedSound'
  BY <1>1, <1>12 DEF EnqueueOperation, CancelOperation, DeleteOperation
<1>13. ASSUME NEW op \in Ops, OperationTurn(op) PROVE StagedSound'
  <2>1. CASE BodyBegins(op) \/ BodySkipped(op) \/ FetchStats(op) \/ FetchDone(op) \/ BodyFails(op)
    BY <1>1, <2>1 DEF BodyBegins, BodySkipped, FetchStats, FetchDone, BodyFails
  <2>2. CASE PushItem(op)
    <3>1. PICK u \in Uids : u = Task[op].uid
      BY <1>3
    <3>2. /\ Write(Only(u, Lone(content)))
          /\ meant' = [meant EXCEPT ![u] = Merge(meant[u], Lone(content))]
          /\ disturbed' = IF u \in Held \/ Merge(FamilyIn(files[u]), files'[u]) # files'[u]
                          THEN disturbed \union {u} ELSE disturbed
          /\ UNCHANGED <<writerVars, batches>>
      BY <1>4, <2>2, <3>1 DEF PushItem
    <3>3. files'[u] = Lone(content) /\ meant'[u] = Merge(meant[u], Lone(content))
      BY <1>6, <1>7, <3>2
    <3>4. ASSUME u \notin disturbed'
          PROVE  u \notin Held /\ files'[u] = FileOf(Lone(content)) /\ meant'[u] = Lone(content)
      <4>1. u \notin Held /\ u \notin disturbed
            /\ Merge(FamilyIn(files[u]), Lone(content)) = Lone(content)
        BY <3>2, <3>3, <3>4
      <4>2. meant[u] = FamilyIn(files[u])
        BY <1>0, <4>1, FreeIs, NotHeld
      <4>. QED
        BY <1>5, <3>3, <4>1, <4>2
    <3>. QED
      BY <1>2, <1>5, <1>6, <1>7, <3>2, <3>4
  <2>3. CASE DeleteItem(op)
    <3>1. PICK u \in Uids : u = Task[op].uid
      BY <1>3
    <3>2. /\ IF files[u] = Absent THEN UNCHANGED fileVars ELSE Write(Only(u, Absent))
          /\ meant' = [meant EXCEPT ![u] = Empty]
          /\ disturbed' = disturbed \union ({u} \intersect Held)
          /\ UNCHANGED <<writerVars, batches>>
      BY <2>3, <3>1 DEF DeleteItem
    <3>3. files'[u] = Absent /\ \A v \in Uids : v # u => files'[v] = files[v]
      BY <1>6, <3>2
    <3>. QED
      BY <1>2, <1>5, <1>7, <3>2, <3>3
  <2>. QED
    BY <1>13, <2>1, <2>2, <2>3 DEF OperationTurn
<1>14. CASE FetchReads \/ RecordsFromLastFetch \/ ApplyFails \/ ApplyStats \/ Destroy
  BY <1>1, <1>14 DEF FetchReads, RecordsFromLastFetch, ApplyFails, ApplyStats, Destroy
<1>15. CASE ApplyWrites
  <2>1. PICK u \in Uids, gone \in BOOLEAN :
           LET want == IF gone THEN Absent ELSE Lone(clock + 1)
           IN /\ Write(Only(u, want)) /\ meant' = [meant EXCEPT ![u] = FamilyIn(want)]
              /\ disturbed' = disturbed \union ({u} \intersect Held)
    BY <1>15 DEF ApplyWrites
  <2>2. PICK f \in Families : /\ Write(Only(u, FileOf(f)))
                              /\ meant' = [meant EXCEPT ![u] = f]
    BY <1>4, <1>5, <2>1
  <2>3. UNCHANGED <<writerVars, batches>>
    BY <1>15 DEF ApplyWrites
  <2>4. files'[u] = FileOf(f) /\ \A v \in Uids : v # u => files'[v] = files[v]
    BY <1>6, <2>2
  <2>5. meant'[u] = f /\ \A v \in Uids : v # u => meant'[v] = meant[v]
    BY <1>7, <2>2
  <2>. QED
    BY <1>2, <2>1, <2>3, <2>4, <2>5
<1>16. CASE ForeignEdit
  <2>1. PICK u \in Uids, gone \in BOOLEAN :
           /\ Write(Only(u, IF gone THEN Absent ELSE Lone(clock + 1)))
           /\ meant' = [meant EXCEPT ![u] = FamilyIn(files'[u])]
           /\ disturbed' = disturbed \union ({u} \intersect Held)
    BY <1>16 DEF ForeignEdit
  <2>2. PICK f \in Families : Write(Only(u, FileOf(f))) /\ FamilyIn(FileOf(f)) = f
    BY <1>4, <1>5, <2>1
  <2>3. files'[u] = FileOf(f) /\ \A v \in Uids : v # u => files'[v] = files[v]
    BY <1>6, <2>2
  <2>4. meant'[u] = f /\ \A v \in Uids : v # u => meant'[v] = meant[v]
    BY <1>3, <2>1, <2>2, <2>3
  <2>5. UNCHANGED <<writerVars, batches>>
    BY <1>16 DEF ForeignEdit
  <2>. QED
    BY <1>2, <2>1, <2>3, <2>4, <2>5
<1>17. CASE UNCHANGED vars
  BY <1>1, <1>17
<1>. QED
  BY <1>8, <1>9, <1>10, <1>11, <1>12, <1>13, <1>14, <1>15, <1>16, <1>17 DEF Next

(***************************************************************************)
(* The invariant.                                                          *)
(***************************************************************************)
LEMMA InitIInv == Init => IInv
<1>. SUFFICES ASSUME Init PROVE IInv
  OBVIOUS
<1>. USE DEF Init, WriterInit
<1>1. OpInv
  BY OpInitInv
<1>2. Lone(1) \in [Slots -> 0..1] /\ Empty \in [Slots -> 0..1] /\ Lone(1) \in Families
      /\ Lone(1) # Empty
  <2>1. 1 \in 0..1 /\ 1 \in Nat
    OBVIOUS
  <2>2. Lone(1)[Master] # 0 /\ Empty[Master] = 0
    BY FilesAssumption DEF Lone, Empty
  <2>. QED
    BY <2>1, <2>2, Values
<1>3. /\ files \in [Uids -> FileTypes(clock)] /\ meant \in [Uids -> [Slots -> 0..clock]]
      /\ \A u \in Uids : FileOf(FamilyIn(files[u])) = files[u]
  <2>1. \A u \in Uids : files[u] = Absent \/ files[u] = Lone(1)
    OBVIOUS
  <2>2. FamilyIn(Absent) = Empty /\ FamilyIn(Lone(1)) = Lone(1)
    BY <1>2, Values
  <2>3. \A u \in Uids : FamilyIn(files[u]) \in [Slots -> 0..1] /\ files[u] \in FileTypes(1)
    BY <1>2, <2>1, <2>2 DEF FileTypes
  <2>. QED
    BY <1>2, <2>1, <2>2, <2>3 DEF FileOf
<1>4. Typed
  <2>1. wqueue \in Seq(WriteRequest) /\ batches \in Seq(Batch)
    OBVIOUS
  <2>2. budget \in Budget /\ 1..(submitted + budget.stagings) \subseteq Batches
    BY StagingAssumption DEF Budget
  <2>3. OpTypeOK /\ budget.ops \subseteq Ops
    BY <1>1, <2>2 DEF OpInv, Budget
  <2>4. /\ files \in [Uids -> {Absent, Torn} \union [Slots -> 0..clock]]
        /\ meant \in [Uids -> [Slots -> 0..clock]]
    BY <1>3 DEF FileTypes
  <2>5. TypeOK
    <3>1. /\ thread = "off" /\ current = 0 /\ finishing = FALSE /\ Len(report) = 0
          /\ answering = FALSE /\ taken = FALSE /\ alive = TRUE /\ submitted = 0
          /\ disturbed = {}
      OBVIOUS
    <3>2. answer \in [Batches -> {"none", "ok", "failed"}]
      OBVIOUS
    <3>3. /\ thread \in {"off", "writing", "drained"} /\ (thread = "off" <=> current = 0)
          /\ finishing \in BOOLEAN
          /\ Len(report) <= 1 /\ answering \in BOOLEAN /\ taken \in BOOLEAN /\ alive \in BOOLEAN
          /\ current \in Batches \union {0} /\ submitted \in Batches \union {0}
          /\ disturbed \subseteq Uids
      <4>1. finishing \in BOOLEAN /\ answering \in BOOLEAN /\ taken \in BOOLEAN /\ alive \in BOOLEAN
        BY ONLY <3>1, Zenon
      <4>2. thread \in {"off", "writing", "drained"} /\ (thread = "off" <=> current = 0)
        BY ONLY <3>1
      <4>3. Len(report) <= 1
        BY ONLY <3>1
      <4>. QED
        BY ONLY <3>1, <4>1, <4>2, <4>3
    <3>. QED
      BY ONLY <2>3, <2>4, <3>2, <3>3 DEF TypeOK
  <2>. QED
    BY <2>1, <2>2, <2>5 DEF Typed, NoTally
<1>5. WriterSound
  BY DEF WriterSound
<1>6. BatchesNumbered
  BY StagingAssumption DEF BatchesNumbered
<1>7. StagedSound
  <2>1. ASSUME NEW u \in Uids PROVE WillBe(batches, wqueue, writing, files[u], u, meant[u])
    <3>1. Free(u)
      BY DEF Free
    <3>2. meant[u] \in Families
      BY <1>2, <1>3, Values
    <3>3. WillBe(batches, wqueue, writing, FileOf(meant[u]), u, meant[u])
      BY <3>1, <3>2, FreeWillBe
    <3>4. files[u] = FileOf(meant[u])
      BY <1>3
    <3>. QED
      BY <3>3, <3>4
  <2>. QED
    BY <2>1, StagedIs
<1>8. RevisionSound
  <2>1. PICK none : none = <<>> /\ DOMAIN none = {}
    OBVIOUS
  <2>2. acc = [todo |-> {}, stat |-> None, snap |-> none, recs |-> none, known |-> NoStamps]
    BY <2>1 DEF NoAcc, Fresh
  <2>3. /\ acc.todo = {} /\ acc.stat = None /\ acc.snap = none /\ acc.recs = none
        /\ acc.known = NoStamps
        /\ acc = [todo |-> acc.todo, stat |-> acc.stat, snap |-> acc.snap, recs |-> acc.recs,
                  known |-> acc.known]
    BY <2>2
  <2>4. Faithful(none, none, {})
    BY <2>1 DEF Faithful, Known
  <2>5. NoStamps \in [Uids -> Int] /\ Current(none, NoStamps, {}, None)
    BY <2>1 DEF Current, NoStamps, NoStamp
  <2>6. pass.list = none /\ pass.recs = none /\ known = NoStamps
    BY <2>1 DEF NoPass
  <2>7. FetchSound
    BY <2>1, <2>3, <2>4, <2>5 DEF FetchSound
  <2>. QED
    BY <2>4, <2>5, <2>6, <2>7 DEF RevisionSound
<1>. QED
  BY <1>1, <1>4, <1>5, <1>6, <1>7, <1>8 DEF IInv

LEMMA StepIInv == IInv /\ [Next]_vars => IInv'
<1>. SUFFICES ASSUME IInv, Next \/ UNCHANGED vars PROVE IInv'
  OBVIOUS
<1>1. OpInv /\ OpInv'
  BY OpStep DEF IInv
<1>2. Works /\ Works'
  BY <1>1, WorksStep DEF IInv, Works
<1>3. RevisionSound'
  <2>1. CASE Next
    BY <1>2, <2>1, RevisionStep DEF IInv, Works
  <2>2. CASE UNCHANGED vars
    <3>1. stamp \in [Uids -> Nat] /\ stamp' \in [Uids -> Nat] /\ Later /\ RevisionSound
      BY <1>2, <2>2, NoWrite DEF IInv, Works, Typed
    <3>2. UNCHANGED <<acc, snapshot, pass, known, token, applying>>
      BY <2>2
    <3>3. FetchSound'
      BY <3>1, <3>2, FetchLater DEF RevisionSound
    <3>. QED
      BY <3>1, <3>2, <3>3, RevisionLater
  <2>. QED
    BY <2>1, <2>2
<1>4. StagedSound'
  BY <1>2, StagedStep DEF IInv
<1>. QED
  BY <1>1, <1>2, <1>3, <1>4 DEF IInv, Works

(* Every reachable state satisfies the inductive invariant: among it the   *)
(* types, the writer that has no request without a batch, batches that are *)
(* numbered once and unanswered, what is staged and what was fetched.      *)
THEOREM Invariance == Spec => []IInv
BY InitIInv, StepIInv, PTL DEF Spec

(* A calendar nothing is staged for holds what all the calls of            *)
(* startSync(), and everybody else, asked for, file by file.               *)
THEOREM Quiet == Spec => []QuietMeansMeant
<1>1. IInv => QuietMeansMeant
  <2>. SUFFICES ASSUME IInv, batches = <<>>, current = 0, NEW u \in Uids, u \notin disturbed
                PROVE  files[u] = FileOf(meant[u])
    BY DEF QuietMeansMeant
  <2>1. Works
    BY DEF IInv, Works
  <2>2. wqueue = <<>> /\ writing = NoRequest
    BY <2>1 DEF Works, Typed, TypeOK, WriterSound
  <2>3. Free(u)
    BY <2>2 DEF Free
  <2>4. WillBe(batches, wqueue, writing, files[u], u, meant[u])
    BY StagedIs DEF IInv
  <2>. QED
    BY <2>1, <2>3, <2>4, FreeIs
<1>. QED
  BY <1>1, Invariance, PTL

(* A file that looks as the last fetch saw it holds the record that fetch  *)
(* gave, and the fingerprint applyRecords() returned is the directory's as *)
(* long as nobody else writes (LocalBackend::applyRecords()).              *)
THEOREM Fingerprints == Spec => []FingerprintFollowsFiles
<1>1. IInv => FingerprintFollowsFiles
  <2>. SUFFICES ASSUME IInv PROVE FingerprintFollowsFiles
    OBVIOUS
  <2>1. ASSUME NEW u \in DOMAIN pass.list, pass.list[u] = stamp[u]
        PROVE  FamilyIn(files[u]) = FamilyIn(Known(pass.recs, u))
    BY <2>1 DEF IInv, RevisionSound, Faithful
  <2>2. ASSUME token # None, token.known = stamp
        PROVE  token.list = Listing
    <3>1. PICK list, kn : list = token.list /\ kn = token.known
      OBVIOUS
    <3>2. Current(list, kn, {}, None) /\ None \notin Uids
      BY <2>2, <3>1, FilesAssumption DEF IInv, RevisionSound
    <3>3. /\ list = [u \in DOMAIN list |-> list[u]]
          /\ DOMAIN list = {v \in Uids : files[v] # Absent}
          /\ \A u \in DOMAIN list : list[u] = stamp[u]
      BY <2>2, <3>1, <3>2 DEF Current
    <3>4. list = [u \in {v \in Uids : files[v] # Absent} |-> stamp[u]]
      BY <3>3
    <3>5. list = Listing
      BY <3>4 DEF Listing
    <3>. QED
      BY <3>1, <3>5
  <2>. QED
    BY <2>1, <2>2 DEF FingerprintFollowsFiles
<1>. QED
  BY <1>1, Invariance, PTL

(***************************************************************************)
(* The answers to staged changes: each step is one of StagedBatches, or    *)
(* changes nothing it speaks of.                                           *)
(***************************************************************************)
Pend == Len(wqueue) + (IF writing = NoRequest THEN 0 ELSE 1)
WaitingOf(queue, cur) == (IF cur = 0 THEN <<>> ELSE <<cur>>) \o Ids(queue)
LeftIn(queue, cur, pend, b) ==
    IF b = cur THEN pend
    ELSE IF b \in Range(Ids(queue))
    THEN Cardinality(Puts(CHOOSE q \in Range(queue) : q.id = b)) ELSE 0
FailedIn(cur, bad, said, b) == IF b = cur THEN bad > 0 ELSE said[b] = "failed"

Left == [b \in Batches |-> LeftOf(b)]
Failed == [b \in Batches |-> IF b = current THEN tally.bad > 0 ELSE answer[b] = "failed"]

LEMMA MappedIs ==
    /\ Waiting = WaitingOf(batches, current) /\ Waiting' = WaitingOf(batches', current')
    /\ Left = [b \in Batches |-> LeftIn(batches, current, Pend, b)]
    /\ Left' = [b \in Batches |-> LeftIn(batches', current', Pend', b)]
    /\ Failed = [b \in Batches |-> FailedIn(current, tally.bad, answer, b)]
    /\ Failed' = [b \in Batches |-> FailedIn(current', tally'.bad, answer', b)]
BY DEF Waiting, WaitingOf, Left, LeftOf, LeftIn, InQueue, Pend, Failed, FailedIn

LEMMA AbstractIs ==
    /\ Staged!vars' = Staged!vars <=>
          /\ Waiting' = Waiting /\ Left' = Left /\ Failed' = Failed
          /\ UNCHANGED <<answer, alive>>
    /\ Staged!Init <=>
          /\ Waiting = <<>> /\ alive = TRUE /\ Left = [b \in Batches |-> 0]
          /\ Failed = [b \in Batches |-> FALSE] /\ answer = [b \in Batches |-> "none"]
    /\ \A b, n : Staged!Submit(b, n) <=>
          /\ alive /\ answer[b] = "none" /\ \A i \in 1..Len(Waiting) : Waiting[i] # b
          /\ Waiting' = Append(Waiting, b) /\ Left' = [Left EXCEPT ![b] = n]
          /\ Failed' = Failed /\ UNCHANGED <<answer, alive>>
    /\ \A b, a : Staged!AnswerAtOnce(b, a) <=>
          /\ alive /\ answer[b] = "none" /\ \A i \in 1..Len(Waiting) : Waiting[i] # b
          /\ answer' = [answer EXCEPT ![b] = a]
          /\ Failed' = [Failed EXCEPT ![b] = (a = "failed")]
          /\ Waiting' = Waiting /\ Left' = Left /\ UNCHANGED alive
    /\ \A ok : Staged!WriteFamily(ok) <=>
          /\ alive /\ Waiting # <<>> /\ Left[Head(Waiting)] > 0
          /\ Left' = [Left EXCEPT ![Head(Waiting)] = Left[Head(Waiting)] - 1]
          /\ Failed' = [Failed EXCEPT ![Head(Waiting)] = Failed[Head(Waiting)] \/ ~ok]
          /\ Waiting' = Waiting /\ UNCHANGED <<answer, alive>>
    /\ Staged!AnswerFirst <=>
          /\ alive /\ Waiting # <<>> /\ Left[Head(Waiting)] = 0
          /\ answer' = [answer EXCEPT ![Head(Waiting)] =
                          IF Failed[Head(Waiting)] THEN "failed" ELSE "ok"]
          /\ Waiting' = Tail(Waiting) /\ Left' = Left /\ Failed' = Failed /\ UNCHANGED alive
    /\ Staged!Close <=>
          /\ alive /\ alive' = FALSE /\ Waiting' = Waiting /\ Left' = Left /\ Failed' = Failed
          /\ UNCHANGED answer
<1>1. Staged!vars' = Staged!vars <=>
          /\ Waiting' = Waiting /\ Left' = Left /\ Failed' = Failed
          /\ UNCHANGED <<answer, alive>>
  BY DEF Staged!vars, Left, Failed
<1>2. Staged!Init <=>
          /\ Waiting = <<>> /\ alive = TRUE /\ Left = [b \in Batches |-> 0]
          /\ Failed = [b \in Batches |-> FALSE] /\ answer = [b \in Batches |-> "none"]
  BY DEF Staged!Init, Left, Failed
<1>3. ASSUME NEW b, NEW n
      PROVE  Staged!Submit(b, n) <=>
          /\ alive /\ answer[b] = "none" /\ \A i \in 1..Len(Waiting) : Waiting[i] # b
          /\ Waiting' = Append(Waiting, b) /\ Left' = [Left EXCEPT ![b] = n]
          /\ Failed' = Failed /\ UNCHANGED <<answer, alive>>
  BY DEF Staged!Submit, Staged!Asked, Left, Failed
<1>4. ASSUME NEW b, NEW a
      PROVE  Staged!AnswerAtOnce(b, a) <=>
          /\ alive /\ answer[b] = "none" /\ \A i \in 1..Len(Waiting) : Waiting[i] # b
          /\ answer' = [answer EXCEPT ![b] = a]
          /\ Failed' = [Failed EXCEPT ![b] = (a = "failed")]
          /\ Waiting' = Waiting /\ Left' = Left /\ UNCHANGED alive
  BY DEF Staged!AnswerAtOnce, Staged!Asked, Left, Failed
<1>5. ASSUME NEW ok
      PROVE  Staged!WriteFamily(ok) <=>
          /\ alive /\ Waiting # <<>> /\ Left[Head(Waiting)] > 0
          /\ Left' = [Left EXCEPT ![Head(Waiting)] = Left[Head(Waiting)] - 1]
          /\ Failed' = [Failed EXCEPT ![Head(Waiting)] = Failed[Head(Waiting)] \/ ~ok]
          /\ Waiting' = Waiting /\ UNCHANGED <<answer, alive>>
  BY DEF Staged!WriteFamily, Left, Failed
<1>6. Staged!AnswerFirst <=>
          /\ alive /\ Waiting # <<>> /\ Left[Head(Waiting)] = 0
          /\ answer' = [answer EXCEPT ![Head(Waiting)] =
                          IF Failed[Head(Waiting)] THEN "failed" ELSE "ok"]
          /\ Waiting' = Tail(Waiting) /\ Left' = Left /\ Failed' = Failed /\ UNCHANGED alive
  BY DEF Staged!AnswerFirst, Left, Failed
<1>7. Staged!Close <=>
          /\ alive /\ alive' = FALSE /\ Waiting' = Waiting /\ Left' = Left /\ Failed' = Failed
          /\ UNCHANGED answer
  BY DEF Staged!Close, Left, Failed
<1>. QED
  BY <1>1, <1>2, <1>3, <1>4, <1>5, <1>6, <1>7

LEMMA IdsAre ==
    ASSUME NEW n \in Nat, NEW queue \in Seq(BatchesOf(n))
    PROVE  /\ Ids(queue) \in Seq(Batches) /\ Len(Ids(queue)) = Len(queue)
           /\ \A i \in 1..Len(queue) : /\ Ids(queue)[i] = queue[i].id /\ queue[i].id \in Batches
                                       /\ queue[i].id # 0
<1>1. Len(queue) \in Nat /\ \A i \in 1..Len(queue) : queue[i] \in BatchesOf(n)
  OBVIOUS
<1>2. \A b \in BatchesOf(n) : b.id \in Batches /\ b.id # 0
  BY StagingAssumption DEF BatchesOf
<1>3. Ids(queue) \in [1..Len(queue) -> Batches]
  BY <1>1, <1>2 DEF Ids
<1>4. Ids(queue) \in Seq(Batches) /\ Len(Ids(queue)) = Len(queue)
  BY <1>1, <1>3, FunctionSeq
<1>. QED
  BY <1>1, <1>2, <1>4 DEF Ids

LEMMA WaitingIs ==
    ASSUME NEW n \in Nat, NEW queue \in Seq(BatchesOf(n)), NEW cur \in Batches \union {0}
    PROVE  /\ cur = 0 => WaitingOf(queue, cur) = Ids(queue)
           /\ cur # 0 => /\ WaitingOf(queue, cur) # <<>> /\ Head(WaitingOf(queue, cur)) = cur
                         /\ Tail(WaitingOf(queue, cur)) = Ids(queue)
           /\ \A i \in 1..Len(WaitingOf(queue, cur)) :
                 \/ cur # 0 /\ WaitingOf(queue, cur)[i] = cur
                 \/ \E j \in 1..Len(queue) : WaitingOf(queue, cur)[i] = queue[j].id
           /\ \A b \in BatchesOf(n) :
                 WaitingOf(Append(queue, b), cur) = Append(WaitingOf(queue, cur), b.id)
           /\ queue # <<>> => WaitingOf(Tail(queue), Head(queue).id) = Ids(queue)
<1>1. PICK ids \in Seq(Batches) :
         /\ ids = Ids(queue) /\ Len(ids) = Len(queue)
         /\ \A i \in 1..Len(queue) : ids[i] = queue[i].id
  BY IdsAre
<1>2. ASSUME cur = 0
      PROVE  /\ WaitingOf(queue, cur) = Ids(queue)
             /\ \A i \in 1..Len(WaitingOf(queue, cur)) :
               \/ cur # 0 /\ WaitingOf(queue, cur)[i] = cur
               \/ \E j \in 1..Len(queue) : WaitingOf(queue, cur)[i] = queue[j].id
  <2>1. WaitingOf(queue, cur) = ids
    BY <1>1, <1>2 DEF WaitingOf
  <2>. QED
    BY <1>1, <1>2, <2>1
<1>3. ASSUME cur # 0
      PROVE  /\ WaitingOf(queue, cur) # <<>> /\ Head(WaitingOf(queue, cur)) = cur
             /\ Tail(WaitingOf(queue, cur)) = Ids(queue)
             /\ \A i \in 1..Len(WaitingOf(queue, cur)) :
               \/ cur # 0 /\ WaitingOf(queue, cur)[i] = cur
               \/ \E j \in 1..Len(queue) : WaitingOf(queue, cur)[i] = queue[j].id
  <2>1. WaitingOf(queue, cur) = <<cur>> \o ids
    BY <1>1, <1>3 DEF WaitingOf
  <2>2. PICK c \in Batches : c = cur
    BY <1>3
  <2>3. PICK all : all = <<c>> \o ids
    OBVIOUS
  <2>4. /\ Len(all) = 1 + Len(ids) /\ all # <<>> /\ Head(all) = c /\ Tail(all) = ids
        /\ \A i \in 1..Len(all) : all[i] = c \/ (i - 1 \in 1..Len(ids) /\ all[i] = ids[i - 1])
    BY <2>3
  <2>5. all = WaitingOf(queue, cur)
    BY <2>1, <2>2, <2>3
  <2>6. \A i \in 1..Len(all) : all[i] = cur \/ \E j \in 1..Len(queue) : all[i] = queue[j].id
    BY <1>1, <2>2, <2>4
  <2>. QED
    BY <1>1, <1>3, <2>2, <2>4, <2>5, <2>6
<1>4. ASSUME NEW b \in BatchesOf(n)
      PROVE  WaitingOf(Append(queue, b), cur) = Append(WaitingOf(queue, cur), b.id)
  <2>1. b.id \in Batches
    BY DEF BatchesOf
  <2>2. Ids(Append(queue, b)) = Append(ids, b.id)
    <3>1. PICK more \in Seq(BatchesOf(n)) :
             /\ more = Append(queue, b) /\ Len(more) = Len(queue) + 1 /\ more[Len(queue) + 1] = b
             /\ \A i \in 1..Len(queue) : more[i] = queue[i]
      <4>1. Append(queue, b) \in Seq(BatchesOf(n))
        OBVIOUS
      <4>2. /\ Len(Append(queue, b)) = Len(queue) + 1 /\ Append(queue, b)[Len(queue) + 1] = b
            /\ \A i \in 1..Len(queue) : Append(queue, b)[i] = queue[i]
        OBVIOUS
      <4>. QED
        BY <4>1, <4>2
    <3>2. PICK all \in Seq(Batches) :
             /\ all = Ids(more) /\ Len(all) = Len(more)
             /\ \A i \in 1..Len(more) : all[i] = more[i].id
      BY IdsAre
    <3>3. PICK last \in Batches : last = b.id
      BY <2>1
    <3>4. /\ Len(Append(ids, last)) = Len(ids) + 1 /\ Append(ids, last) \in Seq(Batches)
          /\ \A i \in 1..(Len(ids) + 1) :
                Append(ids, last)[i] = IF i <= Len(ids) THEN ids[i] ELSE last
      OBVIOUS
    <3>5. \A i \in 1..Len(more) : all[i] = Append(ids, last)[i]
      BY <1>1, <3>1, <3>2, <3>3, <3>4
    <3>6. all = Append(ids, last)
      BY <1>1, <3>1, <3>2, <3>4, <3>5
    <3>. QED
      BY <3>1, <3>2, <3>3, <3>6
  <2>3. CASE cur = 0
    BY <1>1, <2>1, <2>2, <2>3 DEF WaitingOf
  <2>4. CASE cur # 0
    <3>1. <<cur>> \o Append(ids, b.id) = Append(<<cur>> \o ids, b.id)
      BY <2>1, <2>4
    <3>. QED
      BY <1>1, <2>2, <2>4, <3>1 DEF WaitingOf
  <2>. QED
    BY <2>3, <2>4
<1>5. ASSUME queue # <<>> PROVE WaitingOf(Tail(queue), Head(queue).id) = Ids(queue)
  <2>1. PICK rest \in Seq(BatchesOf(n)), first \in BatchesOf(n) :
           /\ rest = Tail(queue) /\ first = Head(queue) /\ Len(rest) = Len(queue) - 1
           /\ first = queue[1] /\ \A i \in 1..Len(rest) : rest[i] = queue[i + 1]
    <3>1. Tail(queue) \in Seq(BatchesOf(n)) /\ Head(queue) \in BatchesOf(n)
      BY <1>5
    <3>2. /\ Len(Tail(queue)) = Len(queue) - 1 /\ Head(queue) = queue[1]
          /\ \A i \in 1..Len(Tail(queue)) : Tail(queue)[i] = queue[i + 1]
      BY <1>5
    <3>. QED
      BY <3>1, <3>2
  <2>2. PICK tail \in Seq(Batches) :
           /\ tail = Ids(rest) /\ Len(tail) = Len(rest)
           /\ \A i \in 1..Len(rest) : tail[i] = rest[i].id
    BY IdsAre
  <2>3. first.id \in Batches /\ first.id # 0
    BY StagingAssumption DEF BatchesOf
  <2>4. PICK head \in Batches : head = first.id
    BY <2>3
  <2>5. /\ Len(<<head>> \o tail) = 1 + Len(tail) /\ <<head>> \o tail \in Seq(Batches)
        /\ \A i \in 1..(1 + Len(tail)) :
              (<<head>> \o tail)[i] = IF i = 1 THEN head ELSE tail[i - 1]
    OBVIOUS
  <2>6. Len(queue) \in Nat /\ Len(queue) >= 1
    BY <1>5
  <2>7. \A i \in 1..Len(ids) : ids[i] = (<<head>> \o tail)[i]
    <3>1. ASSUME NEW i \in 1..Len(ids) PROVE ids[i] = (<<head>> \o tail)[i]
      <4>1. CASE i = 1
        BY <1>1, <2>1, <2>2, <2>4, <2>5, <2>6, <4>1
      <4>2. CASE i # 1
        <5>1. i - 1 \in 1..Len(rest) /\ (i - 1) + 1 = i
          BY <1>1, <2>1, <2>6, <4>2
        <5>2. rest[i - 1] = queue[i]
          BY <2>1, <5>1
        <5>. QED
          BY <1>1, <2>1, <2>2, <2>5, <2>6, <4>2, <5>1, <5>2
      <4>. QED
        BY <4>1, <4>2
    <3>. QED
      BY <3>1
  <2>8. ids = <<head>> \o tail
    <3>1. PICK cat \in Seq(Batches) : cat = <<head>> \o tail
      BY <2>5
    <3>2. Len(cat) = Len(ids)
      BY <1>1, <2>1, <2>2, <2>5, <2>6, <3>1
    <3>3. \A i \in 1..Len(ids) : ids[i] = cat[i]
      BY <2>7, <3>1
    <3>4. ids \in [1..Len(ids) -> Batches] /\ cat \in [1..Len(ids) -> Batches]
      BY <3>2
    <3>5. ids = cat
      BY ONLY <3>3, <3>4
    <3>. QED
      BY <3>1, <3>5
  <2>. QED
    BY <1>1, <2>1, <2>2, <2>3, <2>4, <2>8 DEF WaitingOf
<1>. QED
  BY <1>1, <1>2, <1>3, <1>4, <1>5

Distinct(queue) == \A i, j \in 1..Len(queue) : queue[i].id = queue[j].id => i = j
LeftSays(queue, cur, pend) ==
    /\ LeftIn(queue, cur, pend, cur) = pend
    /\ \A i \in 1..Len(queue) : queue[i].id # cur =>
          LeftIn(queue, cur, pend, queue[i].id) = Cardinality(Puts(queue[i]))
    /\ \A b : b # cur /\ (\A i \in 1..Len(queue) : queue[i].id # b)
                 => LeftIn(queue, cur, pend, b) = 0

LEMMA LeftIs ==
    ASSUME NEW n \in Nat, NEW queue \in Seq(BatchesOf(n)), NEW cur, NEW pend, Distinct(queue)
    PROVE  LeftSays(queue, cur, pend)
<1>1. PICK ids \in Seq(Batches) :
         /\ ids = Ids(queue) /\ Len(ids) = Len(queue)
         /\ \A i \in 1..Len(queue) : ids[i] = queue[i].id
  BY IdsAre
<1>2. /\ Range(ids) = {queue[i].id : i \in 1..Len(queue)}
      /\ Range(queue) = {queue[i] : i \in 1..Len(queue)}
  <2>1. DOMAIN ids = 1..Len(queue) /\ DOMAIN queue = 1..Len(queue)
    BY <1>1
  <2>. QED
    BY <1>1, <2>1 DEF Range
<1>3. ASSUME NEW i \in 1..Len(queue), queue[i].id # cur
      PROVE  LeftIn(queue, cur, pend, queue[i].id) = Cardinality(Puts(queue[i]))
  <2>1. PICK c : c = CHOOSE q \in Range(queue) : q.id = queue[i].id
    OBVIOUS
  <2>2. c \in Range(queue) /\ c.id = queue[i].id
    BY <1>2, <2>1
  <2>3. PICK j \in 1..Len(queue) : c = queue[j]
    BY <1>2, <2>2
  <2>4. c = queue[i]
    BY <2>2, <2>3 DEF Distinct
  <2>. QED
    BY <1>1, <1>2, <1>3, <2>1, <2>4 DEF LeftIn
<1>4. ASSUME NEW b, b # cur, \A i \in 1..Len(queue) : queue[i].id # b
      PROVE  LeftIn(queue, cur, pend, b) = 0
  BY <1>1, <1>2, <1>4 DEF LeftIn
<1>. QED
  BY <1>3, <1>4 DEF LeftIn, LeftSays

LEMMA LeftAppended ==
    ASSUME NEW n \in Nat, NEW queue \in Seq(BatchesOf(n)), NEW cur, NEW pend, NEW b \in BatchesOf(n),
           Distinct(queue), b.id # cur, \A i \in 1..Len(queue) : queue[i].id # b.id, NEW c
    PROVE  LeftIn(Append(queue, b), cur, pend, c) =
              IF c = b.id THEN Cardinality(Puts(b)) ELSE LeftIn(queue, cur, pend, c)
<1>1. PICK more \in Seq(BatchesOf(n)) :
         /\ more = Append(queue, b) /\ Len(more) = Len(queue) + 1 /\ more[Len(queue) + 1] = b
         /\ \A i \in 1..Len(queue) : more[i] = queue[i]
  <2>1. Append(queue, b) \in Seq(BatchesOf(n))
    OBVIOUS
  <2>2. /\ Len(Append(queue, b)) = Len(queue) + 1 /\ Append(queue, b)[Len(queue) + 1] = b
        /\ \A i \in 1..Len(queue) : Append(queue, b)[i] = queue[i]
    OBVIOUS
  <2>. QED
    BY <2>1, <2>2
<1>2. /\ Len(queue) \in Nat /\ Len(queue) + 1 \in 1..Len(more)
      /\ \A i \in 1..Len(more) : i \in 1..Len(queue) \/ i = Len(queue) + 1
      /\ \A i \in 1..Len(queue) : i \in 1..Len(more)
  BY <1>1
<1>3. Distinct(more)
  <2>1. ASSUME NEW i \in 1..Len(more), NEW j \in 1..Len(more), more[i].id = more[j].id PROVE i = j
    BY <1>1, <1>2, <2>1 DEF Distinct
  <2>. QED
    BY <2>1 DEF Distinct
<1>4. LeftSays(more, cur, pend)
  BY <1>3, LeftIs
<1>5. LeftSays(queue, cur, pend)
  BY LeftIs
<1>6. CASE c = b.id
  BY <1>1, <1>2, <1>4, <1>6 DEF LeftSays
<1>7. CASE c # b.id /\ c = cur
  BY <1>1, <1>4, <1>5, <1>7 DEF LeftSays
<1>8. CASE c # cur /\ \E i \in 1..Len(queue) : queue[i].id = c
  <2>1. PICK i \in 1..Len(queue) : queue[i].id = c
    BY <1>8
  <2>2. i \in 1..Len(more) /\ more[i] = queue[i]
    BY <1>1, <1>2
  <2>. QED
    BY <1>1, <1>4, <1>5, <1>8, <2>1, <2>2 DEF LeftSays
<1>9. CASE c # b.id /\ c # cur /\ \A i \in 1..Len(queue) : queue[i].id # c
  <2>1. \A i \in 1..Len(more) : more[i].id # c
    BY <1>1, <1>2, <1>9
  <2>. QED
    BY <1>1, <1>4, <1>5, <1>9, <2>1 DEF LeftSays
<1>. QED
  BY <1>6, <1>7, <1>8, <1>9 DEF LeftSays

LEMMA LeftStarted ==
    ASSUME NEW n \in Nat, NEW queue \in Seq(BatchesOf(n)), queue # <<>>, NEW pend,
           Distinct(queue), NEW c \in Batches
    PROVE  LeftIn(Tail(queue), Head(queue).id, Cardinality(Puts(Head(queue))), c)
              = LeftIn(queue, 0, pend, c)
<1>1. PICK rest \in Seq(BatchesOf(n)) :
         /\ rest = Tail(queue) /\ Len(rest) = Len(queue) - 1
         /\ \A i \in 1..Len(rest) : rest[i] = queue[i + 1]
  <2>1. Tail(queue) \in Seq(BatchesOf(n))
    OBVIOUS
  <2>2. /\ Len(Tail(queue)) = Len(queue) - 1
        /\ \A i \in 1..Len(Tail(queue)) : Tail(queue)[i] = queue[i + 1]
    OBVIOUS
  <2>. QED
    BY <2>1, <2>2
<1>2. PICK first \in BatchesOf(n) : first = Head(queue) /\ first = queue[1]
  OBVIOUS
<1>3. /\ Len(queue) \in Nat /\ 1 \in 1..Len(queue)
      /\ \A i \in 1..Len(rest) : i + 1 \in 1..Len(queue) /\ i + 1 # 1
      /\ \A i \in 1..Len(queue) : i = 1 \/ (i - 1 \in 1..Len(rest) /\ (i - 1) + 1 = i)
  BY <1>1
<1>4. \A i \in 1..Len(rest) : rest[i].id # first.id
  BY <1>1, <1>2, <1>3 DEF Distinct
<1>5. Distinct(rest)
  <2>1. ASSUME NEW i \in 1..Len(rest), NEW j \in 1..Len(rest), rest[i].id = rest[j].id PROVE i = j
    <3>1. i + 1 = j + 1
      BY <1>1, <1>3, <2>1 DEF Distinct
    <3>. QED
      BY <3>1
  <2>. QED
    BY <2>1 DEF Distinct
<1>6. PICK fid, p : fid = first.id /\ p = Cardinality(Puts(first))
  OBVIOUS
<1>7. LeftSays(rest, fid, p)
  BY <1>5, LeftIs
<1>8. LeftSays(queue, 0, pend)
  BY LeftIs
<1>9. c # 0
  BY StagingAssumption
<1>10. CASE c = fid
  BY <1>1, <1>2, <1>3, <1>6, <1>7, <1>8, <1>9, <1>10 DEF LeftSays
<1>11. CASE \E i \in 1..Len(rest) : rest[i].id = c
  <2>1. PICK i \in 1..Len(rest) : rest[i].id = c
    BY <1>11
  <2>2. rest[i] = queue[i + 1] /\ i + 1 \in 1..Len(queue) /\ c # fid
    BY <1>1, <1>3, <1>4, <1>6, <2>1
  <2>. QED
    BY <1>1, <1>2, <1>6, <1>7, <1>8, <1>9, <2>1, <2>2 DEF LeftSays
<1>12. CASE c # fid /\ \A i \in 1..Len(rest) : rest[i].id # c
  <2>1. \A i \in 1..Len(queue) : queue[i].id # c
    <3>1. ASSUME NEW i \in 1..Len(queue) PROVE queue[i].id # c
      <4>1. CASE i = 1
        BY <1>2, <1>6, <1>12, <4>1
      <4>2. CASE i # 1
        <5>1. i - 1 \in 1..Len(rest) /\ (i - 1) + 1 = i
          BY <1>3, <4>2
        <5>2. rest[i - 1] = queue[i]
          BY <1>1, <5>1
        <5>. QED
          BY <1>12, <5>1, <5>2
      <4>. QED
        BY <4>1, <4>2
    <3>. QED
      BY <3>1
  <2>. QED
    BY <1>1, <1>2, <1>6, <1>7, <1>8, <1>9, <1>12, <2>1 DEF LeftSays
<1>. QED
  BY <1>10, <1>11, <1>12

(* A batch that is started waits as it did, with as much to write.         *)
LEMMA StartedMapped ==
    ASSUME Works, NEW n \in Nat, NEW queue \in Seq(BatchesOf(n)), StartNextWriteBatch(queue),
           files' \in [Uids -> FileTypes(n)], Distinct(queue),
           \A i \in 1..Len(queue) : answer'[queue[i].id] = "none"
    PROVE  /\ Waiting' = WaitingOf(queue, current)
           /\ Left' = [b \in Batches |-> LeftIn(queue, current, Pend, b)]
           /\ Failed' = [b \in Batches |-> FailedIn(current, tally.bad, answer', b)]
<1>1. CASE current # 0 \/ queue = <<>>
  <2>1. batches' = queue /\ UNCHANGED <<current, writerVars>>
    BY <1>1, NoBatchStarted
  <2>2. Pend' = Pend /\ batches' = queue /\ current' = current /\ tally'.bad = tally.bad
    BY <2>1 DEF Pend
  <2>. QED
    BY <2>2, MappedIs
<1>2. CASE current = 0 /\ queue # <<>>
  <2>1. thread = "off" /\ writing = NoRequest
    BY <1>2 DEF Works, Typed, TypeOK, WriterSound
  <2>2. PICK c \in BatchesOf(n) : c = Head(queue) /\ c = queue[1] /\ 1 \in 1..Len(queue)
    BY <1>2
  <2>3. LET d == Head(queue)
        IN  /\ current' = d.id /\ batches' = Tail(queue)
            /\ thread' = "writing" /\ tally' = NoTally /\ finishing' = TRUE
            /\ UNCHANGED <<writing, report>>
            /\ wqueue' \in Seq(Requests(n)) /\ Len(wqueue') = Cardinality(Puts(d))
            /\ \A i, j \in 1..Len(wqueue') : wqueue'[i].uid = wqueue'[j].uid => i = j
            /\ \A i \in 1..Len(wqueue') :
                  /\ wqueue'[i].uid \in Puts(d)
                  /\ wqueue'[i].family = Merge(FamilyIn(files'[wqueue'[i].uid]),
                                               d.writes[wqueue'[i].uid])
            /\ \A u \in Puts(d) : \E i \in 1..Len(wqueue') : wqueue'[i].uid = u
    BY <1>2, <2>1, StartedBatch
  <2>4. /\ current' = c.id /\ batches' = Tail(queue) /\ tally' = NoTally
        /\ writing' = NoRequest /\ Len(wqueue') = Cardinality(Puts(c))
        /\ wqueue' \in Seq(Requests(n))
    BY <2>1, <2>2, <2>3
  <2>5. Pend' = Cardinality(Puts(c))
    <3>1. Len(wqueue') + 0 = Len(wqueue')
      BY <2>4
    <3>. QED
      BY <2>4, <3>1 DEF Pend
  <2>6. c.id \in Batches /\ c.id # 0
    BY StagingAssumption DEF BatchesOf
  <2>7. Waiting' = WaitingOf(queue, current)
    <3>1. WaitingOf(Tail(queue), Head(queue).id) = Ids(queue) /\ WaitingOf(queue, 0) = Ids(queue)
      BY <1>2, WaitingIs
    <3>. QED
      BY <1>2, <2>2, <2>4, <3>1, MappedIs
  <2>8. Left' = [b \in Batches |-> LeftIn(queue, current, Pend, b)]
    <3>1. PICK pend, p : pend = Pend /\ p = Pend'
      OBVIOUS
    <3>2. \A b \in Batches : LeftIn(Tail(queue), c.id, p, b) = LeftIn(queue, 0, pend, b)
      BY <1>2, <2>2, <2>5, <3>1, LeftStarted
    <3>3. Left' = [b \in Batches |-> LeftIn(Tail(queue), c.id, p, b)]
      BY <2>4, <3>1, MappedIs
    <3>. QED
      BY <1>2, <3>1, <3>2, <3>3
  <2>9. Failed' = [b \in Batches |-> FailedIn(current, tally.bad, answer', b)]
    <3>1. answer'[c.id] = "none" /\ tally'.bad = 0
      BY <2>2, <2>4 DEF NoTally
    <3>2. \A b \in Batches : b # 0
      BY StagingAssumption
    <3>3. ASSUME NEW b \in Batches
          PROVE  FailedIn(c.id, 0, answer', b) = FailedIn(0, tally.bad, answer', b)
      BY <3>1, <3>2 DEF FailedIn
    <3>4. Failed' = [b \in Batches |-> FailedIn(c.id, 0, answer', b)]
      BY <2>4, <3>1, MappedIs
    <3>. QED
      BY <1>2, <3>3, <3>4
  <2>. QED
    BY <2>7, <2>8, <2>9
<1>. QED
  BY <1>1, <1>2

(* What is mapped, of a state the writer and the batches are sound in.     *)
LEMMA MappedNow ==
    ASSUME Works
    PROVE  /\ batches \in Seq(BatchesOf(clock)) /\ clock \in Nat /\ Distinct(batches)
           /\ current \in Batches \union {0} /\ \A b \in Batches : b # 0 /\ b \in Nat
           /\ LeftSays(batches, current, Pend) /\ Pend \in Nat
           /\ \A b \in Batches : Left[b] = LeftIn(batches, current, Pend, b)
           /\ \A b \in Batches : Failed[b] = FailedIn(current, tally.bad, answer, b)
           /\ \A b \in Batches : Failed[b] \in BOOLEAN
<1>1. /\ batches \in Seq(BatchesOf(clock)) /\ clock \in Nat /\ Distinct(batches)
      /\ current \in Batches \union {0} /\ \A b \in Batches : b # 0 /\ b \in Nat
  BY TypedIn, StagingAssumption DEF Works, Typed, TypeOK, BatchesNumbered, Distinct
<1>2. LeftSays(batches, current, Pend)
  <2>1. PICK queue \in Seq(BatchesOf(clock)) : queue = batches
    BY <1>1
  <2>2. PICK cur, pend : cur = current /\ pend = Pend
    OBVIOUS
  <2>3. Distinct(queue)
    BY <1>1, <2>1
  <2>4. LeftSays(queue, cur, pend)
    BY <1>1, <2>3, LeftIs
  <2>. QED
    BY <2>1, <2>2, <2>4
<1>3. Pend \in Nat
  <2>1. Len(wqueue) \in Nat
    BY TypedIn DEF Works
  <2>. QED
    BY <2>1 DEF Pend
<1>4. /\ \A b \in Batches : Left[b] = LeftIn(batches, current, Pend, b)
      /\ \A b \in Batches : Failed[b] = FailedIn(current, tally.bad, answer, b)
  BY MappedIs
<1>5. ASSUME NEW b \in Batches PROVE Failed[b] \in BOOLEAN
  <2>1. (tally.bad > 0) \in BOOLEAN /\ (answer[b] = "failed") \in BOOLEAN
    OBVIOUS
  <2>2. Failed[b] = IF b = current THEN tally.bad > 0 ELSE answer[b] = "failed"
    BY DEF Failed
  <2>. QED
    BY <2>1, <2>2, Zenon
<1>. QED
  BY <1>1, <1>2, <1>3, <1>4, <1>5

LEMMA InitStaged == Init => Staged!Init
<1>. SUFFICES ASSUME Init PROVE Staged!Init
  OBVIOUS
<1>1. Works
  BY InitIInv DEF IInv, Works
<1>2. /\ batches = <<>> /\ current = 0 /\ alive = TRUE /\ answer = [b \in Batches |-> "none"]
      /\ wqueue = <<>> /\ writing = NoRequest
  BY DEF Init, WriterInit
<1>3. Waiting = <<>>
  BY <1>2 DEF Waiting, Ids
<1>4. \A b \in Batches : Left[b] = 0
  BY <1>1, <1>2, MappedNow DEF LeftSays
<1>5. \A b \in Batches : ~Failed[b]
  BY <1>1, <1>2, MappedNow DEF FailedIn
<1>6. Left = [b \in Batches |-> Left[b]] /\ Failed = [b \in Batches |-> Failed[b]]
  BY DEF Left, Failed
<1>7. Left = [b \in Batches |-> 0]
  BY <1>4, <1>6
<1>8. Failed = [b \in Batches |-> FALSE]
  <2>1. \A b \in Batches : Failed[b] = FALSE
    BY <1>1, <1>5, MappedNow
  <2>2. PICK f : f = Failed
    OBVIOUS
  <2>3. f = [b \in Batches |-> f[b]] /\ \A b \in Batches : f[b] = FALSE
    BY <1>6, <2>1, <2>2
  <2>. QED
    BY <2>2, <2>3
<1>. QED
  BY <1>2, <1>3, <1>7, <1>8, AbstractIs

(* Submitting: a batch that waits, or an answer at once.                   *)
LEMMA SubmitStaged ==
    ASSUME Works, Works', NEW s \in Stagings, NEW failing \in BOOLEAN, NEW kept \in SUBSET Uids,
           StartSync(s, failing, kept)
    PROVE  Staged!Next
<1>1. /\ alive /\ alive' = alive /\ budget.stagings > 0 /\ clock' = clock + 1
  BY StartSyncDoes DEF Callable
<1>2. /\ Submitted(s, failing) \in BatchesOf(clock + 1)
      /\ submitted + 1 \in Batches /\ answer[submitted + 1] = "none"
      /\ Append(batches, Submitted(s, failing)) \in Seq(BatchesOf(clock + 1))
      /\ Numbered(Append(batches, Submitted(s, failing)), submitted + 1, answer)
  BY <1>1, SubmittedTyped
<1>3. PICK id \in Batches : id = submitted + 1
  BY <1>2
<1>4. /\ submitted \in Nat /\ clock \in Nat /\ clock + 1 \in Nat /\ tally.bad \in Nat
      /\ answer \in [Batches -> {"none", "ok", "failed"}]
  BY DEF Works, Typed, TypeOK
<1>5. /\ id # current /\ \A i \in 1..Len(batches) : batches[i].id # id
  <2>1. current <= submitted /\ \A i \in 1..Len(batches) : batches[i].id <= submitted
    BY DEF Works, BatchesNumbered
  <2>. QED
    BY <1>3, <1>4, <2>1
<1>6. \A i \in 1..Len(Waiting) : Waiting[i] # id
  <2>1. \A i \in 1..Len(WaitingOf(batches, current)) :
           \/ WaitingOf(batches, current)[i] = current
           \/ \E j \in 1..Len(batches) : WaitingOf(batches, current)[i] = batches[j].id
    BY MappedNow, WaitingIs
  <2>. QED
    BY <1>5, <2>1, MappedIs
<1>7. CASE /\ UNCHANGED <<batches, current, writerVars>>
           /\ \E a \in {"ok", "failed"} : answer' = [answer EXCEPT ![submitted + 1] = a]
  <2>1. PICK a \in {"ok", "failed"} : answer' = [answer EXCEPT ![id] = a]
    BY <1>3, <1>7
  <2>2. Waiting' = Waiting /\ Left' = Left
    <3>1. Pend' = Pend
      BY <1>7 DEF Pend
    <3>. QED
      BY <1>7, <3>1, MappedIs
  <2>3. Failed' = [Failed EXCEPT ![id] = (a = "failed")]
    <3>1. Failed = [b \in Batches |-> FailedIn(current, tally.bad, answer, b)]
      BY MappedIs
    <3>2. Failed' = [b \in Batches |-> FailedIn(current, tally.bad, answer', b)]
      BY <1>7, MappedIs
    <3>3. \A b \in Batches : answer'[b] = IF b = id THEN a ELSE answer[b]
      BY <1>4, <2>1
    <3>4. \A b \in Batches : FailedIn(current, tally.bad, answer', b)
                             = IF b = id THEN (a = "failed") ELSE FailedIn(current, tally.bad, answer, b)
      BY <1>5, <3>3 DEF FailedIn
    <3>. QED
      BY <3>1, <3>2, <3>4
  <2>4. Staged!AnswerAtOnce(id, a)
    BY <1>1, <1>2, <1>3, <1>6, <2>1, <2>2, <2>3, AbstractIs
  <2>. QED
    BY <2>4 DEF Staged!Next
<1>8. CASE /\ s.puts # {} /\ ~failing
           /\ StartNextWriteBatch(Append(batches, Submitted(s, failing))) /\ UNCHANGED answer
  <2>1. PICK n \in Nat : n = clock + 1
    BY <1>4
  <2>2. PICK b \in BatchesOf(n) : b = Submitted(s, failing) /\ b.id = id
    BY <1>2, <1>3, <2>1 DEF Submitted
  <2>3. PICK q \in Seq(BatchesOf(n)) : q = batches
    BY <1>4, <2>1, MappedNow, Grows
  <2>4. PICK queue \in Seq(BatchesOf(n)) : queue = Append(q, b)
    BY <1>2, <2>1, <2>2, <2>3
  <2>5. Distinct(queue) /\ Distinct(q) /\ \A i \in 1..Len(queue) : answer'[queue[i].id] = "none"
    BY <1>2, <1>8, <2>2, <2>3, <2>4, MappedNow DEF Numbered, Distinct
  <2>6. files' \in [Uids -> FileTypes(n)]
    BY <1>1, <2>1 DEF Works, Typed, TypeOK, FileTypes
  <2>7. StartNextWriteBatch(queue)
    BY <1>8, <2>2, <2>3, <2>4
  <2>8. /\ Waiting' = WaitingOf(queue, current)
        /\ Left' = [c \in Batches |-> LeftIn(queue, current, Pend, c)]
        /\ Failed' = [c \in Batches |-> FailedIn(current, tally.bad, answer', c)]
    BY <2>5, <2>6, <2>7, StartedMapped
  <2>9. PICK k : k = Cardinality(Puts(b))
    OBVIOUS
  <2>10. k \in 1..Cardinality(Uids)
    <3>1. Puts(b) \subseteq Uids /\ IsFiniteSet(Puts(b)) /\ IsFiniteSet(Uids)
      BY FilesAssumption, FS_Subset DEF Puts
    <3>2. PICK d \in s.puts : TRUE
      BY <1>8
    <3>3. d[1] \in Uids /\ d[2] \in Slots /\ d = <<d[1], d[2]>>
      BY <3>2, StagingAssumption
    <3>4. b.writes[d[1]][d[2]] = clock + 1
      BY <1>8, <2>2, <3>2, <3>3 DEF Submitted, Brought
    <3>5. b.writes[d[1]] # Empty
      BY <1>4, <3>3, <3>4 DEF Empty
    <3>6. Puts(b) # {}
      BY <3>3, <3>5 DEF Puts
    <3>7. Cardinality(Puts(b)) # 0
      BY <3>1, <3>6, FS_EmptySet
    <3>8. /\ Cardinality(Puts(b)) \in Nat /\ Cardinality(Uids) \in Nat
          /\ Cardinality(Puts(b)) <= Cardinality(Uids)
      BY <3>1, FS_CardinalityType, FS_Subset
    <3>. QED
      BY <2>9, <3>7, <3>8
  <2>11. Waiting' = Append(Waiting, id)
    <3>1. PICK cur \in Batches \union {0} : cur = current
      BY MappedNow
    <3>2. WaitingOf(Append(q, b), cur) = Append(WaitingOf(q, cur), b.id)
      BY WaitingIs
    <3>. QED
      BY <2>2, <2>3, <2>4, <2>8, <3>1, <3>2, MappedIs
  <2>12. Left' = [Left EXCEPT ![id] = k]
    <3>1. PICK cur, pend : cur = current /\ pend = Pend
      OBVIOUS
    <3>2. b.id # cur /\ \A i \in 1..Len(q) : q[i].id # b.id
      BY <1>5, <2>2, <2>3, <3>1
    <3>3. \A c : LeftIn(Append(q, b), cur, pend, c) =
                    IF c = b.id THEN Cardinality(Puts(b)) ELSE LeftIn(q, cur, pend, c)
      BY <2>5, <3>2, LeftAppended
    <3>4. Left' = [c \in Batches |-> LeftIn(Append(q, b), cur, pend, c)]
      BY <2>4, <2>8, <3>1
    <3>5. Left = [c \in Batches |-> LeftIn(q, cur, pend, c)]
      BY <2>3, <3>1, MappedIs
    <3>. QED
      BY <2>2, <2>9, <3>3, <3>4, <3>5
  <2>13. Failed' = Failed
    BY <1>8, <2>8, MappedIs
  <2>14. Staged!Submit(id, k)
    BY <1>1, <1>2, <1>3, <1>6, <1>8, <2>11, <2>12, <2>13, AbstractIs
  <2>. QED
    BY <2>10, <2>14 DEF Staged!Next
<1>. QED
  BY <1>7, <1>8, StartSyncDoes

LEMMA AnswerStaged == ASSUME Works, OnAsyncWritesFinished PROVE Staged!Next
<1>1. /\ alive /\ alive' = alive /\ batches' = batches /\ current' = 0 /\ report # <<>>
      /\ answer' = [answer EXCEPT ![current] = IF report[1].bad > 0 THEN "failed" ELSE "ok"]
      /\ wqueue' = <<>> /\ writing' = writing
  BY DEF OnAsyncWritesFinished, InLoop, Callable, StopWriter
<1>2. /\ current # 0 /\ report = <<tally>> /\ wqueue = <<>> /\ writing = NoRequest
      /\ answer \in [Batches -> {"none", "ok", "failed"}] /\ answer[current] = "none"
  BY <1>1 DEF Works, WriterSound, Typed, TypeOK, BatchesNumbered
<1>3. PICK b \in Batches : b = current /\ b # 0
  BY <1>2, MappedNow
<1>4. \A i \in 1..Len(batches) : batches[i].id # b
  BY <1>3 DEF Works, BatchesNumbered
<1>5. /\ Waiting # <<>> /\ Head(Waiting) = b /\ Tail(Waiting) = Ids(batches)
  BY <1>3, MappedNow, WaitingIs, MappedIs
<1>6. Left[b] = 0
  BY <1>2, <1>3, MappedNow DEF LeftSays, Pend
<1>7. Failed[b] = (tally.bad > 0) /\ report[1].bad = tally.bad
  BY <1>2, <1>3 DEF Failed
<1>8. answer' = [answer EXCEPT ![b] = IF Failed[b] THEN "failed" ELSE "ok"]
  BY <1>1, <1>3, <1>7
<1>9. Waiting' = Tail(Waiting)
  BY <1>1, <1>5, MappedNow, WaitingIs, MappedIs
<1>10. Left' = Left
  <2>1. PICK queue \in Seq(BatchesOf(clock)) : queue = batches /\ Distinct(queue)
    BY MappedNow
  <2>2. PICK pend, p : pend = Pend /\ p = Pend'
    OBVIOUS
  <2>3. LeftSays(queue, b, pend) /\ LeftSays(queue, 0, p)
    BY <2>1, MappedNow, LeftIs
  <2>4. ASSUME NEW c \in Batches PROVE LeftIn(queue, 0, p, c) = LeftIn(queue, b, pend, c)
    <3>1. CASE c = b
      <4>1. pend = 0
        BY <1>2, <2>2 DEF Pend
      <4>. QED
        BY <1>3, <1>4, <2>1, <2>3, <3>1, <4>1 DEF LeftSays
    <3>2. CASE c # b
      BY <3>2, MappedNow DEF LeftIn
    <3>. QED
      BY <3>1, <3>2
  <2>5. Left' = [c \in Batches |-> LeftIn(queue, 0, p, c)]
    BY <1>1, <2>1, <2>2, MappedIs
  <2>6. Left = [c \in Batches |-> LeftIn(queue, b, pend, c)]
    BY <1>3, <2>1, <2>2, MappedIs
  <2>. QED
    BY <2>4, <2>5, <2>6
<1>11. Failed' = Failed
  <2>1. ASSUME NEW c \in Batches
        PROVE  FailedIn(0, tally'.bad, answer', c) = FailedIn(b, tally.bad, answer, c)
    <3>1. CASE c = b
      <4>1. answer'[b] = "failed" <=> tally.bad > 0
        BY <1>2, <1>7, <1>8
      <4>. QED
        BY <1>3, <3>1, <4>1 DEF FailedIn
    <3>2. CASE c # b
      <4>1. answer'[c] = answer[c] /\ c # 0
        BY <1>2, <1>8, <3>2, MappedNow
      <4>. QED
        BY <3>2, <4>1 DEF FailedIn
    <3>. QED
      BY <3>1, <3>2
  <2>2. Failed' = [c \in Batches |-> FailedIn(0, tally'.bad, answer', c)]
    BY <1>1, MappedIs
  <2>3. Failed = [c \in Batches |-> FailedIn(b, tally.bad, answer, c)]
    BY <1>3, MappedIs
  <2>. QED
    BY <2>1, <2>2, <2>3
<1>12. Staged!AnswerFirst
  BY <1>1, <1>5, <1>6, <1>8, <1>9, <1>10, <1>11, AbstractIs
<1>. QED
  BY <1>12 DEF Staged!Next

LEMMA WriterWritesStaged ==
    ASSUME Works, alive, UNCHANGED <<batches, current, answer, alive>>, WorkerStep \/ WorkerTrouble
    PROVE  [Staged!Next]_(Staged!vars)
<1>1. Waiting' = Waiting
  BY MappedIs
<1>2. tally.good \in Nat /\ tally.bad \in Nat /\ tally = [good |-> tally.good, bad |-> tally.bad]
  BY DEF Works, Typed
<1>3. PICK p \in Seq(Requests(clock)) : p = wqueue
  BY TypedIn DEF Works
<1>4. p # <<>> => Len(Tail(p)) = Len(p) - 1 /\ Len(p) \in Nat /\ Head(p) # NoRequest
  <2>1. Requests(clock) \subseteq [uid : Uids, family : Families]
    BY TypedIn, Values DEF Requests, Works
  <2>2. p # <<>> => Head(p) \in Requests(clock)
    OBVIOUS
  <2>. QED
    BY <2>1, <2>2, FilesAssumption
<1>5. ASSUME Pend' = Pend, tally'.bad = tally.bad PROVE UNCHANGED Staged!vars
  <2>1. Left' = Left /\ Failed' = Failed
    BY <1>5, MappedIs
  <2>. QED
    BY <1>1, <2>1, AbstractIs
<1>6. ASSUME Pend' = Pend - 1, Pend > 0, current # 0,
             tally'.bad = tally.bad \/ tally'.bad = tally.bad + 1
      PROVE  Staged!Next
  <2>1. PICK b \in Batches : b = current /\ b # 0
    BY <1>6, MappedNow
  <2>2. Waiting # <<>> /\ Head(Waiting) = b
    BY <2>1, MappedNow, WaitingIs, MappedIs
  <2>3. Left[b] = Pend
    BY <2>1, MappedNow DEF LeftSays
  <2>4. Left' = [Left EXCEPT ![b] = Left[b] - 1]
    <3>1. PICK queue, pend, pend2 : queue = batches /\ pend = Pend /\ pend2 = Pend'
      OBVIOUS
    <3>2. Left = [c \in Batches |-> LeftIn(queue, b, pend, c)]
      BY <2>1, <3>1, MappedIs
    <3>3. Left' = [c \in Batches |-> LeftIn(queue, b, pend2, c)]
      BY <2>1, <3>1, MappedIs
    <3>4. \A c \in Batches : LeftIn(queue, b, pend2, c) = IF c = b THEN pend2 ELSE LeftIn(queue, b, pend, c)
      BY DEF LeftIn
    <3>5. pend2 = Left[b] - 1
      BY <1>6, <2>3, <3>1
    <3>. QED
      BY <3>2, <3>3, <3>4, <3>5
  <2>5. PICK ok \in BOOLEAN : ok = (tally'.bad = tally.bad)
    OBVIOUS
  <2>6. Failed' = [Failed EXCEPT ![b] = Failed[b] \/ ~ok]
    <3>1. Failed = [c \in Batches |-> FailedIn(b, tally.bad, answer, c)]
      BY <2>1, MappedIs
    <3>2. Failed' = [c \in Batches |-> FailedIn(b, tally'.bad, answer, c)]
      BY <2>1, MappedIs
    <3>3. ASSUME NEW c \in Batches, c # b
          PROVE  FailedIn(b, tally'.bad, answer, c) = FailedIn(b, tally.bad, answer, c)
      BY <3>3 DEF FailedIn
    <3>4. FailedIn(b, tally'.bad, answer, b) = (FailedIn(b, tally.bad, answer, b) \/ ~ok)
      <4>1. (tally'.bad > 0) <=> (tally.bad > 0 \/ tally'.bad # tally.bad)
        BY <1>2, <1>6
      <4>2. /\ FailedIn(b, tally'.bad, answer, b) = (tally'.bad > 0)
            /\ FailedIn(b, tally.bad, answer, b) = (tally.bad > 0)
        BY DEF FailedIn
      <4>3. PICK now \in BOOLEAN, was \in BOOLEAN : now = (tally'.bad > 0) /\ was = (tally.bad > 0)
        <5>1. (tally'.bad > 0) \in BOOLEAN /\ (tally.bad > 0) \in BOOLEAN
          OBVIOUS
        <5>. QED
          BY <5>1, Zenon
      <4>4. now <=> (was \/ ~ok)
        BY <2>5, <4>1, <4>3
      <4>5. now = (was \/ ~ok)
        BY ONLY <4>4, Zenon
      <4>. QED
        BY <4>2, <4>3, <4>5
    <3>. QED
      BY <3>1, <3>2, <3>3, <3>4
  <2>7. Staged!WriteFamily(ok)
    BY <1>1, <1>6, <2>2, <2>3, <2>4, <2>6, AbstractIs
  <2>. QED
    BY <2>7 DEF Staged!Next
<1>7. thread = "writing" => current # 0
  BY DEF Works, Typed, TypeOK
<1>8. CASE WorkerOpens
  <2>1. writing = NoRequest /\ p # <<>> /\ wqueue' = Tail(p) /\ writing' = Head(p) /\ tally' = tally
    BY <1>3, <1>8 DEF WorkerOpens
  <2>2. Pend' = Pend
    BY <1>3, <1>4, <2>1 DEF Pend
  <2>. QED
    BY <1>5, <2>1, <2>2
<1>9. CASE WorkerCannotOpen
  <2>1. /\ writing = NoRequest /\ writing' = NoRequest /\ p # <<>> /\ wqueue' = Tail(p)
        /\ thread = "writing" /\ tally' = [tally EXCEPT !.bad = @ + 1]
    BY <1>3, <1>9 DEF WorkerCannotOpen
  <2>2. Pend' = Pend - 1 /\ Pend > 0
    BY <1>3, <1>4, <2>1 DEF Pend
  <2>3. tally'.bad = tally.bad + 1
    BY <1>2, <2>1
  <2>. QED
    BY <1>6, <1>7, <2>1, <2>2, <2>3
<1>10. CASE WorkerWrites \/ WorkerCannotWrite
  <2>1. writing # NoRequest /\ writing' = NoRequest /\ wqueue' = p
    BY <1>3, <1>10 DEF WorkerWrites, WorkerCannotWrite
  <2>2. tally' = [tally EXCEPT !.bad = @ + 1] \/ tally' = [tally EXCEPT !.good = @ + 1]
    BY <1>10 DEF WorkerWrites, WorkerCannotWrite
  <2>3. tally'.bad = tally.bad \/ tally'.bad = tally.bad + 1
    BY <1>2, <2>2
  <2>4. Pend' = Pend - 1 /\ Pend > 0
    BY <1>3, <2>1 DEF Pend
  <2>5. current # 0
    BY <1>7, <2>1 DEF Works, WriterSound
  <2>. QED
    BY <1>6, <2>3, <2>4, <2>5
<1>11. CASE WorkerDrains
  <2>1. UNCHANGED <<wqueue, writing, tally>>
    BY <1>11 DEF WorkerDrains
  <2>2. Pend' = Pend
    BY <2>1 DEF Pend
  <2>. QED
    BY <1>5, <2>1, <2>2
<1>. QED
  BY <1>8, <1>9, <1>10, <1>11 DEF WorkerStep, WorkerTrouble

LEMMA StepStaged ==
    ASSUME Works, Works', [Next]_vars
    PROVE  [Staged!Next]_(Staged!vars)
<1>1. ASSUME UNCHANGED <<batches, current, wqueue, writing, tally, answer, alive>>
      PROVE  UNCHANGED Staged!vars
  <2>1. Pend' = Pend
    BY <1>1 DEF Pend
  <2>. QED
    BY <1>1, <2>1, MappedIs, AbstractIs
<1>2. ASSUME NEW s \in Stagings, NEW failing \in BOOLEAN, NEW kept \in SUBSET Uids,
             StartSync(s, failing, kept)
      PROVE  Staged!Next
  BY <1>2, SubmitStaged
<1>3. CASE OnAsyncWritesFinished
  BY <1>3, AnswerStaged
<1>4. CASE AnswerReturns
  <2>1. StartNextWriteBatch(batches) /\ UNCHANGED <<files, clock, answer, alive>>
    BY <1>4 DEF AnswerReturns
  <2>2. PICK queue \in Seq(BatchesOf(clock)) : queue = batches /\ Distinct(queue)
    BY MappedNow
  <2>3. \A i \in 1..Len(queue) : answer'[queue[i].id] = "none"
    BY <2>1, <2>2 DEF Works, BatchesNumbered
  <2>4. clock \in Nat /\ files' \in [Uids -> FileTypes(clock)]
    BY <2>1, TypedIn DEF Works
  <2>5. /\ Waiting' = WaitingOf(queue, current)
        /\ Left' = [b \in Batches |-> LeftIn(queue, current, Pend, b)]
        /\ Failed' = [b \in Batches |-> FailedIn(current, tally.bad, answer', b)]
    BY <2>1, <2>2, <2>3, <2>4, StartedMapped
  <2>. QED
    BY <2>1, <2>2, <2>5, MappedIs, AbstractIs
<1>5. CASE WorkerWorks \/ WorkerFails
  <2>1. /\ alive /\ (WorkerStep \/ WorkerTrouble)
        /\ UNCHANGED <<batches, current, answer, alive>>
    BY <1>5 DEF WorkerWorks, WorkerFails
  <2>. QED
    BY <2>1, WriterWritesStaged
<1>6. ASSUME NEW op \in Ops,
             EnqueueOperation(op) \/ CancelOperation(op) \/ DeleteOperation(op) \/ OperationTurn(op)
      PROVE  UNCHANGED Staged!vars
  BY <1>1, <1>6 DEF EnqueueOperation, CancelOperation, DeleteOperation, OperationTurn, BodyBegins,
     BodySkipped, FetchStats, FetchDone, PushItem, DeleteItem, BodyFails
<1>7. CASE FetchReads \/ RecordsFromLastFetch \/ ApplyWrites \/ ApplyFails \/ ApplyStats \/ ForeignEdit
  BY <1>1, <1>7 DEF FetchReads, RecordsFromLastFetch, ApplyWrites, ApplyFails, ApplyStats, ForeignEdit
<1>8. CASE Destroy
  <2>1. alive /\ alive' = FALSE /\ UNCHANGED <<batches, current, wqueue, writing, tally, answer>>
    BY <1>8 DEF Destroy, InLoop, Callable
  <2>2. Waiting' = Waiting /\ Left' = Left /\ Failed' = Failed
    <3>1. Pend' = Pend
      BY <2>1 DEF Pend
    <3>. QED
      BY <2>1, <3>1, MappedIs
  <2>3. Staged!Close
    BY <2>1, <2>2, AbstractIs
  <2>. QED
    BY <2>3 DEF Staged!Next
<1>9. CASE UNCHANGED vars
  BY <1>1, <1>9
<1>. QED
  BY <1>2, <1>3, <1>4, <1>5, <1>6, <1>7, <1>8, <1>9 DEF Next

(* The backend keeps the promise of StagedBatches, but for its liveness:   *)
(* each call of startSync() is answered at most once, in the order of the  *)
(* calls, and told a success only when every family it staged was written. *)
THEOREM Promise == Spec => Staged!Init /\ [][Staged!Next]_(Staged!vars)
<1>1. Init => Staged!Init
  BY InitStaged
<1>2. IInv /\ IInv' /\ [Next]_vars => [Staged!Next]_(Staged!vars)
  BY StepStaged DEF IInv, Works
<1>. QED
  BY <1>1, <1>2, Invariance, PTL DEF Spec
=============================================================================
