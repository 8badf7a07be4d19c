----------------------------- MODULE LocalBackend -----------------------------
(***************************************************************************)
(* A calendar that is a directory of .ics files                            *)
(* (src/calendar/localbackend.cpp).  A file holds a family: the master and *)
(* the overrides that share a UID.  Three parties write it: the backend,   *)
(* on its own thread, for the engine (applyRecords()) and for operations;  *)
(* the writer thread, for changes an application staged (startSync()); and *)
(* any other program.  Nothing locks.                                      *)
(***************************************************************************)
EXTENDS AsyncFileWriter, OperationQueue, SequencesExt

CONSTANTS
    Slots,        \* components of a family, Master among them
    Master,
    Batches,      \* calls of startSync() that stage something, 1..n
    Stagings,     \* what a call stages: [dels, puts], sets of <<uid, slot>>
    Task,         \* the operations: [kind : {"fetch", "push", "delete"}, uid : Uids]
    None,
    Budgets       \* what may happen in a behaviour, one of these records:
                  \* [stagings, foreign, applied, troubles: Nat, ops: SUBSET Ops]

Families == [Slots -> Nat]
Budget == [stagings : Nat, foreign : Nat, applied : Nat, troubles : Nat, ops : SUBSET Ops]

ASSUME FilesAssumption ==
    /\ IsFiniteSet(Uids) /\ IsFiniteSet(Slots) /\ Master \in Slots
    /\ Absent # Torn /\ Absent \notin Families /\ Torn \notin Families
    /\ Absent \notin Nat /\ NoRequest \notin [uid : Uids, family : Families]
    /\ None \notin Uids
    /\ Task \in [Ops -> [kind : {"fetch", "push", "delete"}, uid : Uids]]

ASSUME StagingAssumption ==
    /\ Batches \subseteq Nat \ {0}
    /\ Budgets \subseteq Budget /\ \A b \in Budgets : 1..b.stagings \subseteq Batches
    /\ \A s \in Stagings : /\ s.dels \subseteq Uids \X Slots /\ s.puts \subseteq Uids \X Slots
                          /\ \A d, e \in s.dels : d[1] = e[1] => d = e

VARIABLES
    clock,        \* how many contents were made so far
    batches,      \* m_writeBatchQueue
    current,      \* the batch of m_writeBatchInFlight, or 0
    answering,    \* onAsyncWritesFinished() has emitted its answer and not returned
    submitted,    \* startSync() calls so far
    answer,       \* history: the answer to each
    alive,
    acc,          \* what the running operation has done so far
    memo,         \* m_lastFetchRecords, or None once it was taken
    snapshot,     \* m_lastFetchFingerprintSnapshot, or None
    pass,         \* history: the stamps and the records of the last fetch
    known,        \* history: the stamps as it began, but for applyRecords() since
    taken,        \* the engine has taken the records of a fetch
    applying,     \* applyRecords() between a write and its stat
    token,        \* resultRevision(), with what known was then
    budget,       \* what of it may still happen
    meant,        \* history: the families all these calls ask for
    disturbed     \* history: uids changed while a batch held them, or not changed
                  \* though they were to be

localVars == <<clock, batches, current, answering, submitted, answer, alive, acc, memo,
               snapshot, pass, known, taken, applying, token, budget, meant, disturbed>>
fetchVars == <<acc, memo, snapshot, pass, known, taken, applying, token>>
batchVars == <<batches, current, answering, submitted, answer>>
vars == <<fileVars, writerVars, opVars, localVars>>

Empty == [s \in Slots |-> 0]
Lone(n) == [s \in Slots |-> IF s = Master THEN n ELSE 0]
IsFamily(f) == f # Absent /\ f # Torn
FileOf(family) == IF family = Empty THEN Absent ELSE family

(* readFamily(): a file that is not there or does not parse has no members. *)
FamilyIn(f) == IF IsFamily(f) THEN f ELSE Empty
Size(family) == Cardinality({s \in Slots : family[s] # 0})
Merge(old, new) == [s \in Slots |-> IF new[s] # 0 THEN new[s] ELSE old[s]]
Without(family, s) == [family EXCEPT ![s] = 0]

Listing == [u \in {v \in Uids : files[v] # Absent} |-> stamp[u]]

NoStamp == -1
Stamp(u) == IF files[u] = Absent THEN NoStamp ELSE stamp[u]
NoStamps == [u \in Uids |-> NoStamp]
Fresh(todo, kn) ==
    [todo |-> todo, stat |-> None, snap |-> <<>>, recs |-> <<>>, known |-> kn]
NoAcc == Fresh({}, NoStamps)
NoPass == [list |-> <<>>, recs |-> <<>>]

(* What a fetch reports of a file: nothing when it cannot be parsed.       *)
Known(recs, u) == IF u \in DOMAIN recs THEN recs[u] ELSE Absent
With(recs, u, f) ==
    IF f = Absent THEN [v \in DOMAIN recs \ {u} |-> recs[v]]
    ELSE [v \in DOMAIN recs \union {u} |-> IF v = u THEN f ELSE recs[v]]

Init ==
    /\ files \in [Uids -> {Absent, Lone(1)}]
    /\ WriterInit /\ OpInit
    /\ clock = 1 /\ batches = <<>> /\ current = 0 /\ answering = FALSE
    /\ submitted = 0 /\ answer = [b \in Batches |-> "none"] /\ alive = TRUE
    /\ acc = NoAcc /\ memo = None /\ snapshot = None /\ taken = FALSE
    /\ pass = NoPass /\ known = NoStamps /\ applying = None /\ token = None /\ budget \in Budgets
    /\ meant = [u \in Uids |-> FamilyIn(files[u])] /\ disturbed = {}

(* The thread of the backend is in its event loop, or in the answer to a   *)
(* batch, from which its methods may be called too.                        *)
Callable == alive /\ applying = None /\ acc.stat = None
InLoop == Callable /\ ~answering

(***************************************************************************)
(* Staged changes.                                                         *)
(***************************************************************************)
Puts(b) == {u \in Uids : b.writes[u] # Empty}
Held == {u \in Uids : \/ \E i \in 1..Len(batches) : u \in Puts(batches[i])
                      \/ \E i \in 1..Len(wqueue) : wqueue[i].uid = u
                      \/ writing # NoRequest /\ writing.uid = u}

(* removeItem(): a component of several is cut out of its file; else the   *)
(* file goes, whatever component was named.                                *)
RemoveItem(f, s) ==
    IF IsFamily(f) /\ Size(f) > 1 /\ f[s] # 0 THEN Without(f, s) ELSE Absent
RemovesMore(f, s) == IsFamily(f) /\ f[s] = 0

(* startNextWriteBatch(): the families are read and merged now, not when   *)
(* the changes were staged.                                                *)
RequestAsStaged(b, u) == [uid |-> u, family |-> b.writes[u]]
Request(b, u) == [uid |-> u, family |-> Merge(FamilyIn(files'[u]), b.writes[u])]

AlwaysFree == TRUE
WriterFree == current = 0

StartNextWriteBatch(queue) ==
    IF WriterFree /\ queue # <<>>
    THEN LET b == Head(queue)
             us == SetToSeq(Puts(b))
         IN /\ current' = b.id
            /\ batches' = Tail(queue)
            /\ StartBatch([i \in 1..Len(us) |-> Request(b, us[i])])
    ELSE batches' = queue /\ UNCHANGED <<current, writerVars>>

(* startSync(): deletions are done at once, also while batches that stage  *)
(* the same component wait; writes are queued as a batch, unless there are *)
(* none or the directory cannot be made.  At most one deletion of a uid.   *)
(* One that fails, for those in kept, is logged and no more.               *)
StartSync(s, failing, kept) ==
    /\ Callable /\ budget.stagings > 0
    /\ kept # {} => budget.troubles > 0
    /\ budget' = [budget EXCEPT !.stagings = @ - 1,
                                !.troubles = IF kept = {} THEN @ ELSE @ - 1]
    /\ LET id == submitted + 1
           content == clock + 1
           named(u) == {t \in Slots : <<u, t>> \in s.dels}
           writes == [u \in Uids |-> [t \in Slots |->
                         IF <<u, t>> \in s.puts /\ ~failing THEN content ELSE 0]]
           deletable == {u \in Uids : named(u) # {} /\ files[u] # Absent}
       IN /\ kept \subseteq deletable
          /\ Write([u \in deletable \ kept |->
                       RemoveItem(files[u], CHOOSE t \in named(u) : TRUE)])
          /\ submitted' = id
          /\ clock' = content
          /\ meant' = [u \in Uids |-> Merge(
                         [t \in Slots |-> IF t \in named(u) THEN 0 ELSE meant[u][t]],
                         writes[u])]
          /\ disturbed' = disturbed \union kept \union
                {u \in Uids : \E t \in named(u) : u \in Held \/ RemovesMore(files[u], t)}
          /\ IF s.puts = {} \/ failing
             THEN /\ answer' = [answer EXCEPT ![id] = IF s.puts = {} THEN "ok" ELSE "failed"]
                  /\ UNCHANGED <<batches, current, writerVars>>
             ELSE /\ StartNextWriteBatch(Append(batches, [id |-> id, writes |-> writes]))
                  /\ UNCHANGED answer
    /\ UNCHANGED <<opVars, fetchVars, answering, alive>>

(* onAsyncWritesFinished(): the writer is stopped, the caller is answered  *)
(* and may call again from there, then the next batch is started.          *)
OnAsyncWritesFinished ==
    /\ InLoop /\ report # <<>>
    /\ StopWriter
    /\ answer' = [answer EXCEPT ![current] = IF report[1].bad > 0 THEN "failed" ELSE "ok"]
    /\ current' = 0
    /\ answering' = TRUE
    /\ UNCHANGED <<fileVars, opVars, fetchVars, clock, batches, submitted, alive, budget,
                   meant, disturbed>>

AnswerReturns ==
    /\ Callable /\ answering
    /\ answering' = FALSE
    /\ UNCHANGED fileVars
    /\ StartNextWriteBatch(batches)
    /\ UNCHANGED <<opVars, fetchVars, clock, submitted, answer, alive, budget,
                   meant, disturbed>>

WorkerWorks ==
    /\ alive
    /\ WorkerStep
    /\ UNCHANGED <<opVars, localVars>>

WorkerFails ==
    /\ alive
    /\ WorkerTrouble
    /\ budget.troubles > 0
    /\ budget' = [budget EXCEPT !.troubles = @ - 1]
    /\ disturbed' = disturbed \union
          {IF writing # NoRequest THEN writing.uid ELSE Head(wqueue).uid}
    /\ UNCHANGED <<opVars, batchVars, fetchVars, clock, alive, meant>>

(***************************************************************************)
(* Operations.  A batch of runChunked() is one file here.                  *)
(***************************************************************************)
EnqueueOperation(op) ==
    /\ Callable /\ op \in budget.ops
    /\ budget' = [budget EXCEPT !.ops = @ \ {op}]
    /\ Enqueue(op)
    /\ UNCHANGED <<fileVars, writerVars, batchVars, fetchVars, clock, alive, meant, disturbed>>

CancelOperation(op) ==
    /\ Callable
    /\ CancelOp(op)
    /\ UNCHANGED <<fileVars, writerVars, localVars>>

DeleteOperation(op) ==
    /\ Callable
    /\ DeleteOp(op)
    /\ UNCHANGED <<fileVars, writerVars, localVars>>

BodyBegins(op) ==
    /\ InLoop
    /\ StartBody(op)
    /\ acc' = IF Task[op].kind = "fetch"
              THEN Fresh(DOMAIN Listing, stamp)
              ELSE Fresh({Task[op].uid}, NoStamps)
    /\ UNCHANGED <<fileVars, writerVars, batchVars, clock, alive, memo, snapshot, pass, known, taken,
                   applying, token, budget, meant, disturbed>>

BodySkipped(op) ==
    /\ InLoop
    /\ StartNothing(op)
    /\ UNCHANGED <<fileVars, writerVars, localVars>>

InBody(op, kind) == opState[op] = "running" /\ Task[op].kind = kind

(* A file is stat'ed, then read.  One that is gone by then is stat'ed too, *)
(* as something no file looks like; one that does not parse is passed over. *)
FetchStats(op) ==
    /\ InLoop /\ InBody(op, "fetch")
    /\ \E u \in acc.todo :
          acc' = [acc EXCEPT !.stat = u,
                             !.snap = [v \in DOMAIN @ \union {u} |->
                                          IF v = u THEN Stamp(u) ELSE @[v]]]
    /\ UNCHANGED <<fileVars, writerVars, opVars, batchVars, clock, alive, memo, snapshot, pass, known,
                   taken, applying, token, budget, meant, disturbed>>

FetchReads ==
    /\ alive /\ acc.stat # None
    /\ acc' = [acc EXCEPT !.todo = @ \ {acc.stat}, !.stat = None,
                          !.recs = IF IsFamily(files[acc.stat])
                                   THEN With(@, acc.stat, files[acc.stat]) ELSE @]
    /\ UNCHANGED <<fileVars, writerVars, opVars, batchVars, clock, alive, memo, snapshot, pass, known,
                   taken, applying, token, budget, meant, disturbed>>

FetchDone(op) ==
    /\ InLoop /\ InBody(op, "fetch") /\ acc.todo = {}
    /\ memo' = acc.recs /\ snapshot' = acc.snap
    /\ pass' = [list |-> acc.snap, recs |-> acc.recs] /\ known' = acc.known
    /\ acc' = NoAcc
    /\ End(op, "succeeded")
    /\ UNCHANGED <<fileVars, writerVars, batchVars, clock, alive, taken, applying, token, budget,
                   meant, disturbed>>

(* pushItems() writes the item alone, whatever else the file held.         *)
PushItem(op) ==
    LET u == Task[op].uid
        content == clock + 1
    IN /\ InLoop /\ InBody(op, "push")
       /\ clock' = content
       /\ Write(Only(u, Lone(content)))
       /\ meant' = [meant EXCEPT ![u] = Merge(@, Lone(content))]
       /\ disturbed' = IF u \in Held \/ Merge(FamilyIn(files[u]), files'[u]) # files'[u]
                       THEN disturbed \union {u} ELSE disturbed
       /\ acc' = NoAcc
       /\ End(op, "succeeded")
       /\ UNCHANGED <<writerVars, batchVars, alive, memo, snapshot, pass, known, taken, applying,
                      token, budget>>

DeleteItem(op) ==
    LET u == Task[op].uid
    IN /\ InLoop /\ InBody(op, "delete")
       /\ IF files[u] = Absent THEN UNCHANGED fileVars ELSE Write(Only(u, Absent))
       /\ meant' = [meant EXCEPT ![u] = Empty]
       /\ disturbed' = disturbed \union ({u} \intersect Held)
       /\ acc' = NoAcc
       /\ End(op, "succeeded")
       /\ UNCHANGED <<writerVars, batchVars, clock, alive, memo, snapshot, pass, known, taken,
                      applying, token, budget>>

BodyFails(op) ==
    /\ InLoop /\ InBody(op, Task[op].kind) /\ Task[op].kind # "fetch"
    /\ acc' = NoAcc
    /\ End(op, "failed")
    /\ UNCHANGED <<fileVars, writerVars, batchVars, clock, alive, memo, snapshot, pass, known, taken,
                   applying, token, budget, meant, disturbed>>

(***************************************************************************)
(* The engine: it takes what a fetch found, and later has a batch applied. *)
(* A batch is one record here, a file as the engine wants it or none.      *)
(***************************************************************************)
RecordsFromLastFetch ==
    /\ InLoop /\ memo # None
    /\ taken' = TRUE /\ memo' = None
    /\ UNCHANGED <<fileVars, writerVars, opVars, batchVars, clock, alive, acc, snapshot, pass,
                   known, applying, token, budget, meant, disturbed>>

ApplyWrites ==
    /\ InLoop /\ taken /\ budget.applied > 0
    /\ \E u \in Uids, gone \in BOOLEAN :
          LET want == IF gone THEN Absent ELSE Lone(clock + 1)
          IN /\ gone => files[u] # Absent
             /\ Write(Only(u, want))
             /\ applying' = u
             /\ known' = IF known[u] = stamp[u] THEN [known EXCEPT ![u] = stamp'[u]] ELSE known
             /\ meant' = [meant EXCEPT ![u] = FamilyIn(want)]
             /\ disturbed' = disturbed \union ({u} \intersect Held)
    /\ clock' = clock + 1 /\ budget' = [budget EXCEPT !.applied = @ - 1]
    /\ UNCHANGED <<writerVars, opVars, batchVars, alive, acc, memo, snapshot, pass, taken,
                   token>>

(* Nothing could be written: the revision is computed all the same.        *)
ApplyFails ==
    /\ InLoop /\ taken /\ budget.applied > 0 /\ snapshot # None
    /\ budget' = [budget EXCEPT !.applied = @ - 1]
    /\ token' = [list |-> snapshot, known |-> known]
    /\ UNCHANGED <<fileVars, writerVars, opVars, batchVars, clock, alive, acc, memo, snapshot, pass,
                   known, taken, applying, meant, disturbed>>

(* Only the files it wrote are looked at again, and not the directory.     *)
PatchedUnlessGone(u) == IF files[u] = Absent THEN snapshot ELSE With(snapshot, u, stamp[u])
Patched(u) == With(snapshot, u, IF files[u] = Absent THEN Absent ELSE stamp[u])

ApplyStats ==
    /\ alive /\ applying # None
    /\ applying' = None
    /\ IF snapshot = None THEN UNCHANGED <<snapshot, token>>
       ELSE /\ snapshot' = Patched(applying)
            /\ token' = [list |-> snapshot', known |-> known]
    /\ UNCHANGED <<fileVars, writerVars, opVars, batchVars, clock, alive, acc, memo, pass, known,
                   taken, budget, meant, disturbed>>

(***************************************************************************)
(* The rest of the world.                                                  *)
(***************************************************************************)
ForeignEdit ==
    /\ budget.foreign > 0
    /\ budget' = [budget EXCEPT !.foreign = @ - 1]
    /\ \E u \in Uids, gone \in BOOLEAN :
          /\ gone => files[u] # Absent
          /\ Write(Only(u, IF gone THEN Absent ELSE Lone(clock + 1)))
          /\ meant' = [meant EXCEPT ![u] = FamilyIn(files'[u])]
          /\ disturbed' = disturbed \union ({u} \intersect Held)
    /\ clock' = clock + 1
    /\ UNCHANGED <<writerVars, opVars, batchVars, fetchVars, alive>>

(* The destructor waits for the file that is being written.                *)
Destroy ==
    /\ InLoop /\ writing = NoRequest
    /\ alive' = FALSE
    /\ UNCHANGED <<fileVars, writerVars, opVars, batchVars, fetchVars, clock, budget, meant, disturbed>>

OperationTurn(op) ==
    \/ BodyBegins(op) \/ BodySkipped(op)
    \/ FetchStats(op) \/ FetchDone(op)
    \/ PushItem(op) \/ DeleteItem(op) \/ BodyFails(op)

Next ==
    \/ \E s \in Stagings, failing \in BOOLEAN, kept \in SUBSET Uids : StartSync(s, failing, kept)
    \/ OnAsyncWritesFinished \/ AnswerReturns
    \/ WorkerWorks \/ WorkerFails
    \/ \E op \in Ops : EnqueueOperation(op) \/ CancelOperation(op) \/ DeleteOperation(op)
                       \/ OperationTurn(op)
    \/ FetchReads
    \/ RecordsFromLastFetch \/ ApplyWrites \/ ApplyFails \/ ApplyStats
    \/ ForeignEdit \/ Destroy

(* The event loop of the backend and the thread of the writer run.         *)
Spec == Init /\ [][Next]_vars
FairSpec ==
    /\ Spec
    /\ WF_vars(WorkerWorks \/ WorkerFails)
    /\ WF_vars(OnAsyncWritesFinished) /\ WF_vars(AnswerReturns)
    /\ WF_vars(\E op \in Ops : OperationTurn(op))
    /\ WF_vars(FetchReads) /\ WF_vars(ApplyStats)

-----------------------------------------------------------------------------
(* Every variable has its type, and the writer runs while a batch is served. *)
TypeOK ==
    /\ OpTypeOK
    /\ files \in [Uids -> {Absent, Torn} \union [Slots -> 0..clock]]
    /\ thread \in {"off", "writing", "drained"} /\ (thread = "off" <=> current = 0)
    /\ finishing \in BOOLEAN
    /\ Len(report) <= 1 /\ answering \in BOOLEAN /\ taken \in BOOLEAN /\ alive \in BOOLEAN
    /\ current \in Batches \union {0} /\ submitted \in Batches \union {0}
    /\ answer \in [Batches -> {"none", "ok", "failed"}]
    /\ meant \in [Uids -> [Slots -> 0..clock]]
    /\ disturbed \subseteq Uids
    /\ budget.ops \subseteq Ops

(* When nothing is staged any more every file holds what all the calls ask  *)
(* for, component by component (startNextWriteBatch() merges what is staged *)
(* into the file as earlier batches left it), but for the uids somebody     *)
(* changed while a batch held them, or asked of it what it does wrongly.    *)
QuietMeansMeant ==
    (alive /\ batches = <<>> /\ current = 0) =>
        \A u \in Uids \ disturbed : files[u] = FileOf(meant[u])

(* A file that still looks as the last fetch saw it holds the record that   *)
(* fetch gave, though it may have changed between the look and the read.    *)
(* And the fingerprint applyRecords() returns is the one its own writes     *)
(* left, as long as nobody else has written since that fetch began: they    *)
(* are not taken for a change in the next run (localbackend.cpp:1471).  It  *)
(* is not so that a change of others never looks like no change (1473).     *)
FingerprintFollowsFiles ==
    /\ \A u \in DOMAIN pass.list : pass.list[u] = stamp[u] =>
            FamilyIn(files[u]) = FamilyIn(Known(pass.recs, u))
    /\ token # None /\ token.known = stamp => token.list = Listing

(* The answers to staged changes are those StagedBatches promises: one      *)
(* each, in order, and a success only when all was written.                 *)
Ids(queue) == [i \in 1..Len(queue) |-> queue[i].id]
Waiting == (IF current = 0 THEN <<>> ELSE <<current>>) \o Ids(batches)
InQueue(b) == CHOOSE q \in Range(batches) : q.id = b
LeftOf(b) ==
    IF b = current THEN Len(wqueue) + (IF writing = NoRequest THEN 0 ELSE 1)
    ELSE IF b \in Range(Ids(batches)) THEN Cardinality(Puts(InQueue(b))) ELSE 0
Staged == INSTANCE StagedBatches WITH
    MaxFamilies <- Cardinality(Uids),
    waiting <- Waiting,
    left <- [b \in Batches |-> LeftOf(b)],
    failed <- [b \in Batches |-> IF b = current THEN tally.bad > 0 ELSE answer[b] = "failed"],
    answer <- answer,
    open <- alive
ImplementsStagedBatches == Staged!Spec
=============================================================================
