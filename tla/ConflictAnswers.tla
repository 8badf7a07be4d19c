-------------------------- MODULE ConflictAnswers --------------------------
(***************************************************************************)
(* The way of a conflict of an unmonitored run and of the answer to it:    *)
(* the worker detects it and holds the mapping's writes, the engine stores *)
(* a row and shows it, a user answers whenever he likes, and a later run   *)
(* injects the answer into the walk, unless a record changed meanwhile.    *)
(* Answers live in SyncEngine's memory and in SyncConflictStore, which     *)
(* outlives the process.                                                   *)
(*                                                                         *)
(* One mapping with policy AskUser.  A version stands for a content and    *)
(* its time of last modification; edits of one second are not told apart   *)
(* by the code, and are one edit here.                                     *)
(***************************************************************************)
EXTENDS Integers, FiniteSets, Sequences

CONSTANTS
    Ids,          \* records of the mapping
    Answers,      \* what a user may choose
    Deletable,    \* sides whose users delete records
    MaxPasses,    \* kMaxResolutionPasses
    MaxEdits,     \* bound: edits of users
    MaxRows,      \* bound: rows ever inserted into the store
    MaxFaults     \* bound: failed writes and restarts

Sides == {"source", "target"}
Other(s) == IF s = "source" THEN "target" ELSE "source"
Absent == 0
NoId == "no id"
Unanswered == "unanswered"

ASSUME IdsAssumption == IsFiniteSet(Ids) /\ NoId \notin Ids
ASSUME AnswersAssumption == Answers \subseteq {"SourceWins", "TargetWins"}
ASSUME DeletableAssumption == Deletable \subseteq Sides
ASSUME BoundsAssumption ==
    MaxPasses \in Nat /\ MaxEdits \in Nat /\ MaxRows \in Nat /\ MaxFaults \in Nat

VARIABLES
    version,   \* version[s][id]: the record of side s, 0 if deleted
    base,      \* base[s][id]: its version in the saved baseline
    rows,      \* the store: rows[r] = [rec, seen, answer, chosen, at]
    nextRow,   \* id of the next row inserted
    identity,  \* m_conflictIdentity: identity[r] = [rec, seen]
    pending,   \* m_pendingResolutions[mapping]: one per record id, or NoAnswer
    waiting,   \* m_pendingUnmonitoredConflicts: conflicts to be shown, [row, seen]
    scheduled, \* m_conflictPresentationScheduled
    screen,    \* conflicts a user has before him, in a dialog or a list
    fresh,     \* m_mappingsWithNewResolutions holds the mapping
    passes,    \* m_resolutionPasses
    stage,     \* the run: idle, started, write, done
    fetched,   \* fetched[s][id]: versions the walk compares
    injected,  \* answers the worker was given
    mail,      \* conflictDetected signals on their way to the engine
    applied,   \* rows whose answers the result reports as applied
    stale,     \* rows whose answers it reports as stale
    edits, faults

engine == <<identity, pending, waiting, scheduled, fresh, passes>>
worker == <<fetched, injected, mail, applied, stale>>
store == <<rows, nextRow>>
vars == <<version, base, store, engine, worker, screen, stage, edits, faults>>

NoAnswer == [row |-> 0, answer |-> Unanswered, seen |-> <<0, 0>>, chosen |-> <<0, 0>>]
Nothing == [s \in Sides |-> [id \in Ids |-> Absent]]
NoAnswers == [id \in Ids |-> NoAnswer]
Both(v, id) == <<v.source[id], v.target[id]>>

Drop(f, gone) == [x \in DOMAIN f \ gone |-> f[x]]
With(f, x, e) == [y \in DOMAIN f \cup {x} |-> IF y = x THEN e ELSE f[y]]

(* perRecordDiff() of a tracked record: both sides changed.                *)
Changed(v, s, id) == v[s][id] # base[s][id]
InConflict(v, id) ==
    /\ \A s \in Sides : Changed(v, s, id)
    /\ Both(v, id) # <<Absent, Absent>>
-----------------------------------------------------------------------------
Init ==
    /\ version = [s \in Sides |-> [id \in Ids |-> 1]] /\ base = version
    /\ rows = <<>> /\ nextRow = 1
    /\ identity = <<>> /\ pending = NoAnswers
    /\ waiting = {} /\ scheduled = FALSE /\ screen = {}
    /\ fresh = FALSE /\ passes = 0 /\ stage = "idle"
    /\ fetched = Nothing /\ injected = NoAnswers /\ mail = <<>>
    /\ applied = {} /\ stale = {}
    /\ edits = 0 /\ faults = 0

(* rehydratePendingResolutions(): the answered row of each record, the     *)
(* last one answered if there are several, replaces what is in memory.     *)
AnsweredRows(id) == {r \in DOMAIN rows : rows[r].rec = id /\ rows[r].answer # Unanswered}
FirstAnswered(id) == CHOOSE r \in AnsweredRows(id) :
    \A q \in AnsweredRows(id) : rows[r].at <= rows[q].at
LastAnswered(id) == CHOOSE r \in AnsweredRows(id) :
    \A q \in AnsweredRows(id) : rows[q].at <= rows[r].at
AnswerOfRow(r) == [row |-> r, answer |-> rows[r].answer,
                   seen |-> rows[r].seen, chosen |-> rows[r].chosen]
RehydratedFirst == [id \in Ids |-> IF AnsweredRows(id) = {} THEN pending[id]
                                   ELSE AnswerOfRow(FirstAnswered(id))]
Rehydrated == [id \in Ids |-> IF AnsweredRows(id) = {} THEN pending[id]
                              ELSE AnswerOfRow(LastAnswered(id))]

(* driveQueue() forgets the conflicts not shown yet, processSingleMapping()*)
(* keeps them.                                                             *)
StartRun ==
    /\ stage = "idle"
    /\ stage' = "started"
    /\ passes' = 0 /\ fresh' = FALSE
    /\ pending' = Rehydrated
    /\ waiting' \in {waiting, {}}
    /\ UNCHANGED <<version, base, store, identity, scheduled, worker, screen,
                   edits, faults>>

(* The staleness guard: both records are still what the answer was for.    *)
SourceStillSeen(answer, id) == answer.seen[1] = fetched'.source[id]
StillSeen(answer, id) == answer.seen = Both(fetched', id)

(* buildConflictInfo(): the record is named by its id on the source.       *)
Info(id) == [rec |-> IF fetched'.source[id] = Absent THEN NoId ELSE id,
             seen |-> Both(fetched', id)]
Orders(S) == {q \in [1..Cardinality(S) -> S] : {q[i] : i \in DOMAIN q} = S}

(* Dispatch, fetch and conflict walk.  An unanswered conflict is reported  *)
(* and holds every write of the mapping; the run fails.                    *)
Dispatch ==
    /\ stage = "started"
    /\ fetched' = version
    /\ injected' = pending
    /\ LET conflicts == {id \in Ids : InConflict(fetched', id)}
           answered == {id \in conflicts : pending[id] # NoAnswer}
           current == {id \in answered : StillSeen(pending[id], id)}
           deferred == conflicts \ current
       IN /\ nextRow + Cardinality(deferred) <= MaxRows + 1
          /\ stale' = {pending[id].row : id \in answered \ current}
          /\ \E order \in Orders(deferred) :
                mail' = [i \in DOMAIN order |-> Info(order[i])]
          /\ stage' = IF deferred = {} THEN "write" ELSE "done"
    /\ UNCHANGED <<version, base, store, engine, screen, applied, edits, faults>>

(* What a run that is not held writes: the side that did not change gets   *)
(* the other one's version, and a conflict is settled by its answer.  The  *)
(* record of a deleted side has no id, and no backend takes it.            *)
Winner(id) ==
    IF InConflict(fetched, id)
    THEN IF injected[id].answer = "SourceWins" THEN "source" ELSE "target"
    ELSE IF Changed(fetched, "source", id) THEN "source" ELSE "target"
Written == {id \in Ids : \E s \in Sides : Changed(fetched, s, id)}
Refused == {id \in Written : InConflict(fetched, id) /\ fetched[Winner(id)][id] = Absent}
After(ids) == [s \in Sides |-> [id \in Ids |->
                 IF id \in ids /\ s = Other(Winner(id)) THEN fetched[Winner(id)][id]
                 ELSE version[s][id]]]

(* A row is saved for each record written, none is removed for a deletion. *)
BaseAfter == [s \in Sides |-> [id \in Ids |->
                 IF id \in Written /\ fetched[Winner(id)][id] # Absent
                 THEN fetched[Winner(id)][id] ELSE base[s][id]]]

AnswersWritten == {injected[id].row : id \in {i \in Ids : InConflict(fetched, i)}}
WriteSucceeds ==
    /\ stage = "write" /\ Refused = {}
    /\ version' = After(Written)
    /\ base' = BaseAfter
    /\ applied' = AnswersWritten
    /\ stage' = "done"
    /\ fetched' = Nothing /\ injected' = NoAnswers
    /\ UNCHANGED <<store, engine, mail, stale, screen, edits, faults>>

(* Some writes of the batch may have been done: no row is saved, and no    *)
(* answer is reported as applied.                                          *)
WriteFails ==
    /\ stage = "write"
    /\ IF Refused = {} THEN faults < MaxFaults /\ faults' = faults + 1
       ELSE UNCHANGED faults
    /\ \E done \in SUBSET (Written \ Refused) : version' = After(done)
    /\ applied' = {}
    /\ stage' = "done"
    /\ fetched' = Nothing /\ injected' = NoAnswers
    /\ UNCHANGED <<base, store, engine, mail, stale, screen, edits>>
-----------------------------------------------------------------------------
(* recordConflict(): the unanswered row of the record is refreshed, or a   *)
(* new one inserted; the schema refuses a row without a record id, and the *)
(* engine then makes up an id for a conflict nobody stores.                *)
StorableAlways(rec) == TRUE
Storable(rec) == rec # NoId
UnansweredRows(rec) == {r \in DOMAIN rows : rows[r].rec = rec /\ rows[r].answer = Unanswered}
AnyRow(rec) == {r \in DOMAIN rows : rows[r].rec = rec}
RowForAny(rec) == IF AnyRow(rec) # {} THEN CHOOSE r \in AnyRow(rec) : TRUE ELSE nextRow
RowFor(rec) == IF UnansweredRows(rec) # {} THEN CHOOSE r \in UnansweredRows(rec) : TRUE
               ELSE nextRow

OnConflictDetected ==
    /\ mail # <<>>
    /\ LET info == Head(mail)
           row == RowFor(info.rec)
       IN /\ rows' = IF ~Storable(info.rec) THEN rows
                     ELSE With(rows, row, [rec |-> info.rec, seen |-> info.seen, at |-> 0,
                                           answer |-> Unanswered, chosen |-> <<0, 0>>])
          /\ nextRow' = IF row = nextRow THEN nextRow + 1 ELSE nextRow
          /\ identity' = With(identity, row, info)
          /\ waiting' = waiting \cup {[row |-> row, seen |-> info.seen]}
    /\ mail' = Tail(mail)
    /\ UNCHANGED <<version, base, pending, scheduled, fresh, passes, fetched,
                   injected, applied, stale, screen, stage, edits, faults>>

(* consumeAppliedResolutions(): what was applied or found stale is dropped *)
(* from memory and from the store.                                         *)
Consumed == applied \cup stale
KeptRows == Drop(rows, Consumed)
KeptPending == [id \in Ids |-> IF pending[id].row \in Consumed THEN NoAnswer ELSE pending[id]]

(* onWorkerSyncCompleted(), and the next pass for answers given meanwhile. *)
OnSyncCompleted ==
    /\ stage = "done" /\ mail = <<>>
    /\ rows' = KeptRows
    /\ pending' = KeptPending
    /\ identity' = Drop(identity, Consumed)
    /\ scheduled' = (scheduled \/ waiting # {})
    /\ IF fresh /\ passes < MaxPasses
       THEN /\ stage' = "started" /\ passes' = passes + 1 /\ fresh' = FALSE
       ELSE /\ stage' = "idle" /\ UNCHANGED <<passes, fresh>>
    /\ fetched' = Nothing /\ injected' = NoAnswers /\ applied' = {} /\ stale' = {}
    /\ UNCHANGED <<version, base, nextRow, waiting, mail, screen, edits, faults>>

(* presentPendingConflicts(): each conflict is shown in a dialog, or left  *)
(* to the list.  A dialog runs an event loop of its own: everything else,  *)
(* another presentation and another run included, goes on while it is open.*)
PresentPendingConflicts ==
    /\ scheduled /\ scheduled' = FALSE
    /\ \/ screen' = screen \cup waiting
       \/ UNCHANGED screen
    /\ waiting' = {}
    /\ UNCHANGED <<version, base, store, identity, pending, fresh, passes, worker, stage,
                   edits, faults>>

(* unresolvedConflicts(), asked for by a host that lists them.             *)
ListConflicts ==
    /\ screen' = screen \cup {[row |-> r, seen |-> rows[r].seen] :
                              r \in {q \in DOMAIN rows : rows[q].answer = Unanswered}}
    /\ screen' # screen
    /\ UNCHANGED <<version, base, store, engine, worker, stage, edits, faults>>

(* resolveConflict() and onConflictResolved().  The engine looks up what   *)
(* the row is about, and queues nothing for a record without id.  Times of *)
(* answers only matter by their order.                                     *)
Subject(row) ==
    IF row \in DOMAIN identity /\ identity[row].rec # NoId THEN identity[row]
    ELSE IF row \in DOMAIN rows THEN [rec |-> rows[row].rec, seen |-> rows[row].seen]
    ELSE [rec |-> NoId, seen |-> <<0, 0>>]
AfterOthers(row) ==
    LET times == {rows[r].at : r \in DOMAIN rows \ {row}}
    IN 1 + CHOOSE n \in {0} \cup times : \A m \in times : m <= n
Answer(shown, a) ==
    /\ shown \in screen /\ screen' = screen \ {shown}
    /\ rows' = IF shown.row \in DOMAIN rows
               THEN With(rows, shown.row, [rows[shown.row] EXCEPT
                        !.answer = a, !.chosen = shown.seen, !.at = AfterOthers(shown.row)])
               ELSE rows
    /\ LET subject == Subject(shown.row)
       IN IF subject.rec = NoId THEN UNCHANGED <<pending, fresh>>
          ELSE /\ pending' = [pending EXCEPT ![subject.rec] =
                                [row |-> shown.row, answer |-> a,
                                 seen |-> subject.seen, chosen |-> shown.seen]]
               /\ fresh' = TRUE
    /\ UNCHANGED <<version, base, nextRow, identity, waiting, scheduled, passes, worker,
                   stage, edits, faults>>

(* A dialog is closed without an answer.                                   *)
Skip(shown) ==
    /\ shown \in screen /\ screen' = screen \ {shown}
    /\ UNCHANGED <<version, base, store, engine, worker, stage, edits, faults>>
-----------------------------------------------------------------------------
(* A user changes or deletes a record of one side.                         *)
Edit(s, id) ==
    /\ edits < MaxEdits /\ edits' = edits + 1
    /\ version[s][id] # Absent
    /\ version' = [version EXCEPT ![s][id] = edits + 2]
    /\ UNCHANGED <<base, store, engine, worker, screen, stage, faults>>
Delete(s, id) ==
    /\ edits < MaxEdits /\ edits' = edits + 1
    /\ s \in Deletable /\ version[s][id] # Absent
    /\ version' = [version EXCEPT ![s][id] = Absent]
    /\ UNCHANGED <<base, store, engine, worker, screen, stage, faults>>

(* The process is restarted: the data, the baseline and the store remain.  *)
Restart ==
    /\ faults < MaxFaults /\ faults' = faults + 1
    /\ identity' = <<>> /\ pending' = NoAnswers /\ waiting' = {} /\ scheduled' = FALSE
    /\ screen' = {} /\ fresh' = FALSE /\ passes' = 0 /\ stage' = "idle"
    /\ fetched' = Nothing /\ injected' = NoAnswers /\ mail' = <<>>
    /\ applied' = {} /\ stale' = {}
    /\ UNCHANGED <<version, base, store, edits>>

Next ==
    \/ StartRun \/ Dispatch \/ WriteSucceeds \/ WriteFails
    \/ OnConflictDetected \/ OnSyncCompleted \/ PresentPendingConflicts
    \/ ListConflicts
    \/ \E shown \in screen : Skip(shown) \/ \E a \in Answers : Answer(shown, a)
    \/ \E s \in Sides, id \in Ids : Edit(s, id) \/ Delete(s, id)
    \/ Restart

Spec == Init /\ [][Next]_vars
-----------------------------------------------------------------------------
Versions == 0..(MaxEdits + 1)
Pairs == Versions \X Versions
AnyAnswer == Answers \cup {Unanswered}
AnyInfo == [rec : Ids \cup {NoId}, seen : Pairs]

(* Each variable has its type, ids stay below the next one, and a stored   *)
(* conflict names a record (the rows of sync_conflicts).                   *)
TypeOK ==
    /\ version \in [Sides -> [Ids -> Versions]] /\ base \in [Sides -> [Ids -> Versions]]
    /\ DOMAIN rows \subseteq 1..(nextRow - 1) /\ nextRow \in 1..(MaxRows + 1)
    /\ \A r \in DOMAIN rows :
          rows[r] \in [rec : Ids, seen : Pairs, answer : AnyAnswer, chosen : Pairs, at : Nat]
    /\ \A r \in DOMAIN identity : identity[r] \in AnyInfo
    /\ pending \in [Ids -> [row : 0..MaxRows, answer : AnyAnswer, seen : Pairs, chosen : Pairs]]
    /\ waiting \cup screen \subseteq [row : 1..MaxRows, seen : Pairs]
    /\ \A i \in DOMAIN mail : mail[i] \in AnyInfo
    /\ applied \subseteq 1..MaxRows /\ stale \subseteq 1..MaxRows
    /\ stage \in {"idle", "started", "write", "done"} /\ passes \in 0..MaxPasses

(* An answer in memory would survive a crash at any moment: the last       *)
(* answered row of its record, which is what a restarted engine reads      *)
(* back, says the same of the same versions.  recordConflict() never       *)
(* refreshes an answered row, not even for a conflict that was on its way  *)
(* while it was being answered.                                            *)
AnswersDurable ==
    \A id \in Ids : pending[id] # NoAnswer =>
        AnsweredRows(id) # {} /\ pending[id] = AnswerOfRow(LastAnswered(id))

(* The last answer to a conflict, given while its row showed the very      *)
(* versions the first walk of a run meets, is put to use by that walk:     *)
(* neither forgotten, nor called stale (unifiedHandleConflicts() with what *)
(* rehydratePendingResolutions() prepared).                                *)
AnswersUsed ==
    [][Dispatch /\ passes = 0 =>
          \A id \in Ids : \A r \in AnsweredRows(id) :
             /\ InConflict(version, id)
             /\ \A q \in AnsweredRows(id) : rows[q].at <= rows[r].at
             /\ rows[r].chosen = Both(version, id) /\ rows[r].seen = Both(version, id)
             => injected'[id].row = r /\ r \notin stale']_vars

(* A change made since the last sync is only ever overwritten in a         *)
(* conflict whose stored answer was for exactly the two versions the run   *)
(* fetched, and chose the other side (the staleness guard of the walk, the *)
(* hold of every write while a conflict is open, and the baseline).        *)
NoEditLost ==
    [][WriteSucceeds \/ WriteFails =>
          \A s \in Sides, id \in Ids :
             version'[s][id] # version[s][id] /\ Changed(fetched, s, id) =>
                /\ injected[id].answer = IF s = "source" THEN "TargetWins" ELSE "SourceWins"
                /\ injected[id].seen = Both(fetched, id)]_vars
=============================================================================
