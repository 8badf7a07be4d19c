--------------------------- MODULE AsyncFileWriter ---------------------------
(***************************************************************************)
(* The thread that writes staged calendar files                            *)
(* (src/journal/asyncfilewriter.cpp).  It serves one batch: once it was    *)
(* told that no more writes come and has written all, it reports and only  *)
(* runs an event loop until it is stopped and started again.  A file is    *)
(* truncated, then written: in between a reader finds half a file.         *)
(***************************************************************************)
EXTENDS Sequences, Integers

CONSTANTS
    Uids, Absent, Torn, NoRequest,
    Noticed      \* whether a write that failed was noticed: {TRUE}, or also
                 \* FALSE, when it fails as the file is closed

VARIABLES
    files,       \* the .ics files of the calendar: Absent, Torn or a family
    stamp,       \* the modification time and size of each, as a count of its writes
    thread,      \* "off", "writing" (in processQueue()) or "drained" (out of it)
    wqueue,      \* m_queue of the worker
    finishing,   \* m_finishing
    writing,     \* the request whose file is open
    tally,       \* successCount and failCount of the batch
    report       \* allWritesCompleted, posted to the owner, or <<>>

fileVars == <<files, stamp>>
writerVars == <<thread, wqueue, finishing, writing, tally, report>>

(* The files in changed now hold what they map to.                         *)
Write(changed) ==
    /\ files' = [u \in Uids |-> IF u \in DOMAIN changed THEN changed[u] ELSE files[u]]
    /\ stamp' = [u \in Uids |-> IF u \in DOMAIN changed THEN stamp[u] + 1 ELSE stamp[u]]
Only(u, f) == [v \in {u} |-> f]

NoTally == [good |-> 0, bad |-> 0]

WriterInit ==
    /\ stamp = [u \in Uids |-> 0]
    /\ thread = "off" /\ wqueue = <<>> /\ finishing = FALSE
    /\ writing = NoRequest /\ tally = NoTally /\ report = <<>>

(* start(), a queueIncidenceFamilyWrite() for each request, finishWrites(). *)
(* A thread that runs is not started again, whatever state it is in.       *)
StartBatch(requests) ==
    /\ IF thread = "off"
       THEN thread' = "writing" /\ wqueue' = requests /\ tally' = NoTally
       ELSE wqueue' = wqueue \o requests /\ UNCHANGED <<thread, tally>>
    /\ finishing' = TRUE
    /\ UNCHANGED <<writing, report>>

StopLeavesThread ==
    /\ writing = NoRequest
    /\ report' = <<>>
    /\ UNCHANGED <<thread, wqueue, finishing, writing, tally>>

(* stop() waits for the write in progress and forgets the rest.            *)
StopWriter ==
    /\ writing = NoRequest
    /\ thread' = "off" /\ wqueue' = <<>> /\ finishing' = FALSE /\ report' = <<>>
    /\ tally' = NoTally
    /\ UNCHANGED writing

WorkerOpens ==
    /\ thread = "writing" /\ writing = NoRequest /\ wqueue # <<>>
    /\ wqueue' = Tail(wqueue)
    /\ writing' = Head(wqueue)
    /\ Write(Only(Head(wqueue).uid, Torn))
    /\ UNCHANGED <<thread, finishing, tally, report>>

WorkerCannotOpen ==
    /\ thread = "writing" /\ writing = NoRequest /\ wqueue # <<>>
    /\ wqueue' = Tail(wqueue)
    /\ tally' = [tally EXCEPT !.bad = @ + 1]
    /\ UNCHANGED <<fileVars, thread, finishing, writing, report>>

(* A file that was replaced meanwhile, by renaming another over it, is no  *)
(* longer the one that is open; one that was rewritten in place still is.  *)
WorkerWrites ==
    /\ writing # NoRequest
    /\ \/ Write(Only(writing.uid, writing.family))
       \/ files[writing.uid] # Torn /\ UNCHANGED fileVars
    /\ writing' = NoRequest
    /\ tally' = [tally EXCEPT !.good = @ + 1]
    /\ UNCHANGED <<thread, wqueue, finishing, report>>

(* A disk that is full leaves what was truncated.                          *)
WorkerCannotWrite ==
    /\ writing # NoRequest
    /\ writing' = NoRequest
    /\ \E noticed \in Noticed :
          tally' = IF noticed THEN [tally EXCEPT !.bad = @ + 1]
                              ELSE [tally EXCEPT !.good = @ + 1]
    /\ UNCHANGED <<fileVars, thread, wqueue, finishing, report>>

WorkerDrains ==
    /\ thread = "writing" /\ writing = NoRequest /\ wqueue = <<>> /\ finishing
    /\ thread' = "drained"
    /\ report' = <<tally>>
    /\ UNCHANGED <<fileVars, wqueue, finishing, writing, tally>>

WorkerStep == WorkerOpens \/ WorkerWrites \/ WorkerDrains
WorkerTrouble == WorkerCannotOpen \/ WorkerCannotWrite
=============================================================================
