--------------------------- MODULE LocalBackendInv ---------------------------
(***************************************************************************)
(* The inductive invariant of LocalBackend: what the writer, the queue of  *)
(* batches and the files say of what the calls ask for, and what a         *)
(* fingerprint of the directory says of the records it goes with.          *)
(***************************************************************************)
EXTENDS LocalBackend

Family == [Slots -> 0..clock]
WriteRequest == [uid : Uids, family : Family \ {Empty}]
Batch == [id : Batches, writes : [Uids -> Family]]

Typed ==
    /\ TypeOK
    /\ clock \in Nat /\ stamp \in [Uids -> Nat]
    /\ batches \in Seq(Batch)
    /\ wqueue \in Seq(WriteRequest) /\ writing \in WriteRequest \union {NoRequest}
    /\ tally \in [good : Nat, bad : Nat]
    /\ budget \in Budget /\ submitted \in Nat
    /\ 1..(submitted + budget.stagings) \subseteq Batches

(* The writer: with no batch it has nothing to do, and it reports once it  *)
(* has nothing left.  A batch writes each family once.                     *)
WriterSound ==
    /\ thread # "writing" => wqueue = <<>> /\ writing = NoRequest
    /\ report = IF thread = "drained" THEN <<tally>> ELSE <<>>
    /\ thread # "off" => finishing
    /\ thread = "off" => tally = NoTally
    /\ \A i, j \in 1..Len(wqueue) : wqueue[i].uid = wqueue[j].uid => i = j
    /\ writing # NoRequest => \A i \in 1..Len(wqueue) : wqueue[i].uid # writing.uid

(* Batches have numbers of their own, and no answer yet.                   *)
BatchesNumbered ==
    /\ \A i \in 1..Len(batches) : /\ batches[i].id <= submitted /\ batches[i].id # current
                                  /\ answer[batches[i].id] = "none"
    /\ \A i, j \in 1..Len(batches) : batches[i].id = batches[j].id => i = j
    /\ current <= submitted /\ (current # 0 => answer[current] = "none")
    /\ \A b \in Batches : b > submitted => answer[b] = "none"

(* What a file will hold once the batch that is served is written.         *)
BeingWritten(u) == writing # NoRequest /\ writing.uid = u
Due(u) ==
    IF BeingWritten(u) THEN writing.family
    ELSE IF \E i \in 1..Len(wqueue) : wqueue[i].uid = u
    THEN wqueue[CHOOSE i \in 1..Len(wqueue) : wqueue[i].uid = u].family
    ELSE FamilyIn(files[u])

(* What becomes of a component: what the last batch of the queue brings    *)
(* that has it, or else what is due in the file.                           *)
Becomes(queue, u, t, due, m) ==
    /\ \A i \in 1..Len(queue) :
          /\ queue[i].writes[u][t] # 0
          /\ \A j \in (i + 1)..Len(queue) : queue[j].writes[u][t] = 0
          => m = queue[i].writes[u][t]
    /\ (\A i \in 1..Len(queue) : queue[i].writes[u][t] = 0) => m = due
Intact(u) == IF BeingWritten(u) THEN files[u] = Torn
                                ELSE files[u] = FileOf(FamilyIn(files[u]))
StagedSound ==
    \A u \in Uids \ disturbed :
        /\ Intact(u)
        /\ \A t \in Slots : Becomes(batches, u, t, Due(u)[t], meant[u][t])

(* A list of stamps and the records it goes with: a file that still has    *)
(* its stamp holds the record, but for some.                               *)
Faithful(list, recs, but) ==
    /\ DOMAIN list \subseteq Uids /\ DOMAIN recs \subseteq Uids
    /\ \A u \in DOMAIN list : list[u] \in Int /\ list[u] <= stamp[u]
    /\ \A u \in Uids \ but :
          /\ u \in DOMAIN recs => u \in DOMAIN list
          /\ u \in DOMAIN list /\ list[u] = stamp[u]
                => FamilyIn(files[u]) = FamilyIn(Known(recs, u))

(* A list of stamps and the stamps that are known: a file nobody else has  *)
(* changed is in the list as it is, or still to be looked at; but for one. *)
Current(list, kn, rest, but) ==
    /\ list = [u \in DOMAIN list |-> list[u]] /\ DOMAIN list \subseteq Uids
    /\ \A u \in Uids : kn[u] \in Int /\ kn[u] <= stamp[u]
    /\ \A u \in Uids : kn[u] = stamp[u] /\ u # but =>
          /\ files[u] # Absent <=> u \in DOMAIN list \union rest
          /\ u \in DOMAIN list => list[u] = stamp[u]

FetchSound ==
    /\ acc = [todo |-> acc.todo, stat |-> acc.stat, snap |-> acc.snap, recs |-> acc.recs,
              known |-> acc.known]
    /\ acc.todo \subseteq Uids
    /\ acc.stat # None => acc.stat \in acc.todo /\ acc.stat \in DOMAIN acc.snap
    /\ acc.todo \intersect DOMAIN acc.recs = {}
    /\ acc.known \in [Uids -> Int]
    /\ Faithful(acc.snap, acc.recs, acc.todo)
    /\ Current(acc.snap, acc.known, acc.todo, None)
RevisionSound ==
    /\ FetchSound
    /\ Faithful(pass.list, pass.recs, {})
    /\ applying \in Uids \union {None} /\ known \in [Uids -> Int]
    /\ snapshot # None => Current(snapshot, known, {}, applying)
    /\ token # None => /\ token.known \in [Uids -> Int]
                       /\ Current(token.list, token.known, {}, None)

IInv == OpInv /\ Typed /\ WriterSound /\ BatchesNumbered /\ StagedSound /\ RevisionSound
=============================================================================
