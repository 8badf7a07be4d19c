------------------------ MODULE OperationQueueProofs ------------------------
(***************************************************************************)
(* The queue of operations keeps its invariant, whatever its callers ask   *)
(* for: the lemmas the proofs about the backends rest on.                  *)
(***************************************************************************)
EXTENDS OperationQueue, TLAPS

OpStates == {"unborn", "pending", "running", "deleted"} \union Terminal

(* Sequences that are written as functions.                                *)
LEMMA FunctionSeq ==
    ASSUME NEW S, NEW n \in Nat, NEW f \in [1..n -> S]
    PROVE  f \in Seq(S) /\ Len(f) = n
OBVIOUS

LEMMA DropEntries ==
    ASSUME NEW S, NEW q \in Seq(S), NEW first \in 1..Len(q), NEW rest,
           rest = [i \in 1..(Len(q) - first) |-> q[first + i]]
    PROVE  /\ rest \in Seq(S) /\ Len(rest) = Len(q) - first
           /\ \A i \in 1..Len(rest) : rest[i] = q[first + i] /\ first + i \in 1..Len(q)
           /\ \A j \in 1..Len(q) : first < j => j - first \in 1..Len(rest) /\ rest[j - first] = q[j]
<1>1. Len(q) - first \in Nat
  OBVIOUS
<1>2. rest \in [1..(Len(q) - first) -> S]
  OBVIOUS
<1>3. rest \in Seq(S) /\ Len(rest) = Len(q) - first
  BY <1>1, <1>2, FunctionSeq
<1>. QED
  BY <1>3

LEMMA DropEntry ==
    ASSUME NEW S, NEW q \in Seq(S), NEW entry \in 1..Len(q)
    PROVE  LET rest == WithoutEntry(q, entry)
           IN  /\ rest \in Seq(S) /\ Len(rest) = Len(q) - 1
               /\ \A i \in 1..Len(rest) : \E j \in 1..Len(q) :
                     j # entry /\ rest[i] = q[j] /\ j = IF i < entry THEN i ELSE i + 1
               /\ \A j \in 1..Len(q) : j # entry => \E i \in 1..Len(rest) : rest[i] = q[j]
<1>. DEFINE rest == WithoutEntry(q, entry)
<1>1. Len(q) - 1 \in Nat
  OBVIOUS
<1>2. rest \in [1..(Len(q) - 1) -> S]
  BY DEF WithoutEntry
<1>3. rest \in Seq(S) /\ Len(rest) = Len(q) - 1
  BY <1>1, <1>2, FunctionSeq
<1>4. \A i \in 1..Len(rest) : rest[i] = q[IF i < entry THEN i ELSE i + 1]
  BY <1>3 DEF WithoutEntry
<1>. HIDE DEF rest
<1>5. ASSUME NEW j \in 1..Len(q), j # entry PROVE \E i \in 1..Len(rest) : rest[i] = q[j]
  <2>1. CASE j < entry
    <3>1. j \in 1..Len(rest) /\ rest[j] = q[j]
      BY <2>1, <1>3, <1>4
    <3>. QED
      BY <3>1
  <2>2. CASE j > entry
    <3>1. j - 1 \in 1..Len(rest) /\ rest[j - 1] = q[j]
      BY <2>2, <1>3, <1>4
    <3>. QED
      BY <3>1
  <2>. QED
    BY <2>1, <2>2, <1>5
<1>6. ASSUME NEW i \in 1..Len(rest)
      PROVE  \E j \in 1..Len(q) :
                j # entry /\ rest[i] = q[j] /\ j = IF i < entry THEN i ELSE i + 1
  BY <1>3, <1>4
<1>. QED
  BY <1>3, <1>5, <1>6 DEF rest

(* What maybeStartNext() is called with: OpInv but for the operation that  *)
(* is to be started when nothing is in flight.                             *)
Startable(q, flight, states) ==
    /\ q \in Seq(Ops) /\ flight \in Ops \union {NoOp, "dangling"}
    /\ states \in [Ops -> OpStates]
    /\ posted \subseteq Ops /\ \A op \in posted : states[op] # "unborn"
    /\ \A i, j \in 1..Len(q) : q[i] = q[j] => i = j
    /\ \A i \in 1..Len(q) : /\ states[q[i]] \in {"pending", "deleted"}
                            /\ q[i] # flight /\ q[i] \notin posted
    /\ \A op \in Ops : states[op] = "running" \/ (op \in posted /\ states[op] = "pending")
                       => flight = op
    /\ \A op \in Ops : states[op] = "pending" =>
                       op = flight \/ \E i \in 1..Len(q) : q[i] = op
    /\ flight \in Ops => \/ states[flight] = "running"
                         \/ states[flight] = "pending" /\ flight \in posted

(* maybeStartNext() on a sound queue: with nothing in flight it starts the *)
(* first operation that waits.                                             *)
LEMMA MaybeStartNextInv ==
    ASSUME NEW q, NEW flight, NEW states, Startable(q, flight, states),
           opState' = states, MaybeStartNext(q, flight, states)
    PROVE  OpInv'
<1>. USE DEF Startable
<1>. DEFINE live == {i \in 1..Len(q) : states[q[i]] = "pending"}
<1>1. CASE flight # NoOp
  <2>1. opq' = q /\ inFlight' = flight /\ posted' = posted
    BY <1>1 DEF MaybeStartNext
  <2>. QED
    BY <1>1, <2>1 DEF OpInv, OpTypeOK, OpStates, QueueSound, OneAtATime, NoneForgotten
<1>2. CASE flight = NoOp /\ live = {}
  <2>1. opq' = <<>> /\ inFlight' = NoOp /\ posted' = posted
    BY <1>2 DEF MaybeStartNext
  <2>2. \A op \in Ops : states[op] # "pending" /\ states[op] # "running"
    BY <1>2, OperationAssumption
  <2>3. opq' \in Seq(Ops) /\ Len(opq') = 0
    BY <2>1
  <2>. QED
    BY <2>1, <2>2, <2>3, OperationAssumption
       DEF OpInv, OpTypeOK, OpStates, QueueSound, OneAtATime, NoneForgotten
<1>3. CASE flight = NoOp /\ live # {}
  <2>1. PICK first \in live :
           /\ \A i \in live : first <= i
           /\ inFlight' = q[first]
           /\ opq' = [i \in 1..(Len(q) - first) |-> q[first + i]]
           /\ posted' = posted \union {q[first]}
    BY <1>3 DEF MaybeStartNext
  <2>2. first \in 1..Len(q) /\ q[first] \in Ops /\ states[q[first]] = "pending"
    OBVIOUS
  <2>3. /\ opq' \in Seq(Ops)
        /\ \A i \in 1..Len(opq') : opq'[i] = q[first + i] /\ first + i \in 1..Len(q)
        /\ \A j \in 1..Len(q) : first < j =>
              j - first \in 1..Len(opq') /\ opq'[j - first] = q[j]
    BY <2>1, <2>2, DropEntries
  <2>4. \A op \in Ops : states[op] # "running" /\ (op \in posted => states[op] # "pending")
    BY <1>3, OperationAssumption
  <2>5. OpTypeOK'
    BY <2>1, <2>2, <2>3 DEF OpTypeOK, OpStates
  <2>6. QueueSound'
    <3>1. \A i \in 1..Len(opq') : first + i # first /\ i \in Nat
      BY <2>2, <2>3
    <3>2. \A i \in 1..Len(opq') : opq'[i] # q[first] /\ opq'[i] \notin posted
      BY <2>2, <2>3, <3>1
    <3>3. \A i, j \in 1..Len(opq') : opq'[i] = opq'[j] => i = j
      BY <2>2, <2>3
    <3>. QED
      BY <2>1, <2>2, <2>3, <3>2, <3>3 DEF QueueSound
  <2>7. OneAtATime'
    BY <2>1, <2>4 DEF OneAtATime
  <2>8. NoneForgotten'
    <3>1. ASSUME NEW op \in Ops, states[op] = "pending"
          PROVE  op = q[first] \/ \E i \in 1..Len(opq') : opq'[i] = op
      <4>1. PICK j \in 1..Len(q) : q[j] = op
        BY <1>3, <3>1, OperationAssumption
      <4>2. first <= j
        BY <2>1, <3>1, <4>1
      <4>3. CASE first = j
        BY <4>1, <4>3
      <4>4. CASE first < j
        <5>1. j - first \in 1..Len(opq') /\ opq'[j - first] = op
          BY <4>1, <4>4, <2>3
        <5>. QED
          BY <5>1
      <4>. QED
        BY <4>2, <4>3, <4>4, <2>2
    <3>2. q[first] # NoOp
      BY <2>2, OperationAssumption
    <3>. QED
      BY <2>1, <2>2, <3>1, <3>2 DEF NoneForgotten
  <2>. QED
    BY <2>5, <2>6, <2>7, <2>8 DEF OpInv
<1>. QED
  BY <1>1, <1>2, <1>3

LEMMA OpInitInv == OpInit => OpInv
BY OperationAssumption
   DEF OpInit, OpInv, OpTypeOK, QueueSound, OneAtATime, NoneForgotten

LEMMA EnqueueInv == ASSUME OpInv, NEW op \in Ops, Enqueue(op) PROVE OpInv'
<1>. USE DEF OpInv
<1>. DEFINE q == Append(opq, op)
<1>1. /\ opState[op] = "unborn" /\ opState' = [opState EXCEPT ![op] = "pending"]
      /\ MaybeStartNext(q, inFlight, opState')
  BY DEF Enqueue
<1>2. /\ opq \in Seq(Ops) /\ opState' \in [Ops -> OpStates]
      /\ opState'[op] = "pending" /\ \A o \in Ops : o # op => opState'[o] = opState[o]
  BY <1>1 DEF OpTypeOK, OpStates
<1>3. /\ q \in Seq(Ops) /\ Len(q) = Len(opq) + 1 /\ q[Len(opq) + 1] = op
      /\ \A i \in 1..Len(opq) : q[i] = opq[i]
      /\ \A i \in 1..Len(q) : i \in 1..Len(opq) \/ i = Len(opq) + 1
  BY <1>2
<1>4. \A i \in 1..Len(opq) : opq[i] \in Ops /\ opq[i] # op
  BY <1>1, <1>2 DEF QueueSound
<1>5. op # inFlight /\ op \notin posted
  BY <1>1 DEF NoneForgotten, QueueSound
<1>. HIDE DEF q
<1>6. \A i, j \in 1..Len(q) : q[i] = q[j] => i = j
  BY <1>3, <1>4 DEF QueueSound
<1>7. \A i \in 1..Len(q) : /\ opState'[q[i]] \in {"pending", "deleted"}
                           /\ q[i] # inFlight /\ q[i] \notin posted
  BY <1>2, <1>3, <1>4, <1>5 DEF QueueSound
<1>8. \A o \in Ops : opState'[o] = "running" \/ (o \in posted /\ opState'[o] = "pending")
                     => inFlight = o
  BY <1>2, <1>5 DEF OneAtATime
<1>9. ASSUME NEW o \in Ops, opState'[o] = "pending"
      PROVE  o = inFlight \/ \E i \in 1..Len(q) : q[i] = o
  <2>1. CASE o = op
    <3>1. Len(opq) + 1 \in 1..Len(q)
      BY <1>2, <1>3
    <3>. QED
      BY <2>1, <3>1, <1>3
  <2>2. CASE o # op
    <3>1. o = inFlight \/ \E i \in 1..Len(opq) : opq[i] = o
      BY <2>2, <1>2, <1>9 DEF NoneForgotten
    <3>2. \A i \in 1..Len(opq) : i \in 1..Len(q)
      BY <1>2, <1>3
    <3>. QED
      BY <3>1, <3>2, <1>3
  <2>. QED
    BY <2>1, <2>2
<1>10. inFlight \in Ops => \/ opState'[inFlight] = "running"
                           \/ opState'[inFlight] = "pending" /\ inFlight \in posted
  BY <1>2, <1>5 DEF NoneForgotten
<1>11. inFlight \in Ops \union {NoOp, "dangling"} /\ posted \subseteq Ops
  BY DEF OpTypeOK
<1>12. \A o \in posted : opState'[o] # "unborn"
  BY <1>2, <1>5, <1>11 DEF QueueSound
<1>13. Startable(q, inFlight, opState')
  BY <1>2, <1>3, <1>6, <1>7, <1>8, <1>9, <1>10, <1>11, <1>12 DEF Startable
<1>. QED
  BY <1>1, <1>13, MaybeStartNextInv DEF q

(* An operation ends: the next one is started, or its entry leaves the     *)
(* queue.                                                                  *)
LEMMA EndInv ==
    ASSUME OpInv, NEW op \in Ops, NEW outcome \in Terminal,
           opState[op] \in {"pending", "running"}, End(op, outcome)
    PROVE  OpInv'
<1>. USE DEF OpInv
<1>1. /\ opState' \in [Ops -> OpStates] /\ opState'[op] = outcome
      /\ \A o \in Ops : o # op => opState'[o] = opState[o]
      /\ Settled(op, opState')
      /\ outcome \notin {"unborn", "pending", "running", "deleted"}
  BY DEF End, OpTypeOK, OpStates, Terminal
<1>2. /\ opq \in Seq(Ops) /\ posted \subseteq Ops
      /\ inFlight \in Ops \union {NoOp, "dangling"}
      /\ NoOp \notin Ops /\ \A i \in 1..Len(opq) : opq[i] \in Ops
  BY OperationAssumption DEF OpTypeOK
<1>3. \A o \in posted : opState'[o] # "unborn"
  BY <1>1, <1>2 DEF QueueSound
<1>4. CASE inFlight = op
  <2>1. MaybeStartNext(opq, NoOp, opState')
    BY <1>1, <1>4 DEF Settled
  <2>2. \A i \in 1..Len(opq) : /\ opState'[opq[i]] \in {"pending", "deleted"}
                               /\ opq[i] # NoOp /\ opq[i] \notin posted
    BY <1>1, <1>2, <1>4 DEF QueueSound
  <2>3. \A o \in Ops : ~(opState'[o] = "running" \/ (o \in posted /\ opState'[o] = "pending"))
    BY <1>1, <1>4 DEF OneAtATime
  <2>4. \A o \in Ops : opState'[o] = "pending" => \E i \in 1..Len(opq) : opq[i] = o
    BY <1>1, <1>4 DEF NoneForgotten
  <2>5. Startable(opq, NoOp, opState')
    BY <1>1, <1>2, <1>3, <2>2, <2>3, <2>4 DEF QueueSound, Startable
  <2>. QED
    BY <2>1, <2>5, MaybeStartNextInv
<1>5. CASE inFlight # op
  <2>1. PICK entry \in 1..Len(opq) : opq[entry] = op
    BY <1>5 DEF OneAtATime, NoneForgotten
  <2>2. MaybeStartNext(WithoutEntry(opq, entry), inFlight, opState')
    BY <1>1, <1>5, <2>1 DEF Settled, QueueSound
  <2>. DEFINE rest == WithoutEntry(opq, entry)
  <2>3. /\ rest \in Seq(Ops) /\ Len(rest) = Len(opq) - 1
        /\ \A i \in 1..Len(rest) : \E j \in 1..Len(opq) :
              j # entry /\ rest[i] = opq[j] /\ j = IF i < entry THEN i ELSE i + 1
        /\ \A j \in 1..Len(opq) : j # entry => \E i \in 1..Len(rest) : rest[i] = opq[j]
    BY <1>2, DropEntry
  <2>. HIDE DEF rest
  <2>4. \A i, j \in 1..Len(rest) : rest[i] = rest[j] => i = j
    <3>. SUFFICES ASSUME NEW i \in 1..Len(rest), NEW j \in 1..Len(rest), rest[i] = rest[j]
                  PROVE  i = j
      OBVIOUS
    <3>1. PICK k \in 1..Len(opq) : rest[i] = opq[k] /\ k = IF i < entry THEN i ELSE i + 1
      BY <2>3
    <3>2. PICK l \in 1..Len(opq) : rest[j] = opq[l] /\ l = IF j < entry THEN j ELSE j + 1
      BY <2>3
    <3>3. k = l
      BY <3>1, <3>2 DEF QueueSound
    <3>. QED
      BY <3>1, <3>2, <3>3
  <2>5. \A i \in 1..Len(rest) : /\ opState'[rest[i]] \in {"pending", "deleted"}
                                /\ rest[i] # inFlight /\ rest[i] \notin posted
    <3>. SUFFICES ASSUME NEW i \in 1..Len(rest)
                  PROVE  /\ opState'[rest[i]] \in {"pending", "deleted"}
                         /\ rest[i] # inFlight /\ rest[i] \notin posted
      OBVIOUS
    <3>1. PICK j \in 1..Len(opq) : j # entry /\ rest[i] = opq[j]
      BY <2>3
    <3>2. opq[j] # op
      BY <2>1, <3>1 DEF QueueSound
    <3>. QED
      BY <1>1, <1>2, <3>1, <3>2 DEF QueueSound
  <2>6. \A o \in Ops : opState'[o] = "running" \/ (o \in posted /\ opState'[o] = "pending")
                       => inFlight = o
    BY <1>1 DEF OneAtATime
  <2>7. ASSUME NEW o \in Ops, opState'[o] = "pending"
        PROVE  o = inFlight \/ \E i \in 1..Len(rest) : rest[i] = o
    <3>1. o = inFlight \/ \E j \in 1..Len(opq) : opq[j] = o
      BY <1>1, <2>7 DEF NoneForgotten
    <3>. QED
      BY <1>1, <2>1, <2>3, <2>7, <3>1
  <2>8. inFlight \in Ops => \/ opState'[inFlight] = "running"
                            \/ opState'[inFlight] = "pending" /\ inFlight \in posted
    BY <1>1, <1>5 DEF NoneForgotten
  <2>9. Startable(rest, inFlight, opState')
    BY <1>1, <1>2, <1>3, <2>3, <2>4, <2>5, <2>6, <2>7, <2>8 DEF Startable
  <2>. QED
    BY <2>2, <2>9, MaybeStartNextInv DEF rest
<1>. QED
  BY <1>4, <1>5

(* Deleting an operation, and what else happens to it.                     *)
LEMMA DeleteInv == ASSUME OpInv, NEW op \in Ops, DeleteOp(op) PROVE OpInv'
<1>. USE DEF OpInv
<1>1. /\ opState' \in [Ops -> OpStates] /\ opState'[op] = "deleted"
      /\ \A o \in Ops : o # op => opState'[o] = opState[o]
      /\ opState[op] # "unborn"
  BY DEF DeleteOp, OpTypeOK, OpStates
<1>2. CASE inFlight = op
  <2>1. inFlight' = "dangling" /\ opq' = opq /\ posted' = posted
    BY <1>2 DEF DeleteOp
  <2>2. OpTypeOK'
    BY <1>1, <2>1 DEF OpTypeOK, OpStates
  <2>3. QueueSound'
    <3>1. \A i \in 1..Len(opq) : opq[i] \in Ops /\ opq[i] # op /\ opq[i] # "dangling"
      BY <1>2, OperationAssumption DEF OpTypeOK, QueueSound
    <3>2. \A o \in posted : opState'[o] # "unborn"
      BY <1>1 DEF OpTypeOK, QueueSound
    <3>. QED
      BY <1>1, <2>1, <3>1, <3>2 DEF QueueSound
  <2>4. OneAtATime' /\ NoneForgotten'
    BY <1>1, <1>2, <2>1, OperationAssumption DEF OneAtATime, NoneForgotten
  <2>. QED
    BY <2>2, <2>3, <2>4
<1>3. CASE inFlight # op
  <2>1. MaybeStartNext(opq, inFlight, opState')
    BY <1>3 DEF DeleteOp
  <2>2. /\ opq \in Seq(Ops) /\ posted \subseteq Ops
        /\ inFlight \in Ops \union {NoOp, "dangling"}
        /\ \A i \in 1..Len(opq) : opq[i] \in Ops
    BY DEF OpTypeOK
  <2>3. /\ \A o \in posted : opState'[o] # "unborn"
        /\ \A i \in 1..Len(opq) : /\ opState'[opq[i]] \in {"pending", "deleted"}
                                  /\ opq[i] # inFlight /\ opq[i] \notin posted
    BY <1>1, <2>2 DEF QueueSound
  <2>4. Startable(opq, inFlight, opState')
    BY <1>1, <1>3, <2>2, <2>3 DEF QueueSound, OneAtATime, NoneForgotten, Startable
  <2>. QED
    BY <2>1, <2>4, MaybeStartNextInv
<1>. QED
  BY <1>2, <1>3

LEMMA StartInv ==
    ASSUME OpInv, NEW op \in Ops, StartBody(op) \/ StartNothing(op) PROVE OpInv'
<1>. USE DEF OpInv
<1>1. CASE StartBody(op)
  <2>. USE <1>1 DEF StartBody
  <2>1. /\ opState'[op] = "running" /\ opState' \in [Ops -> OpStates]
        /\ \A o \in Ops : o # op => opState'[o] = opState[o]
        /\ inFlight = op /\ inFlight' = op /\ opq' = opq /\ posted' = posted \ {op}
    BY DEF OpTypeOK, OpStates, OneAtATime
  <2>2. OpTypeOK'
    BY <2>1 DEF OpTypeOK, OpStates
  <2>3. QueueSound'
    <3>1. \A i \in 1..Len(opq) : opq[i] \in Ops /\ opq[i] # op
      BY <2>1 DEF OpTypeOK, QueueSound
    <3>. QED
      BY <2>1, <3>1 DEF QueueSound, OpTypeOK
  <2>4. OneAtATime' /\ NoneForgotten'
    BY <2>1, OperationAssumption DEF OneAtATime, NoneForgotten
  <2>. QED
    BY <2>2, <2>3, <2>4
<1>2. CASE StartNothing(op)
  BY <1>2 DEF StartNothing, OpTypeOK, QueueSound, OneAtATime, NoneForgotten
<1>. QED
  BY <1>1, <1>2

LEMMA OpsUnchangedInv == OpInv /\ UNCHANGED opVars => OpInv'
BY DEF opVars, OpInv, OpTypeOK, QueueSound, OneAtATime, NoneForgotten

(* A restart leaves the objects of the last life behind.                   *)
LEMMA OpRestartInv ==
    ASSUME OpInv,
           opState' = [op \in Ops |-> IF opState[op] = "unborn" THEN "unborn" ELSE "deleted"],
           opq' = <<>>, inFlight' = NoOp, posted' = {}
    PROVE  OpInv'
BY OperationAssumption DEF OpInv, OpTypeOK, QueueSound, OneAtATime, NoneForgotten
=============================================================================
