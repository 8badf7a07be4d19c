------------------------- MODULE CollectionRuntimeInv -------------------------
(***************************************************************************)
(* The inductive invariant of CollectionRuntime: how far a transaction of  *)
(* the topology can be undone at each of its points, and what a run knows  *)
(* of its leases.                                                          *)
(***************************************************************************)
EXTENDS CollectionRuntime

(* The parts of TypeOK, in full: the topology and its transaction, the run. *)
Recalled == [phys : [Endpoints -> SUBSET Names], maps : SUBSET Providers,
             providers : SUBSET Providers]
TopoTyped ==
    /\ PMTypeOK
    /\ usable \in BOOLEAN /\ defs \subseteq Providers /\ snapIds \subseteq Providers
    /\ eps \subseteq Providers /\ maps \subseteq eps
    /\ phys \in [Endpoints -> SUBSET Names]
    /\ applyPc \in {"idle", "joining", "checking", "mutating", "undoing", "restoring",
                    "restoring then undo"}
    /\ want \in Topology /\ want \in Topologies \union {NoTopology}
    /\ before \in Recalled
    /\ staged \in BOOLEAN /\ prepared \in BOOLEAN /\ repair \in BOOLEAN
    /\ done \in Seq(Mutation) /\ Len(done) <= Len(want.muts)
    /\ torn \subseteq Endpoints \X Names
RunTyped ==
    /\ runPc \in {"idle", "preparing", "syncing"}
    /\ picked \subseteq Providers /\ active \subseteq Resources /\ wants \subseteq active
    /\ prepFailed \in BOOLEAN /\ cancelled \in BOOLEAN /\ halted \in BOOLEAN
    /\ lost \subseteq Resources /\ stopped \subseteq Providers
    /\ results \in [Providers -> {"none", "ok", "failed", "cancelled"}]
    /\ lease \in [Resources -> [prepared : BOOLEAN, flushed : BOOLEAN, finished : 0..2]]
    /\ answer \in [ok : BOOLEAN, cancelled : BOOLEAN]
    /\ life \in {"up", "draining", "gone"}

(* Where a transaction is says what it has done.                           *)
ApplyPhases ==
    /\ done # <<>> => applyPc \in {"mutating", "undoing", "restoring then undo"}
    /\ prepared => applyPc \in {"mutating", "undoing"}
    /\ repair => applyPc \in {"undoing", "restoring"}
    /\ applyPc \in {"joining", "checking", "mutating"} => staged = want.replace
    /\ staged => want.replace
    /\ applyPc \in {"restoring", "restoring then undo"} => staged
    /\ applyPc = "restoring then undo" => want.replace
    /\ \A i \in 1..Len(done) : done[i] = want.muts[i]

(* The backends a transaction works with are there from its validation on, *)
(* since nothing is delivered to the thread before it is over, unless the  *)
(* providers are built anew first.                                         *)
BackendsHeld ==
    /\ applyPc = "mutating" => /\ want.eps \subseteq owned /\ held = want.eps
                               /\ \A i \in 1..Len(want.muts) :
                                     want.muts[i].at \in held \union {Hub}
    /\ applyPc = "undoing" => \/ want.replace
                              \/ \A i \in 1..Len(done) : done[i].at \in held \union {Hub}

(* Which accounts are configured, and which the manager has.               *)
AccountsKept ==
    HostsAddWhileApplying \/
        /\ AccountsAgree
        /\ applyPc # "idle" => /\ defs = before.providers /\ snapIds \subseteq defs
                               /\ eps \subseteq defs /\ maps = before.maps
        /\ applyPc # "idle" /\ ~staged => present = before.providers
        /\ applyPc \in {"restoring", "restoring then undo"} => present = before.providers
        /\ applyPc \in {"joining", "checking", "mutating"} /\ staged => present = want.provs

(* A collection that was there before a transaction is known from the      *)
(* first change of it, or is there if there was none; but for those that   *)
(* are torn.                                                               *)
Touches(mu, e, n) ==
    /\ mu.at = e
    /\ \/ mu.kind = "Create" /\ mu.name = n
       \/ mu.kind = "Rename" /\ n \in {mu.name, "renamed"}
UndoableAt(e, n) ==
    /\ (\A i \in 1..Len(done) : ~Touches(done[i], e, n))
          => (n \in phys[e] <=> n \in before.phys[e])
    /\ \A i \in 1..Len(done) :
          Touches(done[i], e, n) /\ (\A j \in 1..(i - 1) : ~Touches(done[j], e, n))
          => (n \in before.phys[e] <=> done[i].kind = "Rename" /\ done[i].name = n)
Lasting == \E i \in 1..Len(done) : NeedsRepair(done[i])
Reversible ==
    applyPc # "idle" /\ ~repair /\ ~Lasting =>
        \A e \in Endpoints, n \in Names : <<e, n>> \notin torn => UndoableAt(e, n)

(* Of the run: leases are prepared one by one, and those prepared are      *)
(* known; a cancellation reached the engine.                               *)
RunKnows ==
    /\ runPc # "idle" => \A r \in Resources : lease[r].prepared => r \in active
    /\ runPc # "idle" /\ ~prepFailed => \A r \in active \ wants : lease[r].prepared
    /\ runPc = "syncing" => ~prepFailed /\ wants = {}
    /\ cancelled => halted

TopoInv == TopoTyped /\ ApplyPhases /\ BackendsHeld /\ AccountsKept /\ Reversible
RunInv == RunTyped /\ RunKnows /\ LeaseProtocol
IInv == TopoInv /\ RunInv
=============================================================================
