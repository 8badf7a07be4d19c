--------------------------- MODULE ProviderManager ---------------------------
(***************************************************************************)
(* The provider accounts of one runtime (src/sync/providermanager.cpp): a  *)
(* provider connects asynchronously, and while it is connected the manager *)
(* owns its backend and keeps it in the BackendRegistry.  All of it runs   *)
(* on one thread; the providers, the network and the time a connection     *)
(* takes are outside.  Every provider has one backend here.                *)
(***************************************************************************)
CONSTANTS Providers

VARIABLES
    present,   \* m_providers
    pstate,    \* m_providerStates; Error, like no entry, counts as Disconnected
    dialing,   \* providers whose connect() is not over
    orphans,   \* ids with the connect() of a destroyed provider not yet reported
    owned,     \* providers whose backend is in m_ownedBackends and the registry
    bound,     \* those whose resourceId() is the resource the topology binds
    held       \* those applyTopology() has a pointer to that is still good

pmVars == <<present, pstate, dialing, orphans, owned, bound, held>>

PMTypeOK ==
    /\ present \subseteq Providers
    /\ pstate \in [Providers -> {"Disconnected", "Connecting", "Connected"}]
    /\ dialing \subseteq present /\ orphans \subseteq Providers
    /\ owned \subseteq present
    /\ bound \subseteq owned /\ held \subseteq owned

(* registerProviderBackends() makes a new backend, whose resource id is    *)
(* its own id; unregisterProviderBackends() destroys the backends.         *)
Register(ps) ==
    /\ owned' = owned \union ps
    /\ bound' = bound \ ps
    /\ held' = held \ ps

Unregister(ps) ==
    /\ owned' = owned \ ps
    /\ bound' = bound \ ps
    /\ held' = held \ ps

Waiting == \E p \in present : pstate[p] = "Connecting"

(* connectAll() dials whoever is neither connected nor being connected.    *)
ToDial(ps, states) == {p \in ps : states[p] = "Disconnected"}
Dialled(ps, states) ==
    [p \in Providers |-> IF p \in ToDial(ps, states) THEN "Connecting" ELSE states[p]]

ConnectAll ==
    /\ pstate' = Dialled(present, pstate)
    /\ dialing' = dialing \union ToDial(present, pstate)
    /\ UNCHANGED <<present, orphans, owned, bound, held>>

AddToManager(p) ==
    /\ present' = present \union {p}
    /\ UNCHANGED <<pstate, dialing, orphans, owned, bound, held>>

(* The members of ps leave, with their backends, those of dropped lose      *)
(* their connection, those of qs come, and connectAll() follows.  Whoever   *)
(* is destroyed while it is dialling leaves its watcher behind, which knows *)
(* the provider by id only.                                                 *)
ReplaceAll(ps, dropped, qs) ==
    LET off == ps \union dropped
        rest == [p \in Providers |-> IF p \in off THEN "Disconnected" ELSE pstate[p]]
        now == (present \ ps) \union qs
    IN /\ present' = now
       /\ pstate' = Dialled(now, rest)
       /\ dialing' = (dialing \ off) \union ToDial(now, rest)
       /\ orphans' = orphans \union (dialing \intersect ps)
       /\ Unregister(off)

RemoveKeepingBackends(p) ==
    /\ present' = present \ {p}
    /\ pstate' = [pstate EXCEPT ![p] = "Disconnected"]
    /\ dialing' = dialing \ {p}
    /\ UNCHANGED <<orphans, owned, bound, held>>

RemoveFromManager(p) ==
    /\ present' = present \ {p}
    /\ pstate' = [pstate EXCEPT ![p] = "Disconnected"]
    /\ dialing' = dialing \ {p}
    /\ orphans' = IF p \in dialing THEN orphans \union {p} ELSE orphans
    /\ Unregister({p})

(* applyConfig(): a provider may drop its connection to take a new          *)
(* configuration, or keep it.                                               *)
Reconfigure(ps, dropped) ==
    /\ dropped \subseteq ps
    /\ pstate' = [p \in Providers |-> IF p \in dropped THEN "Disconnected" ELSE pstate[p]]
    /\ dialing' = dialing \ dropped
    /\ Unregister(dropped)
    /\ UNCHANGED <<present, orphans>>

DisconnectAll ==
    /\ pstate' = [p \in Providers |-> "Disconnected"]
    /\ dialing' = {}
    /\ orphans' = orphans \union dialing
    /\ Unregister(Providers)
    /\ UNCHANGED present

(***************************************************************************)
(* What providers report, as the event loop delivers it:                   *)
(* onProviderConnectionStateChanged(), onProviderCollectionsChanged() and  *)
(* the watcher of connectAll().                                            *)
(***************************************************************************)
Connects(p) ==
    /\ p \in dialing
    /\ dialing' = dialing \ {p}
    /\ pstate' = [pstate EXCEPT ![p] = "Connected"]
    /\ Register({p})
    /\ UNCHANGED <<present, orphans>>

(* A provider reports an error, or only resolves its future with false and *)
(* is reset by the watcher.                                                *)
FailsToConnect(p) ==
    /\ p \in dialing
    /\ dialing' = dialing \ {p}
    /\ pstate' = [pstate EXCEPT ![p] = "Disconnected"]
    /\ UNCHANGED <<present, orphans, owned, bound, held>>

(* The future of a destroyed provider ends: its watcher resets whoever has *)
(* the id by now.                                                          *)
OrphanReports(p) ==
    /\ p \in orphans
    /\ orphans' = orphans \ {p}
    /\ pstate' = [pstate EXCEPT ![p] = IF @ = "Connecting" THEN "Disconnected" ELSE @]
    /\ UNCHANGED <<present, dialing, owned, bound, held>>

Drops(p) ==
    /\ p \in present /\ pstate[p] = "Connected"
    /\ pstate' = [pstate EXCEPT ![p] = "Disconnected"]
    /\ Unregister({p})
    /\ UNCHANGED <<present, dialing, orphans>>

CollectionsChange(p) ==
    /\ p \in present /\ pstate[p] = "Connected"
    /\ Register({p})
    /\ UNCHANGED <<present, pstate, dialing, orphans>>

ProviderEvent ==
    \E p \in Providers :
        \/ Connects(p)
        \/ OrphanReports(p)
        \/ CollectionsChange(p)
        \/ FailsToConnect(p)
        \/ Drops(p)
=============================================================================
