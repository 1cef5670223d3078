--------------------------- MODULE VolumeService ----------------------------
(***************************************************************************)
(* What the controller service promises the orchestrator, whatever the NAS *)
(* and the network do in between: a volume that was reported created has   *)
(* storage until it is released, and one that was reported deleted has     *)
(* none.  The orchestrator side is the life of one PersistentVolume.       *)
(***************************************************************************)
CONSTANT Ids

VARIABLES
    phase,   \* what the orchestrator believes about a volume
    live     \* volumes that have storage an initiator could log in to

serviceVars == <<phase, live>>

Phases == {"unwanted", "wanted", "bound", "released"}

Init ==
    /\ phase = [id \in Ids |-> "unwanted"]
    /\ live = {}

Move(id, from, to) ==
    /\ phase[id] \in from
    /\ phase' = [phase EXCEPT ![id] = to]
    /\ UNCHANGED live

Want(id) == Move(id, {"unwanted"}, "wanted")

Provision(id) ==
    /\ phase[id] = "wanted"
    /\ live' = live \cup {id}
    /\ UNCHANGED phase

Bind(id) == id \in live /\ Move(id, {"wanted"}, "bound")

Release(id) == Move(id, {"wanted", "bound"}, "released")

\* Storage is taken away when the volume is released, or when the creation
\* is undone; never while the volume is bound.
Unprovision(id) ==
    /\ phase[id] \in {"wanted", "released"}
    /\ live' = live \ {id}
    /\ UNCHANGED phase

Forget(id) == id \notin live /\ Move(id, {"released"}, "unwanted")

Next ==
    \E id \in Ids :
        \/ Want(id) \/ Provision(id) \/ Bind(id)
        \/ Release(id) \/ Unprovision(id) \/ Forget(id)

Spec == Init /\ [][Next]_serviceVars
=============================================================================
