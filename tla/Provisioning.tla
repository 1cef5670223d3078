---------------------------- MODULE Provisioning ----------------------------
(***************************************************************************)
(* The controller (Controller) against the NAS (QnapNAS, QnapClient) and   *)
(* the orchestrator.  The orchestrator, the csi-provisioner sidecar of     *)
(* charts/qnap-csi/templates/controller.yaml, is not part of the           *)
(* repository: it has at most one call per volume outstanding, repeats     *)
(* what was not answered OK, and gives up waiting for an answer when its   *)
(* deadline passes.  The handlers ignore the context of the request, so    *)
(* the goroutine of a call that was given up runs on.                      *)
(***************************************************************************)
EXTENDS Controller

CONSTANT MaxTimeouts   \* bound on the calls the orchestrator gives up

ASSUME MaxTimeoutsAssumption == MaxTimeouts \in Nat
ASSUME HandlersAssumption == None \notin Handlers

VARIABLES
    phase,     \* what the orchestrator believes about a volume
    call,      \* the handler whose answer it waits for, None if none
    timeouts

coVars == <<phase, call, timeouts>>
vars == <<clientVars, handlerVars, coVars>>

\* A volume has storage when a target of its name has a LUN attached.
Live == {id \in Ids : \E t \in TargetsNamed(id) : targetLUNs[t] # {}}

Service == INSTANCE VolumeService WITH live <- Live

Init ==
    /\ NasInit /\ session = FALSE /\ faults = 0
    /\ HandlerInit
    /\ phase = [id \in Ids |-> "unwanted"]
    /\ call = [id \in Ids |-> None]
    /\ timeouts = 0

-----------------------------------------------------------------------------

Claim(id) ==
    /\ phase[id] = "unwanted"
    /\ phase' = [phase EXCEPT ![id] = "wanted"]
    /\ UNCHANGED <<call, timeouts, clientVars, handlerVars>>

\* A PersistentVolume whose reclaimPolicy is Delete is no longer claimed.
Release(id) ==
    /\ phase[id] = "bound"
    /\ phase' = [phase EXCEPT ![id] = "released"]
    /\ UNCHANGED <<call, timeouts, clientVars, handlerVars>>

Request(id, h, request) ==
    /\ call[id] = None
    /\ Accept(h, request, id)
    /\ call' = [call EXCEPT ![id] = h]
    /\ UNCHANGED <<phase, timeouts, clientVars>>

RequestCreate(id, h) == phase[id] = "wanted" /\ Request(id, h, "create")

RequestDelete(id, h) == phase[id] = "released" /\ Request(id, h, "delete")

\* Nobody waits for the answer of a call that was given up.
Deliver(h) ==
    /\ Leave(h)
    /\ IF call[vol[h]] = h
       THEN /\ call' = [call EXCEPT ![vol[h]] = None]
            /\ phase' = IF reply[h] # "OK" THEN phase
                        ELSE [phase EXCEPT ![vol[h]] =
                                 IF op[h] = "create" THEN "bound"
                                                     ELSE "unwanted"]
       ELSE UNCHANGED <<call, phase>>
    /\ UNCHANGED <<timeouts, clientVars>>

Timeout(id) ==
    /\ timeouts < MaxTimeouts
    /\ call[id] # None
    /\ call' = [call EXCEPT ![id] = None]
    /\ timeouts' = timeouts + 1
    /\ UNCHANGED <<phase, clientVars, handlerVars>>

Run(h) == HandlerStep(h) /\ UNCHANGED coVars

Settle(l) ==
    FinishLUN(l) /\ UNCHANGED <<session, faults, handlerVars, coVars>>

\* ListVolumes, GetCapacity and ValidateVolumeCapabilities log in like every
\* handler; after that they only read.
ReadRequest(h) ==
    pc[h] = "idle" /\ Login("ok") /\ UNCHANGED <<handlerVars, coVars>>

SessionEnds == Expire /\ UNCHANGED <<handlerVars, coVars>>

\* A restart of the controller fails every call it was serving.
Crash ==
    /\ CrashHandlers
    /\ call' = [id \in Ids |-> None]
    /\ UNCHANGED <<phase, timeouts>>

Next ==
    \/ \E id \in Ids : Claim(id) \/ Release(id) \/ Timeout(id)
    \/ \E id \in Ids, h \in Handlers : RequestCreate(id, h)
    \/ \E id \in Ids, h \in Handlers : RequestDelete(id, h)
    \/ \E h \in Handlers : Run(h) \/ Deliver(h) \/ ReadRequest(h)
    \/ \E l \in LunIdx : Settle(l)
    \/ SessionEnds
    \/ Crash

Spec == Init /\ [][Next]_vars

\* No volume has two handlers at work.  They hold no lock: it is up to the
\* orchestrator not to repeat a call before the handler of the last one has
\* ended, though its answer may have been lost.
NoOverlap ==
    \A g, h \in Handlers :
        g # h /\ pc[g] # "idle" /\ pc[h] # "idle" => vol[g] # vol[h]

SerialSpec == Init /\ [][Next /\ NoOverlap']_vars

\* The NAS counts from 1: no target, and no LUN, has the index 0 that a
\* refused call seems to return.
NoTargetZero == Zero \in TargetIdx => targetName[Zero] = None
NoLUNZero == Zero \in LunIdx => lunName[Zero] = None

OneBasedSpec == Init /\ [][Next /\ NoTargetZero']_vars

\* One handler per volume as in SerialSpec, but any of them may find that the
\* session they share has ended, or has been renewed by another.
SharedSpec ==
    Init /\ [][Next /\ NoOverlap' /\ NoTargetZero' /\ NoLUNZero']_vars

\* Every goroutine runs on, the NAS finishes what it began, and the
\* orchestrator asks again for what it did not get.  Nobody has to want a
\* volume or release one; faults and deadlines are never owed.
FairSpec ==
    /\ Spec
    /\ \A h \in Handlers : WF_vars(Run(h)) /\ WF_vars(Deliver(h))
    /\ \A l \in LunIdx : WF_vars(Settle(l))
    /\ \A id \in Ids :
          /\ WF_vars(\E h \in Handlers : RequestCreate(id, h))
          /\ WF_vars(\E h \in Handlers : RequestDelete(id, h))

-----------------------------------------------------------------------------
(* Safety *)

\* Every variable has the values its comment says.
TypeOK ==
    /\ NasTypeOK
    /\ session \in BOOLEAN /\ faults \in 0..MaxFaults
    /\ HandlerTypeOK
    /\ phase \in [Ids -> Service!Phases]
    /\ call \in [Ids -> Handlers \cup {None}]
    /\ timeouts \in 0..MaxTimeouts

\* DeleteVolume, ListVolumes and the IQN lookup of CreateVolume all take the
\* first target that has the volume's name (controller.go:140, 182): there
\* must never be two of them.
OneTargetPerVolume ==
    \A t1, t2 \in TargetIdx :
        targetName[t1] # None /\ targetName[t1] = targetName[t2] => t1 = t2

\* The LUN that backs volume id, if CreateVolume was carried to its end.
Backed(id) ==
    \E t \in TargetsNamed(id), l \in LunsNamed(id) :
        t \in initiators /\ l \in targetLUNs[t] /\ lunStatus[l] # "creating"

\* A volume the orchestrator believes created has a target a node can log
\* in to and, attached to it, its own LUN that is no longer being created.
BoundIsBacked == \A id \in Ids : phase[id] = "bound" => Backed(id)

\* A volume the orchestrator believes deleted cannot be logged in to.
DeletedIsUnreachable ==
    \A id \in Ids : phase[id] = "unwanted" => TargetsNamed(id) = {}

Active(id) == \E h \in Handlers : vol[h] = id

\* As long as no call failed and the controller did not crash, a LUN is
\* either attached to the target of its name or some handler of its volume
\* is still at work: there are no orphans.
NoLeakWithoutFault ==
    faults = 0 =>
        \A l \in LunIdx :
            \/ lunName[l] = None
            \/ Active(lunName[l])
            \/ \E t \in TargetsNamed(lunName[l]) : l \in targetLUNs[t]

\* As long as nothing failed, CreateVolume never sends the NAS a LUN name it
\* already has; "it'll cause a crash" there (api.go:534).
NoSecondLUN ==
    faults = 0 =>
        \A h \in Handlers :
            pc[h] = "createLUN" => LunsNamed(vol[h]) = {}

\* The LUNs of a target belong to the target's volume: DeleteVolume deletes
\* whatever LUNs the target lists (controller.go:189), and a node mounts
\* LUN 0 of it (controller.go:158).
Isolation ==
    \A t \in TargetIdx : \A l \in targetLUNs[t] :
        targetName[t] # None /\ lunName[l] = targetName[t]

\* "This is the LUN index" (api.go:530): a LUN that CreateVolume is about to
\* attach is the one it made, unless the NAS is going to refuse the call.
AttachesOwnLUN ==
    \A h \in Handlers :
        pc[h] = "attachLUN" /\ session => lunName[lun[h]] = vol[h]

\* "Volume not found, so yolo" (controller.go:200): once the orchestrator is
\* told that a volume is deleted, no LUN of it is left behind.
DeletedIsGone ==
    \A id \in Ids :
        phase[id] = "unwanted" /\ ~Active(id) => LunsNamed(id) = {}

-----------------------------------------------------------------------------
(* Steps *)

\* The targets and LUNs that carry volume id's name, and their wiring.
Storage(id) ==
    <<{<<t, targetLUNs[t], t \in initiators>> : t \in TargetsNamed(id)},
      {<<l, lunStatus[l]>> : l \in LunsNamed(id)}>>

\* No step of anyone changes the storage of a volume that is and stays in
\* use: indexes are reused by the NAS, and handlers act on remembered ones.
BoundUntouched ==
    [][\A id \in Ids :
          phase[id] = "bound" => Storage(id)' = Storage(id)]_vars

\* A handler leaves the storage of every volume but its own alone, whatever
\* index a refused call has left it with.
KeepsToItsOwn ==
    [][\A h \in Handlers, id \in Ids :
          Run(h) /\ id # vol[h] => Storage(id)' = Storage(id)]_vars

\* The controller implements VolumeService.
Implements == Service!Spec

-----------------------------------------------------------------------------
(* Liveness *)

\* "This should create an iSCSI volume on the NAS ... to become bound"
\* (README.md:50): a volume that is wanted gets bound.
WantedGetsBound ==
    \A id \in Ids : phase[id] = "wanted" ~> phase[id] = "bound"

\* It does unless a call fails or is given up.
GetsBoundUnlessDisturbed ==
    \A id \in Ids :
        phase[id] = "wanted" ~>
            phase[id] = "bound" \/ faults > 0 \/ timeouts > 0

\* A volume that is released gets deleted, whatever failed on the way.
ReleasedGetsDeleted ==
    \A id \in Ids : phase[id] = "released" ~> phase[id] = "unwanted"

\* Every handler ends: the loop that waits for the LUN (controller.go:113)
\* has no bound of its own and relies on the LUN leaving "creating".
HandlersFinish ==
    \A h \in Handlers : pc[h] # "idle" ~> pc[h] = "idle"
=============================================================================
