-------------------------- MODULE ProvisioningInv ---------------------------
(***************************************************************************)
(* Why Provisioning is safe when no two handlers work on one volume        *)
(* (SerialSpec) and the NAS never ends a session: a handler works on       *)
(* nothing but the target and the LUN that carry the volume's name, and    *)
(* what it remembers of them is therefore never stale.  CleanInv says what *)
(* is more as long as nothing fails; OneRequestInv, OneBasedInv and        *)
(* SharedInv say what is left of it when sessions end.                     *)
(***************************************************************************)
EXTENDS Provisioning

Busy(h) == pc[h] # "idle"

\* The calls before which a handler holds the target, and the LUN, it made
\* or found.
HoldsTarget == {"createInitiator", "createLUN", "pollLUN", "attachLUN",
                "readIQN", "undoTarget", "undoAttach", "deleteTarget"}
HoldsLUN == {"pollLUN", "attachLUN", "readIQN", "undoAttach", "undoLUN"}

\* Types alone are not inductive: an index that is passed to the NAS has to
\* be one.
TypeInv ==
    /\ TypeOK
    /\ \A h \in Handlers :
          /\ pc[h] \in HoldsTarget => tgt[h] \in TargetIdx
          /\ pc[h] \in HoldsLUN => lun[h] \in LunIdx

-----------------------------------------------------------------------------

\* The request a handler works on fits what the orchestrator believes.
RequestInv(h) ==
    Busy(h) =>
        /\ vol[h] \in Ids
        /\ \/ op[h] = "create" /\ phase[vol[h]] = "wanted"
           \/ op[h] = "delete" /\ phase[vol[h]] = "released"
        /\ pc[h] \in CreatePC => op[h] = "create"
        /\ pc[h] \in DeletePC => op[h] = "delete"

\* The orchestrator waits for every handler that is at work, so no two work
\* on one volume: NoOverlap holds when no call is given up.
WaitInv ==
    \A h \in Handlers : Busy(h) => vol[h] \in Ids /\ call[vol[h]] = h

\* What a handler remembers is still true of the NAS.
HandlerInv(h) ==
    /\ pc[h] = "createTarget" => TargetsNamed(vol[h]) = {}
    /\ pc[h] \in HoldsTarget => targetName[tgt[h]] = vol[h]
    /\ pc[h] \in {"createLUN", "pollLUN", "attachLUN", "readIQN"} =>
          tgt[h] \in initiators
    /\ pc[h] \in HoldsLUN => lunName[lun[h]] = vol[h]
    /\ pc[h] \in {"attachLUN", "readIQN"} => lunStatus[lun[h]] # "creating"
    /\ pc[h] = "readIQN" => lun[h] \in targetLUNs[tgt[h]]
    /\ pc[h] \in {"deleteTarget", "deleteLUNs"} =>
          \A l \in todo[h] : lunName[l] = vol[h]
    /\ pc[h] = "deleteLUNs" => TargetsNamed(vol[h]) = {}
    /\ pc[h] = "done" /\ reply[h] = "OK" /\ op[h] = "create" =>
          Backed(vol[h])
    /\ pc[h] = "done" /\ reply[h] = "OK" /\ op[h] = "delete" =>
          TargetsNamed(vol[h]) = {}

\* A handler that has logged in has its calls served.
SessionInv ==
    \A h \in Handlers : pc[h] \in CreatePC \cup DeletePC => session

VolumeInv(id) ==
    /\ phase[id] = "bound" => Backed(id)
    /\ phase[id] = "unwanted" => TargetsNamed(id) = {}

\* The NAS refuses a second LUN of the same name.
OneLUNPerVolume ==
    \A l1, l2 \in LunIdx :
        lunName[l1] # None /\ lunName[l1] = lunName[l2] => l1 = l2

NasInv == OneTargetPerVolume /\ OneLUNPerVolume /\ Isolation

\* The inductive invariant of the serial controller: every handler is the
\* only one of its volume and up to date, every target is the only one of
\* its name and holds its own LUNs only, and every volume is what the
\* orchestrator believes.
SerialInv ==
    /\ NoOverlap
    /\ NasInv
    /\ SessionInv
    /\ \A h \in Handlers : RequestInv(h) /\ HandlerInv(h)
    /\ \A id \in Ids : VolumeInv(id)

-----------------------------------------------------------------------------
(* As long as nothing fails, the serial controller leaves no LUN behind.   *)

\* Every LUN of the volume is attached to its target.
Wired(id) ==
    \A l \in LunsNamed(id) : \E t \in TargetsNamed(id) : l \in targetLUNs[t]

\* What a handler can rely on beside HandlerInv: it starts from a volume
\* whose LUNs are wired, makes its LUN where there is none, has no reason to
\* undo that, and deletes whatever the volume has.
CleanHandler(h) ==
    /\ pc[h] \in {"login", "checkName", "findTarget", "done"} => Wired(vol[h])
    /\ pc[h] \in {"createTarget", "createInitiator", "createLUN",
                  "undoTarget"} => LunsNamed(vol[h]) = {}
    /\ pc[h] \in {"deleteTarget", "deleteLUNs"} =>
          LunsNamed(vol[h]) \subseteq todo[h]
    /\ pc[h] \notin {"undoAttach", "undoLUN"}

CleanInv ==
    faults = 0 =>
        /\ \A h \in Handlers : Busy(h) => CleanHandler(h)
        /\ \A id \in Ids :
              (\A h \in Handlers : Busy(h) => vol[h] # id) => Wired(id)

-----------------------------------------------------------------------------
(* When one request at a time is served, sessions may end and calls may be *)
(* given up: nobody else logs in while the handler is at work, so as long  *)
(* as there is a session all its calls were served, and without one it     *)
(* changes nothing more.  It may still answer OK, but not to CreateVolume. *)

OneRequestInv ==
    /\ NasInv
    /\ \A h \in Handlers :
          /\ RequestInv(h)
          /\ session => HandlerInv(h)
          /\ pc[h] = "done" /\ reply[h] = "OK" /\ op[h] = "create" =>
                Backed(vol[h])
    /\ \A id \in Ids : phase[id] = "bound" => Backed(id)

\* DeleteVolume takes its target from a list, never from a call that may be
\* refused, so its index is not 0 if the NAS counts from 1: a remove_target
\* that is refused does not read as success then.
DeleteInv(h) ==
    /\ pc[h] = "deleteTarget" => targetName[tgt[h]] = vol[h]
    /\ pc[h] = "deleteLUNs" => TargetsNamed(vol[h]) = {}
    /\ pc[h] = "done" /\ reply[h] = "OK" /\ op[h] = "delete" =>
          TargetsNamed(vol[h]) = {}

\* What OneBasedSpec adds to OneRequestInv.
OneBasedInv ==
    /\ NoTargetZero
    /\ \A h \in Handlers : DeleteInv(h)
    /\ DeletedIsUnreachable

-----------------------------------------------------------------------------
(* When handlers of several volumes share a session that ends, a refusal   *)
(* that was read as an index is carried into the session another of them   *)
(* opens.  That harms no other volume as long as nothing has the index 0.  *)

\* A handler that works on what is not its own works on nothing.
OwnIndexes(h) ==
    /\ pc[h] = "createTarget" => TargetsNamed(vol[h]) = {}
    /\ pc[h] \in HoldsTarget => targetName[tgt[h]] \in {vol[h], None}
    /\ pc[h] \in HoldsLUN => lunName[lun[h]] \in {vol[h], None}
    /\ pc[h] \in {"deleteTarget", "deleteLUNs"} =>
          \A l \in todo[h] : lunName[l] = vol[h]

\* That an index has no name is not inductive, since the NAS may give it to
\* another volume; that it is 0 is, since it is given to nobody.
SharedHandler(h) ==
    /\ pc[h] = "createTarget" => TargetsNamed(vol[h]) = {}
    /\ pc[h] \in HoldsTarget => tgt[h] = Zero \/ targetName[tgt[h]] = vol[h]
    /\ pc[h] \in HoldsLUN => lun[h] = Zero \/ lunName[lun[h]] = vol[h]
    /\ pc[h] \in {"deleteTarget", "deleteLUNs"} =>
          \A l \in todo[h] : lunName[l] = vol[h]
    /\ DeleteInv(h)

SharedInv ==
    /\ NoOverlap
    /\ NoTargetZero /\ NoLUNZero
    /\ NasInv
    /\ \A h \in Handlers : RequestInv(h) /\ SharedHandler(h)
    /\ DeletedIsUnreachable
=============================================================================
