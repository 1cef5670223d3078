--------------------------- MODULE RefusalProofs ---------------------------
(***************************************************************************)
(* Proofs about a NAS that counts from 1.  A call that is refused because  *)
(* the session has ended seems to return the index 0; if nothing has that  *)
(* index, the refusal cannot be taken for the storage of another volume.   *)
(***************************************************************************)
EXTENDS OneRequestProofs

\* Whatever is refused, DeleteVolume gets to its LUNs, and to its answer,
\* only without the target.
LEMMA RunDeleteInv ==
    ASSUME TypeInv, NasInv, NoTargetZero, NEW h \in Handlers, RequestInv(h),
           DeleteInv(h), HandlerStep(h)
    PROVE  DeleteInv(h)'
<1> USE NoneAssumption, ErrAssumption
        DEF DeleteInv, TypeInv, TypeOK, NasTypeOK, HandlerTypeOK, Proceed,
            Goto, Answer, locals, TargetsNamed
<1>1. CASE LoginNAS(h)
      BY <1>1 DEF LoginNAS
<1>2. CASE CreateVolume(h)
  <2>1. op[h] = "create" /\ op'[h] = "create"
    <3>1. pc[h] \in CreatePC /\ Busy(h)
          BY <1>2
          DEF CreateVolume, CheckName, CreateTarget, CreateInitiator,
              CreateLUN, UndoTarget, PollLUN, AttachLUN, UndoAttach, UndoLUN,
              ReadIQN, CreatePC, Busy
    <3>2. op' = op
          BY RunMoves DEF Moves
    <3>3. QED  BY <3>1, <3>2 DEF RequestInv
  <2>2. pc'[h] \notin DeletePC
    <3>1. CASE CheckName(h) \/ CreateTarget(h) \/ CreateInitiator(h)
               \/ CreateLUN(h) \/ UndoTarget(h)
          BY <3>1 DEF CheckName, CreateTarget, CreateInitiator, CreateLUN,
                      UndoTarget, DeletePC
    <3>2. CASE PollLUN(h) \/ AttachLUN(h) \/ UndoAttach(h) \/ UndoLUN(h)
               \/ ReadIQN(h)
          BY <3>2 DEF PollLUN, AttachLUN, AfterAttach, UndoAttach, UndoLUN,
                      ReadIQN, DeletePC
    <3>3. QED  BY <1>2, <3>1, <3>2 DEF CreateVolume
  <2>3. QED  BY <2>1, <2>2 DEF DeletePC
<1>3. CASE FindTarget(h)
  <2>1. CASE Answer(h, "Internal")
        BY <2>1
  <2>2. CASE /\ TargetsNamed(vol[h]) = {} /\ UNCHANGED nasVars
             /\ Answer(h, "OK")
        BY <2>2 DEF nasVars
  <2>3. ASSUME NEW t \in TargetsNamed(vol[h]), UNCHANGED nasVars,
               tgt' = [tgt EXCEPT ![h] = t], Goto(h, "deleteTarget")
        PROVE  DeleteInv(h)'
        BY <2>3 DEF nasVars
  <2>4. QED  BY <1>3, <2>1, <2>2, <2>3
             DEF FindTarget, Matches, NotFound, GetStorageISCSITargetList
<1>4. CASE DeleteTarget(h)
  <2>1. CASE Answer(h, "Internal")
        BY <2>1
  <2>2. CASE DeleteStorageISCSITarget(tgt[h], "ok")
             /\ Proceed(h, "deleteLUNs")
    <3>1. targetName[tgt[h]] = vol[h] /\ tgt[h] \in TargetIdx
          BY <1>4 DEF DeleteTarget, HoldsTarget
    <3>2. vol[h] \in Ids
          BY <1>4 DEF DeleteTarget, RequestInv, Busy
    <3>3. tgt[h] # Zero
          BY <3>1, <3>2 DEF NoTargetZero
    <3>4. RemoveTarget(tgt[h])
          BY <2>2, <3>3 DEF DeleteStorageISCSITarget
    <3>5. TargetsNamed(vol[h])' = {}
          BY <2>2, <3>1, <3>2, <3>4
          DEF RemoveTarget, NasInv, OneTargetPerVolume
    <3>6. pc'[h] = "deleteLUNs"
          BY <2>2
    <3>7. QED  BY <3>5, <3>6
  <2>3. QED  BY <1>4, <2>1, <2>2 DEF DeleteTarget, TargetDeleted
<1>5. CASE DeleteLUNs(h)
  <2>1. targetName' = targetName /\ TargetsNamed(vol[h]) = {}
        BY <1>5
        DEF DeleteLUNs, DeleteStorageISCSIBlockLUN, RemoveLUN, FailedCall,
            Denied, clientVars, nasVars
  <2>2. pc'[h] \in {"done", "deleteLUNs"} /\ vol'[h] = vol[h]
        BY <1>5 DEF DeleteLUNs
  <2>3. QED  BY <2>1, <2>2
<1>6. QED  BY <1>1, <1>2, <1>3, <1>4, <1>5 DEF HandlerStep, DeleteVolume

\* It stays so while others leave the targets of its volume alone.
LEMMA KeepsDeleteInv ==
    ASSUME TypeInv, NEW g \in Handlers, DeleteInv(g), vol[g] \in Ids,
           Keeps(vol[g]), vol'[g] = vol[g], op'[g] = op[g], pc'[g] = pc[g],
           tgt'[g] = tgt[g], reply'[g] = reply[g]
    PROVE  DeleteInv(g)'
<1>1. TargetsNamed(vol[g])' = TargetsNamed(vol[g])
      BY KeepsNamed DEF TargetsNamed
<1>2. QED  BY <1>1 DEF DeleteInv, Keeps, TypeInv, HoldsTarget

\* A step runs the handler, starts or ends it, or leaves it as it is.
LEMMA HandlerFrame ==
    ASSUME TypeInv, [Next]_vars, NEW g \in Handlers
    PROVE  \/ Run(g)
           \/ pc'[g] = "idle"
           \/ \E id \in Ids : RequestCreate(id, g) \/ RequestDelete(id, g)
           \/ /\ pc'[g] = pc[g] /\ op'[g] = op[g] /\ vol'[g] = vol[g]
              /\ tgt'[g] = tgt[g] /\ lun'[g] = lun[g] /\ todo'[g] = todo[g]
              /\ reply'[g] = reply[g]
<1> USE DEF TypeInv, TypeOK, HandlerTypeOK, locals
<1>1. CASE UNCHANGED handlerVars
      BY <1>1 DEF handlerVars
<1>2. ASSUME NEW h \in Handlers, Run(h), h # g
      PROVE  /\ pc'[g] = pc[g] /\ op'[g] = op[g] /\ vol'[g] = vol[g]
             /\ tgt'[g] = tgt[g] /\ lun'[g] = lun[g] /\ todo'[g] = todo[g]
             /\ reply'[g] = reply[g]
      BY <1>2, RunMoves DEF Run, Moves
<1>3. ASSUME NEW id \in Ids, NEW h \in Handlers, h # g,
             RequestCreate(id, h) \/ RequestDelete(id, h)
      PROVE  /\ pc'[g] = pc[g] /\ op'[g] = op[g] /\ vol'[g] = vol[g]
             /\ tgt'[g] = tgt[g] /\ lun'[g] = lun[g] /\ todo'[g] = todo[g]
             /\ reply'[g] = reply[g]
      BY <1>3 DEF RequestCreate, RequestDelete, Request, Accept
<1>4. ASSUME NEW h \in Handlers, Deliver(h)
      PROVE  \/ pc'[g] = "idle"
             \/ /\ pc'[g] = pc[g] /\ op'[g] = op[g] /\ vol'[g] = vol[g]
                /\ tgt'[g] = tgt[g] /\ lun'[g] = lun[g]
                /\ todo'[g] = todo[g] /\ reply'[g] = reply[g]
      BY <1>4 DEF Deliver, Leave
<1>5. CASE Crash
      BY <1>5 DEF Crash, CrashHandlers
<1>6. CASE \/ UNCHANGED vars \/ SessionEnds
           \/ \E id \in Ids : Claim(id) \/ Release(id) \/ Timeout(id)
           \/ \E h \in Handlers : ReadRequest(h)
           \/ \E l \in LunIdx : Settle(l)
      BY <1>1, <1>6 DEF vars, SessionEnds, Claim, Release, Timeout,
                        ReadRequest, Settle
<1>7. QED  BY <1>2, <1>3, <1>4, <1>5, <1>6 DEF Next

\* The request of a handler goes on fitting the phase of its volume.
LEMMA RequestStep ==
    ASSUME TypeInv, NoOverlap, \A h \in Handlers : RequestInv(h),
           [Next]_vars, NEW g \in Handlers
    PROVE  RequestInv(g)'
<1> USE DEF TypeInv, TypeOK, HandlerTypeOK, RequestInv, Busy
<1>1. CASE Run(g)
      BY <1>1, RunRequestInv DEF Run, coVars
<1>2. CASE pc'[g] = "idle"
      BY <1>2
<1>3. ASSUME NEW id \in Ids, RequestCreate(id, g) \/ RequestDelete(id, g)
      PROVE  RequestInv(g)'
      BY <1>3 DEF RequestCreate, RequestDelete, Request, Accept, CreatePC,
                  DeletePC
<1>4. CASE /\ pc[g] # "idle"
           /\ pc'[g] = pc[g] /\ op'[g] = op[g] /\ vol'[g] = vol[g]
  <2>1. vol[g] \in Ids /\ phase[vol[g]] \in {"wanted", "released"}
        BY <1>4
  <2>2. CASE phase' = phase
        BY <1>4, <2>2
  <2>3. ASSUME NEW id \in Ids, Claim(id) \/ Release(id)
        PROVE  phase'[vol[g]] = phase[vol[g]]
        BY <2>1, <2>3 DEF Claim, Release
  <2>4. ASSUME NEW h \in Handlers, Deliver(h)
        PROVE  phase'[vol[g]] = phase[vol[g]]
    <3>1. h # g /\ pc[h] # "idle"
          BY <1>4, <2>4 DEF Deliver, Leave
    <3>2. vol[h] # vol[g]
          BY <1>4, <3>1 DEF NoOverlap
    <3>3. QED  BY <2>1, <2>4, <3>2 DEF Deliver
  <2>5. phase'[vol[g]] = phase[vol[g]]
        BY <2>2, <2>3, <2>4
        DEF Next, vars, coVars, Timeout, RequestCreate, RequestDelete,
            Request, Run, ReadRequest, Settle, SessionEnds, Crash
  <2>6. QED  BY <1>4, <2>5
<1>5. QED  BY <1>1, <1>2, <1>3, <1>4, HandlerFrame

LEMMA DeleteInvStep ==
    ASSUME TypeInv, NasInv, NoTargetZero, NoOverlap, [Next]_vars,
           \A h \in Handlers : RequestInv(h) /\ DeleteInv(h),
           \A id \in Ids : Keeps(id) \/ \E h \in Handlers :
                                          Run(h) /\ vol[h] = id,
           NEW g \in Handlers
    PROVE  DeleteInv(g)'
<1>1. CASE Run(g)
      BY <1>1, RunDeleteInv DEF Run
<1>2. CASE \/ pc'[g] = "idle"
           \/ \E id \in Ids : RequestCreate(id, g) \/ RequestDelete(id, g)
      BY <1>2 DEF DeleteInv, RequestCreate, RequestDelete, Request, Accept,
                  TypeInv, TypeOK, HandlerTypeOK
<1>3. CASE /\ ~Run(g) /\ pc'[g] # "idle"
           /\ pc'[g] = pc[g] /\ op'[g] = op[g] /\ vol'[g] = vol[g]
           /\ tgt'[g] = tgt[g] /\ reply'[g] = reply[g]
  <2>1. Busy(g) /\ vol[g] \in Ids
        BY <1>3 DEF Busy, RequestInv
  <2>2. ASSUME NEW h \in Handlers, Run(h)
        PROVE  vol[h] # vol[g]
        BY <1>3, <2>1, <2>2, RunIsBusy DEF Run, NoOverlap, Busy
  <2>3. Keeps(vol[g])
        BY <2>1, <2>2
  <2>4. QED  BY <1>3, <2>1, <2>3, KeepsDeleteInv
<1>4. QED  BY <1>1, <1>2, <1>3, HandlerFrame

\* Who is told that a volume is deleted is told the truth.
LEMMA UnreachableStep ==
    ASSUME TypeInv, DeletedIsUnreachable, [Next]_vars,
           \A h \in Handlers : RequestInv(h) /\ DeleteInv(h),
           \A id \in Ids : Keeps(id) \/ \E h \in Handlers :
                                          Run(h) /\ vol[h] = id
    PROVE  DeletedIsUnreachable'
<1> SUFFICES ASSUME NEW id \in Ids, phase'[id] = "unwanted"
             PROVE  TargetsNamed(id)' = {}
    BY DEF DeletedIsUnreachable, TargetsNamed
<1>1. ASSUME NEW h \in Handlers, Run(h)
      PROVE  vol[h] # id
      BY <1>1, RunIsBusy DEF Run, coVars, RequestInv
<1>2. Keeps(id)
      BY <1>1
<1>3. CASE phase[id] = "unwanted"
      BY <1>2, <1>3, KeepsNamed DEF DeletedIsUnreachable
<1>4. ASSUME NEW h \in Handlers, Deliver(h), phase[id] # "unwanted"
      PROVE  TargetsNamed(id) = {}
  <2>1. /\ pc[h] = "done" /\ reply[h] = "OK" /\ op[h] # "create"
        /\ vol[h] = id
        BY <1>4 DEF Deliver, Leave, TypeInv, TypeOK
  <2>2. op[h] = "delete"
        BY <2>1 DEF RequestInv, Busy
  <2>3. QED  BY <2>1, <2>2 DEF DeleteInv
<1>5. phase[id] = "unwanted" \/ \E h \in Handlers : Deliver(h)
      BY DEF Next, vars, coVars, Claim, Release, Timeout, RequestCreate,
             RequestDelete, Request, Run, ReadRequest, Settle, SessionEnds,
             Crash, TypeInv, TypeOK
<1>6. QED  BY <1>2, <1>3, <1>4, <1>5, KeepsNamed

-----------------------------------------------------------------------------
(* One request at a time *)

LEMMA DeleteInit == Init => DeletedIsUnreachable /\ NoTargetZero /\ NoLUNZero
                           /\ \A h \in Handlers : DeleteInv(h)
BY NoneAssumption
DEF Init, NasInit, HandlerInit, DeletedIsUnreachable, TargetsNamed,
    NoTargetZero, NoLUNZero, DeleteInv

LEMMA OneBasedStep ==
    ASSUME OneHandler
    PROVE  TypeInv /\ OneRequestInv /\ OneBasedInv
           /\ [Next /\ NoTargetZero']_vars => OneBasedInv'
<1> SUFFICES ASSUME TypeInv, OneRequestInv, OneBasedInv,
                    [Next /\ NoTargetZero']_vars
             PROVE  OneBasedInv'
    OBVIOUS
<1>1. [Next]_vars /\ NoTargetZero'
      BY DEF OneBasedInv, NoTargetZero, vars, clientVars, nasVars
<1>2. NasInv /\ NoOverlap /\ \A h \in Handlers : RequestInv(h)
      BY DEF OneRequestInv, OneHandler, NoOverlap
<1>3. \A id \in Ids : Keeps(id) \/ \E h \in Handlers :
                                      Run(h) /\ vol[h] = id
      BY <1>1, OneStepKeeps
<1>4. \A h \in Handlers : DeleteInv(h)'
      BY <1>1, <1>2, <1>3, DeleteInvStep DEF OneBasedInv
<1>5. DeletedIsUnreachable'
      BY <1>1, <1>2, <1>3, UnreachableStep DEF OneBasedInv
<1>6. QED  BY <1>1, <1>4, <1>5 DEF OneBasedInv

\* The handler that deletes knows its target, in a session or without.
THEOREM OneBasedInvariance ==
    ASSUME OneHandler
    PROVE  OneBasedSpec => [](TypeInv /\ OneRequestInv /\ OneBasedInv)
<1>1. Init => TypeInv /\ OneRequestInv /\ OneBasedInv
      BY TypeInit, OneRequestInit, DeleteInit DEF OneBasedInv
<1>2. TypeInv /\ OneRequestInv /\ OneBasedInv /\ [Next /\ NoTargetZero']_vars
          => (TypeInv /\ OneRequestInv /\ OneBasedInv)'
      BY TypeStep, OneRequestStep, OneBasedStep
<1>3. QED  BY <1>1, <1>2, PTL DEF OneBasedSpec

\* A volume that was reported deleted has no target, although the session may
\* have ended in between, if the NAS counts its targets from 1.
THEOREM DeletionsSurviveSessions ==
    ASSUME OneHandler
    PROVE  OneBasedSpec => []DeletedIsUnreachable
<1>1. OneBasedInv => DeletedIsUnreachable
      BY DEF OneBasedInv
<1>2. QED  BY <1>1, OneBasedInvariance, PTL

\* Index 0 is all that keeps the controller that serves one request at a time
\* from being a VolumeService on a NAS that ends sessions.
THEOREM OneBasedRefinement ==
    ASSUME OneHandler
    PROVE  OneBasedSpec => Implements
<1>1. ASSUME TypeInv, OneRequestInv, OneBasedInv, [Next]_vars
      PROVE  [Service!Next]_<<phase, Live>>
  <2>1. \A h \in Handlers : RequestInv(h) /\ DeleteInv(h)
        BY <1>1 DEF OneRequestInv, OneBasedInv
  <2>2. ASSUME NEW h \in Handlers, Run(h)
        PROVE  [Service!Next]_<<phase, Live>>
    <3>1. \A id \in Ids \ {vol[h]} : Keeps(id)
          BY <1>1, <2>2, OneRunKeeps DEF Run
    <3>2. QED  BY <1>1, <2>1, <2>2, <3>1, RunImplements
  <2>3. ASSUME NEW h \in Handlers, Deliver(h)
        PROVE  [Service!Next]_<<phase, Live>>
    <3>1. pc[h] = "done"
          BY <2>3 DEF Deliver, Leave
    <3>2. QED  BY <1>1, <2>1, <2>3, <3>1, DeliverImplements
               DEF OneRequestInv, DeleteInv
  <2>4. QED  BY <1>1, <2>2, <2>3, StepImplements
<1>2. TypeInv /\ OneRequestInv /\ OneBasedInv /\ [Next]_vars =>
          [Service!Next]_Service!serviceVars
      BY <1>1 DEF Service!serviceVars
<1>3. QED  BY <1>2, InitImplements, OneBasedInvariance, PTL
           DEF OneBasedSpec, Implements, Service!Spec

-----------------------------------------------------------------------------
(* Requests that share the session *)

LEMMA SharedOwns ==
    ASSUME TypeInv, NoTargetZero, NoLUNZero, NEW h \in Handlers,
           SharedHandler(h)
    PROVE  OwnIndexes(h)
BY DEF SharedHandler, OwnIndexes, NoTargetZero, NoLUNZero, TypeInv,
       HoldsTarget, HoldsLUN

\* An index is the one the NAS gave out for the volume, or a refusal.
LEMMA RunSharedHandler ==
    ASSUME TypeInv, NasInv, NoTargetZero, NEW h \in Handlers,
           RequestInv(h), SharedHandler(h), HandlerStep(h)
    PROVE  SharedHandler(h)'
<1> USE ErrAssumption
        DEF SharedHandler, HoldsTarget, HoldsLUN, TypeInv, TypeOK, NasTypeOK,
            HandlerTypeOK, Proceed, Goto, Answer, locals
<1>1. DeleteInv(h)'
      BY RunDeleteInv
<1>2. CASE pc'[h] = "done"
      BY <1>1, <1>2
<1>3. CASE LoginNAS(h)
      BY <1>1, <1>3 DEF LoginNAS
<1>4. CASE CheckName(h) /\ pc'[h] # "done"
  <2>1. TargetsNamed(vol[h]) = {} /\ UNCHANGED nasVars
        BY <1>4 DEF CheckName, NameTaken, GetStorageISCSITargetList
  <2>2. pc'[h] = "createTarget" /\ vol'[h] = vol[h]
        BY <1>4 DEF CheckName
  <2>3. QED  BY <1>1, <2>1, <2>2 DEF TargetsNamed, nasVars
<1>5. CASE CreateTarget(h) /\ pc'[h] # "done"
  <2>1. PICK t \in TargetIdx :
            /\ CreateStorageISCSITarget(vol[h], t)
            /\ tgt' = [tgt EXCEPT ![h] = t]
            /\ Goto(h, "createInitiator")
        BY <1>5 DEF CreateTarget
  <2>2. t = Zero \/ targetName'[t] = vol[h]
    <3>1. t # Err
          BY ErrAssumption
    <3>2. t = Zero \/ AddTarget(vol[h], t) \/ KeepTarget(vol[h], t)
          BY <2>1, <3>1 DEF CreateStorageISCSITarget
    <3>3. QED  BY <3>2 DEF AddTarget, KeepTarget, nasVars
  <2>3. pc'[h] = "createInitiator" /\ tgt'[h] = t /\ vol'[h] = vol[h]
        BY <2>1
  <2>4. QED  BY <1>1, <2>2, <2>3
<1>6. CASE CreateInitiator(h)
  <2>1. targetName' = targetName
        BY <1>6
        DEF CreateInitiator, CreateStorageISCSIInitiator, FailedCall,
            AddInitiator, Denied, clientVars, nasVars
  <2>2. /\ pc'[h] \in {"undoTarget", "createLUN"}
        /\ vol'[h] = vol[h] /\ tgt'[h] = tgt[h]
        BY <1>6 DEF CreateInitiator
  <2>3. tgt[h] = Zero \/ targetName[tgt[h]] = vol[h]
        BY <1>6 DEF CreateInitiator
  <2>4. QED  BY <1>1, <2>1, <2>2, <2>3
<1>7. CASE CreateLUN(h)
  <2>1. targetName' = targetName /\ vol'[h] = vol[h] /\ tgt'[h] = tgt[h]
        BY <1>7
        DEF CreateLUN, CreateStorageISCSIBlockLUN, FailedCall, AddLUN,
            Denied, clientVars, nasVars
  <2>2. tgt[h] = Zero \/ targetName[tgt[h]] = vol[h]
        BY <1>7 DEF CreateLUN
  <2>3. CASE pc'[h] = "undoTarget"
        BY <1>1, <2>1, <2>2, <2>3
  <2>4. ASSUME NEW l \in LunIdx, CreateStorageISCSIBlockLUN(vol[h], l),
               lun' = [lun EXCEPT ![h] = l], Goto(h, "pollLUN")
        PROVE  SharedHandler(h)'
    <3>1. l = Zero \/ lunName'[l] = vol[h]
          BY <2>4 DEF CreateStorageISCSIBlockLUN, AddLUN
    <3>2. pc'[h] = "pollLUN" /\ lun'[h] = l
          BY <2>4
    <3>3. QED  BY <1>1, <2>1, <2>2, <3>1, <3>2
  <2>5. QED  BY <1>7, <2>3, <2>4 DEF CreateLUN
<1>8. CASE PollLUN(h) /\ pc'[h] # "done"
  <2>1. UNCHANGED nasVars
        BY <1>8 DEF PollLUN, GetStorageISCSILun
  <2>2. /\ pc[h] = "pollLUN" /\ pc'[h] = "attachLUN"
        /\ vol'[h] = vol[h] /\ tgt'[h] = tgt[h] /\ lun'[h] = lun[h]
        BY <1>8 DEF PollLUN
  <2>3. QED  BY <1>1, <2>1, <2>2 DEF nasVars
<1>9. CASE AttachLUN(h)
  <2>1. targetName' = targetName /\ lunName' = lunName
        BY <1>9
        DEF AttachLUN, AttachStorageISCSITargetLUN, FailedCall, MapLUN,
            Denied, clientVars, nasVars
  <2>2. /\ pc[h] = "attachLUN" /\ pc'[h] \in {"undoAttach", "readIQN"}
        /\ vol'[h] = vol[h] /\ tgt'[h] = tgt[h] /\ lun'[h] = lun[h]
        BY <1>9 DEF AttachLUN, AfterAttach
  <2>3. QED  BY <1>1, <2>1, <2>2
<1>10. CASE UndoAttach(h)
  <2>1. lunName' = lunName
        BY <1>10
        DEF UndoAttach, DeleteStorageISCSITarget, FailedCall, RemoveTarget,
            Denied, clientVars, nasVars
  <2>2. /\ pc[h] = "undoAttach" /\ pc'[h] = "undoLUN"
        /\ vol'[h] = vol[h] /\ lun'[h] = lun[h]
        BY <1>10 DEF UndoAttach
  <2>3. QED  BY <1>1, <2>1, <2>2
<1>11. CASE UndoTarget(h) \/ UndoLUN(h) \/ ReadIQN(h)
      BY <1>2, <1>11 DEF UndoTarget, UndoLUN, ReadIQN
<1>12. CASE FindTarget(h) /\ pc'[h] # "done"
  <2>1. PICK t \in TargetsNamed(vol[h]) :
            /\ UNCHANGED nasVars
            /\ tgt' = [tgt EXCEPT ![h] = t]
            /\ todo' = [todo EXCEPT ![h] = targetLUNs[t]]
            /\ Goto(h, "deleteTarget")
        BY <1>12
        DEF FindTarget, Matches, LUNsToDelete, GetStorageISCSITargetList
  <2>2. \A l \in targetLUNs[t] : lunName[l] = vol[h]
        BY DEF TargetsNamed, NasInv, Isolation
  <2>3. targetName[t] = vol[h] /\ t \in TargetIdx
        BY DEF TargetsNamed
  <2>4. /\ pc'[h] = "deleteTarget" /\ tgt'[h] = t /\ vol'[h] = vol[h]
        /\ todo'[h] = targetLUNs[t]
        BY <2>1, <2>3
  <2>5. QED  BY <1>1, <2>1, <2>2, <2>3, <2>4 DEF nasVars
<1>13. CASE DeleteTarget(h) /\ pc'[h] # "done"
  <2>1. lunName' = lunName
        BY <1>13
        DEF DeleteTarget, DeleteStorageISCSITarget, FailedCall, RemoveTarget,
            Denied, clientVars, nasVars
  <2>2. /\ pc[h] = "deleteTarget" /\ pc'[h] = "deleteLUNs"
        /\ vol'[h] = vol[h] /\ todo'[h] = todo[h]
        BY <1>13 DEF DeleteTarget
  <2>3. QED  BY <1>1, <2>1, <2>2
<1>14. CASE DeleteLUNs(h) /\ pc'[h] # "done"
  <2>1. PICK l \in todo[h] :
            /\ RemoveLUN(l) \/ UNCHANGED nasVars
            /\ todo' = [todo EXCEPT ![h] = @ \ {l}]
            /\ Goto(h, "deleteLUNs")
        BY <1>14
        DEF DeleteLUNs, DeleteStorageISCSIBlockLUN, Denied, clientVars
  <2>2. \A k \in todo[h] \ {l} : lunName'[k] = lunName[k]
        BY <2>1 DEF RemoveLUN, nasVars
  <2>3. /\ pc[h] = "deleteLUNs" /\ pc'[h] = "deleteLUNs"
        /\ vol'[h] = vol[h] /\ todo'[h] = todo[h] \ {l}
        BY <1>14, <2>1 DEF DeleteLUNs
  <2>4. QED  BY <1>1, <2>2, <2>3
<1>15. QED  BY <1>2, <1>3, <1>4, <1>5, <1>6, <1>7, <1>8, <1>9, <1>10, <1>11,
               <1>12, <1>13, <1>14
            DEF HandlerStep, CreateVolume, DeleteVolume

LEMMA KeepsSharedHandler ==
    ASSUME TypeInv, NEW g \in Handlers, SharedHandler(g), vol[g] \in Ids,
           Keeps(vol[g]), vol'[g] = vol[g], op'[g] = op[g],
           pc'[g] = pc[g], tgt'[g] = tgt[g], lun'[g] = lun[g],
           todo'[g] = todo[g], reply'[g] = reply[g]
    PROVE  SharedHandler(g)'
<1>1. TargetsNamed(vol[g])' = TargetsNamed(vol[g])
      BY KeepsNamed DEF TargetsNamed
<1>2. DeleteInv(g)'
      BY KeepsDeleteInv DEF SharedHandler
<1>3. todo[g] \in SUBSET LunIdx
      BY DEF TypeInv, TypeOK, HandlerTypeOK
<1>4. QED  BY <1>1, <1>2, <1>3
           DEF SharedHandler, Keeps, TypeInv, HoldsTarget, HoldsLUN

LEMMA SharedStepKeeps ==
    ASSUME TypeInv, SharedInv, [Next]_vars
    PROVE  /\ NasInv'
           /\ \A id \in Ids : Keeps(id) \/ \E h \in Handlers :
                                          Run(h) /\ vol[h] = id
<1>1. NasInv
      BY DEF SharedInv
<1>2. ASSUME NEW h \in Handlers, Run(h)
      PROVE  NasInv' /\ \A id \in Ids : id # vol[h] => Keeps(id)
  <2>1. Effect(h) /\ OwnIndexes(h)
        BY <1>2, RunEffect, SharedOwns DEF Run, SharedInv
  <2>2. QED  BY <1>1, <2>1, OwnKeeps, OwnNasInv
<1>3. ASSUME NEW l \in LunIdx, Settle(l)
      PROVE  NasInv' /\ \A id \in Ids : Keeps(id)
      BY <1>1, <1>3, SettleKeeps DEF Settle
<1>4. QED  BY <1>1, <1>2, <1>3, SameKeeps, NasSteps

LEMMA SharedStep ==
    ASSUME TypeInv, SharedInv,
           [Next /\ NoOverlap' /\ NoTargetZero' /\ NoLUNZero']_vars
    PROVE  SharedInv'
<1>1. [Next]_vars /\ NoOverlap' /\ NoTargetZero' /\ NoLUNZero'
      BY DEF SharedInv, NoOverlap, NoTargetZero, NoLUNZero, vars, clientVars,
             nasVars, handlerVars
<1>2. /\ NasInv'
      /\ \A id \in Ids : Keeps(id) \/ \E h \in Handlers :
                                     Run(h) /\ vol[h] = id
      BY <1>1, SharedStepKeeps
<1>3. \A h \in Handlers : RequestInv(h)'
      BY <1>1, RequestStep DEF SharedInv
<1>4. ASSUME NEW g \in Handlers
      PROVE  SharedHandler(g)'
  <2>1. CASE Run(g)
        BY <2>1, RunSharedHandler DEF Run, SharedInv
  <2>2. CASE \/ pc'[g] = "idle"
             \/ \E id \in Ids : RequestCreate(id, g) \/ RequestDelete(id, g)
    <3>1. pc'[g] \in {"idle", "login"}
          BY <2>2 DEF RequestCreate, RequestDelete, Request, Accept, TypeInv,
                      TypeOK, HandlerTypeOK
    <3>2. QED  BY <3>1 DEF SharedHandler, DeleteInv, HoldsTarget, HoldsLUN
  <2>3. CASE /\ ~Run(g) /\ pc'[g] # "idle"
             /\ pc'[g] = pc[g] /\ op'[g] = op[g] /\ vol'[g] = vol[g]
             /\ tgt'[g] = tgt[g] /\ lun'[g] = lun[g] /\ todo'[g] = todo[g]
             /\ reply'[g] = reply[g]
    <3>1. Busy(g) /\ vol[g] \in Ids
          BY <2>3 DEF Busy, RequestInv, SharedInv
    <3>2. ASSUME NEW h \in Handlers, Run(h)
          PROVE  vol[h] # vol[g]
          BY <2>3, <3>1, <3>2, RunIsBusy
          DEF Run, SharedInv, NoOverlap, Busy
    <3>3. Keeps(vol[g])
          BY <1>2, <3>1, <3>2
    <3>4. QED  BY <2>3, <3>1, <3>3, KeepsSharedHandler DEF SharedInv
  <2>4. QED  BY <1>1, <2>1, <2>2, <2>3, HandlerFrame
<1>5. DeletedIsUnreachable'
      BY <1>1, <1>2, UnreachableStep DEF SharedInv, SharedHandler
<1>6. QED  BY <1>1, <1>2, <1>3, <1>4, <1>5 DEF SharedInv

LEMMA SharedInit == Init => SharedInv
<1> SUFFICES ASSUME Init
             PROVE  SharedInv
    OBVIOUS
<1>1. NasInv
      BY OneRequestInit DEF OneRequestInv
<1>2. \A h \in Handlers : pc[h] = "idle"
      BY DEF Init, HandlerInit
<1>3. \A h \in Handlers : RequestInv(h) /\ SharedHandler(h)
      BY <1>2, DeleteInit
      DEF RequestInv, Busy, SharedHandler, HoldsTarget, HoldsLUN
<1>4. QED  BY <1>1, <1>2, <1>3, DeleteInit DEF SharedInv, NoOverlap

\* A handler that was refused an index has 0, and all others have what the
\* NAS gave out for their volume.
THEOREM SharedInvariance == SharedSpec => [](TypeInv /\ SharedInv)
<1>1. Init => TypeInv /\ SharedInv
      BY TypeInit, SharedInit
<1>2. TypeInv /\ SharedInv
      /\ [Next /\ NoOverlap' /\ NoTargetZero' /\ NoLUNZero']_vars
          => (TypeInv /\ SharedInv)'
      BY TypeStep, SharedStep
<1>3. QED  BY <1>1, <1>2, PTL DEF SharedSpec

\* However requests share the session and lose it, names stay unique and
\* targets hold the LUNs of their volume.
THEOREM SharedNasInOrder == SharedSpec => [](OneTargetPerVolume /\ Isolation)
<1>1. SharedInv => OneTargetPerVolume /\ Isolation
      BY DEF SharedInv, NasInv
<1>2. QED  BY <1>1, SharedInvariance, PTL

\* A volume that was reported deleted has no target, whoever has renewed the
\* session in between.
THEOREM SharedDeletions == SharedSpec => []DeletedIsUnreachable
<1>1. SharedInv => DeletedIsUnreachable
      BY DEF SharedInv
<1>2. QED  BY <1>1, SharedInvariance, PTL

\* An index that was refused is carried into no other volume, though the
\* session comes back in between.
THEOREM SharedKeepsToItsOwn == SharedSpec => KeepsToItsOwn
<1>1. ASSUME TypeInv, SharedInv, NEW h \in Handlers, Run(h),
             NEW id \in Ids, id # vol[h]
      PROVE  Storage(id)' = Storage(id)
  <2>1. Effect(h) /\ OwnIndexes(h) /\ NasInv
        BY <1>1, RunEffect, SharedOwns DEF Run, SharedInv
  <2>2. QED  BY <1>1, <2>1, EffectKeepsStorage
<1>2. TypeInv /\ SharedInv
      /\ [Next /\ NoOverlap' /\ NoTargetZero' /\ NoLUNZero']_vars
          => [\A h \in Handlers, id \in Ids :
                 Run(h) /\ id # vol[h] => Storage(id)' = Storage(id)]_vars
      BY <1>1
<1>3. QED  BY <1>2, SharedInvariance, PTL DEF SharedSpec, KeepsToItsOwn
=============================================================================
