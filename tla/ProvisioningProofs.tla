------------------------- MODULE ProvisioningProofs -------------------------
(***************************************************************************)
(* Proofs about Provisioning for every set of volumes, indexes and         *)
(* handlers.  Type correctness holds of every instance; the safety         *)
(* theorems are about the serial controller (SerialSpec), which may lose   *)
(* answers, on a NAS that keeps its sessions.                              *)
(***************************************************************************)
EXTENDS ProvisioningInv, TLAPS

USE NoneAssumption, OutcomesAssumption, ErrAssumption, MaxFaultsAssumption,
    MaxTimeoutsAssumption, HandlersAssumption

-----------------------------------------------------------------------------
(* Type correctness *)

\* Every call keeps the types of the session and the bound on faults.
SessionTypeOK == session \in BOOLEAN /\ faults \in 0..MaxFaults

LEMMA FaultType ==
    ASSUME faults \in 0..MaxFaults, faults' = faults \/ CountFault
    PROVE  faults' \in 0..MaxFaults
BY SMT DEF CountFault

LEMMA EffectType ==
    ASSUME NasTypeOK,
           \/ UNCHANGED nasVars
           \/ \E id \in Ids \cup {None}, t \in TargetIdx : AddTarget(id, t)
           \/ \E t \in TargetIdx : AddInitiator(t) \/ RemoveTarget(t)
           \/ \E id \in Ids \cup {None}, l \in LunIdx : AddLUN(id, l)
           \/ \E l \in LunIdx : FinishLUN(l) \/ RemoveLUN(l)
           \/ \E l \in LunIdx, t \in TargetIdx : MapLUN(l, t)
    PROVE  NasTypeOK'
<1>1. CASE UNCHANGED nasVars
      BY <1>1 DEF NasTypeOK, nasVars
<1>2. CASE \E id \in Ids \cup {None}, t \in TargetIdx : AddTarget(id, t)
      BY <1>2 DEF NasTypeOK, AddTarget
<1>3. CASE \E t \in TargetIdx : AddInitiator(t) \/ RemoveTarget(t)
      BY <1>3 DEF NasTypeOK, AddInitiator, RemoveTarget
<1>4. CASE \E id \in Ids \cup {None}, l \in LunIdx : AddLUN(id, l)
      BY <1>4 DEF NasTypeOK, AddLUN, LunStatus
<1>5. CASE \E l \in LunIdx : FinishLUN(l) \/ RemoveLUN(l)
      BY <1>5 DEF NasTypeOK, FinishLUN, RemoveLUN, LunStatus
<1>6. CASE \E l \in LunIdx, t \in TargetIdx : MapLUN(l, t)
      BY <1>6 DEF NasTypeOK, MapLUN
<1>7. QED  BY <1>1, <1>2, <1>3, <1>4, <1>5, <1>6

-----------------------------------------------------------------------------
(* What a step of a handler can do *)

\* The effects a step of handler h can have on the NAS: each is on the
\* volume of its request, or on the indexes it remembers.
Effect(h) ==
    \/ UNCHANGED nasVars
    \/ pc[h] = "createTarget" /\ \E t \in TargetIdx : AddTarget(vol[h], t)
    \/ pc[h] = "createInitiator" /\ AddInitiator(tgt[h])
    \/ pc[h] = "createLUN" /\ \E l \in LunIdx : AddLUN(vol[h], l)
    \/ pc[h] = "attachLUN" /\ MapLUN(lun[h], tgt[h])
    \/ /\ pc[h] \in {"undoTarget", "undoAttach", "deleteTarget"}
       /\ RemoveTarget(tgt[h])
    \/ pc[h] = "undoLUN" /\ RemoveLUN(lun[h])
    \/ pc[h] = "deleteLUNs" /\ \E l \in todo[h] : RemoveLUN(l)

LEMMA RunEffect ==
    ASSUME NEW h \in Handlers, HandlerStep(h)
    PROVE  Effect(h)
<1> USE DEF Denied, clientVars
<1>1. CASE LoginNAS(h)
      BY <1>1 DEF LoginNAS, Login, FailedCall, Effect
<1>2. CASE CheckName(h)
      BY <1>2 DEF CheckName, GetStorageISCSITargetList, FailedCall, Effect
<1>3. CASE CreateTarget(h)
      BY <1>3 DEF CreateTarget, CreateStorageISCSITarget, FailedCall,
                  KeepTarget, Effect
<1>4. CASE CreateInitiator(h)
      BY <1>4 DEF CreateInitiator, CreateStorageISCSIInitiator, FailedCall,
                  Effect
<1>5. CASE CreateLUN(h)
      BY <1>5 DEF CreateLUN, CreateStorageISCSIBlockLUN, FailedCall, Effect
<1>6. CASE UndoTarget(h)
      BY <1>6 DEF UndoTarget, DeleteStorageISCSITarget, FailedCall, Effect
<1>7. CASE PollLUN(h)
      BY <1>7 DEF PollLUN, GetStorageISCSILun, FailedCall, Effect
<1>8. CASE AttachLUN(h)
      BY <1>8 DEF AttachLUN, AttachStorageISCSITargetLUN, FailedCall, Effect
<1>9. CASE UndoAttach(h)
      BY <1>9 DEF UndoAttach, DeleteStorageISCSITarget, FailedCall, Effect
<1>10. CASE UndoLUN(h)
      BY <1>10 DEF UndoLUN, DeleteStorageISCSIBlockLUN, FailedCall, Effect
<1>11. CASE ReadIQN(h)
      BY <1>11 DEF ReadIQN, GetStorageISCSITargetList, FailedCall, Effect
<1>12. CASE FindTarget(h)
      BY <1>12 DEF FindTarget, GetStorageISCSITargetList, FailedCall, Effect
<1>13. CASE DeleteTarget(h)
      BY <1>13 DEF DeleteTarget, DeleteStorageISCSITarget, FailedCall, Effect
<1>14. CASE DeleteLUNs(h)
      BY <1>14 DEF DeleteLUNs, DeleteStorageISCSIBlockLUN, FailedCall,
                   clientVars, Effect
<1>15. QED  BY <1>1, <1>2, <1>3, <1>4, <1>5, <1>6, <1>7, <1>8, <1>9, <1>10,
               <1>11, <1>12, <1>13, <1>14
            DEF HandlerStep, CreateVolume, DeleteVolume

LEMMA RunCounts ==
    ASSUME NEW h \in Handlers, HandlerStep(h)
    PROVE  /\ faults' = faults \/ CountFault
           /\ session' = session \/ session' = TRUE
BY DEF HandlerStep, CreateVolume, DeleteVolume, LoginNAS, CheckName,
       CreateTarget, CreateInitiator, CreateLUN, UndoTarget, PollLUN,
       AttachLUN, UndoAttach, UndoLUN, ReadIQN, FindTarget,
       DeleteTarget, DeleteLUNs, Login, GetStorageISCSITargetList,
       GetStorageISCSILun, CreateStorageISCSITarget,
       CreateStorageISCSIInitiator, CreateStorageISCSIBlockLUN,
       AttachStorageISCSITargetLUN, DeleteStorageISCSITarget,
       DeleteStorageISCSIBlockLUN, Served, Denied, FailedCall,
       clientVars

LEMMA RunSession ==
    ASSUME NEW h \in Handlers, HandlerStep(h), SessionTypeOK
    PROVE  SessionTypeOK' /\ (session => session')
<1>1. /\ faults' = faults \/ CountFault
      /\ session' = session \/ session' = TRUE
      BY RunCounts
<1>2. faults' \in 0..MaxFaults
      BY <1>1, FaultType DEF SessionTypeOK
<1>3. session' \in BOOLEAN /\ (session => session')
  <2>1. CASE session' = session
        BY <2>1, Zenon DEF SessionTypeOK
  <2>2. CASE session' = TRUE
        BY <2>2, Zenon
  <2>3. QED  BY <1>1, <2>1, <2>2
<1>4. QED  BY <1>2, <1>3 DEF SessionTypeOK

\* A step of handler h leaves the other handlers alone.
Moves(h) ==
    /\ UNCHANGED <<op, vol>>
    /\ pc'[h] \in PC \ {"idle"}
    /\ pc' = [pc EXCEPT ![h] = pc'[h]]
    /\ tgt'[h] \in TargetIdx \cup {None}
    /\ tgt' = [tgt EXCEPT ![h] = tgt'[h]]
    /\ lun'[h] \in LunIdx \cup {None}
    /\ lun' = [lun EXCEPT ![h] = lun'[h]]
    /\ todo'[h] \in SUBSET LunIdx
    /\ todo' = [todo EXCEPT ![h] = todo'[h]]
    /\ reply'[h] \in Codes
    /\ reply' = [reply EXCEPT ![h] = reply'[h]]

LEMMA AnswerMoves ==
    ASSUME HandlerTypeOK, NEW h \in Handlers, NEW c \in Codes, Answer(h, c)
    PROVE  Moves(h) /\ pc'[h] = "done"
BY DEF HandlerTypeOK, Answer, Moves, PC

LEMMA GotoMoves ==
    ASSUME HandlerTypeOK, NEW h \in Handlers,
           NEW p \in CreatePC \cup DeletePC, Proceed(h, p)
    PROVE  Moves(h) /\ pc'[h] = p
BY DEF HandlerTypeOK, Proceed, Goto, Moves, PC, CreatePC, DeletePC, locals

LEMMA RunMoves ==
    ASSUME HandlerTypeOK, NasTypeOK, NEW h \in Handlers, HandlerStep(h)
    PROVE  Moves(h)
<1> USE DEF Codes, CreatePC, DeletePC
<1>1. CASE LoginNAS(h)
      BY <1>1, AnswerMoves, GotoMoves DEF LoginNAS
<1>2. CASE CheckName(h)
      BY <1>2, AnswerMoves, GotoMoves DEF CheckName
<1>3. CASE CreateTarget(h)
      BY <1>3, AnswerMoves
         DEF CreateTarget, Goto, Moves, HandlerTypeOK, PC
<1>4. CASE CreateInitiator(h)
      BY <1>4, AnswerMoves, GotoMoves DEF CreateInitiator
<1>5. CASE CreateLUN(h)
      BY <1>5, GotoMoves
         DEF CreateLUN, Goto, Moves, HandlerTypeOK, PC
<1>6. CASE UndoTarget(h)
      BY <1>6, AnswerMoves, GotoMoves DEF UndoTarget
<1>7. CASE PollLUN(h)
      BY <1>7, AnswerMoves, GotoMoves DEF PollLUN
<1>8. CASE AttachLUN(h)
      BY <1>8, GotoMoves DEF AttachLUN, AfterAttach
<1>9. CASE UndoAttach(h)
      BY <1>9, AnswerMoves, GotoMoves DEF UndoAttach
<1>10. CASE UndoLUN(h)
      BY <1>10, AnswerMoves, GotoMoves DEF UndoLUN
<1>11. CASE ReadIQN(h)
      BY <1>11, AnswerMoves, GotoMoves DEF ReadIQN
<1>12. CASE FindTarget(h)
      BY <1>12, AnswerMoves, GotoMoves
         DEF FindTarget, Matches, NotFound, LUNsToDelete, Goto, Moves,
             HandlerTypeOK, NasTypeOK, TargetsNamed, PC
<1>13. CASE DeleteTarget(h)
      BY <1>13, AnswerMoves, GotoMoves DEF DeleteTarget
<1>14. CASE DeleteLUNs(h)
      BY <1>14, AnswerMoves, GotoMoves
         DEF DeleteLUNs, Goto, Moves, HandlerTypeOK, NasTypeOK,
             TargetsNamed, PC
<1>15. QED  BY <1>1, <1>2, <1>3, <1>4, <1>5, <1>6, <1>7, <1>8, <1>9, <1>10,
               <1>11, <1>12, <1>13, <1>14
            DEF HandlerStep, CreateVolume, DeleteVolume

LEMMA RunNasType ==
    ASSUME TypeInv, NEW h \in Handlers, HandlerStep(h)
    PROVE  NasTypeOK'
<1>1. Effect(h)
      BY RunEffect
<1>2. /\ vol[h] \in Ids \cup {None}
      /\ todo[h] \in SUBSET LunIdx
      BY DEF TypeInv, TypeOK, HandlerTypeOK
<1>3. /\ pc[h] \in HoldsTarget => tgt[h] \in TargetIdx
      /\ pc[h] \in HoldsLUN => lun[h] \in LunIdx
      BY DEF TypeInv
<1>4. QED
      BY <1>1, <1>2, <1>3, EffectType
      DEF Effect, HoldsTarget, HoldsLUN, TypeInv, TypeOK

LEMMA RunHolds ==
    ASSUME TypeInv, NEW h \in Handlers, HandlerStep(h)
    PROVE  /\ pc'[h] \in HoldsTarget => tgt'[h] \in TargetIdx
           /\ pc'[h] \in HoldsLUN => lun'[h] \in LunIdx
<1> USE DEF HoldsTarget, HoldsLUN, TypeInv, TypeOK, HandlerTypeOK,
            Proceed, Goto, Answer, locals
<1>1. CASE LoginNAS(h)
      BY <1>1 DEF LoginNAS
<1>2. CASE CheckName(h)
      BY <1>2 DEF CheckName
<1>3. CASE CreateTarget(h)
      BY <1>3 DEF CreateTarget
<1>4. CASE CreateInitiator(h)
      BY <1>4 DEF CreateInitiator
<1>5. CASE CreateLUN(h)
      BY <1>5 DEF CreateLUN
<1>6. CASE UndoTarget(h)
      BY <1>6 DEF UndoTarget
<1>7. CASE PollLUN(h)
      BY <1>7 DEF PollLUN
<1>8. CASE AttachLUN(h)
      BY <1>8 DEF AttachLUN, AfterAttach
<1>9. CASE UndoAttach(h)
      BY <1>9 DEF UndoAttach
<1>10. CASE UndoLUN(h)
      BY <1>10 DEF UndoLUN
<1>11. CASE ReadIQN(h)
      BY <1>11 DEF ReadIQN
<1>12. CASE FindTarget(h)
      BY <1>12 DEF FindTarget, Matches, TargetsNamed
<1>13. CASE DeleteTarget(h)
      BY <1>13 DEF DeleteTarget
<1>14. CASE DeleteLUNs(h)
      BY <1>14 DEF DeleteLUNs
<1>15. QED  BY <1>1, <1>2, <1>3, <1>4, <1>5, <1>6, <1>7, <1>8, <1>9, <1>10,
               <1>11, <1>12, <1>13, <1>14
            DEF HandlerStep, CreateVolume, DeleteVolume

LEMMA TypeInit == Init => TypeInv
<1> SUFFICES ASSUME Init
             PROVE  TypeInv
    OBVIOUS
<1>1. session \in BOOLEAN
      BY Zenon DEF Init
<1>2. NasTypeOK
      BY DEF Init, NasInit, NasTypeOK, LunStatus
<1>3. QED  BY <1>1, <1>2, MaxFaultsAssumption, MaxTimeoutsAssumption
           DEF Init, HandlerInit, TypeInv, TypeOK, HandlerTypeOK, PC, Codes,
               HoldsTarget, HoldsLUN, Service!Phases

LEMMA TypeStep == TypeInv /\ [Next]_vars => TypeInv'
<1> SUFFICES ASSUME TypeInv, [Next]_vars
             PROVE  TypeInv'
    OBVIOUS
<1>1. ASSUME NEW id \in Ids, Claim(id) \/ Release(id)
      PROVE  TypeInv'
      BY <1>1
      DEF Claim, Release, TypeInv, TypeOK, NasTypeOK, HandlerTypeOK,
          clientVars, nasVars, handlerVars, locals, Service!Phases
<1>2. ASSUME NEW id \in Ids, Timeout(id)
      PROVE  TypeInv'
      BY <1>2
      DEF Timeout, TypeInv, TypeOK, NasTypeOK, HandlerTypeOK,
          clientVars, nasVars, handlerVars, locals
<1>3. ASSUME NEW id \in Ids, NEW h \in Handlers,
             RequestCreate(id, h) \/ RequestDelete(id, h)
      PROVE  TypeInv'
      BY <1>3
      DEF RequestCreate, RequestDelete, Request, Accept, TypeInv, TypeOK,
          NasTypeOK, HandlerTypeOK, clientVars, nasVars, locals, PC,
          HoldsTarget, HoldsLUN
<1>4. ASSUME NEW h \in Handlers, Run(h)
      PROVE  TypeInv'
  <2>1. HandlerStep(h) /\ UNCHANGED coVars
        BY <1>4 DEF Run
  <2>2. NasTypeOK'
        BY <2>1, RunNasType
  <2>3. SessionTypeOK'
        BY <2>1, RunSession DEF SessionTypeOK, TypeInv, TypeOK
  <2>4. Moves(h)
        BY <2>1, RunMoves DEF TypeInv, TypeOK
  <2>5. HandlerTypeOK'
        BY <2>4 DEF Moves, TypeInv, TypeOK, HandlerTypeOK
  <2>6. TypeOK'
        BY <2>1, <2>2, <2>3, <2>5 DEF SessionTypeOK, TypeInv, TypeOK, coVars
  <2>7. ASSUME NEW g \in Handlers
        PROVE  /\ pc'[g] \in HoldsTarget => tgt'[g] \in TargetIdx
               /\ pc'[g] \in HoldsLUN => lun'[g] \in LunIdx
    <3>1. CASE g = h
          BY <2>1, <3>1, RunHolds
    <3>2. CASE g # h
          BY <2>4, <3>2 DEF Moves, TypeInv, TypeOK, HandlerTypeOK
    <3>3. QED  BY <3>1, <3>2
  <2>8. QED  BY <2>6, <2>7 DEF TypeInv
<1>5. ASSUME NEW h \in Handlers, Deliver(h)
      PROVE  TypeInv'
      BY <1>5
      DEF Deliver, Leave, TypeInv, TypeOK, NasTypeOK, HandlerTypeOK,
          clientVars, nasVars, locals, PC, Codes, HoldsTarget, HoldsLUN,
          Service!Phases
<1>6. ASSUME NEW l \in LunIdx, Settle(l)
      PROVE  TypeInv'
  <2>1. NasTypeOK'
        BY <1>6, EffectType DEF Settle, TypeInv, TypeOK
  <2>2. QED  BY <1>6, <2>1
             DEF Settle, TypeInv, TypeOK, HandlerTypeOK, handlerVars,
                 locals, coVars
<1>7. CASE Crash
  <2>1. faults' \in 0..MaxFaults
        BY <1>7, FaultType DEF Crash, CrashHandlers, TypeInv, TypeOK
  <2>2. QED  BY <1>7, <2>1
             DEF Crash, CrashHandlers, TypeInv, TypeOK, NasTypeOK, nasVars,
                 HandlerTypeOK, PC, Codes, HoldsTarget, HoldsLUN
<1>8. CASE UNCHANGED vars
      BY <1>8
      DEF vars, clientVars, nasVars, handlerVars, locals, coVars, TypeInv,
          TypeOK, NasTypeOK, HandlerTypeOK
<1>9. CASE SessionEnds \/ \E h \in Handlers : ReadRequest(h)
  <2>1. /\ UNCHANGED <<nasVars, handlerVars, coVars>>
        /\ session' \in BOOLEAN
        /\ faults' = faults \/ CountFault
        BY <1>9 DEF SessionEnds, Expire, ReadRequest, Login
  <2>2. faults' \in 0..MaxFaults
        BY <2>1, FaultType DEF TypeInv, TypeOK
  <2>3. QED  BY <2>1, <2>2
             DEF nasVars, handlerVars, locals, coVars, TypeInv, TypeOK,
                 NasTypeOK, HandlerTypeOK
<1>10. QED  BY <1>1, <1>2, <1>3, <1>4, <1>5, <1>6, <1>7, <1>8, <1>9 DEF Next

\* Whatever fails, however calls overlap, every variable keeps its type.
THEOREM TypeCorrect == Spec => []TypeOK
<1>1. Spec => []TypeInv
      BY TypeInit, TypeStep, PTL DEF Spec
<1>2. TypeInv => TypeOK
      BY DEF TypeInv
<1>3. QED  BY <1>1, <1>2, PTL

-----------------------------------------------------------------------------
(* The serial controller: a step for one volume leaves the others alone *)

\* What carries the name of volume id stays as it is; only a LUN that is
\* being created may change its status.
Keeps(id) ==
    /\ \A t \in TargetIdx :
          /\ targetName'[t] = id <=> targetName[t] = id
          /\ targetName[t] = id =>
                /\ targetLUNs'[t] = targetLUNs[t]
                /\ t \in initiators' <=> t \in initiators
    /\ \A l \in LunIdx :
          /\ lunName'[l] = id <=> lunName[l] = id
          /\ lunStatus[l] # "creating" /\ lunName[l] = id =>
                lunStatus'[l] = lunStatus[l]

LEMMA OwnKeeps ==
    ASSUME TypeInv, NasInv, NEW h \in Handlers, OwnIndexes(h), Effect(h),
           NEW id \in Ids, id # vol[h]
    PROVE  Keeps(id)
<1> USE NoneAssumption DEF Keeps, TypeInv, TypeOK, NasTypeOK
<1>1. CASE UNCHANGED nasVars
      BY <1>1 DEF nasVars
<1>2. ASSUME NEW t \in TargetIdx, AddTarget(vol[h], t)
      PROVE  Keeps(id)
      BY <1>2 DEF AddTarget
<1>3. CASE pc[h] = "createInitiator" /\ AddInitiator(tgt[h])
      BY <1>3 DEF AddInitiator, OwnIndexes, HoldsTarget
<1>4. ASSUME NEW l \in LunIdx, AddLUN(vol[h], l)
      PROVE  Keeps(id)
      BY <1>4 DEF AddLUN
<1>5. CASE pc[h] = "attachLUN" /\ MapLUN(lun[h], tgt[h])
      BY <1>5 DEF MapLUN, OwnIndexes, HoldsTarget
<1>6. CASE /\ pc[h] \in {"undoTarget", "undoAttach", "deleteTarget"}
           /\ RemoveTarget(tgt[h])
      BY <1>6 DEF RemoveTarget, OwnIndexes, HoldsTarget
<1>7. ASSUME NEW l \in LunIdx, lunName[l] # id, RemoveLUN(l)
      PROVE  Keeps(id)
  <2>1. ASSUME NEW t \in TargetIdx, targetName[t] = id
        PROVE  l \notin targetLUNs[t]
        BY <1>7, <2>1 DEF NasInv, Isolation
  <2>2. ASSUME NEW t \in TargetIdx, targetName[t] = id
        PROVE  targetLUNs'[t] = targetLUNs[t]
        BY <1>7, <2>1, <2>2 DEF RemoveLUN
  <2>3. QED  BY <1>7, <2>2 DEF RemoveLUN
<1>8. CASE pc[h] = "undoLUN" /\ RemoveLUN(lun[h])
      BY <1>7, <1>8 DEF OwnIndexes, HoldsLUN
<1>9. CASE pc[h] = "deleteLUNs" /\ \E l \in todo[h] : RemoveLUN(l)
      BY <1>7, <1>9 DEF OwnIndexes, HandlerTypeOK
<1>10. QED  BY <1>1, <1>2, <1>3, <1>4, <1>5, <1>6, <1>8, <1>9 DEF Effect

LEMMA OwnNasInv ==
    ASSUME TypeInv, NasInv, NEW h \in Handlers, OwnIndexes(h), Effect(h)
    PROVE  NasInv'
<1> USE NoneAssumption DEF NasInv, OneTargetPerVolume, OneLUNPerVolume,
        Isolation, TypeInv, TypeOK, NasTypeOK
<1>1. CASE UNCHANGED nasVars
      BY <1>1 DEF nasVars
<1>2. CASE pc[h] = "createTarget"
           /\ \E t \in TargetIdx : AddTarget(vol[h], t)
      BY <1>2 DEF AddTarget, OwnIndexes, TargetsNamed
<1>3. CASE AddInitiator(tgt[h])
      BY <1>3 DEF AddInitiator
<1>4. ASSUME NEW l \in LunIdx, AddLUN(vol[h], l)
      PROVE  NasInv'
      BY <1>4 DEF AddLUN, LunsNamed
<1>5. CASE pc[h] = "attachLUN" /\ MapLUN(lun[h], tgt[h])
      BY <1>5 DEF MapLUN, OwnIndexes, HoldsTarget, HoldsLUN
<1>6. CASE RemoveTarget(tgt[h])
      BY <1>6 DEF RemoveTarget
<1>7. ASSUME NEW l, RemoveLUN(l)
      PROVE  NasInv'
      BY <1>7 DEF RemoveLUN
<1>8. QED  BY <1>1, <1>2, <1>3, <1>4, <1>5, <1>6, <1>7 DEF Effect

LEMMA HandlerOwns ==
    ASSUME NEW h \in Handlers, HandlerInv(h)
    PROVE  OwnIndexes(h)
BY DEF HandlerInv, OwnIndexes

LEMMA EffectKeeps ==
    ASSUME TypeInv, NasInv, NEW h \in Handlers, HandlerInv(h), Effect(h),
           NEW id \in Ids, id # vol[h]
    PROVE  Keeps(id)
BY HandlerOwns, OwnKeeps

LEMMA EffectNasInv ==
    ASSUME TypeInv, NasInv, NEW h \in Handlers, HandlerInv(h), Effect(h)
    PROVE  NasInv'
BY HandlerOwns, OwnNasInv

LEMMA KeepsBacked ==
    ASSUME NEW id \in Ids, Keeps(id), Backed(id)
    PROVE  Backed(id)'
BY DEF Keeps, Backed, TargetsNamed, LunsNamed

LEMMA KeepsNamed ==
    ASSUME NEW id \in Ids, Keeps(id)
    PROVE  TargetsNamed(id)' = TargetsNamed(id)
BY DEF Keeps, TargetsNamed

LEMMA KeepsVolume ==
    ASSUME NEW id \in Ids, Keeps(id), VolumeInv(id), phase'[id] = phase[id]
    PROVE  VolumeInv(id)'
BY KeepsBacked, KeepsNamed DEF VolumeInv

LEMMA KeepsHandler ==
    ASSUME TypeInv, NEW g \in Handlers, HandlerInv(g),
           vol[g] \in Ids, Keeps(vol[g]), vol'[g] = vol[g], op'[g] = op[g],
           pc'[g] = pc[g], tgt'[g] = tgt[g], lun'[g] = lun[g],
           todo'[g] = todo[g], reply'[g] = reply[g]
    PROVE  HandlerInv(g)'
<1>1. TargetsNamed(vol[g])' = TargetsNamed(vol[g])
      BY KeepsNamed DEF TargetsNamed
<1>2. Backed(vol[g]) => Backed(vol[g])'
      BY KeepsBacked DEF Backed, TargetsNamed, LunsNamed
<1>3. todo[g] \in SUBSET LunIdx
      BY DEF TypeInv, TypeOK, HandlerTypeOK
<1>4. QED  BY <1>1, <1>2, <1>3
           DEF HandlerInv, Keeps, TypeInv, HoldsTarget, HoldsLUN

\* What a handler does fits its request.
LEMMA RunIsBusy ==
    ASSUME NEW h \in Handlers, HandlerStep(h)
    PROVE  Busy(h)
BY DEF Busy, HandlerStep, CreateVolume, DeleteVolume, LoginNAS, CheckName,
       CreateTarget, CreateInitiator, CreateLUN, UndoTarget, PollLUN,
       AttachLUN, UndoAttach, UndoLUN, ReadIQN, FindTarget, DeleteTarget,
       DeleteLUNs

LEMMA RunRequestInv ==
    ASSUME TypeInv, NEW h \in Handlers, RequestInv(h), HandlerStep(h),
           UNCHANGED phase
    PROVE  RequestInv(h)'
<1>1. Busy(h) /\ Moves(h)
      BY RunIsBusy, RunMoves DEF TypeInv, TypeOK
<1>2. /\ pc'[h] \in CreatePC => op[h] = "create"
      /\ pc'[h] \in DeletePC => op[h] = "delete"
  <2> USE <1>1 DEF RequestInv, CreatePC, DeletePC, Proceed, Goto, Answer,
              AfterAttach, TypeInv, TypeOK, HandlerTypeOK
  <2>1. CASE LoginNAS(h)
        BY <2>1 DEF LoginNAS
  <2>2. CASE CreateVolume(h)
        BY <2>2 DEF CreateVolume, CheckName, CreateTarget, CreateInitiator,
                    CreateLUN, UndoTarget, PollLUN, AttachLUN, UndoAttach,
                    UndoLUN, ReadIQN
  <2>3. CASE DeleteVolume(h)
        BY <2>3 DEF DeleteVolume, FindTarget, DeleteTarget, DeleteLUNs
  <2>4. QED  BY <2>1, <2>2, <2>3 DEF HandlerStep
<1>3. QED  BY <1>1, <1>2 DEF RequestInv, Busy, Moves

\* Where each step leaves its own handler: what it remembers is true.
LEMMA RunHandlerInv ==
    ASSUME TypeInv, NasInv, NEW h \in Handlers, RequestInv(h),
           HandlerInv(h), pc[h] \in CreatePC \cup DeletePC => session,
           HandlerStep(h)
    PROVE  HandlerInv(h)'
<1> USE NoneAssumption, OutcomesAssumption, ErrAssumption
        DEF HandlerInv, HoldsTarget, HoldsLUN, TypeInv, TypeOK, NasTypeOK,
            HandlerTypeOK, Proceed, Goto, Answer, locals, Served,
            CreatePC, DeletePC
<1>0. pc[h] \in CreatePC \cup DeletePC => ~Denied
      BY DEF Denied
<1>1. CASE LoginNAS(h)
      BY <1>1 DEF LoginNAS
<1>2. CASE CheckName(h)
  <2>1. CASE Answer(h, "Internal") \/ Answer(h, "AlreadyExists")
        BY <2>1
  <2>2. CASE /\ GetStorageISCSITargetList("ok") /\ ~NameTaken(h)
             /\ Proceed(h, "createTarget")
    <3>1. targetName' = targetName /\ TargetsNamed(vol[h]) = {}
          BY <1>0, <1>2, <2>2
          DEF CheckName, NameTaken, GetStorageISCSITargetList, nasVars
    <3>2. pc'[h] = "createTarget" /\ vol'[h] = vol[h]
          BY <2>2
    <3>3. QED  BY <3>1, <3>2 DEF TargetsNamed
  <2>3. QED  BY <1>2, <2>1, <2>2 DEF CheckName
<1>3. CASE CreateTarget(h)
  <2>1. CASE Answer(h, "Internal")
        BY <1>3, <2>1
  <2>2. ASSUME NEW t \in TargetIdx, CreateStorageISCSITarget(vol[h], t),
               tgt' = [tgt EXCEPT ![h] = t], Goto(h, "createInitiator"),
               UNCHANGED <<lun, todo>>
        PROVE  HandlerInv(h)'
    <3>1. AddTarget(vol[h], t) \/ KeepTarget(vol[h], t)
          BY <1>0, <1>3, <2>2 DEF CreateTarget, CreateStorageISCSITarget
    <3>2. targetName'[t] = vol[h]
          BY <3>1 DEF AddTarget, KeepTarget, nasVars
    <3>3. pc'[h] = "createInitiator" /\ tgt'[h] = t /\ vol'[h] = vol[h]
          BY <2>2
    <3>4. QED  BY <3>2, <3>3
  <2>3. QED  BY <1>3, <2>1, <2>2 DEF CreateTarget
<1>4. CASE CreateInitiator(h)
  <2>1. CASE Goto(h, "undoTarget")
        BY <1>0, <1>4, <2>1 DEF CreateInitiator, CreateStorageISCSIInitiator,
                          FailedCall, AddInitiator, nasVars
  <2>2. CASE CreateStorageISCSIInitiator(tgt[h], "ok")
             /\ Goto(h, "createLUN")
    <3>1. AddInitiator(tgt[h]) /\ UNCHANGED <<tgt, lun, todo>>
          BY <1>0, <1>4, <2>2 DEF CreateInitiator, CreateStorageISCSIInitiator
    <3>2. /\ targetName[tgt[h]] = vol[h]
          /\ tgt[h] \in TargetIdx /\ vol[h] \in Ids
          BY <1>4 DEF CreateInitiator, RequestInv, Busy
    <3>3. tgt[h] \in initiators' /\ targetName' = targetName
          BY <3>1, <3>2 DEF AddInitiator
    <3>4. pc'[h] = "createLUN" /\ tgt'[h] = tgt[h] /\ vol'[h] = vol[h]
          BY <2>2, <3>1
    <3>5. QED  BY <3>2, <3>3, <3>4
  <2>3. QED  BY <1>4, <2>1, <2>2 DEF CreateInitiator
<1>5. CASE CreateLUN(h)
  <2>1. CASE CreateStorageISCSIBlockLUN(vol[h], Err)
             /\ Goto(h, "undoTarget") /\ UNCHANGED locals
    <3>1. targetName' = targetName
          BY <1>0, <1>5, <2>1
          DEF CreateLUN, CreateStorageISCSIBlockLUN, FailedCall, AddLUN,
              nasVars
    <3>2. targetName[tgt[h]] = vol[h]
          BY <1>5 DEF CreateLUN
    <3>3. pc'[h] = "undoTarget" /\ tgt'[h] = tgt[h] /\ vol'[h] = vol[h]
          BY <2>1
    <3>4. QED  BY <3>1, <3>2, <3>3
  <2>2. ASSUME NEW l \in LunIdx, CreateStorageISCSIBlockLUN(vol[h], l),
               lun' = [lun EXCEPT ![h] = l], Goto(h, "pollLUN"),
               UNCHANGED <<tgt, todo>>
        PROVE  HandlerInv(h)'
    <3>1. AddLUN(vol[h], l)
          BY <1>0, <1>5, <2>2 DEF CreateLUN, CreateStorageISCSIBlockLUN
    <3>2. /\ lunName'[l] = vol[h]
          /\ targetName' = targetName /\ initiators' = initiators
          BY <3>1 DEF AddLUN
    <3>3. targetName[tgt[h]] = vol[h] /\ tgt[h] \in initiators
          BY <1>5 DEF CreateLUN
    <3>4. /\ pc'[h] = "pollLUN" /\ tgt'[h] = tgt[h] /\ lun'[h] = l
          /\ vol'[h] = vol[h]
          BY <2>2
    <3>5. QED  BY <3>2, <3>3, <3>4
  <2>3. QED  BY <1>5, <2>1, <2>2 DEF CreateLUN
<1>6. CASE UndoTarget(h)
      BY <1>6 DEF UndoTarget
<1>7. CASE PollLUN(h)
  <2>1. CASE Answer(h, "Internal")
        BY <1>7, <2>1
  <2>2. ASSUME NEW s \in LunStatus \ {"creating"},
               GetStorageISCSILun(lun[h], s), Goto(h, "attachLUN"),
               UNCHANGED locals
        PROVE  HandlerInv(h)'
        BY <1>0, <1>7, <2>2 DEF PollLUN, GetStorageISCSILun, nasVars
  <2>3. QED  BY <1>7, <2>1, <2>2 DEF PollLUN, Waiting
<1>8. CASE AttachLUN(h)
  <2>1. CASE Goto(h, "undoAttach")
        BY <1>0, <1>8, <2>1 DEF AttachLUN, AttachStorageISCSITargetLUN,
                          FailedCall, MapLUN, nasVars
  <2>2. CASE AttachStorageISCSITargetLUN(lun[h], tgt[h], "ok")
             /\ Goto(h, "readIQN")
    <3>1. MapLUN(lun[h], tgt[h]) /\ UNCHANGED <<tgt, lun, todo>>
          BY <1>0, <1>8, <2>2
          DEF AttachLUN, AttachStorageISCSITargetLUN, AfterAttach
    <3>2. /\ targetName[tgt[h]] = vol[h] /\ tgt[h] \in initiators
          /\ lunName[lun[h]] = vol[h] /\ lunStatus[lun[h]] # "creating"
          /\ tgt[h] \in TargetIdx
          BY <1>8 DEF AttachLUN
    <3>3. /\ lun[h] \in targetLUNs'[tgt[h]]
          /\ UNCHANGED <<targetName, initiators, lunName, lunStatus>>
          BY <3>1, <3>2 DEF MapLUN
    <3>4. /\ pc'[h] = "readIQN" /\ tgt'[h] = tgt[h] /\ lun'[h] = lun[h]
          /\ vol'[h] = vol[h]
          BY <2>2, <3>1
    <3>5. QED  BY <3>2, <3>3, <3>4
  <2>3. QED  BY <1>8, <2>1, <2>2 DEF AttachLUN, AfterAttach
<1>9. CASE UndoAttach(h)
      BY <1>0, <1>9 DEF UndoAttach, DeleteStorageISCSITarget, FailedCall,
                  RemoveTarget, nasVars
<1>10. CASE UndoLUN(h)
      BY <1>10 DEF UndoLUN
<1>11. CASE ReadIQN(h)
  <2>1. CASE Answer(h, "Internal")
        BY <1>11, <2>1
  <2>2. CASE GetStorageISCSITargetList("ok") /\ Answer(h, "OK")
    <3>1. Backed(vol[h])
          BY <1>11 DEF ReadIQN, Backed, TargetsNamed, LunsNamed
    <3>2. UNCHANGED nasVars
          BY <1>0, <1>11, <2>2 DEF ReadIQN, GetStorageISCSITargetList
    <3>3. pc'[h] = "done" /\ op'[h] = op[h] /\ vol'[h] = vol[h]
          BY <2>2
    <3>4. Backed(vol[h])'
          BY <3>1, <3>2, <3>3
          DEF nasVars, Backed, TargetsNamed, LunsNamed
    <3>5. op[h] = "create"
          BY <1>11 DEF ReadIQN, RequestInv, Busy
    <3>6. QED  BY <3>3, <3>4, <3>5
  <2>3. QED  BY <1>11, <2>1, <2>2 DEF ReadIQN
<1>12. CASE FindTarget(h)
  <2>1. op[h] = "delete"
        BY <1>12 DEF FindTarget, RequestInv, Busy, DeletePC
  <2>2. CASE Answer(h, "Internal")
        BY <1>12, <2>2
  <2>3. CASE GetStorageISCSITargetList("ok") /\ TargetsNamed(vol[h]) = {}
             /\ Answer(h, "OK")
    <3>1. targetName' = targetName
          BY <1>0, <1>12, <2>3
          DEF FindTarget, GetStorageISCSITargetList, nasVars
    <3>2. QED  BY <2>1, <2>3, <3>1 DEF TargetsNamed
  <2>4. ASSUME NEW t \in TargetsNamed(vol[h]),
               GetStorageISCSITargetList("ok"),
               tgt' = [tgt EXCEPT ![h] = t],
               todo' = [todo EXCEPT ![h] = targetLUNs[t]],
               Goto(h, "deleteTarget"), UNCHANGED lun
        PROVE  HandlerInv(h)'
    <3>1. targetName' = targetName /\ lunName' = lunName
          BY <1>0, <1>12, <2>4
          DEF FindTarget, GetStorageISCSITargetList, nasVars
    <3>2. \A l \in targetLUNs[t] : lunName[l] = vol[h]
          BY <2>4 DEF TargetsNamed, NasInv, Isolation
    <3>3. /\ pc'[h] = "deleteTarget" /\ tgt'[h] = t
          /\ todo'[h] = targetLUNs[t] /\ vol'[h] = vol[h]
          BY <2>4 DEF TargetsNamed
    <3>4. QED  BY <2>4, <3>1, <3>2, <3>3 DEF TargetsNamed
  <2>5. QED  BY <1>12, <2>2, <2>3, <2>4
             DEF FindTarget, Matches, NotFound, LUNsToDelete
<1>13. CASE DeleteTarget(h)
  <2>1. CASE Answer(h, "Internal")
        BY <1>13, <2>1
  <2>2. CASE RemoveTarget(tgt[h]) /\ Goto(h, "deleteLUNs")
             /\ UNCHANGED locals
        BY <1>13, <2>2 DEF DeleteTarget, RemoveTarget, TargetsNamed, NasInv,
                           OneTargetPerVolume
  <2>3. QED  BY <1>0, <1>13, <2>1, <2>2
             DEF DeleteTarget, TargetDeleted, DeleteStorageISCSITarget
<1>14. CASE DeleteLUNs(h)
  <2>1. op[h] = "delete"
        BY <1>14 DEF DeleteLUNs, RequestInv, Busy, DeletePC
  <2>2. CASE UNCHANGED clientVars /\ Answer(h, "OK")
        BY <1>14, <2>1, <2>2 DEF DeleteLUNs, clientVars, nasVars,
                                 TargetsNamed
  <2>3. CASE Answer(h, "Internal")
        BY <1>14, <2>3
  <2>4. ASSUME NEW l \in todo[h], RemoveLUN(l),
               todo' = [todo EXCEPT ![h] = @ \ {l}],
               Goto(h, "deleteLUNs"), UNCHANGED <<tgt, lun>>
        PROVE  HandlerInv(h)'
        BY <1>14, <2>4 DEF DeleteLUNs, RemoveLUN, TargetsNamed
  <2>5. QED  BY <1>0, <1>14, <2>2, <2>3, <2>4
             DEF DeleteLUNs, DeleteStorageISCSIBlockLUN
<1>15. QED  BY <1>1, <1>2, <1>3, <1>4, <1>5, <1>6, <1>7, <1>8, <1>9, <1>10,
               <1>11, <1>12, <1>13, <1>14
            DEF HandlerStep, CreateVolume, DeleteVolume

-----------------------------------------------------------------------------
(* The serial controller: the invariant *)

LEMMA SameKeeps ==
    ASSUME UNCHANGED nasVars
    PROVE  NasInv => NasInv' /\ \A id \in Ids : Keeps(id)
BY DEF nasVars, Keeps, NasInv, OneTargetPerVolume, OneLUNPerVolume, Isolation

LEMMA SettleKeeps ==
    ASSUME TypeInv, NasInv, NEW l \in LunIdx, FinishLUN(l)
    PROVE  NasInv' /\ \A id \in Ids : Keeps(id)
BY DEF FinishLUN, Keeps, TypeInv, TypeOK, NasTypeOK, NasInv,
       OneTargetPerVolume, OneLUNPerVolume, Isolation

LEMMA SerialInit == Init => SerialInv
BY NoneAssumption
   DEF Init, NasInit, HandlerInit, SerialInv, NoOverlap, SessionInv, NasInv,
       OneTargetPerVolume, OneLUNPerVolume, Isolation, RequestInv,
       HandlerInv, VolumeInv, Busy, HoldsTarget, HoldsLUN, TargetsNamed,
       CreatePC, DeletePC

\* Only an expired session, and the restart that ends every handler, takes
\* a session away.
LEMMA SessionStep ==
    ASSUME TypeInv, SessionInv, [Next]_vars, SessionsExpire = FALSE
    PROVE  SessionInv'
<1> USE DEF SessionInv, CreatePC, DeletePC, TypeInv, TypeOK, HandlerTypeOK
<1>1. ASSUME NEW h \in Handlers, Run(h)
      PROVE  SessionInv'
  <2>1. session => session'
        BY <1>1, RunSession DEF Run, SessionTypeOK
  <2>2. \A g \in Handlers \ {h} : pc'[g] = pc[g]
        BY <1>1, RunMoves DEF Run, Moves
  <2>3. CASE LoginNAS(h)
    <3>1. \/ session'
          \/ pc' = [pc EXCEPT ![h] = "done"]
          BY <2>3 DEF LoginNAS, Login, Answer
    <3>2. QED  BY <2>1, <2>2, <3>1
  <2>4. CASE CreateVolume(h) \/ DeleteVolume(h)
    <3>1. pc[h] \in CreatePC \cup DeletePC
          BY <2>4
          DEF CreateVolume, DeleteVolume, CheckName, CreateTarget,
              CreateInitiator, CreateLUN, UndoTarget, PollLUN, AttachLUN,
              UndoAttach, UndoLUN, ReadIQN, FindTarget, DeleteTarget,
              DeleteLUNs
    <3>2. QED  BY <2>1, <2>2, <3>1
  <2>5. QED  BY <1>1, <2>3, <2>4 DEF Run, HandlerStep
<1>2. CASE \/ UNCHANGED vars
           \/ \E id \in Ids : Claim(id) \/ Release(id) \/ Timeout(id)
           \/ \E l \in LunIdx : Settle(l)
      BY <1>2 DEF vars, clientVars, handlerVars, Claim, Release, Timeout,
                  Settle
<1>3. ASSUME NEW id \in Ids, NEW h \in Handlers,
             RequestCreate(id, h) \/ RequestDelete(id, h)
      PROVE  SessionInv'
      BY <1>3 DEF RequestCreate, RequestDelete, Request, Accept, clientVars
<1>4. ASSUME NEW h \in Handlers, Deliver(h)
      PROVE  SessionInv'
      BY <1>4 DEF Deliver, Leave, clientVars
<1>5. ASSUME NEW h \in Handlers, ReadRequest(h)
      PROVE  SessionInv'
      BY <1>5 DEF ReadRequest, Login
<1>6. CASE SessionEnds \/ Crash
      BY <1>6 DEF SessionEnds, Expire, Crash, CrashHandlers
<1>7. QED  BY <1>1, <1>2, <1>3, <1>4, <1>5, <1>6 DEF Next

LEMMA SerialRun ==
    ASSUME TypeInv, SerialInv, NEW h \in Handlers, Run(h), NoOverlap',
           SessionInv'
    PROVE  SerialInv'
<1>1. HandlerStep(h) /\ UNCHANGED coVars
      BY DEF Run
<1>2. NasInv /\ RequestInv(h) /\ HandlerInv(h) /\ SessionInv
      BY DEF SerialInv
<1>3. Effect(h)
      BY <1>1, RunEffect
<1>4. Moves(h)
      BY <1>1, RunMoves DEF TypeInv, TypeOK
<1>5. NasInv'
      BY <1>2, <1>3, EffectNasInv
<1>6. HandlerInv(h)'
      BY <1>1, <1>2, RunHandlerInv DEF SessionInv
<1>7. Busy(h)
      BY <1>1, RunIsBusy
<1>8. RequestInv(h)'
      BY <1>1, <1>2, RunRequestInv DEF coVars
<1>10. ASSUME NEW g \in Handlers, g # h
       PROVE  RequestInv(g)' /\ HandlerInv(g)'
  <2>1. /\ pc'[g] = pc[g] /\ op'[g] = op[g] /\ vol'[g] = vol[g]
        /\ tgt'[g] = tgt[g] /\ lun'[g] = lun[g] /\ todo'[g] = todo[g]
        /\ reply'[g] = reply[g]
        BY <1>4, <1>10 DEF Moves, TypeInv, TypeOK, HandlerTypeOK
  <2>2. RequestInv(g) /\ HandlerInv(g)
        BY DEF SerialInv
  <2>3. RequestInv(g)'
        BY <1>1, <2>1, <2>2 DEF RequestInv, Busy, coVars
  <2>4. CASE ~Busy(g)
        BY <2>1, <2>3, <2>4 DEF Busy, HandlerInv, HoldsTarget, HoldsLUN
  <2>5. CASE Busy(g)
    <3>1. vol[g] \in Ids /\ vol[g] # vol[h]
          BY <1>7, <1>10, <2>2, <2>5
          DEF SerialInv, NoOverlap, RequestInv, Busy
    <3>2. Keeps(vol[g])
          BY <1>2, <1>3, <3>1, EffectKeeps
    <3>3. QED  BY <2>1, <2>2, <2>3, <3>1, <3>2, KeepsHandler
  <2>6. QED  BY <2>3, <2>4, <2>5
<1>11. ASSUME NEW id \in Ids
       PROVE  VolumeInv(id)'
  <2>1. phase' = phase
        BY <1>1 DEF coVars
  <2>2. CASE id = vol[h]
        BY <1>2, <1>7, <2>1, <2>2 DEF RequestInv, VolumeInv
  <2>3. CASE id # vol[h]
        BY <1>2, <1>3, <2>1, <2>3, EffectKeeps, KeepsVolume DEF SerialInv
  <2>4. QED  BY <2>2, <2>3
<1>12. QED  BY <1>5, <1>6, <1>8, <1>10, <1>11 DEF SerialInv

LEMMA SerialStep ==
    ASSUME SessionsExpire = FALSE
    PROVE  TypeInv /\ SerialInv /\ [Next /\ NoOverlap']_vars => SerialInv'
<1> SUFFICES ASSUME TypeInv, SerialInv, [Next /\ NoOverlap']_vars
             PROVE  SerialInv'
    OBVIOUS
<1>0. NoOverlap' /\ SessionInv' /\ [Next]_vars
  <2>1. UNCHANGED vars => NoOverlap'
        BY DEF SerialInv, NoOverlap, vars, handlerVars
  <2>2. QED  BY <2>1, SessionStep DEF SerialInv
<1>1. NasInv /\ (\A g \in Handlers : RequestInv(g) /\ HandlerInv(g))
      BY DEF SerialInv
<1>2. ASSUME UNCHANGED nasVars, UNCHANGED handlerVars
      PROVE  NasInv' /\ \A g \in Handlers : HandlerInv(g)'
  <2>1. ASSUME NEW g \in Handlers
        PROVE  HandlerInv(g)'
    <3>1. CASE ~Busy(g)
          BY <1>2, <3>1 DEF Busy, HandlerInv, HoldsTarget, HoldsLUN,
                            handlerVars
    <3>2. CASE Busy(g)
          BY <1>1, <1>2, <3>2, SameKeeps, KeepsHandler
          DEF handlerVars, locals, RequestInv
    <3>3. QED  BY <3>1, <3>2
  <2>2. QED  BY <1>1, <1>2, <2>1, SameKeeps
<1>3. ASSUME NEW id \in Ids, Claim(id) \/ Release(id)
      PROVE  SerialInv'
  <2>1. UNCHANGED nasVars /\ UNCHANGED handlerVars
        BY <1>3 DEF Claim, Release, clientVars
  <2>2. ASSUME NEW g \in Handlers
        PROVE  RequestInv(g)'
        BY <1>1, <1>3, <2>1
        DEF RequestInv, Busy, Claim, Release, handlerVars, TypeInv,
            TypeOK
  <2>3. ASSUME NEW v \in Ids
        PROVE  VolumeInv(v)'
    <3>1. CASE v = id
          BY <1>3, <3>1 DEF VolumeInv, Claim, Release, TypeInv, TypeOK
    <3>2. CASE v # id
          BY <1>1, <1>3, <2>1, <3>2, SameKeeps, KeepsVolume
          DEF SerialInv, Claim, Release, TypeInv, TypeOK
    <3>3. QED  BY <3>1, <3>2
  <2>4. QED  BY <1>0, <1>2, <2>1, <2>2, <2>3 DEF SerialInv
<1>4. ASSUME NEW id \in Ids, Timeout(id)
      PROVE  SerialInv'
  <2>1. UNCHANGED nasVars /\ UNCHANGED handlerVars /\ UNCHANGED phase
        BY <1>4 DEF Timeout, clientVars
  <2>2. \A g \in Handlers : RequestInv(g)'
        BY <1>1, <2>1 DEF RequestInv, Busy, handlerVars
  <2>3. \A v \in Ids : VolumeInv(v)'
        BY <1>1, <2>1, SameKeeps, KeepsVolume DEF SerialInv
  <2>4. QED  BY <1>0, <1>2, <2>1, <2>2, <2>3 DEF SerialInv
<1>5. ASSUME NEW id \in Ids, NEW h \in Handlers,
             RequestCreate(id, h) \/ RequestDelete(id, h)
      PROVE  SerialInv'
  <2> DEFINE what == op'[h]
  <2>1. /\ UNCHANGED nasVars /\ UNCHANGED phase
        /\ pc[h] = "idle" /\ pc' = [pc EXCEPT ![h] = "login"]
        /\ vol' = [vol EXCEPT ![h] = id]
        /\ op' = [op EXCEPT ![h] = what]
        /\ UNCHANGED <<locals, reply>>
        /\ \/ what = "create" /\ phase[id] = "wanted"
           \/ what = "delete" /\ phase[id] = "released"
        BY <1>5 DEF RequestCreate, RequestDelete, Request, Accept, clientVars,
                    TypeInv, TypeOK, HandlerTypeOK
  <2>2. NasInv' /\ \A v \in Ids : VolumeInv(v)'
        BY <1>1, <2>1, SameKeeps, KeepsVolume DEF SerialInv
  <2>3. RequestInv(h)' /\ HandlerInv(h)'
        BY <2>1 DEF RequestInv, HandlerInv, HoldsTarget, HoldsLUN,
                    CreatePC, DeletePC, TypeInv, TypeOK, HandlerTypeOK
  <2>4. ASSUME NEW g \in Handlers, g # h
        PROVE  RequestInv(g)' /\ HandlerInv(g)'
    <3>1. /\ pc'[g] = pc[g] /\ op'[g] = op[g] /\ vol'[g] = vol[g]
          /\ tgt'[g] = tgt[g] /\ lun'[g] = lun[g] /\ todo'[g] = todo[g]
          /\ reply'[g] = reply[g]
          BY <2>1, <2>4 DEF locals, TypeInv, TypeOK, HandlerTypeOK
    <3>2. CASE ~Busy(g)
          BY <3>1, <3>2
          DEF Busy, RequestInv, HandlerInv, HoldsTarget, HoldsLUN
    <3>3. CASE Busy(g)
      <4>1. vol[g] \in Ids /\ vol[g] # id
            BY <1>0, <1>1, <2>1, <2>4, <3>1, <3>3
            DEF NoOverlap, RequestInv, Busy, TypeInv, TypeOK, HandlerTypeOK
      <4>2. RequestInv(g)'
            BY <1>1, <2>1, <3>1, <3>3, <4>1
            DEF RequestInv, Busy, TypeInv, TypeOK
      <4>3. HandlerInv(g)'
            BY <1>1, <2>1, <3>1, <4>1, SameKeeps, KeepsHandler
      <4>4. QED  BY <4>2, <4>3
    <3>4. QED  BY <3>2, <3>3
  <2>5. QED  BY <1>0, <2>2, <2>3, <2>4 DEF SerialInv
<1>6. ASSUME NEW h \in Handlers, Run(h)
      PROVE  SerialInv'
      BY <1>0, <1>6, SerialRun
<1>7. ASSUME NEW h \in Handlers, Deliver(h)
      PROVE  SerialInv'
  <2>1. /\ pc[h] = "done" /\ UNCHANGED nasVars
        /\ pc' = [pc EXCEPT ![h] = "idle"]
        /\ op' = [op EXCEPT ![h] = "none"]
        /\ vol' = [vol EXCEPT ![h] = None]
        /\ reply' = [reply EXCEPT ![h] = "none"]
        /\ UNCHANGED locals
        BY <1>7 DEF Deliver, Leave, clientVars
  <2>2. Busy(h) /\ vol[h] \in Ids
        BY <1>1, <2>1 DEF Busy, RequestInv
  <2>3. \/ phase' = phase
        \/ /\ reply[h] = "OK"
           /\ phase' = [phase EXCEPT ![vol[h]] =
                           IF op[h] = "create" THEN "bound"
                                               ELSE "unwanted"]
        BY <1>7 DEF Deliver
  <2>4. RequestInv(h)' /\ HandlerInv(h)'
        BY <2>1 DEF RequestInv, HandlerInv, Busy, HoldsTarget,
                    HoldsLUN, TypeInv, TypeOK, HandlerTypeOK
  <2>5. ASSUME NEW g \in Handlers, g # h
        PROVE  RequestInv(g)' /\ HandlerInv(g)'
    <3>1. /\ pc'[g] = pc[g] /\ op'[g] = op[g] /\ vol'[g] = vol[g]
          /\ tgt'[g] = tgt[g] /\ lun'[g] = lun[g] /\ todo'[g] = todo[g]
          /\ reply'[g] = reply[g]
          BY <2>1, <2>5 DEF locals, TypeInv, TypeOK, HandlerTypeOK
    <3>2. CASE ~Busy(g)
          BY <3>1, <3>2
          DEF Busy, RequestInv, HandlerInv, HoldsTarget, HoldsLUN
    <3>3. CASE Busy(g)
      <4>1. vol[g] \in Ids /\ vol[g] # vol[h]
            BY <1>1, <2>2, <2>5, <3>3
            DEF SerialInv, NoOverlap, RequestInv, Busy
      <4>2. RequestInv(g)'
            BY <1>1, <2>3, <3>1, <3>3, <4>1
            DEF RequestInv, Busy, TypeInv, TypeOK
      <4>3. HandlerInv(g)'
            BY <1>1, <2>1, <3>1, <4>1, SameKeeps, KeepsHandler
      <4>4. QED  BY <4>2, <4>3
    <3>4. QED  BY <3>2, <3>3
  <2>6. ASSUME NEW v \in Ids, v # vol[h] \/ phase' = phase
        PROVE  VolumeInv(v)'
    <3>1. phase'[v] = phase[v]
          BY <2>3, <2>6 DEF TypeInv, TypeOK
    <3>2. QED  BY <1>1, <2>1, <3>1, SameKeeps, KeepsVolume DEF SerialInv
  <2>7. ASSUME NEW v \in Ids, v = vol[h], phase' # phase
        PROVE  VolumeInv(v)'
    <3>1. CASE op[h] = "create"
      <4>1. phase'[v] = "bound"
            BY <2>3, <2>7, <3>1 DEF TypeInv, TypeOK
      <4>2. Backed(v)
            BY <1>1, <2>1, <2>3, <2>7, <3>1 DEF HandlerInv
      <4>3. Backed(v)'
            BY <1>1, <2>1, <4>2, SameKeeps, KeepsBacked
      <4>4. QED  BY <4>1, <4>3 DEF VolumeInv
    <3>2. CASE op[h] = "delete"
      <4>1. phase'[v] = "unwanted"
            BY <2>3, <2>7, <3>2 DEF TypeInv, TypeOK
      <4>2. TargetsNamed(v) = {}
            BY <1>1, <2>1, <2>3, <2>7, <3>2 DEF HandlerInv
      <4>3. TargetsNamed(v)' = {}
            BY <1>1, <2>1, <4>2, SameKeeps, KeepsNamed
      <4>4. QED  BY <4>1, <4>3 DEF VolumeInv
    <3>3. QED  BY <1>1, <2>2, <3>1, <3>2 DEF RequestInv
  <2>8. \A v \in Ids : VolumeInv(v)'
        BY <2>6, <2>7
  <2>9. NasInv'
        BY <1>1, <2>1, SameKeeps
  <2>10. QED  BY <1>0, <2>4, <2>5, <2>8, <2>9 DEF SerialInv
<1>8. ASSUME NEW l \in LunIdx, Settle(l)
      PROVE  SerialInv'
  <2>1. /\ FinishLUN(l) /\ UNCHANGED handlerVars /\ UNCHANGED coVars
        BY <1>8 DEF Settle
  <2>2. NasInv' /\ \A id \in Ids : Keeps(id)
        BY <1>1, <2>1, SettleKeeps
  <2>3. ASSUME NEW g \in Handlers
        PROVE  RequestInv(g)' /\ HandlerInv(g)'
    <3>1. RequestInv(g)'
          BY <1>1, <2>1 DEF RequestInv, Busy, handlerVars, coVars
    <3>2. CASE ~Busy(g)
          BY <2>1, <3>1, <3>2 DEF Busy, HandlerInv, HoldsTarget, HoldsLUN,
                                  handlerVars
    <3>3. CASE Busy(g)
          BY <1>1, <2>1, <2>2, <3>1, <3>3, KeepsHandler
          DEF handlerVars, locals, RequestInv
    <3>4. QED  BY <3>1, <3>2, <3>3
  <2>4. \A id \in Ids : VolumeInv(id)'
        BY <2>1, <2>2, KeepsVolume DEF SerialInv, coVars
  <2>5. QED  BY <1>0, <2>2, <2>3, <2>4 DEF SerialInv
<1>9. CASE Crash
  <2>1. UNCHANGED nasVars /\ UNCHANGED phase
        /\ pc' = [h \in Handlers |-> "idle"]
        BY <1>9 DEF Crash, CrashHandlers
  <2>2. NasInv' /\ \A id \in Ids : VolumeInv(id)'
        BY <1>1, <2>1, SameKeeps, KeepsVolume DEF SerialInv
  <2>3. \A g \in Handlers : RequestInv(g)' /\ HandlerInv(g)'
        BY <2>1 DEF RequestInv, HandlerInv, Busy, HoldsTarget,
                    HoldsLUN
  <2>4. QED  BY <1>0, <2>2, <2>3 DEF SerialInv
<1>10. CASE UNCHANGED vars
  <2>1. UNCHANGED nasVars /\ UNCHANGED handlerVars /\ UNCHANGED coVars
        BY <1>10 DEF vars, clientVars
  <2>2. \A g \in Handlers : RequestInv(g)'
        BY <1>1, <2>1 DEF RequestInv, Busy, handlerVars, coVars
  <2>3. \A id \in Ids : VolumeInv(id)'
        BY <1>1, <2>1, SameKeeps, KeepsVolume DEF SerialInv, coVars
  <2>4. QED  BY <1>0, <1>2, <2>1, <2>2, <2>3 DEF SerialInv
<1>11. CASE SessionEnds \/ \E h \in Handlers : ReadRequest(h)
  <2>1. UNCHANGED nasVars /\ UNCHANGED handlerVars /\ UNCHANGED coVars
        BY <1>11 DEF SessionEnds, Expire, ReadRequest, Login
  <2>2. \A g \in Handlers : RequestInv(g)'
        BY <1>1, <2>1 DEF RequestInv, Busy, handlerVars, coVars
  <2>3. \A id \in Ids : VolumeInv(id)'
        BY <1>1, <2>1, SameKeeps, KeepsVolume DEF SerialInv, coVars
  <2>4. QED  BY <1>0, <1>2, <2>1, <2>2, <2>3 DEF SerialInv
<1>12. QED  BY <1>3, <1>4, <1>5, <1>6, <1>7, <1>8, <1>9, <1>10, <1>11
            DEF Next

-----------------------------------------------------------------------------
(* The serial controller: what follows from the invariant *)

\* Handlers that are alone with their volume are never out of date, though
\* nobody may wait for them any longer.
THEOREM SerialInvariance ==
    ASSUME SessionsExpire = FALSE
    PROVE  SerialSpec => [](TypeInv /\ SerialInv)
<1>1. Init => TypeInv /\ SerialInv
      BY TypeInit, SerialInit
<1>2. TypeInv /\ SerialInv /\ [Next /\ NoOverlap']_vars =>
          (TypeInv /\ SerialInv)'
      BY TypeStep, SerialStep
<1>3. QED  BY <1>1, <1>2, PTL DEF SerialSpec

\* A volume that was reported created has its target and its LUN.
THEOREM ReportsAreTrue ==
    ASSUME SessionsExpire = FALSE
    PROVE  SerialSpec => []BoundIsBacked
<1>1. SerialInv => BoundIsBacked
      BY DEF SerialInv, VolumeInv, BoundIsBacked
<1>2. QED  BY <1>1, SerialInvariance, PTL

\* A volume that was reported deleted has no target.
THEOREM DeletedStaysUnreachable ==
    ASSUME SessionsExpire = FALSE
    PROVE  SerialSpec => []DeletedIsUnreachable
<1>1. SerialInv => DeletedIsUnreachable
      BY DEF SerialInv, VolumeInv, DeletedIsUnreachable
<1>2. QED  BY <1>1, SerialInvariance, PTL

\* The name that CreateVolume looked for is free when it creates the target,
\* so no two targets have one name.
THEOREM NamesStayUnique ==
    ASSUME SessionsExpire = FALSE
    PROVE  SerialSpec => []OneTargetPerVolume
<1>1. SerialInv => OneTargetPerVolume
      BY DEF SerialInv, NasInv
<1>2. QED  BY <1>1, SerialInvariance, PTL

\* No target ever lists a LUN of another volume.
THEOREM VolumesAreIsolated ==
    ASSUME SessionsExpire = FALSE
    PROVE  SerialSpec => []Isolation
<1>1. SerialInv => Isolation
      BY DEF SerialInv, NasInv
<1>2. QED  BY <1>1, SerialInvariance, PTL

\* Only the handlers and the NAS itself change what the NAS has.
LEMMA NasSteps ==
    ASSUME [Next]_vars
    PROVE  \/ UNCHANGED nasVars
           \/ \E l \in LunIdx : Settle(l)
           \/ \E h \in Handlers : Run(h)
BY DEF Next, vars, clientVars, Claim, Release, Timeout, RequestCreate,
       RequestDelete, Request, Deliver, Crash, CrashHandlers, ReadRequest,
       Login, FailedCall, SessionEnds, Expire

\* Every step keeps every volume but the one of the handler that takes it.
LEMMA StepKeeps ==
    ASSUME TypeInv, SerialInv, [Next]_vars, NEW id \in Ids
    PROVE  Keeps(id) \/ \E h \in Handlers : Run(h) /\ vol[h] = id
<1>1. NasInv /\ \A h \in Handlers : HandlerInv(h)
      BY DEF SerialInv
<1>2. CASE UNCHANGED nasVars
      BY <1>1, <1>2, SameKeeps
<1>3. ASSUME NEW l \in LunIdx, Settle(l)
      PROVE  Keeps(id)
      BY <1>1, <1>3, SettleKeeps DEF Settle
<1>4. ASSUME NEW h \in Handlers, Run(h), vol[h] # id
      PROVE  Keeps(id)
      BY <1>1, <1>4, RunEffect, EffectKeeps DEF Run
<1>5. QED  BY <1>2, <1>3, <1>4, NasSteps

LEMMA SameStorage ==
    ASSUME NEW id \in Ids, Keeps(id),
           \A l \in LunsNamed(id) : lunStatus'[l] = lunStatus[l]
    PROVE  Storage(id)' = Storage(id)
<1>1. /\ TargetsNamed(id)' = TargetsNamed(id)
      /\ LunsNamed(id)' = LunsNamed(id)
      BY DEF Keeps, TargetsNamed, LunsNamed
<1>2. \A t \in TargetsNamed(id) :
          targetLUNs'[t] = targetLUNs[t]
          /\ (t \in initiators') = (t \in initiators)
      BY DEF Keeps, TargetsNamed
<1>3. {<<t, targetLUNs[t], t \in initiators>> : t \in TargetsNamed(id)}'
      = {<<t, targetLUNs[t], t \in initiators>> : t \in TargetsNamed(id)}
      BY <1>1, <1>2
<1>4. {<<l, lunStatus[l]>> : l \in LunsNamed(id)}'
      = {<<l, lunStatus[l]>> : l \in LunsNamed(id)}
      BY <1>1
<1>5. QED  BY <1>3, <1>4 DEF Storage

LEMMA KeepsStorage ==
    ASSUME NasInv, NEW id \in Ids, Backed(id), Keeps(id)
    PROVE  Storage(id)' = Storage(id)
<1>1. \A l \in LunsNamed(id) : lunStatus[l] # "creating"
      BY NoneAssumption
      DEF NasInv, OneLUNPerVolume, Backed, LunsNamed
<1>2. \A l \in LunsNamed(id) : lunStatus'[l] = lunStatus[l]
      BY <1>1 DEF Keeps, LunsNamed
<1>3. QED  BY <1>2, SameStorage

LEMMA EffectKeepsStatus ==
    ASSUME TypeInv, NEW h \in Handlers, OwnIndexes(h), Effect(h),
           NEW id \in Ids, id # vol[h], NEW l \in LunsNamed(id)
    PROVE  lunStatus'[l] = lunStatus[l]
<1> USE NoneAssumption DEF TypeInv, TypeOK, NasTypeOK, LunsNamed
<1>1. CASE UNCHANGED nasVars
      BY <1>1 DEF nasVars
<1>2. CASE \/ \E t \in TargetIdx : AddTarget(vol[h], t)
           \/ AddInitiator(tgt[h]) \/ RemoveTarget(tgt[h])
           \/ MapLUN(lun[h], tgt[h])
      BY <1>2 DEF AddTarget, AddInitiator, RemoveTarget, MapLUN
<1>3. CASE \E k \in LunIdx : AddLUN(vol[h], k)
      BY <1>3 DEF AddLUN
<1>4. ASSUME NEW k, RemoveLUN(k), k # l
      PROVE  lunStatus'[l] = lunStatus[l]
      BY <1>4 DEF RemoveLUN
<1>5. CASE pc[h] = "undoLUN" /\ RemoveLUN(lun[h])
  <2>1. lun[h] # l
        BY <1>5 DEF OwnIndexes, HoldsLUN
  <2>2. QED  BY <1>4, <1>5, <2>1
<1>6. CASE pc[h] = "deleteLUNs" /\ \E k \in todo[h] : RemoveLUN(k)
  <2>1. l \notin todo[h]
        BY <1>6 DEF OwnIndexes
  <2>2. QED  BY <1>4, <1>6, <2>1
<1>7. QED  BY <1>1, <1>2, <1>3, <1>5, <1>6 DEF Effect

LEMMA EffectKeepsStorage ==
    ASSUME TypeInv, NasInv, NEW h \in Handlers, OwnIndexes(h), Effect(h),
           NEW id \in Ids, id # vol[h]
    PROVE  Storage(id)' = Storage(id)
<1>1. Keeps(id)
      BY OwnKeeps
<1>2. \A l \in LunsNamed(id) : lunStatus'[l] = lunStatus[l]
      BY EffectKeepsStatus
<1>3. QED  BY <1>1, <1>2, SameStorage

\* No handler touches the storage of another volume.
THEOREM SerialKeepsToItsOwn ==
    ASSUME SessionsExpire = FALSE
    PROVE  SerialSpec => KeepsToItsOwn
<1>1. ASSUME TypeInv, SerialInv, NEW h \in Handlers, Run(h),
             NEW id \in Ids, id # vol[h]
      PROVE  Storage(id)' = Storage(id)
  <2>1. Effect(h) /\ OwnIndexes(h) /\ NasInv
        BY <1>1, RunEffect, HandlerOwns DEF Run, SerialInv
  <2>2. QED  BY <1>1, <2>1, EffectKeepsStorage
<1>2. TypeInv /\ SerialInv /\ [Next]_vars =>
          [\A h \in Handlers, id \in Ids :
              Run(h) /\ id # vol[h] => Storage(id)' = Storage(id)]_vars
      BY <1>1
<1>3. QED  BY <1>2, SerialInvariance, PTL DEF SerialSpec, KeepsToItsOwn

\* Nothing touches the storage of a volume that is in use.
THEOREM BoundStaysUntouched ==
    ASSUME SessionsExpire = FALSE
    PROVE  SerialSpec => BoundUntouched
<1>1. ASSUME TypeInv, SerialInv, [Next]_vars, NEW id \in Ids,
             phase[id] = "bound"
      PROVE  Storage(id)' = Storage(id)
  <2>1. \A h \in Handlers : Run(h) => vol[h] # id
    <3>1. ASSUME NEW h \in Handlers, Run(h), vol[h] = id
          PROVE  FALSE
      <4>1. Busy(h)
            BY <3>1, RunIsBusy DEF Run
      <4>2. QED  BY <1>1, <3>1, <4>1 DEF SerialInv, RequestInv
    <3>2. QED  BY <3>1
  <2>2. Keeps(id)
        BY <1>1, <2>1, StepKeeps
  <2>3. NasInv /\ Backed(id)
        BY <1>1 DEF SerialInv, VolumeInv
  <2>4. QED  BY <2>2, <2>3, KeepsStorage
<1>2. TypeInv /\ SerialInv /\ [Next]_vars =>
          [\A id \in Ids :
              phase[id] = "bound" => Storage(id)' = Storage(id)]_vars
      BY <1>1
<1>3. QED  BY <1>2, SerialInvariance, PTL DEF SerialSpec, BoundUntouched

-----------------------------------------------------------------------------
(* Who is serial *)

\* Only an answer that is no longer awaited leaves a handler on its own.
LEMMA WaitStep ==
    ASSUME MaxTimeouts = 0
    PROVE  TypeInv /\ WaitInv /\ [Next]_vars => WaitInv'
<1> SUFFICES ASSUME TypeInv, WaitInv, [Next]_vars
             PROVE  WaitInv'
    OBVIOUS
<1> USE DEF WaitInv, Busy, TypeInv, TypeOK, HandlerTypeOK
<1>1. ASSUME UNCHANGED handlerVars, UNCHANGED call
      PROVE  WaitInv'
      BY <1>1 DEF handlerVars
<1>2. ASSUME NEW id \in Ids, Timeout(id)
      PROVE  FALSE
      BY <1>2 DEF Timeout
<1>3. ASSUME NEW id \in Ids, NEW h \in Handlers,
             RequestCreate(id, h) \/ RequestDelete(id, h)
      PROVE  WaitInv'
  <2>1. /\ call[id] = None /\ call' = [call EXCEPT ![id] = h]
        /\ pc' = [pc EXCEPT ![h] = "login"]
        /\ vol' = [vol EXCEPT ![h] = id]
        BY <1>3 DEF RequestCreate, RequestDelete, Request, Accept
  <2>2. \A g \in Handlers : Busy(g) => vol[g] # id
        BY <2>1, HandlersAssumption
  <2>3. QED  BY <2>1, <2>2
<1>4. ASSUME NEW h \in Handlers, Run(h)
      PROVE  WaitInv'
  <2>1. Busy(h) /\ Moves(h) /\ UNCHANGED call
        BY <1>4, RunIsBusy, RunMoves DEF Run, coVars
  <2>2. QED  BY <2>1 DEF Moves
<1>5. ASSUME NEW h \in Handlers, Deliver(h)
      PROVE  WaitInv'
  <2>1. /\ pc[h] = "done" /\ pc' = [pc EXCEPT ![h] = "idle"]
        /\ vol' = [vol EXCEPT ![h] = None]
        BY <1>5 DEF Deliver, Leave
  <2>2. call' = [call EXCEPT ![vol[h]] = None]
        BY <1>5, <2>1 DEF Deliver
  <2>3. QED  BY <2>1, <2>2
<1>6. CASE Crash
      BY <1>6 DEF Crash, CrashHandlers
<1>7. CASE \/ UNCHANGED vars \/ SessionEnds
           \/ \E id \in Ids : Claim(id) \/ Release(id)
           \/ \E h \in Handlers : ReadRequest(h)
           \/ \E l \in LunIdx : Settle(l)
      BY <1>1, <1>7 DEF vars, coVars, SessionEnds, Claim, Release,
                        ReadRequest, Settle
<1>8. QED  BY <1>2, <1>3, <1>4, <1>5, <1>6, <1>7 DEF Next

\* An orchestrator that waits for every answer keeps the controller serial:
\* it sends the next call for a volume after the last one has ended.
THEOREM PatientIsSerial ==
    ASSUME MaxTimeouts = 0
    PROVE  Spec => SerialSpec
<1>1. Init => TypeInv /\ WaitInv
      BY TypeInit DEF Init, HandlerInit, WaitInv, Busy
<1>2. TypeInv /\ WaitInv /\ [Next]_vars => (TypeInv /\ WaitInv)'
      BY TypeStep, WaitStep
<1>3. WaitInv => NoOverlap
      BY DEF WaitInv, NoOverlap, Busy
<1>4. WaitInv' => NoOverlap'
      BY <1>3, PTL
<1>5. [Next]_vars /\ WaitInv' => [Next /\ NoOverlap']_vars
      BY <1>4
<1>6. QED  BY <1>1, <1>2, <1>5, PTL DEF Spec, SerialSpec

-----------------------------------------------------------------------------
(* The serial controller implements VolumeService *)

LEMMA KeepsLive ==
    ASSUME NEW id \in Ids, Keeps(id)
    PROVE  id \in Live' <=> id \in Live
BY DEF Keeps, Live, TargetsNamed

\* Storage appears only while the volume is being created.
LEMMA DeleteAddsNothing ==
    ASSUME TypeInv, NEW h \in Handlers, RequestInv(h), Busy(h), Effect(h),
           op[h] = "delete"
    PROVE  Live' \subseteq Live
<1> USE DEF TypeInv, TypeOK, NasTypeOK, Live, TargetsNamed
<1>1. CASE UNCHANGED nasVars
      BY <1>1 DEF nasVars
<1>2. CASE RemoveTarget(tgt[h])
      BY <1>2, NoneAssumption DEF RemoveTarget
<1>3. ASSUME NEW l, RemoveLUN(l)
      PROVE  Live' \subseteq Live
      BY <1>3 DEF RemoveLUN
<1>4. QED  BY <1>1, <1>2, <1>3 DEF Effect, RequestInv, CreatePC

LEMMA RunImplements ==
    ASSUME TypeInv, NEW h \in Handlers, RequestInv(h), Run(h),
           \A id \in Ids \ {vol[h]} : Keeps(id)
    PROVE  [Service!Next]_<<phase, Live>>
<1> DEFINE v == vol[h]
<1>2. Effect(h) /\ phase' = phase
      BY RunEffect DEF Run, coVars
<1>3. Busy(h)
      BY RunIsBusy DEF Run
<1>4. v \in Ids
      BY <1>3 DEF RequestInv
<1>5. \A id \in Ids \ {v} : id \in Live' <=> id \in Live
      BY KeepsLive
<1>6. CASE v \in Live' <=> v \in Live
      BY <1>2, <1>5, <1>6 DEF Live
<1>7. CASE v \in Live' /\ v \notin Live
  <2>1. op[h] = "create"
        BY <1>2, <1>3, <1>7, DeleteAddsNothing DEF RequestInv
  <2>2. phase[v] = "wanted"
        BY <1>3, <2>1 DEF RequestInv
  <2>3. Live' = Live \cup {v}
        BY <1>5, <1>7 DEF Live
  <2>4. Service!Provision(v)
        BY <1>2, <2>2, <2>3 DEF Service!Provision
  <2>5. QED  BY <1>4, <2>4 DEF Service!Next
<1>8. CASE v \notin Live' /\ v \in Live
  <2>1. phase[v] \in {"wanted", "released"}
        BY <1>3 DEF RequestInv
  <2>2. Live' = Live \ {v}
        BY <1>5, <1>8 DEF Live
  <2>3. Service!Unprovision(v)
        BY <1>2, <2>1, <2>2 DEF Service!Unprovision
  <2>4. QED  BY <1>4, <2>3 DEF Service!Next
<1>9. QED  BY <1>6, <1>7, <1>8

LEMMA DeliverImplements ==
    ASSUME TypeInv, NEW h \in Handlers, RequestInv(h), Deliver(h),
           reply[h] = "OK" /\ op[h] = "create" => Backed(vol[h]),
           reply[h] = "OK" /\ op[h] = "delete" => TargetsNamed(vol[h]) = {}
    PROVE  [Service!Next]_<<phase, Live>>
<1> DEFINE v == vol[h]
<1>2. pc[h] = "done" /\ UNCHANGED nasVars
      BY DEF Deliver, Leave, clientVars
<1>3. /\ v \in Ids
      /\ \/ op[h] = "create" /\ phase[v] = "wanted"
         \/ op[h] = "delete" /\ phase[v] = "released"
      BY <1>2 DEF RequestInv, Busy
<1>4. UNCHANGED Live
      BY <1>2 DEF nasVars, Live, TargetsNamed
<1>5. CASE reply[h] # "OK" \/ call[v] # h
      BY <1>4, <1>5 DEF Deliver
<1>6. CASE reply[h] = "OK" /\ call[v] = h /\ op[h] = "create"
  <2>1. phase' = [phase EXCEPT ![v] = "bound"]
        BY <1>3, <1>6 DEF Deliver
  <2>2. Backed(v)
        BY <1>6
  <2>3. v \in Live
        BY <1>3, <2>2 DEF Backed, Live
  <2>4. Service!Bind(v)
        BY <1>3, <1>4, <1>6, <2>1, <2>3 DEF Service!Bind, Service!Move
  <2>5. QED  BY <1>3, <2>4 DEF Service!Next
<1>7. CASE reply[h] = "OK" /\ call[v] = h /\ op[h] = "delete"
  <2>1. phase' = [phase EXCEPT ![v] = "unwanted"]
        BY <1>3, <1>7 DEF Deliver
  <2>2. v \notin Live
        BY <1>7 DEF Live
  <2>3. Service!Forget(v)
        BY <1>3, <1>4, <1>7, <2>1, <2>2 DEF Service!Forget, Service!Move
  <2>4. QED  BY <1>3, <2>3 DEF Service!Next
<1>8. QED  BY <1>3, <1>5, <1>6, <1>7

LEMMA InitImplements == Init => Service!Init
BY DEF Init, NasInit, Live, TargetsNamed, Service!Init

LEMMA StepImplements ==
    ASSUME [Next]_vars,
           \A h \in Handlers :
               Run(h) \/ Deliver(h) => [Service!Next]_<<phase, Live>>
    PROVE  [Service!Next]_<<phase, Live>>
<1>1. UNCHANGED nasVars => UNCHANGED Live
      BY DEF nasVars, Live, TargetsNamed
<1>2. ASSUME NEW id \in Ids, Claim(id)
      PROVE  [Service!Next]_<<phase, Live>>
  <2>1. Service!Want(id)
        BY <1>1, <1>2 DEF Claim, clientVars, Service!Want, Service!Move
  <2>2. QED  BY <2>1 DEF Service!Next
<1>3. ASSUME NEW id \in Ids, Release(id)
      PROVE  [Service!Next]_<<phase, Live>>
  <2>1. Service!Release(id)
        BY <1>1, <1>3 DEF Release, clientVars, Service!Release, Service!Move
  <2>2. QED  BY <2>1 DEF Service!Next
<1>4. ASSUME NEW id \in Ids, Timeout(id)
      PROVE  [Service!Next]_<<phase, Live>>
      BY <1>1, <1>4 DEF Timeout, clientVars
<1>5. ASSUME NEW id \in Ids, NEW h \in Handlers,
             RequestCreate(id, h) \/ RequestDelete(id, h)
      PROVE  [Service!Next]_<<phase, Live>>
      BY <1>1, <1>5 DEF RequestCreate, RequestDelete, Request, clientVars
<1>6. ASSUME NEW l \in LunIdx, Settle(l)
      PROVE  [Service!Next]_<<phase, Live>>
      BY <1>6 DEF Settle, FinishLUN, coVars, Live, TargetsNamed
<1>7. CASE Crash
      BY <1>1, <1>7 DEF Crash, CrashHandlers
<1>8. CASE UNCHANGED vars
      BY <1>1, <1>8 DEF vars, clientVars, coVars
<1>9. CASE SessionEnds \/ \E h \in Handlers : ReadRequest(h)
      BY <1>1, <1>9 DEF SessionEnds, Expire, ReadRequest, Login, coVars
<1>10. QED  BY <1>2, <1>3, <1>4, <1>5, <1>6, <1>7, <1>8, <1>9 DEF Next

\* With one handler per volume at a time, failures, restarts and answers
\* that get lost included, the controller is a VolumeService.
THEOREM SerialRefinement ==
    ASSUME SessionsExpire = FALSE
    PROVE  SerialSpec => Implements
<1>1. ASSUME TypeInv, SerialInv, [Next]_vars
      PROVE  [Service!Next]_<<phase, Live>>
  <2>1. \A h \in Handlers : RequestInv(h) /\ HandlerInv(h)
        BY <1>1 DEF SerialInv
  <2>2. ASSUME NEW h \in Handlers, Run(h)
        PROVE  [Service!Next]_<<phase, Live>>
    <3>1. \A id \in Ids \ {vol[h]} : Keeps(id)
          BY <1>1, <2>1, <2>2, RunEffect, EffectKeeps DEF SerialInv, Run
    <3>2. QED  BY <1>1, <2>1, <2>2, <3>1, RunImplements
  <2>3. ASSUME NEW h \in Handlers, Deliver(h)
        PROVE  [Service!Next]_<<phase, Live>>
    <3>1. pc[h] = "done"
          BY <2>3 DEF Deliver, Leave
    <3>2. QED  BY <1>1, <2>1, <2>3, <3>1, DeliverImplements DEF HandlerInv
  <2>4. QED  BY <1>1, <2>2, <2>3, StepImplements
<1>2. TypeInv /\ SerialInv /\ [Next]_vars =>
          [Service!Next]_Service!serviceVars
      BY <1>1 DEF Service!serviceVars
<1>3. QED  BY <1>2, InitImplements, SerialInvariance, PTL
           DEF SerialSpec, Implements, Service!Spec
=============================================================================
