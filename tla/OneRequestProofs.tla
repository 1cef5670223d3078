-------------------------- MODULE OneRequestProofs --------------------------
(***************************************************************************)
(* Proofs about a controller that serves one request at a time, whatever   *)
(* fails: the NAS may end its session, and calls may be given up.  The     *)
(* client looks at no authPassed but that of Login, so without a session   *)
(* it takes refusals for successes (index 0, "ok"); the theorems say what  *)
(* holds all the same.                                                     *)
(***************************************************************************)
EXTENDS ProvisioningProofs

OneHandler == \A g, h \in Handlers : g = h

\* Without a session the NAS does nothing a handler asks for.
LEMMA RefusedRun ==
    ASSUME NEW h \in Handlers, HandlerStep(h), ~session
    PROVE  /\ UNCHANGED nasVars
           /\ pc[h] = "login" \/ session' = session
<1> USE DEF Denied, Served, FailedCall, clientVars
<1>1. CASE LoginNAS(h)
      BY <1>1 DEF LoginNAS, Login
<1>2. CASE CheckName(h) \/ ReadIQN(h) \/ FindTarget(h)
      BY <1>2 DEF CheckName, ReadIQN, FindTarget, GetStorageISCSITargetList
<1>3. CASE CreateTarget(h) \/ CreateInitiator(h) \/ CreateLUN(h)
      BY <1>3
      DEF CreateTarget, CreateInitiator, CreateLUN, CreateStorageISCSITarget,
          CreateStorageISCSIInitiator, CreateStorageISCSIBlockLUN
<1>4. CASE PollLUN(h) \/ AttachLUN(h)
      BY <1>4
      DEF PollLUN, AttachLUN, GetStorageISCSILun, AttachStorageISCSITargetLUN
<1>5. CASE UndoTarget(h) \/ UndoAttach(h) \/ DeleteTarget(h)
      BY <1>5
      DEF UndoTarget, UndoAttach, DeleteTarget, DeleteStorageISCSITarget
<1>6. CASE UndoLUN(h) \/ DeleteLUNs(h)
      BY <1>6 DEF UndoLUN, DeleteLUNs, DeleteStorageISCSIBlockLUN
<1>7. QED  BY <1>1, <1>2, <1>3, <1>4, <1>5, <1>6
           DEF HandlerStep, CreateVolume, DeleteVolume

\* CreateVolume asks the NAS once more before it answers OK, and checks that
\* answer: without a session it does not.
LEMMA RefusedCreate ==
    ASSUME TypeInv, NEW h \in Handlers, CreateVolume(h), ~session,
           pc'[h] = "done"
    PROVE  reply'[h] # "OK"
<1> USE DEF TypeInv, TypeOK, HandlerTypeOK, Proceed, Goto, Answer
<1>1. CASE CheckName(h) \/ CreateTarget(h) \/ UndoTarget(h) \/ PollLUN(h)
           \/ UndoLUN(h)
      BY <1>1 DEF CheckName, CreateTarget, UndoTarget, PollLUN, UndoLUN
<1>2. CASE CreateInitiator(h) \/ CreateLUN(h) \/ AttachLUN(h)
           \/ UndoAttach(h)
      BY <1>2 DEF CreateInitiator, CreateLUN, AttachLUN, AfterAttach,
                  UndoAttach
<1>3. CASE ReadIQN(h)
      BY <1>3, ErrAssumption
      DEF ReadIQN, GetStorageISCSITargetList, Served
<1>4. QED  BY <1>1, <1>2, <1>3 DEF CreateVolume

LEMMA IdleInv ==
    ASSUME NEW g \in Handlers, ~Busy(g)
    PROVE  RequestInv(g) /\ HandlerInv(g)
BY DEF Busy, RequestInv, HandlerInv, HoldsTarget, HoldsLUN

LEMMA OneRequestInit == Init => OneRequestInv
<1> SUFFICES ASSUME Init
             PROVE  OneRequestInv
    OBVIOUS
<1>1. NasInv
      BY NoneAssumption DEF Init, NasInit, NasInv, OneTargetPerVolume,
                            OneLUNPerVolume, Isolation
<1>2. \A h \in Handlers : pc[h] = "idle"
      BY DEF Init, HandlerInit
<1>3. \A h \in Handlers : RequestInv(h) /\ HandlerInv(h)
      BY <1>2, IdleInv DEF Busy
<1>4. QED  BY <1>1, <1>2, <1>3 DEF OneRequestInv, Init

-----------------------------------------------------------------------------
(* Steps *)

\* A step of the only handler keeps the volumes it does not work on.
LEMMA OneRunKeeps ==
    ASSUME TypeInv, OneRequestInv, NEW h \in Handlers, HandlerStep(h),
           NEW id \in Ids, id # vol[h]
    PROVE  Keeps(id)
<1>1. CASE session
  <2>1. HandlerInv(h) /\ NasInv
        BY <1>1 DEF OneRequestInv
  <2>2. QED  BY <2>1, RunEffect, EffectKeeps
<1>2. CASE ~session
      BY <1>2, RefusedRun, SameKeeps DEF OneRequestInv
<1>3. QED  BY <1>1, <1>2

LEMMA OneRun ==
    ASSUME OneHandler, TypeInv, OneRequestInv, NEW h \in Handlers, Run(h)
    PROVE  OneRequestInv'
<1>1. HandlerStep(h) /\ UNCHANGED coVars /\ Busy(h)
      BY RunIsBusy DEF Run
<1>2. NasInv /\ RequestInv(h) /\ (session => HandlerInv(h))
      BY DEF OneRequestInv
<1>3. RequestInv(h)'
      BY <1>1, <1>2, RunRequestInv DEF coVars
<1>4. Moves(h)
      BY <1>1, RunMoves DEF TypeInv, TypeOK
<1>5. ASSUME NEW id \in Ids, phase'[id] = "bound"
      PROVE  Backed(id)'
  <2>1. phase[id] = "bound" /\ id # vol[h]
        BY <1>1, <1>2, <1>5 DEF coVars, RequestInv
  <2>2. Backed(id)
        BY <2>1 DEF OneRequestInv
  <2>3. QED  BY <1>1, <2>1, <2>2, OneRunKeeps, KeepsBacked
<1>6. ASSUME NasInv', (session => HandlerInv(h))',
             (pc[h] = "done" /\ reply[h] = "OK" /\ op[h] = "create" =>
                 Backed(vol[h]))'
      PROVE  OneRequestInv'
      BY <1>3, <1>5, <1>6 DEF OneHandler, OneRequestInv
<1>7. CASE session
  <2>1. HandlerInv(h)'
        BY <1>1, <1>2, <1>7, RunHandlerInv
  <2>2. NasInv'
        BY <1>1, <1>2, <1>7, RunEffect, EffectNasInv
  <2>3. QED  BY <1>6, <2>1, <2>2 DEF HandlerInv
<1>8. CASE ~session /\ pc[h] = "login"
  <2>1. LoginNAS(h) /\ UNCHANGED nasVars
        BY <1>1, <1>8, RefusedRun
        DEF HandlerStep, CreateVolume, DeleteVolume, CheckName, CreateTarget,
            CreateInitiator, CreateLUN, UndoTarget, PollLUN, AttachLUN,
            UndoAttach, UndoLUN, ReadIQN, FindTarget, DeleteTarget,
            DeleteLUNs
  <2>2. \/ pc'[h] \in {"checkName", "findTarget"}
        \/ pc'[h] = "done" /\ reply'[h] = "Internal"
        BY <2>1 DEF LoginNAS, Proceed, Goto, Answer, TypeInv, TypeOK,
                    HandlerTypeOK
  <2>3. HandlerInv(h)'
        BY <2>2 DEF HandlerInv, HoldsTarget, HoldsLUN
  <2>4. NasInv'
        BY <1>2, <2>1, SameKeeps
  <2>5. QED  BY <1>6, <2>2, <2>3, <2>4
<1>9. CASE ~session /\ pc[h] # "login"
  <2>1. UNCHANGED nasVars /\ ~session'
        BY <1>1, <1>9, RefusedRun
  <2>2. NasInv'
        BY <1>2, <2>1, SameKeeps
  <2>3. ASSUME pc'[h] = "done", op'[h] = "create"
        PROVE  reply'[h] # "OK"
    <3>1. op[h] = "create"
          BY <1>4, <2>3 DEF Moves
    <3>2. CreateVolume(h)
          BY <1>1, <1>2, <1>9, <3>1
          DEF HandlerStep, LoginNAS, DeleteVolume, FindTarget, DeleteTarget,
              DeleteLUNs, RequestInv, DeletePC
    <3>3. QED  BY <1>9, <2>3, <3>2, RefusedCreate
  <2>4. QED  BY <1>6, <2>1, <2>2, <2>3
<1>10. QED  BY <1>7, <1>8, <1>9


\* Steps that change nothing a handler at work relies on.
LEMMA OneRequestKept ==
    ASSUME TypeInv, OneRequestInv, UNCHANGED handlerVars,
           NasInv', \A id \in Ids : Keeps(id),
           (session' => session) \/ \A h \in Handlers : ~Busy(h),
           \A h \in Handlers : RequestInv(h)',
           \A id \in Ids : phase'[id] = "bound" => phase[id] = "bound"
    PROVE  OneRequestInv'
<1>1. ASSUME NEW h \in Handlers
      PROVE  /\ session' => HandlerInv(h)'
             /\ pc'[h] = "done" /\ reply'[h] = "OK" /\ op'[h] = "create" =>
                   Backed(vol[h])'
  <2>1. CASE ~Busy(h)
    <3>1. pc'[h] = "idle"
          BY <2>1 DEF Busy, handlerVars
    <3>2. QED  BY <3>1 DEF HandlerInv, HoldsTarget, HoldsLUN
  <2>2. CASE Busy(h)
    <3>1. vol[h] \in Ids /\ Keeps(vol[h])
          BY <2>2 DEF OneRequestInv, RequestInv
    <3>2. session' => HandlerInv(h)
          BY <2>2 DEF OneRequestInv
    <3>3. HandlerInv(h) => HandlerInv(h)'
          BY <3>1, KeepsHandler DEF handlerVars
    <3>4. Backed(vol[h]) => Backed(vol[h])'
          BY <3>1, KeepsBacked
          DEF handlerVars, Backed, TargetsNamed, LunsNamed
    <3>5. QED  BY <3>2, <3>3, <3>4 DEF OneRequestInv, handlerVars
  <2>3. QED  BY <2>1, <2>2
<1>2. \A id \in Ids : phase'[id] = "bound" => Backed(id)'
      BY KeepsBacked DEF OneRequestInv
<1>3. QED  BY <1>1, <1>2 DEF OneRequestInv, handlerVars

LEMMA OneRequestStep ==
    ASSUME OneHandler
    PROVE  TypeInv /\ OneRequestInv /\ [Next]_vars => OneRequestInv'
<1> SUFFICES ASSUME TypeInv, OneRequestInv, [Next]_vars
             PROVE  OneRequestInv'
    OBVIOUS
<1> USE DEF TypeInv, TypeOK, HandlerTypeOK
<1>1. NasInv /\ \A h \in Handlers : RequestInv(h)
      BY DEF OneRequestInv
<1>2. UNCHANGED nasVars => NasInv' /\ \A id \in Ids : Keeps(id)
      BY <1>1, SameKeeps
<1>3. ASSUME NEW id \in Ids, Claim(id) \/ Release(id)
      PROVE  OneRequestInv'
  <2>1. UNCHANGED handlerVars /\ UNCHANGED nasVars /\ session' = session
        BY <1>3 DEF Claim, Release, clientVars
  <2>2. \A h \in Handlers : RequestInv(h)'
        BY <1>1, <1>3, <2>1 DEF RequestInv, Busy, Claim, Release, handlerVars
  <2>3. \A v \in Ids : phase'[v] = "bound" => phase[v] = "bound"
        BY <1>3 DEF Claim, Release
  <2>4. QED  BY <1>2, <2>1, <2>2, <2>3, OneRequestKept
<1>4. CASE \/ UNCHANGED vars \/ SessionEnds
           \/ \E id \in Ids : Timeout(id)
           \/ \E h \in Handlers : ReadRequest(h)
           \/ \E l \in LunIdx : Settle(l)
  <2>1. UNCHANGED handlerVars /\ UNCHANGED phase
        BY <1>4 DEF vars, SessionEnds, Timeout, ReadRequest, Settle, coVars
  <2>2. (session' => session) \/ \A h \in Handlers : ~Busy(h)
        BY <1>4 DEF OneHandler, vars, clientVars, SessionEnds, Expire,
                    Timeout, ReadRequest, Settle, Busy
  <2>3. NasInv' /\ \A id \in Ids : Keeps(id)
    <3>1. CASE UNCHANGED nasVars
          BY <1>2, <3>1
    <3>2. ASSUME NEW l \in LunIdx, Settle(l)
          PROVE  NasInv' /\ \A id \in Ids : Keeps(id)
          BY <1>1, <3>2, SettleKeeps DEF Settle
    <3>3. QED  BY <1>4, <3>1, <3>2
               DEF vars, clientVars, SessionEnds, Expire, Timeout,
                   ReadRequest, Login, FailedCall
  <2>4. \A h \in Handlers : RequestInv(h)'
        BY <1>1, <2>1 DEF RequestInv, Busy, handlerVars
  <2>5. QED  BY <2>1, <2>2, <2>3, <2>4, OneRequestKept
<1>5. ASSUME NEW id \in Ids, NEW h \in Handlers,
             RequestCreate(id, h) \/ RequestDelete(id, h)
      PROVE  OneRequestInv'
  <2>1. /\ UNCHANGED nasVars /\ UNCHANGED phase
        /\ pc'[h] = "login" /\ vol'[h] = id
        /\ \/ op'[h] = "create" /\ phase[id] = "wanted"
           \/ op'[h] = "delete" /\ phase[id] = "released"
        BY <1>5 DEF RequestCreate, RequestDelete, Request, Accept, clientVars
  <2>2. RequestInv(h)' /\ HandlerInv(h)'
        BY <2>1 DEF RequestInv, HandlerInv, HoldsTarget, HoldsLUN, CreatePC,
                    DeletePC
  <2>3. \A v \in Ids : phase'[v] = "bound" => Backed(v)'
        BY <1>2, <2>1, KeepsBacked DEF OneRequestInv
  <2>4. \A g \in Handlers : g = h
        BY DEF OneHandler
  <2>5. QED  BY <1>2, <2>1, <2>2, <2>3, <2>4 DEF OneRequestInv
<1>6. ASSUME NEW h \in Handlers, Run(h)
      PROVE  OneRequestInv'
      BY <1>6, OneRun
<1>7. ASSUME NEW h \in Handlers, Deliver(h)
      PROVE  OneRequestInv'
  <2>1. pc[h] = "done" /\ pc'[h] = "idle" /\ UNCHANGED nasVars
        BY <1>7 DEF Deliver, Leave, clientVars
  <2>2. RequestInv(h)' /\ HandlerInv(h)'
        BY <2>1 DEF RequestInv, HandlerInv, Busy, HoldsTarget, HoldsLUN
  <2>3. ASSUME NEW v \in Ids, phase'[v] = "bound"
        PROVE  Backed(v)
    <3>1. CASE phase[v] = "bound"
          BY <3>1 DEF OneRequestInv
    <3>2. CASE phase[v] # "bound"
      <4>1. v = vol[h] /\ reply[h] = "OK" /\ op[h] = "create"
            BY <1>7, <2>3, <3>2 DEF Deliver
      <4>2. QED  BY <2>1, <4>1 DEF OneRequestInv
    <3>3. QED  BY <3>1, <3>2
  <2>4. \A v \in Ids : phase'[v] = "bound" => Backed(v)'
        BY <1>2, <2>1, <2>3, KeepsBacked
  <2>5. \A g \in Handlers : g = h
        BY DEF OneHandler
  <2>6. QED  BY <1>2, <2>1, <2>2, <2>4, <2>5 DEF OneRequestInv
<1>8. CASE Crash
  <2>1. /\ UNCHANGED nasVars /\ UNCHANGED phase
        /\ \A h \in Handlers : pc'[h] = "idle"
        BY <1>8 DEF Crash, CrashHandlers
  <2>2. \A h \in Handlers : RequestInv(h)' /\ HandlerInv(h)'
        BY <2>1 DEF RequestInv, HandlerInv, Busy, HoldsTarget, HoldsLUN
  <2>3. \A v \in Ids : phase'[v] = "bound" => Backed(v)'
        BY <1>2, <2>1, KeepsBacked DEF OneRequestInv
  <2>4. QED  BY <1>2, <2>1, <2>2, <2>3 DEF OneRequestInv
<1>9. QED  BY <1>3, <1>4, <1>5, <1>6, <1>7, <1>8 DEF Next

-----------------------------------------------------------------------------
(* What follows *)

\* Whatever ends a session or gives a call up, the only handler works on
\* the target and the LUN of its volume, or changes nothing.
THEOREM OneRequestInvariance ==
    ASSUME OneHandler
    PROVE  Spec => [](TypeInv /\ OneRequestInv)
<1>1. Init => TypeInv /\ OneRequestInv
      BY TypeInit, OneRequestInit
<1>2. TypeInv /\ OneRequestInv /\ [Next]_vars => (TypeInv /\ OneRequestInv)'
      BY TypeStep, OneRequestStep
<1>3. QED  BY <1>1, <1>2, PTL DEF Spec

\* A refusal that is read as a LUN index attaches nothing to the volume.
THEOREM OnlyOwnLUNsAttached ==
    ASSUME OneHandler
    PROVE  Spec => []AttachesOwnLUN
<1>1. OneRequestInv => AttachesOwnLUN
      BY DEF OneRequestInv, HandlerInv, HoldsLUN, AttachesOwnLUN
<1>2. QED  BY <1>1, OneRequestInvariance, PTL

\* Without a session CreateVolume never reports success.
THEOREM ReportsSurviveSessions ==
    ASSUME OneHandler
    PROVE  Spec => []BoundIsBacked
<1>1. OneRequestInv => BoundIsBacked
      BY DEF OneRequestInv, BoundIsBacked
<1>2. QED  BY <1>1, OneRequestInvariance, PTL

\* Ending sessions mix up neither names nor LUNs.
THEOREM NasStaysInOrder ==
    ASSUME OneHandler
    PROVE  Spec => [](OneTargetPerVolume /\ Isolation)
<1>1. OneRequestInv => OneTargetPerVolume /\ Isolation
      BY DEF OneRequestInv, NasInv
<1>2. QED  BY <1>1, OneRequestInvariance, PTL

LEMMA OneStepKeeps ==
    ASSUME TypeInv, OneRequestInv, [Next]_vars, NEW id \in Ids
    PROVE  Keeps(id) \/ \E h \in Handlers : Run(h) /\ vol[h] = id
<1>1. NasInv
      BY DEF OneRequestInv
<1>2. ASSUME NEW h \in Handlers, Run(h), vol[h] # id
      PROVE  Keeps(id)
      BY <1>2, OneRunKeeps DEF Run
<1>3. ASSUME NEW l \in LunIdx, Settle(l)
      PROVE  Keeps(id)
      BY <1>1, <1>3, SettleKeeps DEF Settle
<1>4. CASE UNCHANGED nasVars
      BY <1>1, <1>4, SameKeeps
<1>5. QED  BY <1>2, <1>3, <1>4, NasSteps

\* Ending sessions do not turn a handler on the storage of a volume in use.
THEOREM BoundSurvivesSessions ==
    ASSUME OneHandler
    PROVE  Spec => BoundUntouched
<1>1. ASSUME TypeInv, OneRequestInv, [Next]_vars, NEW id \in Ids,
             phase[id] = "bound"
      PROVE  Storage(id)' = Storage(id)
  <2>1. NasInv /\ Backed(id)
        BY <1>1 DEF OneRequestInv
  <2>2. ASSUME NEW h \in Handlers, Run(h)
        PROVE  vol[h] # id
        BY <1>1, <2>2, RunIsBusy DEF Run, OneRequestInv, RequestInv
  <2>3. Keeps(id)
        BY <1>1, <2>2, OneStepKeeps
  <2>4. QED  BY <2>1, <2>3, KeepsStorage
<1>2. TypeInv /\ OneRequestInv /\ [Next]_vars =>
          [\A id \in Ids :
              phase[id] = "bound" => Storage(id)' = Storage(id)]_vars
      BY <1>1
<1>3. QED  BY <1>2, OneRequestInvariance, PTL DEF Spec, BoundUntouched
=============================================================================
