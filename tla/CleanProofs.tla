----------------------------- MODULE CleanProofs -----------------------------
(***************************************************************************)
(* Proofs about what the serial controller (SerialSpec, a NAS that keeps   *)
(* its sessions) leaves on the NAS as long as nothing fails: no LUN is     *)
(* orphaned, none is created twice, and what is deleted is gone.           *)
(***************************************************************************)
EXTENDS ProvisioningProofs

\* Failed calls and restarts are counted, and nothing else is.
LEMMA NextCounts ==
    ASSUME [Next]_vars
    PROVE  faults' = faults \/ CountFault
BY RunCounts
   DEF Next, vars, clientVars, Claim, Release, Timeout, RequestCreate,
       RequestDelete, Request, Run, Deliver, ReadRequest, Login, FailedCall,
       Settle, SessionEnds, Expire, Crash, CrashHandlers

LEMMA NoFaultYet ==
    ASSUME TypeInv, [Next]_vars, faults' = 0
    PROVE  faults = 0 /\ ~CountFault
<1>1. faults \in Nat
      BY MaxFaultsAssumption DEF TypeInv, TypeOK
<1>2. ~CountFault
      BY <1>1 DEF CountFault
<1>3. QED  BY <1>2, NextCounts

LEMMA KeepsWired ==
    ASSUME NEW id \in Ids, Keeps(id)
    PROVE  /\ LunsNamed(id)' = LunsNamed(id)
           /\ Wired(id) => Wired(id)'
BY DEF Keeps, Wired, LunsNamed, TargetsNamed

LEMMA KeepsClean ==
    ASSUME NEW g \in Handlers, CleanHandler(g), vol[g] \in Ids,
           Keeps(vol[g]), pc'[g] = pc[g], vol'[g] = vol[g], todo'[g] = todo[g]
    PROVE  CleanHandler(g)'
<1>1. LunsNamed(vol[g])' = LunsNamed(vol[g])
      BY KeepsWired DEF LunsNamed
<1>2. Wired(vol[g]) => Wired(vol[g])'
      BY KeepsWired DEF Wired, LunsNamed, TargetsNamed
<1>3. QED  BY <1>1, <1>2 DEF CleanHandler

-----------------------------------------------------------------------------
(* The step of a handler *)

\* A call of a handler that is logged in is served, and does not fail.
LEMMA CleanRun ==
    ASSUME TypeInv, NasInv, NEW h \in Handlers, RequestInv(h), HandlerInv(h),
           CleanHandler(h), pc[h] \in CreatePC \cup DeletePC => session,
           HandlerStep(h), ~CountFault
    PROVE  CleanHandler(h)'
<1> USE NoneAssumption, ErrAssumption
        DEF CleanHandler, TypeInv, TypeOK, NasTypeOK, HandlerTypeOK,
            FailedCall, Denied, CreatePC, DeletePC
<1> DEFINE v == vol[h]
<1>0. v \in Ids /\ vol' = vol
      BY RunIsBusy, RunMoves DEF RequestInv, Moves
<1>1. \A p \in PC : Goto(h, p) => pc'[h] = p
      BY DEF Goto
<1>2. \A c \in Codes : Answer(h, c) => pc'[h] = "done"
      BY DEF Answer
<1> USE DEF PC, Codes, Proceed
<1>3. LunsNamed(v) = {} => Wired(v)
      BY DEF Wired
<1>4. lunName' = lunName => LunsNamed(v)' = LunsNamed(v)
      BY <1>0 DEF LunsNamed
<1>5. UNCHANGED nasVars => (Wired(v) => Wired(v)')
      BY <1>0 DEF nasVars, Wired, LunsNamed, TargetsNamed
<1>6. LunsNamed(v)' = {} => Wired(v)'
      BY <1>0 DEF Wired
<1>7. CASE LoginNAS(h)
      BY <1>0, <1>1, <1>2, <1>5, <1>7 DEF LoginNAS, Login
<1>8. CASE CheckName(h)
  <2>1. Wired(v) /\ UNCHANGED nasVars
        BY <1>8 DEF CheckName, GetStorageISCSITargetList
  <2>2. CASE Answer(h, "Internal") \/ Answer(h, "AlreadyExists")
        BY <1>2, <1>5, <2>1, <2>2
  <2>3. CASE ~NameTaken(h) /\ Goto(h, "createTarget")
    <3>1. LunsNamed(v) = {}
          BY <2>1, <2>3 DEF NameTaken, Wired
    <3>2. QED  BY <1>1, <1>4, <2>1, <2>3, <3>1 DEF nasVars
  <2>4. QED  BY <1>8, <2>2, <2>3 DEF CheckName
<1>9. CASE CreateTarget(h) \/ CreateInitiator(h) \/ UndoTarget(h)
  <2>1. LunsNamed(v) = {} /\ lunName' = lunName
        BY <1>9
        DEF CreateTarget, CreateInitiator, UndoTarget, nasVars, clientVars,
            CreateStorageISCSITarget, AddTarget, KeepTarget,
            CreateStorageISCSIInitiator, AddInitiator,
            DeleteStorageISCSITarget, RemoveTarget
  <2>2. pc'[h] \in {"done", "createInitiator", "createLUN", "undoTarget"}
        BY <1>1, <1>2, <1>9 DEF CreateTarget, CreateInitiator, UndoTarget
  <2>3. QED  BY <1>4, <1>6, <2>1, <2>2
<1>10. CASE CreateLUN(h)
  <2>1. CASE CreateStorageISCSIBlockLUN(v, Err) /\ Goto(h, "undoTarget")
    <3>1. LunsNamed(v) = {} /\ lunName' = lunName
          BY <1>10, <2>1
          DEF CreateLUN, CreateStorageISCSIBlockLUN, nasVars
    <3>2. QED  BY <1>1, <1>4, <2>1, <3>1
  <2>2. CASE Goto(h, "pollLUN")
        BY <1>1, <2>2
  <2>3. QED  BY <1>10, <2>1, <2>2 DEF CreateLUN
<1>11. CASE PollLUN(h)
  <2>1. lunStatus[lun[h]] \in LunStatus
        BY <1>11 DEF PollLUN, HoldsLUN
  <2>2. ~GetStorageISCSILun(lun[h], Err)
        BY <1>11, <2>1 DEF PollLUN, GetStorageISCSILun
  <2>3. Goto(h, "attachLUN")
        BY <1>11, <2>2 DEF PollLUN
  <2>4. QED  BY <1>1, <2>3
<1>12. CASE AttachLUN(h)
  <2>1. Goto(h, "readIQN")
    <3>1. targetName[tgt[h]] # None /\ lunName[lun[h]] # None
          BY <1>0, <1>12 DEF AttachLUN, HandlerInv, HoldsTarget, HoldsLUN
    <3>2. QED  BY <1>12, <3>1
               DEF AttachLUN, AttachStorageISCSITargetLUN, AfterAttach
  <2>2. QED  BY <1>1, <2>1
<1>13. CASE UndoAttach(h) \/ UndoLUN(h)
      BY <1>13 DEF UndoAttach, UndoLUN
<1>14. CASE ReadIQN(h)
  <2>1. UNCHANGED nasVars /\ pc'[h] = "done"
        BY <1>2, <1>14 DEF ReadIQN, GetStorageISCSITargetList
  <2>2. Wired(v)
        BY <1>0, <1>14
        DEF ReadIQN, Wired, LunsNamed, TargetsNamed, HandlerInv, HoldsTarget,
            HoldsLUN, NasInv, OneLUNPerVolume
  <2>3. QED  BY <1>5, <2>1, <2>2
<1>15. CASE FindTarget(h)
  <2>1. Wired(v) /\ UNCHANGED nasVars
        BY <1>15 DEF FindTarget, GetStorageISCSITargetList
  <2>2. CASE Answer(h, "Internal") \/ Answer(h, "OK")
        BY <1>2, <1>5, <2>1, <2>2
  <2>3. ASSUME NEW t \in TargetsNamed(v), Goto(h, "deleteTarget"),
               todo' = [todo EXCEPT ![h] = targetLUNs[t]]
        PROVE  CleanHandler(h)'
    <3>1. LunsNamed(v) \subseteq targetLUNs[t]
          BY <1>0, <2>1, <2>3
          DEF Wired, TargetsNamed, NasInv, OneTargetPerVolume
    <3>2. pc'[h] = "deleteTarget" /\ todo'[h] = targetLUNs[t]
          BY <1>1, <2>3
    <3>3. QED  BY <1>4, <2>1, <3>1, <3>2 DEF nasVars
  <2>4. QED  BY <1>15, <2>2, <2>3
             DEF FindTarget, Matches, LUNsToDelete, NotFound
<1>16. CASE DeleteTarget(h)
  <2>1. targetName[tgt[h]] # None
        BY <1>0, <1>16 DEF DeleteTarget, HandlerInv, HoldsTarget
  <2>2. RemoveTarget(tgt[h]) /\ Goto(h, "deleteLUNs") /\ UNCHANGED locals
        BY <1>16, <2>1
        DEF DeleteTarget, DeleteStorageISCSITarget, TargetDeleted
  <2>3. /\ pc'[h] = "deleteLUNs" /\ todo' = todo
        /\ LunsNamed(v) \subseteq todo[h]
        BY <1>1, <1>16, <2>2 DEF DeleteTarget, locals
  <2>4. QED  BY <1>4, <2>2, <2>3 DEF RemoveTarget
<1>17. CASE DeleteLUNs(h)
  <2>1. LunsNamed(v) \subseteq todo[h]
        BY <1>17 DEF DeleteLUNs
  <2>2. CASE todo[h] = {} /\ UNCHANGED clientVars /\ Answer(h, "OK")
    <3>1. LunsNamed(v)' = {}
          BY <1>4, <2>1, <2>2 DEF clientVars, nasVars
    <3>2. QED  BY <1>2, <1>6, <2>2, <3>1
  <2>3. ASSUME NEW l \in todo[h], RemoveLUN(l), Goto(h, "deleteLUNs"),
               todo' = [todo EXCEPT ![h] = @ \ {l}]
        PROVE  CleanHandler(h)'
    <3>1. pc'[h] = "deleteLUNs" /\ todo'[h] = todo[h] \ {l}
          BY <1>1, <2>3
    <3>2. LunsNamed(v)' \subseteq todo[h] \ {l}
          BY <1>0, <2>1, <2>3 DEF RemoveLUN, LunsNamed
    <3>3. QED  BY <3>1, <3>2
  <2>4. QED  BY <1>17, <2>2, <2>3 DEF DeleteLUNs, DeleteStorageISCSIBlockLUN
<1>18. QED  BY <1>7, <1>8, <1>9, <1>10, <1>11, <1>12, <1>13, <1>14, <1>15,
               <1>16, <1>17
            DEF HandlerStep, CreateVolume, DeleteVolume

-----------------------------------------------------------------------------
(* The invariant *)

LEMMA CleanInit == Init => CleanInv
BY NoneAssumption
   DEF Init, NasInit, HandlerInit, CleanInv, Busy, Wired, LunsNamed

\* Clean handlers and wired volumes stay so where no handler takes a step,
\* and nobody starts or ends.
LEMMA CleanOthers ==
    ASSUME TypeInv, SerialInv, CleanInv, faults = 0, NEW g \in Handlers,
           Busy(g), Keeps(vol[g]), pc'[g] = pc[g], vol'[g] = vol[g],
           todo'[g] = todo[g]
    PROVE  CleanHandler(g)'
<1>1. CleanHandler(g) /\ vol[g] \in Ids
      BY DEF CleanInv, SerialInv, RequestInv
<1>2. QED  BY <1>1, KeepsClean

LEMMA CleanStep ==
    ASSUME SessionsExpire = FALSE
    PROVE  TypeInv /\ SerialInv /\ CleanInv /\ [Next /\ NoOverlap']_vars =>
               CleanInv'
<1> SUFFICES ASSUME TypeInv, SerialInv, CleanInv,
                    [Next /\ NoOverlap']_vars, faults' = 0
             PROVE  /\ \A g \in Handlers : Busy(g)' => CleanHandler(g)'
                    /\ \A id \in Ids :
                          (\A g \in Handlers : Busy(g)' => vol'[g] # id) =>
                              Wired(id)'
    BY DEF CleanInv
<1>0. faults = 0 /\ ~CountFault
      BY NoFaultYet
<1>1. /\ NasInv
      /\ \A g \in Handlers : RequestInv(g) /\ HandlerInv(g)
      /\ \A g \in Handlers : Busy(g) => vol[g] \in Ids
      BY DEF SerialInv, RequestInv
<1>2. /\ \A g \in Handlers : Busy(g) => CleanHandler(g)
      /\ \A id \in Ids :
            (\A g \in Handlers : Busy(g) => vol[g] # id) => Wired(id)
      BY <1>0 DEF CleanInv
<1> USE DEF TypeInv, TypeOK, HandlerTypeOK
<1>3. ASSUME NEW h \in Handlers, Run(h)
      PROVE  /\ \A g \in Handlers : Busy(g)' => CleanHandler(g)'
             /\ \A id \in Ids :
                   (\A g \in Handlers : Busy(g)' => vol'[g] # id) =>
                       Wired(id)'
  <2>1. HandlerStep(h) /\ Busy(h) /\ Effect(h) /\ Moves(h)
        BY <1>3, RunIsBusy, RunEffect, RunMoves DEF Run
  <2>2. CleanHandler(h)'
        BY <1>0, <1>1, <1>2, <2>1, CleanRun DEF SerialInv, SessionInv
  <2>3. ASSUME NEW id \in Ids, id # vol[h]
        PROVE  Keeps(id)
        BY <1>1, <2>1, <2>3, EffectKeeps
  <2>4. ASSUME NEW g \in Handlers, g # h, Busy(g)
        PROVE  CleanHandler(g)'
    <3>1. vol[g] \in Ids /\ vol[g] # vol[h]
          BY <1>1, <2>1, <2>4 DEF SerialInv, NoOverlap, Busy
    <3>2. pc'[g] = pc[g] /\ vol'[g] = vol[g] /\ todo'[g] = todo[g]
          BY <2>1, <2>4 DEF Moves
    <3>3. QED  BY <1>0, <2>3, <2>4, <3>1, <3>2, CleanOthers
  <2>5. \A g \in Handlers : vol'[g] = vol[g] /\ (Busy(g)' <=> Busy(g))
        BY <2>1 DEF Moves, Busy
  <2>6. ASSUME NEW id \in Ids,
               \A g \in Handlers : Busy(g)' => vol'[g] # id
        PROVE  Wired(id)'
    <3>1. id # vol[h] /\ Wired(id)
          BY <1>2, <2>1, <2>5, <2>6
    <3>2. QED  BY <2>3, <3>1, KeepsWired
  <2>7. QED  BY <2>2, <2>4, <2>5, <2>6
<1>4. ASSUME NEW h \in Handlers, NEW id \in Ids,
             RequestCreate(id, h) \/ RequestDelete(id, h)
      PROVE  /\ \A g \in Handlers : Busy(g)' => CleanHandler(g)'
             /\ \A v \in Ids :
                   (\A g \in Handlers : Busy(g)' => vol'[g] # v) => Wired(v)'
  <2>1. /\ UNCHANGED nasVars /\ NoOverlap'
        /\ pc[h] = "idle" /\ pc' = [pc EXCEPT ![h] = "login"]
        /\ vol' = [vol EXCEPT ![h] = id] /\ todo' = todo
        BY <1>4
        DEF RequestCreate, RequestDelete, Request, Accept, clientVars,
            locals, vars, handlerVars
  <2>2. \A v \in Ids : Keeps(v)
        BY <1>1, <2>1, SameKeeps
  <2>3. \A g \in Handlers : Busy(g) => vol[g] # id
        BY <1>1, <2>1 DEF NoOverlap, Busy
  <2>4. CleanHandler(h)'
    <3>1. Wired(id)'
          BY <1>2, <2>2, <2>3, KeepsWired
    <3>2. pc'[h] = "login" /\ vol'[h] = id
          BY <2>1
    <3>3. QED  BY <3>1, <3>2 DEF CleanHandler, Wired, LunsNamed, TargetsNamed
  <2>5. ASSUME NEW g \in Handlers, g # h
        PROVE  pc'[g] = pc[g] /\ vol'[g] = vol[g] /\ todo'[g] = todo[g]
        BY <2>1, <2>5
  <2>6. ASSUME NEW g \in Handlers, g # h, Busy(g)
        PROVE  CleanHandler(g)'
        BY <1>0, <1>1, <2>2, <2>5, <2>6, CleanOthers
  <2>7. ASSUME NEW v \in Ids,
               \A g \in Handlers : Busy(g)' => vol'[g] # v
        PROVE  Wired(v)'
    <3>1. \A g \in Handlers : Busy(g) => vol[g] # v
          BY <2>1, <2>5, <2>7 DEF Busy
    <3>2. QED  BY <1>2, <2>2, <3>1, KeepsWired
  <2>8. QED  BY <2>4, <2>5, <2>6, <2>7 DEF Busy
<1>5. ASSUME NEW h \in Handlers, Deliver(h)
      PROVE  /\ \A g \in Handlers : Busy(g)' => CleanHandler(g)'
             /\ \A v \in Ids :
                   (\A g \in Handlers : Busy(g)' => vol'[g] # v) => Wired(v)'
  <2>1. /\ pc[h] = "done" /\ UNCHANGED nasVars
        /\ pc' = [pc EXCEPT ![h] = "idle"]
        /\ vol' = [vol EXCEPT ![h] = None] /\ todo' = todo
        BY <1>5 DEF Deliver, Leave, clientVars, locals
  <2>2. \A v \in Ids : Keeps(v)
        BY <1>1, <2>1, SameKeeps
  <2>3. Wired(vol[h])
        BY <1>2, <2>1 DEF Busy, CleanHandler
  <2>4. ASSUME NEW g \in Handlers, g # h
        PROVE  pc'[g] = pc[g] /\ vol'[g] = vol[g] /\ todo'[g] = todo[g]
        BY <2>1, <2>4
  <2>5. ASSUME NEW g \in Handlers, g # h, Busy(g)
        PROVE  CleanHandler(g)'
        BY <1>0, <1>1, <2>2, <2>4, <2>5, CleanOthers
  <2>6. ASSUME NEW v \in Ids,
               \A g \in Handlers : Busy(g)' => vol'[g] # v
        PROVE  Wired(v)'
    <3>1. CASE v = vol[h]
          BY <2>2, <2>3, <3>1, KeepsWired
    <3>2. CASE v # vol[h]
      <4>1. \A g \in Handlers : Busy(g) => vol[g] # v
            BY <2>4, <2>6, <3>2 DEF Busy
      <4>2. QED  BY <1>2, <2>2, <4>1, KeepsWired
    <3>3. QED  BY <3>1, <3>2
  <2>7. ~Busy(h)'
        BY <2>1 DEF Busy
  <2>8. QED  BY <2>4, <2>5, <2>6, <2>7 DEF Busy
<1>6. ASSUME \A id \in Ids : Keeps(id), UNCHANGED handlerVars
      PROVE  /\ \A g \in Handlers : Busy(g)' => CleanHandler(g)'
             /\ \A v \in Ids :
                   (\A g \in Handlers : Busy(g)' => vol'[g] # v) => Wired(v)'
  <2>1. ASSUME NEW g \in Handlers
        PROVE  pc'[g] = pc[g] /\ vol'[g] = vol[g] /\ todo'[g] = todo[g]
        BY <1>6 DEF handlerVars
  <2>2. ASSUME NEW g \in Handlers, Busy(g)
        PROVE  CleanHandler(g)'
        BY <1>0, <1>1, <1>6, <2>1, <2>2, CleanOthers
  <2>3. \A v \in Ids : Wired(v) => Wired(v)'
        BY <1>6, KeepsWired
  <2>4. QED  BY <1>2, <2>1, <2>2, <2>3 DEF Busy
<1>7. CASE \/ UNCHANGED vars \/ SessionEnds
           \/ \E id \in Ids : Claim(id) \/ Release(id) \/ Timeout(id)
           \/ \E h \in Handlers : ReadRequest(h)
  <2>1. UNCHANGED nasVars /\ UNCHANGED handlerVars
        BY <1>7 DEF vars, clientVars, SessionEnds, Expire, Claim, Release,
                    Timeout, ReadRequest, Login, FailedCall
  <2>2. \A id \in Ids : Keeps(id)
        BY <1>1, <2>1, SameKeeps
  <2>3. QED  BY <1>6, <2>1, <2>2
<1>8. ASSUME NEW l \in LunIdx, Settle(l)
      PROVE  /\ \A g \in Handlers : Busy(g)' => CleanHandler(g)'
             /\ \A v \in Ids :
                   (\A g \in Handlers : Busy(g)' => vol'[g] # v) => Wired(v)'
  <2>1. FinishLUN(l) /\ UNCHANGED handlerVars
        BY <1>8 DEF Settle
  <2>2. \A id \in Ids : Keeps(id)
        BY <1>1, <2>1, SettleKeeps
  <2>3. QED  BY <1>6, <2>1, <2>2
<1>9. ~Crash
      BY <1>0 DEF Crash, CrashHandlers
<1>10. QED  BY <1>3, <1>4, <1>5, <1>7, <1>8, <1>9 DEF Next

-----------------------------------------------------------------------------
(* What follows from it *)

\* As long as nothing fails, the LUNs of a volume no handler works on are
\* attached to its target.
THEOREM CleanInvariance ==
    ASSUME SessionsExpire = FALSE
    PROVE  SerialSpec => [](TypeInv /\ SerialInv /\ CleanInv)
<1>1. Init => CleanInv
      BY CleanInit
<1>2. TypeInv /\ SerialInv /\ CleanInv /\ [Next /\ NoOverlap']_vars =>
          CleanInv'
      BY CleanStep
<1>3. QED  BY <1>1, <1>2, SerialInvariance, PTL DEF SerialSpec

\* Without a failure, the serial controller never makes the NAS refuse the
\* second LUN of a name, the call that "it'll cause a crash" is about.
THEOREM NeverASecondLUN ==
    ASSUME SessionsExpire = FALSE
    PROVE  SerialSpec => []NoSecondLUN
<1>1. CleanInv => NoSecondLUN
      BY DEF CleanInv, CleanHandler, NoSecondLUN, Busy
<1>2. QED  BY <1>1, CleanInvariance, PTL

\* Without a failure, the serial controller never orphans a LUN.
THEOREM NothingLeaks ==
    ASSUME SessionsExpire = FALSE
    PROVE  SerialSpec => []NoLeakWithoutFault
<1>1. ASSUME TypeInv, CleanInv, faults = 0, NEW l \in LunIdx,
             lunName[l] # None, ~Active(lunName[l])
      PROVE  \E t \in TargetsNamed(lunName[l]) : l \in targetLUNs[t]
  <2>1. lunName[l] \in Ids
        BY <1>1 DEF TypeInv, TypeOK, NasTypeOK
  <2>2. Wired(lunName[l])
        BY <1>1, <2>1 DEF CleanInv, Active
  <2>3. QED  BY <2>2 DEF Wired, LunsNamed
<1>2. TypeInv /\ CleanInv => NoLeakWithoutFault
      BY <1>1 DEF NoLeakWithoutFault
<1>3. QED  BY <1>2, CleanInvariance, PTL

\* Without a failure, what DeleteVolume reports deleted is gone, its LUNs
\* included: it takes a failure, or an overlap, to leave one behind.
THEOREM DeletedIsGoneUnlessFaults ==
    ASSUME SessionsExpire = FALSE
    PROVE  SerialSpec => [](faults = 0 => DeletedIsGone)
<1>1. ASSUME SerialInv, CleanInv, faults = 0, NEW id \in Ids,
             phase[id] = "unwanted", ~Active(id)
      PROVE  LunsNamed(id) = {}
  <2>1. Wired(id)
        BY <1>1 DEF CleanInv, Active
  <2>2. TargetsNamed(id) = {}
        BY <1>1 DEF SerialInv, VolumeInv
  <2>3. QED  BY <2>1, <2>2 DEF Wired
<1>2. SerialInv /\ CleanInv => (faults = 0 => DeletedIsGone)
      BY <1>1 DEF DeletedIsGone
<1>3. QED  BY <1>2, CleanInvariance, PTL
=============================================================================
