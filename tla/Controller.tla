----------------------------- MODULE Controller -----------------------------
(***************************************************************************)
(* CreateVolume and DeleteVolume (driver/controller.go).  grpc runs every  *)
(* request in a goroutine of its own and the driver takes no lock, so the  *)
(* handlers interleave at every call to the NAS.  An action is one call    *)
(* together with what the handler does with its result, up to the next     *)
(* call; pc[h] names the call the handler is about to make.                *)
(* A request is modelled from its Login on: the checks of its arguments    *)
(* that come before touch no state (module CreateRequest).                 *)
(***************************************************************************)
EXTENDS QnapClient

CONSTANT Handlers   \* goroutines that serve controller requests

VARIABLES
    pc,      \* the call a handler makes next
    op,      \* the request it serves: "create", "delete" or "none"
    vol,     \* the volume name of the request
    tgt,     \* targetIndex
    lun,     \* block.Result
    todo,    \* target.TargetLUNs that DeleteVolume has not deleted yet
    reply    \* the status code of the answer, once there is one

locals == <<tgt, lun, todo>>
handlerVars == <<pc, op, vol, tgt, lun, todo, reply>>

CreatePC == {"checkName", "createTarget", "createInitiator", "createLUN",
             "pollLUN", "attachLUN", "readIQN", "undoTarget", "undoAttach",
             "undoLUN"}
DeletePC == {"findTarget", "deleteTarget", "deleteLUNs"}
PC == {"idle", "login", "done"} \cup CreatePC \cup DeletePC

Codes == {"none", "OK", "AlreadyExists", "Internal"}

HandlerTypeOK ==
    /\ pc \in [Handlers -> PC]
    /\ op \in [Handlers -> {"none", "create", "delete"}]
    /\ vol \in [Handlers -> Ids \cup {None}]
    /\ tgt \in [Handlers -> TargetIdx \cup {None}]
    /\ lun \in [Handlers -> LunIdx \cup {None}]
    /\ todo \in [Handlers -> SUBSET LunIdx]
    /\ reply \in [Handlers -> Codes]

HandlerInit ==
    /\ pc = [h \in Handlers |-> "idle"]
    /\ op = [h \in Handlers |-> "none"]
    /\ vol = [h \in Handlers |-> None]
    /\ tgt = [h \in Handlers |-> None]
    /\ lun = [h \in Handlers |-> None]
    /\ todo = [h \in Handlers |-> {}]
    /\ reply = [h \in Handlers |-> "none"]

-----------------------------------------------------------------------------
\* A request arrives, the handler moves on, answers, and is gone.

Accept(h, request, id) ==
    /\ pc[h] = "idle"
    /\ pc' = [pc EXCEPT ![h] = "login"]
    /\ op' = [op EXCEPT ![h] = request]
    /\ vol' = [vol EXCEPT ![h] = id]
    /\ UNCHANGED <<locals, reply>>

Goto(h, call) ==
    /\ pc' = [pc EXCEPT ![h] = call]
    /\ UNCHANGED <<op, vol, reply>>

Proceed(h, call) == Goto(h, call) /\ UNCHANGED locals

Answer(h, code) ==
    /\ pc' = [pc EXCEPT ![h] = "done"]
    /\ reply' = [reply EXCEPT ![h] = code]
    /\ tgt' = [tgt EXCEPT ![h] = None]
    /\ lun' = [lun EXCEPT ![h] = None]
    /\ todo' = [todo EXCEPT ![h] = {}]
    /\ UNCHANGED <<op, vol>>

Leave(h) ==
    /\ pc[h] = "done"
    /\ pc' = [pc EXCEPT ![h] = "idle"]
    /\ op' = [op EXCEPT ![h] = "none"]
    /\ vol' = [vol EXCEPT ![h] = None]
    /\ reply' = [reply EXCEPT ![h] = "none"]
    /\ UNCHANGED locals

\* Every handler logs in anew before its first call.
LoginNAS(h) ==
    /\ pc[h] = "login"
    /\ \/ Login(Err) /\ Answer(h, "Internal")
       \/ /\ Login("ok")
          /\ Proceed(h, IF op[h] = "create" THEN "checkName" ELSE "findTarget")

-----------------------------------------------------------------------------
\* CreateVolume

\* Mutant: the name is not looked for in the list of targets.
NameTakenNever(h) == FALSE

NameTaken(h) == TargetsNamed(vol[h]) # {}

CheckName(h) ==
    /\ pc[h] = "checkName"
    /\ \/ GetStorageISCSITargetList(Err) /\ Answer(h, "Internal")
       \/ /\ GetStorageISCSITargetList("ok") /\ NameTaken(h)
          /\ Answer(h, "AlreadyExists")
       \/ /\ GetStorageISCSITargetList("ok") /\ ~NameTaken(h)
          /\ Proceed(h, "createTarget")

CreateTarget(h) ==
    /\ pc[h] = "createTarget"
    /\ \/ CreateStorageISCSITarget(vol[h], Err) /\ Answer(h, "Internal")
       \/ \E t \in TargetIdx :
             /\ CreateStorageISCSITarget(vol[h], t)
             /\ tgt' = [tgt EXCEPT ![h] = t]
             /\ Goto(h, "createInitiator")
             /\ UNCHANGED <<lun, todo>>

CreateInitiator(h) ==
    /\ pc[h] = "createInitiator"
    /\ \/ CreateStorageISCSIInitiator(tgt[h], Err) /\ Proceed(h, "undoTarget")
       \/ CreateStorageISCSIInitiator(tgt[h], "ok") /\ Proceed(h, "createLUN")

CreateLUN(h) ==
    /\ pc[h] = "createLUN"
    /\ \/ CreateStorageISCSIBlockLUN(vol[h], Err) /\ Proceed(h, "undoTarget")
       \/ \E l \in LunIdx :
             /\ CreateStorageISCSIBlockLUN(vol[h], l)
             /\ lun' = [lun EXCEPT ![h] = l]
             /\ Goto(h, "pollLUN")
             /\ UNCHANGED <<tgt, todo>>

\* The undo calls ignore what the NAS answers.
UndoTarget(h) ==
    /\ pc[h] = "undoTarget"
    /\ \E r \in {"ok", Err} : DeleteStorageISCSITarget(tgt[h], r)
    /\ Answer(h, "Internal")

\* Mutants: the LUN is polled once; only "ready" ends the loop.
WaitingNever(s) == FALSE
WaitingUntilReady(s) == s # "ready"

Waiting(s) == s = "creating"

\* A poll after which the handler waits sleeps and polls again: a stuttering
\* step.  A poll that fails answers at once and undoes nothing.
PollLUN(h) ==
    /\ pc[h] = "pollLUN"
    /\ \/ GetStorageISCSILun(lun[h], Err) /\ Answer(h, "Internal")
       \/ \E s \in LunStatus :
             /\ GetStorageISCSILun(lun[h], s) /\ ~Waiting(s)
             /\ Proceed(h, "attachLUN")

\* Mutant: the error of the attach call is dropped.
AfterAttachUnchecked(r) == "readIQN"

AfterAttach(r) == IF r = Err THEN "undoAttach" ELSE "readIQN"

AttachLUN(h) ==
    /\ pc[h] = "attachLUN"
    /\ \E r \in {"ok", Err} :
          /\ AttachStorageISCSITargetLUN(lun[h], tgt[h], r)
          /\ Proceed(h, AfterAttach(r))

UndoAttach(h) ==
    /\ pc[h] = "undoAttach"
    /\ \E r \in {"ok", Err} : DeleteStorageISCSITarget(tgt[h], r)
    /\ Proceed(h, "undoLUN")

UndoLUN(h) ==
    /\ pc[h] = "undoLUN"
    /\ \E r \in {"ok", Err} : DeleteStorageISCSIBlockLUN(lun[h], r)
    /\ Answer(h, "Internal")

\* The IQN the answer carries is looked up by name in a second list.
ReadIQN(h) ==
    /\ pc[h] = "readIQN"
    /\ \/ GetStorageISCSITargetList(Err) /\ Answer(h, "Internal")
       \/ /\ GetStorageISCSITargetList("ok")
          /\ Answer(h, IF TargetsNamed(vol[h]) = {} THEN "Internal" ELSE "OK")

CreateVolume(h) ==
    \/ CheckName(h) \/ CreateTarget(h) \/ CreateInitiator(h) \/ CreateLUN(h)
    \/ UndoTarget(h) \/ PollLUN(h) \/ AttachLUN(h) \/ UndoAttach(h)
    \/ UndoLUN(h) \/ ReadIQN(h)

-----------------------------------------------------------------------------
\* DeleteVolume

\* Mutant: the first target of the list is taken, whatever its name.
MatchesAny(h) == {t \in TargetIdx : targetName[t] # None}

Matches(h) == TargetsNamed(vol[h])

\* Mutants: the LUNs are not remembered; the index of the target is.
LUNsToDeleteNone(t) == {}
LUNsToDeleteTarget(t) == {t}

LUNsToDelete(t) == targetLUNs[t]

\* Mutant: a volume that is not found is an error.
NotFoundIsError == "Internal"

NotFound == "OK"   \* "Volume not found, so yolo"

\* The target and its LUNs are those of this list, however the NAS changes.
FindTarget(h) ==
    /\ pc[h] = "findTarget"
    /\ \/ GetStorageISCSITargetList(Err) /\ Answer(h, "Internal")
       \/ /\ GetStorageISCSITargetList("ok") /\ Matches(h) = {}
          /\ Answer(h, NotFound)
       \/ \E t \in Matches(h) :
             /\ GetStorageISCSITargetList("ok")
             /\ tgt' = [tgt EXCEPT ![h] = t]
             /\ todo' = [todo EXCEPT ![h] = LUNsToDelete(t)]
             /\ Goto(h, "deleteTarget")
             /\ UNCHANGED lun

\* Mutant: the error of the call is dropped.
TargetDeletedAnyway(r) == TRUE

TargetDeleted(r) == r = "ok"

DeleteTarget(h) ==
    /\ pc[h] = "deleteTarget"
    /\ \E r \in {"ok", Err} :
          /\ DeleteStorageISCSITarget(tgt[h], r)
          /\ \/ TargetDeleted(r) /\ Proceed(h, "deleteLUNs")
             \/ ~TargetDeleted(r) /\ Answer(h, "Internal")

\* One iteration of the loop over the LUNs, or its end.
DeleteLUNs(h) ==
    /\ pc[h] = "deleteLUNs"
    /\ \/ todo[h] = {} /\ UNCHANGED clientVars /\ Answer(h, "OK")
       \/ \E l \in todo[h] :
             /\ DeleteStorageISCSIBlockLUN(l, Err)
             /\ Answer(h, "Internal")
       \/ \E l \in todo[h] :
             /\ DeleteStorageISCSIBlockLUN(l, "ok")
             /\ todo' = [todo EXCEPT ![h] = @ \ {l}]
             /\ Goto(h, "deleteLUNs")
             /\ UNCHANGED <<tgt, lun>>

DeleteVolume(h) == FindTarget(h) \/ DeleteTarget(h) \/ DeleteLUNs(h)

HandlerStep(h) == LoginNAS(h) \/ CreateVolume(h) \/ DeleteVolume(h)

-----------------------------------------------------------------------------

\* The process dies and is restarted: its goroutines and its session are
\* gone, the NAS is as they left it.
CrashHandlers ==
    /\ \E h \in Handlers : pc[h] # "idle"
    /\ CountFault
    /\ session' = FALSE
    /\ pc' = [h \in Handlers |-> "idle"]
    /\ op' = [h \in Handlers |-> "none"]
    /\ vol' = [h \in Handlers |-> None]
    /\ tgt' = [h \in Handlers |-> None]
    /\ lun' = [h \in Handlers |-> None]
    /\ todo' = [h \in Handlers |-> {}]
    /\ reply' = [h \in Handlers |-> "none"]
    /\ UNCHANGED nasVars
=============================================================================
