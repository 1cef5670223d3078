----------------------------- MODULE QnapClient -----------------------------
(***************************************************************************)
(* The calls of qnap.Client (qnap/api.go).  An operator F(args, r) is one  *)
(* HTTP round trip: r is what the Go function returns, Err standing for a  *)
(* non-nil error.  postFormReq has no deadline and is never retried, and a *)
(* client cannot tell a request that was lost from a reply that was: a     *)
(* call that fails may or may not have taken effect on the NAS.            *)
(*                                                                         *)
(* All handlers share one session id.  A NAS that does not accept it has   *)
(* no effect and answers authPassed 0, which no call but Login looks at;   *)
(* the result is missing then, or an error.  A result that is missing      *)
(* decodes to 0 where it is an int, and to "" where it is a string.        *)
(***************************************************************************)
EXTENDS QnapNAS, Naturals

CONSTANTS
    Err,             \* a non-nil error
    Zero,            \* the index 0 of targets and of LUNs
    SessionsExpire,  \* whether the NAS may end a session
    MaxFaults        \* bound on failed calls, ended sessions and crashes

ASSUME ErrAssumption ==
    Err \notin TargetIdx \cup LunIdx \cup LunStatus \cup {"ok", Zero}

ASSUME SessionsAssumption ==
    /\ SessionsExpire \in BOOLEAN
    /\ SessionsExpire => Zero \in TargetIdx \cap LunIdx

ASSUME MaxFaultsAssumption == MaxFaults \in Nat

VARIABLES
    session,   \* c.sid is a session the NAS accepts
    faults

clientVars == <<nasVars, session, faults>>

\* A call that the NAS serves, and one that it refuses.
Served == session /\ UNCHANGED <<session, faults>>
Denied == ~session /\ UNCHANGED clientVars

CountFault ==
    /\ faults < MaxFaults
    /\ faults' = faults + 1

\* A transport error, a status that is not 200, a body that is not XML.
FailedCall(effect) ==
    /\ CountFault /\ UNCHANGED session
    /\ (session /\ effect) \/ UNCHANGED nasVars

\* A session ends of itself, with a restart of the NAS, or because an older
\* id has overwritten it in c.sid.
Expire ==
    /\ SessionsExpire /\ session
    /\ session' = FALSE
    /\ CountFault
    /\ UNCHANGED nasVars

-----------------------------------------------------------------------------

Login(r) ==
    \/ r = "ok" /\ session' = TRUE /\ UNCHANGED <<nasVars, faults>>
    \/ r = Err /\ FailedCall(FALSE)

\* The result has to be "0".  The caller reads targetName and targetLUNs in
\* the same step when r = "ok".
GetStorageISCSITargetList(r) ==
    \/ r = "ok" /\ Served /\ UNCHANGED nasVars
    \/ r = Err /\ (Denied \/ FailedCall(FALSE))

\* Mutant: the session is renewed while the LUN is waited for.
GetStorageISCSILunRenewing(l, r) ==
    \/ r = lunStatus[l] /\ session' = TRUE /\ UNCHANGED <<nasVars, faults>>
    \/ r = Err /\ FailedCall(FALSE)

GetStorageISCSILun(l, r) ==
    \/ r = lunStatus[l] /\ Served /\ UNCHANGED nasVars
    \/ r = Err /\ (Denied \/ FailedCall(FALSE))

\* The result is the index, and an error if it is negative.
CreateStorageISCSITarget(id, r) ==
    \/ r \in TargetIdx /\ Served /\ (AddTarget(id, r) \/ KeepTarget(id, r))
    \/ r = Err /\ \E t \in TargetIdx : FailedCall(AddTarget(id, t))
    \/ /\ r = Err   \* the NAS is full
       /\ \A t \in TargetIdx : targetName[t] # None
       /\ Served /\ UNCHANGED nasVars
    \/ r \in {Zero, Err} /\ Denied

\* An error if the result is negative.
CreateStorageISCSIInitiator(t, r) ==
    \/ r = "ok" /\ Served /\ AddInitiator(t)
    \/ r = Err /\ FailedCall(AddInitiator(t))
    \/ r \in {"ok", Err} /\ Denied

\* The result is the index, and an error if it is negative.
CreateStorageISCSIBlockLUN(id, r) ==
    \/ r \in LunIdx /\ Served /\ AddLUN(id, r)
    \/ r = Err /\ \E l \in LunIdx : FailedCall(AddLUN(id, l))
    \/ /\ r = Err   \* the name is taken, or the pool is full
       /\ LunsNamed(id) # {} \/ \A l \in LunIdx : lunName[l] # None
       /\ Served /\ UNCHANGED nasVars
    \/ r \in {Zero, Err} /\ Denied

\* An error if the result is not 0.
AttachStorageISCSITargetLUN(l, t, r) ==
    \/ r = "ok" /\ Served /\ MapLUN(l, t)
    \/ r = Err /\ FailedCall(MapLUN(l, t))
    \/ /\ r = Err
       /\ targetName[t] = None \/ lunName[l] = None
       /\ Served /\ UNCHANGED nasVars
    \/ r \in {"ok", Err} /\ Denied

\* An error if the result is not the index.
DeleteStorageISCSITarget(t, r) ==
    \/ r = "ok" /\ Served /\ RemoveTarget(t)
    \/ r = Err /\ FailedCall(RemoveTarget(t))
    \/ /\ r = Err
       /\ targetName[t] = None
       /\ Served /\ UNCHANGED nasVars
    \/ r \in {"ok", Err} /\ (r = "ok" => t = Zero) /\ Denied

\* An error if the result is not 0.
DeleteStorageISCSIBlockLUN(l, r) ==
    \/ r = "ok" /\ Served /\ RemoveLUN(l)
    \/ r = Err /\ FailedCall(RemoveLUN(l))
    \/ r \in {"ok", Err} /\ Denied
=============================================================================
