------------------------------ MODULE QnapNAS ------------------------------
(***************************************************************************)
(* The QNAP NAS as the driver sees it: the iSCSI targets and the block     *)
(* LUNs it keeps.  The NAS is not part of the repository; every effect     *)
(* below is what qnap/api.go and driver/controller.go say or assume of it. *)
(***************************************************************************)

CONSTANTS
    Ids,          \* volume names, already cleaned by cleanISCSIName
    TargetIdx,    \* indexes the NAS can give to targets (reused when free)
    LunIdx,       \* indexes the NAS can give to LUNs (reused when free)
    LunOutcomes,  \* statuses in which the creation of a LUN can end
    None          \* "no such object"

ASSUME NoneAssumption == None \notin Ids \cup TargetIdx \cup LunIdx

\* StatusString (api.go) also names "removing", and has a default case.
ASSUME OutcomesAssumption ==
    LunOutcomes \subseteq {"ready", "removing", "unknown"}

VARIABLES
    targetName,   \* name of the target at an index, None if there is none
    targetLUNs,   \* indexes of the LUNs attached to a target
    initiators,   \* targets that have an initiator entry
    lunName,      \* name of the LUN at an index, None if there is none
    lunStatus     \* what StatusString reports for the index

nasVars == <<targetName, targetLUNs, initiators, lunName, lunStatus>>

LunStatus == {"creating", "not_found"} \cup LunOutcomes

NasTypeOK ==
    /\ targetName \in [TargetIdx -> Ids \cup {None}]
    /\ targetLUNs \in [TargetIdx -> SUBSET LunIdx]
    /\ initiators \in SUBSET TargetIdx
    /\ lunName \in [LunIdx -> Ids \cup {None}]
    /\ lunStatus \in [LunIdx -> LunStatus]

NasInit ==
    /\ targetName = [t \in TargetIdx |-> None]
    /\ targetLUNs = [t \in TargetIdx |-> {}]
    /\ initiators = {}
    /\ lunName = [l \in LunIdx |-> None]
    /\ lunStatus = [l \in LunIdx |-> "not_found"]

TargetsNamed(id) == {t \in TargetIdx : targetName[t] = id}

LunsNamed(id) == {l \in LunIdx : lunName[l] = id}

-----------------------------------------------------------------------------

\* add_target on a free index.
AddTarget(id, t) ==
    /\ targetName[t] = None
    /\ targetName' = [targetName EXCEPT ![t] = id]
    /\ targetLUNs' = [targetLUNs EXCEPT ![t] = {}]
    /\ initiators' = initiators \ {t}
    /\ UNCHANGED <<lunName, lunStatus>>

\* "This is sorta idempotent, you can create the same name multiple times."
\* (api.go:416): the NAS may answer with the target it already has.
KeepTarget(id, t) ==
    /\ targetName[t] = id
    /\ UNCHANGED nasVars

\* add_init; it "doesnt seem to care if you give it bogus index id's".
AddInitiator(t) ==
    /\ initiators' = IF targetName[t] = None THEN initiators
                                             ELSE initiators \cup {t}
    /\ UNCHANGED <<targetName, targetLUNs, lunName, lunStatus>>

\* remove_target: the LUNs that were attached to it stay, unattached.
RemoveTarget(t) ==
    /\ targetName[t] # None
    /\ targetName' = [targetName EXCEPT ![t] = None]
    /\ targetLUNs' = [targetLUNs EXCEPT ![t] = {}]
    /\ initiators' = initiators \ {t}
    /\ UNCHANGED <<lunName, lunStatus>>

\* add_lun of iscsi_lun_setting.cgi: a new LUN starts out being created.
\* A second LUN of the same name is refused (api.go:534).
AddLUN(id, l) ==
    /\ LunsNamed(id) = {}
    /\ lunName[l] = None
    /\ lunName' = [lunName EXCEPT ![l] = id]
    /\ lunStatus' = [lunStatus EXCEPT ![l] = "creating"]
    /\ UNCHANGED <<targetName, targetLUNs, initiators>>

\* The NAS itself finishes the creation of a LUN.
FinishLUN(l) ==
    /\ lunStatus[l] = "creating"
    /\ \E s \in LunOutcomes : lunStatus' = [lunStatus EXCEPT ![l] = s]
    /\ UNCHANGED <<targetName, targetLUNs, initiators, lunName>>

\* remove_lun; it "can delete random non existent indexes" (api.go:582).
RemoveLUN(l) ==
    /\ lunName' = [lunName EXCEPT ![l] = None]
    /\ lunStatus' = [lunStatus EXCEPT ![l] = "not_found"]
    /\ targetLUNs' = [t \in TargetIdx |-> targetLUNs[t] \ {l}]
    /\ UNCHANGED <<targetName, initiators>>

\* add_lun of iscsi_target_setting.cgi: both ends have to exist.
MapLUN(l, t) ==
    /\ targetName[t] # None
    /\ lunName[l] # None
    /\ targetLUNs' = [targetLUNs EXCEPT ![t] = @ \cup {l}]
    /\ UNCHANGED <<targetName, initiators, lunName, lunStatus>>
=============================================================================
