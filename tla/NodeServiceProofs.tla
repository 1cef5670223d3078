------------------------- MODULE NodeServiceProofs --------------------------
(***************************************************************************)
(* Proofs about NodeService for every finite set of target paths and every *)
(* number of faults.  Types, and that data is never removed, hold whatever *)
(* calls are at work; the rest is about calls of one kind at a time, any   *)
(* number of publishes or any number of unpublishes: KeepApart.            *)
(***************************************************************************)
EXTENDS NodeService, FiniteSetTheorems, TLAPS

USE PathsAssumption, KeepApartAssumption, MaxFaultsAssumption

-----------------------------------------------------------------------------
(* Type correctness *)

LEMMA MountedFinite ==
    ASSUME mounted \in SUBSET Paths
    PROVE  IsFiniteSet(mounted) /\ Cardinality(mounted) \in Nat
BY FS_Subset, FS_CardinalityType

LEMMA FaultType ==
    ASSUME faults \in 0..MaxFaults, NoFault \/ Fault
    PROVE  faults' \in 0..MaxFaults /\ crossed' = crossed
BY SMT DEF NoFault, Fault

\* What the handler of path p does to the variables that are its own.
Moves(p) ==
    /\ pc' = [pc EXCEPT ![p] = pc'[p]] /\ pc'[p] \in PC
    /\ cnt' = [cnt EXCEPT ![p] = cnt'[p]] /\ cnt'[p] \in Nat
    /\ reply' = [reply EXCEPT ![p] = reply'[p]] /\ reply'[p] \in Replies
    /\ phase' = [phase EXCEPT ![p] = phase'[p]] /\ phase'[p] \in Phases

HostTypeOK ==
    /\ session \in BOOLEAN /\ device \in BOOLEAN
    /\ config \in {"none", "good", "bad"}
    /\ dirs \in SUBSET Paths /\ mounted \in SUBSET Paths

LEMMA GotoMoves ==
    ASSUME TypeOK, NEW p \in Paths,
           \/ \E c \in PC : Goto(p, c)
           \/ \E r \in Replies : Answer(p, r)
    PROVE  Moves(p)
BY DEF TypeOK, Goto, Answer, Moves, PC

LEMMA RunType ==
    ASSUME TypeOK, NEW p \in Paths, Run(p)
    PROVE  Moves(p) /\ HostTypeOK' /\ (NoFault \/ Fault)
<1> USE DEF TypeOK, HostTypeOK, hostVars, PC, PublishPC, UnpublishPC, Replies
<1>1. CASE Connect(p)
      BY <1>1, GotoMoves DEF Connect
<1>2. CASE CheckMountPoint(p)
      BY <1>2, GotoMoves DEF CheckMountPoint, AlreadyMounted
<1>3. CASE MkdirAll(p)
      BY <1>3, GotoMoves DEF MkdirAll, AfterMkdir
<1>4. CASE PersistConnector(p)
      BY <1>4, GotoMoves DEF PersistConnector
<1>5. CASE FormatAndMount(p)
      BY <1>5, GotoMoves, Zenon DEF FormatAndMount, NoFault
<1>6. CASE GetDeviceName(p)
  <2>1. Refs(p) \in Nat
        BY MountedFinite DEF Refs
  <2>2. CASE \E r \in Replies : Answer(p, r)
        BY <1>6, <2>2, GotoMoves DEF GetDeviceName
  <2>3. CASE cnt' = [cnt EXCEPT ![p] = Refs(p)]
        BY <1>6, <2>1, <2>3 DEF GetDeviceName, Moves, Answer
  <2>4. QED  BY <1>6, <2>2, <2>3 DEF GetDeviceName
<1>7. CASE PathExists(p)
      BY <1>7, GotoMoves DEF PathExists, NoPath
<1>8. CASE GetConnector(p)
      BY <1>8, GotoMoves DEF GetConnector
<1>9. CASE Unmount(p)
      BY <1>9, GotoMoves DEF Unmount, UnmountFailed
<1>10. CASE DisconnectVolume(p)
      BY <1>10, GotoMoves DEF DisconnectVolume
<1>11. CASE Disconnect(p)
      BY <1>11, GotoMoves DEF Disconnect
<1>12. CASE RemoveAll(p)
      BY <1>12, GotoMoves DEF RemoveAll
<1>13. CASE RemoveConfig(p)
      BY <1>13, GotoMoves DEF RemoveConfig
<1>14. CASE Deliver(p)
      BY <1>14 DEF Deliver, Moves, Phases, NoFault
<1>15. QED  BY <1>1, <1>2, <1>3, <1>4, <1>5, <1>6, <1>7, <1>8, <1>9, <1>10,
               <1>11, <1>12, <1>13, <1>14 DEF Run, AttachDisk, DetachDisk

LEMMA TypeInit == Init => TypeOK
<1> SUFFICES ASSUME Init
             PROVE  TypeOK
    OBVIOUS
<1>1. session \in BOOLEAN /\ device \in BOOLEAN /\ crossed \in BOOLEAN
      BY Zenon DEF Init
<1>2. QED  BY <1>1 DEF Init, TypeOK, PC, Replies, Phases

LEMMA TypeStep == TypeOK /\ [Next]_vars => TypeOK'
<1> SUFFICES ASSUME TypeOK, [Next]_vars
             PROVE  TypeOK'
    OBVIOUS
<1>1. ASSUME NEW p \in Paths, Want(p) \/ Release(p)
      PROVE  TypeOK'
      BY <1>1 DEF Want, Release, TypeOK, hostVars, handlerVars, Phases, NoFault
<1>2. ASSUME NEW p \in Paths, NodePublishVolume(p) \/ NodeUnpublishVolume(p)
      PROVE  TypeOK'
  <2>1. crossed' \in BOOLEAN
        BY <1>2, Zenon DEF NodePublishVolume, NodeUnpublishVolume, TypeOK
  <2>2. QED  BY <1>2, <2>1
             DEF NodePublishVolume, NodeUnpublishVolume, Call, Goto, TypeOK,
                 hostVars, PC, PublishPC, UnpublishPC
<1>3. ASSUME NEW p \in Paths, Run(p)
      PROVE  TypeOK'
  <2>1. /\ Moves(p) /\ HostTypeOK'
        /\ faults' \in 0..MaxFaults /\ crossed' = crossed
        BY <1>3, RunType, FaultType DEF TypeOK
  <2>2. QED  BY <2>1 DEF Moves, HostTypeOK, TypeOK
<1>4. CASE Restart
  <2>1. faults' \in 0..MaxFaults /\ crossed' = crossed
        BY <1>4, FaultType DEF Restart, TypeOK
  <2>2. QED  BY <1>4, <2>1 DEF Restart, TypeOK, hostVars, PC, Replies
<1>5. CASE UNCHANGED vars
      BY <1>5 DEF vars, hostVars, handlerVars, TypeOK
<1>6. QED  BY <1>1, <1>2, <1>3, <1>4, <1>5 DEF Next

\* Whatever fails, however calls overlap, every variable keeps its type.
THEOREM TypeCorrect == Spec => []TypeOK
BY TypeInit, TypeStep, PTL DEF Spec

-----------------------------------------------------------------------------
(* However calls overlap, no mounted path is removed *)

\* A handler that has unmounted its path is the only one that could mount
\* anything there again.
Unmounted ==
    \A p \in Paths :
        pc[p] \in {"disconnectVolume", "disconnect", "removeAll"} =>
            p \notin mounted

LEMMA UnmountedStep ==
    ASSUME TypeOK, Unmounted, [Next]_vars
    PROVE  Unmounted'
<1> USE DEF Unmounted, TypeOK, hostVars, Goto, Answer
<1>1. ASSUME NEW p \in Paths, Want(p) \/ Release(p)
      PROVE  Unmounted'
      BY <1>1 DEF Want, Release, handlerVars
<1>2. ASSUME NEW p \in Paths, NodePublishVolume(p) \/ NodeUnpublishVolume(p)
      PROVE  Unmounted'
      BY <1>2 DEF NodePublishVolume, NodeUnpublishVolume, Call
<1>3. ASSUME NEW p \in Paths, AttachDisk(p)
      PROVE  Unmounted'
      BY <1>3 DEF AttachDisk, Connect, CheckMountPoint, MkdirAll, AfterMkdir,
                  PersistConnector, FormatAndMount
<1>4. ASSUME NEW p \in Paths, DetachDisk(p)
      PROVE  Unmounted'
      BY <1>4 DEF DetachDisk, GetDeviceName, PathExists, GetConnector, Unmount,
                  UnmountFailed, DisconnectVolume, Disconnect, RemoveAll,
                  RemoveConfig
<1>5. ASSUME NEW p \in Paths, Deliver(p)
      PROVE  Unmounted'
      BY <1>5 DEF Deliver
<1>6. CASE Restart \/ UNCHANGED vars
      BY <1>6 DEF Restart, vars, handlerVars
<1>7. QED  BY <1>1, <1>2, <1>3, <1>4, <1>5, <1>6 DEF Next, Run

\* RemoveAll never runs on a mounted path, for any number of overlapping
\* calls, faults and restarts.
THEOREM DataIsSafe == Spec => []NeverRemovesData
<1>1. Init => Unmounted
      BY DEF Init, Unmounted
<1>2. TypeOK /\ Unmounted /\ [Next]_vars => Unmounted'
      BY UnmountedStep
<1>3. Unmounted => NeverRemovesData
      BY DEF Unmounted, NeverRemovesData
<1>4. QED  BY <1>1, <1>2, <1>3, TypeCorrect, PTL DEF Spec

-----------------------------------------------------------------------------
(* Publishes and unpublishes kept apart *)

\* What every handler needs of the host, and what the pods do.
HostInv ==
    /\ mounted # {} => device /\ session /\ config # "none"
    /\ mounted \subseteq dirs
    /\ \A p \in Paths :
          /\ phase[p] = "published" => p \in mounted
          /\ phase[p] \in {"new", "gone"} => p \notin mounted

\* The last mount leaves nothing mounted.
LEMMA LastMount ==
    ASSUME mounted \in SUBSET Paths, NEW p \in mounted
    PROVE  Cardinality(mounted) <= 1 <=> mounted \ {p} = {}
<1>1. /\ IsFiniteSet(mounted) /\ Cardinality(mounted) \in Nat
      /\ IsFiniteSet(mounted \ {p})
      /\ Cardinality(mounted \ {p}) = Cardinality(mounted) - 1
      /\ Cardinality(mounted \ {p}) \in Nat
      BY MountedFinite, FS_RemoveElement, FS_CardinalityType
<1>2. mounted \ {p} = {} <=> Cardinality(mounted \ {p}) = 0
      BY <1>1, FS_EmptySet
<1>3. QED  BY <1>1, <1>2

\* A pod that leaves takes no mount of the device away from the count of
\* another that is still there.
LEMMA RefsShrink ==
    ASSUME TypeOK, NEW q \in Paths, NEW p \in Paths,
           mounted' = mounted \/ mounted' = mounted \ {p},
           cnt[q] >= Refs(q), cnt'[q] = cnt[q], q # p
    PROVE  (cnt[q] >= Refs(q))'
<1>1. /\ IsFiniteSet(mounted) /\ mounted' \subseteq mounted
      /\ Cardinality(mounted) \in Nat
      BY MountedFinite DEF TypeOK
<1>2. Cardinality(mounted') \in Nat /\ Cardinality(mounted') <= Cardinality(mounted)
      BY <1>1, FS_Subset, FS_CardinalityType
<1>3. cnt[q] \in Nat /\ (q \in mounted' <=> q \in mounted)
      BY DEF TypeOK
<1>4. QED  BY <1>1, <1>2, <1>3 DEF Refs

\* A handler stays with the kind of call it serves.
LEMMA AttachKind ==
    ASSUME TypeOK, NEW p \in Paths, AttachDisk(p)
    PROVE  pc[p] \in PublishPC /\ pc'[p] \in PublishPC \cup {"done"}
BY DEF TypeOK, AttachDisk, Connect, CheckMountPoint, MkdirAll, AfterMkdir,
       PersistConnector, FormatAndMount, Goto, Answer, PublishPC

LEMMA DetachKind ==
    ASSUME TypeOK, NEW p \in Paths, DetachDisk(p)
    PROVE  pc[p] \in UnpublishPC /\ pc'[p] \in UnpublishPC \cup {"done"}
BY DEF TypeOK, DetachDisk, GetDeviceName, PathExists, GetConnector, Unmount,
       UnmountFailed, DisconnectVolume, Disconnect, RemoveAll, RemoveConfig,
       Goto, Answer, UnpublishPC

\* Where each step leaves the host and its own handler.
LEMMA AttachStep ==
    ASSUME TypeOK, HostInv, NEW p \in Paths, HandlerInv(p), AttachDisk(p)
    PROVE  HostInv' /\ HandlerInv(p)'
<1> USE DEF TypeOK, HostInv, HandlerInv, TearsDown, Goto, Answer, hostVars,
            PublishPC, UnpublishPC
<1>1. CASE Connect(p)
      BY <1>1 DEF Connect
<1>2. CASE CheckMountPoint(p)
      BY <1>2 DEF CheckMountPoint, AlreadyMounted
<1>3. CASE MkdirAll(p)
      BY <1>3 DEF MkdirAll, AfterMkdir
<1>4. CASE PersistConnector(p)
      BY <1>4 DEF PersistConnector
<1>5. CASE FormatAndMount(p)
      BY <1>5 DEF FormatAndMount
<1>6. QED  BY <1>1, <1>2, <1>3, <1>4, <1>5 DEF AttachDisk

\* An unmount that finds no other mount in its count was the last one,
\* however old the count is.
LEMMA UnmountStep ==
    ASSUME TypeOK, NEW p \in Paths, HandlerInv(p), Unmount(p)
    PROVE  /\ \/ UNCHANGED mounted
              \/ p \in mounted /\ mounted' = mounted \ {p}
           /\ pc'[p] = "disconnectVolume" =>
                 p \in mounted /\ mounted' = {}
           /\ pc'[p] \in {"disconnectVolume", "done"}
           /\ pc'[p] = "done" =>
                 \/ reply'[p] = "Internal"
                 \/ reply'[p] = "InUse" /\ p \notin mounted'
<1> USE DEF TypeOK, Goto, Answer
<1>1. CASE UNCHANGED mounted
      BY <1>1 DEF Unmount, UnmountFailed
<1>2. CASE p \in mounted /\ mounted' = mounted \ {p}
  <2>1. cnt[p] >= Cardinality(mounted) /\ cnt[p] \in Nat
        BY <1>2 DEF HandlerInv, Refs, Unmount
  <2>2. Cardinality(mounted) \in Nat
        BY MountedFinite
  <2>3. ~InUse(p) => mounted' = {}
        BY <1>2, <2>1, <2>2, LastMount DEF InUse
  <2>4. QED  BY <1>2, <2>3 DEF Unmount, UnmountFailed
<1>3. QED  BY <1>1, <1>2 DEF Unmount

LEMMA DetachStep ==
    ASSUME TypeOK, HostInv, NEW p \in Paths, HandlerInv(p), DetachDisk(p)
    PROVE  HostInv' /\ HandlerInv(p)'
<1> USE DEF TypeOK, HostInv, HandlerInv, TearsDown, Goto, Answer, hostVars,
            PublishPC, UnpublishPC
<1>1. CASE GetDeviceName(p)
  <2>1. Refs(p) \in Nat
        BY MountedFinite DEF Refs
  <2>2. QED  BY <1>1, <2>1 DEF GetDeviceName, Refs
<1>2. CASE PathExists(p)
      BY <1>2 DEF PathExists, NoPath, Refs
<1>3. CASE GetConnector(p)
      BY <1>3 DEF GetConnector, Refs
<1>4. CASE Unmount(p)
  <2>1. /\ phase[p] = "released" /\ pc[p] = "unmount"
        /\ UNCHANGED <<session, device, config, dirs, phase>>
        BY <1>4 DEF Unmount, UnmountFailed
  <2>2. QED  BY <1>4, <2>1, UnmountStep
<1>5. CASE DisconnectVolume(p)
      BY <1>5 DEF DisconnectVolume
<1>6. CASE Disconnect(p)
      BY <1>6 DEF Disconnect
<1>7. CASE RemoveAll(p)
      BY <1>7 DEF RemoveAll
<1>8. CASE RemoveConfig(p)
      BY <1>8 DEF RemoveConfig
<1>9. QED  BY <1>1, <1>2, <1>3, <1>4, <1>5, <1>6, <1>7, <1>8 DEF DetachDisk

LEMMA DeliverStep ==
    ASSUME TypeOK, HostInv, NEW p \in Paths, HandlerInv(p), Deliver(p)
    PROVE  HostInv' /\ HandlerInv(p)'
<1>1. /\ pc[p] = "done" /\ pc'[p] = "idle" /\ mounted' = mounted
      /\ UNCHANGED <<session, device, config>>
      BY DEF TypeOK, Deliver
<1>2. HandlerInv(p)'
      BY <1>1 DEF HandlerInv, TearsDown, PublishPC, UnpublishPC
<1>3. CASE reply[p] = "Internal"
  <2>1. phase' = phase /\ dirs \subseteq dirs' \cup {p}
        /\ (phase'[p] # "gone" => dirs' = dirs)
        BY <1>3 DEF Deliver
  <2>2. phase'[p] # "gone"
        BY <1>1, <2>1 DEF HandlerInv
  <2>3. QED  BY <1>1, <1>2, <2>1, <2>2 DEF HostInv
<1>4. CASE reply[p] # "Internal" /\ phase[p] = "wanted"
  <2>1. phase' = [phase EXCEPT ![p] = "published"] /\ dirs' = dirs
        BY <1>4 DEF Deliver, TypeOK
  <2>2. p \in mounted
        BY <1>1, <1>4 DEF HandlerInv
  <2>3. QED  BY <1>1, <1>2, <2>1, <2>2 DEF HostInv, TypeOK
<1>5. CASE reply[p] # "Internal" /\ phase[p] = "released"
  <2>1. phase' = [phase EXCEPT ![p] = "gone"] /\ dirs' = dirs \ {p}
        BY <1>5 DEF Deliver, TypeOK
  <2>2. p \notin mounted
        BY <1>1, <1>5 DEF HandlerInv
  <2>3. QED  BY <1>1, <1>2, <2>1, <2>2 DEF HostInv, TypeOK
<1>6. QED  BY <1>1, <1>3, <1>4, <1>5 DEF HandlerInv

\* What a handler knows survives the steps of the others.
LEMMA AttachOthers ==
    ASSUME TypeOK, NEW p \in Paths, HandlerInv(p), AttachDisk(p),
           NEW q \in Paths, q # p, HandlerInv(q), pc[q] \notin UnpublishPC
    PROVE  HandlerInv(q)'
<1>1. /\ pc'[q] = pc[q] /\ reply'[q] = reply[q] /\ phase' = phase
      BY RunType DEF Run, Moves, TypeOK, AttachDisk, Connect, CheckMountPoint,
         MkdirAll, PersistConnector, FormatAndMount, Goto, Answer
<1>2. /\ dirs \subseteq dirs'
      /\ config # "none" => config' # "none"
      /\ device /\ session => device' /\ session'
      /\ q \in mounted' <=> q \in mounted
      BY DEF TypeOK, AttachDisk, Connect, CheckMountPoint, MkdirAll,
             PersistConnector, FormatAndMount, hostVars
<1>3. pc[q] \notin {"pathExists", "getConnector", "unmount"} /\ ~TearsDown(q)
      BY DEF TearsDown, UnpublishPC
<1>4. QED  BY <1>1, <1>2, <1>3 DEF HandlerInv, TearsDown

LEMMA DetachOthers ==
    ASSUME TypeOK, NEW p \in Paths, HandlerInv(p), DetachDisk(p),
           NEW q \in Paths, q # p, HandlerInv(q), pc[q] \notin PublishPC
    PROVE  HandlerInv(q)'
<1>1. /\ pc'[q] = pc[q] /\ reply'[q] = reply[q] /\ cnt'[q] = cnt[q]
      BY RunType DEF Run, Moves, TypeOK
<1>2. /\ phase' = phase
      /\ mounted' = mounted \/ mounted' = mounted \ {p}
      BY DEF DetachDisk, GetDeviceName, PathExists, GetConnector, Unmount,
             UnmountFailed, DisconnectVolume, Disconnect, RemoveAll,
             RemoveConfig, Goto, Answer, hostVars
<1>3. cnt[q] >= Refs(q) => (cnt[q] >= Refs(q))'
      BY <1>1, <1>2, RefsShrink
<1>4. pc[q] \notin {"checkMount", "mkdir", "persist", "mount"}
      BY DEF PublishPC
<1>5. QED  BY <1>1, <1>2, <1>3, <1>4
           DEF HandlerInv, TearsDown, PublishPC

LEMMA DeliverOthers ==
    ASSUME TypeOK, NEW p \in Paths, Deliver(p),
           NEW q \in Paths, q # p, HandlerInv(q)
    PROVE  HandlerInv(q)'
<1>1. /\ pc'[q] = pc[q] /\ reply'[q] = reply[q] /\ cnt'[q] = cnt[q]
      /\ phase'[q] = phase[q]
      BY RunType DEF Run, Moves, TypeOK
<1>2. /\ UNCHANGED <<session, device, config, mounted>>
      /\ q \in dirs => q \in dirs'
      BY DEF Deliver
<1>3. QED  BY <1>1, <1>2 DEF HandlerInv, TearsDown, Refs

LEMMA ApartInit == Init => ApartInv
BY DEF Init, ApartInv, AtWork, OneTearsDown, HandlerInv, TearsDown, PublishPC,
       UnpublishPC

\* Calls of the two kinds stay apart, and handlers that tear down alone.
LEMMA KindStep ==
    ASSUME KeepApart, TypeOK, ApartInv, [Next]_vars
    PROVE  ~AtWork(PublishPC)' \/ ~AtWork(UnpublishPC)'
<1> USE DEF AtWork
<1>1. ASSUME NEW p \in Paths, Run(p)
      PROVE  ~AtWork(PublishPC)' \/ ~AtWork(UnpublishPC)'
  <2>1. pc' = [pc EXCEPT ![p] = pc'[p]] /\ pc \in [Paths -> PC]
        BY <1>1, RunType DEF Moves, TypeOK
  <2>2. /\ pc'[p] \in PublishPC => pc[p] \in PublishPC
        /\ pc'[p] \in UnpublishPC => pc[p] \in UnpublishPC
    <3>1. CASE AttachDisk(p)
          BY <3>1, AttachKind DEF PublishPC, UnpublishPC
    <3>2. CASE DetachDisk(p)
          BY <3>2, DetachKind DEF PublishPC, UnpublishPC
    <3>3. CASE Deliver(p)
          BY <2>1, <3>3 DEF Deliver, PublishPC, UnpublishPC
    <3>4. QED  BY <1>1, <3>1, <3>2, <3>3 DEF Run
  <2>3. \A q \in Paths : q # p => pc'[q] = pc[q]
        BY <2>1
  <2>4. QED  BY <2>2, <2>3 DEF ApartInv
<1>2. ASSUME NEW p \in Paths, NodePublishVolume(p)
      PROVE  ~AtWork(UnpublishPC)'
      BY <1>2 DEF NodePublishVolume, Call, Goto, TypeOK, UnpublishPC
<1>3. ASSUME NEW p \in Paths, NodeUnpublishVolume(p)
      PROVE  ~AtWork(PublishPC)'
      BY <1>3 DEF NodeUnpublishVolume, Call, Goto, TypeOK, PublishPC
<1>4. CASE Restart
      BY <1>4 DEF Restart, PublishPC
<1>5. CASE \/ \E p \in Paths : Want(p) \/ Release(p)
           \/ UNCHANGED vars
      BY <1>5 DEF Want, Release, vars, handlerVars, ApartInv
<1>6. QED  BY <1>1, <1>2, <1>3, <1>4, <1>5 DEF Next

LEMMA TearsDownStep ==
    ASSUME TypeOK, ApartInv, [Next]_vars
    PROVE  OneTearsDown'
<1>1. ASSUME pc' = pc
      PROVE  OneTearsDown'
      BY <1>1 DEF ApartInv, OneTearsDown, TearsDown
<1>2. ASSUME NEW p \in Paths, \A q \in Paths : q # p => pc'[q] = pc[q],
             TearsDown(p)' => TearsDown(p) \/ \A q \in Paths : ~TearsDown(q)
      PROVE  OneTearsDown'
      BY <1>2 DEF ApartInv, OneTearsDown, TearsDown
<1>3. ASSUME NEW p \in Paths, Run(p)
      PROVE  OneTearsDown'
  <2>1. \A q \in Paths : q # p => pc'[q] = pc[q]
        BY <1>3, RunType DEF Moves, TypeOK
  <2>2. CASE AttachDisk(p) \/ Deliver(p)
    <3>1. pc'[p] \in PublishPC \cup {"done", "idle"}
          BY <2>2, AttachKind DEF Deliver, TypeOK
    <3>2. ~TearsDown(p)'
          BY <3>1 DEF TearsDown, PublishPC
    <3>3. QED  BY <1>2, <2>1, <3>2
  <2>3. CASE Unmount(p)
    <3>1. HandlerInv(p)
          BY DEF ApartInv
    <3>2. TearsDown(p)' => p \in mounted
          BY <2>3, <3>1, UnmountStep DEF TearsDown
    <3>3. p \in mounted => \A q \in Paths : ~TearsDown(q)
          BY DEF ApartInv, HandlerInv
    <3>4. QED  BY <1>2, <2>1, <3>2, <3>3
  <2>4. CASE DetachDisk(p) /\ ~Unmount(p)
    <3>1. TearsDown(p)' => TearsDown(p)
          BY <2>4
          DEF DetachDisk, GetDeviceName, PathExists, GetConnector,
              DisconnectVolume, Disconnect, RemoveAll, RemoveConfig, Goto,
              Answer, TearsDown, TypeOK
    <3>2. QED  BY <1>2, <2>1, <3>1
  <2>5. QED  BY <1>3, <2>2, <2>3, <2>4 DEF Run
<1>4. ASSUME NEW p \in Paths, NodePublishVolume(p) \/ NodeUnpublishVolume(p)
      PROVE  OneTearsDown'
  <2>1. /\ \A q \in Paths : q # p => pc'[q] = pc[q]
        /\ ~TearsDown(p)'
        BY <1>4 DEF NodePublishVolume, NodeUnpublishVolume, Call, Goto, TypeOK,
                    TearsDown
  <2>2. QED  BY <1>2, <2>1
<1>5. ASSUME NEW p \in Paths, Want(p) \/ Release(p)
      PROVE  OneTearsDown'
      BY <1>1, <1>5 DEF Want, Release, handlerVars
<1>6. CASE Restart
      BY <1>6 DEF Restart, OneTearsDown, TearsDown
<1>7. CASE UNCHANGED vars
      BY <1>1, <1>7 DEF vars, handlerVars
<1>8. QED  BY <1>3, <1>4, <1>5, <1>6, <1>7 DEF Next

LEMMA KnowsStep ==
    ASSUME TypeOK, ApartInv, [Next]_vars
    PROVE  HostInv' /\ \A p \in Paths : HandlerInv(p)'
<1>1. HostInv /\ \A p \in Paths : HandlerInv(p)
      BY DEF ApartInv, HostInv
<1>2. ASSUME NEW p \in Paths, Run(p)
      PROVE  HostInv' /\ \A q \in Paths : HandlerInv(q)'
  <2>1. HostInv' /\ HandlerInv(p)'
        BY <1>1, <1>2, AttachStep, DetachStep, DeliverStep DEF Run
  <2>2. ASSUME NEW q \in Paths, q # p
        PROVE  HandlerInv(q)'
    <3>1. CASE AttachDisk(p)
      <4>1. pc[q] \notin UnpublishPC
            BY <3>1, AttachKind DEF ApartInv, AtWork
      <4>2. QED  BY <1>1, <2>2, <3>1, <4>1, AttachOthers
    <3>2. CASE DetachDisk(p)
      <4>1. pc[q] \notin PublishPC
            BY <3>2, DetachKind DEF ApartInv, AtWork
      <4>2. QED  BY <1>1, <2>2, <3>2, <4>1, DetachOthers
    <3>3. CASE Deliver(p)
          BY <1>1, <2>2, <3>3, DeliverOthers
    <3>4. QED  BY <1>2, <3>1, <3>2, <3>3 DEF Run
  <2>3. QED  BY <2>1, <2>2
<1>3. ASSUME NEW p \in Paths, NodePublishVolume(p) \/ NodeUnpublishVolume(p)
      PROVE  HostInv' /\ \A q \in Paths : HandlerInv(q)'
  <2>1. /\ pc' = [pc EXCEPT ![p] = pc'[p]] /\ pc'[p] \in {"connect", "getDevice"}
        /\ pc'[p] = "connect" => phase[p] = "wanted"
        /\ pc'[p] = "getDevice" => phase[p] = "released"
        /\ UNCHANGED <<hostVars, cnt, reply, phase>>
        BY <1>3 DEF NodePublishVolume, NodeUnpublishVolume, Call, Goto, TypeOK
  <2>2. ASSUME NEW q \in Paths
        PROVE  HandlerInv(q)'
        BY <1>1, <2>1
        DEF HandlerInv, TearsDown, Refs, hostVars, TypeOK, PublishPC, UnpublishPC
  <2>3. QED  BY <1>1, <2>1, <2>2 DEF HostInv, hostVars
<1>4. ASSUME NEW p \in Paths, Want(p) \/ Release(p)
      PROVE  HostInv' /\ \A q \in Paths : HandlerInv(q)'
      BY <1>1, <1>4
      DEF Want, Release, HostInv, HandlerInv, TearsDown, handlerVars, hostVars,
          TypeOK, PublishPC, UnpublishPC, Refs
<1>5. CASE Restart
      BY <1>1, <1>5 DEF Restart, HostInv, HandlerInv, TearsDown, hostVars,
                        PublishPC, UnpublishPC
<1>6. CASE UNCHANGED vars
      BY <1>1, <1>6
      DEF vars, hostVars, handlerVars, HostInv, HandlerInv, TearsDown, Refs
<1>7. QED  BY <1>2, <1>3, <1>4, <1>5, <1>6 DEF Next

\* With publishes and unpublishes kept apart, what is mounted can be used and
\* unmounted, no count of a handler is too low, and one at most tears down,
\* whatever fails or restarts.
THEOREM ApartInvariance ==
    ASSUME KeepApart
    PROVE  Spec => [](TypeOK /\ ApartInv)
<1>1. TypeOK /\ ApartInv /\ [Next]_vars => ApartInv'
  <2> SUFFICES ASSUME TypeOK, ApartInv, [Next]_vars
               PROVE  ApartInv'
      OBVIOUS
  <2>1. QED  BY KindStep, TearsDownStep, KnowsStep DEF ApartInv, HostInv
<1>2. QED  BY <1>1, TypeCorrect, ApartInit, PTL DEF Spec

\* With publishes and unpublishes kept apart, a pod whose volume was published
\* has it mounted on a live session, and no volume in use is disconnected.
THEOREM PublishedStaysMounted ==
    ASSUME KeepApart
    PROVE  Spec => [](PublishedIsMounted /\ DisconnectsUnused)
<1>1. ApartInv => PublishedIsMounted /\ DisconnectsUnused
      BY DEF ApartInv, HandlerInv, TearsDown, PublishedIsMounted,
             DisconnectsUnused
<1>2. QED  BY <1>1, ApartInvariance, PTL

\* However many pods leave at the same time, at most one of their handlers
\* disconnects the volume and removes its connector file.
THEOREM OnlyOneTearsDown ==
    ASSUME KeepApart
    PROVE  Spec => []OneTearsDown
<1>1. ApartInv => OneTearsDown
      BY DEF ApartInv
<1>2. QED  BY <1>1, ApartInvariance, PTL

-----------------------------------------------------------------------------
(* The last pod to leave disconnects the volume, unless something failed *)

\* Nothing has failed, and no two pods have left at the same time.
Undisturbed == faults = 0 /\ ~crossed

LEMMA LastOneAttach ==
    ASSUME TypeOK, ApartInv, LastOneInv, Undisturbed, NEW p \in Paths,
           AttachDisk(p), NoFault
    PROVE  LastOneInv'
<1>1. /\ pc' = [pc EXCEPT ![p] = pc'[p]]
      /\ \A q \in Paths : pc'[q] \notin UnpublishPC
  <2>1. /\ pc' = [pc EXCEPT ![p] = pc'[p]] /\ pc'[p] \notin UnpublishPC
        BY RunType, AttachKind DEF Run, Moves, PublishPC, UnpublishPC
  <2>2. \A q \in Paths : pc[q] \notin UnpublishPC
        BY AttachKind DEF ApartInv, AtWork
  <2>3. QED  BY <2>1, <2>2 DEF TypeOK
<1>2. \/ pc'[p] \in HalfWay
      \/ mounted' # {}
  <2>1. HandlerInv(p) /\ ~Fault
        BY DEF ApartInv, NoFault, Fault, Undisturbed
  <2>2. QED  BY <2>1
             DEF AttachDisk, Connect, CheckMountPoint, MkdirAll, AfterMkdir,
                 PersistConnector, FormatAndMount, Goto, Answer, HandlerInv,
                 HalfWay, PublishPC, TypeOK, hostVars
<1>3. \A q \in Paths : pc'[q] \notin {"pathExists", "getConnector", "unmount",
                                      "removeAll", "removeConfig"}
      BY <1>1 DEF UnpublishPC
<1>4. QED  BY <1>1, <1>2, <1>3 DEF LastOneInv

\* Where each step of the only handler that tears down leaves the host.
LEMMA LastOneDetach ==
    ASSUME TypeOK, ApartInv, LastOneInv, Undisturbed, NEW p \in Paths,
           DetachDisk(p), NoFault
    PROVE  LastOneInv'
<1>1. /\ pc' = [pc EXCEPT ![p] = pc'[p]] /\ pc[p] \in UnpublishPC
      /\ cnt' = [cnt EXCEPT ![p] = cnt'[p]]
      BY RunType, DetachKind DEF Run, Moves
<1>2. \A q \in Paths : q # p => pc'[q] = pc[q] /\ pc[q] \notin UnpublishPC
      BY <1>1 DEF LastOneInv, Undisturbed, TypeOK
<1>3. /\ pc[p] \in {"pathExists", "getConnector", "unmount"} => cnt[p] = Refs(p)
      /\ pc[p] \in {"removeAll", "removeConfig"} => ~session /\ ~device
      BY DEF LastOneInv, Undisturbed
<1>4. HandlerInv(p) /\ ~Fault
      BY DEF ApartInv, NoFault, Fault, Undisturbed
<1>5. /\ pc'[p] \in {"pathExists", "getConnector", "unmount"} => (cnt[p] = Refs(p))'
      /\ pc'[p] \in {"removeAll", "removeConfig"} => ~session' /\ ~device'
  <2> USE DEF TypeOK, Goto, Answer, hostVars, Refs
  <2>1. CASE GetDeviceName(p)
        BY <2>1 DEF GetDeviceName
  <2>2. CASE PathExists(p)
        BY <1>3, <2>2 DEF PathExists
  <2>3. CASE GetConnector(p)
        BY <1>3, <2>3 DEF GetConnector
  <2>4. CASE Unmount(p)
        BY <2>4 DEF Unmount, UnmountFailed
  <2>5. CASE DisconnectVolume(p)
        BY <2>5 DEF DisconnectVolume
  <2>6. CASE Disconnect(p)
        BY <1>4, <2>6 DEF Disconnect
  <2>7. CASE RemoveAll(p)
        BY <1>3, <2>7 DEF RemoveAll
  <2>8. CASE RemoveConfig(p)
        BY <2>8 DEF RemoveConfig
  <2>9. QED  BY <2>1, <2>2, <2>3, <2>4, <2>5, <2>6, <2>7, <2>8 DEF DetachDisk
<1>6. \/ pc'[p] \in HalfWay
      \/ mounted' # {}
      \/ UNCHANGED <<mounted, session, device, config>> /\ pc[p] \notin HalfWay
      \/ ~session' /\ ~device' /\ config' = "none"
  <2>1. CASE Unmount(p) /\ p \in mounted /\ mounted' = mounted \ {p}
    <3>1. cnt[p] = Cardinality(mounted) /\ Cardinality(mounted) \in Nat
          BY <1>3, <2>1, MountedFinite DEF Unmount, Refs, TypeOK
    <3>2. p \in mounted => Cardinality(mounted) >= 1
          BY <3>1, MountedFinite, FS_EmptySet DEF TypeOK
    <3>3. InUse(p) => mounted' # {}
          BY <2>1, <3>1, <3>2, LastMount DEF InUse, TypeOK
    <3>4. QED  BY <2>1, <3>3 DEF Unmount, Goto, HalfWay, TypeOK
  <2>2. CASE Unmount(p) /\ UNCHANGED mounted
        BY <2>2, <1>4 DEF Unmount, UnmountFailed, HalfWay
  <2>3. CASE GetDeviceName(p) \/ PathExists(p) \/ GetConnector(p)
        BY <2>3 DEF GetDeviceName, PathExists, GetConnector, hostVars, HalfWay
  <2>4. CASE DisconnectVolume(p) \/ Disconnect(p) \/ RemoveAll(p)
        BY <2>4, <1>4 DEF DisconnectVolume, Disconnect, RemoveAll, Goto,
                          HalfWay, TypeOK
  <2>5. CASE RemoveConfig(p)
        BY <2>5, <1>3, <1>4 DEF RemoveConfig
  <2>6. QED  BY <2>1, <2>2, <2>3, <2>4, <2>5 DEF DetachDisk, Unmount
<1>7. ASSUME mounted' = {}, \A q \in Paths : pc'[q] \notin HalfWay
      PROVE  ~session' /\ ~device' /\ config' = "none"
  <2>1. CASE UNCHANGED <<mounted, session, device, config>> /\ pc[p] \notin HalfWay
    <3>1. \A q \in Paths : pc[q] \notin HalfWay
          BY <1>2, <1>7, <2>1
    <3>2. QED  BY <1>7, <2>1, <3>1 DEF LastOneInv, Undisturbed
  <2>2. QED  BY <1>6, <1>7, <2>1
<1>8. \A q \in Paths : q # p => pc'[q] \notin UnpublishPC
      BY <1>2
<1>9. \A q \in Paths : q # p =>
          pc'[q] \notin {"pathExists", "getConnector", "unmount", "removeAll",
                         "removeConfig"}
      BY <1>8 DEF UnpublishPC
<1>10. QED  BY <1>5, <1>7, <1>8, <1>9 DEF LastOneInv

LEMMA LastOneStep ==
    ASSUME KeepApart, TypeOK, ApartInv, LastOneInv, [Next]_vars
    PROVE  LastOneInv'
<1> SUFFICES ASSUME Undisturbed'
             PROVE  LastOneInv'
    BY DEF LastOneInv, Undisturbed
<1>1. ~Fault
      BY SMT DEF Fault, TypeOK, Undisturbed
<1>2. ASSUME NEW p \in Paths, Run(p)
      PROVE  LastOneInv'
  <2>1. NoFault /\ Undisturbed
        BY <1>1, <1>2, RunType DEF NoFault, Undisturbed
  <2>2. CASE AttachDisk(p)
        BY <2>1, <2>2, LastOneAttach
  <2>3. CASE DetachDisk(p)
        BY <2>1, <2>3, LastOneDetach
  <2>4. CASE Deliver(p)
    <3>1. /\ UNCHANGED <<session, device, config, mounted>>
          /\ pc[p] = "done" /\ pc' = [pc EXCEPT ![p] = "idle"]
          /\ cnt' = [cnt EXCEPT ![p] = 0]
          BY <2>4 DEF Deliver
    <3>2. /\ "idle" \notin UnpublishPC \cup HalfWay
          /\ "done" \notin HalfWay
          BY DEF UnpublishPC, HalfWay
    <3>3. \A q \in Paths : q # p => pc'[q] = pc[q] /\ cnt'[q] = cnt[q]
          BY <3>1 DEF TypeOK
    <3>4. pc'[p] = "idle"
          BY <3>1 DEF TypeOK
    <3>5. QED  BY <2>1, <3>1, <3>2, <3>3, <3>4 DEF LastOneInv, Undisturbed, Refs
  <2>5. QED  BY <1>2, <2>2, <2>3, <2>4 DEF Run
<1>3. ASSUME NEW p \in Paths, NodePublishVolume(p) \/ NodeUnpublishVolume(p)
      PROVE  LastOneInv'
  <2>1. /\ UNCHANGED <<session, device, config, mounted, cnt>>
        /\ pc[p] = "idle" /\ pc'[p] \in {"connect", "getDevice"}
        /\ \A q \in Paths : q # p => pc'[q] = pc[q]
        /\ pc'[p] = "getDevice" => \A q \in Paths : pc[q] \notin UnpublishPC
    <3>1. /\ UNCHANGED <<session, device, config, mounted, cnt>>
          /\ pc[p] = "idle" /\ pc'[p] \in {"connect", "getDevice"}
          /\ \A q \in Paths : q # p => pc'[q] = pc[q]
          BY <1>3 DEF NodePublishVolume, NodeUnpublishVolume, Call, Goto,
                      hostVars, TypeOK
    <3>2. CASE NodePublishVolume(p)
          BY <3>1, <3>2 DEF NodePublishVolume, Call, Goto, TypeOK
    <3>3. CASE NodeUnpublishVolume(p)
          BY <3>1, <3>3 DEF NodeUnpublishVolume, AtWork, Undisturbed
    <3>4. QED  BY <1>3, <3>1, <3>2, <3>3
  <2>2. Undisturbed
    <3>1. faults' = faults
          BY <1>3 DEF NodePublishVolume, NodeUnpublishVolume, Call
    <3>2. crossed => crossed'
          BY <1>3, Zenon DEF NodePublishVolume, NodeUnpublishVolume
    <3>3. QED  BY <3>1, <3>2 DEF Undisturbed
  <2>3. /\ "idle" \notin HalfWay
        /\ {"connect", "getDevice"} \cap HalfWay = {}
        /\ "connect" \notin UnpublishPC
        BY DEF UnpublishPC, HalfWay
  <2>4. QED  BY <2>1, <2>2, <2>3 DEF LastOneInv, Undisturbed, Refs
<1>4. ASSUME NEW p \in Paths, Want(p) \/ Release(p)
      PROVE  LastOneInv'
      BY <1>4 DEF Want, Release, LastOneInv, handlerVars, hostVars, NoFault,
                  Refs
<1>5. CASE Restart
      BY <1>1, <1>5 DEF Restart
<1>6. CASE UNCHANGED vars
      BY <1>6 DEF vars, hostVars, handlerVars, LastOneInv, Refs
<1>7. QED  BY <1>2, <1>3, <1>4, <1>5, <1>6 DEF Next

\* As long as nothing failed and no two pods left at once, a volume that is
\* mounted nowhere and that no handler has half way is not connected.
THEOREM LastOneInvariance ==
    ASSUME KeepApart
    PROVE  Spec => []LastOneInv
<1>1. Init => LastOneInv
      BY DEF Init, LastOneInv, HalfWay, UnpublishPC
<1>2. TypeOK /\ ApartInv /\ LastOneInv /\ [Next]_vars => LastOneInv'
      BY LastOneStep
<1>3. QED  BY <1>1, <1>2, ApartInvariance, PTL DEF Spec

\* As long as nothing failed and no two pods left at once, when the last pod
\* has left there is no session, no device and no connector file.
THEOREM LastOneDisconnects ==
    ASSUME KeepApart
    PROVE  Spec => []LastOneOut
<1>1. TypeOK /\ ApartInv /\ LastOneInv => LastOneOut
  <2> SUFFICES ASSUME TypeOK, ApartInv, LastOneInv, faults = 0, ~crossed, Quiet
               PROVE  ~session /\ ~device /\ config = "none" /\ mounted = {}
      BY DEF LastOneOut
  <2>1. mounted = {}
        BY DEF Quiet, ApartInv, TypeOK
  <2>2. \A p \in Paths : pc[p] \notin HalfWay
        BY DEF Quiet, HalfWay
  <2>3. QED  BY <2>1, <2>2 DEF LastOneInv
<1>2. QED  BY <1>1, ApartInvariance, LastOneInvariance, PTL

-----------------------------------------------------------------------------
(* The node service implements VolumeService *)

LEMMA InitImplements == Init => Service!Init
BY DEF Init, Service!Init, Believed, Usable

\* A step that mounts or unmounts at most the path p, for the pod it serves.
LEMMA MountImplements ==
    ASSUME TypeOK, HostInv, HostInv', NEW p \in Paths, UNCHANGED phase,
           \/ mounted' = mounted
           \/ phase[p] = "wanted" /\ mounted' = mounted \cup {p}
           \/ phase[p] = "released" /\ mounted' = mounted \ {p}
    PROVE  [Service!Next]_<<Believed, Usable>>
<1>1. Usable = mounted /\ Usable' = mounted' /\ Believed' = Believed
      BY DEF HostInv, Usable, Believed
<1>2. CASE mounted' = mounted
      BY <1>1, <1>2
<1>3. CASE phase[p] = "wanted" /\ mounted' = mounted \cup {p}
  <2>1. Service!Provision(p)
        BY <1>1, <1>3 DEF Service!Provision, Believed
  <2>2. QED  BY <2>1 DEF Service!Next
<1>4. CASE phase[p] = "released" /\ mounted' = mounted \ {p}
  <2>1. Service!Unprovision(p)
        BY <1>1, <1>4 DEF Service!Unprovision, Believed
  <2>2. QED  BY <2>1 DEF Service!Next
<1>5. QED  BY <1>2, <1>3, <1>4

\* A step that leaves the mounts and moves on the pod of p.
LEMMA PhaseImplements ==
    ASSUME TypeOK, HostInv, HostInv', NEW p \in Paths, UNCHANGED mounted,
           NEW to \in Phases, phase' = [phase EXCEPT ![p] = to],
           \/ phase[p] = to
           \/ phase[p] = "new" /\ to = "wanted"
           \/ phase[p] = "wanted" /\ to = "published"
           \/ phase[p] \in {"wanted", "published"} /\ to = "released"
           \/ phase[p] = "released" /\ to = "gone"
    PROVE  [Service!Next]_<<Believed, Usable>>
<1> USE DEF TypeOK
<1>1. Usable = mounted /\ Usable' = mounted
      BY DEF HostInv, Usable
<1>2. Believed' = [Believed EXCEPT ![p] = Believed'[p]]
      BY DEF Believed
<1>3. CASE phase[p] = to
      BY <1>1, <1>3 DEF Believed
<1>4. CASE phase[p] = "new" /\ to = "wanted"
  <2>1. Believed[p] = "unwanted" /\ Believed'[p] = "wanted"
        BY <1>4 DEF Believed
  <2>2. Service!Want(p)
        BY <1>1, <1>2, <2>1 DEF Service!Want, Service!Move
  <2>3. QED  BY <2>2 DEF Service!Next
<1>5. CASE phase[p] = "wanted" /\ to = "published"
  <2>1. Believed[p] = "wanted" /\ Believed'[p] = "bound" /\ p \in mounted
        BY <1>5 DEF Believed, HostInv
  <2>2. Service!Bind(p)
        BY <1>1, <1>2, <2>1 DEF Service!Bind, Service!Move
  <2>3. QED  BY <2>2 DEF Service!Next
<1>6. CASE phase[p] \in {"wanted", "published"} /\ to = "released"
  <2>1. Believed[p] \in {"wanted", "bound"} /\ Believed'[p] = "released"
        BY <1>6 DEF Believed
  <2>2. Service!Release(p)
        BY <1>1, <1>2, <2>1 DEF Service!Release, Service!Move
  <2>3. QED  BY <2>2 DEF Service!Next
<1>7. CASE phase[p] = "released" /\ to = "gone"
  <2>1. /\ Believed[p] = "released" /\ Believed'[p] = "unwanted"
        /\ p \notin mounted
        BY <1>7 DEF Believed, HostInv
  <2>2. Service!Forget(p)
        BY <1>1, <1>2, <2>1 DEF Service!Forget, Service!Move
  <2>3. QED  BY <2>2 DEF Service!Next
<1>8. QED  BY <1>3, <1>4, <1>5, <1>6, <1>7

LEMMA StepImplements ==
    ASSUME TypeOK, ApartInv, ApartInv', [Next]_vars
    PROVE  [Service!Next]_<<Believed, Usable>>
<1>1. HostInv /\ HostInv'
      BY DEF ApartInv, HostInv
<1>2. ASSUME NEW p \in Paths, AttachDisk(p) \/ DetachDisk(p)
      PROVE  [Service!Next]_<<Believed, Usable>>
  <2>1. /\ UNCHANGED phase
        /\ \/ mounted' = mounted
           \/ pc[p] = "mount" /\ mounted' = mounted \cup {p}
           \/ pc[p] = "unmount" /\ mounted' = mounted \ {p}
        BY <1>2
        DEF AttachDisk, Connect, CheckMountPoint, MkdirAll, PersistConnector,
            FormatAndMount, DetachDisk, GetDeviceName, PathExists,
            GetConnector, Unmount, UnmountFailed, DisconnectVolume,
            Disconnect, RemoveAll, RemoveConfig, Goto, Answer, hostVars
  <2>2. /\ pc[p] = "mount" => phase[p] = "wanted"
        /\ pc[p] = "unmount" => phase[p] = "released"
        BY DEF ApartInv, HandlerInv, PublishPC, UnpublishPC
  <2>3. QED  BY <1>1, <2>1, <2>2, MountImplements
<1>3. ASSUME NEW p \in Paths, Deliver(p)
      PROVE  [Service!Next]_<<Believed, Usable>>
  <2>1. /\ UNCHANGED mounted
        /\ phase[p] \in {"wanted", "released"}
        /\ \/ phase' = phase
           \/ /\ phase[p] = "wanted"
              /\ phase' = [phase EXCEPT ![p] = "published"]
           \/ /\ phase[p] = "released"
              /\ phase' = [phase EXCEPT ![p] = "gone"]
        BY <1>3 DEF Deliver, ApartInv, HandlerInv, TypeOK
  <2>2. QED  BY <1>1, <2>1, MountImplements, PhaseImplements DEF Phases
<1>4. ASSUME NEW p \in Paths, Want(p) \/ Release(p)
      PROVE  [Service!Next]_<<Believed, Usable>>
      BY <1>1, <1>4, PhaseImplements DEF Want, Release, hostVars, Phases
<1>5. CASE \/ \E p \in Paths : NodePublishVolume(p) \/ NodeUnpublishVolume(p)
           \/ Restart \/ UNCHANGED vars
  <2>1. UNCHANGED <<phase, mounted, device, session>>
        BY <1>5 DEF NodePublishVolume, NodeUnpublishVolume, Call, Goto,
                    Restart, vars, hostVars
  <2>2. UNCHANGED Believed
        BY <2>1 DEF Believed
  <2>3. UNCHANGED Usable
        BY <2>1 DEF Usable
  <2>4. QED  BY <2>2, <2>3
<1>6. QED  BY <1>2, <1>3, <1>4, <1>5 DEF Next, Run

\* With publishes and unpublishes kept apart, the node service is to the pods of a volume what
\* the controller is to the claims: a VolumeService.
THEOREM ApartRefinement ==
    ASSUME KeepApart
    PROVE  Spec => Implements
<1>1. /\ TypeOK /\ ApartInv /\ (TypeOK /\ ApartInv)' /\ [Next]_vars =>
            [Service!Next]_Service!serviceVars
      BY StepImplements DEF Service!serviceVars
<1>2. QED  BY <1>1, InitImplements, ApartInvariance, PTL
           DEF Spec, Implements, Service!Spec
=============================================================================
