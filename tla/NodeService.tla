---------------------------- MODULE NodeService -----------------------------
(***************************************************************************)
(* NodePublishVolume and NodeUnpublishVolume (driver/node.go) for one      *)
(* volume on one node: AttachDisk and DetachDisk of driver/iscsi_util.go,  *)
(* one action per call they make to the host.  Volumes share nothing on a  *)
(* node (each has its own IQN, device and connector file); the target      *)
(* paths of one volume, one per pod, share all of that.                    *)
(* The kubelet, the mount table, open-iscsi and csi-lib-iscsi are not part *)
(* of the repository.  A target path belongs to one pod and is used once;  *)
(* the kubelet has one call per target path outstanding, and any number of *)
(* paths.  The driver has no lock, but keeps its promises only if no       *)
(* publish is at work while an unpublish is: KeepApart.  The request       *)
(* itself is looked at in modules PublishRequest and Handover.             *)
(***************************************************************************)
EXTENDS Integers, FiniteSets

CONSTANTS
    Paths,      \* target paths
    KeepApart,  \* no publish is at work on the host while an unpublish is
    MaxFaults   \* bound on the calls that fail and on restarts of the driver

ASSUME PathsAssumption == IsFiniteSet(Paths)
ASSUME KeepApartAssumption == KeepApart \in BOOLEAN
ASSUME MaxFaultsAssumption == MaxFaults \in Nat

VARIABLES
    session,   \* the node is logged in to the target
    device,    \* the block device of the LUN is there
    config,    \* the connector file: "none", "good", or "bad" (half written)
    dirs,      \* target paths that exist
    mounted,   \* target paths on which the device is mounted
    pc,        \* the call the handler of a path makes next, "idle" if none
    cnt,       \* cnt of DetachDisk
    reply,     \* the answer of the handler
    phase,     \* what the kubelet believes about a path
    faults,
    crossed    \* history: an unpublish has started while another was at work

hostVars == <<session, device, config, dirs, mounted>>
handlerVars == <<pc, cnt, reply>>
vars == <<hostVars, handlerVars, phase, faults, crossed>>

PublishPC == {"connect", "checkMount", "mkdir", "persist", "mount"}
UnpublishPC == {"getDevice", "pathExists", "getConnector", "unmount",
                "disconnectVolume", "disconnect", "removeAll",
                "removeConfig"}
PC == {"idle", "done"} \cup PublishPC \cup UnpublishPC
Phases == {"new", "wanted", "published", "released", "gone"}
Replies == {"none", "OK", "InUse", "Internal"}

TypeOK ==
    /\ session \in BOOLEAN /\ device \in BOOLEAN
    /\ config \in {"none", "good", "bad"}
    /\ dirs \in SUBSET Paths /\ mounted \in SUBSET Paths
    /\ pc \in [Paths -> PC]
    /\ cnt \in [Paths -> Nat]
    /\ reply \in [Paths -> Replies]
    /\ phase \in [Paths -> Phases]
    /\ faults \in 0..MaxFaults /\ crossed \in BOOLEAN

Init ==
    /\ session = FALSE /\ device = FALSE /\ config = "none"
    /\ dirs = {} /\ mounted = {}
    /\ pc = [p \in Paths |-> "idle"]
    /\ cnt = [p \in Paths |-> 0]
    /\ reply = [p \in Paths |-> "none"]
    /\ phase = [p \in Paths |-> "new"]
    /\ faults = 0 /\ crossed = FALSE

-----------------------------------------------------------------------------

Goto(p, call) ==
    /\ pc' = [pc EXCEPT ![p] = call]
    /\ UNCHANGED <<cnt, reply, phase>>

Answer(p, r) ==
    /\ pc' = [pc EXCEPT ![p] = "done"]
    /\ reply' = [reply EXCEPT ![p] = r]
    /\ UNCHANGED <<cnt, phase>>

NoFault == UNCHANGED <<faults, crossed>>

Fault ==
    /\ faults < MaxFaults
    /\ faults' = faults + 1
    /\ UNCHANGED crossed

-----------------------------------------------------------------------------
\* AttachDisk

\* Connect logs in, if it is not yet, and waits for the device; both may
\* outlive an error.
Connect(p) ==
    /\ pc[p] = "connect"
    /\ \/ /\ session' = TRUE /\ device' = TRUE
          /\ NoFault /\ Goto(p, "checkMount")
       \/ /\ session' \in {session, TRUE} /\ device' \in {device, session'}
          /\ Fault /\ Answer(p, "Internal")
    /\ UNCHANGED <<config, dirs, mounted>>

\* Mutant: a volume that is mounted already is an error.
AlreadyMountedIsError == "Internal"

AlreadyMounted == "OK"

CheckMountPoint(p) ==
    /\ pc[p] = "checkMount"
    /\ \/ Fault /\ Answer(p, "Internal")
       \/ p \in mounted /\ NoFault /\ Answer(p, AlreadyMounted)
       \/ p \notin mounted /\ NoFault /\ Goto(p, "mkdir")
    /\ UNCHANGED hostVars

\* Mutant: nothing is persisted.
AfterMkdirMount == "mount"

AfterMkdir == "persist"

MkdirAll(p) ==
    /\ pc[p] = "mkdir"
    /\ \/ dirs' = dirs \cup {p} /\ NoFault /\ Goto(p, AfterMkdir)
       \/ UNCHANGED dirs /\ Fault /\ Answer(p, "Internal")
    /\ UNCHANGED <<session, device, config, mounted>>

\* The file is created anew and then written; a failure leaves the session.
PersistConnector(p) ==
    /\ pc[p] = "persist"
    /\ \/ config' = "good" /\ NoFault /\ Goto(p, "mount")
       \/ config' \in {config, "bad"} /\ Fault /\ Answer(p, "Internal")
    /\ UNCHANGED <<session, device, dirs, mounted>>

FormatAndMount(p) ==
    /\ pc[p] = "mount"
    /\ \/ device /\ mounted' = mounted \cup {p} /\ NoFault /\ Answer(p, "OK")
       \/ ~device /\ UNCHANGED mounted /\ NoFault /\ Answer(p, "Internal")
       \/ UNCHANGED mounted /\ Fault /\ Answer(p, "Internal")
    /\ UNCHANGED <<session, device, config, dirs>>

AttachDisk(p) ==
    \/ Connect(p) \/ CheckMountPoint(p) \/ MkdirAll(p)
    \/ PersistConnector(p) \/ FormatAndMount(p)

-----------------------------------------------------------------------------
\* DetachDisk

\* Mutant: the mount that is asked about is taken off the count.
RefsElsewhere(p) == Cardinality(mounted) - 1

\* GetDeviceNameFromMount: the mounts of the device that is mounted on p, or
\* 0 if none is.
Refs(p) == IF p \in mounted THEN Cardinality(mounted) ELSE 0

GetDeviceName(p) ==
    /\ pc[p] = "getDevice"
    /\ \/ /\ cnt' = [cnt EXCEPT ![p] = Refs(p)]
          /\ pc' = [pc EXCEPT ![p] = "pathExists"]
          /\ NoFault /\ UNCHANGED <<reply, phase>>
       \/ Fault /\ Answer(p, "Internal")
    /\ UNCHANGED hostVars

\* Mutant: a path that does not exist is an error.
NoPathIsError == "Internal"

NoPath == "OK"

PathExists(p) ==
    /\ pc[p] = "pathExists"
    /\ \/ p \notin dirs /\ NoFault /\ Answer(p, NoPath)
       \/ p \in dirs /\ NoFault /\ Goto(p, "getConnector")
       \/ Fault /\ Answer(p, "Internal")
    /\ UNCHANGED hostVars

\* Without a file the connection is assumed to be closed already.
GetConnector(p) ==
    /\ pc[p] = "getConnector"
    /\ \/ config = "none" /\ NoFault /\ Answer(p, "OK")
       \/ config = "good" /\ NoFault /\ Goto(p, "unmount")
       \/ config = "bad" /\ NoFault /\ Answer(p, "Internal")
       \/ Fault /\ Answer(p, "Internal")
    /\ UNCHANGED hostVars

\* Mutant: the other mounts of the device are not looked at.
InUseNever(p) == FALSE

\* Mutant: off by one.
InUseOffByOne(p) == cnt[p] - 1 > 1

\* What is left of the count of before, once this path is unmounted.
InUse(p) == cnt[p] - 1 # 0

\* Mutant: the error of umount is dropped.
UnmountFailedGoesOn(p) == Goto(p, "disconnectVolume")

UnmountFailed(p) == Answer(p, "Internal")

\* Unmounting what is not mounted fails.
Unmount(p) ==
    /\ pc[p] = "unmount"
    /\ \/ /\ p \in mounted /\ mounted' = mounted \ {p} /\ NoFault
          /\ \/ InUse(p) /\ Answer(p, "InUse")
             \/ ~InUse(p) /\ Goto(p, "disconnectVolume")
       \/ p \notin mounted /\ UNCHANGED mounted /\ NoFault /\ UnmountFailed(p)
       \/ UNCHANGED mounted /\ Fault /\ UnmountFailed(p)
    /\ UNCHANGED <<session, device, config, dirs>>

\* The device is flushed and removed; it may be gone in spite of an error.
DisconnectVolume(p) ==
    /\ pc[p] = "disconnectVolume"
    /\ \/ device' = FALSE /\ NoFault /\ Goto(p, "disconnect")
       \/ device' \in {FALSE, device} /\ Fault /\ Answer(p, "Internal")
    /\ UNCHANGED <<session, config, dirs, mounted>>

\* The logout has no result that is looked at.
Disconnect(p) ==
    /\ pc[p] = "disconnect"
    /\ \/ session' = FALSE /\ device' = FALSE /\ NoFault
       \/ UNCHANGED <<session, device>> /\ Fault
    /\ Goto(p, "removeAll")
    /\ UNCHANGED <<config, dirs, mounted>>

\* Neither has this one.
RemoveAll(p) ==
    /\ pc[p] = "removeAll"
    /\ \/ dirs' = dirs \ {p} /\ NoFault
       \/ UNCHANGED dirs /\ Fault
    /\ Goto(p, "removeConfig")
    /\ UNCHANGED <<session, device, config, mounted>>

RemoveConfig(p) ==
    /\ pc[p] = "removeConfig"
    /\ \/ config # "none" /\ config' = "none" /\ NoFault /\ Answer(p, "OK")
       \/ config = "none" /\ UNCHANGED config /\ NoFault
          /\ Answer(p, "Internal")
       \/ UNCHANGED config /\ Fault /\ Answer(p, "Internal")
    /\ UNCHANGED <<session, device, dirs, mounted>>

DetachDisk(p) ==
    \/ GetDeviceName(p) \/ PathExists(p) \/ GetConnector(p) \/ Unmount(p)
    \/ DisconnectVolume(p) \/ Disconnect(p) \/ RemoveAll(p)
    \/ RemoveConfig(p)

-----------------------------------------------------------------------------
\* The kubelet

Want(p) ==
    /\ phase[p] = "new"
    /\ phase' = [phase EXCEPT ![p] = "wanted"]
    /\ NoFault /\ UNCHANGED <<hostVars, handlerVars>>

\* The pod is deleted, whether its volume was mounted or not.
Release(p) ==
    /\ pc[p] = "idle"
    /\ phase[p] \in {"wanted", "published"}
    /\ phase' = [phase EXCEPT ![p] = "released"]
    /\ NoFault /\ UNCHANGED <<hostVars, handlerVars>>

Call(p, first) ==
    /\ pc[p] = "idle"
    /\ Goto(p, first)
    /\ UNCHANGED <<hostVars, faults>>

AtWork(calls) == \E p \in Paths : pc[p] \in calls

NodePublishVolume(p) ==
    /\ phase[p] = "wanted"
    /\ KeepApart => ~AtWork(UnpublishPC)
    /\ Call(p, "connect") /\ UNCHANGED crossed

NodeUnpublishVolume(p) ==
    /\ phase[p] = "released"
    /\ KeepApart => ~AtWork(PublishPC)
    /\ Call(p, "getDevice")
    /\ crossed' = (crossed \/ AtWork(UnpublishPC))

\* The kubelet removes the directory of a path that was unpublished; "the
\* device is in use" is logged, the answer is OK.
Deliver(p) ==
    /\ pc[p] = "done"
    /\ phase' = IF reply[p] = "Internal" THEN phase
                ELSE [phase EXCEPT ![p] =
                         IF @ = "wanted" THEN "published" ELSE "gone"]
    /\ dirs' = IF phase'[p] = "gone" THEN dirs \ {p} ELSE dirs
    /\ pc' = [pc EXCEPT ![p] = "idle"]
    /\ cnt' = [cnt EXCEPT ![p] = 0]
    /\ reply' = [reply EXCEPT ![p] = "none"]
    /\ NoFault /\ UNCHANGED <<session, device, config, mounted>>

\* The driver's pod restarts; the host is as the handlers left it.
Restart ==
    /\ \E p \in Paths : pc[p] # "idle"
    /\ Fault
    /\ pc' = [p \in Paths |-> "idle"]
    /\ cnt' = [p \in Paths |-> 0]
    /\ reply' = [p \in Paths |-> "none"]
    /\ UNCHANGED <<hostVars, phase>>

Run(p) == AttachDisk(p) \/ DetachDisk(p) \/ Deliver(p)

Next ==
    \/ \E p \in Paths : Want(p) \/ Release(p)
    \/ \E p \in Paths : NodePublishVolume(p) \/ NodeUnpublishVolume(p)
    \/ \E p \in Paths : Run(p)
    \/ Restart

Spec == Init /\ [][Next]_vars

\* To a pod, publishing is what provisioning is to a claim: the volume it
\* wants becomes live on its path, and stays so until the pod is deleted.
Believed ==
    [p \in Paths |-> CASE phase[p] \in {"new", "gone"} -> "unwanted"
                       [] phase[p] = "published" -> "bound"
                       [] OTHER -> phase[p]]

Usable == IF device /\ session THEN mounted ELSE {}

Service == INSTANCE VolumeService
           WITH Ids <- Paths, phase <- Believed, live <- Usable

Busy(p) == pc[p] # "idle"

\* Handlers run on, and the kubelet repeats what was not answered OK; it
\* waits longer and longer between two calls for a path, so that there are
\* times without any.  Pods come and go as they like.
FairSpec ==
    /\ Spec
    /\ []<>(\A p \in Paths : ~Busy(p))
    /\ \A p \in Paths :
          SF_vars(NodePublishVolume(p) \/ NodeUnpublishVolume(p) \/ Run(p))

-----------------------------------------------------------------------------
(* Properties *)

\* A pod whose volume was published has it mounted, on a device whose
\* session is up: nobody disconnects the volume under it.
PublishedIsMounted ==
    \A p \in Paths :
        phase[p] = "published" => p \in mounted /\ device /\ session

\* RemoveAll (iscsi_util.go:105) never runs on a path that is still mounted:
\* it would remove the data of the volume.
NeverRemovesData ==
    \A p \in Paths : pc[p] = "removeAll" => p \notin mounted

Quiet == \A p \in Paths : pc[p] = "idle" /\ phase[p] \in {"new", "gone"}

\* The last pod to leave logs out: when no pod uses the volume there is no
\* session, no device and no connector file, unless something failed, or two
\* pods have left at the same time (iscsi_util.go:66-95: each may find the
\* other's mount).
LastOneOut ==
    faults = 0 /\ ~crossed /\ Quiet =>
        ~session /\ ~device /\ config = "none" /\ mounted = {}

\* The volume is disconnected only if it is not "in use" (iscsi_util.go:93):
\* when DetachDisk goes on to DisconnectVolume no other pod has it mounted.
DisconnectsUnused ==
    \A p \in Paths : pc[p] = "disconnectVolume" => mounted = {}

TearsDown(p) ==
    pc[p] \in {"disconnectVolume", "disconnect", "removeAll", "removeConfig"}

\* Pods that leave at the same time each decide on a count of their own
\* (iscsi_util.go:66, 92): at most one of them disconnects the volume and
\* removes the connector file, however old the counts are.
OneTearsDown ==
    \A p, q \in Paths : TearsDown(p) /\ TearsDown(q) => p = q

\* The node service implements VolumeService for the pods of a volume.
Implements == Service!Spec

\* What a pod wants is published, unless the pod is deleted before.
WantedGetsPublished ==
    \A p \in Paths : phase[p] = "wanted" ~> phase[p] # "wanted"

\* "reliable Unpublish" (iscsi_util.go:44): a volume that is released gets
\* unpublished.
ReleasedGetsUnpublished ==
    \A p \in Paths : phase[p] = "released" ~> phase[p] = "gone"

\* It does unless a call fails or the driver restarts.
UnpublishedUnlessDisturbed ==
    \A p \in Paths : phase[p] = "released" ~> phase[p] = "gone" \/ faults > 0

-----------------------------------------------------------------------------
(* Why it is safe if publishes and unpublishes are kept apart *)

\* What a handler knows of the host is true of it; its count may be too high
\* by the pods that have left since, and never too low.
HandlerInv(p) ==
    /\ pc[p] \in PublishPC => phase[p] = "wanted"
    /\ pc[p] \in UnpublishPC => phase[p] = "released"
    /\ pc[p] = "done" =>
          /\ phase[p] \in {"wanted", "released"}
          /\ \/ reply[p] = "Internal"
             \/ reply[p] = "OK" /\ phase[p] = "wanted" /\ p \in mounted
             \/ /\ reply[p] \in {"OK", "InUse"}
                /\ phase[p] = "released" /\ p \notin mounted
    /\ pc[p] \in PublishPC \ {"connect"} => device /\ session
    /\ pc[p] \in {"persist", "mount"} => p \in dirs
    /\ pc[p] = "mount" => config # "none"
    /\ pc[p] \in {"pathExists", "getConnector", "unmount"} => cnt[p] >= Refs(p)
    /\ TearsDown(p) => mounted = {}

\* The inductive invariant: calls of one kind only are at work, one handler
\* at most tears down, and what is mounted can be used and unmounted.
ApartInv ==
    /\ ~AtWork(PublishPC) \/ ~AtWork(UnpublishPC)
    /\ OneTearsDown
    /\ \A p \in Paths : HandlerInv(p)
    /\ mounted # {} => device /\ session /\ config # "none"
    /\ mounted \subseteq dirs
    /\ \A p \in Paths :
          /\ phase[p] = "published" => p \in mounted
          /\ phase[p] \in {"new", "gone"} => p \notin mounted

\* The calls before which the volume is connected but not mounted yet, or
\* not mounted any more but not disconnected yet.
HalfWay == {"checkMount", "mkdir", "persist", "mount", "disconnectVolume",
            "disconnect", "removeAll", "removeConfig"}

\* What LastOneOut needs beside ApartInv: as long as nothing failed and no
\* two pods left at once, the count is true, a volume that is mounted nowhere
\* and that no handler has half way is not connected, and a handler past the
\* logout leaves nothing but the file.
LastOneInv ==
    faults = 0 /\ ~crossed =>
        /\ \A p, q \in Paths :
              pc[p] \in UnpublishPC /\ pc[q] \in UnpublishPC => p = q
        /\ \A p \in Paths :
              /\ pc[p] \in {"pathExists", "getConnector", "unmount"} =>
                    cnt[p] = Refs(p)
              /\ pc[p] \in {"removeAll", "removeConfig"} => ~session /\ ~device
        /\ mounted = {} /\ (\A p \in Paths : pc[p] \notin HalfWay) =>
              ~session /\ ~device /\ config = "none"
=============================================================================
