# Verification of qnap-csi

qnap-csi is a Kubernetes CSI driver: a *controller* creates and deletes iSCSI
volumes on a QNAP NAS over its HTTP/XML interface, and a *node* plugin mounts
them with iscsiadm. This directory holds TLA+ models of it, TLC
configurations that check them on small instances, and proofs that TLAPS
checks for every instance. File and line numbers refer to `src/`.

Each `MC<module>_<run>.cfg` is a run: `tlc -config MCProvisioning_serial.cfg
MCProvisioning.tla`. The proofs: `tlapm ProvisioningProofs.tla`, and so for the
other seven modules whose name ends in Proofs.
`PROJECT.json` lists the runs, the source lines each definition stands for,
the findings, the hazards and the theorems, and for every property a mutant: a
changed definition (in the modules, under a comment `Mutant:`) that breaks it.

## Inventory

| Part | Source | State | Operations | Hard behaviour |
|---|---|---|---|---|
| Controller: create, delete | `driver/controller.go:47-202` | none but the locals of a request | CreateVolume, DeleteVolume | a goroutine per request, no lock; up to nine calls to the NAS, each of which can fail before or after its effect; the context of the request is ignored |
| Controller: request checks | `controller.go:47-69,401-418`, `utils.go:49-104` | none | extractStorage, validateCapabilities, cleanISCSIName | limits and defaults that interact |
| Controller: list | `controller.go:249-310`, `utils.go:14-41` | none; the token is the memory | ListVolumes | indexes are given again between two pages |
| Controller: the rest | `controller.go:204-247,312-397` | none | ValidateVolumeCapabilities, GetCapacity; unimplemented: snapshots, expansion, publish | |
| QNAP client | `qnap/api.go` | `sid`, shared by all requests | Login and ten calls | no deadline, no retry; an error says nothing about the effect; without a session some calls report success |
| QNAP NAS | external | targets, initiators, LUNs, attachments | the CGI endpoints | indexes reused; LUNs created in the background |
| Orchestrator | external (csi-provisioner of the chart) | what it believes of a volume | repeats what failed | gives a call up and repeats it while it runs |
| Node service | `driver/node.go`, `driver/iscsi_util.go`, `driver/iscsi_iscsi.go` | none of its own: mounts, session, device and a connector file on the host | NodePublishVolume, NodeUnpublishVolume | calls for two pods of a volume interleave; half done teardown; contexts written elsewhere |
| Server | `driver/driver.go`, `cmd/qnap-csi-plugin`, `driver/identity.go` | `ready`, socket, server | Run, Probe, signal | signals at any time, graceful stop with running requests, a stale socket |
| iscsiadm shim | `cmd/iscsiadm` | none | chroot and exec | |

The orchestrator calls the controller over gRPC, the controller the NAS over
HTTP; VolumeContext carries portal and IQN to the kubelet, which calls the node
service, which logs in to the NAS with iscsiadm. Controller and node share no
state but the NAS.

What makes each part correct: the controller's answers are true (a volume
reported created has storage, one reported deleted has none), it never touches
the storage of another volume, it leaks nothing, and what is asked of it gets
done at last; a listing is complete, without repetition, and ends; a size is
within the range and the limits; a published volume stays mounted and
connected until it is released, and is disconnected when the last pod leaves;
what one half writes in the volume context the other half can use; a signal
ends the process without cutting off a request.

## Modules

`EXTENDS` goes downwards: QnapNAS, QnapClient, Controller, Provisioning,
ProvisioningInv, then MCProvisioning, or ProvisioningProofs and from there
CleanProofs and OneRequestProofs, and from the last RefusalProofs.

* **QnapNAS** (external). The targets and LUNs by index, with names,
  attachments and LUN status. Each effect is what a comment of `api.go` or a use
  in `controller.go` says of the NAS: add_target may answer with the target it
  has (api.go:416), add_init and remove_lun take any index (api.go:456, 582), a
  second LUN of a name is refused (api.go:534 says that it crashes), freed
  indexes are given again (controller.go:250).
* **QnapClient**. One operator per call of `qnap.Client`. A call that fails has
  taken effect or not: the client cannot tell. A stopped transport, a status
  other than 200, a bad body and a negative result are all `Err`. The sid is one
  variable, `session`: whether the NAS accepts it. Every Login renews it for
  all handlers; `Expire` ends it. A call without a session has no effect, and
  since only Login looks at authPassed it returns what the missing result
  decodes to (0: success, or the index `Zero`) or an error, by the type of the
  field and the comparison of each call.
* **Controller**. One action per call to the NAS of CreateVolume and
  DeleteVolume, with what the handler does with the result; `pc[h]` names the
  call that comes next, `tgt`, `lun`, `todo` are the handler's locals. The undo
  calls are actions of their own since others run between them. Polls that
  read "creating" are stuttering steps.
* **Provisioning** composes them with the orchestrator: per volume a phase
  (unwanted, wanted, bound, released) and the handler it waits for. It has one
  call per volume outstanding and repeats what is not answered OK. `Timeout`
  gives a call up while its goroutine runs on: the handlers ignore the context.
  This is the normal case of this driver: the README of the repository (line 50)
  speaks of 11 seconds to create a volume, and the chart runs csi-provisioner
  without a longer deadline than its default. `Crash` restarts the controller.
  `ReadRequest` is the Login of a request that otherwise only reads.
  `SerialSpec` is `Spec` as long as no two handlers work on one volume
  (`NoOverlap`): the orchestrator may give up, but repeats a call only after the
  handler of the last one has ended. Nothing in the code enforces it; it is
  the condition under which the code keeps its promises. `OneBasedSpec` and
  `SharedSpec` are for sessions that end: in the first no target gets the
  index 0, in the second no LUN either, and no two handlers work on one volume.
  The code says nothing about where the NAS starts to count, so these are
  conditions, too.
* **VolumeService** is the abstract specification: phases and the set of
  volumes that are live. It has two implementations. Provisioning
  (`INSTANCE VolumeService WITH live <- Live`): a volume is live when a target
  of its name has a LUN. NodeService: what a claim is to provisioning a pod is to
  the node, and its path is live when the device is mounted and connected.
* **ProvisioningInv** holds the inductive invariants. **ProvisioningProofs** has
  the proofs about one handler per volume, **CleanProofs** those about what is
  left on the NAS when nothing fails, **OneRequestProofs** those about sessions
  that end, **RefusalProofs** those about sessions that end on a NAS that counts
  from 1.
* **ListVolumes**, **ListVolumesProofs**: the target list, the token, and
  targets that are created and deleted between two pages. The token is the set
  of indexes it encodes.
* **CreateRequest** and **PublishRequest**: constant operators. The first is what
  CreateVolume makes of its arguments (the cleaned name, the size), with sizes
  in a unit that is a quarter of a GiB in the run, so that fractions of a GiB
  exist. The second is what NodePublishVolume makes of a volume context: an
  error, or a connector. A pointer to a connector is a set, empty for nil.
* **Handover**, **HandoverProofs**: composes the two. One volume goes from
  CreateVolume through NodePublishVolume to DeleteVolume, with the id and the
  context that were answered; or a static volume is published with a context
  that somebody wrote. Its state is what was asked, what was answered, and the
  connectors AttachDisk was called with.
* **NodeService**, **NodeServiceProofs**: AttachDisk and DetachDisk, one action
  per call to the host, for one volume and several target paths (pods); kubelet,
  mount table and open-iscsi are external. Volumes do not interact on a node,
  so one is enough. The driver has no lock. `KeepApart` is the condition, which
  nothing in the code enforces, under which it keeps its promises: no publish is
  at work while an unpublish is; any number of publishes, or of
  unpublishes, of different paths interleave. `crossed` remembers whether
  two unpublishes ever did.
* **Lifecycle**, **LifecycleProofs**: the process from start to exit. `pc` is
  where Run is, `stopper` where the goroutine is that stops the server, `signal`
  what the goroutine of `run` has seen; `sock` is the socket file, `request` the
  requests at work. That GracefulStop drains, that a Serve after it gives up,
  and that Serve waits for it is grpc's; restarts are the kubelet's.

## Runs and what they show

| Run | Bounds | Shows |
|---|---|---|
| provisioning_serial | 3 volumes, 2 targets, 2 LUNs, 3 handlers, 2 faults, 1 call given up, one handler per volume (SerialSpec) | safety, the inductive invariant, no leak without a fault, VolumeService |
| provisioning_live | 1 volume, 2 targets, 2 LUNs, 2 handlers, 1 fault, 1 call given up, fairness | handlers end, released volumes get deleted, wanted volumes get bound if nothing is disturbed |
| provisioning_session | 2 volumes, 2 targets and LUNs with the index 0, 1 handler, 3 faults or ended sessions, 1 call given up | no LUN of another volume is attached, and the invariant behind that and behind what is reported created |
| provisioning_timeoutlive | 1 volume, 2 handlers, 1 call given up, no fault, fairness | *violated*: a wanted volume gets bound |
| provisioning_orphan | 1 of each, 1 fault | *violated*: a deleted volume has no LUN |
| listvolumes_pages | 5 names, 4 indexes, pages of 1, 2 and all | pages repeat and skip nothing, the listing ends |
| listvolumes_first | 4 names, 3 indexes, first token empty | *violated*: the driver survives the first request |
| handover_requests | sizes around every limit in both fields, every set of capabilities, 4 names, contexts with every value the parser tells apart | sizes, names, contexts and connectors |
| node_apart | 3 paths, any number of publishes or of unpublishes at a time (KeepApart), 1 fault, fairness | published is mounted and connected, at most one of the pods that leave together disconnects, the last one out does, calls get done, VolumeService |
| node_disconnect | 2 paths, calls overlap at will, no fault | *violated*: only an unused volume is disconnected |
| node_unpublish | 1 path, 1 fault, fairness | *violated*: a released volume gets unpublished |
| lifecycle_signals | 2 requests, 3 faults, fairness | the process ends when told to, cuts nothing off, and serves again after a kill |

Three volumes for two targets show the NAS full, and an index freed by one
volume and given to another. A handler per volume is as many as can work under
SerialSpec. A LUN only comes to "unknown" there and also to "ready" in
provisioning_live and provisioning_session; the controller asks for neither, it
waits while the LUN is "creating". In provisioning_serial two faults allow a failed call and the failure or
crash of its undo or its repetition; the proofs cover any number. In
provisioning_session one handler serves one request at a time, so that nobody
else renews its session; 0 is among the indexes, so that a reply without a
result can be mistaken for a real one. A target more than there are volumes is
only needed when calls overlap (provisioning_live). In handover_requests every
comparison has a value on, just below and just above it; 8 stands for 2^31,
and numbers on both sides of it occur. In node_apart three paths let one pod stay while two others come
and go together, and let three leave together; one fault is a failed call or a
restart. (With two faults the run passes as well: 294,113 states instead of
102,167, and nearly four minutes. The safety of the node is proved for any number of
paths and faults.) In Lifecycle three faults let a process be killed, its
successor fail, and a request hang in the third.

CHECK_DEADLOCK is off where the system really stops: a node whose pods are all
gone, a listing that ended, a static request that was answered, a process that
waits for a request that hangs.

### What the violations mean

* **provisioning_timeoutlive.** A call that outlives its deadline creates the
  volume; the repetition answers AlreadyExists (controller.go:84), for ever. The
  same happens without a deadline when the poll or the second list fails
  (controller.go:117, 137), which undo nothing (MaxFaults = 1, MaxTimeouts = 0).
* **provisioning_orphan.** DeleteVolume removes the target first and finds LUNs
  only through it (controller.go:184, 190): a LUN that could not be removed is
  forgotten, and the next call says OK.
* **listvolumes_first.** `seenIds` is nil without a token (controller.go:262) and
  is dereferenced for the first target (280). Paging works only for a token
  that cannot be decoded, which the code ignores (266); that is why
  listvolumes_pages has one among its first tokens. The run shows what
  ListVolumes does once this is repaired.
* **node_disconnect.** DetachDisk counts the mounts before the unmount
  (iscsi_util.go:66) and decides on that count (92): a pod that is published in
  between loses its device. This is why the other results about the node assume
  KeepApart. Two unpublishes that overlap do less harm, and KeepApart allows
  them: a count is then too high and never too low, so that at most one handler
  disconnects (OneTearsDown); but each may have counted the mount of the other,
  both answer "in use", and nobody disconnects. LastOneOut therefore excludes pods
  that leave at the same time (`~crossed`); without that conjunct it is violated.
* **node_unpublish.** After the unmount (87) a failure or a restart makes every
  repetition fail, since the path is not mounted any more.

With two handlers of one volume overlapping (`Spec` for `SerialSpec`, one call
given up, two volumes) every safety property of Provisioning but TypeOK fails:
two handlers find the name free, one gets the other's target from add_target
and removes it when its own LUN is refused; the other goes on with an index
that the NAS gives to another volume.
With sessions that end while two requests are at work, AttachesOwnLUN,
BoundIsBacked, Isolation and BoundUntouched fail: a request that was told
"index 0" without a session goes on in the session that the other one opened,
and works on somebody else's target 0 or LUN 0. This is why the theorems assume
that no two handlers work on one volume and no session ends, that one request is
served at a time, or that nothing has the index 0. With one request at a time
and the index 0 DeletedIsUnreachable fails: DeleteVolume lists a target of that
index, the session ends, the refused remove_target reads as
success, and a volume whose target is still there is reported deleted.

Most of that is due to the index 0. If no target has it, a controller that
serves one request at a time is a VolumeService (OneBasedSpec). If no LUN has it
either, requests for different volumes may share the session (SharedSpec): each
then touches only its own, and what is reported deleted has no target.
KeepsToItsOwn or Isolation fails if one of the two indexes is used. What is left
in SharedSpec is that CreateVolume, refused in the middle and served at its end,
reports a volume that has no LUN: BoundIsBacked fails, with it Implements, and
BoundUntouched, when the NAS finishes a LUN of an earlier attempt.

Not runs, but seen while modelling:

* a LUN in a status that is neither creating nor ready is attached although
  controller.go:112 waits "for the lun to be ready";
* a size outside the limits is refused where controller.go:34-35 says that the
  default is used;
* a required size below the minimum that comes with a limit passes the check of
  the minimum (utils.go:67) and is refused only because it is a fraction of
  a GiB: the minimum is kept because it is one GiB (`Min` in CreateRequest);
* when the connector cannot be persisted, iscsi_util.go:44 says "disconnecting
  volume", and nothing disconnects;
* `discoveryCHAPAuth` and `sessionCHAPAuth` of the context are parsed and go
  into two flags (iscsi_iscsi.go:64-72) that nothing reads: whether CHAP is used
  is decided by the secret alone (112-117);
* a secret that is no JSON object counts as no secret (iscsi_iscsi.go:161);
* a name without letters or digits becomes the empty id, which no later request
  accepts; a controller without --portal makes volumes that no node can publish.

## Fairness

*Provisioning.* Weak fairness of every handler's next step (goroutines are
scheduled, and a call to the NAS returns: `http.Client` without a deadline
relies on TCP for that), of the NAS finishing a LUN, and of the orchestrator
repeating a request (csi-provisioner retries with back-off). Nothing is assumed
of users, faults, deadlines and crashes. *ListVolumes.* The orchestrator asks
for the next page. *NodeService.* Fairness of each path:
its handler runs on, and the kubelet repeats a call that is not answered OK. The
fairness is strong, since KeepApart makes a call wait for those of the other
kind, and `FairSpec` adds that again and again no call is at work: the
kubelet doubles the time between two calls for a path. Without that,
unpublishes that fail for ever could take turns and starve a publish. *Lifecycle.* Weak fairness
of the three goroutines, of handlers that do not wait for the NAS, and of the
kubelet restarting the container. Signals, requests, failures and the answer
to a request that hangs are never owed.

## Proofs

Eight modules, 48 theorems that a reader should know (`PROJECT.json` lists them).
Between them they state every invariant and every action property of the passing
runs. `CleanInv`, `LastOneInv`, `ApartInv`, `OneBasedInv` and `SharedInv` are
checked by the proofs alone; the runs check what follows from them.
OneBasedSpec and SharedSpec have no run of their own either. To check one:
MCProvisioning_session.cfg with that SPECIFICATION, OneBasedInv or SharedInv, a
target and a LUN more, `SYMMETRY Symmetry`, and for SharedSpec two handlers
(TLC finds 239,019 states).

*ProvisioningProofs.* `TypeCorrect` holds of `Spec` without conditions. The
others are about `SerialSpec` with `SessionsExpire = FALSE`: one handler per
volume on a NAS that keeps its sessions. Everything else is arbitrary: the
numbers of volumes, handlers and indexes, failures, crashes, and answers nobody
waits for. `PatientIsSerial` says when `Spec` is serial: when no call is
given up (`MaxTimeouts = 0`); its invariant `WaitInv` is that the orchestrator
waits for every handler at work.

The safety properties are not inductive: that OneTargetPerVolume survives
add_target needs that the name is still free, which needs that no other handler
works on the volume since the list was read. `SerialInv` says that

1. `NoOverlap`: no two handlers have one volume;
2. `RequestInv`: the request fits what the orchestrator believes of the volume,
   although it may not wait for this handler any more;
3. `HandlerInv`: what a handler remembers is true of the NAS, call by call: its
   target and LUN still carry its volume's name, the target is attached to
   the LUN once AttachLUN is done, the name is free before CreateTarget;
4. `SessionInv`: a handler that has logged in has its calls served;
5. `VolumeInv`: bound volumes are backed, unwanted ones have no target;
6. `NasInv`: names are unique and targets hold LUNs of their own volume.

A step of a handler changes only targets and LUNs of its volume (lemmas of
ProvisioningProofs), so the facts of other handlers survive; each action
re-establishes its own. `TypeInv` is proved first: it adds to TypeOK that an
index passed to the NAS is one. From `SerialInvariance` follow the invariants,
the action properties `BoundStaysUntouched` and `SerialKeepsToItsOwn`, and `SerialRefinement`: each action
is a step of VolumeService or leaves phase and Live alone.

*CleanProofs.* The same controller as long as `faults = 0`. NoLeakWithoutFault and
NoSecondLUN need to know the LUNs of a volume at every moment, also while the
target that leads to them is made or removed. `CleanInv`: a volume nobody works
on has its LUNs attached to its target; a handler that creates has no LUN until
it makes one, has no reason to undo it, and one that deletes has every LUN of
the volume in `todo`. `DeletedIsGoneUnlessFaults` is what is left of the property
that provisioning_orphan violates.

*OneRequestProofs.* `Spec` with one handler (`OneHandler`) instead of
`SessionsExpire = FALSE`: sessions end anywhere, and calls then report success
or index 0 without an effect. HandlerInv is false without a session: a
handler was told that the NAS gave it target 0. `OneRequestInv` has it only
while there is a session. That is enough, because Login is what brings a
session back and nobody but the handler logs in while it is at work: what it
was told with a session is true as long as the session lives, and what it was
told without one it can do nothing with. CreateVolume does not answer OK without
a session, since it needs the IQN from a list. Hence ReportsSurviveSessions,
OnlyOwnLUNsAttached and BoundSurvivesSessions; there is no such theorem about
deleted volumes, for the reason above.

*RefusalProofs.* What is true of sessions that end once the index 0 is unused,
for any numbers of volumes, handlers and indexes. The key is `DeleteInv`:
DeleteVolume takes its target from a list, which has to be served, and not
from a call whose refusal reads as an index. Its target has the volume's name, so
it is not 0, and a remove_target that is refused is an error; so `DeleteInv`
is kept with a session or without (`RunDeleteInv`), and an OK means that there
is no target. With one handler and OneRequestInv beside it
(`OneBasedInvariance`) this gives DeletionsSurviveSessions and
`OneBasedRefinement`: the lemmas about VolumeService are those of
SerialRefinement, which ask only what both invariants give.

With several handlers (SharedSpec) not even the part of HandlerInv that needs a
session survives, since somebody else may renew it. `SharedInv` has instead
that an index a handler remembers carries its volume's name or is 0. Neither
half would do alone: a refusal makes the first false; and "carries its name or
none" is not inductive, since the NAS may give the index to another volume. It
gives 0 to nobody. From both follows `OwnIndexes`, and from that one, with or
without a session, that a step leaves the other volumes alone (`OwnKeeps`,
`OwnNasInv`; the serial proofs use them through HandlerInv, which implies
OwnIndexes). Hence SharedNasInOrder, SharedDeletions and SharedKeepsToItsOwn.

*NodeServiceProofs.* `TypeCorrect` and `DataIsSafe` hold however calls overlap: a
path that is about to be removed was unmounted by the handler that removes it,
and only that handler could mount it again. The others assume `KeepApart`, and
nothing else: any number of paths, of calls of one kind at work, and of failures.
`ApartInv` says that calls of one kind only are at work; that a handler's count
is at least that of the mounts there are (others may have left since); that a
publish past Connect has device and session; that whatever is mounted has
device, session and connector file; and that at most one handler tears down,
after which nothing is mounted. The last part is the hard one: a handler goes on
to DisconnectVolume when its count was 1, and a count that is never too low then
says that its mount was the only one; a second handler that counted 1 would have
counted that same mount, and finds its own path not mounted. Hence
PublishedStaysMounted, OnlyOneTearsDown and `ApartRefinement`, which maps each
step to VolumeService. LastOneOut needs to know who is going to disconnect:
`LastOneInv`, as long as nothing failed and no two pods left together, is that a
volume that is mounted nowhere and that no handler has half way (`HalfWay`:
connected and not yet mounted, or unmounted as the last and not yet disconnected)
is not connected.

*ListVolumesProofs.* `ListInv`: a listed volume that is still there has its index
in the token, and an index in the token whose volume was there all along is
that of a listed one. A page is disjoint from both.

*HandoverProofs.* Arithmetic over all integers for the sizes, and what the fields
of volume, context and connector are made of (`HandoverInv`) for the rest.
`ConnectionIsAsAsked` compares the connector with the context for every context:
the name, the IQN, the addresses one by one (an address that names no port gets
3260, but not one of IPv6), and the LUN, which is the one of the context if and only
if that number fits 32 bits. `SecretsStayTogether` says of every secret with a key
in it that it is refused or used for discovery and session alike.
`CreatedStaysUsable` follows the name and the context from one half of the driver
to the other: `NameInvariance` (a name with a letter or a digit is not empty after
cleanISCSIName) and `ContextInvariance` (the context is the one CreateVolume
writes). It assumes that a portal is set (`Portal # Missing`); without it the
property is false, as said above. cleanISCSIName is written with the positions
that are kept, not with a recursive filter, so that it can be reasoned about.
Assumed of the constants: default and maximum are whole GiBs, at least one;
a letter or a digit in lower case is one; what is missing or cannot be parsed is
told apart from every value.

*LifecycleProofs.* `LifecycleInv` is inductive: which steps of the goroutines go
together, and that requests exist only while the server serves.

Only model-checked: all liveness (fairness and ENABLED are out of TLAPS's reach
here), and of course the violations, which are counterexamples. No module has a
recursive definition.

## Not modelled, and limits

* A request that the NAS carries out after the client has given it up: the
  effect of a failed call is immediate or never.
* A list of targets without authPassed that has the result "0": the client would
  take it for an empty list.
* What GetCapacity and ValidateVolumeCapabilities answer: one read each, without
  state. GetCapacity reports the size of the pool and not what is free;
  ValidateVolumeCapabilities confirms whatever it is asked.
* Block volumes: CreateVolume accepts them, the node mounts them like others.
* The orchestrator deletes only what it saw created, and does not stop wanting
  a volume. A volume's name may be used again once it is deleted.
* On the node: reboots, and deadlines of the kubelet that make two calls of one
  path overlap.
* A crash of the NAS (api.go:534).
* Listing: a negative max_entries, and names that are used again meanwhile.
* Start: the flags and the parsing of the endpoint (main.go:17-65,
  driver.go:73-86), which end the process before it has any state.
* The iscsiadm shim, the manual client test, and the constant answers of
  identity.go and node.go: no state, no choice.

## Plan

All components with state are modelled. What is left, in this order:

1. NodeService with deadlines of the kubelet, and with reboots of the node.
2. Provisioning with two session ids, an older one of which may overwrite the
   newer; `Expire` stands for that now.
