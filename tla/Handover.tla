------------------------------ MODULE Handover ------------------------------
(***************************************************************************)
(* A volume on its way from request to request: CreateVolume answers with  *)
(* an id and a context, and what NodePublishVolume and DeleteVolume are    *)
(* asked later is made of them, by the orchestrator and the kubelet.  A    *)
(* static volume starts at NodePublishVolume with an id and a context that *)
(* somebody wrote.  The calls to the NAS are those of Controller and the   *)
(* calls to the host those of NodeService; both succeed here.              *)
(***************************************************************************)
EXTENDS CreateRequest, PublishRequest

CONSTANTS
    Portal,      \* the flag --portal of the controller
    Names,       \* names a volume is asked for, the empty one included
    Bytes,       \* sizes a capacity range may ask for, negative ones included
    Contexts,    \* contexts of static volumes
    None         \* nothing yet

Ids == {cleanISCSIName(n) : n \in Names}

ASSUME BytesAssumption == Bytes \subseteq Int
ASSUME NamesAssumption == Names \subseteq Seq(DOMAIN Lower)

\* What is missing or cannot be parsed is no value.
ASSUME ValuesAssumption ==
    \A v \in {Missing, Garbage} : v \notin Int \cup Ids \cup {<<>>, "path"}
ASSUME ContextsAssumption ==
    /\ Portal = Missing \/ Portal \in Address
    /\ \A ctx \in Contexts :
          /\ ctx.targetPortal = Missing \/ ctx.targetPortal \in Address
          /\ ctx.lun \in {Missing, Garbage} \/ ctx.lun \in Int
          /\ ctx.portals \in {Missing, Garbage} \/ ctx.portals \in Seq(Address)

VARIABLES
    asked,       \* name and range of the CreateVolume
    volume,      \* what it answered: the size in bytes, the context, and the
                 \* size in GiB that the NAS was told
    pub,         \* id and context of the NodePublishVolume
    attached,    \* the pointers to connectors that the last request called
                 \* AttachDisk with: one or none
    code         \* of the last answer

vars == <<asked, volume, pub, attached, code>>

\* Mutant: the list of portals is left to be empty text.
VolumeContextNoPortals(id) ==
    [targetPortal |-> Portal, iqn |-> id, lun |-> 0, portals |-> Missing,
     secret |-> Missing]

\* The iqn that the NAS gave the target is the one of this name.
VolumeContext(id) ==
    [targetPortal |-> Portal, iqn |-> id, lun |-> 0, portals |-> <<>>,
     secret |-> Missing]

TypeOK ==
    /\ asked = None \/ asked.name \in Names
    /\ volume = None \/ /\ volume.id \in Ids
                            /\ volume.capacityBytes \in Nat
                            /\ volume.lunCapacity \in Nat
    /\ \A c \in UNION attached : c.lun \in -Half32 .. (Half32 - 1)
    /\ code \in {"none", "go", "OK", "InvalidArgument", "OutOfRange", "Internal"}

Init ==
    /\ asked = None /\ volume = None /\ pub = None
    /\ attached = {} /\ code = "none"

-----------------------------------------------------------------------------

\* Whole GiBs go to the NAS, bytes to the orchestrator.
CreateVolume(name, caps, range) ==
    /\ code = "none"
    /\ asked' = [name |-> name, range |-> range]
    /\ code' = CreateCode(name, caps, range)
    /\ volume' = IF code' # "go" THEN None
                 ELSE [id |-> cleanISCSIName(name),
                       capacityBytes |-> ExtractStorage(range),
                       lunCapacity |-> ExtractStorage(range) \div giB,
                       context |-> VolumeContext(cleanISCSIName(name))]
    /\ UNCHANGED pub /\ attached' = {}

\* Every error of getISCSIInfo has the same code.
NodePublishVolume(id, ctx, capability, path) ==
    /\ pub' = [id |-> id, context |-> ctx]
    /\ \/ /\ PublishRefused(id, capability, path)
          /\ code' = "InvalidArgument" /\ attached' = {}
       \/ /\ ~PublishRefused(id, capability, path)
          /\ InfoError(ctx)
          /\ code' = "Internal" /\ attached' = {}
       \/ /\ ~PublishRefused(id, capability, path)
          /\ ~InfoError(ctx)
          /\ code' = "OK" /\ attached' = {buildISCSIConnector(id, ctx)}
    /\ UNCHANGED <<asked, volume>>

\* An empty id is refused.
DeleteVolume ==
    /\ volume # None
    /\ code' = IF volume.id = <<>> THEN "InvalidArgument" ELSE "OK"
    /\ volume' = IF volume.id = <<>> THEN volume ELSE None
    /\ attached' = {}
    /\ UNCHANGED <<asked, pub>>

\* The kubelet hands over what CreateVolume answered.
PublishCreated ==
    /\ volume # None
    /\ NodePublishVolume(volume.id, volume.context, TRUE, "path")

PublishStatic ==
    /\ code = "none"
    /\ \E id \in Ids, ctx \in Contexts, capability \in BOOLEAN,
          path \in {Missing, "path"} :
            NodePublishVolume(id, ctx, capability, path)

Create ==
    \E name \in Names, caps \in SUBSET Capability,
       required \in Bytes, limit \in Bytes :
         CreateVolume(name, caps, [required |-> required, limit |-> limit])

Next == Create \/ PublishCreated \/ PublishStatic \/ DeleteVolume

Spec == Init /\ [][Next]_vars

-----------------------------------------------------------------------------

\* The volume that is made is at least what was required and at most the
\* limit, and between the minimum and the maximum (controller.go:26-32);
\* the NAS is told the size that is reported: the division of
\* controller.go:67 loses nothing.
SizeHonoured ==
    volume # None =>
        /\ RequiredSet(asked.range) => volume.capacityBytes = asked.range.required
        /\ LimitSet(asked.range) => volume.capacityBytes <= asked.range.limit
        /\ Min <= volume.capacityBytes /\ volume.capacityBytes <= Max
        /\ volume.lunCapacity * giB = volume.capacityBytes

\* The range leaves one size only, s.
OnlySize(r, s) ==
    \/ r.required = s /\ (LimitSet(r) => r.limit = s)
    \/ ~RequiredSet(r) /\ r.limit = s

\* A size in whole GiBs from the minimum to the maximum is not refused,
\* whichever of the two fields it comes in.
WholeSizesAccepted ==
    asked # None =>
        \A s \in Bytes :
            /\ OnlySize(asked.range, s)
            /\ s % giB = 0 /\ Min <= s /\ s <= Max
            => code # "OutOfRange"

\* What one half of the driver wrote the other can read: unless its name has
\* neither letters nor digits, a volume that was created is not refused by
\* DeleteVolume or NodePublishVolume, and is connected to as LUN 0 of its
\* own target (controller.go:155-160, iscsi_iscsi.go:28-97).
CreatedIsUsable ==
    /\ volume # None
    /\ \E i \in DOMAIN asked.name : asked.name[i] \in Alnum
    => /\ code \in {"go", "OK"}
       /\ \A c \in UNION attached :
             c.iqn = volume.id /\ c.name = volume.id /\ c.lun = 0

\* AttachDisk uses the connector without a look at whether there is one
\* (iscsi_util.go:18): it always is, although buildISCSIConnector and
\* NodePublishVolume decide about it apart.
ConnectorIsNeverNil == {} \notin attached

\* A secret with any key in it is used, for the discovery and for the session
\* alike, or the request is refused: no incomplete secret becomes a login
\* with half of CHAP or without it. What is no JSON object counts as no secret
\* (iscsi_iscsi.go:112-117, 159-219).
SecretsComeTogether ==
    \A c \in UNION attached :
        /\ c.session = c.discovery
        /\ c.session <=> pub.context.secret \notin {Missing, Garbage, {}}

\* An address with the host and the port that were asked for; 3260 stands in
\* for a port that was not, but not in an address of IPv6.
LeadsTo(address, wanted) ==
    /\ address.host = wanted.host
    /\ \/ address.port = wanted.port
       \/ wanted.port = "none" /\ address.port = "3260"
    /\ address.port = "none" => wanted.host = "v6"

\* The connector leads where the context says: to that target, by all its
\* addresses and no other, the first one first, and to that LUN if and only if
\* its number fits 32 bits; any other number leads to another LUN.
ConnectsAsAsked ==
    \A c \in UNION attached :
        LET addresses == <<pub.context.targetPortal>> \o pub.context.portals IN
        /\ c.name = pub.id /\ c.iqn = pub.context.iqn
        /\ Len(c.portals) = Len(addresses)
        /\ \A i \in DOMAIN addresses : LeadsTo(c.portals[i], addresses[i])
        /\ c.lun = pub.context.lun <=>
              pub.context.lun \in -Half32 .. (Half32 - 1)
=============================================================================
