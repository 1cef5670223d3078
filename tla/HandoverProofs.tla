--------------------------- MODULE HandoverProofs ---------------------------
(***************************************************************************)
(* What holds of the requests of a volume for every size, name and context.*)
(***************************************************************************)
EXTENDS Handover, FiniteSetTheorems, TLAPS

\* The volume was made of a range that is not refused.
VolumeInv ==
    volume # None =>
        /\ asked.range \in [required : Int, limit : Int]
        /\ ~InvalidRange(asked.range)
        /\ volume.capacityBytes = ExtractStorage(asked.range)
        /\ volume.lunCapacity = ExtractStorage(asked.range) \div giB

\* A range that was refused is invalid.
RefusedInv ==
    asked # None =>
        /\ asked.range \in [required : Int, limit : Int]
        /\ code = "OutOfRange" => InvalidRange(asked.range)

\* A connector was made of the request, which the checks have let pass.
ConnectorInv ==
    \A p \in attached :
        /\ p = buildISCSIConnector(pub.id, pub.context)
        /\ pub.id # <<>>
        /\ ~InfoError(pub.context)

HandoverInv == VolumeInv /\ RefusedInv /\ ConnectorInv

-----------------------------------------------------------------------------
\* The operators

\* extractStorage (driver/utils.go:49-104): a range that is not refused gives
\* a size of whole GiBs that fits both the range and the limits.
LEMMA SizeFits ==
    ASSUME NEW r \in [required : Int, limit : Int], ~InvalidRange(r)
    PROVE  /\ ExtractStorage(r) \in Int
           /\ RequiredSet(r) => ExtractStorage(r) = r.required
           /\ LimitSet(r) => ExtractStorage(r) <= r.limit
           /\ Min <= ExtractStorage(r) /\ ExtractStorage(r) <= Max
           /\ ExtractStorage(r) % giB = 0 \/ ExtractStorage(r) = Default
<1>1. /\ giB \in Nat /\ giB > 0 /\ maxGiB \in Nat /\ defGiB \in Nat
      /\ 1 <= defGiB /\ defGiB <= maxGiB
  BY SizesAssumption
<1>2. Min \in Int /\ Max \in Int /\ Default \in Int
  BY <1>1 DEF Min, Max, Default
<1>3. Min <= Default /\ Default <= Max
  BY <1>1 DEF Min, Max, Default
<1>4. r.required \in Int /\ r.limit \in Int
  OBVIOUS
<1> DEFINE R == r.required
           L == r.limit
           FractionR == 0 < R /\ R % giB # 0
           FractionL == 0 < L /\ L % giB # 0
<1>5. /\ ~(0 < R /\ 0 < L /\ L < R)
      /\ ~(0 < R /\ ~(0 < L) /\ R < Min) /\ ~(0 < L /\ L < Min)
      /\ ~(0 < R /\ R > Max) /\ ~(~(0 < R) /\ 0 < L /\ L > Max)
      /\ ~FractionR /\ ~FractionL
  BY DEF InvalidRange, Contradictory, TooSmall, Fraction, TooLarge,
         RequiredSet, LimitSet
<1>6. ExtractStorage(r) = IF 0 < R THEN R ELSE IF 0 < L THEN L ELSE Default
  BY DEF ExtractStorage, RequiredSet, LimitSet
<1>7. ExtractStorage(r) % giB = 0 \/ ExtractStorage(r) = Default
  BY <1>5, <1>6
<1>8. RequiredSet(r) => ExtractStorage(r) = r.required
  BY <1>6 DEF RequiredSet
<1> HIDE DEF FractionR, FractionL
<1>9. LimitSet(r) => ExtractStorage(r) <= r.limit
  BY <1>2, <1>4, <1>5, <1>6 DEF LimitSet
<1>10. /\ ExtractStorage(r) \in Int
       /\ Min <= ExtractStorage(r) /\ ExtractStorage(r) <= Max
  <2>1. CASE 0 < R
    <3>1. ExtractStorage(r) = R
      BY <2>1, <1>6
    <3>2. R >= Min
      <4>1. R % giB = 0
        BY <2>1, <1>5 DEF FractionR
      <4>2. R >= giB
        BY <4>1, <2>1, <1>1, <1>4
      <4> QED BY <4>2, <1>1 DEF Min
    <3> QED BY <2>1, <3>1, <3>2, <1>2, <1>4, <1>5
  <2>2. CASE ~(0 < R) /\ 0 < L
    <3>1. ExtractStorage(r) = L
      BY <2>2, <1>6
    <3> QED BY <2>2, <3>1, <1>2, <1>4, <1>5
  <2>3. CASE ~(0 < R) /\ ~(0 < L)
    BY <2>3, <1>2, <1>3, <1>6
  <2> QED BY <2>1, <2>2, <2>3
<1> QED BY <1>7, <1>8, <1>9, <1>10

\* A size in whole GiBs loses nothing when it is counted in GiBs.
LEMMA WholeGiBs ==
    ASSUME NEW n \in Int, n % giB = 0 \/ n = Default
    PROVE  (n \div giB) * giB = n
<1>1. giB \in Nat /\ giB > 0 /\ defGiB \in Nat
  BY SizesAssumption
<1>2. CASE n % giB = 0
  BY <1>1, <1>2
<1>3. CASE n = Default
  <2>1. n % giB = 0
    BY <1>1, <1>3 DEF Default
  <2> QED BY <1>1, <2>1
<1> QED BY <1>2, <1>3

\* An int that fits 32 bits is kept, and no other comes out.
LEMMA Int32Keeps ==
    ASSUME NEW n \in -Half32 .. (Half32 - 1)
    PROVE  Int32(n) = n
<1>1. Half32 \in Nat /\ Half32 > 0
  BY Half32Assumption
<1>2. n + Half32 \in 0 .. (2 * Half32 - 1)
  BY <1>1
<1>3. \A d \in Nat, x \in Nat : x < d => x % d = x
  OBVIOUS
<1>4. (n + Half32) % (2 * Half32) = n + Half32
  BY <1>1, <1>2, <1>3
<1> QED BY <1>1, <1>4 DEF Int32

\* Whatever does not fit is cut to what does.
LEMMA Int32Fits ==
    ASSUME NEW n \in Int
    PROVE  Int32(n) \in -Half32 .. (Half32 - 1)
<1>1. Half32 \in Nat /\ Half32 > 0
  BY Half32Assumption
<1>2. \A d \in Nat \ {0}, x \in Int : x % d \in 0 .. (d - 1)
  OBVIOUS
<1>3. (n + Half32) % (2 * Half32) \in 0 .. (2 * Half32 - 1)
  BY <1>1, <1>2
<1> QED BY <1>1, <1>3 DEF Int32

\* A letter or a digit in a name leaves something of the name.
LEMMA NameIsLeft ==
    ASSUME NEW name \in Names, NEW i \in DOMAIN name, name[i] \in Alnum
    PROVE  cleanISCSIName(name) # <<>>
<1>1. Kept(name) \subseteq 1..Len(name) /\ Len(name) \in Nat
  BY NamesAssumption DEF Kept
<1>2. IsFiniteSet(Kept(name))
  <2>1. IsFiniteSet(1..Len(name))
    BY <1>1, FS_Interval
  <2> QED BY <1>1, <2>1, FS_Subset
<1>3. i \in Kept(name)
  BY LowerAssumption DEF Kept
<1>4. Cardinality(Kept(name)) \in Nat /\ Cardinality(Kept(name)) # 0
  BY <1>2, <1>3, FS_CardinalityType, FS_EmptySet
<1>5. DOMAIN cleanISCSIName(name) = 1..Cardinality(Kept(name))
  BY DEF cleanISCSIName
<1> QED BY <1>4, <1>5

-----------------------------------------------------------------------------
\* The invariant

LEMMA InitHolds == Init => HandoverInv
  BY DEF Init, HandoverInv, VolumeInv, RefusedInv, ConnectorInv

LEMMA CreateHolds ==
    ASSUME HandoverInv, NEW name \in Names, NEW caps \in SUBSET Capability,
           NEW range \in [required : Int, limit : Int],
           CreateVolume(name, caps, range)
    PROVE  HandoverInv'
<1>1. code' = "go" => ~InvalidRange(range)
  BY DEF CreateVolume, CreateCode
<1>2. code' = "OutOfRange" => InvalidRange(range)
  BY DEF CreateVolume, CreateCode
<1>3. VolumeInv'
  BY <1>1 DEF CreateVolume, VolumeInv
<1>4. RefusedInv'
  BY <1>2 DEF CreateVolume, RefusedInv
<1>5. ConnectorInv'
  BY DEF CreateVolume, ConnectorInv
<1> QED BY <1>3, <1>4, <1>5 DEF HandoverInv

LEMMA PublishHolds ==
    ASSUME HandoverInv, NEW id, NEW ctx, NEW capability \in BOOLEAN, NEW path,
           NodePublishVolume(id, ctx, capability, path)
    PROVE  HandoverInv'
<1>1. VolumeInv'
  BY DEF NodePublishVolume, HandoverInv, VolumeInv
<1>2. RefusedInv'
  BY DEF NodePublishVolume, HandoverInv, RefusedInv
<1>3. ConnectorInv'
  BY DEF NodePublishVolume, ConnectorInv, PublishRefused
<1> QED BY <1>1, <1>2, <1>3 DEF HandoverInv

LEMMA DeleteHolds == HandoverInv /\ DeleteVolume => HandoverInv'
  BY DEF DeleteVolume, HandoverInv, VolumeInv, RefusedInv, ConnectorInv

\* The volume is made of the range that was asked for, and the connector of
\* the context, whatever is asked.
THEOREM HandoverInvariance == Spec => []HandoverInv
<1>1. Init => HandoverInv
  BY InitHolds
<1>2. HandoverInv /\ [Next]_vars => HandoverInv'
  <2> SUFFICES ASSUME HandoverInv, [Next]_vars PROVE HandoverInv'
    OBVIOUS
  <2>1. CASE Create
    <3>1. PICK name \in Names, caps \in SUBSET Capability,
               required \in Bytes, limit \in Bytes :
              CreateVolume(name, caps, [required |-> required, limit |-> limit])
      BY <2>1 DEF Create
    <3>2. [required |-> required, limit |-> limit]
            \in [required : Int, limit : Int]
      BY BytesAssumption
    <3> QED BY <3>1, <3>2, CreateHolds
  <2>2. CASE PublishCreated
    BY <2>2, PublishHolds DEF PublishCreated
  <2>3. CASE PublishStatic
    BY <2>3, PublishHolds DEF PublishStatic
  <2>4. CASE DeleteVolume
    BY <2>4, DeleteHolds
  <2>5. CASE UNCHANGED vars
    BY <2>5 DEF vars, HandoverInv, VolumeInv, RefusedInv, ConnectorInv
  <2> QED BY <2>1, <2>2, <2>3, <2>4, <2>5 DEF Next
<1> QED BY <1>1, <1>2, PTL DEF Spec

-----------------------------------------------------------------------------
\* The properties

\* Whatever range is asked for, the volume fits it and the NAS and the
\* orchestrator are told the same size.
THEOREM SizeIsHonoured == Spec => []SizeHonoured
<1>1. HandoverInv => SizeHonoured
  <2> SUFFICES ASSUME HandoverInv, volume # None PROVE
        /\ RequiredSet(asked.range) => volume.capacityBytes = asked.range.required
        /\ LimitSet(asked.range) => volume.capacityBytes <= asked.range.limit
        /\ Min <= volume.capacityBytes /\ volume.capacityBytes <= Max
        /\ volume.lunCapacity * giB = volume.capacityBytes
    BY DEF SizeHonoured
  <2>1. /\ asked.range \in [required : Int, limit : Int]
        /\ ~InvalidRange(asked.range)
        /\ volume.capacityBytes = ExtractStorage(asked.range)
        /\ volume.lunCapacity = ExtractStorage(asked.range) \div giB
    BY DEF HandoverInv, VolumeInv, RefusedInv
  <2> QED BY <2>1, SizeFits, WholeGiBs
<1> QED BY <1>1, HandoverInvariance, PTL

\* No size in whole GiBs between the limits is refused, in either field.
THEOREM WholeSizesAreAccepted == Spec => []WholeSizesAccepted
<1>1. HandoverInv => WholeSizesAccepted
  <2> SUFFICES ASSUME HandoverInv, asked # None, NEW s \in Bytes,
                      OnlySize(asked.range, s), s % giB = 0,
                      Min <= s, s <= Max, code = "OutOfRange"
               PROVE  FALSE
    BY DEF WholeSizesAccepted
  <2>1. /\ asked.range \in [required : Int, limit : Int]
        /\ InvalidRange(asked.range)
    BY DEF HandoverInv, RefusedInv
  <2>2. s \in Int /\ asked.range.required \in Int /\ asked.range.limit \in Int
    BY <2>1, BytesAssumption
  <2>3. Min \in Int /\ Max \in Int /\ Min > 0
    BY SizesAssumption DEF Min, Max
  <2> QED
    BY <2>1, <2>2, <2>3 DEF OnlySize, InvalidRange, Contradictory, TooSmall,
         Fraction, TooLarge, RequiredSet, LimitSet
<1> QED BY <1>1, HandoverInvariance, PTL

\* NodePublishVolume never hands AttachDisk a nil connector.
THEOREM NoNilConnector == Spec => []ConnectorIsNeverNil
<1>1. HandoverInv => ConnectorIsNeverNil
  BY DEF HandoverInv, ConnectorInv, ConnectorIsNeverNil, buildISCSIConnector
<1> QED BY <1>1, HandoverInvariance, PTL

\* Whatever secret a context has, it is used in whole, refused, or no JSON object
\* with a key in it.
THEOREM SecretsStayTogether == Spec => []SecretsComeTogether
<1>1. HandoverInv => SecretsComeTogether
  <2> SUFFICES ASSUME HandoverInv, NEW p \in attached, NEW c \in p
               PROVE  /\ c.session = c.discovery
                      /\ c.session <=>
                            pub.context.secret \notin {Missing, Garbage, {}}
    BY DEF SecretsComeTogether
  <2> DEFINE keys == parseSecret(pub.context.secret)
  <2>1. /\ c.session = (SessionKeys \subseteq keys)
        /\ c.discovery = (SessionKeys \subseteq keys
                             /\ DiscoveryKeys \subseteq keys)
    <3>1. c \in buildISCSIConnector(pub.id, pub.context) /\ pub.id # <<>>
      BY DEF HandoverInv, ConnectorInv
    <3> DEFINE chap == SessionKeys \subseteq keys
               made == [name |-> pub.id, iqn |-> pub.context.iqn,
                        portals |-> Portals(pub.context),
                        lun |-> Int32(pub.context.lun), session |-> chap,
                        discovery |-> chap /\ DiscoveryKeys \subseteq keys]
    <3>2. c = made
      BY <3>1, Zenon DEF buildISCSIConnector
    <3>3. /\ made.session = chap
          /\ made.discovery = (chap /\ DiscoveryKeys \subseteq keys)
      BY Zenon
    <3> QED BY <3>2, <3>3, Zenon
  <2>2. keys = {} \/ SessionKeys \union DiscoveryKeys \subseteq keys
    BY DEF HandoverInv, ConnectorInv, InfoError, SecretError
  <2>3. SessionKeys # {}
    BY DEF SessionKeys
  <2>4. keys = {} <=> pub.context.secret \in {Missing, Garbage, {}}
    BY DEF parseSecret
  <2> HIDE DEF keys
  <2> QED BY <2>1, <2>2, <2>3, <2>4
<1> QED BY <1>1, HandoverInvariance, PTL

\* portalMounter (driver/iscsi_iscsi.go:151-157) leaves the host and any port
\* that is named, and adds one only where none is named.
LEMMA PortIsAdded ==
    ASSUME NEW address \in Address
    PROVE  /\ portalMounter(address) \in Address
           /\ LeadsTo(portalMounter(address), address)
  BY DEF Address, portalMounter, LeadsTo

\* A number that does not fit is never taken for what it is.
LEMMA Int32Exact ==
    ASSUME NEW n \in Int
    PROVE  Int32(n) = n <=> n \in -Half32 .. (Half32 - 1)
  BY Int32Keeps, Int32Fits

ContextInv ==
    \A p \in attached :
        /\ pub.context.targetPortal \in Address
        /\ pub.context.lun \in Int
        /\ pub.context.portals \in Seq(Address)

VolumeContextInv ==
    volume # None => volume.context = VolumeContext(volume.id)

\* A connector is only made of a context whose values could be read.
THEOREM ContextInvariance == Spec => [](ContextInv /\ VolumeContextInv)
<1> DEFINE Inv == ContextInv /\ VolumeContextInv
<1>1. Init => Inv
  BY DEF Init, ContextInv, VolumeContextInv
<1>2. ASSUME NEW id, NEW ctx, NEW capability, NEW path,
             NodePublishVolume(id, ctx, capability, path), Inv,
             ctx.targetPortal \in Address \union {Missing},
             ctx.lun \in Int \union {Missing, Garbage},
             ctx.portals \in Seq(Address) \union {Missing, Garbage}
      PROVE  Inv'
  BY <1>2 DEF NodePublishVolume, ContextInv, VolumeContextInv, InfoError
<1>3. Inv /\ [Next]_vars => Inv'
  <2> SUFFICES ASSUME Inv, [Next]_vars PROVE Inv'
    OBVIOUS
  <2>1. CASE Create
    BY <2>1 DEF Create, CreateVolume, ContextInv, VolumeContextInv
  <2>2. CASE PublishCreated
    <3>1. volume.context = VolumeContext(volume.id)
      BY <2>2 DEF PublishCreated, VolumeContextInv
    <3>2. /\ volume.context.targetPortal = Portal
          /\ volume.context.lun = 0
          /\ volume.context.portals = <<>>
      BY <3>1 DEF VolumeContext
    <3>3. <<>> \in Seq(Address)
      OBVIOUS
    <3>4. Portal \in Address \union {Missing}
      BY ContextsAssumption
    <3>5. /\ volume.context.targetPortal \in Address \union {Missing}
          /\ volume.context.lun \in Int \union {Missing, Garbage}
          /\ volume.context.portals \in Seq(Address) \union {Missing, Garbage}
      BY <3>2, <3>3, <3>4
    <3>6. NodePublishVolume(volume.id, volume.context, TRUE, "path")
      BY <2>2 DEF PublishCreated
    <3> HIDE DEF Inv
    <3> QED BY <3>5, <3>6, <1>2
  <2>3. CASE PublishStatic
    BY <2>3, <1>2, ContextsAssumption DEF PublishStatic
  <2>4. CASE DeleteVolume
    BY <2>4 DEF DeleteVolume, ContextInv, VolumeContextInv
  <2>5. CASE UNCHANGED vars
    BY <2>5 DEF vars, ContextInv, VolumeContextInv
  <2> QED BY <2>1, <2>2, <2>3, <2>4, <2>5 DEF Next
<1> QED BY <1>1, <1>3, PTL DEF Spec

\* Whatever context a volume has, the connector that is made of it leads to
\* the target it names, by all the addresses it names and no other, in their
\* order, and to the LUN it names exactly when the number fits 32 bits.
THEOREM ConnectionIsAsAsked == Spec => []ConnectsAsAsked
<1>1. ContextInv /\ HandoverInv => ConnectsAsAsked
  <2> SUFFICES ASSUME ContextInv, HandoverInv, NEW p \in attached, NEW c \in p
      PROVE  LET addresses == <<pub.context.targetPortal>> \o pub.context.portals
             IN  /\ c.name = pub.id /\ c.iqn = pub.context.iqn
                 /\ Len(c.portals) = Len(addresses)
                 /\ \A i \in DOMAIN addresses : LeadsTo(c.portals[i], addresses[i])
                 /\ c.lun = pub.context.lun <=>
                       pub.context.lun \in -Half32 .. (Half32 - 1)
    BY DEF ConnectsAsAsked
  <2> DEFINE ctx == pub.context
             tp == ctx.targetPortal
             rest == ctx.portals
             more == [i \in DOMAIN rest |-> portalMounter(rest[i])]
             addresses == <<tp>> \o rest
  <2>1. c \in buildISCSIConnector(pub.id, ctx) /\ pub.id # <<>>
    BY DEF HandoverInv, ConnectorInv
  <2>2. /\ c.name = pub.id /\ c.iqn = ctx.iqn /\ c.lun = Int32(ctx.lun)
        /\ c.portals = Portals(ctx)
    BY <2>1 DEF buildISCSIConnector
  <2>3. tp \in Address /\ rest \in Seq(Address) /\ ctx.lun \in Int
    BY DEF ContextInv
  <2>4. c.portals = <<portalMounter(tp)>> \o more
    BY <2>2 DEF Portals
  <2> HIDE DEF tp, rest
  <2>5. /\ portalMounter(tp) \in Address /\ LeadsTo(portalMounter(tp), tp)
        /\ more \in Seq(Address) /\ Len(more) = Len(rest)
        /\ \A i \in 1..Len(rest) : LeadsTo(more[i], rest[i])
    BY <2>3, PortIsAdded
  <2>6. /\ Len(c.portals) = Len(addresses)
        /\ \A i \in DOMAIN addresses : LeadsTo(c.portals[i], addresses[i])
    <3> HIDE DEF more
    <3>1. Len(c.portals) = 1 + Len(rest) /\ Len(addresses) = 1 + Len(rest)
      BY <2>3, <2>4, <2>5
    <3>2. DOMAIN addresses = 1..(1 + Len(rest))
      BY <2>3
    <3>3. c.portals[1] = portalMounter(tp) /\ addresses[1] = tp
      BY <2>3, <2>4, <2>5
    <3>4. ASSUME NEW i \in 2..(1 + Len(rest))
          PROVE  c.portals[i] = more[i - 1] /\ addresses[i] = rest[i - 1]
      BY <2>3, <2>4, <2>5
    <3>5. ASSUME NEW i \in 1..(1 + Len(rest))
          PROVE  LeadsTo(c.portals[i], addresses[i])
      <4>1. CASE i = 1
        BY <2>5, <3>3, <4>1
      <4>2. CASE i \in 2..(1 + Len(rest))
        <5>1. i - 1 \in 1..Len(rest)
          BY <2>3, <4>2
        <5>2. LeadsTo(more[i - 1], rest[i - 1])
          BY <2>5, <5>1
        <5> HIDE DEF addresses
        <5> QED BY <3>4, <4>2, <5>2
      <4> QED BY <2>3, <4>1, <4>2
    <3> HIDE DEF addresses
    <3> QED BY <3>1, <3>2, <3>5
  <2>7. c.lun = ctx.lun <=> ctx.lun \in -Half32 .. (Half32 - 1)
    BY <2>2, <2>3, Int32Exact
  <2> QED BY <2>2, <2>6, <2>7 DEF tp, rest
<1> QED BY <1>1, ContextInvariance, HandoverInvariance, PTL

-----------------------------------------------------------------------------
\* Types, and what becomes of a volume that was created

NameInv ==
    /\ asked = None \/ asked.name \in Names
    /\ volume # None =>
          asked.name \in Names /\ volume.id = cleanISCSIName(asked.name)
    /\ code \in {"none", "go", "OK", "InvalidArgument", "OutOfRange",
                 "Internal"}

LEMMA NameStep == NameInv /\ [Next]_vars => NameInv'
<1> SUFFICES ASSUME NameInv, [Next]_vars PROVE NameInv'
  OBVIOUS
<1>1. CASE Create
  <2>1. PICK name \in Names, caps \in SUBSET Capability,
             required \in Bytes, limit \in Bytes :
            CreateVolume(name, caps, [required |-> required, limit |-> limit])
    BY <1>1 DEF Create
  <2> QED BY <2>1 DEF CreateVolume, CreateCode, NameInv
<1>2. CASE PublishCreated \/ PublishStatic
  BY <1>2 DEF PublishCreated, PublishStatic, NodePublishVolume, NameInv
<1>3. CASE DeleteVolume
  BY <1>3 DEF DeleteVolume, NameInv
<1>4. CASE UNCHANGED vars
  BY <1>4 DEF vars, NameInv
<1> QED BY <1>1, <1>2, <1>3, <1>4 DEF Next

\* A volume is known by the name that was asked for.
THEOREM NameInvariance == Spec => []NameInv
<1>1. Init => NameInv
  BY DEF Init, NameInv
<1> QED BY <1>1, NameStep, PTL DEF Spec

\* Every variable has the values its comment says; the LUN of a connector
\* fits 32 bits whatever number the context held.
THEOREM TypesHold == Spec => []TypeOK
<1>1. HandoverInv /\ ContextInv /\ NameInv => TypeOK
  <2> SUFFICES ASSUME HandoverInv, ContextInv, NameInv PROVE TypeOK
    OBVIOUS
  <2>1. ASSUME volume # None
        PROVE  volume.capacityBytes \in Nat /\ volume.lunCapacity \in Nat
    <3>1. giB \in Nat /\ giB > 0 /\ Min \in Nat
      BY SizesAssumption DEF Min
    <3>2. volume.capacityBytes \in Int /\ Min <= volume.capacityBytes
      BY <2>1, SizeFits DEF HandoverInv, VolumeInv
    <3>3. volume.lunCapacity = volume.capacityBytes \div giB
      BY <2>1 DEF HandoverInv, VolumeInv
    <3>4. \A n \in Nat : n \div giB \in Nat
      BY <3>1
    <3> QED BY <3>1, <3>2, <3>3, <3>4
  <2>2. volume # None => volume.id \in Ids
    BY DEF NameInv, Ids
  <2>3. ASSUME NEW p \in attached, NEW c \in p
        PROVE  c.lun \in -Half32 .. (Half32 - 1)
    <3>1. c \in buildISCSIConnector(pub.id, pub.context) /\ pub.id # <<>>
      BY <2>3 DEF HandoverInv, ConnectorInv
    <3>2. c.lun = Int32(pub.context.lun)
      BY <3>1 DEF buildISCSIConnector
    <3>3. pub.context.lun \in Int
      BY <2>3 DEF ContextInv
    <3> QED BY <3>2, <3>3, Int32Fits
  <2> QED BY <2>1, <2>2, <2>3 DEF NameInv, TypeOK
<1> QED BY <1>1, HandoverInvariance, ContextInvariance, NameInvariance, PTL

\* A volume with a name is never refused, and connected to as what it is.
UsableInv ==
    volume # None /\ volume.id # <<>> =>
        /\ code \in {"go", "OK"}
        /\ \A p \in attached :
              pub.id = volume.id /\ pub.context = volume.context

\* VolumeContext (driver/controller.go:155-160) has all that getISCSIInfo
\* (driver/iscsi_iscsi.go:28-97) looks for, in a form it can read.
LEMMA ContextIsReadable ==
    ASSUME Portal # Missing, NEW name \in Names
    PROVE  ~InfoError(VolumeContext(cleanISCSIName(name)))
<1> DEFINE id == cleanISCSIName(name)
           ctx == VolumeContext(id)
<1>1. /\ ctx.targetPortal = Portal /\ ctx.iqn = id /\ ctx.lun = 0
      /\ ctx.portals = <<>> /\ ctx.secret = Missing
  BY DEF VolumeContext
<1>2. id # Missing
  BY ValuesAssumption DEF Ids
<1>3. /\ Missing # 0 /\ Garbage # 0
      /\ <<>> \notin {Missing, Garbage}
  BY ValuesAssumption
<1>4. ~SecretError(parseSecret(ctx.secret))
  BY <1>1 DEF SecretError, parseSecret
<1> QED BY <1>1, <1>2, <1>3, <1>4 DEF InfoError

LEMMA UsableStep ==
    ASSUME Portal # Missing
    PROVE  NameInv /\ VolumeContextInv /\ UsableInv /\ [Next]_vars
             => UsableInv'
<1> SUFFICES ASSUME NameInv, VolumeContextInv, UsableInv, [Next]_vars
             PROVE  UsableInv'
  OBVIOUS
<1>1. CASE Create
  BY <1>1 DEF Create, CreateVolume, UsableInv
<1>2. CASE PublishCreated
  <2> SUFFICES ASSUME volume # None, volume.id # <<>>
               PROVE  /\ code' = "OK"
                      /\ \A p \in attached' :
                            pub'.id = volume.id /\ pub'.context = volume.context
    BY <1>2 DEF PublishCreated, NodePublishVolume, UsableInv
  <2>1. ~PublishRefused(volume.id, TRUE, "path")
    BY ValuesAssumption DEF PublishRefused
  <2>2. ~InfoError(volume.context)
    BY ContextIsReadable DEF NameInv, VolumeContextInv
  <2> QED BY <1>2, <2>1, <2>2 DEF PublishCreated, NodePublishVolume
<1>3. CASE PublishStatic
  BY <1>3 DEF PublishStatic, NodePublishVolume, UsableInv
<1>4. CASE DeleteVolume
  BY <1>4 DEF DeleteVolume, UsableInv
<1>5. CASE UNCHANGED vars
  BY <1>5 DEF vars, UsableInv
<1> QED BY <1>1, <1>2, <1>3, <1>4, <1>5 DEF Next

\* With the portal set, what CreateVolume answers is what NodePublishVolume
\* and DeleteVolume accept, if the name has a letter or a digit.
THEOREM CreatedStaysUsable ==
    ASSUME Portal # Missing
    PROVE  Spec => []CreatedIsUsable
<1>1. Init => UsableInv
  BY DEF Init, UsableInv
<1>2. HandoverInv /\ NameInv /\ VolumeContextInv /\ UsableInv
        => CreatedIsUsable
  <2> SUFFICES ASSUME HandoverInv, NameInv, VolumeContextInv, UsableInv,
                      volume # None,
                      NEW i \in DOMAIN asked.name, asked.name[i] \in Alnum
               PROVE  /\ code \in {"go", "OK"}
                      /\ \A p \in attached : \A c \in p :
                            /\ c.iqn = volume.id /\ c.name = volume.id
                            /\ c.lun = 0
    BY DEF CreatedIsUsable
  <2>1. volume.id # <<>>
    BY NameIsLeft DEF NameInv
  <2>2. ASSUME NEW p \in attached, NEW c \in p
        PROVE  c.iqn = volume.id /\ c.name = volume.id /\ c.lun = 0
    <3>1. pub.id = volume.id /\ pub.context = volume.context
      BY <2>1, <2>2 DEF UsableInv
    <3>2. c \in buildISCSIConnector(volume.id, volume.context)
      BY <2>2, <3>1 DEF HandoverInv, ConnectorInv
    <3>3. volume.context.iqn = volume.id /\ volume.context.lun = 0
      BY DEF VolumeContextInv, VolumeContext
    <3>4. /\ c.iqn = volume.id /\ c.name = volume.id
          /\ c.lun = Int32(0)
      BY <2>1, <3>2, <3>3 DEF buildISCSIConnector
    <3>5. 0 \in -Half32 .. (Half32 - 1)
      BY Half32Assumption
    <3> QED BY <3>4, <3>5, Int32Keeps
  <2> QED BY <2>1, <2>2 DEF UsableInv
<1> QED BY <1>1, <1>2, UsableStep, HandoverInvariance, NameInvariance,
           ContextInvariance, PTL DEF Spec
=============================================================================
