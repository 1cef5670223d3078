--------------------------- MODULE PublishRequest ---------------------------
(***************************************************************************)
(* What NodePublishVolume makes of its request before it touches the host  *)
(* (driver/node.go:38-58, driver/iscsi_iscsi.go): the volume context, which*)
(* CreateVolume or the author of a static volume wrote, becomes the        *)
(* connector that csi-lib-iscsi logs in with, or an error.                 *)
(***************************************************************************)
EXTENDS Integers, Sequences

CONSTANTS
    Missing,   \* a key the context does not have, or an empty string
    Garbage,   \* a value that cannot be parsed
    Half32     \* 2^31, or less

ASSUME Half32Assumption == Half32 \in Nat \ {0}

\* An address holds a colon if it names a port or is one of IPv6.
Address == [host : {"v4", "v6"}, port : {"none", "given", "3260"}]

SessionKeys == {"node.session.auth.username", "node.session.auth.password",
                "node.session.auth.username_in", "node.session.auth.password_in"}
DiscoveryKeys == {"node.sendtargets.auth.username",
                  "node.sendtargets.auth.password",
                  "node.sendtargets.auth.username_in",
                  "node.sendtargets.auth.password_in"}

\* strconv.Atoi gives an int, which is cut to 32 bits.
Int32(n) == ((n + Half32) % (2 * Half32)) - Half32

\* Mutant: the port is left out.
portalMounterBare(address) == address

portalMounter(address) ==
    IF address.host = "v6" \/ address.port # "none" THEN address
    ELSE [address EXCEPT !.port = "3260"]

\* A secret that is no JSON object counts as none; one with any key must
\* have all those of the sessions and all those of the discovery.
parseSecret(secret) == IF secret \in {Missing, Garbage} THEN {} ELSE secret

\* Mutant: the session's keys are enough.
SecretErrorSession(secret) ==
    secret # {} /\ ~(SessionKeys \subseteq secret)

SecretError(secret) ==
    secret # {} /\ ~(SessionKeys \union DiscoveryKeys \subseteq secret)

\* The error returns of getISCSIInfo.
InfoError(ctx) ==
    \/ Missing \in {ctx.targetPortal, ctx.iqn, ctx.lun}
    \/ SecretError(parseSecret(ctx.secret))
    \/ ctx.portals \in {Missing, Garbage}
    \/ ctx.lun = Garbage

Portals(ctx) ==
    <<portalMounter(ctx.targetPortal)>>
        \o [i \in DOMAIN ctx.portals |-> portalMounter(ctx.portals[i])]

\* The pointer getISCSIDiskMounter puts in the mounter, a set that is empty
\* for nil: that is what it is without a volume name.  The iqn and the portals
\* are there when getISCSIInfo succeeds.  The secrets of the discovery are
\* taken only with those of the sessions.
buildISCSIConnector(id, ctx) ==
    LET keys == parseSecret(ctx.secret)
        chap == SessionKeys \subseteq keys
    IN  IF id = <<>> THEN {}
        ELSE {[name |-> id, iqn |-> ctx.iqn, portals |-> Portals(ctx),
               lun |-> Int32(ctx.lun), session |-> chap,
               discovery |-> chap /\ DiscoveryKeys \subseteq keys]}

\* Mutant: the volume id is not looked at.
PublishRefusedNoId(id, capability, path) == ~capability \/ path = Missing

\* The arguments NodePublishVolume refuses.
PublishRefused(id, capability, path) ==
    ~capability \/ id = <<>> \/ path = Missing
=============================================================================
