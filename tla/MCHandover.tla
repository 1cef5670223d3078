----------------------------- MODULE MCHandover -----------------------------
(* Handover with the code's limits, sizes around each of them, and contexts *)
(* with every value the parser tells apart.                                 *)
EXTENDS Handover

\* Four units to the GiB: below, at and above every boundary.
MCBytes == {-4, 0, 1, 3, 4, 5, 8, 63, 64, 508, 511, 512, 513, 516, 520}
MCLower == [c \in {"A", "a", "7", "-"} |-> IF c = "A" THEN "a" ELSE c]
MCNames == {<<>>, <<"A", "-", "7">>, <<"a">>, <<"-">>}
MCPortal == [host |-> "v4", port |-> "given"]

LOCAL Hosts == {[host |-> "v4", port |-> "none"], [host |-> "v6", port |-> "none"],
                [host |-> "v4", port |-> "given"]}
LOCAL OneMissing == SessionKeys \ {"node.session.auth.password_in"}
MCContexts ==
    [targetPortal : {Missing} \union Hosts,
     iqn : {Missing, <<"a">>},
     lun : {Missing, Garbage, 0, 7, 8, -9},
     portals : {Missing, Garbage, <<>>} \union {<<h>> : h \in Hosts}
                 \union {<<MCPortal, [host |-> "v4", port |-> "none"]>>},
     secret : {Missing, Garbage, {}, SessionKeys, DiscoveryKeys, OneMissing,
               SessionKeys \union DiscoveryKeys, OneMissing \union DiscoveryKeys}]
=============================================================================
