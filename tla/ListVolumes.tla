---------------------------- MODULE ListVolumes -----------------------------
(***************************************************************************)
(* ListVolumes (driver/controller.go) and its tokens (driver/utils.go): an *)
(* orchestrator lists the volumes page by page while others are created    *)
(* and deleted.  The driver keeps nothing between two pages; what it has   *)
(* listed already is written in the token, a set of target indexes.  A     *)
(* call that fails at Login or at the target list changes nothing and is   *)
(* not an action.                                                          *)
(***************************************************************************)
EXTENDS Naturals, FiniteSets

CONSTANTS
    Vols,         \* names of volumes; a name is used once
    Idx,          \* target indexes, given again by the NAS when free
    PageSizes,    \* max_entries of the requests, 0 for "no limit"
    FirstTokens,  \* starting tokens of a first request
    NoToken,      \* the empty token
    BadToken,     \* a token the driver cannot decode
    None

ASSUME PageSizesAssumption == PageSizes \subseteq Nat
ASSUME TokensAssumption == /\ FirstTokens \subseteq {NoToken, BadToken}
                           /\ NoToken # BadToken
                           /\ \A seen \in SUBSET Idx :
                                 seen # NoToken /\ seen # BadToken
ASSUME NoneAssumption == None \notin Vols
ASSUME IdxAssumption == IsFiniteSet(Idx)

VARIABLES
    target,   \* the volume of the target at an index, None if there is none
    unused,   \* names that no volume has had yet
    token,    \* the token of the next request
    status,   \* of the listing: "listing", "ended", or "panic" (driver dead)
    listed,   \* volumes in the pages so far
    twice,    \* volumes that came up on two pages
    steady    \* volumes that have existed since the first request

vars == <<target, unused, token, status, listed, twice, steady>>

Targets == {i \in Idx : target[i] # None}
Existing == {target[i] : i \in Targets}
Tokens == {NoToken, BadToken} \cup SUBSET Idx

TypeOK ==
    /\ target \in [Idx -> Vols \cup {None}]
    /\ unused \in SUBSET Vols
    /\ token \in Tokens
    /\ status \in {"listing", "ended", "panic"}
    /\ listed \in SUBSET Vols
    /\ twice \in SUBSET Vols
    /\ steady \in SUBSET Vols

\* A listing is about to begin on any set of targets.
Init ==
    /\ target \in [Idx -> Vols \cup {None}]
    /\ \A i, j \in Targets : target[i] = target[j] => i = j
    /\ unused = Vols \ Existing
    /\ token \in FirstTokens
    /\ status = "listing"
    /\ listed = {} /\ twice = {}
    /\ steady = Existing

-----------------------------------------------------------------------------

\* seenIndexesToBase64String: no index makes the empty string.
Encode(seen) == IF seen = {} THEN NoToken ELSE seen

\* base64SeenIndexesToMap; ListVolumes goes on with no index if it fails.
Decode(t) == IF t = BadToken THEN {} ELSE t

\* Without a token seenIds is a nil pointer, and the first target of the
\* list dereferences it.
Dereferences(t) == t = NoToken /\ Targets # {}

\* The first m targets of the list that were not seen: the NAS decides on
\* the order, so any m of them.
Pages(unseen, m) ==
    IF Cardinality(unseen) <= m THEN {unseen}
    ELSE {p \in SUBSET unseen : Cardinality(p) = m}

\* Mutant: the index stands for the volume.
ReturnIndexes(page, next) ==
    /\ twice' = twice \cup (listed \cap page)
    /\ listed' = listed \cup page
    /\ token' = next
    /\ status' = IF next = NoToken THEN "ended" ELSE "listing"
    /\ UNCHANGED <<target, unused, steady>>

\* The entries carry the name of the target as volume id.
Return(page, next) ==
    /\ twice' = twice \cup (listed \cap {target[i] : i \in page})
    /\ listed' = listed \cup {target[i] : i \in page}
    /\ token' = next
    /\ status' = IF next = NoToken THEN "ended" ELSE "listing"
    /\ UNCHANGED <<target, unused, steady>>

Panic ==
    /\ status' = "panic"
    /\ UNCHANGED <<target, unused, token, listed, twice, steady>>

\* Mutant: the token names the indexes of the last page only.
NextTokenForgetful(seen, page, unseen) ==
    IF page = unseen THEN NoToken ELSE Encode(page)

\* Mutant: a page that is full ends the listing.
NextTokenShort(seen, page, unseen) == NoToken

\* nextToken: when more are left, every index that was seen.
NextToken(seen, page, unseen) ==
    IF page = unseen THEN NoToken ELSE Encode(seen \cup page)

\* A request without a token gets past the loop only if there is no target.
ListVolumes(maxEntries) ==
    /\ status = "listing"
    /\ \/ Dereferences(token) /\ Panic
       \/ ~Dereferences(token) /\ token = NoToken /\ Return({}, NoToken)
       \/ /\ token # NoToken
          /\ LET seen == Decode(token)
                 unseen == Targets \ seen
                 limit == IF maxEntries = 0 THEN Cardinality(Targets)
                                            ELSE maxEntries
             IN  \E page \in Pages(unseen, limit) :
                    Return(page, NextToken(seen, page, unseen))

\* CreateVolume and DeleteVolume of somebody else, between two pages.
CreateTarget(v, i) ==
    /\ v \in unused /\ target[i] = None
    /\ target' = [target EXCEPT ![i] = v]
    /\ unused' = unused \ {v}
    /\ UNCHANGED <<token, status, listed, twice, steady>>

DeleteTarget(i) ==
    /\ target[i] # None
    /\ target' = [target EXCEPT ![i] = None]
    /\ steady' = steady \ {target[i]}
    /\ UNCHANGED <<unused, token, status, listed, twice>>

Next ==
    \/ \E m \in PageSizes : ListVolumes(m)
    \/ \E v \in Vols, i \in Idx : CreateTarget(v, i)
    \/ \E i \in Idx : DeleteTarget(i)

Spec == Init /\ [][Next]_vars

\* The orchestrator goes on until it gets no token.
FairSpec == Spec /\ WF_vars(\E m \in PageSizes : ListVolumes(m))

-----------------------------------------------------------------------------

\* A volume is on one page only, although an index that was seen may have
\* been given to another volume since (controller.go:280, 301).
ListedOnce == twice = {}

\* "the plan is to base64 encode a list of "seen" numbers"
\* (controller.go:250): when the listing ends, every volume that existed all
\* along is in it, whatever was created and deleted between two pages.
EndComplete == status = "ended" => steady \subseteq listed

Seen == IF token \in {NoToken, BadToken} THEN {} ELSE token

\* Why the token is enough, although the NAS gives indexes again: what was
\* listed and is still there is in the token, and what is in the token and
\* was there all along has been listed (controller.go:280, 288, 301); with
\* the types it is inductive.
ListInv ==
    /\ TypeOK
    /\ \A i, j \in Targets : target[i] = target[j] => i = j
    /\ \A v \in unused : v \notin listed /\ v \notin Existing
    /\ steady \subseteq Existing
    /\ status = "listing" => \A i \in Targets :
          /\ target[i] \in listed => i \in Seen
          /\ i \in Seen /\ target[i] \in steady => target[i] \in listed

\* Listing the volumes, which the driver advertises (controller.go:346),
\* does not bring it down.
NeverPanics == status # "panic"

\* The orchestrator gets a page without a token at last, or no answer any
\* more: every page that is not the last has something new.
ListingEnds == <>(status # "listing")
=============================================================================
