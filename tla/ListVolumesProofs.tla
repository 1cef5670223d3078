------------------------- MODULE ListVolumesProofs --------------------------
(***************************************************************************)
(* Pages neither repeat nor skip a volume, for any number of volumes and   *)
(* indexes, any sizes of pages, and whatever happens between two of them.  *)
(***************************************************************************)
EXTENDS ListVolumes, FiniteSetTheorems, TLAPS

\* A page is part of what was not seen; an empty one is all of it.
LEMMA PagesArePart ==
    ASSUME NEW unseen \in SUBSET Targets, NEW m \in Nat,
           NEW page \in Pages(unseen, IF m = 0 THEN Cardinality(Targets) ELSE m)
    PROVE  page \subseteq unseen /\ (page = {} => unseen = {})
<1>1. IsFiniteSet(Targets)
  BY IdxAssumption, FS_Subset DEF Targets
<1>2. /\ Cardinality(unseen) <= Cardinality(Targets)
      /\ Cardinality(unseen) \in Nat /\ Cardinality(Targets) \in Nat
  BY <1>1, FS_Subset, FS_CardinalityType
<1>3. Cardinality({}) = 0
  BY FS_EmptySet
<1> QED BY <1>2, <1>3 DEF Pages

\* Every step keeps the invariant; a page is where it could break.
LEMMA PageHolds ==
    ASSUME ListInv, twice = {}, status = "listing", token # NoToken,
           NEW page \in SUBSET (Targets \ Decode(token)),
           page = {} => Targets \ Decode(token) = {},
           Return(page, NextToken(Decode(token), page,
                                  Targets \ Decode(token)))
    PROVE  (ListInv /\ ListedOnce /\ EndComplete)'
<1> DEFINE seen == Decode(token)
           unseen == Targets \ seen
           next == NextToken(seen, page, unseen)
           names == {target[i] : i \in page}
<1>1. seen = Seen /\ seen \in SUBSET Idx
  BY TokensAssumption DEF Decode, Seen, ListInv, TypeOK, Tokens
<1>2. /\ twice' = listed \cap names
      /\ listed' = listed \cup names
      /\ token' = next
      /\ status' = IF next = NoToken THEN "ended" ELSE "listing"
      /\ UNCHANGED <<target, unused, steady>>
  BY DEF Return
<1>3. page \subseteq Targets /\ page \subseteq Idx
  BY DEF Targets
<1>4. names \subseteq Existing /\ names \subseteq Vols
  BY <1>3 DEF Existing, ListInv, TypeOK, Targets
<1>5. \A i \in page : target[i] \notin listed
  BY <1>1, <1>3 DEF ListInv
<1>6. ListedOnce'
  BY <1>2, <1>5 DEF ListedOnce
<1>7. /\ next \in Tokens
      /\ page = unseen => next = NoToken
      /\ page # unseen => next = seen \cup page /\ next # {}
                          /\ next \notin {NoToken, BadToken}
  <2>1. CASE page = unseen
    BY <2>1 DEF NextToken, Tokens
  <2>2. CASE page # unseen
    <3>1. seen \cup page # {}
      BY <2>2
    <3>2. next = seen \cup page
      BY <2>2, <3>1 DEF NextToken, Encode
    <3>3. seen \cup page \in SUBSET Idx
      BY <1>1, <1>3
    <3> QED BY <2>2, <3>1, <3>2, <3>3, TokensAssumption DEF Tokens
  <2> QED BY <2>1, <2>2
<1>8. Targets' = Targets /\ Existing' = Existing
  BY <1>2 DEF Targets, Existing
<1> HIDE DEF next, unseen, seen, names
<1>9. TypeOK'
  BY <1>2, <1>4, <1>6, <1>7 DEF ListInv, TypeOK, ListedOnce
<1>10. \A v \in unused' : v \notin listed' /\ v \notin Existing'
  BY <1>2, <1>4, <1>8 DEF ListInv
<1>11. ASSUME status' = "listing", NEW i \in Targets
       PROVE  /\ target[i] \in listed' => i \in seen \cup page
              /\ i \in seen \cup page /\ target[i] \in steady
                   => target[i] \in listed'
  <2>1. target[i] \in names => i \in page
    BY <1>3 DEF names, ListInv
  <2>2. i \in page => target[i] \in names
    BY DEF names
  <2> QED BY <1>1, <1>2, <2>1, <2>2 DEF ListInv
<1>12. status' = "listing" => Seen' = seen \cup page
  BY <1>2, <1>7 DEF Seen
<1>13. ListInv'
  BY <1>2, <1>8, <1>9, <1>10, <1>11, <1>12 DEF ListInv
<1>14. EndComplete'
  <2> SUFFICES ASSUME status' = "ended" PROVE steady \subseteq listed'
    BY <1>2 DEF EndComplete
  <2>1. page = unseen
    BY <1>2, <1>7
  <2>2. \A i \in Targets : target[i] \in steady => target[i] \in listed'
    BY <1>1, <1>2, <2>1 DEF unseen, seen, names, ListInv
  <2> QED BY <2>2 DEF ListInv, Existing
<1> QED BY <1>6, <1>13, <1>14

\* A request without a token comes back only if there is no target.
LEMMA FirstHolds ==
    ASSUME ListInv, twice = {}, Targets = {}, Return({}, NoToken)
    PROVE  (ListInv /\ ListedOnce /\ EndComplete)'
  BY DEF Return, ListInv, TypeOK, ListedOnce, EndComplete, Existing, Targets, Tokens

LEMMA ListHolds ==
    ASSUME ListInv, ListedOnce, EndComplete, NEW m \in Nat, ListVolumes(m)
    PROVE  (ListInv /\ ListedOnce /\ EndComplete)'
<1>1. CASE Dereferences(token) /\ Panic
  BY <1>1 DEF Panic, ListInv, TypeOK, ListedOnce, EndComplete, Existing,
              Targets, Seen
<1>2. CASE ~Dereferences(token) /\ token = NoToken /\ Return({}, NoToken)
  BY <1>2, FirstHolds DEF Dereferences, ListedOnce
<1>3. CASE token # NoToken
  <2> DEFINE unseen == Targets \ Decode(token)
  <2>1. PICK page \in Pages(unseen, IF m = 0 THEN Cardinality(Targets) ELSE m) :
             Return(page, NextToken(Decode(token), page, unseen))
    BY <1>3 DEF ListVolumes, Dereferences
  <2>2. page \subseteq unseen /\ (page = {} => unseen = {})
    BY PagesArePart
  <2> QED BY <1>3, <2>1, <2>2, PageHolds DEF ListVolumes, ListedOnce
<1> QED BY <1>1, <1>2, <1>3 DEF ListVolumes, Dereferences

LEMMA CreateHolds ==
    ASSUME ListInv, ListedOnce, EndComplete, NEW v \in Vols, NEW i \in Idx,
           CreateTarget(v, i)
    PROVE  (ListInv /\ ListedOnce /\ EndComplete)'
<1>1. /\ Targets' = Targets \cup {i}
      /\ target'[i] = v
      /\ \A j \in Targets : target'[j] = target[j] /\ j # i
  BY NoneAssumption DEF CreateTarget, Targets, ListInv, TypeOK
<1>2. Existing' = Existing \cup {v}
  BY <1>1 DEF Existing
<1>3. TypeOK'
  BY DEF CreateTarget, ListInv, TypeOK
<1>4. v \notin listed /\ v \notin Existing /\ v \notin steady
  BY DEF CreateTarget, ListInv
<1>5. \A j \in Targets : target[j] \in Existing
  BY DEF Existing
<1>6. Seen' = Seen
  BY DEF CreateTarget, Seen
<1> QED
  BY <1>1, <1>2, <1>3, <1>4, <1>5, <1>6
  DEF CreateTarget, ListInv, ListedOnce, EndComplete

LEMMA DeleteHolds ==
    ASSUME ListInv, ListedOnce, EndComplete, NEW i \in Idx, DeleteTarget(i)
    PROVE  (ListInv /\ ListedOnce /\ EndComplete)'
<1>1. /\ Targets' = Targets \ {i} /\ i \in Targets
      /\ \A j \in Targets' : target'[j] = target[j]
  BY DEF DeleteTarget, Targets, ListInv, TypeOK
<1>2. Existing' = Existing \ {target[i]}
  BY <1>1 DEF Existing, ListInv
<1>3. TypeOK'
  BY DEF DeleteTarget, ListInv, TypeOK
<1>4. Seen' = Seen
  BY DEF DeleteTarget, Seen
<1> QED
  BY <1>1, <1>2, <1>3, <1>4
  DEF DeleteTarget, ListInv, ListedOnce, EndComplete

\* The token says what was listed, whatever comes and goes.
THEOREM TokenIsEnough == Spec => [](ListInv /\ ListedOnce /\ EndComplete)
<1> DEFINE Inv == ListInv /\ ListedOnce /\ EndComplete
<1>1. Init => Inv
  <2> SUFFICES ASSUME Init PROVE Inv
    OBVIOUS
  <2>1. Existing \subseteq Vols
    BY DEF Init, Existing, Targets
  <2>2. TypeOK
    BY <2>1, TokensAssumption DEF Init, TypeOK, Tokens
  <2>3. Seen = {}
    BY TokensAssumption DEF Init, Seen
  <2> QED BY <2>2, <2>3 DEF Init, ListInv, ListedOnce, EndComplete
<1>2. Inv /\ [Next]_vars => Inv'
  <2> SUFFICES ASSUME Inv, [Next]_vars PROVE Inv'
    OBVIOUS
  <2>1. CASE UNCHANGED vars
    BY <2>1 DEF vars, ListInv, TypeOK, ListedOnce, EndComplete, Targets,
                Existing, Seen
  <2> QED
    BY <2>1, ListHolds, CreateHolds, DeleteHolds, PageSizesAssumption DEF Next
<1> QED BY <1>1, <1>2, PTL DEF Spec

\* The inductive invariant, the type invariant with it.
THEOREM ListInvariance == Spec => []ListInv
  BY TokenIsEnough, PTL

\* No volume is on two pages.
THEOREM NoneListedTwice == Spec => []ListedOnce
  BY TokenIsEnough, PTL

\* No volume that existed all along is missing when the listing ends.
THEOREM NoneIsMissing == Spec => []EndComplete
  BY TokenIsEnough, PTL
=============================================================================
