--------------------------- MODULE RoutingProofs ---------------------------
(***************************************************************************)
(* Safety of the routing tables: a public name leads to one live profile   *)
(* at most, and what is live was published, for any profiles, names,       *)
(* Workers and documents.                                                  *)
(***************************************************************************)
EXTENDS RoutingProfiles, SequenceTheorems, TLAPS

\* NoAmbiguousNames is inductive once a live revision is known to exist.
RoutingInv == RoutingTypeOK /\ LiveIsPublished /\ NoAmbiguousNames

LEMMA RoutingInitially == RoutingInit => RoutingInv
  BY DEF RoutingInit, RoutingInv, RoutingTypeOK, LiveIsPublished, NoAmbiguousNames,
         LiveNames

\* Making a document live that collides with no other profile keeps names unique.
LEMMA ActivationKeepsNames ==
  ASSUME RoutingInv, NEW p \in Profiles, NEW d \in Documents, ~Collides(p, d),
         \A q \in Profiles \ {p} : LiveNames(q)' = LiveNames(q),
         LiveNames(p)' = Served(d)
  PROVE  NoAmbiguousNames'
<1> SUFFICES ASSUME NEW q \in Profiles, NEW r \in Profiles, q # r
             PROVE  LiveNames(q)' \cap LiveNames(r)' = {}
  BY DEF NoAmbiguousNames
<1>1. CASE q = p
  BY <1>1 DEF Collides
<1>2. CASE r = p
  BY <1>2 DEF Collides
<1>3. CASE q # p /\ r # p
  BY <1>3 DEF RoutingInv, NoAmbiguousNames
<1>. QED
  BY <1>1, <1>2, <1>3

LEMMA SaveKeeps ==
  ASSUME RoutingInv, NEW p \in Profiles, NEW d \in Documents, SaveDraft(p, d)
  PROVE  RoutingInv'
<1>0. d # NoDraft
  BY RoutingAssumption DEF Documents
<1>. QED
  BY <1>0 DEF RoutingInv, RoutingTypeOK, LiveIsPublished, NoAmbiguousNames, LiveNames,
              SaveDraft

LEMMA AddKeeps ==
  ASSUME RoutingInv, NEW p \in Profiles, NEW d \in Documents, AddRevision(p, d)
  PROVE  RoutingInv'
<1>. DEFINE n == Len(revs[p]) + 1
<1>. USE DEF RoutingInv
<1>1. revs[p] \in Seq(Documents) /\ n \in Nat \ {0}
  BY DEF RoutingTypeOK
<1>2. /\ Append(revs[p], d) \in Seq(Documents)
      /\ Len(Append(revs[p], d)) = n
      /\ Append(revs[p], d)[n] = d
  BY <1>1, AppendProperties
<1>3. /\ revs' = [revs EXCEPT ![p] = Append(revs[p], d)]
      /\ live' = [live EXCEPT ![p] = n]
      /\ draft' = draft /\ draft[p] # NoDraft
  BY DEF AddRevision
<1>4. RoutingTypeOK'
  BY <1>1, <1>2, <1>3 DEF RoutingTypeOK
<1>5. revs'[p] = Append(revs[p], d) /\ live'[p] = n
  BY <1>3 DEF RoutingTypeOK
<1>6. \A q \in Profiles \ {p} : revs'[q] = revs[q] /\ live'[q] = live[q]
  BY <1>3 DEF RoutingTypeOK
<1>7. LiveIsPublished'
  <2> SUFFICES ASSUME NEW q \in Profiles
               PROVE  /\ live'[q] \in 0..Len(revs'[q])
                      /\ revs'[q] # << >> => draft'[q] # NoDraft
    BY DEF LiveIsPublished
  <2>1. CASE q = p
    BY <1>1, <1>2, <1>3, <1>5, <2>1
  <2>2. CASE q # p
    BY <1>3, <1>6, <2>2 DEF LiveIsPublished
  <2>. QED
    BY <2>1, <2>2
<1>8. LiveNames(p)' = Served(d)
  BY <1>1, <1>2, <1>5 DEF LiveNames, Served
<1>9. \A q \in Profiles \ {p} : LiveNames(q)' = LiveNames(q)
  BY <1>6 DEF LiveNames, Served
<1>10. ~Collides(p, d)
  BY DEF AddRevision
<1>. QED
  BY <1>4, <1>7, <1>8, <1>9, <1>10, ActivationKeepsNames

LEMMA ActivateKeeps ==
  ASSUME RoutingInv, NEW p \in Profiles, NEW r \in 1..Len(revs[p]), Activate(p, r)
  PROVE  RoutingInv'
<1>. USE DEF RoutingInv
<1>0. revs[p][r] \in Documents /\ r \in Nat \ {0}
  BY ElementOfSeq DEF RoutingTypeOK
<1>1. live' = [live EXCEPT ![p] = r] /\ draft' = draft /\ revs' = revs
  BY DEF Activate
<1>2. live'[p] = r /\ \A q \in Profiles \ {p} : live'[q] = live[q]
  BY <1>1 DEF RoutingTypeOK
<1>3. RoutingTypeOK' /\ LiveIsPublished'
  BY <1>0, <1>1, <1>2 DEF RoutingTypeOK, LiveIsPublished
<1>4. LiveNames(p)' = Served(revs[p][r])
  BY <1>0, <1>1, <1>2 DEF LiveNames, Served
<1>5. \A q \in Profiles \ {p} : LiveNames(q)' = LiveNames(q)
  BY <1>1, <1>2 DEF LiveNames, Served
<1>6. ~Collides(p, revs[p][r])
  BY DEF Activate
<1>. QED
  BY <1>0, <1>3, <1>4, <1>5, <1>6, ActivationKeepsNames

LEMMA DeactivateKeeps ==
  ASSUME RoutingInv, NEW p \in Profiles, Deactivate(p)
  PROVE  RoutingInv'
<1>. USE DEF RoutingInv
<1>1. live' = [live EXCEPT ![p] = 0] /\ draft' = draft /\ revs' = revs
  BY DEF Deactivate
<1>2. live'[p] = 0 /\ \A q \in Profiles \ {p} : live'[q] = live[q]
  BY <1>1 DEF RoutingTypeOK
<1>3. RoutingTypeOK' /\ LiveIsPublished'
  BY <1>1, <1>2 DEF RoutingTypeOK, LiveIsPublished
<1>4. \A q \in Profiles : LiveNames(q)' = LiveNames(q) \/ LiveNames(q)' = {}
  BY <1>1, <1>2 DEF LiveNames, Served
<1>. QED
  BY <1>3, <1>4 DEF NoAmbiguousNames

LEMMA DeleteKeeps ==
  ASSUME RoutingInv, NEW p \in Profiles, DeleteProfile(p)
  PROVE  RoutingInv'
  BY DEF RoutingInv, RoutingTypeOK, LiveIsPublished, NoAmbiguousNames, LiveNames,
         DeleteProfile

\* Every operation on the tables keeps the invariant.
LEMMA RoutingInductive == RoutingInv /\ [RoutingNext]_routingVars => RoutingInv'
<1>1. ASSUME RoutingInv, NEW p \in Profiles, NEW d \in Documents,
             SaveDraft(p, d) \/ AddRevision(p, d)
      PROVE  RoutingInv'
  BY <1>1, SaveKeeps, AddKeeps
<1>2. ASSUME RoutingInv, NEW p \in Profiles, NEW r \in 1..Len(revs[p]), Activate(p, r)
      PROVE  RoutingInv'
  BY <1>2, ActivateKeeps
<1>3. ASSUME RoutingInv, NEW p \in Profiles, Deactivate(p) \/ DeleteProfile(p)
      PROVE  RoutingInv'
  BY <1>3, DeactivateKeeps, DeleteKeeps
<1>4. RoutingInv /\ UNCHANGED routingVars => RoutingInv'
  BY DEF RoutingInv, RoutingTypeOK, LiveIsPublished, NoAmbiguousNames, LiveNames,
         routingVars
<1>. QED
  BY <1>1, <1>2, <1>3, <1>4 DEF RoutingNext

\* A revision is never taken away.
LEMMA RevisionsStay ==
  ASSUME RoutingTypeOK, [RoutingNext]_routingVars, NEW p \in Profiles
  PROVE  Len(revs[p]) <= Len(revs'[p]) /\ Len(revs[p]) \in Nat /\ Len(revs'[p]) \in Nat
<1>0. revs[p] \in Seq(Documents) /\ Len(revs[p]) \in Nat
  BY DEF RoutingTypeOK
<1>1. CASE revs' = revs
  BY <1>0, <1>1
<1>2. ASSUME NEW q \in Profiles, NEW d \in Documents, AddRevision(q, d)
      PROVE  Len(revs[p]) <= Len(revs'[p]) /\ Len(revs'[p]) \in Nat
  <2>1. revs' = [revs EXCEPT ![q] = Append(revs[q], d)] /\ revs[q] \in Seq(Documents)
    BY <1>2 DEF AddRevision, RoutingTypeOK
  <2>2. Len(Append(revs[q], d)) = Len(revs[q]) + 1
    BY <2>1, AppendProperties
  <2>3. revs'[p] = IF p = q THEN Append(revs[q], d) ELSE revs[p]
    BY <2>1 DEF RoutingTypeOK
  <2>. QED
    BY <1>0, <2>2, <2>3
<1>. QED
  BY <1>0, <1>1, <1>2 DEF RoutingNext, SaveDraft, Activate, Deactivate, DeleteProfile,
                          routingVars

\* The tables are well-typed, live revisions exist and public names are unambiguous
\* (CompatibilityStore's routing operations).
THEOREM RoutingInvariance == RoutingSpec => []RoutingInv
<1>. QED
  BY RoutingInitially, RoutingInductive, PTL DEF RoutingSpec

\* No two live profiles serve the same public name.
THEOREM NamesAreUnambiguous == RoutingSpec => []NoAmbiguousNames
<1>1. RoutingInv => NoAmbiguousNames
  BY DEF RoutingInv
<1>. QED
  BY RoutingInvariance, <1>1, PTL

\* A live profile names a revision it has.
THEOREM LiveWasPublished == RoutingSpec => []LiveIsPublished
<1>1. RoutingInv => LiveIsPublished
  BY DEF RoutingInv
<1>. QED
  BY RoutingInvariance, <1>1, PTL

=============================================================================
