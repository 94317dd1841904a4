---------------------- MODULE DeductionTracker_proofs ----------------------
(***************************************************************************)
(* Proofs about the claim table of module DeductionTracker, for every      *)
(* capacity and every set of UIDs, grams and request ids.                  *)
(***************************************************************************)
EXTENDS DeductionTracker, FiniteSetTheorems, TLAPS

(***************************************************************************)
(* Facts about operators.                                                  *)
(***************************************************************************)

\* A set of numbers bounded by n has a least element.  The initial segments
\* T \cap (1 .. k), k \in T, are finite sets; the smallest of them under
\* inclusion ends at the minimum of T.
LEMMA LeastElement ==
  ASSUME NEW n \in Nat, NEW T \in SUBSET (1 .. n), T # {}
  PROVE  \E m \in T : \A k \in T : m <= k
<1> DEFINE Seg(k) == T \cap (1 .. k)
           F == {Seg(k) : k \in T}
           R == StrictSubsetOrdering(1 .. n)
<1>1. IsFiniteSet(1 .. n)
  BY FS_Interval
<1>2. IsWellFoundedOn(R, SUBSET (1 .. n))
  BY <1>1, FS_StrictSubsetOrderingWellFounded, FS_FiniteSubsetsOfFinite
<1>3. F \subseteq SUBSET (1 .. n) /\ F # {}
  OBVIOUS
<1>4. PICK S \in F : \A U \in F : ~ (<<U, S>> \in R)
  <2> HIDE DEF F, R
  <2> QED BY <1>2, <1>3, WFMin
<1>5. PICK m \in T : S = Seg(m)
  BY <1>4
<1>6. ASSUME NEW k \in T, ~ (m <= k)
      PROVE  FALSE
  <2>1. Seg(k) \in F /\ Seg(k) \subseteq Seg(m)
    BY <1>6
  <2>2. m \in Seg(m) /\ m \notin Seg(k)
    BY <1>6
  <2>3. <<Seg(k), S>> \in R
    BY <2>1, <2>2, <1>5 DEF StrictSubsetOrdering
  <2> QED BY <2>1, <2>3, <1>4
<1> QED BY <1>6, <1>5

\* Min of a non-empty set of slots is its lowest index.
LEMMA MinIndex ==
  ASSUME NEW T \in SUBSET Index, T # {}
  PROVE  Min(T) \in T /\ \A k \in T : Min(T) <= k
<1>1. \E m \in T : \A k \in T : m <= k
  BY LeastElement, CapacityAssumption DEF Index
<1> QED BY <1>1 DEF Min

(***************************************************************************)
(* The steps that only free, bind or divert a slot keep the invariant.     *)
(* Each rewrites one slot, keeps its UID, and leaves it with coherent      *)
(* fields; none opens a claim.                                             *)
(***************************************************************************)

\* Rewriting an active slot to another state of the same claim, or to free,
\* preserves every part of the invariant.
LEMMA RewriteActive ==
  ASSUME TrackerInv, NEW k \in Index, Active(k), NEW s \in Slots,
         s.uid = slots[k].uid,
         s.state = "Bound" <=> s.id # NoRequest,
         s.state # "Free" <=> s.grams # 0,
         s.id # NoRequest => s.id = slots[k].id \/ Fresh(s.id),
         slots' = [slots EXCEPT ![k] = s],
         lastSettledUid' \in Uids \cup {NoUid}
  PROVE  TrackerInv'
<1> USE DEF TrackerInv
<1>1. \A i \in Index : slots'[i] = IF i = k THEN s ELSE slots[i]
  BY DEF TrackerTypeOK
<1>2. TrackerTypeOK'
  BY <1>1 DEF TrackerTypeOK, Active
<1>3. \A i \in Index : Pristine(i)' <=> Pristine(i)
  BY <1>1 DEF Pristine, Active, TrackerTypeOK
<1>4. PristineSuffix'
  BY <1>3 DEF PristineSuffix
<1>5. \A i \in Index : Active(i)' => Active(i) /\ slots'[i].uid = slots[i].uid
  BY <1>1 DEF Active
<1>6. OneClaimPerUid'
  BY <1>5 DEF OneClaimPerUid
<1>7. OneClaimPerRequest'
  BY <1>1 DEF OneClaimPerRequest, Fresh
<1> QED BY <1>2, <1>4, <1>6, <1>7

\* bind() gives the unbound claim an id no other slot holds.
LEMMA BindStep ==
  ASSUME TrackerInv, NEW uid \in Uids, NEW id \in RequestIds \cup {NoRequest},
         id # NoRequest => Fresh(id), Bind(uid, id)
  PROVE  TrackerInv'
<1> DEFINE S == SlotsOf(uid, {"Unbound"})
<1>1. CASE id # NoRequest /\ S # {}
  <2> DEFINE k == Min(S)
             s == [slots[k] EXCEPT !.id = id, !.state = "Bound"]
  <2>1. k \in S
    BY <1>1, MinIndex DEF SlotsOf
  <2>2. k \in Index /\ Active(k) /\ slots[k] \in Slots
    BY <2>1 DEF SlotsOf, Active, TrackerInv, TrackerTypeOK
  <2>3. s \in Slots /\ s.uid = slots[k].uid /\ s.grams = slots[k].grams
        /\ s.id = id /\ s.state = "Bound"
    BY <2>2 DEF Slots
  <2>4. slots[k].grams # 0
    BY <2>2 DEF TrackerInv, TrackerTypeOK
  <2>5. slots' = [slots EXCEPT ![k] = s]
    BY <1>1, <2>2 DEF Bind, TrackerInv, TrackerTypeOK
  <2>6. lastSettledUid' \in Uids \cup {NoUid}
    BY DEF Bind, TrackerInv, TrackerTypeOK
  <2> HIDE DEF k, s
  <2> QED BY <1>1, <2>2, <2>3, <2>4, <2>5, <2>6, RewriteActive
<1>2. CASE ~(id # NoRequest /\ S # {})
  BY <1>2 DEF Bind, TrackerInv, TrackerTypeOK, PristineSuffix, OneClaimPerUid,
              OneClaimPerRequest, Active, Pristine
<1> QED BY <1>1, <1>2

\* releaseToImmediate() takes the request id away with the bound state.
LEMMA ReleaseStep ==
  ASSUME TrackerInv, NEW uid \in Uids, ReleaseToImmediate(uid)
  PROVE  TrackerInv'
<1> DEFINE S == SlotsOf(uid, {"Unbound", "Bound"})
<1>1. CASE S # {}
  <2> DEFINE k == Min(S)
             s == [slots[k] EXCEPT !.id = NoRequest, !.state = "Immediate"]
  <2>1. k \in S
    BY <1>1, MinIndex DEF SlotsOf
  <2>2. k \in Index /\ Active(k) /\ slots[k] \in Slots
    BY <2>1 DEF SlotsOf, Active, TrackerInv, TrackerTypeOK
  <2>3. s \in Slots /\ s.uid = slots[k].uid /\ s.grams = slots[k].grams
        /\ s.id = NoRequest /\ s.state = "Immediate"
    BY <2>2 DEF Slots
  <2>4. slots[k].grams # 0
    BY <2>2 DEF TrackerInv, TrackerTypeOK
  <2>5. slots' = [slots EXCEPT ![k] = s]
    BY <1>1, <2>2 DEF ReleaseToImmediate, TrackerInv, TrackerTypeOK
  <2>6. lastSettledUid' \in Uids \cup {NoUid}
    BY DEF ReleaseToImmediate, TrackerInv, TrackerTypeOK
  <2> HIDE DEF k, s
  <2> QED BY <2>2, <2>3, <2>4, <2>5, <2>6, RewriteActive
<1>2. CASE S = {}
  BY <1>2 DEF ReleaseToImmediate, TrackerInv, TrackerTypeOK, PristineSuffix,
              OneClaimPerUid, OneClaimPerRequest, Active, Pristine
<1> QED BY <1>1, <1>2

\* Clearing an active slot, with or without remembering its UID as settled:
\* the slot keeps the UID, so it does not become pristine.
LEMMA ClearStep ==
  ASSUME TrackerInv, NEW S \in SUBSET Index, \A i \in S : Active(i),
         SettleFirst(S) \/ ReleaseFirst(S)
  PROVE  TrackerInv'
<1>1. CASE S # {}
  <2> DEFINE k == Min(S)
             s == Cleared(k)
  <2>1. k \in Index /\ Active(k) /\ slots[k] \in Slots
    BY <1>1, MinIndex DEF TrackerInv, TrackerTypeOK
  <2>2. s \in Slots /\ s.uid = slots[k].uid /\ s.grams = 0
        /\ s.id = NoRequest /\ s.state = "Free"
    BY <2>1 DEF Cleared, PristineSlot, Slots
  <2>3. slots' = [slots EXCEPT ![k] = s]
    BY <1>1 DEF SettleFirst, ReleaseFirst
  <2>4. slots[k].uid \in Uids \cup {NoUid}
    BY <2>1 DEF Slots
  <2>5. lastSettledUid' \in Uids \cup {NoUid}
    BY <1>1, <2>4 DEF SettleFirst, ReleaseFirst, TrackerInv, TrackerTypeOK
  <2> HIDE DEF k, s
  <2> QED BY <2>1, <2>2, <2>3, <2>5, RewriteActive
<1>2. CASE S = {}
  BY <1>2 DEF SettleFirst, ReleaseFirst, trackerVars, TrackerInv, TrackerTypeOK,
              PristineSuffix, OneClaimPerUid, OneClaimPerRequest, Active, Pristine
<1> QED BY <1>1, <1>2

(***************************************************************************)
(* Opening a claim.                                                        *)
(***************************************************************************)

\* Where a claim lands: on a free slot, with no active claim of its UID
\* anywhere, and on the first pristine slot if it lands on a pristine one.
\* The early return on a pristine slot is sound because no active slot can
\* come after it.
LEMMA ClaimLands ==
  ASSUME TrackerInv, NEW uid \in Uids, ClaimAccepted(uid)
  PROVE  /\ ClaimSlot(uid) \in Index
         /\ ~Active(ClaimSlot(uid))
         /\ ~HasAnyClaim(uid)
         /\ \A i \in Index : Pristine(i) => ClaimSlot(uid) <= i
<1> USE DEF TrackerInv
<1>1. HasAnyClaim(uid) <=> \E i \in Index : Active(i) /\ slots[i].uid = uid
  BY DEF HasAnyClaim, SlotsOf, Active, TrackerTypeOK, Slots
<1>2. CASE Deciding(uid) # {}
  <2> DEFINE k == Min(Deciding(uid))
  <2>1. k \in Deciding(uid) /\ \A i \in Deciding(uid) : k <= i
    BY <1>2, MinIndex DEF Deciding
  <2>2. Pristine(k) /\ ClaimSlot(uid) = k
    <3>1. ~Active(k) /\ ClaimSlot(uid) = k
      BY <1>2 DEF ClaimAccepted, ClaimSlot
    <3> QED BY <3>1, <2>1 DEF Deciding
  <2>3. k \in Index /\ \A i \in Index : Pristine(i) => k <= i
    BY <2>1 DEF Deciding
  <2>4. ASSUME NEW i \in Index, Active(i), slots[i].uid = uid
        PROVE  FALSE
    <3>1. k <= i
      BY <2>1, <2>4 DEF Deciding
    <3>2. i # k
      BY <2>2, <2>4 DEF Active, Pristine
    <3>3. k < i
      BY <3>1, <3>2, <2>3, CapacityAssumption DEF Index
    <3>4. Pristine(i)
      BY <3>3, <2>2, <2>3 DEF PristineSuffix
    <3> QED BY <3>4, <2>4 DEF Active, Pristine
  <2> QED BY <1>1, <2>2, <2>3, <2>4 DEF Active, Pristine
<1>3. CASE Deciding(uid) = {}
  <2>1. Recyclable(uid) # {} /\ ClaimSlot(uid) = Min(Recyclable(uid))
    BY <1>3 DEF ClaimAccepted, ClaimSlot
  <2>2. Recyclable(uid) \subseteq {i \in Index : ~Active(i)}
    BY DEF Recyclable, SlotsOf, Settled, Active
  <2>3. ClaimSlot(uid) \in Recyclable(uid)
    BY <2>1, <2>2, MinIndex
  <2> QED BY <1>1, <1>3, <2>2, <2>3 DEF Deciding
<1> QED BY <1>2, <1>3

\* claim() keeps the invariant: the new claim is the only one of its UID, and
\* it takes either the first pristine slot or a settled one when none is left.
LEMMA ClaimStep ==
  ASSUME TrackerInv, NEW uid \in Uids \cup {NoUid}, NEW g \in Grams,
         NEW initial \in {"Unbound", "Immediate"}, Claim(uid, g, initial)
  PROVE  TrackerInv'
<1>1. CASE ClaimAccepted(uid)
  <2> DEFINE k == ClaimSlot(uid)
             s == [uid |-> uid, grams |-> g, id |-> NoRequest, state |-> initial]
  <2>0. uid \in Uids
    BY <1>1 DEF ClaimAccepted
  <2>1. /\ k \in Index /\ ~Active(k) /\ ~HasAnyClaim(uid)
        /\ \A i \in Index : Pristine(i) => k <= i
    BY <2>0, <1>1, ClaimLands
  <2>2. slots' = [slots EXCEPT ![k] = s] /\ UNCHANGED lastSettledUid
    BY <1>1 DEF Claim
  <2> HIDE DEF k
  <2>3. \A i \in Index : slots'[i] = IF i = k THEN s ELSE slots[i]
    BY <2>2 DEF TrackerInv, TrackerTypeOK
  <2>4. s \in Slots
    BY <2>0, GramsAssumption DEF Slots
  <2>5. g # 0 /\ uid # NoUid
    BY <2>0, GramsAssumption, UidAssumption
  <2>6. TrackerTypeOK'
    BY <2>1, <2>2, <2>3, <2>4, <2>5 DEF TrackerInv, TrackerTypeOK, Active
  <2>7. PristineSuffix'
    <3>1. \A i \in Index : Pristine(i)' <=> Pristine(i) /\ i # k
      BY <2>3 DEF Pristine
    <3>2. ASSUME NEW i \in Index, NEW j \in Index, i < j, Pristine(i), i # k
          PROVE  Pristine(j) /\ j # k
      <4>1. Pristine(j)
        BY <3>2 DEF TrackerInv, PristineSuffix
      <4>2. k <= i
        BY <3>2, <2>1
      <4> QED BY <4>1, <4>2, <3>2, <2>1, CapacityAssumption DEF Index
    <3> QED BY <3>1, <3>2 DEF PristineSuffix
  <2>8. OneClaimPerUid'
    <3>1. \A i \in Index : Active(i) => slots[i].uid # uid
      BY <2>1 DEF HasAnyClaim, SlotsOf, Active, TrackerInv, TrackerTypeOK, Slots
    <3> QED BY <3>1, <2>3 DEF TrackerInv, OneClaimPerUid, Active
  <2>9. OneClaimPerRequest'
    BY <2>3 DEF TrackerInv, OneClaimPerRequest
  <2> QED BY <2>6, <2>7, <2>8, <2>9 DEF TrackerInv
<1>2. CASE ~ClaimAccepted(uid)
  BY <1>2 DEF Claim, TrackerInv, TrackerTypeOK, PristineSuffix, OneClaimPerUid,
              OneClaimPerRequest, Active, Pristine
<1> QED BY <1>1, <1>2

(***************************************************************************)
(* The inductive invariant.                                                *)
(***************************************************************************)

LEMMA InitInv == TrackerInit => TrackerInv
  BY UidAssumption, RequestAssumption
  DEF TrackerInit, TrackerInv, TrackerTypeOK, PristineSuffix, OneClaimPerUid,
      OneClaimPerRequest, PristineSlot, Slots, Active, Pristine

LEMMA NextInv == TrackerInv /\ [TrackerNext]_trackerVars => TrackerInv'
<1> SUFFICES ASSUME TrackerInv, [TrackerNext]_trackerVars PROVE TrackerInv'
  OBVIOUS
<1>1. ASSUME NEW uid \in Uids \cup {NoUid}, NEW g \in Grams,
             NEW initial \in {"Unbound", "Immediate"}, Claim(uid, g, initial)
      PROVE  TrackerInv'
  BY <1>1, ClaimStep
<1>2. ASSUME NEW uid \in Uids, NEW id \in RequestIds \cup {NoRequest},
             id # NoRequest => Fresh(id), Bind(uid, id)
      PROVE  TrackerInv'
  BY <1>2, BindStep
<1>3. ASSUME NEW uid \in Uids, ReleaseToImmediate(uid)
      PROVE  TrackerInv'
  BY <1>3, ReleaseStep
<1>4. ASSUME NEW id \in RequestIds, Resolve(id) \/ Abort(id)
      PROVE  TrackerInv'
  <2>1. \A i \in BoundTo(id) : Active(i)
    BY DEF BoundTo, Active
  <2>2. BoundTo(id) \subseteq Index
    BY DEF BoundTo
  <2> QED BY <1>4, <2>1, <2>2, ClearStep DEF Resolve, Abort
<1>5. ASSUME NEW uid \in Uids, ResolveImmediate(uid) \/ AbortUid(uid)
      PROVE  TrackerInv'
  <2>1. /\ \A i \in SlotsOf(uid, {"Immediate"}) : Active(i)
        /\ \A i \in SlotsOf(uid, {"Unbound"}) : Active(i)
    BY DEF SlotsOf, Active
  <2>2. /\ SlotsOf(uid, {"Immediate"}) \subseteq Index
        /\ SlotsOf(uid, {"Unbound"}) \subseteq Index
    BY DEF SlotsOf
  <2> QED BY <1>5, <2>1, <2>2, ClearStep DEF ResolveImmediate, AbortUid
<1>6. CASE UNCHANGED trackerVars
  BY <1>6 DEF trackerVars, TrackerInv, TrackerTypeOK, PristineSuffix,
              OneClaimPerUid, OneClaimPerRequest, Active, Pristine
<1> QED BY <1>1, <1>2, <1>3, <1>4, <1>5, <1>6 DEF TrackerNext

\* The claim table keeps its types, its pristine slots last, and its claims
\* distinct by UID and by request id, whatever its capacity.
THEOREM TrackerInvariant == TrackerSpec => []TrackerInv
  BY InitInv, NextInv, PTL DEF TrackerSpec

\* No UID ever has two active claims (the #329 double-deduction guard of
\* DeductionTracker.h:17-19), for tables of any size.
THEOREM AtMostOneClaim == TrackerSpec => []OneClaimPerUid
<1>1. TrackerInv => OneClaimPerUid
  BY DEF TrackerInv
<1> QED BY <1>1, TrackerInvariant, PTL

\* The pristine slots always form the end of the table, which is what makes
\* the early return of claim() sound.
THEOREM PristineLast == TrackerSpec => []PristineSuffix
<1>1. TrackerInv => PristineSuffix
  BY DEF TrackerInv
<1> QED BY <1>1, TrackerInvariant, PTL

\* Types and field coherence of the slots.
THEOREM TypeCorrect == TrackerSpec => []TrackerTypeOK
<1>1. TrackerInv => TrackerTypeOK
  BY DEF TrackerInv
<1> QED BY <1>1, TrackerInvariant, PTL

\* No capacity leaks: a claim is refused exactly when its UID has an active
\* claim or no slot is free (DeductionTracker.h:43-45, 67-74).
THEOREM CapacityNeverLeaks == TrackerSpec => []CapacityRecovers
<1>1. ASSUME TrackerInv PROVE CapacityRecovers
  <2> SUFFICES ASSUME NEW uid \in Uids
               PROVE  ClaimAccepted(uid) <=>
                        ~HasAnyClaim(uid) /\ \E i \in Index : ~Active(i)
    BY DEF CapacityRecovers
  <2>1. ASSUME ClaimAccepted(uid)
        PROVE  ~HasAnyClaim(uid) /\ \E i \in Index : ~Active(i)
    BY <2>1, <1>1, ClaimLands
  <2>2. ASSUME ~HasAnyClaim(uid), NEW i \in Index, ~Active(i)
        PROVE  ClaimAccepted(uid)
    <3>0. uid # NoUid /\ 0 \notin Index
      BY UidAssumption, CapacityAssumption DEF Index
    <3>1. \A j \in Deciding(uid) : j \in Index /\ Pristine(j)
      BY <1>1, <2>2 DEF Deciding, HasAnyClaim, SlotsOf, Active, TrackerInv,
                       TrackerTypeOK, Slots
    <3>2. CASE Deciding(uid) # {}
      <4>1. Min(Deciding(uid)) \in Deciding(uid)
        BY <3>1, <3>2, MinIndex
      <4>2. ~Active(Min(Deciding(uid)))
        BY <3>1, <4>1 DEF Pristine, Active
      <4> QED BY <3>0, <3>1, <3>2, <4>1, <4>2 DEF ClaimAccepted, ClaimSlot
    <3>3. CASE Deciding(uid) = {}
      <4>1. i \notin Deciding(uid)
        BY <3>3
      <4>2. Settled(i)
        BY <4>1, <2>2 DEF Deciding, Pristine, Settled, Active
      <4>3. Recyclable(uid) # {} /\ Recyclable(uid) \subseteq Index
        BY <4>2 DEF Recyclable, SlotsOf
      <4>4. Min(Recyclable(uid)) \in Index
        BY <4>3, MinIndex
      <4> QED BY <3>0, <3>3, <4>3, <4>4 DEF ClaimAccepted, ClaimSlot
    <3> QED BY <3>2, <3>3
  <2> QED BY <2>1, <2>2
<1> QED BY <1>1, TrackerInvariant, PTL

(***************************************************************************)
(* The table implements the map of claims.  TableClaim reads the claim of  *)
(* a UID off any table, so that its lemmas serve both ends of a step.      *)
(***************************************************************************)

NoneYet == [state |-> "none"]

ClaimIn(slot) == [state |-> slot.state, grams |-> slot.grams, id |-> slot.id]

TableClaim(t, u) ==
  IF \E k \in Index : t[k].state # "Free" /\ t[k].uid = u
  THEN ClaimIn(t[CHOOSE k \in Index : t[k].state # "Free" /\ t[k].uid = u])
  ELSE NoneYet

Unique(t) ==
  \A i, j \in Index :
    t[i].state # "Free" /\ t[j].state # "Free" /\ t[i].uid = t[j].uid => i = j

LEMMA ClaimOfTable ==
  ASSUME TrackerInv, NEW u \in Uids
  PROVE  ClaimOf(u) = TableClaim(slots, u)
<1>1. HasAnyClaim(u) <=> \E k \in Index : slots[k].state # "Free" /\ slots[k].uid = u
  BY DEF HasAnyClaim, SlotsOf, TrackerInv, TrackerTypeOK, Slots
<1> QED BY <1>1 DEF ClaimOf, TableClaim, ClaimIn, NoneYet, Active

LEMMA ClaimOfTablePrimed ==
  ASSUME TrackerInv', NEW u \in Uids
  PROVE  ClaimOf(u)' = TableClaim(slots', u)
<1>1. HasAnyClaim(u)' <=> \E k \in Index : slots'[k].state # "Free" /\ slots'[k].uid = u
  BY DEF HasAnyClaim, SlotsOf, TrackerInv, TrackerTypeOK, Slots
<1> QED BY <1>1 DEF ClaimOf, TableClaim, ClaimIn, NoneYet, Active

\* In a table of distinct claims the active slot of a UID is its claim.
LEMMA TableClaimActive ==
  ASSUME NEW t \in [Index -> Slots], Unique(t), NEW k \in Index,
         t[k].state # "Free"
  PROVE  TableClaim(t, t[k].uid) = ClaimIn(t[k])
BY DEF TableClaim, Unique

\* Writing one slot changes the claim of one UID only.
LEMMA TableWrite ==
  ASSUME NEW t \in [Index -> Slots], NEW r \in [Index -> Slots],
         Unique(t), Unique(r), NEW k \in Index, NEW u \in Uids,
         r = [t EXCEPT ![k] = r[k]], r[k].uid = u,
         t[k].state # "Free" => t[k].uid = u,
         NEW v \in Uids, v # u
  PROVE  TableClaim(r, v) = TableClaim(t, v)
<1>1. \A i \in Index : i # k => r[i] = t[i]
  OBVIOUS
<1>2. \A i \in Index : r[i].state # "Free" /\ r[i].uid = v
                     <=> t[i].state # "Free" /\ t[i].uid = v
  BY <1>1
<1>3. CASE \E i \in Index : t[i].state # "Free" /\ t[i].uid = v
  <2>1. PICK i \in Index : t[i].state # "Free" /\ t[i].uid = v
    BY <1>3
  <2>2. i # k /\ r[i] = t[i]
    BY <2>1, <1>1
  <2>3. TableClaim(t, v) = ClaimIn(t[i])
    BY <2>1, TableClaimActive
  <2>4. TableClaim(r, v) = ClaimIn(r[i])
    BY <2>1, <2>2, TableClaimActive
  <2> QED BY <2>2, <2>3, <2>4
<1>4. CASE ~\E i \in Index : t[i].state # "Free" /\ t[i].uid = v
  BY <1>2, <1>4 DEF TableClaim
<1> QED BY <1>3, <1>4

\* Fewer UIDs than slots are claimed while a slot is free: sending each
\* claimed UID to its slot is an injection that misses the free one.
LEMMA RoomForClaim ==
  ASSUME TrackerInv, NEW free \in Index, ~Active(free)
  PROVE  LET C == {u \in Uids : ClaimOf(u) # NoneYet}
         IN  Cardinality(C) < CAPACITY
<1> DEFINE C == {u \in Uids : ClaimOf(u) # NoneYet}
           f == [u \in C |-> CHOOSE k \in Index : Active(k) /\ slots[k].uid = u]
           T == Index \ {free}
<1>1. \A u \in C : \E k \in Index : Active(k) /\ slots[k].uid = u
  BY ClaimOfTable DEF TableClaim, Active
<1>2. \A u \in C : f[u] \in Index /\ Active(f[u]) /\ slots[f[u]].uid = u
  BY <1>1
<1>3. f \in Injection(C, T)
  <2>1. f \in [C -> T]
    BY <1>2
  <2>2. \A u, v \in C : f[u] = f[v] => u = v
    BY <1>2
  <2> HIDE DEF f, C, T
  <2> QED BY <2>1, <2>2 DEF Injection, IsInjective
<1>4. IsFiniteSet(Index) /\ Cardinality(Index) = CAPACITY
  BY FS_Interval, CapacityAssumption DEF Index
<1>5. IsFiniteSet(T) /\ Cardinality(T) = CAPACITY - 1
  BY <1>4, FS_RemoveElement
<1>6. IsFiniteSet(C) /\ Cardinality(C) <= Cardinality(T)
  <2> HIDE DEF f, C, T
  <2> QED BY <1>3, <1>5, FS_Injection
<1>7. Cardinality(C) \in Nat
  BY <1>6, FS_CardinalityType
<1> QED BY <1>5, <1>6, <1>7, CapacityAssumption

ClaimFcn == [u \in Uids |-> ClaimOf(u)]

\* What one slot write means for the map: the claim of that slot's UID
\* becomes what the slot now holds, no other claim changes.
LEMMA MapStep ==
  ASSUME TrackerInv, TrackerInv', NEW k \in Index, NEW u \in Uids,
         slots' = [slots EXCEPT ![k] = slots'[k]], slots'[k].uid = u,
         Active(k) => slots[k].uid = u,
         Active(k) \/ ~HasAnyClaim(u)
  PROVE  /\ ClaimFcn = [v \in Uids |-> TableClaim(slots, v)]
         /\ ClaimFcn' = [ClaimFcn EXCEPT ![u] =
                IF slots'[k].state = "Free" THEN NoneYet ELSE ClaimIn(slots'[k])]
         /\ ClaimOf(u) = IF Active(k) THEN ClaimIn(slots[k]) ELSE NoneYet
<1>1. /\ slots \in [Index -> Slots] /\ Unique(slots)
      /\ slots' \in [Index -> Slots] /\ Unique(slots')
  BY DEF TrackerInv, TrackerTypeOK, OneClaimPerUid, Unique, Active
<1>2. ClaimFcn = [v \in Uids |-> TableClaim(slots, v)]
  BY ClaimOfTable DEF ClaimFcn
<1>3. ClaimFcn' = [v \in Uids |-> TableClaim(slots', v)]
  BY ClaimOfTablePrimed DEF ClaimFcn
<1>4. \A v \in Uids : v # u => TableClaim(slots', v) = TableClaim(slots, v)
  BY <1>1, TableWrite DEF Active
<1>5. TableClaim(slots', u) =
        IF slots'[k].state = "Free" THEN NoneYet ELSE ClaimIn(slots'[k])
  <2>1. CASE slots'[k].state # "Free"
    BY <2>1, <1>1, TableClaimActive
  <2>2. CASE slots'[k].state = "Free"
    <3>1. \A i \in Index : i # k => slots'[i] = slots[i]
      BY <1>1
    <3>2. \A i \in Index : i # k /\ Active(i) => slots[i].uid # u
      BY DEF HasAnyClaim, SlotsOf, Active, TrackerInv, TrackerTypeOK, Slots,
             OneClaimPerUid
    <3> QED BY <2>2, <3>1, <3>2 DEF TableClaim, Active
  <2> QED BY <2>1, <2>2
<1>6. ClaimOf(u) = IF Active(k) THEN ClaimIn(slots[k]) ELSE NoneYet
  <2>1. ClaimOf(u) = TableClaim(slots, u)
    BY ClaimOfTable
  <2>2. CASE Active(k)
    BY <2>1, <2>2, <1>1, TableClaimActive DEF Active
  <2>3. CASE ~Active(k)
    BY <2>1, <2>3 DEF TableClaim, HasAnyClaim, SlotsOf, Active, TrackerInv,
                      TrackerTypeOK, Slots
  <2> QED BY <2>2, <2>3
<1> QED BY <1>2, <1>3, <1>4, <1>5, <1>6

LEMMA MapUnchanged ==
  ASSUME UNCHANGED trackerVars
  PROVE  UNCHANGED ClaimMap!vars
BY DEF trackerVars, ClaimMap!vars, ClaimOf, HasAnyClaim, SlotsOf, Active

Replaced(u, st, g, id) ==
  [ClaimFcn EXCEPT ![u] = [state |-> st, grams |-> g, id |-> id]]
Updated(u, st, id) == [ClaimFcn EXCEPT ![u].id = id, ![u].state = st]

\* Updating two fields of one claim is replacing the claim.
LEMMA TwoFields ==
  ASSUME NEW u \in Uids, NEW st, NEW g, NEW id, NEW newSt, NEW newId,
         ClaimOf(u) = [state |-> st, grams |-> g, id |-> id]
  PROVE  Updated(u, newSt, newId) = Replaced(u, newSt, g, newId)
<1> DEFINE old == [state |-> st, grams |-> g, id |-> id]
           mid == [ClaimFcn EXCEPT ![u].id = newId]
<1>1. mid = [ClaimFcn EXCEPT ![u] = [state |-> st, grams |-> g, id |-> newId]]
  <2>1. ClaimFcn[u] = old
    BY DEF ClaimFcn
  <2>2. [old EXCEPT !.id = newId] = [state |-> st, grams |-> g, id |-> newId]
    OBVIOUS
  <2> HIDE DEF old
  <2> QED BY <2>1, <2>2
<1>2. mid[u] = [state |-> st, grams |-> g, id |-> newId]
  BY <1>1 DEF ClaimFcn
<1>3. [mid[u] EXCEPT !.state = newSt] = [state |-> newSt, grams |-> g, id |-> newId]
  BY <1>2
<1> QED BY <1>1, <1>3 DEF ClaimFcn, Updated, Replaced

LEMMA NextMaps ==
  ASSUME TrackerInv, TrackerInv', [TrackerNext]_trackerVars
  PROVE  [ClaimMap!Next]_ClaimMap!vars
<1>a. slots \in [Index -> Slots] /\ slots' \in [Index -> Slots]
  BY DEF TrackerInv, TrackerTypeOK
\* An accepted claim opens a claim of the map.
<1>1. ASSUME NEW uid \in Uids \cup {NoUid}, NEW g \in Grams,
             NEW initial \in {"Unbound", "Immediate"}, Claim(uid, g, initial)
      PROVE  [ClaimMap!Next]_ClaimMap!vars
  <2>1. CASE ClaimAccepted(uid)
    <3> DEFINE k == ClaimSlot(uid)
    <3>0. uid \in Uids
      BY <2>1 DEF ClaimAccepted
    <3>1. k \in Index /\ ~Active(k) /\ ~HasAnyClaim(uid)
      BY <2>1, <3>0, ClaimLands
    <3>2. /\ slots' = [slots EXCEPT ![k] = slots'[k]]
          /\ slots'[k] = [uid |-> uid, grams |-> g, id |-> NoRequest, state |-> initial]
          /\ UNCHANGED lastSettledUid
      BY <1>1, <2>1, <3>1, <1>a DEF Claim
    <3> HIDE DEF k
    <3>3. /\ ClaimFcn' = [ClaimFcn EXCEPT ![uid] =
               [state |-> initial, grams |-> g, id |-> NoRequest]]
          /\ ClaimOf(uid) = NoneYet
      BY <3>0, <3>1, <3>2, MapStep DEF ClaimIn
    <3>4. Cardinality({u \in Uids : ClaimOf(u) # NoneYet}) < CAPACITY
      BY <3>1, RoomForClaim
    <3>5. ClaimMap!Claimed = {u \in Uids : ClaimOf(u) # NoneYet}
      BY DEF ClaimMap!Claimed, ClaimMap!NoClaim, NoneYet
    <3>6. ClaimMap!Cardinality(ClaimMap!Claimed) = Cardinality(ClaimMap!Claimed)
      BY DEF ClaimMap!Cardinality, Cardinality
    <3>7. ClaimMap!Open(uid, g, initial)
      BY <3>0, <3>2, <3>3, <3>4, <3>5, <3>6
      DEF ClaimMap!Open, ClaimMap!NoClaim, NoneYet, ClaimFcn
    <3> QED BY <3>0, <3>7 DEF ClaimMap!Next
  <2>2. CASE ~ClaimAccepted(uid)
    BY <1>1, <2>2, MapUnchanged DEF Claim, trackerVars
  <2> QED BY <2>1, <2>2
\* bind() attaches a write to the claim of its UID.
<1>2. ASSUME NEW uid \in Uids, NEW id \in RequestIds \cup {NoRequest},
             id # NoRequest => Fresh(id), Bind(uid, id)
      PROVE  [ClaimMap!Next]_ClaimMap!vars
  <2> DEFINE S == SlotsOf(uid, {"Unbound"})
  <2>1. CASE id # NoRequest /\ S # {}
    <3> DEFINE k == Min(S)
    <3>0. k \in S
      BY <2>1, MinIndex DEF SlotsOf
    <3>1. k \in Index /\ Active(k) /\ slots[k].uid = uid /\ slots[k].state = "Unbound"
          /\ slots[k] \in Slots
      BY <3>0, <1>a DEF SlotsOf, Active
    <3>2. /\ slots' = [slots EXCEPT ![k] = slots'[k]]
          /\ slots'[k] = [slots[k] EXCEPT !.id = id, !.state = "Bound"]
          /\ UNCHANGED lastSettledUid
      BY <1>2, <2>1, <3>1, <1>a DEF Bind
    <3> HIDE DEF k
    <3>3. /\ slots'[k].uid = uid /\ slots'[k].state = "Bound"
          /\ slots'[k].id = id /\ slots'[k].grams = slots[k].grams
      BY <3>1, <3>2 DEF Slots
    <3>4. /\ ClaimFcn' = [ClaimFcn EXCEPT ![uid] =
               [state |-> "Bound", grams |-> slots[k].grams, id |-> id]]
          /\ ClaimOf(uid) = [state |-> "Unbound", grams |-> slots[k].grams,
                             id |-> slots[k].id]
      <4>1. /\ ClaimFcn' = [ClaimFcn EXCEPT ![uid] =
                 IF slots'[k].state = "Free" THEN NoneYet ELSE ClaimIn(slots'[k])]
            /\ ClaimOf(uid) = IF Active(k) THEN ClaimIn(slots[k]) ELSE NoneYet
        BY <3>1, <3>2, <3>3, MapStep
      <4> QED BY <3>1, <3>3, <4>1 DEF ClaimIn
    <3>5. ASSUME NEW v \in Uids, ClaimOf(v) # NoneYet
          PROVE  ClaimOf(v).id # id
      <4>1. PICK i \in Index : slots[i].state # "Free" /\ slots[i].uid = v
        BY <3>5, ClaimOfTable DEF TableClaim
      <4>2. ClaimOf(v) = ClaimIn(slots[i])
        BY <4>1, <1>a, ClaimOfTable, TableClaimActive
        DEF TrackerInv, OneClaimPerUid, Unique, Active
      <4> QED BY <4>2, <1>2, <2>1 DEF ClaimIn, Fresh
    <3>6. ClaimMap!Attach(uid, id)
      <4>1. [ClaimFcn EXCEPT ![uid].id = id, ![uid].state = "Bound"] = ClaimFcn'
        <5>1. Updated(uid, "Bound", id)
                = Replaced(uid, "Bound", slots[k].grams, id)
          BY <3>4, TwoFields
        <5> QED BY <3>4, <5>1 DEF Updated, Replaced
      <4>2. ClaimFcn[uid].state = "Unbound"
        BY <3>4 DEF ClaimFcn
      <4> QED BY <3>2, <3>5, <4>1, <4>2
              DEF ClaimMap!Attach, ClaimMap!Claimed, ClaimMap!NoClaim, NoneYet,
                  ClaimFcn
    <3>7. id \in RequestIds
      BY <2>1
    <3> QED BY <3>6, <3>7 DEF ClaimMap!Next
  <2>2. CASE ~(id # NoRequest /\ S # {})
    BY <1>2, <2>2, MapUnchanged DEF Bind, trackerVars
  <2> QED BY <2>1, <2>2
\* releaseToImmediate() diverts the claim of its UID.
<1>3. ASSUME NEW uid \in Uids, ReleaseToImmediate(uid)
      PROVE  [ClaimMap!Next]_ClaimMap!vars
  <2> DEFINE S == SlotsOf(uid, {"Unbound", "Bound"})
  <2>1. CASE S # {}
    <3> DEFINE k == Min(S)
    <3>0. k \in S
      BY <2>1, MinIndex DEF SlotsOf
    <3>1. k \in Index /\ Active(k) /\ slots[k].uid = uid
          /\ slots[k].state \in {"Unbound", "Bound"} /\ slots[k] \in Slots
      BY <3>0, <1>a DEF SlotsOf, Active
    <3>2. /\ slots' = [slots EXCEPT ![k] = slots'[k]]
          /\ slots'[k] = [slots[k] EXCEPT !.id = NoRequest, !.state = "Immediate"]
          /\ UNCHANGED lastSettledUid
      BY <1>3, <2>1, <3>1, <1>a DEF ReleaseToImmediate
    <3> HIDE DEF k
    <3>3. /\ slots'[k].uid = uid /\ slots'[k].state = "Immediate"
          /\ slots'[k].id = NoRequest /\ slots'[k].grams = slots[k].grams
      BY <3>1, <3>2 DEF Slots
    <3>4. /\ ClaimFcn' = [ClaimFcn EXCEPT ![uid] =
               [state |-> "Immediate", grams |-> slots[k].grams, id |-> NoRequest]]
          /\ ClaimOf(uid) = [state |-> slots[k].state, grams |-> slots[k].grams,
                             id |-> slots[k].id]
      BY <3>1, <3>2, <3>3, MapStep DEF ClaimIn
    <3>5. ClaimMap!Divert(uid)
      <4>1. [ClaimFcn EXCEPT ![uid].id = NoRequest, ![uid].state = "Immediate"]
              = ClaimFcn'
        <5>1. Updated(uid, "Immediate", NoRequest)
                = Replaced(uid, "Immediate", slots[k].grams, NoRequest)
          BY <3>4, TwoFields
        <5> QED BY <3>4, <5>1 DEF Updated, Replaced
      <4>2. ClaimFcn[uid].state \in {"Unbound", "Bound"}
        BY <3>1, <3>4 DEF ClaimFcn
      <4> QED BY <3>2, <4>1, <4>2 DEF ClaimMap!Divert, ClaimFcn
    <3> QED BY <3>5 DEF ClaimMap!Next
  <2>2. CASE S = {}
    BY <1>3, <2>2, MapUnchanged DEF ReleaseToImmediate, trackerVars
  <2> QED BY <2>1, <2>2
\* A cleared slot is a claim settled or given up.
<1>4. ASSUME NEW S \in SUBSET Index,
             \/ SettleFirst(S) /\ \A i \in S : slots[i].state \in {"Bound", "Immediate"}
             \/ ReleaseFirst(S) /\ \A i \in S : slots[i].state \in {"Bound", "Unbound"}
      PROVE  [ClaimMap!Next]_ClaimMap!vars
  <2>1. CASE S # {}
    <3> DEFINE k == Min(S)
               u == slots[k].uid
    <3>0. k \in S
      BY <2>1, MinIndex
    <3>1. k \in Index /\ Active(k) /\ u \in Uids /\ slots[k] \in Slots
      BY <3>0, <1>4, <1>a DEF Active, TrackerInv, TrackerTypeOK, Slots
    <3>2. /\ slots' = [slots EXCEPT ![k] = slots'[k]]
          /\ slots'[k] = Cleared(k)
      BY <1>4, <2>1, <3>1, <1>a DEF SettleFirst, ReleaseFirst
    <3>3. slots'[k].uid = u /\ slots'[k].state = "Free"
      BY <3>2 DEF Cleared, PristineSlot
    <3>4. /\ ClaimFcn' = [ClaimFcn EXCEPT ![u] = NoneYet]
          /\ ClaimOf(u) = ClaimIn(slots[k])
      <4> HIDE DEF k, u
      <4> QED BY <3>1, <3>2, <3>3, MapStep DEF u
    <3>5. ClaimOf(u).state = slots[k].state
      BY <3>4 DEF ClaimIn
    <3>6. CASE SettleFirst(S) /\ \A i \in S : slots[i].state \in {"Bound", "Immediate"}
      <4>1. ClaimMap!Settle(u)
        BY <3>6, <2>1, <3>0, <3>1, <3>4, <3>5
        DEF SettleFirst, ClaimMap!Settle, ClaimMap!NoClaim, NoneYet, ClaimFcn
      <4> QED BY <4>1, <3>1 DEF ClaimMap!Next
    <3>7. CASE ReleaseFirst(S) /\ \A i \in S : slots[i].state \in {"Bound", "Unbound"}
      <4>1. ClaimMap!GiveUp(u)
        BY <3>7, <2>1, <3>0, <3>1, <3>4, <3>5
        DEF ReleaseFirst, ClaimMap!GiveUp, ClaimMap!NoClaim, NoneYet, ClaimFcn
      <4> QED BY <4>1, <3>1 DEF ClaimMap!Next
    <3> QED BY <1>4, <3>6, <3>7
  <2>2. CASE S = {}
    BY <1>4, <2>2, MapUnchanged DEF SettleFirst, ReleaseFirst, trackerVars
  <2> QED BY <2>1, <2>2
<1>5. ASSUME NEW id \in RequestIds, Resolve(id) \/ Abort(id)
      PROVE  [ClaimMap!Next]_ClaimMap!vars
  <2>1. BoundTo(id) \in SUBSET Index /\ \A i \in BoundTo(id) : slots[i].state = "Bound"
    BY DEF BoundTo
  <2> QED BY <1>4, <1>5, <2>1 DEF Resolve, Abort
<1>6. ASSUME NEW uid \in Uids, ResolveImmediate(uid) \/ AbortUid(uid)
      PROVE  [ClaimMap!Next]_ClaimMap!vars
  <2>1. /\ SlotsOf(uid, {"Immediate"}) \in SUBSET Index
        /\ SlotsOf(uid, {"Unbound"}) \in SUBSET Index
        /\ \A i \in SlotsOf(uid, {"Immediate"}) : slots[i].state = "Immediate"
        /\ \A i \in SlotsOf(uid, {"Unbound"}) : slots[i].state = "Unbound"
    BY DEF SlotsOf
  <2> QED BY <1>4, <1>6, <2>1 DEF ResolveImmediate, AbortUid
<1>7. CASE UNCHANGED trackerVars
  BY <1>7, MapUnchanged
<1> QED BY <1>1, <1>2, <1>3, <1>5, <1>6, <1>7 DEF TrackerNext

\* The claim table is a correct implementation of a map from UIDs to claims,
\* for every capacity: no scan order, recycled slot or stale bookkeeping can
\* be told from the map.
THEOREM TrackerImplementsClaims == TrackerSpec => ImplementsClaims
<1>1. TrackerInit => ClaimMap!Init
  BY DEF TrackerInit, ClaimMap!Init, ClaimMap!NoClaim, ClaimOf, HasAnyClaim,
         SlotsOf, PristineSlot
<1>2. TrackerInv /\ TrackerInv' /\ [TrackerNext]_trackerVars
        => [ClaimMap!Next]_ClaimMap!vars
  BY NextMaps
<1> QED BY <1>1, <1>2, TrackerInvariant, PTL
        DEF TrackerSpec, ImplementsClaims, ClaimMap!Spec
=============================================================================
