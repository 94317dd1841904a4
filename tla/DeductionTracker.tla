-------------------------- MODULE DeductionTracker --------------------------
(***************************************************************************)
(* src/src/DeductionTracker.h: the fixed table of claims that keeps a      *)
(* pending deduction from being applied twice.  Every call is made with    *)
(* the DeductionManager mutex held, so each is one atomic step.  A claim   *)
(* scans the slots in index order and stops at the first slot that decides *)
(* its fate; a cleared slot keeps its UID as bookkeeping, and only a slot  *)
(* that never held a claim ("pristine") has an empty one.                  *)
(***************************************************************************)
EXTENDS Naturals, FiniteSets, FiniteSetsExt

CONSTANTS
  CAPACITY,    \* number of slots (DeductionTracker.h:27; 8 in the code)
  Uids,        \* tag UIDs
  NoUid,       \* the empty string a pristine slot holds
  Grams,       \* snapshots a claim can carry
  RequestIds,  \* ids NFCManager::generateRequestId() can mint
  NoRequest    \* request id 0

ASSUME CapacityAssumption == CAPACITY \in Nat \ {0}
ASSUME UidAssumption == NoUid \notin Uids
ASSUME GramsAssumption == Grams \subseteq Nat \ {0}
ASSUME RequestAssumption == NoRequest \notin RequestIds

VARIABLES
  slots,          \* slots_[CAPACITY]
  lastSettledUid  \* lastSettledUid_

trackerVars == <<slots, lastSettledUid>>

Index == 1 .. CAPACITY

Slots == [uid : Uids \cup {NoUid},
          grams : Grams \cup {0},
          id : RequestIds \cup {NoRequest},
          state : {"Free", "Unbound", "Bound", "Immediate"}]

PristineSlot == [uid |-> NoUid, grams |-> 0, id |-> NoRequest, state |-> "Free"]

Active(i) == slots[i].state # "Free"
Pristine(i) == slots[i].state = "Free" /\ slots[i].uid = NoUid
Settled(i) == slots[i].state = "Free" /\ slots[i].uid # NoUid

\* Slots in one of the states S that belong to uid.
SlotsOf(uid, S) == {i \in Index : slots[i].uid = uid /\ slots[i].state \in S}

HasAnyClaim(uid) == SlotsOf(uid, {"Unbound", "Bound", "Immediate"}) # {}

TrackerInit ==
  /\ slots = [i \in Index |-> PristineSlot]
  /\ lastSettledUid = NoUid
-----------------------------------------------------------------------------
\* Variant: a clear that also forgets the UID.
ClearedPristine(i) == PristineSlot

\* clearSlot(): everything goes but the UID.
Cleared(i) == [PristineSlot EXCEPT !.uid = slots[i].uid]

\* Variant: the first free slot ends the scan, whatever it holds.
DecidingFirstFree(uid) ==
  {i \in Index : ~Active(i) \/ slots[i].uid = uid}

\* The slots that end claim()'s loop: a pristine one takes the claim, an
\* active one of the same UID refuses it.
Deciding(uid) ==
  {i \in Index : Pristine(i) \/ (Active(i) /\ slots[i].uid = uid)}

\* Variant: a settled slot only serves the UID it was cleared for.
RecyclableSameOnly(uid) == SlotsOf(uid, {"Free"})

\* The settled slots the fall-back after the loop chooses from: the UID's own
\* if it has any, else all of them.
Recyclable(uid) ==
  IF SlotsOf(uid, {"Free"}) # {} THEN SlotsOf(uid, {"Free"})
  ELSE {i \in Index : Settled(i)}

\* The slot a claim of uid lands in; 0 when claim() returns false.
ClaimSlot(uid) ==
  IF Deciding(uid) # {}
  THEN IF ~Active(Min(Deciding(uid))) THEN Min(Deciding(uid)) ELSE 0
  ELSE IF Recyclable(uid) # {} THEN Min(Recyclable(uid)) ELSE 0

ClaimAccepted(uid) == uid # NoUid /\ ClaimSlot(uid) # 0

\* claim(uid, grams, initial)
Claim(uid, grams, initial) ==
  /\ IF ClaimAccepted(uid)
     THEN slots' = [slots EXCEPT ![ClaimSlot(uid)] =
            [uid |-> uid, grams |-> grams, id |-> NoRequest, state |-> initial]]
     ELSE UNCHANGED slots
  /\ UNCHANGED lastSettledUid

\* bind(uid, request_id)
Bind(uid, id) ==
  /\ LET S == SlotsOf(uid, {"Unbound"})
     IN  IF id # NoRequest /\ S # {}
         THEN slots' = [slots EXCEPT ![Min(S)].id = id, ![Min(S)].state = "Bound"]
         ELSE UNCHANGED slots
  /\ UNCHANGED lastSettledUid

\* Variant: the diverted claim keeps the id of its write.
ReleaseKeepsId(uid) ==
  /\ LET S == SlotsOf(uid, {"Unbound", "Bound"})
     IN  IF S # {}
         THEN slots' = [slots EXCEPT ![Min(S)].state = "Immediate"]
         ELSE UNCHANGED slots
  /\ UNCHANGED lastSettledUid

\* releaseToImmediate(uid)
ReleaseToImmediate(uid) ==
  /\ LET S == SlotsOf(uid, {"Unbound", "Bound"})
     IN  IF S # {}
         THEN slots' = [slots EXCEPT ![Min(S)].id = NoRequest,
                                     ![Min(S)].state = "Immediate"]
         ELSE UNCHANGED slots
  /\ UNCHANGED lastSettledUid

\* The slots a write result for id can settle.
BoundTo(id) == {i \in Index : slots[i].state = "Bound" /\ slots[i].id = id}

\* Clear the first slot of S and remember its UID; nothing when S is empty.
SettleFirst(S) ==
  IF S # {}
  THEN /\ lastSettledUid' = slots[Min(S)].uid
       /\ slots' = [slots EXCEPT ![Min(S)] = Cleared(Min(S))]
  ELSE UNCHANGED trackerVars

ReleaseFirst(S) ==
  /\ IF S # {} THEN slots' = [slots EXCEPT ![Min(S)] = Cleared(Min(S))]
     ELSE UNCHANGED slots
  /\ UNCHANGED lastSettledUid

\* resolve(request_id, success): the caller settles NVS, the slot is freed
\* whether the write succeeded or not.
Resolve(id) == SettleFirst(BoundTo(id))

\* resolveImmediate(uid, success)
ResolveImmediate(uid) == SettleFirst(SlotsOf(uid, {"Immediate"}))

\* abort(request_id)
Abort(id) == ReleaseFirst(BoundTo(id))

\* Variant: abortUid() also takes an immediate claim away from its task.
AbortUidAny(uid) == ReleaseFirst(SlotsOf(uid, {"Unbound", "Immediate"}))

\* abortUid(uid)
AbortUid(uid) == ReleaseFirst(SlotsOf(uid, {"Unbound"}))
-----------------------------------------------------------------------------
\* nextRequestId() never mints an id twice, so none is bound to two claims.
Fresh(id) == \A i \in Index : slots[i].id # id

TrackerNext ==
  \/ \E uid \in Uids \cup {NoUid}, g \in Grams, initial \in {"Unbound", "Immediate"} :
        Claim(uid, g, initial)
  \/ \E uid \in Uids, id \in RequestIds \cup {NoRequest} :
        (id # NoRequest => Fresh(id)) /\ Bind(uid, id)
  \/ \E uid \in Uids : ReleaseToImmediate(uid)
  \/ \E id \in RequestIds : Resolve(id)
  \/ \E uid \in Uids : ResolveImmediate(uid)
  \/ \E id \in RequestIds : Abort(id)
  \/ \E uid \in Uids : AbortUid(uid)

TrackerSpec == TrackerInit /\ [][TrackerNext]_trackerVars
-----------------------------------------------------------------------------
(* Properties *)

\* Types, and the coherence of a slot's fields: exactly the bound slots carry
\* a request id, exactly the active slots carry grams, and an active slot
\* names its UID (initSlot, bind, releaseToImmediate, clearSlot).
TrackerTypeOK ==
  /\ slots \in [Index -> Slots]
  /\ \A i \in Index : slots[i].state = "Bound" <=> slots[i].id # NoRequest
  /\ \A i \in Index : Active(i) <=> slots[i].grams # 0
  /\ \A i \in Index : Active(i) => slots[i].uid # NoUid
  /\ lastSettledUid \in Uids \cup {NoUid}

\* The pristine slots are the last ones of the table.  claim() relies on it
\* without saying so: it takes a pristine slot at once, without looking at
\* the slots after it (DeductionTracker.h:59-61).
PristineSuffix == \A i, j \in Index : i < j /\ Pristine(i) => Pristine(j)

\* No UID ever has two active claims: the guard against applying a pending
\* deduction twice (DeductionTracker.h:17-19).
OneClaimPerUid ==
  \A i, j \in Index :
    Active(i) /\ Active(j) /\ slots[i].uid = slots[j].uid => i = j

\* A result settles one claim: no two slots are bound to the same write.
OneClaimPerRequest ==
  \A i, j \in Index :
    slots[i].id # NoRequest /\ slots[i].id = slots[j].id => i = j

\* The table never leaks capacity: a claim is refused only when its UID has
\* an active claim or every slot is active (DeductionTracker.h:43-45, 67-74).
CapacityRecovers ==
  \A uid \in Uids :
    ClaimAccepted(uid) <=> ~HasAnyClaim(uid) /\ \E i \in Index : ~Active(i)

TrackerInv ==
  TrackerTypeOK /\ PristineSuffix /\ OneClaimPerUid /\ OneClaimPerRequest

-----------------------------------------------------------------------------
\* The claim table as the map of module DeductionClaims.
ClaimOf(uid) ==
  IF HasAnyClaim(uid)
  THEN LET i == CHOOSE k \in Index : Active(k) /\ slots[k].uid = uid
       IN  [state |-> slots[i].state, grams |-> slots[i].grams, id |-> slots[i].id]
  ELSE [state |-> "none"]

ClaimMap == INSTANCE DeductionClaims WITH claims <- [u \in Uids |-> ClaimOf(u)]

\* The slot table implements the map of claims (refinement).
ImplementsClaims == ClaimMap!Spec
=============================================================================
