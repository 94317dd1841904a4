-------------------------- MODULE DeductionClaims --------------------------
(***************************************************************************)
(* What the claim table of DeductionTracker.h promises its one client, the *)
(* DeductionManager: a map from tag UIDs to at most one claim each, with   *)
(* room for CAPACITY claims.  How the table finds, recycles and clears its *)
(* slots does not show here.  Module DeductionTracker implements this one. *)
(***************************************************************************)
EXTENDS Naturals, FiniteSets

CONSTANTS
  Uids,        \* tag UIDs that can hold a deduction
  NoUid,       \* the empty string
  Grams,       \* snapshots a claim can carry
  RequestIds,  \* ids of NFC write requests
  NoRequest,   \* request id 0
  CAPACITY     \* number of slots (DeductionTracker.h:27)

NoClaim == [state |-> "none"]

Claims == [state : {"Unbound", "Bound", "Immediate"},
           grams : Grams,
           id : RequestIds \cup {NoRequest}]

VARIABLES
  claims,         \* the claim of each UID, or NoClaim
  lastSettledUid  \* UID of the claim settled last

vars == <<claims, lastSettledUid>>

Claimed == {u \in Uids : claims[u] # NoClaim}

Init == claims = [u \in Uids |-> NoClaim] /\ lastSettledUid = NoUid

\* A claim opens only for a UID that has none, and only while there is room.
Open(u, g, kind) ==
  /\ claims[u] = NoClaim
  /\ Cardinality(Claimed) < CAPACITY
  /\ claims' = [claims EXCEPT ![u] = [state |-> kind, grams |-> g, id |-> NoRequest]]
  /\ UNCHANGED lastSettledUid

\* The write that applies the claim gets an id no other claim carries.
Attach(u, id) ==
  /\ claims[u].state = "Unbound"
  /\ \A v \in Claimed : claims[v].id # id
  /\ claims' = [claims EXCEPT ![u].id = id, ![u].state = "Bound"]
  /\ UNCHANGED lastSettledUid

\* The claim will be settled by its own task, not by a write result.
Divert(u) ==
  /\ claims[u].state \in {"Unbound", "Bound"}
  /\ claims' = [claims EXCEPT ![u].id = NoRequest, ![u].state = "Immediate"]
  /\ UNCHANGED lastSettledUid

\* A write result closes a bound claim, a synchronous outcome an immediate one.
Settle(u) ==
  /\ claims[u].state \in {"Bound", "Immediate"}
  /\ claims' = [claims EXCEPT ![u] = NoClaim]
  /\ lastSettledUid' = u

\* The write was never queued: the claim is given up before its result.
GiveUp(u) ==
  /\ claims[u].state \in {"Unbound", "Bound"}
  /\ claims' = [claims EXCEPT ![u] = NoClaim]
  /\ UNCHANGED lastSettledUid

Next ==
  \E u \in Uids :
    \/ \E g \in Grams, kind \in {"Unbound", "Immediate"} : Open(u, g, kind)
    \/ \E id \in RequestIds : Attach(u, id)
    \/ Divert(u) \/ Settle(u) \/ GiveUp(u)

Spec == Init /\ [][Next]_vars
=============================================================================
