------------------------ MODULE DeductionManager_proofs ------------------------
(***************************************************************************)
(* The safety of a deduction's life, for any number of tags, requests and  *)
(* faults and any depth of the queues: every claim has one party that will *)
(* end it, and no gram is lost or taken twice.                             *)
(***************************************************************************)
EXTENDS DeductionManager, FiniteSetTheorems, SequenceTheorems, TLAPS

Kinds == {"OpenPrintTag", "OpenTag3D", "TigerTag", "BlankTag", "Unsupported"}
Working == {"spoolman", "accepted", "refused", "unavailable"}
Places ==
  {Idle} \cup [pc : {"check"}, uid : Uids]
         \cup [pc : {"apply"} \cup Working, uid : Uids, kind : Kinds, prefer : BOOLEAN]
Writes ==
  [id : RequestIds, uid : Uids, type : {"REMOVE_WEIGHT", "WRITE_OPENTAG3D"}, amount : Nat]
Results == [type : {"updated"}, id : RequestIds, ok : BOOLEAN]
Messages == Results \cup {Detected, Other}
Owned == [state : {"Bound", "Immediate"}, grams : Nat, id : RequestIds \cup {NoRequest}]
Totals == [Uids -> Nat]
Copies == [uid : Uids \cup {NoUid}, present : BOOLEAN, kind : Kinds, valid : BOOLEAN, weight : Nat]
Patches == [valid : BOOLEAN, uid : Uids \cup {NoUid}, weight : Nat, mime : BOOLEAN]

Typed ==
  /\ claims \in [Uids -> Owned \cup {NoClaim}]
  /\ nvs \in Totals /\ stored \in Totals /\ taken \in Totals /\ dropped \in Totals
  /\ unsure \in Totals /\ weight \in Totals
  /\ format \in [Uids -> Formats] /\ reader \in Uids \cup {NoUid}
  /\ cur \in Copies /\ ot3d \in Patches
  /\ writeQ \in Seq(Writes) /\ Len(writeQ) <= QUEUE_DEPTH
  /\ appQ \in Seq(Messages) /\ Len(appQ) <= APP_QUEUE
  /\ report \in Results \cup {NoReport}
  /\ task \in [Tasks -> Places]

Bound(u, id) == claims[u].state = "Bound" /\ claims[u].id = id
Queued(id) == \E i \in 1 .. Len(writeQ) : writeQ[i].id = id
Posted(id) == \E i \in 1 .. Len(appQ) : appQ[i].type = "updated" /\ appQ[i].id = id
Reported(id) == report # NoReport /\ report.id = id

\* A bound claim carries the grams of its time, and an id of its own.
ClaimsStand ==
  /\ \A u \in Uids : claims[u] # NoClaim => claims[u].grams \in 1 .. nvs[u]
  /\ \A u \in Uids : claims[u].state = "Bound" => claims[u].id \in RequestIds
  /\ \A u, v \in Uids : claims[u].state = "Bound" /\ Bound(v, claims[u].id) => u = v

PostedOnce ==
  \A i, j \in 1 .. Len(appQ) :
    appQ[i].type = "updated" /\ appQ[j].type = "updated" /\ appQ[i].id = appQ[j].id => i = j

\* Each id in flight is in one place, and of one bound claim.
InFlightOnce ==
  /\ \A i \in 1 .. Len(writeQ) : Bound(writeQ[i].uid, writeQ[i].id)
  /\ \A id \in RequestIds : Posted(id) \/ Reported(id) => \E u \in Uids : Bound(u, id)
  /\ \A i, j \in 1 .. Len(writeQ) : writeQ[i].id = writeQ[j].id => i = j
  /\ PostedOnce
  /\ \A id \in RequestIds : /\ ~(Queued(id) /\ Posted(id))
                            /\ ~(Queued(id) /\ Reported(id))
                            /\ ~(Posted(id) /\ Reported(id))

\* Each claim has its write, its result or its task.
Owners ==
  /\ \A u \in Uids : claims[u].state = "Bound" =>
       Queued(claims[u].id) \/ Posted(claims[u].id) \/ Reported(claims[u].id)
  /\ \A u \in Uids : claims[u].state = "Immediate" =>
       \E t \in Tasks : task[t].pc \in Working /\ task[t].uid = u
  /\ \A t \in Tasks : task[t].pc \in Working => claims[task[t].uid].state = "Immediate"
  /\ \A s, t \in Tasks : /\ task[s].pc \in Working /\ task[t].pc \in Working
                         /\ task[s].uid = task[t].uid
                         => s = t

\* What the NFC task holds of a tag is what the tag holds; of an OpenPrintTag it may hold
\* more, when a write landed whose success it did not see.
Known ==
  /\ cur.present => cur.uid \in Uids
  /\ cur.valid => /\ cur.uid \in Uids /\ format[cur.uid] = "OpenPrintTag"
                  /\ cur.uid \notin crossed => weight[cur.uid] <= cur.weight
  /\ ot3d.valid => /\ ot3d.uid \in Uids /\ KindOf(format[ot3d.uid]) = "OpenTag3D"
                   /\ ot3d.mime /\ ot3d.weight = weight[ot3d.uid]

\* A write in the queue asks for its claim's grams, or for all that the tag holds.
AmountsDue ==
  \A i \in 1 .. Len(writeQ) :
    LET w == writeQ[i]
        grams == claims[w.uid].grams
    IN  w.uid \notin crossed =>
          IF w.type = "REMOVE_WEIGHT"
          THEN /\ w.amount <= grams
               /\ w.amount < grams => /\ weight[w.uid] <= w.amount
                                      /\ cur.valid /\ cur.uid = w.uid => cur.weight <= w.amount
          ELSE /\ format[w.uid] = "OpenTag3D"
               /\ w.amount = Most(Less(weight[w.uid], grams), 1)

\* How much more than the tag its cached copy holds.
Gap(u) == IF cur.valid /\ cur.uid = u THEN Less(cur.weight, weight[u]) ELSE 0

Books(u) ==
  /\ stored[u] + Landed(u) + Gap(u) <= nvs[u] + taken[u] + dropped[u]
  /\ nvs[u] + taken[u] + dropped[u] <= stored[u] + Landed(u) + unsure[u]

\* The books of each tag balance, but for what landed unseen.
Balanced ==
  /\ \A u \in Uids : nvs[u] <= stored[u] /\ stored[u] <= MaxStored
  /\ \A u \in Uids \ crossed : Books(u)

DeductionInv ==
  Typed /\ ClaimsStand /\ InFlightOnce /\ Owners /\ Known /\ AmountsDue /\ Balanced

-----------------------------------------------------------------------------
(* Queues and messages *)

LEMMA Appended ==
  ASSUME NEW S, NEW q \in Seq(S), NEW m \in S
  PROVE  /\ Append(q, m) \in Seq(S) /\ Len(Append(q, m)) = Len(q) + 1
         /\ \A i \in 1 .. Len(q) : Append(q, m)[i] = q[i]
         /\ Append(q, m)[Len(q) + 1] = m
  OBVIOUS

LEMMA Shortened ==
  ASSUME NEW S, NEW q \in Seq(S), q # <<>>
  PROVE  /\ Tail(q) \in Seq(S) /\ Len(Tail(q)) = Len(q) - 1 /\ Len(q) >= 1
         /\ \A i \in 1 .. Len(q) - 1 : Tail(q)[i] = q[i + 1]
         /\ Head(q) = q[1] /\ Head(q) \in S
  OBVIOUS

LEMMA MessageKinds ==
  /\ Detected \in Messages /\ Other \in Messages
  /\ Detected.type = "detected" /\ Other.type = "other"
  /\ \A m \in Results : m.type = "updated" /\ m.id \in RequestIds
  /\ \A m \in Messages : m.type = "updated" => m \in Results
  BY DEF Messages, Detected, Other, Results

LEMMA WriteTyped ==
  ASSUME Typed, NEW i \in 1 .. Len(writeQ)
  PROVE  /\ writeQ[i] \in Writes
         /\ writeQ[i].id \in RequestIds /\ writeQ[i].uid \in Uids /\ writeQ[i].amount \in Nat
         /\ writeQ[i].type \in {"REMOVE_WEIGHT", "WRITE_OPENTAG3D"}
<1>1. writeQ \in Seq(Writes)
  BY Zenon DEF Typed
<1>2. writeQ[i] \in Writes
  BY <1>1
<1> QED BY <1>2 DEF Writes

LEMMA ResultTyped ==
  ASSUME NEW id \in RequestIds, NEW ok \in BOOLEAN
  PROVE  Result(id, ok) \in Results /\ Result(id, ok).id = id /\ Result(id, ok).ok = ok
  BY DEF Result, Results

LEMMA NoReportIsNone == NoReport \notin Results
  BY DEF NoReport, Results

Inbox(m) == \E i \in 1 .. Len(appQ) : appQ[i] = m

Arriving(m) == report = m \/ Inbox(m)

\* The claim of u took effect and NVS does not know yet.
Success(u) ==
  \/ /\ claims[u].state = "Bound"
     /\ Arriving(Result(claims[u].id, TRUE))
  \/ \E t \in Tasks : task[t].pc = "accepted" /\ task[t].uid = u

LEMMA LandedValue ==
  ASSUME NEW u \in Uids
  PROVE  /\ Landed(u) = IF Success(u) THEN claims[u].grams ELSE 0
         /\ Landed(u)' = IF Success(u)' THEN claims'[u].grams ELSE 0
<1> DEFINE r == Result(claims[u].id, TRUE)
<1>1. /\ r \in {report} \cup {appQ[i] : i \in 1 .. Len(appQ)} <=> Arriving(r)
      /\ (r \in {report} \cup {appQ[i] : i \in 1 .. Len(appQ)})' <=> Arriving(r)'
  BY Zenon DEF Arriving, Inbox
<1>2. Landed(u) = IF Success(u) THEN claims[u].grams ELSE 0
  BY <1>1, Zenon DEF Landed, Success, At
<1>3. Landed(u)' = IF Success(u)' THEN claims'[u].grams ELSE 0
  BY <1>1, Zenon DEF Landed, Success, At
<1> QED BY <1>2, <1>3

SameFlight ==
  \A id : /\ Queued(id)' <=> Queued(id)
          /\ Posted(id)' <=> Posted(id)
          /\ Reported(id)' <=> Reported(id)

\* Every result is still on its way.
SameTransit ==
  /\ \A id \in RequestIds : (Posted(id) \/ Reported(id))' <=> Posted(id) \/ Reported(id)
  /\ \A m \in Results : Arriving(m)' <=> Arriving(m)

\* Messages that are no results come and go: the flight of every request is the same.
LEMMA NoticeKeeps ==
  ASSUME DeductionInv, UNCHANGED <<claims, writeQ, report>>,
         \/ appQ' = appQ
         \/ appQ' = Append(appQ, Detected)
         \/ appQ' = Append(appQ, Other)
         \/ appQ # <<>> /\ Head(appQ).type # "updated" /\ appQ' = Tail(appQ)
  PROVE  /\ InFlightOnce' /\ appQ' \in Seq(Messages)
         /\ SameFlight
         /\ \A m \in Results : Arriving(m)' <=> Arriving(m)
<1> SUFFICES /\ InFlightOnce' /\ appQ' \in Seq(Messages) /\ SameFlight
             /\ \A n \in Results : Inbox(n)' <=> Inbox(n)
  BY Zenon DEF Arriving
<1>0. appQ \in Seq(Messages)
  BY DEF DeductionInv, Typed
<1>1. CASE appQ' = appQ
  <2>1. SameFlight
    BY <1>1 DEF SameFlight, Queued, Posted, Reported
  <2>2. \A n \in Results : Inbox(n)' <=> Inbox(n)
    BY <1>1 DEF Inbox
  <2>3. InFlightOnce'
    BY <1>1, Zenon DEF DeductionInv, InFlightOnce, PostedOnce, Bound, Queued, Posted, Reported
  <2>4. appQ' \in Seq(Messages)
    BY <1>0, <1>1
  <2> QED BY <2>1, <2>2, <2>3, <2>4, Zenon
<1>2. ASSUME NEW m \in Messages, m.type # "updated", appQ' = Append(appQ, m)
      PROVE  /\ InFlightOnce' /\ appQ' \in Seq(Messages)
             /\ SameFlight
             /\ \A n \in Results : Inbox(n)' <=> Inbox(n)
  <2>1. /\ appQ' \in Seq(Messages) /\ Len(appQ') = Len(appQ) + 1 /\ Len(appQ) \in Nat
        /\ \A i \in 1 .. Len(appQ) : appQ'[i] = appQ[i]
        /\ appQ'[Len(appQ) + 1] = m
    BY <1>0, <1>2, Appended
  <2>2. \A i \in 1 .. Len(appQ') : appQ'[i].type = "updated" => i \in 1 .. Len(appQ)
    BY <1>2, <2>1
  <2>3. \A id : Posted(id)' <=> Posted(id)
    BY <2>1, <2>2 DEF Posted
  <2>4. \A n \in Results : Inbox(n)' <=> Inbox(n)
    BY <2>1, <2>2, MessageKinds DEF Inbox
  <2>5. \A id : (Queued(id)' <=> Queued(id)) /\ (Reported(id)' <=> Reported(id))
    BY DEF Queued, Reported
  <2>6. InFlightOnce'
    BY <2>1, <2>2, <2>3, <2>5 DEF DeductionInv, InFlightOnce, PostedOnce, Bound
  <2> QED BY <2>1, <2>3, <2>4, <2>5, <2>6 DEF SameFlight
<1>3. CASE appQ # <<>> /\ Head(appQ).type # "updated" /\ appQ' = Tail(appQ)
  <2>1. /\ appQ' \in Seq(Messages) /\ Len(appQ') = Len(appQ) - 1 /\ Len(appQ) \in Nat
        /\ Len(appQ) >= 1 /\ appQ[1].type # "updated"
        /\ \A i \in 1 .. Len(appQ) - 1 : appQ'[i] = appQ[i + 1]
    BY <1>0, <1>3, Shortened
  <2>2. \A i \in 1 .. Len(appQ) : appQ[i].type = "updated" =>
          i - 1 \in 1 .. Len(appQ') /\ appQ'[i - 1] = appQ[i]
    BY <2>1
  <2>3. \A id : Posted(id)' <=> Posted(id)
    BY <2>1, <2>2 DEF Posted
  <2>4. \A n \in Results : Inbox(n)' <=> Inbox(n)
    BY <2>1, <2>2, MessageKinds DEF Inbox
  <2>5. \A id : (Queued(id)' <=> Queued(id)) /\ (Reported(id)' <=> Reported(id))
    BY DEF Queued, Reported
  <2>6. \A i \in 1 .. Len(appQ') : i + 1 \in 1 .. Len(appQ) /\ appQ'[i] = appQ[i + 1]
    BY <2>1
  <2>7. InFlightOnce'
    <3>1. PostedOnce'
      BY <2>1, <2>6 DEF DeductionInv, InFlightOnce, PostedOnce
    <3> QED BY <3>1, <2>3, <2>5 DEF DeductionInv, InFlightOnce, Bound
  <2> QED BY <2>1, <2>3, <2>4, <2>5, <2>7 DEF SameFlight
<1> QED BY <1>1, <1>2, <1>3, MessageKinds

\* An id is always left for a new claim.
LEMMA FreshId ==
  ASSUME DeductionInv, Cardinality(Claimed) < CAPACITY
  PROVE  /\ NewId \in RequestIds
         /\ \A u \in Claimed : claims[u].id # NewId
         /\ \A u \in Uids : claims[u].state = "Bound" => claims[u].id # NewId
<1> DEFINE used == {claims[u].id : u \in Claimed}
<1>1. IsFiniteSet(Claimed)
  BY UidAssumption, FS_Subset DEF Claimed
<1>2. IsFiniteSet(used) /\ Cardinality(used) <= Cardinality(Claimed)
  <2> DEFINE f == [u \in Claimed |-> claims[u].id]
  <2>1. f \in Surjection(Claimed, used)
    BY DEF Surjection
  <2> QED BY <1>1, <2>1, FS_Surjection
<1>3. ~(RequestIds \subseteq used)
  BY <1>1, <1>2, FS_Subset, FS_CardinalityType, RequestAssumption, CapacityAssumption
<1>4. \A u \in Uids : claims[u].state = "Bound" => u \in Claimed
  BY DEF Claimed, NoClaim
<1>5. \A i \in 1 .. Len(writeQ) : writeQ[i].id \in used
  <2>1. \A i \in 1 .. Len(writeQ) : writeQ[i].uid \in Uids
    BY WriteTyped DEF DeductionInv
  <2> QED BY <1>4, <2>1 DEF DeductionInv, InFlightOnce, PostedOnce, Bound
<1>6. FreshIds = RequestIds \ used
  BY <1>5 DEF FreshIds
<1>7. NewId \in RequestIds \ used
  BY <1>3, <1>6 DEF NewId
<1> QED BY <1>4, <1>7

-----------------------------------------------------------------------------
(* Steps in which no claim opens or ends, nothing is written and nothing is settled *)

LEMMA TotalTyped ==
  ASSUME Typed, NEW u \in Uids
  PROVE  /\ nvs[u] \in Nat /\ stored[u] \in Nat /\ taken[u] \in Nat /\ dropped[u] \in Nat
         /\ unsure[u] \in Nat /\ weight[u] \in Nat /\ format[u] \in Formats
         /\ claims[u] \in Owned \cup {NoClaim}
<1>1. /\ nvs \in Totals /\ stored \in Totals /\ taken \in Totals /\ dropped \in Totals
      /\ unsure \in Totals /\ weight \in Totals /\ format \in [Uids -> Formats]
      /\ claims \in [Uids -> Owned \cup {NoClaim}]
  BY Zenon DEF Typed
<1> QED BY <1>1 DEF Totals

LEMMA ClaimTyped ==
  ASSUME Typed, NEW u \in Uids
  PROVE  /\ claims[u] = NoClaim \/ claims[u] \in Owned
         /\ claims[u].state \in {"none", "Bound", "Immediate"}
         /\ claims[u].state = "none" <=> claims[u] = NoClaim
         /\ claims[u].state # "none" => claims[u].grams \in Nat
<1>1. claims[u] \in Owned \cup {NoClaim}
  BY TotalTyped
<1> QED BY <1>1 DEF Owned, NoClaim

\* Typing of what the handlers read.
LEMMA CopyTyped ==
  ASSUME Typed
  PROVE  /\ cur \in Copies /\ ot3d \in Patches /\ reader \in Uids \cup {NoUid}
         /\ cur.uid \in Uids \cup {NoUid} /\ cur.weight \in Nat /\ cur.kind \in Kinds
         /\ ot3d.uid \in Uids \cup {NoUid} /\ ot3d.weight \in Nat
<1>1. cur \in Copies /\ ot3d \in Patches /\ reader \in Uids \cup {NoUid}
  BY Zenon DEF Typed
<1> QED BY <1>1 DEF Copies, Patches

\* What the NFC task knows was just read from the tag, or is as it was.
ViewStands ==
  \/ cur'.valid => cur'.weight = weight[cur'.uid]
  \/ cur'.valid = cur.valid /\ cur'.uid = cur.uid /\ cur'.weight = cur.weight

\* No task takes up or ends a claim.
WorkStands ==
  \A t \in Tasks : \/ task'[t] = task[t]
                   \/ task[t].pc \notin Working /\ task'[t].pc \notin Working

LEMMA SameSuccess ==
  ASSUME DeductionInv, NEW u \in Uids, claims'[u] = claims[u],
         \A m \in Results : Arriving(m)' <=> Arriving(m), WorkStands
  PROVE  Success(u)' <=> Success(u)
<1>1. \A t \in Tasks : task'[t].pc = "accepted" /\ task'[t].uid = u
                         <=> task[t].pc = "accepted" /\ task[t].uid = u
  BY DEF WorkStands, Working
<1>2. claims[u].state = "Bound" => Result(claims[u].id, TRUE) \in Results
  BY ResultTyped DEF DeductionInv, ClaimsStand
<1> QED BY <1>1, <1>2, Zenon DEF Success

\* The entries of the books are numbers.
Entries(u) ==
  /\ nvs[u] \in Nat /\ stored[u] \in Nat /\ taken[u] \in Nat /\ dropped[u] \in Nat
  /\ unsure[u] \in Nat /\ Landed(u) \in Nat /\ Gap(u) \in Nat

LEMMA EntriesTyped ==
  ASSUME DeductionInv, NEW u \in Uids
  PROVE  Entries(u)
<1>1. Landed(u) \in Nat
  <2>1. Success(u) => claims[u].state # "none"
    BY DEF Success, DeductionInv, Owners, Working
  <2> QED BY <2>1, LandedValue, ClaimTyped DEF DeductionInv
<1>2. Gap(u) \in Nat
  <2>1. weight[u] \in Nat /\ cur.weight \in Nat
    BY TotalTyped, CopyTyped DEF DeductionInv
  <2> QED BY <2>1 DEF Gap, Less
<1> QED BY <1>1, <1>2, TotalTyped DEF Entries, DeductionInv

\* What is stored is pending.
LEMMA BooksQuiet ==
  ASSUME NEW u \in Uids, Books(u), Entries(u),
         nvs'[u] \in Nat, stored'[u] \in Nat, Gap(u)' \in Nat,
         Landed(u)' = Landed(u), Gap(u)' <= Gap(u),
         taken'[u] = taken[u], dropped'[u] = dropped[u], unsure'[u] = unsure[u],
         nvs'[u] - nvs[u] = stored'[u] - stored[u]
  PROVE  Books(u)'
  BY DEF Books, Entries

LEMMA QuietCore ==
  ASSUME DeductionInv,
         UNCHANGED <<claims, taken, dropped, unsure, weight, format, writeQ>>,
         nvs' \in Totals, stored' \in Totals,
         \A u \in Uids : /\ nvs[u] <= nvs'[u] /\ nvs'[u] - nvs[u] = stored'[u] - stored[u]
                         /\ stored'[u] <= MaxStored,
         crossed \subseteq crossed',
         InFlightOnce', SameTransit,
         appQ' \in Seq(Messages), Len(appQ') <= APP_QUEUE, report' \in Results \cup {NoReport},
         reader' \in Uids \cup {NoUid}, cur' \in Copies, ot3d' \in Patches,
         Known', ViewStands,
         task' \in [Tasks -> Places], WorkStands
  PROVE  DeductionInv'
<1>1. /\ \A id : Queued(id)' <=> Queued(id)
      /\ \A id \in RequestIds : (Posted(id) \/ Reported(id))' <=> Posted(id) \/ Reported(id)
      /\ \A m \in Results : Arriving(m)' <=> Arriving(m)
  BY DEF SameTransit, Queued
<1>2. Typed'
  BY Zenon DEF DeductionInv, Typed
<1>3. ClaimsStand'
  <2>1. \A u \in Uids : claims[u] # NoClaim => claims[u].grams \in 1 .. nvs'[u]
    <3> SUFFICES ASSUME NEW u \in Uids, claims[u] # NoClaim
                 PROVE  claims[u].grams \in 1 .. nvs'[u]
      OBVIOUS
    <3>1. nvs[u] \in Nat /\ nvs'[u] \in Nat /\ nvs[u] <= nvs'[u]
      BY TotalTyped DEF DeductionInv, Totals
    <3>2. claims[u].grams \in 1 .. nvs[u]
      BY DEF DeductionInv, ClaimsStand
    <3> QED BY <3>1, <3>2
  <2> QED BY <2>1 DEF DeductionInv, ClaimsStand, Bound
<1>4. Owners'
  <2>1. \A u \in Uids : claims[u].state = "Bound" =>
          (Queued(claims[u].id) \/ Posted(claims[u].id) \/ Reported(claims[u].id))'
    <3> SUFFICES ASSUME NEW u \in Uids, claims[u].state = "Bound"
                 PROVE  (Queued(claims[u].id) \/ Posted(claims[u].id) \/ Reported(claims[u].id))'
      OBVIOUS
    <3>1. claims[u].id \in RequestIds
      BY DEF DeductionInv, ClaimsStand
    <3>2. Queued(claims[u].id) \/ Posted(claims[u].id) \/ Reported(claims[u].id)
      BY DEF DeductionInv, Owners
    <3> DEFINE id == claims[u].id
    <3>3. Queued(id)' <=> Queued(id)
      BY <1>1, Zenon
    <3>4. (Posted(id) \/ Reported(id))' <=> Posted(id) \/ Reported(id)
      BY <1>1, <3>1, Zenon
    <3> QED BY <3>2, <3>3, <3>4, Zenon
  <2>2. \A t \in Tasks : task[t].pc \in Working \/ task'[t].pc \in Working => task'[t] = task[t]
    BY DEF WorkStands
  <2> QED BY <2>1, <2>2 DEF DeductionInv, Owners
<1>5. \A u \in Uids : cur'.valid /\ cur'.uid = u =>
        \/ cur'.weight = weight[u]
        \/ cur.valid /\ cur.uid = u /\ cur'.weight = cur.weight
  BY DEF ViewStands
<1>6. AmountsDue'
  <2> SUFFICES ASSUME NEW i \in 1 .. Len(writeQ), writeQ[i].uid \notin crossed
               PROVE  LET w == writeQ[i]
                          grams == claims[w.uid].grams
                      IN  IF w.type = "REMOVE_WEIGHT"
                          THEN /\ w.amount <= grams
                               /\ w.amount < grams =>
                                    /\ weight[w.uid] <= w.amount
                                    /\ cur'.valid /\ cur'.uid = w.uid => cur'.weight <= w.amount
                          ELSE /\ format[w.uid] = "OpenTag3D"
                               /\ w.amount = Most(Less(weight[w.uid], grams), 1)
    BY DEF AmountsDue
  <2>1. writeQ[i].uid \in Uids
    BY WriteTyped DEF DeductionInv
  <2> QED BY <1>5, <2>1 DEF DeductionInv, AmountsDue
<1>7. Balanced'
  <2>1. ASSUME NEW u \in Uids
        PROVE  nvs'[u] <= stored'[u] /\ stored'[u] <= MaxStored
    <3>1. nvs'[u] \in Nat /\ stored'[u] \in Nat /\ nvs[u] \in Nat /\ stored[u] \in Nat
      BY TotalTyped DEF DeductionInv, Totals
    <3>2. nvs[u] <= stored[u]
      BY DEF DeductionInv, Balanced
    <3> QED BY <3>1, <3>2
  <2>2. ASSUME NEW u \in Uids, u \notin crossed'
        PROVE  Books(u)'
    <3>1. Landed(u)' = Landed(u)
      BY <1>1, SameSuccess, LandedValue
    <3>2. Gap(u)' <= Gap(u) /\ Gap(u)' \in Nat
      <4>1. weight[u] \in Nat /\ cur.weight \in Nat /\ cur'.weight \in Nat
        BY TotalTyped, CopyTyped DEF DeductionInv, Copies
      <4> QED BY <1>5, <4>1 DEF Gap, Less
    <3>3. Books(u)
      BY <2>2 DEF DeductionInv, Balanced
    <3>4. nvs'[u] \in Nat /\ stored'[u] \in Nat
      BY DEF Totals
    <3> QED BY <3>1, <3>2, <3>3, <3>4, EntriesTyped, BooksQuiet
  <2> QED BY <2>1, <2>2 DEF Balanced
<1> QED BY <1>1, <1>2, <1>3, <1>4, <1>6, <1>7 DEF DeductionInv

LEMMA QuietKeeps ==
  ASSUME DeductionInv,
         UNCHANGED <<claims, taken, dropped, unsure, weight, format, writeQ, report>>,
         nvs' \in Totals, stored' \in Totals,
         \A u \in Uids : /\ nvs[u] <= nvs'[u] /\ nvs'[u] - nvs[u] = stored'[u] - stored[u]
                         /\ stored'[u] <= MaxStored,
         crossed \subseteq crossed',
         \/ appQ' = appQ
         \/ appQ' = Append(appQ, Detected)
         \/ appQ' = Append(appQ, Other)
         \/ appQ # <<>> /\ Head(appQ).type # "updated" /\ appQ' = Tail(appQ),
         Len(appQ') <= APP_QUEUE,
         reader' \in Uids \cup {NoUid}, cur' \in Copies, ot3d' \in Patches,
         Known', ViewStands,
         task' \in [Tasks -> Places], WorkStands
  PROVE  DeductionInv'
<1>1. /\ InFlightOnce' /\ appQ' \in Seq(Messages) /\ SameFlight
      /\ \A m \in Results : Arriving(m)' <=> Arriving(m)
  BY NoticeKeeps
<1>2. report' \in Results \cup {NoReport}
  BY Zenon DEF DeductionInv, Typed
<1>3. SameTransit
  BY <1>1, Zenon DEF SameFlight, SameTransit
<1> QED BY <1>1, <1>2, <1>3, QuietCore

LEMMA TaskTyped ==
  ASSUME Typed, NEW t \in Tasks
  PROVE  /\ task \in [Tasks -> Places] /\ task[t] \in Places
         /\ task[t].pc # "idle" => task[t].uid \in Uids
         /\ task[t].pc \in {"apply"} \cup Working =>
              task[t] \in [pc : {"apply"} \cup Working, uid : Uids, kind : Kinds, prefer : BOOLEAN]
<1>1. task \in [Tasks -> Places]
  BY Zenon DEF Typed
<1>2. task[t] \in Places
  BY <1>1
<1> QED BY <1>1, <1>2 DEF Places, Idle, Working

\* A task moves without a claim in its hands.
LEMMA GotoStands ==
  ASSUME Typed, NEW t \in Tasks, NEW s \in Places, Goto(t, s),
         task[t].pc \notin Working, s.pc \notin Working
  PROVE  task' \in [Tasks -> Places] /\ WorkStands
<1>1. task \in [Tasks -> Places] /\ task' = [task EXCEPT ![t] = s]
  BY TaskTyped DEF Goto
<1> QED BY <1>1 DEF WorkStands

LEMMA SentNotice ==
  ASSUME Typed, NEW m \in {Detected, Other}
  PROVE  /\ Sent(m) \in {appQ, Append(appQ, m)}
         /\ Len(Sent(m)) <= APP_QUEUE
<1>1. appQ \in Seq(Messages) /\ Len(appQ) <= APP_QUEUE
  BY Zenon DEF Typed
<1>2. m \in Messages
  BY MessageKinds
<1>3. Len(Append(appQ, m)) = Len(appQ) + 1 /\ Len(appQ) \in Nat
  BY <1>1, <1>2, Appended
<1> QED BY <1>1, <1>3, QueueAssumption DEF Sent

\* The books stand still.
Quiet ==
  UNCHANGED <<claims, nvs, stored, taken, dropped, unsure, weight, format, writeQ, report>>

LEMMA QuietSteps ==
  ASSUME DeductionInv, Quiet, crossed \subseteq crossed',
         \/ appQ' = appQ
         \/ appQ' = Append(appQ, Detected)
         \/ appQ' = Append(appQ, Other)
         \/ appQ # <<>> /\ Head(appQ).type # "updated" /\ appQ' = Tail(appQ),
         Len(appQ') <= APP_QUEUE,
         reader' \in Uids \cup {NoUid}, cur' \in Copies, ot3d' \in Patches,
         Known', ViewStands,
         task' \in [Tasks -> Places], WorkStands
  PROVE  DeductionInv'
<1>1. nvs' \in Totals /\ stored' \in Totals
  BY Zenon DEF Quiet, DeductionInv, Typed
<1>2. \A u \in Uids : /\ nvs[u] <= nvs'[u] /\ nvs'[u] - nvs[u] = stored'[u] - stored[u]
                      /\ stored'[u] <= MaxStored
  <2> SUFFICES ASSUME NEW u \in Uids
               PROVE  /\ nvs[u] <= nvs[u] /\ nvs[u] - nvs[u] = stored[u] - stored[u]
                      /\ stored[u] <= MaxStored
    BY DEF Quiet
  <2>1. nvs[u] \in Nat /\ stored[u] \in Nat /\ stored[u] <= MaxStored
    BY TotalTyped DEF DeductionInv, Balanced
  <2> QED BY <2>1
<1> QED BY <1>1, <1>2, QuietKeeps DEF Quiet

\* What is known of the tags does not change.
LEMMA SameKnown ==
  ASSUME DeductionInv, UNCHANGED <<cur, ot3d, weight, format>>, crossed \subseteq crossed'
  PROVE  /\ cur' \in Copies /\ ot3d' \in Patches /\ Known' /\ ViewStands
<1>1. Known'
  BY DEF DeductionInv, Known
<1> QED BY <1>1, CopyTyped DEF DeductionInv, ViewStands

LEMMA SameWork ==
  ASSUME Typed, task' = task
  PROVE  task' \in [Tasks -> Places] /\ WorkStands
<1>1. task \in [Tasks -> Places]
  BY Zenon DEF Typed
<1> QED BY <1>1 DEF WorkStands

\* A tag comes, goes, is read, cannot be read, or is found gone.
LEMMA TagsKeep ==
  ASSUME DeductionInv,
         \/ \E u \in Uids : PlaceTag(u)
         \/ TakeTag \/ ReadTag \/ ReadTagFails \/ TagAbsent
  PROVE  DeductionInv'
<1>0. Typed /\ Known /\ Len(appQ) <= APP_QUEUE
  BY Zenon DEF DeductionInv, Typed
<1>1. CASE TakeTag \/ \E u \in Uids : PlaceTag(u)
  <2>1. Quiet /\ UNCHANGED <<crossed, cur, ot3d, appQ, task>> /\ reader' \in Uids \cup {NoUid}
    BY <1>1 DEF TakeTag, PlaceTag, Quiet, vars, nfc, ledger
  <2> QED BY <1>0, <2>1, SameKnown, SameWork, QuietSteps DEF Quiet
<1>2. CASE ReadTag
  <2>1. Quiet /\ UNCHANGED <<crossed, task, reader>> /\ appQ' = Sent(Detected)
    BY <1>2 DEF ReadTag, Quiet, vars, durable, ledger
  <2>2. reader \in Uids /\ weight[reader] \in Nat /\ format[reader] \in Formats
    BY <1>0, <1>2, CopyTyped, TotalTyped DEF ReadTag
  <2>3. /\ cur' \in Copies /\ cur'.uid = reader
        /\ cur'.valid => format[reader] = "OpenPrintTag" /\ cur'.weight = weight[reader]
    BY <1>0, <1>2, <2>2, CopyTyped DEF ReadTag, Copies, Kinds, KindOf
  <2>4. /\ ot3d' \in Patches
        /\ ot3d'.valid => /\ ot3d'.uid = reader /\ KindOf(format[reader]) = "OpenTag3D"
                          /\ ot3d'.mime /\ ot3d'.weight = weight[reader]
    BY <1>2, <2>2 DEF ReadTag, Patches
  <2>5. Known'
    BY <2>1, <2>2, <2>3, <2>4 DEF Known, Quiet
  <2>6. ViewStands
    BY <2>3 DEF ViewStands
  <2> QED BY <1>0, <2>1, <2>2, <2>3, <2>4, <2>5, <2>6, SentNotice, SameWork, QuietSteps
<1>3. CASE ReadTagFails \/ TagAbsent
  <2>1. /\ Quiet /\ UNCHANGED <<crossed, task, reader>> /\ appQ' \in {appQ, Sent(Other)}
        /\ ot3d' = [valid |-> FALSE, uid |-> NoUid, weight |-> 0, mime |-> FALSE]
    BY <1>3 DEF ReadTagFails, TagAbsent, Quiet, vars, durable, ledger
  <2>2. ot3d' \in Patches /\ ~ot3d'.valid
    BY <2>1 DEF Patches
  <2>3. /\ cur' \in Copies
        /\ \/ ~cur'.valid /\ cur'.uid \in Uids
           \/ ~cur'.present /\ cur'.valid = cur.valid /\ cur'.uid = cur.uid /\ cur'.weight = cur.weight
    <3>1. CASE ReadTagFails
      BY <1>0, <3>1, CopyTyped DEF ReadTagFails, Copies, Kinds
    <3>2. CASE TagAbsent
      BY <1>0, <3>2, CopyTyped DEF TagAbsent, Copies
    <3> QED BY <1>3, <3>1, <3>2
  <2>4. Known'
    BY <1>0, <2>1, <2>2, <2>3 DEF Known, Quiet
  <2>5. ViewStands
    BY <2>3 DEF ViewStands
  <2> QED BY <1>0, <2>1, <2>2, <2>3, <2>4, <2>5, SentNotice, SameWork, QuietSteps, CopyTyped
<1> QED BY <1>1, <1>2, <1>3

LEMMA ApplyingTyped ==
  ASSUME NEW u \in Uids, NEW kind \in Kinds, NEW prefer \in BOOLEAN
  PROVE  /\ Applying(u, kind, prefer) \in Places
         /\ Applying(u, kind, prefer).pc = "apply" /\ "apply" \notin Working
  BY DEF Applying, Places, Working

\* The steps of a task that find nothing to apply, or decide where to apply it.
LEMMA TasksKeep ==
  ASSUME DeductionInv,
         \/ CheckReader
         \/ \E t \in Tasks : ApplySkipped(t)
         \/ HandleMessage /\ UNCHANGED <<claims, nvs>>
              /\ Head(appQ).type # "updated"
  PROVE  DeductionInv'
<1>0. Typed /\ Known /\ Len(appQ) <= APP_QUEUE /\ appQ \in Seq(Messages)
  BY Zenon DEF DeductionInv, Typed
<1>1. App \in Tasks /\ Mqtt \in Tasks
  BY TaskAssumption
<1>2. CASE CheckReader
  <2>1. Quiet /\ UNCHANGED <<crossed, cur, ot3d, appQ, reader>>
    BY <1>2 DEF CheckReader, Quiet, vars, durable, nfc, ledger
  <2>2. task[Mqtt].pc = "check" /\ task[Mqtt].uid \in Uids
    BY <1>0, <1>1, <1>2, TaskTyped DEF CheckReader, At
  <2>3. /\ "Unsupported" \in Kinds /\ TRUE \in BOOLEAN /\ FALSE \in BOOLEAN
        /\ cur.present => cur.uid \in Uids /\ cur.kind \in Kinds
    BY <1>0, CopyTyped DEF Kinds, Known
  <2>4. PICK s \in Places : Goto(Mqtt, s) /\ s.pc = "apply"
    BY <1>2, <2>2, <2>3, ApplyingTyped DEF CheckReader
  <2>5. task' \in [Tasks -> Places] /\ WorkStands
    BY <1>0, <1>1, <2>2, <2>4, GotoStands DEF Working
  <2> QED BY <1>0, <2>1, <2>5, SameKnown, QuietSteps, CopyTyped DEF Quiet
<1>3. CASE \E t \in Tasks : ApplySkipped(t)
  <2>1. Quiet /\ UNCHANGED <<crossed, cur, ot3d, appQ, reader>>
    BY <1>3 DEF ApplySkipped, Quiet, vars, durable, nfc, ledger
  <2>2. PICK t \in Tasks : Goto(t, Idle) /\ task[t].pc = "apply"
    BY <1>3 DEF ApplySkipped, At
  <2>3. Idle \in Places /\ Idle.pc \notin Working
    BY DEF Idle, Places, Working
  <2>4. task' \in [Tasks -> Places] /\ WorkStands
    BY <1>0, <2>2, <2>3, GotoStands DEF Working
  <2> QED BY <1>0, <2>1, <2>4, SameKnown, QuietSteps, CopyTyped DEF Quiet
<1>4. CASE HandleMessage /\ UNCHANGED <<claims, nvs>> /\ Head(appQ).type # "updated"
  <2>1. Quiet /\ UNCHANGED <<crossed, cur, ot3d, reader>>
    BY <1>4 DEF HandleMessage, Quiet, vars, durable, nfc, ledger
  <2>2. appQ # <<>> /\ appQ' = Tail(appQ) /\ task[App].pc = "idle"
    BY <1>4 DEF HandleMessage, At
  <2>3. Len(appQ') <= APP_QUEUE
    BY <1>0, <2>2, Shortened, QueueAssumption
  <2>4. task' \in [Tasks -> Places] /\ WorkStands
    <3>1. CASE UNCHANGED task
      BY <1>0, <3>1, SameWork
    <3>2. CASE cur.present /\ Goto(App, Applying(cur.uid, cur.kind, TRUE))
      <4>1. cur.uid \in Uids /\ cur.kind \in Kinds /\ TRUE \in BOOLEAN
        BY <1>0, <3>2, CopyTyped DEF Known
      <4>2. PICK s \in Places : Goto(App, s) /\ s.pc = "apply"
        BY <3>2, <4>1, ApplyingTyped
      <4> QED BY <1>0, <1>1, <2>2, <4>2, GotoStands DEF Working
    <3> QED BY <1>4, <3>1, <3>2 DEF HandleMessage
  <2> QED BY <1>0, <2>1, <2>2, <2>3, <2>4, <1>4, SameKnown, QuietSteps, CopyTyped DEF Quiet
<1> QED BY <1>2, <1>3, <1>4

\* storePending(), for a tag or for a tray.
LEMMA DeductKeeps ==
  ASSUME DeductionInv, NEW u \in Uids, NEW g \in Grams, Deduct(u, g) \/ DeductTray(u, g)
  PROVE  DeductionInv'
<1>0. Typed /\ Len(appQ) <= APP_QUEUE /\ Mqtt \in Tasks
  BY Zenon, TaskAssumption DEF DeductionInv, Typed
<1>1. /\ UNCHANGED <<claims, taken, dropped, unsure, weight, format, writeQ, report,
                     crossed, cur, ot3d, reader, appQ>>
      /\ nvs' = [nvs EXCEPT ![u] = @ + g] /\ stored' = [stored EXCEPT ![u] = @ + g]
      /\ stored[u] + g <= MaxStored /\ task[Mqtt].pc = "idle"
  BY DEF Deduct, DeductTray, vars, nfc, At
<1>2. /\ nvs \in Totals /\ stored \in Totals /\ g \in Nat
  BY <1>0, BoundAssumption, Zenon DEF Typed
<1>3. nvs' \in Totals /\ stored' \in Totals
  BY <1>1, <1>2 DEF Totals
<1>4. ASSUME NEW v \in Uids
      PROVE  /\ nvs[v] <= nvs'[v] /\ nvs'[v] - nvs[v] = stored'[v] - stored[v]
             /\ stored'[v] <= MaxStored
  <2>1. /\ nvs'[v] = IF v = u THEN nvs[v] + g ELSE nvs[v]
        /\ stored'[v] = IF v = u THEN stored[v] + g ELSE stored[v]
    BY <1>1, <1>2 DEF Totals
  <2>2. nvs[v] \in Nat /\ stored[v] \in Nat /\ stored[v] <= MaxStored
    BY <1>0, TotalTyped DEF DeductionInv, Balanced
  <2> QED BY <1>1, <1>2, <2>1, <2>2
<1>5. task' \in [Tasks -> Places] /\ WorkStands
  <2>1. /\ [pc |-> "check", uid |-> u] \in Places /\ Applying(u, "Unsupported", FALSE) \in Places
        /\ Applying(u, "Unsupported", FALSE).pc = "apply"
        /\ "check" \notin Working /\ "apply" \notin Working /\ "idle" \notin Working
    BY DEF Places, Applying, Working, Kinds
  <2>2. PICK s \in Places : Goto(Mqtt, s) /\ s.pc \notin Working
    BY <2>1 DEF Deduct, DeductTray
  <2> QED BY <1>0, <1>1, <2>1, <2>2, GotoStands
<1>6. cur' \in Copies /\ ot3d' \in Patches /\ Known' /\ ViewStands
  BY <1>1, SameKnown
<1> QED BY <1>0, <1>1, <1>3, <1>4, <1>5, <1>6, QuietKeeps, CopyTyped

-----------------------------------------------------------------------------
(* The result of a write reaches the manager *)

\* The result leaves the NFC task for the message queue.
LEMMA PostKeeps ==
  ASSUME DeductionInv, DeliverResult, Len(appQ) < APP_QUEUE
  PROVE  DeductionInv'
<1>0. /\ Typed /\ appQ \in Seq(Messages) /\ report \in Results \cup {NoReport}
      /\ InFlightOnce /\ Known
  BY Zenon DEF DeductionInv, Typed
<1>1. /\ report \in Results /\ appQ' = Append(appQ, report) /\ report' = NoReport
      /\ UNCHANGED <<claims, nvs, stored, taken, dropped, unsure, weight, format, writeQ,
                     crossed, reader, cur, ot3d, task>>
  BY <1>0 DEF DeliverResult, vars, ledger
<1>2. /\ appQ' \in Seq(Messages) /\ Len(appQ') = Len(appQ) + 1 /\ Len(appQ) \in Nat
      /\ \A i \in 1 .. Len(appQ) : appQ'[i] = appQ[i]
      /\ appQ'[Len(appQ) + 1] = report
  <2>1. report \in Messages
    BY <1>1 DEF Messages
  <2> QED BY <1>0, <1>1, <2>1, Appended
<1>3. report.type = "updated" /\ report.id \in RequestIds /\ report # NoReport
  BY <1>1, MessageKinds, NoReportIsNone
<1>4. \A id : Posted(id)' <=> Posted(id) \/ report.id = id
  BY <1>2, <1>3 DEF Posted
<1>5. \A id : Reported(id) <=> report.id = id
  BY <1>3 DEF Reported
<1>6. \A id : ~Reported(id)' /\ (Queued(id)' <=> Queued(id))
  BY <1>1 DEF Reported, Queued
<1>7. \A m \in Results : Arriving(m)' <=> Arriving(m)
  <2>1. \A m \in Results : Inbox(m)' <=> Inbox(m) \/ report = m
    BY <1>2 DEF Inbox
  <2>2. \A m \in Results : report' # m
    BY <1>1, NoReportIsNone
  <2> QED BY <2>1, <2>2, Zenon DEF Arriving
<1>8. SameTransit
  BY <1>4, <1>5, <1>6, <1>7 DEF SameTransit
<1>9. InFlightOnce'
  <2>1. PostedOnce'
    <3>1. \A i \in 1 .. Len(appQ) : appQ[i].type = "updated" => appQ[i].id # report.id
      BY <1>0, <1>3, <1>5 DEF InFlightOnce, Posted
    <3>2. \A i \in 1 .. Len(appQ') : i \in 1 .. Len(appQ) \/ i = Len(appQ) + 1
      BY <1>2
    <3> QED BY <1>0, <1>2, <3>1, <3>2 DEF InFlightOnce, PostedOnce
  <2>2. \A id \in RequestIds : Posted(id)' \/ Reported(id)' => \E u \in Uids : Bound(u, id)
    BY <1>0, <1>4, <1>5, <1>6 DEF InFlightOnce
  <2>3. \A id \in RequestIds : /\ ~(Queued(id)' /\ Posted(id)')
                               /\ ~(Queued(id)' /\ Reported(id)')
                               /\ ~(Posted(id)' /\ Reported(id)')
    BY <1>0, <1>4, <1>5, <1>6 DEF InFlightOnce
  <2> QED BY <1>0, <1>1, <2>1, <2>2, <2>3 DEF InFlightOnce, Bound
<1>10. nvs' \in Totals /\ stored' \in Totals
  BY <1>0, <1>1, Zenon DEF Typed
<1>11. \A u \in Uids : /\ nvs[u] <= nvs'[u] /\ nvs'[u] - nvs[u] = stored'[u] - stored[u]
                       /\ stored'[u] <= MaxStored
  <2> SUFFICES ASSUME NEW u \in Uids
               PROVE  /\ nvs[u] <= nvs[u] /\ nvs[u] - nvs[u] = stored[u] - stored[u]
                      /\ stored[u] <= MaxStored
    BY <1>1
  <2>1. nvs[u] \in Nat /\ stored[u] \in Nat /\ stored[u] <= MaxStored
    BY TotalTyped DEF DeductionInv, Balanced
  <2> QED BY <2>1
<1>12. Len(appQ') <= APP_QUEUE
  BY <1>2, QueueAssumption
<1> QED BY <1>0, <1>1, <1>2, <1>8, <1>9, <1>10, <1>11, <1>12,
           SameKnown, SameWork, CopyTyped, QuietCore

\* Two results of one request on their way are the same result.
LEMMA OnlyResult ==
  ASSUME DeductionInv, NEW m \in Results, NEW n \in Results,
         Arriving(m), Arriving(n), m.id = n.id
  PROVE  m = n
<1>1. \A r \in Results : /\ r.type = "updated" /\ r.id \in RequestIds
                         /\ Inbox(r) => Posted(r.id)
                         /\ report = r => Reported(r.id)
  BY MessageKinds, NoReportIsNone DEF Inbox, Posted, Reported
<1>2. ASSUME Inbox(m), Inbox(n)
      PROVE  m = n
  <2>1. PICK i \in 1 .. Len(appQ) : appQ[i] = m
    BY <1>2 DEF Inbox
  <2>2. PICK j \in 1 .. Len(appQ) : appQ[j] = n
    BY <1>2 DEF Inbox
  <2>3. PostedOnce
    BY Zenon DEF DeductionInv, InFlightOnce
  <2> QED BY <1>1, <2>1, <2>2, <2>3 DEF PostedOnce
<1>3. ~(Posted(m.id) /\ Reported(m.id))
  BY <1>1 DEF DeductionInv, InFlightOnce
<1> QED BY <1>1, <1>2, <1>3 DEF Arriving

\* A request leaves the flight together with its claim.
Ends(id) ==
  \A x \in RequestIds : /\ Posted(x)' <=> Posted(x) /\ x # id
                        /\ Reported(x)' <=> Reported(x) /\ x # id

LEMMA FlightEnds ==
  ASSUME DeductionInv, NEW id \in RequestIds, NEW u \in Uids, Bound(u, id), ~Queued(id),
         claims' = [claims EXCEPT ![u] = NoClaim],
         UNCHANGED <<writeQ, task>>, Ends(id), PostedOnce'
  PROVE  /\ \A v \in Uids : v # u => claims'[v] = claims[v]
         /\ claims'[u] = NoClaim /\ NoClaim.state = "none"
         /\ \A i \in 1 .. Len(writeQ) : writeQ[i].uid # u /\ writeQ[i].uid \in Uids
         /\ \A t \in Tasks : task[t].pc \in Working => task[t].uid # u
         /\ InFlightOnce' /\ Owners'
<1>1. \A v \in Uids : claims'[v] = IF v = u THEN NoClaim ELSE claims[v]
  BY TotalTyped, Zenon DEF DeductionInv, Typed
<1>2. NoClaim.state = "none"
  BY DEF NoClaim
<1>3. \A i \in 1 .. Len(writeQ) :
        writeQ[i].uid # u /\ writeQ[i].uid \in Uids /\ writeQ[i].id \in RequestIds
  <2> TAKE i \in 1 .. Len(writeQ)
  <2>1. Bound(writeQ[i].uid, writeQ[i].id) /\ writeQ[i].uid \in Uids /\ writeQ[i].id \in RequestIds
    BY WriteTyped DEF DeductionInv, InFlightOnce
  <2> QED BY <2>1 DEF Queued, Bound
<1>4. \A v \in Uids : \A x : Bound(v, x)' <=> Bound(v, x) /\ v # u
  BY <1>1, <1>2 DEF Bound
<1>5. \A v \in Uids : Bound(v, id) => v = u
  BY DEF DeductionInv, ClaimsStand, Bound
<1>6. \A x : Queued(x)' <=> Queued(x)
  BY DEF Queued
<1>7. InFlightOnce'
  <2>1. \A i \in 1 .. Len(writeQ) : Bound(writeQ[i].uid, writeQ[i].id)'
    BY <1>3, <1>4 DEF DeductionInv, InFlightOnce
  <2>2. \A x \in RequestIds : Posted(x)' \/ Reported(x)' => \E v \in Uids : Bound(v, x)'
    <3> SUFFICES ASSUME NEW x \in RequestIds, Posted(x)' \/ Reported(x)'
                 PROVE  \E v \in Uids : Bound(v, x)'
      OBVIOUS
    <3>1. x # id /\ (Posted(x) \/ Reported(x))
      BY DEF Ends
    <3>2. PICK v \in Uids : Bound(v, x)
      BY <3>1 DEF DeductionInv, InFlightOnce
    <3>3. v # u
      BY <3>1, <3>2 DEF Bound
    <3> QED BY <1>4, <3>2, <3>3
  <2>3. \A x \in RequestIds : /\ ~(Queued(x)' /\ Posted(x)')
                              /\ ~(Queued(x)' /\ Reported(x)')
                              /\ ~(Posted(x)' /\ Reported(x)')
    BY <1>6 DEF DeductionInv, InFlightOnce, Ends
  <2> QED BY <2>1, <2>2, <2>3 DEF DeductionInv, InFlightOnce
<1>8. \A t \in Tasks : task[t].pc \in Working => task[t].uid # u
  BY DEF DeductionInv, Owners, Bound
<1>9. Owners'
  <2>1. \A v \in Uids : claims'[v].state = "Bound" =>
          (Queued(claims[v].id) \/ Posted(claims[v].id) \/ Reported(claims[v].id))'
    <3> SUFFICES ASSUME NEW v \in Uids, claims'[v].state = "Bound"
                 PROVE  (Queued(claims[v].id) \/ Posted(claims[v].id) \/ Reported(claims[v].id))'
      OBVIOUS
    <3>1. claims'[v] = claims[v] /\ v # u
      BY <1>1, <1>2
    <3>2. claims[v].id \in RequestIds /\ claims[v].id # id
      BY <1>5, <3>1 DEF DeductionInv, ClaimsStand, Bound
    <3> PICK x \in RequestIds : x = claims[v].id /\ x # id
      BY <3>2
    <3>3. Queued(x) \/ Posted(x) \/ Reported(x)
      BY <3>1 DEF DeductionInv, Owners
    <3>4. (Posted(x)' <=> Posted(x)) /\ (Reported(x)' <=> Reported(x)) /\ (Queued(x)' <=> Queued(x))
      BY <1>6, Zenon DEF Ends
    <3>5. claims'[v].id = x
      BY <3>1
    <3> QED BY <3>3, <3>4, <3>5, Zenon
  <2>2. \A v \in Uids : claims'[v].state = "Immediate" => claims[v].state = "Immediate"
    BY <1>1, <1>2
  <2>3. \A t \in Tasks : task[t].pc \in Working => claims'[task[t].uid].state = "Immediate"
    BY <1>1, <1>8, TaskTyped DEF DeductionInv, Owners, Working
  <2>4. \A v \in Uids : claims'[v].state = "Bound" => claims'[v] = claims[v]
    BY <1>1, <1>2
  <2> QED BY <2>1, <2>2, <2>3, <2>4 DEF DeductionInv, Owners
<1> QED BY <1>1, <1>2, <1>3, <1>7, <1>8, <1>9
\* The books of a tag no one works on.
LEMMA BooksStand ==
  ASSUME DeductionInv, NEW v \in Uids, v \notin crossed, Success(v)' <=> Success(v),
         claims'[v] = claims[v], weight'[v] = weight[v], Gap(v)' \in Nat, Gap(v)' <= Gap(v),
         nvs'[v] = nvs[v], stored'[v] = stored[v], taken'[v] = taken[v],
         dropped'[v] = dropped[v], unsure'[v] = unsure[v]
  PROVE  Books(v)'
<1>1. Landed(v)' = Landed(v)
  BY LandedValue
<1>2. Books(v) /\ Entries(v)
  BY EntriesTyped DEF DeductionInv, Balanced
<1>3. nvs[v] \in Nat /\ stored[v] \in Nat /\ nvs[v] - nvs[v] = stored[v] - stored[v]
  BY <1>2 DEF Entries
<1> QED BY <1>1, <1>2, <1>3, BooksQuiet

\* The grams of a claim leave NVS once their effect is known.
LEMMA BooksSettled ==
  ASSUME NEW u \in Uids, NEW grams \in Nat, grams <= nvs[u], Books(u), Entries(u),
         Landed(u)' = 0, Gap(u)' \in Nat, Gap(u)' <= Gap(u),
         stored'[u] = stored[u], taken'[u] = taken[u], unsure'[u] = unsure[u],
         \/ Landed(u) = grams /\ nvs'[u] = nvs[u] - grams /\ dropped'[u] = dropped[u]
         \/ Landed(u) = 0 /\ nvs'[u] = nvs[u] /\ dropped'[u] = dropped[u]
         \/ Landed(u) = 0 /\ nvs'[u] = nvs[u] - grams /\ dropped'[u] = dropped[u] + grams
  PROVE  Books(u)'
  BY DEF Books, Entries

LEMMA Settlement ==
  ASSUME DeductionInv, NEW u \in Uids, claims[u].state # "none", NEW took \in BOOLEAN,
         nvs' = IF took THEN [nvs EXCEPT ![u] = SettleSnapshot(u, claims[u].grams)] ELSE nvs
  PROVE  /\ claims[u].grams \in Nat /\ claims[u].grams <= nvs[u]
         /\ nvs' \in Totals
         /\ nvs'[u] = IF took THEN nvs[u] - claims[u].grams ELSE nvs[u]
         /\ \A v \in Uids : v # u => nvs'[v] = nvs[v]
<1>1. nvs \in Totals
  BY Zenon DEF DeductionInv, Typed
<1>2. claims[u].grams \in 1 .. nvs[u] /\ nvs[u] \in Nat
  BY <1>1, ClaimTyped DEF DeductionInv, ClaimsStand, Totals, NoClaim
<1>3. SettleSnapshot(u, claims[u].grams) = nvs[u] - claims[u].grams
  BY <1>2 DEF SettleSnapshot, Less
<1> HIDE DEF SettleSnapshot
<1> QED BY <1>1, <1>2, <1>3 DEF Totals

\* handleWriteResult() for a result that is on its way.
LEMMA ResultKeeps ==
  ASSUME DeductionInv, NEW m \in Results, Arriving(m), HandleWriteResult(m.id, m.ok),
         Ends(m.id), PostedOnce',
         \A n \in Results : Arriving(n)' <=> Arriving(n) /\ n.id # m.id,
         appQ' \in Seq(Messages), Len(appQ') <= APP_QUEUE, report' \in Results \cup {NoReport},
         UNCHANGED <<stored, taken, dropped, unsure, weight, format, writeQ,
                     crossed, reader, cur, ot3d, task>>
  PROVE  DeductionInv'
<1>0. /\ Typed /\ ClaimsStand /\ InFlightOnce /\ Known /\ AmountsDue /\ Balanced
      /\ m.id \in RequestIds /\ m.ok \in BOOLEAN
  BY DEF DeductionInv, Results
<1> PICK id \in RequestIds : id = m.id
  BY <1>0
<1>1. Posted(id) \/ Reported(id)
  BY MessageKinds, NoReportIsNone DEF Arriving, Inbox, Posted, Reported
<1>2. ~Queued(id)
  BY <1>0, <1>1 DEF InFlightOnce
<1>3. PICK u \in Uids : Bound(u, id)
  BY <1>0, <1>1 DEF InFlightOnce
<1>4. {v \in Claimed : claims[v].state = "Bound" /\ claims[v].id = m.id} = {u}
  BY <1>0, <1>3 DEF ClaimsStand, Bound, Claimed, NoClaim
<1>5. /\ claims' = [claims EXCEPT ![u] = NoClaim]
      /\ nvs' = IF m.ok THEN [nvs EXCEPT ![u] = SettleSnapshot(u, claims[u].grams)] ELSE nvs
  BY <1>4 DEF HandleWriteResult, Settle
<1>6. /\ \A v \in Uids : v # u => claims'[v] = claims[v]
      /\ claims'[u] = NoClaim /\ NoClaim.state = "none"
      /\ \A i \in 1 .. Len(writeQ) : writeQ[i].uid # u /\ writeQ[i].uid \in Uids
      /\ \A t \in Tasks : task[t].pc \in Working => task[t].uid # u
      /\ InFlightOnce' /\ Owners'
  BY <1>2, <1>3, <1>5, FlightEnds
<1>7. /\ claims[u].grams \in Nat /\ claims[u].grams <= nvs[u]
      /\ nvs' \in Totals
      /\ nvs'[u] = IF m.ok THEN nvs[u] - claims[u].grams ELSE nvs[u]
      /\ \A v \in Uids : v # u => nvs'[v] = nvs[v]
  BY <1>0, <1>3, <1>5, Settlement DEF Bound
<1>8. Typed'
  <2>1. claims' \in [Uids -> Owned \cup {NoClaim}]
    BY <1>0, <1>5, Zenon DEF Typed
  <2> QED BY <1>0, <1>7, <2>1, Zenon DEF Typed
<1>9. ClaimsStand'
  BY <1>0, <1>6, <1>7 DEF ClaimsStand, Bound
<1>10. Known'
  BY <1>0 DEF Known
<1>11. AmountsDue'
  BY <1>0, <1>6 DEF AmountsDue
<1>12. Balanced'
  <2>1. ASSUME NEW v \in Uids
        PROVE  nvs'[v] <= stored'[v] /\ stored'[v] <= MaxStored
    <3>1. nvs[v] <= stored[v] /\ stored[v] <= MaxStored /\ nvs[v] \in Nat /\ stored[v] \in Nat
      BY <1>0, TotalTyped DEF Balanced
    <3>2. nvs'[v] = nvs[v] \/ (v = u /\ nvs'[v] = nvs[v] - claims[u].grams)
      BY <1>7
    <3> QED BY <1>7, <3>1, <3>2
  <2>2. ASSUME NEW v \in Uids
        PROVE  Gap(v)' = Gap(v) /\ Gap(v) \in Nat /\ Gap(v) <= Gap(v)
    <3>1. Gap(v) \in Nat
      BY EntriesTyped DEF Entries
    <3> QED BY <3>1 DEF Gap
  <2>3. ASSUME NEW v \in Uids \ crossed, v # u
        PROVE  Books(v)'
    <3>1. claims[v].state = "Bound" => claims[v].id \in RequestIds /\ claims[v].id # m.id
      BY <1>0, <1>3, <2>3 DEF ClaimsStand, Bound
    <3>2. \A x \in RequestIds : Result(x, TRUE) \in Results /\ Result(x, TRUE).id = x
      BY ResultTyped
    <3>3. Success(v)' <=> Success(v)
      BY <1>6, <2>3, <3>1, <3>2, Zenon DEF Success
    <3> QED BY <1>6, <1>7, <2>2, <2>3, <3>3, BooksStand
  <2>4. ASSUME u \notin crossed
        PROVE  Books(u)'
    <3>1. Landed(u)' = 0
      BY <1>6, LandedValue DEF Success, Working
    <3>2. Landed(u) = IF m.ok THEN claims[u].grams ELSE 0
      <4>1. Result(id, TRUE) \in Results /\ Result(id, TRUE).id = id /\ Result(id, TRUE).ok
        BY ResultTyped
      <4>2. Arriving(Result(id, TRUE)) <=> m.ok
        <5>1. m.ok => m = Result(id, TRUE)
          BY DEF Results, Result
        <5> QED BY <4>1, <5>1, OnlyResult
      <4>3. Success(u) <=> m.ok
        BY <1>3, <1>6, <4>2, Zenon DEF Success, Bound, Working
      <4> QED BY <4>3, LandedValue
    <3>3. Books(u) /\ Entries(u)
      BY <1>0, <2>4, EntriesTyped DEF Balanced
    <3> QED BY <1>7, <2>2, <3>1, <3>2, <3>3, BooksSettled
  <2> QED BY <2>1, <2>3, <2>4 DEF Balanced
<1> QED BY <1>6, <1>8, <1>9, <1>10, <1>11, <1>12 DEF DeductionInv
\* The application task takes a result, or the NFC task settles it itself.
LEMMA ResultsKeep ==
  ASSUME DeductionInv,
         \/ HandleMessage /\ Head(appQ).type = "updated"
         \/ DeliverResult
  PROVE  DeductionInv'
<1>0. /\ Typed /\ InFlightOnce /\ PostedOnce /\ appQ \in Seq(Messages) /\ Len(appQ) <= APP_QUEUE
      /\ report \in Results \cup {NoReport}
  BY Zenon DEF DeductionInv, Typed, InFlightOnce
<1>1. CASE HandleMessage /\ Head(appQ).type = "updated"
  <2>1. /\ appQ # <<>> /\ appQ' = Tail(appQ)
        /\ HandleWriteResult(Head(appQ).id, Head(appQ).ok)
        /\ UNCHANGED <<stored, taken, dropped, unsure, weight, format, writeQ, report,
                       crossed, reader, cur, ot3d, task>>
    BY <1>1 DEF HandleMessage, nfc, ledger
  <2> HIDE DEF HandleWriteResult
  <2>2. /\ appQ' \in Seq(Messages) /\ Len(appQ') = Len(appQ) - 1 /\ Len(appQ) \in Nat
        /\ Len(appQ) >= 1 /\ Head(appQ) = appQ[1] /\ appQ[1] \in Messages
        /\ \A i \in 1 .. Len(appQ) - 1 : appQ'[i] = appQ[i + 1]
    BY <1>0, <2>1, Shortened
  <2> PICK m \in Results : m = Head(appQ)
    BY <1>1, <2>2, MessageKinds
  <2>3. m.type = "updated" /\ m.id \in RequestIds /\ appQ[1] = m
    BY <2>2, MessageKinds
  <2>4. /\ \A i \in 1 .. Len(appQ') : i + 1 \in 1 .. Len(appQ) /\ appQ'[i] = appQ[i + 1] /\ i + 1 # 1
        /\ \A i \in 1 .. Len(appQ) : i # 1 => i - 1 \in 1 .. Len(appQ') /\ appQ'[i - 1] = appQ[i]
        /\ 1 \in 1 .. Len(appQ)
    BY <2>2
  <2>5. Posted(m.id) /\ ~Reported(m.id)
    BY <1>0, <2>3, <2>4 DEF Posted, InFlightOnce
  <2>6. \A i \in 1 .. Len(appQ) : i # 1 /\ appQ[i].type = "updated" => appQ[i].id # m.id
    BY <1>0, <2>3, <2>4 DEF PostedOnce
  <2>7. Ends(m.id)
    <3>1. \A x \in RequestIds : Posted(x)' <=> Posted(x) /\ x # m.id
      <4>1. ASSUME NEW x \in RequestIds, NEW i \in 1 .. Len(appQ'),
                   appQ'[i].type = "updated" /\ appQ'[i].id = x
            PROVE  Posted(x) /\ x # m.id
        BY <2>4, <2>6, <4>1 DEF Posted
      <4>2. ASSUME NEW x \in RequestIds, x # m.id, NEW i \in 1 .. Len(appQ),
                   appQ[i].type = "updated" /\ appQ[i].id = x
            PROVE  Posted(x)'
        <5>1. i - 1 \in 1 .. Len(appQ') /\ appQ'[i - 1] = appQ[i]
          BY <2>3, <2>4, <4>2
        <5> QED BY <4>2, <5>1 DEF Posted
      <4> QED BY <4>1, <4>2, Zenon DEF Posted
    <3> QED BY <2>1, <2>5, <3>1 DEF Ends, Reported
  <2>8. PostedOnce'
    BY <1>0, <2>2, <2>4 DEF PostedOnce
  <2>9. \A n \in Results : Arriving(n)' <=> Arriving(n) /\ n.id # m.id
    <3>1. \A n \in Results : Inbox(n)' <=> Inbox(n) /\ n.id # m.id
      BY <2>3, <2>4, <2>6, MessageKinds DEF Inbox
    <3>2. \A n \in Results : report = n => n.id # m.id
      BY <2>5, NoReportIsNone DEF Reported
    <3>3. report' = report
      BY <2>1
    <3> QED BY <3>1, <3>2, <3>3 DEF Arriving
  <2>10. HandleWriteResult(m.id, m.ok) /\ Arriving(m) /\ Len(appQ') <= APP_QUEUE
    BY <1>0, <2>1, <2>2, <2>3, <2>4, QueueAssumption DEF Arriving, Inbox
  <2>11. report' \in Results \cup {NoReport}
    BY <1>0, <2>1
  <2> QED BY <2>1, <2>2, <2>7, <2>8, <2>9, <2>10, <2>11, ResultKeeps
<1>2. CASE DeliverResult /\ ~(Len(appQ) < APP_QUEUE)
  <2>1. /\ report # NoReport /\ appQ' = appQ /\ report' = NoReport
        /\ HandleWriteResult(report.id, report.ok)
        /\ UNCHANGED <<stored, taken, dropped, unsure, weight, format, writeQ,
                       crossed, reader, cur, ot3d, task>>
    BY <1>2 DEF DeliverResult, ledger
  <2> HIDE DEF HandleWriteResult
  <2> PICK m \in Results : m = report
    BY <1>0, <2>1
  <2>2. m.type = "updated" /\ m.id \in RequestIds
    BY MessageKinds
  <2>3. Reported(m.id) /\ ~Posted(m.id)
    BY <1>0, <2>1, <2>2 DEF Reported, InFlightOnce
  <2>4. Ends(m.id)
    BY <2>1, <2>3 DEF Ends, Posted, Reported
  <2>5. PostedOnce'
    BY <1>0, <2>1 DEF PostedOnce
  <2>6. \A n \in Results : Arriving(n)' <=> Arriving(n) /\ n.id # m.id
    <3>1. \A n \in Results : (Inbox(n)' <=> Inbox(n)) /\ (Inbox(n) => n.id # m.id)
      BY <2>1, <2>3, MessageKinds DEF Inbox, Posted
    <3>2. \A n \in Results : report = n /\ n.id # m.id => FALSE
      OBVIOUS
    <3>3. \A n \in Results : report' # n
      BY <2>1, NoReportIsNone
    <3> QED BY <3>1, <3>2, <3>3 DEF Arriving
  <2>7. HandleWriteResult(m.id, m.ok) /\ Arriving(m)
    BY <2>1 DEF Arriving
  <2>8. appQ' \in Seq(Messages) /\ Len(appQ') <= APP_QUEUE /\ report' \in Results \cup {NoReport}
    BY <1>0, <2>1
  <2> QED BY <2>1, <2>4, <2>5, <2>6, <2>7, <2>8, ResultKeeps
<1> QED BY <1>1, <1>2, PostKeeps

-----------------------------------------------------------------------------
(* Claims of a task *)

\* A claim that no write carries opens, goes on or ends: the flight stays as it is.
LEMMA TaskClaim ==
  ASSUME DeductionInv, NEW u \in Uids, claims[u].state # "Bound",
         NEW c \in Owned \cup {NoClaim}, c.state # "Bound", claims' = [claims EXCEPT ![u] = c],
         UNCHANGED <<writeQ, appQ, report, weight, format, cur, ot3d>>, crossed \subseteq crossed'
  PROVE  /\ claims' \in [Uids -> Owned \cup {NoClaim}]
         /\ claims'[u] = c /\ \A v \in Uids : v # u => claims'[v] = claims[v]
         /\ InFlightOnce' /\ AmountsDue' /\ Known'
         /\ \A v \in Uids : claims'[v].state = "Bound" =>
              (Queued(claims[v].id) \/ Posted(claims[v].id) \/ Reported(claims[v].id))'
         /\ \A m : Arriving(m)' <=> Arriving(m)
         /\ \A v \in Uids : Gap(v)' = Gap(v)
<1>0. Typed /\ InFlightOnce /\ AmountsDue /\ Known /\ Owners
  BY Zenon DEF DeductionInv
<1>1. \A v \in Uids : claims'[v] = IF v = u THEN c ELSE claims[v]
  BY <1>0, Zenon DEF Typed
<1>2. claims' \in [Uids -> Owned \cup {NoClaim}]
  BY <1>0, Zenon DEF Typed
<1>3. \A v \in Uids : \A x : Bound(v, x)' <=> Bound(v, x)
  BY <1>1 DEF Bound
<1>4. \A x : /\ Queued(x)' <=> Queued(x)
             /\ Posted(x)' <=> Posted(x)
             /\ Reported(x)' <=> Reported(x)
  BY DEF Queued, Posted, Reported
<1>5. \A i \in 1 .. Len(writeQ) : writeQ[i].uid \in Uids /\ writeQ[i].uid # u
  BY <1>0, WriteTyped DEF InFlightOnce, Bound
<1>6. InFlightOnce'
  <2>1. PostedOnce'
    BY <1>0 DEF InFlightOnce, PostedOnce
  <2>2. \A i \in 1 .. Len(writeQ) : Bound(writeQ[i].uid, writeQ[i].id)'
    BY <1>0, <1>3, <1>5 DEF InFlightOnce
  <2> QED BY <1>0, <1>3, <1>4, <2>1, <2>2 DEF InFlightOnce
<1>7. AmountsDue'
  BY <1>0, <1>1, <1>5 DEF AmountsDue
<1>8. Known'
  BY <1>0 DEF Known
<1>9. \A v \in Uids : claims'[v].state = "Bound" =>
        (Queued(claims[v].id) \/ Posted(claims[v].id) \/ Reported(claims[v].id))'
  <2> SUFFICES ASSUME NEW v \in Uids, claims'[v].state = "Bound"
               PROVE  (Queued(claims[v].id) \/ Posted(claims[v].id) \/ Reported(claims[v].id))'
    OBVIOUS
  <2>1. claims'[v] = claims[v]
    BY <1>1
  <2> PICK x : x = claims[v].id
    OBVIOUS
  <2>2. Queued(x) \/ Posted(x) \/ Reported(x)
    BY <1>0, <2>1 DEF Owners
  <2>3. Queued(x)' \/ Posted(x)' \/ Reported(x)'
    BY <1>4, <2>2, Zenon
  <2> QED BY <2>1, <2>3
<1>10. \A m : Arriving(m)' <=> Arriving(m)
  BY DEF Arriving, Inbox
<1>11. \A v \in Uids : Gap(v)' = Gap(v)
  BY DEF Gap
<1> QED BY <1>1, <1>2, <1>6, <1>7, <1>8, <1>9, <1>10, <1>11

\* A task of the claim's tag is none of another claim.
LEMMA TasksStand ==
  ASSUME Typed, NEW t \in Tasks, NEW s \in Places, Goto(t, s)
  PROVE  /\ task' \in [Tasks -> Places] /\ task'[t] = s
         /\ \A r \in Tasks : r # t => task'[r] = task[r]
<1>1. task \in [Tasks -> Places] /\ task' = [task EXCEPT ![t] = s]
  BY TaskTyped DEF Goto
<1> QED BY <1>1

\* The claim is the task's own from the start.
LEMMA ImmediateKeeps ==
  ASSUME DeductionInv, NEW t \in Tasks, NEW u \in Uids,
         task[t].pc = "apply", task[t].uid = u, CanClaim(u),
         claims' = [claims EXCEPT ![u] =
           [state |-> "Immediate", grams |-> nvs[u], id |-> NoRequest]],
         Goto(t, [task[t] EXCEPT !.pc = "spoolman"]), crossed \subseteq crossed',
         UNCHANGED <<nvs, stored, taken, dropped, unsure, weight, format, writeQ, appQ, report,
                     reader, cur, ot3d>>
  PROVE  DeductionInv'
<1>0. Typed /\ ClaimsStand /\ Owners /\ Balanced
  BY Zenon DEF DeductionInv
<1>1. claims[u].state = "none" /\ nvs[u] \in Nat /\ nvs[u] > 0
  BY <1>0, TotalTyped DEF CanClaim, NoClaim
<1> DEFINE c == [state |-> "Immediate", grams |-> nvs[u], id |-> NoRequest]
           s == [task[t] EXCEPT !.pc = "spoolman"]
<1>2. c \in Owned \cup {NoClaim} /\ c.state = "Immediate" /\ c.grams = nvs[u]
  BY <1>1 DEF Owned
<1>3. s \in Places /\ s.pc = "spoolman" /\ s.uid = u /\ s.pc \in Working
  BY <1>0, TaskTyped DEF Places, Working
<1> HIDE DEF c, s
<1>4. /\ claims' \in [Uids -> Owned \cup {NoClaim}]
      /\ claims'[u] = c /\ \A v \in Uids : v # u => claims'[v] = claims[v]
      /\ InFlightOnce' /\ AmountsDue' /\ Known'
      /\ \A v \in Uids : claims'[v].state = "Bound" =>
           (Queued(claims[v].id) \/ Posted(claims[v].id) \/ Reported(claims[v].id))'
      /\ \A m : Arriving(m)' <=> Arriving(m)
      /\ \A v \in Uids : Gap(v)' = Gap(v)
  BY <1>1, <1>2, TaskClaim, Zenon DEF c
<1>5. /\ task' \in [Tasks -> Places] /\ task'[t] = s
      /\ \A r \in Tasks : r # t => task'[r] = task[r]
  BY <1>0, <1>3, TasksStand DEF s
<1>6. Typed'
  BY <1>0, <1>4, <1>5, Zenon DEF Typed
<1>7. ClaimsStand'
  <2>1. \A v \in Uids : claims'[v] # NoClaim => claims'[v].grams \in 1 .. nvs[v]
    BY <1>0, <1>1, <1>2, <1>4 DEF ClaimsStand
  <2>2. \A v \in Uids : claims'[v].state = "Bound" => claims'[v] = claims[v]
    BY <1>2, <1>4
  <2> QED BY <1>0, <2>1, <2>2 DEF ClaimsStand, Bound
<1>8. \A r \in Tasks : r # t /\ task[r].pc \in Working => task[r].uid # u /\ task[r].uid \in Uids
  BY <1>0, <1>1, TaskTyped DEF Owners, Working
<1>9. Owners'
  <2>1. \A v \in Uids : claims'[v].state = "Immediate" =>
          \E r \in Tasks : task'[r].pc \in Working /\ task'[r].uid = v
    <3> SUFFICES ASSUME NEW v \in Uids, claims'[v].state = "Immediate"
                 PROVE  \E r \in Tasks : task'[r].pc \in Working /\ task'[r].uid = v
      OBVIOUS
    <3>1. CASE v = u
      BY <1>3, <1>5, <3>1
    <3>2. CASE v # u
      <4>1. PICK r \in Tasks : task[r].pc \in Working /\ task[r].uid = v
        BY <1>0, <1>4, <3>2 DEF Owners
      <4>2. r # t
        BY <3>2, <4>1
      <4> QED BY <1>5, <4>1, <4>2
    <3> QED BY <3>1, <3>2
  <2>2. \A r \in Tasks : task'[r].pc \in Working => claims'[task'[r].uid].state = "Immediate"
    BY <1>0, <1>2, <1>3, <1>4, <1>5, <1>8 DEF Owners
  <2>3. \A r, q \in Tasks : /\ task'[r].pc \in Working /\ task'[q].pc \in Working
                            /\ task'[r].uid = task'[q].uid
                            => r = q
    BY <1>0, <1>3, <1>5, <1>8 DEF Owners
  <2>4. \A v \in Uids : claims'[v].state = "Bound" => claims'[v] = claims[v]
    BY <1>2, <1>4
  <2> QED BY <1>4, <2>1, <2>2, <2>3, <2>4 DEF Owners
<1>10. ASSUME NEW v \in Uids, v \notin crossed'
       PROVE  Books(v)'
  <2>1. v \notin crossed /\ Gap(v) \in Nat /\ Gap(v)' = Gap(v)
    BY <1>4, <1>10, EntriesTyped DEF Entries
  <2>2. CASE v # u
    <3>1. \A r \in Tasks : task'[r].pc = "accepted" <=> task[r].pc = "accepted"
      BY <1>3, <1>5
    <3>2. \A r \in Tasks : task'[r].pc = "accepted" => task'[r] = task[r]
      BY <1>3, <1>5
    <3>3. claims'[v] = claims[v]
      BY <1>4, <2>2
    <3>4. Success(v)' <=> Success(v)
      BY <1>4, <3>1, <3>2, <3>3, Zenon DEF Success
    <3> QED BY <2>1, <3>3, <3>4, BooksStand
  <2>3. CASE v = u
    <3>1. ~Success(u)
      BY <1>0, <1>1, <1>8 DEF Success, Working
    <3>2. ~Success(u)'
      BY <1>2, <1>3, <1>4, <1>5, <1>8 DEF Success, Working
    <3>3. Landed(u) = 0 /\ Landed(u)' = 0
      BY <3>1, <3>2, LandedValue
    <3>4. Books(u) /\ Entries(u)
      BY <1>0, <2>1, <2>3, EntriesTyped DEF Balanced
    <3>5. 0 \in Nat /\ 0 <= nvs[u]
      BY <1>1
    <3> QED BY <2>1, <2>3, <3>3, <3>4, <3>5, BooksSettled
  <2> QED BY <2>2, <2>3
<1>11. Balanced'
  BY <1>0, <1>10 DEF Balanced
<1> QED BY <1>4, <1>6, <1>7, <1>9, <1>11, Zenon DEF DeductionInv

\* What takes effect is pending until the success is known, or unsure for ever.
LEMMA BooksAbsorbed ==
  ASSUME NEW u \in Uids, NEW grams \in Nat, Books(u), Entries(u), Landed(u) = 0,
         Gap(u)' \in Nat, Gap(u)' <= Gap(u),
         nvs'[u] = nvs[u], stored'[u] = stored[u], dropped'[u] = dropped[u],
         taken'[u] = taken[u] + grams,
         \/ Landed(u)' = grams /\ unsure'[u] = unsure[u]
         \/ Landed(u)' = 0 /\ unsure'[u] = unsure[u] + grams
  PROVE  Books(u)'
  BY DEF Books, Entries

\* The task that works on u's claim is the only one.
LEMMA TaskAlone ==
  ASSUME DeductionInv, NEW t \in Tasks, task[t].pc \in Working
  PROVE  /\ task[t].uid \in Uids /\ claims[task[t].uid].state = "Immediate"
         /\ claims[task[t].uid].grams \in Nat
         /\ \A r \in Tasks : r # t /\ task[r].pc \in Working => task[r].uid # task[t].uid
         /\ task[t].pc # "accepted" => Landed(task[t].uid) = 0
         /\ task[t].pc = "accepted" => Landed(task[t].uid) = claims[task[t].uid].grams
<1>1. Typed /\ Owners
  BY Zenon DEF DeductionInv
<1>2. task[t].uid \in Uids /\ claims[task[t].uid].state = "Immediate"
  BY <1>1, TaskTyped DEF Owners, Working
<1>3. \A r \in Tasks : r # t /\ task[r].pc \in Working => task[r].uid # task[t].uid
  BY <1>1 DEF Owners
<1>4. Success(task[t].uid) <=> task[t].pc = "accepted"
  BY <1>2, <1>3 DEF Success, Working
<1> QED BY <1>1, <1>2, <1>3, <1>4, ClaimTyped, LandedValue

\* spoolmanDeductOutsideLock()
LEMMA SpoolmanKeeps ==
  ASSUME DeductionInv, NEW t \in Tasks, SpoolmanDeduct(t)
  PROVE  DeductionInv'
<1>0. Typed /\ ClaimsStand /\ Owners /\ Balanced
  BY Zenon DEF DeductionInv
<1>1. task[t].pc = "spoolman" /\ task[t].pc \in Working
  BY DEF SpoolmanDeduct, At, Working
<1> PICK u \in Uids : u = task[t].uid
  BY <1>1, TaskAlone
<1> PICK grams \in Nat : grams = claims[u].grams
  BY <1>1, TaskAlone
<1>2. /\ u \in Uids /\ claims[u].state = "Immediate" /\ grams \in Nat
      /\ \A r \in Tasks : r # t /\ task[r].pc \in Working => task[r].uid # u
      /\ Landed(u) = 0
  BY <1>1, TaskAlone
<1>3. UNCHANGED <<claims, nvs, stored, dropped, weight, format, writeQ, appQ, report, crossed,
                  reader, cur, ot3d>>
  BY DEF SpoolmanDeduct, vars, durable, nfc
<1>4. PICK out \in Working \ {"spoolman"} : Goto(t, [task[t] EXCEPT !.pc = out])
  BY DEF SpoolmanDeduct, Working
<1> DEFINE s == [task[t] EXCEPT !.pc = out]
<1>5. s \in Places /\ s.pc = out /\ s.uid = u /\ s.pc \in Working /\ out # "spoolman"
  BY <1>0, <1>1, TaskTyped DEF Places, Working
<1>6. \/ out # "accepted" /\ UNCHANGED <<taken, unsure>>
      \/ /\ out = "accepted" /\ taken' = [taken EXCEPT ![u] = @ + grams]
         /\ UNCHANGED unsure
      \/ /\ out # "accepted" /\ taken' = [taken EXCEPT ![u] = @ + grams]
         /\ unsure' = [unsure EXCEPT ![u] = @ + grams]
  <2>1. \A o : Goto(t, [task[t] EXCEPT !.pc = o]) => out = o
    <3> TAKE o
    <3>1. HAVE Goto(t, [task[t] EXCEPT !.pc = o])
    <3>2. task' = [task EXCEPT ![t] = s] /\ task' = [task EXCEPT ![t] = [task[t] EXCEPT !.pc = o]]
      BY <1>4, <3>1 DEF Goto
    <3>3. task'[t] = s /\ task'[t] = [task[t] EXCEPT !.pc = o]
      BY <1>0, <3>2, TaskTyped
    <3>4. task[t] \in [pc : {"apply"} \cup Working, uid : Uids, kind : Kinds, prefer : BOOLEAN]
      BY <1>0, <1>1, TaskTyped
    <3> QED BY <3>3, <3>4
  <2> QED BY <2>1 DEF SpoolmanDeduct
<1> HIDE DEF s
<1>7. /\ claims \in [Uids -> Owned \cup {NoClaim}] /\ claims[u] \in Owned \cup {NoClaim}
      /\ claims' = [claims EXCEPT ![u] = claims[u]] /\ crossed \subseteq crossed'
  BY <1>0, <1>2, <1>3, Zenon DEF Typed
<1>8. /\ InFlightOnce' /\ AmountsDue' /\ Known'
      /\ \A v \in Uids : claims'[v].state = "Bound" =>
           (Queued(claims[v].id) \/ Posted(claims[v].id) \/ Reported(claims[v].id))'
      /\ \A m : Arriving(m)' <=> Arriving(m)
      /\ \A v \in Uids : Gap(v)' = Gap(v)
  BY <1>2, <1>3, <1>7, TaskClaim
<1>9. /\ task' \in [Tasks -> Places] /\ task'[t] = s
      /\ \A r \in Tasks : r # t => task'[r] = task[r]
  BY <1>0, <1>4, <1>5, TasksStand DEF s
<1>10. /\ taken' \in Totals /\ unsure' \in Totals
       /\ \A v \in Uids : v # u => taken'[v] = taken[v] /\ unsure'[v] = unsure[v]
       /\ \/ out # "accepted" /\ taken'[u] = taken[u] /\ unsure'[u] = unsure[u]
          \/ out = "accepted" /\ taken'[u] = taken[u] + grams /\ unsure'[u] = unsure[u]
          \/ out # "accepted" /\ taken'[u] = taken[u] + grams /\ unsure'[u] = unsure[u] + grams
  <2>1. taken \in Totals /\ unsure \in Totals
    BY <1>0, Zenon DEF Typed
  <2> QED BY <1>2, <1>6, <2>1 DEF Totals
<1>11. Typed'
  BY <1>0, <1>3, <1>9, <1>10, Zenon DEF Typed
<1>12. ClaimsStand'
  BY <1>0, <1>3 DEF ClaimsStand, Bound
<1>13. Owners'
  <2>1. /\ \A r \in Tasks : task'[r].pc \in Working <=> task[r].pc \in Working
        /\ \A r \in Tasks : task'[r].pc \in Working => task'[r].uid = task[r].uid
    BY <1>1, <1>5, <1>9
  <2> QED BY <1>0, <1>3, <1>8, <2>1 DEF Owners
<1>14. ASSUME NEW v \in Uids, v \notin crossed'
       PROVE  Books(v)'
  <2>1. v \notin crossed /\ Gap(v) \in Nat /\ Gap(v)' = Gap(v) /\ claims'[v] = claims[v]
    BY <1>3, <1>8, <1>14, EntriesTyped DEF Entries
  <2>2. CASE v # u
    <3>1. \A r \in Tasks : task'[r].pc = "accepted" /\ task'[r].uid = v
                             <=> task[r].pc = "accepted" /\ task[r].uid = v
      BY <1>1, <1>5, <1>9, <2>2
    <3>2. Success(v)' <=> Success(v)
      BY <1>8, <2>1, <3>1, Zenon DEF Success
    <3> QED BY <1>3, <1>10, <2>1, <2>2, <3>2, BooksStand
  <2>3. CASE v = u
    <3>1. Success(u)' <=> out = "accepted"
      BY <1>2, <1>3, <1>5, <1>9, Zenon DEF Success, Working
    <3>2. Landed(u)' = IF out = "accepted" THEN grams ELSE 0
      BY <1>2, <1>3, <3>1, LandedValue
    <3>3. Books(u) /\ Entries(u)
      BY <1>0, <2>1, <2>3, EntriesTyped DEF Balanced
    <3>4. CASE out # "accepted" /\ taken'[u] = taken[u] /\ unsure'[u] = unsure[u]
      <4>1. 0 \in Nat /\ 0 <= nvs[u]
        BY <3>3 DEF Entries
      <4> QED BY <1>2, <1>3, <2>1, <2>3, <3>2, <3>3, <3>4, <4>1, BooksSettled
    <3>5. CASE taken'[u] = taken[u] + grams
      <4>1. \/ Landed(u)' = grams /\ unsure'[u] = unsure[u]
            \/ Landed(u)' = 0 /\ unsure'[u] = unsure[u] + grams
        <5>1. CASE out = "accepted"
          BY <1>10, <3>2, <5>1
        <5>2. CASE out # "accepted" /\ unsure'[u] = unsure[u] + grams
          BY <3>2, <5>2
        <5>3. CASE out # "accepted" /\ taken'[u] = taken[u] /\ unsure'[u] = unsure[u]
          <6>1. taken[u] \in Nat /\ grams = 0
            BY <3>3, <3>5, <5>3 DEF Entries
          <6> QED BY <3>2, <5>3, <6>1
        <5> QED BY <1>10, <5>1, <5>2, <5>3
      <4>2. /\ nvs'[u] = nvs[u] /\ stored'[u] = stored[u] /\ dropped'[u] = dropped[u]
            /\ Gap(u)' \in Nat /\ Gap(u)' <= Gap(u)
        BY <1>3, <2>1, <2>3
      <4> QED BY <1>2, <2>3, <3>3, <3>5, <4>1, <4>2, BooksAbsorbed
    <3> QED BY <1>10, <3>4, <3>5
  <2> QED BY <2>2, <2>3
<1>15. Balanced'
  BY <1>0, <1>3, <1>14 DEF Balanced
<1> QED BY <1>8, <1>11, <1>12, <1>13, <1>15, Zenon DEF DeductionInv

\* The claim a task holds ends, whatever came of it.
LEMMA SettleKeeps ==
  ASSUME DeductionInv, NEW t \in Tasks, SettleSync(t)
  PROVE  DeductionInv'
<1>0. Typed /\ ClaimsStand /\ Owners /\ Balanced
  BY Zenon DEF DeductionInv
<1>1. task[t].pc \in {"accepted", "refused", "unavailable"} /\ task[t].pc \in Working
  BY DEF SettleSync, Working
<1> PICK u \in Uids : u = task[t].uid
  BY <1>1, TaskAlone
<1> PICK grams \in Nat : grams = claims[u].grams
  BY <1>1, TaskAlone
<1>2. /\ u \in Uids /\ claims[u].state = "Immediate"
      /\ \A r \in Tasks : r # t /\ task[r].pc \in Working => task[r].uid # u
      /\ Landed(u) = IF task[t].pc = "accepted" THEN grams ELSE 0
  BY <1>1, TaskAlone
<1>3. /\ UNCHANGED <<stored, taken, unsure, weight, format, writeQ, appQ, report, crossed,
                     reader, cur, ot3d>>
      /\ claims' = [claims EXCEPT ![u] = NoClaim] /\ Goto(t, Idle)
  BY DEF SettleSync, nfc, Settle
<1>4. PICK took \in BOOLEAN :
        /\ nvs' = IF took THEN [nvs EXCEPT ![u] = SettleSnapshot(u, claims[u].grams)] ELSE nvs
        /\ task[t].pc = "accepted" => took
        /\ dropped' = IF took /\ task[t].pc = "unavailable"
                      THEN [dropped EXCEPT ![u] = @ + grams] ELSE dropped
        /\ took => task[t].pc \in {"accepted", "unavailable"}
  <2> DEFINE consumed == task[t].pc = "accepted" \/ (task[t].pc = "unavailable" /\ task[t].prefer)
  <2>1. /\ nvs' = IF consumed THEN [nvs EXCEPT ![u] = SettleSnapshot(u, claims[u].grams)] ELSE nvs
        /\ dropped' = IF consumed /\ task[t].pc = "unavailable"
                      THEN [dropped EXCEPT ![u] = @ + grams] ELSE dropped
    BY Zenon DEF SettleSync, At
  <2>2. task[t].prefer \in BOOLEAN
    BY <1>0, <1>1, TaskTyped
  <2>3. PICK took \in BOOLEAN : took <=> consumed
    OBVIOUS
  <2> QED BY <2>1, <2>3, Zenon
<1> HIDE DEF SettleSnapshot
<1>5. /\ grams \in Nat /\ grams <= nvs[u] /\ nvs' \in Totals
      /\ nvs'[u] = IF took THEN nvs[u] - grams ELSE nvs[u]
      /\ \A v \in Uids : v # u => nvs'[v] = nvs[v]
  BY <1>2, <1>4, Settlement
<1>6. /\ NoClaim \in Owned \cup {NoClaim} /\ NoClaim.state = "none" /\ crossed \subseteq crossed'
      /\ claims[u].state # "Bound"
  BY <1>2, <1>3 DEF NoClaim
<1>7. /\ claims' \in [Uids -> Owned \cup {NoClaim}]
      /\ claims'[u] = NoClaim /\ \A v \in Uids : v # u => claims'[v] = claims[v]
      /\ InFlightOnce' /\ AmountsDue' /\ Known'
      /\ \A v \in Uids : claims'[v].state = "Bound" =>
           (Queued(claims[v].id) \/ Posted(claims[v].id) \/ Reported(claims[v].id))'
      /\ \A m : Arriving(m)' <=> Arriving(m)
      /\ \A v \in Uids : Gap(v)' = Gap(v)
  BY <1>2, <1>3, <1>6, TaskClaim
<1>8. Idle \in Places /\ Idle.pc \notin Working
  BY DEF Idle, Places, Working
<1>9. /\ task' \in [Tasks -> Places] /\ task'[t] = Idle
      /\ \A r \in Tasks : r # t => task'[r] = task[r]
  BY <1>0, <1>3, <1>8, TasksStand
<1>10. /\ dropped' \in Totals /\ \A v \in Uids : v # u => dropped'[v] = dropped[v]
       /\ dropped'[u] = IF took /\ task[t].pc = "unavailable" THEN dropped[u] + grams ELSE dropped[u]
  <2>1. dropped \in Totals
    BY <1>0, Zenon DEF Typed
  <2> QED BY <1>2, <1>4, <1>5, <2>1 DEF Totals
<1>11. Typed'
  BY <1>0, <1>3, <1>5, <1>7, <1>9, <1>10, Zenon DEF Typed
<1>12. ClaimsStand'
  BY <1>0, <1>5, <1>6, <1>7 DEF ClaimsStand, Bound
<1>13. Owners'
  <2>1. \A r \in Tasks : task'[r].pc \in Working => r # t /\ task'[r] = task[r] /\ task[r].uid # u
    BY <1>2, <1>8, <1>9
  <2>2. \A v \in Uids : claims'[v].state = "Immediate" => v # u /\ claims[v].state = "Immediate"
    BY <1>6, <1>7
  <2>3. \A v \in Uids : claims'[v].state = "Immediate" =>
          \E r \in Tasks : task'[r].pc \in Working /\ task'[r].uid = v
    <3> SUFFICES ASSUME NEW v \in Uids, v # u, claims[v].state = "Immediate"
                 PROVE  \E r \in Tasks : task'[r].pc \in Working /\ task'[r].uid = v
      BY <2>2
    <3>1. PICK r \in Tasks : task[r].pc \in Working /\ task[r].uid = v
      BY <1>0 DEF Owners
    <3>2. r # t
      BY <3>1
    <3> QED BY <1>9, <3>1, <3>2
  <2>4. \A r \in Tasks : task'[r].pc \in Working => claims'[task'[r].uid].state = "Immediate"
    BY <1>0, <1>7, <2>1, TaskTyped DEF Owners, Working
  <2>5. \A v \in Uids : claims'[v].state = "Bound" => claims'[v] = claims[v]
    BY <1>6, <1>7
  <2> QED BY <1>0, <1>7, <2>1, <2>3, <2>4, <2>5 DEF Owners
<1>14. ASSUME NEW v \in Uids
       PROVE  nvs'[v] <= stored'[v] /\ stored'[v] <= MaxStored
  <2>1. nvs[v] <= stored[v] /\ stored[v] <= MaxStored /\ nvs[v] \in Nat /\ stored[v] \in Nat
    BY <1>0, TotalTyped DEF Balanced
  <2>2. nvs'[v] = nvs[v] \/ (v = u /\ nvs'[v] = nvs[v] - grams)
    BY <1>5
  <2>3. stored'[v] = stored[v]
    BY <1>3
  <2> QED BY <1>5, <2>1, <2>2, <2>3
<1>15. ASSUME NEW v \in Uids, v \notin crossed'
       PROVE  Books(v)'
  <2>1. v \notin crossed /\ Gap(v) \in Nat /\ Gap(v)' = Gap(v)
    BY <1>3, <1>7, <1>15, EntriesTyped DEF Entries
  <2>2. CASE v # u
    <3>1. \A r \in Tasks : task'[r].pc = "accepted" /\ task'[r].uid = v
                             <=> task[r].pc = "accepted" /\ task[r].uid = v
      BY <1>8, <1>9, <2>2 DEF Working
    <3>2. claims'[v] = claims[v]
      BY <1>7, <2>2
    <3>3. Success(v)' <=> Success(v)
      BY <1>7, <3>1, <3>2, Zenon DEF Success
    <3> QED BY <1>3, <1>5, <1>10, <2>1, <2>2, <3>2, <3>3, BooksStand
  <2>3. CASE v = u
    <3>1. ~Success(u)'
      BY <1>2, <1>6, <1>7, <1>8, <1>9 DEF Success, Working
    <3>2. Landed(u)' = 0
      BY <1>2, <3>1, LandedValue
    <3>3. Books(u) /\ Entries(u)
      BY <1>0, <2>1, <2>3, EntriesTyped DEF Balanced
    <3>4. \/ Landed(u) = grams /\ nvs'[u] = nvs[u] - grams /\ dropped'[u] = dropped[u]
          \/ Landed(u) = 0 /\ nvs'[u] = nvs[u] /\ dropped'[u] = dropped[u]
          \/ Landed(u) = 0 /\ nvs'[u] = nvs[u] - grams /\ dropped'[u] = dropped[u] + grams
      BY <1>1, <1>2, <1>4, <1>5, <1>10
    <3>5. /\ stored'[u] = stored[u] /\ taken'[u] = taken[u] /\ unsure'[u] = unsure[u]
          /\ Gap(u)' \in Nat /\ Gap(u)' <= Gap(u)
      BY <1>3, <2>1, <2>3
    <3> QED BY <1>2, <1>5, <2>3, <3>2, <3>3, <3>4, <3>5, BooksSettled
  <2> QED BY <2>2, <2>3
<1>16. Balanced'
  BY <1>3, <1>14, <1>15 DEF Balanced
<1> QED BY <1>7, <1>11, <1>12, <1>13, <1>16, Zenon DEF DeductionInv

-----------------------------------------------------------------------------
(* Claims that a write carries *)

\* What AmountsDue asks of a write that is queued for the pending grams of its tag.
WellMeasured(w) ==
  IF w.type = "REMOVE_WEIGHT"
  THEN /\ w.amount <= nvs[w.uid]
       /\ w.amount < nvs[w.uid] => /\ weight[w.uid] <= w.amount
                                   /\ cur.valid /\ cur.uid = w.uid => cur.weight <= w.amount
  ELSE /\ format[w.uid] = "OpenTag3D"
       /\ w.amount = Most(Less(weight[w.uid], nvs[w.uid]), 1)

LEMMA QueueKeeps ==
  ASSUME DeductionInv, NEW t \in Tasks, NEW u \in Uids, NEW w \in Writes,
         task[t].pc = "apply", task[t].uid = u, CanClaim(u), QueueRoom,
         w.id = NewId, w.uid = u, ClaimAndQueue(t, w), Goto(t, Idle),
         crossed \subseteq crossed', u \notin crossed' => WellMeasured(w),
         UNCHANGED <<nvs, stored, taken, dropped, unsure, weight, format, appQ, report,
                     reader, cur, ot3d>>
  PROVE  DeductionInv'
<1>0. Typed /\ ClaimsStand /\ InFlightOnce /\ PostedOnce /\ Owners /\ Known /\ AmountsDue /\ Balanced
  BY Zenon DEF DeductionInv, InFlightOnce
<1>1. /\ claims[u].state = "none" /\ nvs[u] \in Nat /\ nvs[u] > 0
      /\ Cardinality(Claimed) < CAPACITY
  BY <1>0, TotalTyped DEF CanClaim, NoClaim
<1> PICK id \in RequestIds : id = NewId
  BY <1>1, FreshId
<1>2. \A v \in Uids : ~Bound(v, id)
  BY <1>1, FreshId DEF Bound
<1>3. ~Queued(id) /\ ~Posted(id) /\ ~Reported(id)
  <2>1. \A i \in 1 .. Len(writeQ) : writeQ[i].uid \in Uids
    BY <1>0, WriteTyped
  <2> QED BY <1>0, <1>2, <2>1 DEF InFlightOnce, Queued
<1>4. PICK c : c = [state |-> "Bound", grams |-> nvs[u], id |-> id]
  OBVIOUS
<1>5. /\ claims' = [claims EXCEPT ![u] = c] /\ writeQ' = Append(writeQ, w)
      /\ c.state = "Bound" /\ c.grams = nvs[u] /\ c.id = id /\ w.id = id /\ c \in Owned
  BY <1>1, <1>4 DEF ClaimAndQueue, Owned
<1>6. /\ \A v \in Uids : v # u => claims'[v] = claims[v]
      /\ claims'[u] = c /\ claims' \in [Uids -> Owned \cup {NoClaim}]
  <2>1. claims \in [Uids -> Owned \cup {NoClaim}]
    BY <1>0, Zenon DEF Typed
  <2> QED BY <1>5, <2>1
<1>7. /\ writeQ' \in Seq(Writes) /\ Len(writeQ') = Len(writeQ) + 1 /\ Len(writeQ) \in Nat
      /\ \A i \in 1 .. Len(writeQ) : writeQ'[i] = writeQ[i]
      /\ writeQ'[Len(writeQ) + 1] = w
      /\ \A i \in 1 .. Len(writeQ') : i \in 1 .. Len(writeQ) \/ i = Len(writeQ) + 1
      /\ Len(writeQ') <= QUEUE_DEPTH
  <2>1. writeQ \in Seq(Writes)
    BY <1>0, Zenon DEF Typed
  <2>2. /\ writeQ' \in Seq(Writes) /\ Len(writeQ') = Len(writeQ) + 1 /\ Len(writeQ) \in Nat
        /\ \A i \in 1 .. Len(writeQ) : writeQ'[i] = writeQ[i]
        /\ writeQ'[Len(writeQ) + 1] = w
    BY <1>5, <2>1, Appended
  <2> QED BY <2>2, QueueAssumption DEF QueueRoom
<1>8. /\ \A x : Queued(x)' <=> Queued(x) \/ x = id
      /\ \A x : (Posted(x)' <=> Posted(x)) /\ (Reported(x)' <=> Reported(x))
  <2>1. ASSUME NEW x, Queued(x)'
        PROVE  Queued(x) \/ x = id
    BY <1>5, <1>7, <2>1 DEF Queued
  <2>2. ASSUME NEW x, Queued(x) \/ x = id
        PROVE  Queued(x)'
    <3>1. \A i \in 1 .. Len(writeQ) : i \in 1 .. Len(writeQ')
      BY <1>7
    <3>2. Len(writeQ) + 1 \in 1 .. Len(writeQ')
      BY <1>7
    <3> QED BY <1>5, <1>7, <2>2, <3>1, <3>2 DEF Queued
  <2> QED BY <2>1, <2>2 DEF Posted, Reported
<1>9. /\ \A v \in Uids : \A x : v # u => (Bound(v, x)' <=> Bound(v, x))
      /\ Bound(u, id)' /\ \A x : ~Bound(u, x)
  BY <1>1, <1>5, <1>6 DEF Bound
<1>10. \A i \in 1 .. Len(writeQ) : /\ writeQ[i].uid \in Uids /\ writeQ[i].uid # u
                                   /\ writeQ[i].id # id
  BY <1>0, <1>3, <1>9, WriteTyped DEF InFlightOnce, Queued
<1>11. Idle \in Places /\ Idle.pc \notin Working /\ task[t].pc \notin Working
  BY DEF Idle, Places, Working
<1>12. task' \in [Tasks -> Places] /\ WorkStands
  BY <1>0, <1>11, GotoStands
<1>13. Typed'
  BY <1>0, <1>6, <1>7, <1>12, Zenon DEF Typed
<1>14. ClaimsStand'
  <2>1. \A v \in Uids : claims'[v] # NoClaim => claims'[v].grams \in 1 .. nvs[v]
    BY <1>0, <1>1, <1>5, <1>6 DEF ClaimsStand
  <2>2. \A v \in Uids : claims'[v].state = "Bound" => claims'[v].id \in RequestIds
    BY <1>0, <1>5, <1>6 DEF ClaimsStand
  <2>3. \A v, x \in Uids : claims'[v].state = "Bound" /\ Bound(x, claims[v].id)' => v = x
    BY <1>0, <1>2, <1>5, <1>6 DEF ClaimsStand, Bound
  <2> QED BY <2>1, <2>2, <2>3 DEF ClaimsStand
<1>15. InFlightOnce'
  <2>1. \A i \in 1 .. Len(writeQ') : Bound(writeQ[i].uid, writeQ[i].id)'
    BY <1>0, <1>5, <1>7, <1>9, <1>10 DEF InFlightOnce
  <2>2. \A x \in RequestIds : Posted(x)' \/ Reported(x)' => \E v \in Uids : Bound(v, x)'
    <3> SUFFICES ASSUME NEW x \in RequestIds, Posted(x) \/ Reported(x)
                 PROVE  \E v \in Uids : Bound(v, x)'
      BY <1>8
    <3>1. PICK v \in Uids : Bound(v, x)
      BY <1>0 DEF InFlightOnce
    <3>2. v # u
      BY <1>9, <3>1
    <3> QED BY <1>9, <3>1, <3>2
  <2>3. \A i, j \in 1 .. Len(writeQ') : writeQ'[i].id = writeQ'[j].id => i = j
    <3> SUFFICES ASSUME NEW i \in 1 .. Len(writeQ'), NEW j \in 1 .. Len(writeQ'),
                        writeQ'[i].id = writeQ'[j].id
                 PROVE  i = j
      OBVIOUS
    <3>1. CASE i \in 1 .. Len(writeQ) /\ j \in 1 .. Len(writeQ)
      BY <1>0, <1>7, <3>1 DEF InFlightOnce
    <3>2. CASE i = Len(writeQ) + 1 /\ j = Len(writeQ) + 1
      BY <3>2
    <3>3. CASE \/ i = Len(writeQ) + 1 /\ j \in 1 .. Len(writeQ)
               \/ j = Len(writeQ) + 1 /\ i \in 1 .. Len(writeQ)
      BY <1>5, <1>7, <1>10, <3>3
    <3> QED BY <1>7, <3>1, <3>2, <3>3
  <2>4. PostedOnce'
    BY <1>0 DEF PostedOnce
  <2>5. \A x \in RequestIds : /\ ~(Queued(x)' /\ Posted(x)')
                              /\ ~(Queued(x)' /\ Reported(x)')
                              /\ ~(Posted(x)' /\ Reported(x)')
    BY <1>0, <1>3, <1>8 DEF InFlightOnce
  <2> QED BY <2>1, <2>2, <2>3, <2>4, <2>5 DEF InFlightOnce
<1>16. Owners'
  <2>1. \A v \in Uids : claims'[v].state = "Bound" =>
          (Queued(claims[v].id) \/ Posted(claims[v].id) \/ Reported(claims[v].id))'
    <3> SUFFICES ASSUME NEW v \in Uids, claims'[v].state = "Bound"
                 PROVE  (Queued(claims[v].id) \/ Posted(claims[v].id) \/ Reported(claims[v].id))'
      OBVIOUS
    <3> PICK x : x = claims'[v].id
      OBVIOUS
    <3>1. Queued(x)' \/ Posted(x)' \/ Reported(x)'
      <4>1. CASE v = u
        BY <1>5, <1>6, <1>8, <4>1
      <4>2. CASE v # u
        BY <1>0, <1>6, <1>8, <4>2 DEF Owners
      <4> QED BY <4>1, <4>2
    <3> QED BY <3>1
  <2>2. \A v \in Uids : claims'[v].state = "Immediate" => v # u /\ claims[v].state = "Immediate"
    BY <1>5, <1>6
  <2>3. \A r \in Tasks : task[r].pc \in Working \/ task'[r].pc \in Working => task'[r] = task[r]
    BY <1>12 DEF WorkStands
  <2>4. \A r \in Tasks : task[r].pc \in Working => task[r].uid # u /\ task[r].uid \in Uids
    BY <1>0, <1>1, TaskTyped DEF Owners, Working
  <2> QED BY <1>0, <1>6, <2>1, <2>2, <2>3, <2>4 DEF Owners
<1>17. Known'
  BY <1>0 DEF Known
<1>18. AmountsDue'
  <2>1. ASSUME NEW i \in 1 .. Len(writeQ), writeQ[i].uid \notin crossed'
        PROVE  /\ writeQ'[i] = writeQ[i] /\ claims'[writeQ[i].uid] = claims[writeQ[i].uid]
               /\ writeQ[i].uid \notin crossed
    BY <1>6, <1>7, <1>10, <2>1
  <2>2. w.uid \notin crossed' => WellMeasured(w) /\ claims'[w.uid].grams = nvs[w.uid]
    BY <1>5, <1>6
  <2> SUFFICES ASSUME NEW i \in 1 .. Len(writeQ'), writeQ'[i].uid \notin crossed'
               PROVE  LET v == writeQ'[i]
                          grams == claims'[v.uid].grams
                      IN  IF v.type = "REMOVE_WEIGHT"
                          THEN /\ v.amount <= grams
                               /\ v.amount < grams =>
                                    /\ weight[v.uid] <= v.amount
                                    /\ cur.valid /\ cur.uid = v.uid => cur.weight <= v.amount
                          ELSE /\ format[v.uid] = "OpenTag3D"
                               /\ v.amount = Most(Less(weight[v.uid], grams), 1)
    BY DEF AmountsDue
  <2>3. CASE i \in 1 .. Len(writeQ)
    BY <1>0, <1>7, <2>1, <2>3 DEF AmountsDue
  <2>4. CASE i = Len(writeQ) + 1
    BY <1>7, <2>2, <2>4 DEF WellMeasured
  <2> QED BY <1>7, <2>3, <2>4
<1>19. ASSUME NEW v \in Uids, v \notin crossed'
       PROVE  Books(v)'
  <2>1. v \notin crossed /\ Gap(v) \in Nat /\ Gap(v)' = Gap(v)
    BY <1>19, EntriesTyped DEF Entries, Gap
  <2>2. \A m : Arriving(m)' <=> Arriving(m)
    BY DEF Arriving, Inbox
  <2>3. CASE v # u
    BY <1>6, <1>12, <2>1, <2>2, <2>3, SameSuccess, BooksStand
  <2>4. CASE v = u
    <3>1. \A r \in Tasks : task[r].pc \in Working \/ task'[r].pc \in Working =>
             task[r].uid # u /\ task'[r].uid # u
      BY <1>0, <1>1, <1>12 DEF Owners, WorkStands
    <3>2. ~Success(u)
      BY <1>1, <3>1 DEF Success, Working
    <3>3. ~Success(u)'
      <4>1. ~Arriving(Result(id, TRUE))
        <5> PICK m \in Results : m = Result(id, TRUE) /\ m.id = id
          BY ResultTyped
        <5>1. m.type = "updated" /\ m # NoReport
          BY MessageKinds, NoReportIsNone
        <5>2. report # m
          BY <1>3, <5>1 DEF Reported
        <5>3. ~Inbox(m)
          BY <1>3, <5>1 DEF Inbox, Posted
        <5> QED BY <5>2, <5>3 DEF Arriving
      <4> QED BY <1>5, <1>6, <2>2, <3>1, <4>1 DEF Success, Working
    <3>4. Landed(u) = 0 /\ Landed(u)' = 0
      BY <3>2, <3>3, LandedValue
    <3>5. Books(u) /\ Entries(u) /\ 0 \in Nat /\ 0 <= nvs[u]
      BY <1>0, <1>1, <2>1, <2>4, EntriesTyped DEF Balanced
    <3> QED BY <2>1, <2>4, <3>4, <3>5, BooksSettled
  <2> QED BY <2>3, <2>4
<1>20. Balanced'
  BY <1>0, <1>19 DEF Balanced
<1> QED BY <1>13, <1>14, <1>15, <1>16, <1>17, <1>18, <1>20, Zenon DEF DeductionInv

\* A task turns to something else and nothing has changed.
LEMMA TurnedAway ==
  ASSUME DeductionInv, NEW t \in Tasks, task[t].pc = "apply", Goto(t, Idle),
         UNCHANGED <<claims, writeQ, durable, cur, ot3d, report, appQ, stored, taken,
                     dropped, unsure>>,
         crossed \subseteq crossed'
  PROVE  DeductionInv'
<1>1. Typed /\ Len(appQ) <= APP_QUEUE
  BY Zenon DEF DeductionInv, Typed
<1>2. Quiet /\ UNCHANGED <<cur, ot3d, appQ, reader>>
  BY DEF Quiet, durable
<1>3. Idle \in Places /\ Idle.pc \notin Working /\ task[t].pc \notin Working
  BY DEF Idle, Places, Working
<1>4. task' \in [Tasks -> Places] /\ WorkStands
  BY <1>1, <1>3, GotoStands
<1> QED BY <1>1, <1>2, <1>4, SameKnown, QuietSteps, CopyTyped DEF Quiet

LEMMA OpenPrintTagKeeps ==
  ASSUME DeductionInv, NEW t \in Tasks, ApplyOpenPrintTag(t)
  PROVE  DeductionInv'
<1>0. Typed /\ Known
  BY Zenon DEF DeductionInv
<1>1. /\ task[t].pc = "apply" /\ Goto(t, Idle) /\ CanClaim(task[t].uid)
      /\ UNCHANGED <<durable, cur, ot3d, last, report, appQ, stored, taken,
                     dropped, unsure>>
  BY DEF ApplyOpenPrintTag, At
<1> PICK u \in Uids : u = task[t].uid
  BY <1>0, <1>1, TaskTyped
<1>2. CASE UNCHANGED <<vars, writeQ, crossed>>
  BY <1>1, <1>2, TurnedAway DEF vars
<1>3. CASE ~UNCHANGED <<vars, writeQ, crossed>>
  <2> DEFINE w == [id |-> NewId, uid |-> u, type |-> "REMOVE_WEIGHT",
                   amount |-> Least(nvs[u], cur.weight)]
  <2>1. /\ cur.valid /\ QueueRoom /\ ClaimAndQueue(t, w)
        /\ crossed' = IF cur.uid = u THEN crossed ELSE crossed \cup {u}
    BY <1>3 DEF ApplyOpenPrintTag
  <2>2. Cardinality(Claimed) < CAPACITY
    BY <1>1 DEF CanClaim
  <2>3. nvs[u] \in Nat /\ cur.weight \in Nat /\ weight[u] \in Nat
    BY <1>0, TotalTyped, CopyTyped
  <2>4. /\ w \in Writes /\ w.id = NewId /\ w.uid = u /\ w.type = "REMOVE_WEIGHT"
        /\ w.amount = Least(nvs[u], cur.weight)
    BY <2>2, <2>3, FreshId DEF Writes, Least
  <2>5. u \notin crossed' => WellMeasured(w)
    <3>1. u \notin crossed' => weight[u] <= cur.weight
      BY <1>0, <2>1 DEF Known
    <3> HIDE DEF w
    <3> QED BY <2>3, <2>4, <3>1 DEF WellMeasured, Least
  <2> HIDE DEF w
  <2> QED BY <1>1, <2>1, <2>4, <2>5, QueueKeeps DEF durable
<1> QED BY <1>2, <1>3

LEMMA OpenTag3DKeeps ==
  ASSUME DeductionInv, NEW t \in Tasks, ApplyOpenTag3D(t)
  PROVE  DeductionInv'
<1>0. Typed /\ Known
  BY Zenon DEF DeductionInv
<1>1. /\ task[t].pc = "apply" /\ CanClaim(task[t].uid)
      /\ UNCHANGED <<durable, cur, ot3d, last, report, appQ, stored, taken,
                     dropped, unsure>>
      /\ crossed' = IF ot3d.valid /\ ot3d.uid # task[t].uid
                    THEN crossed \cup {task[t].uid} ELSE crossed
      /\ crossed \subseteq crossed'
  BY DEF ApplyOpenTag3D, At
<1> PICK u \in Uids : u = task[t].uid
  BY <1>0, <1>1, TaskTyped
<1> DEFINE nominal == ot3d.valid /\ format[ot3d.uid] = "NominalTag3D"
           w == [id |-> NewId, uid |-> u, type |-> "WRITE_OPENTAG3D",
                 amount |-> Most(Less(ot3d.weight, nvs[u]), 1)]
<1>2. \/ /\ claims' = [claims EXCEPT ![u] =
              [state |-> "Immediate", grams |-> nvs[u], id |-> NoRequest]]
         /\ Goto(t, [task[t] EXCEPT !.pc = "spoolman"])
         /\ UNCHANGED writeQ
      \/ ot3d.valid /\ ~nominal /\ QueueRoom /\ ClaimAndQueue(t, w) /\ Goto(t, Idle)
      \/ Goto(t, Idle) /\ UNCHANGED <<claims, writeQ>>
  BY DEF ApplyOpenTag3D, vars
<1>3. CASE Goto(t, Idle) /\ UNCHANGED <<claims, writeQ>>
  BY <1>1, <1>3, TurnedAway
<1>4. CASE /\ claims' = [claims EXCEPT ![u] =
              [state |-> "Immediate", grams |-> nvs[u], id |-> NoRequest]]
           /\ Goto(t, [task[t] EXCEPT !.pc = "spoolman"])
           /\ UNCHANGED writeQ
  BY <1>1, <1>4, ImmediateKeeps DEF durable
<1>5. CASE ot3d.valid /\ ~nominal /\ QueueRoom /\ ClaimAndQueue(t, w) /\ Goto(t, Idle)
  <2>2. Cardinality(Claimed) < CAPACITY
    BY <1>1 DEF CanClaim
  <2>3. nvs[u] \in Nat /\ ot3d.weight \in Nat /\ weight[u] \in Nat /\ format[u] \in Formats
    BY <1>0, TotalTyped, CopyTyped
  <2>4. /\ w \in Writes /\ w.id = NewId /\ w.uid = u /\ w.type = "WRITE_OPENTAG3D"
        /\ w.amount = Most(Less(ot3d.weight, nvs[u]), 1)
    BY <2>2, <2>3, FreshId DEF Writes, Less, Most
  <2>5. u \notin crossed' => WellMeasured(w)
    <3>1. u \notin crossed' => ot3d.uid = u
      BY <1>1, <1>5
    <3>2. u \notin crossed' => format[u] = "OpenTag3D" /\ ot3d.weight = weight[u]
      BY <1>0, <1>5, <2>3, <3>1 DEF Known, KindOf, Formats
    <3> HIDE DEF w
    <3> QED BY <2>4, <3>2 DEF WellMeasured
  <2> HIDE DEF w
  <2> QED BY <1>1, <1>5, <2>4, <2>5, QueueKeeps DEF durable
<1> QED BY <1>2, <1>3, <1>4, <1>5

\* What a task does once it has a tag to deduct from.
LEMMA TaskStepKeeps ==
  ASSUME DeductionInv, NEW t \in Tasks, TaskStep(t)
  PROVE  DeductionInv'
<1>0. Typed
  BY Zenon DEF DeductionInv
<1>1. ASSUME ApplyImmediate(t)
      PROVE  DeductionInv'
  <2>1. /\ task[t].pc = "apply" /\ CanClaim(task[t].uid)
        /\ claims' = [claims EXCEPT ![task[t].uid] =
             [state |-> "Immediate", grams |-> nvs[task[t].uid], id |-> NoRequest]]
        /\ Goto(t, [task[t] EXCEPT !.pc = "spoolman"])
        /\ UNCHANGED <<durable, nfc, appQ, ledger>>
    BY <1>1 DEF ApplyImmediate, At
  <2> PICK u \in Uids : u = task[t].uid
    BY <1>0, <2>1, TaskTyped
  <2>2. /\ UNCHANGED <<nvs, stored, taken, dropped, unsure, weight, format, writeQ, appQ, report,
                       reader, cur, ot3d>>
        /\ crossed \subseteq crossed'
    BY <2>1 DEF durable, nfc, ledger
  <2> QED BY <2>1, <2>2, ImmediateKeeps
<1> QED BY <1>1, TasksKeep, OpenPrintTagKeeps, OpenTag3DKeeps, SpoolmanKeeps, SettleKeeps
        DEF TaskStep

-----------------------------------------------------------------------------
(* The write *)

\* The head of the write queue becomes a result.
LEMMA FlightGoesOn ==
  ASSUME DeductionInv, NEW w \in Writes, NEW id \in RequestIds, NEW ok \in BOOLEAN,
         writeQ # <<>>, w = writeQ[1], id = w.id, report = NoReport,
         writeQ' = Tail(writeQ), report' = Result(id, ok), UNCHANGED <<claims, appQ, task>>
  PROVE  /\ InFlightOnce' /\ Owners' /\ ~Posted(id) /\ Bound(w.uid, id)
         /\ writeQ' \in Seq(Writes) /\ Len(writeQ') <= QUEUE_DEPTH
         /\ report' \in Results
         /\ \A i \in 1 .. Len(writeQ') :
              /\ i + 1 \in 1 .. Len(writeQ) /\ writeQ'[i] = writeQ[i + 1]
              /\ writeQ[i + 1].uid # w.uid /\ writeQ[i + 1].uid \in Uids
<1>0. /\ Typed /\ ClaimsStand /\ InFlightOnce /\ PostedOnce /\ Owners
      /\ writeQ \in Seq(Writes) /\ Len(writeQ) <= QUEUE_DEPTH
  BY Zenon DEF DeductionInv, InFlightOnce, Typed
<1>1. /\ writeQ' \in Seq(Writes) /\ Len(writeQ') = Len(writeQ) - 1 /\ Len(writeQ) >= 1
      /\ Len(writeQ) \in Nat /\ \A i \in 1 .. Len(writeQ) - 1 : writeQ'[i] = writeQ[i + 1]
  BY <1>0, Shortened
<1>2. /\ \A i \in 1 .. Len(writeQ') : i + 1 \in 1 .. Len(writeQ) /\ writeQ'[i] = writeQ[i + 1] /\ i + 1 # 1
      /\ \A i \in 1 .. Len(writeQ) : i # 1 => i - 1 \in 1 .. Len(writeQ') /\ writeQ'[i - 1] = writeQ[i]
      /\ 1 \in 1 .. Len(writeQ) /\ Len(writeQ') <= QUEUE_DEPTH
  BY <1>0, <1>1, QueueAssumption
<1>3. Bound(w.uid, id) /\ Queued(id) /\ ~Posted(id) /\ w.uid \in Uids
  BY <1>0, <1>2 DEF InFlightOnce, Queued, Writes
<1>4. \A i \in 1 .. Len(writeQ) : i # 1 => writeQ[i].id # id
  BY <1>0, <1>2 DEF InFlightOnce
<1>5. \A i \in 1 .. Len(writeQ) : i # 1 => writeQ[i].uid # w.uid /\ writeQ[i].uid \in Uids
  BY <1>0, <1>3, <1>4, WriteTyped DEF InFlightOnce, Bound
<1>6. report' \in Results /\ report'.id = id
  BY ResultTyped
<1>7. \A x : /\ Queued(x)' <=> Queued(x) /\ x # id
             /\ Posted(x)' <=> Posted(x)
             /\ Reported(x)' <=> x = id
             /\ ~Reported(x)
  <2>1. ASSUME NEW x, NEW i \in 1 .. Len(writeQ'), writeQ'[i].id = x
        PROVE  Queued(x) /\ x # id
    BY <1>2, <1>4, <2>1 DEF Queued
  <2>2. ASSUME NEW x, x # id, NEW i \in 1 .. Len(writeQ), writeQ[i].id = x
        PROVE  Queued(x)'
    <3>1. i # 1
      BY <2>2
    <3>2. i - 1 \in 1 .. Len(writeQ') /\ writeQ'[i - 1] = writeQ[i]
      BY <1>2, <3>1
    <3> QED BY <2>2, <3>2 DEF Queued
  <2>3. \A x : Queued(x)' <=> Queued(x) /\ x # id
    BY <2>1, <2>2, Zenon DEF Queued
  <2>4. \A x : (Posted(x)' <=> Posted(x)) /\ (Reported(x)' <=> x = id) /\ ~Reported(x)
    BY <1>6, NoReportIsNone DEF Posted, Reported
  <2> QED BY <2>3, <2>4
<1>8. InFlightOnce'
  <2>1. \A i \in 1 .. Len(writeQ') : Bound(writeQ[i].uid, writeQ[i].id)'
    BY <1>0, <1>2 DEF InFlightOnce, Bound
  <2>2. \A x \in RequestIds : Posted(x)' \/ Reported(x)' => \E v \in Uids : Bound(v, x)'
    BY <1>0, <1>3, <1>7 DEF InFlightOnce, Bound
  <2>3. \A i, j \in 1 .. Len(writeQ') : writeQ'[i].id = writeQ'[j].id => i = j
    <3> SUFFICES ASSUME NEW i \in 1 .. Len(writeQ'), NEW j \in 1 .. Len(writeQ'),
                        writeQ'[i].id = writeQ'[j].id
                 PROVE  i = j
      OBVIOUS
    <3>1. i + 1 = j + 1
      BY <1>0, <1>2 DEF InFlightOnce
    <3> QED BY <3>1
  <2>4. PostedOnce'
    BY <1>0 DEF PostedOnce
  <2>5. \A x \in RequestIds : /\ ~(Queued(x)' /\ Posted(x)')
                              /\ ~(Queued(x)' /\ Reported(x)')
                              /\ ~(Posted(x)' /\ Reported(x)')
    BY <1>0, <1>3, <1>7 DEF InFlightOnce
  <2> QED BY <2>1, <2>2, <2>3, <2>4, <2>5 DEF InFlightOnce
<1>9. Owners'
  <2>1. \A v \in Uids : claims[v].state = "Bound" =>
          (Queued(claims[v].id) \/ Posted(claims[v].id) \/ Reported(claims[v].id))'
    <3> SUFFICES ASSUME NEW v \in Uids, claims[v].state = "Bound"
                 PROVE  (Queued(claims[v].id) \/ Posted(claims[v].id) \/ Reported(claims[v].id))'
      OBVIOUS
    <3> PICK x : x = claims[v].id
      OBVIOUS
    <3>1. Queued(x)' \/ Posted(x)' \/ Reported(x)'
      BY <1>0, <1>7 DEF Owners
    <3>2. claims'[v].id = x
      OBVIOUS
    <3> QED BY <3>1, <3>2
  <2> QED BY <1>0, <2>1 DEF Owners
<1> QED BY <1>1, <1>2, <1>3, <1>5, <1>6, <1>8, <1>9

\* What REMOVE_WEIGHT takes for a claim of gr grams, on a tag that holds wt grams of
\* which the copy says cw.
Removed(cw, wt, am, gr) == IF Less(cw, am) <= 0 THEN gr ELSE Less(wt, Less(cw, am))

LEMMA RemoveTakes ==
  ASSUME NEW cw \in Nat, NEW wt \in Nat, NEW am \in Nat, NEW gr \in Nat,
         wt <= cw, am <= gr, am < gr => wt <= am /\ cw <= am
  PROVE  /\ Removed(cw, wt, am, gr) \in Nat /\ Removed(cw, wt, am, gr) <= gr
         /\ Less(cw, am) <= cw
         /\ Less(cw, Less(cw, am)) <= Less(cw, wt) + Removed(cw, wt, am, gr)
         /\ gr <= Less(cw, wt) + Removed(cw, wt, am, gr)
<1> PICK inc : inc = Removed(cw, wt, am, gr)
  OBVIOUS
<1>1. CASE am >= cw
  <2>1. inc = gr /\ Less(cw, am) = 0 /\ Less(cw, 0) = cw
    BY <1>1 DEF Removed, Less
  <2>2. wt <= gr /\ Less(cw, wt) = cw - wt
    BY <1>1 DEF Less
  <2> QED BY <2>1, <2>2
<1>2. CASE am < cw
  <2>1. am = gr /\ Less(cw, am) = cw - am /\ cw - am \in Nat /\ cw - am > 0
    BY <1>2 DEF Less
  <2>2. inc = Less(wt, cw - am) /\ Less(cw, cw - am) = am /\ Less(cw, wt) = cw - wt
    BY <1>2, <2>1 DEF Less, Removed
  <2>3. CASE cw - am >= wt
    BY <2>1, <2>2, <2>3 DEF Less
  <2>4. CASE cw - am < wt
    BY <2>1, <2>2, <2>4 DEF Less
  <2> QED BY <2>1, <2>3, <2>4
<1> QED BY <1>1, <1>2

\* A patch takes the whole claim, down to the floor of 1.
LEMMA PatchTakes ==
  ASSUME NEW wt \in Nat, NEW gr \in Nat, NEW new, new = Most(Less(wt, gr), 1),
         NEW inc, inc = IF new <= 1 THEN gr ELSE Less(wt, new)
  PROVE  inc = gr /\ new \in Nat
  BY DEF Most, Less

\* An effect lands: its success is known of, or unsure for ever.
LEMMA BooksWritten ==
  ASSUME NEW u \in Uids, NEW grams \in Nat, NEW inc \in Nat, inc <= grams,
         Books(u), Entries(u), Landed(u) = 0, Gap(u)' \in Nat,
         nvs'[u] = nvs[u], stored'[u] = stored[u], dropped'[u] = dropped[u],
         taken'[u] = taken[u] + inc,
         \/ Landed(u)' = 0 /\ unsure'[u] = unsure[u] + grams /\ Gap(u)' <= Gap(u) + inc
         \/ Landed(u)' = grams /\ unsure'[u] = unsure[u] /\ grams + Gap(u)' <= Gap(u) + inc
  PROVE  Books(u)'
  BY DEF Books, Entries

\* What a write leaves of the tag, its cached copies and the ledger.
Unwritten ==
  UNCHANGED <<cur, weight, taken, unsure>>

Absorbed(w) ==
  IF WrittenWeight(w) <= Floor(w.uid) THEN claims[w.uid].grams
  ELSE Less(weight[w.uid], WrittenWeight(w))

Written(w, ok) ==
  /\ WriteAllowed(w)
  /\ weight' = [weight EXCEPT ![w.uid] = WrittenWeight(w)]
  /\ taken' = [taken EXCEPT ![w.uid] = @ + Absorbed(w)]
  /\ IF ok
     THEN /\ UNCHANGED unsure
          /\ cur' = IF w.type = "REMOVE_WEIGHT"
                    THEN [cur EXCEPT !.weight = WrittenWeight(w), !.kind = "OpenPrintTag"]
                    ELSE [cur EXCEPT !.present = FALSE]
     ELSE /\ UNCHANGED cur
          /\ unsure' = [unsure EXCEPT ![w.uid] = @ + claims[w.uid].grams]
  /\ ot3d' = IF w.type = "WRITE_OPENTAG3D" THEN [ot3d EXCEPT !.valid = FALSE] ELSE ot3d

LEMMA WriteOutcome ==
  ASSUME ProcessWrite, NEW w, w = Head(writeQ)
  PROVE  /\ report = NoReport /\ writeQ # <<>> /\ reader # NoUid /\ writeQ' = Tail(writeQ)
         /\ \/ /\ report' = Result(w.id, FALSE) /\ Unwritten
               /\ ot3d' \in {ot3d, [ot3d EXCEPT !.valid = FALSE]}
            \/ \E ok \in BOOLEAN : report' = Result(w.id, ok) /\ Written(w, ok)
         /\ UNCHANGED <<claims, nvs, stored, dropped, format, reader, appQ, task, crossed>>
<1>1. /\ report = NoReport /\ writeQ # <<>> /\ reader # NoUid /\ writeQ' = Tail(writeQ)
      /\ UNCHANGED <<claims, nvs, stored, dropped, format, reader, appQ, task, crossed>>
  BY DEF ProcessWrite, vars
<1> DEFINE new == WrittenWeight(w)
           landed == /\ weight' = [weight EXCEPT ![w.uid] = new]
                     /\ taken' = [taken EXCEPT ![w.uid] = @ + Absorbed(w)]
           patched == ot3d' = IF w.type = "WRITE_OPENTAG3D"
                              THEN [ot3d EXCEPT !.valid = FALSE] ELSE ot3d
<1>2. \/ /\ report' = Result(w.id, FALSE)
         /\ UNCHANGED <<cur, ot3d, weight, taken, unsure, faults>>
      \/ /\ report' = Result(w.id, FALSE) /\ patched
         /\ UNCHANGED <<cur, weight, taken, unsure, faults>>
      \/ /\ WriteAllowed(w) /\ report' = Result(w.id, FALSE) /\ patched /\ landed
         /\ unsure' = [unsure EXCEPT ![w.uid] = @ + claims[w.uid].grams]
         /\ UNCHANGED cur
      \/ /\ WriteAllowed(w) /\ report' = Result(w.id, TRUE) /\ patched /\ landed
         /\ cur' = IF w.type = "REMOVE_WEIGHT"
                   THEN [cur EXCEPT !.weight = new, !.kind = "OpenPrintTag"]
                   ELSE [cur EXCEPT !.present = FALSE]
         /\ UNCHANGED unsure
  BY Zenon DEF ProcessWrite, Absorbed
<1>3. CASE /\ report' = Result(w.id, FALSE)
           /\ UNCHANGED <<cur, ot3d, weight, taken, unsure, faults>>
  BY <1>1, <1>3 DEF Unwritten
<1>4. CASE /\ report' = Result(w.id, FALSE) /\ patched
           /\ UNCHANGED <<cur, weight, taken, unsure, faults>>
  BY <1>1, <1>4 DEF Unwritten
<1>5. CASE /\ WriteAllowed(w) /\ report' = Result(w.id, FALSE) /\ patched /\ landed
           /\ unsure' = [unsure EXCEPT ![w.uid] = @ + claims[w.uid].grams]
           /\ UNCHANGED cur
  <2>1. Written(w, FALSE) /\ FALSE \in BOOLEAN
    BY <1>5 DEF Written
  <2> QED BY <1>1, <1>5, <2>1
<1>6. CASE /\ WriteAllowed(w) /\ report' = Result(w.id, TRUE) /\ patched /\ landed
           /\ cur' = IF w.type = "REMOVE_WEIGHT"
                     THEN [cur EXCEPT !.weight = new, !.kind = "OpenPrintTag"]
                     ELSE [cur EXCEPT !.present = FALSE]
           /\ UNCHANGED unsure
  <2>1. Written(w, TRUE) /\ TRUE \in BOOLEAN
    BY <1>6 DEF Written
  <2> QED BY <1>1, <1>6, <2>1
<1> QED BY <1>2, <1>3, <1>4, <1>5, <1>6

\* What the tag absorbs pays for the claim, with what the copy held too much.
LEMMA WriteTakes ==
  ASSUME DeductionInv, NEW w \in Writes, NEW i \in 1 .. Len(writeQ), w = writeQ[i],
         WriteAllowed(w), w.uid \notin crossed, claims[w.uid].grams \in Nat
  PROVE  LET gr == claims[w.uid].grams
             new == WrittenWeight(w)
             inc == Absorbed(w)
         IN  /\ inc \in Nat /\ inc <= gr
             /\ w.type = "REMOVE_WEIGHT" =>
                  /\ cur.valid /\ cur.uid = w.uid
                  /\ Less(cur.weight, new) <= Gap(w.uid) + inc /\ new <= cur.weight
                  /\ gr <= Gap(w.uid) + inc
             /\ w.type # "REMOVE_WEIGHT" =>
                  inc = gr /\ ~(cur.valid /\ cur.uid = w.uid)
<1>0. Typed /\ Known /\ AmountsDue
  BY Zenon DEF DeductionInv
<1> PICK u \in Uids : u = w.uid
  BY DEF Writes
<1> PICK gr \in Nat : gr = claims[u].grams
  OBVIOUS
<1>1. weight[u] \in Nat /\ cur.weight \in Nat /\ format[u] \in Formats /\ w.amount \in Nat
  BY <1>0, TotalTyped, CopyTyped DEF Writes
<1>2. IF w.type = "REMOVE_WEIGHT"
      THEN /\ w.amount <= gr
           /\ w.amount < gr => /\ weight[u] <= w.amount
                               /\ cur.valid /\ cur.uid = u => cur.weight <= w.amount
      ELSE format[u] = "OpenTag3D" /\ w.amount = Most(Less(weight[u], gr), 1)
  BY <1>0 DEF AmountsDue
<1>3. CASE w.type = "REMOVE_WEIGHT"
  <2>1. cur.valid /\ cur.uid = u /\ WrittenWeight(w) = Less(cur.weight, w.amount)
    BY <1>3 DEF WriteAllowed, WrittenWeight
  <2>2. format[u] = "OpenPrintTag" /\ weight[u] <= cur.weight /\ Floor(u) = 0
    BY <1>0, <2>1 DEF Known, Floor
  <2>3. Gap(u) = Less(cur.weight, weight[u])
    BY <2>1 DEF Gap
  <2>4. Absorbed(w) = IF Less(cur.weight, w.amount) <= 0 THEN gr
                      ELSE Less(weight[u], Less(cur.weight, w.amount))
    BY <2>1, <2>2 DEF Absorbed
  <2>5. w.amount <= gr /\ (w.amount < gr => weight[u] <= w.amount /\ cur.weight <= w.amount)
    BY <1>2, <1>3, <2>1
  <2>6. /\ Absorbed(w) \in Nat /\ Absorbed(w) <= gr /\ Less(cur.weight, w.amount) <= cur.weight
        /\ Less(cur.weight, Less(cur.weight, w.amount)) <= Less(cur.weight, weight[u]) + Absorbed(w)
        /\ gr <= Less(cur.weight, weight[u]) + Absorbed(w)
    <3>1. Absorbed(w) = Removed(cur.weight, weight[u], w.amount, gr)
      BY <2>4 DEF Removed
    <3> DEFINE share == Removed(cur.weight, weight[u], w.amount, gr)
    <3>2. /\ cur.weight \in Nat /\ weight[u] \in Nat /\ w.amount \in Nat /\ gr \in Nat
          /\ weight[u] <= cur.weight /\ w.amount <= gr
          /\ w.amount < gr => weight[u] <= w.amount /\ cur.weight <= w.amount
      BY <1>1, <2>2, <2>5
    <3>3. /\ share \in Nat /\ share <= gr /\ Less(cur.weight, w.amount) <= cur.weight
          /\ Less(cur.weight, Less(cur.weight, w.amount)) <= Less(cur.weight, weight[u]) + share
          /\ gr <= Less(cur.weight, weight[u]) + share
      BY <3>2, RemoveTakes
    <3> QED BY <3>1, <3>3
  <2> QED BY <1>3, <2>1, <2>3, <2>6
<1>4. CASE w.type # "REMOVE_WEIGHT"
  <2>1. WrittenWeight(w) = Most(Less(weight[u], gr), 1) /\ format[u] = "OpenTag3D" /\ Floor(u) = 1
    BY <1>2, <1>4 DEF WrittenWeight, Floor
  <2>2. Absorbed(w) = IF WrittenWeight(w) <= 1 THEN gr ELSE Less(weight[u], WrittenWeight(w))
    BY <2>1 DEF Absorbed
  <2>3. Absorbed(w) = gr
    BY <1>1, <2>1, <2>2, PatchTakes
  <2>4. ~(cur.valid /\ cur.uid = u)
    BY <1>0, <2>1 DEF Known
  <2> QED BY <1>4, <2>3, <2>4
<1> QED BY <1>3, <1>4

\* processWriteQueue()
LEMMA WriteKeeps ==
  ASSUME DeductionInv, ProcessWrite
  PROVE  DeductionInv'
<1>0. /\ Typed /\ ClaimsStand /\ Owners /\ Known /\ AmountsDue /\ Balanced
      /\ writeQ \in Seq(Writes)
  BY Zenon DEF DeductionInv, Typed
<1> PICK w : w = Head(writeQ)
  OBVIOUS
<1>1. /\ report = NoReport /\ writeQ # <<>> /\ reader # NoUid /\ writeQ' = Tail(writeQ)
      /\ \/ /\ report' = Result(w.id, FALSE) /\ Unwritten
            /\ ot3d' \in {ot3d, [ot3d EXCEPT !.valid = FALSE]}
         \/ \E ok \in BOOLEAN : report' = Result(w.id, ok) /\ Written(w, ok)
      /\ UNCHANGED <<claims, nvs, stored, dropped, format, reader, appQ, task, crossed>>
  BY WriteOutcome
<1>2. w \in Writes /\ w = writeQ[1] /\ 1 \in 1 .. Len(writeQ)
  BY <1>0, <1>1, Shortened
<1> PICK id \in RequestIds, u \in Uids : id = w.id /\ u = w.uid
  BY <1>2 DEF Writes
<1> PICK ok \in BOOLEAN :
      /\ report' = Result(id, ok)
      /\ \/ /\ ~ok /\ Unwritten
            /\ ot3d' \in {ot3d, [ot3d EXCEPT !.valid = FALSE]}
         \/ Written(w, ok)
  BY <1>1
<1>3. /\ InFlightOnce' /\ Owners' /\ ~Posted(id) /\ Bound(u, id)
      /\ writeQ' \in Seq(Writes) /\ Len(writeQ') <= QUEUE_DEPTH
      /\ report' \in Results
      /\ \A i \in 1 .. Len(writeQ') :
           /\ i + 1 \in 1 .. Len(writeQ) /\ writeQ'[i] = writeQ[i + 1]
           /\ writeQ[i + 1].uid # u /\ writeQ[i + 1].uid \in Uids
  BY <1>1, <1>2, FlightGoesOn
<1> PICK gr \in Nat : gr = claims[u].grams
  BY <1>0, <1>3, ClaimTyped DEF Bound
<1>4. /\ weight[u] \in Nat /\ cur.weight \in Nat /\ w.amount \in Nat
      /\ w.type \in {"REMOVE_WEIGHT", "WRITE_OPENTAG3D"}
      /\ cur \in Copies /\ ot3d \in Patches
      /\ weight \in Totals /\ taken \in Totals /\ unsure \in Totals
  <2>1. weight \in Totals /\ taken \in Totals /\ unsure \in Totals
    BY <1>0, Zenon DEF Typed
  <2> QED BY <1>0, <1>2, <2>1, TotalTyped, CopyTyped DEF Writes
<1>5. WrittenWeight(w) \in Nat
  BY <1>4 DEF WrittenWeight, Less
<1>6. Absorbed(w) \in Nat
  BY <1>4, <1>5 DEF Absorbed, Less
<1> PICK new \in Nat, inc \in Nat : new = WrittenWeight(w) /\ inc = Absorbed(w)
  BY <1>5, <1>6
\* The tag, its copies and the ledger after the step.
<1>7. \/ /\ ~ok /\ Unwritten
         /\ ot3d' \in {ot3d, [ot3d EXCEPT !.valid = FALSE]}
      \/ /\ WriteAllowed(w)
         /\ weight' = [weight EXCEPT ![u] = new] /\ taken' = [taken EXCEPT ![u] = @ + inc]
         /\ IF ok
            THEN /\ UNCHANGED unsure
                 /\ cur' = IF w.type = "REMOVE_WEIGHT"
                           THEN [cur EXCEPT !.weight = new, !.kind = "OpenPrintTag"]
                           ELSE [cur EXCEPT !.present = FALSE]
            ELSE UNCHANGED cur /\ unsure' = [unsure EXCEPT ![u] = @ + gr]
         /\ ot3d' = IF w.type = "WRITE_OPENTAG3D" THEN [ot3d EXCEPT !.valid = FALSE] ELSE ot3d
  BY DEF Written
<1>8. /\ weight' \in Totals /\ taken' \in Totals /\ unsure' \in Totals
      /\ \A v \in Uids : v # u => /\ weight'[v] = weight[v] /\ taken'[v] = taken[v]
                                   /\ unsure'[v] = unsure[v]
  BY <1>4, <1>7 DEF Totals, Unwritten
<1>9. /\ cur' \in Copies /\ cur'.valid = cur.valid /\ cur'.uid = cur.uid
      /\ cur'.present => cur.present
      /\ cur'.weight # cur.weight => w.type = "REMOVE_WEIGHT"
  <2>1. CASE cur' = cur
    BY <1>4, <2>1
  <2>2. CASE w.type = "REMOVE_WEIGHT" /\ cur' = [cur EXCEPT !.weight = new, !.kind = "OpenPrintTag"]
    BY <1>4, <2>2 DEF Copies, Kinds
  <2>3. CASE cur' = [cur EXCEPT !.present = FALSE]
    BY <1>4, <2>3 DEF Copies
  <2> QED BY <1>7, <2>1, <2>2, <2>3 DEF Unwritten
<1>10. ot3d' \in Patches /\ (ot3d'.valid => ot3d' = ot3d)
  <2>1. CASE ot3d' = ot3d
    BY <1>4, <2>1
  <2>2. CASE ot3d' = [ot3d EXCEPT !.valid = FALSE]
    BY <1>4, <2>2 DEF Patches
  <2> QED BY <1>7, <2>1, <2>2
<1>11. Typed'
  <2>1. report' \in Results \cup {NoReport}
    BY <1>3
  <2> QED BY <1>0, <1>1, <1>3, <1>8, <1>9, <1>10, <2>1, Zenon DEF Typed
<1>12. ClaimsStand'
  BY <1>0, <1>1 DEF ClaimsStand, Bound
<1>13. u \notin crossed /\ WriteAllowed(w) =>
         /\ inc <= gr
         /\ w.type = "REMOVE_WEIGHT" =>
              /\ cur.valid /\ cur.uid = u
              /\ Less(cur.weight, new) <= Gap(u) + inc /\ new <= cur.weight
              /\ gr <= Gap(u) + inc
         /\ w.type # "REMOVE_WEIGHT" => inc = gr /\ ~(cur.valid /\ cur.uid = u)
  BY <1>2, WriteTakes
\* What is still known of the tags.
<1>14. Known'
  <2>1. cur'.present => cur'.uid \in Uids
    BY <1>0, <1>9 DEF Known
  <2>2. ASSUME cur'.valid
        PROVE  /\ cur'.uid \in Uids /\ format[cur'.uid] = "OpenPrintTag"
               /\ cur'.uid \notin crossed => weight'[cur'.uid] <= cur'.weight
    <3>1. /\ cur.uid \in Uids /\ format[cur.uid] = "OpenPrintTag"
          /\ cur.uid \notin crossed => weight[cur.uid] <= cur.weight
      BY <1>0, <1>9, <2>2 DEF Known
    <3>2. CASE cur.uid # u
      <4>1. w.type = "REMOVE_WEIGHT" /\ WriteAllowed(w) => FALSE
        BY <3>2 DEF WriteAllowed
      <4>2. cur'.weight = cur.weight
        BY <1>7, <1>9, <4>1 DEF Unwritten
      <4> QED BY <1>8, <1>9, <3>1, <3>2, <4>2
    <3>3. CASE cur.uid = u /\ u \notin crossed
      <4>1. CASE Unwritten
        BY <1>9, <3>1, <3>3, <4>1 DEF Unwritten
      <4>2. CASE WriteAllowed(w) /\ weight' = [weight EXCEPT ![u] = new]
        <5>1. w.type = "REMOVE_WEIGHT" /\ new <= cur.weight
          BY <1>9, <1>13, <2>2, <3>3, <4>2
        <5>2. weight'[u] = new
          BY <1>4, <4>2 DEF Totals
        <5>3. cur'.weight = new \/ cur' = cur
          BY <1>4, <1>7, <5>1 DEF Copies, Unwritten
        <5> QED BY <1>9, <3>1, <3>3, <5>1, <5>2, <5>3
      <4> QED BY <1>7, <4>1, <4>2
    <3> QED BY <1>9, <3>1, <3>2, <3>3
  <2>3. ASSUME ot3d'.valid
        PROVE  /\ ot3d'.uid \in Uids /\ KindOf(format[ot3d'.uid]) = "OpenTag3D"
               /\ ot3d'.mime /\ ot3d'.weight = weight'[ot3d'.uid]
    <3>1. /\ ot3d' = ot3d /\ ot3d.valid
          /\ ot3d.uid \in Uids /\ KindOf(format[ot3d.uid]) = "OpenTag3D"
          /\ ot3d.mime /\ ot3d.weight = weight[ot3d.uid]
      BY <1>0, <1>10, <2>3 DEF Known
    <3>2. weight'[ot3d.uid] = weight[ot3d.uid]
      <4>1. CASE Unwritten
        BY <4>1 DEF Unwritten
      <4>2. CASE /\ WriteAllowed(w)
                 /\ ot3d' = IF w.type = "WRITE_OPENTAG3D" THEN [ot3d EXCEPT !.valid = FALSE] ELSE ot3d
        <5>1. w.type = "REMOVE_WEIGHT"
          <6>1. CASE w.type = "WRITE_OPENTAG3D"
            <7>1. ot3d' = [ot3d EXCEPT !.valid = FALSE]
              BY <4>2, <6>1
            <7> QED BY <1>4, <2>3, <7>1 DEF Patches
          <6> QED BY <1>4, <6>1
        <5>2. cur.valid /\ cur.uid = u
          BY <4>2, <5>1 DEF WriteAllowed
        <5>3. format[u] = "OpenPrintTag"
          BY <1>0, <5>2 DEF Known
        <5>4. ot3d.uid # u
          BY <3>1, <5>3 DEF KindOf
        <5> QED BY <1>8, <3>1, <5>4
      <4> QED BY <1>7, <4>1, <4>2
    <3> QED BY <3>1, <3>2
  <2> QED BY <1>1, <2>1, <2>2, <2>3 DEF Known
<1>15. AmountsDue'
  <2> SUFFICES ASSUME NEW i \in 1 .. Len(writeQ'), writeQ'[i].uid \notin crossed
               PROVE  LET v == writeQ'[i]
                          grams == claims[v.uid].grams
                      IN  IF v.type = "REMOVE_WEIGHT"
                          THEN /\ v.amount <= grams
                               /\ v.amount < grams =>
                                    /\ weight'[v.uid] <= v.amount
                                    /\ cur'.valid /\ cur'.uid = v.uid => cur'.weight <= v.amount
                          ELSE /\ format[v.uid] = "OpenTag3D"
                               /\ v.amount = Most(Less(weight'[v.uid], grams), 1)
    BY <1>1 DEF AmountsDue
  <2> PICK v : v = writeQ[i + 1]
    OBVIOUS
  <2>1. v = writeQ'[i] /\ v.uid # u /\ v.uid \in Uids /\ i + 1 \in 1 .. Len(writeQ)
    BY <1>3
  <2>2. weight'[v.uid] = weight[v.uid]
    BY <1>8, <2>1
  <2>3. cur'.valid /\ cur'.uid = v.uid => cur.valid /\ cur.uid = v.uid /\ cur'.weight = cur.weight
    <3>1. cur.uid # u => cur'.weight = cur.weight
      BY <1>7, <1>9 DEF WriteAllowed, Unwritten
    <3> QED BY <1>9, <2>1, <3>1
  <2>4. v.uid \notin crossed
    BY <2>1
  <2>5. IF v.type = "REMOVE_WEIGHT"
        THEN /\ v.amount <= claims[v.uid].grams
             /\ v.amount < claims[v.uid].grams =>
                  /\ weight[v.uid] <= v.amount
                  /\ cur.valid /\ cur.uid = v.uid => cur.weight <= v.amount
        ELSE /\ format[v.uid] = "OpenTag3D"
             /\ v.amount = Most(Less(weight[v.uid], claims[v.uid].grams), 1)
    BY <1>0, <2>1, <2>4 DEF AmountsDue
  <2> HIDE DEF Most
  <2> QED BY <2>1, <2>2, <2>3, <2>5
\* The books.
<1>16. /\ \A t \in Tasks : task[t].pc \in Working => task[t].uid # u
       /\ ~Arriving(Result(id, TRUE))
       /\ \A m \in Results : Arriving(m)' <=> Arriving(m) \/ m = Result(id, ok)
  <2>1. \A t \in Tasks : task[t].pc \in Working => task[t].uid # u
    BY <1>0, <1>3 DEF Owners, Bound
  <2>2. \A m \in Results : Arriving(m) => Posted(m.id)
    BY <1>1, MessageKinds, NoReportIsNone DEF Arriving, Inbox, Posted
  <2>3. Result(id, TRUE) \in Results /\ Result(id, TRUE).id = id
    BY ResultTyped
  <2>4. \A m \in Results : Arriving(m)' <=> Arriving(m) \/ m = Result(id, ok)
    BY <1>1, NoReportIsNone DEF Arriving, Inbox
  <2> QED BY <1>3, <2>1, <2>2, <2>3, <2>4
<1>17. Landed(u) = 0 /\ Landed(u)' = IF ok THEN gr ELSE 0
  <2>1. ~Success(u)
    BY <1>3, <1>16 DEF Success, Bound, Working
  <2>2. Success(u)' <=> ok
    <3>1. Result(id, TRUE) \in Results /\ Result(id, TRUE).ok = TRUE /\ Result(id, ok).ok = ok
      BY ResultTyped
    <3>2. Arriving(Result(id, TRUE))' <=> ok
      BY <1>16, <3>1
    <3>3. claims'[u].state = "Bound" /\ claims'[u].id = id
      BY <1>1, <1>3 DEF Bound
    <3> QED BY <1>1, <1>16, <3>2, <3>3 DEF Success, Working
  <2> QED BY <1>1, <2>1, <2>2, LandedValue
<1>18. ASSUME NEW v \in Uids, v \notin crossed
       PROVE  Books(v)'
  <2>1. CASE v # u
    <3>1. claims[v].state = "Bound" => claims[v].id \in RequestIds /\ claims[v].id # id
      BY <1>0, <1>3, <2>1 DEF ClaimsStand, Bound
    <3>2. \A x \in RequestIds : /\ Result(x, TRUE) \in Results /\ Result(x, TRUE).id = x
                                /\ Result(x, ok).id = x
      BY ResultTyped
    <3>3. Success(v)' <=> Success(v)
      BY <1>1, <1>16, <3>1, <3>2 DEF Success
    <3>4. Gap(v)' = Gap(v)
      <4>1. cur.uid # u => cur'.weight = cur.weight
        BY <1>7, <1>9 DEF WriteAllowed, Unwritten
      <4> QED BY <1>8, <1>9, <2>1, <4>1 DEF Gap
    <3>5. Gap(v) \in Nat
      BY EntriesTyped DEF Entries
    <3> QED BY <1>1, <1>8, <1>18, <2>1, <3>3, <3>4, <3>5, BooksStand
  <2>2. CASE v = u /\ Unwritten /\ ~ok
    <3>1. Books(u) /\ Entries(u) /\ 0 \in Nat /\ 0 <= nvs[u]
      BY <1>0, <1>18, <2>2, EntriesTyped DEF Balanced, Entries
    <3>2. Gap(u)' = Gap(u) /\ Gap(u) \in Nat /\ taken' = taken /\ unsure' = unsure
      BY <2>2, <3>1 DEF Gap, Unwritten, Entries
    <3> QED BY <1>1, <1>17, <2>2, <3>1, <3>2, BooksSettled
  <2>3. CASE v = u /\ Written(w, ok)
    <3>0. /\ WriteAllowed(w)
          /\ weight' = [weight EXCEPT ![u] = new] /\ taken' = [taken EXCEPT ![u] = @ + inc]
          /\ IF ok
             THEN /\ UNCHANGED unsure
                  /\ cur' = IF w.type = "REMOVE_WEIGHT"
                            THEN [cur EXCEPT !.weight = new, !.kind = "OpenPrintTag"]
                            ELSE [cur EXCEPT !.present = FALSE]
             ELSE UNCHANGED cur /\ unsure' = [unsure EXCEPT ![u] = @ + gr]
      BY <2>3 DEF Written
    <3>1. Books(u) /\ Entries(u)
      BY <1>0, <1>18, <2>3, EntriesTyped DEF Balanced
    <3>2. /\ weight'[u] = new /\ taken'[u] = taken[u] + inc
          /\ unsure'[u] = IF ok THEN unsure[u] ELSE unsure[u] + gr
      BY <1>4, <3>0 DEF Totals
    <3>3. Gap(u)' = IF cur.valid /\ cur.uid = u THEN Less(cur'.weight, new) ELSE 0
      BY <1>9, <3>2 DEF Gap
    <3>4. /\ inc <= gr /\ Gap(u)' \in Nat
          /\ ~ok => Gap(u)' <= Gap(u) + inc
          /\ ok => gr + Gap(u)' <= Gap(u) + inc
      <4>1. CASE w.type = "REMOVE_WEIGHT"
        <5>1. /\ cur.valid /\ cur.uid = u /\ inc <= gr
              /\ Less(cur.weight, new) <= Gap(u) + inc /\ gr <= Gap(u) + inc
          BY <1>13, <1>18, <2>3, <3>0, <4>1
        <5>2. cur'.weight = IF ok THEN new ELSE cur.weight
          BY <1>4, <3>0, <4>1 DEF Copies
        <5>3. Gap(u)' = IF ok THEN 0 ELSE Less(cur.weight, new)
          BY <3>3, <5>1, <5>2 DEF Less
        <5>4. Less(cur.weight, new) \in Nat
          BY <1>4 DEF Less
        <5> QED BY <5>1, <5>3, <5>4
      <4>2. CASE w.type # "REMOVE_WEIGHT"
        <5>1. inc = gr /\ Gap(u)' = 0
          BY <1>13, <1>18, <2>3, <3>0, <3>3, <4>2
        <5>2. Gap(u) \in Nat
          BY <3>1 DEF Entries
        <5> QED BY <5>1, <5>2
      <4> QED BY <4>1, <4>2
    <3>5. \/ Landed(u)' = 0 /\ unsure'[u] = unsure[u] + gr /\ Gap(u)' <= Gap(u) + inc
          \/ Landed(u)' = gr /\ unsure'[u] = unsure[u] /\ gr + Gap(u)' <= Gap(u) + inc
      BY <1>17, <3>2, <3>4
    <3>6. nvs'[u] = nvs[u] /\ stored'[u] = stored[u] /\ dropped'[u] = dropped[u]
      BY <1>1
    <3> QED BY <1>17, <2>3, <3>1, <3>2, <3>4, <3>5, <3>6, BooksWritten
  <2>4. (~ok /\ Unwritten) \/ Written(w, ok)
    OBVIOUS
  <2> QED BY <2>1, <2>2, <2>3, <2>4
<1>19. Balanced'
  BY <1>0, <1>1, <1>18 DEF Balanced
<1> QED BY <1>3, <1>11, <1>12, <1>14, <1>15, <1>19 DEF DeductionInv

-----------------------------------------------------------------------------
(* The invariant *)

Blank == [uid |-> NoUid, present |-> FALSE, kind |-> "OpenPrintTag", valid |-> FALSE, weight |-> 0]
NoPatch == [valid |-> FALSE, uid |-> NoUid, weight |-> 0, mime |-> FALSE]

\* At power on the scanner knows of no tag, no claim and no message.
Afresh ==
  /\ claims = [u \in Uids |-> NoClaim] /\ cur = Blank /\ ot3d = NoPatch
  /\ writeQ = <<>> /\ report = NoReport /\ appQ = <<>> /\ task = [t \in Tasks |-> Idle]

Standing ==
  /\ claims \in [Uids -> Owned \cup {NoClaim}] /\ cur \in Copies /\ ot3d \in Patches
  /\ writeQ \in Seq(Writes) /\ Len(writeQ) <= QUEUE_DEPTH
  /\ appQ \in Seq(Messages) /\ Len(appQ) <= APP_QUEUE
  /\ report \in Results \cup {NoReport} /\ task \in [Tasks -> Places]
  /\ ClaimsStand /\ InFlightOnce /\ Owners /\ Known /\ AmountsDue
  /\ \A u \in Uids : Landed(u) = 0 /\ Gap(u) = 0

LEMMA AfreshStands == Afresh => Standing
<1> SUFFICES ASSUME Afresh PROVE Standing
  OBVIOUS
<1>1. /\ \A u \in Uids : claims[u] = NoClaim /\ NoClaim.state = "none"
      /\ \A t \in Tasks : task[t] = Idle /\ Idle.pc = "idle" /\ Idle \in Places
      /\ Len(writeQ) = 0 /\ Len(appQ) = 0
  BY DEF Afresh, NoClaim, Idle, Places
<1>2. claims \in [Uids -> Owned \cup {NoClaim}] /\ task \in [Tasks -> Places]
  BY <1>1 DEF Afresh
<1>3. cur \in Copies /\ ot3d \in Patches /\ ~cur.present /\ ~cur.valid /\ ~ot3d.valid
  BY DEF Afresh, Blank, NoPatch, Copies, Patches, Kinds
<1>4. /\ writeQ \in Seq(Writes) /\ Len(writeQ) <= QUEUE_DEPTH
      /\ appQ \in Seq(Messages) /\ Len(appQ) <= APP_QUEUE /\ report = NoReport
  BY <1>1, QueueAssumption DEF Afresh
<1>5. ClaimsStand
  BY <1>1 DEF ClaimsStand, Bound
<1>6. InFlightOnce
  BY <1>1, <1>4 DEF InFlightOnce, PostedOnce, Queued, Posted, Reported
<1>7. Owners
  BY <1>1 DEF Owners, Working
<1>8. Known /\ AmountsDue
  BY <1>1, <1>3 DEF Known, AmountsDue
<1>9. \A u \in Uids : Landed(u) = 0 /\ Gap(u) = 0
  BY <1>1, <1>3, LandedValue DEF Gap, Success
<1> QED BY <1>2, <1>3, <1>4, <1>5, <1>6, <1>7, <1>8, <1>9 DEF Standing

LEMMA StartStands == ManagerInit => DeductionInv
<1> SUFFICES ASSUME ManagerInit PROVE DeductionInv
  OBVIOUS
<1>1. Afresh
  BY DEF ManagerInit, Init, Afresh, Blank, NoPatch
<1>2. /\ nvs = [u \in Uids |-> 0] /\ stored = [u \in Uids |-> 0] /\ taken = [u \in Uids |-> 0]
      /\ dropped = [u \in Uids |-> 0] /\ unsure = [u \in Uids |-> 0]
      /\ weight \in Totals /\ format \in [Uids -> Formats] /\ reader = NoUid
  BY ShelfAssumption, BoundAssumption DEF ManagerInit, Totals
<1>3. /\ nvs \in Totals /\ stored \in Totals /\ taken \in Totals /\ dropped \in Totals
      /\ unsure \in Totals
  BY <1>2 DEF Totals
<1>4. Typed
  BY <1>1, <1>2, <1>3, AfreshStands DEF Typed, Standing
<1>5. Balanced
  BY <1>1, <1>2, AfreshStands, BoundAssumption DEF Balanced, Books, Standing
<1> QED BY <1>1, <1>4, <1>5, AfreshStands DEF DeductionInv, Standing

LEMMA RebootKeeps ==
  ASSUME DeductionInv, Reboot
  PROVE  DeductionInv'
<1>0. Typed /\ Balanced
  BY Zenon DEF DeductionInv
<1>1. /\ unsure' = [u \in Uids |-> unsure[u] + Landed(u)]
      /\ UNCHANGED <<nvs, weight, format, reader, stored, taken, dropped, crossed>>
  BY DEF Reboot, durable
<1>2. Afresh'
  BY DEF Reboot, Afresh, Blank, NoPatch
<1>3. /\ claims' \in [Uids -> Owned \cup {NoClaim}] /\ cur' \in Copies /\ ot3d' \in Patches
      /\ writeQ' \in Seq(Writes) /\ Len(writeQ') <= QUEUE_DEPTH
      /\ appQ' \in Seq(Messages) /\ Len(appQ') <= APP_QUEUE
      /\ report' \in Results \cup {NoReport} /\ task' \in [Tasks -> Places]
      /\ ClaimsStand' /\ InFlightOnce' /\ Owners' /\ Known' /\ AmountsDue'
      /\ \A u \in Uids : Landed(u)' = 0 /\ Gap(u)' = 0
  <2>1. Standing'
    BY <1>2, AfreshStands, PTL
  <2> QED BY <2>1 DEF Standing
<1>4. \A u \in Uids : Entries(u)
  BY EntriesTyped
<1>5. unsure' \in Totals
  BY <1>1, <1>4 DEF Totals, Entries
<1>6. Typed'
  BY <1>0, <1>1, <1>3, <1>5, Zenon DEF Typed
<1>7. ASSUME NEW u \in Uids, u \notin crossed
      PROVE  Books(u)'
  <2>1. Books(u) /\ Entries(u) /\ unsure'[u] = unsure[u] + Landed(u)
    BY <1>0, <1>1, <1>4, <1>7 DEF Balanced
  <2>2. Landed(u)' = 0 /\ Gap(u)' = 0
    BY <1>3
  <2>3. UNCHANGED <<nvs[u], stored[u], taken[u], dropped[u]>>
    BY <1>1
  <2> QED BY <2>1, <2>2, <2>3 DEF Books, Entries
<1>8. Balanced'
  BY <1>0, <1>1, <1>7 DEF Balanced
<1> QED BY <1>3, <1>6, <1>8 DEF DeductionInv

LEMMA StutterKeeps ==
  ASSUME DeductionInv, UNCHANGED managerVars
  PROVE  DeductionInv'
<1>1. Typed /\ Len(appQ) <= APP_QUEUE
  BY Zenon DEF DeductionInv, Typed
<1>2. Quiet /\ UNCHANGED <<crossed, cur, ot3d, appQ, task, reader>>
  BY DEF managerVars, vars, durable, nfc, ledger, Quiet
<1> QED BY <1>1, <1>2, SameKnown, SameWork, QuietSteps, CopyTyped DEF Quiet

LEMMA NextStands ==
  ASSUME DeductionInv, [ManagerNext]_managerVars
  PROVE  DeductionInv'
<1>1. CASE \/ \E u \in Uids : PlaceTag(u)
           \/ TakeTag \/ ReadTag \/ ReadTagFails \/ TagAbsent
  BY <1>1, TagsKeep
<1>2. CASE \E u \in Uids, g \in Grams : Deduct(u, g) \/ DeductTray(u, g)
  BY <1>2, DeductKeeps
<1>3. CASE CheckReader
  BY <1>3, TasksKeep
<1>4. CASE HandleMessage
  <2>1. CASE Head(appQ).type = "updated"
    BY <1>4, <2>1, ResultsKeep
  <2>2. CASE Head(appQ).type # "updated"
    <3>1. UNCHANGED <<claims, nvs>>
      BY <1>4, <2>2 DEF HandleMessage, vars
    <3> QED BY <1>4, <2>2, <3>1, TasksKeep
  <2> QED BY <2>1, <2>2
<1>5. CASE \E t \in Tasks : TaskStep(t)
  BY <1>5, TaskStepKeeps
<1>6. CASE ProcessWrite
  BY <1>6, WriteKeeps
<1>7. CASE DeliverResult
  BY <1>7, ResultsKeep
<1>8. CASE Reboot
  BY <1>8, RebootKeeps
<1>9. CASE UNCHANGED managerVars
  BY <1>9, StutterKeeps
<1> QED BY <1>1, <1>2, <1>3, <1>4, <1>5, <1>6, <1>7, <1>8, <1>9 DEF ManagerNext

\* Each claim stands on its own write or task, each write on its claim, what is known of the
\* tags is known in excess, and the books of each tag balance: whatever the manager, the NFC
\* task, the queues and a power loss do.
THEOREM DeductionInvariant == ManagerSpec => []DeductionInv
<1>1. ManagerInit => DeductionInv
  BY StartStands
<1>2. DeductionInv /\ [ManagerNext]_managerVars => DeductionInv'
  BY NextStands
<1> QED BY <1>1, <1>2, PTL DEF ManagerSpec

LEMMA InvariantTypes ==
  ASSUME DeductionInv
  PROVE  ManagerTypeOK
<1>0. Typed /\ ClaimsStand /\ Balanced
  BY Zenon DEF DeductionInv
<1>1. Len(writeQ) <= QUEUE_DEPTH /\ Len(appQ) <= APP_QUEUE /\ nvs \in Totals
      /\ claims \in [Uids -> Owned \cup {NoClaim}]
  BY <1>0, Zenon DEF Typed
<1>2. ASSUME NEW u \in Uids
      PROVE  nvs[u] \in 0 .. MaxStored
  <2>1. nvs[u] \in Nat /\ stored[u] \in Nat /\ nvs[u] <= stored[u] /\ stored[u] <= MaxStored
    BY <1>0, TotalTyped DEF Balanced
  <2> QED BY <2>1, BoundAssumption
<1>3. ASSUME NEW u \in Uids, claims[u] # NoClaim
      PROVE  claims[u] \in Claims /\ claims[u].state \in {"Bound", "Immediate"}
  <2>1. claims[u] \in Owned
    BY <1>0, <1>3, ClaimTyped
  <2>2. claims[u].grams \in 1 .. nvs[u] /\ nvs[u] \in 0 .. MaxStored
    BY <1>0, <1>2, <1>3 DEF ClaimsStand
  <2>3. claims[u].grams \in 1 .. MaxStored
    BY <2>2, BoundAssumption
  <2>4. claims[u].grams \in Grams
    BY <2>3, BoundAssumption
  <2> QED BY <2>1, <2>4 DEF Owned, Claims
<1> QED BY <1>1, <1>2, <1>3 DEF ManagerTypeOK, Claimed, Totals

\* Every claim is bound or a task's own, pending grams and queues stay within their bounds.
THEOREM ManagerTypeCorrect == ManagerSpec => []ManagerTypeOK
<1>1. DeductionInv => ManagerTypeOK
  BY InvariantTypes
<1> QED BY <1>1, DeductionInvariant, PTL

\* A request has one place in the flight, so it counts once.
LEMMA InFlightCounted ==
  ASSUME DeductionInv, NEW id \in RequestIds, Queued(id) \/ Posted(id) \/ Reported(id)
  PROVE  InFlight(id) = 1
<1> DEFINE queued == {i \in 1 .. Len(writeQ) : writeQ[i].id = id}
           posted == {i \in 1 .. Len(appQ) : appQ[i].type = "updated" /\ appQ[i].id = id}
<1>0. InFlightOnce /\ PostedOnce
  BY Zenon DEF DeductionInv, InFlightOnce
<1>1. Cardinality(queued) = IF Queued(id) THEN 1 ELSE 0
  <2>1. CASE Queued(id)
    <3>1. PICK i \in 1 .. Len(writeQ) : writeQ[i].id = id
      BY <2>1 DEF Queued
    <3>2. queued = {i}
      BY <1>0, <3>1 DEF InFlightOnce
    <3> QED BY <2>1, <3>2, FS_Singleton
  <2>2. CASE ~Queued(id)
    <3>1. queued = {}
      BY <2>2 DEF Queued
    <3> QED BY <2>2, <3>1, FS_EmptySet
  <2> QED BY <2>1, <2>2
<1>2. Cardinality(posted) = IF Posted(id) THEN 1 ELSE 0
  <2>1. CASE Posted(id)
    <3>1. PICK i \in 1 .. Len(appQ) : appQ[i].type = "updated" /\ appQ[i].id = id
      BY <2>1 DEF Posted
    <3>2. posted = {i}
      BY <1>0, <3>1 DEF PostedOnce
    <3> QED BY <2>1, <3>2, FS_Singleton
  <2>2. CASE ~Posted(id)
    <3>1. posted = {}
      BY <2>2 DEF Posted
    <3> QED BY <2>2, <3>1, FS_EmptySet
  <2> QED BY <2>1, <2>2
<1>3. InFlight(id) = Cardinality(queued) + Cardinality(posted) + (IF Reported(id) THEN 1 ELSE 0)
  BY DEF InFlight, Reported
<1>4. /\ ~(Queued(id) /\ Posted(id))
      /\ ~(Queued(id) /\ Reported(id))
      /\ ~(Posted(id) /\ Reported(id))
  BY <1>0 DEF InFlightOnce
<1> HIDE DEF queued, posted
<1> QED BY <1>1, <1>2, <1>3, <1>4

LEMMA InvariantOwns ==
  ASSUME DeductionInv
  PROVE  EveryClaimHasAnOwner
<1>0. Typed /\ ClaimsStand /\ Owners
  BY Zenon DEF DeductionInv
<1> SUFFICES ASSUME NEW u \in Uids, claims[u] # NoClaim
             PROVE  IF claims[u].state = "Bound" THEN InFlight(claims[u].id) = 1
                    ELSE Cardinality({t \in Tasks :
                             task[t].pc \in {"spoolman", "accepted", "refused", "unavailable"}
                             /\ task[t].uid = u}) = 1
  BY DEF EveryClaimHasAnOwner, Claimed
<1>1. CASE claims[u].state = "Bound"
  <2>1. claims[u].id \in RequestIds
    BY <1>0, <1>1 DEF ClaimsStand
  <2>2. Queued(claims[u].id) \/ Posted(claims[u].id) \/ Reported(claims[u].id)
    BY <1>0, <1>1 DEF Owners
  <2> QED BY <1>1, <2>1, <2>2, InFlightCounted
<1>2. CASE claims[u].state # "Bound"
  <2>1. claims[u].state = "Immediate"
    BY <1>0, <1>2, ClaimTyped
  <2>2. PICK t \in Tasks : task[t].pc \in Working /\ task[t].uid = u
    BY <1>0, <2>1 DEF Owners
  <2>3. {s \in Tasks : task[s].pc \in {"spoolman", "accepted", "refused", "unavailable"}
                       /\ task[s].uid = u} = {t}
    BY <1>0, <2>2 DEF Owners, Working
  <2> QED BY <1>2, <2>3, FS_Singleton
<1> QED BY <1>1, <1>2

\* A bound claim has one write or result in flight, an immediate claim one task: no deduction
\* is stranded, none is ended twice.
THEOREM ClaimsOwned == ManagerSpec => []EveryClaimHasAnOwner
<1>1. DeductionInv => EveryClaimHasAnOwner
  BY InvariantOwns
<1> QED BY <1>1, DeductionInvariant, PTL

LEMMA InvariantBalances ==
  ASSUME DeductionInv
  PROVE  NeverLost /\ NeverTwice
<1> SUFFICES ASSUME NEW u \in Uids \ crossed
             PROVE  /\ stored[u] + Landed(u) <= nvs[u] + taken[u] + dropped[u]
                    /\ nvs[u] + taken[u] + dropped[u] <= stored[u] + Landed(u) + unsure[u]
  BY Zenon DEF NeverLost, NeverTwice
<1>1. Books(u) /\ Entries(u)
  BY EntriesTyped DEF DeductionInv, Balanced
<1> QED BY <1>1 DEF Books, Entries

\* Every gram stored is pending, absorbed or dropped by policy, through failed writes, full
\* queues and power losses.
THEOREM NothingLost == ManagerSpec => []NeverLost
<1>1. DeductionInv => NeverLost
  BY InvariantBalances
<1> QED BY <1>1, DeductionInvariant, PTL

\* No gram is taken twice, but for effects that landed and were never known of.
THEOREM NothingTwice == ManagerSpec => []NeverTwice
<1>1. DeductionInv => NeverTwice
  BY InvariantBalances
<1> QED BY <1>1, DeductionInvariant, PTL

-----------------------------------------------------------------------------
(* The claims of the manager are claims of the table *)

\* What the manager does to the claims: the steps that the claim table promises, claim() and
\* bind() in one lock hold (Open, then Attach of an id no claim carries), and a power loss
\* that leaves the empty table.
ClaimAndBind(u, g, id) ==
  /\ claims[u] = NoClaim /\ Cardinality(Claimed) < CAPACITY
  /\ \A v \in Claimed : claims[v].id # id
  /\ claims' = [claims EXCEPT ![u] = [state |-> "Bound", grams |-> g, id |-> id]]
  /\ UNCHANGED lastSettledUid

ClaimStep ==
  \/ Next
  \/ \E u \in Uids, g \in Grams, id \in RequestIds : ClaimAndBind(u, g, id)
  \/ Init'

\* The grams of a new claim are a snapshot that a claim can carry.
LEMMA PendingCarried ==
  ASSUME DeductionInv, NEW u \in Uids, nvs[u] > 0
  PROVE  nvs[u] \in Grams
<1>1. ManagerTypeOK
  BY InvariantTypes
<1>2. nvs[u] \in 1 .. MaxStored
  BY <1>1, BoundAssumption DEF ManagerTypeOK
<1> QED BY <1>2, BoundAssumption

LEMMA ImmediateOpens ==
  ASSUME DeductionInv, NEW u \in Uids, CanClaim(u), UNCHANGED lastSettledUid,
         claims' = [claims EXCEPT ![u] =
           [state |-> "Immediate", grams |-> nvs[u], id |-> NoRequest]]
  PROVE  Next
<1>1. nvs[u] \in Grams
  BY PendingCarried DEF CanClaim
<1>2. Open(u, nvs[u], "Immediate")
  BY Zenon DEF Open, CanClaim
<1> QED BY <1>1, <1>2 DEF Next

LEMMA QueuedOpens ==
  ASSUME DeductionInv, NEW t \in Tasks, task[t].uid \in Uids, CanClaim(task[t].uid),
         NEW w, ClaimAndQueue(t, w)
  PROVE  ClaimStep
<1> PICK u \in Uids : u = task[t].uid
  OBVIOUS
<1>1. nvs[u] \in Grams
  BY PendingCarried DEF CanClaim
<1>2. NewId \in RequestIds /\ \A v \in Claimed : claims[v].id # NewId
  BY FreshId DEF CanClaim
<1>3. ClaimAndBind(u, nvs[u], NewId)
  BY <1>2, Zenon DEF ClaimAndBind, ClaimAndQueue, CanClaim
<1> QED BY <1>1, <1>2, <1>3 DEF ClaimStep

LEMMA ResultSettles ==
  ASSUME NEW id, NEW ok, HandleWriteResult(id, ok)
  PROVE  [ClaimStep]_vars
<1>1. CASE UNCHANGED vars
  BY <1>1
<1>2. CASE \E u \in Claimed : Settle(u)
  BY <1>2 DEF Claimed, Next, ClaimStep
<1> QED BY <1>1, <1>2, Zenon DEF HandleWriteResult

LEMMA TaskClaims ==
  ASSUME DeductionInv, NEW t \in Tasks, TaskStep(t)
  PROVE  [ClaimStep]_vars
<1>0. Typed
  BY Zenon DEF DeductionInv
<1>1. CASE ApplySkipped(t) \/ SpoolmanDeduct(t)
  BY <1>1 DEF ApplySkipped, SpoolmanDeduct
<1>2. CASE At(t, "apply") /\ CanClaim(task[t].uid)
  <2>1. task[t].uid \in Uids
    BY <1>0, <1>2, TaskTyped DEF At
  <2>2. CASE ApplyImmediate(t)
    BY <1>2, <2>1, <2>2, ImmediateOpens DEF ApplyImmediate, ClaimStep
  <2>3. CASE ApplyOpenPrintTag(t)
    <3>1. UNCHANGED vars \/ \E w : ClaimAndQueue(t, w)
      BY <2>3 DEF ApplyOpenPrintTag
    <3> QED BY <1>2, <2>1, <3>1, QueuedOpens
  <2>4. CASE ApplyOpenTag3D(t)
    <3>1. \/ UNCHANGED vars \/ \E w : ClaimAndQueue(t, w)
          \/ /\ claims' = [claims EXCEPT ![task[t].uid] =
                  [state |-> "Immediate", grams |-> nvs[task[t].uid], id |-> NoRequest]]
             /\ UNCHANGED lastSettledUid
      BY <2>4 DEF ApplyOpenTag3D
    <3> QED BY <1>2, <2>1, <3>1, QueuedOpens, ImmediateOpens DEF ClaimStep
  <2>5. CASE ApplySkipped(t) \/ SpoolmanDeduct(t) \/ SettleSync(t)
    BY <1>2, <2>5 DEF ApplySkipped, SpoolmanDeduct, SettleSync, At
  <2> QED BY <2>2, <2>3, <2>4, <2>5 DEF TaskStep
<1>3. CASE SettleSync(t)
  <2>1. task[t].uid \in Uids
    BY <1>3, TaskAlone DEF SettleSync, Working
  <2>2. Settle(task[t].uid)
    BY <1>3 DEF SettleSync
  <2> QED BY <2>1, <2>2 DEF Next, ClaimStep
<1>4. CASE ApplyImmediate(t) \/ ApplyOpenPrintTag(t) \/ ApplyOpenTag3D(t)
  BY <1>2, <1>4 DEF ApplyImmediate, ApplyOpenPrintTag, ApplyOpenTag3D
<1> QED BY <1>1, <1>3, <1>4 DEF TaskStep

LEMMA NextClaims ==
  ASSUME DeductionInv, [ManagerNext]_managerVars
  PROVE  [ClaimStep]_vars
<1>1. CASE \/ \E u \in Uids : PlaceTag(u)
           \/ TakeTag \/ ReadTag \/ ReadTagFails \/ TagAbsent
           \/ \E u \in Uids, g \in Grams : Deduct(u, g) \/ DeductTray(u, g)
           \/ CheckReader \/ ProcessWrite
  BY <1>1 DEF PlaceTag, TakeTag, ReadTag, ReadTagFails, TagAbsent, Deduct, DeductTray,
              CheckReader, ProcessWrite
<1>2. CASE HandleMessage \/ DeliverResult
  <2>1. UNCHANGED vars \/ \E id, ok : HandleWriteResult(id, ok)
    BY <1>2 DEF HandleMessage, DeliverResult
  <2> QED BY <2>1, ResultSettles
<1>3. CASE \E t \in Tasks : TaskStep(t)
  BY <1>3, TaskClaims
<1>4. CASE Reboot
  BY <1>4 DEF Reboot, Init, ClaimStep
<1>5. CASE UNCHANGED managerVars
  BY <1>5 DEF managerVars
<1> QED BY <1>1, <1>2, <1>3, <1>4, <1>5 DEF ManagerNext

\* The manager keeps to what the claim table promises: it opens a claim only where there is none
\* and room, binds it to an id of its own, and ends only bound and immediate claims.
THEOREM ManagerKeepsToClaims == ManagerSpec => Init /\ [][ClaimStep]_vars
<1>1. ManagerInit => Init
  BY DEF ManagerInit
<1>2. DeductionInv /\ [ManagerNext]_managerVars => [ClaimStep]_vars
  BY NextClaims
<1> QED BY <1>1, <1>2, DeductionInvariant, PTL DEF ManagerSpec
=============================================================================
