-------------------------- MODULE NFCManager_proofs --------------------------
(***************************************************************************)
(* The two specifications of what NFCManager's scan task shares with the   *)
(* others, for all their constants.                                        *)
(*                                                                         *)
(* RawWriteSlot is safe for every number of producers and every depth of   *)
(* the write queue.  The claims of the specification are conjuncts of one  *)
(* inductive invariant, SlotInv; what makes it inductive is OneRequest     *)
(* (the request staged last is in exactly one pair of hands) together with *)
(* StateGuards and Contents (what state_ promises about the payload).      *)
(*                                                                         *)
(* ScanLoop is safe for any set of tags, any UIDs that the cooldown        *)
(* confuses, any threshold of misses and any number of writes and RF       *)
(* faults: types, that a write reaches the tag it was queued for, and that *)
(* a removal is announced only after MISSES misses in a row.               *)
(***************************************************************************)
EXTENDS RawWriteSlot, ScanLoop, TLAPS

-----------------------------------------------------------------------------
(* RawWriteSlot *)

\* The empty slot satisfies the invariant.
LEMMA SlotInitial ==
  ASSUME SlotInit
  PROVE  SlotInv
<1> USE DEF SlotInit, Threads
<1>1. SlotTypeOK
  <2>1. writeQ \in Seq(RequestIds \cup {NoRequest}) /\ Len(writeQ) <= QUEUE_DEPTH
    BY QueueAssumption
  <2> QED
    BY <2>1 DEF SlotTypeOK
<1>2. Exclusive /\ StateGuards /\ Contents /\ PayloadIntact /\ NeverWedged
  BY DEF Exclusive, StateGuards, Contents, PayloadIntact, NeverWedged, Inside
<1>3. OneRequest
  BY DEF OneRequest, Asking
<1>4. Roles
  BY TaskAssumption DEF Roles
<1> QED
  BY <1>1, <1>2, <1>3, <1>4 DEF SlotInv
-----------------------------------------------------------------------------
(* Every action keeps it *)

\* The compare-and-swap: the slot was Empty, so no task is inside it.
LEMMA StageBeginKeeps ==
  ASSUME SlotInv, NEW p \in Producers, StageBegin(p)
  PROVE  SlotInv'
<1> USE TaskAssumption, RequestAssumption, QueueAssumption
    DEF StageBegin, slot, Threads, At, Runs, Goto, SlotInv
<1>1. (SlotTypeOK /\ Roles)'
  BY DEF SlotTypeOK, Roles, Inside, Asking
<1>2. (Exclusive /\ StateGuards)'
  BY DEF Exclusive, StateGuards, Inside, SlotTypeOK
<1>3. (Contents /\ PayloadIntact)'
  BY DEF Contents, PayloadIntact, Exclusive, StateGuards, Inside, SlotTypeOK, OneRequest, Asking, Roles
<1>4. OneRequest'
  BY DEF OneRequest, Asking, StateGuards, Inside, SlotTypeOK, Contents, Roles, Exclusive
<1>5. NeverWedged'
  BY DEF NeverWedged, OneRequest, Asking, SlotTypeOK, StateGuards, Inside, Contents, Roles
<1> QED
  BY <1>1, <1>2, <1>3, <1>4, <1>5

\* StageCopy keeps the invariant.
LEMMA StageCopyKeeps ==
  ASSUME SlotInv, NEW p \in Producers, StageCopy(p)
  PROVE  SlotInv'
<1> USE TaskAssumption, RequestAssumption, QueueAssumption
    DEF StageCopy, slot, Threads, At, Runs, Goto, SlotInv
<1>1. (SlotTypeOK /\ Roles)'
  BY DEF SlotTypeOK, Roles, Inside, Asking
<1>2. (Exclusive /\ StateGuards)'
  BY DEF Exclusive, StateGuards, Inside, SlotTypeOK
<1>3. (Contents /\ PayloadIntact)'
  BY DEF Contents, PayloadIntact, Exclusive, StateGuards, Inside, SlotTypeOK, OneRequest, Asking, Roles
<1>4. OneRequest'
  BY DEF OneRequest, Asking, StateGuards, Inside, SlotTypeOK, Contents, Roles, Exclusive
<1>5. NeverWedged'
  BY DEF NeverWedged, OneRequest, Asking, SlotTypeOK, StateGuards, Inside, Contents, Roles
<1> QED
  BY <1>1, <1>2, <1>3, <1>4, <1>5

\* StageSign keeps the invariant.
LEMMA StageSignKeeps ==
  ASSUME SlotInv, NEW p \in Producers, StageSign(p)
  PROVE  SlotInv'
<1> USE TaskAssumption, RequestAssumption, QueueAssumption
    DEF StageSign, slot, Threads, At, Runs, Goto, SlotInv
<1>1. (SlotTypeOK /\ Roles)'
  BY DEF SlotTypeOK, Roles, Inside, Asking
<1>2. (Exclusive /\ StateGuards)'
  BY DEF Exclusive, StateGuards, Inside, SlotTypeOK
<1>3. (Contents /\ PayloadIntact)'
  BY DEF Contents, PayloadIntact, Exclusive, StateGuards, Inside, SlotTypeOK, OneRequest, Asking, Roles
<1>4. OneRequest'
  BY DEF OneRequest, Asking, StateGuards, Inside, SlotTypeOK, Contents, Roles, Exclusive
<1>5. NeverWedged'
  BY DEF NeverWedged, OneRequest, Asking, SlotTypeOK, StateGuards, Inside, Contents, Roles
<1> QED
  BY <1>1, <1>2, <1>3, <1>4, <1>5

\* StagePublish keeps the invariant.
LEMMA StagePublishKeeps ==
  ASSUME SlotInv, NEW p \in Producers, StagePublish(p)
  PROVE  SlotInv'
<1> USE TaskAssumption, RequestAssumption, QueueAssumption
    DEF StagePublish, slot, Threads, At, Runs, Goto, SlotInv
<1>1. (SlotTypeOK /\ Roles)'
  BY DEF SlotTypeOK, Roles, Inside, Asking
<1>2. (Exclusive /\ StateGuards)'
  BY DEF Exclusive, StateGuards, Inside, SlotTypeOK
<1>3. (Contents /\ PayloadIntact)'
  BY DEF Contents, PayloadIntact, Exclusive, StateGuards, Inside, SlotTypeOK, OneRequest, Asking, Roles
<1>4. OneRequest'
  BY DEF OneRequest, Asking, StateGuards, Inside, SlotTypeOK, Contents, Roles, Exclusive
<1>5. NeverWedged'
  BY DEF NeverWedged, OneRequest, Asking, SlotTypeOK, StateGuards, Inside, Contents, Roles
<1> QED
  BY <1>1, <1>2, <1>3, <1>4, <1>5

\* The request moves from the producer to the tail of the queue, or stays with
\* the producer that now has to take the payload back.
LEMMA EnqueueKeeps ==
  ASSUME SlotInv, NEW p \in Producers, Enqueue(p)
  PROVE  SlotInv'
<1> USE TaskAssumption, RequestAssumption, QueueAssumption
    DEF Enqueue, slot, Threads, At, Runs, Goto, SlotInv
<1>1. (SlotTypeOK /\ Roles)'
  BY DEF SlotTypeOK, Roles, Inside, Asking
<1>2. (Exclusive /\ StateGuards)'
  BY DEF Exclusive, StateGuards, Inside, SlotTypeOK
<1>3. (Contents /\ PayloadIntact)'
  BY DEF Contents, PayloadIntact, Exclusive, StateGuards, Inside, SlotTypeOK, OneRequest, Asking, Roles
<1>4. OneRequest'
  <2>1. CASE Len(writeQ) < QUEUE_DEPTH
    <3>1. /\ writeQ' = Append(writeQ, req[p])
          /\ writeQ \in Seq(RequestIds \cup {NoRequest})
          /\ req[p] \in RequestIds \cup {NoRequest}
          /\ pc' = [pc EXCEPT ![p] = "idle"]
      BY <2>1 DEF SlotTypeOK
    <3>2. \A i \in DOMAIN writeQ' :
             \/ i \in DOMAIN writeQ /\ writeQ'[i] = writeQ[i]
             \/ i = Len(writeQ) + 1 /\ i \notin DOMAIN writeQ /\ writeQ'[i] = req[p]
      BY <3>1
    <3>3. ~scanGone => \A i \in DOMAIN writeQ : writeQ[i] = NoRequest
      BY DEF OneRequest, Asking
    <3>4. ~scanGone => state = "Ready" /\ owner = req[p]
      BY DEF OneRequest, Asking
    <3>5. ~scanGone => \A t \in Threads : pc'[t] \notin Asking
      BY <3>1 DEF OneRequest, Asking, SlotTypeOK
    <3>6. ~scanGone => \A t \in Threads : pc'[t] = "check" => owner = req[t]
      BY <3>1 DEF OneRequest, SlotTypeOK
    <3> QED
      BY <3>2, <3>3, <3>4, <3>5, <3>6 DEF OneRequest
  <2>2. CASE ~(Len(writeQ) < QUEUE_DEPTH)
    BY <2>2 DEF OneRequest, Asking, SlotTypeOK
  <2> QED
    BY <2>1, <2>2
<1>5. NeverWedged'
  <2>1. CASE Len(writeQ) < QUEUE_DEPTH
    <3>1. /\ Len(writeQ) + 1 \in DOMAIN writeQ'
          /\ writeQ'[Len(writeQ) + 1] = req[p]
      BY <2>1 DEF SlotTypeOK
    <3>2. owner' = req[p] \/ scanGone'
      BY DEF OneRequest, Asking
    <3> QED
      BY <3>1, <3>2 DEF NeverWedged
  <2>2. CASE ~(Len(writeQ) < QUEUE_DEPTH)
    BY <2>2 DEF NeverWedged, Asking, SlotTypeOK, OneRequest
  <2> QED
    BY <2>1, <2>2
<1> QED
  BY <1>1, <1>2, <1>3, <1>4, <1>5

\* EnqueuePlain keeps the invariant.
LEMMA EnqueuePlainKeeps ==
  ASSUME SlotInv, NEW p \in Producers, EnqueuePlain(p)
  PROVE  SlotInv'
<1> USE TaskAssumption, RequestAssumption, QueueAssumption
    DEF EnqueuePlain, slot, Threads, At, Runs, Goto, SlotInv
<1>1. (SlotTypeOK /\ Roles)'
  BY DEF SlotTypeOK, Roles, Inside, Asking
<1>2. (Exclusive /\ StateGuards)'
  BY DEF Exclusive, StateGuards, Inside, SlotTypeOK
<1>3. (Contents /\ PayloadIntact)'
  BY DEF Contents, PayloadIntact, Exclusive, StateGuards, Inside, SlotTypeOK, OneRequest, Asking, Roles
<1>4. OneRequest'
  BY DEF OneRequest, Asking, StateGuards, Inside, SlotTypeOK, Contents, Roles, Exclusive
<1>5. NeverWedged'
  BY DEF NeverWedged, OneRequest, Asking, SlotTypeOK, StateGuards, Inside, Contents, Roles
<1> QED
  BY <1>1, <1>2, <1>3, <1>4, <1>5

\* The request moves from the head of the queue to the scan task.
LEMMA DequeueKeeps ==
  ASSUME SlotInv, Dequeue
  PROVE  SlotInv'
<1> USE TaskAssumption, RequestAssumption, QueueAssumption
    DEF Dequeue, slot, Threads, At, Runs, Goto, SlotInv
<1>1. (SlotTypeOK /\ Roles)'
  BY DEF SlotTypeOK, Roles, Inside, Asking
<1>2. (Exclusive /\ StateGuards)'
  BY DEF Exclusive, StateGuards, Inside, SlotTypeOK
<1>3. (Contents /\ PayloadIntact)'
  BY DEF Contents, PayloadIntact, Exclusive, StateGuards, Inside, SlotTypeOK, OneRequest, Asking, Roles
<1>4. OneRequest'
  BY DEF OneRequest, Asking, StateGuards, Inside, SlotTypeOK, Contents, Roles, Exclusive
<1>5. NeverWedged'
  <2>1. SUFFICES ASSUME state = "Ready", ~scanGone
                 PROVE  \/ \E t \in Threads : pc'[t] \in Asking /\ req'[t] = owner
                        \/ \E i \in DOMAIN writeQ' : writeQ'[i] = owner
    BY DEF NeverWedged
  <2>2. owner # NoRequest
    BY <2>1 DEF Contents
  <2>3. CASE \E t \in Threads : pc[t] \in Asking /\ req[t] = owner
    <3>1. PICK t \in Threads : pc[t] \in Asking /\ req[t] = owner
      BY <2>3
    <3>2. Head(writeQ) = NoRequest
      BY <2>1, <3>1 DEF OneRequest, SlotTypeOK
    <3> QED
      BY <3>1, <3>2
  <2>4. CASE \E i \in DOMAIN writeQ : writeQ[i] = owner
    <3>1. PICK i \in DOMAIN writeQ : writeQ[i] = owner
      BY <2>4
    <3>2. CASE i = 1
      <4>1. Head(writeQ) = owner
        BY <3>1, <3>2 DEF SlotTypeOK
      <4>2. pc'[Scan] \in Asking /\ req'[Scan] = owner
        BY <2>2, <4>1 DEF SlotTypeOK, Asking
      <4> QED
        BY <4>2
    <3>3. CASE i # 1
      <4>1. i - 1 \in DOMAIN writeQ' /\ writeQ'[i - 1] = owner
        BY <3>1, <3>3 DEF SlotTypeOK
      <4> QED
        BY <4>1
    <3> QED
      BY <3>2, <3>3
  <2> QED
    BY <2>1, <2>3, <2>4 DEF NeverWedged
<1> QED
  BY <1>1, <1>2, <1>3, <1>4, <1>5

\* OwnsState keeps the invariant.
LEMMA OwnsStateKeeps ==
  ASSUME SlotInv, OwnsState
  PROVE  SlotInv'
<1> USE TaskAssumption, RequestAssumption, QueueAssumption
    DEF OwnsState, slot, Threads, At, Runs, Goto, SlotInv
<1>1. (SlotTypeOK /\ Roles)'
  BY DEF SlotTypeOK, Roles, Inside, Asking
<1>2. (Exclusive /\ StateGuards)'
  BY DEF Exclusive, StateGuards, Inside, SlotTypeOK
<1>3. (Contents /\ PayloadIntact)'
  BY DEF Contents, PayloadIntact, Exclusive, StateGuards, Inside, SlotTypeOK, OneRequest, Asking, Roles
<1>4. OneRequest'
  BY DEF OneRequest, Asking, StateGuards, Inside, SlotTypeOK, Contents, Roles, Exclusive
<1>5. NeverWedged'
  BY DEF NeverWedged, OneRequest, Asking, SlotTypeOK, StateGuards, Inside, Contents, Roles
<1> QED
  BY <1>1, <1>2, <1>3, <1>4, <1>5

\* OwnsId keeps the invariant.
LEMMA OwnsIdKeeps ==
  ASSUME SlotInv, OwnsId
  PROVE  SlotInv'
<1> USE TaskAssumption, RequestAssumption, QueueAssumption
    DEF OwnsId, slot, Threads, At, Runs, Goto, SlotInv
<1>1. (SlotTypeOK /\ Roles)'
  BY DEF SlotTypeOK, Roles, Inside, Asking
<1>2. (Exclusive /\ StateGuards)'
  BY DEF Exclusive, StateGuards, Inside, SlotTypeOK
<1>3. (Contents /\ PayloadIntact)'
  BY DEF Contents, PayloadIntact, Exclusive, StateGuards, Inside, SlotTypeOK, OneRequest, Asking, Roles
<1>4. OneRequest'
  BY DEF OneRequest, Asking, StateGuards, Inside, SlotTypeOK, Contents, Roles, Exclusive
<1>5. NeverWedged'
  BY DEF NeverWedged, OneRequest, Asking, SlotTypeOK, StateGuards, Inside, Contents, Roles
<1> QED
  BY <1>1, <1>2, <1>3, <1>4, <1>5

\* The compare-and-swap from Ready: no task was inside the slot.
LEMMA TakeKeeps ==
  ASSUME SlotInv, NEW t \in Threads, Take(t)
  PROVE  SlotInv'
<1> USE TaskAssumption, RequestAssumption, QueueAssumption
    DEF Take, slot, Threads, At, Runs, Goto, SlotInv
<1>1. (SlotTypeOK /\ Roles)'
  BY DEF SlotTypeOK, Roles, Inside, Asking
<1>2. (Exclusive /\ StateGuards)'
  BY DEF Exclusive, StateGuards, Inside, SlotTypeOK
<1>3. (Contents /\ PayloadIntact)'
  BY DEF Contents, PayloadIntact, Exclusive, StateGuards, Inside, SlotTypeOK, OneRequest, Asking, Roles
<1>4. OneRequest'
  BY DEF OneRequest, Asking, StateGuards, Inside, SlotTypeOK, Contents, Roles, Exclusive
<1>5. NeverWedged'
  BY DEF NeverWedged, OneRequest, Asking, SlotTypeOK, StateGuards, Inside, Contents, Roles
<1> QED
  BY <1>1, <1>2, <1>3, <1>4, <1>5

\* Check keeps the invariant.
LEMMA CheckKeeps ==
  ASSUME SlotInv, NEW t \in Threads, Check(t)
  PROVE  SlotInv'
<1> USE TaskAssumption, RequestAssumption, QueueAssumption
    DEF Check, slot, Threads, At, Runs, Goto, SlotInv
<1>1. (SlotTypeOK /\ Roles)'
  BY DEF SlotTypeOK, Roles, Inside, Asking
<1>2. (Exclusive /\ StateGuards)'
  BY DEF Exclusive, StateGuards, Inside, SlotTypeOK
<1>3. (Contents /\ PayloadIntact)'
  BY DEF Contents, PayloadIntact, Exclusive, StateGuards, Inside, SlotTypeOK, OneRequest, Asking, Roles
<1>4. OneRequest'
  BY DEF OneRequest, Asking, StateGuards, Inside, SlotTypeOK, Contents, Roles, Exclusive
<1>5. NeverWedged'
  BY DEF NeverWedged, OneRequest, Asking, SlotTypeOK, StateGuards, Inside, Contents, Roles
<1> QED
  BY <1>1, <1>2, <1>3, <1>4, <1>5

\* Read keeps the invariant.
LEMMA ReadKeeps ==
  ASSUME SlotInv, ConsumeRead
  PROVE  SlotInv'
<1> USE TaskAssumption, RequestAssumption, QueueAssumption
    DEF ConsumeRead, slot, Threads, At, Runs, Goto, SlotInv
<1>1. (SlotTypeOK /\ Roles)'
  BY DEF SlotTypeOK, Roles, Inside, Asking
<1>2. (Exclusive /\ StateGuards)'
  BY DEF Exclusive, StateGuards, Inside, SlotTypeOK
<1>3. (Contents /\ PayloadIntact)'
  BY DEF Contents, PayloadIntact, Exclusive, StateGuards, Inside, SlotTypeOK, OneRequest, Asking, Roles
<1>4. OneRequest'
  BY DEF OneRequest, Asking, StateGuards, Inside, SlotTypeOK, Contents, Roles, Exclusive
<1>5. NeverWedged'
  BY DEF NeverWedged, OneRequest, Asking, SlotTypeOK, StateGuards, Inside, Contents, Roles
<1> QED
  BY <1>1, <1>2, <1>3, <1>4, <1>5

\* Clear keeps the invariant.
LEMMA ClearKeeps ==
  ASSUME SlotInv, NEW t \in Threads, Clear(t)
  PROVE  SlotInv'
<1> USE TaskAssumption, RequestAssumption, QueueAssumption
    DEF Clear, slot, Threads, At, Runs, Goto, SlotInv
<1>1. (SlotTypeOK /\ Roles)'
  BY DEF SlotTypeOK, Roles, Inside, Asking
<1>2. (Exclusive /\ StateGuards)'
  BY DEF Exclusive, StateGuards, Inside, SlotTypeOK
<1>3. (Contents /\ PayloadIntact)'
  BY DEF Contents, PayloadIntact, Exclusive, StateGuards, Inside, SlotTypeOK, OneRequest, Asking, Roles
<1>4. OneRequest'
  BY DEF OneRequest, Asking, StateGuards, Inside, SlotTypeOK, Contents, Roles, Exclusive
<1>5. NeverWedged'
  BY DEF NeverWedged, OneRequest, Asking, SlotTypeOK, StateGuards, Inside, Contents, Roles
<1> QED
  BY <1>1, <1>2, <1>3, <1>4, <1>5

\* Unsign keeps the invariant.
LEMMA UnsignKeeps ==
  ASSUME SlotInv, NEW t \in Threads, Unsign(t)
  PROVE  SlotInv'
<1> USE TaskAssumption, RequestAssumption, QueueAssumption
    DEF Unsign, slot, Threads, At, Runs, Goto, SlotInv
<1>1. (SlotTypeOK /\ Roles)'
  BY DEF SlotTypeOK, Roles, Inside, Asking
<1>2. (Exclusive /\ StateGuards)'
  BY DEF Exclusive, StateGuards, Inside, SlotTypeOK
<1>3. (Contents /\ PayloadIntact)'
  BY DEF Contents, PayloadIntact, Exclusive, StateGuards, Inside, SlotTypeOK, OneRequest, Asking, Roles
<1>4. OneRequest'
  BY DEF OneRequest, Asking, StateGuards, Inside, SlotTypeOK, Contents, Roles, Exclusive
<1>5. NeverWedged'
  BY DEF NeverWedged, OneRequest, Asking, SlotTypeOK, StateGuards, Inside, Contents, Roles
<1> QED
  BY <1>1, <1>2, <1>3, <1>4, <1>5

\* Free keeps the invariant.
LEMMA FreeKeeps ==
  ASSUME SlotInv, NEW t \in Threads, Free(t)
  PROVE  SlotInv'
<1> USE TaskAssumption, RequestAssumption, QueueAssumption
    DEF Free, slot, Threads, At, Runs, Goto, SlotInv
<1>1. (SlotTypeOK /\ Roles)'
  BY DEF SlotTypeOK, Roles, Inside, Asking
<1>2. (Exclusive /\ StateGuards)'
  BY DEF Exclusive, StateGuards, Inside, SlotTypeOK
<1>3. (Contents /\ PayloadIntact)'
  BY DEF Contents, PayloadIntact, Exclusive, StateGuards, Inside, SlotTypeOK, OneRequest, Asking, Roles
<1>4. OneRequest'
  BY DEF OneRequest, Asking, StateGuards, Inside, SlotTypeOK, Contents, Roles, Exclusive
<1>5. NeverWedged'
  BY DEF NeverWedged, OneRequest, Asking, SlotTypeOK, StateGuards, Inside, Contents, Roles
<1> QED
  BY <1>1, <1>2, <1>3, <1>4, <1>5

\* StopScan keeps the invariant.
LEMMA StopScanKeeps ==
  ASSUME SlotInv, StopScan
  PROVE  SlotInv'
<1> USE TaskAssumption, RequestAssumption, QueueAssumption
    DEF StopScan, slot, Threads, At, Runs, Goto, SlotInv
<1>1. (SlotTypeOK /\ Roles)'
  BY DEF SlotTypeOK, Roles, Inside, Asking
<1>2. (Exclusive /\ StateGuards)'
  BY DEF Exclusive, StateGuards, Inside, SlotTypeOK
<1>3. (Contents /\ PayloadIntact)'
  BY DEF Contents, PayloadIntact, Exclusive, StateGuards, Inside, SlotTypeOK, OneRequest, Asking, Roles
<1>4. OneRequest'
  BY DEF OneRequest, Asking, StateGuards, Inside, SlotTypeOK, Contents, Roles, Exclusive
<1>5. NeverWedged'
  BY DEF NeverWedged, OneRequest, Asking, SlotTypeOK, StateGuards, Inside, Contents, Roles
<1> QED
  BY <1>1, <1>2, <1>3, <1>4, <1>5

\* TakeAny keeps the invariant.
LEMMA TakeAnyKeeps ==
  ASSUME SlotInv, TakeAny
  PROVE  SlotInv'
<1> USE TaskAssumption, RequestAssumption, QueueAssumption
    DEF TakeAny, slot, Threads, At, Runs, Goto, SlotInv
<1>1. (SlotTypeOK /\ Roles)'
  BY DEF SlotTypeOK, Roles, Inside, Asking
<1>2. (Exclusive /\ StateGuards)'
  BY DEF Exclusive, StateGuards, Inside, SlotTypeOK
<1>3. (Contents /\ PayloadIntact)'
  BY DEF Contents, PayloadIntact, Exclusive, StateGuards, Inside, SlotTypeOK, OneRequest, Asking, Roles
<1>4. OneRequest'
  BY DEF OneRequest, Asking, StateGuards, Inside, SlotTypeOK, Contents, Roles, Exclusive
<1>5. NeverWedged'
  BY DEF NeverWedged, OneRequest, Asking, SlotTypeOK, StateGuards, Inside, Contents, Roles
<1> QED
  BY <1>1, <1>2, <1>3, <1>4, <1>5

\* Drain keeps the invariant.
LEMMA DrainKeeps ==
  ASSUME SlotInv, Drain
  PROVE  SlotInv'
<1> USE TaskAssumption, RequestAssumption, QueueAssumption
    DEF Drain, slot, Threads, At, Runs, Goto, SlotInv
<1>1. (SlotTypeOK /\ Roles)'
  BY DEF SlotTypeOK, Roles, Inside, Asking
<1>2. (Exclusive /\ StateGuards)'
  BY DEF Exclusive, StateGuards, Inside, SlotTypeOK
<1>3. (Contents /\ PayloadIntact)'
  BY DEF Contents, PayloadIntact, Exclusive, StateGuards, Inside, SlotTypeOK, OneRequest, Asking, Roles
<1>4. OneRequest'
  BY DEF OneRequest, Asking, StateGuards, Inside, SlotTypeOK, Contents, Roles, Exclusive
<1>5. NeverWedged'
  BY DEF NeverWedged, OneRequest, Asking, SlotTypeOK, StateGuards, Inside, Contents, Roles
<1> QED
  BY <1>1, <1>2, <1>3, <1>4, <1>5
-----------------------------------------------------------------------------
(* The theorems *)

\* The invariant is inductive: no interleaving of stage(), enqueueRawWrite(),
\* consume(), release(), releaseAny() and the queue breaks it.
THEOREM SlotInvariant == SlotSpec => []SlotInv
<1>1. SlotInit => SlotInv
  BY SlotInitial
<1>2. SlotInv /\ [SlotNext]_slotVars => SlotInv'
  <2> SUFFICES ASSUME SlotInv, [SlotNext]_slotVars
               PROVE  SlotInv'
    OBVIOUS
  <2>1. ASSUME NEW p \in Producers,
               \/ StageBegin(p) \/ StageCopy(p) \/ StageSign(p) \/ StagePublish(p)
               \/ Enqueue(p) \/ EnqueuePlain(p)
        PROVE  SlotInv'
    BY <2>1, StageBeginKeeps, StageCopyKeeps, StageSignKeeps, StagePublishKeeps,
       EnqueueKeeps, EnqueuePlainKeeps
  <2>2. ASSUME Dequeue \/ OwnsState \/ OwnsId \/ ConsumeRead
        PROVE  SlotInv'
    BY <2>2, DequeueKeeps, OwnsStateKeeps, OwnsIdKeeps, ReadKeeps
  <2>3. ASSUME NEW t \in Threads, ReleaseSteps(t)
        PROVE  SlotInv'
    BY <2>3, TakeKeeps, CheckKeeps, ClearKeeps, UnsignKeeps, FreeKeeps DEF ReleaseSteps
  <2>4. ASSUME StopScan \/ TakeAny \/ Drain
        PROVE  SlotInv'
    BY <2>4, StopScanKeeps, TakeAnyKeeps, DrainKeeps
  <2>5. CASE UNCHANGED slotVars
    BY <2>5 DEF slotVars, slot, SlotInv, SlotTypeOK, Exclusive, StateGuards, Contents,
            PayloadIntact, OneRequest, Roles, NeverWedged
  <2> QED
    BY <2>1, <2>2, <2>3, <2>4, <2>5 DEF SlotNext
<1> QED
  BY <1>1, <1>2, PTL DEF SlotSpec

\* Every variable keeps its type and the queue its depth.
THEOREM SlotTyped == SlotSpec => []SlotTypeOK
<1>1. SlotInv => SlotTypeOK
  BY DEF SlotInv
<1> QED
  BY <1>1, SlotInvariant, PTL

\* No two tasks are between winning the slot and giving it up: the payload and
\* its owner need no lock.
THEOREM SlotExclusive == SlotSpec => []Exclusive
<1>1. SlotInv => Exclusive
  BY DEF SlotInv
<1> QED
  BY <1>1, SlotInvariant, PTL

\* consume() hands the scan task the payload its request staged.
THEOREM SlotDelivers == SlotSpec => []PayloadIntact
<1>1. SlotInv => PayloadIntact
  BY DEF SlotInv
<1> QED
  BY <1>1, SlotInvariant, PTL

\* A staged payload always has someone left to consume or release it.
THEOREM SlotNeverWedges == SlotSpec => []NeverWedged
<1>1. SlotInv => NeverWedged
  BY DEF SlotInv
<1> QED
  BY <1>1, SlotInvariant, PTL

\* A task that goes for its payload finds it.
THEOREM SlotOwnershipStands == SlotSpec => []OwnershipStands
<1>1. SlotInv => OwnershipStands
  BY DEF SlotInv, OneRequest, OwnershipStands, Asking
<1> QED
  BY <1>1, SlotInvariant, PTL

-----------------------------------------------------------------------------
(* ScanLoop *)

\* A spool that is present, or whose data is valid, has a UID.
SpoolKnown == spool.present \/ spool.valid => spool.uid \in Uids

\* A tag is read in a cycle that selected one.
ReadsATag == step = "read" => selected \in Uids

\* absentMisses_ never runs ahead of the detections missed in a row.
MissesHappened == misses <= silence

ScanInv ==
  ScanTypeOK /\ SpoolKnown /\ ReadsATag /\ MissesHappened

-----------------------------------------------------------------------------
(* Initially *)

LEMMA InitInv == ScanInit => ScanInv
<1> SUFFICES ASSUME ScanInit PROVE ScanInv
  OBVIOUS
<1>1. ScanTypeOK
  <2>1. seenValid \in BOOLEAN /\ fresh \in BOOLEAN /\ forgotten \in BOOLEAN
    BY Zenon DEF ScanInit
  <2>2. spool \in [uid : Uids \cup {NoTag}, present : BOOLEAN, valid : BOOLEAN]
    BY DEF ScanInit
  <2>3. /\ misses \in 0..(MISSES - 1) /\ silence \in 0..MISSES
        /\ writes \in 0..MaxWrites /\ glitches \in 0..MaxGlitches
    BY BoundAssumption DEF ScanInit
  <2>4. queue \in Seq(Requests)
    BY DEF ScanInit
  <2> QED BY <2>1, <2>2, <2>3, <2>4 DEF ScanInit, ScanTypeOK
<1>2. SpoolKnown /\ ReadsATag /\ MissesHappened
  BY DEF ScanInit, SpoolKnown, ReadsATag, MissesHappened
<1> QED BY <1>1, <1>2 DEF ScanInv

-----------------------------------------------------------------------------
(* The other tasks and the world *)

LEMMA OthersKeep ==
  ASSUME ScanInv, MoveTag \/ CooldownEnds \/ EnqueueWrite \/ RequestCurrentSpool
  PROVE  ScanInv' /\ (told' = told)
<1> USE DEF ScanInv, seen, hist, envVars
<1>1. CASE MoveTag
  BY <1>1 DEF MoveTag, ScanTypeOK, SpoolKnown, ReadsATag, MissesHappened
<1>2. CASE CooldownEnds
  <2>1. fresh' \in BOOLEAN
    BY <1>2, Zenon DEF CooldownEnds
  <2> QED BY <1>2, <2>1 DEF CooldownEnds, ScanTypeOK, SpoolKnown, ReadsATag,
              MissesHappened
<1>3. CASE EnqueueWrite
  <2>1. PICK u \in Uids : \E k \in Kinds(u) :
          queue' = Append(queue, [uid |-> u, kind |-> k]) /\ suppress' \in {u, suppress}
    BY <1>3 DEF EnqueueWrite
  <2>2. PICK r \in Requests : queue' = Append(queue, r)
    BY <2>1 DEF Kinds, Requests
  <2>3. queue' \in Seq(Requests)
    BY <2>1, <2>2 DEF ScanTypeOK
  <2>4. writes' \in 0..MaxWrites
    BY <1>3, BoundAssumption DEF EnqueueWrite, ScanTypeOK
  <2>5. ScanTypeOK'
    BY <1>3, <2>1, <2>3, <2>4 DEF EnqueueWrite, ScanTypeOK
  <2> QED BY <1>3, <2>5 DEF EnqueueWrite, SpoolKnown, ReadsATag, MissesHappened
<1>4. CASE RequestCurrentSpool
  <2>1. seenValid' \in BOOLEAN /\ forgotten' \in BOOLEAN
    BY <1>4, Zenon DEF RequestCurrentSpool, Forget
  <2>2. owed' \subseteq Promises
    BY <1>4 DEF RequestCurrentSpool, ScanTypeOK, Promises
  <2>3. ScanTypeOK'
    BY <1>4, <2>1, <2>2 DEF RequestCurrentSpool, ScanTypeOK
  <2> QED BY <1>4, <2>3 DEF RequestCurrentSpool, SpoolKnown, ReadsATag,
                            MissesHappened
<1> QED BY <1>1, <1>2, <1>3, <1>4

-----------------------------------------------------------------------------
(* Detection and reading *)

\* A missed detection is counted by both, up to the threshold.
LEMMA SilenceGrows ==
  ASSUME ScanInv, NothingFound
  PROVE  /\ silence' \in 0..MISSES /\ glitches' \in 0..MaxGlitches
         /\ silence' >= misses
         /\ misses + 1 <= MISSES => silence' >= misses + 1
  BY BoundAssumption DEF NothingFound, ScanInv, ScanTypeOK, MissesHappened

LEMMA DetectionKeeps ==
  ASSUME ScanInv, Detect \/ RfFails \/ Miss \/ Read
  PROVE  ScanInv' /\ (told' = told \/ told' \in Uids)
<1> USE DEF ScanInv, seen, hist, envVars
<1>1. CASE Detect
  BY <1>1, TagAssumption, BoundAssumption
  DEF Detect, ScanTypeOK, SpoolKnown, ReadsATag, MissesHappened
<1>2. CASE RfFails
  <2>1. seenValid' \in BOOLEAN /\ forgotten' \in BOOLEAN
    BY <1>2, Zenon DEF RfFails, Forget
  <2>2. glitches' \in 0..MaxGlitches
    BY <1>2, BoundAssumption DEF RfFails, ScanTypeOK
  <2>3. ScanTypeOK'
    BY <1>2, <2>1, <2>2 DEF RfFails, ScanTypeOK
  <2> QED BY <1>2, <2>3 DEF RfFails, SpoolKnown, ReadsATag, MissesHappened
<1>3. CASE Miss
  <2>1. silence' \in 0..MISSES /\ silence' >= misses + 1 /\ glitches' \in 0..MaxGlitches
    BY <1>3, SilenceGrows, BoundAssumption DEF Miss, ScanTypeOK
  <2>2. misses' \in 0..(MISSES - 1) /\ misses' <= silence'
    BY <1>3, <2>1, BoundAssumption DEF Miss, ScanTypeOK
  <2> QED BY <1>3, <2>1, <2>2 DEF Miss, NothingFound, ScanTypeOK, SpoolKnown,
                                  ReadsATag, MissesHappened
<1>4. CASE Read
  <2>1. selected \in Uids
    BY <1>4 DEF Read, ReadsATag
  <2>2. /\ spool' \in [uid : Uids \cup {NoTag}, present : BOOLEAN, valid : BOOLEAN]
        /\ spool'.uid \in Uids
    BY <1>4, <2>1 DEF Read
  <2> QED BY <1>4, <2>1, <2>2 DEF Read, ScanTypeOK, SpoolKnown, ReadsATag,
                                  MissesHappened
<1> QED BY <1>1, <1>2, <1>3, <1>4

\* The one step that may tell the application that a tag is gone.
LEMMA AbsentKeeps ==
  ASSUME ScanInv, Absent
  PROVE  ScanInv' /\ (told' = told \/ silence' >= MISSES)
<1> USE DEF ScanInv, seen, hist, envVars
<1>1. silence' \in 0..MISSES /\ silence' >= misses /\ glitches' \in 0..MaxGlitches
  BY SilenceGrows DEF Absent
<1>2. seenValid => silence' >= MISSES
  BY SilenceGrows, BoundAssumption DEF Absent, ScanTypeOK
<1>3. misses' \in 0..(MISSES - 1) /\ misses' <= silence'
  BY <1>1, BoundAssumption DEF Absent, ScanTypeOK
<1>4. /\ spool' \in [uid : Uids \cup {NoTag}, present : BOOLEAN, valid : BOOLEAN]
      /\ ~spool'.present /\ spool'.uid = spool.uid /\ spool'.valid = spool.valid
  BY DEF Absent, HandleTagAbsent, ScanTypeOK
<1>5. ScanTypeOK'
  BY <1>1, <1>3, <1>4 DEF Absent, NothingFound, HandleTagAbsent, ScanTypeOK
<1>6. told' = told \/ silence' >= MISSES
  BY <1>2 DEF Absent, HandleTagAbsent
<1> QED BY <1>3, <1>4, <1>5, <1>6
        DEF Absent, NothingFound, SpoolKnown, ReadsATag, MissesHappened

-----------------------------------------------------------------------------
(* The write queue *)

LEMMA WriteKeeps ==
  ASSUME ScanInv, ProcessWrite
  PROVE  ScanInv' /\ (told' = told \/ told' \in Uids)
<1> USE DEF ScanInv, seen, hist, envVars
<1> DEFINE r == Head(queue)
           rest == Tail(queue)
           parsed == [spool EXCEPT !.valid = TRUE]
<1>1. r \in Requests /\ rest \in Seq(Requests) /\ spool.uid \in Uids
  BY DEF ProcessWrite, ScanTypeOK, SpoolKnown
<1>2. /\ parsed \in [uid : Uids \cup {NoTag}, present : BOOLEAN, valid : BOOLEAN]
      /\ parsed.uid = spool.uid
  BY DEF ScanTypeOK
<1>3. CASE /\ EndBatch(rest, suppress, spool, UNCHANGED told)
           /\ UNCHANGED <<spool, seenValid, owed, forgotten>>
  <2>1. suppress' \in Uids \cup {NoTag} /\ (told' = told \/ told' \in Uids)
    BY <1>1, <1>3 DEF EndBatch, Announce, ScanTypeOK
  <2> QED BY <1>1, <1>3, <2>1 DEF ProcessWrite, ScanTypeOK, SpoolKnown,
                                  ReadsATag, MissesHappened
<1>4. CASE Allowed(r) /\ Reaches(r) /\ Wrote(r, rest)
  <2>2. /\ spool' \in [uid : Uids \cup {NoTag}, present : BOOLEAN, valid : BOOLEAN]
        /\ spool'.uid = spool.uid
    BY <1>2, <1>4 DEF Wrote, ScanTypeOK
  <2>3. suppress' \in Uids \cup {NoTag} /\ (told' = told \/ told' \in Uids)
    BY <1>1, <1>2, <1>4 DEF Wrote, EndBatch, Announce, ScanTypeOK
  <2>4. seenValid' \in BOOLEAN /\ owed' \subseteq Promises /\ forgotten' \in BOOLEAN
    BY <1>4 DEF Wrote, Forget, Promises, ScanTypeOK
  <2>5. ScanTypeOK'
    BY <1>1, <2>2, <2>3, <2>4 DEF ProcessWrite, ScanTypeOK
  <2> QED BY <1>1, <2>2, <2>3, <2>5 DEF ProcessWrite, SpoolKnown,
                                              ReadsATag, MissesHappened
<1> QED BY <1>3, <1>4 DEF ProcessWrite

LEMMA IdleKeeps ==
  ASSUME ScanInv, NothingToWrite
  PROVE  ScanInv' /\ (told' = told \/ told' \in Uids)
<1> USE DEF ScanInv, seen, hist, envVars
<1>1. suppress' \in Uids \cup {NoTag} /\ (told' = told \/ told' \in Uids)
  BY DEF NothingToWrite, EndBatch, Announce, ScanTypeOK, SpoolKnown
<1> QED BY <1>1 DEF NothingToWrite, ScanTypeOK, SpoolKnown, ReadsATag,
                    MissesHappened

-----------------------------------------------------------------------------
(* The specification *)

\* Every step keeps the invariant, and forgets a tag only after MISSES misses.
LEMMA StepKeeps ==
  ASSUME ScanInv, [ScanNext]_scanVars
  PROVE  ScanInv' /\ (told' = told \/ told' \in Uids \/ silence' >= MISSES)
<1>1. CASE UNCHANGED scanVars
  BY <1>1 DEF scanVars, envVars, seen, hist, ScanInv, ScanTypeOK, SpoolKnown,
              ReadsATag, MissesHappened
<1>2. CASE MoveTag \/ CooldownEnds \/ EnqueueWrite \/ RequestCurrentSpool
  BY <1>2, OthersKeep
<1>3. CASE Detect \/ RfFails \/ Miss \/ Read
  BY <1>3, DetectionKeeps
<1>4. CASE Absent
  BY <1>4, AbsentKeeps
<1>5. CASE ProcessWrite
  BY <1>5, WriteKeeps
<1>6. CASE NothingToWrite
  BY <1>6, IdleKeeps
<1> QED BY <1>1, <1>2, <1>3, <1>4, <1>5, <1>6 DEF ScanNext, ScanStep

\* Types, the presence flag, and the count of misses, together.
THEOREM ScanInvariant == ScanSpec => []ScanInv
<1>1. ScanInv /\ [ScanNext]_scanVars => ScanInv'
  BY StepKeeps
<1> QED BY InitInv, <1>1, PTL DEF ScanSpec

\* The application is told that a tag is gone only after MISSES missed detections in a row
\* (handleTagAbsent, TAG_ABSENT_MISS_THRESHOLD).
THEOREM RemovalIsDebounced == ScanSpec => NoFlapping
<1>1. ScanInv /\ [ScanNext]_scanVars
        => [told # NoTag /\ told' = NoTag => silence' >= MISSES]_scanVars
  BY StepKeeps, TagAssumption
<1> QED BY ScanInvariant, <1>1, PTL DEF ScanSpec, NoFlapping
=============================================================================
