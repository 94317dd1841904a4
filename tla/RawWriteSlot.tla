---------------------------- MODULE RawWriteSlot ----------------------------
(***************************************************************************)
(* src/src/RawWriteSlot.h at the grain of its memory accesses: a single    *)
(* payload slot guarded by one atomic state, no lock.  Producers (web and  *)
(* application tasks) stage a payload and queue its request; the NFC scan  *)
(* task takes the request and consumes the payload, or releases it when    *)
(* the tag is not the right one.  A producer whose request the queue       *)
(* refuses takes its payload back (NFCManager::enqueueRawWrite).           *)
(*                                                                         *)
(* A payload is named by the request that staged it.  Requests without a   *)
(* payload share the queue.                                                *)
(***************************************************************************)
EXTENDS Naturals, Sequences, FiniteSets

CONSTANTS
  Producers,    \* tasks that stage raw writes
  Scan,         \* the NFC scan task
  Boot,         \* the task that reboots the device
  RequestIds,   \* ids nextRequestId() mints
  NoRequest,    \* id 0: no owner, no payload
  QUEUE_DEPTH   \* NFCManager's write queue

ASSUME TaskAssumption == {Scan, Boot} \cap Producers = {} /\ Scan # Boot
ASSUME RequestAssumption == NoRequest \notin RequestIds
ASSUME QueueAssumption == QUEUE_DEPTH \in Nat \ {0}

VARIABLES
  state,    \* state_
  buf,      \* buf_ and size_: the request whose payload they hold
  owner,    \* owner_ (uid_ is written with it)
  pc,       \* where each task is in its call
  req,      \* the request each task is working for
  writeQ,   \* NFCManager::writeQueue
  got,      \* what consume() handed to the scan task: request, payload
  used,     \* ids minted so far
  scanGone  \* the scan task was stopped for a reboot

slot == <<state, buf, owner>>
slotVars == <<slot, pc, req, writeQ, got, used, scanGone>>

Threads == Producers \cup {Scan, Boot}

\* The program points between winning the slot and giving it up.
Inside == {"copy", "sign", "publish", "check", "read", "clear", "unsign", "free"}

\* The program points of a task that has a payload in the slot, or a request
\* for one in hand.
Asking == {"enqueue", "take", "ownsState", "ownsId"}

SlotInit ==
  /\ state = "Empty" /\ buf = NoRequest /\ owner = NoRequest
  /\ pc = [t \in Threads |-> "idle"]
  /\ req = [t \in Threads |-> NoRequest]
  /\ writeQ = <<>>
  /\ got = [id |-> NoRequest, data |-> NoRequest]
  /\ used = {}
  /\ scanGone = FALSE

Runs(t) == t = Scan => ~scanGone
At(t, l) == pc[t] = l /\ Runs(t)
Goto(t, l) == pc' = [pc EXCEPT ![t] = l]
-----------------------------------------------------------------------------
(* stage(), by a producer *)

\* Variant: only a slot with a staged payload counts as busy.
StageUnlessReady(p) ==
  /\ At(p, "idle")
  /\ \E id \in RequestIds \ used :
       /\ used' = used \cup {id}
       /\ IF state # "Ready"
          THEN /\ state' = "Staging"
               /\ req' = [req EXCEPT ![p] = id]
               /\ Goto(p, "copy")
          ELSE UNCHANGED <<state, req, pc>>
  /\ UNCHANGED <<buf, owner, writeQ, got, scanGone>>

\* The compare-and-swap from Empty; a busy slot refuses the request.
StageBegin(p) ==
  /\ At(p, "idle")
  /\ \E id \in RequestIds \ used :
       /\ used' = used \cup {id}
       /\ IF state = "Empty"
          THEN /\ state' = "Staging"
               /\ req' = [req EXCEPT ![p] = id]
               /\ Goto(p, "copy")
          ELSE UNCHANGED <<state, req, pc>>
  /\ UNCHANGED <<buf, owner, writeQ, got, scanGone>>

StageCopy(p) ==
  /\ At(p, "copy")
  /\ buf' = req[p]
  /\ Goto(p, "sign")
  /\ UNCHANGED <<state, owner, req, writeQ, got, used, scanGone>>

StageSign(p) ==
  /\ At(p, "sign")
  /\ owner' = req[p]
  /\ Goto(p, "publish")
  /\ UNCHANGED <<state, buf, req, writeQ, got, used, scanGone>>

StagePublish(p) ==
  /\ At(p, "publish")
  /\ state' = "Ready"
  /\ Goto(p, "enqueue")
  /\ UNCHANGED <<buf, owner, req, writeQ, got, used, scanGone>>

\* Variant: a refused request leaves its payload staged.
EnqueueForget(p) ==
  /\ At(p, "enqueue")
  /\ writeQ' = IF Len(writeQ) < QUEUE_DEPTH THEN Append(writeQ, req[p]) ELSE writeQ
  /\ Goto(p, "idle")
  /\ UNCHANGED <<slot, req, got, used, scanGone>>

\* Variant: one request too many.
EnqueueOffByOne(p) ==
  /\ At(p, "enqueue")
  /\ IF Len(writeQ) <= QUEUE_DEPTH
     THEN writeQ' = Append(writeQ, req[p]) /\ Goto(p, "idle")
     ELSE Goto(p, "take") /\ UNCHANGED writeQ
  /\ UNCHANGED <<slot, req, got, used, scanGone>>

\* enqueueWrite(); when the queue is full the payload is released.
Enqueue(p) ==
  /\ At(p, "enqueue")
  /\ IF Len(writeQ) < QUEUE_DEPTH
     THEN writeQ' = Append(writeQ, req[p]) /\ Goto(p, "idle")
     ELSE Goto(p, "take") /\ UNCHANGED writeQ
  /\ UNCHANGED <<slot, req, got, used, scanGone>>

\* Any other write request: it owns no payload.
EnqueuePlain(p) ==
  /\ At(p, "idle")
  /\ Len(writeQ) < QUEUE_DEPTH
  /\ writeQ' = Append(writeQ, NoRequest)
  /\ UNCHANGED <<slot, pc, req, got, used, scanGone>>
-----------------------------------------------------------------------------
(* The scan task takes the next request of the queue *)

\* WRITE_RAW_TAG asks ownedBy() first, WRITE_OPENSPOOL goes for the slot.
Dequeue ==
  /\ At(Scan, "idle")
  /\ writeQ # <<>>
  /\ writeQ' = Tail(writeQ)
  /\ IF Head(writeQ) = NoRequest THEN UNCHANGED <<pc, req>>
     ELSE /\ req' = [req EXCEPT ![Scan] = Head(writeQ)]
          /\ \E l \in {"ownsState", "take"} : Goto(Scan, l)
  /\ UNCHANGED <<slot, got, used, scanGone>>

\* ownedBy(): the state, then the owner; two separate loads.
OwnsState ==
  /\ At(Scan, "ownsState")
  /\ Goto(Scan, IF state = "Ready" THEN "ownsId" ELSE "idle")
  /\ UNCHANGED <<slot, req, writeQ, got, used, scanGone>>

OwnsId ==
  /\ At(Scan, "ownsId")
  /\ Goto(Scan, IF owner = req[Scan] THEN "take" ELSE "idle")
  /\ UNCHANGED <<slot, req, writeQ, got, used, scanGone>>
-----------------------------------------------------------------------------
(* consume() and release(): take(), then clearAndFree() *)

\* Variant: the slot is free again as soon as it is taken.
TakeFrees(t) ==
  /\ At(t, "take")
  /\ IF state = "Ready"
     THEN state' = "Empty" /\ Goto(t, "check")
     ELSE Goto(t, "idle") /\ UNCHANGED state
  /\ UNCHANGED <<buf, owner, req, writeQ, got, used, scanGone>>

\* The compare-and-swap from Ready.
Take(t) ==
  /\ At(t, "take")
  /\ IF state = "Ready"
     THEN state' = "Releasing" /\ Goto(t, "check")
     ELSE Goto(t, "idle") /\ UNCHANGED state
  /\ UNCHANGED <<buf, owner, req, writeQ, got, used, scanGone>>

\* A slot of another request goes back to Ready.  The scan task consumes the
\* payload when the tag is the one it is bound to, and only releases it when
\* it is not.
Check(t) ==
  /\ At(t, "check")
  /\ IF owner = req[t]
     THEN /\ \/ t = Scan /\ Goto(t, "read")
             \/ Goto(t, "clear")
          /\ UNCHANGED state
     ELSE state' = "Ready" /\ Goto(t, "idle")
  /\ UNCHANGED <<buf, owner, req, writeQ, got, used, scanGone>>

ConsumeRead ==
  /\ At(Scan, "read")
  /\ got' = [id |-> req[Scan], data |-> buf]
  /\ Goto(Scan, "clear")
  /\ UNCHANGED <<slot, req, writeQ, used, scanGone>>

\* Variant: the slot is published Empty before it is cleared.
ClearAfterFree(t) ==
  /\ At(t, "clear")
  /\ buf' = NoRequest
  /\ state' = "Empty"
  /\ Goto(t, "unsign")
  /\ UNCHANGED <<owner, req, writeQ, got, used, scanGone>>

Clear(t) ==
  /\ At(t, "clear")
  /\ buf' = NoRequest
  /\ Goto(t, "unsign")
  /\ UNCHANGED <<state, owner, req, writeQ, got, used, scanGone>>

Unsign(t) ==
  /\ At(t, "unsign")
  /\ owner' = NoRequest
  /\ Goto(t, "free")
  /\ UNCHANGED <<state, buf, req, writeQ, got, used, scanGone>>

Free(t) ==
  /\ At(t, "free")
  /\ state' = "Empty"
  /\ Goto(t, IF t = Boot THEN "drain" ELSE "idle")
  /\ UNCHANGED <<buf, owner, req, writeQ, got, used, scanGone>>
-----------------------------------------------------------------------------
(* resetWriteState(), the reboot path: the scan task is gone *)

StopScan ==
  /\ At(Boot, "idle")
  /\ scanGone' = TRUE
  /\ Goto(Boot, "takeAny")
  /\ UNCHANGED <<slot, req, writeQ, got, used>>

\* releaseAny() asks for no owner; it does nothing when a task holds the slot.
TakeAny ==
  /\ At(Boot, "takeAny")
  /\ IF state = "Ready"
     THEN state' = "Releasing" /\ Goto(Boot, "clear")
     ELSE Goto(Boot, "drain") /\ UNCHANGED state
  /\ UNCHANGED <<buf, owner, req, writeQ, got, used, scanGone>>

Drain ==
  /\ At(Boot, "drain")
  /\ writeQ' = <<>>
  /\ Goto(Boot, "gone")
  /\ UNCHANGED <<slot, req, got, used, scanGone>>

ReleaseSteps(t) == Take(t) \/ Check(t) \/ Clear(t) \/ Unsign(t) \/ Free(t)

SlotNext ==
  \/ \E p \in Producers :
        \/ StageBegin(p) \/ StageCopy(p) \/ StageSign(p) \/ StagePublish(p)
        \/ Enqueue(p) \/ EnqueuePlain(p)
  \/ Dequeue \/ OwnsState \/ OwnsId \/ ConsumeRead
  \/ \E t \in Threads : ReleaseSteps(t)
  \/ StopScan \/ TakeAny \/ Drain

SlotSpec == SlotInit /\ [][SlotNext]_slotVars
-----------------------------------------------------------------------------
(* Properties *)

SlotTypeOK ==
  /\ state \in {"Empty", "Staging", "Ready", "Releasing"}
  /\ buf \in RequestIds \cup {NoRequest}
  /\ owner \in RequestIds \cup {NoRequest}
  /\ pc \in [Threads -> 
          Inside \cup Asking \cup {"idle", "takeAny", "drain", "gone"}]
  /\ req \in [Threads -> RequestIds \cup {NoRequest}]
  /\ writeQ \in Seq(RequestIds \cup {NoRequest}) /\ Len(writeQ) <= QUEUE_DEPTH
  /\ got \in [id : RequestIds \cup {NoRequest}, data : RequestIds \cup {NoRequest}]
  /\ used \subseteq RequestIds
  /\ scanGone \in BOOLEAN

\* The payload and its owner are touched by one task at a time, without a lock:
\* exactly while the atomic state says so.
Exclusive ==
  \A t, u \in Threads : pc[t] \in Inside /\ pc[u] \in Inside => t = u

\* The scan task is never handed the payload of another request, nor a payload
\* that is half written or half cleared.
PayloadIntact == got.data = got.id

\* A staged payload always has someone who will consume or release it: the
\* producer that has not queued it yet or could not, the queue, or the scan
\* task.  Otherwise every later raw write is refused until a reboot
\* (NFCManager.cpp:1619-1620, 2278-2279).
NeverWedged ==
  state = "Ready" /\ ~scanGone =>
    \/ \E t \in Threads : pc[t] \in Asking /\ req[t] = owner
    \/ \E i \in DOMAIN writeQ : writeQ[i] = owner

\* A task that goes for the slot finds it: the answer ownedBy() put together
\* from two loads, and a producer's belief that its payload is still staged,
\* hold when they are acted on, whatever the other tasks did meanwhile.
OwnershipStands ==
  ~scanGone =>
    \A t \in Threads : pc[t] = "take" => state = "Ready" /\ owner = req[t]
-----------------------------------------------------------------------------
(* The inductive invariant *)

\* The atomic state tells who may touch the slot.
StateGuards ==
  \A t \in Threads :
    /\ pc[t] \in {"copy", "sign", "publish"} => state = "Staging"
    /\ pc[t] \in {"check", "read", "clear", "unsign", "free"} => state = "Releasing"

\* Payload and owner are filled before Ready and cleared before Empty.
Contents ==
  /\ state = "Empty" => buf = NoRequest /\ owner = NoRequest
  /\ state = "Ready" => buf = owner /\ owner # NoRequest
  /\ \A t \in Threads :
       /\ pc[t] \in {"copy", "sign", "publish"} => req[t] # NoRequest
       /\ pc[t] = "sign" => buf = req[t]
       /\ pc[t] = "publish" => buf = req[t] /\ owner = req[t]
       /\ pc[t] = "check" => buf = owner /\ owner # NoRequest
       /\ pc[t] = "read" => buf = req[t]
       /\ pc[t] \in {"unsign", "free"} => buf = NoRequest
       /\ pc[t] = "free" => owner = NoRequest

\* While the scan task runs there is at most one raw request between its
\* staging and its consumption, and it is the one in the slot.
OneRequest ==
  ~scanGone =>
    /\ \A t \in Threads : pc[t] \in Asking => state = "Ready" /\ owner = req[t]
    /\ \A t \in Threads : pc[t] = "check" => owner = req[t]
    /\ \A i \in DOMAIN writeQ :
         writeQ[i] # NoRequest => state = "Ready" /\ owner = writeQ[i]
    /\ \A t, u \in Threads : pc[t] \in Asking /\ pc[u] \in Asking => t = u
    /\ \A t \in Threads, i \in DOMAIN writeQ :
         pc[t] \in Asking => writeQ[i] = NoRequest
    /\ \A i, j \in DOMAIN writeQ :
         writeQ[i] # NoRequest /\ writeQ[j] # NoRequest => i = j

\* Which program points a task can be at.
Roles ==
  /\ \A p \in Producers : pc[p] \notin {"ownsState", "ownsId", "read", "takeAny",
                                         "drain", "gone"}
  /\ pc[Scan] \notin {"copy", "sign", "publish", "enqueue", "takeAny", "drain", "gone"}
  /\ pc[Boot] \in {"idle", "takeAny", "clear", "unsign", "free", "drain", "gone"}
  /\ pc[Boot] # "idle" => scanGone

SlotInv ==
  /\ SlotTypeOK /\ Exclusive /\ StateGuards /\ Contents
  /\ PayloadIntact /\ OneRequest /\ Roles /\ NeverWedged
=============================================================================
