-------------------------- MODULE DeductionManager --------------------------
(***************************************************************************)
(* The life of a filament deduction (src/src/DeductionManager.cpp): stored *)
(* in NVS by the MQTT task, applied by the MQTT task or by the application *)
(* task to the tag on the reader or to Spoolman, and settled by the result *)
(* of the write.  The claim table is the map of DeductionClaims, which     *)
(* module DeductionTracker implements.                                     *)
(*                                                                         *)
(* Everything done under the manager's mutex is one step: what it reads of *)
(* the NFC state is a copy and what it queues is consumed later, so other  *)
(* tasks cannot tell.  The steps in between (reading the current tag, then *)
(* taking the mutex; Spoolman HTTP; settling) interleave freely.           *)
(*                                                                         *)
(* The NFC task is present as far as the deduction sees it: what a scan    *)
(* and a removal leave in currentSpool, what a write does to the tag, and  *)
(* how its result travels back.                                            *)
(***************************************************************************)
EXTENDS DeductionClaims, Sequences, FiniteSetsExt

CONSTANTS
  Tasks,        \* tasks that apply deductions: the application and MQTT tasks
  App, Mqtt,    \* the two of them
  QUEUE_DEPTH,  \* NFCManager's write queue (8 in the code)
  APP_QUEUE,    \* ApplicationManager's message queue (12 in the code)
  Shelf,        \* which formats the tags may have
  Full,         \* weight each tag starts with
  MaxStored,    \* bound: grams stored per UID
  MaxSwaps,     \* bound: tags presented
  MaxFaults     \* bound: reboots, and effects whose success is not reported

Formats == {"OpenPrintTag", "OpenTag3D", "NominalTag3D", "TigerTag"}

ASSUME TaskAssumption == Tasks = {App, Mqtt} /\ App # Mqtt
ASSUME UidAssumption == IsFiniteSet(Uids) /\ NoUid \notin Uids
ASSUME CapacityAssumption == CAPACITY \in Nat
ASSUME RequestAssumption ==
  /\ IsFiniteSet(RequestIds) /\ Cardinality(RequestIds) >= CAPACITY
  /\ NoRequest \notin RequestIds
ASSUME QueueAssumption == QUEUE_DEPTH \in Nat \ {0} /\ APP_QUEUE \in Nat \ {0}
ASSUME ShelfAssumption == Shelf \subseteq [Uids -> Formats]
ASSUME BoundAssumption ==
  /\ Full \in [Uids -> Nat \ {0}]
  /\ MaxStored \in Nat /\ MaxSwaps \in Nat /\ MaxFaults \in Nat
  /\ 1 .. MaxStored \subseteq Grams /\ Grams \subseteq Nat \ {0}

VARIABLES
  (* survives a reboot *)
  nvs,       \* NVS namespace "deductions": pending grams of each UID
  spoolman,  \* is Spoolman configured
  format,    \* what each physical tag is
  weight,    \* the weight field of each physical tag
  reader,    \* the tag lying on the reader
  (* the NFC task *)
  cur,       \* NFCManager::currentSpool: uid, present, kind, tag_data_valid, weight
  ot3d,      \* lastOpenTag3D_ and its baseline: valid, uid, weight; MIME seen
  last,      \* lastSeenUid, NoUid when !lastSeenValid
  writeQ,    \* writeQueue
  report,    \* the SPOOL_UPDATED result the NFC task is delivering, if any
  (* the tasks that apply *)
  appQ,      \* ApplicationManager::messageQueue
  task,      \* where each task is in handling its message
  (* ledger of the model, not of the code *)
  stored,    \* grams ever stored for each UID
  taken,     \* grams the tag or Spoolman has absorbed
  dropped,   \* grams given up because nothing can record them
  unsure,    \* grams absorbed without the scanner learning of it
  crossed,   \* UIDs whose write was computed from another tag's data
  swaps, faults

durable == <<nvs, spoolman, format, weight, reader>>
nfc == <<cur, ot3d, last, writeQ, report>>
ledger == <<stored, taken, dropped, unsure, crossed>>
managerVars == <<vars, durable, nfc, appQ, task, ledger, swaps, faults>>

NoReport == [type |-> "none"]
Result(id, ok) == [type |-> "updated", id |-> id, ok |-> ok]
Detected == [type |-> "detected"]
Other == [type |-> "other"]    \* messages that never touch a deduction

Idle == [pc |-> "idle"]

KindOf(f) ==
  CASE f = "OpenPrintTag" -> "OpenPrintTag"
    [] f = "TigerTag"     -> "TigerTag"
    [] OTHER              -> "OpenTag3D"

\* The least weight a deduction leaves: a measured OpenTag3D weight of 0 would
\* read as "never measured" (DeductionManager.cpp:281-285).
Floor(u) == IF format[u] = "OpenTag3D" THEN 1 ELSE 0

Less(a, b) == IF b >= a THEN 0 ELSE a - b
Least(a, b) == IF a <= b THEN a ELSE b
Most(a, b) == IF a >= b THEN a ELSE b

ManagerInit ==
  /\ Init
  /\ nvs = [u \in Uids |-> 0]
  /\ spoolman \in BOOLEAN
  /\ format \in Shelf
  /\ weight = Full
  /\ reader = NoUid
  /\ cur = [uid |-> NoUid, present |-> FALSE, kind |-> "OpenPrintTag",
            valid |-> FALSE, weight |-> 0]
  /\ ot3d = [valid |-> FALSE, uid |-> NoUid, weight |-> 0, mime |-> FALSE]
  /\ last = NoUid
  /\ writeQ = <<>>
  /\ report = NoReport
  /\ appQ = <<>>
  /\ task = [t \in Tasks |-> Idle]
  /\ stored = [u \in Uids |-> 0] /\ taken = [u \in Uids |-> 0]
  /\ dropped = [u \in Uids |-> 0] /\ unsure = [u \in Uids |-> 0]
  /\ crossed = {}
  /\ swaps = 0 /\ faults = 0
-----------------------------------------------------------------------------
(* The tag on the reader, and what the NFC task knows of it *)

PlaceTag(u) ==
  /\ reader = NoUid /\ swaps < MaxSwaps
  /\ reader' = u /\ swaps' = swaps + 1
  /\ UNCHANGED <<vars, nvs, spoolman, format, weight, nfc, appQ, task, ledger, faults>>

TakeTag ==
  /\ reader # NoUid
  /\ reader' = NoUid
  /\ UNCHANGED <<vars, nvs, spoolman, format, weight, nfc, appQ, task, ledger,
                 swaps, faults>>

\* sendMessage() with no wait: the message is lost when the queue is full.
Sent(m) == IF Len(appQ) < APP_QUEUE THEN Append(appQ, m) ELSE appQ

\* handleNewTag() on a tag that was read, and the SPOOL_DETECTED that follows.
\* An OpenPrintTag leaves currentSpool.kind as it was (readAndParseTag), the
\* other formats set it; only a TigerTag clears what was known of OpenTag3D
\* MIME types, an ISO15693 tag clears it before it is read.
ReadTag ==
  /\ report = NoReport
  /\ reader # NoUid /\ last # reader
  /\ cur' = [uid |-> reader, present |-> TRUE,
             kind |-> IF format[reader] = "OpenPrintTag" THEN cur.kind
                      ELSE KindOf(format[reader]),
             valid |-> format[reader] = "OpenPrintTag",
             weight |-> IF format[reader] = "OpenPrintTag" THEN weight[reader] ELSE 0]
  /\ ot3d' = IF KindOf(format[reader]) = "OpenTag3D"
             THEN [valid |-> TRUE, uid |-> reader, weight |-> weight[reader],
                   mime |-> TRUE]
             ELSE [valid |-> FALSE, uid |-> NoUid, weight |-> 0, mime |-> FALSE]
  /\ last' = reader
  /\ appQ' = Sent(Detected)
  /\ UNCHANGED <<vars, durable, writeQ, report, task, ledger, swaps, faults>>

\* An OpenPrintTag that cannot be read after three attempts is taken for blank.
ReadTagFails ==
  /\ report = NoReport
  /\ reader # NoUid /\ last # reader
  /\ format[reader] = "OpenPrintTag"
  /\ cur' = [uid |-> reader, present |-> TRUE, kind |-> "BlankTag",
             valid |-> FALSE, weight |-> 0]
  /\ ot3d' = [valid |-> FALSE, uid |-> NoUid, weight |-> 0, mime |-> FALSE]
  /\ last' = reader
  /\ appQ' = Sent(Other)
  /\ UNCHANGED <<vars, durable, writeQ, report, task, ledger, swaps, faults>>

\* handleTagAbsent(): kind and tag_data_valid stay as they were.
TagAbsent ==
  /\ report = NoReport
  /\ reader = NoUid
  /\ last # NoUid \/ cur.present
  /\ cur' = [cur EXCEPT !.present = FALSE]
  /\ ot3d' = [valid |-> FALSE, uid |-> NoUid, weight |-> 0, mime |-> FALSE]
  /\ last' = NoUid
  /\ appQ' = IF last # NoUid THEN Sent(Other) ELSE appQ
  /\ UNCHANGED <<vars, durable, writeQ, report, task, ledger, swaps, faults>>
-----------------------------------------------------------------------------
(* NVS and claims *)

\* Variant: settling clears the key, with whatever was added.
ClearPending(u, snapshot) == 0

\* settleSnapshotLocked(): the snapshot leaves the latest total.
SettleSnapshot(u, snapshot) == Less(nvs[u], snapshot)

\* Variant: an apply does not look for an active claim.
CanClaimAgain(u) == nvs[u] > 0

\* applyInternal() goes on: something is pending and claim() accepts.
CanClaim(u) ==
  /\ nvs[u] > 0
  /\ claims[u] = NoClaim
  /\ Cardinality(Claimed) < CAPACITY

\* handleWriteResult(): the bound claim of this id ends; NVS only when the
\* write succeeded.  Any other id is ignored.
HandleWriteResult(id, ok) ==
  LET owner == {u \in Claimed : claims[u].state = "Bound" /\ claims[u].id = id}
  IN  IF owner = {} THEN UNCHANGED <<vars, nvs>>
      ELSE \E u \in owner :
             /\ Settle(u)
             /\ nvs' = IF ok THEN [nvs EXCEPT ![u] = SettleSnapshot(u, claims[u].grams)]
                       ELSE nvs

Writable(t) == task[t].prefer /\ task[t].kind \in {"OpenPrintTag", "OpenTag3D"}

Goto(t, s) == task' = [task EXCEPT ![t] = s]
At(t, pc) == task[t].pc = pc
Applying(u, kind, prefer) ==
  [pc |-> "apply", uid |-> u, kind |-> kind, prefer |-> prefer]
-----------------------------------------------------------------------------
(* The two tasks reach applyInternal() *)

\* MQTT cmd/deduct/<uid>: storePending().
Deduct(u, g) ==
  /\ At(Mqtt, "idle")
  /\ stored[u] + g <= MaxStored
  /\ nvs' = [nvs EXCEPT ![u] = @ + g]
  /\ stored' = [stored EXCEPT ![u] = @ + g]
  /\ Goto(Mqtt, [pc |-> "check", uid |-> u])
  /\ UNCHANGED <<vars, spoolman, format, weight, reader, nfc, appQ, taken, dropped,
                 unsure, crossed, swaps, faults>>

\* MQTT cmd/deduct_tray: the spool is in a printer, never on the reader.
DeductTray(u, g) ==
  /\ At(Mqtt, "idle")
  /\ stored[u] + g <= MaxStored
  /\ nvs' = [nvs EXCEPT ![u] = @ + g]
  /\ stored' = [stored EXCEPT ![u] = @ + g]
  /\ Goto(Mqtt, Applying(u, "Unsupported", FALSE))
  /\ UNCHANGED <<vars, spoolman, format, weight, reader, nfc, appQ, taken, dropped,
                 unsure, crossed, swaps, faults>>

\* Is the tag on the reader?  Otherwise, or when the tag state cannot be had
\* in time, the deduction goes to Spoolman.
CheckReader ==
  /\ At(Mqtt, "check")
  /\ \/ /\ cur.present /\ cur.uid = task[Mqtt].uid
        /\ Goto(Mqtt, Applying(cur.uid, cur.kind, TRUE))
     \/ Goto(Mqtt, Applying(task[Mqtt].uid, "Unsupported", FALSE))
  /\ UNCHANGED <<vars, durable, nfc, appQ, ledger, swaps, faults>>

\* The application task takes its next message.  SPOOL_DETECTED applies what
\* is pending for the tag that is current by then; nothing when there is none
\* or when its state cannot be had in time.
HandleMessage ==
  /\ At(App, "idle") /\ appQ # <<>>
  /\ appQ' = Tail(appQ)
  /\ \/ /\ Head(appQ).type = "detected" /\ cur.present
        /\ Goto(App, Applying(cur.uid, cur.kind, TRUE))
        /\ UNCHANGED <<vars, nvs>>
     \/ /\ Head(appQ).type = "updated"
        /\ HandleWriteResult(Head(appQ).id, Head(appQ).ok)
        /\ UNCHANGED task
     \/ /\ Head(appQ).type \in {"detected", "other"}
        /\ UNCHANGED <<vars, nvs, task>>
  /\ UNCHANGED <<spoolman, format, weight, reader, nfc, ledger, swaps, faults>>
-----------------------------------------------------------------------------
(* applyInternal() *)

FreshIds ==
  RequestIds \ ({claims[u].id : u \in Claimed}
                \cup {writeQ[i].id : i \in 1 .. Len(writeQ)})

\* generateRequestId()
NewId == CHOOSE id \in FreshIds : TRUE

\* Variant: the queue takes one request more than it has room for.
QueueRoomOffByOne == Len(writeQ) <= QUEUE_DEPTH

\* enqueueWrite() succeeds.
QueueRoom == Len(writeQ) < QUEUE_DEPTH

\* A claim and its write in one lock hold: claim(), bind(), then the queue.
\* When the queue refuses, abort() takes the claim back and nothing changed.
ClaimAndQueue(t, write) ==
  LET u == task[t].uid
  IN  /\ claims' = [claims EXCEPT ![u] =
               [state |-> "Bound", grams |-> nvs[u], id |-> NewId]]
      /\ writeQ' = Append(writeQ, write)
      /\ UNCHANGED lastSettledUid

\* Nothing pending, already in flight, table full, or (tag path only) the
\* mutex not available within 200 ms.
ApplySkipped(t) ==
  /\ At(t, "apply")
  /\ Writable(t) \/ ~CanClaim(task[t].uid)
  /\ Goto(t, Idle)
  /\ UNCHANGED <<vars, durable, nfc, appQ, ledger, swaps, faults>>

\* No tag to write: the claim is this task's own, Spoolman comes next.
ApplyImmediate(t) ==
  LET u == task[t].uid
  IN  /\ At(t, "apply") /\ ~Writable(t) /\ CanClaim(u)
      /\ claims' = [claims EXCEPT ![u] =
               [state |-> "Immediate", grams |-> nvs[u], id |-> NoRequest]]
      /\ Goto(t, [task[t] EXCEPT !.pc = "spoolman"])
      /\ UNCHANGED <<lastSettledUid, durable, nfc, appQ, ledger, swaps, faults>>

\* applyOpenPrintTag(): the deduction is clamped to what the cached tag data
\* says remains; whose data that is, it does not ask.
ApplyOpenPrintTag(t) ==
  LET u == task[t].uid
  IN  /\ At(t, "apply") /\ Writable(t) /\ task[t].kind = "OpenPrintTag"
      /\ CanClaim(u)
      /\ \/ /\ cur.valid /\ QueueRoom
            /\ ClaimAndQueue(t, [id |-> NewId, uid |-> u, type |-> "REMOVE_WEIGHT",
                                 amount |-> Least(nvs[u], cur.weight)])
            /\ crossed' = IF cur.uid = u THEN crossed ELSE crossed \cup {u}
         \/ /\ ~cur.valid \/ ~QueueRoom
            /\ UNCHANGED <<vars, writeQ, crossed>>
      /\ Goto(t, Idle)
      /\ UNCHANGED <<durable, cur, ot3d, last, report, appQ, stored, taken,
                     dropped, unsure, swaps, faults>>

\* One OpenTag3D patch can be staged at a time (openTag3DPatchState_).
PatchRoom == \A i \in 1 .. Len(writeQ) : writeQ[i].type # "WRITE_OPENTAG3D"

\* applyOpenTag3D(): the patch carries the new weight, computed from the cached
\* tag.  A v2 tag without a measured weight is not written: the claim becomes
\* the task's own and is settled like one without a tag.
ApplyOpenTag3D(t) ==
  LET u == task[t].uid
      nominal == ot3d.valid /\ format[ot3d.uid] = "NominalTag3D"
  IN  /\ At(t, "apply") /\ Writable(t) /\ task[t].kind = "OpenTag3D"
      /\ CanClaim(u)
      /\ \/ /\ nominal
            /\ claims' = [claims EXCEPT ![u] =
                     [state |-> "Immediate", grams |-> nvs[u], id |-> NoRequest]]
            /\ Goto(t, [task[t] EXCEPT !.pc = "spoolman"])
            /\ UNCHANGED <<lastSettledUid, writeQ>>
         \/ /\ ot3d.valid /\ ~nominal /\ QueueRoom /\ PatchRoom
            /\ ClaimAndQueue(t, [id |-> NewId, uid |-> u, type |-> "WRITE_OPENTAG3D",
                                 amount |-> Most(Less(ot3d.weight, nvs[u]), 1)])
            /\ Goto(t, Idle)
         \/ /\ ~ot3d.valid \/ (~nominal /\ ~(QueueRoom /\ PatchRoom))
            /\ Goto(t, Idle)
            /\ UNCHANGED <<vars, writeQ>>
      /\ crossed' = IF ot3d.valid /\ ot3d.uid # u THEN crossed \cup {u} ELSE crossed
      /\ UNCHANGED <<durable, cur, ot3d, last, report, appQ, stored, taken,
                     dropped, unsure, swaps, faults>>

\* spoolmanDeductOutsideLock(): Spoolman absorbs the whole snapshot (what it
\* does not hold is forgiven), refuses, or absorbs it and the reply is lost.
SpoolmanDeduct(t) ==
  LET u == task[t].uid
      done(outcome) == Goto(t, [task[t] EXCEPT !.pc = outcome])
      absorbed == taken' = [taken EXCEPT ![u] = @ + claims[u].grams]
  IN  /\ At(t, "spoolman")
      /\ \/ /\ ~spoolman
            /\ done("unavailable")
            /\ UNCHANGED <<taken, unsure, faults>>
         \/ /\ spoolman
            /\ done("refused")
            /\ UNCHANGED <<taken, unsure, faults>>
         \/ /\ spoolman
            /\ absorbed /\ done("accepted")
            /\ UNCHANGED <<unsure, faults>>
         \/ /\ spoolman /\ faults < MaxFaults
            /\ absorbed /\ done("refused")
            /\ unsure' = [unsure EXCEPT ![u] = @ + claims[u].grams]
            /\ faults' = faults + 1
      /\ UNCHANGED <<vars, durable, nfc, appQ, stored, dropped, crossed, swaps>>

\* Variant: a failed deduction returns without settling its claim.
SettleOnlyDone(t) ==
  LET u == task[t].uid
      done == \/ At(t, "accepted")
              \/ At(t, "unavailable") /\ task[t].prefer
  IN  /\ task[t].pc \in {"accepted", "refused", "unavailable"}
      /\ IF done THEN /\ Settle(u)
                      /\ nvs' = [nvs EXCEPT ![u] = SettleSnapshot(u, claims[u].grams)]
         ELSE UNCHANGED <<vars, nvs>>
      /\ dropped' = IF done /\ At(t, "unavailable")
                    THEN [dropped EXCEPT ![u] = @ + claims[u].grams] ELSE dropped
      /\ Goto(t, Idle)
      /\ UNCHANGED <<spoolman, format, weight, reader, nfc, appQ, stored, taken,
                     unsure, crossed, swaps, faults>>

\* The mutex is taken again and settleClaim() ends the claim.  Without Spoolman
\* a tag that was presented has its pending grams dropped, an absent one keeps
\* them (deductionConsumesWithoutSpoolman).
SettleSync(t) ==
  LET u == task[t].uid
      consumed == \/ At(t, "accepted")
                  \/ At(t, "unavailable") /\ task[t].prefer
  IN  /\ task[t].pc \in {"accepted", "refused", "unavailable"}
      /\ Settle(u)
      /\ nvs' = IF consumed THEN [nvs EXCEPT ![u] = SettleSnapshot(u, claims[u].grams)]
                ELSE nvs
      /\ dropped' = IF consumed /\ At(t, "unavailable")
                    THEN [dropped EXCEPT ![u] = @ + claims[u].grams] ELSE dropped
      /\ Goto(t, Idle)
      /\ UNCHANGED <<spoolman, format, weight, reader, nfc, appQ, stored, taken,
                     unsure, crossed, swaps, faults>>
-----------------------------------------------------------------------------
(* The write and its result *)

\* The request may touch the tag on the reader: it is bound to that tag, and
\* its data is the cached data of that tag.
WriteAllowed(w) ==
  /\ w.uid = reader
  /\ IF w.type = "REMOVE_WEIGHT" THEN cur.valid /\ cur.uid = w.uid
     ELSE ot3d.mime => ot3d.valid /\ ot3d.uid = w.uid

\* REMOVE_WEIGHT rewrites the cached data less the grams, a patch its weight.
WrittenWeight(w) ==
  IF w.type = "REMOVE_WEIGHT" THEN Less(cur.weight, w.amount) ELSE w.amount

\* processWriteQueue(): one request, with a tag in the field.  The write may be
\* refused, fail, succeed, or land and still be reported as failed: its check
\* read or the lock to commit it failed, or the tag was pulled away.
ProcessWrite ==
  LET w == Head(writeQ)
      claim == claims[w.uid]
      new == WrittenWeight(w)
      landed == /\ weight' = [weight EXCEPT ![w.uid] = new]
                /\ taken' = [taken EXCEPT ![w.uid] =
                      @ + IF new <= Floor(w.uid) THEN claim.grams
                          ELSE Less(weight[w.uid], new)]
      patched == ot3d' = IF w.type = "WRITE_OPENTAG3D"
                         THEN [ot3d EXCEPT !.valid = FALSE] ELSE ot3d
  IN  /\ report = NoReport
      /\ writeQ # <<>> /\ reader # NoUid /\ cur.present
      /\ writeQ' = Tail(writeQ)
      /\ \/ /\ ~WriteAllowed(w)
            /\ report' = Result(w.id, FALSE)
            /\ UNCHANGED <<cur, ot3d, weight, taken, unsure, faults>>
         \/ /\ WriteAllowed(w)
            /\ report' = Result(w.id, FALSE)
            /\ patched
            /\ UNCHANGED <<cur, weight, taken, unsure, faults>>
         \/ /\ WriteAllowed(w) /\ faults < MaxFaults
            /\ report' = Result(w.id, FALSE)
            /\ patched /\ landed
            /\ unsure' = [unsure EXCEPT ![w.uid] = @ + claim.grams]
            /\ faults' = faults + 1
            /\ UNCHANGED cur
         \/ /\ WriteAllowed(w)
            /\ report' = Result(w.id, TRUE)
            /\ patched /\ landed
            /\ cur' = IF w.type = "REMOVE_WEIGHT"
                      THEN [cur EXCEPT !.weight = new, !.kind = "OpenPrintTag"]
                      ELSE [cur EXCEPT !.present = FALSE]   \* forceRescan()
            /\ UNCHANGED <<unsure, faults>>
      /\ UNCHANGED <<vars, nvs, spoolman, format, reader, last, appQ, task,
                     stored, dropped, crossed, swaps>>

\* Variant: a result that finds the queue full is lost like any other message.
DeliverOrLose ==
  /\ report # NoReport
  /\ appQ' = Sent(report)
  /\ report' = NoReport
  /\ UNCHANGED <<vars, durable, cur, ot3d, last, writeQ, task, ledger, swaps, faults>>

\* The result goes to the application task; when its queue stays full through
\* the retries, the NFC task settles the deduction itself.
DeliverResult ==
  /\ report # NoReport
  /\ IF Len(appQ) < APP_QUEUE
     THEN /\ appQ' = Append(appQ, report)
          /\ UNCHANGED <<vars, nvs>>
     ELSE /\ HandleWriteResult(report.id, report.ok)
          /\ UNCHANGED appQ
  /\ report' = NoReport
  /\ UNCHANGED <<spoolman, format, weight, reader, cur, ot3d, last, writeQ, task,
                 ledger, swaps, faults>>
-----------------------------------------------------------------------------
\* Grams absorbed on behalf of u's claim whose success is on its way to NVS.
Landed(u) ==
  LET reports == {report} \cup {appQ[i] : i \in 1 .. Len(appQ)}
  IN  IF \/ /\ claims[u].state = "Bound"
            /\ Result(claims[u].id, TRUE) \in reports
         \/ \E t \in Tasks : At(t, "accepted") /\ task[t].uid = u
      THEN claims[u].grams ELSE 0

\* Power loss: RAM is gone, NVS, the tags and Spoolman stay.
Reboot ==
  /\ faults < MaxFaults
  /\ faults' = faults + 1
  /\ unsure' = [u \in Uids |-> unsure[u] + Landed(u)]
  /\ claims' = [u \in Uids |-> NoClaim] /\ lastSettledUid' = NoUid
  /\ cur' = [uid |-> NoUid, present |-> FALSE, kind |-> "OpenPrintTag",
             valid |-> FALSE, weight |-> 0]
  /\ ot3d' = [valid |-> FALSE, uid |-> NoUid, weight |-> 0, mime |-> FALSE]
  /\ last' = NoUid /\ writeQ' = <<>> /\ report' = NoReport
  /\ appQ' = <<>> /\ task' = [t \in Tasks |-> Idle]
  /\ UNCHANGED <<durable, stored, taken, dropped, crossed, swaps>>

TaskStep(t) ==
  \/ ApplySkipped(t) \/ ApplyImmediate(t)
  \/ ApplyOpenPrintTag(t) \/ ApplyOpenTag3D(t)
  \/ SpoolmanDeduct(t) \/ SettleSync(t)

ManagerNext ==
  \/ \E u \in Uids : PlaceTag(u)
  \/ TakeTag
  \/ ReadTag \/ ReadTagFails \/ TagAbsent
  \/ \E u \in Uids, g \in Grams : Deduct(u, g) \/ DeductTray(u, g)
  \/ CheckReader \/ HandleMessage
  \/ \E t \in Tasks : TaskStep(t)
  \/ ProcessWrite \/ DeliverResult
  \/ Reboot

ManagerSpec == ManagerInit /\ [][ManagerNext]_managerVars

\* The scheduler runs every task, and no HTTP call or NFC transfer is endless
\* (each has a timeout).  Nothing is assumed of the user: tags need not come.
ManagerFairness ==
  /\ \A t \in Tasks : WF_managerVars(TaskStep(t))
  /\ WF_managerVars(CheckReader)
  /\ WF_managerVars(HandleMessage)
  /\ WF_managerVars(DeliverResult)

FairManagerSpec == ManagerSpec /\ ManagerFairness
-----------------------------------------------------------------------------
(* Properties *)

\* Types and bounds of the queues; no claim is left unbound between two lock
\* holds, so that each one has a write or a task that will end it.
ManagerTypeOK ==
  /\ claims \in [Uids -> Claims \cup {NoClaim}]
  /\ nvs \in [Uids -> 0 .. MaxStored]
  /\ Len(writeQ) <= QUEUE_DEPTH
  /\ Len(appQ) <= APP_QUEUE
  /\ \A u \in Claimed : claims[u].state \in {"Bound", "Immediate"}

\* How many writes and results in flight carry this id.
InFlight(id) ==
    Cardinality({i \in 1 .. Len(writeQ) : writeQ[i].id = id})
  + Cardinality({i \in 1 .. Len(appQ) : appQ[i].type = "updated" /\ appQ[i].id = id})
  + (IF report # NoReport /\ report.id = id THEN 1 ELSE 0)

\* Every claim has exactly one party that will end it: a bound claim one write
\* or result in flight, an immediate claim one task.  Without it a deduction
\* is stranded until the next reboot (NFCManager.cpp:1812-1818).
EveryClaimHasAnOwner ==
  \A u \in Claimed :
    IF claims[u].state = "Bound" THEN InFlight(claims[u].id) = 1
    ELSE Cardinality({t \in Tasks :
             task[t].pc \in {"spoolman", "accepted", "refused", "unavailable"}
             /\ task[t].uid = u}) = 1

\* No gram ever stored is forgotten: it is still pending in NVS, or has been
\* absorbed by the tag or by Spoolman, or was dropped by the policy for tags
\* without a weight field.  Holds through write failures, full queues and
\* reboots, except for a write computed from another tag's data.
NeverLost ==
  \A u \in Uids \ crossed :
    stored[u] + Landed(u) <= nvs[u] + taken[u] + dropped[u]

\* No gram is deducted twice, except when an effect landed whose success never
\* reached NVS: then at most that claim's grams, once per such event.
NeverTwice ==
  \A u \in Uids \ crossed :
    nvs[u] + taken[u] + dropped[u] <= stored[u] + Landed(u) + unsure[u]

\* A claim does not outlive its write: once the request has left the write
\* queue, or when there is none, the claim ends and the UID can be deducted
\* from again, however full the message queue and however slow Spoolman.
ClaimsEnd ==
  \A u \in Uids :
    (u \in Claimed /\ \A i \in 1 .. Len(writeQ) : writeQ[i].uid # u)
      ~> (u \notin Claimed)

\* DeductionPolicy.h:4-6: "An unavailable Spoolman endpoint is terminal only
\* when a presented tag has no writable weight target."  (A tag that could not
\* be read counts as having none.)
TerminalOnlyWhenUnwritable ==
  \A t \in Tasks :
    At(t, "unavailable") /\ task[t].prefer /\ task[t].kind # "BlankTag"
      => format[task[t].uid] \notin {"OpenPrintTag", "OpenTag3D"}

\* DeductionManager.cpp:215: "Clamp: don't deduct more than what's on the tag":
\* what a write takes is computed from the tag it is for.
ComputedFromItsOwnTag == crossed = {}
=============================================================================
