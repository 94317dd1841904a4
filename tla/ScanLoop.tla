------------------------------ MODULE ScanLoop ------------------------------
(***************************************************************************)
(* The NFC scan task of NFCManager: which tag is on the reader, when it is *)
(* read again, what the application is told about it, and when the queued  *)
(* writes run.  A cycle of scanLoop() is three steps, between which the    *)
(* tag may be moved and other tasks may call in: detect, read (only when   *)
(* the tag is not a skippable duplicate), and the write queue.             *)
(*                                                                         *)
(* Abstracted: what a tag holds and what a write makes of it (TagWrites).  *)
(* Every request is bound to a UID (the unbound ones of the old HTTP API   *)
(* take whatever tag there is).  setupRF() failures lead to a restart only *)
(* after a minute of them, beyond the bound on faults.                     *)
(***************************************************************************)
EXTENDS Naturals, Sequences

CONSTANTS
  NtagTags,      \* UIDs of ISO14443 tags written page by page
  BambuTags,     \* UIDs of Bambu tags (MIFARE Classic), which are only read
  OptTags,       \* UIDs of ISO15693 OpenPrintTag tags
  Similar,       \* pairs of UIDs that share their first three bytes
  NoTag,
  MISSES,        \* TAG_ABSENT_MISS_THRESHOLD
  MaxWrites,     \* bound: write requests ever queued
  MaxGlitches    \* bound: RF failures and missed detections

Uids == NtagTags \cup BambuTags \cup OptTags

ASSUME TagAssumption == NoTag \notin Uids
ASSUME SimilarAssumption ==
  /\ Similar \subseteq Uids \X Uids
  /\ \A u \in Uids : <<u, u>> \in Similar
ASSUME BoundAssumption ==
  MISSES \in Nat \ {0} /\ MaxWrites \in Nat /\ MaxGlitches \in Nat

VARIABLES
  tag,        \* the tag physically on the reader
  step,       \* where the cycle is
  lastSeen,   \* lastSeenUid; NoTag: lastSeenUidLength is 0
  seenValid,  \* lastSeenValid
  fresh,      \* less than SCAN_COOLDOWN_MS since lastSeenMs
  misses,     \* absentMisses_
  spool,      \* currentSpool: uid, present, tag_data_valid
  selected,   \* selectedUidHex_
  queue,      \* writeQueue
  suppress,   \* suppressReDetection_ and its UID
  told,       \* what the last tag message told the application
  owed,       \* history: promises made and not yet kept
  silence,    \* history: detections missed in a row
  forgotten,  \* history: lastSeenValid was cleared since the last tag message
  writes, glitches   \* budgets spent

envVars == <<tag, glitches>>
seen == <<lastSeen, seenValid, fresh>>
hist == <<owed, silence, forgotten>>
scanVars == <<envVars, step, seen, misses, spool, selected, queue,
              suppress, told, hist, writes>>

Kinds(u) == IF u \in NtagTags THEN {"pages"} ELSE {"field", "raw", "format"}
Requests == {[uid |-> u, kind |-> k] : u \in Uids, k \in {"pages", "field", "raw", "format"}}
Promises == {"resend", "rescan"}

ScanInit ==
  /\ tag = NoTag /\ glitches = 0
  /\ step = "detect"
  /\ lastSeen = NoTag /\ seenValid = FALSE /\ fresh = FALSE
  /\ misses = 0
  /\ spool = [uid |-> NoTag, present |-> FALSE, valid |-> FALSE]
  /\ selected = NoTag
  /\ queue = <<>> /\ suppress = NoTag
  /\ told = NoTag
  /\ owed = {} /\ silence = 0 /\ forgotten = FALSE
  /\ writes = 0
-----------------------------------------------------------------------------
(* The world outside, and the calls of other tasks *)

\* Also a quick swap, without a cycle that finds the reader empty.
MoveTag ==
  /\ tag' \in (Uids \cup {NoTag}) \ {tag}
  /\ UNCHANGED <<step, seen, misses, spool, selected, queue, suppress,
                 told, hist, writes, glitches>>

CooldownEnds ==
  /\ fresh
  /\ fresh' = FALSE
  /\ UNCHANGED <<envVars, step, lastSeen, seenValid, misses, spool, selected,
                 queue, suppress, told, hist, writes>>

\* enqueueWrite(): FORMAT_NEW opens a batch, and so may the deduction of
\* finishPrint(), whose suppress_sync is not initialized; re-detection of the
\* batch's tag is off.
EnqueueWrite ==
  /\ writes < MaxWrites
  /\ \E u \in Uids : \E k \in Kinds(u) :
       /\ queue' = Append(queue, [uid |-> u, kind |-> k])
       /\ \/ k \in {"format", "field"} /\ suppress' = u
          \/ k # "format" /\ UNCHANGED suppress
  /\ writes' = writes + 1
  /\ UNCHANGED <<envVars, step, seen, misses, spool, selected, told, hist>>

\* Clearing lastSeenValid without a word to the application.
Forget == forgotten' = (forgotten \/ seenValid)

\* requestCurrentSpool(), from handlePrintStarted, and from handleSpoolUpdated
\* in self-directed mode when Spoolman is to be told but no OpenPrintTag data is valid.
RequestCurrentSpool ==
  /\ seenValid' = FALSE
  /\ lastSeen' = NoTag
  /\ owed' = IF spool.present THEN owed \cup {"resend"} ELSE owed
  /\ Forget
  /\ UNCHANGED <<envVars, step, fresh, misses, spool, selected, queue,
                 suppress, told, silence, writes>>
-----------------------------------------------------------------------------
(* The cycle: detection *)

\* Variant: the cooldown never ends.
DuplicateForever(u) ==
  \/ ~seenValid /\ spool.present /\ u = spool.uid
  \/ lastSeen # NoTag /\ <<u, lastSeen>> \in Similar
  \/ seenValid /\ u = lastSeen

\* isDuplicateSpool()
Duplicate(u) ==
  \/ ~seenValid /\ spool.present /\ u = spool.uid
  \/ lastSeen # NoTag /\ fresh /\ <<u, lastSeen>> \in Similar
  \/ seenValid /\ u = lastSeen

\* isSkippableDuplicate()
Skippable(u) == Duplicate(u) \/ u = suppress

\* Variant: a detection does not reset the count of misses.
DetectKeepsMisses ==
  /\ step = "detect" /\ tag # NoTag
  /\ selected' = tag
  /\ step' = IF Skippable(tag) THEN "write" ELSE "read"
  /\ silence' = 0
  /\ UNCHANGED <<envVars, seen, misses, spool, queue, suppress, told, owed, forgotten, writes>>

\* Variant: the queue is looked at only after a new tag was read.
DetectWithoutWrites ==
  /\ step = "detect" /\ tag # NoTag
  /\ misses' = 0
  /\ selected' = tag
  /\ step' = IF Skippable(tag) THEN "detect" ELSE "read"
  /\ silence' = 0
  /\ UNCHANGED <<envVars, seen, spool, queue, suppress, told, owed, forgotten, writes>>

Detect ==
  /\ step = "detect" /\ tag # NoTag
  /\ misses' = 0
  /\ selected' = tag
  /\ step' = IF Skippable(tag) THEN "write" ELSE "read"
  /\ silence' = 0
  /\ UNCHANGED <<envVars, seen, spool, queue, suppress, told, owed, forgotten, writes>>

\* prepareRF() fails: no detection, and the next one starts with a reset.
RfFails ==
  /\ step = "detect" /\ glitches < MaxGlitches
  /\ glitches' = glitches + 1
  /\ seenValid' = FALSE
  /\ Forget
  /\ UNCHANGED <<tag, step, lastSeen, fresh, misses, spool, selected, queue,
                 suppress, told, owed, silence, writes>>

\* detectTag() finds nothing, because nothing is there or by a glitch.
NothingFound ==
  /\ step = "detect"
  /\ \/ tag = NoTag /\ UNCHANGED glitches
     \/ tag # NoTag /\ glitches < MaxGlitches /\ glitches' = glitches + 1
  /\ silence' = IF silence < MISSES THEN silence + 1 ELSE silence

\* handleTagAbsent(): removal is announced only for a tag seen as valid.
HandleTagAbsent ==
  /\ told' = IF seenValid THEN NoTag ELSE told
  /\ spool' = [spool EXCEPT !.present = FALSE]
  /\ seenValid' = FALSE
  /\ suppress' = NoTag
  /\ selected' = NoTag
  /\ owed' = {}

Absent ==
  /\ NothingFound
  /\ ~seenValid \/ misses + 1 >= MISSES
  /\ HandleTagAbsent
  /\ misses' = IF seenValid THEN 0 ELSE misses
  /\ UNCHANGED <<tag, step, lastSeen, fresh, queue, forgotten, writes>>

\* Variant: the miss is not counted.
MissUncounted ==
  /\ NothingFound
  /\ seenValid /\ misses + 1 < MISSES
  /\ UNCHANGED <<tag, step, seen, misses, spool, selected, queue, suppress, told,
                 owed, forgotten, writes>>

Miss ==
  /\ NothingFound
  /\ seenValid /\ misses + 1 < MISSES
  /\ misses' = misses + 1
  /\ UNCHANGED <<tag, step, seen, spool, selected, queue, suppress, told,
                 owed, forgotten, writes>>
-----------------------------------------------------------------------------
(* The cycle: reading a new tag, handleNewTag() *)

\* Whatever the read yields (a format, a bare UID, a blank tag) the tag becomes
\* the current spool and is announced.  tag_data counts as valid when an
\* OpenPrintTag was read, and also when a Bambu tag was, of which it is not.
Read ==
  /\ step = "read"
  /\ \E ok \in BOOLEAN :
       /\ ok => tag = selected /\ selected \in OptTags \cup BambuTags
       /\ spool' = [uid |-> selected, present |-> TRUE, valid |-> ok]
  /\ lastSeen' = selected /\ seenValid' = TRUE /\ fresh' = TRUE
  /\ told' = selected
  /\ owed' = {} /\ forgotten' = FALSE
  /\ step' = "write"
  /\ UNCHANGED <<envVars, misses, selected, queue, suppress, silence, writes>>
-----------------------------------------------------------------------------
(* The cycle: processWriteQueue(), at most one write *)

\* validateWriteUid(); a field update also needs the data it starts from.
Allowed(r) ==
  /\ r.uid = selected
  /\ r.kind = "field" => spool.valid /\ spool.uid = r.uid

\* ISO15693 commands carry the UID; for pages the PN5180 activates whichever
\* ISO14443 tag is there, and reports success if that one can be written.
Reaches(r) ==
  IF r.kind = "pages" THEN tag \in NtagTags ELSE tag = r.uid /\ tag \in OptTags

\* The message that tells the application about the current OpenPrintTag spool.
Announce(s) == told' = IF s.valid THEN s.uid ELSE told

\* A queue that ran empty ends the batch and announces its result.
EndBatch(rest, batch, s, otherwise) ==
  IF rest = <<>> /\ batch # NoTag
  THEN suppress' = NoTag /\ Announce(s)
  ELSE suppress' = batch /\ otherwise

\* How a write that reached the tag leaves the scan state.
Wrote(r, rest) ==
  LET parsed == [spool EXCEPT !.valid = TRUE]
      pagesDone ==         \* forceRescan()
        /\ spool' = [spool EXCEPT !.present = FALSE]
        /\ owed' = owed \cup {"rescan"}
        /\ EndBatch(rest, suppress, spool, UNCHANGED told)
        /\ UNCHANGED <<seenValid, forgotten>>
      fieldDone ==
        /\ spool' = parsed
        /\ EndBatch(rest, suppress, parsed, UNCHANGED told \/ Announce(parsed))
        /\ UNCHANGED <<owed, seenValid, forgotten>>     \* WRITE_ATOMIC announces its result
      rawDone ==           \* "Force re-detection on next scan"
        /\ spool' = parsed
        /\ seenValid' = FALSE /\ Forget
        /\ owed' = owed \ {"resend"}
        /\ EndBatch(rest, suppress, parsed, Announce(parsed))
      formatDone ==
        /\ spool' = parsed
        /\ EndBatch(rest, IF rest = <<>> THEN suppress ELSE spool.uid, parsed, UNCHANGED told)
        /\ owed' = owed \ {"resend"}
        /\ UNCHANGED <<seenValid, forgotten>>
  IN  \/ r.kind = "pages" /\ pagesDone
      \/ r.kind = "field" /\ (fieldDone \/ rawDone)    \* rawDone: the raw fallback
      \/ r.kind = "raw" /\ rawDone
      \/ r.kind = "format" /\ formatDone

ProcessWrite ==
  /\ step = "write" /\ spool.present /\ queue # <<>>
  /\ LET r == Head(queue) IN
       /\ queue' = Tail(queue)
       /\ \/ Allowed(r) /\ Reaches(r) /\ Wrote(r, Tail(queue))
          \/ /\ EndBatch(Tail(queue), suppress, spool, UNCHANGED told)
             /\ UNCHANGED <<spool, seenValid, owed, forgotten>>
  /\ step' = "detect"
  /\ UNCHANGED <<envVars, lastSeen, fresh, misses, selected, silence, writes>>

\* No spool is present, or nothing is queued: an open batch ends.
NothingToWrite ==
  /\ step = "write" /\ (queue = <<>> \/ ~spool.present)
  /\ IF spool.present
     THEN EndBatch(queue, suppress, spool, UNCHANGED told)
     ELSE UNCHANGED <<suppress, told>>
  /\ step' = "detect"
  /\ UNCHANGED <<envVars, seen, misses, spool, selected, queue, hist, writes>>

ScanStep == Detect \/ RfFails \/ Absent \/ Miss \/ Read \/ ProcessWrite \/ NothingToWrite

ScanNext ==
  \/ MoveTag \/ CooldownEnds \/ EnqueueWrite \/ RequestCurrentSpool
  \/ ScanStep

ScanSpec == ScanInit /\ [][ScanNext]_scanVars

\* The scan task loops for ever and the clock runs.
FairScanSpec == ScanSpec /\ WF_scanVars(ScanStep) /\ WF_scanVars(CooldownEnds)
-----------------------------------------------------------------------------
(* Properties *)

ScanTypeOK ==
  /\ tag \in Uids \cup {NoTag}
  /\ step \in {"detect", "read", "write"}
  /\ lastSeen \in Uids \cup {NoTag} /\ seenValid \in BOOLEAN /\ fresh \in BOOLEAN
  /\ misses \in 0..(MISSES - 1) /\ silence \in 0..MISSES
  /\ spool \in [uid : Uids \cup {NoTag}, present : BOOLEAN, valid : BOOLEAN]
  /\ selected \in Uids \cup {NoTag}
  /\ queue \in Seq(Requests) /\ suppress \in Uids \cup {NoTag}
  /\ told \in Uids \cup {NoTag} /\ owed \subseteq Promises
  /\ forgotten \in BOOLEAN
  /\ writes \in 0..MaxWrites /\ glitches \in 0..MaxGlitches

\* The application is told that a tag is gone only after TAG_ABSENT_MISS_THRESHOLD
\* detections in a row missed it: RF hiccups do not flap (NFCManager.cpp:850-853).
NoFlapping == [][told # NoTag /\ told' = NoTag => silence' >= MISSES]_scanVars

\* A tag that was taken away and stays away is announced as removed, however many
\* cycles and writes were under way, unless lastSeenValid was cleared meanwhile
\* without a word (a failed setupRF(), a raw write, requestCurrentSpool()).
RemovalIsNoticed ==
  \A u \in Uids : (told = u /\ tag = NoTag /\ ~forgotten)
                     ~> (told # u \/ tag # NoTag \/ forgotten)

\* A tag that stays on the reader is announced, despite the cooldown, RF
\* failures and swaps; only an open batch for that very tag may hold it back.
TagsAreAnnounced ==
  \A u \in Uids : tag = u ~> (told = u \/ tag # u \/ suppress = u)

\* Queued writes run as long as a spool is present.
QueueDrains == (queue # <<>> /\ spool.present) ~> (queue = <<>> \/ ~spool.present)

\* What requestCurrentSpool() is for, "Clear dedup to resend current spool"
\* (NFCManager.h:79): while the current tag stays on the reader it is announced.
ResendsCurrentSpool ==
  ("resend" \in owed /\ tag = spool.uid) ~> ("resend" \notin owed \/ tag # spool.uid)

\* What forceRescan() is for: a tag written page by page, while it stays on the
\* reader, is read again and its updated weight published
\* (ApplicationManager.cpp:463, NFCManager.cpp:2247-2248).
RescansAfterWrite ==
  ("rescan" \in owed /\ tag = spool.uid) ~> ("rescan" \notin owed \/ tag # spool.uid)

\* The application learns that the tag it believes present has left, without
\* exception (ApplicationManager.h:25).
RemovalIsAnnounced ==
  \A u \in Uids : (told = u /\ tag = NoTag) ~> (told # u \/ tag # NoTag)
=============================================================================
