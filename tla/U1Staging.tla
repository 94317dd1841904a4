------------------------------ MODULE U1Staging ------------------------------
(***************************************************************************)
(* What the Snapmaker U1 is told about the filament on its lanes.  In the  *)
(* fixed mode a scan is posted to one lane at once; in the stage mode it   *)
(* is held until a lane is picked, by hand or by the sensor of a lane that *)
(* loads.  A smart tag that lacks fields registers an augment, to be       *)
(* completed by the result of the Spoolman sync.                           *)
(*                                                                         *)
(* Every step of U1Manager runs in the loop() task (main.cpp); the scan    *)
(* task and the Spoolman task reach it through two queues.  Abstracted:    *)
(* the posted record is the spool it is of, the version of the tag its     *)
(* material name was read from, and whether it has the fields that only    *)
(* Spoolman knows.  Spoolman is enabled, the mode is self-directed, and    *)
(* the configuration does not change (saving it restarts the scanner).     *)
(***************************************************************************)
EXTENDS Integers, Sequences, FiniteSets

CONSTANTS
  Smart,      \* spools with a smart tag
  Generic,    \* spools with a UID-only tag
  Opt,        \* the smart ones in OpenPrintTag format
  Gappy,      \* the smart ones whose tag lacks a field that the U1 wants
  NoSpool,
  Lanes,      \* tool lanes, numbered as the sensors are
  FixedLane,  \* u1_channel
  Ttl,        \* STAGE_TTL_MS = PENDING_AUGMENT_TTL_MS = MOONRAKER_BACKOFF_MS, in ticks
  AppDepth,   \* QUEUE_SIZE of ApplicationManager
  SyncDepth,  \* QUEUE_SIZE of SpoolmanManager
  MaxScans,   \* bound: presentations of a tag; each gappy one may be rewritten once besides
  MaxFaults   \* bound: requests that fail, to the printer or to Spoolman

Spools == Smart \cup Generic

ASSUME SpoolAssumption ==
  /\ Smart \cap Generic = {} /\ Opt \subseteq Smart /\ Gappy \subseteq Smart
  /\ IsFiniteSet(Gappy)
  /\ NoSpool \notin Spools
ASSUME LaneAssumption == Lanes \subseteq Nat /\ FixedLane \in Lanes
ASSUME BoundAssumption ==
  /\ {Ttl, AppDepth, SyncDepth} \subseteq Nat \ {0}
  /\ {MaxScans, MaxFaults} \subseteq Nat

VARIABLES
  mode,      \* "fixed" or "stage"
  reader,    \* currentSpool: the tag present, and whether kind is GenericUidTag
  version,   \* which material name each smart tag holds
  inbox,     \* messages to the application
  wanted,    \* Spoolman requests
  staged,    \* staged_
  pending,   \* pendingAugment_
  last,      \* lastAssign_
  pick,      \* autoPick_
  left,      \* ticks left of the staged spool, the augment, the assignment, the backoff
  told,      \* the spool the printer has recorded for each lane, and the scan it stems from
  emptied,   \* history: lanes that a poll found empty since the spool was staged
  shown,     \* history: number of the last detection of each spool
  doubt,     \* history: scans that may have reached the printer twice
  scans, faults

readerVars == <<reader, version, scans, shown>>
stageVars == <<staged, pick, emptied>>
u1Vars == <<mode, reader, version, inbox, wanted, staged, pending, last, pick, left,
            told, emptied, shown, doubt, scans, faults>>

Names == {"first", "second", "database"}
Infos == [of : Spools \cup {NoSpool}, name : Names, rich : BOOLEAN]
NoInfo == [of |-> NoSpool, name |-> "first", rich |-> FALSE]
NoAugment == [active |-> FALSE, info |-> NoInfo, scan |-> 0]
NoStage == [active |-> FALSE, info |-> NoInfo, scan |-> 0]
NoAssign == [lane |-> -1, uid |-> NoSpool]
Unset == [valid |-> FALSE, baseline |-> {}, count |-> [l \in Lanes |-> 0]]

Init ==
  /\ mode \in {"fixed", "stage"}
  /\ reader = [uid |-> NoSpool, generic |-> FALSE]
  /\ version = [s \in Gappy |-> "first"]
  /\ inbox = <<>> /\ wanted = <<>>
  /\ staged = NoStage /\ pending = NoAugment
  /\ last = NoAssign
  /\ pick = Unset
  /\ left = [staged |-> 0, pending |-> 0, last |-> 0, backoff |-> 0]
  /\ told = [l \in Lanes |-> [of |-> NoSpool, scan |-> 0]]
  /\ emptied = {} /\ shown = [s \in Spools |-> 0] /\ doubt = {}
  /\ scans = 0 /\ faults = 0

(* The queues.  A message or a request that finds its queue full is dropped. *)

Least(a, b) == IF a < b THEN a ELSE b
Offer(q, ms, depth) == SubSeq(q \o ms, 1, Least(Len(q) + Len(ms), depth))

\* The oldest message, if it is of this type.
Arrived(type) == {inbox[i] : i \in {j \in DOMAIN inbox : j = 1 /\ inbox[j].type = type}}

Fail(bad) == IF bad THEN faults < MaxFaults /\ faults' = faults + 1 ELSE UNCHANGED faults

(* The scan task.  Reading an OpenPrintTag leaves `kind` as it was (parseAndUpdateState). *)

Announce(s, generic) ==
  /\ scans' = scans + 1
  /\ shown' = [shown EXCEPT ![s] = scans + 1]
  /\ reader' = [uid |-> s, generic |-> generic]
  /\ inbox' = Offer(inbox, <<[type |-> "detected", spool |-> s, scan |-> scans + 1,
                              name |-> IF s \in Gappy THEN version'[s] ELSE "first"]>>, AppDepth)
  /\ UNCHANGED <<mode, wanted, stageVars, pending, last, left, told, doubt, faults>>

Rewritten == {s \in Gappy : version[s] = "second"}

Scan(s) ==
  /\ scans < MaxScans + Cardinality(Rewritten)
  /\ UNCHANGED version
  /\ Announce(s, IF s \in Opt THEN reader.generic ELSE s \in Generic)

\* The tag on the reader is written anew with another material name and announced again.
Rewrite ==
  /\ reader.uid \in Gappy /\ version[reader.uid] = "first"
  /\ version' = [version EXCEPT ![reader.uid] = "second"]
  /\ Announce(reader.uid, FALSE)

Remove ==
  /\ reader.uid # NoSpool
  /\ reader' = [reader EXCEPT !.uid = NoSpool]
  /\ UNCHANGED <<mode, version, inbox, wanted, stageVars, pending, last, left, told,
                 shown, doubt, scans, faults>>

(* The Spoolman task.  A sync answers with the material name of its own request and nothing  *)
(* of Spoolman's record; a lookup answers with the record (processSyncRequest).              *)
Answer(ok) ==
  /\ wanted # <<>>
  /\ wanted' = Tail(wanted)
  /\ LET r == Head(wanted) IN
       inbox' = Offer(inbox, <<[type |-> "synced", spool |-> r.spool, scan |-> r.scan,
                                name |-> r.name, lookup |-> r.lookup, ok |-> ok]>>, AppDepth)
  /\ Fail(~ok)
  /\ UNCHANGED <<mode, readerVars, stageVars, pending, last, left, told, doubt>>

(* One POST to the printer.  "refused" is an HTTP error, which the code takes for success as *)
(* the status is not negative; "lost" is applied although the reply never comes; "busy" is   *)
(* the HTTP mutex.                                                                           *)
Outcomes == {"ok", "refused", "lost", "unreachable", "busy"}
TakenForDone(o) == o \in {"ok", "refused"}
Unreachable(o) == o \in {"lost", "unreachable"}

Post(o, lane, s, scan) ==
  /\ Fail(o # "ok")
  /\ told' = IF o \in {"ok", "lost"}
             THEN [told EXCEPT ![lane] = [of |-> s, scan |-> scan]] ELSE told
  /\ doubt' = IF o = "lost" THEN doubt \cup {scan} ELSE doubt

BackoffAfter(o) ==
  CASE TakenForDone(o) -> 0 [] Unreachable(o) -> Ttl [] OTHER -> left.backoff

(* Staging *)

\* Mutant: the sensors' baseline outlives the spool it was taken for.
StageSpoolKeepsPick(info, scan) ==
  /\ UNCHANGED pick
  /\ staged' = [active |-> TRUE, info |-> info, scan |-> scan]
  /\ emptied' = {}

StageSpool(info, scan) ==
  /\ pick' = Unset
  /\ staged' = [active |-> TRUE, info |-> info, scan |-> scan]
  /\ emptied' = {}

\* Mutant: an assigned spool stays staged.
KeepStaged == UNCHANGED staged

ClearStaged == staged' = NoStage

HasStagedSpool == staged.active /\ left.staged > 0

AssignStagedToChannel(o, lane) ==
  /\ HasStagedSpool
  /\ Post(o, lane, staged.info.of, staged.scan)
  /\ IF TakenForDone(o)
     THEN /\ ClearStaged
          /\ last' = [lane |-> lane, uid |-> staged.info.of]
          /\ left' = [left EXCEPT !.backoff = 0, !.last = Ttl]
     ELSE /\ left' = [left EXCEPT !.backoff = BackoffAfter(o)]
          /\ UNCHANGED <<staged, last>>

\* The user picks on the web page or the keypad.
Pick(lane) ==
  /\ mode = "stage"
  /\ \E o \in Outcomes : AssignStagedToChannel(o, lane)
  /\ UNCHANGED <<mode, readerVars, inbox, wanted, pending, pick, emptied>>

\* The page asks for the staged spool and thereby drops an expired one.
GetStagedState ==
  /\ staged.active /\ left.staged = 0
  /\ staged' = NoStage
  /\ UNCHANGED <<mode, readerVars, inbox, wanted, pending, last, pick, left, told, emptied, doubt,
                 faults>>

(* The sensors *)

Polls == mode = "stage" /\ HasStagedSpool /\ left.backoff = 0

\* The query fails in transport.
PollFails ==
  /\ Polls /\ Fail(TRUE)
  /\ left' = [left EXCEPT !.backoff = Ttl]
  /\ UNCHANGED <<mode, readerVars, inbox, wanted, stageVars, pending, last, told, doubt>>

\* Each poll finds some lanes loaded, any of them as lanes may load and unload between polls.
\* The first answer after a staging is the baseline.
PollBaseline(loaded) ==
  /\ Polls /\ ~pick.valid
  /\ pick' = [pick EXCEPT !.valid = TRUE, !.baseline = loaded]
  /\ emptied' = emptied \cup (Lanes \ loaded)
  /\ UNCHANGED <<mode, readerVars, inbox, wanted, staged, pending, last, left, told, doubt, faults>>

\* A lane outside the baseline counts the polls in a row that find it loaded; the for loop
\* leaves the lanes behind the first one that counts two as they are.
Settled(loaded) == {l \in loaded \ pick.baseline : pick.count[l] > 0}
First(ls) == CHOOSE l \in ls : \A m \in ls : l <= m
Counted(loaded, seen) ==
  [l \in Lanes |-> IF l \notin seen \ pick.baseline THEN pick.count[l]
                   ELSE IF l \notin loaded THEN 0 ELSE IF pick.count[l] = 0 THEN 1 ELSE 2]

PollCounts(loaded) ==
  /\ Polls /\ pick.valid /\ Settled(loaded) = {}
  /\ pick' = [pick EXCEPT !.count = Counted(loaded, Lanes)]
  /\ emptied' = emptied \cup (Lanes \ loaded)
  /\ UNCHANGED <<mode, readerVars, inbox, wanted, staged, pending, last, left, told, doubt, faults>>

PollAssigns(loaded) ==
  /\ Polls /\ pick.valid /\ Settled(loaded) # {}
  /\ LET lane == First(Settled(loaded)) IN
       /\ pick' = [pick EXCEPT !.count = Counted(loaded, {l \in Lanes : l <= lane})]
       /\ \E o \in Outcomes : AssignStagedToChannel(o, lane)
  /\ emptied' = emptied \cup (Lanes \ loaded)
  /\ UNCHANGED <<mode, readerVars, inbox, wanted, pending>>

(* SPOOL_DETECTED and GENERIC_TAG_DETECTED *)

\* A record with gaps waits for the sync; any other takes the place of one that waits.
Registered(info, scan) ==
  IF info.of \in Gappy THEN [active |-> TRUE, info |-> info, scan |-> scan] ELSE NoAugment

\* What the tag says, with the defaults of its material.
TagInfo(m) == [of |-> m.spool, name |-> m.name, rich |-> m.spool \notin Gappy]

PublishFromDetection(m) ==
  LET info == TagInfo(m)
      wait == IF m.spool \in Gappy THEN Ttl ELSE 0
  IN \/ /\ mode = "stage"
        /\ StageSpool(info, m.scan)
        /\ pending' = Registered(info, m.scan)
        /\ left' = [left EXCEPT !.staged = Ttl, !.pending = wait]
        /\ UNCHANGED <<told, doubt, faults>>
     \/ /\ mode = "fixed" /\ left.backoff > 0
        /\ UNCHANGED <<stageVars, pending, left, told, doubt, faults>>
     \/ /\ mode = "fixed" /\ left.backoff = 0
        /\ \E o \in Outcomes :
             /\ Post(o, FixedLane, m.spool, m.scan)
             /\ IF TakenForDone(o)
                THEN /\ pending' = Registered(info, m.scan)
                     /\ left' = [left EXCEPT !.pending = wait]
                ELSE /\ left' = [left EXCEPT !.backoff = BackoffAfter(o)]
                     /\ UNCHANGED pending
        /\ UNCHANGED stageVars

Request(m, lookup) == [spool |-> m.spool, scan |-> m.scan, name |-> m.name, lookup |-> lookup]

HandleSpoolDetected ==
  /\ \E m \in Arrived("detected") :
       /\ m.spool \in Smart
       /\ PublishFromDetection(m)
       /\ wanted' = Offer(wanted, <<Request(m, FALSE), Request(m, TRUE)>>, SyncDepth)
  /\ inbox' = Tail(inbox)
  /\ UNCHANGED <<mode, readerVars, last>>

HandleGenericTagDetected ==
  /\ \E m \in Arrived("detected") :
       /\ m.spool \in Generic
       /\ wanted' = Offer(wanted, <<Request(m, TRUE)>>, SyncDepth)
  /\ inbox' = Tail(inbox)
  /\ UNCHANGED <<mode, readerVars, stageVars, pending, last, left, told, doubt, faults>>

(* SPOOLMAN_SYNCED: publishFromSpoolmanSync() by its branches *)

\* Mutant: the reader is not looked at again after the lookup.
OnReaderOnce(s) == TRUE

OnReader(s) == reader = [uid |-> s, generic |-> TRUE]

Counts(m) ==
  /\ m.ok /\ left.backoff = 0
  /\ IF m.lookup THEN OnReader(m.spool) ELSE pending.active /\ pending.info.of = m.spool

Synced(m) ==
  /\ inbox' = Tail(inbox)
  /\ UNCHANGED <<mode, readerVars, wanted, last>>

SyncIgnored ==
  \E m \in Arrived("synced") :
    /\ Synced(m) /\ ~Counts(m)
    /\ UNCHANGED <<stageVars, pending, left, told, doubt, faults>>

\* What Spoolman says.
DatabaseInfo(m) == [of |-> m.spool, name |-> "database", rich |-> TRUE]

\* The scan of this spool that an augment waits for.
Waiting(s) == {n \in {pending.scan} : pending.active /\ pending.info.of = s}

\* The record of Spoolman is all there is of a UID-only tag; an OpenPrintTag read after one
\* passes for one as well, and its staging may then be the older scan of two.
LookupStaged ==
  \E m \in Arrived("synced") :
    /\ Synced(m) /\ m.lookup /\ Counts(m) /\ mode = "stage"
    /\ StageSpool(DatabaseInfo(m), m.scan)
    /\ left' = [left EXCEPT !.staged = Ttl]
    /\ doubt' = IF m.spool \in Smart THEN doubt \cup {m.scan} \cup Waiting(m.spool) ELSE doubt
    /\ UNCHANGED <<pending, told, faults>>

LookupPosted ==
  \E m \in Arrived("synced"), o \in Outcomes :
    /\ Synced(m) /\ m.lookup /\ Counts(m) /\ mode = "fixed"
    /\ Post(o, FixedLane, m.spool, m.scan)
    /\ left' = [left EXCEPT !.backoff = BackoffAfter(o)]
    /\ UNCHANGED <<stageVars, pending>>

\* overlaySpoolmanFields(): of a sync result only the material name can differ.
Merged(m) == [pending.info EXCEPT !.name = m.name]
Changed(m) == Merged(m) # pending.info
StillStaged(m) == mode = "stage" /\ staged.active /\ staged.info.of = m.spool
PickedFor(m) == last.uid = m.spool

\* The augment is used up whether it brings something or not.
Augment(m) ==
  Synced(m) /\ ~m.lookup /\ Counts(m) /\ pending' = NoAugment

AugmentBringsNothing ==
  \E m \in Arrived("synced") :
    /\ Augment(m)
    /\ \/ ~Changed(m)
       \/ mode = "stage" /\ ~StillStaged(m) /\ ~PickedFor(m)
    /\ left' = [left EXCEPT !.pending = 0]
    /\ UNCHANGED <<stageVars, told, doubt, faults>>

AugmentStaged ==
  \E m \in Arrived("synced") :
    /\ Augment(m) /\ Changed(m) /\ StillStaged(m)
    /\ staged' = [staged EXCEPT !.info = Merged(m)]
    /\ left' = [left EXCEPT !.pending = 0]
    /\ UNCHANGED <<pick, emptied, told, doubt, faults>>

\* After the pick the lane of the pick is told again; no reply to that changes the backoff.
AugmentAfterAssign ==
  \E m \in Arrived("synced"), o \in Outcomes :
    /\ Augment(m) /\ Changed(m) /\ mode = "stage" /\ ~StillStaged(m) /\ PickedFor(m)
    /\ Post(o, last.lane, m.spool, pending.scan)
    /\ left' = [left EXCEPT !.pending = 0]
    /\ UNCHANGED stageVars

AugmentPosted ==
  \E m \in Arrived("synced"), o \in Outcomes :
    /\ Augment(m) /\ Changed(m) /\ mode = "fixed"
    /\ Post(o, FixedLane, m.spool, pending.scan)
    /\ left' = [left EXCEPT !.pending = 0, !.backoff = BackoffAfter(o)]
    /\ UNCHANGED stageVars

HandleSpoolmanSynced ==
  \/ SyncIgnored \/ LookupStaged \/ LookupPosted
  \/ AugmentBringsNothing \/ AugmentStaged \/ AugmentAfterAssign \/ AugmentPosted

(* The world *)

\* An augment or an assignment that runs out is forgotten here; the code does so when it next
\* looks at it.  A staged spool that runs out is still there (GetStagedState).
Tick ==
  /\ \E k \in DOMAIN left : left[k] > 0
  /\ left' = [k \in DOMAIN left |-> IF left[k] > 0 THEN left[k] - 1 ELSE 0]
  /\ pending' = IF left'.pending = 0 THEN NoAugment ELSE pending
  /\ last' = IF left'.last = 0 THEN NoAssign ELSE last
  /\ UNCHANGED <<mode, readerVars, inbox, wanted, stageVars, told, doubt, faults>>

Next ==
  \/ \E s \in Spools : Scan(s)
  \/ Rewrite \/ Remove
  \/ \E ok \in BOOLEAN : Answer(ok)
  \/ \E l \in Lanes : Pick(l)
  \/ GetStagedState
  \/ PollFails
  \/ \E loaded \in SUBSET Lanes : PollBaseline(loaded) \/ PollCounts(loaded) \/ PollAssigns(loaded)
  \/ HandleSpoolDetected \/ HandleGenericTagDetected \/ HandleSpoolmanSynced
  \/ Tick

U1Spec == Init /\ [][Next]_u1Vars

(* Properties *)

Numbers == 1..(MaxScans + Cardinality(Gappy))
Messages ==
  [type : {"detected"}, spool : Spools, scan : Numbers, name : Names]
    \cup [type : {"synced"}, spool : Spools, scan : Numbers, name : Names,
          lookup : BOOLEAN, ok : BOOLEAN]
Requests == [spool : Spools, scan : Numbers, name : Names, lookup : BOOLEAN]

\* Types, the capacities of the queues, and that an augment waits for the spool it is of.
U1TypeOK ==
  /\ mode \in {"fixed", "stage"}
  /\ reader \in [uid : Spools \cup {NoSpool}, generic : BOOLEAN]
  /\ version \in [Gappy -> {"first", "second"}]
  /\ inbox \in Seq(Messages) /\ Len(inbox) <= AppDepth
  /\ wanted \in Seq(Requests) /\ Len(wanted) <= SyncDepth
  /\ staged \in [active : BOOLEAN, info : Infos, scan : {0} \cup Numbers]
  /\ pending \in [active : BOOLEAN, info : Infos, scan : {0} \cup Numbers]
  /\ pending.active => pending.info.of \in Gappy
  /\ last \in [lane : Lanes \cup {-1}, uid : Spools \cup {NoSpool}]
  /\ pick \in [valid : BOOLEAN, baseline : SUBSET Lanes, count : [Lanes -> 0..2]]
  /\ left \in [{"staged", "pending", "last", "backoff"} -> 0..Ttl]
  /\ emptied \subseteq Lanes /\ doubt \subseteq Numbers
  /\ told \in [Lanes -> [of : Spools \cup {NoSpool}, scan : {0} \cup Numbers]]
  /\ shown \in [Spools -> {0} \cup Numbers] /\ scans \in {0} \cup Numbers /\ faults \in 0..MaxFaults

\* A lane that the sensors pick was found empty by a poll since this very spool was staged
\* (U1Manager.h: "edge, not level"), through re-staging, failed queries and failed posts.
AutoPickIsAnEdge ==
  [][\A loaded \in SUBSET Lanes :
        PollAssigns(loaded) => First(Settled(loaded)) \in emptied]_u1Vars

\* One scan puts its spool on one lane at most, whoever picks and whenever the sync answers;
\* unless the printer's reply was lost or the lookup took an OpenPrintTag for a UID-only tag.
OneLanePerScan ==
  \A k, l \in Lanes : k # l /\ told[k].scan = told[l].scan => told[k].scan \in doubt \cup {0}

\* What is late never displaces what is newer: a lane changes to another spool only if that
\* spool was detected after the one it displaces.
NewerScanStands ==
  [][\A l \in Lanes : told'[l].of # told[l].of
                        => shown[told'[l].of] > told[l].scan]_u1Vars

\* A smart tag with gaps is completed by Spoolman while it waits (publishFromSpoolmanSync,
\* "merges Spoolman data ... if Spoolman supplied something new"): after one scan, with every
\* request answered, no failure and no time lost, the staged record has Spoolman's fields.
AugmentArrives ==
  scans = 1 /\ faults = 0 /\ inbox = <<>> /\ wanted = <<>> /\ staged.active /\ left.staged = Ttl
    => staged.info.rich
=============================================================================
