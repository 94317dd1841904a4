# SpoolSense scanner: TLA+ models, checks and proofs

The firmware under `src/src/` reads filament spools by NFC, keeps their
remaining weight on the tag, in Spoolman, or pending in NVS, follows prints,
and tells a toolchanger which spool is on which lane. Several FreeRTOS tasks
share that state. These modules describe the parts where their interplay
decides whether filament is counted right, whether a write reaches the right
tag, whether the database keeps one spool per tag, and whether the reader has
one user at a time. TLC checks them on small instances; TLAPS proves the safety
of every one of them for every value of the constants.

Line numbers are of the files under `src/`; `PROJECT.json` maps every
definition to the lines it stands for.

## The system

Tasks: the *NFC scan task* (`NFCManager::scanLoop`); the Arduino *`loop()` task*
(`main.cpp`), which runs the application's message handlers
(`ApplicationManager::processMessages`, a queue of 12), the web handlers, the
keypad and the toolchanger's tick one after the other; the *MQTT task*
(`HomeAssistantManager`); the *printer polling task* (`PrinterManager`); the
*Spoolman sync task*; the *OTA task* while a download runs; a *self-test task*
while a session runs; and the tasks that draw on displays and LEDs.

| Component | State it keeps | Operations | Talks to |
| --- | --- | --- | --- |
| `NFCManager` | `currentSpool` and the per-format caches, `lastSeen*`, `absentMisses_`, `selectedUidHex_`, write queue (8), write batch, staged payloads, the OpenTag3D baseline | scan cycle, enqueue and execution of writes, `requestCurrentSpool`, pause | readers by driver; `SPOOL_DETECTED`, `SPOOL_UPDATED`, `TAG_REMOVED` to the application |
| `RawWriteSlot` | one payload, its owner, one atomic state | `stage`, `consume`, `release`, `releaseAny`, `ownedBy` | `loop()` and scan task |
| `DeductionManager` | pending grams per UID in NVS, mutex | `storePending`, `applyIfPending`, `applyViaSpoolmanIfPending`, `handleWriteResult` | NFC write queue, Spoolman over HTTP |
| `DeductionTracker` | table of 8 claims | `claim`, `bind`, `releaseToImmediate`, `resolve`, `resolveImmediate`, `abort`, `abortUid` | called under the manager's mutex |
| `ApplicationManager` | print state, starting spool, displays to come, tray dashboard | one handler per message | everything |
| `PrinterManager`, `PrusaLinkStrategy` | the tracked job; the printer's last answers | `poll` | the printer over HTTP, `PRINT_STARTED`, `PRINT_ENDED` |
| `SpoolmanManager` | UID to spool cache, sync cache, picker cache, pending link, request queue (4) | sync, lookup, link, create, deduct, archive, refresh | Spoolman over HTTP |
| `U1Manager` | staged spool, pending augment, last assignment, sensor baseline, backoff | publish a detection or a sync result, assign, poll | printer over HTTP |
| `DiagnosticsManager` | session and results | one session at a time | asks the scan task to stand aside |
| `WebServerManager` | update state, `otaExclusive` | pages, upload, download, save, restart | suspends the scan task; all of the above |
| `SharedSPIBus`, `TFTManager` | the bus lock; the render task | draw, park, delete for an update | the readers |
| `HomeAssistantManager` | connection, tray state | commands | all of the above |
| `ConfigurationManager`, displays, LEDs, input, codecs, drivers | configuration, pixels, bytes | | |

What is hard here: two tasks applying one deduction; a write result that finds
a queue full or a power cut in its way; a payload handed between tasks without
a lock; a tag swapped between any two steps of a scan cycle; a cooldown that
takes two tags for one; copies that describe the tag before; a printer that
answers two questions about two different jobs; a request to Spoolman that is
done although its reply is lost; two ways to stop the scan task that know
nothing of each other; a result that comes back when another tag lies there.
What each component has to guarantee is listed with its module;
`PROJECT.json` lists the hazards one by one with the properties that watch
them.

## Modules

| Module | Models |
| --- | --- |
| `DeductionClaims` | what the claim table promises: a map from UIDs to at most one claim |
| `DeductionTracker`, `DeductionTracker_proofs` | the slot table of `DeductionTracker.h`, refining `DeductionClaims`; its invariants and the refinement |
| `DeductionManager`, `DeductionManager_proofs` | the life of a deduction through NVS, tag, Spoolman, queues, reboots; built on `DeductionClaims`; the proof of its safety |
| `RawWriteSlot` | the lock-free payload slot at the grain of its memory accesses |
| `ScanLoop` | which tag is on the reader, what the application is told, when writes run |
| `NFCManager_proofs` | the proofs of the slot and of the scan loop |
| `TagWrites`, `TagWrites_proofs` | what a queued write makes of the record on a tag, and the copies it starts from; their proofs |
| `ReaderOwnership`, `ReaderOwnership_proofs` | who drives the reader and the SPI bus, through self-tests and updates; its proofs |
| `PrintLifecycle`, `PrintLifecycle_proofs` | printer, poll, messages, and which spool a print is charged to; the proofs of what is reported and charged |
| `SpoolmanSync`, `SpoolmanSync_proofs` | which spool a tag denotes, and what the scanner writes to Spoolman; its proofs |
| `U1Staging`, `U1Staging_proofs` | what the Snapmaker U1 is told about its lanes; its proofs |
| `MC*` | the instances TLC checks |

How they fit together. `DeductionManager` extends the *abstract* claim map;
that the slot table implements the map is proved, so the manager is checked
without the detail of the slots. The scan task appears in four modules, each
as far as its own question needs: `ScanLoop` has the cooldown, the duplicate
test and the debounce; `TagWrites` takes any of their decisions at any
detection, and has the executors and the records; `DeductionManager` has the
copies a deduction reads; `ReaderOwnership` has only where the task stands,
and who may stop it. `PrintLifecycle` and `U1Staging` let the reader announce
any spool at any time; `SpoolmanSync` takes any request at any time.

### DeductionTracker

`slots` is `slots_`, one record per slot. `Claim` is the two-stage search of
`claim()`: `Deciding` are the slots that end its loop, `Recyclable` those the
fall-back takes. A cleared slot keeps its UID, which is why the table is not
obviously a map: a claim might land in front of an older one, or be refused
with slots free. Checked and proved: at most one claim per UID, no two slots
bound to one write, pristine slots at the end (what `claim()` silently relies
on), a claim refused only for an active one or a full table, and the refinement
of `DeductionClaims`. Four UIDs for three slots make recycling across UIDs,
the full table and claims in front of recycled slots all happen.

### DeductionManager

A task at `check` has looked at nothing yet, at `apply` it is about to take the
mutex with the UID and kind it saw, at `spoolman` it is in HTTP with the mutex
released, at `accepted`, `refused` or `unavailable` it is about to settle.
One step covers what is done under the mutex. That is sound because nobody
else touches NVS or the table meanwhile, what is read of the NFC state is a
copy taken at one moment, `bind` precedes the enqueue, and a result that comes
back before the mutex is given up waits for it in `handleWriteResult`.

Ledgers (not of the code): `stored`, `taken`, `dropped`, and `unsure`, the
grams absorbed without the scanner learning of it (a landed write reported as
failed, a lost Spoolman reply, a power cut before settlement; the changelog
names the first as a remaining case). `NeverLost` and `NeverTwice` relate them
to NVS: every stored gram is pending, absorbed or dropped by policy; and none
counts twice but for `unsure`. `crossed` sets aside the deductions of the
divergence `ComputedFromItsOwnTag`. `EveryClaimHasAnOwner` says who will end a
claim; `ClaimsEnd` that it ends.

Bounds: two tags of four pairs of formats, up to two grams stored per tag, two
presentations, one fault (reboot or unreported effect), both queues of length
one. A full queue, a deduction added during a write, a swap between look and
call, both tasks on one UID, and a clamp to an almost empty tag all happen
within them. The liveness run stores one gram on a writable and an unwritable
tag.

### RawWriteSlot

Every step is one access to `state_`, or the plain accesses between two of them.
Taking them as sequentially consistent is justified by the code's memory order:
the exchange acquires what the releasing store of the previous holder published,
so plain accesses of different holders are ordered; a run of plain accesses that
only its holder can see is one step. `ownedBy()` is two steps. `consume()` and
`release()` are the same steps but for `ConsumeRead`. The reboot path
(`resetWriteState`) runs with the scan task stopped; no task of the firmware
calls it at present. In the firmware the producers are handlers of one task; the
slot does not rely on that, and the model lets any number of tasks stage at
once. Ids are minted once (the wrap of the 32-bit counter is out of scope), and
the second delivery of a completed request does not occur as ids are fresh.

Three producers and four ids give a producer that finds the slot busy, one
whose request is refused, and one that stages again while another releases.

### ScanLoop

A cycle is three steps, `detect`, `read` and `write`, between which the tag may
be moved (also swapped in one move), other tasks enqueue writes or call
`requestCurrentSpool`, and the cooldown runs out. Kinds of request: `pages`
(NTAG formats, which end in `forceRescan`), `field` (OpenPrintTag updates and
atomic writes), `raw` and `format`. Which of them is attempted is decided as in
the code (`Allowed`), and which tag then takes the data by the driver
(`Reaches`): an ISO15693 command carries the UID, while for pages the PN5180
activates whichever ISO14443 tag is there, without comparing its UID as the
PN532 and RC522 do, and reports success (`HardwareNFCConnection.cpp:427`). What
a write makes of the tag and of the copies is `TagWrites`; here counts what is
announced. `spool.valid` is `tag_data_valid`, which a Bambu tag sets too.
`forgotten` is history: `lastSeenValid` was cleared without a message.

* `NoFlapping`: a removal is announced after three misses in a row only.
* `RemovalIsNoticed`: a removal that lasts is announced, unless `lastSeenValid`
  was cleared meanwhile without a word, by a failed `setupRF()`, a raw write or
  `requestCurrentSpool()` (`RemovalIsAnnounced`, without the exception, is a
  divergence below).
* `TagsAreAnnounced`, `QueueDrains`: what the three skipping rules and the
  presence flag must not prevent.

The instance has an NTAG, a Bambu tag and an OpenPrintTag with UIDs the
cooldown takes for one another, two writes and one RF fault or missed
detection. Two writes make a batch, and a write that follows another one's
rescan; the misses of a debounce are not bounded by the faults as the tag may be
taken away.

### TagWrites

A record is reduced to *marks*: its tag's own, and one for each request whose
values it carries; an OpenPrintTag has a main and an auxiliary region. `spool`
is the copy in `currentSpool`, `base` the OpenTag3D raw baseline with the UID it
was read from, `cache` the page cache of the ISO15693 reader. `ExecuteWrite` has
the executors: `FORMAT_NEW` and raw writes (one kind, `whole`) replace the image
and ask for the selected tag only; field updates and the atomic write start from
the copy, whose UID must be the request's too (#276); an OpenTag3D patch starts
from the baseline; TigerTag and OpenSpool pages are written whole. Each may
break off with a torn region behind what was written (`Cut`), and each ends in a
re-read that may be served by the cache (`ReadBack`). A Bambu tag is only read
(`ReadBambu`): it is filed with `tag_data_valid` set and the `tag_data` of
whichever tag came before, and the same requests may be bound to it as to an
OpenPrintTag, but no command of theirs is answered (`Answers`).

* `TagHoldsItsDue`: a tag holds every change reported as done for it, and
  nothing of another tag or request.
* `CopyIsTrue`, `BaselineIsTrue`: what the next write starts from is what the
  tag holds, also after a write that broke off. `CopyIsTrue` excepts the copy
  kept under a Bambu tag's UID, which is false (`NoCopyOfBambu` below); that it
  reaches no tag is part of `TagHoldsItsDue`.

`doubts` records, per tag, the ways in which the code itself cannot know
better (`Reasons`): a write reported as failed, a page cache older than the
write, a copy filed under the UID read last, fields of another atomic request,
pages that went to a tag swapped in, a tag skipped by the cooldown. A read of
the tag clears them. The properties speak of tags without doubts, so they say
that nothing *else* spoils a record; each reason is a hazard of its own in
`PROJECT.json` or a divergence below.

Bounds: two OpenPrintTags, two OpenTag3D tags and a Bambu tag, any two of which
may be taken for one, and two requests of any kind for any tag. Tags of one kind
come with the same kind of record and are symmetric; an NTAG becomes one of
another format by a write of pages. Blank tags are left to the proofs, which
take any records a tag may come with. Two requests are needed for an atomic
write to take the fields of another, and for a patch after a patch.

### PrintLifecycle

The printer (external) starts, advances, finishes or stops jobs, and closes
finished ones. A poll is two steps, since it is two requests: `/status` gives
job and progress, `/job` the state and metadata of the job of *that* moment.
Grams are kept symbolically as the job whose metadata they come from and the
percentage. `Send` may lose messages. `torn` and `gap` are history: a poll that
mixed two jobs, and a job given up during an outage although it still printed.
Both lead to a job reported twice, which the properties except and the hazards
name. Two jobs, two failed requests (as many as the grace), one lost message
and three progress values (either side of the 95 % rule) are enough for each
branch of `poll`.

### ReaderOwnership

Two ways to stop the scan task exist side by side. A self-test sets
`diagPauseRequested_` and waits until the task acknowledges at its loop top;
an upload (inside a web handler) and a download (OTA task) take the task off
the watchdog and suspend it wherever it is. `call` is the next statement of
`pauseScanTask()` or `resumeScanTask()` per caller, so the two may interleave.
On boards with one SPI bus the display's render task takes the same lock as
the reader, and an update asks it to park and deletes it. `freeForOTA()` waits
for that 5 s, and then deletes it wherever it is, with the bus lock if it
draws. A frame is drawn in well under a second, but up to four waits for the
bus of 3.5 s each lie between the request and the place where the task parks,
so a reader that works on keeps it past the limit: `GuardWaits` sets `late`,
and a task that is late may be deleted anywhere (`RenderGone`). The only
assumption on time is that a frame, and the transactions of a self-test, take
well under 5 s. A restart for a new configuration or firmware begins everything
anew (`Restart`).

* `SessionOwnsReader`: a self-test has the reader for itself, unless a session
  before it gave up waiting for the scan task (history `unheard`).
* `StrandedOnlyByOverlap`: the bus lock is left with a deleted task only when an
  upload ran beside the download (history `overlap`): the upload's end then
  resumes the scan task that the download had stopped, and `freeForOTA()` relies
  on its being stopped (`TFTManager.cpp:1096`). A single update may delete a late
  render task too, when the scan task was suspended holding the bus, but then
  the render task does not have it. Once the bus is stranded, no transaction with
  the reader succeeds until a restart.
* `LoneUpdateNeverBites`: the suspended scan task is not under the watchdog,
  except when an upload and a download overlap (history `overlap`).
* `ScanningResumes`: after any mix of failed, finished or cancelled updates and
  sessions the task scans again.

Bounds: one write, two sessions (the second meets what the first left), one
upload, two downloads, one saved configuration; every order of them occurs.

### SpoolmanSync

`SpoolmanManager` holds the HTTP mutex from the first request of an operation
to its last. The sync task's run is a step per decision (`Receive`, `Begin`,
`TakeLink`, `Resolve`, `Details`, `FindVendor`, `FindFilament`, `Act`,
`Archive`, `CreateSpool`, ...), as the pending link, the OTA flag and the
database itself may change between its requests; a web request or a deduction
is one step while the mutex is free. Spoolman is external: its spools, and its
catalog of vendors and filaments, both also edited by other users. Every
request is answered, done with the reply lost, or refused; the code takes both
latter for failures and runs again.

* `OneSpoolPerTag`: lost replies, failed archives and links leave one active
  spool per tag at most; `split` sets aside the best-effort clean-up of a link,
  and the tags that two spools claim before the scanner ever sees them.
* `SyncMintsNoTwin`: no second vendor of one name, and no second filament of one
  kind and vendor.
* `PickedNeverArchived`: a spool that the user picked for its tag in the writer
  is not archived until it is linked anew. `pin` is the `nfc_link` stamp the
  code goes by, `by` a history of whose the last link was. A link made on the
  web page leaves no stamp and takes an earlier one away, so that spool is
  archived (`LinkedNeverArchived`, a divergence below).
* `WeightToItsSpool`: grams go to no spool that another tag claims, although
  tag id, cached id and pending link may each be out of date.
* `PickerCatchesUp`: a picker list behind the database is refreshed or given up.

Bounds: two tags, five spools of which three exist (nearly empty, picked by the
user in the writer, nobody's), two kinds of filament and an incomplete one, some
with and some without a vendor (filaments are looked for within the vendor, if
there is one), caches and queue of one entry (so that one tag evicts the other),
two faults and two inputs. Weights come in units of the low-spool threshold; a
spool created without a remaining weight counts as full (`FULL`).

### U1Staging

All of `U1Manager` runs in the `loop()` task; the scan task and the Spoolman
task reach it through the two bounded queues (`inbox`, `wanted`), which drop
what they cannot take. In fixed mode a detection is posted to one lane; in
stage mode it is staged until a lane is picked by page, keypad or sensor. A
post ends as `Outcomes` says, the reply lost and the HTTP mutex busy included.
A smart tag with gaps registers an augment, to be completed by the sync. The
sensors are abstracted to the set of lanes a poll finds loaded, any set at each
poll; one tick is as long as each of the three 30-second limits.

* `AutoPickIsAnEdge`: the lane the sensors pick was found empty since *this*
  spool was staged, through failed polls, failed posts and new stagings.
* `OneLanePerScan`: one scan puts its spool on one lane, whoever picks and
  whenever the results arrive; `doubt` excepts lost replies and the lookup that
  takes an OpenPrintTag for a UID-only tag (below), with the scan of an augment
  that waits while such a lookup stages the same spool.
* `NewerScanStands`: a late lookup or augment never displaces the spool of a
  newer scan.
* `AugmentArrives` (violated): a gap is completed by Spoolman.

Bounds: an OpenPrintTag with gaps, which may be rewritten once with another
material name, a complete TigerTag and a UID-only tag; two lanes, two scans
besides the rewrite, one failed request, queues of two. Three results of two
scans under way at once, a swap before a lookup returns, and a drop by a full
queue happen within them.

## Runs

| Run | Expects | What it shows |
| --- | --- | --- |
| `DeductionTracker` | pass | the table is a bounded map of claims and never leaks a slot |
| `DeductionManager` | pass | no gram lost, none twice, every claim owned |
| `DeductionManagerLive` | pass | claims end |
| `RawWriteSlot` | pass | exclusive, whole, never wedged |
| `ScanLoop` | pass | tags are announced, removals debounced and noticed, queue drains |
| `PrintLifecycle` | pass | one report per job, not overstated, charged to the spool watched for it; every tracked job ends |
| `SpoolmanSync` | pass | one spool per tag, no twins, picked spools kept, weights to their spool, the picker list catches up |
| `ReaderOwnership` | pass | one user of the reader; a single update strands no bus and meets no watchdog; scanning resumes |
| `TagWrites` | pass | records and the copies they start from |
| `U1Staging` | pass | one lane per scan, edges only, newer scans stand |
| `TagWritesCached` | violation | the "verified" copy is the page cache of before the write |
| `U1StagingAugment` | violation | a smart tag with gaps is never completed by Spoolman |

The largest runs take one to three minutes (`TagWrites` 13.5 million distinct
states, `DeductionManager` 8.7, `U1Staging` 5.1, `ReaderOwnership` 2.6). The
type invariants `ScanTypeOK`, `PrintTypeOK`, `SyncTypeOK` and `U1TypeOK`
document the variables of their modules and hold on these instances; they are
not among the properties of the runs, but are proved.

Deadlock checking is off in the runs that may stop: budgets are spent
(all but `DeductionTracker` and `TagWrites`), ids are used up or the device is
about to reboot (`RawWriteSlot`).

### Fairness

* `DeductionManager`: weak fairness of each task's steps, of message handling
  and of result delivery. The scheduler runs every task, HTTP calls and NVS
  accesses end, `processWriteQueue` retries and then settles itself. Nothing is
  assumed of the user: tags need not come back, so a queued write may wait for
  ever, and `ClaimsEnd` speaks of claims whose request has left the queue.
* `ScanLoop`: the scan task loops (one weakly fair disjunction: the choice
  between its outcomes stays free) and the clock runs.
* `PrintLifecycle`: the polling task and the application task loop; polls fail
  finitely often. `TrackingEnds` needs the latter: a printer that never answers
  again is given up by the grace, not by luck.
* `SpoolmanSync`: the sync task runs, `setPendingLink()` gets from its first
  store to its second, the picker list is refreshed when asked for and ages
  (`SPOOL_CACHE_TTL_MS`), and an update ends. Faults are finitely many.
* `ReaderOwnership`: every task is scheduled and each of its waits has a limit.
  Two conditions lie on the other side of the network: an upload ends (the
  server library gives up on a silent client), and the connection of a
  download ends (its streaming loop has no limit of its own).

## Proofs

The proof modules prove their results for every value of the constants.

**DeductionTracker_proofs** assumes a positive capacity, an empty UID that is no
UID, positive grams, and a zero id outside the ids. `TrackerInv` is the
conjunction of types and field coherence, `PristineSuffix`, `OneClaimPerUid`
and `OneClaimPerRequest`. `OneClaimPerUid` is not inductive alone: a claim takes
the first pristine slot without looking further, and only `PristineSuffix` says
that nothing active lies behind it. Each operation is a rewrite of one slot,
so the lemmas `BindStep`, `ReleaseStep`, `ClearStep` and `ClaimStep` carry the
invariant once per shape of rewrite. `CapacityRecovers` then follows by cases
of the search. For the refinement, `ClaimOfTable` reads the map off the table,
`RoomForClaim` counts claims against slots (an injection from claimed UIDs to
slots), and `NextMaps` takes each operation to a step of the map or a stutter.

**DeductionManager_proofs** assumes finitely many UIDs and request ids, at
least as many ids as the table has room for claims (the code has 2^32 - 1 and
8), queues of positive depth, tags that start with some weight, and that every
pending total up to the bound can be claimed. `DeductionInv` adds to the four
properties what each step needs of the others. `ClaimsStand`: a claim carries
grams that are still pending, and a bound one an id of its own; with `FreshId`
(claims in flight cannot use up the ids) this stays so. `InFlightOnce` and
`Owners`: an id in flight is in one place, write queue, message queue or hands
of the NFC task, and belongs to a claim that stands, and every claim is in
flight or in the hands of one task; this is `EveryClaimHasAnOwner` in a form
that each step can keep. `Known`: the cached copies are what the tag holds, or
more after a write that landed unseen. `AmountsDue`: a queued write asks for
the grams of its claim, or for all the tag holds. `Balanced` has the books of
each tag, where `Gap` pays for what the copy of an OpenPrintTag holds too much:
a later write computed from it takes less from the tag than its claim says, but
not less than the claim and the gap together. The arithmetic is in lemmas of its
own (`BooksQuiet`, `BooksSettled`, `BooksAbsorbed`, `BooksWritten`,
`RemoveTakes`, `PatchTakes`), the flight in `NoticeKeeps`, `PostKeeps`,
`FlightEnds`, `TaskClaim` and `FlightGoesOn`, and one lemma per operation joins
them. `ManagerKeepsToClaims` closes the circle with the claim table: whatever
the manager does to its claims is a step of `DeductionClaims` (which the slot
table implements), or `claim()` and `bind()` in one lock hold, or the empty
table after a power loss. It needs the invariant: an id that no claim carries is
left by `FreshId`, and grams that a claim can carry are what `Balanced` says of
the pending totals.

**NFCManager_proofs** has the slot and the scan loop. For the slot it assumes
that scan task, reboot task and producers are different, a zero id outside the
ids and a queue of positive depth. `SlotInv` strengthens the four claims by
`StateGuards` (which state goes with which program point), `Contents` (what
payload and owner are in each state) and `OneRequest` (the staged request is in
exactly one pair of hands: its producer, the queue or the scan task). The last
is what makes `NeverWedged` and `OwnershipStands` true with two separate loads
in `ownedBy()`.

For the scan loop it assumes that `NoTag` is no UID and that the bounds are
numbers, with a positive threshold of misses; any UIDs may look alike to the
cooldown. `ScanInv` has the types, `SpoolKnown` (a spool that is present has a
UID), `ReadsATag` (a cycle that reads has detected a tag) and
`MissesHappened`. `NoFlapping` is an action property: only `Absent` withdraws
what the application was told, and `MissesHappened` (the counter never runs
ahead of the detections missed in a row) carries its guard to the history it
speaks of.

**ReaderOwnership_proofs** assumes only that the budgets are numbers and
`SharedBus` a truth value. `SessionOwnsReader`, `StrandedOnlyByOverlap` and
`LoneUpdateNeverBites` are not inductive: `OwnInv` adds `FlagsTrue` (the two
handshake flags say where scan task and session stand), `Handshake` (as long
as every session heard from the scan task, at which of its places the task can
be for each place of the session), `BusHeld` (the holder of the bus is where
it uses it), and `OneAtATime` (with no overlap, only one caller is between the
statements of pause and resume, and the subscription to the watchdog agrees
with the suspension). For the bus, `LoneDownload` says that without overlap the
scan task stays suspended from a download's pause to the deletion of the render
task, and `RenderStop` that the render task is late only then, and waits for a
bus which the suspended task holds. There is one
lemma per task (`ScanKeeps`, `TftKeeps`, `DiagKeeps`, `OtaKeeps`, `WebKeeps`,
`CallKeeps`), one step per action in each, and `RestartInv` for the reboot.
`PausesAreHeld` is what of `ScanningResumes` can be proved: a suspended scan
task always has an update under way that will resume it or restart the scanner,
also when two updates overlap and each undoes the pause of the other. `Custody`
carries it: a caller that has yet to suspend the task has not ended either. (It
is no property of a run; TLC finds it violated when one error exit of the
download leaves out `resumeScanTask()`.)

**TagWrites_proofs** assumes that `NoTag` is no tag and that an OpenPrintTag, an
NTAG and a Bambu tag are different tags. `TagInv` joins what TLC checks with
five facts: which UID a spool has (`SpoolHasUid`), that a copy of an NTAG exists
only by mistake (`CopyOfOpt`), that a baseline is an OpenTag3D record
(`BaseOfNtag`), and that the OpenTag3D record of the tag at hand was seen unless
it was skipped (`MimeIsSeen`, `SelectedWasRead`); the last two are why a patch
without a baseline goes to a tag that has no record to lose. Every write, in
whichever way it ends, is one of two effects: `OptEffect` touches one tag and
leaves a doubt where copy and record part, `NtagEffect` may hit a tag that was
swapped in and then leaves a doubt on both. The lemmas `OptEffectKeeps` and
`NtagEffectKeeps` show once that such an effect keeps the invariant; the lemmas
per executor (`ReplaceEffect`, `AtomicEffect`, `UpdateEffect`, `PagesEffect`,
`PatchKeeps`) show that it has that effect. A write that is not answered has one
too (`UnansweredEffect`), which is all that can come of a request bound to a
Bambu tag; only an answered update (`UpdateAnswered`) needs the copy to be true.

**PrintLifecycle_proofs** assumes that `Levels` are percentages with 0 and 100
among them, a positive grace and bounds that are numbers. `NoJobTwice` and
`NotOverstated` speak of messages, but hold because of where the poll stands:
`PrintInv` adds `JobStands` (what a job that the printer describes looks like),
`PollBehind` (the job tracked and the job of the status answer are never ahead
of the printer, and no more of them was seen than was printed) and their two
forms over the messages, `ReportsHonest` and `EndedOnce`: a job that was
reported lies behind the poll for good. Every poll, whichever branch it takes,
has one of the shapes of `PollEffect` (nothing sent; a job begins; one replaces
another; one ends), and `EffectKeeps` shows once that such an effect keeps the
invariant. `SentOne` and `SentTwo` say what a queue that loses messages leaves.

`LossIsHarmless` needs one fact more: `ChargeInv` says that a report on its way
will meet the print it is of (`EndsItsOwn`), and that the print which the queue
leaves watched is the one the poll tracks, unless its report is what was lost
(`LeavesWatched`). It is proved while one message at most was lost
(`OneLossIsHarmless`), and that is as far as it is true: when the queue drops
the end of one job and the start of the next, the end of the second is charged
to the spool of the first.

**SpoolmanSync_proofs** assumes that spool ids are positive and finitely many,
that tags differ from the two values an `nfc_id` has without one, that weights
are natural numbers, and that the database begins with well-formed records in
which the spools picked in the writer carry its stamp; it may begin with tags
that two spools claim. `SyncInv` is the types with
`OneClaim`, `LinkStands` and `FoundStands`. The last carries the safety: from
resolving to the end of the sync, the spool found is the tag's own or nobody's,
the only one to claim the tag, and pinned if the snapshot said so,
although the database changes under the task. It holds because everything that
moves a claim or a link needs the HTTP mutex; what other users do needs none,
but only archives. `ResolvedOwn` is the precedence of the resolver, which never
answers with another tag's spool; `StoreIdKeeps` is why the ring of the cache
never holds a tag twice. The three action properties follow from the invariant
action by action (`UpdateEnds`, `CreateEnds`, `DeductWeighs`, `CatalogGrows`).
`PickedNeverArchived` needs `Stamped` as well: a spool whose last link was the
picker's carries the stamp, whatever a lost reply, a registration, an
enrichment or a deduction made of its record since.

**U1Staging_proofs** assumes that the formats of tags are disjoint, that
finitely many tags have gaps, and positive limits and queue depths; the lanes
may be any numbers. `U1Inv` has three parts. `QueueInv` is the order of what is
under way: the sync of a scan is asked for and answered before its lookup, and
that before those of any later scan, also where a full queue drops some.
`CoreInv` says which scan is of which spool (`ScansInv`), that a detection on
its way is newer than all that was made of earlier ones (`NewsLast`), of which
scans nothing was said to the printer yet (`UnsaidInv`, the reason for
`OneLanePerScan`), and what is newer than what a lane was told (`NewerInv`, that
of `NewerScanStands`). `BaselineInv` ties the sensors' baseline to the lanes
seen empty. One lemma per kind of step keeps `CoreInv`, one per action `U1Inv`,
and `StepTells` says once for all steps what a lane may be told. That the
sensors pick *a* lane at all needs a lowest one in any set of loaded lanes
(`LowestLane`). Type correctness (`U1Types`) is proved last, as that every scan
spoken of took place (`ScansPast`) needs the order of the queues.

Only model-checked: all liveness (`ClaimsEnd`, `TagsAreAnnounced`,
`RemovalIsNoticed`, `QueueDrains`, `TrackingEnds`, `PickerCatchesUp`,
`ScanningResumes`), as the prover has no rules for fairness and `ENABLED`. No
proof uses induction over data, and no module declares a `RECURSIVE` operator.

## Known divergences

Two disagreements between code and documentation are runs of their own:

* `TagWritesCached`: `halWritePage()` leaves the page cache valid
  (`HardwareNFCConnection.cpp:81`), so a tag that is read and written in one
  cycle is "verified" against the pages of before the write
  (`NFCManager.cpp:1015`).
* `U1StagingAugment`: a smart tag's sync brings only the material name it was
  sent (`SpoolmanManager.cpp:1519`), so the merge that `U1Manager.h:98` promises
  never adds anything.

The following are stated as definitions in their modules, and TLC finds them
violated when they are added to the configuration named:

| Definition | Add to | What the code does |
| --- | --- | --- |
| `TerminalOnlyWhenUnwritable` | `DeductionManager.cfg` | `currentSpool.kind` is set where a tag proves not to be an OpenPrintTag (`NFCManager.cpp:900`) but not reset when one is read, so after another format an OpenPrintTag counts as unwritable; `DeductionPolicy.h:4` makes Spoolman terminal for those only |
| `ComputedFromItsOwnTag` | `DeductionManager.cfg` | the tag is looked at, then the mutex taken and the tag read again (`DeductionManager.cpp:200`): after a swap the new weight is computed from the other tag |
| `ResendsCurrentSpool` | `ScanLoop.cfg`, `PROPERTIES` | `isCurrentTagDuplicate()` falls back to the UID of the present spool (`NFCManager.cpp:2687`), so clearing `lastSeenValid` resends nothing |
| `RescansAfterWrite` | `ScanLoop.cfg`, `PROPERTIES` | `forceRescan()` (`NFCManager.cpp:2005`) clears `present` only; `lastSeenValid` keeps the tag a duplicate |
| `RemovalIsAnnounced` | `ScanLoop.cfg`, `PROPERTIES` | a removal is announced only while `lastSeenValid` (`NFCManager.cpp:739`), which other paths clear |
| `PerToolIsItsOwn` | `PrintLifecycle.cfg`, `Files <- MCAllFiles` | a `/job` answer without metadata leaves the tools of the job before (`PrusaLinkStrategy.cpp:25`, 231) |
| `NoCopyOfBambu` | `TagWrites.cfg` | a Bambu tag is filed with `tag_data_valid` set while `tag_data` is that of an OpenPrintTag before (`NFCManager.cpp:648`), where `NFCTypes.h:112` calls it the cached data of the tag; readers of the copy such as `PrinterManager.cpp:320` take it for the Bambu tag's, and a field update bound to that tag passes the guard of #276, though no tag answers it |
| `LinkedNeverArchived` | `SpoolmanSync.cfg`, `PROPERTIES` | `SpoolmanManager.cpp:1085` says that a user-linked spool ("writer picker / explicit re-link") is never archived; a link on the web page (`WebServerManager.cpp:746`) sends `extra` without the `nfc_link` stamp, which removes an earlier one too, and a later sync archives the spool |
| `LinkedNeverRepointed` | `SpoolmanSync.cfg`, `PROPERTIES` | a spool picked in the writer whose filament differs in material is kept but re-pointed to the tag's filament, where `SpoolmanManager.h:93` says never |
| `RestartWaitsForWrites` | `ReaderOwnership.cfg` | a write that has left the queue is not waited for (`WebServerManager.cpp:1222`, 1297), where the changelog (line 445) says so |

Smaller observations made while modelling, in no module's properties:

* Deductions: the request id wraps after 2^32 requests and may meet an old one
  (`RequestId.h:8`); `cmd/deduct` with a UID in lower case is stored under a key
  that no scan looks up (`HomeAssistantManager.cpp:873`).
* Spoolman: `setPendingLink()` stores time and id one after the other, and a
  reader may see the new time with an id of before (`SpoolmanManager.cpp:1618`);
  the page may show a pending link that was just consumed. An `nfc_id` of quoted
  blanks counts as another tag's claim, so that a second spool is created.
* Updates: a download that ends the stand-down before the version check reports
  a failure; after a failed update the display stays dead until a reboot; upload
  and download do not exclude each other (`overlap`), so that `freeForOTA()`,
  which counts on a paused scan task (`TFTManager.cpp:1096`), may delete the
  render task with the bus lock: `StrandedOnlyByOverlap` without its
  `=> overlap` is violated.
* Tag writes: an OpenPrintTag whose auxiliary region is too tight for the
  Spoolman id is written without its consumed weight; the atomic write drops
  keys it does not know; a full queue makes the web task clear atomic fields
  that may be another request's; `remaining_g` without an initial weight takes
  the base weight of the tag read last (`WebServerManager.cpp:1841`).
* U1: an HTTP error status counts as success, so "U1 rejected the assignment"
  (`WebServerManager.cpp:802`) is never shown for one; an OpenPrintTag read
  after a UID-only tag keeps that kind (as above), and its lookup assigns it a
  second time; when that lookup is of an older scan than the augment which waits
  for the same spool, the late augment tells a second lane of the newer scan
  (four scans, beyond the bound of the run; found while proving); a busy HTTP
  mutex loses a scan's post without a retry; the page may show one spool while
  the pick takes the one staged since; a lane that was loaded before the first
  successful poll is never picked by its sensor.

## Not modelled

The map covers a small part of the implementation's 43957 lines, and most of
the rest is not state that interacts: some 9900 lines are HTML, JavaScript,
style sheets and pictures compiled into the firmware; 10500 are the libraries
under `lib/` (tag codecs, JSON and I/O helpers, a reader driver); 4300 are
drivers, displays and LEDs; most of the rest of the large files formats, parses
or logs. Codecs are
byte formats covered by the native tests, and a model of them at the level of
bytes would be a transliteration. HTTP and MQTT transport, JSON, Wi-Fi set-up,
configuration values and the sequential start-up are left out as well.

Within what is modelled, these are left out:

* Time-outs of the tag mutex are outcomes where they end an operation the model
  has (a skipped apply, a failed write), and are ignored elsewhere.
* Requests without a UID, which the old HTTP API still accepts, take any tag.
* The radio restart after a minute of failures lies beyond the bounds.
* A message dropped by a full application queue on its way from the scan task
  (`NFCManager.cpp:1605`), and a batch opened for a tag that is placed just
  afterwards (1748). They are listed as hazards.
* `writeSpoolmanDataToTag()` (`NFCManager.cpp:1659`), which would share the scan
  task's scratch buffer with its caller's task: nothing calls it.
* HomeAssistantManager's connection and publishing: it has no state another
  part depends on. Its two deduction commands are in `DeductionManager`.

## Plan

What is left, in the order of importance:

1. Composition of `PrintLifecycle` with `ScanLoop`, with the application's
   bounded queue between them, so that the starting spool of a print is what
   `requestCurrentSpool` leaves, and a dropped `SPOOL_DETECTED` has its
   consequence.
2. The connection of `HomeAssistantManager`, if its reconnection comes to hold
   state of its own.
