--------------------------- MODULE ReaderOwnership ---------------------------
(***************************************************************************)
(* Who may drive the NFC reader and the SPI bus.  The scan task owns both. *)
(* It is stopped in two ways.  A self-test asks, and waits until the task  *)
(* reports at its loop top that it stands aside (requestScanPause).  The   *)
(* two firmware updates, an upload inside a web handler and a download in  *)
(* the OTA task, suspend it wherever it is (pauseScanTask).  A saved       *)
(* configuration restarts the scanner.  On boards with one SPI bus the     *)
(* display draws under the same lock as the reader.                        *)
(*                                                                         *)
(* Abstracted: what a cycle reads and writes (ScanLoop), test results,     *)
(* what is drawn, the download itself (each stage succeeds or fails).      *)
(* Delays are steps that may happen at any time unless a comment at the    *)
(* step says what they are long enough for.                                *)
(***************************************************************************)
EXTENDS Naturals

CONSTANTS
  SharedBus,     \* BOARD_SHARED_SPI: reader and display on one bus
  MaxWrites,     \* bound: tag writes ever queued
  MaxSessions,   \* bound: self-tests started
  MaxUploads,    \* bound: firmware uploads
  MaxDownloads,  \* bound: downloads started
  MaxSaves       \* bound: configurations saved

ASSUME SharedBusAssumption == SharedBus \in BOOLEAN
ASSUME BudgetAssumption ==
  {MaxWrites, MaxSessions, MaxUploads, MaxDownloads, MaxSaves} \subseteq Nat

Pausers == {"web", "ota"}

VARIABLES
  scan,       \* where scanLoop() is
  suspended,  \* the scan task is suspended
  watched,    \* the scan task is subscribed to the task watchdog
  asked,      \* diagPauseRequested_
  aside,      \* scanPaused_
  queue,      \* number of requests in writeQueue
  bus,        \* holder of the SharedSPIBus lock
  diag,       \* where the self-test task is; "idle": active_ is false
  cancelled,  \* cancelRequested_
  web,        \* what the web task does with the reader
  ota,        \* where the OTA task is
  call,       \* the next statement of pauseScanTask()/resumeScanTask(), per caller
  tft,        \* the render task
  stop,       \* TFTManager::_stopRequested
  late,       \* the render task was kept waiting for the bus since it was asked to stop
  used,       \* budgets spent
  unheard,    \* history: a self-test gave up waiting for the scan task
  overlap,    \* history: both updates were under way at once
  torn        \* history: a restart cut a tag write

scanVars == <<scan, suspended, watched, asked, aside, queue>>
busVars == <<bus, tft, stop, late>>
taskVars == <<diag, cancelled, web, ota, call>>
histVars == <<unheard, overlap, torn>>
ownVars == <<scanVars, busVars, taskVars, used, histVars>>

Budgets == [writes |-> MaxWrites, sessions |-> MaxSessions, uploads |-> MaxUploads,
            downloads |-> MaxDownloads, saves |-> MaxSaves]

Spend(kind) ==
  /\ used[kind] < Budgets[kind]
  /\ used' = [used EXCEPT ![kind] = @ + 1]

\* A boot: every task starts afresh, and the write queue is gone.
Booted ==
  [scan |-> "top", suspended |-> FALSE, watched |-> TRUE, asked |-> FALSE, aside |-> FALSE,
   queue |-> 0, bus |-> "none", diag |-> "idle", cancelled |-> FALSE, web |-> "idle",
   ota |-> "none", call |-> [a \in Pausers |-> "none"], tft |-> "idle", stop |-> FALSE,
   late |-> FALSE]

Init ==
  /\ scan = Booted.scan /\ suspended = Booted.suspended /\ watched = Booted.watched
  /\ asked = Booted.asked /\ aside = Booted.aside /\ queue = Booted.queue
  /\ bus = Booted.bus /\ tft = Booted.tft /\ stop = Booted.stop /\ late = Booted.late
  /\ diag = Booted.diag /\ cancelled = Booted.cancelled
  /\ web = Booted.web /\ ota = Booted.ota /\ call = Booted.call
  /\ used = [k \in DOMAIN Budgets |-> 0]
  /\ unheard = FALSE /\ overlap = FALSE /\ torn = FALSE

(* A restart takes what every task does at this moment with it. *)
Restart ==
  /\ scan' = Booted.scan /\ suspended' = Booted.suspended /\ watched' = Booted.watched
  /\ asked' = Booted.asked /\ aside' = Booted.aside /\ queue' = Booted.queue
  /\ bus' = Booted.bus /\ tft' = Booted.tft /\ stop' = Booted.stop /\ late' = Booted.late
  /\ diag' = Booted.diag /\ cancelled' = Booted.cancelled
  /\ web' = Booted.web /\ ota' = Booted.ota /\ call' = Booted.call
  /\ unheard' = FALSE /\ overlap' = FALSE
  /\ torn' = (torn \/ scan = "write")
  /\ UNCHANGED used

-----------------------------------------------------------------------------
(* The scan task.  Its bus lock is taken per transaction in the code; here for a whole
   cycle, so that a suspension may come while it is held.  A busy bus fails the
   transactions of the cycle (Guard times out), which then holds nothing. *)

UsesReader == {"cycle", "write", "closing"}

ScanGrab == bus' = IF SharedBus /\ bus = "none" THEN "scan" ELSE bus
ScanYield == bus' = IF bus = "scan" THEN "none" ELSE bus

ScanRest == UNCHANGED <<suspended, watched, asked, tft, stop, late, taskVars, used, histVars>>

\* The loop top: diagPauseRequested_ is read, then the tag session is closed.
TopRuns ==
  /\ scan = "top" /\ ~suspended
  /\ scan' = IF asked THEN "closing" ELSE "cycle"
  /\ ScanGrab
  /\ UNCHANGED <<aside, queue>>
  /\ ScanRest

StandsAside ==
  /\ scan = "closing" /\ ~suspended
  /\ scan' = "aside" /\ aside' = TRUE
  /\ ScanYield
  /\ UNCHANGED queue
  /\ ScanRest

\* while (diagPauseRequested_) is over; the flag is cleared by the next statement.
LeavesPause ==
  /\ scan = "aside" /\ ~suspended /\ ~asked
  /\ scan' = "leaving"
  /\ UNCHANGED <<aside, queue, bus>>
  /\ ScanRest

ClearsAside ==
  /\ scan = "leaving" /\ ~suspended
  /\ scan' = "cycle" /\ aside' = FALSE
  /\ ScanGrab
  /\ UNCHANGED queue
  /\ ScanRest

\* Mutant: the queue is not looked at.
TakesWriteUnasked ==
  /\ scan = "cycle" /\ ~suspended
  /\ scan' = "write" /\ queue' = queue - 1
  /\ UNCHANGED <<aside, bus>>
  /\ ScanRest

\* processWriteQueue() takes the request out of the queue, then executes it.
TakesWrite ==
  /\ scan = "cycle" /\ ~suspended /\ queue > 0
  /\ scan' = "write" /\ queue' = queue - 1
  /\ UNCHANGED <<aside, bus>>
  /\ ScanRest

CycleEnds ==
  /\ scan \in {"cycle", "write"} /\ ~suspended
  /\ scan' = "top"
  /\ ScanYield
  /\ UNCHANGED <<aside, queue>>
  /\ ScanRest

ScanNext == TopRuns \/ StandsAside \/ LeavesPause \/ ClearsAside \/ TakesWrite \/ CycleEnds

\* Any task queues a tag write.
QueueWrite ==
  /\ Spend("writes")
  /\ queue' = queue + 1
  /\ UNCHANGED <<scan, suspended, watched, asked, aside, busVars, taskVars, histVars>>

-----------------------------------------------------------------------------
(* pauseScanTask() and resumeScanTask() are two statements each, run by the web task and
   by the OTA task. *)

Pausing(a) == call' = [call EXCEPT ![a] = "unwatch"]
Resuming(a) == call' = [call EXCEPT ![a] = "resume"]
Free(a) == call[a] = "none"

\* Mutant: suspended under the watchdog, as before #280.
KeepWatch(a) ==
  /\ call[a] = "unwatch"
  /\ call' = [call EXCEPT ![a] = "suspend"]
  /\ UNCHANGED <<watched, suspended>>

Unwatch(a) ==
  /\ call[a] = "unwatch"
  /\ watched' = FALSE
  /\ call' = [call EXCEPT ![a] = "suspend"]
  /\ UNCHANGED suspended

Suspend(a) ==
  /\ call[a] = "suspend"
  /\ suspended' = TRUE
  /\ call' = [call EXCEPT ![a] = "none"]
  /\ UNCHANGED watched

Resume(a) ==
  /\ call[a] = "resume"
  /\ suspended' = FALSE
  /\ call' = [call EXCEPT ![a] = "watch"]
  /\ UNCHANGED watched

Watch(a) ==
  /\ call[a] = "watch"
  /\ watched' = TRUE
  /\ call' = [call EXCEPT ![a] = "none"]
  /\ UNCHANGED suspended

CallStep(a) ==
  /\ Unwatch(a) \/ Suspend(a) \/ Resume(a) \/ Watch(a)
  /\ UNCHANGED <<scan, asked, aside, queue, busVars, diag, cancelled, web, ota, used, histVars>>

\* 30 s of suspension under the watchdog, longer than any call above and the wait for a
\* restart take: a panic restart.
Starving ==
  /\ suspended /\ watched
  /\ \A a \in Pausers : Free(a)
  /\ web # "restarting" /\ ota # "restarting"
WatchdogBites == Starving /\ Restart

-----------------------------------------------------------------------------
(* The web task runs one handler at a time; an upload is one handler. *)

WebRest == UNCHANGED <<scanVars, busVars, unheard, torn>>
WebIdle == web = "idle" /\ Free("web")
OtaIdle == ota \in {"none", "done"} /\ Free("ota")   \* _otaState is IDLE or FAILED

StartUpload ==
  /\ WebIdle /\ Spend("uploads")
  /\ web' = "receiving" /\ Pausing("web")
  /\ overlap' = (overlap \/ ~OtaIdle)
  /\ UNCHANGED <<diag, cancelled, ota>>
  /\ WebRest

\* UPLOAD_FILE_ABORTED, or handleApiUploadFirmwareComplete() with an error.
UploadFails ==
  /\ web = "receiving" /\ Free("web")
  /\ web' = "idle" /\ Resuming("web")
  /\ UNCHANGED <<diag, cancelled, ota, used, overlap>>
  /\ WebRest

\* The queue is looked at once; if it holds something the scan task is let go to empty it.
UploadDone ==
  /\ web = "receiving" /\ Free("web")
  /\ IF queue = 0
       THEN web' = "restarting" /\ UNCHANGED call
       ELSE web' = "draining" /\ Resuming("web")
  /\ UNCHANGED <<diag, cancelled, ota, used, overlap>>
  /\ WebRest

\* handleApiSaveConfig(): the scan task runs on while the queue empties.
SaveConfig ==
  /\ WebIdle /\ Spend("saves")
  /\ web' = "draining"
  /\ UNCHANGED <<diag, cancelled, ota, call, overlap>>
  /\ WebRest

\* The queue is empty, or two seconds are over.
Drained ==
  /\ web = "draining" /\ Free("web")
  /\ web' = "restarting" /\ Pausing("web")
  /\ UNCHANGED <<diag, cancelled, ota, used, overlap>>
  /\ WebRest

WebRestarts == web = "restarting" /\ Free("web") /\ Restart

\* Mutant: the scan task runs on during the download.
StartDownloadAwake ==
  /\ WebIdle /\ OtaIdle /\ Spend("downloads")
  /\ ota' = "waiting"
  /\ UNCHANGED <<diag, cancelled, web, call, overlap>>
  /\ WebRest

StartDownload ==
  /\ WebIdle /\ OtaIdle /\ Spend("downloads")
  /\ ota' = "waiting" /\ Pausing("ota")
  /\ UNCHANGED <<diag, cancelled, web, overlap>>
  /\ WebRest

StartSession ==
  /\ WebIdle /\ diag = "idle" /\ Spend("sessions")
  /\ diag' = "stages" /\ cancelled' = FALSE
  /\ UNCHANGED <<web, ota, call, overlap>>
  /\ WebRest

CancelSession ==
  /\ WebIdle /\ diag # "idle" /\ ~cancelled
  /\ cancelled' = TRUE
  /\ UNCHANGED <<diag, web, ota, call, used, overlap>>
  /\ WebRest

-----------------------------------------------------------------------------
(* runOtaDownload(): wait for the HTTP lock, free the display, handshake, stream. *)

OtaRest == UNCHANGED <<scanVars, diag, cancelled, web, used, histVars>>

OtaDrained ==
  /\ ota = "waiting" /\ Free("ota")
  /\ ota' = "freeing"
  /\ stop' = TRUE
  /\ UNCHANGED <<bus, tft, late, call>>
  /\ OtaRest

\* The render task is deleted where it parked.  One that was kept from parking for five
\* seconds is deleted wherever it is, with the bus if it draws: vTaskDelete frees nothing.
\* Only waiting takes that long; a frame is drawn in well under a second.
RenderGone == tft \in {"parked", "deleted"} \/ late

FreeForOTA ==
  /\ ota = "freeing" /\ RenderGone
  /\ tft' = "deleted" /\ late' = FALSE
  /\ ota' = "handshake"
  /\ UNCHANGED <<bus, stop, call>>
  /\ OtaRest

\* Mutant: this error exit forgets the scan task.
GetFailsAsleep ==
  /\ ota = "handshake"
  /\ ota' = "done"
  /\ UNCHANGED <<busVars, call>>
  /\ OtaRest

\* The answer is not 200.
GetFails ==
  /\ ota = "handshake"
  /\ ota' = "done" /\ Resuming("ota")
  /\ UNCHANGED busVars
  /\ OtaRest

Streams ==
  /\ ota = "handshake"
  /\ ota' = "flashing"
  /\ UNCHANGED <<busVars, call>>
  /\ OtaRest

\* The HTTP lock is not free for 30 s; Update.begin() or Update.end() fails.
OtaFails ==
  /\ ota \in {"waiting", "flashing"} /\ Free("ota")
  /\ ota' = "done" /\ Resuming("ota")
  /\ UNCHANGED busVars
  /\ OtaRest

Flashed ==
  /\ ota = "flashing"
  /\ ota' = "restarting"
  /\ UNCHANGED <<busVars, call>>
  /\ OtaRest

OtaRestarts == ota = "restarting" /\ Restart

OtaNext == OtaDrained \/ FreeForOTA \/ GetFails \/ Streams \/ OtaFails \/ Flashed \/ OtaRestarts

-----------------------------------------------------------------------------
(* The self-test task: runSession(), waitForScanPaused(), resumeScanAndWait(). *)

DrivesReader == {"snapshot", "stability"}
DiagRest == UNCHANGED <<scan, suspended, watched, aside, queue, busVars, cancelled, web, ota,
                        call, used, overlap, torn>>

\* Stages 1 and 2 are over; a cancelled session ends, another asks for the reader.
AskForReader ==
  /\ diag = "stages"
  /\ diag' = IF cancelled THEN "idle" ELSE "asking"
  /\ asked' = (asked \/ ~cancelled)
  /\ UNCHANGED unheard
  /\ DiagRest

ReaderGranted ==
  /\ diag = "asking" /\ aside
  /\ diag' = "snapshot"
  /\ UNCHANGED <<asked, unheard>>
  /\ DiagRest

\* Three seconds are over: the scan task is suspended or busy with a long cycle.
AskTimesOut ==
  /\ diag = "asking" /\ ~aside
  /\ diag' = "releasing" /\ asked' = FALSE
  /\ unheard' = TRUE
  /\ DiagRest

\* The stability test wants a tag: the user continues, gives up, or cancels.
PromptUser ==
  /\ diag = "snapshot" /\ ~cancelled
  /\ diag' = "prompt"
  /\ UNCHANGED <<asked, unheard>>
  /\ DiagRest

UserContinues ==
  /\ diag = "prompt" /\ ~cancelled
  /\ diag' = "stability"
  /\ UNCHANGED <<asked, unheard>>
  /\ DiagRest

ReleaseReader ==
  /\ diag \in {"snapshot", "prompt", "stability"}
  /\ diag' = "releasing" /\ asked' = FALSE
  /\ UNCHANGED unheard
  /\ DiagRest

\* Mutant: the session ends without hearing from the scan task.
NeverHears == TRUE

\* resumeScanAndWait(): active_ is cleared once the scan task left its pause.
HeardBack == ~aside

SessionEnds ==
  /\ diag = "releasing" /\ HeardBack
  /\ diag' = "idle"
  /\ UNCHANGED <<asked, unheard>>
  /\ DiagRest

\* One second is over.  A task that runs polls every 20 ms and has left by then.
ReleaseTimesOut ==
  /\ diag = "releasing" /\ aside /\ suspended
  /\ diag' = "idle"
  /\ unheard' = TRUE
  /\ UNCHANGED asked
  /\ DiagRest

DiagNext ==
  \/ AskForReader \/ ReaderGranted \/ AskTimesOut \/ PromptUser \/ UserContinues
  \/ ReleaseReader \/ SessionEnds \/ ReleaseTimesOut

-----------------------------------------------------------------------------
(* The render task draws under the bus lock and parks at its loop top. *)

TftStays == UNCHANGED <<scanVars, taskVars, used, histVars, stop>>
TftRest == TftStays /\ UNCHANGED late

Parks ==
  /\ tft = "idle" /\ stop
  /\ tft' = "parked"
  /\ UNCHANGED bus
  /\ TftRest

WantsBus ==
  /\ tft = "idle" /\ ~stop /\ SharedBus
  /\ tft' = "waiting"
  /\ UNCHANGED bus
  /\ TftRest

Draws ==
  /\ tft = "waiting" /\ bus = "none"
  /\ tft' = "drawing" /\ bus' = "tft"
  /\ TftRest

\* LOCK_TIMEOUT_MS: the frame is dropped.
DropsFrame ==
  /\ tft = "waiting" /\ bus # "none"
  /\ tft' = "idle"
  /\ UNCHANGED bus
  /\ TftRest

\* Asked to stop, the task looks at the request again only at its loop top: up to there it
\* waits for the bus up to four times, 3.5 s each, for the frame, the breathing, the status
\* bar and the screen timeout.
GuardWaits ==
  /\ tft = "waiting" /\ stop /\ bus = "scan" /\ ~late
  /\ late' = TRUE
  /\ UNCHANGED <<bus, tft>>
  /\ TftStays

Drawn ==
  /\ tft = "drawing"
  /\ tft' = "idle" /\ bus' = "none"
  /\ TftRest

TftNext == Parks \/ WantsBus \/ Draws \/ DropsFrame \/ GuardWaits \/ Drawn

-----------------------------------------------------------------------------
WebStarts == StartUpload \/ SaveConfig \/ StartDownload \/ StartSession \/ CancelSession
WebGoesOn == UploadFails \/ UploadDone \/ Drained \/ WebRestarts

Next ==
  \/ ScanNext \/ QueueWrite
  \/ \E a \in Pausers : CallStep(a)
  \/ WatchdogBites
  \/ WebStarts \/ WebGoesOn
  \/ OtaNext \/ DiagNext \/ TftNext

(* Every task is scheduled, and each wait has a time limit.  Two fairness conditions are
   on the other side of the network: an upload ends (the server library gives up on a
   silent client), and a download's connection ends (the streaming loop has no limit of
   its own). *)
OwnSpec ==
  /\ Init /\ [][Next]_ownVars
  /\ WF_ownVars(ScanNext)
  /\ \A a \in Pausers : WF_ownVars(CallStep(a))
  /\ WF_ownVars(WebGoesOn) /\ WF_ownVars(OtaNext)
  /\ WF_ownVars(DiagNext) /\ WF_ownVars(TftNext)

-----------------------------------------------------------------------------
OwnTypeOK ==
  /\ scan \in {"top", "closing", "aside", "leaving", "cycle", "write"}
  /\ suspended \in BOOLEAN /\ watched \in BOOLEAN /\ asked \in BOOLEAN /\ aside \in BOOLEAN
  /\ queue \in 0..MaxWrites
  /\ bus \in {"none", "scan", "tft"}
  /\ diag \in {"idle", "stages", "asking", "snapshot", "prompt", "stability", "releasing"}
  /\ cancelled \in BOOLEAN
  /\ web \in {"idle", "receiving", "draining", "restarting"}
  /\ ota \in {"none", "waiting", "freeing", "handshake", "flashing", "restarting", "done"}
  /\ call \in [Pausers -> {"none", "unwatch", "suspend", "resume", "watch"}]
  /\ tft \in {"idle", "waiting", "drawing", "parked", "deleted"} /\ stop \in BOOLEAN /\ late \in BOOLEAN
  /\ used \in [DOMAIN Budgets -> Nat] /\ \A k \in DOMAIN Budgets : used[k] <= Budgets[k]
  /\ unheard \in BOOLEAN /\ overlap \in BOOLEAN /\ torn \in BOOLEAN

\* A self-test never drives the reader while the scan task is in a transaction, whatever
\* suspensions, cancellations and sessions came before, unless an earlier session gave up
\* waiting for the scan task (waitForScanPaused, resumeScanAndWait).
SessionOwnsReader == (diag \in DrivesReader /\ scan \in UsesReader) => unheard

\* The render task is deleted holding the bus, which nobody can then take until a restart,
\* only when an upload ran beside the download: a paused scan task keeps the bus from it for
\* as long as freeForOTA() waits, or leaves it free to draw and park ("NFC is already paused,
\* so the task cannot block on the bus for long").
StrandedOnlyByOverlap == (bus = "tft" /\ tft = "deleted") => overlap

\* The suspended scan task is not under the watchdog when pauses and resumes of a single
\* update, of failed ones in a row, and of drained queues follow each other; only an upload
\* beside a download can leave it there (pauseScanTask, resumeScanTask).
LoneUpdateNeverBites == Starving => overlap

\* However updates and self-tests fail, end, are cancelled or overlap, the scan task is back
\* at scanning: no suspension and no pause request is forgotten.
ScanningResumes == []<>(scan = "cycle" /\ ~suspended)

\* A restart for a new configuration or a new firmware waits for the tag write in progress
\* (CHANGELOG: "wait for pending NFC writes to complete before rebooting").
RestartWaitsForWrites == ~torn
=============================================================================
