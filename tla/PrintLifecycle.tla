--------------------------- MODULE PrintLifecycle ---------------------------
(***************************************************************************)
(* A print, from the printer to the request that takes its filament off    *)
(* the spool: the poll of PrinterManager, which reads /status and then     *)
(* /job through PrusaLinkStrategy while the printer goes on, the messages  *)
(* PRINT_STARTED and PRINT_ENDED, and what ApplicationManager makes of     *)
(* them and of SPOOL_DETECTED, in self-directed mode.                      *)
(*                                                                         *)
(* Grams are kept as the job whose metadata they come from and the percent *)
(* of it.  The reader may announce any spool at any time: ScanLoop says    *)
(* when it does, and what becomes of the requestCurrentSpool() of a print. *)
(* Warnings about mismatched filament change nothing here and are left out.*)
(***************************************************************************)
EXTENDS Naturals, Sequences

CONSTANTS
  Spools, NoSpool,
  Levels,              \* progress values, in percent
  Files,               \* what the files of the jobs may say
  JOB_MISSING_GRACE,
  MaxJobs,             \* bound: jobs the printer starts
  MaxFailures,         \* bound: requests to the printer that fail
  MaxLost,             \* bound: messages lost to a full application queue
  Backlog              \* bound: messages waiting, beyond which no spool is announced

ASSUME SpoolAssumption == NoSpool \notin Spools
ASSUME LevelAssumption == Levels \subseteq 0..100 /\ {0, 100} \subseteq Levels
ASSUME FileAssumption == Files \subseteq [1..MaxJobs -> {"none", "total", "tools"}]
ASSUME GraceAssumption == JOB_MISSING_GRACE \in Nat \ {0}
ASSUME BoundAssumption == MaxJobs \in Nat /\ MaxFailures \in Nat /\ MaxLost \in Nat

Jobs == 1..MaxJobs
NoJob == 0
NoData == 0      \* no metadata: 0 grams, no tools

VARIABLES
  job,       \* the printer's job: id, progress, state
  file,      \* what the file of each job says: nothing, a total, a total per tool
  step,      \* where the poll is
  status,    \* jobId_ and progress_, from /status
  tools,     \* the job toolCount_ and filamentPerTool_ are of
  track,     \* PrinterManager: the tracked job, its total, progress, tools, misses
  inbox,     \* messages for the application
  app,       \* AppState, job, startingSpoolId, spoolChangedDuringPrint
  deducted,  \* history: the deduction the last message led to: watched for, charged for
  ended,     \* history: how often the end of each job was reported
  reached,   \* history: how far each job got
  torn, gap, \* history: a poll that mixed two jobs, an outage beyond the grace
  failures, lost

printerVars == <<job, file, reached>>
pollVars == <<step, status, tools, track, ended, torn, gap, failures>>
appVars == <<app, deducted>>
printVars == <<printerVars, pollVars, appVars, inbox, lost>>

Unasked == [id |-> NoJob, prog |-> 0]
Idle == [id |-> NoJob, total |-> NoData, prog |-> 0, tools |-> NoData, missing |-> 0]
NoDeduction == [from |-> NoJob, for |-> NoJob]

PrintInit ==
  /\ job = [id |-> NoJob, prog |-> 0, state |-> "NONE"]
  /\ file \in Files
  /\ step = "status" /\ status = Unasked /\ tools = NoData
  /\ track = Idle
  /\ inbox = <<>>
  /\ app = [state |-> "IDLE", job |-> NoJob, start |-> NoSpool, changed |-> FALSE]
  /\ deducted = NoDeduction
  /\ ended = [j \in Jobs |-> 0] /\ reached = [j \in Jobs |-> 0]
  /\ torn = FALSE /\ gap = FALSE
  /\ failures = 0 /\ lost = 0
-----------------------------------------------------------------------------
(* The printer (external) *)

Over == {"FINISHED", "STOPPED"}      \* ERROR is treated as STOPPED

Printer(new) ==
  /\ job' = new
  /\ reached' = [reached EXCEPT ![new.id] = new.prog]
  /\ UNCHANGED <<file, pollVars, appVars, inbox, lost>>

StartJob ==
  /\ job.state # "PRINTING" /\ job.id < MaxJobs
  /\ Printer([id |-> job.id + 1, prog |-> 0, state |-> "PRINTING"])

Advance ==
  /\ job.state = "PRINTING"
  /\ \E p \in Levels : p > job.prog /\ p < 100 /\ Printer([job EXCEPT !.prog = p])

EndJob ==
  /\ job.state = "PRINTING"
  /\ \/ Printer([job EXCEPT !.prog = 100, !.state = "FINISHED"])
     \/ Printer([job EXCEPT !.state = "STOPPED"])

\* The user closes the finished job: /status shows none.
CloseJob ==
  /\ job.state \in Over
  /\ Printer([job EXCEPT !.state = "NONE"])
-----------------------------------------------------------------------------
(* The poll *)

\* sendMessage() of PrinterManager: the result is ignored, a full queue drops it.
Send(messages) ==
  \/ inbox' = inbox \o messages /\ UNCHANGED lost
  \/ /\ lost < MaxLost
     /\ lost' = lost + 1
     /\ \E i \in 1..Len(messages) :
          inbox' = inbox \o SubSeq(messages, 1, i - 1) \o SubSeq(messages, i + 1, Len(messages))

Started(id) == [type |-> "started", job |-> id]
Ended(t, total, prog) ==
  [type |-> "ended", job |-> t.id, total |-> total, prog |-> prog, tools |-> t.tools]

\* handleJobDetected(): what is tracked from now on.
Detected(id, total, prog, live) ==
  [id |-> id, total |-> total, prog |-> prog, tools |-> live, missing |-> 0]

Reported(m) == ended' = [ended EXCEPT ![m.job] = @ + 1]

\* fetchDeferredFilament(): asked only when no total is known.
Deferred(total, id) ==
  IF total = NoData /\ file[id] # "none" THEN {NoData, id} ELSE {total}

\* resolveAndSendJobEnd()
Resolve(total, prog) ==
  \E known \in Deferred(total, track.id) :
    LET m == Ended(track, known, prog) IN
      /\ Reported(m) /\ Send(<<m>>)
      /\ track' = Idle

\* Variant: a job that vanishes has always finished.
DisappearedFinished == Resolve(track.total, 100)

\* handleJobDisappeared()
Disappeared == Resolve(track.total, IF track.prog >= 95 THEN 100 ELSE track.prog)

GraceOver == track.missing + 1 >= JOB_MISSING_GRACE

\* No connection or no job: the tracked job is given up after the grace.
JobMissing ==
  \/ track.id = NoJob /\ UNCHANGED <<track, inbox, lost, ended, gap>>
  \/ /\ track.id # NoJob /\ ~GraceOver
     /\ track' = [track EXCEPT !.missing = @ + 1]
     /\ UNCHANGED <<inbox, lost, ended, gap>>
  \/ /\ track.id # NoJob /\ GraceOver
     /\ Disappeared
     /\ gap' = (gap \/ (job.id = track.id /\ job.state = "PRINTING"))

\* fetchStatus()
PollStatus ==
  /\ step = "status"
  /\ \/ /\ \/ failures < MaxFailures /\ failures' = failures + 1
           \/ job.state = "NONE" /\ UNCHANGED failures
        /\ JobMissing
        /\ UNCHANGED <<step, status>>
     \/ /\ job.state # "NONE"
        /\ status' = [id |-> job.id, prog |-> job.prog]
        /\ step' = "job"
        /\ UNCHANGED <<failures, track, inbox, lost, ended, gap>>
  /\ UNCHANGED <<printerVars, appVars, tools, torn>>

\* cachePerToolData(): only data of at least one tool replaces the cached.
CachedTools(live) == IF live = NoData THEN track.tools ELSE live

\* Variant: only success ends a job.
FinalProgressFinished(state) == IF state = "FINISHED" THEN {100} ELSE {}

\* The states that end a tracked job, and with what progress.
FinalProgress(state) ==
  IF state = "FINISHED" THEN {100} ELSE IF state = "STOPPED" THEN {status.prog} ELSE {}

\* Variant: every job the API describes is taken for a running one.
RunningOrOver(state) == state # ""

Running(state) == state = "PRINTING"     \* or PAUSED

\* The rest of poll(), with what update() left in the strategy.
Evaluate(total, state, live) ==
  LET new == Detected(status.id, total, status.prog, live)
      refreshed == [track EXCEPT !.prog = status.prog, !.missing = 0,
                                 !.total = IF total # NoData THEN total ELSE @,
                                 !.tools = CachedTools(live)]
  IN  \/ /\ track.id = NoJob /\ Running(state)
         /\ track' = new /\ Send(<<Started(status.id)>>)
         /\ UNCHANGED <<ended>>
      \/ /\ track.id = NoJob /\ ~Running(state)
         /\ UNCHANGED <<track, inbox, lost, ended>>
      \/ /\ track.id \notin {NoJob, status.id}           \* job_replaced
         /\ LET m == Ended(track, track.total, track.prog) IN
              Reported(m) /\ Send(<<m, Started(status.id)>>)
         /\ track' = new
      \/ /\ track.id = status.id
         /\ FinalProgress(state) = {}
         /\ track' = refreshed
         /\ UNCHANGED <<inbox, lost, ended>>
      \/ /\ track.id = status.id
         /\ \E p \in FinalProgress(state), known \in Deferred(refreshed.total, track.id) :
              LET m == Ended(refreshed, known, p) IN
                Reported(m) /\ Send(<<m>>)
         /\ track' = Idle

\* fetchJob(), whose answer is about the job of now, not of /status.
PollJob ==
  /\ step = "job"
  /\ step' = "status"
  /\ \/ /\ failures < MaxFailures /\ failures' = failures + 1
        /\ Evaluate(NoData, "", tools)
        /\ UNCHANGED <<tools, torn>>
     \/ /\ job.state = "NONE"                            \* 204
        /\ Evaluate(NoData, "", tools)
        /\ UNCHANGED <<tools, torn, failures>>
     \/ /\ job.state # "NONE"
        /\ tools' = CASE file[job.id] = "none" -> tools
                      [] file[job.id] = "total" -> NoData
                      [] file[job.id] = "tools" -> job.id
        /\ Evaluate(IF file[job.id] = "none" THEN NoData ELSE job.id, job.state, tools')
        /\ torn' = (torn \/ job.id # status.id)
        /\ UNCHANGED failures
  /\ status' = Unasked
  /\ UNCHANGED <<printerVars, appVars, gap>>
-----------------------------------------------------------------------------
(* The reader and the application *)

SpoolDetected ==
  /\ Len(inbox) < Backlog
  /\ \E s \in Spools : inbox' = Append(inbox, [type |-> "spool", spool |-> s])
  /\ UNCHANGED <<printerVars, pollVars, appVars, lost>>

HandlePrintStarted(m) ==
  /\ app' = [state |-> "MONITORING_PRINT", job |-> m.job, start |-> NoSpool, changed |-> FALSE]
  /\ deducted' = NoDeduction

\* handleSpoolDetected(), the part that follows the spool of a print.
HandleSpoolDetected(m) ==
  /\ app' = CASE app.state = "IDLE" -> app
               [] app.state # "IDLE" /\ app.start = NoSpool -> [app EXCEPT !.start = m.spool]
               [] app.state # "IDLE" /\ app.start # NoSpool ->
                    [app EXCEPT !.changed = @ \/ m.spool # app.start]
  /\ deducted' = NoDeduction

\* finishPrint(): the deduction is bound to the spool the print started with.
FinishPrint(m) ==
  deducted' = IF ~app.changed /\ app.start # NoSpool /\ m.prog > 0 /\ m.total # NoData
              THEN [from |-> app.job, for |-> m.job]
              ELSE NoDeduction

\* Variant: the application goes on monitoring.
KeepMonitoring(m) ==
  IF app.state = "MONITORING_PRINT"
  THEN FinishPrint(m) /\ UNCHANGED app
  ELSE UNCHANGED app /\ deducted' = NoDeduction

HandlePrintEnded(m) ==
  IF app.state = "MONITORING_PRINT"
  THEN FinishPrint(m) /\ app' = [app EXCEPT !.state = "IDLE"]
  ELSE UNCHANGED app /\ deducted' = NoDeduction

HandleMessage ==
  /\ inbox # <<>>
  /\ inbox' = Tail(inbox)
  /\ LET m == Head(inbox) IN
       \/ m.type = "started" /\ HandlePrintStarted(m)
       \/ m.type = "spool" /\ HandleSpoolDetected(m)
       \/ m.type = "ended" /\ HandlePrintEnded(m)
  /\ UNCHANGED <<printerVars, pollVars, lost>>

PrintNext ==
  \/ StartJob \/ Advance \/ EndJob \/ CloseJob
  \/ PollStatus \/ PollJob
  \/ SpoolDetected \/ HandleMessage

PrintSpec == PrintInit /\ [][PrintNext]_printVars

\* The polling task and the application task loop for ever.
FairPrintSpec ==
  PrintSpec /\ WF_printVars(PollStatus \/ PollJob) /\ WF_printVars(HandleMessage)
-----------------------------------------------------------------------------
(* Properties *)

Reports == [type : {"ended"}, job : Jobs, total : Jobs \cup {NoData},
            prog : Levels, tools : Jobs \cup {NoData}]

Waiting(type) == {m \in {inbox[i] : i \in 1..Len(inbox)} : m.type = type}

PrintTypeOK ==
  /\ job \in [id : 0..MaxJobs, prog : Levels, state : {"NONE", "PRINTING"} \cup Over]
  /\ file \in Files
  /\ step \in {"status", "job"} /\ status \in [id : 0..MaxJobs, prog : Levels]
  /\ tools \in Jobs \cup {NoData}
  /\ track \in [id : Jobs \cup {NoJob}, total : Jobs \cup {NoData}, prog : Levels,
               tools : Jobs \cup {NoData}, missing : 0..(JOB_MISSING_GRACE - 1)]
  /\ \A i \in 1..Len(inbox) :
       inbox[i] \in Reports \cup [type : {"started"}, job : Jobs] \cup [type : {"spool"}, spool : Spools]
  /\ app \in [state : {"IDLE", "MONITORING_PRINT"}, job : Jobs \cup {NoJob},
             start : Spools \cup {NoSpool}, changed : BOOLEAN]
  /\ deducted \in [from : Jobs \cup {NoJob}, for : Jobs \cup {NoJob}]
  /\ ended \in [Jobs -> Nat] /\ reached \in [Jobs -> Levels]
  /\ torn \in BOOLEAN /\ gap \in BOOLEAN
  /\ failures \in 0..MaxFailures /\ lost \in 0..MaxLost

\* The end of a print is reported once, through failed requests, replaced jobs
\* and jobs that stay in the API when they are over; unless the printer was out
\* of reach for longer than the grace, or changed jobs between /status and /job.
NoJobTwice == ~torn /\ ~gap => \A j \in Jobs : ended[j] <= 1

\* A report never claims more of a job than was printed, but for the last five
\* percent of a job that vanished (handleJobDisappeared).
NotOverstated ==
  ~torn => \A m \in Waiting("ended") : m.prog <= reached[m.job] \/ reached[m.job] >= 95

\* One lost PRINT_STARTED or PRINT_ENDED never charges a print to the spool that
\* was watched for another one.
LossIsHarmless == deducted.from = deducted.for

\* A tracked print that is over is reported, whichever (finitely many) requests fail.
TrackingEnds ==
  \A j \in Jobs :
    (track.id = j /\ (job.id # j \/ job.state # "PRINTING")) ~> track.id # j

\* The report of a job says of each tool what that job used, even when no poll
\* mixed two jobs: "use cached per-tool data (not live strategy object, which may
\* have next job's data)" (PrinterManager.cpp:240), and a poll shall "discard
\* previous state" (PrusaLinkStrategy.cpp:25).
PerToolIsItsOwn == ~torn => \A m \in Waiting("ended") : m.tools \in {NoData, m.job}
=============================================================================
