------------------------- MODULE PrintLifecycle_proofs -------------------------
(***************************************************************************)
(* What TLC checks of PrintLifecycle on two jobs, for any number of jobs   *)
(* and losses, any files, progress values, grace and failures: types, one  *)
(* report per job, no overstated report, and no print charged to another   *)
(* one's spool while at most one message was lost.                         *)
(***************************************************************************)
EXTENDS PrintLifecycle, SequenceTheorems, TLAPS

Messages == Reports \cup [type : {"started"}, job : Jobs] \cup [type : {"spool"}, spool : Spools]

\* What a job that the printer describes looks like, and how far it got.
JobStands ==
  /\ job.state # "NONE" => job.id \in Jobs
  /\ job.state = "FINISHED" => job.prog = 100
  /\ job.id \in Jobs => reached[job.id] = job.prog
  /\ \A j \in Jobs : j > job.id => reached[j] = 0

\* What was polled is a job of then, which the printer may have left since.
PollBehind ==
  /\ track.id <= job.id
  /\ track.id # NoJob => track.prog <= reached[track.id]
  /\ step = "job" => /\ status.id \in Jobs /\ track.id <= status.id /\ status.id <= job.id
                     /\ status.prog <= reached[status.id]

\* A report claims what was printed, but for the last five percent.
Honest(m) == m.prog <= reached[m.job] \/ reached[m.job] >= 95
ReportsHonest ==
  ~torn => \A i \in 1..Len(inbox) : inbox[i].type = "ended" => Honest(inbox[i])

\* A job that was reported is behind the printer and behind the poll.
EndedOnce ==
  ~torn /\ ~gap =>
    \A j \in Jobs : /\ ended[j] <= 1
                    /\ ended[j] > 0 => /\ j <= job.id
                                       /\ ~(j = job.id /\ job.state = "PRINTING")
                                       /\ track.id # NoJob => j < track.id

PrintInv ==
  PrintTypeOK /\ inbox \in Seq(Messages) /\ JobStands /\ PollBehind /\ ReportsHonest /\ EndedOnce

-----------------------------------------------------------------------------
(* Messages *)

LEMMA Appended ==
  ASSUME NEW s \in Seq(Messages), NEW m \in Messages
  PROVE  /\ Append(s, m) \in Seq(Messages) /\ Len(Append(s, m)) = Len(s) + 1
         /\ \A i \in 1..Len(s) : Append(s, m)[i] = s[i]
         /\ Append(s, m)[Len(s) + 1] = m
  OBVIOUS

\* A message is sent, or lost to a full queue.
LEMMA SentOne ==
  ASSUME inbox \in Seq(Messages), NEW m \in Messages, Send(<<m>>)
  PROVE  \/ inbox' = Append(inbox, m) /\ lost' = lost
         \/ inbox' = inbox /\ lost < MaxLost /\ lost' = lost + 1
<1>1. inbox \o <<m>> = Append(inbox, m)
  OBVIOUS
<1>2. SUFFICES ASSUME lost < MaxLost, lost' = lost + 1,
                      NEW i \in 1..Len(<<m>>),
                      inbox' = inbox \o SubSeq(<<m>>, 1, i - 1) \o SubSeq(<<m>>, i + 1, Len(<<m>>))
               PROVE  inbox' = inbox
  BY <1>1 DEF Send
<1>3. i = 1 /\ Len(<<m>>) = 1
  BY <1>2
<1>4. SubSeq(<<m>>, 1, 0) = <<>> /\ SubSeq(<<m>>, 2, 1) = <<>>
  OBVIOUS
<1> QED BY <1>2, <1>3, <1>4

\* Of two messages at most one is lost.
LEMMA SentTwo ==
  ASSUME inbox \in Seq(Messages), NEW m \in Messages, NEW n \in Messages, Send(<<m, n>>)
  PROVE  \/ inbox' = Append(Append(inbox, m), n) /\ lost' = lost
         \/ inbox' \in {Append(inbox, m), Append(inbox, n)} /\ lost < MaxLost /\ lost' = lost + 1
<1>1. /\ inbox \o <<m, n>> = Append(Append(inbox, m), n)
      /\ inbox \o <<m>> = Append(inbox, m) /\ inbox \o <<n>> = Append(inbox, n)
  OBVIOUS
<1>2. SUFFICES ASSUME lost < MaxLost, lost' = lost + 1,
                      NEW i \in 1..Len(<<m, n>>),
                      inbox' = inbox \o SubSeq(<<m, n>>, 1, i - 1)
                                     \o SubSeq(<<m, n>>, i + 1, Len(<<m, n>>))
               PROVE  inbox' \in {Append(inbox, m), Append(inbox, n)}
  BY <1>1 DEF Send
<1>3. (i = 1 \/ i = 2) /\ Len(<<m, n>>) = 2
  BY <1>2
<1>4. SubSeq(<<m, n>>, 1, 0) = <<>> /\ SubSeq(<<m, n>>, 3, 2) = <<>>
  OBVIOUS
<1>5. SubSeq(<<m, n>>, 2, 2) = <<n>> /\ SubSeq(<<m, n>>, 1, 1) = <<m>>
  <2> DEFINE two == <<m, n>>
  <2>1. two \in Seq(Messages) /\ Len(two) = 2 /\ two[1] = m /\ two[2] = n
    OBVIOUS
  <2> HIDE DEF two
  <2>2. 1 \in 1..Len(two) /\ 2 \in 2..Len(two) /\ 1 \in 1..Len(two) /\ 2 \in 1..Len(two)
    BY <2>1
  <2>3. SubSeq(two, 2, 2) = <<two[2]>> \o SubSeq(two, 2 + 1, 2)
    BY <2>1, <2>2, SubSeqRecursiveFirst
  <2>4. SubSeq(two, 1, 1) = <<two[1]>> \o SubSeq(two, 1 + 1, 1)
    BY <2>1, <2>2, SubSeqRecursiveFirst
  <2>5. SubSeq(two, 1 + 1, 1) = <<>> /\ SubSeq(two, 2 + 1, 2) = <<>>
    BY SubSeqEmpty
  <2>6. <<two[1]>> \o <<>> = <<m>> /\ <<two[2]>> \o <<>> = <<n>>
    BY <2>1
  <2> QED BY <2>3, <2>4, <2>5, <2>6 DEF two
<1>7. CASE i = 1
  BY <1>1, <1>2, <1>3, <1>4, <1>5, <1>7
<1>8. CASE i = 2
  BY <1>1, <1>2, <1>3, <1>4, <1>5, <1>8
<1> QED BY <1>3, <1>7, <1>8

LEMMA MessageKinds ==
  ASSUME NEW m \in Messages
  PROVE  /\ m.type \in {"started", "ended", "spool"}
         /\ m.type = "ended" => m \in Reports
         /\ m.type = "started" => m.job \in Jobs
         /\ m.type = "spool" => m.spool \in Spools
  BY DEF Messages, Reports

\* Whatever is lost, the messages that wait are old ones and the ones just sent.
LEMMA OneArrives ==
  ASSUME inbox \in Seq(Messages), lost \in 0..MaxLost, NEW m \in Messages, Send(<<m>>)
  PROVE  /\ inbox' \in Seq(Messages) /\ lost' \in 0..MaxLost
         /\ \A i \in 1..Len(inbox') : inbox'[i] = m \/ \E k \in 1..Len(inbox) : inbox'[i] = inbox[k]
<1>1. lost' \in 0..MaxLost /\ inbox' \in {inbox, Append(inbox, m)}
  BY SentOne, BoundAssumption
<1> QED BY <1>1

LEMMA TwoArrive ==
  ASSUME inbox \in Seq(Messages), lost \in 0..MaxLost,
         NEW m \in Messages, NEW n \in Messages, Send(<<m, n>>)
  PROVE  /\ inbox' \in Seq(Messages) /\ lost' \in 0..MaxLost
         /\ \A i \in 1..Len(inbox') :
              inbox'[i] \in {m, n} \/ \E k \in 1..Len(inbox) : inbox'[i] = inbox[k]
<1>1. /\ lost' \in 0..MaxLost
      /\ inbox' \in {Append(inbox, m), Append(inbox, n), Append(Append(inbox, m), n)}
  BY SentTwo, BoundAssumption
<1>2. CASE inbox' = Append(inbox, m)
  BY <1>1, <1>2, Appended
<1>3. CASE inbox' = Append(inbox, n)
  BY <1>1, <1>3, Appended
<1>4. CASE inbox' = Append(Append(inbox, m), n)
  <2>1. Append(inbox, m) \in Seq(Messages)
    OBVIOUS
  <2> QED BY <1>1, <1>4, <2>1, Appended
<1> QED BY <1>1, <1>2, <1>3, <1>4

-----------------------------------------------------------------------------
(* What a poll does *)

TrackTypes ==
  [id : Jobs \cup {NoJob}, total : Jobs \cup {NoData}, prog : Levels,
   tools : Jobs \cup {NoData}, missing : 0..(JOB_MISSING_GRACE - 1)]

Quiet == track'.id = track.id /\ UNCHANGED <<inbox, lost, ended>>

Begins ==
  \E n \in Jobs : /\ track.id = NoJob /\ track'.id = n
                  /\ Send(<<Started(n)>>) /\ UNCHANGED ended
                  /\ ~torn' => n = job.id /\ job.state = "PRINTING"

Replaces ==
  \E n \in Jobs, m \in Reports :
    /\ m.job = track.id /\ track.id \in Jobs
    /\ track.id < n /\ n <= job.id /\ track'.id = n
    /\ Send(<<m, Started(n)>>) /\ Reported(m) /\ Honest(m)

Ends ==
  \E m \in Reports :
    /\ m.job = track.id /\ track.id \in Jobs /\ track'.id = NoJob
    /\ Send(<<m>>) /\ Reported(m)
    /\ ~torn' => Honest(m)
    /\ ~torn' /\ ~gap' => ~(track.id = job.id /\ job.state = "PRINTING")

PollEffect ==
  /\ track' \in TrackTypes /\ track'.id <= job.id
  /\ track'.id # NoJob => track'.prog <= reached[track'.id]
  /\ Quiet \/ Begins \/ Replaces \/ Ends

LEMMA Numbers == Jobs \subseteq Nat /\ NoJob \notin Jobs /\ Levels \subseteq 0..100 /\ NoJob = NoData
  BY LevelAssumption, BoundAssumption DEF Jobs, NoJob, NoData

LEMMA LevelNumbers == \A x \in Levels : x \in Int /\ x <= 100
<1>1. \A x \in Levels : x \in 0..100
  BY LevelAssumption
<1> QED BY <1>1

LEMMA NoJobIsNumber == NoJob \in Int
  BY DEF NoJob

LEMMA IdleTyped == Idle \in TrackTypes
  BY LevelAssumption, GraceAssumption DEF Idle, TrackTypes

LEMMA Looked ==
  ASSUME NEW total \in Jobs \cup {NoData}, NEW id \in Jobs
  PROVE  Deferred(total, id) \subseteq Jobs \cup {NoData}
  BY DEF Deferred

LEMMA Vanishes ==
  ASSUME PrintInv, track.id # NoJob, Disappeared
  PROVE  /\ track' = Idle
         /\ \E m \in Reports : m.job = track.id /\ track.id \in Jobs /\ Send(<<m>>)
                               /\ Reported(m) /\ Honest(m)
<1> DEFINE prog == IF track.prog >= 95 THEN 100 ELSE track.prog
<1>0. /\ track \in TrackTypes /\ track.id \in Jobs /\ track.prog \in Levels
      /\ track.prog <= reached[track.id] /\ reached[track.id] \in Levels
  BY DEF PrintInv, PrintTypeOK, TrackTypes, PollBehind
<1>1. prog \in Levels /\ (prog = 100 \/ prog = track.prog) /\ (track.prog >= 95 \/ prog = track.prog)
  BY <1>0, LevelAssumption
<1>2. PICK known \in Deferred(track.total, track.id) :
        LET m == Ended(track, known, prog) IN Reported(m) /\ Send(<<m>>) /\ track' = Idle
  BY DEF Disappeared, Resolve
<1> HIDE DEF prog
<1>3. known \in Jobs \cup {NoData} /\ track.total \in Jobs \cup {NoData}
  BY <1>0, <1>2, Looked DEF TrackTypes
<1> DEFINE m == Ended(track, known, prog)
<1>4. m \in Reports /\ m.job = track.id /\ m.prog = prog
  BY <1>0, <1>1, <1>3 DEF Ended, Reports, TrackTypes
<1> HIDE DEF m
<1>5. Honest(m)
  <2>1. CASE track.prog >= 95
    <3>1. track.prog \in Int /\ reached[track.id] \in Int
      <4>1. track.prog \in Levels /\ reached[track.id] \in Levels
        BY <1>0
      <4> QED BY <4>1, LevelNumbers
    <3>2. reached[track.id] >= 95
      BY <1>0, <2>1, <3>1
    <3> QED BY <1>4, <3>2 DEF Honest
  <2>2. CASE ~(track.prog >= 95)
    BY <1>0, <1>1, <1>4, <2>2 DEF Honest
  <2> QED BY <2>1, <2>2
<1> QED BY <1>0, <1>2, <1>4, <1>5 DEF m

LEMMA MissingEffect ==
  ASSUME PrintInv, JobMissing, UNCHANGED <<torn, job, reached>>
  PROVE  PollEffect /\ (track' = Idle \/ track'.id = track.id)
<1>1. track \in TrackTypes /\ track.id \in Jobs \cup {NoJob} /\ job.id \in Nat
  BY Numbers, BoundAssumption DEF PrintInv, PrintTypeOK, TrackTypes
<1>2. CASE UNCHANGED <<track, inbox, lost, ended, gap>>
  BY <1>1, <1>2 DEF PollEffect, Quiet, PrintInv, PollBehind
<1>3. CASE /\ track.id # NoJob /\ ~GraceOver
           /\ track' = [track EXCEPT !.missing = @ + 1]
           /\ UNCHANGED <<inbox, lost, ended, gap>>
  <2>1. track.missing + 1 \in 0..(JOB_MISSING_GRACE - 1)
    BY <1>1, <1>3, GraceAssumption DEF GraceOver, TrackTypes
  <2>2. track' \in TrackTypes /\ track'.id = track.id /\ track'.prog = track.prog
    BY <1>1, <1>3, <2>1 DEF TrackTypes
  <2> QED BY <1>3, <2>2 DEF PollEffect, Quiet, PrintInv, PollBehind
<1>4. CASE /\ track.id # NoJob /\ GraceOver /\ Disappeared
           /\ gap' = (gap \/ (job.id = track.id /\ job.state = "PRINTING"))
  <2>1. /\ track' = Idle
        /\ \E m \in Reports : m.job = track.id /\ track.id \in Jobs /\ Send(<<m>>)
                              /\ Reported(m) /\ Honest(m)
    BY <1>4, Vanishes
  <2>2. track' \in TrackTypes /\ track'.id = NoJob /\ track'.id <= job.id
    BY <1>1, <2>1, IdleTyped DEF Idle, NoJob
  <2>3. ~gap' => ~(track.id = job.id /\ job.state = "PRINTING")
    BY <1>4, Zenon
  <2>4. Ends
    BY <2>1, <2>2, <2>3 DEF Ends
  <2> QED BY <2>1, <2>2, <2>4 DEF PollEffect
<1> QED BY <1>2, <1>3, <1>4 DEF JobMissing

\* The printer's answer is about the job of /status, or the poll mixed two jobs.
Described(state) == ~torn' /\ state # "" => status.id = job.id /\ state = job.state

LEMMA EvaluateEffect ==
  ASSUME PrintInv, step = "job", NEW total \in Jobs \cup {NoData}, NEW live \in Jobs \cup {NoData},
         NEW state, Evaluate(total, state, live), UNCHANGED <<job, reached, gap>>,
         Described(state)
  PROVE  PollEffect
<1> DEFINE new == Detected(status.id, total, status.prog, live)
           refreshed == [track EXCEPT !.prog = status.prog, !.missing = 0,
                                      !.total = IF total # NoData THEN total ELSE @,
                                      !.tools = CachedTools(live)]
<1>1. /\ track \in TrackTypes /\ job.id \in Nat
      /\ reached \in [Jobs -> Levels]
  BY BoundAssumption DEF PrintInv, PrintTypeOK, TrackTypes
<1>2. /\ status.id \in Jobs /\ track.id <= status.id /\ status.id <= job.id
      /\ status.prog \in Levels /\ status.prog <= reached[status.id]
  BY DEF PrintInv, PrintTypeOK, PollBehind
<1>3. new \in TrackTypes /\ new.id = status.id /\ new.prog = status.prog
  BY <1>2, GraceAssumption DEF Detected, TrackTypes
<1>4. /\ refreshed \in TrackTypes /\ refreshed.id = track.id /\ refreshed.prog = status.prog
  <2>1. CachedTools(live) \in Jobs \cup {NoData}
    BY <1>1 DEF TrackTypes, CachedTools
  <2>2. (IF total # NoData THEN total ELSE track.total) \in Jobs \cup {NoData}
    BY <1>1 DEF TrackTypes
  <2>3. 0 \in 0..(JOB_MISSING_GRACE - 1)
    BY GraceAssumption
  <2> QED BY <1>1, <1>2, <2>1, <2>2, <2>3 DEF TrackTypes
<1> HIDE DEF new, refreshed
<1>5. CASE track.id = NoJob /\ Running(state) /\ track' = new /\ Send(<<Started(status.id)>>)
             /\ UNCHANGED <<ended>>
  <2>1. ~torn' => status.id = job.id /\ job.state = "PRINTING"
    BY <1>5 DEF Running, Described
  <2>2. Begins
    BY <1>2, <1>3, <1>5, <2>1 DEF Begins
  <2> QED BY <1>2, <1>3, <1>5, <2>2 DEF PollEffect
<1>6. CASE UNCHANGED <<track, inbox, lost, ended>>
  BY <1>1, <1>6 DEF PollEffect, Quiet, PrintInv, PollBehind
<1>7. CASE /\ track.id \notin {NoJob, status.id}
           /\ LET m == Ended(track, track.total, track.prog) IN
                Reported(m) /\ Send(<<m, Started(status.id)>>)
           /\ track' = new
  <2> DEFINE m == Ended(track, track.total, track.prog)
  <2>1. track.id \in Jobs /\ track.id < status.id
    <3>1. track.id \in Jobs
      BY <1>1, <1>7 DEF TrackTypes
    <3> QED BY <3>1, <1>2, <1>7 DEF Jobs
  <2>2. m \in Reports /\ m.job = track.id /\ m.prog = track.prog
    BY <1>1, <2>1 DEF Ended, Reports, TrackTypes
  <2>3. Honest(m)
    BY <1>7, <2>2 DEF Honest, PrintInv, PollBehind
  <2>4. Reported(m) /\ Send(<<m, Started(status.id)>>)
    BY <1>7
  <2> HIDE DEF m
  <2>5. Replaces
    BY <1>2, <1>3, <1>7, <2>1, <2>2, <2>3, <2>4 DEF Replaces
  <2> QED BY <1>2, <1>3, <1>7, <2>5 DEF PollEffect
<1>8. CASE track.id = status.id /\ track' = refreshed /\ UNCHANGED <<inbox, lost, ended>>
  BY <1>2, <1>4, <1>8 DEF PollEffect, Quiet
<1>9. CASE /\ track.id = status.id
           /\ \E p \in FinalProgress(state), known \in Deferred(refreshed.total, track.id) :
                LET m == Ended(refreshed, known, p) IN
                  Reported(m) /\ Send(<<m>>)
           /\ track' = Idle
  <2>1. PICK p \in FinalProgress(state), known \in Deferred(refreshed.total, track.id) :
          LET m == Ended(refreshed, known, p) IN Reported(m) /\ Send(<<m>>)
    BY <1>9
  <2> DEFINE m == Ended(refreshed, known, p)
  <2>2. /\ state \in Over /\ state # "" /\ p \in Levels
        /\ (state = "FINISHED" /\ p = 100) \/ (state = "STOPPED" /\ p = status.prog)
    <3>1. (state = "FINISHED" /\ p = 100) \/ (state = "STOPPED" /\ p = status.prog)
      BY <2>1 DEF FinalProgress
    <3>2. 100 \in Levels
      BY LevelAssumption
    <3>3. CASE state = "FINISHED" /\ p = 100
      BY <3>2, <3>3 DEF Over
    <3>4. CASE state = "STOPPED" /\ p = status.prog
      BY <1>2, <3>4 DEF Over
    <3> QED BY <3>1, <3>3, <3>4
  <2>3. known \in Jobs \cup {NoData}
    BY <1>2, <1>4, <1>9, <2>1, Looked DEF TrackTypes
  <2>4. m \in Reports /\ m.job = track.id /\ m.prog = p
    BY <1>2, <1>4, <1>9, <2>2, <2>3 DEF Ended, Reports, TrackTypes
  <2>5. ~torn' => job.state = state /\ job.id = track.id
    BY <1>9, <2>2 DEF Described
  <2>6. ~torn' => Honest(m)
    <3>1. CASE state = "FINISHED"
      <4>1. ~torn' => job.prog = 100 /\ reached[m.job] = job.prog
        BY <1>2, <1>9, <2>4, <2>5, <3>1 DEF PrintInv, JobStands
      <4> QED BY <4>1 DEF Honest
    <3>2. CASE state = "STOPPED"
      BY <1>2, <1>9, <2>2, <2>4, <3>2 DEF Honest
    <3> QED BY <2>2, <3>1, <3>2
  <2>7. Reported(m) /\ Send(<<m>>)
    BY <2>1
  <2> HIDE DEF m
  <2>8. track' \in TrackTypes /\ track'.id = NoJob /\ track'.id <= job.id
    BY <1>1, <1>9, IdleTyped DEF Idle, NoJob
  <2>9. ~torn' => job.state # "PRINTING"
    BY <2>2, <2>5 DEF Over
  <2>10. Ends
    BY <1>2, <1>9, <2>4, <2>6, <2>7, <2>8, <2>9 DEF Ends
  <2> QED BY <1>9, <2>8, <2>10 DEF PollEffect
<1> QED BY <1>5, <1>6, <1>7, <1>8, <1>9 DEF Evaluate, new, refreshed

-----------------------------------------------------------------------------
(* Steps *)

LEMMA JobNumbers ==
  ASSUME PrintInv
  PROVE  /\ job.id \in 0..MaxJobs /\ job.id \in Int
         /\ job.prog \in Levels /\ job.prog \in Int /\ job.prog <= 100
<1>1. job.id \in 0..MaxJobs /\ job.prog \in Levels
  BY DEF PrintInv, PrintTypeOK
<1>2. job.id \in Int
  BY <1>1
<1> QED BY <1>1, <1>2, LevelNumbers

\* The messages that wait have their types, as the type invariant says of them.
LEMMA InboxTyped ==
  ASSUME NEW s \in Seq(Messages)
  PROVE  \A i \in 1..Len(s) :
           s[i] \in Reports \cup [type : {"started"}, job : Jobs] \cup [type : {"spool"}, spool : Spools]
  BY DEF Messages

\* Whatever a poll reports is honest, and reported for the first time.
LEMMA EffectKeeps ==
  ASSUME PrintInv, PollEffect, UNCHANGED <<job, reached>>, ~torn' => ~torn, ~gap' => ~gap
  PROVE  /\ inbox' \in Seq(Messages) /\ lost' \in 0..MaxLost /\ ended' \in [Jobs -> Nat]
         /\ ReportsHonest' /\ EndedOnce'
<1>1. /\ inbox \in Seq(Messages) /\ lost \in 0..MaxLost /\ ended \in [Jobs -> Nat]
      /\ track.id \in Jobs \cup {NoJob}
  BY DEF PrintInv, PrintTypeOK
<1>2. ~torn' => \A i \in 1..Len(inbox) : inbox[i].type = "ended" => Honest(inbox[i])
  BY DEF PrintInv, ReportsHonest
<1>3. ~torn' /\ ~gap' =>
        \A j \in Jobs : /\ ended[j] <= 1
                        /\ ended[j] > 0 => /\ j <= job.id
                                           /\ ~(j = job.id /\ job.state = "PRINTING")
                                           /\ track.id # NoJob => j < track.id
  BY DEF PrintInv, EndedOnce
<1>4. \A m : Honest(m)' <=> Honest(m)
  BY DEF Honest
<1>5. CASE Quiet
  <2>1. track'.id = track.id /\ inbox' = inbox /\ lost' = lost /\ ended' = ended
    BY <1>5 DEF Quiet
  <2>2. ReportsHonest'
    BY <1>2, <2>1 DEF ReportsHonest, Honest
  <2> QED BY <1>1, <1>3, <2>1, <2>2 DEF EndedOnce
<1>6. CASE Begins
  <2>1. PICK n \in Jobs : /\ track.id = NoJob /\ track'.id = n
                          /\ Send(<<Started(n)>>) /\ UNCHANGED ended
                          /\ ~torn' => n = job.id /\ job.state = "PRINTING"
    BY <1>6 DEF Begins
  <2>2. Started(n) \in Messages /\ Started(n).type # "ended"
    BY DEF Started, Messages
  <2>3. /\ inbox' \in Seq(Messages) /\ lost' \in 0..MaxLost
        /\ \A i \in 1..Len(inbox') :
             inbox'[i] = Started(n) \/ \E k \in 1..Len(inbox) : inbox'[i] = inbox[k]
    BY <1>1, <2>1, <2>2, OneArrives
  <2>4. ReportsHonest'
    BY <1>2, <2>2, <2>3 DEF ReportsHonest, Honest
  <2>5. EndedOnce'
    <3>1. ~torn' /\ ~gap' => \A j \in Jobs : ended[j] > 0 => j < n
      BY <1>3, <2>1 DEF Jobs
    <3> QED BY <1>3, <2>1, <3>1 DEF EndedOnce
  <2> QED BY <1>1, <2>1, <2>3, <2>4, <2>5
<1>7. CASE Replaces
  <2>1. PICK n \in Jobs, m \in Reports :
          /\ m.job = track.id /\ track.id \in Jobs
          /\ track.id < n /\ n <= job.id /\ track'.id = n
          /\ Send(<<m, Started(n)>>) /\ Reported(m) /\ Honest(m)
    BY <1>7 DEF Replaces
  <2>2. m \in Messages /\ Started(n) \in Messages /\ Started(n).type # "ended"
    BY DEF Started, Messages
  <2>3. /\ inbox' \in Seq(Messages) /\ lost' \in 0..MaxLost
        /\ \A i \in 1..Len(inbox') :
             inbox'[i] \in {m, Started(n)} \/ \E k \in 1..Len(inbox) : inbox'[i] = inbox[k]
    BY <1>1, <2>1, <2>2, TwoArrive
  <2>4. ReportsHonest'
    BY <1>2, <2>1, <2>2, <2>3 DEF ReportsHonest, Honest
  <2>5. ended' = [ended EXCEPT ![track.id] = @ + 1] /\ ended' \in [Jobs -> Nat]
    BY <1>1, <2>1 DEF Reported
  <2>6. EndedOnce'
    <3> SUFFICES ASSUME ~torn', ~gap', NEW j \in Jobs
                 PROVE  /\ ended'[j] <= 1
                        /\ ended'[j] > 0 => /\ j <= job.id
                                            /\ ~(j = job.id /\ job.state = "PRINTING")
                                            /\ j < n
      BY <2>1 DEF EndedOnce
    <3>1. ended[track.id] = 0
      BY <1>1, <1>3, <2>1 DEF Jobs, NoJob
    <3>2. CASE j = track.id
      BY <1>1, <2>1, <2>5, <3>1, <3>2, BoundAssumption DEF Jobs, PrintInv, PrintTypeOK
    <3>3. CASE j # track.id
      <4>1. ended'[j] = ended[j]
        BY <1>1, <2>5, <3>3
      <4> QED BY <1>3, <2>1, <4>1 DEF Jobs, NoJob
    <3> QED BY <3>2, <3>3
  <2> QED BY <2>3, <2>4, <2>5, <2>6
<1>8. CASE Ends
  <2>1. PICK m \in Reports :
          /\ m.job = track.id /\ track.id \in Jobs /\ track'.id = NoJob
          /\ Send(<<m>>) /\ Reported(m)
          /\ ~torn' => Honest(m)
          /\ ~torn' /\ ~gap' => ~(track.id = job.id /\ job.state = "PRINTING")
    BY <1>8 DEF Ends
  <2>2. m \in Messages
    BY DEF Messages
  <2>3. /\ inbox' \in Seq(Messages) /\ lost' \in 0..MaxLost
        /\ \A i \in 1..Len(inbox') : inbox'[i] = m \/ \E k \in 1..Len(inbox) : inbox'[i] = inbox[k]
    BY <1>1, <2>1, <2>2, OneArrives
  <2>4. ReportsHonest'
    BY <1>2, <2>1, <2>2, <2>3 DEF ReportsHonest, Honest
  <2>5. ended' = [ended EXCEPT ![track.id] = @ + 1] /\ ended' \in [Jobs -> Nat]
    BY <1>1, <2>1 DEF Reported
  <2>6. EndedOnce'
    <3> SUFFICES ASSUME ~torn', ~gap', NEW j \in Jobs
                 PROVE  /\ ended'[j] <= 1
                        /\ ended'[j] > 0 => /\ j <= job.id
                                            /\ ~(j = job.id /\ job.state = "PRINTING")
      BY <2>1 DEF EndedOnce
    <3>1. ended[track.id] = 0 /\ track.id <= job.id
      BY <1>1, <1>3, <2>1 DEF Jobs, NoJob, PrintInv, PollBehind
    <3>2. CASE j = track.id
      BY <1>1, <2>1, <2>5, <3>1, <3>2
    <3>3. CASE j # track.id
      <4>1. ended'[j] = ended[j]
        BY <1>1, <2>5, <3>3
      <4> QED BY <1>3, <4>1
    <3> QED BY <3>2, <3>3
  <2> QED BY <2>3, <2>4, <2>5, <2>6
<1> QED BY <1>5, <1>6, <1>7, <1>8 DEF PollEffect

LEMMA PollStatusKeeps ==
  ASSUME PrintInv, PollStatus
  PROVE  PrintInv'
<1>1. UNCHANGED <<job, file, reached, app, deducted, tools, torn>>
  BY DEF PollStatus, printerVars, appVars
<1>2. ~torn' => ~torn
  BY <1>1, Zenon
<1>3. failures' \in 0..MaxFailures
  BY BoundAssumption DEF PollStatus, PrintInv, PrintTypeOK
<1>4. CASE JobMissing /\ UNCHANGED <<step, status>>
  <2>1. PollEffect
    BY <1>1, <1>4, MissingEffect
  <2>2. ~gap' => ~gap
    BY <1>4, Zenon DEF JobMissing
  <2>3. gap' \in BOOLEAN /\ torn' \in BOOLEAN
    BY <1>1, <1>4, Zenon DEF JobMissing, PrintInv, PrintTypeOK
  <2>4. /\ inbox' \in Seq(Messages) /\ lost' \in 0..MaxLost /\ ended' \in [Jobs -> Nat]
        /\ ReportsHonest' /\ EndedOnce'
    BY <1>1, <1>2, <2>1, <2>2, EffectKeeps
  <2>5. PrintTypeOK'
    BY <1>1, <1>3, <1>4, <2>1, <2>3, <2>4, InboxTyped DEF PrintInv, PrintTypeOK, PollEffect, TrackTypes
  <2>6. JobStands' /\ PollBehind'
    <3>1. track' = Idle \/ track'.id = track.id
      BY <1>1, <1>4, MissingEffect
    <3>2. track'.id <= job.id /\ (track'.id # NoJob => track'.prog <= reached[track'.id])
      BY <2>1 DEF PollEffect
    <3>3. step = "job" => status.id \in Jobs /\ track'.id <= status.id /\ status.id <= job.id
                          /\ status.prog <= reached[status.id]
      <4>1. CASE track'.id = track.id
        BY <4>1 DEF PrintInv, PollBehind
      <4>2. CASE track' = Idle
        BY <4>2 DEF PrintInv, PollBehind, Idle, NoJob, Jobs
      <4> QED BY <3>1, <4>1, <4>2
    <3> QED BY <1>1, <1>4, <3>2, <3>3 DEF PrintInv, JobStands, PollBehind
  <2> QED BY <2>4, <2>5, <2>6 DEF PrintInv
<1>5. CASE /\ job.state # "NONE"
           /\ status' = [id |-> job.id, prog |-> job.prog]
           /\ step' = "job"
           /\ UNCHANGED <<failures, track, inbox, lost, ended, gap>>
  <2>1. job.id \in Jobs /\ status'.id = job.id /\ status'.prog = job.prog
    BY <1>5 DEF PrintInv, JobStands
  <2>2. PrintTypeOK'
    BY <1>1, <1>5, InboxTyped DEF PrintInv, PrintTypeOK
  <2>3. JobStands' /\ PollBehind'
    <3>1. reached[job.id] = job.prog /\ job.prog \in Levels /\ job.prog <= job.prog /\ job.id <= job.id
      BY <2>1, JobNumbers DEF PrintInv, JobStands
    <3> QED BY <1>1, <1>5, <2>1, <3>1 DEF PrintInv, JobStands, PollBehind
  <2>4. ReportsHonest' /\ EndedOnce'
    BY <1>1, <1>5 DEF PrintInv, ReportsHonest, Honest, EndedOnce
  <2> QED BY <1>5, <2>2, <2>3, <2>4 DEF PrintInv
<1> QED BY <1>4, <1>5 DEF PollStatus

\* What reading /job does to the tracked job, whatever the printer answers.
LEMMA PollJobEffect ==
  ASSUME PrintInv, PollJob
  PROVE  tools' \in Jobs \cup {NoData} /\ PollEffect
<1>1. UNCHANGED <<job, reached, gap>> /\ step = "job"
  BY DEF PollJob, printerVars
<1>2. NoData \in Jobs \cup {NoData} /\ tools \in Jobs \cup {NoData}
  BY DEF PrintInv, PrintTypeOK
<1>3. CASE Evaluate(NoData, "", tools) /\ UNCHANGED <<tools>>
  <2>1. Described("")
    BY DEF Described
  <2> QED BY <1>1, <1>2, <1>3, <2>1, EvaluateEffect
<1>4. CASE /\ job.state # "NONE"
           /\ tools' = CASE file[job.id] = "none" -> tools
                         [] file[job.id] = "total" -> NoData
                         [] file[job.id] = "tools" -> job.id
           /\ Evaluate(IF file[job.id] = "none" THEN NoData ELSE job.id, job.state, tools')
           /\ torn' = (torn \/ job.id # status.id)
  <2>1. job.id \in Jobs /\ file[job.id] \in {"none", "total", "tools"}
    <3>1. job.id \in Jobs /\ file \in Files
      BY <1>4 DEF PrintInv, JobStands, PrintTypeOK
    <3> QED BY <3>1, FileAssumption DEF Jobs
  <2>2. tools' \in Jobs \cup {NoData}
    BY <1>2, <1>4, <2>1
  <2>3. (IF file[job.id] = "none" THEN NoData ELSE job.id) \in Jobs \cup {NoData}
    BY <2>1
  <2>4. ~torn' => job.id = status.id
    BY <1>4, Zenon
  <2>5. Described(job.state)
    BY <2>4 DEF Described
  <2> QED BY <1>1, <1>4, <2>2, <2>3, <2>5, EvaluateEffect
<1> QED BY <1>3, <1>4 DEF PollJob

LEMMA PollJobKeeps ==
  ASSUME PrintInv, PollJob
  PROVE  PrintInv'
<1>1. /\ UNCHANGED <<job, file, reached, app, deducted, gap>>
      /\ step = "job" /\ step' = "status" /\ status' = Unasked
  BY DEF PollJob, printerVars, appVars
<1>2. ~torn' => ~torn
  BY Zenon DEF PollJob
<1>3. gap' \in BOOLEAN /\ (~gap' => ~gap)
  BY <1>1, Zenon DEF PrintInv, PrintTypeOK
<1>4. torn' \in BOOLEAN
  BY Zenon DEF PollJob, PrintInv, PrintTypeOK
<1>5. failures' \in 0..MaxFailures
  <2>1. failures \in 0..MaxFailures
    BY DEF PrintInv, PrintTypeOK
  <2>2. failures' = failures \/ (failures < MaxFailures /\ failures' = failures + 1)
    BY DEF PollJob
  <2> QED BY <2>1, <2>2, BoundAssumption
<1>6. tools' \in Jobs \cup {NoData} /\ PollEffect
  BY PollJobEffect
<1>7. /\ inbox' \in Seq(Messages) /\ lost' \in 0..MaxLost /\ ended' \in [Jobs -> Nat]
      /\ ReportsHonest' /\ EndedOnce'
  BY <1>1, <1>2, <1>3, <1>6, EffectKeeps
<1>8. status' \in [id : 0..MaxJobs, prog : Levels]
  BY <1>1, LevelAssumption, BoundAssumption DEF Unasked, NoJob
<1>9. PrintTypeOK'
  BY <1>1, <1>3, <1>4, <1>5, <1>6, <1>7, <1>8, InboxTyped
  DEF PrintInv, PrintTypeOK, PollEffect, TrackTypes
<1>10. JobStands' /\ PollBehind'
  BY <1>1, <1>6 DEF PrintInv, JobStands, PollBehind, PollEffect
<1> QED BY <1>7, <1>9, <1>10 DEF PrintInv

\* A job of the printer only gets on, and is behind it when the next one starts.
LEMMA PrinterKeeps ==
  ASSUME PrintInv, StartJob \/ Advance \/ EndJob \/ CloseJob
  PROVE  PrintInv'
<1>1. /\ job \in [id : 0..MaxJobs, prog : Levels, state : {"NONE", "PRINTING"} \cup Over]
      /\ reached \in [Jobs -> Levels] /\ track.id \in Jobs \cup {NoJob}
  BY DEF PrintInv, PrintTypeOK
<1>2. /\ job' \in [id : 0..MaxJobs, prog : Levels, state : {"NONE", "PRINTING"} \cup Over]
      /\ Printer(job') /\ job'.id \in Jobs
      /\ \/ /\ job'.id = job.id + 1 /\ job'.prog = 0 /\ job'.state = "PRINTING"
         \/ /\ job'.id = job.id /\ job'.prog >= job.prog
            /\ job'.state = "PRINTING" => job.state = "PRINTING"
      /\ job'.state = "FINISHED" => job'.prog = 100
  <2>1. CASE StartJob
    <3>1. job.id + 1 \in Jobs /\ 0 \in Levels
      BY <1>1, <2>1, LevelAssumption, BoundAssumption DEF StartJob, Jobs
    <3>2. job' = [id |-> job.id + 1, prog |-> 0, state |-> "PRINTING"]
      BY <2>1 DEF StartJob, Printer
    <3> QED BY <1>1, <2>1, <3>1, <3>2 DEF StartJob, Jobs
  <2>2. CASE Advance
    <3>1. PICK p \in Levels : p > job.prog /\ p < 100 /\ Printer([job EXCEPT !.prog = p])
      BY <2>2 DEF Advance
    <3>2. job' = [job EXCEPT !.prog = p] /\ job.state = "PRINTING" /\ job.id \in Jobs
      BY <2>2, <3>1 DEF Advance, Printer, PrintInv, JobStands
    <3>3. p >= job.prog
      BY <1>1, <3>1, LevelAssumption
    <3> QED BY <1>1, <3>1, <3>2, <3>3
  <2>3. CASE EndJob
    <3>1. job.state = "PRINTING" /\ job.id \in Jobs /\ Printer(job')
      BY <2>3 DEF EndJob, Printer, PrintInv, JobStands
    <3>2. 100 \in Levels /\ job.prog <= 100 /\ job.prog <= job.prog
      BY JobNumbers, LevelAssumption
    <3>3. CASE job' = [job EXCEPT !.prog = 100, !.state = "FINISHED"]
      BY <1>1, <3>1, <3>2, <3>3 DEF Over
    <3>4. CASE job' = [job EXCEPT !.state = "STOPPED"]
      BY <1>1, <3>1, <3>2, <3>4 DEF Over
    <3> QED BY <2>3, <3>3, <3>4 DEF EndJob, Printer
  <2>4. CASE CloseJob
    <3>1. /\ job' = [job EXCEPT !.state = "NONE"] /\ job.id \in Jobs
          /\ Printer(job')
      BY <2>4 DEF CloseJob, Printer, PrintInv, JobStands, Over
    <3>2. job.prog <= job.prog
      BY JobNumbers
    <3> QED BY <1>1, <3>1, <3>2
  <2> QED BY <2>1, <2>2, <2>3, <2>4
<1>3. /\ reached' = [reached EXCEPT ![job'.id] = job'.prog]
      /\ UNCHANGED <<file, step, status, tools, track, ended, torn, gap, failures,
                      app, deducted, inbox, lost>>
  BY <1>2 DEF Printer, pollVars, appVars
<1>4. /\ reached' \in [Jobs -> Levels] /\ reached'[job'.id] = job'.prog
      /\ \A j \in Jobs : j # job'.id => reached'[j] = reached[j]
  BY <1>1, <1>2, <1>3
<1>5. PrintTypeOK'
  BY <1>2, <1>3, <1>4 DEF PrintInv, PrintTypeOK
<1>6. JobStands'
  BY <1>1, <1>2, <1>4 DEF PrintInv, JobStands, Jobs
<1>7. \A j \in Jobs : reached[j] <= reached'[j]
  <2> TAKE j \in Jobs
  <2>1. CASE j # job'.id
    <3>1. reached'[j] = reached[j] /\ reached[j] \in Levels
      BY <1>1, <1>4, <2>1
    <3>2. reached[j] \in Int
      BY <3>1, LevelNumbers
    <3> QED BY <3>1, <3>2
  <2>2. CASE j = job'.id /\ job'.id = job.id
    BY <1>1, <1>2, <1>4, <2>2 DEF PrintInv, JobStands
  <2>3. CASE j = job'.id /\ job'.id = job.id + 1
    BY <1>1, <1>2, <1>4, <2>3 DEF PrintInv, JobStands
  <2> QED BY <1>2, <2>1, <2>2, <2>3
<1>8. PollBehind'
  <2>1. job.id <= job'.id /\ job.id \in Int /\ job'.id \in Int
    BY <1>1, <1>2, JobNumbers DEF Jobs
  <2>2. /\ track.id <= job.id
        /\ track.id # NoJob => track.prog <= reached[track.id]
        /\ step = "job" => /\ status.id \in Jobs /\ track.id <= status.id /\ status.id <= job.id
                           /\ status.prog <= reached[status.id]
    BY DEF PrintInv, PollBehind
  <2>3. /\ track.prog \in Int /\ status.prog \in Int /\ track.id \in Int
        /\ \A j \in Jobs : j \in Int /\ reached[j] \in Int /\ reached'[j] \in Int
    <3>1. track.prog \in Levels /\ status.prog \in Levels
      BY DEF PrintInv, PrintTypeOK
    <3>2. \A j \in Jobs : reached[j] \in Levels /\ reached'[j] \in Levels
      BY <1>1, <1>4
    <3>3. /\ track.prog \in Int /\ status.prog \in Int
          /\ \A j \in Jobs : reached[j] \in Int /\ reached'[j] \in Int
      BY <3>1, <3>2, LevelNumbers
    <3>4. track.id \in Int /\ \A j \in Jobs : j \in Int
      BY <1>1, NoJobIsNumber DEF Jobs
    <3> QED BY <3>3, <3>4
  <2>4. track.id <= job'.id
    BY <2>1, <2>2, <2>3
  <2>5. track.id # NoJob => track.prog <= reached'[track.id]
    BY <1>1, <1>7, <2>2, <2>3
  <2>6. step = "job" => status.id <= job'.id /\ status.prog <= reached'[status.id]
    BY <1>7, <2>1, <2>2, <2>3
  <2> QED BY <1>3, <2>2, <2>4, <2>5, <2>6 DEF PollBehind
<1>9. ReportsHonest'
  <2> SUFFICES ASSUME ~torn, NEW i \in 1..Len(inbox), inbox[i].type = "ended"
               PROVE  inbox[i].prog <= reached'[inbox[i].job] \/ reached'[inbox[i].job] >= 95
    BY <1>3 DEF ReportsHonest, Honest
  <2>1. inbox[i] \in Reports /\ Honest(inbox[i])
    BY MessageKinds DEF PrintInv, ReportsHonest
  <2>2. inbox[i].job \in Jobs /\ inbox[i].prog \in Levels
    BY <2>1 DEF Reports
  <2>3. reached[inbox[i].job] \in Levels /\ reached'[inbox[i].job] \in Levels
        /\ reached[inbox[i].job] <= reached'[inbox[i].job]
    BY <1>1, <1>4, <1>7, <2>2
  <2>4. /\ inbox[i].prog \in Int /\ reached[inbox[i].job] \in Int
        /\ reached'[inbox[i].job] \in Int
    BY <2>2, <2>3, LevelNumbers
  <2> QED BY <2>1, <2>3, <2>4 DEF Honest
<1>10. EndedOnce'
  <2> SUFFICES ASSUME ~torn, ~gap, NEW j \in Jobs, ended[j] > 0
               PROVE  j <= job'.id /\ ~(j = job'.id /\ job'.state = "PRINTING")
    BY <1>3 DEF EndedOnce, PrintInv
  <2>1. j <= job.id /\ ~(j = job.id /\ job.state = "PRINTING")
    BY DEF PrintInv, EndedOnce
  <2> QED BY <1>2, <2>1, JobNumbers DEF Jobs
<1> QED BY <1>3, <1>5, <1>6, <1>8, <1>9, <1>10 DEF PrintInv

\* The application and the reader change no job; the queue keeps what it holds.
LEMMA ApplicationKeeps ==
  ASSUME PrintInv, SpoolDetected \/ HandleMessage
  PROVE  PrintInv'
<1>1. UNCHANGED <<job, file, reached, step, status, tools, track, ended, torn, gap, failures, lost>>
  BY DEF SpoolDetected, HandleMessage, printerVars, pollVars
<1>2. inbox \in Seq(Messages)
  BY DEF PrintInv
<1>3. /\ inbox' \in Seq(Messages)
      /\ \A i \in 1..Len(inbox') :
           inbox'[i].type = "ended" => \E k \in 1..Len(inbox) : inbox'[i] = inbox[k]
  <2>1. CASE SpoolDetected
    <3>1. PICK u \in Spools : inbox' = Append(inbox, [type |-> "spool", spool |-> u])
      BY <2>1 DEF SpoolDetected
    <3> DEFINE m == [type |-> "spool", spool |-> u]
    <3>2. m \in Messages /\ m.type # "ended"
      BY DEF Messages
    <3> HIDE DEF m
    <3> QED BY <1>2, <3>1, <3>2, Appended DEF m
  <2>2. CASE HandleMessage
    <3>1. inbox # <<>> /\ inbox' = Tail(inbox)
      BY <2>2 DEF HandleMessage
    <3>2. inbox' \in Seq(Messages) /\ Len(inbox') = Len(inbox) - 1
          /\ \A i \in 1..Len(inbox') : inbox'[i] = inbox[i + 1]
      BY <1>2, <3>1, HeadTailProperties
    <3>3. \A i \in 1..Len(inbox') : i + 1 \in 1..Len(inbox)
      BY <1>2, <3>2
    <3> QED BY <3>2, <3>3
  <2> QED BY <2>1, <2>2
<1>4. /\ app' \in [state : {"IDLE", "MONITORING_PRINT"}, job : Jobs \cup {NoJob},
                  start : Spools \cup {NoSpool}, changed : BOOLEAN]
      /\ deducted' \in [from : Jobs \cup {NoJob}, for : Jobs \cup {NoJob}]
  <2> DEFINE AppTypes == [state : {"IDLE", "MONITORING_PRINT"}, job : Jobs \cup {NoJob},
                          start : Spools \cup {NoSpool}, changed : BOOLEAN]
  <2>1. /\ app \in AppTypes
        /\ deducted \in [from : Jobs \cup {NoJob}, for : Jobs \cup {NoJob}]
        /\ NoDeduction \in [from : Jobs \cup {NoJob}, for : Jobs \cup {NoJob}]
    BY DEF PrintInv, PrintTypeOK, NoDeduction
  <2>2. CASE SpoolDetected
    BY <2>1, <2>2 DEF SpoolDetected, appVars
  <2>3. CASE HandleMessage
    <3> DEFINE m == Head(inbox)
    <3>1. m \in Messages
      BY <1>2, <2>3, HeadTailProperties DEF HandleMessage
    <3>2. /\ m.type = "ended" => m \in Reports
          /\ m.type = "started" => m.job \in Jobs
          /\ m.type = "spool" => m.spool \in Spools
      BY <3>1, MessageKinds
    <3> HIDE DEF m
    <3>3. CASE m.type = "started" /\ HandlePrintStarted(m)
      BY <2>1, <3>2, <3>3 DEF HandlePrintStarted
    <3>4. CASE m.type = "spool" /\ HandleSpoolDetected(m)
      <4>1. deducted' = NoDeduction /\ m.spool \in Spools
        BY <3>2, <3>4 DEF HandleSpoolDetected
      <4>2. \/ app' = app
            \/ app' = [app EXCEPT !.start = m.spool]
            \/ app' = [app EXCEPT !.changed = @ \/ m.spool # app.start]
        BY <3>4 DEF HandleSpoolDetected
      <4>3. app.changed \in BOOLEAN /\ (app.changed \/ m.spool # app.start) \in BOOLEAN
        BY <2>1
      <4> QED BY <2>1, <4>1, <4>2, <4>3
    <3>5. CASE m.type = "ended" /\ HandlePrintEnded(m)
      <4>1. app' \in {app, [app EXCEPT !.state = "IDLE"]}
        BY <3>5 DEF HandlePrintEnded
      <4>2. deducted' \in {NoDeduction, [from |-> app.job, for |-> m.job]}
        BY <3>5 DEF HandlePrintEnded, FinishPrint
      <4> QED BY <2>1, <3>2, <3>5, <4>1, <4>2 DEF Reports
    <3> QED BY <2>3, <3>3, <3>4, <3>5 DEF HandleMessage, m
  <2> QED BY <2>2, <2>3
<1>5. PrintTypeOK'
  BY <1>1, <1>3, <1>4, InboxTyped DEF PrintInv, PrintTypeOK
<1>6. JobStands' /\ PollBehind' /\ EndedOnce'
  BY <1>1 DEF PrintInv, JobStands, PollBehind, EndedOnce
<1>7. ReportsHonest'
  BY <1>1, <1>3 DEF PrintInv, ReportsHonest, Honest
<1> QED BY <1>3, <1>5, <1>6, <1>7 DEF PrintInv

LEMMA StutterKeeps ==
  ASSUME PrintInv, UNCHANGED printVars
  PROVE  PrintInv'
<1>1. UNCHANGED <<job, file, reached, step, status, tools, track, ended, torn, gap, failures, lost,
                  inbox, app, deducted>>
  BY DEF printVars, printerVars, pollVars, appVars
<1>2. PrintTypeOK'
  BY <1>1 DEF PrintInv, PrintTypeOK
<1> QED BY <1>1, <1>2 DEF PrintInv, JobStands, PollBehind, EndedOnce, ReportsHonest, Honest

LEMMA InitInv == PrintInit => PrintInv
<1> SUFFICES ASSUME PrintInit PROVE PrintInv
  OBVIOUS
<1>1. torn \in BOOLEAN /\ gap \in BOOLEAN
  BY Zenon DEF PrintInit
<1>2. /\ Idle \in TrackTypes /\ 0 \in Levels /\ 0 \in 0..MaxJobs /\ 0 \in 0..MaxFailures
      /\ 0 \in 0..MaxLost
  BY IdleTyped, LevelAssumption, BoundAssumption
<1>3. inbox = <<>> /\ inbox \in Seq(Messages) /\ Len(inbox) = 0
  BY DEF PrintInit
<1>4. app \in [state : {"IDLE", "MONITORING_PRINT"}, job : Jobs \cup {NoJob},
               start : Spools \cup {NoSpool}, changed : BOOLEAN]
  BY DEF PrintInit
<1>5. deducted \in [from : Jobs \cup {NoJob}, for : Jobs \cup {NoJob}]
  BY DEF PrintInit, NoDeduction
<1>6. job \in [id : 0..MaxJobs, prog : Levels, state : {"NONE", "PRINTING"} \cup Over]
  <2>1. job = [id |-> 0, prog |-> 0, state |-> "NONE"]
    BY DEF PrintInit, NoJob
  <2>2. "NONE" \in {"NONE", "PRINTING"} \cup Over
    OBVIOUS
  <2> QED BY <1>2, <2>1, <2>2
<1>7. status \in [id : 0..MaxJobs, prog : Levels]
  BY <1>2 DEF PrintInit, Unasked, NoJob
<1>8. ended \in [Jobs -> Nat] /\ reached \in [Jobs -> Levels]
  BY <1>2 DEF PrintInit
<1>9. PrintTypeOK
  BY <1>1, <1>2, <1>3, <1>4, <1>5, <1>6, <1>7, <1>8 DEF PrintInit, PrintTypeOK, TrackTypes
<1>10. JobStands /\ PollBehind /\ ReportsHonest /\ EndedOnce
  BY <1>3 DEF PrintInit, JobStands, PollBehind, ReportsHonest, EndedOnce, Idle, Jobs, NoJob
<1> QED BY <1>3, <1>9, <1>10 DEF PrintInv

LEMMA StepKeeps ==
  ASSUME PrintInv, [PrintNext]_printVars
  PROVE  PrintInv'
  BY PrinterKeeps, PollStatusKeeps, PollJobKeeps, ApplicationKeeps, StutterKeeps DEF PrintNext

\* PrintInv is an invariant of polling, reporting and charging: what the printer shows, how
\* far behind it the poll may be, and what was reported of which job.
THEOREM PrintInvariant == PrintSpec => []PrintInv
<1>1. PrintInv /\ [PrintNext]_printVars => PrintInv'
  BY StepKeeps
<1> QED BY <1>1, InitInv, PTL DEF PrintSpec

\* The fields of printer, poll, messages and application keep their types.
THEOREM PrintTypeCorrect == PrintSpec => []PrintTypeOK
<1>1. PrintInv => PrintTypeOK
  BY DEF PrintInv
<1> QED BY <1>1, PrintInvariant, PTL

\* PrinterManager reports the end of a job once, unless a poll mixed two jobs or the printer
\* was out of reach for longer than the grace (poll, handleJobDisappeared).
THEOREM JobsReportedOnce == PrintSpec => []NoJobTwice
<1>1. PrintInv => NoJobTwice
  BY DEF PrintInv, EndedOnce, NoJobTwice
<1> QED BY <1>1, PrintInvariant, PTL

\* No report claims more of a job than was printed, but for the last five percent of a job
\* that vanished (resolveAndSendJobEnd, handleJobDisappeared).
THEOREM ReportsNotOverstated == PrintSpec => []NotOverstated
<1>1. PrintInv => NotOverstated
  BY DEF PrintInv, ReportsHonest, Honest, NotOverstated, Waiting
<1> QED BY <1>1, PrintInvariant, PTL

-----------------------------------------------------------------------------
(* A lost message.  Whoever takes the report of a job from the queue charges it to
   the print watched by then, so what matters is which print that will be.       *)

\* After n messages of the queue q an application in the state a watches job j.
Watched(a, q, n, j) ==
  \/ \E i \in 1..n : /\ q[i].type = "started" /\ q[i].job = j
                     /\ \A k \in 1..n : k > i => q[k].type = "spool"
  \/ /\ a.state = "MONITORING_PRINT" /\ a.job = j
     /\ \A k \in 1..n : q[k].type = "spool"

\* A report meets its own print, if it meets one.
EndsItsOwn(a, q) ==
  \A i \in 1..Len(q) : q[i].type = "ended" =>
    \A j \in Jobs : Watched(a, q, i - 1, j) => q[i].job = j

\* The print that the queue leaves watched is the tracked one, or its report is what was lost.
LeavesWatched(a, q, id, losses) ==
  \A j \in Jobs : Watched(a, q, Len(q), j) => id = j \/ (losses = 1 /\ id = NoJob)

ChargeInv ==
  /\ app.state = "MONITORING_PRINT" => app.job \in Jobs
  /\ lost <= 1 => /\ EndsItsOwn(app, inbox)
                  /\ LeavesWatched(app, inbox, track.id, lost)
                  /\ LossIsHarmless

LEMMA WatchedAfterAppend ==
  ASSUME NEW a, NEW q \in Seq(Messages), NEW m \in Messages, NEW j \in Jobs
  PROVE  /\ \A n \in 0..Len(q) : Watched(a, Append(q, m), n, j) <=> Watched(a, q, n, j)
         /\ Watched(a, Append(q, m), Len(q) + 1, j) =>
              \/ m.type = "spool" /\ Watched(a, q, Len(q), j)
              \/ m.type = "started" /\ m.job = j
<1> DEFINE r == Append(q, m)
<1>1. /\ Len(q) \in Nat /\ Len(r) = Len(q) + 1 /\ r[Len(q) + 1] = m
      /\ \A i \in 1..Len(q) : r[i] = q[i]
  BY Appended
<1> HIDE DEF r
<1>2. \A n \in 0..Len(q) : Watched(a, r, n, j) <=> Watched(a, q, n, j)
  <2> TAKE n \in 0..Len(q)
  <2>1. \A i \in 1..n : r[i] = q[i]
    BY <1>1
  <2> QED BY <2>1 DEF Watched
<1>3. ASSUME Watched(a, r, Len(q) + 1, j)
      PROVE  \/ m.type = "spool" /\ Watched(a, q, Len(q), j)
             \/ m.type = "started" /\ m.job = j
  <2> DEFINE last == Len(q) + 1
  <2>1. last \in 1..last /\ \A i \in 1..last : i = last \/ (i \in 1..Len(q) /\ last > i)
    BY <1>1
  <2>2. 1..Len(q) \subseteq 1..last
    BY <1>1
  <2>3. r[last] = m
    BY <1>1
  <2>4. Watched(a, r, last, j)
    BY <1>3
  <2> HIDE DEF last
  <2>5. CASE \E i \in 1..last : /\ r[i].type = "started" /\ r[i].job = j
                                /\ \A k \in 1..last : k > i => r[k].type = "spool"
    <3>1. PICK i \in 1..last : /\ r[i].type = "started" /\ r[i].job = j
                               /\ \A k \in 1..last : k > i => r[k].type = "spool"
      BY <2>5
    <3>2. CASE i = last
      BY <2>3, <3>1, <3>2
    <3>3. CASE i \in 1..Len(q) /\ last > i
      <4>1. m.type = "spool"
        BY <2>1, <2>3, <3>1, <3>3
      <4>2. q[i].type = "started" /\ q[i].job = j
        BY <1>1, <3>1, <3>3
      <4>3. \A k \in 1..Len(q) : k > i => q[k].type = "spool"
        BY <1>1, <2>2, <3>1
      <4> QED BY <3>3, <4>1, <4>2, <4>3 DEF Watched
    <3> QED BY <2>1, <3>2, <3>3
  <2>6. CASE /\ a.state = "MONITORING_PRINT" /\ a.job = j
             /\ \A k \in 1..last : r[k].type = "spool"
    <3>1. m.type = "spool" /\ \A k \in 1..Len(q) : q[k].type = "spool"
      BY <1>1, <2>1, <2>2, <2>3, <2>6
    <3> QED BY <2>6, <3>1 DEF Watched
  <2> QED BY <2>4, <2>5, <2>6 DEF Watched
<1> QED BY <1>2, <1>3 DEF r

\* A message joins the queue: a report must be of the print that it will meet.
LEMMA Joins ==
  ASSUME NEW a, NEW q \in Seq(Messages), NEW m \in Messages, EndsItsOwn(a, q),
         m.type = "ended" => \A j \in Jobs : Watched(a, q, Len(q), j) => m.job = j
  PROVE  EndsItsOwn(a, Append(q, m))
<1> DEFINE r == Append(q, m)
<1>1. /\ Len(q) \in Nat /\ Len(r) = Len(q) + 1 /\ r[Len(q) + 1] = m
      /\ \A i \in 1..Len(q) : r[i] = q[i]
  BY Appended
<1>2. \A j \in Jobs : \A n \in 0..Len(q) : Watched(a, r, n, j) <=> Watched(a, q, n, j)
  BY WatchedAfterAppend
<1> HIDE DEF r
<1> SUFFICES ASSUME NEW i \in 1..Len(r), r[i].type = "ended",
                    NEW j \in Jobs, Watched(a, r, i - 1, j)
             PROVE  r[i].job = j
  BY DEF EndsItsOwn, r
<1>3. i - 1 \in 0..Len(q) /\ (i \in 1..Len(q) \/ (i = Len(q) + 1 /\ i - 1 = Len(q)))
  BY <1>1
<1>4. Watched(a, q, i - 1, j)
  BY <1>2, <1>3
<1>5. CASE i \in 1..Len(q)
  BY <1>1, <1>4, <1>5 DEF EndsItsOwn
<1>6. CASE i = Len(q) + 1 /\ i - 1 = Len(q)
  BY <1>1, <1>4, <1>6
<1> QED BY <1>3, <1>5, <1>6

\* After a start its job is watched, after a report none, and an announced spool changes nothing.
LEMMA LastDecides ==
  ASSUME NEW a, NEW q \in Seq(Messages), NEW m \in Messages, NEW j \in Jobs,
         Watched(a, Append(q, m), Len(Append(q, m)), j)
  PROVE  \/ m.type = "spool" /\ Watched(a, q, Len(q), j)
         \/ m.type = "started" /\ m.job = j
<1>1. Len(Append(q, m)) = Len(q) + 1
  BY Appended
<1> QED BY <1>1, WatchedAfterAppend

\* A step of the poll starts, replaces or ends the tracked job, and at most one message is lost.
LEMMA PollCharges ==
  ASSUME PrintInv, ChargeInv, Quiet \/ Begins \/ Replaces \/ Ends, UNCHANGED <<app, deducted>>
  PROVE  ChargeInv'
<1> SUFFICES ASSUME lost' <= 1
             PROVE  /\ EndsItsOwn(app, inbox')
                    /\ LeavesWatched(app, inbox', track'.id, lost')
                    /\ LossIsHarmless'
  BY DEF ChargeInv
<1>1. inbox \in Seq(Messages) /\ lost \in Nat /\ MaxLost \in Nat
  BY BoundAssumption DEF PrintInv, PrintTypeOK
<1>2. lost' = lost \/ lost' = lost + 1
  <2>1. CASE Quiet
    BY <2>1 DEF Quiet
  <2>2. CASE Begins \/ Replaces \/ Ends
    BY <2>2 DEF Begins, Replaces, Ends, Send
  <2> QED BY <2>1, <2>2
<1>3. lost <= 1 /\ (lost' = lost + 1 => lost = 0 /\ lost' = 1)
  BY <1>1, <1>2
<1>4. EndsItsOwn(app, inbox) /\ LeavesWatched(app, inbox, track.id, lost) /\ LossIsHarmless
  BY <1>3 DEF ChargeInv
<1>5. LossIsHarmless'
  BY <1>4 DEF LossIsHarmless
<1>6. \A j \in Jobs : j # NoJob
  BY Numbers
<1>7. CASE Quiet
  BY <1>4, <1>5, <1>7 DEF Quiet
<1>8. CASE Begins
  <2>1. PICK n \in Jobs : track.id = NoJob /\ track'.id = n /\ Send(<<Started(n)>>)
    BY <1>8 DEF Begins
  <2>2. Started(n) \in Messages /\ Started(n).type = "started" /\ Started(n).job = n
    BY DEF Messages, Started
  <2>3. CASE inbox' = Append(inbox, Started(n)) /\ lost' = lost
    <3>1. EndsItsOwn(app, inbox')
      BY <1>1, <1>4, <2>2, <2>3, Joins
    <3>2. LeavesWatched(app, inbox', track'.id, lost')
      BY <1>1, <2>1, <2>2, <2>3, LastDecides DEF LeavesWatched
    <3> QED BY <1>5, <3>1, <3>2
  <2>4. CASE inbox' = inbox /\ lost' = lost + 1
    BY <1>3, <1>4, <1>5, <1>6, <2>1, <2>4 DEF LeavesWatched
  <2> QED BY <1>1, <2>1, <2>2, <2>3, <2>4, SentOne
<1>9. ASSUME NEW m \in Reports, m.job = track.id, track.id \in Jobs
      PROVE  /\ m \in Messages /\ m.type = "ended" /\ EndsItsOwn(app, Append(inbox, m))
             /\ Append(inbox, m) \in Seq(Messages)
             /\ \A j \in Jobs : ~Watched(app, Append(inbox, m), Len(Append(inbox, m)), j)
  <2>1. m \in Messages /\ m.type = "ended"
    BY DEF Messages, Reports
  <2>2. \A j \in Jobs : Watched(app, inbox, Len(inbox), j) => m.job = j
    BY <1>4, <1>6, <1>9 DEF LeavesWatched
  <2> QED BY <1>1, <1>4, <2>1, <2>2, Joins, LastDecides, Appended
<1>10. CASE Replaces
  <2>1. PICK n \in Jobs, m \in Reports :
          /\ m.job = track.id /\ track.id \in Jobs /\ track'.id = n
          /\ Send(<<m, Started(n)>>)
    BY <1>10 DEF Replaces
  <2>2. Started(n) \in Messages /\ Started(n).type = "started" /\ Started(n).job = n
    BY DEF Messages, Started
  <2>3. /\ m \in Messages /\ m.type = "ended" /\ EndsItsOwn(app, Append(inbox, m))
        /\ Append(inbox, m) \in Seq(Messages)
        /\ \A j \in Jobs : ~Watched(app, Append(inbox, m), Len(Append(inbox, m)), j)
    BY <1>9, <2>1
  <2>4. CASE inbox' = Append(Append(inbox, m), Started(n))
    <3>1. EndsItsOwn(app, inbox')
      BY <2>2, <2>3, <2>4, Joins
    <3>2. LeavesWatched(app, inbox', track'.id, lost')
      BY <2>1, <2>2, <2>3, <2>4, LastDecides DEF LeavesWatched
    <3> QED BY <1>5, <3>1, <3>2
  <2>5. CASE inbox' = Append(inbox, m)
    BY <1>5, <2>3, <2>5 DEF LeavesWatched
  <2>6. CASE inbox' = Append(inbox, Started(n))
    <3>1. EndsItsOwn(app, inbox')
      BY <1>1, <1>4, <2>2, <2>6, Joins
    <3>2. LeavesWatched(app, inbox', track'.id, lost')
      BY <1>1, <2>1, <2>2, <2>6, LastDecides DEF LeavesWatched
    <3> QED BY <1>5, <3>1, <3>2
  <2> QED BY <1>1, <2>1, <2>2, <2>3, <2>4, <2>5, <2>6, SentTwo
<1>11. CASE Ends
  <2>1. PICK m \in Reports : /\ m.job = track.id /\ track.id \in Jobs /\ track'.id = NoJob
                             /\ Send(<<m>>)
    BY <1>11 DEF Ends
  <2>2. /\ m \in Messages /\ EndsItsOwn(app, Append(inbox, m))
        /\ \A j \in Jobs : ~Watched(app, Append(inbox, m), Len(Append(inbox, m)), j)
    BY <1>9, <2>1
  <2>3. CASE inbox' = Append(inbox, m)
    BY <1>5, <2>2, <2>3 DEF LeavesWatched
  <2>4. CASE inbox' = inbox /\ lost' = lost + 1
    BY <1>3, <1>4, <1>5, <2>1, <2>4 DEF LeavesWatched
  <2> QED BY <1>1, <2>1, <2>2, <2>3, <2>4, SentOne
<1> QED BY <1>7, <1>8, <1>10, <1>11

\* What is watched after a handled message is what the queue said would be.
LEMMA HandledWatch ==
  ASSUME NEW a, NEW b, NEW q \in Seq(Messages), q # <<>>,
         Head(q).type = "spool" => b.state = a.state /\ b.job = a.job,
         Head(q).type = "started" => b.job = Head(q).job,
         Head(q).type = "ended" => b.state # "MONITORING_PRINT",
         NEW n \in 0..(Len(q) - 1), NEW j \in Jobs, Watched(b, Tail(q), n, j)
  PROVE  Watched(a, q, n + 1, j)
<1> DEFINE r == Tail(q)
<1>1. /\ Head(q) = q[1] /\ Len(q) \in Nat /\ Len(q) >= 1 /\ q[1] \in Messages
      /\ \A i \in 1..(Len(q) - 1) : r[i] = q[i + 1]
  BY HeadTailProperties
<1>2. Watched(b, r, n, j)
  OBVIOUS
<1> HIDE DEF r
<1>3. /\ n + 1 \in Nat /\ 1 \in 1..(n + 1)
      /\ \A i \in 1..n : i + 1 \in 1..(n + 1) /\ r[i] = q[i + 1]
      /\ \A k \in 1..(n + 1) : k = 1 \/ (k - 1 \in 1..n /\ q[k] = r[k - 1])
  <2>1. \A i \in 1..n : i + 1 \in 1..(n + 1) /\ i \in 1..(Len(q) - 1)
    BY <1>1
  <2>2. \A k \in 1..(n + 1) : k = 1 \/ (k - 1 \in 1..n /\ (k - 1) + 1 = k)
    BY <1>1
  <2> QED BY <1>1, <2>1, <2>2
<1>4. CASE \E i \in 1..n : /\ r[i].type = "started" /\ r[i].job = j
                           /\ \A k \in 1..n : k > i => r[k].type = "spool"
  <2>1. PICK i \in 1..n : /\ r[i].type = "started" /\ r[i].job = j
                          /\ \A k \in 1..n : k > i => r[k].type = "spool"
    BY <1>4
  <2>2. q[i + 1].type = "started" /\ q[i + 1].job = j /\ i + 1 \in 1..(n + 1)
    BY <1>3, <2>1
  <2>3. \A k \in 1..(n + 1) : k > i + 1 => q[k].type = "spool"
    <3> TAKE k \in 1..(n + 1)
    <3> HAVE k > i + 1
    <3>1. k # 1 /\ k - 1 > i
      OBVIOUS
    <3>2. k - 1 \in 1..n /\ q[k] = r[k - 1]
      BY <1>3, <3>1
    <3>3. r[k - 1].type = "spool"
      BY <2>1, <3>1, <3>2
    <3> QED BY <3>2, <3>3
  <2> QED BY <2>2, <2>3 DEF Watched
<1>5. CASE /\ b.state = "MONITORING_PRINT" /\ b.job = j
           /\ \A k \in 1..n : r[k].type = "spool"
  <2>1. \A k \in 1..(n + 1) : k = 1 \/ q[k].type = "spool"
    <3> TAKE k \in 1..(n + 1)
    <3>1. CASE k - 1 \in 1..n /\ q[k] = r[k - 1]
      <4>1. r[k - 1].type = "spool"
        BY <1>5, <3>1
      <4> QED BY <3>1, <4>1
    <3> QED BY <1>3, <3>1
  <2>2. CASE q[1].type = "spool"
    <3>1. \A k \in 1..(n + 1) : q[k].type = "spool"
      BY <2>1, <2>2
    <3> QED BY <1>1, <1>5, <2>2, <3>1 DEF Watched
  <2>3. CASE q[1].type = "started"
    <3>1. \A k \in 1..(n + 1) : k > 1 => q[k].type = "spool"
      BY <2>1
    <3> QED BY <1>1, <1>3, <1>5, <2>3, <3>1 DEF Watched
  <2>4. CASE q[1].type = "ended"
    BY <1>1, <1>5, <2>4
  <2> QED BY <1>1, <2>2, <2>3, <2>4, MessageKinds
<1> QED BY <1>2, <1>4, <1>5 DEF Watched

\* The application charges a print when it takes the report of it from the queue.
LEMMA HandlingCharges ==
  ASSUME PrintInv, ChargeInv, HandleMessage
  PROVE  ChargeInv'
<1> DEFINE m == Head(inbox)
<1>1. inbox \in Seq(Messages) /\ inbox # <<>> /\ inbox' = Tail(inbox)
  BY DEF PrintInv, HandleMessage
<1>2. UNCHANGED <<track, lost>>
  BY DEF HandleMessage, pollVars
<1>3. /\ m \in Messages /\ m = inbox[1] /\ Len(inbox) \in Nat /\ Len(inbox) >= 1
      /\ Len(inbox') = Len(inbox) - 1
      /\ \A i \in 1..Len(inbox') : inbox'[i] = inbox[i + 1]
  BY <1>1, HeadTailProperties
<1>4. app.state = "MONITORING_PRINT" => app.job \in Jobs
  BY DEF ChargeInv
<1>5. app \in [state : {"IDLE", "MONITORING_PRINT"}, job : Jobs \cup {NoJob},
              start : Spools \cup {NoSpool}, changed : BOOLEAN]
  BY DEF PrintInv, PrintTypeOK
<1>6. app'.state = "MONITORING_PRINT" => app'.job \in Jobs
  <2> HIDE DEF m
  <2>1. CASE m.type = "started" /\ HandlePrintStarted(m)
    BY <1>3, <2>1, MessageKinds DEF HandlePrintStarted
  <2>2. CASE m.type = "spool" /\ HandleSpoolDetected(m)
    <3>1. \/ app' = app
          \/ app' = [app EXCEPT !.start = m.spool]
          \/ app' = [app EXCEPT !.changed = @ \/ m.spool # app.start]
      BY <2>2 DEF HandleSpoolDetected
    <3> QED BY <1>4, <1>5, <3>1
  <2>3. CASE m.type = "ended" /\ HandlePrintEnded(m)
    BY <1>4, <1>5, <2>3 DEF HandlePrintEnded
  <2> QED BY <2>1, <2>2, <2>3 DEF HandleMessage, m
<1> SUFFICES ASSUME lost <= 1
             PROVE  /\ EndsItsOwn(app', inbox')
                    /\ LeavesWatched(app', inbox', track.id, lost)
                    /\ LossIsHarmless'
  BY <1>2, <1>6 DEF ChargeInv
<1>7. EndsItsOwn(app, inbox) /\ LeavesWatched(app, inbox, track.id, lost) /\ LossIsHarmless
  BY DEF ChargeInv
<1>8. /\ m.type = "spool" => app'.state = app.state /\ app'.job = app.job
      /\ m.type = "started" => app'.job = m.job
      /\ m.type = "ended" => app'.state # "MONITORING_PRINT"
  <2>1. \/ m.type = "started" /\ HandlePrintStarted(m)
        \/ m.type = "spool" /\ HandleSpoolDetected(m)
        \/ m.type = "ended" /\ HandlePrintEnded(m)
    BY DEF HandleMessage
  <2> HIDE DEF m
  <2>2. CASE m.type = "started" /\ HandlePrintStarted(m)
    BY <2>2 DEF HandlePrintStarted
  <2>3. CASE m.type = "spool" /\ HandleSpoolDetected(m)
    <3>1. \/ app' = app
          \/ app' = [app EXCEPT !.start = m.spool]
          \/ app' = [app EXCEPT !.changed = @ \/ m.spool # app.start]
      BY <2>3 DEF HandleSpoolDetected
    <3> QED BY <1>5, <2>3, <3>1
  <2>4. CASE m.type = "ended" /\ HandlePrintEnded(m)
    BY <1>5, <2>4 DEF HandlePrintEnded
  <2> QED BY <2>1, <2>2, <2>3, <2>4
<1>9. \A n \in 0..(Len(inbox) - 1) : \A j \in Jobs :
        Watched(app', inbox', n, j) => Watched(app, inbox, n + 1, j)
  BY <1>1, <1>8, HandledWatch
<1>10. EndsItsOwn(app', inbox')
  <2> SUFFICES ASSUME NEW i \in 1..Len(inbox'), inbox'[i].type = "ended",
                      NEW j \in Jobs, Watched(app', inbox', i - 1, j)
               PROVE  inbox'[i].job = j
    BY DEF EndsItsOwn
  <2>1. /\ i - 1 \in 0..(Len(inbox) - 1) /\ (i - 1) + 1 = i /\ (i + 1) - 1 = i
        /\ i + 1 \in 1..Len(inbox) /\ inbox'[i] = inbox[i + 1]
    BY <1>3
  <2>2. Watched(app, inbox, i, j)
    BY <1>9, <2>1
  <2> QED BY <1>7, <2>1, <2>2 DEF EndsItsOwn
<1>11. LeavesWatched(app', inbox', track.id, lost)
  <2>1. Len(inbox') \in 0..(Len(inbox) - 1) /\ Len(inbox') + 1 = Len(inbox)
    BY <1>3
  <2> QED BY <1>7, <1>9, <2>1 DEF LeavesWatched
<1>12. LossIsHarmless'
  <2>1. CASE m.type = "ended" /\ app.state = "MONITORING_PRINT" /\ app.job \in Jobs
    <3>1. Watched(app, inbox, 0, app.job)
      BY <2>1 DEF Watched
    <3>2. inbox[1].type = "ended" /\ 1 \in 1..Len(inbox) /\ 1 - 1 = 0
      BY <1>3, <2>1
    <3>3. m.job = app.job
      BY <1>3, <1>7, <2>1, <3>1, <3>2 DEF EndsItsOwn
    <3> HIDE DEF m
    <3>4. HandlePrintEnded(m)
      BY <2>1 DEF HandleMessage, m
    <3> QED BY <2>1, <3>3, <3>4 DEF HandlePrintEnded, FinishPrint, LossIsHarmless, NoDeduction
  <2>2. CASE ~(m.type = "ended" /\ app.state = "MONITORING_PRINT")
    <3> HIDE DEF m
    <3>1. deducted' = NoDeduction
      BY <2>2 DEF HandleMessage, HandlePrintStarted, HandleSpoolDetected, HandlePrintEnded, m
    <3> QED BY <3>1 DEF LossIsHarmless, NoDeduction
  <2> QED BY <1>4, <2>1, <2>2
<1> QED BY <1>10, <1>11, <1>12

\* Every other step leaves the queue, what is tracked and what was charged alone, or announces
\* a spool, which no watch depends on.
LEMMA StepCharges ==
  ASSUME PrintInv, ChargeInv, [PrintNext]_printVars
  PROVE  ChargeInv'
<1>1. CASE UNCHANGED <<track, inbox, lost, app, deducted>>
  BY <1>1 DEF ChargeInv, LossIsHarmless
<1>2. CASE PollStatus
  <2>1. UNCHANGED <<torn, job, reached, app, deducted>>
    BY <1>2 DEF PollStatus, printerVars, appVars
  <2>2. CASE JobMissing
    <3>1. PollEffect
      BY <2>1, <2>2, MissingEffect
    <3> QED BY <2>1, <3>1, PollCharges DEF PollEffect
  <2>3. CASE UNCHANGED <<track, inbox, lost>>
    BY <1>1, <2>1, <2>3
  <2> QED BY <1>2, <2>2, <2>3 DEF PollStatus
<1>3. CASE PollJob
  <2>1. PollEffect /\ UNCHANGED <<app, deducted>>
    BY <1>3, PollJobEffect DEF PollJob, appVars
  <2> QED BY <2>1, PollCharges DEF PollEffect
<1>4. CASE SpoolDetected
  <2>1. /\ UNCHANGED <<track, lost, app, deducted>>
        /\ \E u \in Spools : inbox' = Append(inbox, [type |-> "spool", spool |-> u])
    BY <1>4 DEF SpoolDetected, pollVars, appVars
  <2>2. PICK u \in Spools : inbox' = Append(inbox, [type |-> "spool", spool |-> u])
    BY <2>1
  <2> DEFINE m == [type |-> "spool", spool |-> u]
  <2>3. m \in Messages /\ m.type = "spool" /\ inbox' = Append(inbox, m) /\ inbox \in Seq(Messages)
    BY <2>2 DEF Messages, PrintInv
  <2> HIDE DEF m
  <2> SUFFICES ASSUME lost <= 1
               PROVE  EndsItsOwn(app, inbox') /\ LeavesWatched(app, inbox', track.id, lost)
    BY <2>1 DEF ChargeInv, LossIsHarmless
  <2>4. EndsItsOwn(app, inbox) /\ LeavesWatched(app, inbox, track.id, lost)
    BY DEF ChargeInv
  <2>5. EndsItsOwn(app, inbox')
    BY <2>3, <2>4, Joins
  <2>6. LeavesWatched(app, inbox', track.id, lost)
    BY <2>3, <2>4, LastDecides DEF LeavesWatched
  <2> QED BY <2>5, <2>6
<1>5. CASE HandleMessage
  BY <1>5, HandlingCharges
<1>6. CASE StartJob \/ Advance \/ EndJob \/ CloseJob
  <2>1. UNCHANGED <<track, inbox, lost, app, deducted>>
    BY <1>6 DEF StartJob, Advance, EndJob, CloseJob, Printer, pollVars, appVars
  <2> QED BY <1>1, <2>1
<1>7. CASE UNCHANGED printVars
  BY <1>1, <1>7 DEF printVars, pollVars, appVars
<1> QED BY <1>2, <1>3, <1>4, <1>5, <1>6, <1>7 DEF PrintNext

LEMMA InitCharges == PrintInit => ChargeInv
<1> SUFFICES ASSUME PrintInit PROVE ChargeInv
  OBVIOUS
<1>1. Len(inbox) = 0 /\ app.state = "IDLE" /\ LossIsHarmless
  BY DEF PrintInit, LossIsHarmless, NoDeduction
<1>2. EndsItsOwn(app, inbox)
  BY <1>1 DEF EndsItsOwn
<1>3. \A j \in Jobs : ~Watched(app, inbox, 0, j)
  BY <1>1 DEF Watched
<1> QED BY <1>1, <1>2, <1>3 DEF ChargeInv, LeavesWatched

\* While at most one message was lost to a full queue, ApplicationManager charges every print
\* to the spool it watched for that print (handlePrintStarted, finishPrint), however the rest of
\* the queue is ordered.  With two losses it need not: the end of one job and the start of the next.
THEOREM OneLossIsHarmless == PrintSpec => [](lost <= 1 => LossIsHarmless)
<1>1. PrintInv /\ ChargeInv /\ [PrintNext]_printVars => ChargeInv'
  BY StepCharges
<1>2. ChargeInv => (lost <= 1 => LossIsHarmless)
  BY DEF ChargeInv
<1> QED BY <1>1, <1>2, PrintInvariant, InitCharges, PTL DEF PrintSpec

\* So it holds of every behaviour of a queue that overflows once, as the run has it.
THEOREM SingleLossIsHarmless == ASSUME MaxLost <= 1 PROVE PrintSpec => []LossIsHarmless
<1>1. PrintInv => lost <= 1
  BY BoundAssumption DEF PrintInv, PrintTypeOK
<1>2. PrintInv /\ (lost <= 1 => LossIsHarmless) => LossIsHarmless
  BY <1>1
<1> QED BY <1>2, PrintInvariant, OneLossIsHarmless, PTL
=============================================================================
