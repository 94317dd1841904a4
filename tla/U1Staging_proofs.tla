--------------------------- MODULE U1Staging_proofs ---------------------------
(***************************************************************************)
(* What TLC checks of U1Staging on two lanes and a few scans, for any      *)
(* lanes, spools, queues and number of scans: one scan reaches one lane,   *)
(* what is newer is never displaced by what is late, and the sensors pick  *)
(* on an edge.                                                             *)
(***************************************************************************)
EXTENDS U1Staging, SequenceTheorems, FiniteSetTheorems, WellFoundedInduction, TLAPS

Note == [type : {"detected"}, spool : Spools, scan : Nat \ {0}, name : Names]
          \cup [type : {"synced"}, spool : Spools, scan : Nat \ {0}, name : Names,
                lookup : BOOLEAN, ok : BOOLEAN]
Ask == [spool : Spools, scan : Nat \ {0}, name : Names, lookup : BOOLEAN]

QueuesTyped ==
  /\ inbox \in Seq(Note) /\ Len(inbox) <= AppDepth
  /\ wanted \in Seq(Ask) /\ Len(wanted) <= SyncDepth
  /\ scans \in Nat

\* The sync of a scan is asked for and answered before its lookup, that before those of later scans.
Before(x, y) == x.scan <= y.scan /\ (x.lookup => x.scan < y.scan)

QueuesOrdered ==
  /\ \A i, j \in 1..Len(wanted) : i < j => Before(wanted[i], wanted[j])
  /\ \A i \in 1..Len(inbox) : inbox[i].type = "synced" =>
       /\ \A j \in 1..Len(wanted) : Before(inbox[i], wanted[j])
       /\ \A j \in 1..Len(inbox) : i < j /\ inbox[j].type = "synced" => Before(inbox[i], inbox[j])
  /\ \A i \in 1..Len(inbox) : inbox[i].type = "detected" =>
       /\ inbox[i].scan <= scans
       /\ \A j \in 1..Len(wanted) : wanted[j].scan < inbox[i].scan
       /\ \A j \in 1..Len(inbox) :
            inbox[j].type = "synced" \/ j < i => inbox[j].scan < inbox[i].scan
  /\ \A i \in 1..Len(inbox) : inbox[i].scan <= scans
  /\ \A i \in 1..Len(wanted) : wanted[i].scan <= scans

QueueInv == QueuesTyped /\ QueuesOrdered

\* What the queues hold: detections, and syncs or lookups asked for or answered.
News(s, n) ==
  \E i \in 1..Len(inbox) : inbox[i].type = "detected" /\ inbox[i].spool = s /\ inbox[i].scan = n
Holds(x, s, n, b) == x.spool = s /\ x.scan = n /\ x.lookup = b
Asked(s, n, b) ==
  \/ \E i \in 1..Len(wanted) : Holds(wanted[i], s, n, b)
  \/ \E i \in 1..Len(inbox) : inbox[i].type = "synced" /\ Holds(inbox[i], s, n, b)

Timers == {"staged", "pending", "last", "backoff"}
Held == [active : BOOLEAN, info : Infos, scan : Nat]

StateTyped ==
  /\ mode \in {"fixed", "stage"}
  /\ reader \in [uid : Spools \cup {NoSpool}, generic : BOOLEAN]
  /\ version \in [Gappy -> {"first", "second"}]
  /\ staged \in Held /\ pending \in Held
  /\ last \in [lane : Lanes \cup {-1}, uid : Spools \cup {NoSpool}]
  /\ pick \in [valid : BOOLEAN, baseline : SUBSET Lanes, count : [Lanes -> 0..2]]
  /\ left \in [Timers -> 0..Ttl]
  /\ emptied \subseteq Lanes
  /\ told \in [Lanes -> [of : Spools \cup {NoSpool}, scan : Nat]]
  /\ shown \in [Spools -> Nat]
  /\ faults \in 0..MaxFaults

\* What is active is of a spool and of a scan, what is over is blank, and the timers say which.
Coherent ==
  /\ staged.active => staged.info.of \in Spools /\ staged.scan > 0
  /\ ~staged.active => staged.scan = 0
  /\ pending.active => pending.info.of \in Gappy /\ pending.scan > 0 /\ left.pending > 0
  /\ ~pending.active => pending.scan = 0 /\ left.pending = 0
  /\ last.uid = NoSpool <=> left.last = 0
  /\ last.uid # NoSpool => last.lane \in Lanes
  /\ \A l \in Lanes : told[l].of = NoSpool <=> told[l].scan = 0
  /\ mode = "fixed" => ~staged.active /\ last.uid = NoSpool
  /\ mode = "fixed" => \A l \in Lanes : l # FixedLane => told[l].scan = 0
  /\ reader.uid # NoSpool => shown[reader.uid] = scans /\ scans > 0

\* Scan n is known to be of spool s.
Uses(n, s) ==
  \/ News(s, n) \/ \E b \in BOOLEAN : Asked(s, n, b)
  \/ staged.active /\ staged.scan = n /\ staged.info.of = s
  \/ pending.active /\ pending.scan = n /\ pending.info.of = s
  \/ \E l \in Lanes : told[l].scan = n /\ told[l].of = s
  \/ shown[s] = n

\* A scan is of one spool, which was last detected then or later.
ScansInv ==
  \A n \in Nat \ {0}, s \in Spools : Uses(n, s) =>
    /\ n <= shown[s] /\ n <= scans
    /\ \A u \in Spools : Uses(n, u) => s = u

\* A detection that waits is newer than anything that was made of earlier ones.
NewsLast ==
  \A s, n : News(s, n) =>
    /\ staged.scan < n /\ pending.scan < n
    /\ \A l \in Lanes : told[l].scan < n

Said(n, l) == told[l].scan = n /\ n \notin doubt

StagedUnsaid ==
  staged.active => \A l \in Lanes : ~Said(staged.scan, l)

LookupUnsaid ==
  \A s \in Generic, n \in Nat : Asked(s, n, TRUE) =>
    staged.scan # n /\ \A l \in Lanes : ~Said(n, l)

AugmentKnowsLane ==
  mode = "stage" /\ pending.active /\ last.uid = pending.info.of =>
    \A l \in Lanes : l # last.lane => ~Said(pending.scan, l)

AugmentOfStaged ==
  staged.active /\ pending.active /\ staged.info.of = pending.info.of =>
    staged.scan = pending.scan \/ pending.scan \in doubt

UnsaidInv == StagedUnsaid /\ LookupUnsaid /\ AugmentKnowsLane /\ AugmentOfStaged

\* Lane l may be told of spool s.
Yields(l, s) == told[l].of = s \/ shown[s] > told[l].scan

StagedNewer == staged.active => \A l \in Lanes : Yields(l, staged.info.of)
StagedNewerThanAugment ==
  staged.active /\ pending.active /\ staged.info.of # pending.info.of
    => shown[staged.info.of] > pending.scan
PickedYields ==
  last.uid # NoSpool => Yields(last.lane, last.uid) \/ left.backoff >= left.last
SyncsLater ==
  \A n : Asked(pending.info.of, n, FALSE) => n > told[FixedLane].scan
AugmentYields ==
  mode = "fixed" /\ pending.active =>
    Yields(FixedLane, pending.info.of) \/ left.backoff >= left.pending \/ SyncsLater

NewerInv == StagedNewer /\ StagedNewerThanAugment /\ PickedYields /\ AugmentYields

BaselineInv == pick.valid => Lanes \ pick.baseline \subseteq emptied

CoreInv == StateTyped /\ Coherent /\ ScansInv /\ NewsLast /\ UnsaidInv /\ NewerInv
U1Inv == QueueInv /\ CoreInv /\ BaselineInv

coreVars == <<mode, staged, pending, last, left, told, doubt>>

-----------------------------------------------------------------------------
(* The queues *)

\* A queue that is offered messages keeps what it holds and takes what still fits.
LEMMA Offered ==
  ASSUME NEW S, NEW q \in Seq(S), NEW ms \in Seq(S), NEW d \in Nat
  PROVE  /\ Offer(q, ms, d) \in Seq(S)
         /\ Len(Offer(q, ms, d)) <= d /\ Len(Offer(q, ms, d)) <= Len(q) + Len(ms)
         /\ \A i \in 1..Len(Offer(q, ms, d)) :
              Offer(q, ms, d)[i] = IF i <= Len(q) THEN q[i] ELSE ms[i - Len(q)]
<1> DEFINE n == Least(Len(q) + Len(ms), d)
           c == q \o ms
<1>1. c \in Seq(S) /\ Len(c) = Len(q) + Len(ms)
  OBVIOUS
<1>2. \A i \in 1..Len(c) : c[i] = IF i <= Len(q) THEN q[i] ELSE ms[i - Len(q)]
  OBVIOUS
<1>3. n \in Nat /\ n <= d /\ n <= Len(c)
  BY <1>1 DEF Least
<1> HIDE DEF c, n
<1>4. \A i \in 1..n : c[i] \in S
  BY <1>1, <1>3
<1>5. /\ SubSeq(c, 1, n) \in Seq(S)
      /\ Len(SubSeq(c, 1, n)) = IF 1 <= n THEN n - 1 + 1 ELSE 0
      /\ \A i \in 1 .. n - 1 + 1 : SubSeq(c, 1, n)[i] = c[1 + i - 1]
  BY <1>3, <1>4, SubSeqProperties
<1>6. Len(SubSeq(c, 1, n)) = n /\ \A i \in 1..n : SubSeq(c, 1, n)[i] = c[i]
  BY <1>3, <1>5
<1>7. Offer(q, ms, d) = SubSeq(c, 1, n)
  BY DEF Offer, c, n
<1> QED BY <1>1, <1>2, <1>3, <1>5, <1>6, <1>7

\* The same of one message to the application.
LEMMA OneOffered ==
  ASSUME inbox \in Seq(Note), NEW m \in Note, inbox' = Offer(inbox, <<m>>, AppDepth)
  PROVE  /\ inbox' \in Seq(Note) /\ Len(inbox') <= AppDepth
         /\ \A i \in 1..Len(inbox') : \/ i \in 1..Len(inbox) /\ inbox'[i] = inbox[i]
                                      \/ i = Len(inbox) + 1 /\ inbox'[i] = m
<1> DEFINE one == <<m>>
<1>1. one \in Seq(Note) /\ Len(one) = 1 /\ one[1] = m /\ inbox' = Offer(inbox, one, AppDepth)
  OBVIOUS
<1>2. AppDepth \in Nat /\ Len(inbox) \in Nat
  BY BoundAssumption
<1> HIDE DEF one
<1> DEFINE q == Offer(inbox, one, AppDepth)
<1>3. /\ q \in Seq(Note) /\ Len(q) <= AppDepth /\ Len(q) <= Len(inbox) + Len(one)
      /\ \A i \in 1..Len(q) : q[i] = IF i <= Len(inbox) THEN inbox[i] ELSE one[i - Len(inbox)]
  BY <1>1, <1>2, Offered
<1> HIDE DEF q
<1>4. ASSUME NEW i \in 1..Len(q)
      PROVE  \/ i \in 1..Len(inbox) /\ q[i] = inbox[i]
             \/ i = Len(inbox) + 1 /\ q[i] = m
  <2>1. i \in Nat /\ i >= 1 /\ i <= Len(inbox) + 1
    BY <1>1, <1>2, <1>3
  <2>2. CASE i <= Len(inbox)
    BY <2>1, <2>2, <1>3
  <2>3. CASE i = Len(inbox) + 1
    <3>1. ~ (i <= Len(inbox)) /\ i - Len(inbox) = 1
      BY <2>3, <1>2
    <3> QED BY <3>1, <2>3, <1>1, <1>3
  <2> QED BY <2>1, <2>2, <2>3, <1>2
<1>5. inbox' = q
  BY <1>1 DEF q
<1> QED BY <1>3, <1>4, <1>5

\* What a message is made of.
LEMMA NoteKinds ==
  ASSUME NEW m \in Note
  PROVE  /\ m.type \in {"detected", "synced"} /\ m.spool \in Spools /\ m.scan \in Nat /\ m.scan > 0
         /\ m.name \in Names
         /\ m.type = "synced" => m.lookup \in BOOLEAN /\ m.ok \in BOOLEAN
  BY DEF Note

\* What a request is made of.
LEMMA AskKinds ==
  ASSUME NEW r \in Ask
  PROVE  /\ r.spool \in Spools /\ r.scan \in Nat /\ r.scan > 0 /\ r.name \in Names
         /\ r.lookup \in BOOLEAN
  BY DEF Ask

\* A detection that waits is of a later scan than any sync that was asked for.
LEMMA NewsIsNew ==
  ASSUME QueueInv, NEW s, NEW u, NEW n, NEW k, NEW b, News(s, n), Asked(u, k, b)
  PROVE  k < n /\ k \in Nat /\ n \in Nat /\ n > 0 /\ k > 0
  <1>1. \A i \in 1..Len(inbox) : inbox[i] \in Note
    BY DEF QueueInv, QueuesTyped
  <1>2. \A i \in 1..Len(wanted) : wanted[i] \in Ask
    BY DEF QueueInv, QueuesTyped
  <1> QED BY <1>1, <1>2, NoteKinds, AskKinds DEF QueueInv, QueuesOrdered, News, Asked, Holds

\* A detection joins the queue with the highest number, if it finds room.
LEMMA AnnounceQueues ==
  ASSUME QueueInv, NEW s \in Spools, NEW g, Announce(s, g), version' \in [Gappy -> {"first", "second"}]
  PROVE  /\ QueueInv'
         /\ \A u, n : News(u, n)' => News(u, n) \/ (u = s /\ n = scans')
         /\ \A u, n, b : Asked(u, n, b)' => Asked(u, n, b)
<1> DEFINE nm == IF s \in Gappy THEN version'[s] ELSE "first"
           m == [type |-> "detected", spool |-> s, scan |-> scans + 1, name |-> nm]
<1>0. nm \in Names /\ scans \in Nat
  BY DEF Names, QueueInv, QueuesTyped
<1>1. m \in Note /\ m.type = "detected" /\ m.spool = s /\ m.scan = scans + 1
  <2> HIDE DEF nm
  <2> QED BY <1>0 DEF Note
<1>2. inbox' = Offer(inbox, <<m>>, AppDepth) /\ scans' = scans + 1 /\ wanted' = wanted
  BY DEF Announce
<1> HIDE DEF m
<1>4. inbox \in Seq(Note) /\ Len(inbox) \in Nat
  BY DEF QueueInv, QueuesTyped
<1>6. /\ inbox' \in Seq(Note) /\ Len(inbox') <= AppDepth
      /\ \A i \in 1..Len(inbox') : \/ i \in 1..Len(inbox) /\ inbox'[i] = inbox[i]
                                   \/ i = Len(inbox) + 1 /\ inbox'[i] = m
  BY <1>1, <1>2, <1>4, OneOffered
<1>7. \A i \in 1..Len(inbox) : inbox[i] \in Note /\ inbox[i].scan \in Nat
  BY <1>4, NoteKinds
<1>8. \A i \in 1..Len(wanted) : wanted[i].scan \in Nat
  BY AskKinds DEF QueueInv, QueuesTyped
<1>9. QueuesTyped'
  BY <1>0, <1>2, <1>6 DEF QueueInv, QueuesTyped
<1>10. QueuesOrdered'
  <2>1. \A i, j \in 1..Len(wanted') : i < j => Before(wanted'[i], wanted'[j])
    BY <1>2 DEF QueueInv, QueuesOrdered
  <2>2. \A i \in 1..Len(inbox') : inbox'[i].type = "synced" =>
            i \in 1..Len(inbox) /\ inbox'[i] = inbox[i]
    BY <1>1, <1>6
  <2>3. ASSUME NEW i \in 1..Len(inbox'), inbox'[i].type = "synced"
        PROVE  /\ \A j \in 1..Len(wanted') : Before(inbox'[i], wanted'[j])
               /\ \A j \in 1..Len(inbox') : i < j /\ inbox'[j].type = "synced" =>
                         Before(inbox'[i], inbox'[j])
    BY <2>2, <2>3, <1>2 DEF QueueInv, QueuesOrdered
  <2>4. ASSUME NEW i \in 1..Len(inbox'), inbox'[i].type = "detected"
        PROVE  /\ inbox'[i].scan <= scans'
               /\ \A j \in 1..Len(wanted') : wanted'[j].scan < inbox'[i].scan
               /\ \A j \in 1..Len(inbox') :
                     inbox'[j].type = "synced" \/ j < i => inbox'[j].scan < inbox'[i].scan
    <3>1. CASE i \in 1..Len(inbox) /\ inbox'[i] = inbox[i]
      <4>1. inbox'[i].scan <= scans' /\ \A j \in 1..Len(wanted') : wanted'[j].scan < inbox'[i].scan
        BY <2>4, <3>1, <1>0, <1>2, <1>7 DEF QueueInv, QueuesOrdered
      <4>2. ASSUME NEW j \in 1..Len(inbox'), inbox'[j].type = "synced" \/ j < i
            PROVE  inbox'[j].scan < inbox'[i].scan
        <5>1. j \in 1..Len(inbox) /\ inbox'[j] = inbox[j]
          BY <2>2, <3>1, <4>2, <1>4, <1>6
        <5> QED BY <5>1, <2>4, <3>1, <4>2 DEF QueueInv, QueuesOrdered
      <4> QED BY <4>1, <4>2
    <3>2. CASE i = Len(inbox) + 1 /\ inbox'[i] = m
      BY <2>4, <2>2, <3>2, <1>0, <1>1, <1>2, <1>4, <1>6, <1>7, <1>8 DEF QueueInv, QueuesOrdered
    <3> QED BY <3>1, <3>2, <1>6
  <2>5. \A i \in 1..Len(inbox') : inbox'[i].scan <= scans'
    <3>1. \A i \in 1..Len(inbox) : inbox[i].scan <= scans
      BY DEF QueueInv, QueuesOrdered
    <3> QED BY <3>1, <1>0, <1>1, <1>2, <1>6, <1>7
  <2>6. \A i \in 1..Len(wanted') : wanted'[i].scan <= scans'
    BY <1>0, <1>2, <1>8 DEF QueueInv, QueuesOrdered
  <2> QED BY <2>1, <2>3, <2>4, <2>5, <2>6 DEF QueuesOrdered
<1>11. \A u, n : News(u, n)' => News(u, n) \/ (u = s /\ n = scans')
  BY <1>1, <1>2, <1>6 DEF News
<1>12. ASSUME NEW u, NEW n, NEW b PROVE Asked(u, n, b)' => Asked(u, n, b)
  BY <1>1, <1>2, <1>6 DEF Asked, Holds
<1> QED BY <1>9, <1>10, <1>11, <1>12 DEF QueueInv

\* A sequence without its head.
LEMMA Tailed ==
  ASSUME NEW S, NEW q \in Seq(S), q # <<>>
  PROVE  /\ Tail(q) \in Seq(S) /\ Len(Tail(q)) = Len(q) - 1 /\ Len(q) \in Nat
         /\ 1 \in 1..Len(q) /\ Head(q) = q[1] /\ q[1] \in S
         /\ \A i \in 1..Len(Tail(q)) : i + 1 \in 1..Len(q) /\ Tail(q)[i] = q[i + 1]
<1>1. Len(q) \in Nat /\ Len(q) > 0
  BY EmptySeq
<1>2. 1 \in 1..Len(q) /\ Head(q) = q[1] /\ q[1] \in S
  BY <1>1
<1> QED BY <1>1, <1>2, HeadTailProperties

\* An answer takes the place of its request, behind every older answer.
LEMMA AnswerQueues ==
  ASSUME QueueInv, NEW ok \in BOOLEAN, Answer(ok)
  PROVE  /\ QueueInv'
         /\ \A u, n : News(u, n)' => News(u, n)
         /\ \A u, n, b : Asked(u, n, b)' => Asked(u, n, b)
<1> DEFINE r == wanted[1]
           m == [type |-> "synced", spool |-> r.spool, scan |-> r.scan, name |-> r.name,
                 lookup |-> r.lookup, ok |-> ok]
<1>1. wanted \in Seq(Ask) /\ wanted # <<>> /\ inbox \in Seq(Note) /\ Len(inbox) \in Nat /\ scans \in Nat
  BY DEF Answer, QueueInv, QueuesTyped
<1>2. /\ Tail(wanted) \in Seq(Ask) /\ Len(Tail(wanted)) = Len(wanted) - 1 /\ Len(wanted) \in Nat
      /\ 1 \in 1..Len(wanted) /\ Head(wanted) = wanted[1] /\ wanted[1] \in Ask
      /\ \A i \in 1..Len(Tail(wanted)) : i + 1 \in 1..Len(wanted) /\ Tail(wanted)[i] = wanted[i + 1]
  BY <1>1, Tailed
<1>3. inbox' = Offer(inbox, <<m>>, AppDepth) /\ scans' = scans /\ wanted' = Tail(wanted)
  BY <1>2 DEF Answer, readerVars
<1>4. /\ r.spool \in Spools /\ r.scan \in Nat /\ r.scan > 0 /\ r.name \in Names /\ r.lookup \in BOOLEAN
  BY <1>2, AskKinds
<1>5. /\ m \in Note /\ m.type = "synced" /\ m.spool = r.spool /\ m.scan = r.scan
      /\ m.lookup = r.lookup
  <2> HIDE DEF r
  <2> QED BY <1>4 DEF Note
<1> HIDE DEF m
<1>6. /\ inbox' \in Seq(Note) /\ Len(inbox') <= AppDepth
      /\ \A i \in 1..Len(inbox') : \/ i \in 1..Len(inbox) /\ inbox'[i] = inbox[i]
                                   \/ i = Len(inbox) + 1 /\ inbox'[i] = m
  BY <1>1, <1>3, <1>5, OneOffered
<1>8. \A i \in 1..Len(inbox) : inbox[i] \in Note /\ inbox[i].scan \in Nat /\
          inbox[i].type \in {"detected", "synced"}
  BY <1>1, NoteKinds
<1>9. \A i \in 1..Len(wanted) : wanted[i].scan \in Nat
  BY <1>1, AskKinds
<1>10. \A i \in 1..Len(wanted') : i + 1 \in 1..Len(wanted) /\ 1 < i + 1 /\ wanted'[i] = wanted[i + 1]
  BY <1>2, <1>3
<1>11. QueuesTyped'
  BY <1>1, <1>2, <1>3, <1>6, BoundAssumption DEF QueueInv, QueuesTyped
<1>12. QueuesOrdered'
  <2>1. \A i, j \in 1..Len(wanted') : i < j => Before(wanted'[i], wanted'[j])
    <3> SUFFICES ASSUME NEW i \in 1..Len(wanted'), NEW j \in 1..Len(wanted'), i < j
                 PROVE  Before(wanted'[i], wanted'[j])
      OBVIOUS
    <3>1. i + 1 < j + 1
      OBVIOUS
    <3> QED BY <3>1, <1>10 DEF QueueInv, QueuesOrdered
  <2>2. ASSUME NEW i \in 1..Len(inbox'), inbox'[i].type = "synced"
        PROVE  /\ \A j \in 1..Len(wanted') : Before(inbox'[i], wanted'[j])
               /\ \A j \in 1..Len(inbox') : i < j /\ inbox'[j].type = "synced" =>
                         Before(inbox'[i], inbox'[j])
    <3>1. CASE i \in 1..Len(inbox) /\ inbox'[i] = inbox[i]
      <4>1. \A j \in 1..Len(wanted) : Before(inbox[i], wanted[j])
        BY <2>2, <3>1 DEF QueueInv, QueuesOrdered
      <4>2. Before(inbox[i], m)
        BY <4>1, <1>2, <1>5 DEF Before
      <4> QED BY <2>2, <3>1, <4>1, <4>2, <1>6, <1>10 DEF QueueInv, QueuesOrdered
    <3>2. CASE i = Len(inbox) + 1 /\ inbox'[i] = m
      <4>1. \A j \in 1..Len(wanted') : Before(r, wanted'[j])
        BY <1>2, <1>10 DEF QueueInv, QueuesOrdered
      <4>2. \A j \in 1..Len(wanted') : Before(m, wanted'[j])
        BY <4>1, <1>5 DEF Before
      <4>3. \A j \in 1..Len(inbox') : ~ i < j
        BY <3>2, <1>6, <1>1
      <4> QED BY <3>2, <4>2, <4>3
    <3> QED BY <3>1, <3>2, <1>6
  <2>3. ASSUME NEW i \in 1..Len(inbox'), inbox'[i].type = "detected"
        PROVE  /\ inbox'[i].scan <= scans'
               /\ \A j \in 1..Len(wanted') : wanted'[j].scan < inbox'[i].scan
               /\ \A j \in 1..Len(inbox') :
                     inbox'[j].type = "synced" \/ j < i => inbox'[j].scan < inbox'[i].scan
    <3>1. i \in 1..Len(inbox) /\ inbox'[i] = inbox[i]
      BY <2>3, <1>5, <1>6
    <3>2. inbox[i].scan <= scans' /\ \A j \in 1..Len(wanted) : wanted[j].scan < inbox[i].scan
      BY <2>3, <3>1, <1>3 DEF QueueInv, QueuesOrdered
    <3>3. m.scan < inbox[i].scan
      BY <3>2, <1>2, <1>5
    <3>4. \A j \in 1..Len(inbox) : inbox[j].type = "synced" \/ j < i => inbox[j].scan < inbox[i].scan
      BY <2>3, <3>1 DEF QueueInv, QueuesOrdered
    <3> QED BY <3>1, <3>2, <3>3, <3>4, <1>6, <1>10
  <2>4. \A i \in 1..Len(inbox') : inbox'[i].scan <= scans'
    <3>1. m.scan <= scans
      BY <1>2, <1>5 DEF QueueInv, QueuesOrdered
    <3> QED BY <3>1, <1>3, <1>6 DEF QueueInv, QueuesOrdered
  <2>5. \A i \in 1..Len(wanted') : wanted'[i].scan <= scans'
    BY <1>3, <1>10 DEF QueueInv, QueuesOrdered
  <2> QED BY <2>1, <2>2, <2>3, <2>4, <2>5 DEF QueuesOrdered
<1>13. ASSUME NEW u, NEW n, News(u, n)' PROVE News(u, n)
  BY <1>13, <1>5, <1>6 DEF News
<1>14. ASSUME NEW u, NEW n, NEW b, Asked(u, n, b)' PROVE Asked(u, n, b)
  BY <1>14, <1>2, <1>5, <1>6, <1>10 DEF Asked, Holds
<1> QED BY <1>11, <1>12, <1>13, <1>14 DEF QueueInv

\* The message that is handled is the oldest.
LEMMA HeadArrived ==
  ASSUME QueueInv, NEW type, NEW m \in Arrived(type)
  PROVE  inbox # <<>> /\ 1 \in 1..Len(inbox) /\ m = inbox[1] /\ m \in Note /\ m.type = type
<1>1. 1 \in DOMAIN inbox /\ m = inbox[1] /\ m.type = type
  BY DEF Arrived
<1>2. inbox \in Seq(Note) /\ DOMAIN inbox = 1..Len(inbox)
  BY DEF QueueInv, QueuesTyped
<1> QED BY <1>1, <1>2

\* The other syncs are not older than the one that is handled.
LEMMA SyncTaken ==
  ASSUME QueueInv, NEW m \in Arrived("synced"), inbox' = Tail(inbox), wanted' = wanted, scans' = scans
  PROVE  /\ QueueInv' /\ m \in Note /\ m.type = "synced" /\ Asked(m.spool, m.scan, m.lookup)
         /\ \A u, n : News(u, n)' => News(u, n)
         /\ \A u, n, b : Asked(u, n, b)' => Asked(u, n, b)
         /\ \A u, n, b : Asked(u, n, b)' => n >= m.scan /\ (m.lookup => n > m.scan)
<1>1. inbox # <<>> /\ 1 \in 1..Len(inbox) /\ m = inbox[1] /\ m \in Note /\ m.type = "synced"
  BY HeadArrived
<1>2. inbox \in Seq(Note) /\ wanted \in Seq(Ask)
  BY DEF QueueInv, QueuesTyped
<1>3. /\ inbox' \in Seq(Note) /\ Len(inbox') = Len(inbox) - 1 /\ Len(inbox) \in Nat
      /\ \A i \in 1..Len(inbox') : i + 1 \in 1..Len(inbox) /\ inbox'[i] = inbox[i + 1]
  BY <1>1, <1>2, Tailed
<1>4. \A i \in 1..Len(inbox') : 1 < i + 1
  BY <1>3
<1>5. QueuesTyped'
  BY <1>2, <1>3, BoundAssumption DEF QueueInv, QueuesTyped
<1>6. QueuesOrdered'
  <2>1. \A i, j \in 1..Len(wanted') : i < j => Before(wanted'[i], wanted'[j])
    BY DEF QueueInv, QueuesOrdered
  <2>2. ASSUME NEW i \in 1..Len(inbox'), inbox'[i].type = "synced"
        PROVE  /\ \A j \in 1..Len(wanted') : Before(inbox'[i], wanted'[j])
               /\ \A j \in 1..Len(inbox') : i < j /\ inbox'[j].type = "synced" =>
                         Before(inbox'[i], inbox'[j])
    <3>1. \A j \in 1..Len(inbox') : i < j => i + 1 < j + 1
      OBVIOUS
    <3> QED BY <2>2, <3>1, <1>3 DEF QueueInv, QueuesOrdered
  <2>3. ASSUME NEW i \in 1..Len(inbox'), inbox'[i].type = "detected"
        PROVE  /\ inbox'[i].scan <= scans'
               /\ \A j \in 1..Len(wanted') : wanted'[j].scan < inbox'[i].scan
               /\ \A j \in 1..Len(inbox') :
                     inbox'[j].type = "synced" \/ j < i => inbox'[j].scan < inbox'[i].scan
    <3>1. \A j \in 1..Len(inbox') : j < i => j + 1 < i + 1
      OBVIOUS
    <3> QED BY <2>3, <3>1, <1>3 DEF QueueInv, QueuesOrdered
  <2>4. \A i \in 1..Len(inbox') : inbox'[i].scan <= scans'
    BY <1>3 DEF QueueInv, QueuesOrdered
  <2>5. \A i \in 1..Len(wanted') : wanted'[i].scan <= scans'
    BY DEF QueueInv, QueuesOrdered
  <2> QED BY <2>1, <2>2, <2>3, <2>4, <2>5 DEF QueuesOrdered
<1>7. ASSUME NEW u, NEW n, News(u, n)' PROVE News(u, n)
  BY <1>7, <1>3 DEF News
<1>8. ASSUME NEW u, NEW n, NEW b, Asked(u, n, b)'
      PROVE  Asked(u, n, b) /\ n >= m.scan /\ (m.lookup => n > m.scan)
  <2>1. Asked(u, n, b)
    BY <1>8, <1>3 DEF Asked, Holds
  <2>2. /\ \A j \in 1..Len(wanted) : Before(m, wanted[j])
        /\ \A j \in 1..Len(inbox) : 1 < j /\ inbox[j].type = "synced" => Before(m, inbox[j])
    BY <1>1 DEF QueueInv, QueuesOrdered
  <2>3. m.scan \in Nat /\ (\A j \in 1..Len(inbox) : inbox[j].scan \in Nat)
        /\ (\A j \in 1..Len(wanted) : wanted[j].scan \in Nat)
    BY <1>1, <1>2, NoteKinds, AskKinds
  <2>4. \E x : Before(m, x) /\ x.scan = n /\ x.scan \in Nat
    BY <1>8, <1>3, <1>4, <2>2, <2>3 DEF Asked, Holds
  <2> QED BY <2>1, <2>3, <2>4 DEF Before
<1>9. Asked(m.spool, m.scan, m.lookup)
  BY <1>1 DEF Asked, Holds
<1> QED BY <1>1, <1>5, <1>6, <1>7, <1>8, <1>9 DEF QueueInv

\* What a detection leaves in the queues: later detections, older requests and its own.
LEMMA DetectionTaken ==
  ASSUME QueueInv, NEW m \in Arrived("detected"), NEW rs \in Seq(Ask),
         \A i \in 1..Len(rs) : rs[i].spool = m.spool /\ rs[i].scan = m.scan,
         \A i, j \in 1..Len(rs) : i < j => Before(rs[i], rs[j]),
         inbox' = Tail(inbox), wanted' = Offer(wanted, rs, SyncDepth), scans' = scans
  PROVE  /\ QueueInv' /\ m \in Note /\ m.type = "detected" /\ News(m.spool, m.scan)
         /\ \A u, n : News(u, n)' => News(u, n) /\ n > m.scan
         /\ \A u, n, b : Asked(u, n, b)' => Asked(u, n, b) \/ (u = m.spool /\ n = m.scan)
<1>1. inbox # <<>> /\ 1 \in 1..Len(inbox) /\ m = inbox[1] /\ m \in Note /\ m.type = "detected"
  BY HeadArrived
<1>2. inbox \in Seq(Note) /\ wanted \in Seq(Ask) /\ SyncDepth \in Nat /\ Len(wanted) \in Nat
      /\ Len(rs) \in Nat
  BY BoundAssumption DEF QueueInv, QueuesTyped
<1>3. /\ inbox' \in Seq(Note) /\ Len(inbox') = Len(inbox) - 1 /\ Len(inbox) \in Nat
      /\ \A i \in 1..Len(inbox') : i + 1 \in 1..Len(inbox) /\ inbox'[i] = inbox[i + 1]
  BY <1>1, <1>2, Tailed
<1>4. \A i \in 1..Len(inbox') : 1 < i + 1
  BY <1>3
<1>5. /\ wanted' \in Seq(Ask) /\ Len(wanted') <= SyncDepth
      /\ Len(wanted') <= Len(wanted) + Len(rs)
      /\ \A i \in 1..Len(wanted') : wanted'[i] = IF i <= Len(wanted) THEN wanted[i]
                ELSE rs[i - Len(wanted)]
  BY <1>2, Offered
<1>6. \A i \in 1..Len(wanted') : \/ i \in 1..Len(wanted) /\ wanted'[i] = wanted[i]
                                 \/ i > Len(wanted) /\ i - Len(wanted) \in 1..Len(rs) /\
                                           wanted'[i] = rs[i - Len(wanted)]
  BY <1>2, <1>5
<1>7. QueuesTyped'
  BY <1>2, <1>3, <1>5, BoundAssumption DEF QueueInv, QueuesTyped
<1>8. m.scan \in Nat /\ m.scan <= scans /\ scans \in Nat
  BY <1>1, NoteKinds DEF QueueInv, QueuesOrdered, QueuesTyped
<1>9. \A i \in 1..Len(inbox) : inbox[i].scan \in Nat /\ inbox[i].type \in {"detected", "synced"}
  BY <1>2, NoteKinds
<1>10. \A i \in 1..Len(wanted) : wanted[i].scan \in Nat
  BY <1>2, AskKinds
<1>11. \A j \in 1..Len(wanted) : wanted[j].scan < m.scan
  BY <1>1 DEF QueueInv, QueuesOrdered
<1>12. \A j \in 1..Len(inbox) : inbox[j].type = "synced" => inbox[j].scan < m.scan
  BY <1>1 DEF QueueInv, QueuesOrdered
<1>13. \A j \in 1..Len(inbox') : inbox'[j].type = "detected" => inbox'[j].scan > m.scan
  BY <1>1, <1>3, <1>4 DEF QueueInv, QueuesOrdered
<1>14. QueuesOrdered'
  <2>1. ASSUME NEW i \in 1..Len(wanted'), NEW j \in 1..Len(wanted'), i < j
        PROVE  Before(wanted'[i], wanted'[j])
    <3>1. CASE j \in 1..Len(wanted) /\ wanted'[j] = wanted[j]
      <4>1. i \in 1..Len(wanted) /\ wanted'[i] = wanted[i]
        BY <2>1, <3>1, <1>2, <1>6
      <4> QED BY <2>1, <3>1, <4>1 DEF QueueInv, QueuesOrdered
    <3>2. CASE /\ j > Len(wanted) /\ j - Len(wanted) \in 1..Len(rs) /\ wanted'[j] = rs[j - Len(wanted)]
               /\ i \in 1..Len(wanted) /\ wanted'[i] = wanted[i]
      BY <3>2, <1>8, <1>10, <1>11 DEF Before
    <3>3. CASE /\ j > Len(wanted) /\ j - Len(wanted) \in 1..Len(rs) /\ wanted'[j] = rs[j - Len(wanted)]
               /\ i > Len(wanted) /\ i - Len(wanted) \in 1..Len(rs) /\ wanted'[i] = rs[i - Len(wanted)]
      <4>1. i - Len(wanted) < j - Len(wanted)
        BY <2>1, <1>2
      <4> QED BY <3>3, <4>1
    <3> QED BY <3>1, <3>2, <3>3, <1>6
  <2>2. ASSUME NEW i \in 1..Len(inbox'), inbox'[i].type = "synced"
        PROVE  /\ \A j \in 1..Len(wanted') : Before(inbox'[i], wanted'[j])
               /\ \A j \in 1..Len(inbox') : i < j /\ inbox'[j].type = "synced" =>
                         Before(inbox'[i], inbox'[j])
    <3>1. \A j \in 1..Len(inbox') : i < j => i + 1 < j + 1
      OBVIOUS
    <3>2. \A j \in 1..Len(inbox') : i < j /\ inbox'[j].type = "synced" => Before(inbox'[i], inbox'[j])
      BY <2>2, <3>1, <1>3 DEF QueueInv, QueuesOrdered
    <3>3. inbox'[i].scan \in Nat /\ inbox'[i].scan < m.scan /\
              \A j \in 1..Len(wanted) : Before(inbox'[i], wanted[j])
      BY <2>2, <1>3, <1>9, <1>12 DEF QueueInv, QueuesOrdered
    <3>4. \A j \in 1..Len(rs) : Before(inbox'[i], rs[j])
      BY <3>3, <1>8 DEF Before
    <3> QED BY <3>2, <3>3, <3>4, <1>6
  <2>3. ASSUME NEW i \in 1..Len(inbox'), inbox'[i].type = "detected"
        PROVE  /\ inbox'[i].scan <= scans'
               /\ \A j \in 1..Len(wanted') : wanted'[j].scan < inbox'[i].scan
               /\ \A j \in 1..Len(inbox') :
                     inbox'[j].type = "synced" \/ j < i => inbox'[j].scan < inbox'[i].scan
    <3>1. \A j \in 1..Len(inbox') : j < i => j + 1 < i + 1
      OBVIOUS
    <3>2. \A j \in 1..Len(inbox') :
                     inbox'[j].type = "synced" \/ j < i => inbox'[j].scan < inbox'[i].scan
      BY <2>3, <3>1, <1>3 DEF QueueInv, QueuesOrdered
    <3>3. inbox'[i].scan <= scans' /\ \A j \in 1..Len(wanted) : wanted[j].scan < inbox'[i].scan
      BY <2>3, <1>3 DEF QueueInv, QueuesOrdered
    <3>4. inbox'[i].scan > m.scan
      BY <2>3, <1>13
    <3> QED BY <3>2, <3>3, <3>4, <1>6
  <2>4. \A i \in 1..Len(inbox') : inbox'[i].scan <= scans'
    BY <1>3 DEF QueueInv, QueuesOrdered
  <2>5. \A i \in 1..Len(wanted') : wanted'[i].scan <= scans'
    BY <1>6, <1>8 DEF QueueInv, QueuesOrdered
  <2> QED BY <2>1, <2>2, <2>3, <2>4, <2>5 DEF QueuesOrdered
<1>15. ASSUME NEW u, NEW n, News(u, n)' PROVE News(u, n) /\ n > m.scan
  BY <1>15, <1>3, <1>13 DEF News
<1>16. ASSUME NEW u, NEW n, NEW b, Asked(u, n, b)' PROVE Asked(u, n, b) \/ (u = m.spool /\ n = m.scan)
  <2>1. CASE \E i \in 1..Len(wanted') : Holds(wanted'[i], u, n, b)
    BY <2>1, <1>6 DEF Asked, Holds
  <2>2. CASE \E i \in 1..Len(inbox') : inbox'[i].type = "synced" /\ Holds(inbox'[i], u, n, b)
    BY <2>2, <1>3 DEF Asked, Holds
  <2> QED BY <1>16, <2>1, <2>2 DEF Asked
<1>17. News(m.spool, m.scan)
  BY <1>1 DEF News
<1> QED BY <1>1, <1>7, <1>14, <1>15, <1>16, <1>17 DEF QueueInv

-----------------------------------------------------------------------------
(* The invariant but for the sensors' baseline, kept by each kind of step *)

\* Whatever is queued has the number of a scan.
LEMMA QueueNats ==
  ASSUME QueueInv
  PROVE  /\ scans \in Nat
         /\ \A s, n : News(s, n) => s \in Spools /\ n \in Nat /\ n > 0 /\ n <= scans
         /\ \A s, n, b : Asked(s, n, b) => s \in Spools /\ n \in Nat /\ n > 0 /\ n <= scans /\
                   b \in BOOLEAN
<1>1. (\A i \in 1..Len(inbox) : inbox[i] \in Note) /\ (\A i \in 1..Len(wanted) : wanted[i] \in Ask)
  BY DEF QueueInv, QueuesTyped
<1>2. /\ scans \in Nat /\ (\A i \in 1..Len(inbox) : inbox[i].scan <= scans)
      /\ (\A i \in 1..Len(wanted) : wanted[i].scan <= scans)
  BY DEF QueueInv, QueuesTyped, QueuesOrdered
<1>3. \A s, n : News(s, n) => s \in Spools /\ n \in Nat /\ n > 0 /\ n <= scans
  BY <1>1, <1>2, NoteKinds DEF News
<1>4. ASSUME NEW s, NEW n, NEW b, Asked(s, n, b)
      PROVE  s \in Spools /\ n \in Nat /\ n > 0 /\ n <= scans /\ b \in BOOLEAN
  <2>1. CASE \E i \in 1..Len(wanted) : Holds(wanted[i], s, n, b)
    BY <1>1, <1>2, <2>1, AskKinds DEF Holds
  <2>2. CASE \E i \in 1..Len(inbox) : inbox[i].type = "synced" /\ Holds(inbox[i], s, n, b)
    BY <1>1, <1>2, <2>2, NoteKinds DEF Holds
  <2> QED BY <1>4, <2>1, <2>2 DEF Asked
<1> QED BY <1>2, <1>3, <1>4

\* Steps that change only the queues, the reader and the sensors' record.
LEMMA QueuesKeepCore ==
  ASSUME QueueInv, CoreInv, StateTyped', UNCHANGED coreVars, UNCHANGED <<shown, scans>>,
         reader'.uid = reader.uid \/ reader'.uid = NoSpool,
         \A s, n : News(s, n)' => News(s, n),
         \A s, n, b : Asked(s, n, b)' => Asked(s, n, b) \/ News(s, n)
  PROVE  CoreInv'
<1>1. Coherent'
  BY DEF CoreInv, Coherent, coreVars
<1>2. \A n \in Nat \ {0}, s \in Spools : Uses(n, s)' => Uses(n, s)
  BY DEF Uses, coreVars
<1>3. ScansInv'
  BY <1>2 DEF CoreInv, ScansInv
<1>4. NewsLast'
  BY DEF CoreInv, NewsLast, coreVars
<1>5. UnsaidInv'
  <2>1. StagedUnsaid' /\ AugmentKnowsLane' /\ AugmentOfStaged'
    BY DEF CoreInv, UnsaidInv, StagedUnsaid, AugmentKnowsLane, AugmentOfStaged, Said, coreVars
  <2>2. ASSUME NEW s \in Generic, NEW n \in Nat, Asked(s, n, TRUE)'
        PROVE  staged.scan # n /\ \A l \in Lanes : ~Said(n, l)
    <3>1. CASE Asked(s, n, TRUE)
      BY <3>1 DEF CoreInv, UnsaidInv, LookupUnsaid
    <3>2. CASE News(s, n)
      <4>1. staged.scan < n /\ (\A l \in Lanes : told[l].scan < n)
        BY <3>2 DEF CoreInv, NewsLast
      <4>2. staged.scan \in Nat /\ (\A l \in Lanes : told[l].scan \in Nat)
        BY DEF CoreInv, StateTyped, Held
      <4> QED BY <4>1, <4>2 DEF Said
    <3> QED BY <2>2, <3>1, <3>2
  <2> QED BY <2>1, <2>2 DEF UnsaidInv, LookupUnsaid, Said, coreVars
<1>6. NewerInv'
  <2>1. SyncsLater => SyncsLater'
    BY LaneAssumption DEF SyncsLater, CoreInv, NewsLast, coreVars
  <2> QED BY <2>1 DEF CoreInv, NewerInv, StagedNewer, StagedNewerThanAugment, PickedYields,
             AugmentYields, Yields, coreVars
<1> QED BY <1>1, <1>3, <1>4, <1>5, <1>6 DEF CoreInv

\* A tag that is announced: the scan is new and nothing is known of it.
LEMMA AnnounceKeepsCore ==
  ASSUME QueueInv, CoreInv, StateTyped', UNCHANGED coreVars, NEW s \in Spools,
         scans' = scans + 1, shown' = [shown EXCEPT ![s] = scans + 1], reader'.uid = s,
         \A u, n : News(u, n)' => News(u, n) \/ (u = s /\ n = scans'),
         \A u, n, b : Asked(u, n, b)' => Asked(u, n, b)
  PROVE  CoreInv'
<1>1. scans \in Nat /\ shown \in [Spools -> Nat]
  BY DEF QueueInv, QueuesTyped, CoreInv, StateTyped
<1>2. \A n \in Nat \ {0}, u \in Spools : Uses(n, u)' => Uses(n, u) \/ (u = s /\ n = scans + 1)
  BY <1>1 DEF Uses, coreVars
<1>3. \A u \in Spools : shown[u] <= shown'[u] /\ shown'[u] \in Nat /\ shown[u] \in Nat /\
          shown[u] <= scans
  <2>1. \A u \in Spools : shown[u] <= scans
    BY <1>1 DEF CoreInv, ScansInv, Uses
  <2> QED BY <2>1, <1>1
<1>4. Coherent'
  <2>1. reader'.uid # NoSpool => shown'[reader'.uid] = scans' /\ scans' > 0
    BY <1>1
  <2> QED BY <2>1 DEF CoreInv, Coherent, coreVars
<1>5. ScansInv'
  <2> SUFFICES ASSUME NEW n \in Nat \ {0}, NEW u \in Spools, Uses(n, u)'
               PROVE  /\ n <= shown'[u] /\ n <= scans'
                      /\ \A v \in Spools : Uses(n, v)' => u = v
    BY DEF ScansInv
  <2>1. CASE Uses(n, u)
    <3>1. n <= shown[u] /\ n <= scans /\ \A v \in Spools : Uses(n, v) => u = v
      BY <2>1 DEF CoreInv, ScansInv
    <3> QED BY <3>1, <1>1, <1>2, <1>3
  <2>2. CASE u = s /\ n = scans + 1
    <3>1. \A v \in Spools : ~Uses(n, v)
      BY <2>2, <1>1 DEF CoreInv, ScansInv
    <3> QED BY <2>2, <3>1, <1>1, <1>2
  <2> QED BY <2>1, <2>2, <1>2
<1>6. NewsLast'
  <2>1. /\ staged.scan \in Nat /\ pending.scan \in Nat
        /\ \A l \in Lanes : told[l].scan \in Nat /\ told[l].of \in Spools \cup {NoSpool}
    BY DEF CoreInv, StateTyped, Held
  <2>2. staged.scan <= scans /\ pending.scan <= scans /\ \A l \in Lanes : told[l].scan <= scans
    <3>1. staged.active => staged.scan <= scans
      BY <2>1, <1>1, SpoolAssumption DEF CoreInv, Coherent, ScansInv, Uses
    <3>2. pending.active => pending.scan <= scans
      BY <2>1, <1>1, SpoolAssumption DEF CoreInv, Coherent, ScansInv, Uses, Spools
    <3>3. \A l \in Lanes : told[l].scan <= scans
      BY <2>1, <1>1, SpoolAssumption DEF CoreInv, Coherent, ScansInv, Uses
    <3> QED BY <3>1, <3>2, <3>3, <2>1, <1>1 DEF CoreInv, Coherent
  <2> QED BY <2>1, <2>2, <1>1 DEF CoreInv, NewsLast, coreVars
<1>7. UnsaidInv'
  BY DEF CoreInv, UnsaidInv, StagedUnsaid, LookupUnsaid, AugmentKnowsLane, AugmentOfStaged, Said,
     coreVars
<1>8. NewerInv'
  <2>1. \A l \in Lanes, u \in Spools : Yields(l, u) => Yields(l, u)'
    BY <1>3, <1>1 DEF Yields, coreVars, CoreInv, StateTyped
  <2>2. StagedNewer' /\ StagedNewerThanAugment'
    BY <2>1, <1>3 DEF CoreInv, NewerInv, StagedNewer, StagedNewerThanAugment, Coherent, coreVars,
       StateTyped, Held
  <2>3. PickedYields'
    BY <2>1 DEF CoreInv, NewerInv, PickedYields, coreVars, Coherent, StateTyped
  <2>4. AugmentYields'
    <3>1. FixedLane \in Lanes /\ (pending.active => pending.info.of \in Spools)
      BY LaneAssumption, SpoolAssumption DEF CoreInv, Coherent, Spools
    <3>2. SyncsLater => SyncsLater'
      BY DEF SyncsLater, coreVars
    <3> QED BY <2>1, <3>1, <3>2 DEF CoreInv, NewerInv, AugmentYields, coreVars
  <2> QED BY <2>2, <2>3, <2>4 DEF NewerInv
<1> QED BY <1>4, <1>5, <1>6, <1>7, <1>8 DEF CoreInv

\* No News or Asked changes when the queues do not.
LEMMA QueuesStay ==
  ASSUME UNCHANGED <<inbox, wanted>>
  PROVE  /\ \A s, n : News(s, n)' <=> News(s, n)
         /\ \A s, n, b : Asked(s, n, b)' <=> Asked(s, n, b)
  BY DEF News, Asked

\* What a POST can do: one lane is told, or none, and a lost reply is a doubt.
LEMMA PostTells ==
  ASSUME StateTyped, NEW o \in Outcomes, NEW lane \in Lanes, NEW s \in Spools, NEW scan \in Nat,
         Post(o, lane, s, scan)
  PROVE  /\ told' \in [Lanes -> [of : Spools \cup {NoSpool}, scan : Nat]] /\ faults' \in 0..MaxFaults
         /\ \A l \in Lanes : \/ told'[l] = told[l]
                             \/ l = lane /\ told'[l].of = s /\ told'[l].scan = scan /\ o \in {"ok",
                                       "lost"}
         /\ \A n : n \in doubt' => n \in doubt \/ n = scan
         /\ \A n : n \in doubt => n \in doubt'
         /\ o = "lost" => scan \in doubt'
<1>1. faults' \in 0..MaxFaults
  BY BoundAssumption DEF StateTyped, Post, Fail
<1>2. /\ told' \in [Lanes -> [of : Spools \cup {NoSpool}, scan : Nat]]
      /\ \A l \in Lanes : \/ told'[l] = told[l]
                          \/ l = lane /\ told'[l].of = s /\ told'[l].scan = scan /\ o \in {"ok", "lost"}
  BY DEF StateTyped, Post
<1>3. doubt' = IF o = "lost" THEN doubt \cup {scan} ELSE doubt
  BY DEF Post
<1> QED BY <1>1, <1>2, <1>3

\* An assignment ends the staging and opens the window of a late augment, or leaves both.
LEMMA AssignTyped ==
  ASSUME CoreInv, NEW o \in Outcomes, NEW lane \in Lanes, AssignStagedToChannel(o, lane)
  PROVE  /\ staged.active /\ staged.info.of \in Spools /\ staged.scan \in Nat /\ staged.scan > 0
         /\ staged' \in Held /\ last' \in [lane : Lanes \cup {-1}, uid : Spools \cup {NoSpool}]
         /\ left' \in [Timers -> 0..Ttl]
         /\ \/ /\ TakenForDone(o) /\ staged' = NoStage /\ last'.lane = lane /\ last'.uid = staged.info.of
               /\ left'.backoff = 0 /\ left'.last = Ttl
               /\ left'.pending = left.pending /\ left'.staged = left.staged
            \/ /\ ~TakenForDone(o) /\ staged' = staged /\ last' = last
               /\ left'.backoff = (IF Unreachable(o) THEN Ttl ELSE left.backoff)
               /\ left'.last = left.last
               /\ left'.pending = left.pending /\ left'.staged = left.staged
<1>1. staged.active /\ staged.info.of \in Spools /\ staged.scan \in Nat /\ staged.scan > 0
  BY DEF AssignStagedToChannel, HasStagedSpool, CoreInv, Coherent, StateTyped, Held
<1>2. Ttl \in Nat \ {0} /\ left \in [Timers -> 0..Ttl] /\ staged \in Held
      /\ last \in [lane : Lanes \cup {-1}, uid : Spools \cup {NoSpool}]
  BY BoundAssumption DEF CoreInv, StateTyped
<1>3. CASE TakenForDone(o)
  <2>1. staged' = NoStage /\ last' = [lane |-> lane, uid |-> staged.info.of]
        /\ left' = [left EXCEPT !.backoff = 0, !.last = Ttl]
    BY <1>3 DEF AssignStagedToChannel, ClearStaged
  <2>2. NoStage \in Held
    BY DEF NoStage, Held, NoInfo, Infos, Names
  <2>3. /\ left' \in [Timers -> 0..Ttl] /\ left'.backoff = 0 /\ left'.last = Ttl
        /\ left'.pending = left.pending /\ left'.staged = left.staged
    <3>1. "backoff" \in Timers /\ "last" \in Timers /\ "pending" \in Timers /\ "staged" \in Timers
      BY DEF Timers
    <3>2. left' \in [Timers -> 0..Ttl]
      <4>1. 0 \in 0..Ttl /\ Ttl \in 0..Ttl
        BY <1>2
      <4> QED BY <1>2, <2>1, <3>1, <4>1
    <3> QED BY <1>2, <2>1, <3>1, <3>2
  <2>4. /\ last'.lane = lane /\ last'.uid = staged.info.of
        /\ last' \in [lane : Lanes \cup {-1}, uid : Spools \cup {NoSpool}]
    BY <1>1, <2>1
  <2> QED BY <1>1, <1>3, <2>1, <2>2, <2>3, <2>4
<1>4. CASE ~TakenForDone(o)
  <2>1. staged' = staged /\ last' = last /\ left' = [left EXCEPT !.backoff = BackoffAfter(o)]
    BY <1>4 DEF AssignStagedToChannel
  <2>2. BackoffAfter(o) = IF Unreachable(o) THEN Ttl ELSE left.backoff
    BY <1>4 DEF BackoffAfter
  <2> QED BY <1>1, <1>2, <1>4, <2>1, <2>2 DEF Timers
<1> QED BY <1>3, <1>4

\* The staged spool is told to any lane: none was told of its scan, and it is newer.
LEMMA AssignKeepsCore ==
  ASSUME QueueInv, CoreInv, StateTyped', mode = "stage", NEW o \in Outcomes, NEW lane \in Lanes,
         AssignStagedToChannel(o, lane), UNCHANGED <<mode, readerVars, inbox, wanted, pending>>
  PROVE  CoreInv'
<1>0. PICK u \in Spools, k \in Nat : u = staged.info.of /\ k = staged.scan
  BY AssignTyped
<1>1. Post(o, lane, u, k)
  BY <1>0 DEF AssignStagedToChannel
<1>2. /\ staged.active /\ u \in Spools /\ k \in Nat /\ k > 0
      /\ \/ /\ TakenForDone(o) /\ staged' = NoStage /\ last'.lane = lane /\ last'.uid = u
            /\ left'.backoff = 0 /\ left'.last = Ttl
            /\ left'.pending = left.pending /\ left'.staged = left.staged
         \/ /\ ~TakenForDone(o) /\ staged' = staged /\ last' = last
            /\ left'.backoff = (IF Unreachable(o) THEN Ttl ELSE left.backoff)
            /\ left'.last = left.last
            /\ left'.pending = left.pending /\ left'.staged = left.staged
  BY <1>0, AssignTyped
<1>3. /\ \A l \in Lanes : \/ told'[l] = told[l]
                          \/ l = lane /\ told'[l].of = u /\ told'[l].scan = k /\ o \in {"ok", "lost"}
      /\ \A n : n \in doubt' => n \in doubt \/ n = k
      /\ \A n : n \in doubt => n \in doubt'
      /\ o = "lost" => k \in doubt'
  BY <1>0, <1>1, <1>2, PostTells DEF CoreInv
<1>4. UNCHANGED <<mode, pending, shown, scans, reader>>
  BY DEF readerVars
<1>5. /\ \A s, n : News(s, n)' <=> News(s, n)
      /\ \A s, n, b : Asked(s, n, b)' <=> Asked(s, n, b)
  BY QueuesStay
<1>6. Ttl \in Nat \ {0} /\ NoStage.active = FALSE /\ NoStage.scan = 0 /\ NoSpool \notin Spools
      /\ Gappy \subseteq Spools
  BY BoundAssumption, SpoolAssumption DEF NoStage, Spools
<1>7. staged' = NoStage \/ staged' = staged
  BY <1>0, <1>2
<1>8. Coherent'
  BY <1>0, <1>2, <1>3, <1>4, <1>6 DEF CoreInv, Coherent
<1>9. \A n \in Nat \ {0}, s \in Spools : Uses(n, s)' => Uses(n, s)
  <2> SUFFICES ASSUME NEW n \in Nat \ {0}, NEW s \in Spools, Uses(n, s)'
               PROVE  Uses(n, s)
    OBVIOUS
  <2>1. u = s /\ k = n => Uses(n, s)
    BY <1>0, <1>2 DEF Uses
  <2>2. (\E l \in Lanes : told'[l].scan = n /\ told'[l].of = s) => Uses(n, s)
    BY <1>0, <1>3, <2>1 DEF Uses
  <2>3. staged'.active /\ staged'.scan = n /\ staged'.info.of = s => Uses(n, s)
    BY <1>0, <1>6, <1>7 DEF Uses
  <2> QED BY <1>0, <2>2, <2>3, <1>4, <1>5 DEF Uses
<1>10. ScansInv'
  BY <1>0, <1>9, <1>4 DEF CoreInv, ScansInv
<1>11. NewsLast'
  <2> SUFFICES ASSUME NEW s, NEW n, News(s, n)
               PROVE  /\ staged'.scan < n /\ pending.scan < n
                      /\ \A l \in Lanes : told'[l].scan < n
    BY <1>0, <1>4, <1>5 DEF NewsLast
  <2>1. staged.scan < n /\ pending.scan < n /\ (\A l \in Lanes : told[l].scan < n) /\ n > 0
    BY QueueNats DEF CoreInv, NewsLast
  <2> QED BY <1>0, <2>1, <1>3, <1>6, <1>7
<1>12. UnsaidInv'
  <2>1. \A n : \A l \in Lanes : Said(n, l)' => Said(n, l) \/ (n = k /\ l = lane)
    BY <1>0, <1>3 DEF Said
  <2>2. k \notin doubt => \A l \in Lanes : ~Said(k, l)
    BY <1>0, <1>2 DEF CoreInv, UnsaidInv, StagedUnsaid
  <2>3. \A l \in Lanes : Said(k, l)' => l = lane /\ told'[lane].scan = k /\ told'[lane] # told[lane]
    BY <1>0, <1>2, <1>3 DEF CoreInv, UnsaidInv, StagedUnsaid, Said
  <2>4. StagedUnsaid'
    <3>1. CASE TakenForDone(o)
      BY <1>0, <3>1, <1>2, <1>6 DEF StagedUnsaid
    <3>2. CASE ~TakenForDone(o)
      <4>1. \A l \in Lanes : told'[l] = told[l] \/ k \in doubt'
        BY <1>0, <3>2, <1>3 DEF TakenForDone
      <4> QED BY <1>0, <3>2, <4>1, <1>2, <1>3 DEF StagedUnsaid, Said, CoreInv, UnsaidInv
    <3> QED BY <1>0, <3>1, <3>2
  <2>5. LookupUnsaid'
    <3>1. \A s \in Generic, n \in Nat : Asked(s, n, TRUE) =>
            n > 0 /\ k # n /\ \A l \in Lanes : ~Said(n, l)
      BY <1>0, QueueNats DEF CoreInv, UnsaidInv, LookupUnsaid
    <3>2. ASSUME NEW s \in Generic, NEW n \in Nat, Asked(s, n, TRUE)'
          PROVE  staged'.scan # n /\ \A l \in Lanes : ~Said(n, l)'
      <4>1. n > 0 /\ k # n /\ \A l \in Lanes : ~Said(n, l)
        BY <3>1, <3>2, <1>5
      <4>2. staged'.scan # n
        BY <4>1, <1>0, <1>6, <1>7
      <4> QED BY <4>1, <4>2, <2>1
    <3> QED BY <3>2 DEF LookupUnsaid
  <2>6. AugmentOfStaged'
    BY <1>0, <1>3, <1>4, <1>6, <1>7 DEF CoreInv, UnsaidInv, AugmentOfStaged
  <2>7. AugmentKnowsLane'
    <3> SUFFICES ASSUME mode = "stage", pending.active, last'.uid = pending.info.of,
                        NEW l \in Lanes, l # last'.lane, Said(pending.scan, l)'
                 PROVE  FALSE
      BY <1>0, <1>4 DEF AugmentKnowsLane
    <3>1. CASE TakenForDone(o)
      <4>1. u = pending.info.of /\ l # lane
        BY <1>0, <3>1, <1>2
      <4>2. k = pending.scan \/ pending.scan \in doubt
        BY <1>0, <4>1, <1>2 DEF CoreInv, UnsaidInv, AugmentOfStaged
      <4>3. Said(pending.scan, l) /\ pending.scan \notin doubt
        BY <1>0, <4>1, <2>1 DEF Said
      <4> QED BY <1>0, <4>2, <4>3, <2>2
    <3>2. CASE ~TakenForDone(o)
      <4>1. last' = last
        BY <1>0, <3>2, <1>2
      <4>2. ~Said(pending.scan, l)
        BY <1>0, <4>1 DEF CoreInv, UnsaidInv, AugmentKnowsLane
      <4>3. pending.scan = k /\ l = lane
        BY <1>0, <4>2, <2>1
      <4>4. told'[l] # told[l] /\ pending.scan \notin doubt'
        BY <1>0, <4>3, <2>3 DEF Said
      <4>5. o = "lost"
        BY <1>0, <4>4, <1>3, <3>2 DEF TakenForDone
      <4> QED BY <1>0, <4>3, <4>4, <4>5, <1>3
    <3> QED BY <1>0, <3>1, <3>2
  <2> QED BY <1>0, <2>4, <2>5, <2>6, <2>7 DEF UnsaidInv
<1>13. NewerInv'
  <2>1. \A l \in Lanes : Yields(l, u)
    BY <1>0, <1>2 DEF CoreInv, NewerInv, StagedNewer
  <2>2. \A l \in Lanes : Yields(l, u)'
    BY <1>0, <2>1, <1>3, <1>4 DEF Yields
  <2>3. StagedNewer' /\ StagedNewerThanAugment'
    BY <1>0, <2>2, <1>2, <1>4, <1>6, <1>7 DEF StagedNewer, StagedNewerThanAugment, CoreInv, NewerInv
  <2>4. PickedYields'
    <3>1. CASE TakenForDone(o)
      BY <1>0, <3>1, <2>2, <1>2 DEF PickedYields
    <3>2. CASE ~TakenForDone(o) /\ Unreachable(o)
      <4>1. left'.backoff = Ttl /\ left'.last = left.last /\ left.last \in 0..Ttl
        BY <1>0, <3>2, <1>2 DEF CoreInv, StateTyped, Timers
      <4> QED BY <1>0, <4>1, <1>6 DEF PickedYields
    <3>3. CASE ~TakenForDone(o) /\ ~Unreachable(o)
      <4>1. o \notin {"ok", "lost"} /\ last' = last /\ left'.backoff = left.backoff /\
                left'.last = left.last
        BY <1>0, <3>3, <1>2 DEF TakenForDone, Unreachable
      <4>2. \A l \in Lanes : told'[l] = told[l]
        BY <1>0, <4>1, <1>3
      <4>3. last.uid # NoSpool => last.lane \in Lanes
        BY DEF CoreInv, Coherent
      <4> QED BY <1>0, <4>1, <4>2, <4>3, <1>4 DEF CoreInv, NewerInv, PickedYields, Yields
    <3> QED BY <1>0, <3>1, <3>2, <3>3
  <2>5. AugmentYields'
    BY <1>0, <1>4 DEF AugmentYields
  <2> QED BY <1>0, <2>3, <2>4, <2>5 DEF NewerInv
<1> QED BY <1>0, <1>8, <1>10, <1>11, <1>12, <1>13 DEF CoreInv

\* What every part of the invariant needs of types.
LEMMA CoreFacts ==
  ASSUME QueueInv, CoreInv
  PROVE  /\ Ttl \in Nat \ {0} /\ scans \in Nat /\ NoSpool \notin Spools /\ FixedLane \in Lanes
         /\ Smart \subseteq Spools /\ Generic \subseteq Spools /\ Gappy \subseteq Smart
         /\ Smart \cap Generic = {}
         /\ staged.scan \in Nat /\ pending.scan \in Nat
         /\ \A l \in Lanes : told[l].scan \in Nat /\ told[l].of \in Spools \cup {NoSpool}
         /\ \A s \in Spools : shown[s] \in Nat
         /\ \A k \in Timers : left[k] \in 0..Ttl
         /\ left.staged \in 0..Ttl /\ left.pending \in 0..Ttl /\ left.last \in 0..Ttl
         /\ left.backoff \in 0..Ttl
         /\ last.uid \in Spools \cup {NoSpool}
<1>1. /\ Ttl \in Nat \ {0} /\ scans \in Nat /\ NoSpool \notin Spools /\ FixedLane \in Lanes
      /\ Smart \subseteq Spools /\ Generic \subseteq Spools /\ Gappy \subseteq Smart
      /\ Smart \cap Generic = {}
  BY BoundAssumption, SpoolAssumption, LaneAssumption DEF Spools, QueueInv, QueuesTyped
<1>2. /\ staged.scan \in Nat /\ pending.scan \in Nat
      /\ \A l \in Lanes : told[l].scan \in Nat /\ told[l].of \in Spools \cup {NoSpool}
      /\ \A s \in Spools : shown[s] \in Nat
      /\ last.uid \in Spools \cup {NoSpool}
  BY DEF CoreInv, StateTyped, Held
<1>3. \A k \in Timers : left[k] \in 0..Ttl
  BY DEF CoreInv, StateTyped
<1>4. "backoff" \in Timers /\ "last" \in Timers /\ "pending" \in Timers /\ "staged" \in Timers
  BY DEF Timers
<1> QED BY <1>1, <1>2, <1>3, <1>4

\* The scan of a detection or of an answer, among what is known.
LEMMA NewsIsLatest ==
  ASSUME QueueInv, CoreInv, NEW s, NEW k, News(s, k)
  PROVE  /\ s \in Spools /\ k \in Nat /\ k > 0 /\ k <= shown[s] /\ k <= scans
         /\ staged.scan < k /\ pending.scan < k /\ \A l \in Lanes : told[l].scan < k
         /\ \A u, n, b : Asked(u, n, b) => n < k
<1>1. s \in Spools /\ k \in Nat /\ k > 0 /\ k <= scans
  BY QueueNats
<1>2. Uses(k, s)
  BY DEF Uses
<1>3. k <= shown[s]
  BY <1>1, <1>2 DEF CoreInv, ScansInv
<1>4. \A u, n, b : Asked(u, n, b) => n < k
  BY NewsIsNew
<1> QED BY <1>1, <1>3, <1>4 DEF CoreInv, NewsLast

\* What is on the reader was seen last.
LEMMA OnReaderIsLatest ==
  ASSUME QueueInv, CoreInv, NEW s \in Spools, OnReader(s)
  PROVE  /\ \A l \in Lanes : Yields(l, s)
         /\ pending.active /\ pending.info.of # s => shown[s] > pending.scan
<1>1. shown[s] = scans /\ scans > 0 /\ scans \in Nat
  BY CoreFacts DEF OnReader, CoreInv, Coherent
<1>2. Uses(scans, s)
  BY <1>1 DEF Uses
<1>3. ASSUME NEW u \in Spools, NEW n \in Nat, Uses(n, u), u # s
      PROVE  n < scans
  BY <1>1, <1>2, <1>3 DEF CoreInv, ScansInv
<1>4. ASSUME NEW l \in Lanes PROVE Yields(l, s)
  <2>1. told[l].scan \in Nat /\ told[l].of \in Spools \cup {NoSpool}
    BY CoreFacts
  <2>2. CASE told[l].of = NoSpool
    BY <2>1, <2>2, <1>1 DEF Yields, CoreInv, Coherent
  <2>3. CASE told[l].of \in Spools
    <3>1. Uses(told[l].scan, told[l].of)
      BY DEF Uses
    <3> QED BY <3>1, <2>1, <2>3, <1>1, <1>3 DEF Yields
  <2> QED BY <2>1, <2>2, <2>3
<1>5. ASSUME pending.active, pending.info.of # s
      PROVE  shown[s] > pending.scan
  <2>1. pending.info.of \in Spools /\ pending.scan \in Nat
    BY <1>5, CoreFacts DEF CoreInv, Coherent
  <2>2. Uses(pending.scan, pending.info.of)
    BY <1>5 DEF Uses
  <2> QED BY <2>1, <2>2, <1>1, <1>3, <1>5
<1> QED BY <1>4, <1>5

\* Steps that at most let go of the staged spool, the augment or the assignment.
LEMMA LettingGoKeepsCore ==
  ASSUME QueueInv, CoreInv, StateTyped', Coherent',
         UNCHANGED <<mode, reader, shown, scans, told, doubt>>,
         staged'.active => staged.active,
         staged'.active => staged'.scan = staged.scan /\ staged'.info.of = staged.info.of,
         pending'.active => pending.active,
         pending'.active => pending'.scan = pending.scan /\ pending'.info.of = pending.info.of,
         last'.uid # NoSpool => last' = last,
         last'.uid # NoSpool /\ left.backoff >= left.last => left'.backoff >= left'.last,
         pending'.active /\ left.backoff >= left.pending => left'.backoff >= left'.pending,
         \A s, n : News(s, n)' => News(s, n),
         \A s, n, b : Asked(s, n, b)' => Asked(s, n, b)
  PROVE  CoreInv'
<1>1. \A n \in Nat \ {0}, s \in Spools : Uses(n, s)' => Uses(n, s)
  BY DEF Uses
<1>2. ScansInv'
  BY <1>1 DEF CoreInv, ScansInv
<1>3. staged'.scan \in {0, staged.scan} /\ pending'.scan \in {0, pending.scan}
  BY DEF Coherent
<1>4. NewsLast'
  <2>1. \A s, n : News(s, n) => n > 0
    BY QueueNats
  <2> QED BY <1>3, <2>1 DEF CoreInv, NewsLast
<1>5. UnsaidInv'
  <2>1. \A n : \A l \in Lanes : Said(n, l)' => Said(n, l)
    BY DEF Said
  <2>2. StagedUnsaid'
    BY DEF CoreInv, UnsaidInv, StagedUnsaid, Said
  <2>3. LookupUnsaid'
    <3> SUFFICES ASSUME NEW s \in Generic, NEW n \in Nat, Asked(s, n, TRUE)'
                 PROVE  staged'.scan # n /\ \A l \in Lanes : ~Said(n, l)'
      BY DEF LookupUnsaid
    <3>1. n > 0 /\ staged.scan # n /\ \A l \in Lanes : ~Said(n, l)
      BY QueueNats DEF CoreInv, UnsaidInv, LookupUnsaid
    <3> QED BY <3>1, <2>1, <1>3
  <2>4. AugmentKnowsLane'
    <3> SUFFICES ASSUME mode = "stage", pending'.active, last'.uid = pending'.info.of
                 PROVE  \A l \in Lanes : l # last'.lane =>
                           ~(told[l].scan = pending'.scan /\ pending'.scan \notin doubt)
      BY DEF AugmentKnowsLane, Said
    <3>1. last' = last
      BY CoreFacts DEF CoreInv, Coherent
    <3> QED BY <3>1 DEF CoreInv, UnsaidInv, AugmentKnowsLane, Said
  <2>5. AugmentOfStaged'
    BY DEF CoreInv, UnsaidInv, AugmentOfStaged
  <2> QED BY <2>2, <2>3, <2>4, <2>5 DEF UnsaidInv
<1>6. NewerInv'
  <2>1. \A l \in Lanes : \A s : Yields(l, s)' <=> Yields(l, s)
    BY DEF Yields
  <2>2. StagedNewer' /\ StagedNewerThanAugment'
    BY DEF CoreInv, NewerInv, StagedNewer, StagedNewerThanAugment, Yields
  <2>3. PickedYields'
    BY DEF CoreInv, NewerInv, PickedYields, Yields
  <2>4. AugmentYields'
    <3> SUFFICES ASSUME mode = "fixed", pending'.active
                 PROVE  \/ Yields(FixedLane, pending.info.of)
                        \/ left'.backoff >= left'.pending
                        \/ \A n : Asked(pending.info.of, n, FALSE)' => n > told[FixedLane].scan
      BY DEF AugmentYields, SyncsLater, Yields
    <3> QED BY DEF CoreInv, NewerInv, AugmentYields, SyncsLater
  <2> QED BY <2>2, <2>3, <2>4 DEF NewerInv
<1> QED BY <1>2, <1>4, <1>5, <1>6 DEF CoreInv

\* A detection in the stage mode.
LEMMA StagingKeepsCore ==
  ASSUME QueueInv, CoreInv, StateTyped', NEW s \in Smart, NEW k \in Nat, News(s, k), mode = "stage",
         UNCHANGED <<mode, reader, shown, scans, told, doubt, last>>,
         staged'.active, staged'.info.of = s, staged'.scan = k,
         pending'.active => pending'.info.of = s /\ pending'.scan = k /\ s \in Gappy /\
                   left'.pending > 0,
         ~pending'.active => pending'.scan = 0 /\ left'.pending = 0,
         left'.last = left.last, left'.backoff = left.backoff,
         \A u, n : News(u, n)' => News(u, n) /\ n > k,
         \A u, n, b : Asked(u, n, b)' => Asked(u, n, b) \/ (u = s /\ n = k)
  PROVE  CoreInv'
<1>0. /\ s \in Spools /\ k > 0 /\ k <= shown[s] /\ k <= scans
      /\ staged.scan < k /\ pending.scan < k /\ \A l \in Lanes : told[l].scan < k
      /\ \A u, n, b : Asked(u, n, b) => n < k
  BY NewsIsLatest
<1>1. Coherent'
  BY <1>0 DEF CoreInv, Coherent
<1>2. \A n \in Nat \ {0}, u \in Spools : Uses(n, u)' => Uses(n, u)
  BY DEF Uses
<1>3. ScansInv'
  BY <1>2 DEF CoreInv, ScansInv
<1>4. NewsLast'
  <2>1. \A u, n : News(u, n) => n > 0
    BY QueueNats
  <2> QED BY <2>1 DEF CoreInv, NewsLast
<1>5. UnsaidInv'
  <2>1. StagedUnsaid' /\ AugmentKnowsLane' /\ AugmentOfStaged'
    BY <1>0, CoreFacts DEF StagedUnsaid, AugmentKnowsLane, AugmentOfStaged, Said
  <2>2. ASSUME NEW u \in Generic, NEW n \in Nat, Asked(u, n, TRUE)'
        PROVE  staged'.scan # n /\ \A l \in Lanes : ~Said(n, l)'
    <3>1. u # s
      BY CoreFacts
    <3>2. Asked(u, n, TRUE) /\ n < k
      BY <2>2, <3>1, <1>0
    <3>3. staged'.scan # n
      BY <3>2
    <3> QED BY <3>2, <3>3 DEF CoreInv, UnsaidInv, LookupUnsaid, Said
  <2> QED BY <2>1, <2>2 DEF UnsaidInv, LookupUnsaid
<1>6. NewerInv'
  <2>1. StagedNewer' /\ StagedNewerThanAugment'
    BY <1>0, CoreFacts DEF StagedNewer, StagedNewerThanAugment, Yields
  <2>2. PickedYields' /\ AugmentYields'
    BY DEF CoreInv, NewerInv, PickedYields, AugmentYields, Yields
  <2> QED BY <2>1, <2>2 DEF NewerInv
<1> QED BY <1>1, <1>3, <1>4, <1>5, <1>6 DEF CoreInv

\* A post in the fixed mode: of a detection, a lookup or an augment.
LEMMA FixedPostKeepsCore ==
  ASSUME QueueInv, CoreInv, StateTyped', mode = "fixed", NEW o \in Outcomes,
         NEW s \in Spools, NEW k \in Nat, k > 0, Uses(k, s), Post(o, FixedLane, s, k),
         UNCHANGED <<mode, reader, shown, scans, staged, last>>, left'.last = left.last,
         pending'.active => pending'.info.of \in Gappy /\ pending'.scan > 0 /\ left'.pending > 0,
         pending'.active => Uses(pending'.scan, pending'.info.of),
         ~pending'.active => pending'.scan = 0 /\ left'.pending = 0,
         \A u, n : News(u, n)' => News(u, n) /\ k < n /\ pending'.scan < n,
         \A u, n, b : Asked(u, n, b)' => Asked(u, n, b) \/ (u = s /\ n = k),
         \A u \in Generic, n \in Nat : Asked(u, n, TRUE)' => Asked(u, n, TRUE) /\ n # k,
         AugmentYields'
  PROVE  CoreInv'
<1>1. /\ \A l \in Lanes : \/ told'[l] = told[l]
                          \/ l = FixedLane /\ told'[l].of = s /\ told'[l].scan = k /\ o \in {"ok",
                                    "lost"}
      /\ \A n : n \in doubt => n \in doubt'
  BY PostTells, LaneAssumption DEF CoreInv
<1>2. ~staged.active /\ last.uid = NoSpool /\ staged.scan = 0 /\ NoSpool \notin Spools
      /\ \A l \in Lanes : l # FixedLane => told[l].scan = 0
  BY CoreFacts DEF CoreInv, Coherent
<1>3. Coherent'
  BY <1>1, <1>2 DEF CoreInv, Coherent
<1>4. ASSUME NEW n \in Nat \ {0}, NEW u \in Spools, Uses(n, u)' PROVE Uses(n, u)
  <2>1. (\E l \in Lanes : told'[l].scan = n /\ told'[l].of = u) => Uses(n, u)
    BY <1>1 DEF Uses
  <2>2. (\E b \in BOOLEAN : Asked(u, n, b)') => Uses(n, u)
    BY DEF Uses
  <2>3. pending'.active /\ pending'.scan = n /\ pending'.info.of = u => Uses(n, u)
    OBVIOUS
  <2> QED BY <1>2, <1>4, <2>1, <2>2, <2>3 DEF Uses
<1>5. ScansInv'
  BY <1>4 DEF CoreInv, ScansInv
<1>6. NewsLast'
  BY <1>1 DEF CoreInv, NewsLast
<1>7. UnsaidInv'
  <2>1. StagedUnsaid' /\ AugmentKnowsLane' /\ AugmentOfStaged'
    BY <1>2 DEF StagedUnsaid, AugmentKnowsLane, AugmentOfStaged
  <2>2. ASSUME NEW u \in Generic, NEW n \in Nat, Asked(u, n, TRUE)'
        PROVE  staged'.scan # n /\ \A l \in Lanes : ~Said(n, l)'
    <3>1. Asked(u, n, TRUE) /\ n # k
      BY <2>2
    <3>2. staged.scan # n /\ \A l \in Lanes : ~Said(n, l)
      BY <3>1 DEF CoreInv, UnsaidInv, LookupUnsaid
    <3> QED BY <3>1, <3>2, <1>1 DEF Said
  <2> QED BY <2>1, <2>2 DEF UnsaidInv, LookupUnsaid
<1>8. NewerInv'
  BY <1>2 DEF NewerInv, StagedNewer, StagedNewerThanAugment, PickedYields
<1> QED BY <1>3, <1>5, <1>6, <1>7, <1>8 DEF CoreInv

\* A lookup that stages the spool on the reader.
LEMMA LookupStagedKeepsCore ==
  ASSUME QueueInv, CoreInv, StateTyped', mode = "stage", NEW s \in Spools, NEW k \in Nat,
         Asked(s, k, TRUE), OnReader(s),
         UNCHANGED <<mode, reader, shown, scans, told, pending, last>>,
         staged'.active, staged'.info.of = s, staged'.scan = k,
         left'.last = left.last, left'.backoff = left.backoff, left'.pending = left.pending,
         doubt' = IF s \in Smart THEN doubt \cup {k} \cup Waiting(s) ELSE doubt,
         \A u, n : News(u, n)' => News(u, n),
         \A u, n, b : Asked(u, n, b)' => Asked(u, n, b) /\ n > k
  PROVE  CoreInv'
<1>0. /\ k > 0 /\ \A n : n \in doubt => n \in doubt'
      /\ \A u, n : News(u, n) => k < n
  BY NewsIsNew, QueueNats
<1>1. Coherent'
  BY <1>0 DEF CoreInv, Coherent
<1>2. Uses(k, s)
  BY DEF Uses
<1>3. \A n \in Nat \ {0}, u \in Spools : Uses(n, u)' => Uses(n, u)
  BY <1>2 DEF Uses
<1>4. ScansInv'
  BY <1>3 DEF CoreInv, ScansInv
<1>5. NewsLast'
  BY <1>0 DEF CoreInv, NewsLast
<1>6. UnsaidInv'
  <2>1. StagedUnsaid'
    <3>1. CASE s \in Smart
      BY <3>1 DEF StagedUnsaid, Said
    <3>2. CASE s \in Generic
      BY <3>2, <1>0 DEF StagedUnsaid, CoreInv, UnsaidInv, LookupUnsaid, Said
    <3> QED BY <3>1, <3>2 DEF Spools
  <2>2. LookupUnsaid'
    <3> SUFFICES ASSUME NEW u \in Generic, NEW n \in Nat, Asked(u, n, TRUE)'
                 PROVE  staged'.scan # n /\ \A l \in Lanes : ~Said(n, l)'
      BY DEF LookupUnsaid
    <3>1. Asked(u, n, TRUE) /\ n > k
      OBVIOUS
    <3>2. n # k
      BY <3>1
    <3> QED BY <3>1, <3>2, <1>0 DEF CoreInv, UnsaidInv, LookupUnsaid, Said
  <2>3. AugmentKnowsLane'
    BY <1>0 DEF CoreInv, UnsaidInv, AugmentKnowsLane, Said
  <2>4. AugmentOfStaged'
    <3> SUFFICES ASSUME pending.active, s = pending.info.of PROVE pending.scan \in doubt'
      BY DEF AugmentOfStaged
    <3>1. s \in Smart
      BY CoreFacts DEF CoreInv, Coherent
    <3> QED BY <3>1 DEF Waiting
  <2> QED BY <2>1, <2>2, <2>3, <2>4 DEF UnsaidInv
<1>7. NewerInv'
  <2>1. StagedNewer' /\ StagedNewerThanAugment'
    BY OnReaderIsLatest DEF StagedNewer, StagedNewerThanAugment, Yields
  <2>2. PickedYields' /\ AugmentYields'
    BY DEF CoreInv, NewerInv, PickedYields, AugmentYields, Yields
  <2> QED BY <2>1, <2>2 DEF NewerInv
<1> QED BY <1>1, <1>4, <1>5, <1>6, <1>7 DEF CoreInv

\* The lane of the pick is told again.
LEMMA AugmentAfterAssignKeepsCore ==
  ASSUME QueueInv, CoreInv, StateTyped', mode = "stage", NEW o \in Outcomes,
         pending.active, last.uid = pending.info.of,
                   ~(staged.active /\ staged.info.of = pending.info.of),
         Post(o, last.lane, pending.info.of, pending.scan),
         pending' = NoAugment, left'.pending = 0, left'.last = left.last, left'.backoff = left.backoff,
         UNCHANGED <<mode, reader, shown, scans, staged, last>>,
         \A u, n : News(u, n)' => News(u, n),
         \A u, n, b : Asked(u, n, b)' => Asked(u, n, b)
  PROVE  CoreInv'
<1>0. PICK u \in Gappy, p \in Nat : u = pending.info.of /\ p = pending.scan /\ p > 0
  BY CoreFacts DEF CoreInv, Coherent
<1>1. u \in Spools /\ last.lane \in Lanes
  BY <1>0, CoreFacts DEF CoreInv, Coherent
<1>2. /\ \A l \in Lanes : \/ told'[l] = told[l]
                          \/ l = last.lane /\ told'[l].of = u /\ told'[l].scan = p /\ o \in {"ok",
                                    "lost"}
      /\ \A n : n \in doubt => n \in doubt'
  BY <1>0, <1>1, PostTells DEF CoreInv
<1>3. NoAugment.active = FALSE /\ NoAugment.scan = 0
  BY DEF NoAugment
<1>4. Coherent'
  BY <1>0, <1>1, <1>2, <1>3, CoreFacts DEF CoreInv, Coherent
<1>5. Uses(p, u)
  BY <1>0 DEF Uses
<1>6. \A n \in Nat \ {0}, v \in Spools : Uses(n, v)' => Uses(n, v)
  <2> SUFFICES ASSUME NEW n \in Nat \ {0}, NEW v \in Spools, Uses(n, v)' PROVE Uses(n, v)
    OBVIOUS
  <2>1. (\E l \in Lanes : told'[l].scan = n /\ told'[l].of = v) => Uses(n, v)
    BY <1>2, <1>5 DEF Uses
  <2> QED BY <2>1, <1>3 DEF Uses
<1>7. ScansInv'
  BY <1>6 DEF CoreInv, ScansInv
<1>8. NewsLast'
  <2>1. \A s, n : News(s, n) => n > 0
    BY QueueNats
  <2> QED BY <2>1, <1>0, <1>2, <1>3 DEF CoreInv, NewsLast
<1>9. \A n \in Nat, v \in Spools : n = p /\ Uses(n, v) => v = u
  BY <1>0, <1>1, <1>5 DEF CoreInv, ScansInv
<1>10. UnsaidInv'
  <2>1. StagedUnsaid'
    <3> SUFFICES ASSUME staged.active, NEW l \in Lanes
          PROVE ~(told'[l].scan = staged.scan /\ staged.scan \notin doubt')
      BY DEF StagedUnsaid, Said
    <3>1. staged.info.of # u /\ Uses(staged.scan,
              staged.info.of) /\ staged.info.of \in Spools /\ staged.scan \in Nat
      BY <1>0, CoreFacts DEF Uses, CoreInv, Coherent
    <3>2. staged.scan # p
      BY <3>1, <1>9
    <3> QED BY <3>2, <1>2 DEF CoreInv, UnsaidInv, StagedUnsaid, Said
  <2>2. ASSUME NEW v \in Generic, NEW n \in Nat, Asked(v, n, TRUE)'
        PROVE  staged'.scan # n /\ \A l \in Lanes : ~Said(n, l)'
    <3>1. Asked(v, n, TRUE) /\ Uses(n, v) /\ v \in Spools /\ v # u
      BY <2>2, <1>0, CoreFacts DEF Uses
    <3>2. n # p
      BY <3>1, <1>9
    <3> QED BY <3>1, <3>2, <1>2 DEF CoreInv, UnsaidInv, LookupUnsaid, Said
  <2>3. AugmentKnowsLane' /\ AugmentOfStaged'
    BY <1>3 DEF AugmentKnowsLane, AugmentOfStaged
  <2> QED BY <2>1, <2>2, <2>3 DEF UnsaidInv, LookupUnsaid
<1>11. NewerInv'
  <2>1. StagedNewer'
    <3> SUFFICES ASSUME staged.active, NEW l \in Lanes
                 PROVE  told'[l].of = staged.info.of \/ shown[staged.info.of] > told'[l].scan
      BY DEF StagedNewer, Yields
    <3>1. shown[staged.info.of] > p
      BY <1>0 DEF CoreInv, NewerInv, StagedNewerThanAugment
    <3> QED BY <3>1, <1>2 DEF CoreInv, NewerInv, StagedNewer, Yields
  <2>2. StagedNewerThanAugment' /\ AugmentYields'
    BY <1>3 DEF StagedNewerThanAugment, AugmentYields
  <2>3. PickedYields'
    BY <1>0, <1>1, <1>2 DEF CoreInv, NewerInv, PickedYields, Yields
  <2> QED BY <2>1, <2>2, <2>3 DEF NewerInv
<1> QED BY <1>4, <1>7, <1>8, <1>10, <1>11 DEF CoreInv

-----------------------------------------------------------------------------
(* The actions *)

\* What is over is blank.
LEMMA Blanks ==
  /\ NoStage \in Held /\ NoAugment \in Held /\ ~NoStage.active /\ ~NoAugment.active
  /\ NoStage.scan = 0 /\ NoAugment.scan = 0 /\ NoAssign.uid = NoSpool
  /\ NoAssign \in [lane : Lanes \cup {-1}, uid : Spools \cup {NoSpool}]
  /\ Unset \in [valid : BOOLEAN, baseline : SUBSET Lanes, count : [Lanes -> 0..2]] /\ ~Unset.valid
  BY DEF NoStage, NoAugment, NoAssign, Unset, Held, NoInfo, Infos, Names

\* Nothing is known of any scan at first.
LEMMA InitInv == Init => U1Inv
<1> SUFFICES ASSUME Init PROVE U1Inv
  OBVIOUS
<1> USE DEF Init
<1>1. QueueInv
  BY BoundAssumption DEF QueueInv, QueuesTyped, QueuesOrdered
<1>2. (\A s, n : ~News(s, n)) /\ (\A s, n, b : ~Asked(s, n, b))
  BY DEF News, Asked
<1>3. StateTyped
  <2>1. left \in [Timers -> 0..Ttl]
    <3>1. Ttl \in Nat /\ 0 \in 0..Ttl
      BY BoundAssumption
    <3>2. left = [k \in Timers |-> 0]
      BY DEF Timers
    <3> QED BY <3>1, <3>2
  <2>2. faults \in 0..MaxFaults
    BY BoundAssumption
  <2>3. told \in [Lanes -> [of : Spools \cup {NoSpool}, scan : Nat]] /\ shown \in [Spools -> Nat]
    OBVIOUS
  <2>4. reader \in [uid : Spools \cup {NoSpool},
            generic : BOOLEAN] /\ version \in [Gappy -> {"first", "second"}]
    OBVIOUS
  <2> QED BY <2>1, <2>2, <2>3, <2>4, Blanks DEF StateTyped
<1>4. \A l \in Lanes : told[l].of = NoSpool /\ told[l].scan = 0
  OBVIOUS
<1>5. Coherent
  BY <1>4, Blanks, SpoolAssumption DEF Coherent
<1>6. ScansInv
  BY <1>2, <1>4, Blanks DEF ScansInv, Uses
<1>7. NewsLast /\ UnsaidInv /\ NewerInv
  BY <1>2, Blanks
     DEF NewsLast, UnsaidInv, StagedUnsaid, LookupUnsaid, AugmentKnowsLane, AugmentOfStaged,
     NewerInv, StagedNewer, StagedNewerThanAugment, PickedYields, AugmentYields
<1>8. BaselineInv
  BY Blanks DEF BaselineInv
<1> QED BY <1>1, <1>3, <1>5, <1>6, <1>7, <1>8 DEF U1Inv, CoreInv

\* Steps that leave the queues alone.
LEMMA QueueInvStays ==
  ASSUME QueueInv, UNCHANGED <<inbox, wanted, scans>>
  PROVE  QueueInv'
  BY DEF QueueInv, QueuesTyped, QueuesOrdered

\* Actions of the scan task: a tag is placed, written anew or removed.
LEMMA AnnounceKeeps ==
  ASSUME U1Inv, NEW s \in Spools, NEW g \in BOOLEAN, Announce(s, g),
         version' \in [Gappy -> {"first", "second"}]
  PROVE  U1Inv'
<1> USE DEF U1Inv
<1>1. /\ QueueInv'
      /\ \A u, n : News(u, n)' => News(u, n) \/ (u = s /\ n = scans')
      /\ \A u, n, b : Asked(u, n, b)' => Asked(u, n, b)
  BY AnnounceQueues
<1>2. /\ scans' = scans + 1 /\ shown' = [shown EXCEPT ![s] = scans + 1] /\ reader'.uid = s
      /\ reader' = [uid |-> s, generic |-> g]
      /\ UNCHANGED coreVars /\ UNCHANGED <<pick, emptied, faults>>
  BY DEF Announce, coreVars, stageVars
<1>3. StateTyped'
  BY <1>2, CoreFacts DEF CoreInv, StateTyped, coreVars
<1>4. CoreInv'
  BY <1>1, <1>2, <1>3, AnnounceKeepsCore
<1>5. BaselineInv'
  BY <1>2 DEF BaselineInv
<1> QED BY <1>1, <1>4, <1>5

LEMMA ScanKeeps == ASSUME U1Inv, NEW s \in Spools, Scan(s) PROVE U1Inv'
<1> DEFINE g == IF s \in Opt THEN reader.generic ELSE s \in Generic
<1>1. g \in BOOLEAN
  <2>1. reader.generic \in BOOLEAN /\ (s \in Generic) \in BOOLEAN
    BY DEF U1Inv, CoreInv, StateTyped
  <2> QED BY <2>1
<1>2. Announce(s, g) /\ version' \in [Gappy -> {"first", "second"}]
  BY DEF Scan, U1Inv, CoreInv, StateTyped
<1> HIDE DEF g
<1> QED BY <1>1, <1>2, AnnounceKeeps

LEMMA RewriteKeeps == ASSUME U1Inv, Rewrite PROVE U1Inv'
<1>1. reader.uid \in Spools /\ version' \in [Gappy -> {"first", "second"}]
  BY SpoolAssumption DEF Rewrite, U1Inv, CoreInv, StateTyped, Spools
<1>2. Announce(reader.uid, FALSE)
  BY DEF Rewrite
<1>3. PICK s \in Spools : s = reader.uid
  BY <1>1
<1> QED BY <1>1, <1>2, <1>3, AnnounceKeeps

LEMMA RemoveKeeps == ASSUME U1Inv, Remove PROVE U1Inv'
<1> USE DEF U1Inv
<1>1. /\ UNCHANGED coreVars /\ UNCHANGED <<shown, scans, inbox, wanted, pick, emptied, version, faults>>
      /\ reader' = [reader EXCEPT !.uid = NoSpool]
  BY DEF Remove, coreVars, stageVars
<1>2. StateTyped' /\ reader'.uid = NoSpool
  BY <1>1 DEF CoreInv, StateTyped, coreVars
<1>3. CoreInv'
  BY <1>1, <1>2, QueuesStay, QueuesKeepCore
<1> QED BY <1>1, <1>3, QueueInvStays DEF BaselineInv

\* The Spoolman task answers.
LEMMA AnswerKeeps == ASSUME U1Inv, NEW ok \in BOOLEAN, Answer(ok) PROVE U1Inv'
<1> USE DEF U1Inv
<1>1. /\ UNCHANGED coreVars /\ UNCHANGED <<shown, scans, pick, emptied, version, reader>>
      /\ Fail(~ok)
  BY DEF Answer, coreVars, stageVars, readerVars
<1>2. faults' \in 0..MaxFaults
  BY <1>1, BoundAssumption DEF Fail, CoreInv, StateTyped
<1>3. StateTyped'
  BY <1>1, <1>2 DEF CoreInv, StateTyped, coreVars
<1>4. CoreInv' /\ QueueInv'
  BY <1>1, <1>3, AnswerQueues, QueuesKeepCore
<1> QED BY <1>1, <1>4 DEF BaselineInv

\* An assignment by hand or by the sensors, and the two it stands for.
LEMMA AssignKeeps ==
  ASSUME U1Inv, NEW lane \in Lanes, mode = "stage", \E o \in Outcomes : AssignStagedToChannel(o, lane),
         UNCHANGED <<mode, readerVars, inbox, wanted, pending>>,
         pick' \in [valid : BOOLEAN, baseline : SUBSET Lanes, count : [Lanes -> 0..2]],
         pick'.valid => pick.valid, pick'.baseline = pick.baseline,
         emptied \subseteq emptied', emptied' \subseteq Lanes
  PROVE  U1Inv'
<1> USE DEF U1Inv
<1>1. PICK o \in Outcomes : AssignStagedToChannel(o, lane)
  OBVIOUS
<1>2. /\ staged.info.of \in Spools /\ staged.scan \in Nat
      /\ staged' \in Held /\ last' \in [lane : Lanes \cup {-1}, uid : Spools \cup {NoSpool}]
      /\ left' \in [Timers -> 0..Ttl]
  BY <1>1, AssignTyped
<1>3. Post(o, lane, staged.info.of, staged.scan)
  BY <1>1 DEF AssignStagedToChannel
<1>4. told' \in [Lanes -> [of : Spools \cup {NoSpool}, scan : Nat]] /\ faults' \in 0..MaxFaults
  BY <1>2, <1>3, PostTells DEF CoreInv
<1>5. StateTyped'
  BY <1>2, <1>4 DEF CoreInv, StateTyped, readerVars
<1>6. CoreInv'
  BY <1>1, <1>5, AssignKeepsCore
<1>7. QueueInv'
  BY QueueInvStays DEF readerVars
<1> QED BY <1>6, <1>7 DEF BaselineInv

LEMMA PickKeeps == ASSUME U1Inv, NEW lane \in Lanes, Pick(lane) PROVE U1Inv'
<1>1. pick \in [valid : BOOLEAN, baseline : SUBSET Lanes,
          count : [Lanes -> 0..2]] /\ emptied \subseteq Lanes
  BY DEF U1Inv, CoreInv, StateTyped
<1> QED BY <1>1, AssignKeeps DEF Pick

\* A set of lanes has a lowest one: of its initial segments up to some lane n, finite sets, one is
\* minimal, and its last element is the lowest lane.
LEMMA LowestLane ==
  ASSUME NEW S \in SUBSET Lanes, S # {}
  PROVE  First(S) \in S /\ \A l \in S : First(S) <= l
<1>1. S \subseteq Nat
  BY LaneAssumption
<1>2. PICK n \in S : n \in Nat
  BY <1>1
<1> DEFINE T == S \cap (0..n)
           Seg(k) == T \cap (0..k)
           F == {Seg(k) : k \in T}
           R == StrictSubsetOrdering(0..n)
<1>3. IsWellFoundedOn(R, SUBSET (0..n))
  <2>1. IsFiniteSet(0..n)
    BY <1>2, FS_Interval
  <2> QED BY <2>1, FS_StrictSubsetOrderingWellFounded, FS_FiniteSubsetsOfFinite
<1>4. F \subseteq SUBSET (0..n) /\ F # {}
  <2>1. n \in T
    BY <1>2
  <2> QED BY <2>1
<1>5. PICK U \in F : \A V \in F : ~ (<<V, U>> \in R)
  <2> HIDE DEF F, R
  <2> QED BY <1>3, <1>4, WFMin
<1>6. PICK m \in T : U = Seg(m)
  BY <1>5
<1>7. ASSUME NEW k \in T, ~ (m <= k)
      PROVE  FALSE
  <2>1. m \in Nat /\ k \in Nat /\ k < m /\ m <= n
    BY <1>1, <1>2, <1>7
  <2>2. Seg(k) \in F /\ Seg(k) \subseteq Seg(m) /\ Seg(m) \subseteq 0..n
    BY <1>7, <2>1
  <2>3. m \in Seg(m) /\ m \notin Seg(k)
    BY <2>1
  <2>4. <<Seg(k), U>> \in R
    BY <2>2, <2>3, <1>6 DEF StrictSubsetOrdering
  <2> QED BY <2>2, <2>4, <1>5
<1>8. \A k \in S : m <= k
  <2> SUFFICES ASSUME NEW k \in S PROVE m <= k
    OBVIOUS
  <2>1. k \in Nat /\ n \in Nat /\ m \in Nat /\ m <= n
    BY <1>1, <1>2
  <2>2. k <= n => k \in T
    BY <2>1
  <2> QED BY <2>1, <2>2, <1>7
<1>9. m \in S
  OBVIOUS
<1> QED BY <1>8, <1>9 DEF First

\* What a poll saw empty is noted, what it saw loaded is baseline or settled.
LEMMA PollTyped ==
  ASSUME U1Inv, NEW loaded \in SUBSET Lanes, NEW seen,
         pick' = [pick EXCEPT !.count = Counted(loaded, seen)]
  PROVE  /\ pick' \in [valid : BOOLEAN, baseline : SUBSET Lanes, count : [Lanes -> 0..2]]
         /\ pick'.valid = pick.valid /\ pick'.baseline = pick.baseline
<1>1. pick \in [valid : BOOLEAN, baseline : SUBSET Lanes, count : [Lanes -> 0..2]]
  BY DEF U1Inv, CoreInv, StateTyped
<1>2. Counted(loaded, seen) \in [Lanes -> 0..2]
  BY <1>1 DEF Counted
<1> QED BY <1>1, <1>2

\* The sensors pick the lowest lane that settled.
LEMMA PollAssignsKeeps == ASSUME U1Inv, NEW loaded \in SUBSET Lanes, PollAssigns(loaded) PROVE U1Inv'
<1>1. Settled(loaded) \in SUBSET Lanes /\ Settled(loaded) # {}
  BY DEF PollAssigns, Settled
<1>2. PICK lane \in Lanes : lane = First(Settled(loaded))
  BY <1>1, LowestLane
<1>3. /\ pick' = [pick EXCEPT !.count = Counted(loaded, {l \in Lanes : l <= lane})]
      /\ \E o \in Outcomes : AssignStagedToChannel(o, lane)
      /\ mode = "stage" /\ emptied' = emptied \cup (Lanes \ loaded)
      /\ UNCHANGED <<mode, readerVars, inbox, wanted, pending>>
  BY <1>2 DEF PollAssigns, Polls
<1>4. /\ pick' \in [valid : BOOLEAN, baseline : SUBSET Lanes, count : [Lanes -> 0..2]]
      /\ pick'.valid = pick.valid /\ pick'.baseline = pick.baseline
  BY <1>3, PollTyped
<1>5. emptied \subseteq emptied' /\ emptied' \subseteq Lanes
  BY <1>3 DEF U1Inv, CoreInv, StateTyped
<1> QED BY <1>3, <1>4, <1>5, AssignKeeps

\* A poll that assigns nothing.
LEMMA PollKeeps ==
  ASSUME U1Inv, NEW loaded \in SUBSET Lanes, PollBaseline(loaded) \/ PollCounts(loaded)
  PROVE  U1Inv'
<1> USE DEF U1Inv
<1>1. /\ UNCHANGED coreVars /\ UNCHANGED <<readerVars, inbox, wanted, faults>>
      /\ emptied' = emptied \cup (Lanes \ loaded)
  BY DEF PollBaseline, PollCounts, coreVars, readerVars
<1>2. /\ pick' \in [valid : BOOLEAN, baseline : SUBSET Lanes, count : [Lanes -> 0..2]]
      /\ BaselineInv'
  <2>1. CASE PollBaseline(loaded)
    <3>1. pick' = [pick EXCEPT !.valid = TRUE, !.baseline = loaded]
      BY <2>1 DEF PollBaseline
    <3>2. pick \in [valid : BOOLEAN, baseline : SUBSET Lanes, count : [Lanes -> 0..2]]
      BY DEF CoreInv, StateTyped
    <3>3. pick' \in [valid : BOOLEAN, baseline : SUBSET Lanes, count : [Lanes -> 0..2]]
          /\ pick'.baseline = loaded
      BY <3>1, <3>2
    <3> QED BY <3>3, <1>1 DEF BaselineInv
  <2>2. CASE PollCounts(loaded)
    <3>1. pick' = [pick EXCEPT !.count = Counted(loaded, Lanes)]
      BY <2>2 DEF PollCounts
    <3>2. /\ pick' \in [valid : BOOLEAN, baseline : SUBSET Lanes, count : [Lanes -> 0..2]]
          /\ pick'.valid = pick.valid /\ pick'.baseline = pick.baseline
      BY <3>1, PollTyped
    <3> QED BY <3>2, <1>1 DEF BaselineInv
  <2> QED BY <2>1, <2>2
<1>3. StateTyped'
  BY <1>1, <1>2 DEF CoreInv, StateTyped, coreVars, readerVars
<1>4. CoreInv' /\ QueueInv'
  BY <1>1, <1>3, QueuesStay, QueuesKeepCore, QueueInvStays DEF readerVars
<1> QED BY <1>2, <1>4

\* Steps that let go of something and leave the queues and the sensors' record alone.
LEMMA GetStagedStateKeeps == ASSUME U1Inv, GetStagedState PROVE U1Inv'
<1> USE DEF U1Inv
<1>1. /\ staged' = NoStage
      /\ UNCHANGED <<mode, readerVars, inbox, wanted, pending, last, pick, left, told, emptied,
                doubt, faults>>
  BY DEF GetStagedState
<1>2. StateTyped' /\ Coherent'
  BY <1>1, Blanks DEF CoreInv, StateTyped, Coherent, readerVars
<1>3. CoreInv' /\ QueueInv'
  BY <1>1, <1>2, Blanks, QueuesStay, LettingGoKeepsCore, QueueInvStays DEF readerVars
<1> QED BY <1>1, <1>3 DEF BaselineInv

\* A query that fails starts the backoff, which lasts as long as any timer.
LEMMA PollFailsKeeps == ASSUME U1Inv, PollFails PROVE U1Inv'
<1> USE DEF U1Inv
<1>1. /\ left' = [left EXCEPT !.backoff = Ttl] /\ Fail(TRUE)
      /\ UNCHANGED <<mode, readerVars, inbox, wanted, stageVars, pending, last, told, doubt>>
  BY DEF PollFails
<1>2. /\ left' \in [Timers -> 0..Ttl] /\ left'.backoff = Ttl /\ left'.last = left.last
      /\ left'.pending = left.pending
      /\ left'.last <= Ttl /\ left'.pending <= Ttl
  <2>1. Ttl \in 0..Ttl /\ left \in [Timers -> 0..Ttl]
    BY BoundAssumption DEF CoreInv, StateTyped
  <2>2. left' \in [Timers -> 0..Ttl] /\ left'.backoff = Ttl /\ left'.last = left.last
        /\ left'.pending = left.pending
    BY <1>1, <2>1 DEF Timers
  <2> QED BY <2>2, CoreFacts
<1>3. faults' \in 0..MaxFaults
  BY <1>1, BoundAssumption DEF Fail, CoreInv, StateTyped
<1>4. StateTyped' /\ Coherent'
  BY <1>1, <1>2, <1>3 DEF CoreInv, StateTyped, Coherent, readerVars, stageVars
<1>5. CoreInv' /\ QueueInv'
  BY <1>1, <1>2, <1>4, Blanks, CoreFacts, QueuesStay, LettingGoKeepsCore, QueueInvStays
     DEF readerVars, stageVars
<1> QED BY <1>1, <1>5 DEF BaselineInv, stageVars

\* Time passes for all timers alike.
LEMMA TickKeeps == ASSUME U1Inv, Tick PROVE U1Inv'
<1> USE DEF U1Inv
<1>1. /\ left' = [k \in DOMAIN left |-> IF left[k] > 0 THEN left[k] - 1 ELSE 0]
      /\ pending' = IF left'.pending = 0 THEN NoAugment ELSE pending
      /\ last' = IF left'.last = 0 THEN NoAssign ELSE last
      /\ UNCHANGED <<mode, readerVars, inbox, wanted, stageVars, told, doubt, faults>>
  BY DEF Tick
<1>2. left \in [Timers -> 0..Ttl] /\ Ttl \in Nat \ {0} /\ DOMAIN left = Timers
  BY BoundAssumption DEF CoreInv, StateTyped
<1>3. \A k \in Timers : left'[k] = IF left[k] > 0 THEN left[k] - 1 ELSE 0
  BY <1>1, <1>2
<1>4. left' \in [Timers -> 0..Ttl]
  BY <1>1, <1>2
<1>5. /\ left'.pending = IF left.pending > 0 THEN left.pending - 1 ELSE 0
      /\ left'.last = IF left.last > 0 THEN left.last - 1 ELSE 0
      /\ left'.backoff = IF left.backoff > 0 THEN left.backoff - 1 ELSE 0
  BY <1>3 DEF Timers
<1>6. /\ left.pending \in Nat /\ left.last \in Nat /\ left.backoff \in Nat
  BY CoreFacts
<1>7. /\ left.backoff >= left.last => left'.backoff >= left'.last
      /\ left.backoff >= left.pending => left'.backoff >= left'.pending
      /\ left'.pending \in Nat /\ left'.last \in Nat
  BY <1>5, <1>6
<1>8. StateTyped'
  BY <1>1, <1>4, Blanks DEF CoreInv, StateTyped, readerVars, stageVars
<1>9. Coherent'
  <2>1. /\ pending'.active => pending' = pending /\ left'.pending > 0
        /\ ~pending'.active => pending'.scan = 0 /\ left'.pending = 0
    BY <1>1, <1>5, <1>6, <1>7, Blanks DEF CoreInv, Coherent
  <2>2. /\ last'.uid = NoSpool <=> left'.last = 0
        /\ last'.uid # NoSpool => last' = last
    BY <1>1, <1>5, <1>6, <1>7, Blanks DEF CoreInv, Coherent
  <2> QED BY <1>1, <2>1, <2>2 DEF CoreInv, Coherent, readerVars, stageVars
<1>10. /\ last'.uid # NoSpool => last' = last
       /\ pending'.active => pending' = pending
  BY <1>1, Blanks
<1>11. CoreInv' /\ QueueInv'
  BY <1>1, <1>7, <1>8, <1>9, <1>10, QueuesStay, LettingGoKeepsCore, QueueInvStays
     DEF readerVars, stageVars
<1> QED BY <1>1, <1>11 DEF BaselineInv, stageVars

\* What a detection asks of Spoolman.
LEMMA Requested ==
  ASSUME NEW m \in Note, m.type = "detected", NEW b \in BOOLEAN
  PROVE  /\ Request(m, b) \in Ask /\ Request(m, b).spool = m.spool /\ Request(m, b).scan = m.scan
         /\ Request(m, b).lookup = b
  BY NoteKinds DEF Request, Ask

\* What is registered for a detection: an augment if the tag has gaps, else nothing.
LEMMA Recorded ==
  ASSUME NEW m \in Note, m.spool \in Smart
  PROVE  /\ TagInfo(m) \in Infos /\ TagInfo(m).of = m.spool
         /\ Registered(TagInfo(m), m.scan) \in Held
         /\ Registered(TagInfo(m), m.scan).active <=> m.spool \in Gappy
         /\ m.spool \in Gappy =>
              /\ Registered(TagInfo(m), m.scan).info.of = m.spool
              /\ Registered(TagInfo(m), m.scan).scan = m.scan
         /\ m.spool \notin Gappy => Registered(TagInfo(m), m.scan).scan = 0
<1>1. (m.spool \notin Gappy) \in BOOLEAN /\ m.spool \in Spools /\ m.name \in Names /\ m.scan \in Nat
  BY NoteKinds
<1>2. TagInfo(m) \in Infos /\ TagInfo(m).of = m.spool
  BY <1>1 DEF TagInfo, Infos
<1>3. CASE m.spool \in Gappy
  BY <1>1, <1>2, <1>3 DEF Registered, Held
<1>4. CASE m.spool \notin Gappy
  BY <1>1, <1>2, <1>4, Blanks DEF Registered
<1> QED BY <1>2, <1>3, <1>4

\* What a detection of a smart tag leaves in the queues.
LEMMA SmartTaken ==
  ASSUME U1Inv, NEW m \in Arrived("detected"), m.spool \in Smart, inbox' = Tail(inbox), scans' = scans,
         wanted' = Offer(wanted, <<Request(m, FALSE), Request(m, TRUE)>>, SyncDepth)
  PROVE  /\ QueueInv' /\ m \in Note /\ News(m.spool, m.scan)
         /\ \A u, n : News(u, n)' => News(u, n) /\ n > m.scan
         /\ \A u, n, b : Asked(u, n, b)' => Asked(u, n, b) \/ (u = m.spool /\ n = m.scan)
<1>1. m \in Note /\ m.type = "detected" /\ m.scan \in Nat
  BY HeadArrived, NoteKinds DEF U1Inv
<1> DEFINE p == Request(m, FALSE)
           q == Request(m, TRUE)
           rs == <<p, q>>
<1>2. /\ p \in Ask /\ p.spool = m.spool /\ p.scan = m.scan /\ p.lookup = FALSE
      /\ q \in Ask /\ q.spool = m.spool /\ q.scan = m.scan
  BY <1>1, Requested
<1> HIDE DEF p, q
<1>3. rs \in Seq(Ask) /\ Len(rs) = 2 /\ rs[1] = p /\ rs[2] = q
  BY <1>2
<1>4. Before(p, q)
  BY <1>1, <1>2 DEF Before
<1>5. wanted' = Offer(wanted, rs, SyncDepth)
  BY DEF p, q
<1> HIDE DEF rs
<1>6. \A i \in 1..Len(rs) : rs[i].spool = m.spool /\ rs[i].scan = m.scan
  BY <1>2, <1>3
<1>7. \A i, j \in 1..Len(rs) : i < j => Before(rs[i], rs[j])
  <2>1. \A i, j \in 1..2 : i < j => i = 1 /\ j = 2
    OBVIOUS
  <2> QED BY <2>1, <1>3, <1>4
<1> QED BY <1>1, <1>3, <1>5, <1>6, <1>7, DetectionTaken DEF U1Inv

\* The same of a UID-only tag, which is only looked up.
LEMMA GenericTaken ==
  ASSUME U1Inv, NEW m \in Arrived("detected"), inbox' = Tail(inbox), scans' = scans,
         wanted' = Offer(wanted, <<Request(m, TRUE)>>, SyncDepth)
  PROVE  /\ QueueInv' /\ m \in Note /\ News(m.spool, m.scan)
         /\ \A u, n : News(u, n)' => News(u, n) /\ n > m.scan
         /\ \A u, n, b : Asked(u, n, b)' => Asked(u, n, b) \/ (u = m.spool /\ n = m.scan)
<1>1. m \in Note /\ m.type = "detected" /\ m.scan \in Nat
  BY HeadArrived, NoteKinds DEF U1Inv
<1> DEFINE q == Request(m, TRUE)
           rs == <<q>>
<1>2. /\ q \in Ask /\ q.spool = m.spool /\ q.scan = m.scan
  BY <1>1, Requested
<1> HIDE DEF q
<1>3. rs \in Seq(Ask) /\ Len(rs) = 1 /\ rs[1] = q
  BY <1>2
<1>5. wanted' = Offer(wanted, rs, SyncDepth)
  BY DEF q
<1> HIDE DEF rs
<1>6. \A i \in 1..Len(rs) : rs[i].spool = m.spool /\ rs[i].scan = m.scan
  BY <1>2, <1>3
<1>7. \A i, j \in 1..Len(rs) : i < j => Before(rs[i], rs[j])
  BY <1>3
<1> QED BY <1>1, <1>3, <1>5, <1>6, <1>7, DetectionTaken DEF U1Inv

\* A UID-only tag tells the printer nothing by itself.
LEMMA HandleGenericKeeps == ASSUME U1Inv, HandleGenericTagDetected PROVE U1Inv'
<1> USE DEF U1Inv
<1>1. PICK m \in Arrived("detected") : wanted' = Offer(wanted, <<Request(m, TRUE)>>, SyncDepth)
  BY DEF HandleGenericTagDetected
<1>2. inbox' = Tail(inbox)
      /\ UNCHANGED <<mode, readerVars, stageVars, pending, last, left, told, doubt, faults>>
  BY DEF HandleGenericTagDetected
<1>3. /\ QueueInv' /\ News(m.spool, m.scan)
      /\ \A u, n : News(u, n)' => News(u, n) /\ n > m.scan
      /\ \A u, n, b : Asked(u, n, b)' => Asked(u, n, b) \/ (u = m.spool /\ n = m.scan)
  BY <1>1, <1>2, GenericTaken DEF readerVars
<1>4. StateTyped'
  BY <1>2 DEF CoreInv, StateTyped, readerVars, stageVars
<1>5. CoreInv'
  BY <1>2, <1>3, <1>4, QueuesKeepCore DEF readerVars, stageVars, coreVars
<1> QED BY <1>2, <1>3, <1>5 DEF BaselineInv, stageVars

\* A smart tag in the stage mode.
LEMMA DetectionStagedKeeps ==
  ASSUME U1Inv, NEW m \in Arrived("detected"), m.spool \in Smart, inbox' = Tail(inbox),
         wanted' = Offer(wanted, <<Request(m, FALSE), Request(m, TRUE)>>, SyncDepth),
         UNCHANGED <<mode, readerVars, last, told, doubt, faults>>, mode = "stage",
         StageSpool(TagInfo(m), m.scan), pending' = Registered(TagInfo(m), m.scan),
         left' = [left EXCEPT !.staged = Ttl, !.pending = IF m.spool \in Gappy THEN Ttl ELSE 0]
  PROVE  U1Inv'
<1> USE DEF U1Inv
<1>1. /\ QueueInv' /\ m \in Note /\ News(m.spool, m.scan)
      /\ \A u, n : News(u, n)' => News(u, n) /\ n > m.scan
      /\ \A u, n, b : Asked(u, n, b)' => Asked(u, n, b) \/ (u = m.spool /\ n = m.scan)
  BY SmartTaken DEF readerVars
<1>2. m.scan \in Nat
  BY <1>1, NoteKinds
<1> DEFINE w == IF m.spool \in Gappy THEN Ttl ELSE 0
<1>3. Ttl \in Nat \ {0} /\ Ttl \in 0..Ttl /\ w \in 0..Ttl
  BY BoundAssumption
<1>4. left' = [left EXCEPT !.staged = Ttl, !.pending = w] /\ left \in [Timers -> 0..Ttl]
  BY DEF CoreInv, StateTyped
<1> HIDE DEF w
<1>5. left' \in [Timers -> 0..Ttl] /\ left'.last = left.last /\ left'.backoff = left.backoff
      /\ left'.pending = w
  BY <1>3, <1>4 DEF Timers
<1>6. /\ staged' \in Held /\ staged'.active /\ staged'.info.of = m.spool /\ staged'.scan = m.scan
      /\ pick' = Unset /\ emptied' = {}
  BY <1>1, <1>2, Recorded DEF StageSpool, Held
<1>7. /\ pending' \in Held /\ (pending'.active <=> m.spool \in Gappy)
      /\ m.spool \in Gappy => pending'.info.of = m.spool /\ pending'.scan = m.scan
      /\ m.spool \notin Gappy => pending'.scan = 0
  BY <1>1, Recorded
<1>8. StateTyped'
  BY <1>5, <1>6, <1>7, Blanks DEF CoreInv, StateTyped, readerVars
<1>9. /\ pending'.active => pending'.info.of = m.spool /\ pending'.scan = m.scan /\ m.spool \in Gappy
                            /\ left'.pending > 0
      /\ ~pending'.active => pending'.scan = 0 /\ left'.pending = 0
  BY <1>3, <1>5, <1>7 DEF w
<1>10. UNCHANGED <<mode, reader, shown, scans, told, doubt, last>>
  BY DEF readerVars
<1>11. CoreInv'
  BY <1>1, <1>2, <1>5, <1>6, <1>8, <1>9, <1>10, StagingKeepsCore
<1>12. BaselineInv'
  BY <1>6, Blanks DEF BaselineInv
<1> QED BY <1>1, <1>11, <1>12

\* For leaves that mix the queues with arithmetic.
LEMMA LessDiffers == ASSUME NEW n \in Nat, NEW k \in Nat, n < k PROVE n # k
  OBVIOUS

\* A smart tag in the fixed mode, whatever comes of the POST.
LEMMA DetectionPostedKeeps ==
  ASSUME U1Inv, NEW m \in Arrived("detected"), m.spool \in Smart, inbox' = Tail(inbox),
         wanted' = Offer(wanted, <<Request(m, FALSE), Request(m, TRUE)>>, SyncDepth),
         UNCHANGED <<mode, readerVars, last, stageVars>>, mode = "fixed", left.backoff = 0,
         NEW o \in Outcomes, Post(o, FixedLane, m.spool, m.scan),
         NEW w, w = IF m.spool \in Gappy THEN Ttl ELSE 0,
         \/ /\ TakenForDone(o) /\ pending' = Registered(TagInfo(m), m.scan)
            /\ left' = [left EXCEPT !.pending = w]
         \/ /\ ~TakenForDone(o) /\ left' = [left EXCEPT !.backoff = BackoffAfter(o)]
            /\ UNCHANGED pending
  PROVE  U1Inv'
<1> USE DEF U1Inv
<1>1. /\ QueueInv' /\ m \in Note /\ News(m.spool, m.scan)
      /\ \A u, n : News(u, n)' => News(u, n) /\ n > m.scan
      /\ \A u, n, b : Asked(u, n, b)' => Asked(u, n, b) \/ (u = m.spool /\ n = m.scan)
  BY SmartTaken DEF readerVars
<1>2. PICK s \in Smart, k \in Nat : s = m.spool /\ k = m.scan
  BY <1>1, NoteKinds
<1>3. /\ s \in Spools /\ k > 0 /\ k <= shown[s]
      /\ staged.scan < k /\ pending.scan < k /\ \A l \in Lanes : told[l].scan < k
      /\ \A u, n, b : Asked(u, n, b) => n < k
  BY <1>1, <1>2, NewsIsLatest
<1>4. Ttl \in Nat \ {0} /\ Ttl \in 0..Ttl /\ 0 \in 0..Ttl /\ left \in [Timers -> 0..Ttl]
  BY BoundAssumption DEF CoreInv, StateTyped
<1>5. /\ \A l \in Lanes : \/ told'[l] = told[l]
                          \/ l = FixedLane /\ told'[l].of = s /\ told'[l].scan = k /\ o \in {"ok",
                                    "lost"}
      /\ told' \in [Lanes -> [of : Spools \cup {NoSpool}, scan : Nat]] /\ faults' \in 0..MaxFaults
  BY <1>2, <1>3, PostTells, LaneAssumption DEF CoreInv
<1>6. UNCHANGED <<mode, reader, version, shown, scans, last, staged, pick, emptied>>
  BY DEF readerVars, stageVars
<1>7. CASE TakenForDone(o)
  <2>1. /\ pending' \in Held /\ (pending'.active <=> s \in Gappy)
        /\ s \in Gappy => pending'.info.of = s /\ pending'.scan = k
        /\ s \notin Gappy => pending'.scan = 0
    BY <1>1, <1>2, <1>7, Recorded
  <2>2. left' \in [Timers -> 0..Ttl] /\ left'.last = left.last
        /\ left'.pending = IF s \in Gappy THEN Ttl ELSE 0
    <3>1. w \in 0..Ttl /\ left' = [left EXCEPT !.pending = w] /\ w = IF s \in Gappy THEN Ttl ELSE 0
      BY <1>2, <1>4, <1>7
    <3> QED BY <3>1, <1>4 DEF Timers
  <2>3. StateTyped'
    BY <2>1, <2>2, <1>5, <1>6 DEF CoreInv, StateTyped
  <2>4. Yields(FixedLane, s)'
    <3>1. FixedLane \in Lanes /\ shown[s] \in Nat /\ told[FixedLane].scan \in Nat
      BY <1>3, CoreFacts
    <3>2. told[FixedLane].scan < k /\ k <= shown[s]
      BY <1>3, <3>1
    <3>3. shown[s] > told[FixedLane].scan
      BY <3>1, <3>2
    <3>4. told'[FixedLane] = told[FixedLane] \/ told'[FixedLane].of = s
      BY <1>5, <3>1
    <3> QED BY <1>6, <3>3, <3>4 DEF Yields
  <2>5. AugmentYields'
    BY <2>1, <2>4 DEF AugmentYields
  <2>6. Uses(k, s)
    BY <1>1, <1>2 DEF Uses
  <2>7. \A u, n : News(u, n)' => News(u, n) /\ k < n /\ pending'.scan < n
    BY <1>1, <1>2, <2>1, QueueNats
  <2>8. \A u \in Generic, n \in Nat : Asked(u, n, TRUE)' => Asked(u, n, TRUE) /\ n # k
    <3> SUFFICES ASSUME NEW u \in Generic, NEW n \in Nat, Asked(u, n, TRUE)'
                 PROVE  Asked(u, n, TRUE) /\ n # k
      OBVIOUS
    <3>1. u # s
      BY CoreFacts
    <3>2. Asked(u, n, TRUE) \/ (u = m.spool /\ n = m.scan)
      BY <1>1
    <3>3. Asked(u, n, TRUE)
      BY <3>1, <3>2, <1>2
    <3>4. n < k
      BY <3>3, <1>3
    <3> QED BY <3>3, <3>4, <1>2, LessDiffers
  <2>9. /\ pending'.active => pending'.info.of = s /\ s \in Gappy /\ pending'.scan = k /\
            left'.pending > 0
        /\ ~pending'.active => pending'.scan = 0 /\ left'.pending = 0
    BY <1>4, <2>1, <2>2
  <2>10. pending'.active => Uses(pending'.scan, pending'.info.of)
    BY <2>6, <2>9
  <2>11. Post(o, FixedLane, s, k)
    BY <1>2
  <2>12. \A u, n, b : Asked(u, n, b)' => Asked(u, n, b) \/ (u = s /\ n = k)
    BY <1>1, <1>2
  <2>13. pending'.active => pending'.info.of \in Gappy /\ pending'.scan > 0 /\ left'.pending > 0
    BY <2>9, <1>3
  <2>14. CoreInv'
    BY <1>3, <1>6, <2>2, <2>3, <2>5, <2>6, <2>7, <2>8, <2>9, <2>10, <2>11, <2>12, <2>13,
       FixedPostKeepsCore
  <2> QED BY <2>14, <1>1, <1>6 DEF BaselineInv
<1>8. CASE ~TakenForDone(o)
  <2>1. pending' = pending /\ left' = [left EXCEPT !.backoff = BackoffAfter(o)]
    BY <1>8
  <2>2. BackoffAfter(o) = IF Unreachable(o) THEN Ttl ELSE left.backoff
    BY <1>8 DEF BackoffAfter
  <2>3. left.backoff \in 0..Ttl
    BY CoreFacts
  <2>4. left' \in [Timers -> 0..Ttl] /\ left'.last = left.last /\ left'.pending = left.pending
        /\ left'.backoff = IF Unreachable(o) THEN Ttl ELSE left.backoff
    BY <2>1, <2>2, <2>3, <1>4 DEF Timers
  <2>5. StateTyped'
    BY <2>1, <2>4, <1>5, <1>6 DEF CoreInv, StateTyped
  <2>6. AugmentYields'
    <3>1. CASE Unreachable(o)
      BY <3>1, <2>4, CoreFacts DEF AugmentYields
    <3>2. CASE ~Unreachable(o)
      <4>1. \A l \in Lanes : told'[l] = told[l]
        BY <3>2, <1>8, <1>5 DEF TakenForDone, Unreachable
      <4>2. FixedLane \in Lanes
        BY LaneAssumption
      <4>3. SyncsLater => SyncsLater'
        BY <2>1, <4>1, <4>2, <1>1, <1>2, <1>3 DEF SyncsLater
      <4> QED BY <2>1, <2>4, <3>2, <4>1, <4>2, <4>3, <1>6
                 DEF AugmentYields, CoreInv, NewerInv, Yields
    <3> QED BY <3>1, <3>2
  <2>7. Uses(k, s)
    BY <1>1, <1>2 DEF Uses
  <2>8. \A u, n : News(u, n)' => News(u, n) /\ k < n /\ pending'.scan < n
    BY <1>1, <1>2, <2>1 DEF CoreInv, NewsLast
  <2>9. \A u \in Generic, n \in Nat : Asked(u, n, TRUE)' => Asked(u, n, TRUE) /\ n # k
    <3> SUFFICES ASSUME NEW u \in Generic, NEW n \in Nat, Asked(u, n, TRUE)'
                 PROVE  Asked(u, n, TRUE) /\ n # k
      OBVIOUS
    <3>1. u # s
      BY CoreFacts
    <3>2. Asked(u, n, TRUE) \/ (u = m.spool /\ n = m.scan)
      BY <1>1
    <3>3. Asked(u, n, TRUE)
      BY <3>1, <3>2, <1>2
    <3>4. n < k
      BY <3>3, <1>3
    <3> QED BY <3>3, <3>4, <1>2, LessDiffers
  <2>10. /\ pending.active => pending.info.of \in Gappy /\ pending.scan > 0 /\ left.pending > 0
         /\ pending.active => Uses(pending.scan, pending.info.of)
         /\ ~pending.active => pending.scan = 0 /\ left.pending = 0
    BY DEF CoreInv, Coherent, Uses
  <2>11. Post(o, FixedLane, s, k) /\ left'.pending = left.pending
    BY <1>2, <2>4
  <2>12. \A u, n, b : Asked(u, n, b)' => Asked(u, n, b) \/ (u = s /\ n = k)
    BY <1>1, <1>2
  <2>13. /\ pending'.active => pending'.info.of \in Gappy /\ pending'.scan > 0 /\ left'.pending > 0
         /\ pending'.active => Uses(pending'.scan, pending'.info.of)
         /\ ~pending'.active => pending'.scan = 0 /\ left'.pending = 0
    BY <2>1, <2>10, <2>11
  <2>14. CoreInv'
    BY <1>3, <1>6, <2>4, <2>5, <2>6, <2>7, <2>8, <2>9, <2>11, <2>12, <2>13, FixedPostKeepsCore
  <2> QED BY <2>14, <1>1, <1>6 DEF BaselineInv
<1> QED BY <1>7, <1>8

\* A smart tag by its mode; with a backoff in force only Spoolman is asked.
LEMMA HandleSpoolDetectedKeeps == ASSUME U1Inv, HandleSpoolDetected PROVE U1Inv'
<1>1. PICK m \in Arrived("detected") :
        /\ m.spool \in Smart /\ PublishFromDetection(m)
        /\ wanted' = Offer(wanted, <<Request(m, FALSE), Request(m, TRUE)>>, SyncDepth)
  BY DEF HandleSpoolDetected
<1>2. inbox' = Tail(inbox) /\ UNCHANGED <<mode, readerVars, last>>
  BY DEF HandleSpoolDetected
<1>3. CASE mode = "stage"
  BY <1>1, <1>2, <1>3, DetectionStagedKeeps DEF PublishFromDetection
<1>4. CASE mode = "fixed" /\ left.backoff > 0
  <2>1. UNCHANGED <<stageVars, pending, left, told, doubt, faults>>
    BY <1>1, <1>4 DEF PublishFromDetection
  <2>2. /\ QueueInv' /\ News(m.spool, m.scan)
        /\ \A u, n : News(u, n)' => News(u, n) /\ n > m.scan
        /\ \A u, n, b : Asked(u, n, b)' => Asked(u, n, b) \/ (u = m.spool /\ n = m.scan)
    BY <1>1, <1>2, SmartTaken DEF readerVars
  <2>3. StateTyped'
    BY <1>2, <2>1 DEF U1Inv, CoreInv, StateTyped, readerVars, stageVars
  <2>4. CoreInv'
    BY <1>2, <2>1, <2>2, <2>3, QueuesKeepCore DEF U1Inv, readerVars, stageVars, coreVars
  <2> QED BY <1>2, <2>1, <2>2, <2>4 DEF U1Inv, BaselineInv, stageVars
<1>5. CASE mode = "fixed" /\ left.backoff = 0
  <2>1. PICK o \in Outcomes :
          /\ Post(o, FixedLane, m.spool, m.scan)
          /\ \/ /\ TakenForDone(o) /\ pending' = Registered(TagInfo(m), m.scan)
                /\ left' = [left EXCEPT !.pending = IF m.spool \in Gappy THEN Ttl ELSE 0]
             \/ /\ ~TakenForDone(o) /\ left' = [left EXCEPT !.backoff = BackoffAfter(o)]
                /\ UNCHANGED pending
    BY <1>1, <1>5 DEF PublishFromDetection
  <2>2. UNCHANGED stageVars
    BY <1>1, <1>5 DEF PublishFromDetection
  <2> QED BY <1>1, <1>2, <1>5, <2>1, <2>2, DetectionPostedKeeps
<1>6. left.backoff = 0 \/ left.backoff > 0
  BY CoreFacts DEF U1Inv
<1> QED BY <1>1, <1>3, <1>4, <1>5, <1>6 DEF U1Inv, CoreInv, StateTyped

\* The answer at the head of the queue, and what the queues hold without it.
LEMMA SyncArrives ==
  ASSUME U1Inv, NEW m \in Arrived("synced"), Synced(m)
  PROVE  /\ QueueInv' /\ Asked(m.spool, m.scan, m.lookup)
         /\ m.spool \in Spools /\ m.scan \in Nat /\ m.scan > 0 /\ m.name \in Names
         /\ m.lookup \in BOOLEAN
         /\ \A u, n : News(u, n)' => News(u, n) /\ m.scan < n
         /\ \A u, n, b : Asked(u, n, b)' => Asked(u, n, b) /\ n >= m.scan /\ (m.lookup => n > m.scan)
         /\ UNCHANGED <<mode, reader, version, shown, scans, last>>
<1>1. inbox' = Tail(inbox) /\ wanted' = wanted /\ scans' = scans
      /\ UNCHANGED <<mode, reader, version, shown, scans, last>>
  BY DEF Synced, readerVars
<1>2. QueueInv
  BY DEF U1Inv
<1>3. /\ QueueInv' /\ m \in Note /\ m.type = "synced" /\ Asked(m.spool, m.scan, m.lookup)
      /\ \A u, n : News(u, n)' => News(u, n)
      /\ \A u, n, b : Asked(u, n, b)' => Asked(u, n, b)
      /\ \A u, n, b : Asked(u, n, b)' => n >= m.scan /\ (m.lookup => n > m.scan)
  BY <1>1, <1>2, SyncTaken
<1>4. \A u, n : News(u, n)' => m.scan < n
  BY <1>2, <1>3, NewsIsNew
<1> QED BY <1>1, <1>3, <1>4, NoteKinds

\* Answers of Spoolman, by what becomes of them.
LEMMA SyncIgnoredKeeps == ASSUME U1Inv, SyncIgnored PROVE U1Inv'
<1> USE DEF U1Inv
<1>1. PICK m \in Arrived("synced") :
        Synced(m) /\ UNCHANGED <<stageVars, pending, left, told, doubt, faults>>
  BY DEF SyncIgnored
<1>2. /\ QueueInv' /\ UNCHANGED <<mode, reader, version, shown, scans, last>>
      /\ \A u, n : News(u, n)' => News(u, n)
      /\ \A u, n, b : Asked(u, n, b)' => Asked(u, n, b)
  BY <1>1, SyncArrives
<1>3. StateTyped'
  BY <1>1, <1>2 DEF CoreInv, StateTyped, stageVars
<1>4. CoreInv'
  BY <1>1, <1>2, <1>3, QueuesKeepCore DEF stageVars, coreVars
<1> QED BY <1>1, <1>2, <1>4 DEF BaselineInv, stageVars

LEMMA LookupStagedKeeps == ASSUME U1Inv, LookupStaged PROVE U1Inv'
<1> USE DEF U1Inv
<1>1. PICK m \in Arrived("synced") :
        /\ Synced(m) /\ m.lookup /\ Counts(m) /\ mode = "stage"
        /\ StageSpool(DatabaseInfo(m), m.scan)
        /\ left' = [left EXCEPT !.staged = Ttl]
        /\ doubt' = IF m.spool \in Smart THEN doubt \cup {m.scan} \cup Waiting(m.spool) ELSE doubt
        /\ UNCHANGED <<pending, told, faults>>
  BY DEF LookupStaged
<1>2. /\ QueueInv' /\ Asked(m.spool, m.scan, m.lookup)
      /\ m.spool \in Spools /\ m.scan \in Nat /\ m.scan > 0 /\ m.lookup \in BOOLEAN
      /\ \A u, n : News(u, n)' => News(u, n)
      /\ \A u, n, b : Asked(u, n, b)' => Asked(u, n, b) /\ (m.lookup => n > m.scan)
      /\ UNCHANGED <<mode, reader, version, shown, scans, last>>
  BY <1>1, SyncArrives
<1>3. PICK s \in Spools, k \in Nat : s = m.spool /\ k = m.scan
  BY <1>2
<1>4. m.lookup = TRUE
  BY <1>1, <1>2
<1>5. Asked(s, k, TRUE) /\ OnReader(s)
  BY <1>1, <1>2, <1>3, <1>4 DEF Counts
<1>6. /\ staged' \in Held /\ staged'.active /\ staged'.info.of = s /\ staged'.scan = k
      /\ pick' = Unset /\ emptied' = {}
  BY <1>1, <1>3 DEF StageSpool, DatabaseInfo, Held, Infos, Names
<1>7. /\ left' \in [Timers -> 0..Ttl] /\ left'.last = left.last /\ left'.backoff = left.backoff
      /\ left'.pending = left.pending
  <2>1. Ttl \in 0..Ttl /\ left \in [Timers -> 0..Ttl]
    BY BoundAssumption DEF CoreInv, StateTyped
  <2> QED BY <1>1, <2>1 DEF Timers
<1>8. StateTyped'
  BY <1>1, <1>2, <1>6, <1>7, Blanks DEF CoreInv, StateTyped
<1>9. \A u, n, b : Asked(u, n, b)' => Asked(u, n, b) /\ n > k
  BY <1>1, <1>2, <1>3
<1>10. doubt' = IF s \in Smart THEN doubt \cup {k} \cup Waiting(s) ELSE doubt
  BY <1>1, <1>3
<1>11. CoreInv'
  BY <1>1, <1>2, <1>5, <1>6, <1>7, <1>8, <1>9, <1>10, LookupStagedKeepsCore
<1>12. BaselineInv'
  BY <1>6, Blanks DEF BaselineInv
<1> QED BY <1>2, <1>11, <1>12

\* What a reply does to the backoff.
LEMMA BackoffTyped ==
  ASSUME U1Inv, NEW o \in Outcomes
  PROVE  /\ BackoffAfter(o) \in 0..Ttl
         /\ Unreachable(o) => BackoffAfter(o) = Ttl
         /\ ~Unreachable(o) /\ left.backoff = 0 => BackoffAfter(o) = 0
<1>1. Ttl \in Nat /\ left.backoff \in 0..Ttl
  BY CoreFacts DEF U1Inv
<1>2. /\ TakenForDone(o) => ~Unreachable(o) /\ BackoffAfter(o) = 0
      /\ Unreachable(o) => BackoffAfter(o) = Ttl
      /\ ~TakenForDone(o) /\ ~Unreachable(o) => BackoffAfter(o) = left.backoff
  BY DEF BackoffAfter, TakenForDone, Unreachable
<1> QED BY <1>1, <1>2

LEMMA LookupPostedKeeps == ASSUME U1Inv, LookupPosted PROVE U1Inv'
<1> USE DEF U1Inv
<1>1. PICK m \in Arrived("synced"), o \in Outcomes :
        /\ Synced(m) /\ m.lookup /\ Counts(m) /\ mode = "fixed"
        /\ Post(o, FixedLane, m.spool, m.scan)
        /\ left' = [left EXCEPT !.backoff = BackoffAfter(o)]
        /\ UNCHANGED <<stageVars, pending>>
  BY DEF LookupPosted
<1>2. /\ QueueInv' /\ Asked(m.spool, m.scan, m.lookup)
      /\ m.spool \in Spools /\ m.scan \in Nat /\ m.scan > 0 /\ m.lookup \in BOOLEAN
      /\ \A u, n : News(u, n)' => News(u, n) /\ m.scan < n
      /\ \A u, n, b : Asked(u, n, b)' => Asked(u, n, b) /\ (m.lookup => n > m.scan)
      /\ UNCHANGED <<mode, reader, version, shown, scans, last>>
  BY <1>1, SyncArrives
<1>3. PICK s \in Spools, k \in Nat : s = m.spool /\ k = m.scan
  BY <1>2
<1>4. /\ k > 0 /\ Post(o, FixedLane, s, k) /\ Uses(k, s)
      /\ \A u, n, b : Asked(u, n, b)' => Asked(u, n, b) /\ n > k
      /\ \A u, n : News(u, n)' => News(u, n) /\ k < n
  BY <1>1, <1>2, <1>3 DEF Uses
<1>5. UNCHANGED <<staged, pick, emptied, pending>>
  BY <1>1 DEF stageVars
<1>6. /\ told' \in [Lanes -> [of : Spools \cup {NoSpool}, scan : Nat]] /\ faults' \in 0..MaxFaults
      /\ \A l \in Lanes : \/ told'[l] = told[l]
                          \/ l = FixedLane /\ told'[l].scan = k /\ o \in {"ok", "lost"}
  BY <1>3, <1>4, PostTells, CoreFacts DEF CoreInv
<1>7. /\ left' \in [Timers -> 0..Ttl] /\ left'.last = left.last /\ left'.pending = left.pending
      /\ left'.backoff = BackoffAfter(o)
  <2>1. left \in [Timers -> 0..Ttl]
    BY DEF CoreInv, StateTyped
  <2> QED BY <1>1, <2>1, BackoffTyped DEF Timers
<1>8. StateTyped'
  BY <1>2, <1>5, <1>6, <1>7 DEF CoreInv, StateTyped
<1>9. AugmentYields'
  <2>1. CASE Unreachable(o)
    <3>1. left'.backoff = Ttl /\ left.pending \in 0..Ttl /\ Ttl \in Nat
      BY <2>1, <1>7, BackoffTyped, CoreFacts
    <3> QED BY <3>1, <1>7 DEF AugmentYields
  <2>2. CASE ~Unreachable(o) /\ told'[FixedLane].scan = k
    <3>1. SyncsLater'
      BY <1>4, <2>2 DEF SyncsLater
    <3> QED BY <3>1 DEF AugmentYields
  <2>3. CASE ~Unreachable(o) /\ told'[FixedLane] = told[FixedLane]
    <3>1. left.backoff = 0 /\ left'.backoff = 0
      BY <1>1, <1>7, <2>3, BackoffTyped DEF Counts
    <3>2. SyncsLater => SyncsLater'
      BY <1>4, <1>5, <2>3 DEF SyncsLater
    <3>3. Yields(FixedLane, pending.info.of) => Yields(FixedLane, pending.info.of)'
      BY <1>2, <1>5, <2>3 DEF Yields
    <3> QED BY <1>2, <1>5, <1>7, <3>1, <3>2, <3>3 DEF AugmentYields, CoreInv, NewerInv
  <2> QED BY <1>6, <2>1, <2>2, <2>3, CoreFacts
<1>10. \A u \in Generic, n \in Nat : Asked(u, n, TRUE)' => Asked(u, n, TRUE) /\ n # k
  <2> SUFFICES ASSUME NEW u \in Generic, NEW n \in Nat, Asked(u, n, TRUE)'
               PROVE  Asked(u, n, TRUE) /\ n # k
    OBVIOUS
  <2>1. Asked(u, n, TRUE) /\ n > k
    BY <1>4
  <2>2. n # k
    BY <2>1
  <2> QED BY <2>1, <2>2
<1>11. \A u, n : News(u, n)' => News(u, n) /\ k < n /\ pending'.scan < n
  BY <1>4, <1>5 DEF CoreInv, NewsLast
<1>12. /\ pending'.active => pending'.info.of \in Gappy /\ pending'.scan > 0 /\ left'.pending > 0
       /\ pending'.active => Uses(pending'.scan, pending'.info.of)
       /\ ~pending'.active => pending'.scan = 0 /\ left'.pending = 0
  BY <1>5, <1>7 DEF CoreInv, Coherent, Uses
<1>13. CoreInv'
  BY <1>1, <1>2, <1>4, <1>5, <1>7, <1>8, <1>9, <1>10, <1>11, <1>12, FixedPostKeepsCore
<1> QED BY <1>2, <1>5, <1>13 DEF BaselineInv

\* A sync that is for the augment takes it.
LEMMA AugmentTaken ==
  ASSUME U1Inv, NEW m \in Arrived("synced"), Augment(m)
  PROVE  /\ pending.active /\ pending.info.of = m.spool /\ m.spool \in Gappy /\ m.spool \in Smart
         /\ pending.scan \in Nat /\ pending.scan > 0 /\ left.backoff = 0 /\ left.pending > 0
         /\ ~pending'.active /\ pending'.scan = 0 /\ pending' \in Held
         /\ Uses(pending.scan, m.spool) /\ Asked(m.spool, m.scan, FALSE)
         /\ Merged(m) \in Infos /\ Merged(m).of = m.spool
<1> USE DEF U1Inv
<1>1. pending.active /\ pending.info.of = m.spool /\ left.backoff = 0 /\ pending' = NoAugment
  BY DEF Augment, Counts
<1>2. m.name \in Names /\ Asked(m.spool, m.scan, m.lookup) /\ m.lookup \in BOOLEAN
  BY SyncArrives DEF Augment
<1>3. m.lookup = FALSE
  BY <1>2 DEF Augment
<1>4. pending.info \in Infos /\ pending.scan \in Nat
  BY DEF CoreInv, StateTyped, Held
<1>5. Merged(m) \in Infos /\ Merged(m).of = m.spool
  BY <1>1, <1>2, <1>4 DEF Merged, Infos
<1>6. m.spool \in Gappy /\ m.spool \in Smart /\ pending.scan > 0 /\ left.pending > 0
  BY <1>1, SpoolAssumption DEF CoreInv, Coherent
<1>7. Uses(pending.scan, m.spool)
  BY <1>1 DEF Uses
<1> QED BY <1>1, <1>2, <1>3, <1>4, <1>5, <1>6, <1>7, Blanks

\* What the steps that use up the augment have in common.
LEMMA AugmentLeft ==
  ASSUME U1Inv, NEW b \in 0..Ttl,
         left' = [left EXCEPT !.pending = 0, !.backoff = b]
  PROVE  /\ left' \in [Timers -> 0..Ttl] /\ left'.last = left.last /\ left'.pending = 0
         /\ left'.backoff = b
<1>1. left \in [Timers -> 0..Ttl] /\ 0 \in 0..Ttl
  BY BoundAssumption DEF U1Inv, CoreInv, StateTyped
<1> QED BY <1>1 DEF Timers

\* The same where the backoff stays as it is.
LEMMA PendingLeft ==
  ASSUME U1Inv, left' = [left EXCEPT !.pending = 0]
  PROVE  /\ left' \in [Timers -> 0..Ttl] /\ left'.last = left.last /\ left'.pending = 0
         /\ left'.backoff = left.backoff
<1>1. left \in [Timers -> 0..Ttl] /\ 0 \in 0..Ttl
  BY BoundAssumption DEF U1Inv, CoreInv, StateTyped
<1> QED BY <1>1 DEF Timers

LEMMA AugmentBringsNothingKeeps == ASSUME U1Inv, AugmentBringsNothing PROVE U1Inv'
<1> USE DEF U1Inv
<1>1. PICK m \in Arrived("synced") :
        /\ Augment(m) /\ left' = [left EXCEPT !.pending = 0]
        /\ UNCHANGED <<stageVars, told, doubt, faults>>
  BY DEF AugmentBringsNothing
<1>2. /\ QueueInv' /\ (\A u, n : News(u, n)' => News(u, n))
      /\ (\A u, n, b : Asked(u, n, b)' => Asked(u, n, b))
      /\ UNCHANGED <<mode, reader, version, shown, scans, last>>
  BY <1>1, SyncArrives DEF Augment
<1>3. ~pending'.active /\ pending'.scan = 0 /\ pending' \in Held
  BY <1>1, AugmentTaken
<1>4. /\ left' \in [Timers -> 0..Ttl] /\ left'.last = left.last /\ left'.pending = 0
      /\ left'.backoff = left.backoff
  BY <1>1, PendingLeft
<1>5. StateTyped' /\ Coherent'
  BY <1>1, <1>2, <1>3, <1>4 DEF CoreInv, StateTyped, Coherent, stageVars
<1>6. CoreInv'
  BY <1>1, <1>2, <1>3, <1>4, <1>5, LettingGoKeepsCore DEF stageVars
<1> QED BY <1>1, <1>2, <1>6 DEF BaselineInv, stageVars

LEMMA AugmentStagedKeeps == ASSUME U1Inv, AugmentStaged PROVE U1Inv'
<1> USE DEF U1Inv
<1>1. PICK m \in Arrived("synced") :
        /\ Augment(m) /\ StillStaged(m)
        /\ staged' = [staged EXCEPT !.info = Merged(m)]
        /\ left' = [left EXCEPT !.pending = 0]
        /\ UNCHANGED <<pick, emptied, told, doubt, faults>>
  BY DEF AugmentStaged
<1>2. /\ QueueInv' /\ (\A u, n : News(u, n)' => News(u, n))
      /\ (\A u, n, b : Asked(u, n, b)' => Asked(u, n, b))
      /\ UNCHANGED <<mode, reader, version, shown, scans, last>>
  BY <1>1, SyncArrives DEF Augment
<1>3. ~pending'.active /\ pending'.scan = 0 /\ pending' \in Held
      /\ Merged(m) \in Infos /\ Merged(m).of = m.spool
  BY <1>1, AugmentTaken
<1>4. /\ left' \in [Timers -> 0..Ttl] /\ left'.last = left.last /\ left'.pending = 0
      /\ left'.backoff = left.backoff
  BY <1>1, PendingLeft
<1>5. /\ staged' \in Held /\ staged'.active = staged.active /\ staged'.scan = staged.scan
      /\ staged'.info.of = staged.info.of
  BY <1>1, <1>3 DEF StillStaged, CoreInv, StateTyped, Held
<1>6. StateTyped' /\ Coherent'
  BY <1>1, <1>2, <1>3, <1>4, <1>5 DEF CoreInv, StateTyped, Coherent
<1>7. CoreInv'
  BY <1>1, <1>2, <1>3, <1>4, <1>5, <1>6, LettingGoKeepsCore
<1> QED BY <1>1, <1>2, <1>7 DEF BaselineInv

LEMMA AugmentAfterAssignKeeps == ASSUME U1Inv, AugmentAfterAssign PROVE U1Inv'
<1> USE DEF U1Inv
<1>1. PICK m \in Arrived("synced"), o \in Outcomes :
        /\ Augment(m) /\ mode = "stage" /\ ~StillStaged(m) /\ PickedFor(m)
        /\ Post(o, last.lane, m.spool, pending.scan)
        /\ left' = [left EXCEPT !.pending = 0]
        /\ UNCHANGED stageVars
  BY DEF AugmentAfterAssign
<1>2. /\ QueueInv' /\ (\A u, n : News(u, n)' => News(u, n))
      /\ (\A u, n, b : Asked(u, n, b)' => Asked(u, n, b))
      /\ UNCHANGED <<mode, reader, version, shown, scans, last>>
  BY <1>1, SyncArrives DEF Augment
<1>3. /\ pending.active /\ pending.info.of = m.spool /\ m.spool \in Spools /\ pending.scan \in Nat
      /\ ~pending'.active /\ pending'.scan = 0 /\ pending' \in Held /\ pending' = NoAugment
  BY <1>1, AugmentTaken DEF Augment, Spools
<1>4. /\ left' \in [Timers -> 0..Ttl] /\ left'.last = left.last /\ left'.pending = 0
      /\ left'.backoff = left.backoff
  BY <1>1, PendingLeft
<1>5. last.uid = m.spool /\ last.lane \in Lanes
  BY <1>1, <1>3, SpoolAssumption DEF PickedFor, CoreInv, Coherent
<1>6. told' \in [Lanes -> [of : Spools \cup {NoSpool}, scan : Nat]] /\ faults' \in 0..MaxFaults
  BY <1>1, <1>3, <1>5, PostTells DEF CoreInv
<1>7. StateTyped'
  BY <1>1, <1>2, <1>3, <1>4, <1>6 DEF CoreInv, StateTyped, stageVars
<1>8. ~(staged.active /\ staged.info.of = pending.info.of) /\ Post(o, last.lane, pending.info.of,
          pending.scan)
  BY <1>1, <1>3 DEF StillStaged
<1>9. UNCHANGED <<mode, reader, shown, scans, staged, last>>
  BY <1>1, <1>2 DEF stageVars
<1>10. CoreInv'
  BY <1>1, <1>2, <1>3, <1>4, <1>5, <1>7, <1>8, <1>9, AugmentAfterAssignKeepsCore
<1> QED BY <1>1, <1>2, <1>10 DEF BaselineInv, stageVars

LEMMA AugmentPostedKeeps == ASSUME U1Inv, AugmentPosted PROVE U1Inv'
<1> USE DEF U1Inv
<1>1. PICK m \in Arrived("synced"), o \in Outcomes :
        /\ Augment(m) /\ mode = "fixed"
        /\ Post(o, FixedLane, m.spool, pending.scan)
        /\ left' = [left EXCEPT !.pending = 0, !.backoff = BackoffAfter(o)]
        /\ UNCHANGED stageVars
  BY DEF AugmentPosted
<1>2. /\ QueueInv' /\ (\A u, n : News(u, n)' => News(u, n))
      /\ (\A u, n, b : Asked(u, n, b)' => Asked(u, n, b))
      /\ UNCHANGED <<mode, reader, version, shown, scans, last>>
  BY <1>1, SyncArrives DEF Augment
<1>3. /\ m.spool \in Smart /\ pending.scan \in Nat /\ pending.scan > 0 /\ Uses(pending.scan, m.spool)
      /\ ~pending'.active /\ pending'.scan = 0 /\ pending' \in Held
  BY <1>1, AugmentTaken
<1>4. PICK s \in Smart, k \in Nat : s = m.spool /\ k = pending.scan
  BY <1>3
<1>5. /\ s \in Spools /\ k > 0 /\ Uses(k, s) /\ Post(o, FixedLane, s, k)
  BY <1>1, <1>3, <1>4 DEF Spools
<1>6. /\ left' \in [Timers -> 0..Ttl] /\ left'.last = left.last /\ left'.pending = 0
  BY <1>1, AugmentLeft, BackoffTyped
<1>7. told' \in [Lanes -> [of : Spools \cup {NoSpool}, scan : Nat]] /\ faults' \in 0..MaxFaults
  BY <1>5, PostTells, LaneAssumption DEF CoreInv
<1>8. UNCHANGED <<mode, reader, shown, scans, staged, last, pick, emptied>>
  BY <1>1, <1>2 DEF stageVars
<1>9. StateTyped'
  BY <1>2, <1>3, <1>6, <1>7, <1>8 DEF CoreInv, StateTyped
<1>10. AugmentYields'
  BY <1>3 DEF AugmentYields
<1>11. ASSUME NEW u \in Generic, NEW n \in Nat, Asked(u, n, TRUE)'
       PROVE  Asked(u, n, TRUE) /\ n # k
  <2>1. Asked(u, n, TRUE) /\ u \in Spools /\ u # s
    BY <1>2, <1>11, CoreFacts
  <2>2. Uses(n, u)
    BY <2>1 DEF Uses
  <2>3. n = k => u = s
    BY <2>1, <2>2, <1>5 DEF CoreInv, ScansInv
  <2> QED BY <2>1, <2>3
<1>12. \A u, n : News(u, n)' => News(u, n) /\ k < n /\ pending'.scan < n
  <2> SUFFICES ASSUME NEW u, NEW n, News(u, n)' PROVE News(u, n) /\ k < n /\ pending'.scan < n
    OBVIOUS
  <2>1. News(u, n)
    BY <1>2
  <2>2. n \in Nat /\ n > 0
    BY <2>1, QueueNats
  <2> QED BY <2>1, <2>2, <1>3, <1>4 DEF CoreInv, NewsLast
<1>13. CoreInv'
  BY <1>1, <1>2, <1>3, <1>5, <1>6, <1>8, <1>9, <1>10, <1>11, <1>12, FixedPostKeepsCore
<1> QED BY <1>2, <1>8, <1>13 DEF BaselineInv

\* Every step keeps the invariant.
LEMMA StepInv == U1Inv /\ [Next]_u1Vars => U1Inv'
<1> SUFFICES ASSUME U1Inv, [Next]_u1Vars PROVE U1Inv'
  OBVIOUS
<1>1. CASE UNCHANGED u1Vars
  <2>1. StateTyped' /\ QueueInv' /\ BaselineInv'
    BY <1>1, QueueInvStays DEF u1Vars, U1Inv, CoreInv, StateTyped, BaselineInv
  <2> QED BY <1>1, <2>1, QueuesStay, QueuesKeepCore DEF u1Vars, coreVars, U1Inv
<1>2. ASSUME NEW s \in Spools, Scan(s) PROVE U1Inv'
  BY <1>2, ScanKeeps
<1>3. CASE Rewrite
  BY <1>3, RewriteKeeps
<1>4. CASE Remove
  BY <1>4, RemoveKeeps
<1>5. ASSUME NEW ok \in BOOLEAN, Answer(ok) PROVE U1Inv'
  BY <1>5, AnswerKeeps
<1>6. ASSUME NEW l \in Lanes, Pick(l) PROVE U1Inv'
  BY <1>6, PickKeeps
<1>7. CASE GetStagedState
  BY <1>7, GetStagedStateKeeps
<1>8. CASE PollFails
  BY <1>8, PollFailsKeeps
<1>9. ASSUME NEW loaded \in SUBSET Lanes,
          PollBaseline(loaded) \/ PollCounts(loaded) \/ PollAssigns(loaded)
      PROVE  U1Inv'
  BY <1>9, PollKeeps, PollAssignsKeeps
<1>10. CASE HandleSpoolDetected
  BY <1>10, HandleSpoolDetectedKeeps
<1>11. CASE HandleGenericTagDetected
  BY <1>11, HandleGenericKeeps
<1>12. CASE HandleSpoolmanSynced
  BY <1>12, SyncIgnoredKeeps, LookupStagedKeeps, LookupPostedKeeps, AugmentBringsNothingKeeps,
     AugmentStagedKeeps, AugmentAfterAssignKeeps, AugmentPostedKeeps DEF HandleSpoolmanSynced
<1>13. CASE Tick
  BY <1>13, TickKeeps
<1> QED BY <1>1, <1>2, <1>3, <1>4, <1>5, <1>6, <1>7, <1>8, <1>9, <1>10, <1>11, <1>12, <1>13 DEF Next

\* The invariant: the queues keep the order of the scans; every scan is of one spool and none is
\* newer than a detection that waits; what is staged, asked for or to be completed was told to no
\* other lane; and whatever may yet be told is newer than what its lane holds, or the backoff
\* outlasts it.
THEOREM U1Invariant == U1Spec => []U1Inv
BY InitInv, StepInv, PTL DEF U1Spec

-----------------------------------------------------------------------------
(* What the printer is told *)

\* At most one lane is told of something, a spool it may be told of, and no other lane has been
\* told of the scan.
Tells(lane, s, k) ==
  /\ \A l \in Lanes : \/ told'[l] = told[l]
                      \/ l = lane /\ told'[l].of = s /\ told'[l].scan = k
  /\ \A l \in Lanes : l # lane => ~Said(k, l) \/ k = 0
  /\ Yields(lane, s)

\* The lane of the fixed mode is the only one ever told of anything.
LEMMA FixedTells ==
  ASSUME U1Inv, mode = "fixed", NEW o \in Outcomes, NEW s \in Spools, NEW k \in Nat, k > 0,
         Post(o, FixedLane, s, k), Yields(FixedLane, s)
  PROVE  Tells(FixedLane, s, k) /\ doubt \subseteq doubt'
<1>1. \A l \in Lanes : l # FixedLane => told[l].scan = 0
  BY DEF U1Inv, CoreInv, Coherent
<1>2. /\ \A l \in Lanes : \/ told'[l] = told[l]
                          \/ l = FixedLane /\ told'[l].of = s /\ told'[l].scan = k
      /\ doubt \subseteq doubt'
  BY PostTells, LaneAssumption DEF U1Inv, CoreInv
<1> QED BY <1>1, <1>2 DEF Tells, Said

\* A staged scan was told to no lane, and its spool is newer than what any lane holds.
LEMMA AssignTells ==
  ASSUME U1Inv, NEW lane \in Lanes, NEW o \in Outcomes, AssignStagedToChannel(o, lane)
  PROVE  Tells(lane, staged.info.of, staged.scan) /\ doubt \subseteq doubt'
<1>1. /\ staged.active /\ staged.info.of \in Spools /\ staged.scan \in Nat
      /\ Post(o, lane, staged.info.of, staged.scan)
  BY AssignTyped DEF U1Inv, AssignStagedToChannel
<1>2. /\ \A l \in Lanes : \/ told'[l] = told[l]
                          \/ l = lane /\ told'[l].of = staged.info.of /\ told'[l].scan = staged.scan
      /\ doubt \subseteq doubt'
  BY <1>1, PostTells DEF U1Inv, CoreInv
<1>3. Yields(lane, staged.info.of) /\ \A l \in Lanes : ~Said(staged.scan, l)
  BY <1>1 DEF U1Inv, CoreInv, UnsaidInv, StagedUnsaid, NewerInv, StagedNewer
<1> QED BY <1>2, <1>3 DEF Tells

\* A detection is newer than what the lane holds.
LEMMA DetectionTells ==
  ASSUME U1Inv, HandleSpoolDetected
  PROVE  (UNCHANGED told \/ \E lane \in Lanes, s \in Spools, k \in Nat : Tells(lane, s, k))
         /\ doubt \subseteq doubt'
<1>1. PICK m \in Arrived("detected") : m.spool \in Smart /\ PublishFromDetection(m)
  BY DEF HandleSpoolDetected
<1>2. CASE UNCHANGED <<told, doubt>>
  BY <1>2
<1>3. ASSUME mode = "fixed", NEW o \in Outcomes, Post(o, FixedLane, m.spool, m.scan)
      PROVE  (\E lane \in Lanes, s \in Spools, k \in Nat : Tells(lane, s, k)) /\ doubt \subseteq doubt'
  <2>1. m \in Note /\ m.type = "detected" /\ inbox[1] = m /\ 1 \in 1..Len(inbox)
    BY HeadArrived DEF U1Inv
  <2>2. News(m.spool, m.scan)
    BY <2>1 DEF News
  <2>3. /\ m.spool \in Spools /\ m.scan \in Nat /\ m.scan > 0 /\ m.scan <= shown[m.spool]
        /\ told[FixedLane].scan < m.scan /\ shown[m.spool] \in Nat /\ told[FixedLane].scan \in Nat
        /\ FixedLane \in Lanes
    BY <2>2, NewsIsLatest, CoreFacts DEF U1Inv
  <2>4. shown[m.spool] > told[FixedLane].scan
    BY <2>3
  <2> QED BY <1>3, <2>3, <2>4, FixedTells DEF Yields
<1> QED BY <1>1, <1>2, <1>3 DEF PublishFromDetection

\* A lookup counts only for the spool on the reader, the newest of all.
LEMMA LookupTells ==
  ASSUME U1Inv, LookupPosted
  PROVE  (\E lane \in Lanes, s \in Spools, k \in Nat : Tells(lane, s, k)) /\ doubt \subseteq doubt'
<1>1. PICK m \in Arrived("synced"), o \in Outcomes :
        /\ Synced(m) /\ m.lookup /\ Counts(m) /\ mode = "fixed"
        /\ Post(o, FixedLane, m.spool, m.scan)
  BY DEF LookupPosted
<1>2. m.spool \in Spools /\ m.scan \in Nat /\ m.scan > 0 /\ FixedLane \in Lanes
  BY <1>1, SyncArrives, LaneAssumption
<1>3. Yields(FixedLane, m.spool)
  BY <1>1, <1>2, OnReaderIsLatest DEF Counts, U1Inv
<1> QED BY <1>1, <1>2, <1>3, FixedTells

\* An augment that is told outlasted every failed POST, so its lane yields or holds its spool.
LEMMA AugmentTells ==
  ASSUME U1Inv, AugmentPosted \/ AugmentAfterAssign
  PROVE  (\E lane \in Lanes, s \in Spools, k \in Nat : Tells(lane, s, k)) /\ doubt \subseteq doubt'
<1> USE DEF U1Inv
<1>1. CASE AugmentPosted
  <2>1. PICK m \in Arrived("synced"), o \in Outcomes :
          Augment(m) /\ mode = "fixed" /\ Post(o, FixedLane, m.spool, pending.scan)
    BY <1>1 DEF AugmentPosted
  <2>2. /\ pending.active /\ pending.info.of = m.spool /\ m.spool \in Spools
        /\ pending.scan \in Nat /\ pending.scan > 0 /\ left.backoff = 0 /\ left.pending > 0
        /\ Asked(m.spool, m.scan, FALSE)
    BY <2>1, AugmentTaken DEF Spools
  <2>3. Yields(FixedLane, m.spool) \/ SyncsLater
    BY <2>1, <2>2, CoreFacts DEF CoreInv, NewerInv, AugmentYields
  <2>4. SyncsLater => Yields(FixedLane, m.spool)
    <3> SUFFICES ASSUME SyncsLater PROVE shown[m.spool] > told[FixedLane].scan
      BY DEF Yields
    <3>1. m.scan > told[FixedLane].scan /\ m.scan \in Nat /\ m.scan > 0
      BY <2>2, QueueNats DEF SyncsLater
    <3>2. Uses(m.scan, m.spool)
      BY <2>2 DEF Uses
    <3>3. m.scan <= shown[m.spool]
      BY <3>1, <3>2, <2>2 DEF CoreInv, ScansInv
    <3>4. shown[m.spool] \in Nat /\ told[FixedLane].scan \in Nat
      BY <2>2, CoreFacts
    <3> QED BY <3>1, <3>3, <3>4
  <2> QED BY <2>1, <2>2, <2>3, <2>4, FixedTells, LaneAssumption
<1>2. CASE AugmentAfterAssign
  <2>1. PICK m \in Arrived("synced"), o \in Outcomes :
          /\ Augment(m) /\ mode = "stage" /\ PickedFor(m)
          /\ Post(o, last.lane, m.spool, pending.scan)
    BY <1>2 DEF AugmentAfterAssign
  <2>2. /\ pending.active /\ pending.info.of = m.spool /\ m.spool \in Spools
        /\ pending.scan \in Nat /\ left.backoff = 0
    BY <2>1, AugmentTaken DEF Spools
  <2>3. last.uid = m.spool /\ last.uid # NoSpool /\ last.lane \in Lanes /\ left.last # 0
        /\ left.last \in 0..Ttl
    BY <2>1, <2>2, CoreFacts DEF PickedFor, CoreInv, Coherent
  <2>4. Yields(last.lane, m.spool)
    BY <2>2, <2>3, BoundAssumption DEF CoreInv, NewerInv, PickedYields
  <2>5. \A l \in Lanes : l # last.lane => ~Said(pending.scan, l)
    BY <2>1, <2>2, <2>3 DEF CoreInv, UnsaidInv, AugmentKnowsLane
  <2>6. /\ \A l \in Lanes : \/ told'[l] = told[l]
                            \/ l = last.lane /\ told'[l].of = m.spool /\ told'[l].scan = pending.scan
        /\ doubt \subseteq doubt'
    BY <2>1, <2>2, <2>3, PostTells DEF CoreInv
  <2>7. Tells(last.lane, m.spool, pending.scan)
    BY <2>4, <2>5, <2>6 DEF Tells
  <2> QED BY <2>2, <2>3, <2>6, <2>7
<1> QED BY <1>1, <1>2

\* Every step tells the printer nothing, or one lane something it may be told.
LEMMA StepTells ==
  ASSUME U1Inv, Next
  PROVE  (UNCHANGED told \/ \E lane \in Lanes, s \in Spools, k \in Nat : Tells(lane, s, k))
         /\ doubt \subseteq doubt'
<1>1. CASE UNCHANGED <<told, doubt>>
  BY <1>1
<1>2. ASSUME NEW lane \in Lanes, NEW o \in Outcomes, AssignStagedToChannel(o, lane)
      PROVE  (\E l \in Lanes, s \in Spools, k \in Nat : Tells(l, s, k)) /\ doubt \subseteq doubt'
  <2>1. staged.info.of \in Spools /\ staged.scan \in Nat
    BY <1>2, AssignTyped DEF U1Inv
  <2> QED BY <1>2, <2>1, AssignTells
<1>3. ASSUME NEW lane \in Lanes, Pick(lane)
      PROVE  (\E l \in Lanes, s \in Spools, k \in Nat : Tells(l, s, k)) /\ doubt \subseteq doubt'
  BY <1>2, <1>3 DEF Pick
<1>4. ASSUME NEW loaded \in SUBSET Lanes, PollAssigns(loaded)
      PROVE  (\E l \in Lanes, s \in Spools, k \in Nat : Tells(l, s, k)) /\ doubt \subseteq doubt'
  <2>1. Settled(loaded) \in SUBSET Lanes /\ Settled(loaded) # {}
    BY <1>4 DEF PollAssigns, Settled
  <2>2. First(Settled(loaded)) \in Lanes
    BY <2>1, LowestLane
  <2>3. PICK o \in Outcomes : AssignStagedToChannel(o, First(Settled(loaded)))
    BY <1>4 DEF PollAssigns
  <2> QED BY <2>2, <2>3, <1>2
<1>5. CASE LookupStaged
  BY <1>5 DEF LookupStaged
<1>6. CASE HandleSpoolmanSynced
  BY <1>5, <1>6, LookupTells, AugmentTells
     DEF HandleSpoolmanSynced, SyncIgnored, AugmentBringsNothing, AugmentStaged
<1>7. ASSUME NEW s \in Spools, Scan(s) PROVE UNCHANGED <<told, doubt>>
  BY <1>7 DEF Scan, Announce
<1>8. CASE Rewrite \/ Remove \/ GetStagedState \/ PollFails \/ HandleGenericTagDetected \/ Tick
  BY <1>1, <1>8
     DEF Rewrite, Announce, Remove, GetStagedState, PollFails, HandleGenericTagDetected, Tick
<1>9. ASSUME NEW ok \in BOOLEAN, Answer(ok) PROVE UNCHANGED <<told, doubt>>
  BY <1>9 DEF Answer
<1>10. ASSUME NEW loaded \in SUBSET Lanes, PollBaseline(loaded) \/ PollCounts(loaded)
       PROVE  UNCHANGED <<told, doubt>>
  BY <1>10 DEF PollBaseline, PollCounts
<1> QED BY <1>1, <1>3, <1>4, <1>6, <1>7, <1>8, <1>9, <1>10, DetectionTells DEF Next

\* One scan puts its spool on one lane at most, whoever picks and whenever the sync answers.
THEOREM OneLanePerScanHolds == U1Spec => []OneLanePerScan
<1>1. Init => OneLanePerScan
  BY DEF Init, OneLanePerScan
<1>2. U1Inv /\ OneLanePerScan /\ [Next]_u1Vars => OneLanePerScan'
  <2> SUFFICES ASSUME U1Inv, OneLanePerScan, [Next]_u1Vars PROVE OneLanePerScan'
    OBVIOUS
  <2>1. CASE UNCHANGED <<told, doubt>>
    BY <2>1 DEF OneLanePerScan
  <2>2. CASE doubt \subseteq doubt' /\ UNCHANGED told
    BY <2>2 DEF OneLanePerScan
  <2>3. ASSUME doubt \subseteq doubt', NEW lane \in Lanes, NEW s \in Spools, NEW k \in Nat,
            Tells(lane, s, k)
        PROVE  OneLanePerScan'
    <3> SUFFICES ASSUME NEW i \in Lanes, NEW j \in Lanes, i # j, told'[i].scan = told'[j].scan
                 PROVE  told'[i].scan \in doubt' \cup {0}
      BY DEF OneLanePerScan
    <3>1. CASE told'[i] = told[i] /\ told'[j] = told[j]
      BY <2>3, <3>1 DEF OneLanePerScan
    <3>2. CASE i = lane /\ told'[i].scan = k
      BY <2>3, <3>2 DEF Tells, Said
    <3>3. CASE j = lane /\ told'[j].scan = k
      BY <2>3, <3>3 DEF Tells, Said
    <3> QED BY <2>3, <3>1, <3>2, <3>3 DEF Tells
  <2> QED BY <2>1, <2>2, <2>3, StepTells DEF u1Vars
<1> QED BY <1>1, <1>2, U1Invariant, PTL DEF U1Spec

\* A lane changes to another spool only if that was detected after the one it displaces.
THEOREM NewerScanStandsHolds == U1Spec => NewerScanStands
<1>1. U1Inv /\ [Next]_u1Vars => [\A l \in Lanes : told'[l].of # told[l].of
                                   => shown[told'[l].of] > told[l].scan]_u1Vars
  BY StepTells DEF Tells, Yields
<1> QED BY <1>1, U1Invariant, PTL DEF U1Spec, NewerScanStands

\* The sensors pick a lane only if a poll found it empty since the spool was staged.
THEOREM AutoPickIsAnEdgeHolds == U1Spec => AutoPickIsAnEdge
<1>1. U1Inv => \A loaded \in SUBSET Lanes : PollAssigns(loaded) => First(Settled(loaded)) \in emptied
  <2> SUFFICES ASSUME U1Inv, NEW loaded \in SUBSET Lanes, PollAssigns(loaded)
               PROVE  First(Settled(loaded)) \in emptied
    OBVIOUS
  <2>1. /\ Settled(loaded) # {} /\ pick.valid
        /\ Settled(loaded) \in SUBSET Lanes /\ Settled(loaded) \subseteq Lanes \ pick.baseline
    BY DEF PollAssigns, Settled
  <2>2. First(Settled(loaded)) \in Settled(loaded)
    BY <2>1, LowestLane
  <2> QED BY <2>1, <2>2 DEF U1Inv, BaselineInv
<1> QED BY <1>1, U1Invariant, PTL DEF U1Spec, AutoPickIsAnEdge

-----------------------------------------------------------------------------
(* Types *)

\* There are no more scans than the bounds allow, and a doubt is about one of them.
ScansCounted == scans <= MaxScans + Cardinality(Rewritten)
DoubtPast == doubt \subseteq 1..scans

\* Every scan that is spoken of has taken place.
LEMMA ScansPast ==
  ASSUME U1Inv
  PROVE  /\ scans \in Nat
         /\ staged.scan \in 0..scans /\ (staged.active => staged.scan \in 1..scans)
         /\ pending.scan \in 0..scans /\ (pending.active => pending.scan \in 1..scans)
         /\ \A i \in 1..Len(inbox) : inbox[i].scan \in 1..scans
         /\ \A i \in 1..Len(wanted) : wanted[i].scan \in 1..scans
         /\ \A l \in Lanes : told[l].scan \in 0..scans
         /\ \A s \in Spools : shown[s] \in 0..scans
<1> USE DEF U1Inv
<1>1. /\ scans \in Nat
      /\ \A i \in 1..Len(inbox) : inbox[i] \in Note /\ inbox[i].scan <= scans
      /\ \A i \in 1..Len(wanted) : wanted[i] \in Ask /\ wanted[i].scan <= scans
  BY DEF QueueInv, QueuesTyped, QueuesOrdered
<1>2. /\ \A i \in 1..Len(inbox) : inbox[i].scan \in 1..scans
      /\ \A i \in 1..Len(wanted) : wanted[i].scan \in 1..scans
  BY <1>1, NoteKinds, AskKinds
<1>3. ASSUME NEW n \in Nat, NEW s \in Spools, n = 0 \/ Uses(n, s)
      PROVE  n \in 0..scans /\ (n > 0 => n \in 1..scans)
  BY <1>1, <1>3 DEF CoreInv, ScansInv
<1>4. /\ staged.scan \in Nat /\ pending.scan \in Nat /\ Gappy \subseteq Spools
      /\ \A l \in Lanes : told[l].scan \in Nat /\ told[l].of \in Spools \cup {NoSpool}
      /\ \A s \in Spools : shown[s] \in Nat
  BY CoreFacts
<1>5. staged.active => staged.info.of \in Spools /\ staged.scan > 0 /\ Uses(staged.scan, staged.info.of)
  BY DEF CoreInv, Coherent, Uses
<1>6. pending.active =>
        pending.info.of \in Spools /\ pending.scan > 0 /\ Uses(pending.scan, pending.info.of)
  BY <1>4 DEF CoreInv, Coherent, Uses
<1>7. (~staged.active => staged.scan = 0) /\ (~pending.active => pending.scan = 0)
  BY DEF CoreInv, Coherent
<1>8. 0 \in 0..scans
  BY <1>1
<1>9. \A l \in Lanes : told[l].scan \in 0..scans
  <2> SUFFICES ASSUME NEW l \in Lanes PROVE told[l].scan \in 0..scans
    OBVIOUS
  <2>1. CASE told[l].of = NoSpool
    BY <2>1, <1>8 DEF CoreInv, Coherent
  <2>2. CASE told[l].of \in Spools
    <3>1. Uses(told[l].scan, told[l].of)
      BY DEF Uses
    <3> QED BY <3>1, <2>2, <1>3, <1>4
  <2> QED BY <2>1, <2>2, <1>4
<1>10. \A s \in Spools : shown[s] \in 0..scans
  <2> SUFFICES ASSUME NEW s \in Spools PROVE shown[s] \in 0..scans
    OBVIOUS
  <2>1. Uses(shown[s], s)
    BY DEF Uses
  <2> QED BY <2>1, <1>3, <1>4
<1>11. staged.scan \in 0..scans /\ (staged.active => staged.scan \in 1..scans)
  BY <1>3, <1>4, <1>5, <1>7, <1>8
<1>12. pending.scan \in 0..scans /\ (pending.active => pending.scan \in 1..scans)
  BY <1>3, <1>4, <1>6, <1>7, <1>8
<1> QED BY <1>1, <1>2, <1>9, <1>10, <1>11, <1>12

\* What a step can doubt.
Doubted ==
  doubt' \subseteq doubt \cup 1..scans

LEMMA PostDoubts ==
  ASSUME U1Inv, NEW o, NEW lane, NEW s, NEW k \in 1..scans, Post(o, lane, s, k)
  PROVE  Doubted
BY DEF Post, Doubted

\* A detection or a rewriting is the only step that counts scans, the tag rewritten makes room
\* for the one it causes.
LEMMA CountKeeps ==
  ASSUME U1Inv, ScansCounted, [Next]_u1Vars
  PROVE  ScansCounted' /\ scans' >= scans
<1>0. /\ scans \in Nat /\ MaxScans \in Nat /\ version \in [Gappy -> {"first", "second"}]
      /\ IsFiniteSet(Rewritten) /\ Cardinality(Rewritten) \in Nat
  <2>1. scans \in Nat /\ version \in [Gappy -> {"first", "second"}]
    BY ScansPast DEF U1Inv, CoreInv, StateTyped
  <2>2. IsFiniteSet(Rewritten)
    BY SpoolAssumption, FS_Subset DEF Rewritten
  <2> QED BY <2>1, <2>2, BoundAssumption, FS_CardinalityType
<1>1. CASE UNCHANGED <<scans, version>>
  BY <1>0, <1>1 DEF ScansCounted, Rewritten
<1>2. ASSUME NEW s \in Spools, Scan(s)
      PROVE  ScansCounted' /\ scans' >= scans
  <2>1. scans < MaxScans + Cardinality(Rewritten) /\ scans' = scans + 1 /\ version' = version
    BY <1>2 DEF Scan, Announce
  <2>2. Rewritten' = Rewritten
    BY <2>1 DEF Rewritten
  <2> QED BY <1>0, <2>1, <2>2 DEF ScansCounted
<1>3. CASE Rewrite
  <2>1. PICK s \in Gappy : s = reader.uid
    BY <1>3 DEF Rewrite
  <2>2. version[s] = "first" /\ version' = [version EXCEPT ![s] = "second"] /\ scans' = scans + 1
    BY <1>3, <2>1 DEF Rewrite, Announce
  <2>3. s \notin Rewritten /\ Rewritten' = Rewritten \cup {s}
    BY <1>0, <2>2 DEF Rewritten
  <2>4. Cardinality(Rewritten') = Cardinality(Rewritten) + 1
    BY <1>0, <2>3, FS_AddElement
  <2> QED BY <1>0, <2>2, <2>4 DEF ScansCounted
<1>4. CASE UNCHANGED readerVars \/ UNCHANGED u1Vars \/ Remove
  BY <1>1, <1>4 DEF readerVars, u1Vars, Remove
<1>5. ASSUME NEW ok \in BOOLEAN, Answer(ok) PROVE UNCHANGED readerVars
  BY <1>5 DEF Answer
<1>6. ASSUME NEW l \in Lanes, Pick(l) PROVE UNCHANGED readerVars
  BY <1>6 DEF Pick
<1>7. ASSUME NEW loaded \in SUBSET Lanes,
             PollBaseline(loaded) \/ PollCounts(loaded) \/ PollAssigns(loaded)
      PROVE  UNCHANGED readerVars
  BY <1>7 DEF PollBaseline, PollCounts, PollAssigns
<1>8. CASE GetStagedState \/ PollFails \/ Tick \/ HandleSpoolDetected \/ HandleGenericTagDetected
  BY <1>4, <1>8 DEF GetStagedState, PollFails, Tick, HandleSpoolDetected, HandleGenericTagDetected
<1>9. CASE HandleSpoolmanSynced
  <2>1. \E m : Synced(m)
    <3>1. CASE SyncIgnored \/ LookupStaged \/ LookupPosted
      BY <3>1 DEF SyncIgnored, LookupStaged, LookupPosted
    <3>2. CASE AugmentBringsNothing \/ AugmentStaged \/ AugmentAfterAssign \/ AugmentPosted
      <4>1. AugmentBringsNothing \/ AugmentStaged => \E m : Augment(m)
        BY DEF AugmentBringsNothing, AugmentStaged
      <4>2. AugmentAfterAssign => \E m : Augment(m)
        BY DEF AugmentAfterAssign
      <4>3. AugmentPosted => \E m : Augment(m)
        BY DEF AugmentPosted
      <4> QED BY <3>2, <4>1, <4>2, <4>3 DEF Augment
    <3> QED BY <1>9, <3>1, <3>2 DEF HandleSpoolmanSynced
  <2> QED BY <1>4, <2>1 DEF Synced
<1> QED BY <1>2, <1>3, <1>4, <1>5, <1>6, <1>7, <1>8, <1>9 DEF Next

\* Only what is staged, waits for its sync or has just arrived can be told, and so be doubted.
LEMMA StepDoubts ==
  ASSUME U1Inv, [Next]_u1Vars
  PROVE  Doubted
<1>0. /\ scans \in Nat /\ (staged.active => staged.scan \in 1..scans)
      /\ (pending.active => pending.scan \in 1..scans)
      /\ \A type : \A m \in Arrived(type) : m.scan \in 1..scans
  <2>1. ASSUME NEW type, NEW m \in Arrived(type) PROVE m.scan \in 1..scans
    BY ScansPast, HeadArrived DEF U1Inv
  <2> QED BY <2>1, ScansPast
<1>1. CASE UNCHANGED doubt
  BY <1>1 DEF Doubted
<1>2. ASSUME NEW o, NEW lane, AssignStagedToChannel(o, lane)
      PROVE  Doubted
  BY <1>0, <1>2, PostDoubts DEF AssignStagedToChannel, HasStagedSpool
<1>3. CASE \/ Rewrite \/ Remove \/ GetStagedState \/ PollFails \/ HandleGenericTagDetected \/ Tick
           \/ UNCHANGED u1Vars
  BY <1>1, <1>3 DEF Rewrite, Announce, Remove, GetStagedState, PollFails, Tick,
                    HandleGenericTagDetected, u1Vars
<1>4. ASSUME NEW s \in Spools, Scan(s) PROVE Doubted
  BY <1>1, <1>4 DEF Scan, Announce
<1>5. ASSUME NEW ok \in BOOLEAN, Answer(ok) PROVE Doubted
  BY <1>1, <1>5 DEF Answer
<1>6. ASSUME NEW loaded \in SUBSET Lanes, PollBaseline(loaded) \/ PollCounts(loaded)
       PROVE  Doubted
  BY <1>1, <1>6 DEF PollBaseline, PollCounts
<1>7. CASE \E l \in Lanes : Pick(l)
  BY <1>2, <1>7 DEF Pick
<1>8. CASE \E loaded \in SUBSET Lanes : PollAssigns(loaded)
  BY <1>2, <1>8 DEF PollAssigns
<1>9. CASE HandleSpoolDetected
  <2>1. PICK m \in Arrived("detected") : PublishFromDetection(m)
    BY <1>9 DEF HandleSpoolDetected
  <2>2. UNCHANGED doubt \/ \E o \in Outcomes : Post(o, FixedLane, m.spool, m.scan)
    BY <2>1 DEF PublishFromDetection
  <2> QED BY <1>0, <1>1, <2>2, PostDoubts
<1>10. CASE LookupStaged
  BY <1>0, <1>10 DEF LookupStaged, Waiting, Doubted
<1>11. CASE LookupPosted
  BY <1>0, <1>11, PostDoubts DEF LookupPosted
<1>12. CASE AugmentAfterAssign \/ AugmentPosted
  <2>1. \E m, o, lane : Augment(m) /\ Post(o, lane, m.spool, pending.scan)
    <3>1. AugmentAfterAssign => \E m, o : Augment(m) /\ Post(o, last.lane, m.spool, pending.scan)
      BY DEF AugmentAfterAssign
    <3>2. AugmentPosted => \E m, o : Augment(m) /\ Post(o, FixedLane, m.spool, pending.scan)
      BY DEF AugmentPosted
    <3> QED BY <1>12, <3>1, <3>2
  <2>2. pending.active
    BY <2>1 DEF Augment, Counts
  <2> QED BY <1>0, <2>1, <2>2, PostDoubts
<1>13. CASE SyncIgnored \/ AugmentBringsNothing \/ AugmentStaged
  BY <1>1, <1>13 DEF SyncIgnored, AugmentBringsNothing, AugmentStaged
<1> QED BY <1>3, <1>4, <1>5, <1>6, <1>7, <1>8, <1>9, <1>10, <1>11, <1>12, <1>13
        DEF Next, HandleSpoolmanSynced

\* Messages and requests of scans that are within the bounds.
LEMMA BoundedNote ==
  ASSUME NEW m \in Note, m.scan \in Numbers
  PROVE  m \in Messages
BY DEF Note, Messages

LEMMA BoundedAsk ==
  ASSUME NEW r \in Ask, r.scan \in Numbers
  PROVE  r \in Requests
BY DEF Ask, Requests

LEMMA BoundedSeq ==
  ASSUME NEW S, NEW T, NEW q \in Seq(S), \A i \in 1..Len(q) : q[i] \in T
  PROVE  q \in Seq(T)
OBVIOUS

LEMMA InvariantTypes ==
  ASSUME U1Inv, ScansCounted, DoubtPast
  PROVE  U1TypeOK
<1>1. scans \in Nat /\ scans <= MaxScans + Cardinality(Gappy) /\ MaxScans \in Nat
      /\ Cardinality(Gappy) \in Nat
  <2>1. Rewritten \in SUBSET Gappy
    BY DEF Rewritten
  <2>2. /\ Cardinality(Rewritten) <= Cardinality(Gappy) /\ Cardinality(Gappy) \in Nat
        /\ Cardinality(Rewritten) \in Nat
    BY <2>1, SpoolAssumption, FS_Subset, FS_CardinalityType
  <2>3. scans \in Nat /\ MaxScans \in Nat
    BY ScansPast, BoundAssumption
  <2> QED BY <2>2, <2>3 DEF ScansCounted
<1>2. 1..scans \subseteq Numbers /\ 0..scans \subseteq {0} \cup Numbers
  BY <1>1 DEF Numbers
<1>3. inbox \in Seq(Messages) /\ Len(inbox) <= AppDepth
  <2>1. inbox \in Seq(Note) /\ Len(inbox) <= AppDepth
    BY DEF U1Inv, QueueInv, QueuesTyped
  <2>2. \A i \in 1..Len(inbox) : inbox[i] \in Messages
    BY <1>2, <2>1, ScansPast, BoundedNote
  <2> QED BY <2>1, <2>2, BoundedSeq
<1>4. wanted \in Seq(Requests) /\ Len(wanted) <= SyncDepth
  <2>1. wanted \in Seq(Ask) /\ Len(wanted) <= SyncDepth
    BY DEF U1Inv, QueueInv, QueuesTyped
  <2>2. \A i \in 1..Len(wanted) : wanted[i] \in Requests
    BY <1>2, <2>1, ScansPast, BoundedAsk
  <2> QED BY <2>1, <2>2, BoundedSeq
<1>5. staged \in Held /\ pending \in Held /\ staged.scan \in {0} \cup Numbers
      /\ pending.scan \in {0} \cup Numbers
  BY <1>2, ScansPast DEF U1Inv, CoreInv, StateTyped
<1>6. /\ staged \in [active : BOOLEAN, info : Infos, scan : {0} \cup Numbers]
      /\ pending \in [active : BOOLEAN, info : Infos, scan : {0} \cup Numbers]
  BY <1>5 DEF Held
<1>7. told \in [Lanes -> [of : Spools \cup {NoSpool}, scan : {0} \cup Numbers]]
  <2>1. told \in [Lanes -> [of : Spools \cup {NoSpool}, scan : Nat]]
    BY DEF U1Inv, CoreInv, StateTyped
  <2>2. \A l \in Lanes : told[l].scan \in {0} \cup Numbers
    BY <1>2, ScansPast
  <2>3. \A l \in Lanes : told[l] \in [of : Spools \cup {NoSpool}, scan : {0} \cup Numbers]
    BY <2>1, <2>2
  <2> QED BY <2>1, <2>3
<1>8. shown \in [Spools -> {0} \cup Numbers]
  <2>1. shown \in [Spools -> Nat]
    BY DEF U1Inv, CoreInv, StateTyped
  <2> QED BY <1>2, <2>1, ScansPast
<1>9. scans \in {0} \cup Numbers /\ doubt \subseteq Numbers
  BY <1>1, <1>2 DEF DoubtPast
<1>10. pending.active => pending.info.of \in Gappy
  BY DEF U1Inv, CoreInv, Coherent
<1> HIDE DEF Numbers, Infos
<1> QED BY <1>3, <1>4, <1>6, <1>7, <1>8, <1>9, <1>10
        DEF U1Inv, CoreInv, StateTyped, U1TypeOK, Timers

\* Every variable keeps its type; the queues stay within their capacities, and only scans that
\* took place are spoken of.
THEOREM U1Types == U1Spec => []U1TypeOK
<1>1. Init => ScansCounted /\ DoubtPast
  <2> SUFFICES ASSUME Init PROVE ScansCounted /\ DoubtPast
    OBVIOUS
  <2>1. scans = 0 /\ doubt = {} /\ IsFiniteSet(Rewritten)
    BY SpoolAssumption, FS_Subset DEF Init, Rewritten
  <2> QED BY <2>1, BoundAssumption, FS_CardinalityType DEF ScansCounted, DoubtPast
<1>2. U1Inv /\ ScansCounted /\ DoubtPast /\ [Next]_u1Vars => ScansCounted' /\ DoubtPast'
  <2> SUFFICES ASSUME U1Inv, ScansCounted, DoubtPast, [Next]_u1Vars
               PROVE  ScansCounted' /\ DoubtPast'
    OBVIOUS
  <2>1. ScansCounted' /\ scans' >= scans /\ Doubted
    BY CountKeeps, StepDoubts
  <2>2. scans \in Nat /\ scans' \in Nat
    BY ScansPast, StepInv, ScansPast DEF U1Inv, QueueInv, QueuesTyped
  <2> QED BY <2>1, <2>2 DEF DoubtPast, Doubted
<1>3. U1Inv /\ ScansCounted /\ DoubtPast => U1TypeOK
  BY InvariantTypes
<1> QED BY <1>1, <1>2, <1>3, U1Invariant, PTL DEF U1Spec
=============================================================================
