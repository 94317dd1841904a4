------------------------ MODULE ReaderOwnership_proofs ------------------------
(***************************************************************************)
(* Type correctness and the three safety invariants of ReaderOwnership,    *)
(* for every value of the constants: any number of writes, self-tests,     *)
(* uploads, downloads and saved configurations, on boards with one bus or  *)
(* two.                                                                    *)
(***************************************************************************)
EXTENDS ReaderOwnership, TLAPS

Kinds == {"writes", "sessions", "uploads", "downloads", "saves"}

(* OwnTypeOK in parts that one prover each can follow. *)
FlagTypes ==
  /\ suspended \in BOOLEAN /\ watched \in BOOLEAN /\ asked \in BOOLEAN /\ aside \in BOOLEAN
  /\ cancelled \in BOOLEAN /\ stop \in BOOLEAN /\ late \in BOOLEAN
  /\ unheard \in BOOLEAN /\ overlap \in BOOLEAN /\ torn \in BOOLEAN

PlaceTypes ==
  /\ scan \in {"top", "closing", "aside", "leaving", "cycle", "write"}
  /\ bus \in {"none", "scan", "tft"}
  /\ diag \in {"idle", "stages", "asking", "snapshot", "prompt", "stability", "releasing"}
  /\ web \in {"idle", "receiving", "draining", "restarting"}
  /\ ota \in {"none", "waiting", "freeing", "handshake", "flashing", "restarting", "done"}
  /\ tft \in {"idle", "waiting", "drawing", "parked", "deleted"}

CallTypes == call \in [Pausers -> {"none", "unwatch", "suspend", "resume", "watch"}]

BudgetTypes ==
  /\ used \in [Kinds -> Nat] /\ \A k \in Kinds : used[k] <= Budgets[k]
  /\ queue \in Nat

\* The queue holds no more than what was ever put into it.
QueueBounded == queue <= used["writes"]

\* The flag the scan task shows is where it stands, and the request is where the session
\* stands.
FlagsTrue ==
  /\ aside <=> scan \in {"aside", "leaving"}
  /\ asked <=> diag \in {"asking", "snapshot", "prompt", "stability"}

\* As long as every session heard from the scan task, the two are in step.
Handshake ==
  ~unheard =>
    /\ diag \in {"idle", "stages"} => scan \in {"top", "cycle", "write"}
    /\ diag = "asking" => scan \in {"top", "cycle", "write", "closing", "aside"}
    /\ diag \in {"snapshot", "prompt", "stability"} => scan = "aside"
    /\ diag = "releasing" => scan \in {"aside", "leaving", "cycle", "write", "top"}

\* The bus is the render task's while it draws, and after it was deleted doing so.
BusHeld ==
  /\ tft = "drawing" => bus = "tft"
  /\ bus = "tft" => tft \in {"drawing", "deleted"}

\* What a caller still has to do fits where its update stands.  A download without an upload
\* beside it keeps the scan task suspended from its pause to the deletion of the render task.
LoneDownload ==
  /\ web = "restarting" => call["web"] \in {"none", "unwatch", "suspend"}
  /\ ota = "waiting" => call["ota"] \in {"none", "unwatch", "suspend"}
  /\ ota \in {"freeing", "handshake", "flashing", "restarting"} => Free("ota")
  /\ ~overlap =>
       /\ ~OtaIdle => web # "receiving" /\ call["web"] # "resume"
       /\ (ota = "freeing" \/ (ota = "waiting" /\ Free("ota"))) => suspended

\* The render task is late only on its way to its deletion, and a lone download's waits for a
\* bus that nobody gives back.
RenderStop ==
  /\ stop => ota = "freeing" \/ tft = "deleted"
  /\ late => ota = "freeing"
  /\ (late /\ ~overlap) => bus = "scan"
  /\ StrandedOnlyByOverlap

\* One update at a time pauses and resumes; two pausers meet only before a restart.
OneAtATime ==
  (~overlap /\ web # "restarting") =>
    /\ (web = "receiving" \/ ~Free("web")) => OtaIdle
    /\ suspended => ~watched
    /\ \A a \in Pausers : call[a] = "suspend" => ~watched
    /\ \A a \in Pausers : call[a] = "watch" => ~suspended

OwnInv ==
  /\ FlagTypes /\ PlaceTypes /\ CallTypes /\ BudgetTypes /\ QueueBounded
  /\ FlagsTrue /\ Handshake /\ BusHeld /\ OneAtATime /\ LoneDownload /\ RenderStop

\* The budgets are numbers, one for each kind of operation.
LEMMA BudgetTyped ==
  /\ DOMAIN Budgets = Kinds
  /\ \A k \in Kinds : Budgets[k] \in Nat
  /\ Budgets["writes"] = MaxWrites
BY BudgetAssumption DEF Budgets, Kinds

\* The parts make up the type invariant; the bound on the queue is that on the writes.
LEMMA TypeParts == OwnInv => OwnTypeOK
<1> SUFFICES ASSUME OwnInv PROVE OwnTypeOK
  OBVIOUS
<1>1. queue \in 0..MaxWrites
  BY BudgetTyped, BudgetAssumption DEF OwnInv, BudgetTypes, QueueBounded, Kinds
<1>2. used \in [DOMAIN Budgets -> Nat] /\ \A k \in DOMAIN Budgets : used[k] <= Budgets[k]
  BY BudgetTyped DEF OwnInv, BudgetTypes
<1> QED
  BY <1>1, <1>2 DEF OwnInv, OwnTypeOK, FlagTypes, PlaceTypes, CallTypes

\* Spending keeps the accounts in order.
LEMMA SpendKeeps ==
  ASSUME BudgetTypes, NEW k \in Kinds, Spend(k)
  PROVE  /\ used' \in [Kinds -> Nat]
         /\ \A i \in Kinds : used'[i] <= Budgets[i]
         /\ used'[k] = used[k] + 1
         /\ \A i \in Kinds \ {k} : used'[i] = used[i]
BY BudgetTyped DEF BudgetTypes, Spend

\* A restarted scanner satisfies the invariant, whatever was spent before.
LEMMA RestartInv ==
  ASSUME OwnInv, Restart
  PROVE  OwnInv'
<1> USE DEF OwnInv, Restart, Booted
<1>1. FlagTypes'
  BY DEF FlagTypes
<1>2. (PlaceTypes /\ CallTypes)'
  BY DEF PlaceTypes, CallTypes, Pausers
<1>3. (BudgetTypes /\ QueueBounded)'
  BY BudgetTyped DEF BudgetTypes, QueueBounded, Kinds
<1>4. (FlagsTrue /\ Handshake /\ BusHeld)'
  BY DEF FlagsTrue, Handshake, BusHeld
<1>5. (OneAtATime /\ LoneDownload)'
  BY DEF OneAtATime, LoneDownload, OtaIdle, Free, Pausers
<1>6. RenderStop'
  BY DEF RenderStop, StrandedOnlyByOverlap
<1> QED
  BY <1>1, <1>2, <1>3, <1>4, <1>5, <1>6

\* The initial state satisfies the invariant.
LEMMA InitInv == Init => OwnInv
<1> SUFFICES ASSUME Init PROVE OwnInv
  OBVIOUS
<1> USE DEF Init, Booted
<1>1. FlagTypes
  BY DEF FlagTypes
<1>2. PlaceTypes /\ CallTypes
  BY DEF PlaceTypes, CallTypes, Pausers
<1>3. BudgetTypes /\ QueueBounded
  BY BudgetTyped DEF BudgetTypes, QueueBounded, Kinds
<1>4. FlagsTrue /\ Handshake /\ BusHeld
  BY DEF FlagsTrue, Handshake, BusHeld
<1>5. OneAtATime /\ LoneDownload
  BY DEF OneAtATime, LoneDownload, OtaIdle, Free, Pausers
<1>6. RenderStop
  BY DEF RenderStop, StrandedOnlyByOverlap
<1> QED
  BY <1>1, <1>2, <1>3, <1>4, <1>5, <1>6 DEF OwnInv
-----------------------------------------------------------------------------
(* Every step keeps the invariant, task by task. *)

\* The scan task.
LEMMA ScanKeeps ==
  ASSUME OwnInv, ScanNext
  PROVE  OwnInv'
<1> USE DEF OwnInv, ScanRest, taskVars, histVars, ScanGrab, ScanYield
<1>1. CASE TopRuns
  <2>1. FlagTypes'
    BY <1>1 DEF FlagTypes, TopRuns
  <2>2. (PlaceTypes /\ CallTypes)'
    BY <1>1 DEF PlaceTypes, CallTypes, Pausers, TopRuns
  <2>3. (BudgetTypes /\ QueueBounded)'
    BY <1>1, BudgetTyped DEF BudgetTypes, QueueBounded, Kinds, TopRuns
  <2>4. (FlagsTrue /\ Handshake /\ BusHeld)'
    BY <1>1 DEF PlaceTypes, FlagTypes, FlagsTrue, Handshake, BusHeld, TopRuns
  <2>5. OneAtATime'
    BY <1>1 DEF PlaceTypes, FlagTypes, CallTypes, OneAtATime, OtaIdle, Free, Pausers, TopRuns
  <2>6. LoneDownload'
    BY <1>1 DEF PlaceTypes, FlagTypes, CallTypes, LoneDownload, OneAtATime, OtaIdle, Free, Pausers, TopRuns
  <2>7. RenderStop'
    BY <1>1 DEF PlaceTypes, FlagTypes, BusHeld, RenderStop, StrandedOnlyByOverlap, LoneDownload, TopRuns
  <2> QED
    BY <2>1, <2>2, <2>3, <2>4, <2>5, <2>6, <2>7
<1>2. CASE StandsAside
  <2>1. FlagTypes'
    BY <1>2 DEF FlagTypes, StandsAside
  <2>2. (PlaceTypes /\ CallTypes)'
    BY <1>2 DEF PlaceTypes, CallTypes, Pausers, StandsAside
  <2>3. (BudgetTypes /\ QueueBounded)'
    BY <1>2, BudgetTyped DEF BudgetTypes, QueueBounded, Kinds, StandsAside
  <2>4. (FlagsTrue /\ Handshake /\ BusHeld)'
    BY <1>2 DEF PlaceTypes, FlagTypes, FlagsTrue, Handshake, BusHeld, StandsAside
  <2>5. OneAtATime'
    BY <1>2 DEF PlaceTypes, FlagTypes, CallTypes, OneAtATime, OtaIdle, Free, Pausers, StandsAside
  <2>6. LoneDownload'
    BY <1>2 DEF PlaceTypes, FlagTypes, CallTypes, LoneDownload, OneAtATime, OtaIdle, Free, Pausers, StandsAside
  <2>7. RenderStop'
    BY <1>2 DEF PlaceTypes, FlagTypes, BusHeld, RenderStop, StrandedOnlyByOverlap, LoneDownload, StandsAside
  <2> QED
    BY <2>1, <2>2, <2>3, <2>4, <2>5, <2>6, <2>7
<1>3. CASE LeavesPause
  <2>1. FlagTypes'
    BY <1>3 DEF FlagTypes, LeavesPause
  <2>2. (PlaceTypes /\ CallTypes)'
    BY <1>3 DEF PlaceTypes, CallTypes, Pausers, LeavesPause
  <2>3. (BudgetTypes /\ QueueBounded)'
    BY <1>3, BudgetTyped DEF BudgetTypes, QueueBounded, Kinds, LeavesPause
  <2>4. (FlagsTrue /\ Handshake /\ BusHeld)'
    BY <1>3 DEF PlaceTypes, FlagTypes, FlagsTrue, Handshake, BusHeld, LeavesPause
  <2>5. OneAtATime'
    BY <1>3 DEF PlaceTypes, FlagTypes, CallTypes, OneAtATime, OtaIdle, Free, Pausers, LeavesPause
  <2>6. LoneDownload'
    BY <1>3 DEF PlaceTypes, FlagTypes, CallTypes, LoneDownload, OneAtATime, OtaIdle, Free, Pausers, LeavesPause
  <2>7. RenderStop'
    BY <1>3 DEF PlaceTypes, FlagTypes, BusHeld, RenderStop, StrandedOnlyByOverlap, LoneDownload, LeavesPause
  <2> QED
    BY <2>1, <2>2, <2>3, <2>4, <2>5, <2>6, <2>7
<1>4. CASE ClearsAside
  <2>1. FlagTypes'
    BY <1>4 DEF FlagTypes, ClearsAside
  <2>2. (PlaceTypes /\ CallTypes)'
    BY <1>4 DEF PlaceTypes, CallTypes, Pausers, ClearsAside
  <2>3. (BudgetTypes /\ QueueBounded)'
    BY <1>4, BudgetTyped DEF BudgetTypes, QueueBounded, Kinds, ClearsAside
  <2>4. (FlagsTrue /\ Handshake /\ BusHeld)'
    BY <1>4 DEF PlaceTypes, FlagTypes, FlagsTrue, Handshake, BusHeld, ClearsAside
  <2>5. OneAtATime'
    BY <1>4 DEF PlaceTypes, FlagTypes, CallTypes, OneAtATime, OtaIdle, Free, Pausers, ClearsAside
  <2>6. LoneDownload'
    BY <1>4 DEF PlaceTypes, FlagTypes, CallTypes, LoneDownload, OneAtATime, OtaIdle, Free, Pausers, ClearsAside
  <2>7. RenderStop'
    BY <1>4 DEF PlaceTypes, FlagTypes, BusHeld, RenderStop, StrandedOnlyByOverlap, LoneDownload, ClearsAside
  <2> QED
    BY <2>1, <2>2, <2>3, <2>4, <2>5, <2>6, <2>7
<1>5. CASE TakesWrite
  <2>1. FlagTypes'
    BY <1>5 DEF FlagTypes, TakesWrite
  <2>2. (PlaceTypes /\ CallTypes)'
    BY <1>5 DEF PlaceTypes, CallTypes, Pausers, TakesWrite
  <2>3. (BudgetTypes /\ QueueBounded)'
    BY <1>5, BudgetTyped DEF BudgetTypes, QueueBounded, Kinds, TakesWrite
  <2>4. (FlagsTrue /\ Handshake /\ BusHeld)'
    BY <1>5 DEF PlaceTypes, FlagTypes, FlagsTrue, Handshake, BusHeld, TakesWrite
  <2>5. OneAtATime'
    BY <1>5 DEF PlaceTypes, FlagTypes, CallTypes, OneAtATime, OtaIdle, Free, Pausers, TakesWrite
  <2>6. LoneDownload'
    BY <1>5 DEF PlaceTypes, FlagTypes, CallTypes, LoneDownload, OneAtATime, OtaIdle, Free, Pausers, TakesWrite
  <2>7. RenderStop'
    BY <1>5 DEF PlaceTypes, FlagTypes, BusHeld, RenderStop, StrandedOnlyByOverlap, LoneDownload, TakesWrite
  <2> QED
    BY <2>1, <2>2, <2>3, <2>4, <2>5, <2>6, <2>7
<1>6. CASE CycleEnds
  <2>1. FlagTypes'
    BY <1>6 DEF FlagTypes, CycleEnds
  <2>2. (PlaceTypes /\ CallTypes)'
    BY <1>6 DEF PlaceTypes, CallTypes, Pausers, CycleEnds
  <2>3. (BudgetTypes /\ QueueBounded)'
    BY <1>6, BudgetTyped DEF BudgetTypes, QueueBounded, Kinds, CycleEnds
  <2>4. (FlagsTrue /\ Handshake /\ BusHeld)'
    BY <1>6 DEF PlaceTypes, FlagTypes, FlagsTrue, Handshake, BusHeld, CycleEnds
  <2>5. OneAtATime'
    BY <1>6 DEF PlaceTypes, FlagTypes, CallTypes, OneAtATime, OtaIdle, Free, Pausers, CycleEnds
  <2>6. LoneDownload'
    BY <1>6 DEF PlaceTypes, FlagTypes, CallTypes, LoneDownload, OneAtATime, OtaIdle, Free, Pausers, CycleEnds
  <2>7. RenderStop'
    BY <1>6 DEF PlaceTypes, FlagTypes, BusHeld, RenderStop, StrandedOnlyByOverlap, LoneDownload, CycleEnds
  <2> QED
    BY <2>1, <2>2, <2>3, <2>4, <2>5, <2>6, <2>7
<1> QED
  BY <1>1, <1>2, <1>3, <1>4, <1>5, <1>6 DEF ScanNext

\* The render task.
LEMMA TftKeeps ==
  ASSUME OwnInv, TftNext
  PROVE  OwnInv'
<1> USE DEF OwnInv, TftRest, TftStays, scanVars, taskVars, histVars
<1>1. CASE Parks
  <2>1. FlagTypes'
    BY <1>1 DEF FlagTypes, Parks
  <2>2. (PlaceTypes /\ CallTypes)'
    BY <1>1 DEF PlaceTypes, CallTypes, Pausers, Parks
  <2>3. (BudgetTypes /\ QueueBounded)'
    BY <1>1, BudgetTyped DEF BudgetTypes, QueueBounded, Kinds, Parks
  <2>4. (FlagsTrue /\ Handshake /\ BusHeld)'
    BY <1>1 DEF PlaceTypes, FlagTypes, FlagsTrue, Handshake, BusHeld, Parks
  <2>5. OneAtATime'
    BY <1>1 DEF PlaceTypes, FlagTypes, CallTypes, OneAtATime, OtaIdle, Free, Pausers, Parks
  <2>6. LoneDownload'
    BY <1>1 DEF PlaceTypes, FlagTypes, CallTypes, LoneDownload, OneAtATime, OtaIdle, Free, Pausers, Parks
  <2>7. RenderStop'
    BY <1>1 DEF PlaceTypes, FlagTypes, BusHeld, RenderStop, StrandedOnlyByOverlap, LoneDownload, Parks
  <2> QED
    BY <2>1, <2>2, <2>3, <2>4, <2>5, <2>6, <2>7
<1>2. CASE WantsBus
  <2>1. FlagTypes'
    BY <1>2 DEF FlagTypes, WantsBus
  <2>2. (PlaceTypes /\ CallTypes)'
    BY <1>2 DEF PlaceTypes, CallTypes, Pausers, WantsBus
  <2>3. (BudgetTypes /\ QueueBounded)'
    BY <1>2, BudgetTyped DEF BudgetTypes, QueueBounded, Kinds, WantsBus
  <2>4. (FlagsTrue /\ Handshake /\ BusHeld)'
    BY <1>2 DEF PlaceTypes, FlagTypes, FlagsTrue, Handshake, BusHeld, WantsBus
  <2>5. OneAtATime'
    BY <1>2 DEF PlaceTypes, FlagTypes, CallTypes, OneAtATime, OtaIdle, Free, Pausers, WantsBus
  <2>6. LoneDownload'
    BY <1>2 DEF PlaceTypes, FlagTypes, CallTypes, LoneDownload, OneAtATime, OtaIdle, Free, Pausers, WantsBus
  <2>7. RenderStop'
    BY <1>2 DEF PlaceTypes, FlagTypes, BusHeld, RenderStop, StrandedOnlyByOverlap, LoneDownload, WantsBus
  <2> QED
    BY <2>1, <2>2, <2>3, <2>4, <2>5, <2>6, <2>7
<1>3. CASE Draws
  <2>1. FlagTypes'
    BY <1>3 DEF FlagTypes, Draws
  <2>2. (PlaceTypes /\ CallTypes)'
    BY <1>3 DEF PlaceTypes, CallTypes, Pausers, Draws
  <2>3. (BudgetTypes /\ QueueBounded)'
    BY <1>3, BudgetTyped DEF BudgetTypes, QueueBounded, Kinds, Draws
  <2>4. (FlagsTrue /\ Handshake /\ BusHeld)'
    BY <1>3 DEF PlaceTypes, FlagTypes, FlagsTrue, Handshake, BusHeld, Draws
  <2>5. OneAtATime'
    BY <1>3 DEF PlaceTypes, FlagTypes, CallTypes, OneAtATime, OtaIdle, Free, Pausers, Draws
  <2>6. LoneDownload'
    BY <1>3 DEF PlaceTypes, FlagTypes, CallTypes, LoneDownload, OneAtATime, OtaIdle, Free, Pausers, Draws
  <2>7. RenderStop'
    BY <1>3 DEF PlaceTypes, FlagTypes, BusHeld, RenderStop, StrandedOnlyByOverlap, LoneDownload, Draws
  <2> QED
    BY <2>1, <2>2, <2>3, <2>4, <2>5, <2>6, <2>7
<1>4. CASE DropsFrame
  <2>1. FlagTypes'
    BY <1>4 DEF FlagTypes, DropsFrame
  <2>2. (PlaceTypes /\ CallTypes)'
    BY <1>4 DEF PlaceTypes, CallTypes, Pausers, DropsFrame
  <2>3. (BudgetTypes /\ QueueBounded)'
    BY <1>4, BudgetTyped DEF BudgetTypes, QueueBounded, Kinds, DropsFrame
  <2>4. (FlagsTrue /\ Handshake /\ BusHeld)'
    BY <1>4 DEF PlaceTypes, FlagTypes, FlagsTrue, Handshake, BusHeld, DropsFrame
  <2>5. OneAtATime'
    BY <1>4 DEF PlaceTypes, FlagTypes, CallTypes, OneAtATime, OtaIdle, Free, Pausers, DropsFrame
  <2>6. LoneDownload'
    BY <1>4 DEF PlaceTypes, FlagTypes, CallTypes, LoneDownload, OneAtATime, OtaIdle, Free, Pausers, DropsFrame
  <2>7. RenderStop'
    BY <1>4 DEF PlaceTypes, FlagTypes, BusHeld, RenderStop, StrandedOnlyByOverlap, LoneDownload, DropsFrame
  <2> QED
    BY <2>1, <2>2, <2>3, <2>4, <2>5, <2>6, <2>7
<1>5. CASE Drawn
  <2>1. FlagTypes'
    BY <1>5 DEF FlagTypes, Drawn
  <2>2. (PlaceTypes /\ CallTypes)'
    BY <1>5 DEF PlaceTypes, CallTypes, Pausers, Drawn
  <2>3. (BudgetTypes /\ QueueBounded)'
    BY <1>5, BudgetTyped DEF BudgetTypes, QueueBounded, Kinds, Drawn
  <2>4. (FlagsTrue /\ Handshake /\ BusHeld)'
    BY <1>5 DEF PlaceTypes, FlagTypes, FlagsTrue, Handshake, BusHeld, Drawn
  <2>5. OneAtATime'
    BY <1>5 DEF PlaceTypes, FlagTypes, CallTypes, OneAtATime, OtaIdle, Free, Pausers, Drawn
  <2>6. LoneDownload'
    BY <1>5 DEF PlaceTypes, FlagTypes, CallTypes, LoneDownload, OneAtATime, OtaIdle, Free, Pausers, Drawn
  <2>7. RenderStop'
    BY <1>5 DEF PlaceTypes, FlagTypes, BusHeld, RenderStop, StrandedOnlyByOverlap, LoneDownload, Drawn
  <2> QED
    BY <2>1, <2>2, <2>3, <2>4, <2>5, <2>6, <2>7
<1>6. CASE GuardWaits
  <2>1. FlagTypes'
    BY <1>6 DEF FlagTypes, GuardWaits
  <2>2. (PlaceTypes /\ CallTypes)'
    BY <1>6 DEF PlaceTypes, CallTypes, Pausers, GuardWaits
  <2>3. (BudgetTypes /\ QueueBounded)'
    BY <1>6, BudgetTyped DEF BudgetTypes, QueueBounded, Kinds, GuardWaits
  <2>4. (FlagsTrue /\ Handshake /\ BusHeld)'
    BY <1>6 DEF PlaceTypes, FlagTypes, FlagsTrue, Handshake, BusHeld, GuardWaits
  <2>5. OneAtATime'
    BY <1>6 DEF PlaceTypes, FlagTypes, CallTypes, OneAtATime, OtaIdle, Free, Pausers, GuardWaits
  <2>6. LoneDownload'
    BY <1>6 DEF PlaceTypes, FlagTypes, CallTypes, LoneDownload, OneAtATime, OtaIdle, Free, Pausers, GuardWaits
  <2>7. RenderStop'
    BY <1>6 DEF PlaceTypes, FlagTypes, BusHeld, RenderStop, StrandedOnlyByOverlap, LoneDownload, GuardWaits
  <2> QED
    BY <2>1, <2>2, <2>3, <2>4, <2>5, <2>6, <2>7
<1> QED
  BY <1>1, <1>2, <1>3, <1>4, <1>5, <1>6 DEF TftNext

\* The self-test task.
LEMMA DiagKeeps ==
  ASSUME OwnInv, DiagNext
  PROVE  OwnInv'
<1> USE DEF OwnInv, DiagRest, busVars, HeardBack
<1>1. CASE AskForReader
  <2>1. FlagTypes'
    BY <1>1 DEF FlagTypes, AskForReader
  <2>2. (PlaceTypes /\ CallTypes)'
    BY <1>1 DEF PlaceTypes, CallTypes, Pausers, AskForReader
  <2>3. (BudgetTypes /\ QueueBounded)'
    BY <1>1, BudgetTyped DEF BudgetTypes, QueueBounded, Kinds, AskForReader
  <2>4. (FlagsTrue /\ Handshake /\ BusHeld)'
    BY <1>1 DEF PlaceTypes, FlagTypes, FlagsTrue, Handshake, BusHeld, AskForReader
  <2>5. OneAtATime'
    BY <1>1 DEF PlaceTypes, FlagTypes, CallTypes, OneAtATime, OtaIdle, Free, Pausers, AskForReader
  <2>6. LoneDownload'
    BY <1>1 DEF PlaceTypes, FlagTypes, CallTypes, LoneDownload, OneAtATime, OtaIdle, Free, Pausers, AskForReader
  <2>7. RenderStop'
    BY <1>1 DEF PlaceTypes, FlagTypes, BusHeld, RenderStop, StrandedOnlyByOverlap, LoneDownload, AskForReader
  <2> QED
    BY <2>1, <2>2, <2>3, <2>4, <2>5, <2>6, <2>7
<1>2. CASE ReaderGranted
  <2>1. FlagTypes'
    BY <1>2 DEF FlagTypes, ReaderGranted
  <2>2. (PlaceTypes /\ CallTypes)'
    BY <1>2 DEF PlaceTypes, CallTypes, Pausers, ReaderGranted
  <2>3. (BudgetTypes /\ QueueBounded)'
    BY <1>2, BudgetTyped DEF BudgetTypes, QueueBounded, Kinds, ReaderGranted
  <2>4. (FlagsTrue /\ Handshake /\ BusHeld)'
    BY <1>2 DEF PlaceTypes, FlagTypes, FlagsTrue, Handshake, BusHeld, ReaderGranted
  <2>5. OneAtATime'
    BY <1>2 DEF PlaceTypes, FlagTypes, CallTypes, OneAtATime, OtaIdle, Free, Pausers, ReaderGranted
  <2>6. LoneDownload'
    BY <1>2 DEF PlaceTypes, FlagTypes, CallTypes, LoneDownload, OneAtATime, OtaIdle, Free, Pausers, ReaderGranted
  <2>7. RenderStop'
    BY <1>2 DEF PlaceTypes, FlagTypes, BusHeld, RenderStop, StrandedOnlyByOverlap, LoneDownload, ReaderGranted
  <2> QED
    BY <2>1, <2>2, <2>3, <2>4, <2>5, <2>6, <2>7
<1>3. CASE AskTimesOut
  <2>1. FlagTypes'
    BY <1>3 DEF FlagTypes, AskTimesOut
  <2>2. (PlaceTypes /\ CallTypes)'
    BY <1>3 DEF PlaceTypes, CallTypes, Pausers, AskTimesOut
  <2>3. (BudgetTypes /\ QueueBounded)'
    BY <1>3, BudgetTyped DEF BudgetTypes, QueueBounded, Kinds, AskTimesOut
  <2>4. (FlagsTrue /\ Handshake /\ BusHeld)'
    BY <1>3 DEF PlaceTypes, FlagTypes, FlagsTrue, Handshake, BusHeld, AskTimesOut
  <2>5. OneAtATime'
    BY <1>3 DEF PlaceTypes, FlagTypes, CallTypes, OneAtATime, OtaIdle, Free, Pausers, AskTimesOut
  <2>6. LoneDownload'
    BY <1>3 DEF PlaceTypes, FlagTypes, CallTypes, LoneDownload, OneAtATime, OtaIdle, Free, Pausers, AskTimesOut
  <2>7. RenderStop'
    BY <1>3 DEF PlaceTypes, FlagTypes, BusHeld, RenderStop, StrandedOnlyByOverlap, LoneDownload, AskTimesOut
  <2> QED
    BY <2>1, <2>2, <2>3, <2>4, <2>5, <2>6, <2>7
<1>4. CASE PromptUser
  <2>1. FlagTypes'
    BY <1>4 DEF FlagTypes, PromptUser
  <2>2. (PlaceTypes /\ CallTypes)'
    BY <1>4 DEF PlaceTypes, CallTypes, Pausers, PromptUser
  <2>3. (BudgetTypes /\ QueueBounded)'
    BY <1>4, BudgetTyped DEF BudgetTypes, QueueBounded, Kinds, PromptUser
  <2>4. (FlagsTrue /\ Handshake /\ BusHeld)'
    BY <1>4 DEF PlaceTypes, FlagTypes, FlagsTrue, Handshake, BusHeld, PromptUser
  <2>5. OneAtATime'
    BY <1>4 DEF PlaceTypes, FlagTypes, CallTypes, OneAtATime, OtaIdle, Free, Pausers, PromptUser
  <2>6. LoneDownload'
    BY <1>4 DEF PlaceTypes, FlagTypes, CallTypes, LoneDownload, OneAtATime, OtaIdle, Free, Pausers, PromptUser
  <2>7. RenderStop'
    BY <1>4 DEF PlaceTypes, FlagTypes, BusHeld, RenderStop, StrandedOnlyByOverlap, LoneDownload, PromptUser
  <2> QED
    BY <2>1, <2>2, <2>3, <2>4, <2>5, <2>6, <2>7
<1>5. CASE UserContinues
  <2>1. FlagTypes'
    BY <1>5 DEF FlagTypes, UserContinues
  <2>2. (PlaceTypes /\ CallTypes)'
    BY <1>5 DEF PlaceTypes, CallTypes, Pausers, UserContinues
  <2>3. (BudgetTypes /\ QueueBounded)'
    BY <1>5, BudgetTyped DEF BudgetTypes, QueueBounded, Kinds, UserContinues
  <2>4. (FlagsTrue /\ Handshake /\ BusHeld)'
    BY <1>5 DEF PlaceTypes, FlagTypes, FlagsTrue, Handshake, BusHeld, UserContinues
  <2>5. OneAtATime'
    BY <1>5 DEF PlaceTypes, FlagTypes, CallTypes, OneAtATime, OtaIdle, Free, Pausers, UserContinues
  <2>6. LoneDownload'
    BY <1>5 DEF PlaceTypes, FlagTypes, CallTypes, LoneDownload, OneAtATime, OtaIdle, Free, Pausers, UserContinues
  <2>7. RenderStop'
    BY <1>5 DEF PlaceTypes, FlagTypes, BusHeld, RenderStop, StrandedOnlyByOverlap, LoneDownload, UserContinues
  <2> QED
    BY <2>1, <2>2, <2>3, <2>4, <2>5, <2>6, <2>7
<1>6. CASE ReleaseReader
  <2>1. FlagTypes'
    BY <1>6 DEF FlagTypes, ReleaseReader
  <2>2. (PlaceTypes /\ CallTypes)'
    BY <1>6 DEF PlaceTypes, CallTypes, Pausers, ReleaseReader
  <2>3. (BudgetTypes /\ QueueBounded)'
    BY <1>6, BudgetTyped DEF BudgetTypes, QueueBounded, Kinds, ReleaseReader
  <2>4. (FlagsTrue /\ Handshake /\ BusHeld)'
    BY <1>6 DEF PlaceTypes, FlagTypes, FlagsTrue, Handshake, BusHeld, ReleaseReader
  <2>5. OneAtATime'
    BY <1>6 DEF PlaceTypes, FlagTypes, CallTypes, OneAtATime, OtaIdle, Free, Pausers, ReleaseReader
  <2>6. LoneDownload'
    BY <1>6 DEF PlaceTypes, FlagTypes, CallTypes, LoneDownload, OneAtATime, OtaIdle, Free, Pausers, ReleaseReader
  <2>7. RenderStop'
    BY <1>6 DEF PlaceTypes, FlagTypes, BusHeld, RenderStop, StrandedOnlyByOverlap, LoneDownload, ReleaseReader
  <2> QED
    BY <2>1, <2>2, <2>3, <2>4, <2>5, <2>6, <2>7
<1>7. CASE SessionEnds
  <2>1. FlagTypes'
    BY <1>7 DEF FlagTypes, SessionEnds
  <2>2. (PlaceTypes /\ CallTypes)'
    BY <1>7 DEF PlaceTypes, CallTypes, Pausers, SessionEnds
  <2>3. (BudgetTypes /\ QueueBounded)'
    BY <1>7, BudgetTyped DEF BudgetTypes, QueueBounded, Kinds, SessionEnds
  <2>4. (FlagsTrue /\ Handshake /\ BusHeld)'
    BY <1>7 DEF PlaceTypes, FlagTypes, FlagsTrue, Handshake, BusHeld, SessionEnds
  <2>5. OneAtATime'
    BY <1>7 DEF PlaceTypes, FlagTypes, CallTypes, OneAtATime, OtaIdle, Free, Pausers, SessionEnds
  <2>6. LoneDownload'
    BY <1>7 DEF PlaceTypes, FlagTypes, CallTypes, LoneDownload, OneAtATime, OtaIdle, Free, Pausers, SessionEnds
  <2>7. RenderStop'
    BY <1>7 DEF PlaceTypes, FlagTypes, BusHeld, RenderStop, StrandedOnlyByOverlap, LoneDownload, SessionEnds
  <2> QED
    BY <2>1, <2>2, <2>3, <2>4, <2>5, <2>6, <2>7
<1>8. CASE ReleaseTimesOut
  <2>1. FlagTypes'
    BY <1>8 DEF FlagTypes, ReleaseTimesOut
  <2>2. (PlaceTypes /\ CallTypes)'
    BY <1>8 DEF PlaceTypes, CallTypes, Pausers, ReleaseTimesOut
  <2>3. (BudgetTypes /\ QueueBounded)'
    BY <1>8, BudgetTyped DEF BudgetTypes, QueueBounded, Kinds, ReleaseTimesOut
  <2>4. (FlagsTrue /\ Handshake /\ BusHeld)'
    BY <1>8 DEF PlaceTypes, FlagTypes, FlagsTrue, Handshake, BusHeld, ReleaseTimesOut
  <2>5. OneAtATime'
    BY <1>8 DEF PlaceTypes, FlagTypes, CallTypes, OneAtATime, OtaIdle, Free, Pausers, ReleaseTimesOut
  <2>6. LoneDownload'
    BY <1>8 DEF PlaceTypes, FlagTypes, CallTypes, LoneDownload, OneAtATime, OtaIdle, Free, Pausers, ReleaseTimesOut
  <2>7. RenderStop'
    BY <1>8 DEF PlaceTypes, FlagTypes, BusHeld, RenderStop, StrandedOnlyByOverlap, LoneDownload, ReleaseTimesOut
  <2> QED
    BY <2>1, <2>2, <2>3, <2>4, <2>5, <2>6, <2>7
<1> QED
  BY <1>1, <1>2, <1>3, <1>4, <1>5, <1>6, <1>7, <1>8 DEF DiagNext

\* The OTA task, short of its restart.
LEMMA OtaKeeps ==
  ASSUME OwnInv, OtaNext, ~OtaRestarts
  PROVE  OwnInv'
<1> USE DEF OwnInv, OtaRest, scanVars, histVars, busVars, Resuming, Free, RenderGone
<1>1. CASE OtaDrained
  <2>1. FlagTypes'
    BY <1>1 DEF FlagTypes, OtaDrained
  <2>2. (PlaceTypes /\ CallTypes)'
    BY <1>1 DEF PlaceTypes, CallTypes, Pausers, OtaDrained
  <2>3. (BudgetTypes /\ QueueBounded)'
    BY <1>1, BudgetTyped DEF BudgetTypes, QueueBounded, Kinds, OtaDrained
  <2>4. (FlagsTrue /\ Handshake /\ BusHeld)'
    BY <1>1 DEF PlaceTypes, FlagTypes, FlagsTrue, Handshake, BusHeld, OtaDrained
  <2>5. OneAtATime'
    BY <1>1 DEF PlaceTypes, FlagTypes, CallTypes, OneAtATime, OtaIdle, Free, Pausers, OtaDrained
  <2>6. LoneDownload'
    BY <1>1 DEF PlaceTypes, FlagTypes, CallTypes, LoneDownload, OneAtATime, OtaIdle, Free, Pausers, OtaDrained
  <2>7. RenderStop'
    BY <1>1 DEF PlaceTypes, FlagTypes, BusHeld, RenderStop, StrandedOnlyByOverlap, LoneDownload, OtaDrained
  <2> QED
    BY <2>1, <2>2, <2>3, <2>4, <2>5, <2>6, <2>7
<1>2. CASE FreeForOTA
  <2>1. FlagTypes'
    BY <1>2 DEF FlagTypes, FreeForOTA
  <2>2. (PlaceTypes /\ CallTypes)'
    BY <1>2 DEF PlaceTypes, CallTypes, Pausers, FreeForOTA
  <2>3. (BudgetTypes /\ QueueBounded)'
    BY <1>2, BudgetTyped DEF BudgetTypes, QueueBounded, Kinds, FreeForOTA
  <2>4. (FlagsTrue /\ Handshake /\ BusHeld)'
    BY <1>2 DEF PlaceTypes, FlagTypes, FlagsTrue, Handshake, BusHeld, FreeForOTA
  <2>5. OneAtATime'
    BY <1>2 DEF PlaceTypes, FlagTypes, CallTypes, OneAtATime, OtaIdle, Free, Pausers, FreeForOTA
  <2>6. LoneDownload'
    BY <1>2 DEF PlaceTypes, FlagTypes, CallTypes, LoneDownload, OneAtATime, OtaIdle, Free, Pausers, FreeForOTA
  <2>7. RenderStop'
    BY <1>2 DEF PlaceTypes, FlagTypes, BusHeld, RenderStop, StrandedOnlyByOverlap, LoneDownload, FreeForOTA
  <2> QED
    BY <2>1, <2>2, <2>3, <2>4, <2>5, <2>6, <2>7
<1>3. CASE GetFails
  <2>1. FlagTypes'
    BY <1>3 DEF FlagTypes, GetFails
  <2>2. (PlaceTypes /\ CallTypes)'
    BY <1>3 DEF PlaceTypes, CallTypes, Pausers, GetFails
  <2>3. (BudgetTypes /\ QueueBounded)'
    BY <1>3, BudgetTyped DEF BudgetTypes, QueueBounded, Kinds, GetFails
  <2>4. (FlagsTrue /\ Handshake /\ BusHeld)'
    BY <1>3 DEF PlaceTypes, FlagTypes, FlagsTrue, Handshake, BusHeld, GetFails
  <2>5. OneAtATime'
    BY <1>3 DEF PlaceTypes, FlagTypes, CallTypes, OneAtATime, OtaIdle, Free, Pausers, GetFails
  <2>6. LoneDownload'
    BY <1>3 DEF PlaceTypes, FlagTypes, CallTypes, LoneDownload, OneAtATime, OtaIdle, Free, Pausers, GetFails
  <2>7. RenderStop'
    BY <1>3 DEF PlaceTypes, FlagTypes, BusHeld, RenderStop, StrandedOnlyByOverlap, LoneDownload, GetFails
  <2> QED
    BY <2>1, <2>2, <2>3, <2>4, <2>5, <2>6, <2>7
<1>4. CASE Streams
  <2>1. FlagTypes'
    BY <1>4 DEF FlagTypes, Streams
  <2>2. (PlaceTypes /\ CallTypes)'
    BY <1>4 DEF PlaceTypes, CallTypes, Pausers, Streams
  <2>3. (BudgetTypes /\ QueueBounded)'
    BY <1>4, BudgetTyped DEF BudgetTypes, QueueBounded, Kinds, Streams
  <2>4. (FlagsTrue /\ Handshake /\ BusHeld)'
    BY <1>4 DEF PlaceTypes, FlagTypes, FlagsTrue, Handshake, BusHeld, Streams
  <2>5. OneAtATime'
    BY <1>4 DEF PlaceTypes, FlagTypes, CallTypes, OneAtATime, OtaIdle, Free, Pausers, Streams
  <2>6. LoneDownload'
    BY <1>4 DEF PlaceTypes, FlagTypes, CallTypes, LoneDownload, OneAtATime, OtaIdle, Free, Pausers, Streams
  <2>7. RenderStop'
    BY <1>4 DEF PlaceTypes, FlagTypes, BusHeld, RenderStop, StrandedOnlyByOverlap, LoneDownload, Streams
  <2> QED
    BY <2>1, <2>2, <2>3, <2>4, <2>5, <2>6, <2>7
<1>5. CASE OtaFails
  <2>1. FlagTypes'
    BY <1>5 DEF FlagTypes, OtaFails
  <2>2. (PlaceTypes /\ CallTypes)'
    BY <1>5 DEF PlaceTypes, CallTypes, Pausers, OtaFails
  <2>3. (BudgetTypes /\ QueueBounded)'
    BY <1>5, BudgetTyped DEF BudgetTypes, QueueBounded, Kinds, OtaFails
  <2>4. (FlagsTrue /\ Handshake /\ BusHeld)'
    BY <1>5 DEF PlaceTypes, FlagTypes, FlagsTrue, Handshake, BusHeld, OtaFails
  <2>5. OneAtATime'
    BY <1>5 DEF PlaceTypes, FlagTypes, CallTypes, OneAtATime, OtaIdle, Free, Pausers, OtaFails
  <2>6. LoneDownload'
    BY <1>5 DEF PlaceTypes, FlagTypes, CallTypes, LoneDownload, OneAtATime, OtaIdle, Free, Pausers, OtaFails
  <2>7. RenderStop'
    BY <1>5 DEF PlaceTypes, FlagTypes, BusHeld, RenderStop, StrandedOnlyByOverlap, LoneDownload, OtaFails
  <2> QED
    BY <2>1, <2>2, <2>3, <2>4, <2>5, <2>6, <2>7
<1>6. CASE Flashed
  <2>1. FlagTypes'
    BY <1>6 DEF FlagTypes, Flashed
  <2>2. (PlaceTypes /\ CallTypes)'
    BY <1>6 DEF PlaceTypes, CallTypes, Pausers, Flashed
  <2>3. (BudgetTypes /\ QueueBounded)'
    BY <1>6, BudgetTyped DEF BudgetTypes, QueueBounded, Kinds, Flashed
  <2>4. (FlagsTrue /\ Handshake /\ BusHeld)'
    BY <1>6 DEF PlaceTypes, FlagTypes, FlagsTrue, Handshake, BusHeld, Flashed
  <2>5. OneAtATime'
    BY <1>6 DEF PlaceTypes, FlagTypes, CallTypes, OneAtATime, OtaIdle, Free, Pausers, Flashed
  <2>6. LoneDownload'
    BY <1>6 DEF PlaceTypes, FlagTypes, CallTypes, LoneDownload, OneAtATime, OtaIdle, Free, Pausers, Flashed
  <2>7. RenderStop'
    BY <1>6 DEF PlaceTypes, FlagTypes, BusHeld, RenderStop, StrandedOnlyByOverlap, LoneDownload, Flashed
  <2> QED
    BY <2>1, <2>2, <2>3, <2>4, <2>5, <2>6, <2>7
<1> QED
  BY <1>1, <1>2, <1>3, <1>4, <1>5, <1>6 DEF OtaNext

\* The web task, short of its restart.
LEMMA WebKeeps ==
  ASSUME OwnInv, WebStarts \/ WebGoesOn, ~WebRestarts
  PROVE  OwnInv'
<1> USE DEF OwnInv, WebRest, scanVars, busVars, Pausing, Resuming, Free, WebIdle, OtaIdle
<1>1. CASE StartUpload
  <2>1. FlagTypes'
    BY <1>1 DEF FlagTypes, StartUpload
  <2>2. (PlaceTypes /\ CallTypes)'
    BY <1>1 DEF PlaceTypes, CallTypes, Pausers, StartUpload
  <2>3. (BudgetTypes /\ QueueBounded)'
    BY <1>1, BudgetTyped, SpendKeeps DEF BudgetTypes, QueueBounded, Kinds, StartUpload
  <2>4. (FlagsTrue /\ Handshake /\ BusHeld)'
    BY <1>1 DEF PlaceTypes, FlagTypes, FlagsTrue, Handshake, BusHeld, StartUpload
  <2>5. OneAtATime'
    BY <1>1 DEF PlaceTypes, FlagTypes, CallTypes, OneAtATime, OtaIdle, Free, Pausers, StartUpload
  <2>6. LoneDownload'
    BY <1>1 DEF PlaceTypes, FlagTypes, CallTypes, LoneDownload, OneAtATime, OtaIdle, Free, Pausers, StartUpload
  <2>7. RenderStop'
    BY <1>1 DEF PlaceTypes, FlagTypes, BusHeld, RenderStop, StrandedOnlyByOverlap, LoneDownload, StartUpload
  <2> QED
    BY <2>1, <2>2, <2>3, <2>4, <2>5, <2>6, <2>7
<1>2. CASE UploadFails
  <2>1. FlagTypes'
    BY <1>2 DEF FlagTypes, UploadFails
  <2>2. (PlaceTypes /\ CallTypes)'
    BY <1>2 DEF PlaceTypes, CallTypes, Pausers, UploadFails
  <2>3. (BudgetTypes /\ QueueBounded)'
    BY <1>2, BudgetTyped DEF BudgetTypes, QueueBounded, Kinds, UploadFails
  <2>4. (FlagsTrue /\ Handshake /\ BusHeld)'
    BY <1>2 DEF PlaceTypes, FlagTypes, FlagsTrue, Handshake, BusHeld, UploadFails
  <2>5. OneAtATime'
    BY <1>2 DEF PlaceTypes, FlagTypes, CallTypes, OneAtATime, OtaIdle, Free, Pausers, UploadFails
  <2>6. LoneDownload'
    BY <1>2 DEF PlaceTypes, FlagTypes, CallTypes, LoneDownload, OneAtATime, OtaIdle, Free, Pausers, UploadFails
  <2>7. RenderStop'
    BY <1>2 DEF PlaceTypes, FlagTypes, BusHeld, RenderStop, StrandedOnlyByOverlap, LoneDownload, UploadFails
  <2> QED
    BY <2>1, <2>2, <2>3, <2>4, <2>5, <2>6, <2>7
<1>3. CASE UploadDone
  <2>1. FlagTypes'
    BY <1>3 DEF FlagTypes, UploadDone
  <2>2. (PlaceTypes /\ CallTypes)'
    BY <1>3 DEF PlaceTypes, CallTypes, Pausers, UploadDone
  <2>3. (BudgetTypes /\ QueueBounded)'
    BY <1>3, BudgetTyped DEF BudgetTypes, QueueBounded, Kinds, UploadDone
  <2>4. (FlagsTrue /\ Handshake /\ BusHeld)'
    BY <1>3 DEF PlaceTypes, FlagTypes, FlagsTrue, Handshake, BusHeld, UploadDone
  <2>5. OneAtATime'
    BY <1>3 DEF PlaceTypes, FlagTypes, CallTypes, OneAtATime, OtaIdle, Free, Pausers, UploadDone
  <2>6. LoneDownload'
    BY <1>3 DEF PlaceTypes, FlagTypes, CallTypes, LoneDownload, OneAtATime, OtaIdle, Free, Pausers, UploadDone
  <2>7. RenderStop'
    BY <1>3 DEF PlaceTypes, FlagTypes, BusHeld, RenderStop, StrandedOnlyByOverlap, LoneDownload, UploadDone
  <2> QED
    BY <2>1, <2>2, <2>3, <2>4, <2>5, <2>6, <2>7
<1>4. CASE SaveConfig
  <2>1. FlagTypes'
    BY <1>4 DEF FlagTypes, SaveConfig
  <2>2. (PlaceTypes /\ CallTypes)'
    BY <1>4 DEF PlaceTypes, CallTypes, Pausers, SaveConfig
  <2>3. (BudgetTypes /\ QueueBounded)'
    BY <1>4, BudgetTyped, SpendKeeps DEF BudgetTypes, QueueBounded, Kinds, SaveConfig
  <2>4. (FlagsTrue /\ Handshake /\ BusHeld)'
    BY <1>4 DEF PlaceTypes, FlagTypes, FlagsTrue, Handshake, BusHeld, SaveConfig
  <2>5. OneAtATime'
    BY <1>4 DEF PlaceTypes, FlagTypes, CallTypes, OneAtATime, OtaIdle, Free, Pausers, SaveConfig
  <2>6. LoneDownload'
    BY <1>4 DEF PlaceTypes, FlagTypes, CallTypes, LoneDownload, OneAtATime, OtaIdle, Free, Pausers, SaveConfig
  <2>7. RenderStop'
    BY <1>4 DEF PlaceTypes, FlagTypes, BusHeld, RenderStop, StrandedOnlyByOverlap, LoneDownload, SaveConfig
  <2> QED
    BY <2>1, <2>2, <2>3, <2>4, <2>5, <2>6, <2>7
<1>5. CASE Drained
  <2>1. FlagTypes'
    BY <1>5 DEF FlagTypes, Drained
  <2>2. (PlaceTypes /\ CallTypes)'
    BY <1>5 DEF PlaceTypes, CallTypes, Pausers, Drained
  <2>3. (BudgetTypes /\ QueueBounded)'
    BY <1>5, BudgetTyped DEF BudgetTypes, QueueBounded, Kinds, Drained
  <2>4. (FlagsTrue /\ Handshake /\ BusHeld)'
    BY <1>5 DEF PlaceTypes, FlagTypes, FlagsTrue, Handshake, BusHeld, Drained
  <2>5. OneAtATime'
    BY <1>5 DEF PlaceTypes, FlagTypes, CallTypes, OneAtATime, OtaIdle, Free, Pausers, Drained
  <2>6. LoneDownload'
    BY <1>5 DEF PlaceTypes, FlagTypes, CallTypes, LoneDownload, OneAtATime, OtaIdle, Free, Pausers, Drained
  <2>7. RenderStop'
    BY <1>5 DEF PlaceTypes, FlagTypes, BusHeld, RenderStop, StrandedOnlyByOverlap, LoneDownload, Drained
  <2> QED
    BY <2>1, <2>2, <2>3, <2>4, <2>5, <2>6, <2>7
<1>6. CASE StartDownload
  <2>1. FlagTypes'
    BY <1>6 DEF FlagTypes, StartDownload
  <2>2. (PlaceTypes /\ CallTypes)'
    BY <1>6 DEF PlaceTypes, CallTypes, Pausers, StartDownload
  <2>3. (BudgetTypes /\ QueueBounded)'
    BY <1>6, BudgetTyped, SpendKeeps DEF BudgetTypes, QueueBounded, Kinds, StartDownload
  <2>4. (FlagsTrue /\ Handshake /\ BusHeld)'
    BY <1>6 DEF PlaceTypes, FlagTypes, FlagsTrue, Handshake, BusHeld, StartDownload
  <2>5. OneAtATime'
    BY <1>6 DEF PlaceTypes, FlagTypes, CallTypes, OneAtATime, OtaIdle, Free, Pausers, StartDownload
  <2>6. LoneDownload'
    BY <1>6 DEF PlaceTypes, FlagTypes, CallTypes, LoneDownload, OneAtATime, OtaIdle, Free, Pausers, StartDownload
  <2>7. RenderStop'
    BY <1>6 DEF PlaceTypes, FlagTypes, BusHeld, RenderStop, StrandedOnlyByOverlap, LoneDownload, StartDownload
  <2> QED
    BY <2>1, <2>2, <2>3, <2>4, <2>5, <2>6, <2>7
<1>7. CASE StartSession
  <2>1. FlagTypes'
    BY <1>7 DEF FlagTypes, StartSession
  <2>2. (PlaceTypes /\ CallTypes)'
    BY <1>7 DEF PlaceTypes, CallTypes, Pausers, StartSession
  <2>3. (BudgetTypes /\ QueueBounded)'
    BY <1>7, BudgetTyped, SpendKeeps DEF BudgetTypes, QueueBounded, Kinds, StartSession
  <2>4. (FlagsTrue /\ Handshake /\ BusHeld)'
    BY <1>7 DEF PlaceTypes, FlagTypes, FlagsTrue, Handshake, BusHeld, StartSession
  <2>5. OneAtATime'
    BY <1>7 DEF PlaceTypes, FlagTypes, CallTypes, OneAtATime, OtaIdle, Free, Pausers, StartSession
  <2>6. LoneDownload'
    BY <1>7 DEF PlaceTypes, FlagTypes, CallTypes, LoneDownload, OneAtATime, OtaIdle, Free, Pausers, StartSession
  <2>7. RenderStop'
    BY <1>7 DEF PlaceTypes, FlagTypes, BusHeld, RenderStop, StrandedOnlyByOverlap, LoneDownload, StartSession
  <2> QED
    BY <2>1, <2>2, <2>3, <2>4, <2>5, <2>6, <2>7
<1>8. CASE CancelSession
  <2>1. FlagTypes'
    BY <1>8 DEF FlagTypes, CancelSession
  <2>2. (PlaceTypes /\ CallTypes)'
    BY <1>8 DEF PlaceTypes, CallTypes, Pausers, CancelSession
  <2>3. (BudgetTypes /\ QueueBounded)'
    BY <1>8, BudgetTyped DEF BudgetTypes, QueueBounded, Kinds, CancelSession
  <2>4. (FlagsTrue /\ Handshake /\ BusHeld)'
    BY <1>8 DEF PlaceTypes, FlagTypes, FlagsTrue, Handshake, BusHeld, CancelSession
  <2>5. OneAtATime'
    BY <1>8 DEF PlaceTypes, FlagTypes, CallTypes, OneAtATime, OtaIdle, Free, Pausers, CancelSession
  <2>6. LoneDownload'
    BY <1>8 DEF PlaceTypes, FlagTypes, CallTypes, LoneDownload, OneAtATime, OtaIdle, Free, Pausers, CancelSession
  <2>7. RenderStop'
    BY <1>8 DEF PlaceTypes, FlagTypes, BusHeld, RenderStop, StrandedOnlyByOverlap, LoneDownload, CancelSession
  <2> QED
    BY <2>1, <2>2, <2>3, <2>4, <2>5, <2>6, <2>7
<1> QED
  BY <1>1, <1>2, <1>3, <1>4, <1>5, <1>6, <1>7, <1>8 DEF WebStarts, WebGoesOn

\* The two statements of a pause and of a resume.
LEMMA CallKeeps ==
  ASSUME OwnInv, NEW a \in Pausers, CallStep(a)
  PROVE  OwnInv'
<1> USE DEF OwnInv, CallStep, busVars, histVars, Free
<1>1. CASE Unwatch(a)
  <2>1. FlagTypes'
    BY <1>1 DEF FlagTypes, Unwatch
  <2>2. (PlaceTypes /\ CallTypes)'
    BY <1>1 DEF PlaceTypes, CallTypes, Pausers, Unwatch
  <2>3. (BudgetTypes /\ QueueBounded)'
    BY <1>1, BudgetTyped DEF BudgetTypes, QueueBounded, Kinds, Unwatch
  <2>4. (FlagsTrue /\ Handshake /\ BusHeld)'
    BY <1>1 DEF PlaceTypes, FlagTypes, FlagsTrue, Handshake, BusHeld, Unwatch
  <2>5. OneAtATime'
    BY <1>1 DEF PlaceTypes, FlagTypes, CallTypes, OneAtATime, OtaIdle, Free, Pausers, Unwatch
  <2>6. LoneDownload'
    BY <1>1 DEF PlaceTypes, FlagTypes, CallTypes, LoneDownload, OneAtATime, OtaIdle, Free, Pausers, Unwatch
  <2>7. RenderStop'
    BY <1>1 DEF PlaceTypes, FlagTypes, BusHeld, RenderStop, StrandedOnlyByOverlap, LoneDownload, Unwatch
  <2> QED
    BY <2>1, <2>2, <2>3, <2>4, <2>5, <2>6, <2>7
<1>2. CASE Suspend(a)
  <2>1. FlagTypes'
    BY <1>2 DEF FlagTypes, Suspend
  <2>2. (PlaceTypes /\ CallTypes)'
    BY <1>2 DEF PlaceTypes, CallTypes, Pausers, Suspend
  <2>3. (BudgetTypes /\ QueueBounded)'
    BY <1>2, BudgetTyped DEF BudgetTypes, QueueBounded, Kinds, Suspend
  <2>4. (FlagsTrue /\ Handshake /\ BusHeld)'
    BY <1>2 DEF PlaceTypes, FlagTypes, FlagsTrue, Handshake, BusHeld, Suspend
  <2>5. OneAtATime'
    BY <1>2 DEF PlaceTypes, FlagTypes, CallTypes, OneAtATime, OtaIdle, Free, Pausers, Suspend
  <2>6. LoneDownload'
    BY <1>2 DEF PlaceTypes, FlagTypes, CallTypes, LoneDownload, OneAtATime, OtaIdle, Free, Pausers, Suspend
  <2>7. RenderStop'
    BY <1>2 DEF PlaceTypes, FlagTypes, BusHeld, RenderStop, StrandedOnlyByOverlap, LoneDownload, Suspend
  <2> QED
    BY <2>1, <2>2, <2>3, <2>4, <2>5, <2>6, <2>7
<1>3. CASE Resume(a)
  <2>1. FlagTypes'
    BY <1>3 DEF FlagTypes, Resume
  <2>2. (PlaceTypes /\ CallTypes)'
    BY <1>3 DEF PlaceTypes, CallTypes, Pausers, Resume
  <2>3. (BudgetTypes /\ QueueBounded)'
    BY <1>3, BudgetTyped DEF BudgetTypes, QueueBounded, Kinds, Resume
  <2>4. (FlagsTrue /\ Handshake /\ BusHeld)'
    BY <1>3 DEF PlaceTypes, FlagTypes, FlagsTrue, Handshake, BusHeld, Resume
  <2>5. OneAtATime'
    BY <1>3 DEF PlaceTypes, FlagTypes, CallTypes, OneAtATime, OtaIdle, Free, Pausers, Resume
  <2>6. LoneDownload'
    BY <1>3 DEF PlaceTypes, FlagTypes, CallTypes, LoneDownload, OneAtATime, OtaIdle, Free, Pausers, Resume
  <2>7. RenderStop'
    BY <1>3 DEF PlaceTypes, FlagTypes, BusHeld, RenderStop, StrandedOnlyByOverlap, LoneDownload, Resume
  <2> QED
    BY <2>1, <2>2, <2>3, <2>4, <2>5, <2>6, <2>7
<1>4. CASE Watch(a)
  <2>1. FlagTypes'
    BY <1>4 DEF FlagTypes, Watch
  <2>2. (PlaceTypes /\ CallTypes)'
    BY <1>4 DEF PlaceTypes, CallTypes, Pausers, Watch
  <2>3. (BudgetTypes /\ QueueBounded)'
    BY <1>4, BudgetTyped DEF BudgetTypes, QueueBounded, Kinds, Watch
  <2>4. (FlagsTrue /\ Handshake /\ BusHeld)'
    BY <1>4 DEF PlaceTypes, FlagTypes, FlagsTrue, Handshake, BusHeld, Watch
  <2>5. OneAtATime'
    BY <1>4 DEF PlaceTypes, FlagTypes, CallTypes, OneAtATime, OtaIdle, Free, Pausers, Watch
  <2>6. LoneDownload'
    BY <1>4 DEF PlaceTypes, FlagTypes, CallTypes, LoneDownload, OneAtATime, OtaIdle, Free, Pausers, Watch
  <2>7. RenderStop'
    BY <1>4 DEF PlaceTypes, FlagTypes, BusHeld, RenderStop, StrandedOnlyByOverlap, LoneDownload, Watch
  <2> QED
    BY <2>1, <2>2, <2>3, <2>4, <2>5, <2>6, <2>7
<1> QED
  BY <1>1, <1>2, <1>3, <1>4 DEF CallStep

\* Some task queues a tag write.
LEMMA QueueKeeps ==
  ASSUME OwnInv, QueueWrite
  PROVE  OwnInv'
<1> USE DEF OwnInv, busVars, taskVars, histVars
<1>1. CASE QueueWrite
  <2>1. FlagTypes'
    BY <1>1 DEF FlagTypes, QueueWrite
  <2>2. (PlaceTypes /\ CallTypes)'
    BY <1>1 DEF PlaceTypes, CallTypes, Pausers, QueueWrite
  <2>3. (BudgetTypes /\ QueueBounded)'
    BY <1>1, BudgetTyped, SpendKeeps DEF BudgetTypes, QueueBounded, Kinds, QueueWrite
  <2>4. (FlagsTrue /\ Handshake /\ BusHeld)'
    BY <1>1 DEF PlaceTypes, FlagTypes, FlagsTrue, Handshake, BusHeld, QueueWrite
  <2>5. OneAtATime'
    BY <1>1 DEF PlaceTypes, FlagTypes, CallTypes, OneAtATime, OtaIdle, Free, Pausers, QueueWrite
  <2>6. LoneDownload'
    BY <1>1 DEF PlaceTypes, FlagTypes, CallTypes, LoneDownload, OneAtATime, OtaIdle, Free, Pausers, QueueWrite
  <2>7. RenderStop'
    BY <1>1 DEF PlaceTypes, FlagTypes, BusHeld, RenderStop, StrandedOnlyByOverlap, LoneDownload, QueueWrite
  <2> QED
    BY <2>1, <2>2, <2>3, <2>4, <2>5, <2>6, <2>7
<1> QED
  BY <1>1
-----------------------------------------------------------------------------
\* The invariant is inductive.
LEMMA StepKeeps == OwnInv /\ [Next]_ownVars => OwnInv'
<1> SUFFICES ASSUME OwnInv, [Next]_ownVars PROVE OwnInv'
  OBVIOUS
<1>1. CASE Restart
  BY <1>1, RestartInv
<1>2. CASE UNCHANGED ownVars
  BY <1>2 DEF ownVars, scanVars, busVars, taskVars, histVars, OwnInv, FlagTypes, PlaceTypes,
              CallTypes, BudgetTypes, QueueBounded, FlagsTrue, Handshake, BusHeld, OneAtATime, LoneDownload,
              RenderStop, StrandedOnlyByOverlap, OtaIdle, Free
<1>3. CASE \E a \in Pausers : CallStep(a)
  BY <1>3, CallKeeps
<1>4. CASE Next /\ ~Restart
  BY <1>3, <1>4, ScanKeeps, TftKeeps, DiagKeeps, OtaKeeps, WebKeeps, QueueKeeps
  DEF Next, WatchdogBites, OtaRestarts, WebRestarts
<1> QED
  BY <1>1, <1>2, <1>4

\* The invariant holds in every reachable state.
THEOREM OwnershipInvariant == OwnSpec => []OwnInv
BY InitInv, StepKeeps, PTL DEF OwnSpec

\* Every variable of the model keeps its type, and no budget is overdrawn.
THEOREM OwnTypeCorrect == OwnSpec => []OwnTypeOK
BY TypeParts, OwnershipInvariant, PTL

\* A self-test drives the reader only while the scan task stands aside, unless a session gave
\* up waiting for it before (waitForScanPaused, resumeScanAndWait).
THEOREM SessionOwns == OwnSpec => []SessionOwnsReader
<1>1. OwnInv => SessionOwnsReader
  BY DEF OwnInv, Handshake, SessionOwnsReader, DrivesReader, UsesReader
<1> QED
  BY <1>1, OwnershipInvariant, PTL

\* The render task is deleted holding the bus only when an upload ran beside the download
\* (freeForOTA): a lone download keeps the scan task suspended, and a render task that waits
\* for a suspended holder never gets to draw.
THEOREM BusStrandedOnlyByOverlap == OwnSpec => []StrandedOnlyByOverlap
<1>1. OwnInv => StrandedOnlyByOverlap
  BY DEF OwnInv, RenderStop
<1> QED
  BY <1>1, OwnershipInvariant, PTL

\* One update at a time never leaves the suspended scan task under the watchdog
\* (pauseScanTask, resumeScanTask).
THEOREM WatchdogSafe == OwnSpec => []LoneUpdateNeverBites
<1>1. OwnInv => LoneUpdateNeverBites
  BY DEF OwnInv, OneAtATime, LoneUpdateNeverBites, Starving
<1> QED
  BY <1>1, OwnershipInvariant, PTL

-----------------------------------------------------------------------------
(* What ScanningResumes rests on: whoever stopped the scan task still holds the means to let
   it go. *)

\* The update of this caller is under way: it ends in resumeScanTask() or in a restart.
UnderWay(a) ==
  IF a = "web" THEN web \in {"receiving", "restarting"}
  ELSE ota \in {"waiting", "freeing", "handshake", "flashing", "restarting"}

\* A suspension has an update that will end it, and so has a missing watchdog; a pause request
\* has a self-test that will withdraw it, and a task that stands aside one that asked, unless a
\* self-test gave up waiting.
NoPauseForgotten ==
  /\ suspended => \E a \in Pausers : UnderWay(a) \/ call[a] = "resume"
  /\ ~watched => \E a \in Pausers : UnderWay(a) \/ call[a] \in {"resume", "watch"}
  /\ asked => diag \in {"asking", "snapshot", "prompt", "stability"}
  /\ aside => unheard \/ diag \in {"asking", "snapshot", "prompt", "stability", "releasing"}

\* An update that has not suspended the scan task yet has not ended either.
Custody ==
  /\ \A a \in Pausers : call[a] \in {"unwatch", "suspend"} => UnderWay(a)
  /\ suspended => \E a \in Pausers : UnderWay(a) \/ call[a] = "resume"
  /\ ~watched => \E a \in Pausers : UnderWay(a) \/ call[a] \in {"resume", "watch"}

\* The tasks that neither pause nor resume.
LEMMA CustodyStays ==
  ASSUME Custody, UNCHANGED <<suspended, watched, call, web, ota>>
  PROVE  Custody'
BY DEF Custody, UnderWay

\* A restart wakes every task and forgets every call.
LEMMA RestartCustody ==
  ASSUME Restart
  PROVE  Custody'
BY DEF Restart, Booted, Custody, Pausers

\* Each statement of a pause or a resume hands the scan task on.
LEMMA CallCustody ==
  ASSUME CallTypes, Custody, NEW a \in Pausers, CallStep(a)
  PROVE  Custody'
<1> USE DEF CallTypes, Custody, UnderWay, Pausers, CallStep
<1>1. CASE Unwatch(a)
  BY <1>1 DEF Unwatch
<1>2. CASE Suspend(a)
  BY <1>2 DEF Suspend
<1>3. CASE Resume(a)
  BY <1>3 DEF Resume
<1>4. CASE Watch(a)
  BY <1>4 DEF Watch
<1> QED
  BY <1>1, <1>2, <1>3, <1>4

\* The web task starts its update with a pause and leaves it with a resume or a restart.
LEMMA WebCustody ==
  ASSUME CallTypes, Custody, WebStarts \/ WebGoesOn
  PROVE  Custody'
<1> USE DEF CallTypes, Custody, UnderWay, Pausers, Pausing, Resuming, WebRest, scanVars
<1>1. CASE StartUpload
  BY <1>1 DEF StartUpload
<1>2. CASE SaveConfig
  BY <1>2 DEF SaveConfig, WebIdle
<1>3. CASE StartDownload
  BY <1>3 DEF StartDownload
<1>4. CASE StartSession \/ CancelSession
  BY <1>4, CustodyStays DEF StartSession, CancelSession
<1>5. CASE UploadFails
  BY <1>5 DEF UploadFails
<1>6. CASE UploadDone
  BY <1>6 DEF UploadDone
<1>7. CASE Drained
  BY <1>7 DEF Drained
<1>8. CASE WebRestarts
  BY <1>8, RestartCustody DEF WebRestarts
<1> QED
  BY <1>1, <1>2, <1>3, <1>4, <1>5, <1>6, <1>7, <1>8 DEF WebStarts, WebGoesOn

\* Every exit of the download resumes the scan task or restarts.
LEMMA OtaCustody ==
  ASSUME CallTypes, PlaceTypes, Custody, OtaNext
  PROVE  Custody'
<1> USE DEF CallTypes, PlaceTypes, Custody, UnderWay, Pausers, Resuming, OtaRest, Free, scanVars
<1>1. CASE OtaDrained
  BY <1>1 DEF OtaDrained
<1>2. CASE FreeForOTA
  BY <1>2 DEF FreeForOTA
<1>3. CASE GetFails
  BY <1>3 DEF GetFails
<1>4. CASE Streams
  BY <1>4 DEF Streams
<1>5. CASE OtaFails
  BY <1>5 DEF OtaFails
<1>6. CASE Flashed
  BY <1>6 DEF Flashed
<1>7. CASE OtaRestarts
  BY <1>7, RestartCustody DEF OtaRestarts
<1> QED
  BY <1>1, <1>2, <1>3, <1>4, <1>5, <1>6, <1>7 DEF OtaNext

LEMMA StepCustody == OwnInv /\ Custody /\ [Next]_ownVars => Custody'
<1> SUFFICES ASSUME OwnInv, Custody, [Next]_ownVars PROVE Custody'
  OBVIOUS
<1>0. CallTypes /\ PlaceTypes
  BY DEF OwnInv
<1>1. CASE ScanNext
  BY <1>1, CustodyStays
  DEF ScanNext, TopRuns, StandsAside, LeavesPause, ClearsAside, TakesWrite, CycleEnds, ScanRest, taskVars
<1>2. CASE DiagNext
  BY <1>2, CustodyStays
  DEF DiagNext, AskForReader, ReaderGranted, AskTimesOut, PromptUser, UserContinues, ReleaseReader,
      SessionEnds, ReleaseTimesOut, DiagRest
<1>3. CASE TftNext
  BY <1>3, CustodyStays
  DEF TftNext, Parks, WantsBus, Draws, DropsFrame, GuardWaits, Drawn, TftRest, TftStays, scanVars, taskVars
<1>4. CASE QueueWrite \/ UNCHANGED ownVars
  BY <1>4, CustodyStays DEF QueueWrite, ownVars, scanVars, taskVars
<1>5. CASE WatchdogBites
  BY <1>5, RestartCustody DEF WatchdogBites
<1> QED
  BY <1>0, <1>1, <1>2, <1>3, <1>4, <1>5, CallCustody, WebCustody, OtaCustody DEF Next

\* However updates and self-tests fail, are cancelled or overlap: no suspension, no missing
\* watchdog and no pause request is left without the update or self-test that ends it.
THEOREM PausesAreHeld == OwnSpec => []NoPauseForgotten
<1>1. Init => Custody
  BY DEF Init, Booted, Custody, Pausers
<1>2. OwnInv /\ Custody => NoPauseForgotten
  BY DEF OwnInv, FlagsTrue, Handshake, PlaceTypes, Custody, NoPauseForgotten
<1> QED
  BY <1>1, <1>2, StepCustody, OwnershipInvariant, PTL DEF OwnSpec
=============================================================================
