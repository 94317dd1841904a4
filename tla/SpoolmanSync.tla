---------------------------- MODULE SpoolmanSync ----------------------------
(***************************************************************************)
(* SpoolmanManager: which spool of the Spoolman database a tag denotes,    *)
(* and what the sync task, the web pages and deductions write to it.  All  *)
(* of them hold the HTTP mutex from their first request to their last; the *)
(* sync task's run is one step per decision, since the pending link, the   *)
(* OTA flag and the database itself may change between its requests.  A    *)
(* web request or a deduction is one step, taken while the mutex is free.  *)
(*                                                                         *)
(* Abstracted: a filament is its material and colour (a kind) of a vendor; *)
(* grams come in units of LOW_SPOOL_THRESHOLD_G; a request over HTTP is    *)
(* answered, answered with the reply lost, or refused.                     *)
(***************************************************************************)
EXTENDS Naturals, Sequences, FiniteSets

CONSTANTS
  Uids,          \* tags
  Spools,        \* ids Spoolman has given or may give, positive
  Kinds,         \* materials with their colours
  Incomplete,    \* what stands for the kind of a filament without material or colour
  Maker,         \* the key of the manufacturer in the catalog
  Grams,         \* weights a tag may carry; 0: none
  NoUid, NoFil,
  LOW, JUMP,     \* LOW_SPOOL_THRESHOLD_G, WEIGHT_JUMP_THRESHOLD_G
  FULL,          \* the initial weight of a new spool
  CACHE, QUEUE,  \* entries of either cache; QUEUE_SIZE
  Listed,        \* the spools Spoolman starts with
  Known,         \* the catalog it starts with
  MaxFaults,     \* bound: failed requests and timeouts
  MaxInputs      \* bound: syncs queued, web requests, deductions, edits by other users

ASSUME KeyAssumption ==
  /\ Spools \subseteq Nat \ {0} /\ IsFiniteSet(Spools)
  /\ Uids \cap {NoUid, "none", "blank"} = {} /\ Maker \notin Kinds \cup Incomplete
ASSUME SizeAssumption ==
  /\ CACHE \in Nat \ {0} /\ QUEUE \in Nat \ {0}
  /\ Grams \subseteq Nat /\ {LOW, JUMP, FULL} \subseteq Nat
ASSUME BoundAssumption == MaxFaults \in Nat /\ MaxInputs \in Nat

VARIABLES
  spool,         \* Spoolman's spools
  catalog,       \* Spoolman's vendors and filaments, numbered per key
  idCache, idAt,       \* spoolIdCache_ and its write index
  syncCache, syncAt,   \* syncStateCache_ and its write index
  queue,         \* syncQueue
  sync,          \* the request the sync task works on, and how far it is
  pend,          \* pendingLinkSpoolId_, pendingLinkSetAt_ (within the window?)
  arming,        \* setPendingLink() between its two stores; 0: not in it
  ota,           \* otaExclusive()
  picker,        \* the picker cache: valid, older than the database, refresh wanted, over its TTL
  split,         \* history: tags two spools claim, from the start or since a link left one
  asked, faults, visits   \* budgets spent

db == <<spool, catalog>>
caches == <<idCache, idAt, syncCache, syncAt>>
budgets == <<asked, faults, visits>>
syncVars == <<db, caches, queue, sync, pend, arming, ota, picker,
              split, budgets>>

-----------------------------------------------------------------------------
(* The database *)

\* nfc "blank" is the nfc_id a cleared spool keeps: a quoted empty string.  pin is the nfc_link
\* stamp.  by, a history: whose the last link of the spool to its tag was, the writer's picker's,
\* the web page's or nobody's.
Unlisted == [st |-> "absent", nfc |-> "none", pin |-> FALSE, by |-> "nobody",
             fil |-> NoFil, grams |-> 0]
\* A filament: its kind, the number of its vendor (0: none), its own number.
Fils == (Kinds \cup Incomplete) \X (0 .. 2) \X (1 .. 2)
Entries == (Kinds \cup Incomplete \cup {Maker}) \X (0 .. 2) \X (1 .. 2)
Spool == [st : {"absent", "active", "archived"}, nfc : Uids \cup {"none", "blank"},
          pin : BOOLEAN, by : {"nobody", "picker", "page"}, fil : Fils \cup {NoFil}, grams : Nat]

Linkless(s) == [s EXCEPT !.nfc = "blank", !.pin = FALSE, !.by = "nobody"]

ASSUME DatabaseAssumption ==
  /\ NoFil \notin Fils /\ Known \subseteq Entries
  /\ DOMAIN Listed \subseteq Spools
  /\ \A s \in DOMAIN Listed : Listed[s] \in Spool /\ (Listed[s].by = "picker" => Listed[s].pin)

Claims(uid) == {s \in Spools : spool[s].st = "active" /\ spool[s].nfc = uid}
Highest(S) == CHOOSE s \in S : \A t \in S : t <= s
NextId == CHOOSE s \in Spools : spool[s].st = "absent"
                             /\ \A t \in Spools : spool[t].st = "absent" => s <= t
CanList == \E s \in Spools : spool[s].st = "absent"

\* What the picker shows of a spool.
Shown(s) == <<s.st, s.fil, s.grams>>

\* How a request may end: "lost" is done although the scanner sees a failure.
Replies == {"ok", "lost", "refused"}
Charge(n) == faults + n <= MaxFaults /\ faults' = faults + n
Reply(r) == Charge(IF r = "ok" THEN 0 ELSE 1)

\* A write of new to the database, whose reply is r.
Write(r, new) == spool' = IF r = "refused" THEN spool ELSE new

\* The picker falls behind when what it shows changes; want sets the refresh flag.
Touch(want) ==
  picker' = [picker EXCEPT
    !.stale = @ \/ \E s \in Spools : Shown(spool'[s]) # Shown(spool[s]),
    !.wanted = @ \/ want]
-----------------------------------------------------------------------------
(* The two caches: arrays with one entry per tag at most, filled in a ring *)

Holder(cache, uid) == {i \in 1 .. CACHE : cache[i].uid = uid}

Stored(cache, at, entry) ==
  LET held == Holder(cache, entry.uid)
  IN  IF held # {} THEN [cache |-> [i \in 1 .. CACHE |-> IF i \in held THEN entry ELSE cache[i]],
                         at |-> at]
      ELSE [cache |-> [cache EXCEPT ![at] = entry], at |-> (at % CACHE) + 1]

Cached(uid) ==
  LET hits == {i \in Holder(idCache, uid) : idCache[i].spool > 0}
  IN  IF hits = {} THEN 0 ELSE idCache[CHOOSE i \in hits : TRUE].spool

StoreId(uid, s) ==
  LET next == Stored(idCache, idAt, [uid |-> uid, spool |-> s])
  IN  idCache' = next.cache /\ idAt' = next.at

KeepId == UNCHANGED <<idCache, idAt>>

\* invalidateCachedSpoolmanId(): the entry keeps its tag, the sync state loses it.
Invalidate(uid) ==
  /\ idCache' = [i \in 1 .. CACHE |-> IF i \in Holder(idCache, uid)
                                        THEN [idCache[i] EXCEPT !.spool = 0] ELSE idCache[i]]
  /\ syncCache' = [i \in 1 .. CACHE |-> IF i \in Holder(syncCache, uid)
                                          THEN [syncCache[i] EXCEPT !.uid = NoUid] ELSE syncCache[i]]
  /\ UNCHANGED <<idAt, syncAt>>

StoreSync(uid, s, fil, g) ==
  LET next == Stored(syncCache, syncAt, [uid |-> uid, spool |-> s, fil |-> fil, grams |-> g])
  IN  syncCache' = next.cache /\ syncAt' = next.at

KeepSync == UNCHANGED <<syncCache, syncAt>>

SyncCacheMatches(uid, s, fil, g) ==
  \E i \in Holder(syncCache, uid) :
    syncCache[i].spool = s /\ syncCache[i].fil = fil /\ syncCache[i].grams = g
-----------------------------------------------------------------------------
(* resolveSpoolByUidNoLock() *)

UsableAny(s, uid) == spool[s].st = "active"
UsableFor(s, uid) == spool[s].st = "active" /\ spool[s].nfc \in {"none", uid}

Snapshot(s) == [fil |-> spool[s].fil, grams |-> spool[s].grams, pin |-> spool[s].pin]
NoCore == [fil |-> NoFil, grams |-> 0, pin |-> FALSE]

\* The tiers of the precedence that have an answer.
TagTier(uid, tagId) == tagId # 0 /\ UsableFor(tagId, uid)
CacheTier(uid, tagId) ==
  Cached(uid) # 0 /\ Cached(uid) # tagId /\ UsableFor(Cached(uid), uid)
Resolved(uid, tagId) ==
  IF Claims(uid) # {} THEN Highest(Claims(uid))
  ELSE IF TagTier(uid, tagId) THEN tagId
  ELSE IF CacheTier(uid, tagId) THEN Cached(uid)
  ELSE 0

\* What resolving leaves in the caches.
ResolveCaches(uid, tagId) ==
  IF Claims(uid) # {} \/ TagTier(uid, tagId)
    THEN StoreId(uid, Resolved(uid, tagId)) /\ KeepSync
  ELSE IF Cached(uid) # 0 /\ Cached(uid) # tagId /\ ~CacheTier(uid, tagId)
    THEN Invalidate(uid)
  ELSE UNCHANGED caches
-----------------------------------------------------------------------------
(* The sync task *)

Request == [uid : Uids, tagId : Spools \cup {0}, kind : Kinds, grams : Grams, lookup : BOOLEAN]
Idle == [pc |-> "idle"]
At(pc, req) == [pc |-> pc, req |-> req, fresh |-> FALSE, link |-> 0, just |-> FALSE, found |-> 0,
                valid |-> FALSE, core |-> NoCore, vendor |-> 0, fil |-> NoFil, ok |-> FALSE]

SyncInit ==
  /\ spool = [s \in Spools |-> IF s \in DOMAIN Listed THEN Listed[s] ELSE Unlisted]
  /\ catalog = Known
  /\ idCache = [i \in 1 .. CACHE |-> [uid |-> NoUid, spool |-> 0]] /\ idAt = 1
  /\ syncCache = [i \in 1 .. CACHE |-> [uid |-> NoUid, spool |-> 0, fil |-> NoFil, grams |-> 0]]
  /\ syncAt = 1
  /\ queue = <<>> /\ sync = Idle
  /\ pend = [spool |-> 0, fresh |-> FALSE] /\ arming = 0
  /\ ota = FALSE
  /\ picker = [valid |-> FALSE, stale |-> FALSE, wanted |-> FALSE, old |-> FALSE]
  /\ split = {uid \in Uids : \E s, t \in Claims(uid) : s # t}
  /\ asked = 0 /\ faults = 0 /\ visits = 0

MutexFree == sync.pc \in {"idle", "waiting", "ended"}

EnqueueSync(req) ==
  /\ asked + visits < MaxInputs /\ Len(queue) < QUEUE
  /\ queue' = Append(queue, req) /\ asked' = asked + 1
  /\ UNCHANGED <<db, caches, sync, pend, arming, ota, picker, split, faults, visits>>

Receive ==
  /\ sync.pc = "idle" /\ queue # <<>> /\ ~ota
  /\ sync' = At("waiting", Head(queue))
  /\ queue' = Tail(queue)
  /\ UNCHANGED <<db, caches, pend, arming, ota, picker, split, budgets>>

End(ok) == sync' = [At("ended", sync.req) EXCEPT !.ok = ok]

\* The mutex times out, OTA has begun, or Spoolman's extra fields cannot be made sure of.
StandDown ==
  /\ sync.pc = "waiting"
  /\ Charge(IF ota THEN 0 ELSE 1)
  /\ End(FALSE)
  /\ UNCHANGED <<db, caches, queue, pend, arming, ota, picker, split, asked, visits>>

\* The time stamp of the pending link is read before the link is taken.
Begin ==
  /\ sync.pc = "waiting" /\ ~ota
  /\ sync' = [At(IF sync.req.lookup THEN "resolve" ELSE "link", sync.req)
               EXCEPT !.fresh = pend.fresh]
  /\ UNCHANGED <<db, caches, queue, pend, arming, ota, picker, split, budgets>>

TakeLink ==
  /\ sync.pc = "link"
  /\ pend' = [pend EXCEPT !.spool = 0]
  /\ sync' = IF pend.spool # 0 /\ sync.fresh
               THEN [sync EXCEPT !.pc = "linking", !.link = pend.spool]
               ELSE [sync EXCEPT !.pc = "resolve"]
  /\ UNCHANGED <<db, caches, queue, arming, ota, picker, split, budgets>>

\* The link without the clean-up.
LinkedAlone(s, uid, gone) ==
  [spool EXCEPT ![s].nfc = uid, ![s].pin = TRUE, ![s].by = "picker"]
\* The claim of uid moves to spool s, and leaves the spools of gone.
Linked(s, uid, gone) ==
  [t \in Spools |->
     IF t = s THEN [spool[t] EXCEPT !.nfc = uid, !.pin = TRUE, !.by = "picker"]
     ELSE IF t \in gone THEN Linkless(spool[t])
     ELSE spool[t]]

\* clearNfcIdFromOtherSpools() is best effort, and does not follow a link that failed.
PatchLink ==
  LET s == sync.link
      uid == sync.req.uid
      others == Claims(uid) \ {s}
  IN
  /\ sync.pc = "linking"
  /\ \E r \in Replies, gone \in SUBSET others :
       /\ r # "ok" => gone = {}
       /\ spool[s].st = "absent" => r = "refused"
       /\ Charge((IF r = "ok" \/ spool[s].st = "absent" THEN 0 ELSE 1)
                 + (IF r = "ok" /\ gone # others THEN 1 ELSE 0))
       /\ Write(r, Linked(s, uid, gone))
       /\ split' = IF r = "refused" THEN split
                   ELSE IF gone = others THEN split \ {uid} ELSE split \cup {uid}
       /\ IF r = "ok" THEN StoreId(uid, s) ELSE KeepId
       /\ sync' = [sync EXCEPT !.pc = "resolve", !.just = (r = "ok")]
       /\ Touch(r = "ok")
  /\ KeepSync
  /\ UNCHANGED <<catalog, queue, pend, arming, ota, asked, visits>>

\* What resolving comes to: s = 0, no spool; without a valid core only for a claim.
Found(s, valid) ==
  IF s = 0 /\ sync.req.lookup THEN [At("ended", sync.req) EXCEPT !.ok = FALSE]
  ELSE [sync EXCEPT !.pc = IF sync.req.lookup THEN "details" ELSE "vendor",
                    !.found = s, !.valid = valid /\ s # 0,
                    !.core = IF valid /\ s # 0 THEN Snapshot(s) ELSE NoCore]

Resolve ==
  LET uid == sync.req.uid
      tagId == IF sync.req.lookup THEN 0 ELSE sync.req.tagId
  IN
  /\ sync.pc = "resolve"
  /\ \/ \E valid \in BOOLEAN :
          /\ ~valid => sync.just \/ Claims(uid) # {}
          /\ sync' = Found(IF sync.just THEN sync.link ELSE Resolved(uid, tagId), valid)
          /\ Charge(IF valid THEN 0 ELSE 1)
          /\ IF sync.just THEN UNCHANGED caches ELSE ResolveCaches(uid, tagId)
     \/ ~sync.just /\ End(FALSE) /\ Charge(1) /\ UNCHANGED caches
  /\ UNCHANGED <<db, queue, pend, arming, ota, picker, split, asked, visits>>

Details ==
  /\ sync.pc = "details"
  /\ \E ok \in BOOLEAN : End(ok) /\ Charge(IF ok THEN 0 ELSE 1)
  /\ UNCHANGED <<db, caches, queue, pend, arming, ota, picker, split, asked, visits>>

\* Finding an entry of the catalog or else making one; NoFil: neither worked.  Filaments are
\* looked for among those of the vendor, if there is one.
Matches(cat, key, vendor) == {e \in cat : e[1] = key /\ vendor \in {0, e[2]}}
Made(cat, e) ==   \* POSTed: answered, or the reply lost
  {[id |-> e, cost |-> 0, catalog |-> cat \cup {e}], [id |-> NoFil, cost |-> 1, catalog |-> cat \cup {e}]}
FindOrCreateBlindly(cat, key, vendor) ==   \* a lookup that fails taken for one that finds nothing
  {[id |-> e, cost |-> 0, catalog |-> cat] : e \in Matches(cat, key, vendor)}
  \cup Made(cat, <<key, vendor, IF Matches(cat, key, vendor) = {} THEN 1 ELSE 2>>)
FindOrCreate(cat, key, vendor) ==
  {[id |-> e, cost |-> 0, catalog |-> cat] : e \in Matches(cat, key, vendor)}
  \cup {[id |-> NoFil, cost |-> 1, catalog |-> cat]}
  \cup IF Matches(cat, key, vendor) = {} THEN Made(cat, <<key, vendor, 1>>) ELSE {}
VendorNo(id) == IF id = NoFil THEN 0 ELSE id[3]

FindVendor ==
  /\ sync.pc = "vendor"
  /\ \E v \in FindOrCreate(catalog, Maker, 0) :
       /\ catalog' = v.catalog /\ Charge(v.cost)
       /\ sync' = [sync EXCEPT !.pc = IF v.id = NoFil THEN "act" ELSE "filament",
                               !.vendor = VendorNo(v.id)]
  /\ UNCHANGED <<spool, caches, queue, pend, arming, ota, picker, split, asked, visits>>

FindFilament ==
  /\ sync.pc = "filament"
  /\ \E f \in FindOrCreate(catalog, sync.req.kind, sync.vendor) :
       /\ catalog' = f.catalog /\ Charge(f.cost)
       /\ sync' = [sync EXCEPT !.pc = "act", !.fil = f.id]
  /\ UNCHANGED <<spool, caches, queue, pend, arming, ota, picker, split, asked, visits>>

\* reconcileSpool()
ReconcileIgnoringLink(core, fil, g) ==
  IF core.fil # NoFil /\ core.fil # fil /\ core.fil[1] \notin Incomplete \cup {fil[1]} THEN "replace"
  ELSE IF core.grams <= LOW /\ g > core.grams + JUMP THEN "replace"
  ELSE IF core.fil # NoFil /\ core.fil # fil THEN "weightOnly" ELSE "keep"
Reconcile(core, fil, g) ==
  IF core.pin THEN "weightOnly" ELSE ReconcileIgnoringLink(core, fil, g)

\* How a sync treats the spool it found.
Verdict ==
  CASE sync.fil = NoFil -> IF sync.found = 0 THEN "fail" ELSE "weightOnly"
    [] sync.fil # NoFil /\ sync.found = 0 -> "create"
    [] sync.fil # NoFil /\ sync.found # 0 ->
         IF sync.just THEN "weightOnly"
         ELSE IF ~sync.valid THEN "keep"
         ELSE Reconcile(sync.core, sync.fil, sync.req.grams)

\* updateSpool(): nothing is sent when there is nothing to say.
Updated(s, fil, g) ==
  [spool EXCEPT ![s].grams = IF g > 0 THEN g ELSE @, ![s].fil = IF fil # NoFil THEN fil ELSE @]
UpdateSpool(s, fil) ==
  LET g == sync.req.grams
      uid == sync.req.uid
  IN
  \E r \in Replies :
    /\ fil = NoFil /\ g = 0 => r = "ok"
    /\ spool[s].st = "absent" /\ (fil # NoFil \/ g > 0) => r = "refused"
    /\ Charge(IF r = "ok" \/ spool[s].st = "absent" THEN 0 ELSE 1)
    /\ Write(r, IF spool[s].st = "absent" THEN spool ELSE Updated(s, fil, g))
    /\ Touch(FALSE)
    /\ End(r = "ok")
    /\ IF r = "ok" THEN StoreId(uid, s) /\ StoreSync(uid, s, fil, g) ELSE UNCHANGED caches

Act ==
  LET v == Verdict
      fil == IF v = "weightOnly" THEN NoFil ELSE sync.fil
  IN
  /\ sync.pc = "act"
  /\ \/ v = "fail" /\ End(FALSE) /\ UNCHANGED <<spool, caches, picker, faults>>
     \/ v = "create" /\ sync' = [sync EXCEPT !.pc = "create"]
        /\ UNCHANGED <<spool, caches, picker, faults>>
     \/ v = "replace" /\ sync' = [sync EXCEPT !.pc = "archive"]
        /\ UNCHANGED <<spool, caches, picker, faults>>
     \/ /\ v \in {"keep", "weightOnly"}   \* the sync state may be past its two hours
        /\ SyncCacheMatches(sync.req.uid, sync.found, fil, sync.req.grams)
        /\ End(TRUE) /\ UNCHANGED <<spool, caches, picker, faults>>
     \/ v \in {"keep", "weightOnly"} /\ UpdateSpool(sync.found, fil)
  /\ UNCHANGED <<catalog, queue, pend, arming, ota, split, asked, visits>>

Archive ==
  /\ sync.pc = "archive"
  /\ \E r \in Replies :
       /\ spool[sync.found].st = "absent" => r = "refused"
       /\ Charge(IF r = "ok" \/ spool[sync.found].st = "absent" THEN 0 ELSE 1)
       /\ Write(r, [spool EXCEPT ![sync.found].st = "archived"])
       /\ sync' = [sync EXCEPT !.pc = IF r = "ok" THEN "create" ELSE "reuse"]
       /\ IF r = "ok" THEN Invalidate(sync.req.uid) ELSE UNCHANGED caches
       /\ Touch(FALSE)
  /\ UNCHANGED <<catalog, queue, pend, arming, ota, split, asked, visits>>

\* The archive failed: the old spool is used rather than a duplicate made.
Reuse ==
  /\ sync.pc = "reuse"
  /\ UpdateSpool(sync.found, sync.fil)
  /\ UNCHANGED <<catalog, queue, pend, arming, ota, split, asked, visits>>

\* Spools bounds the ids: a spool that finds none left is refused.  Without a remaining weight
\* Spoolman takes the new spool for a full one.
NewSpool(uid, fil, g) ==
  [spool EXCEPT ![NextId] = [st |-> "active", nfc |-> uid, pin |-> FALSE, by |-> "nobody",
                             fil |-> fil, grams |-> IF g > 0 THEN g ELSE FULL]]

CreateSpool ==
  /\ sync.pc = "create"
  /\ \E r \in Replies :
       /\ ~CanList => r = "refused"
       /\ Charge(IF r = "ok" \/ ~CanList THEN 0 ELSE 1)
       /\ Write(r, NewSpool(sync.req.uid, sync.fil, sync.req.grams))
       /\ End(r = "ok")
       /\ IF r = "ok" THEN /\ StoreId(sync.req.uid, NextId)
                           /\ StoreSync(sync.req.uid, NextId, sync.fil, sync.req.grams)
                      ELSE UNCHANGED caches
       /\ Touch(FALSE)
  /\ UNCHANGED <<catalog, queue, pend, arming, ota, split, asked, visits>>

\* A failure while OTA owns the network is not an answer: the request is tried again.
Answer ==
  /\ sync.pc = "ended"
  /\ sync' = IF ~sync.ok /\ ota THEN At("waiting", sync.req) ELSE Idle
  /\ picker' = [picker EXCEPT !.wanted = @ \/ (sync.ok /\ ~sync.req.lookup)]
  /\ UNCHANGED <<db, caches, queue, pend, arming, ota, split, budgets>>

PickerDueWhenAsked == picker.wanted
PickerDue == picker.wanted \/ (picker.valid /\ picker.old)

\* Only when no request came for a second; the flag is spent before the mutexes are had.
RefreshPicker ==
  /\ sync.pc = "idle" /\ queue = <<>> /\ ~ota /\ PickerDue
  /\ \/ /\ picker' = [valid |-> TRUE, stale |-> FALSE, wanted |-> FALSE, old |-> FALSE]
        /\ UNCHANGED faults
     \/ /\ picker' = [picker EXCEPT !.wanted = FALSE] /\ Charge(1)      \* a mutex timed out
     \/ /\ picker' = [picker EXCEPT !.wanted = FALSE, !.valid = FALSE, !.stale = FALSE, !.old = FALSE]
        /\ Charge(1)                                                   \* the stream failed
  /\ UNCHANGED <<db, caches, queue, sync, pend, arming, ota, split, asked, visits>>
-----------------------------------------------------------------------------
(* The other users of the database *)

Visit == asked + visits < MaxInputs /\ visits' = visits + 1

\* setPendingLink(): the time stamp is stored before the spool.
ArmStamp(s) ==
  /\ Visit /\ arming = 0 /\ spool[s].st = "active"
  /\ pend' = [pend EXCEPT !.fresh = TRUE] /\ arming' = s
  /\ UNCHANGED <<db, caches, queue, sync, ota, picker, split, asked, faults>>

ArmStore ==
  /\ arming # 0
  /\ pend' = [pend EXCEPT !.spool = arming] /\ arming' = 0
  /\ UNCHANGED <<db, caches, queue, sync, ota, picker, split, budgets>>

\* PENDING_LINK_TIMEOUT_MS pass: a stamp read earlier expires no later than the one stored.
Expire ==
  /\ arming = 0
  /\ \/ pend.fresh /\ pend' = [pend EXCEPT !.fresh = FALSE]
     \/ sync.pc = "link" /\ sync.fresh /\ UNCHANGED pend
  /\ sync' = IF sync.pc = "link" THEN [sync EXCEPT !.fresh = FALSE] ELSE sync
  /\ UNCHANGED <<db, caches, queue, arming, ota, picker, split, budgets>>

WebMayCall == MutexFree /\ ~ota

\* handleApiSpoolmanLink(): PATCHing extra replaces the whole map.
WebLink(uid, new, old) ==
  /\ WebMayCall /\ Visit
  /\ spool[new].st = "active" /\ old # new
  /\ \E r \in Replies, cleared \in BOOLEAN :
       LET gone == IF r = "ok" /\ cleared /\ old # 0 THEN {old} ELSE {} IN
       /\ cleared <=> (r = "ok" /\ old # 0 /\ spool[old].st # "absent")
       /\ Reply(r)
       /\ spool' = IF r = "refused" THEN spool
                   ELSE [t \in Spools |->
                           IF t = new
                             THEN [spool[t] EXCEPT !.nfc = uid, !.pin = FALSE, !.by = "page"]
                           ELSE IF t \in gone THEN Linkless(spool[t])
                           ELSE spool[t]]
       /\ split' = IF r # "refused" /\ Claims(uid) \ ({new} \cup gone) # {}
                     THEN split \cup {uid} ELSE split
  /\ UNCHANGED <<catalog, caches, queue, sync, pend, arming, ota, picker, asked>>

\* Registering and enriching: a vendor or filament the user declined is made a second time.
Chosen(cat, key, vendor, how) ==
  FindOrCreate(cat, key, vendor) \cup IF how = "declined" THEN Made(cat, <<key, vendor, 2>>) ELSE {}

FoundByUid(uid) == Resolved(uid, 0)

\* An enrichment leaves the filament alone when it is of the kind asked for.
EnrichKeeps(s, kind, how) ==
  how # "register" /\ s # 0 /\ spool[s].fil \in Fils /\ spool[s].fil[1] = kind

Saved(uid, kind, fil, g, how) ==
  LET s == FoundByUid(uid) IN
  IF s = 0 THEN NewSpool(uid, fil, g)
  ELSE [spool EXCEPT ![s].fil = IF EnrichKeeps(s, kind, how) THEN @ ELSE fil,
                     ![s].grams = IF g > 0 THEN g ELSE @]

\* handleApiRegisterUid() and handleApiSpoolmanSaveEnrichment(): a vendor that cannot be made
\* is done without, one whose lookup fails ends it.
WebSave(uid, kind, g, how) ==
  LET full == FoundByUid(uid) = 0 /\ ~CanList IN
  /\ WebMayCall /\ Visit
  /\ \E v \in Chosen(catalog, Maker, 0, how) :
     \E f \in Chosen(v.catalog, kind, VendorNo(v.id), how), r \in Replies :
       /\ v.id = NoFil /\ Matches(catalog, Maker, 0) # {} /\ how # "declined" =>
            f.id = NoFil /\ f.catalog = v.catalog
       /\ f.id = NoFil \/ full => r = "refused"
       /\ Charge(v.cost + f.cost + (IF r = "ok" \/ f.id = NoFil \/ full THEN 0 ELSE 1))
       /\ catalog' = f.catalog
       /\ Write(r, Saved(uid, kind, f.id, g, how))
       /\ Touch(r = "ok")
       /\ IF f.id = NoFil THEN UNCHANGED caches ELSE ResolveCaches(uid, 0)
  /\ UNCHANGED <<queue, sync, pend, arming, ota, split, asked>>

Deducted(w, g) == IF g > w THEN 0 ELSE w - g

\* deductFromSpoolman(), which does not say "done" when the reply is lost.
Deduct(uid, g) ==
  LET s == Resolved(uid, 0) IN
  /\ WebMayCall /\ Visit
  /\ \E r \in Replies :
       /\ s = 0 => r = "refused"
       /\ Charge(IF r = "ok" \/ s = 0 THEN 0 ELSE 1)
       /\ Write(r, [spool EXCEPT ![s].grams = Deducted(@, g)])
       /\ Touch(r = "ok" /\ s # 0 /\ spool[s].grams > 0)
  /\ ResolveCaches(uid, 0)
  /\ UNCHANGED <<catalog, queue, sync, pend, arming, ota, split, asked>>

\* The application has written its id to the tag and drops what the caches say of it.
InvalidateAfterWrite(uid) ==
  /\ Visit /\ Holder(idCache, uid) # {} /\ Invalidate(uid)
  /\ UNCHANGED <<db, queue, sync, pend, arming, ota, picker, split, asked, faults>>

OtherUserArchives(s) ==
  /\ Visit /\ spool[s].st = "active"
  /\ spool' = [spool EXCEPT ![s].st = "archived"] /\ Touch(FALSE)
  /\ UNCHANGED <<catalog, caches, queue, sync, pend, arming, ota, split, asked, faults>>

\* handleApiSpoolmanSpools(): without a valid cache it streams, and asks for a refresh.
ServePicker ==
  /\ Visit /\ ~picker.valid /\ ~ota
  /\ picker' = [picker EXCEPT !.wanted = TRUE]
  /\ UNCHANGED <<db, caches, queue, sync, pend, arming, ota, split, asked, faults>>

\* SPOOL_CACHE_TTL_MS
PickerAges ==
  /\ picker.valid /\ ~picker.old
  /\ picker' = [picker EXCEPT !.old = TRUE]
  /\ UNCHANGED <<db, caches, queue, sync, pend, arming, ota, split, budgets>>

StartOta ==
  /\ Visit /\ ~ota /\ ota' = TRUE
  /\ UNCHANGED <<db, caches, queue, sync, pend, arming, picker, split, asked, faults>>

EndOta ==
  /\ ota /\ ota' = FALSE
  /\ UNCHANGED <<db, caches, queue, sync, pend, arming, picker, split, budgets>>
-----------------------------------------------------------------------------
SyncTask ==
  \/ Receive \/ StandDown \/ Begin \/ TakeLink \/ PatchLink \/ Resolve \/ Details
  \/ FindVendor \/ FindFilament \/ Act \/ Archive \/ Reuse \/ CreateSpool \/ Answer

Others ==
  \/ \E req \in Request : EnqueueSync(req)
  \/ \E s \in Spools : ArmStamp(s) \/ OtherUserArchives(s)
  \/ Expire
  \/ \E uid \in Uids :
       \/ InvalidateAfterWrite(uid)
       \/ \E new \in Spools, old \in Spools \cup {0} : WebLink(uid, new, old)
       \/ \E g \in Grams \ {0} : Deduct(uid, g)
       \/ \E kind \in Kinds, g \in Grams, how \in {"register", "enrich", "declined"} :
            WebSave(uid, kind, g, how)
  \/ ServePicker \/ StartOta

SyncNext == SyncTask \/ RefreshPicker \/ ArmStore \/ PickerAges \/ EndOta \/ Others

\* The task runs, a store follows its stamp, minutes pass and updates end.
SyncFairness ==
  /\ WF_syncVars(SyncTask) /\ WF_syncVars(RefreshPicker)
  /\ WF_syncVars(ArmStore) /\ WF_syncVars(PickerAges) /\ WF_syncVars(EndOta)

SyncSpec == SyncInit /\ [][SyncNext]_syncVars /\ SyncFairness
-----------------------------------------------------------------------------
(* Properties *)

Places ==
  {"waiting", "ended", "link", "linking", "resolve", "details",
   "vendor", "filament", "act", "archive", "reuse", "create"}
Cores == [fil : Fils \cup {NoFil}, grams : Nat, pin : BOOLEAN]
Syncs ==
  [pc : Places, req : Request, fresh : BOOLEAN, link : Spools \cup {0}, just : BOOLEAN,
   found : Spools \cup {0}, valid : BOOLEAN, core : Cores, vendor : 0 .. 2, fil : Fils \cup {NoFil},
   ok : BOOLEAN]
Pickers == [valid : BOOLEAN, stale : BOOLEAN, wanted : BOOLEAN, old : BOOLEAN]

DbOK == spool \in [Spools -> Spool] /\ catalog \subseteq Entries
CachesOK ==
  /\ idCache \in [1 .. CACHE -> [uid : Uids \cup {NoUid}, spool : Spools \cup {0}]]
  /\ \A i, j \in 1 .. CACHE : idCache[i].uid = idCache[j].uid /\ i # j => idCache[i].uid = NoUid
  /\ syncCache \in [1 .. CACHE -> [uid : Uids \cup {NoUid}, spool : Spools \cup {0},
                                   fil : Fils \cup {NoFil}, grams : Nat]]
  /\ idAt \in 1 .. CACHE /\ syncAt \in 1 .. CACHE

\* Every variable keeps its type; weights stay non-negative, whatever is deducted, and a tag has
\* one entry in the cache of ids.
SyncTypeOK ==
  /\ DbOK /\ CachesOK
  /\ queue \in Seq(Request) /\ Len(queue) <= QUEUE
  /\ sync \in Syncs \cup {Idle}
  /\ pend \in [spool : Spools \cup {0}, fresh : BOOLEAN] /\ arming \in Spools \cup {0}
  /\ ota \in BOOLEAN /\ picker \in Pickers
  /\ split \subseteq Uids
  /\ asked \in Nat /\ faults \in Nat /\ visits \in Nat

\* A tag is claimed by one active spool at most, through lost replies, failed archives, links
\* and registrations; but where two claimed it from the start, or since the clean-up after a
\* link, which is best effort, left one behind.
OneSpoolPerTag == \A uid \in Uids \ split : Cardinality(Claims(uid)) <= 1

\* The sync task never gives the catalog a second vendor of one name or a second filament of
\* one kind and vendor, not even when a lookup fails or the reply to a creation is lost; only a
\* user's refusal of the match does.
SyncMintsNoTwin ==
  [][\A e \in catalog' \ catalog : visits' = visits => Matches(catalog, e[1], e[2]) = {}]_syncVars

Archives(s) == spool[s].st = "active" /\ spool'[s].st # "active"

\* A spool that the user picked for its tag in the writer is never archived by the scanner,
\* whatever the tag says, through lost replies, registrations, enrichments and deductions, until
\* it is linked anew; a link of the web page takes the pin away (LinkedNeverArchived below).
PickedNeverArchived ==
  [][\A s \in Spools : spool[s].by = "picker" /\ Archives(s) => visits' # visits]_syncVars

\* A sync or a deduction changes the weight of no spool that another tag claims, although the
\* id on the tag, the cache and the pending link may each be out of date.
OwnSpool(s, uid) == spool[s].st = "absent" \/ spool[s].nfc \in {uid, "none"}
WeightToItsSpool ==
  [][\A s \in Spools : spool'[s].grams # spool[s].grams =>
       /\ sync' # sync => OwnSpool(s, sync.req.uid)
       /\ \A uid \in Uids, g \in Grams \ {0} : Deduct(uid, g) => OwnSpool(s, uid)]_syncVars

\* A picker list that has fallen behind the database is refreshed or given up for streaming:
\* changes no refresh was asked for are seen when the list ages.
PickerCatchesUp == (picker.valid /\ picker.stale) ~> (~picker.valid \/ ~picker.stale)

\* SpoolmanManager.cpp: "A user-linked spool (writer picker / explicit re-link) is pinned: never
\* auto-archived".  The code does so for the picker alone: handleApiSpoolmanLink() sends extra
\* without the nfc_link stamp, which also takes an earlier one away.
LinkedNeverArchived ==
  [][\A s \in Spools : spool[s].by # "nobody" /\ Archives(s) => visits' # visits]_syncVars

\* SpoolmanManager.h: user picks and user-linked spools "must never be auto-archived or
\* re-pointed": the sync task does not change their filament.
LinkedNeverRepointed ==
  [][\A s \in Spools : spool[s].by = "picker" /\ spool[s].st = "active" /\ spool'[s].fil # spool[s].fil
                      => visits' # visits]_syncVars
=============================================================================
