-------------------------- MODULE SpoolmanSync_proofs --------------------------
(***************************************************************************)
(* SpoolmanSync for any tags, spools, kinds of filament and weights, any   *)
(* sizes of the caches and of the queue, and any number of faults, inputs  *)
(* and other users: types, one claim per tag, and what the sync task does  *)
(* to the catalog, to linked spools and to the weights of spools.          *)
(***************************************************************************)
EXTENDS SpoolmanSync, FiniteSetTheorems, WellFoundedInduction, TLAPS

\* The sync task has resolved its tag to a spool, or to none, and holds the mutex.
Deciding == {"vendor", "filament", "act", "archive", "reuse", "create"}

\* No two active spools bear the tag, but for the tags a link left on two.
OneClaim == \A uid \in Uids \ split : \A s, t \in Claims(uid) : s = t

\* A link that was taken names a spool, which bears the tag once it is linked.
LinkStands ==
  /\ sync.pc = "link" => ~sync.just
  /\ sync.pc = "linking" => sync.link \in Spools
  /\ sync.pc = "resolve" /\ sync.just =>
       sync.link \in Spools /\ spool[sync.link].nfc = sync.req.uid

\* What was found stands until the sync ends, since all that could take it away needs the
\* mutex: it is the tag's own spool, the only one to claim the tag, and its link is known.
FoundStands ==
  sync.pc \in Deciding =>
    /\ sync.found \in Spools => OwnSpool(sync.found, sync.req.uid)
    /\ sync.just \/ sync.valid \/ sync.pc \in {"archive", "reuse"} => sync.found \in Spools
    /\ sync.pc # "create" /\ ~sync.just /\ sync.req.uid \notin split =>
         Claims(sync.req.uid) \subseteq {sync.found}
    /\ sync.valid => sync.core.pin = spool[sync.found].pin
    /\ sync.pc = "archive" => ~sync.just /\ ~spool[sync.found].pin
    /\ sync.pc = "create" /\ sync.req.uid \notin split => Claims(sync.req.uid) = {}

SyncInv == SyncTypeOK /\ OneClaim /\ LinkStands /\ FoundStands

-----------------------------------------------------------------------------
(* Ids *)

LEMMA SpoolIds == 0 \notin Spools /\ \A s \in Spools : s \in Nat /\ s > 0
  BY KeyAssumption

\* A set of spools has a lowest and a highest id: its initial segments are finite sets, of
\* which a smallest one under inclusion ends at the lowest, and likewise from above.
LEMMA LowestId ==
  ASSUME NEW S \in SUBSET Spools, S # {}
  PROVE  \E m \in S : \A k \in S : m <= k
<1> DEFINE Seg(k) == {i \in S : i <= k}
           F == {Seg(k) : k \in S}
           R == StrictSubsetOrdering(Spools)
<1>1. IsWellFoundedOn(R, SUBSET Spools)
  BY KeyAssumption, FS_StrictSubsetOrderingWellFounded, FS_FiniteSubsetsOfFinite
<1>2. F \subseteq SUBSET Spools /\ F # {}
  OBVIOUS
<1>3. PICK U \in F : \A V \in F : ~ (<<V, U>> \in R)
  <2> HIDE DEF F, R
  <2> QED BY <1>1, <1>2, WFMin
<1>4. PICK m \in S : U = Seg(m)
  BY <1>3
<1>5. \A k \in S : k \in Nat
  BY SpoolIds
<1>6. ASSUME NEW k \in S, ~ (m <= k)
      PROVE  FALSE
  <2>1. Seg(k) \in F /\ Seg(k) \subseteq Seg(m)
    BY <1>5, <1>6
  <2>2. m \in Seg(m) /\ m \notin Seg(k)
    BY <1>5, <1>6
  <2>3. <<Seg(k), U>> \in R
    BY <1>2, <1>4, <2>1, <2>2 DEF StrictSubsetOrdering
  <2> QED BY <1>3, <2>1, <2>3
<1> QED BY <1>6

LEMMA HighestId ==
  ASSUME NEW S \in SUBSET Spools, S # {}
  PROVE  Highest(S) \in S
<1> DEFINE Seg(k) == {i \in S : k <= i}
           F == {Seg(k) : k \in S}
           R == StrictSubsetOrdering(Spools)
<1>1. IsWellFoundedOn(R, SUBSET Spools)
  BY KeyAssumption, FS_StrictSubsetOrderingWellFounded, FS_FiniteSubsetsOfFinite
<1>2. F \subseteq SUBSET Spools /\ F # {}
  OBVIOUS
<1>3. PICK U \in F : \A V \in F : ~ (<<V, U>> \in R)
  <2> HIDE DEF F, R
  <2> QED BY <1>1, <1>2, WFMin
<1>4. PICK m \in S : U = Seg(m)
  BY <1>3
<1>5. \A k \in S : k \in Nat
  BY SpoolIds
<1>6. ASSUME NEW k \in S, ~ (k <= m)
      PROVE  FALSE
  <2>1. Seg(k) \in F /\ Seg(k) \subseteq Seg(m)
    BY <1>5, <1>6
  <2>2. m \in Seg(m) /\ m \notin Seg(k)
    BY <1>5, <1>6
  <2>3. <<Seg(k), U>> \in R
    BY <1>2, <1>4, <2>1, <2>2 DEF StrictSubsetOrdering
  <2> QED BY <1>3, <2>1, <2>3
<1>7. \E x \in S : \A t \in S : t <= x
  BY <1>6
<1> QED BY <1>7 DEF Highest

\* A new spool gets an id that none had.
LEMMA NewId ==
  ASSUME CanList
  PROVE  NextId \in Spools /\ spool[NextId].st = "absent"
<1> DEFINE S == {s \in Spools : spool[s].st = "absent"}
<1>1. PICK m \in S : \A k \in S : m <= k
  <2>1. S \in SUBSET Spools /\ S # {}
    BY DEF CanList
  <2> HIDE DEF S
  <2> QED BY <2>1, LowestId
<1> QED BY <1>1 DEF NextId

-----------------------------------------------------------------------------
(* Resolving a tag *)

LEMMA CachedTyped ==
  ASSUME CachesOK, NEW uid
  PROVE  Cached(uid) \in Spools \cup {0}
<1> DEFINE hits == {i \in Holder(idCache, uid) : idCache[i].spool > 0}
<1>1. \A i \in hits : idCache[i].spool \in Spools \cup {0}
  BY DEF CachesOK, Holder
<1>2. hits # {} => (CHOOSE i \in hits : TRUE) \in hits
  OBVIOUS
<1> HIDE DEF hits
<1>3. Cached(uid) = IF hits = {} THEN 0 ELSE idCache[CHOOSE i \in hits : TRUE].spool
  BY DEF Cached, hits
<1> QED BY <1>1, <1>2, <1>3

\* A tag that is claimed is never resolved to nothing, and to its claim; any other tag only to
\* an active spool that bears no tag.
LEMMA ResolvedOwn ==
  ASSUME CachesOK, NEW uid \in Uids, NEW tagId \in Spools \cup {0}
  PROVE  /\ Resolved(uid, tagId) \in Spools \cup {0}
         /\ Resolved(uid, tagId) \in Spools => OwnSpool(Resolved(uid, tagId), uid)
         /\ Claims(uid) # {} => Resolved(uid, tagId) \in Claims(uid)
<1>1. CASE Claims(uid) # {}
  <2>1. Highest(Claims(uid)) \in Claims(uid) /\ Claims(uid) \subseteq Spools
    BY <1>1, HighestId DEF Claims
  <2>2. Resolved(uid, tagId) = Highest(Claims(uid))
    BY <1>1 DEF Resolved
  <2> QED BY <2>1, <2>2 DEF Claims, OwnSpool
<1>2. CASE Claims(uid) = {} /\ TagTier(uid, tagId)
  BY <1>2 DEF Resolved, TagTier, UsableFor, OwnSpool
<1>3. CASE Claims(uid) = {} /\ ~TagTier(uid, tagId) /\ CacheTier(uid, tagId)
  <2>1. Cached(uid) \in Spools
    BY <1>3, CachedTyped DEF CacheTier
  <2>2. Resolved(uid, tagId) = Cached(uid)
    BY <1>3 DEF Resolved
  <2> QED BY <1>3, <2>1, <2>2 DEF CacheTier, UsableFor, OwnSpool
<1>4. CASE Claims(uid) = {} /\ ~TagTier(uid, tagId) /\ ~CacheTier(uid, tagId)
  BY <1>4, SpoolIds DEF Resolved
<1> QED BY <1>1, <1>2, <1>3, <1>4

LEMMA OnlyClaim ==
  ASSUME CachesOK, OneClaim, NEW uid \in Uids, NEW tagId \in Spools \cup {0}, uid \notin split
  PROVE  Claims(uid) \subseteq {Resolved(uid, tagId)}
  BY ResolvedOwn DEF OneClaim

LEMMA NobodyClaims ==
  ASSUME CachesOK, NEW uid \in Uids, NEW tagId \in Spools \cup {0}, Resolved(uid, tagId) = 0
  PROVE  Claims(uid) = {}
  BY ResolvedOwn, SpoolIds DEF Claims

-----------------------------------------------------------------------------
(* The caches *)

IdEntry == [uid : Uids \cup {NoUid}, spool : Spools \cup {0}]
SyncEntry == [uid : Uids \cup {NoUid}, spool : Spools \cup {0}, fil : Fils \cup {NoFil}, grams : Nat]

LEMMA NextSlot ==
  ASSUME NEW at \in 1 .. CACHE
  PROVE  (at % CACHE) + 1 \in 1 .. CACHE
<1>1. CACHE \in Nat /\ CACHE > 0 /\ at \in Nat
  BY SizeAssumption
<1>2. at % CACHE \in 0 .. (CACHE - 1)
  BY <1>1
<1> QED BY <1>1, <1>2

LEMMA StoredTyped ==
  ASSUME NEW E, NEW cache \in [1 .. CACHE -> E], NEW at \in 1 .. CACHE, NEW entry \in E
  PROVE  /\ Stored(cache, at, entry).cache \in [1 .. CACHE -> E]
         /\ Stored(cache, at, entry).at \in 1 .. CACHE
<1>1. CASE Holder(cache, entry.uid) # {}
  BY <1>1 DEF Stored
<1>2. CASE Holder(cache, entry.uid) = {}
  BY <1>2, NextSlot DEF Stored
<1> QED BY <1>1, <1>2

\* The cache of ids has one entry per tag at most, however often it wraps around.
LEMMA StoreIdKeeps ==
  ASSUME CachesOK, NEW uid \in Uids, NEW s \in Spools, StoreId(uid, s)
  PROVE  /\ idCache' \in [1 .. CACHE -> IdEntry] /\ idAt' \in 1 .. CACHE
         /\ \A i, j \in 1 .. CACHE : idCache'[i].uid = idCache'[j].uid /\ i # j => idCache'[i].uid = NoUid
<1> DEFINE entry == [uid |-> uid, spool |-> s]
           next == Stored(idCache, idAt, entry)
<1>1. /\ entry \in IdEntry /\ entry.uid = uid
      /\ idCache \in [1 .. CACHE -> IdEntry] /\ idAt \in 1 .. CACHE
      /\ idCache' = next.cache /\ idAt' = next.at
  BY DEF CachesOK, IdEntry, StoreId
<1> HIDE DEF entry
<1>2. idCache' \in [1 .. CACHE -> IdEntry] /\ idAt' \in 1 .. CACHE
  BY <1>1, StoredTyped
<1>3. \A i, j \in 1 .. CACHE : idCache[i].uid = idCache[j].uid /\ i # j => idCache[i].uid = NoUid
  BY DEF CachesOK
<1>4. CASE Holder(idCache, uid) # {}
  <2>1. \A i \in 1 .. CACHE : idCache'[i] = IF i \in Holder(idCache, uid) THEN entry ELSE idCache[i]
    BY <1>1, <1>4 DEF Stored
  <2>2. \A i \in 1 .. CACHE : idCache'[i].uid = idCache[i].uid
    BY <1>1, <2>1 DEF Holder
  <2> QED BY <1>2, <1>3, <2>2
<1>5. CASE Holder(idCache, uid) = {}
  <2>1. idCache' = [idCache EXCEPT ![idAt] = entry]
    BY <1>1, <1>5 DEF Stored
  <2>2. \A i \in 1 .. CACHE : idCache[i].uid # uid
    BY <1>5 DEF Holder
  <2>3. idCache'[idAt].uid = uid /\ \A i \in 1 .. CACHE : i # idAt => idCache'[i].uid = idCache[i].uid
    BY <1>1, <2>1
  <2> QED BY <1>2, <1>3, <2>2, <2>3
<1> QED BY <1>4, <1>5

LEMMA StoreSyncKeeps ==
  ASSUME CachesOK, NEW uid \in Uids, NEW s \in Spools, NEW fil \in Fils \cup {NoFil}, NEW g \in Nat,
         StoreSync(uid, s, fil, g)
  PROVE  syncCache' \in [1 .. CACHE -> SyncEntry] /\ syncAt' \in 1 .. CACHE
<1> DEFINE entry == [uid |-> uid, spool |-> s, fil |-> fil, grams |-> g]
<1>1. /\ entry \in SyncEntry
      /\ syncCache \in [1 .. CACHE -> SyncEntry] /\ syncAt \in 1 .. CACHE
      /\ syncCache' = Stored(syncCache, syncAt, entry).cache
      /\ syncAt' = Stored(syncCache, syncAt, entry).at
  BY DEF CachesOK, SyncEntry, StoreSync
<1> HIDE DEF entry
<1> QED BY <1>1, StoredTyped

LEMMA StoresKeep ==
  ASSUME CachesOK, NEW uid \in Uids, NEW s \in Spools, StoreId(uid, s),
         \/ KeepSync
         \/ \E fil \in Fils \cup {NoFil}, g \in Nat : StoreSync(uid, s, fil, g)
  PROVE  CachesOK'
<1>1. /\ idCache' \in [1 .. CACHE -> IdEntry] /\ idAt' \in 1 .. CACHE
      /\ \A i, j \in 1 .. CACHE : idCache'[i].uid = idCache'[j].uid /\ i # j => idCache'[i].uid = NoUid
  BY StoreIdKeeps
<1>2. syncCache' \in [1 .. CACHE -> SyncEntry] /\ syncAt' \in 1 .. CACHE
  BY StoreSyncKeeps DEF KeepSync, CachesOK, SyncEntry
<1> QED BY <1>1, <1>2 DEF CachesOK, IdEntry, SyncEntry

LEMMA InvalidateKeeps ==
  ASSUME CachesOK, NEW uid, Invalidate(uid)
  PROVE  CachesOK'
<1>1. /\ idCache \in [1 .. CACHE -> IdEntry] /\ syncCache \in [1 .. CACHE -> SyncEntry]
      /\ idAt' \in 1 .. CACHE /\ syncAt' \in 1 .. CACHE
  BY DEF CachesOK, IdEntry, SyncEntry, Invalidate
<1>2. idCache' \in [1 .. CACHE -> IdEntry] /\ \A i \in 1 .. CACHE : idCache'[i].uid = idCache[i].uid
  BY <1>1 DEF Invalidate, IdEntry
<1>3. syncCache' \in [1 .. CACHE -> SyncEntry]
  BY <1>1 DEF Invalidate, SyncEntry
<1> QED BY <1>1, <1>2, <1>3 DEF CachesOK, IdEntry, SyncEntry

LEMMA CachesStay == ASSUME CachesOK, UNCHANGED caches PROVE CachesOK'
  BY DEF CachesOK, caches

LEMMA ResolveCachesKeep ==
  ASSUME CachesOK, NEW uid \in Uids, NEW tagId \in Spools \cup {0}, ResolveCaches(uid, tagId)
  PROVE  CachesOK'
<1>1. CASE Claims(uid) # {} \/ TagTier(uid, tagId)
  <2>1. Resolved(uid, tagId) \in Spools
    <3>1. CASE Claims(uid) # {}
      BY <3>1, ResolvedOwn DEF Claims
    <3>2. CASE Claims(uid) = {} /\ TagTier(uid, tagId)
      BY <3>2 DEF TagTier, Resolved
    <3> QED BY <1>1, <3>1, <3>2
  <2>2. StoreId(uid, Resolved(uid, tagId)) /\ KeepSync
    BY <1>1 DEF ResolveCaches
  <2> QED BY <2>1, <2>2, StoresKeep
<1>2. CASE ~(Claims(uid) # {} \/ TagTier(uid, tagId))
  BY <1>2, InvalidateKeeps, CachesStay DEF ResolveCaches
<1> QED BY <1>1, <1>2

-----------------------------------------------------------------------------
(* Budgets, the picker, and what the sync task is at *)

LEMMA Charged ==
  ASSUME faults \in Nat, NEW n \in Nat, Charge(n)
  PROVE  faults' \in Nat
  BY DEF Charge

LEMMA Visited == ASSUME visits \in Nat, Visit PROVE visits' \in Nat /\ visits' # visits
  BY DEF Visit

LEMMA Touched ==
  ASSUME picker \in Pickers, NEW want \in BOOLEAN, Touch(want)
  PROVE  picker' \in Pickers
<1>1. PICK a \in BOOLEAN : a = (picker.stale \/ \E s \in Spools : Shown(spool'[s]) # Shown(spool[s]))
  OBVIOUS
<1>2. PICK b \in BOOLEAN : b = (picker.wanted \/ want)
  OBVIOUS
<1>3. picker' = [picker EXCEPT !.stale = a, !.wanted = b]
  BY <1>1, <1>2, Zenon DEF Touch
<1> QED BY <1>3 DEF Pickers

LEMMA AtTyped ==
  ASSUME NEW pc \in Places, NEW req \in Request
  PROVE  /\ At(pc, req) \in Syncs /\ At(pc, req).pc = pc /\ At(pc, req).req = req
         /\ At(pc, req).just = FALSE /\ Idle.pc = "idle"
  BY DEF At, Syncs, NoCore, Cores, Idle

LEMMA Working ==
  ASSUME sync \in Syncs \cup {Idle}, sync.pc # "idle"
  PROVE  sync \in Syncs /\ sync.req \in Request /\ sync.req.uid \in Uids /\ sync.pc \in Places
  BY DEF Idle, Syncs, Request

\* Where the sync task has nothing at stake: before it took a link, and when it is done.
Calm(s) ==
  s.pc \in {"idle", "waiting", "ended", "details"} \/ (s.pc \in {"link", "resolve"} /\ ~s.just)

LEMMA CalmStands ==
  ASSUME Calm(sync')
  PROVE  LinkStands' /\ FoundStands'
  BY DEF Calm, LinkStands, FoundStands, Deciding

LEMMA FreeIsCalm == ASSUME MutexFree PROVE Calm(sync)
  BY DEF MutexFree, Calm

LEMMA Ended ==
  ASSUME sync \in Syncs, NEW ok \in BOOLEAN, End(ok)
  PROVE  sync' \in Syncs /\ sync'.pc = "ended" /\ Calm(sync')
<1>1. sync.req \in Request /\ "ended" \in Places
  BY DEF Syncs, Places
<1>2. At("ended", sync.req) \in Syncs /\ At("ended", sync.req).pc = "ended"
  BY <1>1, AtTyped
<1>3. sync' = [At("ended", sync.req) EXCEPT !.ok = ok]
  BY DEF End
<1> QED BY <1>2, <1>3 DEF Syncs, Calm

\* Claims that only shrink stay one per tag.
LEMMA ClaimsShrink ==
  ASSUME OneClaim, split' = split,
         \A t \in Spools : spool'[t].st = "active" /\ spool'[t].nfc \in Uids
                             => spool[t].st = "active" /\ spool[t].nfc = spool'[t].nfc
  PROVE  OneClaim'
  BY DEF OneClaim, Claims

-----------------------------------------------------------------------------
(* Steps that leave the spools alone *)

\* Neither the sync task nor the spools: the pending link, the picker, OTA and the queue.
LEMMA AsideKeeps ==
  ASSUME SyncInv, UNCHANGED <<spool, sync, split>>, SyncTypeOK'
  PROVE  SyncInv'
  BY DEF SyncInv, OneClaim, LinkStands, FoundStands, Claims, OwnSpool

LEMMA QueueKeeps ==
  ASSUME SyncInv, \E req \in Request : EnqueueSync(req)
  PROVE  SyncInv'
<1>1. PICK req \in Request : EnqueueSync(req)
  OBVIOUS
<1>2. queue' \in Seq(Request) /\ Len(queue') <= QUEUE /\ asked' \in Nat
  BY <1>1, SizeAssumption DEF EnqueueSync, SyncInv, SyncTypeOK
<1>3. SyncTypeOK'
  BY <1>1, <1>2, CachesStay DEF EnqueueSync, SyncInv, SyncTypeOK, DbOK, db
<1> QED BY <1>1, <1>3, AsideKeeps DEF EnqueueSync, db

LEMMA WindowKeeps ==
  ASSUME SyncInv, (\E s \in Spools : ArmStamp(s)) \/ ArmStore \/ StartOta \/ EndOta
  PROVE  SyncInv'
<1>1. UNCHANGED <<spool, catalog, caches, queue, sync, picker, split, asked, faults>>
  BY DEF ArmStamp, ArmStore, StartOta, EndOta, db, budgets
<1>2. visits' \in Nat
  BY Visited DEF ArmStamp, ArmStore, StartOta, EndOta, budgets, SyncInv, SyncTypeOK
<1>3. pend' \in [spool : Spools \cup {0}, fresh : BOOLEAN] /\ arming' \in Spools \cup {0}
  BY DEF ArmStamp, ArmStore, StartOta, EndOta, SyncInv, SyncTypeOK
<1>4. ota' \in BOOLEAN
  BY Zenon DEF ArmStamp, ArmStore, StartOta, EndOta, SyncInv, SyncTypeOK
<1>5. SyncTypeOK'
  BY <1>1, <1>2, <1>3, <1>4, CachesStay DEF SyncInv, SyncTypeOK, DbOK
<1> QED BY <1>1, <1>5, AsideKeeps

LEMMA PickerKeeps ==
  ASSUME SyncInv, RefreshPicker \/ ServePicker \/ PickerAges
  PROVE  SyncInv'
<1>1. UNCHANGED <<spool, catalog, caches, queue, sync, pend, arming, ota, split, asked>>
  BY DEF RefreshPicker, ServePicker, PickerAges, db, budgets
<1>2. visits' \in Nat /\ faults' \in Nat
  BY Visited, Charged DEF RefreshPicker, ServePicker, PickerAges, budgets, SyncInv, SyncTypeOK
<1>3. picker' \in Pickers
  <2>1. picker \in Pickers
    BY DEF SyncInv, SyncTypeOK
  <2>2. \/ picker' = [valid |-> TRUE, stale |-> FALSE, wanted |-> FALSE, old |-> FALSE]
        \/ picker' = [picker EXCEPT !.wanted = FALSE]
        \/ picker' = [picker EXCEPT !.wanted = FALSE, !.valid = FALSE, !.stale = FALSE, !.old = FALSE]
        \/ picker' = [picker EXCEPT !.wanted = TRUE]
        \/ picker' = [picker EXCEPT !.old = TRUE]
    BY DEF RefreshPicker, ServePicker, PickerAges
  <2>3. PICK t \in BOOLEAN, f \in BOOLEAN : t = TRUE /\ f = FALSE
    OBVIOUS
  <2>4. [valid |-> t, stale |-> f, wanted |-> f, old |-> f] \in Pickers
    BY DEF Pickers
  <2>5. /\ [picker EXCEPT !.wanted = f] \in Pickers
        /\ [picker EXCEPT !.wanted = f, !.valid = f, !.stale = f, !.old = f] \in Pickers
        /\ [picker EXCEPT !.wanted = t] \in Pickers
        /\ [picker EXCEPT !.old = t] \in Pickers
    BY <2>1 DEF Pickers
  <2> QED BY <2>2, <2>3, <2>4, <2>5, Zenon
<1>4. SyncTypeOK'
  BY <1>1, <1>2, <1>3, CachesStay DEF SyncInv, SyncTypeOK, DbOK
<1> QED BY <1>1, <1>4, AsideKeeps

LEMMA InvalidateAfterWriteKeeps ==
  ASSUME SyncInv, NEW uid \in Uids, InvalidateAfterWrite(uid)
  PROVE  SyncInv'
<1>1. UNCHANGED <<spool, catalog, queue, sync, pend, arming, ota, picker, split, asked, faults>>
  BY DEF InvalidateAfterWrite, db
<1>2. visits' \in Nat /\ CachesOK'
  BY Visited, InvalidateKeeps DEF InvalidateAfterWrite, SyncInv, SyncTypeOK
<1>3. SyncTypeOK'
  BY <1>1, <1>2 DEF SyncInv, SyncTypeOK, DbOK
<1> QED BY <1>1, <1>3, AsideKeeps

\* Steps of the sync task that leave it where nothing is at stake.
LEMMA CalmSteps ==
  ASSUME SyncInv, Receive \/ StandDown \/ Begin \/ Details \/ Answer \/ Expire
  PROVE  SyncInv'
<1>1. UNCHANGED <<spool, catalog, caches, arming, ota, split, asked, visits>>
  BY DEF Receive, StandDown, Begin, Details, Answer, Expire, db, budgets
<1>2. sync \in Syncs \cup {Idle}
  BY DEF SyncInv, SyncTypeOK
<1>3. queue' \in Seq(Request) /\ Len(queue') <= QUEUE
  <2>1. queue \in Seq(Request) /\ Len(queue) <= QUEUE /\ QUEUE \in Nat
    BY SizeAssumption DEF SyncInv, SyncTypeOK
  <2>2. CASE Receive
    BY <2>1, <2>2 DEF Receive
  <2>3. CASE StandDown \/ Begin \/ Details \/ Answer \/ Expire
    BY <2>1, <2>3 DEF StandDown, Begin, Details, Answer, Expire
  <2> QED BY <2>2, <2>3
<1>4. faults' \in Nat
  BY Charged DEF Receive, StandDown, Begin, Details, Answer, Expire, budgets, SyncInv, SyncTypeOK
<1>5. pend' \in [spool : Spools \cup {0}, fresh : BOOLEAN]
  BY DEF Receive, StandDown, Begin, Details, Answer, Expire, SyncInv, SyncTypeOK
<1>6. picker' \in Pickers
  <2>1. picker \in Pickers
    BY DEF SyncInv, SyncTypeOK
  <2>2. CASE Answer
    <3>1. PICK b \in BOOLEAN : b = (picker.wanted \/ (sync.ok /\ ~sync.req.lookup))
      OBVIOUS
    <3>2. picker' = [picker EXCEPT !.wanted = b]
      BY <2>2, <3>1, Zenon DEF Answer
    <3> QED BY <2>1, <3>2 DEF Pickers
  <2>3. CASE Receive \/ StandDown \/ Begin \/ Details \/ Expire
    BY <2>1, <2>3 DEF Receive, StandDown, Begin, Details, Expire
  <2> QED BY <2>2, <2>3
<1>7. /\ sync' \in Syncs \cup {Idle}
      /\ Calm(sync') \/ (sync' = sync /\ Expire)
  <2>1. {"waiting", "ended", "resolve", "link"} \subseteq Places
    BY DEF Places
  <2>2. CASE Receive
    <3>1. Head(queue) \in Request
      BY <2>2 DEF Receive, SyncInv, SyncTypeOK
    <3>2. sync' = At("waiting", Head(queue))
      BY <2>2 DEF Receive
    <3>3. At("waiting", Head(queue)) \in Syncs /\ At("waiting", Head(queue)).pc = "waiting"
      BY <2>1, <3>1, AtTyped
    <3> QED BY <3>2, <3>3 DEF Calm
  <2>3. CASE StandDown
    BY <1>2, <2>3, Working, Ended DEF StandDown
  <2>4. CASE Begin
    <3>1. sync.req \in Request /\ pend.fresh \in BOOLEAN
      BY <1>2, <2>4, Working DEF Begin, SyncInv, SyncTypeOK
    <3>2. PICK p \in {"resolve", "link"} : sync' = [At(p, sync.req) EXCEPT !.fresh = pend.fresh]
      BY <2>4 DEF Begin
    <3>3. PICK a : a = At(p, sync.req)
      OBVIOUS
    <3>4. a \in Syncs /\ a.pc = p /\ a.just = FALSE
      <4>1. p \in Places
        BY <2>1
      <4> QED BY <3>1, <3>3, <4>1, AtTyped
    <3> QED BY <3>1, <3>2, <3>3, <3>4 DEF Syncs, Calm
  <2>5. CASE Details
    BY <1>2, <2>5, Working, Ended DEF Details
  <2>6. CASE Answer
    <3>1. sync.req \in Request
      BY <1>2, <2>6, Working DEF Answer
    <3>2. sync' = At("waiting", sync.req) \/ sync' = Idle
      BY <2>6 DEF Answer
    <3>3. At("waiting", sync.req) \in Syncs /\ At("waiting", sync.req).pc = "waiting"
      BY <2>1, <3>1, AtTyped
    <3>4. Idle.pc = "idle"
      BY DEF Idle
    <3> QED BY <3>2, <3>3, <3>4 DEF Calm
  <2>7. CASE Expire
    <3>1. CASE sync.pc = "link"
      <4>1. sync \in Syncs /\ sync' = [sync EXCEPT !.fresh = FALSE]
        BY <1>2, <2>7, <3>1, Working DEF Expire
      <4>2. ~sync.just
        BY <3>1 DEF SyncInv, LinkStands
      <4> QED BY <3>1, <4>1, <4>2 DEF Syncs, Calm
    <3>2. CASE sync.pc # "link"
      BY <1>2, <2>7, <3>2 DEF Expire
    <3> QED BY <3>1, <3>2
  <2> QED BY <2>2, <2>3, <2>4, <2>5, <2>6, <2>7
<1>8. SyncTypeOK'
  BY <1>1, <1>3, <1>4, <1>5, <1>6, <1>7, CachesStay DEF SyncInv, SyncTypeOK, DbOK
<1>9. CASE Calm(sync')
  <2>1. OneClaim'
    BY <1>1 DEF SyncInv, OneClaim, Claims
  <2> QED BY <1>8, <1>9, <2>1, CalmStands DEF SyncInv
<1>10. CASE sync' = sync
  BY <1>1, <1>8, <1>10, AsideKeeps
<1> QED BY <1>7, <1>9, <1>10

\* The link is taken once; it is acted on only when it names a spool.
LEMMA TakeLinkKeeps ==
  ASSUME SyncInv, TakeLink
  PROVE  SyncInv'
<1>1. UNCHANGED <<spool, catalog, caches, queue, arming, ota, picker, split, asked, faults, visits>>
  BY DEF TakeLink, db, budgets
<1>2. sync \in Syncs /\ pend \in [spool : Spools \cup {0}, fresh : BOOLEAN]
  BY Working DEF SyncInv, SyncTypeOK, TakeLink
<1>3. pend' \in [spool : Spools \cup {0}, fresh : BOOLEAN]
  BY <1>2 DEF TakeLink
<1>4. /\ sync' \in Syncs
      /\ \/ sync'.pc = "linking" /\ sync'.link \in Spools
         \/ sync'.pc = "resolve" /\ sync'.just = sync.just
  BY <1>2 DEF TakeLink, Syncs, Places
<1>5. SyncTypeOK'
  BY <1>1, <1>3, <1>4, CachesStay DEF SyncInv, SyncTypeOK, DbOK
<1>6. OneClaim'
  BY <1>1 DEF SyncInv, OneClaim, Claims
<1>7. ~sync.just
  BY DEF SyncInv, LinkStands, TakeLink
<1>8. LinkStands' /\ FoundStands'
  BY <1>1, <1>4, <1>7 DEF LinkStands, FoundStands, Deciding
<1> QED BY <1>5, <1>6, <1>8 DEF SyncInv

-----------------------------------------------------------------------------
(* Linking *)

\* The claim of the tag moves to one spool; where the clean-up left another, split says so.
LEMMA PatchLinkKeeps ==
  ASSUME SyncInv, PatchLink
  PROVE  SyncInv'
<1> DEFINE s == sync.link
           uid == sync.req.uid
           others == Claims(uid) \ {s}
<1>1. /\ UNCHANGED <<catalog, queue, pend, arming, ota, asked, visits>>
      /\ UNCHANGED <<syncCache, syncAt>>
  BY DEF PatchLink, KeepSync
<1>2. sync \in Syncs /\ uid \in Uids /\ s \in Spools
  BY Working DEF SyncInv, SyncTypeOK, LinkStands, PatchLink
<1>3. PICK r \in Replies, gone \in SUBSET others :
        /\ r # "ok" => gone = {}
        /\ spool[s].st = "absent" => r = "refused"
        /\ Charge((IF r = "ok" \/ spool[s].st = "absent" THEN 0 ELSE 1)
                  + (IF r = "ok" /\ gone # others THEN 1 ELSE 0))
        /\ Write(r, Linked(s, uid, gone))
        /\ split' = IF r = "refused" THEN split
                    ELSE IF gone = others THEN split \ {uid} ELSE split \cup {uid}
        /\ IF r = "ok" THEN StoreId(uid, s) ELSE KeepId
        /\ sync' = [sync EXCEPT !.pc = "resolve", !.just = (r = "ok")]
        /\ Touch(r = "ok")
  BY DEF PatchLink
<1>4. spool \in [Spools -> Spool]
  BY DEF SyncInv, SyncTypeOK, DbOK
<1>5. /\ Linked(s, uid, gone) \in [Spools -> Spool]
      /\ \A t \in Spools : Linked(s, uid, gone)[t].st = spool[t].st
      /\ \A t \in Spools : t # s /\ t \notin gone => Linked(s, uid, gone)[t].nfc = spool[t].nfc
      /\ \A t \in Spools : t # s /\ t \in gone => Linked(s, uid, gone)[t].nfc = "blank"
      /\ Linked(s, uid, gone)[s].nfc = uid
  <2>1. /\ Linked(s, uid, gone) = [t \in Spools |-> Linked(s, uid, gone)[t]]
        /\ \A t \in Spools :
             /\ t = s => Linked(s, uid, gone)[t] = [spool[t] EXCEPT !.nfc = uid, !.pin = TRUE, !.by = "picker"]
             /\ t # s /\ t \in gone =>
                  Linked(s, uid, gone)[t] = Linkless(spool[t])
             /\ t # s /\ t \notin gone => Linked(s, uid, gone)[t] = spool[t]
    BY DEF Linked
  <2>2. \A t \in Spools : spool[t] \in Spool
    BY <1>4
  <2>3. \A t \in Spools :
          LET x == Linked(s, uid, gone)[t] IN
          /\ x \in Spool /\ x.st = spool[t].st
          /\ t = s => x.nfc = uid
          /\ t # s /\ t \in gone => x.nfc = "blank"
          /\ t # s /\ t \notin gone => x.nfc = spool[t].nfc
    <3> TAKE t \in Spools
    <3> DEFINE x == Linked(s, uid, gone)[t]
    <3>1. spool[t] \in Spool
      BY <2>2
    <3>2. CASE t = s
      <4>1. x = [spool[t] EXCEPT !.nfc = uid, !.pin = TRUE, !.by = "picker"]
        BY <2>1, <3>2
      <4> QED BY <1>2, <3>1, <3>2, <4>1 DEF Spool
    <3>3. CASE t # s /\ t \in gone
      <4>1. x = Linkless(spool[t])
        BY <2>1, <3>3
      <4> QED BY <3>1, <3>3, <4>1 DEF Spool, Linkless
    <3>4. CASE t # s /\ t \notin gone
      BY <2>1, <3>1, <3>4
    <3> QED BY <3>2, <3>3, <3>4
  <2> QED BY <1>2, <2>1, <2>3
<1>6. spool' \in [Spools -> Spool]
  BY <1>3, <1>4, <1>5 DEF Write
<1>7. faults' \in Nat
  <2>1. /\ (IF r = "ok" \/ spool[s].st = "absent" THEN 0 ELSE 1) \in Nat
        /\ (IF r = "ok" /\ gone # others THEN 1 ELSE 0) \in Nat
    OBVIOUS
  <2>2. PICK n \in Nat : Charge(n)
    BY <1>3, <2>1
  <2> QED BY <2>2, Charged DEF SyncInv, SyncTypeOK
<1>8. CachesOK'
  <2>1. CASE r = "ok"
    <3>1. StoreId(uid, s) /\ KeepSync
      BY <1>1, <1>3, <2>1 DEF KeepSync
    <3> QED BY <1>2, <3>1, StoresKeep DEF SyncInv, SyncTypeOK
  <2>2. CASE r # "ok"
    BY <1>1, <1>3, <2>2 DEF KeepId, CachesOK, SyncInv, SyncTypeOK
  <2> QED BY <2>1, <2>2
<1>9. picker' \in Pickers
  <2>1. (r = "ok") \in BOOLEAN
    OBVIOUS
  <2> QED BY <1>3, <2>1, Touched DEF SyncInv, SyncTypeOK
<1>10. sync' \in Syncs /\ sync'.pc = "resolve" /\ sync'.link = s /\ sync'.req.uid = uid
       /\ (sync'.just => r = "ok")
  <2>1. PICK b \in BOOLEAN : b = (r = "ok")
    OBVIOUS
  <2>2. sync' = [sync EXCEPT !.pc = "resolve", !.just = b] /\ "resolve" \in Places
    BY <1>3, <2>1 DEF Places
  <2> QED BY <1>2, <2>1, <2>2 DEF Syncs
<1>11. split' \subseteq Uids
  BY <1>2, <1>3 DEF SyncInv, SyncTypeOK
<1>12. SyncTypeOK'
  BY <1>1, <1>6, <1>7, <1>8, <1>9, <1>10, <1>11 DEF SyncInv, SyncTypeOK, DbOK
<1>13. LinkStands' /\ FoundStands'
  BY <1>2, <1>3, <1>5, <1>10 DEF Write, LinkStands, FoundStands, Deciding
<1>14. OneClaim'
  <2>1. OneClaim
    BY DEF SyncInv
  <2>2. CASE r = "refused"
    BY <1>3, <2>1, <2>2, ClaimsShrink DEF Write
  <2>3. CASE r # "refused"
    <3> DEFINE new == Linked(s, uid, gone)
    <3>1. spool' = new
      BY <1>3, <2>3 DEF Write
    <3> HIDE DEF new
    <3> SUFFICES ASSUME NEW v \in Uids \ split', NEW t \in Spools, NEW u \in Spools,
                        spool'[t].st = "active", spool'[t].nfc = v,
                        spool'[u].st = "active", spool'[u].nfc = v
                 PROVE  t = u
      BY DEF OneClaim, Claims
    <3>2. CASE v = uid
      <4>1. gone = others
        BY <1>3, <2>3, <3>2
      <4>2. \A x \in {t, u} : x = s
        <5> TAKE x \in {t, u}
        <5> SUFFICES ASSUME x # s PROVE FALSE
          OBVIOUS
        <5>1. x \notin gone
          BY <1>5, <3>1, <3>2, KeyAssumption DEF new
        <5>2. x \in Claims(uid)
          BY <1>5, <3>1, <3>2, <5>1 DEF Claims, new
        <5> QED BY <4>1, <5>1, <5>2
      <4> QED BY <4>2
    <3>3. CASE v # uid
      <4>1. v \notin split
        BY <1>3, <3>3
      <4>2. \A x \in {t, u} : x \in Claims(v)
        BY <1>5, <3>1, <3>3, KeyAssumption DEF Claims, new
      <4> QED BY <2>1, <4>1, <4>2 DEF OneClaim
    <3> QED BY <3>2, <3>3
  <2> QED BY <2>2, <2>3
<1> QED BY <1>12, <1>13, <1>14 DEF SyncInv

-----------------------------------------------------------------------------
(* Deciding *)

LEMMA SnapshotTyped ==
  ASSUME DbOK, NEW s \in Spools
  PROVE  Snapshot(s) \in Cores /\ Snapshot(s).pin = spool[s].pin
  BY DEF DbOK, Spool, Cores, Snapshot

\* What is found: the linked spool, the tag's own, or none and then nothing claims the tag.
LEMMA FoundIsOwn ==
  ASSUME SyncInv, sync.pc = "resolve", NEW valid \in BOOLEAN,
         NEW s, s = IF sync.just THEN sync.link
                    ELSE Resolved(sync.req.uid, IF sync.req.lookup THEN 0 ELSE sync.req.tagId),
         sync' = Found(s, valid), UNCHANGED <<spool, split>>
  PROVE  sync' \in Syncs /\ LinkStands' /\ FoundStands'
<1> DEFINE uid == sync.req.uid
           tagId == IF sync.req.lookup THEN 0 ELSE sync.req.tagId
<1>1. /\ sync \in Syncs /\ uid \in Uids /\ tagId \in Spools \cup {0} /\ sync.req \in Request
      /\ CachesOK /\ DbOK /\ sync.just \in BOOLEAN /\ OneClaim
  BY Working DEF SyncInv, SyncTypeOK, Request, Syncs
<1>2. /\ s \in Spools \cup {0} /\ (sync.just => s \in Spools)
      /\ s \in Spools => OwnSpool(s, uid)
      /\ ~sync.just /\ uid \notin split => Claims(uid) \subseteq {s}
  <2>1. CASE sync.just
    BY <2>1 DEF SyncInv, LinkStands, OwnSpool
  <2>2. CASE ~sync.just
    <3>1. s = Resolved(uid, tagId)
      BY <2>2
    <3> HIDE DEF tagId, uid
    <3> QED BY <1>1, <2>2, <3>1, ResolvedOwn, OnlyClaim
  <2> QED BY <2>1, <2>2
<1>3. CASE s = 0 /\ sync.req.lookup
  <2>1. sync' = [At("ended", sync.req) EXCEPT !.ok = FALSE]
    BY <1>3 DEF Found
  <2>2. End(FALSE)
    BY <2>1 DEF End
  <2> QED BY <1>1, <2>2, Ended, CalmStands
<1>4. CASE ~(s = 0 /\ sync.req.lookup)
  <2>1. PICK p \in {"details", "vendor"}, b \in BOOLEAN, c \in Cores :
          /\ sync' = [sync EXCEPT !.pc = p, !.found = s, !.valid = b, !.core = c]
          /\ b => s \in Spools /\ c.pin = spool[s].pin
    <3>1. NoCore \in Cores
      BY DEF NoCore, Cores
    <3>2. (IF valid /\ s # 0 THEN Snapshot(s) ELSE NoCore) \in Cores
      BY <1>1, <1>2, <3>1, SnapshotTyped
    <3>3. (valid /\ s # 0) \in BOOLEAN
      OBVIOUS
    <3>4. sync' = [sync EXCEPT !.pc = IF sync.req.lookup THEN "details" ELSE "vendor",
                               !.found = s, !.valid = valid /\ s # 0,
                               !.core = IF valid /\ s # 0 THEN Snapshot(s) ELSE NoCore]
      BY <1>4, Zenon DEF Found
    <3>5. valid /\ s # 0 =>
            s \in Spools /\ (IF valid /\ s # 0 THEN Snapshot(s) ELSE NoCore).pin = spool[s].pin
      BY <1>1, <1>2, SnapshotTyped
    <3>6. (IF sync.req.lookup THEN "details" ELSE "vendor") \in {"details", "vendor"}
      OBVIOUS
    <3> QED BY <3>2, <3>3, <3>4, <3>5, <3>6, Zenon
  <2>2. /\ sync' \in Syncs /\ sync'.pc = p /\ sync'.found = s /\ sync'.valid = b /\ sync'.core = c
        /\ sync'.req = sync.req /\ sync'.just = sync.just
    BY <1>1, <1>2, <2>1 DEF Syncs, Places
  <2>3. LinkStands'
    BY <2>2 DEF LinkStands
  <2>4. FoundStands'
    BY <1>2, <2>1, <2>2 DEF FoundStands, Deciding, OwnSpool, Claims
  <2> QED BY <2>2, <2>3, <2>4
<1> QED BY <1>3, <1>4

LEMMA ResolveKeeps ==
  ASSUME SyncInv, Resolve
  PROVE  SyncInv'
<1> DEFINE uid == sync.req.uid
           tagId == IF sync.req.lookup THEN 0 ELSE sync.req.tagId
<1>1. /\ UNCHANGED <<spool, catalog, queue, pend, arming, ota, picker, split, asked, visits>>
      /\ sync.pc = "resolve"
  BY DEF Resolve, db
<1>2. sync \in Syncs /\ uid \in Uids /\ tagId \in Spools \cup {0}
  BY <1>1, Working DEF SyncInv, SyncTypeOK, Request
<1>3. sync' \in Syncs /\ LinkStands' /\ FoundStands' /\ faults' \in Nat /\ CachesOK'
  <2>1. CASE \E valid \in BOOLEAN :
               /\ sync' = Found(IF sync.just THEN sync.link ELSE Resolved(uid, tagId), valid)
               /\ Charge(IF valid THEN 0 ELSE 1)
               /\ IF sync.just THEN UNCHANGED caches ELSE ResolveCaches(uid, tagId)
    <3>1. PICK valid \in BOOLEAN :
            /\ sync' = Found(IF sync.just THEN sync.link ELSE Resolved(uid, tagId), valid)
            /\ Charge(IF valid THEN 0 ELSE 1)
            /\ IF sync.just THEN UNCHANGED caches ELSE ResolveCaches(uid, tagId)
      BY <2>1
    <3>2. sync' \in Syncs /\ LinkStands' /\ FoundStands'
      BY <1>1, <3>1, FoundIsOwn
    <3>3. faults' \in Nat
      BY <3>1, Charged DEF SyncInv, SyncTypeOK
    <3>4. CachesOK'
      BY <1>2, <3>1, ResolveCachesKeep, CachesStay DEF SyncInv, SyncTypeOK
    <3> QED BY <3>2, <3>3, <3>4
  <2>2. CASE End(FALSE) /\ Charge(1) /\ UNCHANGED caches
    BY <1>2, <2>2, Ended, CalmStands, Charged, CachesStay DEF SyncInv, SyncTypeOK
  <2> QED BY <2>1, <2>2 DEF Resolve
<1>4. SyncTypeOK'
  BY <1>1, <1>3 DEF SyncInv, SyncTypeOK, DbOK
<1>5. OneClaim'
  BY <1>1 DEF SyncInv, OneClaim, Claims
<1> QED BY <1>3, <1>4, <1>5 DEF SyncInv

\* The catalog only grows, and by one entry of the key and vendor asked for.
LEMMA CatalogGrows ==
  ASSUME NEW cat, NEW key, NEW vendor, NEW v \in FindOrCreate(cat, key, vendor)
  PROVE  /\ \/ v.catalog = cat
            \/ v.catalog = cat \cup {<<key, vendor, 1>>} /\ Matches(cat, key, vendor) = {}
         /\ v.id \in {NoFil} \cup Matches(cat, key, vendor) \cup {<<key, vendor, 1>>}
         /\ v.cost \in {0, 1}
  BY DEF FindOrCreate, Made

LEMMA Keyed ==
  ASSUME NEW cat \in SUBSET Entries, NEW key \in Kinds \cup Incomplete \cup {Maker}, NEW vendor \in 0 .. 2
  PROVE  /\ {<<key, vendor, 1>>, <<key, vendor, 2>>} \subseteq Entries
         /\ Matches(cat, key, vendor) \subseteq Entries
         /\ key \in Kinds \cup Incomplete =>
              {<<key, vendor, 1>>, <<key, vendor, 2>>} \cup Matches(cat, key, vendor) \subseteq Fils
  BY DEF Entries, Fils, Matches

\* The number of a vendor that was found, made or neither.
LEMMA VendorTyped ==
  ASSUME NEW id \in Entries \cup {NoFil}
  PROVE  VendorNo(id) \in 0 .. 2
<1>1. CASE id = NoFil
  BY <1>1 DEF VendorNo
<1>2. CASE id # NoFil
  <2>1. id[3] \in 1 .. 2
    BY <1>2 DEF Entries
  <2> QED BY <1>2, <2>1 DEF VendorNo
<1> QED BY <1>1, <1>2

LEMMA FindsKeep ==
  ASSUME SyncInv, FindVendor \/ FindFilament
  PROVE  SyncInv'
<1>1. UNCHANGED <<spool, caches, queue, pend, arming, ota, picker, split, asked, visits>>
  BY DEF FindVendor, FindFilament
<1>2. /\ sync \in Syncs /\ sync.req.kind \in Kinds /\ catalog \subseteq Entries
      /\ sync.pc \in {"vendor", "filament"} /\ FoundStands
  BY Working DEF SyncInv, SyncTypeOK, DbOK, FindVendor, FindFilament, Request
<1>3. /\ catalog' \subseteq Entries /\ faults' \in Nat
      /\ \E p \in {"act", "filament"}, n \in 0 .. 2, f \in Fils \cup {NoFil} :
           sync' = [sync EXCEPT !.pc = p, !.vendor = n, !.fil = f]
  <2>1. CASE FindVendor
    <3>1. PICK v \in FindOrCreate(catalog, Maker, 0) :
            /\ catalog' = v.catalog /\ Charge(v.cost)
            /\ sync' = [sync EXCEPT !.pc = IF v.id = NoFil THEN "act" ELSE "filament",
                                    !.vendor = VendorNo(v.id)]
      BY <2>1 DEF FindVendor
    <3>2. v.cost \in Nat /\ v.catalog \subseteq Entries /\ v.id \in Entries \cup {NoFil}
      <4>1. <<Maker, 0, 1>> \in Entries /\ Matches(catalog, Maker, 0) \subseteq Entries
        <5>1. 0 \in 0 .. 2 /\ Maker \in Kinds \cup Incomplete \cup {Maker}
          OBVIOUS
        <5> QED BY <1>2, <5>1, Keyed
      <4>2. /\ v.catalog = catalog \/ v.catalog = catalog \cup {<<Maker, 0, 1>>}
            /\ v.id \in {NoFil} \cup Matches(catalog, Maker, 0) \cup {<<Maker, 0, 1>>}
            /\ v.cost \in {0, 1}
        BY <3>1, CatalogGrows
      <4> QED BY <1>2, <4>1, <4>2
    <3>3. PICK p \in {"act", "filament"}, n \in 0 .. 2 : sync' = [sync EXCEPT !.pc = p, !.vendor = n]
      BY <3>1, <3>2, VendorTyped
    <3>4. /\ sync.fil \in Fils \cup {NoFil}
          /\ sync' = [sync EXCEPT !.pc = p, !.vendor = n, !.fil = sync.fil]
      BY <1>2, <3>3 DEF Syncs
    <3> QED BY <3>1, <3>2, <3>4, Charged DEF SyncInv, SyncTypeOK
  <2>2. CASE FindFilament
    <3>0. sync.vendor \in 0 .. 2
      BY <1>2 DEF Syncs
    <3>1. PICK f \in FindOrCreate(catalog, sync.req.kind, sync.vendor) :
            /\ catalog' = f.catalog /\ Charge(f.cost)
            /\ sync' = [sync EXCEPT !.pc = "act", !.fil = f.id]
      BY <2>2 DEF FindFilament
    <3>2. f.cost \in Nat /\ f.catalog \subseteq Entries /\ f.id \in Fils \cup {NoFil}
      <4> DEFINE key == sync.req.kind
                 e == <<key, sync.vendor, 1>>
                 found == Matches(catalog, key, sync.vendor)
      <4>1. e \in Entries /\ e \in Fils /\ found \subseteq Fils
        BY <1>2, <3>0, Keyed
      <4>2. /\ f.catalog = catalog \/ f.catalog = catalog \cup {e}
            /\ f.cost \in {0, 1}
            /\ f.id \in {NoFil} \cup found \cup {e}
        BY <3>1, CatalogGrows
      <4> HIDE DEF key, e, found
      <4> QED BY <1>2, <4>1, <4>2
    <3>3. sync' = [sync EXCEPT !.pc = "act", !.vendor = sync.vendor, !.fil = f.id]
      BY <1>2, <3>1 DEF Syncs
    <3> QED BY <3>0, <3>1, <3>2, <3>3, Charged DEF SyncInv, SyncTypeOK
  <2> QED BY <2>1, <2>2
<1>4. PICK p \in {"act", "filament"}, n \in 0 .. 2, f \in Fils \cup {NoFil} :
        sync' = [sync EXCEPT !.pc = p, !.vendor = n, !.fil = f]
  BY <1>3
<1>5. /\ sync' \in Syncs /\ sync'.pc = p /\ sync'.found = sync.found /\ sync'.valid = sync.valid
      /\ sync'.core = sync.core /\ sync'.req = sync.req /\ sync'.just = sync.just
  BY <1>2, <1>4 DEF Syncs, Places
<1>6. SyncTypeOK'
  BY <1>1, <1>3, <1>5, CachesStay DEF SyncInv, SyncTypeOK, DbOK
<1>7. LinkStands' /\ FoundStands'
  BY <1>1, <1>2, <1>5 DEF LinkStands, FoundStands, Deciding, OwnSpool, Claims
<1>8. OneClaim'
  BY <1>1 DEF SyncInv, OneClaim, Claims
<1> QED BY <1>6, <1>7, <1>8 DEF SyncInv

-----------------------------------------------------------------------------
(* Acting *)

LEMMA AtWork ==
  ASSUME SyncInv, sync.pc \in Deciding
  PROVE  /\ sync \in Syncs /\ sync.req \in Request /\ sync.req.uid \in Uids
         /\ sync.found \in Spools \cup {0} /\ sync.fil \in Fils \cup {NoFil} /\ sync.req.grams \in Nat
         /\ sync.found \in Spools => OwnSpool(sync.found, sync.req.uid)
         /\ spool \in [Spools -> Spool] /\ catalog \subseteq Entries /\ CachesOK /\ OneClaim
<1>1. sync \in Syncs /\ sync.req \in Request
  BY Working DEF SyncInv, SyncTypeOK, Deciding
<1>2. sync.req.uid \in Uids /\ sync.req.grams \in Grams
  BY <1>1 DEF Request
<1> QED BY <1>1, <1>2, SizeAssumption DEF SyncInv, SyncTypeOK, DbOK, FoundStands, Syncs

\* What each verdict was reached from.
LEMMA Verdicts ==
  ASSUME SyncInv, sync.pc = "act"
  PROVE  /\ Verdict = "create" => sync.found \notin Spools
         /\ Verdict = "replace" => sync.found \in Spools /\ ~sync.just /\ ~spool[sync.found].pin
         /\ Verdict \in {"keep", "weightOnly"} => sync.found \in Spools
<1>1. sync.found \in Spools \cup {0} /\ 0 \notin Spools /\ sync.pc \in Deciding
  BY AtWork, SpoolIds DEF Deciding
<1>2. FoundStands
  BY DEF SyncInv
<1>3. CASE sync.fil = NoFil
  BY <1>1, <1>3 DEF Verdict
<1>4. CASE sync.fil # NoFil /\ sync.found = 0
  BY <1>1, <1>4 DEF Verdict
<1>5. CASE sync.fil # NoFil /\ sync.found # 0
  <2>1. Verdict = IF sync.just THEN "weightOnly" ELSE IF ~sync.valid THEN "keep"
                  ELSE Reconcile(sync.core, sync.fil, sync.req.grams)
    BY <1>5 DEF Verdict
  <2>2. Verdict # "create"
    BY <2>1 DEF Reconcile, ReconcileIgnoringLink
  <2>3. Verdict = "replace" => ~sync.just /\ sync.valid /\ ~sync.core.pin
    BY <2>1 DEF Reconcile
  <2> QED BY <1>1, <1>2, <1>5, <2>2, <2>3 DEF FoundStands
<1> QED BY <1>3, <1>4, <1>5

\* An update ends the sync; it changes the weight and the filament of one spool, and no claim.
LEMMA UpdateEnds ==
  ASSUME SyncInv, sync.pc \in {"act", "reuse"}, NEW s \in Spools, s = sync.found,
         NEW fil \in Fils \cup {NoFil}, UpdateSpool(s, fil)
  PROVE  /\ spool' \in [Spools -> Spool] /\ CachesOK' /\ picker' \in Pickers /\ faults' \in Nat
         /\ sync' \in Syncs /\ Calm(sync')
         /\ \A t \in Spools : /\ spool'[t].st = spool[t].st /\ spool'[t].nfc = spool[t].nfc
                              /\ spool'[t].pin = spool[t].pin /\ spool'[t].by = spool[t].by
                              /\ t # s => spool'[t].grams = spool[t].grams
<1> DEFINE g == sync.req.grams
           uid == sync.req.uid
<1>1. /\ sync \in Syncs /\ uid \in Uids /\ g \in Nat
      /\ spool \in [Spools -> Spool] /\ CachesOK
  BY AtWork DEF Deciding
<1>2. PICK r \in Replies :
        /\ Charge(IF r = "ok" \/ spool[s].st = "absent" THEN 0 ELSE 1)
        /\ Write(r, IF spool[s].st = "absent" THEN spool ELSE Updated(s, fil, g))
        /\ Touch(FALSE)
        /\ End(r = "ok")
        /\ IF r = "ok" THEN StoreId(uid, s) /\ StoreSync(uid, s, fil, g) ELSE UNCHANGED caches
  BY DEF UpdateSpool
<1>3. /\ Updated(s, fil, g) \in [Spools -> Spool]
      /\ \A t \in Spools : /\ Updated(s, fil, g)[t].st = spool[t].st
                           /\ Updated(s, fil, g)[t].nfc = spool[t].nfc
                           /\ Updated(s, fil, g)[t].pin = spool[t].pin
                           /\ Updated(s, fil, g)[t].by = spool[t].by
                           /\ t # s => Updated(s, fil, g)[t].grams = spool[t].grams
  <2>1. /\ (IF g > 0 THEN g ELSE spool[s].grams) \in Nat
        /\ (IF fil # NoFil THEN fil ELSE spool[s].fil) \in Fils \cup {NoFil}
    BY <1>1 DEF Spool
  <2>2. PICK w \in Nat, f \in Fils \cup {NoFil} :
          Updated(s, fil, g) = [spool EXCEPT ![s].grams = w, ![s].fil = f]
    BY <2>1 DEF Updated
  <2> QED BY <1>1, <2>2 DEF Spool
<1>4. /\ spool' \in [Spools -> Spool]
      /\ \A t \in Spools : /\ spool'[t].st = spool[t].st /\ spool'[t].nfc = spool[t].nfc
                           /\ spool'[t].pin = spool[t].pin /\ spool'[t].by = spool[t].by
                           /\ t # s => spool'[t].grams = spool[t].grams
  BY <1>1, <1>2, <1>3 DEF Write
<1>5. faults' \in Nat
  BY <1>2, Charged DEF SyncInv, SyncTypeOK
<1>6. picker' \in Pickers
  BY <1>2, Touched DEF SyncInv, SyncTypeOK
<1>7. sync' \in Syncs /\ Calm(sync')
  <2>1. (r = "ok") \in BOOLEAN
    OBVIOUS
  <2> QED BY <1>1, <1>2, <2>1, Ended
<1>8. CachesOK'
  <2>1. CASE r = "ok"
    BY <1>1, <1>2, <2>1, StoresKeep
  <2>2. CASE r # "ok"
    BY <1>1, <1>2, <2>2, CachesStay
  <2> QED BY <2>1, <2>2
<1> QED BY <1>4, <1>5, <1>6, <1>7, <1>8

\* What is the same of all steps that act on the spool found.
LEMMA ActedKeeps ==
  ASSUME SyncInv, UNCHANGED <<catalog, queue, pend, arming, ota, split, asked, visits>>,
         spool' \in [Spools -> Spool], CachesOK', picker' \in Pickers, faults' \in Nat,
         sync' \in Syncs, Calm(sync') \/ (LinkStands' /\ FoundStands'), OneClaim'
  PROVE  SyncInv'
<1>1. SyncTypeOK'
  BY DEF SyncInv, SyncTypeOK, DbOK
<1> QED BY <1>1, CalmStands DEF SyncInv

LEMMA ActKeeps ==
  ASSUME SyncInv, Act
  PROVE  SyncInv'
<1> DEFINE fil == IF Verdict = "weightOnly" THEN NoFil ELSE sync.fil
<1>1. /\ UNCHANGED <<catalog, queue, pend, arming, ota, split, asked, visits>>
      /\ sync.pc = "act" /\ sync.pc \in Deciding
  BY DEF Act, Deciding
<1>2. /\ sync \in Syncs /\ fil \in Fils \cup {NoFil} /\ spool \in [Spools -> Spool] /\ CachesOK
      /\ sync.req.uid \in Uids
      /\ OneClaim /\ picker \in Pickers /\ faults \in Nat /\ FoundStands
  BY <1>1, AtWork DEF SyncInv, SyncTypeOK
<1>3. CASE \E ok \in BOOLEAN : End(ok) /\ UNCHANGED <<spool, caches, picker, faults>>
  <2>1. sync' \in Syncs /\ Calm(sync')
    BY <1>2, <1>3, Ended
  <2>2. OneClaim' /\ CachesOK'
    BY <1>1, <1>2, <1>3, CachesStay DEF OneClaim, Claims
  <2> QED BY <1>1, <1>2, <1>3, <2>1, <2>2, ActedKeeps
<1>4. CASE /\ UNCHANGED <<spool, caches, picker, faults>>
           /\ \/ Verdict = "create" /\ sync' = [sync EXCEPT !.pc = "create"]
              \/ Verdict = "replace" /\ sync' = [sync EXCEPT !.pc = "archive"]
  <2>1. PICK p \in {"create", "archive"} :
          /\ sync' = [sync EXCEPT !.pc = p]
          /\ p = "create" => Verdict = "create"
          /\ p = "archive" => Verdict = "replace"
    BY <1>4
  <2>2. /\ sync' \in Syncs /\ sync'.pc = p /\ sync'.found = sync.found /\ sync'.valid = sync.valid
        /\ sync'.core = sync.core /\ sync'.req = sync.req /\ sync'.just = sync.just
    BY <1>2, <2>1 DEF Syncs, Places
  <2>3. OneClaim' /\ CachesOK'
    BY <1>1, <1>2, <1>4, CachesStay DEF OneClaim, Claims
  <2>4. /\ p = "create" => sync.found \notin Spools
        /\ p = "archive" => sync.found \in Spools /\ ~sync.just /\ ~spool[sync.found].pin
    BY <1>1, <2>1, Verdicts
  <2>5. p = "create" /\ sync.req.uid \notin split => Claims(sync.req.uid) = {}
    BY <1>1, <1>2, <2>4 DEF FoundStands, Claims, Deciding
  <2>6. LinkStands' /\ FoundStands'
    BY <1>1, <1>2, <1>4, <2>2, <2>4, <2>5 DEF LinkStands, FoundStands, Deciding, OwnSpool, Claims
  <2> QED BY <1>1, <1>2, <1>4, <2>2, <2>3, <2>6, ActedKeeps
<1>5. CASE Verdict \in {"keep", "weightOnly"} /\ UpdateSpool(sync.found, fil)
  <2>1. sync.found \in Spools
    BY <1>1, <1>5, Verdicts
  <2> HIDE DEF fil
  <2>2. /\ spool' \in [Spools -> Spool] /\ CachesOK' /\ picker' \in Pickers /\ faults' \in Nat
        /\ sync' \in Syncs /\ Calm(sync')
        /\ \A t \in Spools : spool'[t].st = spool[t].st /\ spool'[t].nfc = spool[t].nfc
    BY <1>1, <1>2, <1>5, <2>1, UpdateEnds
  <2>3. OneClaim'
    BY <1>1, <1>2, <2>2, ClaimsShrink
  <2> QED BY <1>1, <2>2, <2>3, ActedKeeps
<1> QED BY <1>3, <1>4, <1>5 DEF Act

LEMMA ReuseKeeps ==
  ASSUME SyncInv, Reuse
  PROVE  SyncInv'
<1>1. /\ UNCHANGED <<catalog, queue, pend, arming, ota, split, asked, visits>>
      /\ sync.pc = "reuse" /\ sync.pc \in Deciding /\ UpdateSpool(sync.found, sync.fil)
  BY DEF Reuse, Deciding
<1>2. sync.found \in Spools /\ sync.fil \in Fils \cup {NoFil} /\ OneClaim
  BY <1>1, AtWork DEF SyncInv, FoundStands
<1>3. /\ spool' \in [Spools -> Spool] /\ CachesOK' /\ picker' \in Pickers /\ faults' \in Nat
      /\ sync' \in Syncs /\ Calm(sync')
      /\ \A t \in Spools : spool'[t].st = spool[t].st /\ spool'[t].nfc = spool[t].nfc
  BY <1>1, <1>2, UpdateEnds
<1>4. OneClaim'
  BY <1>1, <1>2, <1>3, ClaimsShrink
<1> QED BY <1>1, <1>3, <1>4, ActedKeeps

\* An archived spool claims no tag, so that its successor may.
LEMMA ArchiveKeeps ==
  ASSUME SyncInv, Archive
  PROVE  SyncInv'
<1> DEFINE s == sync.found
<1>1. /\ UNCHANGED <<catalog, queue, pend, arming, ota, split, asked, visits>>
      /\ sync.pc = "archive" /\ sync.pc \in Deciding
  BY DEF Archive, Deciding
<1>2. /\ sync \in Syncs /\ s \in Spools /\ spool \in [Spools -> Spool] /\ CachesOK /\ OneClaim
      /\ FoundStands /\ ~sync.just /\ ~spool[s].pin
  BY <1>1, AtWork DEF SyncInv, FoundStands
<1>3. PICK r \in Replies :
        /\ spool[s].st = "absent" => r = "refused"
        /\ Charge(IF r = "ok" \/ spool[s].st = "absent" THEN 0 ELSE 1)
        /\ Write(r, [spool EXCEPT ![s].st = "archived"])
        /\ sync' = [sync EXCEPT !.pc = IF r = "ok" THEN "create" ELSE "reuse"]
        /\ IF r = "ok" THEN Invalidate(sync.req.uid) ELSE UNCHANGED caches
        /\ Touch(FALSE)
  BY DEF Archive
<1>4. /\ spool' \in [Spools -> Spool]
      /\ \A t \in Spools : /\ spool'[t].nfc = spool[t].nfc /\ spool'[t].pin = spool[t].pin
                           /\ spool'[t].grams = spool[t].grams
                           /\ t # s => spool'[t].st = spool[t].st
      /\ spool'[s].st \in {spool[s].st, "archived"}
      /\ r = "ok" => spool'[s].st = "archived"
  BY <1>2, <1>3 DEF Write, Spool
<1>5. /\ sync' \in Syncs /\ sync'.pc = (IF r = "ok" THEN "create" ELSE "reuse")
      /\ sync'.found = s /\ sync'.valid = sync.valid /\ sync'.core = sync.core
      /\ sync'.req = sync.req /\ sync'.just = sync.just
  BY <1>2, <1>3 DEF Syncs, Places
<1>6. faults' \in Nat /\ picker' \in Pickers /\ CachesOK'
  BY <1>2, <1>3, Charged, Touched, InvalidateKeeps, CachesStay DEF SyncInv, SyncTypeOK
<1>7. OneClaim'
  BY <1>1, <1>2, <1>4, ClaimsShrink
<1>8. PICK u : u = sync.req.uid
  OBVIOUS
<1>9. spool'[s].st = "absent" \/ spool'[s].nfc \in {u, "none"}
  <2>1. spool[s].st = "absent" \/ spool[s].nfc \in {u, "none"}
    BY <1>1, <1>2, <1>8 DEF FoundStands, OwnSpool
  <2>2. spool[s].st = "absent" => spool' = spool
    BY <1>3 DEF Write
  <2> QED BY <1>2, <1>4, <2>1, <2>2
<1>10. ASSUME u \notin split
       PROVE  /\ {t \in Spools : spool'[t].st = "active" /\ spool'[t].nfc = u} \subseteq {s}
              /\ r = "ok" => {t \in Spools : spool'[t].st = "active" /\ spool'[t].nfc = u} = {}
  <2>1. {t \in Spools : spool[t].st = "active" /\ spool[t].nfc = u} \subseteq {s}
    BY <1>1, <1>2, <1>8, <1>10 DEF FoundStands, Claims
  <2>2. \A t \in Spools : t # s => ~(spool'[t].st = "active" /\ spool'[t].nfc = u)
    BY <1>4, <2>1
  <2>3. r = "ok" => spool'[s].st # "active"
    BY <1>4
  <2> QED BY <2>2, <2>3
<1>11. LinkStands' /\ FoundStands'
  <2>1. LinkStands'
    BY <1>5 DEF LinkStands
  <2>2. sync'.req.uid = u /\ split' = split /\ spool'[s].pin = spool[s].pin
    BY <1>1, <1>2, <1>4, <1>5, <1>8
  <2>3. sync.valid => sync.core.pin = spool[s].pin
    BY <1>1, <1>2 DEF FoundStands
  <2>4. FoundStands'
    BY <1>2, <1>5, <1>9, <1>10, <2>2, <2>3 DEF FoundStands, Deciding, OwnSpool, Claims
  <2> QED BY <2>1, <2>4
<1> QED BY <1>1, <1>4, <1>5, <1>6, <1>7, <1>11, ActedKeeps

\* A new spool is for a tag that no active spool claims.
LEMMA CreateEnds ==
  ASSUME SyncInv, CreateSpool
  PROVE  /\ spool' \in [Spools -> Spool] /\ CachesOK' /\ picker' \in Pickers /\ faults' \in Nat
         /\ sync' \in Syncs /\ Calm(sync') /\ OneClaim'
         /\ \A t \in Spools : \/ spool'[t] = spool[t]
                              \/ spool[t].st = "absent" /\ spool'[t].by = "nobody"
<1> DEFINE uid == sync.req.uid
           g == sync.req.grams
           n == NextId
<1>1. /\ UNCHANGED <<catalog, queue, pend, arming, ota, split, asked, visits>>
      /\ sync.pc = "create" /\ sync.pc \in Deciding
  BY DEF CreateSpool, Deciding
<1>2. /\ sync \in Syncs /\ uid \in Uids /\ g \in Nat /\ sync.fil \in Fils \cup {NoFil}
      /\ spool \in [Spools -> Spool] /\ CachesOK /\ OneClaim
      /\ uid \notin split => Claims(uid) = {}
  BY <1>1, AtWork DEF SyncInv, FoundStands
<1>3. PICK r \in Replies :
        /\ ~CanList => r = "refused"
        /\ Charge(IF r = "ok" \/ ~CanList THEN 0 ELSE 1)
        /\ Write(r, NewSpool(uid, sync.fil, g))
        /\ End(r = "ok")
        /\ IF r = "ok" THEN StoreId(uid, n) /\ StoreSync(uid, n, sync.fil, g) ELSE UNCHANGED caches
        /\ Touch(FALSE)
  BY DEF CreateSpool
<1>4. faults' \in Nat /\ picker' \in Pickers
  BY <1>3, Charged, Touched DEF SyncInv, SyncTypeOK
<1>5. sync' \in Syncs /\ Calm(sync')
  <2>1. (r = "ok") \in BOOLEAN
    OBVIOUS
  <2> QED BY <1>2, <1>3, <2>1, Ended
<1>6. CASE r = "refused"
  <2>1. spool' = spool /\ UNCHANGED caches
    BY <1>3, <1>6 DEF Write
  <2>2. OneClaim' /\ CachesOK'
    BY <1>1, <1>2, <2>1, CachesStay DEF OneClaim, Claims
  <2> QED BY <1>2, <1>4, <1>5, <2>1, <2>2
<1>7. CASE r # "refused"
  <2>1. n \in Spools /\ spool[n].st = "absent"
    BY <1>3, <1>7, NewId
  <2> HIDE DEF n
  <2>2. spool' = [spool EXCEPT ![n] = [st |-> "active", nfc |-> uid, pin |-> FALSE, by |-> "nobody",
                                       fil |-> sync.fil, grams |-> IF g > 0 THEN g ELSE FULL]]
    BY <1>3, <1>7 DEF Write, NewSpool, n
  <2>3. /\ spool' \in [Spools -> Spool] /\ spool'[n].nfc = uid /\ spool'[n].by = "nobody"
        /\ \A t \in Spools : t # n => spool'[t] = spool[t]
    <3>1. (IF g > 0 THEN g ELSE FULL) \in Nat
      BY <1>2, SizeAssumption
    <3>2. PICK w \in Nat :
            spool' = [spool EXCEPT ![n] = [st |-> "active", nfc |-> uid, pin |-> FALSE, by |-> "nobody",
                                           fil |-> sync.fil, grams |-> w]]
      BY <2>2, <3>1
    <3> QED BY <1>2, <2>1, <3>2 DEF Spool
  <2>4. CachesOK'
    BY <1>2, <1>3, <2>1, StoresKeep, CachesStay
  <2>5. OneClaim'
    <3> SUFFICES ASSUME NEW v \in Uids \ split, NEW t \in Spools, NEW u \in Spools,
                        spool'[t].st = "active", spool'[t].nfc = v,
                        spool'[u].st = "active", spool'[u].nfc = v
                 PROVE  t = u
      BY <1>1 DEF OneClaim, Claims
    <3>1. CASE v = uid
      <4>1. \A x \in Spools : x # n => ~(spool[x].st = "active" /\ spool[x].nfc = uid)
        BY <1>2, <3>1 DEF Claims
      <4> QED BY <2>3, <3>1, <4>1
    <3>2. CASE v # uid
      <4>1. t \in Claims(v) /\ u \in Claims(v)
        BY <2>3, <3>2 DEF Claims
      <4> QED BY <1>2, <4>1 DEF OneClaim
    <3> QED BY <3>1, <3>2
  <2> QED BY <1>4, <1>5, <2>1, <2>3, <2>4, <2>5
<1> QED BY <1>6, <1>7

LEMMA CreateKeeps ==
  ASSUME SyncInv, CreateSpool
  PROVE  SyncInv'
<1>1. UNCHANGED <<catalog, queue, pend, arming, ota, split, asked, visits>>
  BY DEF CreateSpool
<1> QED BY <1>1, CreateEnds, ActedKeeps

-----------------------------------------------------------------------------
(* The other users of the database, and the theorem *)

\* What is the same of all that is done to the database while the sync task is not at work.
LEMMA WebKeeps ==
  ASSUME SyncInv, Calm(sync), UNCHANGED <<queue, sync, pend, arming, ota, asked>>,
         spool' \in [Spools -> Spool], catalog' \subseteq Entries, CachesOK',
         picker' \in Pickers, faults' \in Nat, visits' \in Nat, split' \subseteq Uids, OneClaim'
  PROVE  SyncInv'
<1>1. SyncTypeOK'
  BY DEF SyncInv, SyncTypeOK, DbOK
<1> QED BY <1>1, CalmStands DEF SyncInv

\* A user's link takes the tag from one other spool at most: split remembers a third.
LEMMA WebLinkKeeps ==
  ASSUME SyncInv, NEW uid \in Uids, NEW new \in Spools, NEW old \in Spools \cup {0},
         WebLink(uid, new, old)
  PROVE  SyncInv'
<1>1. /\ UNCHANGED <<catalog, caches, queue, sync, pend, arming, ota, picker, asked>>
      /\ Calm(sync) /\ visits' \in Nat /\ old # new
  BY FreeIsCalm, Visited DEF WebLink, WebMayCall, SyncInv, SyncTypeOK
<1>2. /\ spool \in [Spools -> Spool] /\ catalog \subseteq Entries /\ CachesOK /\ OneClaim
      /\ picker \in Pickers /\ split \subseteq Uids /\ faults \in Nat
  BY DEF SyncInv, SyncTypeOK, DbOK
<1>3. PICK r \in Replies, gone \in SUBSET {old} :
        /\ Reply(r)
        /\ spool' = IF r = "refused" THEN spool
                    ELSE [t \in Spools |->
                            IF t = new THEN [spool[t] EXCEPT !.nfc = uid, !.pin = FALSE, !.by = "page"]
                            ELSE IF t \in gone THEN Linkless(spool[t])
                            ELSE spool[t]]
        /\ split' = IF r # "refused" /\ Claims(uid) \ ({new} \cup gone) # {}
                      THEN split \cup {uid} ELSE split
  <2>1. PICK r \in Replies, cleared \in BOOLEAN :
          LET gone == IF r = "ok" /\ cleared /\ old # 0 THEN {old} ELSE {} IN
          /\ Reply(r)
          /\ spool' = IF r = "refused" THEN spool
                      ELSE [t \in Spools |->
                              IF t = new THEN [spool[t] EXCEPT !.nfc = uid, !.pin = FALSE, !.by = "page"]
                              ELSE IF t \in gone THEN Linkless(spool[t])
                              ELSE spool[t]]
          /\ split' = IF r # "refused" /\ Claims(uid) \ ({new} \cup gone) # {}
                        THEN split \cup {uid} ELSE split
    BY DEF WebLink
  <2>2. (IF r = "ok" /\ cleared /\ old # 0 THEN {old} ELSE {}) \in SUBSET {old}
    OBVIOUS
  <2> QED BY <2>1, <2>2
<1>4. faults' \in Nat
  BY <1>2, <1>3, Charged DEF Reply
<1>5. split' \subseteq Uids
  BY <1>2, <1>3
<1>6. CASE r = "refused"
  <2>1. OneClaim'
    BY <1>2, <1>3, <1>6, ClaimsShrink
  <2> QED BY <1>1, <1>2, <1>3, <1>4, <1>5, <1>6, <2>1, CachesStay, WebKeeps
<1>7. CASE r # "refused"
  <2>1. /\ spool' \in [Spools -> Spool]
        /\ \A t \in Spools : /\ spool'[t].st = spool[t].st
                             /\ t = new => spool'[t].nfc = uid
                             /\ t # new /\ t \in gone => spool'[t].nfc = "blank"
                             /\ t # new /\ t \notin gone => spool'[t].nfc = spool[t].nfc
    <3>1. /\ spool' = [t \in Spools |-> spool'[t]]
          /\ \A t \in Spools :
               /\ t = new => spool'[t] = [spool[t] EXCEPT !.nfc = uid, !.pin = FALSE, !.by = "page"]
               /\ t # new /\ t \in gone =>
                    spool'[t] = Linkless(spool[t])
               /\ t # new /\ t \notin gone => spool'[t] = spool[t]
      BY <1>3, <1>7
    <3>2. ASSUME NEW t \in Spools
          PROVE  /\ spool'[t] \in Spool /\ spool'[t].st = spool[t].st
                 /\ t = new => spool'[t].nfc = uid
                 /\ t # new /\ t \in gone => spool'[t].nfc = "blank"
                 /\ t # new /\ t \notin gone => spool'[t].nfc = spool[t].nfc
      <4>1. spool[t] \in Spool
        BY <1>2
      <4>2. CASE t = new
        <5>1. spool'[t] = [spool[t] EXCEPT !.nfc = uid, !.pin = FALSE, !.by = "page"]
          BY <3>1, <4>2
        <5> QED BY <4>1, <4>2, <5>1 DEF Spool
      <4>3. CASE t # new /\ t \in gone
        <5>1. spool'[t] = Linkless(spool[t])
          BY <3>1, <4>3
        <5> QED BY <4>1, <4>3, <5>1 DEF Spool, Linkless
      <4>4. CASE t # new /\ t \notin gone
        BY <3>1, <4>1, <4>4
      <4> QED BY <4>2, <4>3, <4>4
    <3> QED BY <3>1, <3>2
  <2>2. OneClaim'
    <3> SUFFICES ASSUME NEW v \in Uids \ split', NEW t \in Spools, NEW u \in Spools,
                        spool'[t].st = "active", spool'[t].nfc = v,
                        spool'[u].st = "active", spool'[u].nfc = v
                 PROVE  t = u
      BY DEF OneClaim, Claims
    <3>1. v \notin split /\ v # "blank"
      BY <1>3, KeyAssumption
    <3>2. CASE v = uid
      <4>1. Claims(uid) \subseteq {new} \cup gone
        BY <1>3, <1>7, <3>2
      <4>2. \A x \in {t, u} : x # new => x \notin gone /\ x \in Claims(uid)
        BY <2>1, <3>1, <3>2 DEF Claims
      <4> QED BY <4>1, <4>2
    <3>3. CASE v # uid
      <4>1. \A x \in {t, u} : x \in Claims(v)
        BY <2>1, <3>1, <3>3 DEF Claims
      <4> QED BY <1>2, <3>1, <4>1 DEF OneClaim
    <3> QED BY <3>2, <3>3
  <2> QED BY <1>1, <1>2, <1>4, <1>5, <2>1, <2>2, CachesStay, WebKeeps
<1> QED BY <1>6, <1>7

LEMMA ChosenTyped ==
  ASSUME NEW cat \in SUBSET Entries, NEW key \in Kinds \cup {Maker}, NEW vendor \in 0 .. 2, NEW how,
         NEW v \in Chosen(cat, key, vendor, how)
  PROVE  /\ v.catalog \subseteq Entries /\ v.cost \in Nat /\ v.id \in Entries \cup {NoFil}
         /\ key \in Kinds => v.id \in Fils \cup {NoFil}
<1> DEFINE e == <<key, vendor, 1>>
           d == <<key, vendor, 2>>
           found == Matches(cat, key, vendor)
<1>1. /\ {e, d} \cup found \subseteq Entries
      /\ key \in Kinds => {e, d} \cup found \subseteq Fils
  BY Keyed
<1>2. CASE v \in FindOrCreate(cat, key, vendor)
  <2>1. /\ v.catalog = cat \/ v.catalog = cat \cup {e}
        /\ v.id \in {NoFil} \cup found \cup {e}
        /\ v.cost \in {0, 1}
    BY <1>2, CatalogGrows
  <2> HIDE DEF e, d, found
  <2> QED BY <1>1, <2>1
<1>3. CASE v \in Made(cat, d)
  <2>1. v.catalog = cat \cup {d} /\ v.id \in {NoFil, d} /\ v.cost \in {0, 1}
    BY <1>3 DEF Made
  <2> HIDE DEF e, d, found
  <2> QED BY <1>1, <2>1
<1> QED BY <1>2, <1>3 DEF Chosen

\* Registering a tag makes a spool only when none claims the tag; enriching claims nothing.
LEMMA SavedKeeps ==
  ASSUME SyncInv, NEW uid \in Uids, NEW kind \in Kinds, NEW fil \in Fils, NEW g \in Nat, NEW how,
         FoundByUid(uid) = 0 => CanList, spool' = Saved(uid, kind, fil, g, how), split' = split
  PROVE  spool' \in [Spools -> Spool] /\ OneClaim'
<1> DEFINE s == FoundByUid(uid)
<1>1. spool \in [Spools -> Spool] /\ CachesOK /\ OneClaim
  BY DEF SyncInv, SyncTypeOK, DbOK
<1>2. s \in Spools \cup {0}
  BY <1>1, ResolvedOwn DEF FoundByUid
<1>3. CASE s = 0
  <2>1. PICK n \in Spools : n = NextId /\ spool[n].st = "absent"
    BY <1>3, NewId
  <2>2. Claims(uid) = {}
    BY <1>1, <1>3, NobodyClaims DEF FoundByUid
  <2>3. spool' = [spool EXCEPT ![n] = [st |-> "active", nfc |-> uid, pin |-> FALSE, by |-> "nobody",
                                       fil |-> fil, grams |-> IF g > 0 THEN g ELSE FULL]]
    BY <1>3, <2>1 DEF Saved, NewSpool
  <2>4. /\ spool' \in [Spools -> Spool] /\ spool'[n].nfc = uid
        /\ \A t \in Spools : t # n => spool'[t] = spool[t]
    <3>1. (IF g > 0 THEN g ELSE FULL) \in Nat
      BY SizeAssumption
    <3>2. PICK w \in Nat :
            spool' = [spool EXCEPT ![n] = [st |-> "active", nfc |-> uid, pin |-> FALSE, by |-> "nobody",
                                           fil |-> fil, grams |-> w]]
      BY <2>3, <3>1
    <3> QED BY <1>1, <2>1, <3>2 DEF Spool
  <2>5. OneClaim'
    <3> SUFFICES ASSUME NEW v \in Uids \ split, NEW t \in Spools, NEW u \in Spools,
                        spool'[t].st = "active", spool'[t].nfc = v,
                        spool'[u].st = "active", spool'[u].nfc = v
                 PROVE  t = u
      BY DEF OneClaim, Claims
    <3>1. CASE v = uid
      <4>1. \A x \in Spools : ~(spool[x].st = "active" /\ spool[x].nfc = uid)
        BY <2>2 DEF Claims
      <4> QED BY <2>4, <3>1, <4>1
    <3>2. CASE v # uid
      <4>1. t \in Claims(v) /\ u \in Claims(v)
        BY <2>4, <3>2 DEF Claims
      <4> QED BY <1>1, <4>1 DEF OneClaim
    <3> QED BY <3>1, <3>2
  <2> QED BY <2>4, <2>5
<1>4. CASE s # 0
  <2>1. s \in Spools
    BY <1>2, <1>4
  <2>2. PICK f \in Fils \cup {NoFil}, w \in Nat :
          spool' = [spool EXCEPT ![s].fil = f, ![s].grams = w]
    <3>1. /\ (IF EnrichKeeps(s, kind, how) THEN spool[s].fil ELSE fil) \in Fils \cup {NoFil}
          /\ (IF g > 0 THEN g ELSE spool[s].grams) \in Nat
      BY <1>1, <2>1 DEF Spool
    <3>2. spool' = [spool EXCEPT ![s].fil = IF EnrichKeeps(s, kind, how) THEN spool[s].fil ELSE fil,
                                 ![s].grams = IF g > 0 THEN g ELSE spool[s].grams]
      BY <1>4 DEF Saved
    <3> QED BY <3>1, <3>2
  <2>3. /\ spool' \in [Spools -> Spool]
        /\ \A t \in Spools : spool'[t].st = spool[t].st /\ spool'[t].nfc = spool[t].nfc
    <3>1. PICK x \in Spools : spool' = [spool EXCEPT ![x].fil = f, ![x].grams = w]
      BY <2>1, <2>2
    <3>2. PICK q : q = [spool EXCEPT ![x].fil = f, ![x].grams = w]
      OBVIOUS
    <3>3. /\ q \in [Spools -> Spool]
          /\ \A t \in Spools : q[t].st = spool[t].st /\ q[t].nfc = spool[t].nfc
      <4>1. /\ q = [t \in Spools |-> q[t]]
            /\ \A t \in Spools : q[t] = IF t = x THEN [spool[t] EXCEPT !.fil = f, !.grams = w]
                                         ELSE spool[t]
        BY <1>1, <3>2
      <4>2. \A t \in Spools : spool[t] \in Spool
        BY <1>1
      <4>3. [spool[x] EXCEPT !.fil = f, !.grams = w] \in Spool
        BY <4>2 DEF Spool
      <4>4. /\ [spool[x] EXCEPT !.fil = f, !.grams = w].nfc = spool[x].nfc
            /\ [spool[x] EXCEPT !.fil = f, !.grams = w].st = spool[x].st
        BY <4>2 DEF Spool
      <4> QED BY <4>1, <4>2, <4>3, <4>4
    <3>4. spool' = q
      BY <3>1, <3>2
    <3> HIDE DEF s
    <3> QED BY <3>3, <3>4
  <2> QED BY <1>1, <2>3, ClaimsShrink
<1> QED BY <1>3, <1>4

LEMMA WebSaveKeeps ==
  ASSUME SyncInv, NEW uid \in Uids, NEW kind \in Kinds, NEW g \in Grams, NEW how,
         WebSave(uid, kind, g, how)
  PROVE  SyncInv'
<1> DEFINE full == FoundByUid(uid) = 0 /\ ~CanList
<1>1. /\ UNCHANGED <<queue, sync, pend, arming, ota, split, asked>>
      /\ Calm(sync) /\ visits' \in Nat
  BY FreeIsCalm, Visited DEF WebSave, WebMayCall, SyncInv, SyncTypeOK
<1>2. /\ spool \in [Spools -> Spool] /\ catalog \subseteq Entries /\ CachesOK /\ OneClaim
      /\ picker \in Pickers /\ split \subseteq Uids /\ faults \in Nat /\ g \in Nat
  BY SizeAssumption DEF SyncInv, SyncTypeOK, DbOK
<1>3. PICK v \in Chosen(catalog, Maker, 0, how) :
        \E f \in Chosen(v.catalog, kind, VendorNo(v.id), how), r \in Replies :
        /\ f.id = NoFil \/ full => r = "refused"
        /\ Charge(v.cost + f.cost + (IF r = "ok" \/ f.id = NoFil \/ full THEN 0 ELSE 1))
        /\ catalog' = f.catalog
        /\ Write(r, Saved(uid, kind, f.id, g, how))
        /\ Touch(r = "ok")
        /\ IF f.id = NoFil THEN UNCHANGED caches ELSE ResolveCaches(uid, 0)
  BY DEF WebSave
<1>4. v.catalog \subseteq Entries /\ v.cost \in Nat /\ VendorNo(v.id) \in 0 .. 2
  <2>1. v.catalog \subseteq Entries /\ v.cost \in Nat /\ v.id \in Entries \cup {NoFil}
    <3>1. 0 \in 0 .. 2 /\ Maker \in Kinds \cup {Maker}
      OBVIOUS
    <3> QED BY <1>2, <1>3, <3>1, ChosenTyped
  <2> QED BY <2>1, VendorTyped
<1>5. PICK f \in Chosen(v.catalog, kind, VendorNo(v.id), how), r \in Replies :
        /\ f.id = NoFil \/ full => r = "refused"
        /\ Charge(v.cost + f.cost + (IF r = "ok" \/ f.id = NoFil \/ full THEN 0 ELSE 1))
        /\ catalog' = f.catalog
        /\ Write(r, Saved(uid, kind, f.id, g, how))
        /\ Touch(r = "ok")
        /\ IF f.id = NoFil THEN UNCHANGED caches ELSE ResolveCaches(uid, 0)
  BY <1>3
<1>6. f.catalog \subseteq Entries /\ f.cost \in Nat /\ f.id \in Fils \cup {NoFil}
  BY <1>4, <1>5, ChosenTyped
<1>7. faults' \in Nat
  <2>1. PICK n \in Nat : Charge(n)
    BY <1>4, <1>5, <1>6
  <2> QED BY <1>2, <2>1, Charged
<1>8. picker' \in Pickers
  BY <1>2, <1>5, Touched
<1>9. CachesOK'
  <2>1. 0 \in Spools \cup {0}
    OBVIOUS
  <2> QED BY <1>2, <1>5, <2>1, ResolveCachesKeep, CachesStay
<1>10. spool' \in [Spools -> Spool] /\ OneClaim'
  <2>1. CASE r = "refused"
    BY <1>1, <1>2, <1>5, <2>1, ClaimsShrink DEF Write
  <2>2. CASE r # "refused"
    <3>1. f.id \in Fils /\ (FoundByUid(uid) = 0 => CanList)
      BY <1>5, <1>6, <2>2
    <3>2. spool' = Saved(uid, kind, f.id, g, how) /\ split' = split
      BY <1>1, <1>5, <2>2 DEF Write
    <3> QED BY <1>2, <3>1, <3>2, SavedKeeps
  <2> QED BY <2>1, <2>2
<1> QED BY <1>1, <1>2, <1>5, <1>6, <1>7, <1>8, <1>9, <1>10, WebKeeps

\* A deduction changes the weight of one spool, one that the tag may speak for.
LEMMA DeductWeighs ==
  ASSUME SyncInv, NEW uid \in Uids, NEW g \in Nat, Deduct(uid, g)
  PROVE  /\ spool' \in [Spools -> Spool]
         /\ \A t \in Spools : /\ spool'[t].st = spool[t].st /\ spool'[t].nfc = spool[t].nfc
                              /\ spool'[t].pin = spool[t].pin /\ spool'[t].by = spool[t].by
                              /\ spool'[t].grams # spool[t].grams => OwnSpool(t, uid)
<1>1. spool \in [Spools -> Spool] /\ CachesOK
  BY DEF SyncInv, SyncTypeOK, DbOK
<1>2. PICK s : s = Resolved(uid, 0)
  OBVIOUS
<1>3. s \in Spools \cup {0} /\ (s \in Spools => OwnSpool(s, uid))
  BY <1>1, <1>2, ResolvedOwn
<1>4. PICK r \in Replies :
        /\ s = 0 => r = "refused"
        /\ Write(r, [spool EXCEPT ![s].grams = Deducted(@, g)])
  BY <1>2 DEF Deduct
<1>5. CASE r = "refused"
  BY <1>1, <1>4, <1>5 DEF Write
<1>6. CASE r # "refused"
  <2>1. s \in Spools /\ spool' = [spool EXCEPT ![s].grams = Deducted(spool[s].grams, g)]
    BY <1>3, <1>4, <1>6 DEF Write
  <2>2. Deducted(spool[s].grams, g) \in Nat
    <3>1. spool[s].grams \in Nat
      BY <1>1, <2>1 DEF Spool
    <3> QED BY <3>1 DEF Deducted
  <2>3. PICK w \in Nat : spool' = [spool EXCEPT ![s].grams = w]
    BY <2>1, <2>2
  <2> QED BY <1>1, <1>3, <2>1, <2>3 DEF Spool
<1> QED BY <1>5, <1>6

LEMMA DeductKeeps ==
  ASSUME SyncInv, NEW uid \in Uids, NEW g \in Grams, Deduct(uid, g)
  PROVE  SyncInv'
<1>1. /\ UNCHANGED <<catalog, queue, sync, pend, arming, ota, split, asked>>
      /\ Calm(sync) /\ visits' \in Nat
  BY FreeIsCalm, Visited DEF Deduct, WebMayCall, SyncInv, SyncTypeOK
<1>2. /\ catalog \subseteq Entries /\ CachesOK /\ OneClaim
      /\ picker \in Pickers /\ split \subseteq Uids /\ faults \in Nat /\ g \in Nat
  BY SizeAssumption DEF SyncInv, SyncTypeOK, DbOK
<1>3. spool' \in [Spools -> Spool] /\ OneClaim'
  BY <1>1, <1>2, DeductWeighs, ClaimsShrink
<1>4. faults' \in Nat
  <2>1. PICK n \in Nat : Charge(n)
    BY DEF Deduct
  <2> QED BY <1>2, <2>1, Charged
<1>5. picker' \in Pickers
  <2>1. PICK b \in BOOLEAN : Touch(b)
    BY DEF Deduct
  <2> QED BY <1>2, <2>1, Touched
<1>6. CachesOK'
  <2>1. ResolveCaches(uid, 0)
    BY DEF Deduct
  <2> QED BY <1>2, <2>1, ResolveCachesKeep
<1> QED BY <1>1, <1>2, <1>3, <1>4, <1>5, <1>6, WebKeeps

\* Other users need no mutex of the scanner's: what it found may be archived at any point.
LEMMA OtherUserArchivesKeeps ==
  ASSUME SyncInv, NEW s \in Spools, OtherUserArchives(s)
  PROVE  SyncInv'
<1>1. /\ UNCHANGED <<catalog, caches, queue, sync, pend, arming, ota, split, asked, faults>>
      /\ spool[s].st = "active" /\ spool' = [spool EXCEPT ![s].st = "archived"]
  BY DEF OtherUserArchives
<1>2. spool \in [Spools -> Spool]
  BY DEF SyncInv, SyncTypeOK, DbOK
<1>3. /\ spool' \in [Spools -> Spool]
      /\ \A t \in Spools : /\ spool'[t].nfc = spool[t].nfc /\ spool'[t].pin = spool[t].pin
                           /\ spool'[t].st = "active" => spool[t].st = "active"
                           /\ spool'[t].st = "absent" <=> spool[t].st = "absent"
  BY <1>1, <1>2 DEF Spool
<1>4. picker' \in Pickers /\ visits' \in Nat
  BY Touched, Visited DEF OtherUserArchives, SyncInv, SyncTypeOK
<1>5. SyncTypeOK'
  BY <1>1, <1>3, <1>4, CachesStay DEF SyncInv, SyncTypeOK, DbOK
<1>6. OneClaim'
  BY <1>1, <1>3, ClaimsShrink DEF SyncInv
<1>7. LinkStands'
  BY <1>1, <1>3 DEF SyncInv, LinkStands
<1>8. FoundStands'
  BY <1>1, <1>3 DEF SyncInv, FoundStands, OwnSpool, Claims
<1> QED BY <1>5, <1>6, <1>7, <1>8 DEF SyncInv

LEMMA StandingKeeps == ASSUME SyncInv, UNCHANGED syncVars PROVE SyncInv'
<1>1. /\ UNCHANGED <<spool, catalog, queue, sync, pend, arming, ota, picker, split>>
      /\ UNCHANGED <<asked, faults, visits, caches>>
  BY DEF syncVars, db, budgets
<1>2. SyncTypeOK'
  BY <1>1, CachesStay DEF SyncInv, SyncTypeOK, DbOK
<1> QED BY <1>1, <1>2, AsideKeeps

LEMMA InitInv == SyncInit => SyncInv
<1> SUFFICES ASSUME SyncInit PROVE SyncInv
  OBVIOUS
<1>1. spool \in [Spools -> Spool]
  BY DatabaseAssumption DEF SyncInit, Spool, Unlisted
<1>2. CachesOK
  BY SizeAssumption DEF SyncInit, CachesOK
<1>3. sync = Idle /\ Idle.pc = "idle"
  BY DEF SyncInit, Idle
<1>4. SyncTypeOK
  <2>1. queue \in Seq(Request) /\ Len(queue) <= QUEUE
    BY SizeAssumption DEF SyncInit
  <2>2. picker \in Pickers
    BY DEF SyncInit, Pickers
  <2> QED BY <1>1, <1>2, <1>3, <2>1, <2>2, DatabaseAssumption DEF SyncInit, SyncTypeOK, DbOK
<1>5. OneClaim
  BY DEF SyncInit, OneClaim
<1>6. LinkStands /\ FoundStands
  BY <1>3 DEF LinkStands, FoundStands, Deciding
<1> QED BY <1>4, <1>5, <1>6 DEF SyncInv

LEMMA StepKeeps ==
  ASSUME SyncInv, [SyncNext]_syncVars
  PROVE  SyncInv'
<1>1. CASE SyncTask
  BY <1>1, CalmSteps, TakeLinkKeeps, PatchLinkKeeps, ResolveKeeps, FindsKeep, ActKeeps,
     ArchiveKeeps, ReuseKeeps, CreateKeeps DEF SyncTask
<1>2. CASE RefreshPicker \/ ArmStore \/ PickerAges \/ EndOta
  BY <1>2, PickerKeeps, WindowKeeps
<1>3. CASE Others
  <2>1. CASE \E req \in Request : EnqueueSync(req)
    BY <2>1, QueueKeeps
  <2>2. CASE \E s \in Spools : ArmStamp(s)
    BY <2>2, WindowKeeps
  <2>3. CASE \E s \in Spools : OtherUserArchives(s)
    BY <2>3, OtherUserArchivesKeeps
  <2>4. CASE Expire
    BY <2>4, CalmSteps
  <2>5. ASSUME NEW uid \in Uids, InvalidateAfterWrite(uid)
        PROVE  SyncInv'
    BY <2>5, InvalidateAfterWriteKeeps
  <2>6. ASSUME NEW uid \in Uids, NEW new \in Spools, NEW old \in Spools \cup {0},
               WebLink(uid, new, old)
        PROVE  SyncInv'
    BY <2>6, WebLinkKeeps
  <2>7. ASSUME NEW uid \in Uids, NEW g \in Grams \ {0}, Deduct(uid, g)
        PROVE  SyncInv'
    BY <2>7, DeductKeeps
  <2>8. ASSUME NEW uid \in Uids, NEW kind \in Kinds, NEW g \in Grams,
               NEW how \in {"register", "enrich", "declined"}, WebSave(uid, kind, g, how)
        PROVE  SyncInv'
    BY <2>8, WebSaveKeeps
  <2>9. CASE ServePicker \/ StartOta
    BY <2>9, PickerKeeps, WindowKeeps
  <2> QED BY <1>3, <2>1, <2>2, <2>3, <2>4, <2>5, <2>6, <2>7, <2>8, <2>9 DEF Others
<1>4. CASE UNCHANGED syncVars
  BY <1>4, StandingKeeps
<1> QED BY <1>1, <1>2, <1>3, <1>4 DEF SyncNext

-----------------------------------------------------------------------------
(* The theorems *)

\* Every reachable state satisfies the inductive invariant.
THEOREM SyncInvariant == SyncSpec => []SyncInv
<1>1. SyncInit => SyncInv
  BY InitInv
<1>2. SyncInv /\ [SyncNext]_syncVars => SyncInv'
  BY StepKeeps
<1> QED BY <1>1, <1>2, PTL DEF SyncSpec

\* Types: an entry of either cache is never out of its array, however often it wraps around, a
\* tag never has two ids in the cache, and no deduction takes a weight below zero.
THEOREM SyncTypes == SyncSpec => []SyncTypeOK
<1>1. SyncInv => SyncTypeOK
  BY DEF SyncInv
<1> QED BY <1>1, SyncInvariant, PTL

\* Whatever is answered, lost or refused, and whatever users do meanwhile, two active spools
\* bear one tag only where a link's clean-up left the tag on another.
THEOREM OneSpoolPerTagHolds == SyncSpec => []OneSpoolPerTag
<1>1. ASSUME SyncInv
      PROVE  OneSpoolPerTag
  <2> SUFFICES ASSUME NEW uid \in Uids \ split
               PROVE  Cardinality(Claims(uid)) <= 1
    BY DEF OneSpoolPerTag
  <2>1. CASE Claims(uid) = {}
    BY <2>1, FS_EmptySet
  <2>2. CASE Claims(uid) # {}
    <3>1. PICK s \in Claims(uid) : Claims(uid) = {s}
      BY <1>1, <2>2 DEF SyncInv, OneClaim
    <3> QED BY <3>1, FS_Singleton
  <2> QED BY <2>1, <2>2
<1> QED BY <1>1, SyncInvariant, PTL

\* The sync task adds an entry of a key to the catalog only when it has none: the lookup that
\* fails stops it, and the reply that is lost leaves the entry to be found the next time.
THEOREM SyncMintsNoTwinHolds == SyncSpec => SyncMintsNoTwin
<1> DEFINE Twinless == \A e \in catalog' \ catalog : visits' = visits => Matches(catalog, e[1], e[2]) = {}
<1>1. ASSUME SyncInv, [SyncNext]_syncVars
      PROVE  Twinless
  <2>1. CASE FindVendor
    <3>1. PICK v \in FindOrCreate(catalog, Maker, 0) : catalog' = v.catalog
      BY <2>1 DEF FindVendor
    <3> QED BY <3>1, CatalogGrows
  <2>2. CASE FindFilament
    <3>1. PICK f \in FindOrCreate(catalog, sync.req.kind, sync.vendor) : catalog' = f.catalog
      BY <2>2 DEF FindFilament
    <3> QED BY <3>1, CatalogGrows
  <2>3. CASE \E uid \in Uids, kind \in Kinds, g \in Grams, how \in {"register", "enrich", "declined"} :
               WebSave(uid, kind, g, how)
    <3>1. visits' # visits
      BY <1>1, <2>3, Visited DEF WebSave, SyncInv, SyncTypeOK
    <3> QED BY <3>1
  <2>4. CASE /\ ~FindVendor /\ ~FindFilament
             /\ ~\E uid \in Uids, kind \in Kinds, g \in Grams,
                    how \in {"register", "enrich", "declined"} : WebSave(uid, kind, g, how)
    <3>1. catalog' = catalog
      BY <1>1, <2>4 DEF SyncNext, SyncTask, Others, Receive, StandDown, Begin, TakeLink, PatchLink,
         Resolve, Details, Act, Archive, Reuse, CreateSpool, Answer, RefreshPicker, ArmStore,
         PickerAges, EndOta, EnqueueSync, ArmStamp, OtherUserArchives, Expire, InvalidateAfterWrite,
         WebLink, Deduct, ServePicker, StartOta, syncVars, db
    <3> QED BY <3>1
  <2> QED BY <2>1, <2>2, <2>3, <2>4
<1>2. Twinless <=> (\A e \in catalog' \ catalog : visits' = visits => Matches(catalog, e[1], e[2]) = {})
  OBVIOUS
<1> HIDE DEF Twinless
<1>3. [][SyncNext]_syncVars /\ []SyncInv => [][Twinless]_syncVars
  BY <1>1, PTL
<1> QED BY <1>2, <1>3, SyncInvariant, PTL DEF SyncSpec, SyncMintsNoTwin

\* A spool whose last link is the picker's bears its stamp.
Stamp(s) == s.by = "picker" => s.pin
Stamped == \A s \in Spools : Stamp(spool[s])

\* What a spool keeps but for archiving: it stays active, and its stamp goes with its picker's link.
Keeps(t) == /\ spool[t].st = "active" => spool'[t].st = "active"
            /\ Stamp(spool[t]) => Stamp(spool'[t])

\* The steps that archive no spool.
LEMMA StateKept ==
  ASSUME SyncInv, [SyncNext]_syncVars,
         ~Archive, ~\E s \in Spools : OtherUserArchives(s)
  PROVE  \A t \in Spools : Keeps(t)
<1>0. spool \in [Spools -> Spool]
  BY DEF SyncInv, SyncTypeOK, DbOK
<1>1. CASE PatchLink
  <2>1. sync.link \in Spools
    BY <1>1 DEF PatchLink, SyncInv, LinkStands
  <2>2. PICK r \in Replies, gone \in SUBSET Spools :
          Write(r, Linked(sync.link, sync.req.uid, gone))
    BY <1>1 DEF PatchLink, Claims
  <2>3. \A t \in Spools :
          \/ spool'[t] = spool[t]
          \/ spool'[t] = [spool[t] EXCEPT !.nfc = sync.req.uid, !.pin = TRUE, !.by = "picker"]
          \/ spool'[t] = Linkless(spool[t])
    BY <2>2 DEF Write, Linked
  <2>4. ASSUME NEW t \in Spools
        PROVE  Keeps(t)
    <3>1. spool[t] \in Spool
      BY <1>0
    <3>2. \/ spool'[t] = spool[t]
          \/ spool'[t] = [spool[t] EXCEPT !.nfc = sync.req.uid, !.pin = TRUE, !.by = "picker"]
          \/ spool'[t] = Linkless(spool[t])
      BY <2>3
    <3> QED BY <3>1, <3>2 DEF Spool, Linkless, Keeps, Stamp
  <2> QED BY <2>4
<1>2. CASE Act
  <2>1. CASE UNCHANGED spool
    BY <2>1 DEF Keeps
  <2>2. CASE UpdateSpool(sync.found, IF Verdict = "weightOnly" THEN NoFil ELSE sync.fil)
             /\ Verdict \in {"keep", "weightOnly"}
    <3>1. /\ sync.found \in Spools
          /\ (IF Verdict = "weightOnly" THEN NoFil ELSE sync.fil) \in Fils \cup {NoFil}
      BY <1>2, <2>2, Verdicts, AtWork DEF Act, Deciding
    <3> QED BY <1>2, <2>2, <3>1, UpdateEnds DEF Act, Keeps, Stamp
  <2> QED BY <1>2, <2>1, <2>2 DEF Act
<1>3. CASE Reuse
  <2>1. sync.found \in Spools /\ sync.fil \in Fils \cup {NoFil}
    BY <1>3, AtWork DEF Reuse, Deciding, SyncInv, FoundStands
  <2> QED BY <1>3, <2>1, UpdateEnds DEF Reuse, Keeps, Stamp
<1>4. CASE CreateSpool
  BY <1>4, CreateEnds DEF Keeps, Stamp
<1>5. ASSUME NEW uid \in Uids, NEW new \in Spools, NEW old \in Spools \cup {0}, WebLink(uid, new, old)
      PROVE  \A t \in Spools : Keeps(t)
  <2>1. \/ spool' = spool
        \/ \E gone : spool' = [t \in Spools |->
                   IF t = new THEN [spool[t] EXCEPT !.nfc = uid, !.pin = FALSE, !.by = "page"]
                   ELSE IF t \in gone THEN Linkless(spool[t])
                   ELSE spool[t]]
    BY <1>5 DEF WebLink
  <2>2. \A t \in Spools : Keeps(t)
    <3> TAKE t \in Spools
    <3>1. \/ spool'[t] = spool[t]
          \/ spool'[t] = [spool[t] EXCEPT !.nfc = uid, !.pin = FALSE, !.by = "page"]
          \/ spool'[t] = Linkless(spool[t])
      BY <2>1
    <3>2. spool[t] \in Spool
      BY <1>0
    <3> QED BY <3>1, <3>2 DEF Spool, Linkless, Keeps, Stamp
  <2> QED BY <2>2
<1>6. ASSUME NEW uid \in Uids, NEW g \in Grams, Deduct(uid, g)
      PROVE  \A t \in Spools : Keeps(t)
  BY <1>6, SizeAssumption, DeductWeighs DEF Keeps, Stamp
<1>7. ASSUME NEW uid \in Uids, NEW kind \in Kinds, NEW g \in Grams, NEW how, WebSave(uid, kind, g, how)
      PROVE  \A t \in Spools : Keeps(t)
  <2>1. PICK r, f :
          /\ FoundByUid(uid) = 0 /\ ~CanList => r = "refused"
          /\ Write(r, Saved(uid, kind, f, g, how))
    <3>1. PICK v \in Chosen(catalog, Maker, 0, how) :
            \E f \in Chosen(v.catalog, kind, VendorNo(v.id), how), r \in Replies :
            /\ f.id = NoFil \/ (FoundByUid(uid) = 0 /\ ~CanList) => r = "refused"
            /\ Write(r, Saved(uid, kind, f.id, g, how))
      BY <1>7 DEF WebSave
    <3> QED BY <3>1
  <2>2. CASE r = "refused"
    BY <2>1, <2>2 DEF Write, Keeps
  <2>3. CASE r # "refused" /\ FoundByUid(uid) = 0
    <3>1. PICK n \in Spools : n = NextId /\ spool[n].st = "absent"
      BY <2>1, <2>3, NewId
    <3>2. spool' = [spool EXCEPT ![n] = [st |-> "active", nfc |-> uid, pin |-> FALSE, by |-> "nobody",
                                         fil |-> f, grams |-> IF g > 0 THEN g ELSE FULL]]
      BY <2>1, <2>3, <3>1 DEF Write, Saved, NewSpool
    <3>3. \A t \in Spools : spool'[t] = spool[t] \/ (spool[t].st = "absent" /\ spool'[t].by = "nobody")
      BY <1>0, <3>1, <3>2
    <3> QED BY <3>3 DEF Keeps, Stamp
  <2>4. CASE r # "refused" /\ FoundByUid(uid) # 0
    <3>1. PICK s, a, w : spool' = [spool EXCEPT ![s].fil = a, ![s].grams = w]
      BY <2>1, <2>4 DEF Write, Saved
    <3>2. ASSUME NEW t \in Spools
          PROVE  Keeps(t)
      <4>1. spool[t] \in Spool
        BY <1>0
      <4>2. spool'[t] = spool[t] \/ spool'[t] = [spool[t] EXCEPT !.fil = a, !.grams = w]
        BY <1>0, <3>1
      <4> QED BY <4>1, <4>2 DEF Spool, Keeps, Stamp
    <3> QED BY <3>2
  <2> QED BY <2>2, <2>3, <2>4
<1>8. CASE UNCHANGED spool
  BY <1>8 DEF Keeps
<1>9. CASE spool' # spool
  <2>1. \/ PatchLink \/ Act \/ Reuse \/ CreateSpool
        \/ \E uid \in Uids :
             \/ \E new \in Spools, old \in Spools \cup {0} : WebLink(uid, new, old)
             \/ \E g \in Grams \ {0} : Deduct(uid, g)
             \/ \E kind \in Kinds, g \in Grams, how \in {"register", "enrich", "declined"} :
                  WebSave(uid, kind, g, how)
    BY <1>9 DEF SyncNext, SyncTask, Others, Receive, StandDown, Begin, TakeLink, Resolve, Details,
       FindVendor, FindFilament, Answer, RefreshPicker, ArmStore, PickerAges, EndOta, EnqueueSync,
       ArmStamp, Expire, InvalidateAfterWrite, ServePicker, StartOta, syncVars, db
  <2> QED BY <1>1, <1>2, <1>3, <1>4, <1>5, <1>6, <1>7, <2>1
<1> QED BY <1>8, <1>9

\* An archived spool keeps its links, whoever archived it.
LEMMA ArchivedStays ==
  ASSUME SyncInv, Archive \/ \E s \in Spools : OtherUserArchives(s)
  PROVE  \A t \in Spools : spool'[t].pin = spool[t].pin /\ spool'[t].by = spool[t].by
<1>1. spool \in [Spools -> Spool]
  BY DEF SyncInv, SyncTypeOK, DbOK
<1>2. PICK s : spool' = spool \/ spool' = [spool EXCEPT ![s].st = "archived"]
  BY DEF Archive, OtherUserArchives, Write
<1>3. ASSUME NEW t \in Spools
      PROVE  spool'[t].pin = spool[t].pin /\ spool'[t].by = spool[t].by
  <2>1. spool[t] \in Spool
    BY <1>1
  <2>2. spool'[t] = spool[t] \/ spool'[t] = [spool[t] EXCEPT !.st = "archived"]
    BY <1>1, <1>2
  <2> QED BY <2>1, <2>2 DEF Spool
<1> QED BY <1>3

\* No step takes the stamp away and leaves the link: links of the page and new spools, which have
\* no stamp, are not the picker's.
LEMMA StampedStays ==
  ASSUME SyncInv, Stamped, [SyncNext]_syncVars
  PROVE  Stamped'
<1>1. CASE Archive \/ \E s \in Spools : OtherUserArchives(s)
  BY <1>1, ArchivedStays DEF Stamped, Stamp
<1>2. CASE ~(Archive \/ \E s \in Spools : OtherUserArchives(s))
  BY <1>2, StateKept DEF Stamped, Stamp, Keeps
<1> QED BY <1>1, <1>2

\* What the user picked for its tag is archived by users alone: the sync task archives the spool
\* it found without the stamp, which only a new link takes away, and no link can be set on the
\* spool while the task holds the mutex.
THEOREM PickedNeverArchivedHolds == SyncSpec => PickedNeverArchived
<1> DEFINE Kept == \A s \in Spools : spool[s].by = "picker" /\ Archives(s) => visits' # visits
<1>1. ASSUME SyncInv, Stamped, [SyncNext]_syncVars
      PROVE  Kept
  <2>1. CASE Archive
    <3>1. sync.found \in Spools /\ ~spool[sync.found].pin
      BY <1>1, <2>1 DEF Archive, SyncInv, FoundStands, Deciding
    <3>2. spool[sync.found].by # "picker"
      BY <1>1, <3>1 DEF Stamped, Stamp
    <3>3. spool \in [Spools -> Spool]
      BY <1>1 DEF SyncInv, SyncTypeOK, DbOK
    <3>4. \A t \in Spools : t # sync.found => spool'[t] = spool[t]
      BY <2>1, <3>1, <3>3 DEF Archive, Write
    <3> QED BY <3>2, <3>4 DEF Archives
  <2>2. CASE \E s \in Spools : OtherUserArchives(s)
    <3>1. visits' # visits
      BY <1>1, <2>2, Visited DEF OtherUserArchives, SyncInv, SyncTypeOK
    <3> QED BY <3>1
  <2>3. CASE ~Archive /\ ~\E s \in Spools : OtherUserArchives(s)
    BY <1>1, <2>3, StateKept DEF Archives, Keeps
  <2> QED BY <2>1, <2>2, <2>3
<1>2. Kept <=> (\A s \in Spools : spool[s].by = "picker" /\ Archives(s) => visits' # visits)
  OBVIOUS
<1>3. SyncInit => Stamped
  BY DatabaseAssumption DEF SyncInit, Stamped, Stamp, Unlisted
<1>4. SyncInv /\ Stamped /\ [SyncNext]_syncVars => Stamped'
  BY StampedStays
<1> HIDE DEF Kept
<1>5. [][SyncNext]_syncVars /\ []SyncInv /\ []Stamped => [][Kept]_syncVars
  BY <1>1, PTL
<1>6. SyncSpec => []Stamped
  BY <1>3, <1>4, SyncInvariant, PTL DEF SyncSpec
<1> QED BY <1>2, <1>5, <1>6, SyncInvariant, PTL DEF SyncSpec, PickedNeverArchived

\* The weight that a sync writes goes to the spool it found, and that of a deduction to the one
\* the tag is resolved to: never to one that another tag claims.
THEOREM WeightToItsSpoolHolds == SyncSpec => WeightToItsSpool
<1> DEFINE Rightly ==
      \A s \in Spools : spool'[s].grams # spool[s].grams =>
        /\ sync' # sync => OwnSpool(s, sync.req.uid)
        /\ \A uid \in Uids, g \in Grams \ {0} : Deduct(uid, g) => OwnSpool(s, uid)
<1>1. ASSUME SyncInv, [SyncNext]_syncVars
      PROVE  Rightly
  <2> SUFFICES ASSUME NEW s \in Spools, spool'[s].grams # spool[s].grams
               PROVE  /\ sync' # sync => OwnSpool(s, sync.req.uid)
                      /\ \A uid \in Uids, g \in Grams \ {0} : Deduct(uid, g) => OwnSpool(s, uid)
    OBVIOUS
  <2>1. ASSUME NEW uid \in Uids, NEW g \in Grams \ {0}, Deduct(uid, g)
        PROVE  OwnSpool(s, uid)
    BY <1>1, <2>1, SizeAssumption, DeductWeighs
  <2>2. ASSUME sync' # sync
        PROVE  OwnSpool(s, sync.req.uid)
    <3>0. spool \in [Spools -> Spool] /\ spool' # spool
      BY <1>1 DEF SyncInv, SyncTypeOK, DbOK
    <3>1. CASE PatchLink
      <4>1. sync.link \in Spools
        BY <1>1, <3>1 DEF PatchLink, SyncInv, LinkStands
      <4>2. PICK r \in Replies, gone \in SUBSET Spools :
              Write(r, Linked(sync.link, sync.req.uid, gone))
        BY <3>1 DEF PatchLink, Claims
      <4>3. \/ spool'[s] = spool[s]
            \/ spool'[s] = [spool[s] EXCEPT !.nfc = sync.req.uid, !.pin = TRUE, !.by = "picker"]
            \/ spool'[s] = Linkless(spool[s])
        BY <4>2 DEF Write, Linked
      <4>4. spool'[s].grams = spool[s].grams
        BY <3>0, <4>3 DEF Spool, Linkless
      <4> QED BY <4>4
    <3>2. CASE Act \/ Reuse
      <4>1. sync.pc \in {"act", "reuse"} /\ sync.pc \in Deciding
        BY <3>2 DEF Act, Reuse, Deciding
      <4>2. PICK fil \in Fils \cup {NoFil} : UpdateSpool(sync.found, fil)
        BY <1>1, <3>0, <3>2, <4>1, AtWork DEF Act, Reuse
      <4>3. sync.found \in Spools
        BY <1>1, <3>0, <3>2, <4>1, Verdicts DEF Act, Reuse, SyncInv, FoundStands
      <4>4. s = sync.found
        BY <1>1, <4>1, <4>2, <4>3, UpdateEnds
      <4> QED BY <1>1, <4>1, <4>3, <4>4, AtWork
    <3>3. CASE Archive
      <4>1. sync.found \in Spools
        BY <1>1, <3>3 DEF Archive, SyncInv, FoundStands, Deciding
      <4>2. spool'[s].grams = spool[s].grams
        BY <3>0, <3>3, <4>1 DEF Archive, Write, Spool
      <4> QED BY <4>2
    <3>4. CASE CreateSpool
      <4>1. spool[s].st = "absent"
        BY <1>1, <3>4, CreateEnds
      <4> QED BY <4>1 DEF OwnSpool
    <3>5. PatchLink \/ Act \/ Reuse \/ Archive \/ CreateSpool
      BY <1>1, <2>2, <3>0 DEF SyncNext, SyncTask, Others, Receive, StandDown, Begin, TakeLink,
         Resolve, Details, FindVendor, FindFilament, Answer, RefreshPicker, ArmStore, PickerAges,
         EndOta, EnqueueSync, ArmStamp, OtherUserArchives, Expire, InvalidateAfterWrite, WebLink,
         WebSave, Deduct, ServePicker, StartOta, syncVars, db
    <3> QED BY <3>1, <3>2, <3>3, <3>4, <3>5
  <2> QED BY <2>1, <2>2
<1>2. Rightly <=> (\A s \in Spools : spool'[s].grams # spool[s].grams =>
        /\ sync' # sync => OwnSpool(s, sync.req.uid)
        /\ \A uid \in Uids, g \in Grams \ {0} : Deduct(uid, g) => OwnSpool(s, uid))
  OBVIOUS
<1> HIDE DEF Rightly
<1>3. [][SyncNext]_syncVars /\ []SyncInv => [][Rightly]_syncVars
  BY <1>1, PTL
<1> QED BY <1>2, <1>3, SyncInvariant, PTL DEF SyncSpec, WeightToItsSpool
=============================================================================
