------------------------------ MODULE TagWrites ------------------------------
(***************************************************************************)
(* How a queued write becomes the record on a tag: NFCManager's executors  *)
(* of write requests, and the pictures of a tag they build on.  An         *)
(* OpenPrintTag is rewritten from the copy in currentSpool, a region or    *)
(* the whole image at a time; an OpenTag3D record is patched from the raw  *)
(* baseline kept when it was read; TigerTag and OpenSpool records are      *)
(* written whole.  Every write is bound to a UID; tags come and go.        *)
(*                                                                         *)
(* Abstracted: a region holds a set of marks, its tag's own and one for    *)
(* each request whose values it carries.  When a tag is read again is in   *)
(* ScanLoop; here it may be at any detection.  The OpenPrintTag commands   *)
(* carry a UID; the PN5180 re-activates an ISO14443 tag without one, so    *)
(* pages go to whichever such tag is there.  A Bambu tag is only read.     *)
(***************************************************************************)
EXTENDS Naturals, Sequences

CONSTANTS
  OptTags,      \* UIDs of ISO15693 tags
  NtagTags,     \* UIDs of ISO14443 tags written page by page
  BambuTags,    \* UIDs of Bambu tags (MIFARE Classic)
  Similar,      \* pairs of UIDs the cooldown takes for one
  Delivered,    \* what kinds of record the tags may come with
  NoTag, Torn,
  MaxRequests   \* bound: requests posted

Tags == OptTags \cup NtagTags \cup BambuTags
Ids == 1..MaxRequests
Marks == Tags \cup Ids \cup {Torn}
Forms == {"blank", "opt", "ot3d", "other"}
Images == [form : Forms, main : SUBSET Marks, aux : SUBSET Marks]
NoImage == [form |-> "none", main |-> {}, aux |-> {}]
NoBase == [uid |-> NoTag, img |-> NoImage]

ASSUME TagsAssumption ==
  /\ NoTag \notin Tags
  /\ OptTags \cap NtagTags = {} /\ BambuTags \cap (OptTags \cup NtagTags) = {}
  /\ Similar \subseteq Tags \X Tags
  /\ Delivered \subseteq [Tags -> Forms]
ASSUME BoundsAssumption == MaxRequests \in Nat

VARIABLES
  tag,       \* the tag physically on the reader
  held,      \* what each tag holds
  selected,  \* selectedUidHex_ while its cycle lasts; NoTag between cycles, where none reads it
  spool,     \* currentSpool: uid, present, tag_data_valid, tag_data
  cache,     \* readCache_ of the ISO15693 reader, likewise; NoImage: not valid
  base,      \* openTag3DRawBaseline_ and the UID it was read from
  mime,      \* openTag3DMimeSeen_
  patch,     \* the request openTag3DPatch_ is staged for, 0: none
  fields,    \* the request atomicWriteFields_ were filled for, 0: not pending
  posting,   \* a WRITE_ATOMIC between its sidecar and the queue
  queue,     \* writeQueue
  due,       \* history: the marks a tag should hold
  doubts,    \* history: why a tag may hold or be taken for something else
  posted     \* requests posted

readerVars == <<tag, selected>>
pictureVars == <<spool, cache, base, mime>>
requestVars == <<patch, fields, posting, queue, posted>>
histVars == <<due, doubts>>
tagVars == <<readerVars, held, pictureVars, requestVars, histVars>>

\* "whole": FORMAT_NEW and WRITE_RAW_TAG; "pages": TigerTag and OpenSpool.  Of a Bambu tag
\* the same is asked as of an OpenPrintTag.
Kinds(u) == IF u \in NtagTags THEN {"patch", "pages"} ELSE {"main", "aux", "atomic", "whole"}
Requests == UNION {[id : Ids, uid : {u}, kind : Kinds(u)] : u \in Tags}

\* Why a record or its picture may be wrong: a write of it failed; its check read old pages;
\* a picture was filed under its UID; its atomic fields were of another request; a swap put
\* pages on it or kept them from it; it was not read when it was placed.
Reasons == {"failed", "patched", "stale", "misfiled", "crossed", "swapped", "unread"}
Doubt(d, u, why) == [d EXCEPT ![u] = @ \cup why]
Contents(img) == img.main \cup img.aux
Original(t, form) ==
  [form |-> form, main |-> IF form = "blank" THEN {} ELSE {t}, aux |-> IF form = "opt" THEN {t} ELSE {}]

TagInit ==
  /\ tag = NoTag /\ selected = NoTag
  /\ \E forms \in Delivered : held = [t \in Tags |-> Original(t, forms[t])]
  /\ spool = [uid |-> NoTag, present |-> FALSE, valid |-> FALSE, img |-> NoImage]
  /\ cache = NoImage /\ base = NoBase /\ mime = FALSE
  /\ patch = 0 /\ fields = 0 /\ posting = <<>> /\ queue = <<>>
  /\ due = [t \in Tags |-> Contents(held[t])] /\ doubts = [t \in Tags |-> {}]
  /\ posted = 0

-----------------------------------------------------------------------------
(* Requests, from the web server and the application *)

PostRest == UNCHANGED <<readerVars, held, pictureVars, histVars>>
NewRequest(u, k) == [id |-> posted + 1, uid |-> u, kind |-> k]
Posting == posted < MaxRequests /\ posting = <<>> /\ posted' = posted + 1

\* enqueueWrite(), and enqueueRawWrite(), whose payload is the request's own.
PostRequest ==
  /\ Posting
  /\ \E u \in Tags : \E k \in Kinds(u) \ {"atomic", "patch"} : queue' = Append(queue, NewRequest(u, k))
  /\ UNCHANGED <<patch, fields, posting>>
  /\ PostRest

\* enqueueOpenTag3DPatch()
PostPatch ==
  /\ Posting /\ patch = 0
  /\ \E u \in NtagTags : queue' = Append(queue, NewRequest(u, "patch"))
  /\ patch' = posted + 1
  /\ UNCHANGED <<fields, posting>>
  /\ PostRest

\* handleApiWriteTag(): setAtomicWriteFields(), then enqueueWrite().
FillFields ==
  /\ Posting
  /\ \E u \in OptTags \cup BambuTags : posting' = <<NewRequest(u, "atomic")>>
  /\ fields' = posted + 1
  /\ UNCHANGED <<patch, queue>>
  /\ PostRest

PostAtomic ==
  /\ posting # <<>>
  /\ queue' = queue \o posting /\ posting' = <<>>
  /\ UNCHANGED <<patch, fields, posted>>
  /\ PostRest

-----------------------------------------------------------------------------
(* The scan cycle: which tag is selected, and what is known of it *)

MoveTag ==
  /\ tag' \in (Tags \cup {NoTag}) \ {tag}
  /\ UNCHANGED <<selected, held, pictureVars, requestVars, histVars>>

\* Mutant: the copy stays valid when a tag yields none.
KeepsCopy == [spool EXCEPT !.uid = tag, !.present = TRUE]

\* A tag that yields no OpenPrintTag record: tag_data is left as it was.
NoCopy == [spool EXCEPT !.uid = tag, !.present = TRUE, !.valid = FALSE]

\* The tag was read: what is known of it is right again.
Known == /\ due' = [due EXCEPT ![tag] = Contents(held[tag])]
         /\ doubts' = [doubts EXCEPT ![tag] = {}]

\* readAndParseTag(); its pages stay cached.  A torn record may parse or not.
ReadOpt ==
  /\ tag \in OptTags
  /\ cache' = held[tag]
  /\ \/ /\ held[tag].form = "opt"
        /\ spool' = [uid |-> tag, present |-> TRUE, valid |-> TRUE, img |-> held[tag]]
        /\ Known
     \/ /\ held[tag].form # "opt" \/ Torn \in Contents(held[tag])
        /\ spool' = NoCopy
        /\ UNCHANGED histVars
  /\ base' = NoBase /\ mime' = FALSE

\* readAndProcessISO14443Tag(): an OpenTag3D record becomes the baseline when it is complete.
ReadNtag ==
  /\ tag \in NtagTags
  /\ spool' = NoCopy
  /\ LET img == held[tag] IN
       /\ mime' = (img.form = "ot3d")
       /\ \/ img.form = "ot3d" /\ base' = [uid |-> tag, img |-> img]
          \/ (img.form # "ot3d" \/ Torn \in img.main) /\ base' = NoBase
  /\ Known
  /\ UNCHANGED cache

\* handleNewTag(), a Bambu tag that was read: tag_data_valid is set, and tag_data is left
\* as it was, the record of a tag before.
ReadBambu ==
  /\ tag \in BambuTags
  /\ spool' = [spool EXCEPT !.uid = tag, !.present = TRUE, !.valid = TRUE]
  /\ base' = NoBase /\ mime' = FALSE
  /\ UNCHANGED <<cache, histVars>>

\* The read fails, or the tag is gone by then; an NTAG counts as one without a record.
ReadNothing ==
  /\ spool' = NoCopy
  /\ base' = NoBase /\ mime' = FALSE
  /\ doubts' = IF tag \in NtagTags THEN Doubt(doubts, tag, {"unread"}) ELSE doubts
  /\ UNCHANGED <<cache, due>>

\* The cooldown and the duplicate test skip a tag that is, or looks like, the one read last;
\* an open batch skips its own (in the instance every two tags are similar).
Skip ==
  /\ spool.uid # NoTag /\ <<tag, spool.uid>> \in Similar
  /\ doubts' = IF tag \in NtagTags /\ spool.uid # tag THEN Doubt(doubts, tag, {"unread"}) ELSE doubts
  /\ UNCHANGED <<pictureVars, due>>

\* A cycle finds a tag, and reads it or not.
Detect ==
  /\ selected = NoTag /\ tag # NoTag
  /\ selected' = tag
  /\ Skip \/ ReadOpt \/ ReadNtag \/ ReadBambu \/ ReadNothing
  /\ UNCHANGED <<tag, held, requestVars>>

\* handleTagAbsent()
Absent ==
  /\ selected = NoTag /\ tag = NoTag
  /\ spool' = [spool EXCEPT !.present = FALSE]
  /\ base' = NoBase /\ mime' = FALSE
  /\ UNCHANGED <<readerVars, held, cache, requestVars, histVars>>

-----------------------------------------------------------------------------
(* How a request ends *)

Extends(r) == r.kind \in {"main", "aux", "atomic"} \/ (r.kind = "patch" /\ held[r.uid].form = "ot3d")

\* Reported as done: the tag is to hold the request, on top of what it held or alone.
Done(r, why) ==
  /\ due' = [due EXCEPT ![r.uid] = (IF Extends(r) THEN @ ELSE {}) \cup {r.id}]
  /\ doubts' = why

\* Reported as failed after pages may have been written.
Failed(r, why) == doubts' = Doubt(doubts, r.uid, why) /\ UNCHANGED due

\* A write of img over old that breaks off leaves a torn region behind what was written.
Cut(old, img) == {old, [old EXCEPT !.main = {Torn}], [img EXCEPT !.aux = {Torn}]}

-----------------------------------------------------------------------------
(* OpenPrintTag *)

\* Mutant: the copy is not compared with the UID the request is bound to (before #276).
UpdateSelected(r) == r.uid = selected /\ spool.valid

\* fieldUpdateWriteAllowed()
UpdateAllowed(r) == r.uid = selected /\ spool.valid /\ spool.uid = r.uid

\* The commands of a write are answered by the OpenPrintTag whose UID they carry.
Answers(r) == tag = r.uid /\ r.uid \in OptTags

\* The re-read asks the page cache, which writes do not touch.
ReadBack(img) == IF cache = NoImage THEN img ELSE cache

\* What a write of the whole image does to the doubts.
WholeDoubts(r) ==
  LET filed == IF spool.uid # r.uid /\ spool.uid \in Tags THEN Doubt(doubts, spool.uid, {"misfiled"}) ELSE doubts
      crossed == IF r.kind = "atomic" /\ fields # r.id THEN Doubt(filed, r.uid, {"crossed"}) ELSE filed
  IN  IF cache = NoImage THEN crossed ELSE Doubt(crossed, r.uid, {"stale"})

Commit(img) == spool' = [spool EXCEPT !.valid = TRUE, !.img = img]

\* Written and read again.  FORMAT_NEW and raw writes trust what they wrote when nothing
\* can be read; a re-read that does not parse, and a busy tagMutex, are failures.
WholeLands(r, img) ==
  /\ Answers(r)
  /\ held' = [held EXCEPT ![r.uid] = img]
  /\ \/ /\ ReadBack(img).form = "opt"
        /\ Commit(ReadBack(img))
        /\ Done(r, WholeDoubts(r))
     \/ /\ cache = NoImage /\ r.kind = "whole"
        /\ Commit(img)
        /\ Done(r, WholeDoubts(r))
     \/ /\ UNCHANGED spool
        /\ Failed(r, {"failed"})

\* The tag stops answering; what was written stays.
WholeFails(r, img) ==
  /\ \E cut \in Cut(held[r.uid], img) : held' = [held EXCEPT ![r.uid] = IF Answers(r) THEN cut ELSE @]
  /\ UNCHANGED spool
  /\ Failed(r, {"failed"})

Whole(r, img) == WholeLands(r, img) \/ WholeFails(r, img)

\* FORMAT_NEW and WRITE_RAW_TAG ask for the selected tag only.
Replace(r) ==
  /\ r.kind = "whole" /\ r.uid = selected
  /\ Whole(r, [form |-> "opt", main |-> {r.id}, aux |-> {r.id}])
  /\ UNCHANGED <<base, mime, patch, fields>>

\* executeAtomicWrite() takes the sidecar, whoever filled it, and rebuilds the image.
Atomic(r) ==
  /\ r.kind = "atomic" /\ fields # 0 /\ UpdateAllowed(r)
  /\ Whole(r, [spool.img EXCEPT !.main = @ \cup {fields}, !.aux = @ \cup {fields}])
  /\ fields' = 0
  /\ UNCHANGED <<base, mime, patch>>

\* A field update writes its region, and the whole image if that fails.
Update(r) ==
  /\ r.kind \in {"main", "aux"} /\ UpdateAllowed(r)
  /\ LET img == [spool.img EXCEPT ![r.kind] = @ \cup {r.id}] IN
       \/ /\ Answers(r)
          /\ held' = [held EXCEPT ![r.uid][r.kind] = img[r.kind]]
          /\ \/ Commit(img) /\ Done(r, doubts)
             \/ UNCHANGED spool /\ Failed(r, {"failed"})      \* tagMutex is busy
       \/ Whole(r, img)
  /\ UNCHANGED <<base, mime, patch, fields>>

-----------------------------------------------------------------------------
(* NTAGs *)

\* The pages of r go to the NTAG that is there, and the check reads that one.  A success
\* leaves the spool to be read again (forceRescan).
Pages(r, img, why) ==
  LET there == IF tag \in NtagTags THEN tag ELSE r.uid
      swapped == IF tag # r.uid THEN Doubt(doubts, there, {"swapped"}) ELSE doubts
  IN  \/ /\ tag \in NtagTags
         /\ held' = [held EXCEPT ![tag] = img]
         /\ spool' = [spool EXCEPT !.present = FALSE]
         /\ Done(r, IF tag = r.uid THEN doubts ELSE Doubt(swapped, r.uid, {"swapped"}))
      \/ /\ \E cut \in Cut(held[there], img) :
              held' = [held EXCEPT ![there] = IF tag = there THEN [cut EXCEPT !.aux = {}] ELSE @]
         /\ doubts' = Doubt(swapped, r.uid, {why})
         /\ UNCHANGED <<spool, due>>

\* executeTigerTagWrite() and executeOpenSpoolWrite()
WritePages(r) ==
  /\ r.kind = "pages" /\ r.uid = selected
  /\ Pages(r, [form |-> "other", main |-> {r.id}, aux |-> {}], "failed")
  /\ UNCHANGED <<base, mime, patch, fields>>

HasBase(r) == base # NoBase /\ base.uid = r.uid
PatchAllowed(r) == patch = r.id /\ r.uid = selected /\ (mime => HasBase(r))

\* What a patch writes: the baseline with its fields, or its fields alone.
Patched(r) ==
  IF HasBase(r) THEN [base.img EXCEPT !.main = @ \cup {r.id}]
                ELSE [form |-> "ot3d", main |-> {r.id}, aux |-> {}]

\* Mutant: the baseline outlives the write it was used for.
PatchKeepsBase(r) ==
  /\ r.kind = "patch" /\ PatchAllowed(r)
  /\ Pages(r, Patched(r), "patched")
  /\ patch' = 0
  /\ UNCHANGED <<base, mime, fields>>

\* executeOpenTag3DWrite(): the baseline is given up before the first page is written.
Patch(r) ==
  /\ r.kind = "patch" /\ PatchAllowed(r)
  /\ Pages(r, Patched(r), "patched")
  /\ base' = NoBase /\ patch' = 0
  /\ UNCHANGED <<mime, fields>>

-----------------------------------------------------------------------------
\* Mutant: a patch that is refused stays staged.
RefusedKeepsPatch(r) ==
  /\ fields' = IF r.kind = "atomic" THEN 0 ELSE fields
  /\ UNCHANGED <<held, spool, base, mime, patch, histVars>>

\* Refused before anything is written: the guard, the size check, a busy tagMutex.  The
\* sidecars are taken all the same.
Refused(r) ==
  /\ fields' = IF r.kind = "atomic" THEN 0 ELSE fields
  /\ patch' = IF r.kind = "patch" /\ patch = r.id THEN 0 ELSE patch
  /\ UNCHANGED <<held, spool, base, mime, histVars>>

\* executeWrite(), from processWriteQueue(): one request in a cycle that has a spool.
ExecuteWrite(r) == Replace(r) \/ Atomic(r) \/ Update(r) \/ WritePages(r) \/ Patch(r) \/ Refused(r)

ProcessWriteQueue ==
  /\ selected # NoTag /\ selected' = NoTag
  /\ IF spool.present /\ queue # <<>>
     THEN ExecuteWrite(Head(queue)) /\ queue' = Tail(queue)
     ELSE UNCHANGED <<held, spool, base, mime, patch, fields, queue, histVars>>
  /\ cache' = NoImage
  /\ UNCHANGED <<tag, posting, posted>>

TagNext ==
  \/ MoveTag
  \/ PostRequest \/ PostPatch \/ FillFields \/ PostAtomic
  \/ Detect \/ Absent \/ ProcessWriteQueue

TagSpec == TagInit /\ [][TagNext]_tagVars

-----------------------------------------------------------------------------
(* Properties *)

\* Types; and a staged OpenTag3D patch has its request in the queue, so that the next patch
\* is not refused for ever (enqueueOpenTag3DPatch, executeOpenTag3DWrite).
TagTypeOK ==
  /\ tag \in Tags \cup {NoTag} /\ selected \in Tags \cup {NoTag}
  /\ held \in [Tags -> Images]
  /\ spool \in [uid : Tags \cup {NoTag}, present : BOOLEAN, valid : BOOLEAN, img : Images \cup {NoImage}]
  /\ cache \in Images \cup {NoImage} /\ mime \in BOOLEAN
  /\ base \in [uid : Tags, img : Images] \cup {NoBase}
  /\ fields \in Ids \cup {0} /\ posting \in Seq(Requests) /\ queue \in Seq(Requests)
  /\ due \in [Tags -> SUBSET Marks] /\ doubts \in [Tags -> SUBSET Reasons]
  /\ posted \in 0..MaxRequests
  /\ patch = 0 \/ \E i \in DOMAIN queue : queue[i].id = patch /\ queue[i].kind = "patch"

\* A tag holds every change that was reported as done for it, on top of the record it came
\* with or of the last one written whole, and nothing of another tag or of another tag's
\* requests, unless one of Reasons came over it (WriteUidGuard.h, #276).
TagHoldsItsDue == \A t \in Tags : doubts[t] = {} => Contents(held[t]) = due[t]

\* Field updates start from what the tag holds: the copy in currentSpool is true of the tag
\* it is filed under, unless one of Reasons came over that tag.  A Bambu tag is excepted:
\* under its UID the copy of a tag before is kept as valid (NoCopyOfBambu).
CopyIsTrue ==
  spool.valid /\ spool.uid \notin BambuTags /\ doubts[spool.uid] = {} => spool.img = held[spool.uid]

\* A baseline is true of its tag, also after a patch that broke off: "Only a full rescan may
\* re-arm it" (executeOpenTag3DWrite).
BaselineIsTrue ==
  base # NoBase /\ spool.present /\ doubts[base.uid] \subseteq {"patched"} => base.img = held[base.uid]

\* A whole image that was re-read after the write, "Verified", leaves a true copy
\* (formatNewSpool, writeRawTag, executeAtomicWrite).
VerifiedCopyIsTrue ==
  spool.valid /\ spool.uid \notin BambuTags /\ doubts[spool.uid] \subseteq {"stale"}
    => spool.img = held[spool.uid]

\* tag_data is "Cached openprinttag data" (NFCTypes.h:112), of which a Bambu tag has none.
NoCopyOfBambu == spool.valid => spool.uid \notin BambuTags
=============================================================================
