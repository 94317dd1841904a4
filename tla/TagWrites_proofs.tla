--------------------------- MODULE TagWrites_proofs ---------------------------
(***************************************************************************)
(* What TLC checks of TagWrites on four tags and two requests, for any     *)
(* tags and any number of requests: the records, the copies that the next  *)
(* writes start from, and that a staged patch is always taken.             *)
(***************************************************************************)
EXTENDS TagWrites, TLAPS

DoubtTypes == [Tags -> SUBSET Reasons]
SpoolTypes ==
  [uid : Tags \cup {NoTag}, present : BOOLEAN, valid : BOOLEAN, img : Images \cup {NoImage}]

\* A spool that is present or has a copy has a UID, and the copy is an image; under the UID
\* of a Bambu tag it may be nothing at all.
SpoolHasUid ==
  /\ spool.present \/ spool.valid => spool.uid \in Tags
  /\ spool.valid /\ spool.uid \notin BambuTags => spool.img \in Images

\* An NTAG has no copy, but for one filed under its UID by mistake.
CopyOfOpt == spool.valid /\ spool.uid \in NtagTags => doubts[spool.uid] # {}

\* The baseline is the OpenTag3D record of an NTAG.
BaseOfNtag == base # NoBase => base.uid \in NtagTags /\ base.img.form = "ot3d"

\* The OpenTag3D record of the present tag was seen.
MimeIsSeen ==
  spool.present /\ spool.uid \in NtagTags /\ doubts[spool.uid] = {}
    /\ held[spool.uid].form = "ot3d" => mime

\* A selected NTAG is the current spool, unless it was skipped.
SelectedWasRead == selected \in NtagTags /\ doubts[selected] = {} => spool.uid = selected

TagInv ==
  /\ TagTypeOK /\ SpoolHasUid /\ CopyOfOpt /\ BaseOfNtag /\ MimeIsSeen /\ SelectedWasRead
  /\ TagHoldsItsDue /\ CopyIsTrue /\ BaselineIsTrue

-----------------------------------------------------------------------------
(* Requests, images and doubts *)

OptKinds == {"main", "aux", "atomic", "whole"}

LEMMA RequestTyped ==
  ASSUME NEW r \in Requests
  PROVE  /\ r.id \in Ids /\ r.uid \in Tags /\ r.kind \in OptKinds \cup {"patch", "pages"}
         /\ r.kind \in OptKinds <=> r.uid \in OptTags \cup BambuTags
         /\ r.kind \in {"patch", "pages"} <=> r.uid \in NtagTags
<1>1. PICK u \in Tags : r \in [id : Ids, uid : {u}, kind : Kinds(u)]
  BY DEF Requests
<1>2. r.id \in Ids /\ r.uid = u /\ r.kind \in Kinds(u)
  BY <1>1
<1>3. CASE u \in OptTags \cup BambuTags
  BY <1>2, <1>3, TagsAssumption DEF Kinds, OptKinds
<1>4. CASE u \notin OptTags \cup BambuTags
  BY <1>2, <1>4, TagsAssumption DEF Kinds, OptKinds, Tags
<1> QED BY <1>3, <1>4

LEMMA NewRequestTyped ==
  ASSUME TagTypeOK, Posting, NEW u \in Tags, NEW k \in Kinds(u)
  PROVE  NewRequest(u, k) \in Requests /\ posted' \in 0..MaxRequests
<1>1. posted + 1 \in Ids /\ posted' \in 0..MaxRequests
  BY BoundsAssumption DEF TagTypeOK, Posting, Ids
<1> QED BY <1>1 DEF NewRequest, Requests

LEMMA DoubtGrows ==
  ASSUME NEW d \in DoubtTypes, NEW u \in Tags, NEW why \in SUBSET Reasons
  PROVE  /\ Doubt(d, u, why) \in DoubtTypes
         /\ \A t \in Tags : d[t] \subseteq Doubt(d, u, why)[t]
         /\ why \subseteq Doubt(d, u, why)[u]
         /\ \A t \in Tags : t # u => Doubt(d, u, why)[t] = d[t]
  BY DEF Doubt, DoubtTypes

\* What a request adds to an image keeps it one.
LEMMA MarkedImage ==
  ASSUME NEW img \in Images, NEW m \in SUBSET Marks, NEW a \in SUBSET Marks
  PROVE  /\ [img EXCEPT !.main = @ \cup m] \in Images
         /\ [img EXCEPT !.main = @ \cup m, !.aux = @ \cup a] \in Images
         /\ [img EXCEPT !.aux = @ \cup a] \in Images
  BY DEF Images

LEMMA CutImages ==
  ASSUME NEW old \in Images, NEW img \in Images, NEW cut \in Cut(old, img)
  PROVE  cut \in Images /\ [cut EXCEPT !.aux = {}] \in Images
  BY DEF Cut, Images, Marks

-----------------------------------------------------------------------------
(* OpenPrintTag writes *)

\* What any write of an OpenPrintTag record does, however it ends.
OptEffect(r) ==
  /\ r.uid \in OptTags \cup BambuTags
  /\ held' \in [Tags -> Images] /\ due' \in [Tags -> SUBSET Marks] /\ doubts' \in DoubtTypes
  /\ spool' \in SpoolTypes /\ spool'.uid = spool.uid /\ spool'.present = spool.present
  /\ spool'.valid /\ spool.uid \notin BambuTags => spool'.img \in Images
  /\ \A t \in Tags : t # r.uid => held'[t] = held[t] /\ due'[t] = due[t]
  /\ \A t \in Tags : doubts[t] \subseteq doubts'[t]
  /\ doubts'[r.uid] = {} => Contents(held'[r.uid]) = due'[r.uid]
  /\ spool'.valid /\ spool.uid \notin BambuTags /\ doubts'[spool.uid] = {}
       => spool'.img = held'[spool.uid]
  /\ spool'.valid /\ spool.uid \in NtagTags => doubts'[spool.uid] # {}

LEMMA OptEffectKeeps ==
  ASSUME TagInv, spool.present, NEW r \in Requests, OptEffect(r), UNCHANGED <<base, mime>>
  PROVE  /\ SpoolHasUid' /\ CopyOfOpt' /\ BaseOfNtag' /\ MimeIsSeen'
         /\ TagHoldsItsDue' /\ CopyIsTrue' /\ BaselineIsTrue'
<1> USE DEF TagInv
<1>1. spool.uid \in Tags /\ OptTags \cap NtagTags = {} /\ r.uid \notin NtagTags
  BY TagsAssumption DEF SpoolHasUid, OptEffect
<1>2. \A t \in NtagTags : held'[t] = held[t] /\ doubts[t] \subseteq doubts'[t]
  BY <1>1 DEF OptEffect, Tags
<1>3. SpoolHasUid' /\ CopyOfOpt' /\ BaseOfNtag' /\ CopyIsTrue'
  BY <1>1 DEF OptEffect, SpoolHasUid, CopyOfOpt, BaseOfNtag, CopyIsTrue
<1>4. MimeIsSeen'
  BY <1>2 DEF MimeIsSeen, OptEffect
<1>5. TagHoldsItsDue'
  BY DEF TagHoldsItsDue, OptEffect, Contents
<1>6. BaselineIsTrue'
  BY <1>2 DEF BaselineIsTrue, BaseOfNtag, OptEffect
<1> QED BY <1>3, <1>4, <1>5, <1>6

\* Why a whole image that landed may not be what its tag should hold, or its copy not true.
LEMMA WholeDoubtsGrow ==
  ASSUME TagInv, spool.uid \in Tags, NEW r \in Requests
  PROVE  /\ WholeDoubts(r) \in DoubtTypes
         /\ \A t \in Tags : doubts[t] \subseteq WholeDoubts(r)[t]
         /\ spool.uid # r.uid => WholeDoubts(r)[spool.uid] # {}
         /\ cache # NoImage => WholeDoubts(r)[r.uid] # {}
         /\ r.kind = "atomic" /\ fields # r.id => WholeDoubts(r)[r.uid] # {}
<1> DEFINE filed == IF spool.uid # r.uid /\ spool.uid \in Tags
                    THEN Doubt(doubts, spool.uid, {"misfiled"}) ELSE doubts
           crossed == IF r.kind = "atomic" /\ fields # r.id
                      THEN Doubt(filed, r.uid, {"crossed"}) ELSE filed
<1>1. doubts \in DoubtTypes /\ r.uid \in Tags
  BY RequestTyped DEF TagInv, TagTypeOK, DoubtTypes
<1>2. /\ {"misfiled"} \in SUBSET Reasons /\ {"crossed"} \in SUBSET Reasons
      /\ {"stale"} \in SUBSET Reasons
  BY DEF Reasons
<1>3. /\ filed \in DoubtTypes /\ \A t \in Tags : doubts[t] \subseteq filed[t]
      /\ spool.uid # r.uid => filed[spool.uid] # {}
  <2>1. CASE spool.uid # r.uid
    <3>1. filed = Doubt(doubts, spool.uid, {"misfiled"})
      BY <2>1
    <3>2. /\ Doubt(doubts, spool.uid, {"misfiled"}) \in DoubtTypes
          /\ \A t \in Tags : doubts[t] \subseteq Doubt(doubts, spool.uid, {"misfiled"})[t]
          /\ {"misfiled"} \subseteq Doubt(doubts, spool.uid, {"misfiled"})[spool.uid]
      BY <1>1, <1>2, DoubtGrows
    <3> QED BY <3>1, <3>2
  <2>2. CASE spool.uid = r.uid
    BY <1>1, <2>2
  <2> QED BY <2>1, <2>2
<1> HIDE DEF filed
<1>4. /\ crossed \in DoubtTypes /\ \A t \in Tags : filed[t] \subseteq crossed[t]
      /\ r.kind = "atomic" /\ fields # r.id => crossed[r.uid] # {}
  <2>1. CASE r.kind = "atomic" /\ fields # r.id
    <3>1. crossed = Doubt(filed, r.uid, {"crossed"})
      BY <2>1
    <3>2. /\ Doubt(filed, r.uid, {"crossed"}) \in DoubtTypes
          /\ \A t \in Tags : filed[t] \subseteq Doubt(filed, r.uid, {"crossed"})[t]
          /\ {"crossed"} \subseteq Doubt(filed, r.uid, {"crossed"})[r.uid]
      BY <1>1, <1>2, <1>3, DoubtGrows
    <3> QED BY <3>1, <3>2
  <2>2. CASE ~(r.kind = "atomic" /\ fields # r.id)
    BY <1>3, <2>2
  <2> QED BY <2>1, <2>2
<1> HIDE DEF crossed
<1>5. /\ Doubt(crossed, r.uid, {"stale"}) \in DoubtTypes
      /\ \A t \in Tags : crossed[t] \subseteq Doubt(crossed, r.uid, {"stale"})[t]
      /\ {"stale"} \subseteq Doubt(crossed, r.uid, {"stale"})[r.uid]
  BY <1>1, <1>2, <1>4, DoubtGrows
<1>6. WholeDoubts(r) = IF cache = NoImage THEN crossed ELSE Doubt(crossed, r.uid, {"stale"})
  BY DEF WholeDoubts, filed, crossed
<1>7. CASE cache = NoImage
  BY <1>1, <1>3, <1>4, <1>6, <1>7
<1>8. CASE cache # NoImage
  BY <1>1, <1>3, <1>4, <1>5, <1>6, <1>8
<1> QED BY <1>7, <1>8

\* A failure leaves a doubt, whatever it left on the tag.
LEMMA FailedEffect ==
  ASSUME TagInv, spool.present, NEW r \in Requests, r.uid \in OptTags \cup BambuTags,
         held' \in [Tags -> Images], \A t \in Tags : t # r.uid => held'[t] = held[t],
         Failed(r, {"failed"}), UNCHANGED spool
  PROVE  OptEffect(r)
<1>1. doubts \in DoubtTypes /\ r.uid \in Tags /\ spool.uid \in Tags /\ spool \in SpoolTypes
  BY RequestTyped DEF TagInv, TagTypeOK, DoubtTypes, SpoolTypes, SpoolHasUid
<1>2. {"failed"} \in SUBSET Reasons
  BY DEF Reasons
<1>3. /\ doubts' \in DoubtTypes /\ \A t \in Tags : doubts[t] \subseteq doubts'[t]
      /\ doubts'[r.uid] # {}
  BY <1>1, <1>2, DoubtGrows DEF Failed
<1>4. due' \in [Tags -> SUBSET Marks] /\ due' = due
  BY DEF Failed, TagInv, TagTypeOK
<1>5. spool'.valid /\ spool.uid \notin BambuTags /\ doubts'[spool.uid] = {}
        => spool'.img = held'[spool.uid]
  BY <1>1, <1>3 DEF TagInv, CopyIsTrue
<1>6. spool'.valid /\ spool.uid \in NtagTags => doubts'[spool.uid] # {}
  BY <1>1, <1>3 DEF TagInv, CopyOfOpt
<1>7. spool'.valid /\ spool.uid \notin BambuTags => spool'.img \in Images
  BY DEF TagInv, SpoolHasUid
<1> QED BY <1>1, <1>3, <1>4, <1>5, <1>6, <1>7 DEF OptEffect

\* A whole image that is written holds what it should, unless its request was crossed.
LEMMA WholeEffect ==
  ASSUME TagInv, spool.present, NEW r \in Requests, r.uid \in OptTags, NEW img \in Images,
         Whole(r, img),
         doubts[r.uid] = {} /\ ~(r.kind = "atomic" /\ fields # r.id)
           => Contents(img) = (IF Extends(r) THEN due[r.uid] ELSE {}) \cup {r.id}
  PROVE  OptEffect(r)
<1>1. /\ r.uid \in Tags /\ r.id \in Marks /\ spool.uid \in Tags /\ spool \in SpoolTypes
      /\ held \in [Tags -> Images] /\ due \in [Tags -> SUBSET Marks]
  BY RequestTyped DEF TagInv, TagTypeOK, SpoolTypes, SpoolHasUid, Marks
<1>2. CASE WholeLands(r, img) /\ UNCHANGED spool /\ Failed(r, {"failed"})
  BY <1>1, <1>2, FailedEffect DEF WholeLands
<1>3. CASE WholeFails(r, img)
  <2>1. PICK cut \in Cut(held[r.uid], img) :
          held' = [held EXCEPT ![r.uid] = IF Answers(r) THEN cut ELSE @]
    BY <1>3 DEF WholeFails
  <2>2. cut \in Images
    BY <1>1, CutImages
  <2> QED BY <1>1, <1>3, <2>1, <2>2, FailedEffect DEF WholeFails
<1>4. ASSUME NEW copy \in Images, held' = [held EXCEPT ![r.uid] = img],
             Commit(copy), cache = NoImage => copy = img, Done(r, WholeDoubts(r))
      PROVE  OptEffect(r)
  <2>1. /\ doubts' \in DoubtTypes /\ \A t \in Tags : doubts[t] \subseteq doubts'[t]
        /\ spool.uid # r.uid => doubts'[spool.uid] # {}
        /\ cache # NoImage => doubts'[r.uid] # {}
        /\ r.kind = "atomic" /\ fields # r.id => doubts'[r.uid] # {}
    BY <1>1, <1>4, WholeDoubtsGrow DEF Done
  <2>2. /\ due' \in [Tags -> SUBSET Marks] /\ \A t \in Tags : t # r.uid => due'[t] = due[t]
        /\ due'[r.uid] = (IF Extends(r) THEN due[r.uid] ELSE {}) \cup {r.id}
    BY <1>1, <1>4 DEF Done
  <2>3. /\ held' \in [Tags -> Images] /\ held'[r.uid] = img
        /\ \A t \in Tags : t # r.uid => held'[t] = held[t]
    BY <1>1, <1>4
  <2>4. /\ spool' \in SpoolTypes /\ spool'.uid = spool.uid /\ spool'.present = spool.present
        /\ spool'.img = copy
    BY <1>1, <1>4 DEF Commit, SpoolTypes
  <2>5. doubts'[r.uid] = {} => Contents(held'[r.uid]) = due'[r.uid]
    <3> SUFFICES ASSUME doubts'[r.uid] = {} PROVE Contents(held'[r.uid]) = due'[r.uid]
      OBVIOUS
    <3>1. doubts[r.uid] = {} /\ ~(r.kind = "atomic" /\ fields # r.id)
      BY <1>1, <2>1
    <3> QED BY <2>2, <2>3, <3>1
  <2>6. doubts'[spool.uid] = {} => spool'.img = held'[spool.uid]
    BY <1>4, <2>1, <2>3, <2>4
  <2>7. spool.uid \in NtagTags => doubts'[spool.uid] # {}
    BY <2>1, TagsAssumption
  <2> QED BY <2>1, <2>2, <2>3, <2>4, <2>5, <2>6, <2>7 DEF OptEffect
<1>5. CASE WholeLands(r, img) /\ ReadBack(img).form = "opt" /\ Commit(ReadBack(img))
             /\ Done(r, WholeDoubts(r))
  <2>1. ReadBack(img) \in Images /\ (cache = NoImage => ReadBack(img) = img)
    BY DEF ReadBack, TagInv, TagTypeOK
  <2> QED BY <1>4, <1>5, <2>1 DEF WholeLands
<1>6. CASE WholeLands(r, img) /\ Commit(img) /\ Done(r, WholeDoubts(r))
  BY <1>4, <1>6 DEF WholeLands
<1> QED BY <1>2, <1>3, <1>5, <1>6 DEF Whole, WholeLands

\* No tag answers to the UID of a Bambu tag: the write fails and changes none.
LEMMA UnansweredEffect ==
  ASSUME TagInv, spool.present, NEW r \in Requests, r.uid \in BambuTags, NEW img, Whole(r, img)
  PROVE  OptEffect(r)
<1>1. ~Answers(r)
  BY TagsAssumption DEF Answers
<1>2. WholeFails(r, img)
  BY <1>1 DEF Whole, WholeLands
<1>3. held \in [Tags -> Images] /\ held' = held
  BY <1>1, <1>2 DEF WholeFails, TagInv, TagTypeOK
<1> QED BY <1>2, <1>3, FailedEffect DEF WholeFails

LEMMA ReplaceEffect ==
  ASSUME TagInv, spool.present, NEW r \in Requests, Replace(r)
  PROVE  OptEffect(r)
<1> DEFINE img == [form |-> "opt", main |-> {r.id}, aux |-> {r.id}]
<1>1. r.uid \in OptTags \cup BambuTags /\ r.id \in Marks
  BY RequestTyped DEF Replace, OptKinds, Marks
<1>2. img \in Images
  BY <1>1 DEF Images, Forms
<1>3. Contents(img) = (IF Extends(r) THEN due[r.uid] ELSE {}) \cup {r.id}
  BY DEF Contents, Extends, Replace
<1> QED BY <1>1, <1>2, <1>3, WholeEffect, UnansweredEffect DEF Replace

\* The copy that a field update starts from holds what the tag should.
LEMMA CopyIsDue ==
  ASSUME TagInv, spool.present, NEW r \in Requests, r.uid \in OptTags, UpdateAllowed(r)
  PROVE  /\ spool.img \in Images /\ spool.uid = r.uid
         /\ doubts[r.uid] = {} =>
              spool.img = held[r.uid] /\ Contents(spool.img) = due[r.uid]
<1>1. r.uid \in Tags /\ r.uid \notin BambuTags
  BY RequestTyped, TagsAssumption
<1> QED BY <1>1 DEF TagInv, SpoolHasUid, UpdateAllowed, CopyIsTrue, TagHoldsItsDue

LEMMA AtomicEffect ==
  ASSUME TagInv, spool.present, NEW r \in Requests, Atomic(r)
  PROVE  OptEffect(r)
<1> DEFINE img == [spool.img EXCEPT !.main = @ \cup {fields}, !.aux = @ \cup {fields}]
<1>1. r.uid \in OptTags \cup BambuTags /\ fields \in Marks
  BY RequestTyped DEF Atomic, OptKinds, TagInv, TagTypeOK, Marks
<1>2. r.kind = "atomic" /\ Whole(r, img)
  BY DEF Atomic
<1>3. CASE r.uid \in BambuTags
  <2> HIDE DEF img
  <2> QED BY <1>2, <1>3, UnansweredEffect
<1>4. CASE r.uid \in OptTags
  <2>1. /\ spool.img \in Images
        /\ doubts[r.uid] = {} => Contents(spool.img) = due[r.uid]
    BY <1>4, CopyIsDue DEF Atomic, UpdateAllowed
  <2>2. /\ img \in Images
        /\ img.main = spool.img.main \cup {fields} /\ img.aux = spool.img.aux \cup {fields}
    <3>1. spool.img \in Images /\ {fields} \in SUBSET Marks
      BY <1>1, <2>1
    <3>2. img \in Images
      BY <3>1, MarkedImage, Zenon
    <3> QED BY <3>1, <3>2 DEF Images
  <2>3. doubts[r.uid] = {} /\ fields = r.id
          => Contents(img) = (IF Extends(r) THEN due[r.uid] ELSE {}) \cup {r.id}
    BY <1>2, <2>1, <2>2 DEF Contents, Extends
  <2> HIDE DEF img
  <2> QED BY <1>2, <1>4, <2>2, <2>3, WholeEffect
<1> QED BY <1>1, <1>3, <1>4

LEMMA UpdateAnswered ==
  ASSUME TagInv, spool.present, NEW r \in Requests, Update(r), r.uid \in OptTags
  PROVE  OptEffect(r)
<1> DEFINE img == [spool.img EXCEPT ![r.kind] = @ \cup {r.id}]
<1>1. r.uid \in OptTags /\ r.uid \in Tags /\ r.id \in Marks /\ r.kind \in {"main", "aux"}
  BY RequestTyped DEF Update, OptKinds, Marks
<1>2. /\ spool.img \in Images /\ spool.uid = r.uid
      /\ doubts[r.uid] = {} => spool.img = held[r.uid] /\ Contents(spool.img) = due[r.uid]
  BY <1>1, CopyIsDue DEF Update
<1>3. img \in Images /\ img[r.kind] \in SUBSET Marks /\ Contents(img) = Contents(spool.img) \cup {r.id}
  BY <1>1, <1>2 DEF Contents, Images
<1>4. doubts[r.uid] = {} => Contents(img) = (IF Extends(r) THEN due[r.uid] ELSE {}) \cup {r.id}
  BY <1>1, <1>2, <1>3 DEF Extends
<1>5. \/ Whole(r, img)
      \/ /\ held' = [held EXCEPT ![r.uid][r.kind] = img[r.kind]]
         /\ \/ Commit(img) /\ Done(r, doubts)
            \/ UNCHANGED spool /\ Failed(r, {"failed"})
  BY DEF Update
<1>6. CASE Whole(r, img)
  <2> HIDE DEF img
  <2> QED BY <1>1, <1>3, <1>4, <1>6, WholeEffect
<1>7. CASE held' = [held EXCEPT ![r.uid][r.kind] = img[r.kind]]
  <2>1. /\ held \in [Tags -> Images] /\ due \in [Tags -> SUBSET Marks] /\ doubts \in DoubtTypes
        /\ spool \in SpoolTypes
    BY DEF TagInv, TagTypeOK, DoubtTypes, SpoolTypes
  <2>2. held' = [held EXCEPT ![r.uid] = [held[r.uid] EXCEPT ![r.kind] = img[r.kind]]]
    BY <1>7
  <2>3. [held[r.uid] EXCEPT ![r.kind] = img[r.kind]] \in Images
    BY <1>1, <1>3, <2>1 DEF Images
  <2>4. held' \in [Tags -> Images] /\ \A t \in Tags : t # r.uid => held'[t] = held[t]
    BY <1>1, <2>1, <2>2, <2>3
  <2>5. doubts[r.uid] = {} => held'[r.uid] = img
    BY <1>1, <1>2, <2>1, <2>2
  <2>6. CASE UNCHANGED spool /\ Failed(r, {"failed"})
    BY <1>1, <2>4, <2>6, FailedEffect
  <2>7. CASE Commit(img) /\ Done(r, doubts)
    <3>1. doubts' = doubts /\ due' = [due EXCEPT ![r.uid] = due[r.uid] \cup {r.id}]
      BY <1>1, <2>7 DEF Done, Extends
    <3>2. /\ due' \in [Tags -> SUBSET Marks] /\ due'[r.uid] = due[r.uid] \cup {r.id}
          /\ \A t \in Tags : t # r.uid => due'[t] = due[t]
      BY <1>1, <2>1, <3>1
    <3>3. /\ spool' \in SpoolTypes /\ spool'.uid = spool.uid /\ spool'.present = spool.present
          /\ spool'.img = img
      <4> HIDE DEF img
      <4> QED BY <1>3, <2>1, <2>7 DEF Commit, SpoolTypes
    <3>4. doubts'[r.uid] = {} => Contents(held'[r.uid]) = due'[r.uid]
      BY <1>2, <1>3, <2>5, <3>1, <3>2
    <3>5. spool.uid \notin NtagTags
      BY <1>1, <1>2, TagsAssumption
    <3> HIDE DEF img
    <3> QED BY <1>1, <1>2, <1>3, <2>1, <2>4, <2>5, <3>1, <3>2, <3>3, <3>4, <3>5 DEF OptEffect
  <2> QED BY <1>5, <1>6, <1>7, <2>6, <2>7
<1> QED BY <1>5, <1>6, <1>7

LEMMA UpdateEffect ==
  ASSUME TagInv, spool.present, NEW r \in Requests, Update(r)
  PROVE  OptEffect(r)
<1> DEFINE img == [spool.img EXCEPT ![r.kind] = @ \cup {r.id}]
<1>1. r.uid \in OptTags \cup BambuTags
  BY RequestTyped DEF Update, OptKinds
<1>2. Answers(r) \/ Whole(r, img)
  BY DEF Update
<1> HIDE DEF img
<1>3. CASE r.uid \in BambuTags
  BY <1>2, <1>3, UnansweredEffect, TagsAssumption DEF Answers
<1> QED BY <1>1, <1>3, UpdateAnswered

-----------------------------------------------------------------------------
(* NTAG writes *)

\* What any write of pages does, however it ends: a success leaves the spool to be read again.
NtagEffect(r) ==
  /\ r.uid \in NtagTags
  /\ held' \in [Tags -> Images] /\ due' \in [Tags -> SUBSET Marks] /\ doubts' \in DoubtTypes
  /\ spool' \in SpoolTypes
  /\ spool'.uid = spool.uid /\ spool'.valid = spool.valid /\ spool'.img = spool.img
  /\ \A t \in Tags : doubts[t] \subseteq doubts'[t]
  /\ \A t \in Tags : held'[t] # held[t] => t \in NtagTags
  /\ \A t \in Tags : doubts'[t] = {} => Contents(held'[t]) = due'[t]
  /\ \/ ~spool'.present
     \/ spool' = spool /\ \A t \in Tags : held'[t] # held[t] => doubts'[t] # {}

\* Pages that changed the tag although the request failed leave more than a doubt of the patch.
Noticed == \A t \in Tags : held'[t] # held[t] => ~(doubts'[t] \subseteq {"patched"})

LEMMA NtagEffectKeeps ==
  ASSUME TagInv, spool.present, NEW r \in Requests, NtagEffect(r), UNCHANGED mime,
         base' = NoBase \/ (base' = base /\ (~spool'.present \/ Noticed))
  PROVE  /\ SpoolHasUid' /\ CopyOfOpt' /\ BaseOfNtag' /\ MimeIsSeen'
         /\ TagHoldsItsDue' /\ CopyIsTrue' /\ BaselineIsTrue'
<1> USE DEF TagInv
<1>1. spool.uid \in Tags /\ OptTags \cap NtagTags = {}
  BY TagsAssumption DEF SpoolHasUid
<1>2. \A t \in Tags : doubts'[t] = {} => doubts[t] = {}
  BY DEF NtagEffect
<1>3. SpoolHasUid' /\ CopyOfOpt' /\ BaseOfNtag' /\ TagHoldsItsDue'
  BY <1>1 DEF NtagEffect, SpoolHasUid, CopyOfOpt, BaseOfNtag, TagHoldsItsDue, Contents
<1>4. CopyIsTrue'
  BY <1>1, <1>2 DEF NtagEffect, CopyIsTrue, CopyOfOpt
<1>5. MimeIsSeen'
  BY <1>1, <1>2 DEF NtagEffect, MimeIsSeen
<1>6. BaselineIsTrue'
  BY <1>1 DEF NtagEffect, BaselineIsTrue, BaseOfNtag, Noticed, Tags
<1> QED BY <1>3, <1>4, <1>5, <1>6

LEMMA PagesEffect ==
  ASSUME TagInv, spool.present, NEW r \in Requests, r.uid \in NtagTags, NEW img \in Images,
         NEW why \in {"failed", "patched"}, Pages(r, img, why),
         doubts[r.uid] = {} => Contents(img) = (IF Extends(r) THEN due[r.uid] ELSE {}) \cup {r.id}
  PROVE  NtagEffect(r) /\ (why = "failed" => ~spool'.present \/ Noticed)
<1> DEFINE there == IF tag \in NtagTags THEN tag ELSE r.uid
           swapped == IF tag # r.uid THEN Doubt(doubts, there, {"swapped"}) ELSE doubts
<1>1. /\ r.uid \in Tags /\ r.id \in Marks /\ there \in NtagTags /\ there \in Tags
      /\ spool \in SpoolTypes /\ doubts \in DoubtTypes
      /\ held \in [Tags -> Images] /\ due \in [Tags -> SUBSET Marks]
  BY RequestTyped DEF TagInv, TagTypeOK, SpoolTypes, DoubtTypes, Marks, Tags
<1>2. {"swapped"} \in SUBSET Reasons /\ {why} \in SUBSET Reasons
  BY DEF Reasons
<1>3. /\ swapped \in DoubtTypes /\ \A t \in Tags : doubts[t] \subseteq swapped[t]
      /\ tag # r.uid => "swapped" \in swapped[there]
  <2> HIDE DEF there
  <2>1. CASE tag # r.uid
    <3>1. swapped = Doubt(doubts, there, {"swapped"})
      BY <2>1
    <3>2. /\ Doubt(doubts, there, {"swapped"}) \in DoubtTypes
          /\ \A t \in Tags : doubts[t] \subseteq Doubt(doubts, there, {"swapped"})[t]
          /\ {"swapped"} \subseteq Doubt(doubts, there, {"swapped"})[there]
      BY <1>1, <1>2, DoubtGrows
    <3> QED BY <3>1, <3>2
  <2>2. CASE tag = r.uid
    BY <1>1, <2>2
  <2> QED BY <2>1, <2>2
<1>4. ASSUME NEW w \in Reasons
      PROVE  /\ Doubt(swapped, r.uid, {w}) \in DoubtTypes
             /\ \A t \in Tags : doubts[t] \subseteq Doubt(swapped, r.uid, {w})[t]
             /\ tag # r.uid => "swapped" \in Doubt(swapped, r.uid, {w})[there]
             /\ w \in Doubt(swapped, r.uid, {w})[r.uid]
  <2> HIDE DEF swapped, there
  <2>1. /\ Doubt(swapped, r.uid, {w}) \in DoubtTypes
        /\ \A t \in Tags : swapped[t] \subseteq Doubt(swapped, r.uid, {w})[t]
        /\ {w} \subseteq Doubt(swapped, r.uid, {w})[r.uid]
    BY <1>1, <1>3, DoubtGrows
  <2> QED BY <1>1, <1>3, <2>1
<1>5. CASE /\ tag \in NtagTags
           /\ held' = [held EXCEPT ![tag] = img]
           /\ spool' = [spool EXCEPT !.present = FALSE]
           /\ Done(r, IF tag = r.uid THEN doubts ELSE Doubt(swapped, r.uid, {"swapped"}))
  <2>1. /\ due' \in [Tags -> SUBSET Marks] /\ \A t \in Tags : t # r.uid => due'[t] = due[t]
        /\ due'[r.uid] = (IF Extends(r) THEN due[r.uid] ELSE {}) \cup {r.id}
    BY <1>1, <1>5 DEF Done
  <2>2. tag \in Tags /\ there = tag
    BY <1>5 DEF Tags
  <2>3. /\ held' \in [Tags -> Images] /\ held'[tag] = img
        /\ \A t \in Tags : t # tag => held'[t] = held[t]
    BY <1>1, <1>5, <2>2
  <2>4. /\ spool' \in SpoolTypes /\ ~spool'.present /\ spool'.uid = spool.uid
        /\ spool'.valid = spool.valid /\ spool'.img = spool.img
    BY <1>1, <1>5 DEF SpoolTypes
  <2>5. \A t \in Tags : doubts[t] = {} => Contents(held[t]) = due[t]
    BY DEF TagInv, TagHoldsItsDue
  <2>6. CASE tag = r.uid
    <3>1. doubts' = doubts
      BY <1>5, <2>6 DEF Done
    <3>2. \A t \in Tags : doubts'[t] = {} => Contents(held'[t]) = due'[t]
      <4> TAKE t \in Tags
      <4>1. CASE t = r.uid
        BY <2>1, <2>3, <2>6, <3>1, <4>1
      <4>2. CASE t # r.uid
        BY <2>1, <2>3, <2>5, <2>6, <3>1, <4>2
      <4> QED BY <4>1, <4>2
    <3> QED BY <1>1, <1>5, <2>1, <2>3, <2>4, <3>1, <3>2 DEF NtagEffect
  <2>7. CASE tag # r.uid
    <3>1. /\ doubts' \in DoubtTypes /\ \A t \in Tags : doubts[t] \subseteq doubts'[t]
          /\ doubts'[tag] # {} /\ doubts'[r.uid] # {}
      <4> HIDE DEF swapped
      <4> QED BY <1>2, <1>4, <1>5, <2>2, <2>7 DEF Done
    <3>2. \A t \in Tags : doubts'[t] = {} => Contents(held'[t]) = due'[t]
      <4> TAKE t \in Tags
      <4> QED BY <2>1, <2>3, <2>5, <3>1
    <3> QED BY <1>1, <1>5, <2>1, <2>3, <2>4, <3>1, <3>2 DEF NtagEffect
  <2> QED BY <2>6, <2>7
<1>6. CASE /\ \E cut \in Cut(held[there], img) :
                held' = [held EXCEPT ![there] = IF tag = there THEN [cut EXCEPT !.aux = {}] ELSE @]
           /\ doubts' = Doubt(swapped, r.uid, {why})
           /\ UNCHANGED <<spool, due>>
  <2> HIDE DEF swapped, there
  <2>1. PICK cut \in Cut(held[there], img) :
          held' = [held EXCEPT ![there] = IF tag = there THEN [cut EXCEPT !.aux = {}] ELSE @]
    BY <1>6
  <2>2. [cut EXCEPT !.aux = {}] \in Images
    BY <1>1, CutImages
  <2>3. /\ held' \in [Tags -> Images]
        /\ \A t \in Tags : held'[t] # held[t] => t = there /\ tag = there
    BY <1>1, <2>1, <2>2
  <2>4. /\ doubts' \in DoubtTypes /\ \A t \in Tags : doubts[t] \subseteq doubts'[t]
        /\ tag # r.uid => "swapped" \in doubts'[there]
        /\ why \in doubts'[r.uid]
    BY <1>2, <1>4, <1>6
  <2>5. /\ \A t \in Tags : held'[t] # held[t] => doubts'[t] # {}
        /\ why = "failed" => Noticed
    BY <2>3, <2>4 DEF Noticed
  <2>6. \A t \in Tags : doubts'[t] = {} => Contents(held'[t]) = due'[t]
    BY <1>6, <2>4, <2>5 DEF TagInv, TagHoldsItsDue, Contents
  <2> QED BY <1>1, <1>6, <2>3, <2>4, <2>5, <2>6 DEF NtagEffect
<1> QED BY <1>5, <1>6 DEF Pages

LEMMA WritePagesKeeps ==
  ASSUME TagInv, spool.present, NEW r \in Requests, WritePages(r)
  PROVE  /\ NtagEffect(r)
         /\ base' = NoBase \/ (base' = base /\ (~spool'.present \/ Noticed))
<1> DEFINE img == [form |-> "other", main |-> {r.id}, aux |-> {}]
<1>1. r.uid \in NtagTags /\ r.id \in Marks
  BY RequestTyped DEF WritePages, Marks
<1>2. img \in Images
  BY <1>1 DEF Images, Forms
<1>3. Contents(img) = (IF Extends(r) THEN due[r.uid] ELSE {}) \cup {r.id}
  BY DEF Contents, Extends, WritePages
<1>4. Pages(r, img, "failed") /\ base' = base
  BY DEF WritePages
<1> HIDE DEF img
<1> QED BY <1>1, <1>2, <1>3, <1>4, PagesEffect

\* A patch extends the record its tag holds: the baseline is that record, or there is none.
LEMMA PatchKeeps ==
  ASSUME TagInv, spool.present, NEW r \in Requests, Patch(r)
  PROVE  NtagEffect(r) /\ base' = NoBase
<1>1. r.uid \in NtagTags /\ r.uid \in Tags /\ r.id \in Marks /\ r.kind = "patch" /\ r.uid = selected
  BY RequestTyped DEF Patch, PatchAllowed, Marks
<1>2. CASE HasBase(r)
  <2>1. base.img \in Images /\ base.img.form = "ot3d"
    BY <1>2 DEF HasBase, TagInv, TagTypeOK, BaseOfNtag, NoBase
  <2>2. Patched(r) = [base.img EXCEPT !.main = @ \cup {r.id}]
    BY <1>2 DEF Patched
  <2>3. /\ Patched(r) \in Images /\ Patched(r).main = base.img.main \cup {r.id}
        /\ Patched(r).aux = base.img.aux
    BY <1>1, <2>1, <2>2 DEF Images
  <2>4. doubts[r.uid] = {} => base.img = held[r.uid] /\ Contents(base.img) = due[r.uid]
    BY <1>1, <1>2 DEF HasBase, TagInv, BaselineIsTrue, TagHoldsItsDue
  <2>5. doubts[r.uid] = {} => Contents(Patched(r)) = (IF Extends(r) THEN due[r.uid] ELSE {}) \cup {r.id}
    BY <1>1, <2>1, <2>3, <2>4 DEF Contents, Extends
  <2> QED BY <1>1, <2>3, <2>5, PagesEffect DEF Patch
<1>3. CASE ~HasBase(r)
  <2>1. Patched(r) = [form |-> "ot3d", main |-> {r.id}, aux |-> {}]
    BY <1>3 DEF Patched
  <2>2. Patched(r) \in Images /\ Contents(Patched(r)) = {r.id}
    BY <1>1, <2>1 DEF Images, Forms, Contents
  <2>3. ~mime
    BY <1>3 DEF Patch, PatchAllowed
  <2>4. doubts[r.uid] = {} => ~Extends(r)
    BY <1>1, <2>3 DEF Extends, TagInv, SelectedWasRead, MimeIsSeen
  <2> QED BY <1>1, <2>2, <2>4, PagesEffect DEF Patch
<1> QED BY <1>2, <1>3

-----------------------------------------------------------------------------
(* The write queue *)

\* A patch stays staged as long as its request is in the queue.
LEMMA PatchTaken ==
  ASSUME TagTypeOK, queue # <<>>, queue' = Tail(queue),
         \/ patch' = 0
         \/ patch' = patch /\ ~(Head(queue).kind = "patch" /\ patch = Head(queue).id)
  PROVE  /\ queue' \in Seq(Requests)
         /\ patch' = 0 \/ \E i \in DOMAIN queue' : queue'[i].id = patch' /\ queue'[i].kind = "patch"
<1>1. queue \in Seq(Requests) /\ queue' \in Seq(Requests)
  BY DEF TagTypeOK
<1>2. CASE patch' = patch /\ patch # 0 /\ ~(Head(queue).kind = "patch" /\ patch = Head(queue).id)
  <2>1. PICK i \in DOMAIN queue : queue[i].id = patch /\ queue[i].kind = "patch"
    BY <1>2 DEF TagTypeOK
  <2>2. i # 1
    BY <1>2, <2>1
  <2>3. i - 1 \in DOMAIN queue' /\ queue'[i - 1] = queue[i]
    BY <1>1, <2>1, <2>2
  <2> QED BY <1>1, <1>2, <2>1, <2>3
<1> QED BY <1>1, <1>2

LEMMA WriteKeeps ==
  ASSUME TagInv, ProcessWriteQueue
  PROVE  TagInv'
<1> USE DEF TagInv
<1>1. selected' \notin NtagTags /\ selected' \in Tags \cup {NoTag} /\ cache' = NoImage
      /\ UNCHANGED <<tag, posting, posted>>
  BY TagsAssumption DEF ProcessWriteQueue, Tags
<1>2. SelectedWasRead'
  BY <1>1 DEF SelectedWasRead
<1>3. CASE UNCHANGED <<held, spool, base, mime, patch, fields, queue, histVars>>
  <2>1. TagTypeOK'
    BY <1>1, <1>3 DEF TagTypeOK, histVars
  <2>2. /\ SpoolHasUid' /\ CopyOfOpt' /\ BaseOfNtag' /\ MimeIsSeen'
        /\ TagHoldsItsDue' /\ CopyIsTrue' /\ BaselineIsTrue'
    BY <1>3 DEF histVars, SpoolHasUid, CopyOfOpt, BaseOfNtag, MimeIsSeen, TagHoldsItsDue,
                CopyIsTrue, BaselineIsTrue, Contents
  <2> QED BY <1>2, <2>1, <2>2
<1>4. CASE spool.present /\ queue # <<>> /\ ExecuteWrite(Head(queue)) /\ queue' = Tail(queue)
  <2> DEFINE r == Head(queue)
  <2>1. r \in Requests
    BY <1>4 DEF TagTypeOK
  <2>2. \/ patch' = 0
        \/ patch' = patch /\ ~(r.kind = "patch" /\ patch = r.id)
    BY <1>4, <2>1 DEF ExecuteWrite, Replace, Atomic, Update, WritePages, Patch, Refused
  <2>3. /\ queue' \in Seq(Requests)
        /\ patch' = 0 \/ \E i \in DOMAIN queue' : queue'[i].id = patch' /\ queue'[i].kind = "patch"
    BY <1>4, <2>2, PatchTaken
  <2>4. fields' \in Ids \cup {0} /\ (base' = base \/ base' = NoBase) /\ mime' = mime
    BY <1>4 DEF ExecuteWrite, Replace, Atomic, Update, WritePages, Patch, Refused, TagTypeOK
  <2>5. ASSUME held' \in [Tags -> Images], due' \in [Tags -> SUBSET Marks],
               doubts' \in DoubtTypes, spool' \in SpoolTypes
        PROVE  TagTypeOK'
    BY <1>1, <2>3, <2>4, <2>5 DEF TagTypeOK, DoubtTypes, SpoolTypes
  <2> HIDE DEF r
  <2>6. CASE Replace(r) \/ Atomic(r) \/ Update(r)
    <3>1. OptEffect(r) /\ UNCHANGED <<base, mime>>
      BY <1>4, <2>1, <2>6, ReplaceEffect, AtomicEffect, UpdateEffect DEF Replace, Atomic, Update
    <3> QED BY <1>2, <1>4, <2>1, <2>5, <3>1, OptEffectKeeps DEF OptEffect
  <2>7. CASE WritePages(r) \/ Patch(r)
    <3>1. NtagEffect(r) /\ (base' = NoBase \/ (base' = base /\ (~spool'.present \/ Noticed)))
      BY <1>4, <2>1, <2>7, WritePagesKeeps, PatchKeeps
    <3> QED BY <1>2, <1>4, <2>1, <2>4, <2>5, <3>1, NtagEffectKeeps DEF NtagEffect
  <2>8. CASE Refused(r)
    <3>1. UNCHANGED <<held, spool, base, mime, histVars>>
      BY <2>8 DEF Refused
    <3>2. TagTypeOK'
      BY <2>5, <3>1 DEF histVars, TagTypeOK, DoubtTypes, SpoolTypes
    <3> QED BY <1>2, <3>1, <3>2 DEF histVars, SpoolHasUid, CopyOfOpt, BaseOfNtag, MimeIsSeen,
                                    TagHoldsItsDue, CopyIsTrue, BaselineIsTrue, Contents
  <2> QED BY <1>4, <2>6, <2>7, <2>8 DEF ExecuteWrite, r
<1> QED BY <1>3, <1>4 DEF ProcessWriteQueue

-----------------------------------------------------------------------------
(* Requests *)

\* A request that is added to the queue disturbs nothing that is known of the tags.
LEMMA QueueGrows ==
  ASSUME TagInv, PostRest, NEW s \in Seq(Requests), queue' = queue \o s,
         posting' \in Seq(Requests), fields' \in Ids \cup {0}, posted' \in 0..MaxRequests,
         \/ patch' = patch
         \/ \E i \in DOMAIN s : s[i].id = patch' /\ s[i].kind = "patch"
  PROVE  TagInv'
<1> USE DEF TagInv
<1>1. queue \in Seq(Requests) /\ queue' \in Seq(Requests)
  BY DEF TagTypeOK
<1>2. /\ \A i \in DOMAIN queue : i \in DOMAIN queue' /\ queue'[i] = queue[i]
      /\ \A i \in DOMAIN s : Len(queue) + i \in DOMAIN queue' /\ queue'[Len(queue) + i] = s[i]
  BY <1>1
<1>3. patch' = 0 \/ \E i \in DOMAIN queue' : queue'[i].id = patch' /\ queue'[i].kind = "patch"
  <2>1. CASE patch' = patch
    BY <1>2, <2>1 DEF TagTypeOK
  <2>2. CASE \E i \in DOMAIN s : s[i].id = patch' /\ s[i].kind = "patch"
    <3>1. PICK i \in DOMAIN s : s[i].id = patch' /\ s[i].kind = "patch"
      BY <2>2
    <3>2. Len(queue) + i \in DOMAIN queue' /\ queue'[Len(queue) + i] = s[i]
      BY <1>2
    <3> QED BY <3>1, <3>2
  <2> QED BY <2>1, <2>2
<1>4. TagTypeOK'
  BY <1>1, <1>3 DEF TagTypeOK, PostRest, readerVars, pictureVars, histVars
<1> QED BY <1>4 DEF PostRest, readerVars, pictureVars, histVars, SpoolHasUid, CopyOfOpt, BaseOfNtag,
                    MimeIsSeen, SelectedWasRead, TagHoldsItsDue, CopyIsTrue, BaselineIsTrue, Contents

LEMMA PostKeeps ==
  ASSUME TagInv, PostRequest \/ PostPatch \/ FillFields \/ PostAtomic
  PROVE  TagInv'
<1>1. /\ queue \in Seq(Requests) /\ posting \in Seq(Requests) /\ fields \in Ids \cup {0}
      /\ posted \in 0..MaxRequests
  BY DEF TagInv, TagTypeOK
<1>2. \A r \in Requests : <<r>> \in Seq(Requests) /\ Append(queue, r) = queue \o <<r>>
  BY <1>1
<1>3. CASE PostRequest
  <2>1. PICK u \in Tags : \E k \in Kinds(u) \ {"atomic", "patch"} : queue' = Append(queue, NewRequest(u, k))
    BY <1>3 DEF PostRequest
  <2>2. PICK k \in Kinds(u) : queue' = Append(queue, NewRequest(u, k))
    BY <2>1
  <2>3. NewRequest(u, k) \in Requests /\ posted' \in 0..MaxRequests
    BY <1>3, NewRequestTyped DEF TagInv, PostRequest
  <2> QED BY <1>1, <1>2, <1>3, <2>2, <2>3, QueueGrows DEF PostRequest
<1>4. CASE PostPatch
  <2>1. PICK u \in NtagTags : queue' = Append(queue, NewRequest(u, "patch"))
    BY <1>4 DEF PostPatch
  <2>2. u \in Tags /\ "patch" \in Kinds(u)
    BY TagsAssumption DEF Kinds, Tags
  <2>3. NewRequest(u, "patch") \in Requests /\ posted' \in 0..MaxRequests
    BY <1>4, <2>2, NewRequestTyped DEF TagInv, PostPatch
  <2> DEFINE s == <<NewRequest(u, "patch")>>
  <2>4. 1 \in DOMAIN s /\ s[1].id = patch' /\ s[1].kind = "patch"
    BY <1>4 DEF PostPatch, NewRequest
  <2>5. s \in Seq(Requests) /\ queue' = queue \o s
    BY <1>2, <2>1, <2>3
  <2> HIDE DEF s
  <2> QED BY <1>1, <1>4, <2>3, <2>4, <2>5, QueueGrows DEF PostPatch
<1>5. CASE FillFields
  <2>1. PICK u \in OptTags \cup BambuTags : posting' = <<NewRequest(u, "atomic")>>
    BY <1>5 DEF FillFields
  <2>2. u \in Tags /\ "atomic" \in Kinds(u)
    BY TagsAssumption DEF Kinds, Tags
  <2>3. NewRequest(u, "atomic") \in Requests /\ posted' \in 0..MaxRequests
    BY <1>5, <2>2, NewRequestTyped DEF TagInv, FillFields
  <2>4. fields' \in Ids \cup {0}
    BY <1>5, BoundsAssumption DEF FillFields, Posting, Ids, TagInv, TagTypeOK
  <2>5. <<>> \in Seq(Requests) /\ queue' = queue \o <<>>
    BY <1>1, <1>5 DEF FillFields
  <2> QED BY <1>2, <1>5, <2>1, <2>3, <2>4, <2>5, QueueGrows DEF FillFields
<1>6. CASE PostAtomic
  <2>1. posting' \in Seq(Requests)
    BY <1>6 DEF PostAtomic
  <2> QED BY <1>1, <1>6, <2>1, QueueGrows DEF PostAtomic
<1> QED BY <1>3, <1>4, <1>5, <1>6

-----------------------------------------------------------------------------
(* The scan cycle *)

\* Where the types go when a cycle finds a tag.
LEMMA DetectTyped ==
  ASSUME TagInv, Detect, spool' \in SpoolTypes, cache' \in Images \cup {NoImage}, mime' \in BOOLEAN,
         base' \in [uid : Tags, img : Images] \cup {NoBase},
         due' \in [Tags -> SUBSET Marks], doubts' \in DoubtTypes
  PROVE  TagTypeOK'
  BY DEF TagInv, TagTypeOK, Detect, requestVars, SpoolTypes, DoubtTypes

\* A tag without a record takes over the copy, as one that is not valid.
LEMMA NoCopyTyped ==
  ASSUME TagTypeOK, tag \in Tags
  PROVE  NoCopy \in SpoolTypes /\ NoCopy.uid = tag /\ ~NoCopy.valid
<1>1. spool \in SpoolTypes
  BY DEF TagTypeOK, SpoolTypes
<1> QED BY <1>1 DEF NoCopy, SpoolTypes

LEMMA SkipKeeps ==
  ASSUME TagInv, Detect, Skip
  PROVE  TagInv'
<1> USE DEF TagInv
<1>1. tag \in Tags /\ selected' = tag /\ held' = held
  BY DEF Detect, TagTypeOK
<1>2. doubts \in DoubtTypes /\ {"unread"} \in SUBSET Reasons
  BY DEF TagTypeOK, DoubtTypes, Reasons
<1>3. /\ Doubt(doubts, tag, {"unread"}) \in DoubtTypes
      /\ \A t \in Tags : doubts[t] \subseteq Doubt(doubts, tag, {"unread"})[t]
      /\ {"unread"} \subseteq Doubt(doubts, tag, {"unread"})[tag]
  BY <1>1, <1>2, DoubtGrows
<1>4. /\ doubts' \in DoubtTypes /\ \A t \in Tags : doubts[t] \subseteq doubts'[t]
      /\ tag \in NtagTags /\ spool.uid # tag => doubts'[tag] # {}
  BY <1>2, <1>3 DEF Skip
<1>5. UNCHANGED <<spool, cache, base, mime, due>>
  BY DEF Skip, pictureVars
<1>6. TagTypeOK'
  BY <1>4, <1>5, DetectTyped DEF TagTypeOK, SpoolTypes
<1>7. SpoolHasUid' /\ BaseOfNtag' /\ SelectedWasRead' /\ TagHoldsItsDue'
  BY <1>1, <1>4, <1>5 DEF SpoolHasUid, BaseOfNtag, SelectedWasRead, TagHoldsItsDue, Contents
<1>8. CopyOfOpt' /\ CopyIsTrue'
  BY <1>1, <1>4, <1>5 DEF SpoolHasUid, CopyOfOpt, CopyIsTrue
<1>9. MimeIsSeen'
  BY <1>1, <1>4, <1>5 DEF MimeIsSeen, Tags
<1>10. BaselineIsTrue'
  BY <1>1, <1>4, <1>5 DEF BaselineIsTrue, BaseOfNtag, Tags
<1> QED BY <1>6, <1>7, <1>8, <1>9, <1>10

LEMMA ReadOptKeeps ==
  ASSUME TagInv, Detect, ReadOpt
  PROVE  TagInv'
<1> USE DEF TagInv
<1>1. /\ tag \in Tags /\ tag \in OptTags /\ tag \notin NtagTags
      /\ selected' = tag /\ held' = held /\ held[tag] \in Images
  BY TagsAssumption DEF Detect, ReadOpt, TagTypeOK
<1>2. base' = NoBase /\ cache' \in Images
  BY <1>1 DEF ReadOpt
<1>3. mime' \in BOOLEAN
  BY DEF ReadOpt
<1>4. CASE spool' = [uid |-> tag, present |-> TRUE, valid |-> TRUE, img |-> held[tag]] /\ Known
  <2>1. /\ due' \in [Tags -> SUBSET Marks] /\ doubts' \in DoubtTypes
        /\ due'[tag] = Contents(held[tag]) /\ \A t \in Tags : t # tag => due'[t] = due[t]
        /\ \A t \in Tags : t # tag => doubts'[t] = doubts[t]
    BY <1>1, <1>4 DEF Known, TagTypeOK, DoubtTypes, Contents, Images
  <2>2. spool' \in SpoolTypes
    BY <1>1, <1>4 DEF SpoolTypes
  <2>3. TagTypeOK'
    BY <1>2, <1>3, <2>1, <2>2, DetectTyped
  <2>4. /\ spool'.uid = tag /\ spool'.img = held[tag] /\ spool'.img \in Images
    BY <1>1, <1>4
  <2>5. TagHoldsItsDue'
    BY <1>1, <2>1 DEF TagHoldsItsDue, Contents
  <2>6. SpoolHasUid' /\ CopyOfOpt' /\ BaseOfNtag' /\ MimeIsSeen' /\ SelectedWasRead' /\ CopyIsTrue'
    BY <1>1, <1>2, <2>4 DEF SpoolHasUid, CopyOfOpt, BaseOfNtag, MimeIsSeen, SelectedWasRead, CopyIsTrue
  <2>7. BaselineIsTrue'
    BY <1>2 DEF BaselineIsTrue
  <2> QED BY <2>3, <2>5, <2>6, <2>7
<1>5. CASE spool' = NoCopy /\ UNCHANGED histVars
  <2>1. /\ spool' \in SpoolTypes /\ spool'.uid = tag /\ ~spool'.valid
    BY <1>1, <1>5, NoCopyTyped
  <2>2. TagTypeOK'
    BY <1>2, <1>3, <1>5, <2>1, DetectTyped DEF TagTypeOK, DoubtTypes, histVars
  <2>3. SpoolHasUid' /\ CopyOfOpt' /\ BaseOfNtag' /\ MimeIsSeen' /\ SelectedWasRead' /\ CopyIsTrue'
    BY <1>1, <1>2, <2>1 DEF SpoolHasUid, CopyOfOpt, BaseOfNtag, MimeIsSeen, SelectedWasRead, CopyIsTrue
  <2>4. TagHoldsItsDue' /\ BaselineIsTrue'
    BY <1>1, <1>2, <1>5 DEF TagHoldsItsDue, BaselineIsTrue, histVars, Contents
  <2> QED BY <2>2, <2>3, <2>4
<1> QED BY <1>4, <1>5 DEF ReadOpt

LEMMA ReadNtagKeeps ==
  ASSUME TagInv, Detect, ReadNtag
  PROVE  TagInv'
<1> USE DEF TagInv
<1>1. /\ tag \in Tags /\ tag \in NtagTags /\ selected' = tag /\ held' = held
      /\ held[tag] \in Images /\ cache' = cache
  BY DEF Detect, ReadNtag, TagTypeOK
<1>2. mime' = (held[tag].form = "ot3d")
  BY DEF ReadNtag
<1>3. mime' \in BOOLEAN
  BY <1>2
<1>4. \/ base' = NoBase
      \/ base' = [uid |-> tag, img |-> held[tag]] /\ held[tag].form = "ot3d"
  BY DEF ReadNtag
<1>5. /\ due' \in [Tags -> SUBSET Marks] /\ doubts' \in DoubtTypes
      /\ due'[tag] = Contents(held[tag]) /\ \A t \in Tags : t # tag => due'[t] = due[t]
      /\ \A t \in Tags : t # tag => doubts'[t] = doubts[t]
  BY <1>1 DEF ReadNtag, Known, TagTypeOK, DoubtTypes, Contents, Images
<1>6. spool' \in SpoolTypes /\ spool'.uid = tag /\ ~spool'.valid
  BY <1>1, NoCopyTyped DEF ReadNtag
<1>7. TagTypeOK'
  BY <1>1, <1>3, <1>4, <1>5, <1>6, DetectTyped DEF TagTypeOK
<1>8. SpoolHasUid' /\ CopyOfOpt' /\ SelectedWasRead' /\ CopyIsTrue'
  BY <1>1, <1>6 DEF SpoolHasUid, CopyOfOpt, SelectedWasRead, CopyIsTrue
<1>9. MimeIsSeen'
  BY <1>1, <1>2, <1>6 DEF MimeIsSeen
<1>10. BaseOfNtag' /\ BaselineIsTrue'
  BY <1>1, <1>4 DEF BaseOfNtag, BaselineIsTrue
<1>11. TagHoldsItsDue'
  BY <1>1, <1>5 DEF TagHoldsItsDue, Contents
<1> QED BY <1>7, <1>8, <1>9, <1>10, <1>11

LEMMA ReadBambuKeeps ==
  ASSUME TagInv, Detect, ReadBambu
  PROVE  TagInv'
<1> USE DEF TagInv
<1>1. /\ tag \in Tags /\ tag \in BambuTags /\ tag \notin NtagTags /\ selected' = tag
      /\ UNCHANGED <<held, cache, due, doubts>> /\ base' = NoBase
  BY TagsAssumption DEF Detect, ReadBambu, histVars, TagTypeOK
<1>2. mime' \in BOOLEAN
  BY DEF ReadBambu
<1>3. spool' \in SpoolTypes /\ spool'.uid = tag
  <2>1. spool \in SpoolTypes
    BY DEF TagTypeOK, SpoolTypes
  <2> QED BY <1>1, <2>1 DEF ReadBambu, SpoolTypes
<1>4. TagTypeOK'
  BY <1>1, <1>2, <1>3, DetectTyped DEF TagTypeOK, DoubtTypes
<1>5. /\ SpoolHasUid' /\ CopyOfOpt' /\ BaseOfNtag' /\ MimeIsSeen' /\ SelectedWasRead'
      /\ CopyIsTrue' /\ BaselineIsTrue'
  BY <1>1, <1>3 DEF SpoolHasUid, CopyOfOpt, BaseOfNtag, MimeIsSeen, SelectedWasRead, CopyIsTrue,
                    BaselineIsTrue
<1>6. TagHoldsItsDue'
  BY <1>1 DEF TagHoldsItsDue, Contents
<1> QED BY <1>4, <1>5, <1>6

LEMMA ReadNothingKeeps ==
  ASSUME TagInv, Detect, ReadNothing
  PROVE  TagInv'
<1> USE DEF TagInv
<1>1. tag \in Tags /\ selected' = tag /\ held' = held /\ UNCHANGED <<cache, due>> /\ base' = NoBase
  BY DEF Detect, ReadNothing, TagTypeOK
<1>2. mime' \in BOOLEAN
  BY DEF ReadNothing
<1>3. doubts \in DoubtTypes /\ {"unread"} \in SUBSET Reasons
  BY DEF TagTypeOK, DoubtTypes, Reasons
<1>4. /\ Doubt(doubts, tag, {"unread"}) \in DoubtTypes
      /\ \A t \in Tags : doubts[t] \subseteq Doubt(doubts, tag, {"unread"})[t]
      /\ {"unread"} \subseteq Doubt(doubts, tag, {"unread"})[tag]
  BY <1>1, <1>3, DoubtGrows
<1>5. /\ doubts' \in DoubtTypes /\ \A t \in Tags : doubts[t] \subseteq doubts'[t]
      /\ tag \in NtagTags => doubts'[tag] # {}
  BY <1>3, <1>4 DEF ReadNothing
<1>6. spool' \in SpoolTypes /\ spool'.uid = tag /\ ~spool'.valid
  BY <1>1, NoCopyTyped DEF ReadNothing
<1>7. TagTypeOK'
  BY <1>1, <1>2, <1>5, <1>6, DetectTyped DEF TagTypeOK
<1>8. SpoolHasUid' /\ CopyOfOpt' /\ BaseOfNtag' /\ SelectedWasRead' /\ CopyIsTrue' /\ BaselineIsTrue'
  BY <1>1, <1>6 DEF SpoolHasUid, CopyOfOpt, BaseOfNtag, SelectedWasRead, CopyIsTrue, BaselineIsTrue
<1>9. MimeIsSeen'
  BY <1>1, <1>5, <1>6 DEF MimeIsSeen
<1>10. TagHoldsItsDue'
  BY <1>1, <1>5 DEF TagHoldsItsDue, Contents
<1> QED BY <1>7, <1>8, <1>9, <1>10

LEMMA AbsentKeeps ==
  ASSUME TagInv, Absent
  PROVE  TagInv'
<1> USE DEF TagInv
<1>1. /\ UNCHANGED <<tag, selected, held, cache, patch, fields, posting, queue, posted, due, doubts>>
      /\ base' = NoBase /\ spool' = [spool EXCEPT !.present = FALSE]
  BY DEF Absent, readerVars, requestVars, histVars
<1>2. mime' \in BOOLEAN
  BY DEF Absent
<1>3. /\ spool' \in SpoolTypes /\ ~spool'.present /\ spool'.uid = spool.uid
      /\ spool'.valid = spool.valid /\ spool'.img = spool.img
  BY <1>1 DEF TagTypeOK, SpoolTypes
<1>4. TagTypeOK'
  BY <1>1, <1>2, <1>3 DEF TagTypeOK, SpoolTypes
<1>5. SpoolHasUid' /\ CopyOfOpt' /\ BaseOfNtag' /\ MimeIsSeen' /\ CopyIsTrue' /\ BaselineIsTrue'
  BY <1>1, <1>3 DEF SpoolHasUid, CopyOfOpt, BaseOfNtag, MimeIsSeen, CopyIsTrue, BaselineIsTrue
<1>6. SelectedWasRead' /\ TagHoldsItsDue'
  BY <1>1, <1>3 DEF SelectedWasRead, TagHoldsItsDue, Contents
<1> QED BY <1>4, <1>5, <1>6

LEMMA MoveKeeps ==
  ASSUME TagInv, MoveTag \/ UNCHANGED tagVars
  PROVE  TagInv'
<1>1. /\ tag' \in Tags \cup {NoTag}
      /\ UNCHANGED <<selected, held, spool, cache, base, mime, patch, fields, posting, queue,
                     posted, due, doubts>>
  BY DEF TagInv, TagTypeOK, MoveTag, tagVars, readerVars, pictureVars, requestVars, histVars
<1>2. TagTypeOK'
  BY <1>1 DEF TagInv, TagTypeOK
<1> QED BY <1>1, <1>2 DEF TagInv, SpoolHasUid, CopyOfOpt, BaseOfNtag, MimeIsSeen, SelectedWasRead,
                          TagHoldsItsDue, CopyIsTrue, BaselineIsTrue, Contents

-----------------------------------------------------------------------------
LEMMA InitKeeps ==
  ASSUME TagInit
  PROVE  TagInv
<1>1. PICK forms \in Delivered : held = [t \in Tags |-> Original(t, forms[t])]
  BY DEF TagInit
<1>2. \A t \in Tags : held[t] \in Images
  <2> TAKE t \in Tags
  <2>1. forms[t] \in Forms /\ t \in Marks
    BY TagsAssumption DEF Marks
  <2> QED BY <1>1, <2>1 DEF Original, Images
<1>3. held \in [Tags -> Images] /\ \A t \in Tags : Contents(held[t]) \in SUBSET Marks
  BY <1>1, <1>2 DEF Contents, Images
<1>4. /\ due \in [Tags -> SUBSET Marks] /\ doubts \in DoubtTypes
      /\ \A t \in Tags : due[t] = Contents(held[t])
  BY <1>3 DEF TagInit, DoubtTypes
<1>5. spool.uid = NoTag /\ ~spool.present /\ ~spool.valid /\ spool \in SpoolTypes
  BY DEF TagInit, SpoolTypes
<1>6. mime \in BOOLEAN
  BY DEF TagInit
<1>7. TagTypeOK
  BY <1>3, <1>4, <1>5, <1>6, BoundsAssumption DEF TagInit, TagTypeOK, SpoolTypes, DoubtTypes
<1>8. /\ SpoolHasUid /\ CopyOfOpt /\ BaseOfNtag /\ MimeIsSeen /\ TagHoldsItsDue
      /\ CopyIsTrue /\ BaselineIsTrue
  BY <1>4, <1>5 DEF TagInit, SpoolHasUid, CopyOfOpt, BaseOfNtag, MimeIsSeen, TagHoldsItsDue,
                    CopyIsTrue, BaselineIsTrue
<1>9. SelectedWasRead
  <2>1. NoTag \notin NtagTags
    BY TagsAssumption DEF Tags
  <2> QED BY <2>1 DEF TagInit, SelectedWasRead
<1> QED BY <1>7, <1>8, <1>9 DEF TagInv

LEMMA StepKeeps ==
  ASSUME TagInv, [TagNext]_tagVars
  PROVE  TagInv'
<1>1. CASE PostRequest \/ PostPatch \/ FillFields \/ PostAtomic
  BY <1>1, PostKeeps
<1>2. CASE Detect
  BY <1>2, SkipKeeps, ReadOptKeeps, ReadNtagKeeps, ReadBambuKeeps, ReadNothingKeeps DEF Detect
<1> QED BY <1>1, <1>2, MoveKeeps, AbsentKeeps, WriteKeeps DEF TagNext

\* TagInv is an invariant of the write path: NFCManager's executors, the scan cycle that
\* refreshes their pictures of the tags, and the tasks that post requests.
THEOREM TagInvariant == TagSpec => []TagInv
<1>1. TagInit => TagInv
  BY InitKeeps
<1>2. TagInv /\ [TagNext]_tagVars => TagInv'
  BY StepKeeps
<1> QED BY <1>1, <1>2, PTL DEF TagSpec

\* Every variable keeps its type, and a staged OpenTag3D patch has its request in the queue,
\* so that its slot is given back (enqueueOpenTag3DPatch, executeOpenTag3DWrite).
THEOREM PatchSlotIsFreed == TagSpec => []TagTypeOK
<1>1. TagInv => TagTypeOK
  BY DEF TagInv
<1> QED BY <1>1, TagInvariant, PTL

\* A tag holds exactly the changes that were reported as done for it, unless one of Reasons
\* came over it: no executor writes one tag's data to another (WriteUidGuard.h).
THEOREM TagHoldsDue == TagSpec => []TagHoldsItsDue
<1>1. TagInv => TagHoldsItsDue
  BY DEF TagInv
<1> QED BY <1>1, TagInvariant, PTL

\* The copy in currentSpool that field updates start from is what the tag it is filed under
\* holds, unless that is a Bambu tag (executeWrite, readAndParseTag, handleNewTag).
THEOREM CopiesTrue == TagSpec => []CopyIsTrue
<1>1. TagInv => CopyIsTrue
  BY DEF TagInv
<1> QED BY <1>1, TagInvariant, PTL

\* An OpenTag3D baseline is what its tag holds, also after a patch that broke off: it is given
\* up before the first page is written (executeOpenTag3DWrite).
THEOREM BaselinesTrue == TagSpec => []BaselineIsTrue
<1>1. TagInv => BaselineIsTrue
  BY DEF TagInv
<1> QED BY <1>1, TagInvariant, PTL
=============================================================================
