---------------------------- MODULE SourcesProofs ----------------------------
(***************************************************************************)
(* Source IDs, receipts and annotations, for every number of raw files,    *)
(* clients, edits and pipeline runs.                                       *)
(***************************************************************************)
EXTENDS MCSources, FiniteSetTheorems, TLAPS

(* Everything about a source ID is about the raw file it was derived from.  *)
RawOf(i) == i[1]

Annotations == [gen : Nat, raw : Raws \cup {None}, body : Bodies]
Fingerprints == Texts \X Bodies
SourceRecords == [raw : Raws \cup {None}, text : Texts \cup {None}, body : Bodies \cup {None},
                  failed : Fingerprints \cup {None}]
Uploads == [raw : Raws, text : Texts, seen : Texts \cup {None}]
Edits == [id : Ids, gen : Nat]
Snapshotted == [id : Ids, raw : Raws, text : Texts \cup {None}, body : Bodies, tombstone : BOOLEAN]
PageMaps == {p \in [Ids -> Raws \cup {None}] : \A i \in Ids : p[i] \in {None, RawOf(i)}}
ReceiptMaps == {rs \in [Ids -> SourceRecords] : \A i \in Ids :
                   rs[i] = NoReceipt \/ rs[i].raw = RawOf(i)}
Wikis == [ids : PageMaps, made : [Raws -> Fingerprints \cup {None}], status : SUBSET Raws]
Stages == {"idle", "raws", "annotations", "synto", "commit", "committed", "failed", "merged"}
Works == [at : Stages, kind : RunKinds \cup {"none"}, raw : [Raws -> Texts \cup {None}],
          ann : [Ids -> Annotations], snap : SUBSET Snapshotted, wiki : Wikis,
          late : SUBSET Raws, merge : ReceiptMaps]

SourceTypeOK ==
    /\ raw \in [Raws -> Texts \cup {None}]
    /\ ann \in [Ids -> Annotations]
    /\ receipts \in ReceiptMaps
    /\ wiki \in Wikis
    /\ work \in Works
    /\ upload \in [Clients -> Uploads \cup {NoUpload}]
    /\ edit \in [Clients -> Edits \cup {NoEdit}]
    /\ runs \in 0 .. MaxRuns /\ (work.at # "idle" => runs # 0)
    /\ back \subseteq Raws

(* A snapshot describes the copies the run has made. *)
SnapsTrue == \A s \in work.snap : s = Snapshot(s.id, RawOf(s.id))

-----------------------------------------------------------------------------
(* IDs and receipts *)

OnePage(pages) == \A i, j \in Ids : pages[i] # None /\ pages[i] = pages[j] => i = j

(* A page of a raw file with a receipt has the receipt's ID. *)
Agree(pages, rs) ==
    \A i \in Recorded(rs), j \in Ids :
        pages[j] = RawOf(i) => j = i \/ RawOf(i) \in back

OneReceipt(rs) ==
    \A i, j \in Recorded(rs) : RawOf(i) = RawOf(j) => i = j \/ RawOf(i) \in back

(* A source with a receipt has its page as long as its raw file is there. *)
PageKept(pages, texts) ==
    \A i \in Recorded(receipts) :
        texts[RawOf(i)] # None /\ RawOf(i) \notin back => pages[i] = RawOf(i)

(* What a run copied holds every raw file with a receipt that is there now. *)
CopySees ==
    \A i \in Recorded(receipts) :
        raw[RawOf(i)] # None /\ RawOf(i) \notin back => work.raw[RawOf(i)] # None

SnapsKnown(pages) ==
    \A s \in work.snap : s.tombstone \/ s.id \in Recorded(receipts) \/ pages[s.id] = s.raw

BaseInv ==
    /\ OnePage(wiki.ids)
    /\ \A i \in Recorded(receipts) : validCloudReceipt(receipts[i])
    /\ Agree(wiki.ids, receipts) /\ OneReceipt(receipts) /\ PageKept(wiki.ids, raw)

(* What a run may rely on at each of its stages. *)
IdsInv ==
    /\ BaseInv
    /\ work.at \in {"raws", "annotations"} => CopySees /\ PageKept(wiki.ids, work.raw)
    /\ work.at \in {"raws", "annotations"} => work.snap = {}
    /\ work.at = "synto" =>
           /\ work.wiki = IF work.kind = "clean" THEN NoWiki ELSE wiki
           /\ CopySees /\ SnapsKnown(wiki.ids)
           /\ \A s \in work.snap : \A i \in Recorded(receipts) :
                  s.raw = RawOf(i) => s.id = i \/ s.raw \in back
           /\ \A i \in Recorded(receipts) :
                  work.raw[RawOf(i)] # None /\ RawOf(i) \notin back => \E s \in work.snap : s.id = i
    /\ work.at = "commit" =>
           /\ OnePage(work.wiki.ids) /\ Agree(work.wiki.ids, receipts)
           /\ PageKept(work.wiki.ids, raw) /\ SnapsKnown(work.wiki.ids)
    /\ work.at \in {"committed", "failed"} => SnapsKnown(wiki.ids)
    /\ work.at = "merged" =>
           \A i \in Recorded(work.merge) :
               /\ validCloudReceipt(work.merge[i])
               /\ i \in Recorded(receipts) \/ wiki.ids[i] = RawOf(i)

-----------------------------------------------------------------------------
(* Receipts and what was ingested *)

Ingested(rs) ==
    \A i \in Ids : ValidReceipt(rs[i], rs[i].raw) =>
        <<rs[i].raw, <<rs[i].text, rs[i].body>>>> \in ingested

TruthInv ==
    /\ Ingested(receipts)
    /\ work.at = "commit" => \A s \in work.snap : ~s.tombstone =>
           s.raw \in work.wiki.status /\ work.wiki.made[s.raw] = <<s.text, s.body>>
    /\ work.at = "committed" => \A s \in work.snap : ~s.tombstone =>
           <<s.raw, <<s.text, s.body>>>> \in ingested
    /\ work.at = "merged" => Ingested(work.merge)

IdInv == SourceTypeOK /\ SnapsTrue /\ IdsInv

-----------------------------------------------------------------------------
(* Records, field by field *)

LEMMA AtReplaced ==
    ASSUME NEW w \in Works, NEW at \in Stages
    PROVE  LET n == [w EXCEPT !.at = at] IN
           /\ n \in Works /\ n.at = at /\ n.kind = w.kind /\ n.raw = w.raw /\ n.ann = w.ann
           /\ n.snap = w.snap /\ n.wiki = w.wiki /\ n.late = w.late /\ n.merge = w.merge
BY DEF Works

LEMMA KindReplaced ==
    ASSUME NEW w \in Works, NEW kind \in RunKinds \cup {"none"}
    PROVE  LET n == [w EXCEPT !.kind = kind] IN
           /\ n \in Works /\ n.at = w.at /\ n.kind = kind /\ n.raw = w.raw /\ n.ann = w.ann
           /\ n.snap = w.snap /\ n.wiki = w.wiki /\ n.late = w.late /\ n.merge = w.merge
BY DEF Works

LEMMA RawReplaced ==
    ASSUME NEW w \in Works, NEW texts \in [Raws -> Texts \cup {None}]
    PROVE  LET n == [w EXCEPT !.raw = texts] IN
           /\ n \in Works /\ n.at = w.at /\ n.kind = w.kind /\ n.raw = texts /\ n.ann = w.ann
           /\ n.snap = w.snap /\ n.wiki = w.wiki /\ n.late = w.late /\ n.merge = w.merge
BY DEF Works

LEMMA AnnReplaced ==
    ASSUME NEW w \in Works, NEW notes \in [Ids -> Annotations]
    PROVE  LET n == [w EXCEPT !.ann = notes] IN
           /\ n \in Works /\ n.at = w.at /\ n.kind = w.kind /\ n.raw = w.raw /\ n.ann = notes
           /\ n.snap = w.snap /\ n.wiki = w.wiki /\ n.late = w.late /\ n.merge = w.merge
BY DEF Works

LEMMA SnapReplaced ==
    ASSUME NEW w \in Works, NEW snaps \in SUBSET Snapshotted
    PROVE  LET n == [w EXCEPT !.snap = snaps] IN
           /\ n \in Works /\ n.at = w.at /\ n.kind = w.kind /\ n.raw = w.raw /\ n.ann = w.ann
           /\ n.snap = snaps /\ n.wiki = w.wiki /\ n.late = w.late /\ n.merge = w.merge
BY DEF Works

LEMMA WikiReplaced ==
    ASSUME NEW w \in Works, NEW next \in Wikis
    PROVE  LET n == [w EXCEPT !.wiki = next] IN
           /\ n \in Works /\ n.at = w.at /\ n.kind = w.kind /\ n.raw = w.raw /\ n.ann = w.ann
           /\ n.snap = w.snap /\ n.wiki = next /\ n.late = w.late /\ n.merge = w.merge
BY DEF Works

LEMMA LateReplaced ==
    ASSUME NEW w \in Works, NEW files \in SUBSET Raws
    PROVE  LET n == [w EXCEPT !.late = files] IN
           /\ n \in Works /\ n.at = w.at /\ n.kind = w.kind /\ n.raw = w.raw /\ n.ann = w.ann
           /\ n.snap = w.snap /\ n.wiki = w.wiki /\ n.late = files /\ n.merge = w.merge
BY DEF Works

LEMMA MergeReplaced ==
    ASSUME NEW w \in Works, NEW rs \in ReceiptMaps
    PROVE  LET n == [w EXCEPT !.merge = rs] IN
           /\ n \in Works /\ n.at = w.at /\ n.kind = w.kind /\ n.raw = w.raw /\ n.ann = w.ann
           /\ n.snap = w.snap /\ n.wiki = w.wiki /\ n.late = w.late /\ n.merge = rs
BY DEF Works

LEMMA IdsHaveRaws == \A i \in Ids : RawOf(i) \in Raws
BY DEF Ids, RawOf

LEMMA NoReceiptShape ==
    /\ NoReceipt \in SourceRecords /\ NoReceipt.raw = None /\ NoReceipt.text = None
    /\ NoReceipt.body = None /\ NoReceipt.failed = None
BY DEF NoReceipt, SourceRecords

LEMMA NoWikiShape ==
    /\ NoWiki \in Wikis /\ NoWiki.ids = NoPages
    /\ \A i \in Ids : NoPages[i] = None
BY DEF NoWiki, Wikis, NoPages, PageMaps

LEMMA NoWorkShape ==
    /\ NoWork \in Works /\ NoWork.at = "idle" /\ NoWork.snap = {}
    /\ NoWork.raw = [r \in Raws |-> None]
<1>1. [i \in Ids |-> NoReceipt] \in ReceiptMaps
  BY NoReceiptShape DEF ReceiptMaps
<1>2. NoAnnotation \in Annotations
  BY SourceAssumption DEF NoAnnotation, Annotations
<1> QED
  BY <1>1, <1>2, NoWikiShape DEF NoWork, Works, Stages

(* Recorded receipts name the raw file of their ID.                         *)
LEMMA RecordedRaw ==
    ASSUME NEW rs \in ReceiptMaps, NEW i \in Recorded(rs)
    PROVE  i \in Ids /\ rs[i] \in SourceRecords /\ rs[i].raw = RawOf(i)
BY DEF Recorded, ReceiptMaps

LEMMA SourceInitial == SourceInit => IdInv
<1> SUFFICES ASSUME SourceInit PROVE IdInv
  OBVIOUS
<1>1. receipts \in ReceiptMaps /\ Recorded(receipts) = {}
  BY NoReceiptShape DEF SourceInit, ReceiptMaps, Recorded
<1>2. NoAnnotation \in Annotations
  BY SourceAssumption DEF NoAnnotation, Annotations
<1>3. SourceTypeOK
  BY <1>1, <1>2, NoWikiShape, NoWorkShape, SourceAssumption DEF SourceInit, SourceTypeOK
<1>4. SnapsTrue
  BY NoWorkShape DEF SourceInit, SnapsTrue
<1>5. IdsInv
  BY <1>1, NoWikiShape, NoWorkShape
     DEF SourceInit, IdsInv, BaseInv, OnePage, Agree, OneReceipt, PageKept
<1> QED
  BY <1>3, <1>4, <1>5 DEF IdInv

-----------------------------------------------------------------------------
(* Requests of users *)

(* Whatever users do, a raw file that is there was there before, or has     *)
(* come back, or has no receipt; the run's copies are its own.              *)
LEMMA UserFrame ==
    ASSUME IdInv, UNCHANGED <<receipts, wiki>>, back \subseteq back',
           work'.at = work.at, work'.kind = work.kind, work'.raw = work.raw,
           work'.ann = work.ann, work'.snap = work.snap, work'.wiki = work.wiki,
           work'.merge = work.merge,
           \A i \in Recorded(receipts) :
               raw'[RawOf(i)] # None /\ RawOf(i) \notin back' => raw[RawOf(i)] # None
    PROVE  SnapsTrue' /\ IdsInv'
<1>1. SnapsTrue'
  BY DEF IdInv, SnapsTrue, Snapshot, Digest
<1> USE DEF IdInv, IdsInv, BaseInv
<1>2. Recorded(receipts') = Recorded(receipts)
  OBVIOUS
<1>3. OneReceipt(receipts)'
  BY <1>2 DEF OneReceipt
<1>4. Agree(wiki.ids, receipts)' /\ (work.at = "commit" => Agree(work.wiki.ids, receipts)')
  BY <1>2 DEF Agree
<1>5. /\ PageKept(wiki.ids, raw)'
      /\ work.at \in {"raws", "annotations"} => PageKept(wiki.ids, work.raw)'
      /\ work.at = "commit" => PageKept(work.wiki.ids, raw)'
  BY <1>2 DEF PageKept
<1>6. work.at \in {"raws", "annotations", "synto"} => CopySees'
  BY <1>2 DEF CopySees
<1>7. /\ work.at = "synto" => SnapsKnown(wiki.ids)'
      /\ work.at = "commit" => SnapsKnown(work.wiki.ids)'
      /\ work.at \in {"committed", "failed"} => SnapsKnown(wiki.ids)'
  BY <1>2 DEF SnapsKnown
<1>8. OnePage(wiki.ids)' /\ (work.at = "commit" => OnePage(work.wiki.ids)')
  BY DEF OnePage
<1>9. work'.at = "synto" =>
        /\ work'.wiki = IF work'.kind = "clean" THEN NoWiki ELSE wiki'
        /\ \A s \in work'.snap : \A i \in Recorded(receipts') :
               s.raw = RawOf(i) => s.id = i \/ s.raw \in back'
        /\ \A i \in Recorded(receipts') :
               work'.raw[RawOf(i)] # None /\ RawOf(i) \notin back' => \E s \in work'.snap : s.id = i
  BY <1>2
<1>10. work'.at = "merged" =>
           \A i \in Recorded(work'.merge) :
               /\ validCloudReceipt(work'.merge[i])
               /\ i \in Recorded(receipts') \/ wiki'.ids[i] = RawOf(i)
  BY <1>2
<1>11. \A i \in Recorded(receipts') : validCloudReceipt(receipts'[i])
  BY <1>2
<1>12. work'.at \in {"raws", "annotations"} => work'.snap = {}
  OBVIOUS
<1>13. IdsInv'
  BY <1>3, <1>4, <1>5, <1>6, <1>7, <1>8, <1>9, <1>10, <1>11, <1>12
<1> QED
  BY <1>1, <1>13

LEMMA UploadChecksStep ==
    ASSUME IdInv, NEW c \in Clients, NEW r \in Raws, NEW t \in Texts, UploadChecks(c, r, t)
    PROVE  IdInv'
<1>1. [raw |-> r, text |-> t, seen |-> raw[r]] \in Uploads
  BY DEF IdInv, SourceTypeOK, Uploads
<1>2. SourceTypeOK'
  BY <1>1 DEF UploadChecks, IdInv, SourceTypeOK
<1>3. SnapsTrue' /\ IdsInv'
  BY UserFrame DEF UploadChecks
<1> QED
  BY <1>2, <1>3 DEF IdInv

LEMMA UploadWritesStep ==
    ASSUME IdInv, NEW c \in Clients, NEW overwrite \in BOOLEAN, UploadWrites(c, overwrite)
    PROVE  IdInv'
<1> DEFINE u == upload[c]
<1>1. u \in Uploads /\ u.raw \in Raws /\ u.text \in Texts
  BY DEF UploadWrites, IdInv, SourceTypeOK, Uploads
<1>2. /\ UNCHANGED <<ann, receipts, wiki, edit, runs>>
      /\ upload' = [upload EXCEPT ![c] = NoUpload]
  BY DEF UploadWrites
<1>3. CASE UNCHANGED <<raw, late, work, back>>
  <2>1. SourceTypeOK'
    BY <1>2, <1>3 DEF IdInv, SourceTypeOK
  <2>2. SnapsTrue' /\ IdsInv'
    BY <1>2, <1>3, UserFrame
  <2> QED
    BY <2>1, <2>2 DEF IdInv
<1>4. CASE /\ raw' = [raw EXCEPT ![u.raw] = u.text]
           /\ back' = IF raw[u.raw] = None /\ \E i \in Ids : receipts[i].raw = u.raw
                      THEN back \cup {u.raw} ELSE back
           /\ work' = IF work.at = "commit" THEN [work EXCEPT !.late = @ \cup {u.raw}] ELSE work
  <2>1. /\ work' \in Works
        /\ work'.at = work.at /\ work'.kind = work.kind /\ work'.raw = work.raw
        /\ work'.ann = work.ann /\ work'.snap = work.snap /\ work'.wiki = work.wiki
        /\ work'.merge = work.merge
    <3>1. work \in Works /\ work.late \cup {u.raw} \in SUBSET Raws
      BY <1>1 DEF IdInv, SourceTypeOK, Works
    <3> QED
      BY <1>4, <3>1, LateReplaced
  <2>2. raw' \in [Raws -> Texts \cup {None}] /\ back \subseteq back' /\ back' \subseteq Raws
    BY <1>1, <1>4 DEF IdInv, SourceTypeOK
  <2>3. SourceTypeOK'
    BY <1>2, <2>1, <2>2 DEF IdInv, SourceTypeOK
  <2>4. ASSUME NEW i \in Recorded(receipts), raw'[RawOf(i)] # None, RawOf(i) \notin back'
        PROVE  raw[RawOf(i)] # None
    <3>1. i \in Ids /\ receipts[i].raw = RawOf(i) /\ RawOf(i) \in Raws
      BY <2>4, RecordedRaw, IdsHaveRaws DEF IdInv, SourceTypeOK
    <3>2. CASE RawOf(i) = u.raw
      BY <1>4, <2>4, <3>1, <3>2
    <3>3. CASE RawOf(i) # u.raw
      BY <1>4, <2>4, <3>1, <3>3 DEF IdInv, SourceTypeOK
    <3> QED
      BY <3>2, <3>3
  <2>5. SnapsTrue' /\ IdsInv'
    BY <1>2, <2>1, <2>2, <2>4, UserFrame
  <2> QED
    BY <2>3, <2>5 DEF IdInv
<1> QED
  BY <1>3, <1>4 DEF UploadWrites

LEMMA RemoveRawStep ==
    ASSUME IdInv, NEW r \in Removable, RemoveRaw(r)
    PROVE  IdInv'
<1>1. raw' = [raw EXCEPT ![r] = None] /\ UNCHANGED <<ann, receipts, wiki, work, upload, edit, runs, back>>
  BY DEF RemoveRaw
<1>2. SourceTypeOK'
  BY <1>1 DEF IdInv, SourceTypeOK
<1>3. \A i \in Recorded(receipts) : raw'[RawOf(i)] # None => raw[RawOf(i)] # None
  BY <1>1, RecordedRaw, IdsHaveRaws DEF IdInv, SourceTypeOK
<1>4. SnapsTrue' /\ IdsInv'
  BY <1>1, <1>3, UserFrame
<1> QED
  BY <1>2, <1>4 DEF IdInv

LEMMA GetAnnotationStep ==
    ASSUME IdInv, NEW c \in Clients, NEW i \in Ids, GetAnnotation(c, i)
    PROVE  IdInv'
<1>1. [id |-> i, gen |-> ann[i].gen] \in Edits
  BY DEF IdInv, SourceTypeOK, Annotations, Edits
<1>2. SourceTypeOK'
  BY <1>1 DEF GetAnnotation, IdInv, SourceTypeOK
<1>3. SnapsTrue' /\ IdsInv'
  BY UserFrame DEF GetAnnotation
<1> QED
  BY <1>2, <1>3 DEF IdInv

(* What PutAnnotation compares has the form it expects.                     *)
NotesInv ==
    /\ ann = [i \in Ids |-> ann[i]] /\ \A i \in Ids : ann[i].gen \in Nat
    /\ edit \in [Clients -> Edits \cup {NoEdit}]

(* PutAnnotation writes the source the client has fetched, at the           *)
(* generation it has fetched.                                               *)
LEMMA PutShape ==
    ASSUME NotesInv, NEW c \in Clients, NEW b \in Bodies, PutAnnotation(c, b)
    PROVE  LET i == edit[c].id
               written == [gen |-> ann[i].gen + 1, raw |-> wiki.ids[i], body |-> b]
           IN  /\ i \in Ids /\ edit[c] = [id |-> i, gen |-> ann[i].gen]
               /\ ann' = [ann EXCEPT ![i] = written]
               /\ edit' = [edit EXCEPT ![c] = [id |-> i, gen |-> ann[i].gen + 1]]
<1> DEFINE i == edit[c].id
           written == [gen |-> ann[i].gen + 1, raw |-> wiki.ids[i], body |-> b]
<1>1. edit[c] \in Edits
  BY DEF PutAnnotation, NotesInv
<1>2. i \in Ids /\ edit[c] = [id |-> i, gen |-> edit[c].gen] /\ edit[c].gen \in Nat
  BY <1>1 DEF Edits
<1>3. ann[i].gen = edit[c].gen
  BY DEF PutAnnotation
<1>4. ann' = [ann EXCEPT ![i] = written]
  BY DEF PutAnnotation
<1>5. edit' = [edit EXCEPT ![c] = [id |-> i, gen |-> ann[i].gen + 1]]
  <2>1. edit' = [edit EXCEPT ![c] = [edit[c] EXCEPT !.gen = edit[c].gen + 1]]
    BY DEF PutAnnotation, NotesInv
  <2>2. [edit[c] EXCEPT !.gen = edit[c].gen + 1] = [id |-> i, gen |-> ann[i].gen + 1]
    BY <1>1, <1>2, <1>3 DEF Edits
  <2> QED
    BY <2>1, <2>2
<1> QED
  BY <1>2, <1>3, <1>4, <1>5

LEMMA PutAnnotationStep ==
    ASSUME IdInv, NEW c \in Clients, NEW b \in Bodies, PutAnnotation(c, b)
    PROVE  IdInv'
<1> DEFINE i == edit[c].id
           written == [gen |-> ann[i].gen + 1, raw |-> wiki.ids[i], body |-> b]
           held == [id |-> i, gen |-> ann[i].gen + 1]
<1>0. NotesInv
  BY DEF IdInv, SourceTypeOK, Annotations, NotesInv
<1>1. i \in Ids /\ ann' = [ann EXCEPT ![i] = written] /\ edit' = [edit EXCEPT ![c] = held]
  BY <1>0, PutShape
<1>2. held \in Edits /\ written \in Annotations
  <2>1. ann[i].gen \in Nat /\ wiki.ids[i] \in Raws \cup {None}
    BY <1>0, <1>1 DEF NotesInv, IdInv, SourceTypeOK, Wikis, PageMaps
  <2> QED
    BY <1>1, <2>1 DEF Annotations, Edits
<1>3. UNCHANGED <<raw, receipts, wiki, work, upload, runs, back>>
  BY DEF PutAnnotation
<1> HIDE DEF i, written, held
<1>4. SourceTypeOK'
  BY <1>1, <1>2, <1>3 DEF IdInv, SourceTypeOK
<1>5. SnapsTrue' /\ IdsInv'
  BY <1>3, UserFrame
<1> QED
  BY <1>4, <1>5 DEF IdInv

-----------------------------------------------------------------------------
(* The run up to Synto *)

LEMMA BaseKept ==
    ASSUME IdInv, UNCHANGED <<raw, receipts, wiki, back>>
    PROVE  BaseInv'
BY DEF IdInv, IdsInv, BaseInv, OnePage, Agree, OneReceipt, PageKept

LEMMA TypeKept ==
    ASSUME SourceTypeOK, UserUnchanged, receipts' \in ReceiptMaps, wiki' \in Wikis,
           work' \in Works, runs' \in 0 .. MaxRuns, work'.at # "idle" => runs' # 0
    PROVE  SourceTypeOK'
BY DEF SourceTypeOK, UserUnchanged

(* A run that is over leaves nothing behind in its workspace.               *)
LEMMA RunEnds ==
    ASSUME IdInv, UserUnchanged, UNCHANGED <<receipts, wiki, runs>>, work' = NoWork
    PROVE  IdInv'
<1>1. SourceTypeOK'
  BY NoWorkShape, TypeKept DEF IdInv, SourceTypeOK
<1>2. BaseInv'
  BY BaseKept DEF UserUnchanged
<1> QED
  BY <1>1, <1>2, NoWorkShape DEF IdInv, SnapsTrue, IdsInv

LEMMA StartRunStep ==
    ASSUME IdInv, NEW kind \in RunKinds, StartRun(kind)
    PROVE  IdInv'
<1> DEFINE w1 == [NoWork EXCEPT !.at = "raws"]
           w2 == [w1 EXCEPT !.kind = kind]
           w3 == [w2 EXCEPT !.raw = raw]
<1>1. w1 \in Works /\ w1.at = "raws" /\ w1.snap = {}
  BY NoWorkShape, AtReplaced DEF Stages
<1> HIDE DEF w1
<1>2. w2 \in Works /\ w2.at = "raws" /\ w2.snap = {}
  BY <1>1, KindReplaced
<1> HIDE DEF w2
<1>3. w3 \in Works /\ w3.at = "raws" /\ w3.snap = {} /\ w3.raw = raw
  BY <1>2, RawReplaced DEF IdInv, SourceTypeOK
<1> HIDE DEF w3
<1>4. work' = w3 /\ UserUnchanged /\ UNCHANGED <<receipts, wiki>> /\ runs' = runs + 1 /\ runs < MaxRuns
  BY DEF StartRun, w1, w2, w3
<1>5. runs' \in 0 .. MaxRuns /\ runs' # 0
  BY <1>4, SourceAssumption DEF IdInv, SourceTypeOK
<1>6. SourceTypeOK'
  BY <1>3, <1>4, <1>5, TypeKept DEF IdInv, SourceTypeOK
<1>7. BaseInv'
  BY <1>4, BaseKept DEF UserUnchanged
<1>8. raw' = raw /\ back' = back /\ receipts' = receipts /\ wiki' = wiki
  BY <1>4 DEF UserUnchanged
<1>9. CopySees' /\ PageKept(wiki.ids, work.raw)'
  BY <1>3, <1>4, <1>8 DEF CopySees, PageKept, IdInv, IdsInv, BaseInv
<1> QED
  BY <1>3, <1>4, <1>6, <1>7, <1>9 DEF IdInv, SnapsTrue, IdsInv

LEMMA CopyAnnotationsStep ==
    ASSUME IdInv, CopyAnnotations
    PROVE  IdInv'
<1> DEFINE w1 == [work EXCEPT !.at = "annotations"]
           w2 == [w1 EXCEPT !.ann = ann]
<1>0. work \in Works /\ work.at = "raws"
  BY DEF CopyAnnotations, IdInv, SourceTypeOK
<1>1. w1 \in Works /\ w1.at = "annotations" /\ w1.snap = work.snap /\ w1.raw = work.raw
  BY <1>0, AtReplaced DEF Stages
<1> HIDE DEF w1
<1>2. w2 \in Works /\ w2.at = "annotations" /\ w2.snap = work.snap /\ w2.raw = work.raw
  BY <1>1, AnnReplaced DEF IdInv, SourceTypeOK
<1> HIDE DEF w2
<1>3. work' = w2 /\ UserUnchanged /\ UNCHANGED <<receipts, wiki, runs>>
  BY DEF CopyAnnotations, w1, w2
<1>4. SourceTypeOK'
  BY <1>0, <1>2, <1>3, TypeKept DEF IdInv, SourceTypeOK
<1>5. BaseInv'
  BY <1>3, BaseKept DEF UserUnchanged
<1>6. raw' = raw /\ back' = back /\ receipts' = receipts /\ wiki' = wiki
  BY <1>3 DEF UserUnchanged
<1>7. CopySees' /\ PageKept(wiki.ids, work.raw)' /\ work'.snap = {}
  BY <1>0, <1>2, <1>3, <1>6 DEF CopySees, PageKept, IdInv, IdsInv
<1> QED
  BY <1>2, <1>3, <1>4, <1>5, <1>7 DEF IdInv, SnapsTrue, IdsInv

LEMMA SnapshotShape ==
    ASSUME SourceTypeOK, NEW i \in Ids
    PROVE  LET s == Snapshot(i, RawOf(i)) IN
           /\ s \in Snapshotted /\ s.id = i /\ s.raw = RawOf(i) /\ s.text = work.raw[RawOf(i)]
           /\ s.body = work.ann[i].body /\ (s.tombstone <=> work.raw[RawOf(i)] = None)
<1>1. RawOf(i) \in Raws
  BY IdsHaveRaws
<1>2. work.raw \in [Raws -> Texts \cup {None}] /\ work.ann \in [Ids -> Annotations]
  BY DEF SourceTypeOK, Works
<1>3. work.ann[i].body \in Bodies
  BY <1>2 DEF Annotations
<1> QED
  BY <1>1, <1>2, <1>3 DEF Snapshot, Snapshotted, Digest

(* The snapshots a run starts from: those of the receipts, or those of the  *)
(* pages of the generation and of removed raw files with a receipt.         *)
LEMMA SnapshotsShape ==
    ASSUME SourceTypeOK, NEW pages \in PageMaps
    PROVE  /\ \A s \in Snapshots(pages) :
                  /\ s.id \in Ids /\ s = Snapshot(s.id, RawOf(s.id))
                  /\ s.id \in Recorded(receipts) \/ pages[s.id] = RawOf(s.id)
           /\ \A i \in Recorded(receipts) :
                  (\A j \in Ids : pages[j] = None) \/ pages[i] = RawOf(i)
                      => \E s \in Snapshots(pages) : s.id = i
<1>1. \A i \in Recorded(receipts) : i \in Ids /\ receipts[i].raw = RawOf(i)
  BY RecordedRaw DEF SourceTypeOK
<1>2. \A i \in Mapped(pages) : i \in Ids /\ pages[i] = RawOf(i)
  BY DEF Mapped, PageMaps
<1>3. \A i \in Ids : Snapshot(i, RawOf(i)).id = i
  BY SnapshotShape
<1>4. \A s \in snapshotCanonicalCloudSources :
          s.id \in Recorded(receipts) /\ s.id \in Ids /\ s = Snapshot(s.id, RawOf(s.id))
  BY <1>1, <1>3 DEF snapshotCanonicalCloudSources
<1>5. \A s \in snapshotSources(pages) :
          pages[s.id] = RawOf(s.id) /\ s.id \in Ids /\ s = Snapshot(s.id, RawOf(s.id))
  BY <1>2, <1>3 DEF snapshotSources
<1>6. \A s \in Snapshots(pages) : s \in snapshotCanonicalCloudSources \/ s \in snapshotSources(pages)
  BY DEF Snapshots, cloudTombstones
<1>7. ASSUME NEW i \in Recorded(receipts), \A j \in Ids : pages[j] = None
      PROVE  \E s \in Snapshots(pages) : s.id = i
  <2>1. snapshotSources(pages) = {}
    BY <1>7 DEF snapshotSources, Mapped
  <2>2. Snapshots(pages) = snapshotCanonicalCloudSources
    BY <2>1 DEF Snapshots
  <2>3. Snapshot(i, RawOf(i)) \in snapshotCanonicalCloudSources
    BY <1>1, <1>7 DEF snapshotCanonicalCloudSources
  <2> QED
    BY <1>1, <1>3, <1>7, <2>2, <2>3
<1>8. ASSUME NEW i \in Recorded(receipts), pages[i] = RawOf(i)
      PROVE  \E s \in Snapshots(pages) : s.id = i
  <2>1. RawOf(i) # None /\ i \in Ids
    BY <1>1, <1>8, IdsHaveRaws, SourceAssumption
  <2>2. Snapshot(i, RawOf(i)) \in snapshotSources(pages)
    BY <1>8, <2>1 DEF snapshotSources, Mapped
  <2>3. Snapshot(i, RawOf(i)) \in Snapshots(pages)
    BY <2>2 DEF Snapshots
  <2> QED
    BY <1>3, <2>1, <2>3
<1> QED
  BY <1>4, <1>5, <1>6, <1>7, <1>8

LEMMA MaterializeStep ==
    ASSUME IdInv, MaterializeWorkspace
    PROVE  IdInv'
<1> DEFINE prior == IF work.kind = "clean" THEN NoWiki ELSE wiki
           found == Snapshots(prior.ids)
           valid == /\ \A i \in Recorded(receipts) : validCloudReceipt(receipts[i])
                    /\ readAnnotation(found)
           at == IF valid THEN "synto" ELSE "failed"
           snaps == IF valid THEN found ELSE {}
           w1 == [work EXCEPT !.at = at]
           w2 == [w1 EXCEPT !.snap = snaps]
           w3 == [w2 EXCEPT !.wiki = prior]
<1>0. work \in Works /\ work.at = "annotations" /\ prior \in Wikis /\ prior.ids \in PageMaps
  BY NoWikiShape DEF MaterializeWorkspace, IdInv, SourceTypeOK, Wikis
<1>1. /\ \A s \in found :
            /\ s.id \in Ids /\ s = Snapshot(s.id, RawOf(s.id))
            /\ s.id \in Recorded(receipts) \/ prior.ids[s.id] = RawOf(s.id)
      /\ \A i \in Recorded(receipts) :
            (\A j \in Ids : prior.ids[j] = None) \/ prior.ids[i] = RawOf(i)
                => \E s \in found : s.id = i
  BY <1>0, SnapshotsShape DEF IdInv
<1>2. \A s \in found :
          /\ s \in Snapshotted /\ s.raw = RawOf(s.id)
          /\ s.id \in Recorded(receipts) \/ wiki.ids[s.id] = s.raw
  <2>1. \A s \in found : s \in Snapshotted /\ s.raw = RawOf(s.id) /\ s.raw # None
    BY <1>1, SnapshotShape, IdsHaveRaws, SourceAssumption DEF IdInv
  <2> QED
    BY <1>1, <2>1, NoWikiShape
<1>3. snaps \in SUBSET Snapshotted /\ at \in {"synto", "failed"}
  BY <1>2
<1>4. at = "synto" => snaps = found
  OBVIOUS
<1>5. at = "failed" => snaps = {}
  OBVIOUS
<1>6. work' = w3 /\ UserUnchanged /\ UNCHANGED <<receipts, wiki, runs>>
  BY DEF MaterializeWorkspace
<1> HIDE DEF at, snaps, found, valid
<1>7. w1 \in Works /\ w1.at = at /\ w1.raw = work.raw /\ w1.ann = work.ann /\ w1.kind = work.kind
  <2>1. at \in Stages
    BY <1>3 DEF Stages
  <2> QED
    BY <1>0, <2>1, AtReplaced
<1> HIDE DEF w1
<1>8. w2 \in Works /\ w2.at = at /\ w2.raw = work.raw /\ w2.ann = work.ann /\ w2.kind = work.kind
      /\ w2.snap = snaps
  BY <1>3, <1>7, SnapReplaced
<1> HIDE DEF w2
<1>9. w3 \in Works /\ w3.at = at /\ w3.raw = work.raw /\ w3.ann = work.ann /\ w3.kind = work.kind
      /\ w3.snap = snaps /\ w3.wiki = prior
  BY <1>0, <1>8, WikiReplaced
<1> HIDE DEF w3
<1>10. SourceTypeOK'
  BY <1>0, <1>6, <1>9, TypeKept DEF IdInv, SourceTypeOK
<1>11. SnapsTrue'
  <2>1. \A i \in Ids : Snapshot(i, RawOf(i))' = Snapshot(i, RawOf(i))
    BY <1>6, <1>9 DEF Snapshot, Digest
  <2> QED
    BY <1>1, <1>3, <1>4, <1>5, <1>6, <1>9, <2>1 DEF SnapsTrue
<1>12. BaseInv'
  BY <1>6, BaseKept DEF UserUnchanged
<1>13. raw' = raw /\ back' = back /\ receipts' = receipts /\ wiki' = wiki
  BY <1>6 DEF UserUnchanged
<1>14. CASE at = "failed"
  BY <1>5, <1>6, <1>9, <1>10, <1>11, <1>12, <1>14 DEF IdInv, IdsInv, SnapsKnown
<1>15. CASE at = "synto"
  <2>1. CopySees' /\ SnapsKnown(wiki.ids)'
    BY <1>0, <1>2, <1>4, <1>6, <1>9, <1>13, <1>15 DEF CopySees, SnapsKnown, IdInv, IdsInv
  <2>2. \A s \in found : \A i \in Recorded(receipts) : s.raw = RawOf(i) => s.id = i \/ s.raw \in back
    BY <1>1, <1>2 DEF IdInv, IdsInv, BaseInv, Agree, OneReceipt
  <2>3. \A i \in Recorded(receipts) :
            work.raw[RawOf(i)] # None /\ RawOf(i) \notin back => \E s \in found : s.id = i
    <3> TAKE i \in Recorded(receipts)
    <3> HAVE work.raw[RawOf(i)] # None /\ RawOf(i) \notin back
    <3>1. wiki.ids[i] = RawOf(i)
      BY <1>0 DEF IdInv, IdsInv, PageKept
    <3> QED
      BY <1>1, <3>1, NoWikiShape
  <2> QED
    BY <1>4, <1>6, <1>9, <1>10, <1>11, <1>12, <1>13, <1>15, <2>1, <2>2, <2>3 DEF IdInv, IdsInv
<1> QED
  BY <1>3, <1>14, <1>15

-----------------------------------------------------------------------------
(* Synto and reconciliation *)

(* A set of at most one element is finite.                                  *)
LEMMA SmallIsFinite ==
    ASSUME NEW S, \A x, y \in S : x = y
    PROVE  IsFiniteSet(S)
<1>1. CASE S = {}
  BY <1>1, FS_EmptySet
<1>2. CASE S # {}
  <2>1. PICK x : x \in S
    BY <1>2
  <2>2. S = {x}
    BY <2>1
  <2> QED
    BY <2>2, FS_Singleton
<1> QED
  BY <1>1, <1>2

(* A finite set of at most one element by cardinality.                      *)
LEMMA OneByCardinality ==
    ASSUME NEW S, IsFiniteSet(S), Cardinality(S) <= 1, NEW x \in S, NEW y \in S
    PROVE  x = y
<1> SUFFICES ASSUME x # y PROVE FALSE
  OBVIOUS
<1>1. {x, y} \subseteq S
  OBVIOUS
<1>2. IsFiniteSet({x}) /\ Cardinality({x}) = 1
  BY FS_Singleton
<1>3. Cardinality({x} \cup {y}) = 2
  <2> DEFINE T == {x}
  <2>1. y \notin T /\ IsFiniteSet(T) /\ Cardinality(T) = 1
    BY <1>2
  <2> HIDE DEF T
  <2>2. Cardinality(T \cup {y}) = Cardinality(T) + 1
    BY <2>1, FS_AddElement
  <2> QED
    BY <2>1, <2>2 DEF T
<1>4. {x} \cup {y} = {x, y}
  OBVIOUS
<1>5. Cardinality({x, y}) <= Cardinality(S)
  BY <1>1, FS_Subset
<1> QED
  BY <1>3, <1>4, <1>5, FS_CardinalityType

LEMMA SyntoPagesShape ==
    ASSUME IdInv, work.at = "synto", NEW r \in Raws, NEW P \in SyntoPages(r)
    PROVE  /\ P \subseteq Ids /\ \A j \in P : RawOf(j) = r
           /\ IsFiniteSet(P)
           /\ work.raw[r] = None => \A j \in P : wiki.ids[j] = r
           /\ work.raw[r] # None /\ Skippable = {} => P # {}
<1> DEFINE fresh == <<r, runs>>
           kept == PagesOf(work.wiki.ids, r)
<1>1. r # None
  BY SourceAssumption
<1>2. fresh \in Ids /\ RawOf(fresh) = r
  BY SourceAssumption DEF IdInv, SourceTypeOK, Ids, RawOf
<1>3. \A j \in kept : j \in Ids /\ wiki.ids[j] = r
  BY <1>1, NoWikiShape DEF IdInv, IdsInv, PagesOf
<1>4. \A j \in kept : RawOf(j) = r
  BY <1>1, <1>3 DEF IdInv, SourceTypeOK, Wikis, PageMaps
<1>5. \A i, j \in kept : i = j
  BY <1>1, <1>3 DEF IdInv, IdsInv, BaseInv, OnePage
<1> HIDE DEF fresh, kept
<1>6. IsFiniteSet(kept)
  BY <1>5, SmallIsFinite
<1>7. IsFiniteSet({fresh}) /\ IsFiniteSet(kept \cup {fresh}) /\ IsFiniteSet({})
  BY <1>6, FS_Singleton, FS_AddElement, FS_EmptySet
<1>8. SyntoPages(r) = IF work.raw[r] = None THEN {{}, kept}
                      ELSE {{fresh}, kept \cup {fresh}}
                               \cup (IF kept = {} THEN {} ELSE {kept})
                               \cup (IF r \in Skippable /\ kept = {} THEN {{}} ELSE {})
  BY DEF SyntoPages, fresh, kept
<1>9. P = {} \/ P = kept \/ P = {fresh} \/ P = kept \cup {fresh}
  BY <1>8
<1>10. work.raw[r] = None => P = {} \/ P = kept
  BY <1>8
<1>11. work.raw[r] # None /\ Skippable = {} => P # {}
  BY <1>8
<1>12. IsFiniteSet(P)
  BY <1>6, <1>7, <1>9
<1> QED
  BY <1>2, <1>3, <1>4, <1>9, <1>10, <1>11, <1>12

(* Of a raw file's pages at least one stays.                                *)
LEMMA CollapsedShape ==
    ASSUME NEW pages, NEW snaps, PriorConsistent(snaps), NEW r \in Raws
    PROVE  LET C == collapseSyntoSourceRegeneration(pages, snaps) IN
           C[r] \subseteq pages[r] /\ (pages[r] # {} => C[r] # {})
<1> DEFINE gone == {s.id : s \in {x \in snaps : x.raw = r}}
           C == collapseSyntoSourceRegeneration(pages, snaps)
<1>1. C[r] = IF \E s \in snaps : s.raw = r /\ s.id \in pages[r] /\ Cardinality(pages[r]) = 2
             THEN pages[r] \ gone ELSE pages[r]
  BY DEF collapseSyntoSourceRegeneration
<1> HIDE DEF C
<1>2. ASSUME NEW s \in snaps, s.raw = r, s.id \in pages[r], Cardinality(pages[r]) = 2
      PROVE  pages[r] \ gone # {}
  <2>1. gone = {s.id}
    BY <1>2 DEF PriorConsistent
  <2>2. ASSUME pages[r] \ gone = {} PROVE FALSE
    <3>1. pages[r] = {s.id}
      BY <1>2, <2>1, <2>2
    <3>2. Cardinality({s.id}) = 1
      BY FS_Singleton
    <3> QED
      BY <1>2, <3>1, <3>2
  <2> QED
    BY <2>2
<1>3. pages[r] # {} => C[r] # {}
  BY <1>1, <1>2
<1>4. C[r] \subseteq pages[r]
  BY <1>1
<1> QED
  BY <1>3, <1>4 DEF C

(* The ID reconciliation gives a page is one of its raw file, and the one a *)
(* snapshot of the raw file has.                                            *)
LEMMA StableIdShape ==
    ASSUME IdInv, NEW r \in Raws, NEW j \in Ids, RawOf(j) = r
    PROVE  /\ StableId(work.snap, j, r) \in Ids /\ RawOf(StableId(work.snap, j, r)) = r
           /\ (\A s \in work.snap : s.raw # r) => StableId(work.snap, j, r) = j
           /\ PriorConsistent(work.snap) =>
                  \A s \in work.snap : s.raw = r => StableId(work.snap, j, r) = s.id
<1>1. \A s \in work.snap : s.id \in Ids /\ s.raw = RawOf(s.id)
  <2>1. \A s \in work.snap : s.id \in Ids
    BY DEF IdInv, SourceTypeOK, Works, Snapshotted
  <2> QED
    BY <2>1, SnapshotShape DEF IdInv, SnapsTrue
<1>2. CASE \E s \in work.snap : s.raw = r
  <2> DEFINE t == CHOOSE s \in work.snap : s.raw = r
  <2>1. t \in work.snap /\ t.raw = r
    BY <1>2
  <2>2. StableId(work.snap, j, r) = t.id
    BY <1>2 DEF StableId
  <2> QED
    BY <1>1, <2>1, <2>2 DEF PriorConsistent
<1>3. CASE ~\E s \in work.snap : s.raw = r
  BY <1>3 DEF StableId
<1> QED
  BY <1>2, <1>3

(* reconcileSourceIDMap: a page ID leads to the raw file it was derived     *)
(* from, and every page that is left has its ID.                            *)
LEMMA ReconciledIds ==
    ASSUME IdInv, NEW C, \A r \in Raws : \A j \in C[r] : j \in Ids /\ RawOf(j) = r
    PROVE  LET ids == reconcileSourceIDMap(C, work.snap) IN
           /\ ids \in PageMaps
           /\ \A i \in Ids, r \in Raws : ids[i] = r =>
                  \E j \in C[r] : StableId(work.snap, j, r) = i
           /\ \A r \in Raws : \A j \in C[r] : ids[StableId(work.snap, j, r)] = r
<1> DEFINE ids == reconcileSourceIDMap(C, work.snap)
           Has(i, r) == \E j \in C[r] : StableId(work.snap, j, r) = i
<1>1. \A r \in Raws : \A j \in C[r] :
          StableId(work.snap, j, r) \in Ids /\ RawOf(StableId(work.snap, j, r)) = r
  BY StableIdShape
<1>2. \A i \in Ids : ids[i] = IF \E r \in Raws : Has(i, r) THEN CHOOSE r \in Raws : Has(i, r) ELSE None
  BY DEF reconcileSourceIDMap
<1>3. ids = [i \in Ids |-> ids[i]]
  BY DEF reconcileSourceIDMap
<1>4. \A i \in Ids, r \in Raws : Has(i, r) => r = RawOf(i)
  BY <1>1
<1> HIDE DEF ids, Has
<1>5. \A i \in Ids : (\E r \in Raws : Has(i, r)) => ids[i] = RawOf(i) /\ Has(i, ids[i])
  BY <1>2, <1>4
<1>6. \A i \in Ids : ids[i] = None \/ (ids[i] = RawOf(i) /\ Has(i, ids[i]))
  BY <1>2, <1>5
<1>7. ids \in PageMaps
  BY <1>3, <1>6, IdsHaveRaws DEF PageMaps
<1>8. \A i \in Ids, r \in Raws : ids[i] = r => Has(i, r)
  BY <1>6, SourceAssumption
<1>9. \A r \in Raws : \A j \in C[r] : ids[StableId(work.snap, j, r)] = r
  BY <1>1, <1>4, <1>5 DEF Has
<1> QED
  BY <1>7, <1>8, <1>9 DEF ids, Has

(* A run that has failed keeps its snapshots for the failure receipts.      *)
LEMMA SyntoFailed ==
    ASSUME IdInv, work.at = "synto", work' = [work EXCEPT !.at = "failed"],
           UserUnchanged, UNCHANGED <<receipts, wiki, runs>>
    PROVE  IdInv'
<1>1. /\ work' \in Works /\ work'.at = "failed" /\ work'.raw = work.raw /\ work'.ann = work.ann
      /\ work'.snap = work.snap
  BY AtReplaced DEF Stages, IdInv, SourceTypeOK
<1>2. SourceTypeOK'
  BY <1>1, TypeKept DEF IdInv, SourceTypeOK
<1>3. SnapsTrue'
  BY <1>1 DEF IdInv, SnapsTrue, Snapshot, Digest
<1>4. BaseInv'
  BY BaseKept DEF UserUnchanged
<1>5. SnapsKnown(wiki.ids)'
  BY <1>1 DEF IdInv, IdsInv, SnapsKnown
<1> QED
  BY <1>1, <1>2, <1>3, <1>4, <1>5 DEF IdInv, IdsInv

(* The pages a run leaves after reconciliation: every raw file it copied    *)
(* has one, under the ID of its receipt and of its snapshot.                *)
LEMMA ReconciledPages ==
    ASSUME Skippable = {}, IdInv, work.at = "synto", NEW pages,
           \A r \in Raws : pages[r] \in SyntoPages(r),
           NEW C, C = collapseSyntoSourceRegeneration(pages, work.snap),
           ReconcileOk(C, work.snap),
           NEW ids, ids = reconcileSourceIDMap(C, work.snap)
    PROVE  /\ ids \in PageMaps /\ OnePage(ids) /\ Agree(ids, receipts)
           /\ PageKept(ids, raw) /\ SnapsKnown(ids)
<1>1. PriorConsistent(work.snap) /\ \A r \in Raws : Cardinality(C[r]) <= 1
  BY DEF ReconcileOk
<1>2. \A r \in Raws :
          /\ C[r] \subseteq pages[r] /\ (pages[r] # {} => C[r] # {})
  BY <1>1, CollapsedShape
<1>3. \A r \in Raws : \A j \in C[r] : j \in Ids /\ RawOf(j) = r
  BY <1>2, SyntoPagesShape
<1>4. \A r \in Raws : IsFiniteSet(C[r])
  BY <1>2, SyntoPagesShape, FS_Subset
<1>5. /\ ids \in PageMaps
      /\ \A i \in Ids, r \in Raws : ids[i] = r => \E j \in C[r] : StableId(work.snap, j, r) = i
      /\ \A r \in Raws : \A j \in C[r] : ids[StableId(work.snap, j, r)] = r
  BY <1>3, ReconciledIds
<1>6. \A r \in Raws : work.raw[r] # None => C[r] # {}
  BY <1>2, SyntoPagesShape
<1>7. \A s \in work.snap : s.id \in Ids /\ s.raw = RawOf(s.id) /\ (s.tombstone <=> work.raw[s.raw] = None)
  <2>1. \A s \in work.snap : s.id \in Ids
    BY DEF IdInv, SourceTypeOK, Works, Snapshotted
  <2> QED
    BY <2>1, SnapshotShape DEF IdInv, SnapsTrue
<1>8. \A s \in work.snap : work.raw[s.raw] # None => ids[s.id] = s.raw
  <2> TAKE s \in work.snap
  <2> HAVE work.raw[s.raw] # None
  <2>1. s.raw \in Raws
    BY <1>7, IdsHaveRaws
  <2>2. PICK j \in C[s.raw] : TRUE
    BY <1>6, <2>1
  <2>3. StableId(work.snap, j, s.raw) = s.id
    BY <1>1, <1>3, <2>1, <2>2, StableIdShape
  <2> QED
    BY <1>5, <2>1, <2>2, <2>3
<1>9. OnePage(ids)
  <2> SUFFICES ASSUME NEW i \in Ids, NEW k \in Ids, ids[i] # None, ids[i] = ids[k]
               PROVE  i = k
    BY DEF OnePage
  <2> DEFINE r == ids[i]
  <2>1. r \in Raws
    BY <1>5 DEF PageMaps
  <2>2. PICK j \in C[r] : StableId(work.snap, j, r) = i
    BY <1>5, <2>1
  <2>3. PICK l \in C[r] : StableId(work.snap, l, r) = k
    BY <1>5, <2>1
  <2>4. j = l
    BY <1>1, <1>4, <2>1, <2>2, <2>3, OneByCardinality
  <2> QED
    BY <2>2, <2>3, <2>4
<1>10. Agree(ids, receipts)
  <2> SUFFICES ASSUME NEW i \in Recorded(receipts), NEW k \in Ids, ids[k] = RawOf(i),
                      RawOf(i) \notin back
               PROVE  k = i
    BY DEF Agree
  <2> DEFINE r == RawOf(i)
  <2>1. i \in Ids /\ r \in Raws /\ r # None
    BY RecordedRaw, IdsHaveRaws, SourceAssumption DEF IdInv, SourceTypeOK
  <2>2. PICK j \in C[r] : StableId(work.snap, j, r) = k
    BY <1>5, <2>1
  <2>3. CASE \E s \in work.snap : s.raw = r
    <3>1. PICK s \in work.snap : s.raw = r
      BY <2>3
    <3>2. s.id = i
      BY <3>1 DEF IdInv, IdsInv
    <3> QED
      BY <1>1, <1>3, <2>1, <2>2, <3>1, <3>2, StableIdShape
  <2>4. CASE \A s \in work.snap : s.raw # r
    <3>1. work.raw[r] = None
      BY <1>7, <2>4 DEF IdInv, IdsInv
    <3>2. j \in pages[r] /\ wiki.ids[j] = r
      BY <1>2, <2>1, <2>2, <3>1, SyntoPagesShape
    <3>3. j = i
      BY <1>3, <2>1, <2>2, <3>2 DEF IdInv, IdsInv, BaseInv, Agree
    <3> QED
      BY <1>3, <2>1, <2>2, <2>4, <3>3, StableIdShape
  <2> QED
    BY <2>3, <2>4
<1>11. PageKept(ids, raw)
  <2> SUFFICES ASSUME NEW i \in Recorded(receipts), raw[RawOf(i)] # None, RawOf(i) \notin back
               PROVE  ids[i] = RawOf(i)
    BY DEF PageKept
  <2>1. work.raw[RawOf(i)] # None
    BY DEF IdInv, IdsInv, CopySees
  <2>2. PICK s \in work.snap : s.id = i
    BY <2>1 DEF IdInv, IdsInv
  <2> QED
    BY <1>7, <1>8, <2>1, <2>2
<1>12. SnapsKnown(ids)
  BY <1>7, <1>8 DEF SnapsKnown
<1> QED
  BY <1>5, <1>9, <1>10, <1>11, <1>12

BuiltOf(pages) == {r \in Raws : pages[r] # {}}

MadeOf(pages) ==
    [r \in Raws |->
        IF r \notin BuiltOf(pages) THEN None
        ELSE IF work.raw[r] = None THEN work.wiki.made[r]
        ELSE <<work.raw[r], BodyOf(work.snap, r)>>]

(* What Synto was given is in the pages it made.                            *)
LEMMA MadeFrom ==
    ASSUME Skippable = {}, IdInv, work.at = "synto", NEW pages,
           \A r \in Raws : pages[r] \in SyntoPages(r), PriorConsistent(work.snap)
    PROVE  /\ MadeOf(pages) \in [Raws -> Fingerprints \cup {None}]
           /\ \A s \in work.snap : ~s.tombstone =>
                  s.raw \in BuiltOf(pages) /\ MadeOf(pages)[s.raw] = <<s.text, s.body>>
<1> DEFINE built == BuiltOf(pages)
           made == MadeOf(pages)
<1>0. /\ built = {r \in Raws : pages[r] # {}}
      /\ made = [r \in Raws |->
                    IF r \notin built THEN None
                    ELSE IF work.raw[r] = None THEN work.wiki.made[r]
                    ELSE <<work.raw[r], BodyOf(work.snap, r)>>]
  BY DEF BuiltOf, MadeOf
<1> HIDE DEF built, made
<1>1. /\ work.raw \in [Raws -> Texts \cup {None}]
      /\ work.wiki.made \in [Raws -> Fingerprints \cup {None}]
      /\ work.snap \in SUBSET Snapshotted
  BY DEF IdInv, SourceTypeOK, Works, Wikis
<1>2. \A r \in Raws : BodyOf(work.snap, r) \in Bodies
  <2> TAKE r \in Raws
  <2>1. \A s \in work.snap : s.body \in Bodies
    BY <1>1 DEF Snapshotted
  <2> QED
    BY <2>1, SourceAssumption DEF BodyOf
<1>3. \A r \in Raws : made[r] \in Fingerprints \cup {None}
  BY <1>0, <1>1, <1>2 DEF Fingerprints
<1>4. \A s \in work.snap :
          /\ s.id \in Ids /\ s.raw = RawOf(s.id) /\ s.raw \in Raws /\ s.text = work.raw[s.raw]
          /\ s.body = work.ann[s.id].body /\ (s.tombstone <=> work.raw[s.raw] = None)
  <2>1. \A s \in work.snap : s.id \in Ids
    BY <1>1 DEF Snapshotted
  <2> QED
    BY <2>1, SnapshotShape, IdsHaveRaws DEF IdInv, SnapsTrue
<1>5. \A s \in work.snap : BodyOf(work.snap, s.raw) = s.body
  <2> TAKE s \in work.snap
  <2> DEFINE t == CHOOSE t \in work.snap : t.raw = s.raw
  <2>1. t \in work.snap /\ t.raw = s.raw
    OBVIOUS
  <2>2. t.id = s.id
    BY <2>1 DEF PriorConsistent
  <2>3. t.body = s.body
    BY <1>4, <2>1, <2>2
  <2> QED
    BY <2>3 DEF BodyOf
<1>6. \A s \in work.snap : ~s.tombstone => pages[s.raw] # {}
  BY <1>4, SyntoPagesShape
<1>7. made \in [Raws -> Fingerprints \cup {None}]
  BY <1>0, <1>3
<1>8. \A s \in work.snap : ~s.tombstone => s.raw \in built /\ made[s.raw] = <<s.text, s.body>>
  BY <1>0, <1>4, <1>5, <1>6
<1> QED
  BY <1>7, <1>8 DEF built, made

(* The three ways RunSynto can end.                                         *)
LEMMA RunSyntoShape ==
    ASSUME Skippable = {}, IdInv, NEW pages, RunSynto(pages)
    PROVE  /\ work.at = "synto" /\ UserUnchanged /\ UNCHANGED <<receipts, wiki, runs, ingested>>
           /\ \/ work.kind = "suggested-queries" /\ work' = [work EXCEPT !.at = "commit"]
              \/ work' = [work EXCEPT !.at = "failed"]
              \/ /\ work' \in Works /\ work'.at = "commit" /\ work'.raw = work.raw
                 /\ work'.ann = work.ann /\ work'.snap = work.snap
                 /\ OnePage(work'.wiki.ids) /\ Agree(work'.wiki.ids, receipts)
                 /\ PageKept(work'.wiki.ids, raw) /\ SnapsKnown(work'.wiki.ids)
                 /\ \A s \in work.snap : ~s.tombstone =>
                        s.raw \in work'.wiki.status /\ work'.wiki.made[s.raw] = <<s.text, s.body>>
<1> DEFINE C == collapseSyntoSourceRegeneration(pages, work.snap)
           built == {r \in Raws : pages[r] # {}}
           made == [r \in Raws |->
                      IF r \notin built THEN None
                      ELSE IF work.raw[r] = None THEN work.wiki.made[r]
                      ELSE <<work.raw[r], BodyOf(work.snap, r)>>]
           ids == reconcileSourceIDMap(C, work.snap)
           next == [ids |-> ids, made |-> made, status |-> built]
           w1 == [work EXCEPT !.at = "commit"]
           w2 == [w1 EXCEPT !.late = {}]
           w3 == [w2 EXCEPT !.wiki = next]
<1>0. work.at = "synto" /\ UserUnchanged /\ UNCHANGED <<receipts, wiki, runs, ingested>> /\ work \in Works
  BY DEF RunSynto, IdInv, SourceTypeOK
<1>1. \A r \in Raws : pages[r] \in SyntoPages(r)
  BY DEF RunSynto
<1>2. \/ work.kind = "suggested-queries" /\ work' = [work EXCEPT !.at = "commit"]
      \/ work' = [work EXCEPT !.at = "failed"]
      \/ ReconcileOk(C, work.snap) /\ work' = w3
  BY DEF RunSynto
<1>3. CASE ReconcileOk(C, work.snap) /\ work' = w3
  <2>1. /\ ids \in PageMaps /\ OnePage(ids) /\ Agree(ids, receipts)
        /\ PageKept(ids, raw) /\ SnapsKnown(ids)
    BY <1>0, <1>1, <1>3, ReconciledPages
  <2>2. /\ made \in [Raws -> Fingerprints \cup {None}]
        /\ \A s \in work.snap : ~s.tombstone => s.raw \in built /\ made[s.raw] = <<s.text, s.body>>
    <3>1. PriorConsistent(work.snap)
      BY <1>3 DEF ReconcileOk
    <3>2. built = BuiltOf(pages) /\ made = MadeOf(pages)
      BY DEF BuiltOf, MadeOf
    <3> HIDE DEF built, made
    <3> QED
      BY <1>0, <1>1, <3>1, <3>2, MadeFrom
  <2>3. built \in SUBSET Raws
    OBVIOUS
  <2> HIDE DEF ids, made, built
  <2>4. next \in Wikis /\ next.ids = ids /\ next.made = made /\ next.status = built
    BY <2>1, <2>2, <2>3 DEF Wikis
  <2> HIDE DEF next
  <2>5. w1 \in Works /\ w1.at = "commit" /\ w1.raw = work.raw /\ w1.ann = work.ann /\ w1.snap = work.snap
    BY <1>0, AtReplaced DEF Stages
  <2> HIDE DEF w1
  <2>6. w2 \in Works /\ w2.at = "commit" /\ w2.raw = work.raw /\ w2.ann = work.ann /\ w2.snap = work.snap
    BY <2>5, LateReplaced
  <2> HIDE DEF w2
  <2>7. /\ w3 \in Works /\ w3.at = "commit" /\ w3.raw = work.raw /\ w3.ann = work.ann
        /\ w3.snap = work.snap /\ w3.wiki = next
    BY <2>4, <2>6, WikiReplaced
  <2> HIDE DEF w3
  <2> QED
    BY <1>0, <1>3, <2>1, <2>2, <2>4, <2>7
<1> HIDE DEF C, w3
<1> QED
  BY <1>0, <1>2, <1>3

LEMMA RunSyntoStep ==
    ASSUME Skippable = {}, IdInv, NEW pages, RunSynto(pages)
    PROVE  IdInv'
<1>0. /\ work.at = "synto" /\ UserUnchanged /\ UNCHANGED <<receipts, wiki, runs>>
      /\ work \in Works
  BY RunSyntoShape DEF IdInv, SourceTypeOK
<1>1. raw' = raw /\ back' = back /\ receipts' = receipts /\ wiki' = wiki
  BY <1>0 DEF UserUnchanged
<1>2. ASSUME work' \in Works, work'.at = "commit", work'.raw = work.raw, work'.ann = work.ann,
             work'.snap = work.snap, OnePage(work'.wiki.ids), Agree(work'.wiki.ids, receipts),
             PageKept(work'.wiki.ids, raw), SnapsKnown(work'.wiki.ids)
      PROVE  IdInv'
  <2>1. SourceTypeOK'
    BY <1>0, <1>2, TypeKept DEF IdInv, SourceTypeOK
  <2>2. SnapsTrue'
    BY <1>2 DEF IdInv, SnapsTrue, Snapshot, Digest
  <2>3. BaseInv'
    BY <1>1, BaseKept
  <2>4. /\ OnePage(work.wiki.ids)' /\ Agree(work.wiki.ids, receipts)'
        /\ PageKept(work.wiki.ids, raw)' /\ SnapsKnown(work.wiki.ids)'
    BY <1>1, <1>2 DEF OnePage, Agree, PageKept, SnapsKnown
  <2> QED
    BY <1>2, <2>1, <2>2, <2>3, <2>4 DEF IdInv, IdsInv
<1>3. CASE work.kind = "suggested-queries" /\ work' = [work EXCEPT !.at = "commit"]
  <2>1. /\ work' \in Works /\ work'.at = "commit" /\ work'.raw = work.raw /\ work'.ann = work.ann
        /\ work'.snap = work.snap /\ work'.wiki = work.wiki
    BY <1>0, <1>3, AtReplaced DEF Stages
  <2>2. work.wiki = wiki
    BY <1>0, <1>3 DEF IdInv, IdsInv
  <2>3. /\ OnePage(wiki.ids) /\ Agree(wiki.ids, receipts) /\ PageKept(wiki.ids, raw)
        /\ SnapsKnown(wiki.ids)
    BY <1>0 DEF IdInv, IdsInv, BaseInv
  <2> QED
    BY <1>2, <2>1, <2>2, <2>3
<1>4. CASE work' = [work EXCEPT !.at = "failed"]
  BY <1>0, <1>4, SyntoFailed
<1> QED
  BY <1>2, <1>3, <1>4, RunSyntoShape

LEMMA SyntoFailsStep == ASSUME IdInv, SyntoFails PROVE IdInv'
BY SyntoFailed DEF SyntoFails

-----------------------------------------------------------------------------
(* Publication and receipts *)

LEMMA CommitShape ==
    ASSUME IdInv, CommitWiki
    PROVE  /\ work.at = "commit" /\ wiki' = work.wiki /\ UNCHANGED <<raw, ann, receipts, runs, back>>
           /\ work' \in Works /\ work'.at = "committed" /\ work'.raw = work.raw
           /\ work'.ann = work.ann /\ work'.snap = work.snap /\ work'.wiki = work.wiki
BY AtReplaced DEF CommitWiki, Stages, IdInv, SourceTypeOK

LEMMA CommitStep == ASSUME IdInv, CommitWiki PROVE IdInv'
<1>1. /\ work.at = "commit" /\ wiki' = work.wiki /\ UNCHANGED <<raw, ann, receipts, runs, back>>
      /\ work' \in Works /\ work'.at = "committed" /\ work'.raw = work.raw
      /\ work'.ann = work.ann /\ work'.snap = work.snap
  BY CommitShape
<1>2. SourceTypeOK'
  <2>1. wiki' \in Wikis
    BY <1>1 DEF IdInv, SourceTypeOK, Works
  <2> QED
    BY <1>1, <2>1 DEF IdInv, SourceTypeOK, CommitWiki
<1>3. SnapsTrue'
  BY <1>1 DEF IdInv, SnapsTrue, Snapshot, Digest
<1>4. BaseInv'
  <2>1. OnePage(wiki.ids)' /\ Agree(wiki.ids, receipts)' /\ PageKept(wiki.ids, raw)'
    BY <1>1 DEF IdInv, IdsInv, OnePage, Agree, PageKept
  <2>2. OneReceipt(receipts)' /\ \A i \in Recorded(receipts') : validCloudReceipt(receipts'[i])
    BY <1>1 DEF IdInv, IdsInv, BaseInv, OneReceipt
  <2> QED
    BY <2>1, <2>2 DEF BaseInv
<1>5. SnapsKnown(wiki.ids)'
  BY <1>1 DEF IdInv, IdsInv, SnapsKnown
<1> QED
  BY <1>1, <1>2, <1>3, <1>4, <1>5 DEF IdInv, IdsInv

(* The merged receipt of a source: its own, or one for a snapshot of it     *)
(* that is still current.                                                   *)
LEMMA RecordableShape ==
    ASSUME IdInv, NEW s \in Recordable
    PROVE  /\ s \in work.snap /\ ~s.tombstone /\ s.id \in Ids /\ s.raw = RawOf(s.id) /\ s.raw \in Raws
           /\ s.text \in Texts /\ s.body \in Bodies /\ s.raw # None /\ s.text # None /\ s.body # None
<1>1. s \in work.snap /\ ~s.tombstone
  BY DEF Recordable
<1>2. s \in Snapshotted
  BY <1>1 DEF IdInv, SourceTypeOK, Works
<1>3. s.id \in Ids /\ s.text \in Texts \cup {None} /\ s.body \in Bodies
  BY <1>2 DEF Snapshotted
<1>4. s = Snapshot(s.id, RawOf(s.id))
  BY <1>1 DEF IdInv, SnapsTrue
<1>5. s.raw = RawOf(s.id) /\ s.text # None
  BY <1>1, <1>3, <1>4, SnapshotShape DEF IdInv
<1> QED
  BY <1>1, <1>3, <1>5, IdsHaveRaws, SourceAssumption

LEMMA SuccessShape ==
    ASSUME IdInv, NEW s \in Recordable, NEW old
    PROVE  LET n == SuccessReceipt(old, s) IN
           /\ n \in SourceRecords /\ n.raw = RawOf(s.id) /\ n.raw = s.raw /\ n.text = s.text
           /\ n.body = s.body /\ validCloudReceipt(n)
<1>1. /\ s.raw = RawOf(s.id) /\ s.raw \in Raws
      /\ s.text \in Texts /\ s.body \in Bodies /\ s.text # None /\ s.body # None
  BY RecordableShape
<1> QED
  BY <1>1 DEF SuccessReceipt, SourceRecords, validCloudReceipt, ValidReceipt

LEMMA FailureShape ==
    ASSUME IdInv, NEW s \in Recordable
    PROVE  LET old == receipts[s.id]
               n == FailureReceipt(old, s) IN
           /\ n \in SourceRecords /\ n.raw = RawOf(s.id) /\ n.text = old.text
           /\ n.body = old.body /\ validCloudReceipt(n)
<1> DEFINE old == receipts[s.id]
           print == <<s.text, s.body>>
           n1 == [old EXCEPT !.raw = s.raw]
           n2 == [n1 EXCEPT !.failed = print]
<1>1. /\ s.id \in Ids /\ s.raw = RawOf(s.id) /\ s.raw \in Raws /\ s.text \in Texts /\ s.body \in Bodies
  BY RecordableShape
<1>2. old \in SourceRecords
  BY <1>1 DEF IdInv, SourceTypeOK, ReceiptMaps
<1>3. print \in Fingerprints /\ print # None
  BY <1>1, SourceAssumption DEF Fingerprints
<1>4. validCloudReceipt(old) \/ (old.text = None /\ old.body = None)
  BY <1>1, NoReceiptShape DEF IdInv, IdsInv, BaseInv, Recorded
<1>5. FailureReceipt(old, s) = n2
  BY DEF FailureReceipt, Fingerprint
<1> HIDE DEF old, print
<1>6. n1 \in SourceRecords /\ n1.raw = s.raw /\ n1.text = old.text /\ n1.body = old.body
  BY <1>1, <1>2 DEF SourceRecords
<1> HIDE DEF n1
<1>7. /\ n2 \in SourceRecords /\ n2.raw = s.raw /\ n2.text = old.text /\ n2.body = old.body
      /\ n2.failed = print
  BY <1>3, <1>6 DEF SourceRecords
<1> HIDE DEF n2
<1>8. validCloudReceipt(n2)
  BY <1>3, <1>4, <1>7 DEF validCloudReceipt, ValidReceipt
<1> QED
  BY <1>1, <1>5, <1>7, <1>8 DEF old

(* Every merged receipt is the source's own or one for a current snapshot   *)
(* of the source.                                                           *)
MergedFrom(m) ==
    /\ m \in ReceiptMaps
    /\ \A i \in Ids :
          \/ m[i] = receipts[i]
          \/ \E s \in Recordable :
                /\ s.id = i /\ validCloudReceipt(m[i])
                /\ m[i].raw = s.raw
                /\ work.at = "committed" => m[i].text = s.text /\ m[i].body = s.body
                /\ work.at = "failed" => m[i].text = receipts[i].text /\ m[i].body = receipts[i].body

LEMMA MergedSuccess ==
    ASSUME IdInv, work.at = "committed"
    PROVE  MergedFrom(Merged(receipts, SuccessReceipt))
<1> DEFINE m == Merged(receipts, SuccessReceipt)
           Pick(i) == CHOOSE s \in Recordable : s.id = i
<1>1. \A i \in Ids : m[i] = IF \E s \in Recordable : s.id = i
                            THEN SuccessReceipt(receipts[i], Pick(i)) ELSE receipts[i]
  BY DEF Merged
<1>2. m = [i \in Ids |-> m[i]]
  BY DEF Merged
<1>3. \A i \in Ids : (\E s \in Recordable : s.id = i) => Pick(i) \in Recordable /\ Pick(i).id = i
  OBVIOUS
<1> HIDE DEF m, Pick
<1>4. ASSUME NEW i \in Ids, \E s \in Recordable : s.id = i
      PROVE  /\ m[i] \in SourceRecords /\ m[i].raw = RawOf(i) /\ m[i].raw = Pick(i).raw
             /\ m[i].text = Pick(i).text /\ m[i].body = Pick(i).body /\ validCloudReceipt(m[i])
  <2>1. Pick(i) \in Recordable /\ Pick(i).id = i /\ m[i] = SuccessReceipt(receipts[i], Pick(i))
    BY <1>1, <1>3, <1>4
  <2> QED
    BY <2>1, SuccessShape
<1>5. receipts \in ReceiptMaps
  BY DEF IdInv, SourceTypeOK
<1>6. \A i \in Ids : m[i] \in SourceRecords /\ (m[i] = NoReceipt \/ m[i].raw = RawOf(i))
  BY <1>1, <1>4, <1>5 DEF ReceiptMaps
<1>7. m \in ReceiptMaps
  BY <1>2, <1>6 DEF ReceiptMaps
<1>8. \A i \in Ids :
          \/ m[i] = receipts[i]
          \/ \E s \in Recordable :
                /\ s.id = i /\ validCloudReceipt(m[i]) /\ m[i].raw = s.raw
                /\ m[i].text = s.text /\ m[i].body = s.body
  BY <1>1, <1>3, <1>4
<1>9. MergedFrom(m)
  BY <1>7, <1>8 DEF MergedFrom
<1> QED
  BY <1>9 DEF m

LEMMA MergedFailure ==
    ASSUME IdInv, work.at = "failed"
    PROVE  MergedFrom(Merged(receipts, FailureReceipt))
<1> DEFINE m == Merged(receipts, FailureReceipt)
           Pick(i) == CHOOSE s \in Recordable : s.id = i
<1>1. \A i \in Ids : m[i] = IF \E s \in Recordable : s.id = i
                            THEN FailureReceipt(receipts[i], Pick(i)) ELSE receipts[i]
  BY DEF Merged
<1>2. m = [i \in Ids |-> m[i]]
  BY DEF Merged
<1>3. \A i \in Ids : (\E s \in Recordable : s.id = i) => Pick(i) \in Recordable /\ Pick(i).id = i
  OBVIOUS
<1> HIDE DEF m, Pick
<1>4. ASSUME NEW i \in Ids, \E s \in Recordable : s.id = i
      PROVE  /\ m[i] \in SourceRecords /\ m[i].raw = RawOf(i) /\ m[i].raw = Pick(i).raw
             /\ m[i].text = receipts[i].text /\ m[i].body = receipts[i].body
             /\ validCloudReceipt(m[i])
  <2>1. Pick(i) \in Recordable /\ Pick(i).id = i /\ m[i] = FailureReceipt(receipts[i], Pick(i))
    BY <1>1, <1>3, <1>4
  <2>2. Pick(i).raw = RawOf(i)
    BY <2>1, RecordableShape
  <2> QED
    BY <2>1, <2>2, FailureShape
<1>5. receipts \in ReceiptMaps
  BY DEF IdInv, SourceTypeOK
<1>6. \A i \in Ids : m[i] \in SourceRecords /\ (m[i] = NoReceipt \/ m[i].raw = RawOf(i))
  BY <1>1, <1>4, <1>5 DEF ReceiptMaps
<1>7. m \in ReceiptMaps
  BY <1>2, <1>6 DEF ReceiptMaps
<1>8. \A i \in Ids :
          \/ m[i] = receipts[i]
          \/ \E s \in Recordable :
                /\ s.id = i /\ validCloudReceipt(m[i]) /\ m[i].raw = s.raw
                /\ m[i].text = receipts[i].text /\ m[i].body = receipts[i].body
  BY <1>1, <1>3, <1>4
<1>9. MergedFrom(m)
  BY <1>7, <1>8 DEF MergedFrom
<1> QED
  BY <1>9 DEF m

LEMMA MergeShape ==
    ASSUME IdInv, MergeReceipts
    PROVE  /\ work.at \in {"committed", "failed"} /\ UserUnchanged
           /\ UNCHANGED <<receipts, wiki, runs, ingested>>
           /\ \/ work' = NoWork
              \/ /\ work' \in Works /\ work'.at = "merged" /\ work'.raw = work.raw
                 /\ work'.ann = work.ann /\ work'.snap = work.snap /\ MergedFrom(work'.merge)
<1> DEFINE m == IF work.at = "committed" THEN Merged(receipts, SuccessReceipt)
                ELSE Merged(receipts, FailureReceipt)
           w1 == [work EXCEPT !.merge = m]
           w2 == [w1 EXCEPT !.at = "merged"]
<1>1. /\ work.at \in {"committed", "failed"} /\ UserUnchanged
      /\ UNCHANGED <<receipts, wiki, runs, ingested>> /\ work \in Works
  BY DEF MergeReceipts, IdInv, SourceTypeOK
<1>2. work' = NoWork \/ work' = w2
  BY DEF MergeReceipts
<1>3. MergedFrom(m)
  BY <1>1, MergedSuccess, MergedFailure
<1> HIDE DEF m
<1>4. /\ w1 \in Works /\ w1.raw = work.raw /\ w1.ann = work.ann /\ w1.snap = work.snap
      /\ w1.merge = m
  BY <1>1, <1>3, MergeReplaced DEF MergedFrom
<1> HIDE DEF w1
<1>5. /\ w2 \in Works /\ w2.raw = work.raw /\ w2.ann = work.ann /\ w2.snap = work.snap
      /\ w2.merge = m /\ w2.at = "merged"
  BY <1>4, AtReplaced DEF Stages
<1> HIDE DEF w2
<1> QED
  BY <1>1, <1>2, <1>3, <1>5

LEMMA MergeStep == ASSUME IdInv, MergeReceipts PROVE IdInv'
<1>1. /\ work.at \in {"committed", "failed"} /\ UserUnchanged
      /\ UNCHANGED <<receipts, wiki, runs>>
  BY MergeShape
<1>2. CASE work' = NoWork
  BY <1>1, <1>2, RunEnds
<1>3. CASE /\ work' \in Works /\ work'.at = "merged" /\ work'.raw = work.raw
           /\ work'.ann = work.ann /\ work'.snap = work.snap /\ MergedFrom(work'.merge)
  <2>1. SourceTypeOK'
    BY <1>1, <1>3, TypeKept DEF IdInv, SourceTypeOK
  <2>2. SnapsTrue'
    BY <1>3 DEF IdInv, SnapsTrue, Snapshot, Digest
  <2>3. BaseInv'
    BY <1>1, BaseKept DEF UserUnchanged
  <2>4. ASSUME NEW i \in Recorded(work'.merge)
        PROVE  /\ validCloudReceipt(work'.merge[i])
               /\ i \in Recorded(receipts) \/ wiki.ids[i] = RawOf(i)
    <3>1. i \in Ids /\ work'.merge[i] # NoReceipt
      BY <2>4 DEF Recorded
    <3>2. CASE work'.merge[i] = receipts[i]
      BY <3>1, <3>2 DEF IdInv, IdsInv, BaseInv, Recorded
    <3>3. ASSUME NEW s \in Recordable, s.id = i, validCloudReceipt(work'.merge[i])
          PROVE  /\ validCloudReceipt(work'.merge[i])
                 /\ i \in Recorded(receipts) \/ wiki.ids[i] = RawOf(i)
      BY <1>1, <3>3, RecordableShape DEF IdInv, IdsInv, SnapsKnown
    <3> QED
      BY <1>3, <3>1, <3>2, <3>3 DEF MergedFrom
  <2> QED
    BY <1>1, <1>3, <2>1, <2>2, <2>3, <2>4 DEF IdInv, IdsInv
<1> QED
  BY <1>2, <1>3, MergeShape

LEMMA WriteShape ==
    ASSUME IdInv, WriteReceipts
    PROVE  /\ work.at = "merged" /\ receipts' = work.merge /\ work' = NoWork
           /\ receipts' \in ReceiptMaps /\ UserUnchanged /\ UNCHANGED <<wiki, runs, ingested>>
BY DEF WriteReceipts, IdInv, SourceTypeOK, Works

(* A receipt that is new belongs to a page of the current generation, so no *)
(* other page and no other receipt has its raw file.                        *)
LEMMA WriteStep == ASSUME IdInv, WriteReceipts PROVE IdInv'
<1>1. /\ work.at = "merged" /\ receipts' = work.merge /\ work' = NoWork
      /\ receipts' \in ReceiptMaps /\ UserUnchanged /\ UNCHANGED <<wiki, runs>>
  BY WriteShape
<1>2. raw' = raw /\ back' = back
  BY <1>1 DEF UserUnchanged
<1>3. SourceTypeOK'
  BY <1>1, NoWorkShape, TypeKept DEF IdInv, SourceTypeOK
<1>4. \A i \in Recorded(receipts') :
          /\ validCloudReceipt(receipts'[i])
          /\ i \in Ids /\ RawOf(i) # None
          /\ i \in Recorded(receipts) \/ wiki.ids[i] = RawOf(i)
  <2>1. \A i \in Recorded(receipts') : i \in Ids
    BY DEF Recorded
  <2> QED
    BY <1>1, <2>1, IdsHaveRaws, SourceAssumption DEF IdInv, IdsInv
<1>5. OnePage(wiki.ids) /\ Agree(wiki.ids, receipts) /\ OneReceipt(receipts) /\ PageKept(wiki.ids, raw)
  BY DEF IdInv, IdsInv, BaseInv
<1>6. Agree(wiki.ids, receipts)'
  BY <1>1, <1>2, <1>4, <1>5 DEF Agree, OnePage
<1>7. OneReceipt(receipts)'
  BY <1>1, <1>2, <1>4, <1>5 DEF OneReceipt, Agree, OnePage
<1>8. PageKept(wiki.ids, raw)'
  BY <1>1, <1>2, <1>4, <1>5 DEF PageKept
<1>9. BaseInv'
  BY <1>1, <1>4, <1>5, <1>6, <1>7, <1>8 DEF BaseInv, OnePage
<1> QED
  BY <1>1, <1>3, <1>9, NoWorkShape DEF IdInv, SnapsTrue, IdsInv

LEMMA SourceStep ==
    ASSUME Skippable = {}, IdInv, [SourceNext]_sourceVars
    PROVE  IdInv'
<1>1. CASE UNCHANGED sourceVars
  <2>1. SnapsTrue' /\ IdsInv'
    BY <1>1, UserFrame DEF sourceVars
  <2> QED
    BY <1>1, <2>1 DEF sourceVars, IdInv, SourceTypeOK
<1>2. CASE UserStep
  BY <1>2, UploadChecksStep, UploadWritesStep, RemoveRawStep, GetAnnotationStep, PutAnnotationStep
     DEF UserStep
<1>3. CASE RunStep
  <2>1. CASE RunStops
    BY <2>1, RunEnds DEF RunStops
  <2> QED
    BY <1>3, <2>1, StartRunStep, CopyAnnotationsStep, MaterializeStep, RunSyntoStep,
       SyntoFailsStep, CommitStep, MergeStep, WriteStep
       DEF RunStep
<1> QED
  BY <1>1, <1>2, <1>3 DEF SourceNext

(* The inductive invariant: IDs and receipts agree, whatever users do.      *)
LEMMA IdInvariance == ASSUME Skippable = {} PROVE SourceSpec => []IdInv
<1>1. SourceInit => IdInv
  BY SourceInitial
<1>2. IdInv /\ [SourceNext]_sourceVars => IdInv'
  BY SourceStep
<1> QED
  BY <1>1, <1>2, PTL DEF SourceSpec

-----------------------------------------------------------------------------
(* Receipts and what was ingested *)

LEMMA TruthFrame ==
    ASSUME TruthInv, receipts' = receipts, ingested' = ingested, work'.at = work.at,
           work'.snap = work.snap, work'.wiki = work.wiki, work'.merge = work.merge
    PROVE  TruthInv'
BY DEF TruthInv, Ingested

LEMMA TruthBefore ==
    ASSUME TruthInv, receipts' = receipts, ingested' = ingested,
           work'.at \in {"idle", "raws", "annotations", "synto", "failed"}
    PROVE  TruthInv'
BY DEF TruthInv, Ingested

LEMMA TruthUser == ASSUME IdInv, TruthInv, UserStep PROVE TruthInv'
<1>1. /\ receipts' = receipts /\ ingested' = ingested
      /\ \/ work' = work
         \/ \E r \in Raws : work' = [work EXCEPT !.late = @ \cup {r}]
  <2>1. ASSUME NEW c \in Clients, NEW overwrite \in BOOLEAN, UploadWrites(c, overwrite)
        PROVE  /\ receipts' = receipts /\ ingested' = ingested
               /\ \/ work' = work
                  \/ \E r \in Raws : work' = [work EXCEPT !.late = @ \cup {r}]
    <3>1. upload[c].raw \in Raws
      BY <2>1 DEF UploadWrites, IdInv, SourceTypeOK, Uploads
    <3> QED
      BY <2>1, <3>1 DEF UploadWrites
  <2> QED
    BY <2>1 DEF UserStep, UploadChecks, RemoveRaw, GetAnnotation, PutAnnotation
<1>2. work \in Works
  BY DEF IdInv, SourceTypeOK
<1>3. ASSUME NEW r \in Raws, work' = [work EXCEPT !.late = @ \cup {r}]
      PROVE  work'.at = work.at /\ work'.snap = work.snap /\ work'.wiki = work.wiki /\ work'.merge = work.merge
  <2>1. work.late \cup {r} \in SUBSET Raws
    BY <1>2 DEF Works
  <2> QED
    BY <1>2, <1>3, <2>1, LateReplaced
<1> QED
  BY <1>1, <1>3, TruthFrame

LEMMA TruthSynto ==
    ASSUME Skippable = {}, "suggested-queries" \notin RunKinds, IdInv, TruthInv,
           NEW pages, RunSynto(pages)
    PROVE  TruthInv'
<1>1. work \in Works /\ work.kind # "suggested-queries"
  BY DEF IdInv, SourceTypeOK, Works
<1>2. receipts' = receipts /\ ingested' = ingested
  BY RunSyntoShape
<1>3. CASE work' = [work EXCEPT !.at = "failed"]
  BY <1>1, <1>2, <1>3, AtReplaced, TruthBefore DEF Stages
<1>4. CASE /\ work'.at = "commit" /\ work'.snap = work.snap
           /\ \A s \in work.snap : ~s.tombstone =>
                  s.raw \in work'.wiki.status /\ work'.wiki.made[s.raw] = <<s.text, s.body>>
  BY <1>2, <1>4 DEF TruthInv, Ingested
<1> QED
  BY <1>1, <1>3, <1>4, RunSyntoShape

LEMMA TruthCommit == ASSUME IdInv, TruthInv, CommitWiki PROVE TruthInv'
<1>1. /\ work.at = "commit" /\ receipts' = receipts /\ work'.at = "committed"
      /\ work'.snap = work.snap
  BY CommitShape
<1>2. ingested' = ingested \cup {<<r, work.wiki.made[r]>> : r \in work.wiki.status}
  BY DEF CommitWiki
<1>3. Ingested(receipts)'
  BY <1>1, <1>2 DEF TruthInv, Ingested
<1>4. \A s \in work.snap : ~s.tombstone => <<s.raw, <<s.text, s.body>>>> \in ingested'
  BY <1>1, <1>2 DEF TruthInv
<1> QED
  BY <1>1, <1>3, <1>4 DEF TruthInv

LEMMA TruthMerge == ASSUME IdInv, TruthInv, MergeReceipts PROVE TruthInv'
<1>1. /\ work.at \in {"committed", "failed"} /\ receipts' = receipts /\ ingested' = ingested
  BY MergeShape
<1>2. CASE work' = NoWork
  BY <1>1, <1>2, NoWorkShape, TruthBefore
<1>3. CASE work'.at = "merged" /\ MergedFrom(work'.merge)
  <2>1. ASSUME NEW i \in Ids, ValidReceipt(work'.merge[i], work'.merge[i].raw)
        PROVE  <<work'.merge[i].raw, <<work'.merge[i].text, work'.merge[i].body>>>> \in ingested
    <3>1. CASE work'.merge[i] = receipts[i]
      BY <2>1, <3>1 DEF TruthInv, Ingested
    <3>2. ASSUME NEW s \in Recordable, s.id = i, work'.merge[i].raw = s.raw,
                 work.at = "committed" =>
                     work'.merge[i].text = s.text /\ work'.merge[i].body = s.body,
                 work.at = "failed" =>
                     work'.merge[i].text = receipts[i].text /\ work'.merge[i].body = receipts[i].body
          PROVE  <<work'.merge[i].raw, <<work'.merge[i].text, work'.merge[i].body>>>> \in ingested
      <4>1. s \in work.snap /\ ~s.tombstone /\ s.raw = RawOf(i)
        BY <3>2, RecordableShape
      <4>2. CASE work.at = "committed"
        BY <3>2, <4>1, <4>2 DEF TruthInv
      <4>3. CASE work.at = "failed"
        <5>1. receipts[i] # NoReceipt
          BY <2>1, <3>2, <4>3, NoReceiptShape DEF ValidReceipt
        <5>2. receipts[i].raw = RawOf(i)
          BY <5>1 DEF IdInv, SourceTypeOK, ReceiptMaps
        <5>3. ValidReceipt(receipts[i], receipts[i].raw)
          BY <2>1, <3>2, <4>3 DEF ValidReceipt
        <5> QED
          BY <3>2, <4>1, <4>3, <5>2, <5>3 DEF TruthInv, Ingested
      <4> QED
        BY <1>1, <4>2, <4>3
    <3> QED
      BY <1>3, <2>1, <3>1, <3>2 DEF MergedFrom
  <2> QED
    BY <1>1, <1>3, <2>1 DEF TruthInv, Ingested
<1> QED
  BY <1>2, <1>3, MergeShape

LEMMA TruthWrite == ASSUME IdInv, TruthInv, WriteReceipts PROVE TruthInv'
<1>1. work.at = "merged" /\ receipts' = work.merge /\ work' = NoWork /\ ingested' = ingested
  BY WriteShape
<1> QED
  BY <1>1, NoWorkShape DEF TruthInv, Ingested

LEMMA TruthRun ==
    ASSUME Skippable = {}, "suggested-queries" \notin RunKinds, IdInv, TruthInv, RunStep, IdInv'
    PROVE  TruthInv'
<1>1. ASSUME NEW kind \in RunKinds, StartRun(kind) PROVE TruthInv'
  <2>1. work'.at = "raws"
    BY <1>1 DEF StartRun, NoWork
  <2> QED
    BY <1>1, <2>1, TruthBefore DEF StartRun
<1>2. CASE CopyAnnotations
  <2>1. work'.at = "annotations"
    BY <1>2 DEF CopyAnnotations, IdInv, SourceTypeOK, Works
  <2> QED
    BY <1>2, <2>1, TruthBefore DEF CopyAnnotations
<1>3. CASE MaterializeWorkspace
  <2>1. work'.at \in {"synto", "failed"}
    BY <1>3 DEF MaterializeWorkspace, IdInv, SourceTypeOK, Works
  <2> QED
    BY <1>3, <2>1, TruthBefore DEF MaterializeWorkspace
<1>4. CASE SyntoFails
  <2>1. work'.at = "failed"
    BY <1>4 DEF SyntoFails, IdInv, SourceTypeOK, Works
  <2> QED
    BY <1>4, <2>1, TruthBefore DEF SyntoFails
<1>5. CASE RunStops
  BY <1>5, NoWorkShape, TruthBefore DEF RunStops
<1> QED
  BY <1>1, <1>2, <1>3, <1>4, <1>5, TruthSynto, TruthCommit, TruthMerge, TruthWrite DEF RunStep

LEMMA TruthInvariance ==
    ASSUME Skippable = {}, "suggested-queries" \notin RunKinds
    PROVE  SourceSpec => [](IdInv /\ TruthInv)
<1>1. SourceInit => IdInv /\ TruthInv
  <2>1. ASSUME SourceInit PROVE TruthInv
    BY <2>1, NoReceiptShape, NoWorkShape DEF SourceInit, TruthInv, Ingested, ValidReceipt
  <2> QED
    BY <2>1, SourceInitial
<1>2. ASSUME IdInv, TruthInv, [SourceNext]_sourceVars
      PROVE  IdInv' /\ TruthInv'
  <2>1. IdInv'
    BY <1>2, SourceStep
  <2>2. CASE UNCHANGED sourceVars
    BY <1>2, <2>1, <2>2, TruthFrame DEF sourceVars
  <2> QED
    BY <1>2, <2>1, <2>2, TruthUser, TruthRun DEF SourceNext
<1>3. IdInv /\ TruthInv /\ [SourceNext]_sourceVars => IdInv' /\ TruthInv'
  BY <1>2
<1> QED
  BY <1>1, <1>3, PTL DEF SourceSpec

-----------------------------------------------------------------------------
(* What users and later runs may rely on *)

(* mergeCloudSuccess: a complete receipt names inputs a published page of   *)
(* its raw file was made from, for any number of raw files, clients, edits  *)
(* and runs, wherever a run stops, when Synto writes a page for every raw   *)
(* file and every run lets Synto write the pages.                           *)
THEOREM ReceiptsStayTrue ==
    ASSUME Skippable = {}, "suggested-queries" \notin RunKinds
    PROVE  SourceSpec => []ReceiptsTrue
<1>1. IdInv /\ TruthInv => ReceiptsTrue
  BY DEF TruthInv, Ingested, ReceiptsTrue, Completed, Recorded
<1> QED
  BY <1>1, TruthInvariance, PTL

(* normalizeCloudReceipts: as long as no removed raw file has come back,    *)
(* the stored receipts are ones every later run accepts, so that no run     *)
(* ends without recording what it did.                                      *)
THEOREM ReceiptsStayAccepted ==
    ASSUME Skippable = {}
    PROVE  SourceSpec => []ReceiptsAccepted
<1>1. IdInv => ReceiptsAccepted
  <2> SUFFICES ASSUME IdInv, back = {} PROVE normalizeCloudReceipts(receipts)
    BY DEF ReceiptsAccepted
  <2>1. \A i \in Recorded(receipts) : receipts[i].raw = RawOf(i)
    BY RecordedRaw DEF IdInv, SourceTypeOK
  <2> QED
    BY <2>1 DEF IdInv, IdsInv, BaseInv, OneReceipt, normalizeCloudReceipts
<1> QED
  BY <1>1, IdInvariance, PTL

(* reconcileSourceIDMap: no publication moves a raw file that has a receipt *)
(* to another source ID, unless the file was removed and uploaded again.    *)
THEOREM ReceiptedIdsStayKept ==
    ASSUME Skippable = {}
    PROVE  SourceSpec => ReceiptedIdsKept
<1> DEFINE Kept == wiki'.ids # wiki.ids =>
                       \A i \in Recorded(receipts) : \A j \in Ids :
                           wiki'.ids[j] = receipts[i].raw => j = i \/ receipts[i].raw \in back
<1>1. IdInv /\ [SourceNext]_sourceVars => [Kept]_sourceVars
  <2> SUFFICES ASSUME IdInv, SourceNext, wiki' # wiki PROVE Kept
    OBVIOUS
  <2>1. CommitWiki
    BY DEF SourceNext, UserStep, UploadChecks, UploadWrites, RemoveRaw, GetAnnotation, PutAnnotation,
           RunStep, StartRun, CopyAnnotations, MaterializeWorkspace, RunSynto, SyntoFails,
           MergeReceipts, WriteReceipts, RunStops
  <2>2. Agree(wiki'.ids, receipts)
    BY <2>1, CommitShape DEF IdInv, IdsInv
  <2>3. \A i \in Recorded(receipts) : receipts[i].raw = RawOf(i)
    BY RecordedRaw DEF IdInv, SourceTypeOK
  <2> QED
    BY <2>2, <2>3 DEF Agree
<1>2. ReceiptedIdsKept <=> [][Kept]_sourceVars
  BY DEF ReceiptedIdsKept
<1> HIDE DEF Kept
<1> QED
  BY <1>1, <1>2, IdInvariance, PTL DEF SourceSpec

(* The sum of two sizes is zero only when both sets are empty.              *)
LEMMA BothEmpty ==
    ASSUME NEW S, NEW T, IsFiniteSet(S), IsFiniteSet(T), Cardinality(S) + Cardinality(T) = 0
    PROVE  S = {} /\ T = {}
<1>1. Cardinality(S) \in Nat /\ Cardinality(T) \in Nat
  BY FS_CardinalityType
<1>2. Cardinality(S) = 0 /\ Cardinality(T) = 0
  BY <1>1
<1> QED
  BY <1>2, FS_EmptySet

LEMMA IdsFinite == ASSUME IsFiniteSet(Raws) PROVE IsFiniteSet(Ids)
<1>1. 1 \in Int /\ MaxRuns \in Int
  BY SourceAssumption
<1>2. IsFiniteSet(1 .. MaxRuns)
  BY <1>1, FS_Interval
<1> QED
  BY <1>2, FS_Product DEF Ids

(* A page that counts as no work and has a complete receipt has the         *)
(* receipt's text and annotation.                                           *)
LEMMA NoWorkIsSynced ==
    ASSUME NEW i \in Ids, WorkKind(i) = "none", raw[wiki.ids[i]] # None,
           ValidReceipt(receipts[i], wiki.ids[i])
    PROVE  receipts[i].text = raw[wiki.ids[i]] /\ receipts[i].body = Digest(ann[i])
<1>1. markFailure(receipts[i], wiki.ids[i], Digest(ann[i])) \in {"annotation", "raw"}
  BY DEF markFailure
<1>2. LifecycleStatus(i) \notin {"error", "content_pending", "notes_pending"}
  BY <1>1 DEF WorkKind
<1> QED
  BY <1>2 DEF LifecycleStatus

(* pendingWorkForProject: when no work is counted, every raw file has a     *)
(* page, and one with a complete receipt was ingested with its present text *)
(* and annotation.                                                          *)
THEOREM NoWorkStaysIngested ==
    ASSUME Skippable = {}, "suggested-queries" \notin RunKinds, IsFiniteSet(Raws)
    PROVE  SourceSpec => []NoWorkMeansIngested
<1>1. IdInv /\ TruthInv => NoWorkMeansIngested
  <2> SUFFICES ASSUME IdInv, TruthInv, PendingWork = 0, NEW r \in Raws, raw[r] # None
               PROVE  \E i \in Ids :
                         /\ wiki.ids[i] = r
                         /\ \/ ~ValidReceipt(receipts[i], r)
                            \/ <<r, Fingerprint(raw[r], Digest(ann[i]))>> \in ingested
    BY DEF NoWorkMeansIngested
  <2> DEFINE counted == {i \in Mapped(wiki.ids) : WorkKind(i) # "none"}
  <2>1. IsFiniteSet(counted) /\ IsFiniteSet(Unmapped)
    <3>1. counted \subseteq Ids /\ Unmapped \subseteq Raws
      BY DEF Mapped, Unmapped
    <3> QED
      BY <3>1, IdsFinite, FS_Subset
  <2>2. Cardinality(counted) + Cardinality(Unmapped) = 0
    BY DEF PendingWork
  <2> HIDE DEF counted
  <2>3. counted = {} /\ Unmapped = {}
    BY <2>1, <2>2, BothEmpty
  <2>4. PICK i \in Ids : wiki.ids[i] = r
    BY <2>3 DEF Unmapped
  <2>5. i \in Mapped(wiki.ids)
    BY <2>4, SourceAssumption DEF Mapped
  <2>6. WorkKind(i) = "none"
    BY <2>3, <2>5 DEF counted
  <2>7. CASE ValidReceipt(receipts[i], r)
    <3>1. receipts[i].text = raw[r] /\ receipts[i].body = Digest(ann[i]) /\ receipts[i].raw = r
      BY <2>4, <2>6, <2>7, NoWorkIsSynced DEF ValidReceipt
    <3>2. <<receipts[i].raw, <<receipts[i].text, receipts[i].body>>>> \in ingested
      BY <2>7, <3>1 DEF TruthInv, Ingested
    <3> QED
      BY <2>4, <3>1, <3>2 DEF Fingerprint
  <2> QED
    BY <2>4, <2>7
<1> QED
  BY <1>1, TruthInvariance, PTL

-----------------------------------------------------------------------------
(* Annotations *)

LEMMA NotesStep == ASSUME NotesInv, [SourceNext]_sourceVars PROVE NotesInv'
<1>1. ASSUME NEW c \in Clients, NEW b \in Bodies, PutAnnotation(c, b) PROVE NotesInv'
  <2> DEFINE i == edit[c].id
             written == [gen |-> ann[i].gen + 1, raw |-> wiki.ids[i], body |-> b]
             held == [id |-> i, gen |-> ann[i].gen + 1]
  <2>1. i \in Ids /\ ann' = [ann EXCEPT ![i] = written] /\ edit' = [edit EXCEPT ![c] = held]
    BY <1>1, PutShape
  <2>2. held \in Edits /\ written.gen \in Nat
    BY <2>1 DEF Edits, NotesInv
  <2> HIDE DEF written, held, i
  <2> QED
    BY <2>1, <2>2 DEF NotesInv
<1>2. ASSUME NEW c \in Clients, NEW i \in Ids, GetAnnotation(c, i) PROVE NotesInv'
  <2>1. [id |-> i, gen |-> ann[i].gen] \in Edits
    BY DEF NotesInv, Edits
  <2> QED
    BY <1>2, <2>1 DEF NotesInv, GetAnnotation
<1>3. CASE UNCHANGED <<ann, edit>>
  BY <1>3 DEF NotesInv
<1> QED
  BY <1>1, <1>2, <1>3
     DEF SourceNext, sourceVars, UserStep, UploadChecks, UploadWrites, RemoveRaw,
         RunStep, UserUnchanged, StartRun, CopyAnnotations, MaterializeWorkspace, RunSynto, SyntoFails,
         CommitWiki, MergeReceipts, WriteReceipts, RunStops

(* PutAnnotation: no write replaces an annotation version its author has    *)
(* not fetched or written, for any number of sources and sessions; nothing  *)
(* else changes an annotation.                                              *)
THEOREM NoAnnotationLost == SourceSpec => AnnotationsNotLost
<1> DEFINE Kept == ann' # ann => \A i \in Ids : ann'[i] # ann[i] =>
                       \E c \in Clients : /\ edit[c] = [id |-> i, gen |-> ann[i].gen]
                                         /\ edit'[c].gen = ann'[i].gen
<1>1. SourceInit => NotesInv
  BY DEF SourceInit, NotesInv, NoAnnotation
<1>2. NotesInv /\ [SourceNext]_sourceVars => NotesInv'
  BY NotesStep
<1>3. NotesInv /\ [SourceNext]_sourceVars => [Kept]_sourceVars
  <2> SUFFICES ASSUME NotesInv, SourceNext, NEW i \in Ids, ann'[i] # ann[i]
               PROVE  \E c \in Clients : /\ edit[c] = [id |-> i, gen |-> ann[i].gen]
                                         /\ edit'[c].gen = ann'[i].gen
    OBVIOUS
  <2>1. PICK c \in Clients, b \in Bodies : PutAnnotation(c, b)
    BY DEF SourceNext, UserStep, UploadChecks, UploadWrites, RemoveRaw, GetAnnotation,
           RunStep, UserUnchanged, StartRun, CopyAnnotations, MaterializeWorkspace, RunSynto,
           SyntoFails, CommitWiki, MergeReceipts, WriteReceipts, RunStops
  <2> DEFINE k == edit[c].id
             written == [gen |-> ann[k].gen + 1, raw |-> wiki.ids[k], body |-> b]
             held == [id |-> k, gen |-> ann[k].gen + 1]
  <2>2. /\ k \in Ids /\ edit[c] = [id |-> k, gen |-> ann[k].gen]
        /\ ann' = [ann EXCEPT ![k] = written] /\ edit' = [edit EXCEPT ![c] = held]
    BY <2>1, PutShape
  <2>3. written.gen = held.gen
    OBVIOUS
  <2> HIDE DEF written, held, k
  <2>4. i = k
    BY <2>2 DEF NotesInv
  <2>5. edit'[c] = held /\ ann'[i] = written
    BY <2>2, <2>4 DEF NotesInv
  <2> QED
    BY <2>2, <2>3, <2>4, <2>5
<1>4. AnnotationsNotLost <=> [][Kept]_sourceVars
  BY DEF AnnotationsNotLost
<1> HIDE DEF Kept
<1> QED
  BY <1>1, <1>2, <1>3, <1>4, PTL DEF SourceSpec
==============================================================================
