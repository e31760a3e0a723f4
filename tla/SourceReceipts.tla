--------------------------- MODULE SourceReceipts ---------------------------
(***************************************************************************)
(* Raw files, their annotations and the receipts that relate them to the   *)
(* published wiki.  Users upload raw files and edit annotations through    *)
(* the BFF at any time; a pipeline run copies both, lets Synto write the   *)
(* source pages, reconciles their IDs with the ones already handed out,    *)
(* publishes the pages and merges one receipt per source it started from.  *)
(* The BFF derives every source's lifecycle status from the four.          *)
(*                                                                         *)
(* SHA-256 digests are the contents themselves, a fingerprint is the pair  *)
(* of the raw and the annotation digest.  The publication protocol itself  *)
(* (lease, manifest, crash) is PublishProtocol; here a run holds the       *)
(* project alone and its commit is one step.                               *)
(***************************************************************************)
EXTENDS Naturals, FiniteSets, FiniteSetsExt

CONSTANTS
    Raws,        \* raw file paths
    Texts,       \* contents of raw files
    Bodies,      \* annotation bodies
    Empty,       \* the empty body, also that of a missing annotation
    None,
    Clients,     \* browser sessions
    MaxRuns,     \* bound on pipeline runs
    MaxEdits,    \* bound on requests that change raw files or annotations
    Removable,   \* raw files an operator may remove from the bucket
    Skippable,   \* raw files Synto may leave without a page
    RunKinds     \* the stages asked for: "full", "clean", "suggested-queries"

ASSUME SourceAssumption ==
    /\ Empty \in Bodies /\ None \notin Texts \cup Bodies \cup Raws
    /\ None \notin Texts \X Bodies
    /\ MaxRuns \in Nat \ {0} /\ MaxEdits \in Nat
    /\ Removable \subseteq Raws /\ Skippable \subseteq Raws
    /\ RunKinds \subseteq {"full", "clean", "suggested-queries"}

(* A source ID is derived from the page Synto wrote for a raw file in one   *)
(* run.                                                                     *)
Ids == Raws \X (1 .. MaxRuns)

VARIABLES
    raw,       \* raw[r]: content of the object, None when it does not exist
    late,      \* raw files updated after the published raw_status.json
    ann,       \* ann[i]: the annotation object of source i
    receipts,  \* cache/source_status.json
    wiki,      \* the current generation
    work,      \* the run and its private workspace
    upload,    \* upload[c]: a raw upload between its check and its write
    edit,      \* edit[c]: the annotation c last fetched
    runs, edits,
    ingested,  \* history: inputs of every source page ever published
    back       \* history: raw files uploaded again after their removal

sourceVars == <<raw, late, ann, receipts, wiki, work, upload, edit, runs,
                edits, ingested, back>>

NoAnnotation == [gen |-> 0, raw |-> None, body |-> Empty]
NoReceipt == [raw |-> None, text |-> None, body |-> None, failed |-> None]
NoPages == [i \in Ids |-> None]
NoWiki == [ids |-> NoPages, made |-> [r \in Raws |-> None], status |-> {}]
NoUpload == [raw |-> None, text |-> None, seen |-> None]
NoEdit == [id |-> None, gen |-> 0]
NoWork == [at |-> "idle", kind |-> "none", raw |-> [r \in Raws |-> None],
           ann |-> [i \in Ids |-> NoAnnotation], snap |-> {}, wiki |-> NoWiki,
           late |-> {}, merge |-> [i \in Ids |-> NoReceipt]]

SourceInit ==
    /\ raw = [r \in Raws |-> None]
    /\ late = {}
    /\ ann = [i \in Ids |-> NoAnnotation]
    /\ receipts = [i \in Ids |-> NoReceipt]
    /\ wiki = NoWiki
    /\ work = NoWork
    /\ upload = [c \in Clients |-> NoUpload]
    /\ edit = [c \in Clients |-> NoEdit]
    /\ runs = 0 /\ edits = 0
    /\ ingested = {} /\ back = {}

-----------------------------------------------------------------------------
(* Receipts and fingerprints *)

Fingerprint(text, body) == <<text, body>>

(* A complete receipt of a successful ingestion of raw file r. *)
ValidReceipt(receipt, r) ==
    receipt.raw = r /\ receipt.text # None /\ receipt.body # None

ValidCurrentFailure(receipt, r, fingerprint) ==
    receipt.raw = r /\ receipt.failed = fingerprint

(* What the worker accepts in the stored artifact: each receipt complete or *)
(* a failure only, and no raw file under two source IDs.                    *)
validCloudReceipt(receipt) ==
    \/ ValidReceipt(receipt, receipt.raw)
    \/ receipt.text = None /\ receipt.body = None /\ receipt.failed # None

Recorded(rs) == {i \in Ids : rs[i] # NoReceipt}

normalizeCloudReceipts(rs) ==
    /\ \A i \in Recorded(rs) : validCloudReceipt(rs[i])
    /\ \A i, j \in Recorded(rs) : rs[i].raw = rs[j].raw => i = j

Digest(object) == object.body

-----------------------------------------------------------------------------
(* The lifecycle status of a source page *)

Mapped(pages) == {i \in Ids : pages[i] # None}

(* From raw_status.json of the generation, when no receipt describes r. *)
LegacyStatus(r, body) ==
    IF r \notin late
    THEN IF body # Empty THEN "notes_pending" ELSE "synced"
    ELSE "content_pending"

markFailure(receipt, r, body) ==
    IF ValidReceipt(receipt, r)
    THEN IF receipt.text = raw[r] /\ receipt.body # body THEN "annotation" ELSE "raw"
    ELSE IF r \in wiki.status /\ body # Empty THEN "annotation" ELSE "raw"

(* sourcelifecycle.Calculate for the page of source i. *)
LifecycleStatus(i) ==
    LET r == wiki.ids[i]
        body == Digest(ann[i])
        receipt == receipts[i]
        print == Fingerprint(raw[r], body)
    IN  IF raw[r] # None /\ ValidCurrentFailure(receipt, r, print) THEN "error"
        ELSE IF ~ValidReceipt(receipt, r)
             THEN IF raw[r] # None /\ r \in wiki.status
                  THEN LegacyStatus(r, body) ELSE "new"
        ELSE IF raw[r] = None \/ receipt.text # raw[r] THEN "content_pending"
        ELSE IF receipt.body # body THEN "notes_pending"
        ELSE "synced"

(* Mutant: a changed annotation is no work.                                *)
WorkWithoutNotes(i) ==
    IF LifecycleStatus(i) \in {"error", "content_pending", "new"} THEN "raw" ELSE "none"

(* The kind of work a page is counted as, "none" when it needs no run. *)
WorkKind(i) ==
    LET r == wiki.ids[i] IN
    CASE LifecycleStatus(i) = "error" -> markFailure(receipts[i], r, Digest(ann[i]))
      [] LifecycleStatus(i) = "content_pending" -> "raw"
      [] LifecycleStatus(i) = "notes_pending" -> "annotation"
      [] LifecycleStatus(i) = "new" -> IF raw[r] # None THEN "new" ELSE "none"
      [] OTHER -> "none"

Unmapped == {r \in Raws : raw[r] # None /\ \A i \in Ids : wiki.ids[i] # r}

(* Counts.NewRaw + Counts.RawDirty + Counts.AnnotationDirty *)
PendingWork ==
    Cardinality({i \in Mapped(wiki.ids) : WorkKind(i) # "none"})
        + Cardinality(Unmapped)

-----------------------------------------------------------------------------
(* Raw uploads: the digest is looked up, then the object is written *)

Busy == edits < MaxEdits /\ edits' = edits + 1

UploadChecks(c, r, text) ==
    /\ upload[c] = NoUpload
    /\ Busy
    /\ raw[r] # text
    /\ upload' = [upload EXCEPT ![c] = [raw |-> r, text |-> text, seen |-> raw[r]]]
    /\ UNCHANGED <<raw, late, ann, receipts, wiki, work, edit, runs, ingested, back>>

rawUploadDecision(seen, text, overwrite) ==
    seen = None \/ (seen # text /\ overwrite)

UploadWrites(c, overwrite) ==
    LET u == upload[c] IN
    /\ u # NoUpload
    /\ upload' = [upload EXCEPT ![c] = NoUpload]
    /\ IF rawUploadDecision(u.seen, u.text, overwrite)
       THEN /\ raw' = [raw EXCEPT ![u.raw] = u.text]
            /\ back' = IF raw[u.raw] = None /\ \E i \in Ids : receipts[i].raw = u.raw
                       THEN back \cup {u.raw} ELSE back
            /\ late' = late \cup {u.raw}
            /\ work' = IF work.at = "commit"
                       THEN [work EXCEPT !.late = @ \cup {u.raw}] ELSE work
       ELSE UNCHANGED <<raw, late, work, back>>
    /\ UNCHANGED <<ann, receipts, wiki, edit, runs, edits, ingested>>

(* An operator removes the object; the worker treats its source as a        *)
(* tombstone.                                                               *)
RemoveRaw(r) ==
    /\ r \in Removable /\ raw[r] # None
    /\ Busy
    /\ raw' = [raw EXCEPT ![r] = None]
    /\ UNCHANGED <<late, ann, receipts, wiki, work, upload, edit, runs, ingested, back>>

-----------------------------------------------------------------------------
(* Annotations: fetched with their object generation, written if unchanged *)

annotationTarget(i) ==
    /\ wiki.ids[i] # None
    /\ raw[wiki.ids[i]] # None

(* Mutant: the object generation is not compared.                          *)
PutUnconditionally(c, body) ==
    LET i == edit[c].id IN
    /\ edit[c] # NoEdit /\ annotationTarget(i) /\ body # ann[i].body
    /\ Busy
    /\ ann' = [ann EXCEPT ![i] = [gen |-> @.gen + 1, raw |-> wiki.ids[i], body |-> body]]
    /\ edit' = [edit EXCEPT ![c].gen = ann[i].gen + 1]
    /\ UNCHANGED <<raw, late, receipts, wiki, work, upload, runs, ingested, back>>

GetAnnotation(c, i) ==
    /\ annotationTarget(i)
    /\ edit[c] # [id |-> i, gen |-> ann[i].gen]
    /\ edit' = [edit EXCEPT ![c] = [id |-> i, gen |-> ann[i].gen]]
    /\ UNCHANGED <<raw, late, ann, receipts, wiki, work, upload, runs, edits,
                   ingested, back>>

PutAnnotation(c, body) ==
    LET i == edit[c].id IN
    /\ edit[c] # NoEdit
    /\ annotationTarget(i)
    /\ body # ann[i].body
    /\ ann[i].gen = edit[c].gen
    /\ Busy
    /\ ann' = [ann EXCEPT ![i] = [gen |-> @.gen + 1, raw |-> wiki.ids[i],
                                  body |-> body]]
    /\ edit' = [edit EXCEPT ![c].gen = @ + 1]
    /\ UNCHANGED <<raw, late, receipts, wiki, work, upload, runs, ingested, back>>

-----------------------------------------------------------------------------
(* A pipeline run.  Raw files, annotations and the status artifact with the *)
(* current generation are copied one after the other.                      *)

UserUnchanged == UNCHANGED <<raw, late, ann, upload, edit, edits, back>>

(* A run for the suggested queries alone needs a committed generation.      *)
StartRun(kind) ==
    /\ work.at = "idle" /\ runs < MaxRuns
    /\ kind = "suggested-queries" => wiki # NoWiki
    /\ runs' = runs + 1
    /\ work' = [NoWork EXCEPT !.at = "raws", !.kind = kind, !.raw = raw]
    /\ UserUnchanged /\ UNCHANGED <<receipts, wiki, ingested>>

(* Mutant: the digest is taken from the bucket after the copy.             *)
SnapshotOfStore(i, r) ==
    [id |-> i, raw |-> r, text |-> raw[r], body |-> Digest(work.ann[i]),
     tombstone |-> raw[r] = None]

CopyAnnotations ==
    /\ work.at = "raws"
    /\ work' = [work EXCEPT !.at = "annotations", !.ann = ann]
    /\ UserUnchanged /\ UNCHANGED <<receipts, wiki, runs, ingested>>

Snapshot(i, r) ==
    [id |-> i, raw |-> r, text |-> work.raw[r], body |-> Digest(work.ann[i]),
     tombstone |-> work.raw[r] = None]

snapshotCanonicalCloudSources == {Snapshot(i, receipts[i].raw) : i \in Recorded(receipts)}

snapshotSources(pages) == {Snapshot(i, pages[i]) : i \in Mapped(pages)}

cloudTombstones(snaps) == {s \in snaps : s.tombstone}

(* The mapping of the generation replaces the receipts' when it has any     *)
(* source; only the receipts of removed raw files stay reserved.            *)
Snapshots(pages) ==
    LET canonical == snapshotCanonicalCloudSources
        mapped == snapshotSources(pages)
    IN  IF mapped = {} THEN canonical ELSE mapped \cup cloudTombstones(canonical)

readAnnotation(snaps) ==
    \A s \in snaps : s.tombstone \/ work.ann[s.id] = NoAnnotation
                        \/ work.ann[s.id].raw = s.raw

(* materializeCloudWorkspace: a clean rebuild installs no prior generation. *)
MaterializeWorkspace ==
    LET prior == IF work.kind = "clean" THEN NoWiki ELSE wiki
        snaps == Snapshots(prior.ids)
        valid == /\ \A i \in Recorded(receipts) : validCloudReceipt(receipts[i])
                 /\ readAnnotation(snaps)
    IN  /\ work.at = "annotations"
        /\ work' = [work EXCEPT !.at = IF valid THEN "synto" ELSE "failed",
                                !.snap = IF valid THEN snaps ELSE {},
                                !.wiki = prior]
        /\ UserUnchanged /\ UNCHANGED <<receipts, wiki, runs, ingested>>

(* Source pages after Synto: the page of an ingested raw file is kept under *)
(* its ID, written anew under the ID of this run, or both; a page whose raw *)
(* file is gone stays or goes.                                              *)
PagesOf(pages, r) == {i \in Ids : pages[i] = r}

SyntoPages(r) ==
    LET fresh == <<r, runs>>
        kept == PagesOf(work.wiki.ids, r)
    IN  IF work.raw[r] = None THEN {{}, kept}
        ELSE {{fresh}, kept \cup {fresh}}
                 \cup (IF kept = {} THEN {} ELSE {kept})
                 \cup (IF r \in Skippable /\ kept = {} THEN {{}} ELSE {})

(* Of a page and its regeneration only the new one stays. *)
collapseSyntoSourceRegeneration(pages, snaps) ==
    [r \in Raws |->
        IF \E s \in snaps : s.raw = r /\ s.id \in pages[r] /\ Cardinality(pages[r]) = 2
        THEN pages[r] \ {s.id : s \in {x \in snaps : x.raw = r}}
        ELSE pages[r]]

(* Mutant: a page keeps the ID Synto gave it.                              *)
IdOfPage(snaps, i, r) == i

PriorConsistent(snaps) ==
    /\ \A s, t \in snaps : s.raw = t.raw => s.id = t.id
    /\ \A s, t \in snaps : s.id = t.id => s.raw = t.raw

StableId(snaps, i, r) ==
    IF \E s \in snaps : s.raw = r THEN (CHOOSE s \in snaps : s.raw = r).id ELSE i

(* reconcileSourceIDMap: every page gets the ID its raw file had, and no    *)
(* page an ID reserved for another raw file.                                *)
ReconcileOk(pages, snaps) ==
    /\ PriorConsistent(snaps)
    /\ \A r \in Raws : Cardinality(pages[r]) <= 1
    /\ \A r \in Raws : \A i \in pages[r] : \A s \in snaps :
           s.id = StableId(snaps, i, r) => s.raw = r

reconcileSourceIDMap(pages, snaps) ==
    [i \in Ids |->
        IF \E r \in Raws : \E j \in pages[r] : StableId(snaps, j, r) = i
        THEN CHOOSE r \in Raws : \E j \in pages[r] : StableId(snaps, j, r) = i
        ELSE None]

BodyOf(snaps, r) ==
    IF \E s \in snaps : s.raw = r THEN (CHOOSE s \in snaps : s.raw = r).body ELSE Empty

(* Synto, postprocess and reconciliation.  raw_status.json is written here: *)
(* a later upload is newer than it.  A run for the suggested queries leaves *)
(* the pages as they are and starts no Synto.                               *)
RunSynto(pages) ==
    LET collapsed == collapseSyntoSourceRegeneration(pages, work.snap)
        built == {r \in Raws : pages[r] # {}}
        made == [r \in Raws |->
                    IF r \notin built THEN None
                    ELSE IF work.raw[r] = None THEN work.wiki.made[r]
                    ELSE <<work.raw[r], BodyOf(work.snap, r)>>]
    IN  /\ work.at = "synto"
        /\ \A r \in Raws : pages[r] \in SyntoPages(r)
        /\ work' = IF work.kind = "suggested-queries" THEN [work EXCEPT !.at = "commit"]
                   ELSE IF ReconcileOk(collapsed, work.snap)
                   THEN [work EXCEPT
                            !.at = "commit", !.late = {},
                            !.wiki = [ids |-> reconcileSourceIDMap(collapsed, work.snap),
                                      made |-> made, status |-> built]]
                   ELSE [work EXCEPT !.at = "failed"]
        /\ UserUnchanged /\ UNCHANGED <<receipts, wiki, runs, ingested>>

SyntoFails ==
    /\ work.at = "synto"
    /\ work' = [work EXCEPT !.at = "failed"]
    /\ UserUnchanged /\ UNCHANGED <<receipts, wiki, runs, ingested>>

CommitWiki ==
    /\ work.at = "commit"
    /\ wiki' = work.wiki
    /\ late' = IF work.kind = "suggested-queries" THEN late ELSE work.late
    /\ ingested' = ingested \cup {<<r, work.wiki.made[r]>> : r \in work.wiki.status}
    /\ work' = [work EXCEPT !.at = "committed"]
    /\ UNCHANGED <<raw, ann, receipts, upload, edit, runs, edits, back>>

(* The raw file and the annotation are still what the run started from. *)
cloudSnapshotCurrent(s) ==
    /\ raw[s.raw] = s.text
    /\ \/ ann[s.id] = NoAnnotation /\ s.body = Empty
       \/ ann[s.id].raw = s.raw /\ Digest(ann[s.id]) = s.body

Recordable == {s \in work.snap : ~s.tombstone /\ cloudSnapshotCurrent(s)}

Merged(rs, receipt(_, _)) ==
    [i \in Ids |-> IF \E s \in Recordable : s.id = i
                   THEN receipt(rs[i], CHOOSE s \in Recordable : s.id = i)
                   ELSE rs[i]]

(* Mutant: the loop variable is captured.                                  *)
SuccessOfAnySource(old, s) ==
    LET any == CHOOSE x \in Recordable : TRUE
    IN  [raw |-> any.raw, text |-> any.text, body |-> any.body, failed |-> None]

SuccessReceipt(old, s) ==
    [raw |-> s.raw, text |-> s.text, body |-> s.body, failed |-> None]

FailureReceipt(old, s) ==
    [old EXCEPT !.raw = s.raw, !.failed = Fingerprint(s.text, s.body)]

(* mergeCloudReceipts reads the artifact, merges and writes it back if it   *)
(* is unchanged; an artifact it does not accept ends the merge.             *)
MergeReceipts ==
    /\ work.at \in {"committed", "failed"}
    /\ work' = IF normalizeCloudReceipts(receipts)
               THEN [work EXCEPT
                        !.merge = IF work.at = "committed"
                                  THEN Merged(receipts, SuccessReceipt)
                                  ELSE Merged(receipts, FailureReceipt),
                        !.at = "merged"]
               ELSE NoWork
    /\ UserUnchanged /\ UNCHANGED <<receipts, wiki, runs, ingested>>

WriteReceipts ==
    /\ work.at = "merged"
    /\ receipts' = work.merge
    /\ work' = NoWork
    /\ UserUnchanged /\ UNCHANGED <<wiki, runs, ingested>>

(* The run ends early: its container dies or the receipt cannot be written. *)
RunStops ==
    /\ work.at # "idle"
    /\ work' = NoWork
    /\ UserUnchanged /\ UNCHANGED <<receipts, wiki, runs, ingested>>

RunStep ==
    \/ \E kind \in RunKinds : StartRun(kind)
    \/ CopyAnnotations
    \/ MaterializeWorkspace
    \/ \E pages \in [Raws -> UNION {SyntoPages(r) : r \in Raws}] : RunSynto(pages)
    \/ SyntoFails
    \/ CommitWiki
    \/ MergeReceipts
    \/ WriteReceipts
    \/ RunStops

UserStep ==
    \/ \E c \in Clients, r \in Raws, t \in Texts : UploadChecks(c, r, t)
    \/ \E c \in Clients, overwrite \in BOOLEAN : UploadWrites(c, overwrite)
    \/ \E r \in Removable : RemoveRaw(r)
    \/ \E c \in Clients, i \in Ids : GetAnnotation(c, i)
    \/ \E c \in Clients, b \in Bodies : PutAnnotation(c, b)

SourceNext == RunStep \/ UserStep

SourceSpec == SourceInit /\ [][SourceNext]_sourceVars
=============================================================================
