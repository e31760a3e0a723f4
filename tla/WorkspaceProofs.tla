--------------------------- MODULE WorkspaceProofs ---------------------------
(***************************************************************************)
(* Publishing into a vault changes it all at once or not at all, a failed  *)
(* run is never shown and committed outputs stay, for every number of runs,*)
(* outputs and failures.                                                   *)
(***************************************************************************)
EXTENDS MCWorkspace, TLAPS

Loop     == {"entry", "backup", "intent", "place", "commit"}
Rollback == {"undo", "restore", "dropStage", "dropBackup", "dropJournal"}
Cleanup  == {"cleanBackup", "cleanStage", "cleanJournal"}
Early    == {"idle", "recover", "batch", "begin"}
Places   == Early \cup Loop \cup Rollback \cup Cleanup \cup {"failed", "release", "done"}

Flags    == [Entries -> BOOLEAN]
Folder   == [Entries -> Contents]
Journals == [run : Runs \cup {Nobody}, hadOld : Flags, published : Flags, committed : BOOLEAN]

VTypeOK ==
    /\ vlease \in Runs \cup {Nobody}
    /\ dest \in Folder
    /\ stage \in [Runs -> Folder] /\ backup \in [Runs -> Folder]
    /\ disk \in Journals /\ mem \in [Runs -> Journals]
    /\ at \in [Runs -> 0 .. NumEntries + 1]
    /\ errs \in [Runs -> BOOLEAN]
    /\ where \in [Runs -> Places]
    /\ result \in [Runs -> {"none", "failed", "failedPublished", "published"}]
    /\ trouble \in Nat /\ worst \in Nat /\ trouble <= worst

Begun(r) == mem[r].run = r

(* What the places of a run say of its lease and of the journal.            *)
PlaceInv(r) ==
    /\ where[r] \notin {"idle", "done"} => vlease = r
    /\ where[r] \in {"batch", "begin"} => disk = NoJournal
    /\ where[r] \in Loop => mem[r] = disk /\ disk.run = r /\ ~disk.committed
    /\ where[r] \in Rollback =>
           /\ disk # NoJournal /\ ~disk.committed
           /\ ~mem[r].committed /\ mem[r].run = disk.run
    /\ where[r] \in Cleanup => mem[r] = disk /\ disk.committed
    /\ where[r] \in Early => ~Begun(r)
    /\ ~Begun(r) => disk.run # r /\ backup[r] = NoEntries
    /\ where[r] \notin {"release", "done"} => result[r] = "none"
    /\ where[r] \in {"entry", "backup", "intent", "place", "undo", "restore"} => at[r] \in Entries
    /\ where[r] = "commit" => at[r] = NumEntries + 1

(* A journal on disk belongs to a run, which is publishing, or has failed.  *)
DiskInv ==
    disk = NoJournal \/ (disk.run \in Runs /\ (trouble >= 1 \/ where[disk.run] \in Loop \cup Cleanup))

(* An output that was moved away and not replaced is not there.             *)
MovedAway ==
    \A e \in Entries :
        /\ disk # NoJournal /\ disk.hadOld[e] /\ ~disk.published[e]
        /\ backup[disk.run][e] # Absent
        => dest[e] = Absent

StagedInv(r) ==
    /\ where[r] \in {"begin"} \cup Loop => \A e \in Entries : stage[r][e] \in {r, Absent}
    /\ where[r] = "begin" => \E e \in Entries : stage[r][e] = r
    /\ where[r] \in Loop =>
           \E e \in Entries : disk.published[e] \/ (stage[r][e] = r /\ at[r] <= e)

(* How far the publishing loop has come with entry e.                       *)
LoopInv(r, e) ==
    /\ e < at[r] =>
           (disk.published[e] => dest[e] = r) /\ (~disk.published[e] => ~disk.hadOld[e])
    /\ at[r] < e \/ (at[r] = e /\ where[r] = "entry") =>
           ~disk.published[e] /\ ~disk.hadOld[e] /\ backup[r][e] = Absent
    /\ at[r] = e /\ where[r] = "backup" =>
           /\ disk.hadOld[e] /\ ~disk.published[e] /\ backup[r][e] = Absent
           /\ dest[e] # Absent /\ stage[r][e] # Absent
    /\ at[r] = e /\ where[r] = "intent" =>
           /\ ~disk.published[e] /\ dest[e] = Absent /\ stage[r][e] # Absent
           /\ disk.hadOld[e] <=> backup[r][e] # Absent
    /\ at[r] = e /\ where[r] = "place" =>
           disk.published[e] /\ dest[e] = Absent /\ stage[r][e] # Absent

(* How a rollback's journal differs from the one on disk: by a mark whose    *)
(* write failed.                                                            *)
RollInv(r, e) ==
    /\ disk.published[e] => mem[r].published[e]
    /\ disk.hadOld[e] => mem[r].hadOld[e]
    /\ e <= at[r] =>
           /\ mem[r].published[e] /\ ~disk.published[e] => dest[e] = Absent
           /\ mem[r].hadOld[e] /\ ~disk.hadOld[e] => backup[disk.run][e] = Absent
    /\ where[r] = "restore" /\ at[r] = e /\ ~errs[r] /\ mem[r].published[e] => dest[e] = Absent

EntryInv ==
    \A r \in Runs, e \in Entries :
        /\ where[r] \in Loop => LoopInv(r, e)
        /\ where[r] \in {"undo", "restore"} => RollInv(r, e)

(* Without a second failure a rollback goes through, and who is shown has    *)
(* published and never recorded a failure.                                   *)
Shown(r) ==
    /\ result[r] # "failed" /\ Begun(r)
    /\ where[r] \in Cleanup \cup {"release", "done"} \/ (where[r] = "failed" /\ disk.committed)

CalmInv ==
    worst <= 1 =>
        /\ \A r \in Runs : where[r] \in Rollback => ~errs[r]
        /\ \A r \in Runs, e \in Entries : View[e] = r => Shown(r)

WorkspaceInv ==
    /\ VTypeOK /\ DiskInv /\ MovedAway /\ EntryInv /\ CalmInv
    /\ \A r \in Runs : PlaceInv(r) /\ StagedInv(r)

-----------------------------------------------------------------------------
(* The shape of a step.                                                     *)

(* What a step of run r leaves alone of every other run.                     *)
Frame(r) ==
    \A q \in Runs \ {r} :
        /\ where'[q] = where[q] /\ at'[q] = at[q] /\ errs'[q] = errs[q]
        /\ mem'[q] = mem[q] /\ result'[q] = result[q]

(* What has to be shown of a step of run r: the rest concerns only runs      *)
(* that have not begun or have ended.                                        *)
StepOk(r) ==
    /\ VTypeOK' /\ Frame(r) /\ worst <= worst'
    /\ disk'.run \in {disk.run, r, Nobody}
    /\ \A q \in Runs : q # r /\ q # disk.run => backup'[q] = backup[q]
    /\ DiskInv' /\ MovedAway' /\ PlaceInv(r)' /\ StagedInv(r)'
    /\ \A e \in Entries :
           /\ where'[r] \in Loop => LoopInv(r, e)'
           /\ where'[r] \in {"undo", "restore"} => RollInv(r, e)'
    /\ worst' <= 1 /\ where'[r] \in Rollback => ~errs'[r]

(* What the vault stands for at one entry.                                   *)
ViewAt(e) ==
    IF disk = NoJournal \/ disk.committed \/ Undone(e)
    THEN dest[e]
    ELSE IF disk.hadOld[e] /\ backup[disk.run][e] # Absent
         THEN backup[disk.run][e]
         ELSE IF disk.published[e] THEN Absent ELSE dest[e]

UndoneBy(r, e) ==
    \/ where[r] \in {"undo", "restore"} /\ at[r] < e
    \/ where[r] \in {"dropStage", "dropBackup", "dropJournal"}

Others(r) == \A q \in Runs \ {r} : where[q] \in {"idle", "done"}

LEMMA ViewPoints ==
    /\ \A e \in Entries : View[e] = ViewAt(e)
    /\ \A e \in Entries : View'[e] = ViewAt(e)'
    /\ (\A e \in Entries : ViewAt(e)' = ViewAt(e)) => View' = View
<1>1. View = [e \in Entries |-> ViewAt(e)]
  BY DEF View, ViewAt
<1>2. View' = [e \in Entries |-> ViewAt(e)']
  BY DEF View, ViewAt, Entries
<1> QED
  BY <1>1, <1>2

LEMMA OthersRest ==
    ASSUME WorkspaceInv, NEW r \in Runs, where[r] \notin {"idle", "done"}
    PROVE  Others(r)
BY DEF WorkspaceInv, PlaceInv, Others

LEMMA UndoneOnly ==
    ASSUME NEW r \in Runs, Others(r), NEW e \in Entries
    PROVE  Undone(e) <=> UndoneBy(r, e)
BY DEF Undone, UndoneBy, Others

LEMMA UndoneOnlyNext ==
    ASSUME NEW r \in Runs, Others(r), Frame(r), NEW e \in Entries
    PROVE  Undone(e)' <=> UndoneBy(r, e)'
BY DEF Undone, UndoneBy, Others, Frame

LEMMA NoJournalFacts ==
    /\ NoJournal \in Journals /\ NoJournal.run = Nobody /\ ~NoJournal.committed
    /\ Nobody \notin Runs
    /\ \A r \in Runs : /\ Fresh(r) \in Journals /\ Fresh(r).run = r /\ ~Fresh(r).committed
                       /\ Fresh(r) # NoJournal
                       /\ \A e \in Entries : ~Fresh(r).hadOld[e] /\ ~Fresh(r).published[e]
<1>1. Nobody \notin Runs
  BY WorkspaceAssumption
<1> QED
  BY <1>1 DEF NoJournal, Fresh, Journals, NoFlags, Flags

LEMMA WellFacts ==
    ASSUME VTypeOK, Well
    PROVE  /\ worst' = worst /\ trouble' \in Nat /\ worst' \in Nat
           /\ trouble' <= worst' /\ worst <= worst'
           /\ disk # NoJournal => trouble' = trouble
BY DEF VTypeOK, Well

LEMMA IllFacts ==
    ASSUME VTypeOK, Ill
    PROVE  /\ trouble' \in Nat /\ worst' \in Nat
           /\ trouble' >= 1 /\ trouble' <= worst' /\ worst <= worst'
           /\ trouble >= 1 => ~(worst' <= 1)
BY DEF VTypeOK, Ill

(* A step that keeps the invariant of the run that takes it, and shows       *)
(* nothing new but that run, keeps the whole invariant.                      *)
LEMMA StepKeeps ==
    ASSUME WorkspaceInv, NEW r \in Runs, where[r] \notin {"idle", "done"}, StepOk(r),
           worst' <= 1 => \A e \in Entries :
               ViewAt(e)' = ViewAt(e) \/ (ViewAt(e)' = r /\ Shown(r)'),
           worst' <= 1 => (Shown(r) => Shown(r)')
    PROVE  WorkspaceInv'
<1>1. /\ Others(r) /\ VTypeOK /\ VTypeOK' /\ Frame(r)
      /\ disk'.run \in {disk.run, r, Nobody}
      /\ \A q \in Runs : q # r /\ q # disk.run => backup'[q] = backup[q]
  BY OthersRest DEF WorkspaceInv, StepOk
<1>2. ASSUME NEW q \in Runs, q # r
      PROVE  PlaceInv(q)' /\ StagedInv(q)' /\ where'[q] \in {"idle", "done"}
  <2>1. /\ where'[q] = where[q] /\ where[q] \in {"idle", "done"}
        /\ mem'[q] = mem[q] /\ result'[q] = result[q]
    BY <1>1, <1>2 DEF Frame, Others
  <2>2. ~Begun(q) => disk'.run # q /\ backup'[q] = NoEntries
    BY <1>1, <1>2, NoJournalFacts DEF WorkspaceInv, PlaceInv
  <2>3. Begun(q)' <=> Begun(q)
    BY <2>1 DEF Begun
  <2>4. PlaceInv(q)
    BY DEF WorkspaceInv
  <2>5. (NoEntries)' = NoEntries
    BY DEF NoEntries, Entries
  <2> QED
    BY <2>1, <2>2, <2>3, <2>4, <2>5
       DEF PlaceInv, StagedInv, Early, Loop, Rollback, Cleanup
<1>3. EntryInv'
  BY <1>2 DEF StepOk, EntryInv, Loop, Entries
<1>4. CalmInv'
  <2> SUFFICES ASSUME worst' <= 1
               PROVE  /\ \A q \in Runs : where'[q] \in Rollback => ~errs'[q]
                      /\ \A q \in Runs, e \in Entries : View'[e] = q => Shown(q)'
    BY DEF CalmInv, Entries, Rollback
  <2>1. \A q \in Runs : where'[q] \in Rollback => ~errs'[q]
    BY <1>2 DEF StepOk, Rollback
  <2>2. ASSUME NEW q \in Runs, NEW e \in Entries, View'[e] = q
        PROVE  Shown(q)'
    <3>1. worst <= 1
      BY <1>1 DEF StepOk, VTypeOK
    <3>2. CASE q = r
      BY <2>2, <3>1, <3>2, ViewPoints DEF WorkspaceInv, CalmInv
    <3>3. CASE q # r
      <4>1. ViewAt(e) = q
        BY <2>2, <3>3, ViewPoints
      <4>2. Shown(q)
        BY <3>1, <4>1, ViewPoints DEF WorkspaceInv, CalmInv
      <4>3. where[q] = "done"
        BY <1>1, <3>3, <4>2 DEF Shown, Others, Cleanup
      <4> QED
        BY <1>1, <3>3, <4>2, <4>3 DEF Shown, Frame, Begun
    <3> QED
      BY <3>2, <3>3
  <2> QED
    BY <2>1, <2>2
<1>5. \A q \in Runs : PlaceInv(q)' /\ StagedInv(q)'
  BY <1>2 DEF StepOk
<1> QED
  BY <1>3, <1>4, <1>5 DEF WorkspaceInv, StepOk

(* What every step but one does: the vault stands for what it stood for.     *)
LEMMA QuietStep ==
    ASSUME WorkspaceInv, NEW r \in Runs, where[r] \notin {"idle", "done"}, StepOk(r),
           worst' <= 1 => \A e \in Entries : ViewAt(e)' = ViewAt(e),
           worst' <= 1 => (Shown(r) => Shown(r)')
    PROVE  WorkspaceInv' /\ (worst' <= 1 => View' = View)
BY StepKeeps, ViewPoints

(* A step that leaves the vault, the backups and the journal on disk alone.  *)
LEMMA InnerStep ==
    ASSUME WorkspaceInv, NEW r \in Runs, where[r] \notin {"idle", "done"},
           VTypeOK', Frame(r), UNCHANGED <<disk, dest, backup>>, Well \/ Ill,
           PlaceInv(r)', StagedInv(r)',
           \A e \in Entries :
               /\ where'[r] \in Loop => LoopInv(r, e)'
               /\ where'[r] \in {"undo", "restore"} => RollInv(r, e)',
           worst' <= 1 /\ where'[r] \in Rollback => ~errs'[r],
           where[r] \in Loop \cup Cleanup /\ disk.run = r =>
               Ill \/ where'[r] \in Loop \cup Cleanup,
           worst' <= 1 => \A e \in Entries : UndoneBy(r, e)' <=> UndoneBy(r, e),
           worst' <= 1 => (Shown(r) => Shown(r)')
    PROVE  WorkspaceInv' /\ (worst' <= 1 => View' = View)
<1>1. VTypeOK /\ DiskInv /\ MovedAway /\ Others(r)
  BY OthersRest DEF WorkspaceInv
<1>2. worst <= worst'
  BY <1>1, WellFacts, IllFacts
<1>3. DiskInv'
  <2> SUFFICES ASSUME disk # NoJournal
               PROVE  disk.run \in Runs /\ (trouble' >= 1 \/ where'[disk.run] \in Loop \cup Cleanup)
    BY DEF DiskInv, NoJournal, Fresh, NoFlags, Entries, Loop, Cleanup
  <2>1. disk.run \in Runs /\ (trouble >= 1 \/ where[disk.run] \in Loop \cup Cleanup)
    BY <1>1 DEF DiskInv
  <2>2. CASE Ill
    BY <1>1, <2>1, <2>2, IllFacts
  <2>3. CASE Well
    BY <1>1, <2>1, <2>2, <2>3, WellFacts DEF Frame
  <2> QED
    BY <2>2, <2>3
<1>4. MovedAway'
  BY <1>1 DEF MovedAway, NoJournal, Fresh, NoFlags, Entries
<1>5. StepOk(r)
  BY <1>2, <1>3, <1>4 DEF StepOk
<1>6. ASSUME worst' <= 1, NEW e \in Entries
      PROVE  ViewAt(e)' = ViewAt(e)
  <2>1. Undone(e)' <=> Undone(e)
    BY <1>1, <1>6, UndoneOnly, UndoneOnlyNext
  <2> QED
    BY <2>1 DEF ViewAt, NoJournal, Fresh, NoFlags, Entries
<1> QED
  BY <1>5, <1>6, QuietStep

(* Where a run goes, and what stays of the others.                           *)
LEMMA GoFacts ==
    ASSUME VTypeOK, NEW r \in Runs, NEW p \in Places, Go(r, p)
    PROVE  /\ where' \in [Runs -> Places] /\ where'[r] = p
           /\ \A q \in Runs \ {r} : where'[q] = where[q]
BY DEF VTypeOK, Go

LEMMA TypeStep ==
    ASSUME vlease' \in Runs \cup {Nobody}, dest' \in Folder,
           stage' \in [Runs -> Folder], backup' \in [Runs -> Folder],
           disk' \in Journals, mem' \in [Runs -> Journals],
           at' \in [Runs -> 0 .. NumEntries + 1], errs' \in [Runs -> BOOLEAN],
           where' \in [Runs -> Places],
           result' \in [Runs -> {"none", "failed", "failedPublished", "published"}],
           trouble' \in Nat, worst' \in Nat, trouble' <= worst'
    PROVE  VTypeOK'
BY DEF VTypeOK, Folder, Journals, Flags, Contents, Entries, Places, Early, Loop, Rollback, Cleanup

LEMMA TroubleFacts ==
    ASSUME VTypeOK, Well \/ Ill
    PROVE  trouble' \in Nat /\ worst' \in Nat /\ trouble' <= worst' /\ worst <= worst'
BY WellFacts, IllFacts

-----------------------------------------------------------------------------
(* Lease, recovery and batch.                                               *)

(* recoverInterruptedPublish: reading a journal changes nothing.             *)
LEMMA RecoverStep ==
    ASSUME WorkspaceInv, NEW r \in Runs, RecoverInterruptedPublish(r)
    PROVE  WorkspaceInv' /\ (worst' <= 1 => View' = View)
<1>1. /\ where[r] = "recover" /\ VTypeOK /\ PlaceInv(r) /\ DiskInv
      /\ UNCHANGED <<vlease, dest, stage, backup, disk, result>>
      /\ errs' = [errs EXCEPT ![r] = FALSE]
  BY DEF RecoverInterruptedPublish, WorkspaceInv
<1>2. /\ vlease = r /\ ~Begun(r) /\ disk.run # r /\ backup[r] = NoEntries /\ result[r] = "none"
  BY <1>1 DEF PlaceInv, Early
<1>3. NumEntries \in Entries /\ NumEntries \in 0 .. NumEntries + 1
  BY WorkspaceAssumption DEF Entries
<1>4. ASSUME Well, mem' = [mem EXCEPT ![r] = disk],
             \/ disk = NoJournal /\ Go(r, "batch") /\ UNCHANGED at
             \/ disk # NoJournal /\ disk.committed /\ Go(r, "cleanBackup") /\ UNCHANGED at
             \/ /\ disk # NoJournal /\ ~disk.committed /\ Go(r, "undo")
                /\ at' = [at EXCEPT ![r] = NumEntries]
      PROVE  WorkspaceInv' /\ (worst' <= 1 => View' = View)
  <2>1. /\ mem'[r] = disk /\ ~errs'[r]
        /\ \/ where'[r] = "batch" /\ disk = NoJournal
           \/ where'[r] = "cleanBackup" /\ disk # NoJournal /\ disk.committed
           \/ where'[r] = "undo" /\ at'[r] = NumEntries /\ disk # NoJournal /\ ~disk.committed
    BY <1>1, <1>4 DEF Go, VTypeOK
  <2>2. VTypeOK' /\ Frame(r)
    <3>1. /\ where' \in [Runs -> Places] /\ \A q \in Runs \ {r} : where'[q] = where[q]
      BY <1>1, <1>4, GoFacts DEF Places, Early, Rollback, Cleanup
    <3>2. /\ mem' \in [Runs -> Journals] /\ \A q \in Runs \ {r} : mem'[q] = mem[q]
          /\ errs' \in [Runs -> BOOLEAN] /\ \A q \in Runs \ {r} : errs'[q] = errs[q]
      BY <1>1, <1>4 DEF VTypeOK
    <3>3. /\ at' \in [Runs -> 0 .. NumEntries + 1] /\ \A q \in Runs \ {r} : at'[q] = at[q]
      BY <1>1, <1>3, <1>4 DEF VTypeOK
    <3>4. VTypeOK'
      BY <1>1, <1>4, <3>1, <3>2, <3>3, TroubleFacts, TypeStep DEF VTypeOK
    <3> QED
      BY <1>1, <3>1, <3>2, <3>3, <3>4 DEF Frame
  <2>3. PlaceInv(r)' /\ StagedInv(r)'
    BY <1>1, <1>2, <1>3, <2>1
       DEF PlaceInv, StagedInv, Begun, Early, Loop, Rollback, Cleanup, NoJournal, Fresh, NoFlags,
           NoEntries, Entries
  <2>4. \A e \in Entries :
            /\ where'[r] \in Loop => LoopInv(r, e)'
            /\ where'[r] \in {"undo", "restore"} => RollInv(r, e)'
    BY <1>1, <2>1 DEF Loop, RollInv
  <2>5. \A e \in Entries : UndoneBy(r, e)' <=> UndoneBy(r, e)
    BY <1>1, <2>1, WorkspaceAssumption DEF UndoneBy, Entries
  <2> QED
    BY <1>1, <1>4, <2>1, <2>2, <2>3, <2>4, <2>5, InnerStep DEF Loop, Cleanup, Shown
<1>5. ASSUME Ill, Go(r, "release"), UNCHANGED <<mem, at>>
      PROVE  WorkspaceInv' /\ (worst' <= 1 => View' = View)
  <2>1. where'[r] = "release" /\ mem'[r] = mem[r]
    BY <1>1, <1>5 DEF Go, VTypeOK
  <2>2. VTypeOK' /\ Frame(r)
    <3>1. /\ where' \in [Runs -> Places] /\ \A q \in Runs \ {r} : where'[q] = where[q]
      BY <1>1, <1>5, GoFacts DEF Places
    <3>2. errs' \in [Runs -> BOOLEAN] /\ \A q \in Runs \ {r} : errs'[q] = errs[q]
      BY <1>1 DEF VTypeOK
    <3>3. VTypeOK'
      BY <1>1, <1>5, <3>1, <3>2, TroubleFacts, TypeStep DEF VTypeOK
    <3> QED
      BY <1>1, <1>5, <3>1, <3>2, <3>3 DEF Frame
  <2>3. PlaceInv(r)' /\ StagedInv(r)'
    BY <1>1, <1>2, <2>1
       DEF PlaceInv, StagedInv, Begun, Early, Loop, Rollback, Cleanup, NoEntries, Entries
  <2>4. \A e \in Entries : UndoneBy(r, e)' <=> UndoneBy(r, e)
    BY <1>1, <2>1 DEF UndoneBy
  <2> QED
    BY <1>1, <1>5, <2>1, <2>2, <2>3, <2>4, InnerStep DEF Loop, Rollback, Cleanup, Shown
<1> QED
  BY <1>4, <1>5 DEF RecoverInterruptedPublish

(* A run that goes to another place and keeps its journal and its counters.  *)
LEMMA Moves ==
    ASSUME VTypeOK, NEW r \in Runs, NEW p \in Places, Go(r, p), UNCHANGED <<mem, at>>,
           errs' = errs \/ (\E b \in BOOLEAN : errs' = [errs EXCEPT ![r] = b]),
           Well \/ Ill, vlease' \in Runs \cup {Nobody}, dest' \in Folder,
           stage' \in [Runs -> Folder], backup' \in [Runs -> Folder], disk' \in Journals,
           \/ result' = result
           \/ \E x \in {"none", "failed", "failedPublished", "published"} :
                  result' = [result EXCEPT ![r] = x]
    PROVE  VTypeOK' /\ Frame(r) /\ where'[r] = p
<1>1. /\ where' \in [Runs -> Places] /\ where'[r] = p
      /\ \A q \in Runs \ {r} : where'[q] = where[q]
  BY GoFacts
<1>2. errs' \in [Runs -> BOOLEAN] /\ \A q \in Runs \ {r} : errs'[q] = errs[q]
  BY DEF VTypeOK
<1>3. /\ result' \in [Runs -> {"none", "failed", "failedPublished", "published"}]
      /\ \A q \in Runs \ {r} : result'[q] = result[q]
  BY DEF VTypeOK
<1>4. VTypeOK'
  BY <1>1, <1>2, <1>3, TroubleFacts, TypeStep DEF VTypeOK
<1> QED
  BY <1>1, <1>2, <1>3, <1>4 DEF Frame

(* A journal that is on disk during a rollback was left by a failure.        *)
LEMMA RollTrouble ==
    ASSUME WorkspaceInv, NEW r \in Runs, where[r] \notin {"idle", "done"} \cup Loop \cup Cleanup,
           disk # NoJournal
    PROVE  trouble >= 1
BY OthersRest DEF WorkspaceInv, DiskInv, Others, Loop, Cleanup

LEMMA RunAndStageStep ==
    ASSUME WorkspaceInv, NEW r \in Runs, RunAndStage(r)
    PROVE  WorkspaceInv' /\ (worst' <= 1 => View' = View)
<1>1. /\ where[r] = "batch" /\ VTypeOK /\ PlaceInv(r)
      /\ UNCHANGED <<vlease, dest, backup, disk, mem, at, errs, result>>
  BY DEF RunAndStage, WorkspaceInv
<1>2. /\ vlease = r /\ ~Begun(r) /\ disk = NoJournal /\ disk.run # r /\ backup[r] = NoEntries
      /\ result[r] = "none"
  BY <1>1 DEF PlaceInv, Early
<1>3. Begun(r)' <=> Begun(r)
  BY <1>1 DEF Begun
<1>4. ASSUME Well, NEW staged \in (SUBSET Entries) \ {{}}, Go(r, "begin"),
             stage' = [stage EXCEPT ![r] = [e \in Entries |-> IF e \in staged THEN r ELSE Absent]]
      PROVE  WorkspaceInv' /\ (worst' <= 1 => View' = View)
  <2>1. stage' \in [Runs -> Folder] /\ stage'[r] = [e \in Entries |-> IF e \in staged THEN r ELSE Absent]
    BY <1>4 DEF VTypeOK, WorkspaceInv, Folder, Contents
  <2>2. VTypeOK' /\ Frame(r) /\ where'[r] = "begin"
    BY <1>1, <1>4, <2>1, Moves DEF VTypeOK, Places, Early
  <2>3. StagedInv(r)'
    <3>1. PICK e \in Entries : e \in staged
      BY <1>4
    <3>2. stage'[r][e] = r
      BY <2>1, <3>1
    <3>3. \A f \in Entries : stage'[r][f] \in {r, Absent}
      BY <2>1
    <3> QED
      BY <2>2, <3>2, <3>3 DEF StagedInv, Loop, Entries
  <2>4. PlaceInv(r)'
    BY <1>1, <1>2, <1>3, <2>2
       DEF PlaceInv, Early, Loop, Rollback, Cleanup, NoJournal, Fresh, NoFlags, NoEntries, Entries
  <2>5. \A e \in Entries : UndoneBy(r, e)' <=> UndoneBy(r, e)
    BY <1>1, <2>2 DEF UndoneBy
  <2> QED
    BY <1>1, <1>4, <2>2, <2>3, <2>4, <2>5, InnerStep DEF Loop, Rollback, Cleanup, Shown
<1>5. ASSUME Ill, NEW p \in {"failed", "release"}, Go(r, p), stage' = stage
      PROVE  WorkspaceInv' /\ (worst' <= 1 => View' = View)
  <2>2. VTypeOK' /\ Frame(r) /\ where'[r] = p
    BY <1>1, <1>5, Moves DEF VTypeOK, Places
  <2>4. PlaceInv(r)' /\ StagedInv(r)'
    BY <1>1, <1>2, <1>3, <2>2
       DEF PlaceInv, StagedInv, Early, Loop, Rollback, Cleanup, NoEntries, Entries
  <2>5. \A e \in Entries : UndoneBy(r, e)' <=> UndoneBy(r, e)
    BY <1>1, <2>2 DEF UndoneBy
  <2> QED
    BY <1>1, <1>5, <2>2, <2>4, <2>5, InnerStep DEF Loop, Rollback, Cleanup, Shown
<1> QED
  BY <1>4, <1>5 DEF RunAndStage

(* recordFailure: a committed journal is still there when it is read, unless *)
(* a second call fails.                                                      *)
LEMMA RecordStep ==
    ASSUME WorkspaceInv, NEW r \in Runs, RecordFailed(r)
    PROVE  WorkspaceInv' /\ (worst' <= 1 => View' = View)
<1>1. /\ where[r] = "failed" /\ VTypeOK /\ PlaceInv(r) /\ Go(r, "release")
      /\ UNCHANGED <<vlease, dest, stage, backup, disk, mem, at, errs>>
  BY DEF RecordFailed, WorkspaceInv
<1>2. PICK x \in {"failed", "failedPublished"} :
        /\ result' = [result EXCEPT ![r] = x]
        /\ \/ Well /\ x = (IF disk.committed THEN "failedPublished" ELSE "failed")
           \/ Ill /\ x = "failed"
  BY DEF RecordFailed
<1>3. VTypeOK' /\ Frame(r) /\ where'[r] = "release"
  BY <1>1, <1>2, Moves DEF VTypeOK, Places
<1>4. Begun(r)' <=> Begun(r)
  BY <1>1 DEF Begun
<1>5. PlaceInv(r)' /\ StagedInv(r)'
  BY <1>1, <1>3, <1>4
     DEF PlaceInv, StagedInv, Early, Loop, Rollback, Cleanup, NoEntries, Entries
<1>6. ASSUME worst' <= 1, Shown(r) PROVE Shown(r)'
  <2>1. disk.committed /\ Begun(r)
    BY <1>1, <1>6 DEF Shown, Cleanup
  <2>2. trouble >= 1
    BY <1>1, <2>1, RollTrouble, NoJournalFacts DEF Loop, Cleanup
  <2>3. x = "failedPublished"
    BY <1>1, <1>2, <1>6, <2>1, <2>2, IllFacts
  <2> QED
    BY <1>1, <1>2, <1>3, <1>4, <2>1, <2>3 DEF Shown, VTypeOK
<1>7. \A e \in Entries : UndoneBy(r, e)' <=> UndoneBy(r, e)
  BY <1>1, <1>3 DEF UndoneBy
<1> QED
  BY <1>1, <1>2, <1>3, <1>5, <1>6, <1>7, InnerStep DEF Loop, Rollback, Cleanup

(* A run that ends, or dies where no rollback is under way, or whose         *)
(* rollback cannot start, leaves the vault to recovery.                      *)
LEMMA LeaveStep ==
    ASSUME WorkspaceInv, NEW r \in Runs, where[r] \notin {"idle", "done"},
           NEW p \in {"release", "failed", "done"}, Go(r, p), Ill \/ where[r] = "release",
           Well \/ Ill, vlease' \in {vlease, Nobody}, p # "done" => vlease' = vlease,
           p = "failed" => where[r] \notin {"release", "done"},
           where[r] = "undo" => at[r] = NumEntries \/ p = "done",
           p = "done" \/ (where[r] = "undo" /\ p \in {"release", "failed"}),
           UNCHANGED <<dest, stage, backup, disk, mem, at, errs, result>>
    PROVE  WorkspaceInv' /\ (worst' <= 1 => View' = View)
<1>1. VTypeOK /\ PlaceInv(r)
  BY DEF WorkspaceInv
<1>2. VTypeOK' /\ Frame(r) /\ where'[r] = p
  BY <1>1, Moves DEF VTypeOK, Places
<1>3. Begun(r)' <=> Begun(r)
  BY DEF Begun
<1>4. PlaceInv(r)' /\ StagedInv(r)'
  BY <1>1, <1>2, <1>3
     DEF PlaceInv, StagedInv, Early, Loop, Rollback, Cleanup, NoEntries, Entries
<1>5. ASSUME worst' <= 1, Shown(r) PROVE Shown(r)'
  BY <1>2, <1>3, <1>5 DEF Shown, Cleanup
<1>6. ASSUME worst' <= 1, NEW e \in Entries PROVE UndoneBy(r, e)' <=> UndoneBy(r, e)
  <2>1. CASE where[r] \in Rollback
    <3>1. trouble >= 1
      BY <1>1, <2>1, RollTrouble DEF PlaceInv, Rollback, Loop, Cleanup
    <3> QED
      BY <1>1, <1>6, <2>1, <3>1, IllFacts DEF Rollback
  <2>2. CASE where[r] \notin Rollback
    BY <1>2, <2>2 DEF UndoneBy, Rollback
  <2> QED
    BY <2>1, <2>2
<1>7. where[r] \in Loop \cup Cleanup /\ disk.run = r => Ill \/ where'[r] \in Loop \cup Cleanup
  BY DEF Loop, Cleanup
<1> QED
  BY <1>2, <1>4, <1>5, <1>6, <1>7, InnerStep DEF Loop, Rollback

LEMMA LeaveSteps ==
    ASSUME WorkspaceInv, NEW r \in Runs,
           ReleaseVaultLease(r) \/ RollbackCannotStart(r) \/ Die(r)
    PROVE  WorkspaceInv' /\ (worst' <= 1 => View' = View)
<1>1. CASE ReleaseVaultLease(r)
  BY <1>1, LeaveStep DEF ReleaseVaultLease
<1>2. CASE RollbackCannotStart(r)
  BY <1>2, LeaveStep DEF RollbackCannotStart, RollbackFailed
<1>3. CASE Die(r)
  BY <1>3, LeaveStep DEF Die
<1> QED
  BY <1>1, <1>2, <1>3

-----------------------------------------------------------------------------
(* Cleanup.                                                                 *)

LEMMA RemovedFacts ==
    ASSUME NEW dir \in Folder, NEW left \in PartlyRemoved(dir) \cup {NoEntries}
    PROVE  left \in Folder /\ \A e \in Entries : left[e] # Absent => dir[e] # Absent
BY DEF PartlyRemoved, Folder, NoEntries, Contents

(* RemoveAll of a run's directory, whole or in part.                         *)
LEMMA RemovalFacts ==
    ASSUME VTypeOK, NEW r \in Runs, mem[r].run \in Runs, NEW dir \in [Runs -> Folder],
           NEW left \in PartlyRemoved(dir[mem[r].run]) \cup {NoEntries}
    PROVE  LET next == [dir EXCEPT ![mem[r].run] = left] IN
           /\ next \in [Runs -> Folder]
           /\ \A q \in Runs : q # mem[r].run => next[q] = dir[q]
           /\ \A e \in Entries : next[mem[r].run][e] # Absent => dir[mem[r].run][e] # Absent
<1>1. dir[mem[r].run] \in Folder
  OBVIOUS
<1>2. left \in Folder /\ \A e \in Entries : left[e] # Absent => dir[mem[r].run][e] # Absent
  BY <1>1, RemovedFacts
<1> QED
  BY <1>2

LEMMA CleanStageStep ==
    ASSUME WorkspaceInv, NEW r \in Runs, CleanStage(r)
    PROVE  WorkspaceInv' /\ (worst' <= 1 => View' = View)
<1>1. /\ where[r] = "cleanStage" /\ VTypeOK /\ PlaceInv(r) /\ DiskInv
      /\ UNCHANGED <<vlease, dest, backup, disk, mem, at, errs, result>>
  BY DEF CleanStage, WorkspaceInv
<1>2. disk.committed /\ mem[r] = disk /\ disk # NoJournal /\ mem[r].run \in Runs
  BY <1>1, NoJournalFacts DEF PlaceInv, Cleanup, DiskInv
<1>3. PICK left \in PartlyRemoved(stage[mem[r].run]) \cup {NoEntries},
           p \in {"cleanJournal", "release", "failed"} :
        /\ stage' = [stage EXCEPT ![mem[r].run] = left] /\ Go(r, p)
        /\ (Well /\ p = "cleanJournal") \/ Ill
  BY DEF CleanStage, RemoveDirectory, CleanupFailed
<1>4. stage' \in [Runs -> Folder]
  BY <1>1, <1>2, <1>3, RemovalFacts DEF VTypeOK
<1>5. VTypeOK' /\ Frame(r) /\ where'[r] = p
  BY <1>1, <1>3, <1>4, Moves DEF VTypeOK, Places, Cleanup
<1>6. Begun(r)' <=> Begun(r)
  BY <1>1 DEF Begun
<1>7. PlaceInv(r)' /\ StagedInv(r)'
  BY <1>1, <1>2, <1>5, <1>6
     DEF PlaceInv, StagedInv, Early, Loop, Rollback, Cleanup, NoEntries, Entries
<1>8. Shown(r) => Shown(r)'
  BY <1>1, <1>2, <1>5, <1>6 DEF Shown, Cleanup
<1>9. \A e \in Entries : UndoneBy(r, e)' <=> UndoneBy(r, e)
  BY <1>1, <1>5 DEF UndoneBy
<1>10. Ill \/ where'[r] \in Loop \cup Cleanup
  BY <1>3, <1>5 DEF Cleanup
<1> QED
  BY <1>1, <1>3, <1>5, <1>7, <1>8, <1>9, <1>10, InnerStep DEF Loop, Rollback

LEMMA DropStageStep ==
    ASSUME WorkspaceInv, NEW r \in Runs, DropStage(r)
    PROVE  WorkspaceInv' /\ (worst' <= 1 => View' = View)
<1>1. /\ where[r] = "dropStage" /\ VTypeOK /\ PlaceInv(r) /\ DiskInv /\ CalmInv
      /\ Go(r, "dropBackup")
      /\ UNCHANGED <<vlease, dest, backup, disk, mem, at, result>>
  BY DEF DropStage, WorkspaceInv
<1>2. disk # NoJournal /\ mem[r].run = disk.run /\ mem[r].run \in Runs
  BY <1>1 DEF PlaceInv, Rollback, DiskInv
<1>3. PICK left \in PartlyRemoved(stage[mem[r].run]) \cup {NoEntries} :
        /\ stage' = [stage EXCEPT ![mem[r].run] = left]
        /\ (Well /\ errs' = errs) \/ (Ill /\ errs' = [errs EXCEPT ![r] = TRUE])
  BY DEF DropStage, RemoveDirectory, Note
<1>4. stage' \in [Runs -> Folder]
  BY <1>1, <1>2, <1>3, RemovalFacts DEF VTypeOK
<1>5. VTypeOK' /\ Frame(r) /\ where'[r] = "dropBackup"
  BY <1>1, <1>3, <1>4, Moves DEF VTypeOK, Places, Rollback
<1>6. Begun(r)' <=> Begun(r)
  BY <1>1 DEF Begun
<1>7. PlaceInv(r)' /\ StagedInv(r)'
  BY <1>1, <1>2, <1>5, <1>6
     DEF PlaceInv, StagedInv, Early, Loop, Rollback, Cleanup, NoJournal, Fresh, NoFlags, NoEntries,
         Entries
<1>8. trouble >= 1
  BY <1>1, <1>2, RollTrouble DEF Loop, Cleanup
<1>9. worst' <= 1 => ~errs'[r]
  BY <1>1, <1>3, <1>8, IllFacts, WellFacts DEF CalmInv, Rollback
<1>10. \A e \in Entries : UndoneBy(r, e)' <=> UndoneBy(r, e)
  BY <1>1, <1>5 DEF UndoneBy
<1> QED
  BY <1>1, <1>3, <1>5, <1>7, <1>9, <1>10, InnerStep DEF Loop, Rollback, Cleanup, Shown

(* Removing the backup of a committed publication, or after a rollback:      *)
(* nothing of it was going to be restored.                                   *)
LEMMA BackupGoes ==
    ASSUME WorkspaceInv, NEW r \in Runs, where[r] \in {"cleanBackup", "dropBackup"},
           NEW left \in PartlyRemoved(backup[mem[r].run]) \cup {NoEntries},
           backup' = [backup EXCEPT ![mem[r].run] = left], Well \/ Ill,
           NEW p \in {"cleanStage", "dropJournal", "failed", "release"}, Go(r, p),
           where[r] = "cleanBackup" => p # "dropJournal" /\ errs' = errs,
           where[r] = "cleanBackup" => (Ill \/ p = "cleanStage"),
           where[r] = "dropBackup" => p = "dropJournal",
           errs' = errs \/ (Ill /\ errs' = [errs EXCEPT ![r] = TRUE]),
           UNCHANGED <<vlease, dest, stage, disk, mem, at, result>>
    PROVE  WorkspaceInv' /\ (worst' <= 1 => View' = View)
<1>1. VTypeOK /\ PlaceInv(r) /\ DiskInv /\ CalmInv /\ MovedAway /\ Others(r)
  BY OthersRest DEF WorkspaceInv
<1>2. /\ disk # NoJournal /\ mem[r].run = disk.run /\ disk.run \in Runs
      /\ where[r] = "cleanBackup" => disk.committed /\ mem[r] = disk
      /\ where[r] = "dropBackup" => ~disk.committed /\ ~mem[r].committed
  BY <1>1, NoJournalFacts DEF PlaceInv, Cleanup, Rollback, DiskInv
<1>3. /\ backup' \in [Runs -> Folder]
      /\ \A q \in Runs : q # disk.run => backup'[q] = backup[q]
      /\ \A e \in Entries : backup'[disk.run][e] # Absent => backup[disk.run][e] # Absent
  BY <1>1, <1>2, RemovalFacts DEF VTypeOK
<1>4. VTypeOK' /\ Frame(r) /\ where'[r] = p
  BY <1>1, <1>3, Moves DEF VTypeOK, Places, Rollback, Cleanup
<1>5. Begun(r)' <=> Begun(r)
  BY DEF Begun
<1>6. PlaceInv(r)' /\ StagedInv(r)'
  BY <1>1, <1>2, <1>3, <1>4, <1>5
     DEF PlaceInv, StagedInv, Early, Loop, Rollback, Cleanup, NoJournal, Fresh, NoFlags, NoEntries,
         Entries
<1>7. DiskInv'
  <2>1. CASE Ill
    BY <1>1, <1>2, <2>1, IllFacts DEF DiskInv
  <2>2. CASE where[r] = "dropBackup" /\ Well
    <3>1. trouble >= 1
      BY <1>2, <2>2, RollTrouble DEF Loop, Cleanup
    <3> QED
      BY <1>1, <1>2, <2>2, <3>1, WellFacts DEF DiskInv
  <2>3. CASE where[r] = "cleanBackup" /\ Well /\ p = "cleanStage"
    <3>1. trouble' = trouble
      BY <1>1, <1>2, <2>3, WellFacts
    <3>2. trouble >= 1 \/ where[disk.run] \in Loop \cup Cleanup
      BY <1>1, <1>2 DEF DiskInv
    <3>3. where'[disk.run] = where[disk.run] \/ where'[disk.run] = "cleanStage"
      BY <1>2, <1>4, <2>3 DEF Frame
    <3> QED
      BY <1>2, <3>1, <3>2, <3>3 DEF DiskInv, Loop, Cleanup
  <2> QED
    BY <2>1, <2>2, <2>3
<1>8. MovedAway'
  BY <1>1, <1>2, <1>3 DEF MovedAway, Entries
<1>9. worst' <= 1 /\ where'[r] \in Rollback => ~errs'[r]
  <2> SUFFICES ASSUME worst' <= 1, where[r] = "dropBackup" PROVE ~errs'[r]
    BY <1>4 DEF Rollback
  <2>1. trouble >= 1
    BY <1>2, RollTrouble DEF Loop, Cleanup
  <2> QED
    BY <1>1, <2>1, IllFacts, WellFacts DEF CalmInv, Rollback
<1>10. StepOk(r)
  BY <1>1, <1>3, <1>4, <1>6, <1>7, <1>8, <1>9, TroubleFacts DEF StepOk, Loop
<1>11. ASSUME NEW e \in Entries PROVE ViewAt(e)' = ViewAt(e)
  <2>1. CASE where[r] = "cleanBackup"
    BY <1>2, <2>1 DEF ViewAt
  <2>2. CASE where[r] = "dropBackup"
    <3>1. Undone(e) /\ Undone(e)'
      BY <1>1, <1>4, <2>2, UndoneOnly, UndoneOnlyNext DEF UndoneBy
    <3> QED
      BY <3>1 DEF ViewAt
  <2> QED
    BY <2>1, <2>2
<1>12. Shown(r) => Shown(r)'
  BY <1>2, <1>4, <1>5 DEF Shown, Cleanup
<1> QED
  BY <1>10, <1>11, <1>12, QuietStep

LEMMA BackupSteps ==
    ASSUME WorkspaceInv, NEW r \in Runs, CleanBackup(r) \/ DropBackup(r)
    PROVE  WorkspaceInv' /\ (worst' <= 1 => View' = View)
<1>1. CASE CleanBackup(r)
  <2>1. PICK left \in PartlyRemoved(backup[mem[r].run]) \cup {NoEntries},
             p \in {"cleanStage", "failed", "release"} :
          /\ backup' = [backup EXCEPT ![mem[r].run] = left]
          /\ Go(r, p) /\ (Ill \/ (Well /\ p = "cleanStage"))
    BY <1>1 DEF CleanBackup, RemoveDirectory, CleanupFailed
  <2> QED
    BY <1>1, <2>1, BackupGoes DEF CleanBackup
<1>2. CASE DropBackup(r)
  <2>1. PICK left \in PartlyRemoved(backup[mem[r].run]) \cup {NoEntries} :
          /\ backup' = [backup EXCEPT ![mem[r].run] = left]
          /\ (Well /\ errs' = errs) \/ (Ill /\ errs' = [errs EXCEPT ![r] = TRUE])
    BY <1>2 DEF DropBackup, RemoveDirectory, Note
  <2> QED
    BY <1>2, <2>1, BackupGoes DEF DropBackup
<1> QED
  BY <1>1, <1>2

(* Removing the journal after a cleanup or a rollback that went through.     *)
LEMMA JournalGoes ==
    ASSUME WorkspaceInv, NEW r \in Runs, where[r] \in {"cleanJournal", "dropJournal"},
           RemoveJournal, NEW p \in {"batch", "failed", "release"}, Go(r, p),
           p = "batch" <=> Recovering(r), p = "failed" => where[r] = "dropJournal",
           p = "release" => where[r] = "cleanJournal",
           result' = IF p = "release" THEN [result EXCEPT ![r] = "published"] ELSE result,
           UNCHANGED <<vlease, dest, stage, backup, mem, at, errs>>
    PROVE  WorkspaceInv' /\ (worst' <= 1 => View' = View)
<1>1. VTypeOK /\ PlaceInv(r) /\ Others(r)
  BY OthersRest DEF WorkspaceInv
<1>2. /\ disk' = NoJournal /\ trouble' = 0 /\ worst' = worst
      /\ trouble' \in Nat /\ worst' \in Nat /\ trouble' <= worst' /\ worst <= worst'
  BY <1>1 DEF RemoveJournal, VTypeOK
<1>3. /\ where' \in [Runs -> Places] /\ where'[r] = p
      /\ \A q \in Runs \ {r} : where'[q] = where[q]
  BY <1>1, GoFacts DEF Places, Early
<1>4. /\ result' \in [Runs -> {"none", "failed", "failedPublished", "published"}]
      /\ \A q \in Runs \ {r} : result'[q] = result[q]
      /\ p # "release" => result'[r] = result[r]
      /\ p = "release" => result'[r] = "published"
  BY <1>1 DEF VTypeOK
<1>5. VTypeOK' /\ Frame(r)
  <2>1. VTypeOK'
    BY <1>1, <1>2, <1>3, <1>4, TypeStep, NoJournalFacts DEF VTypeOK
  <2> QED
    BY <1>3, <1>4, <2>1 DEF Frame
<1>6. (Begun(r)' <=> Begun(r)) /\ (Recovering(r) <=> ~Begun(r))
  BY DEF Begun, Recovering
<1>7. (NoJournal)' = NoJournal /\ NoJournal.run \notin Runs /\ (NoEntries)' = NoEntries
  BY NoJournalFacts DEF NoJournal, Fresh, NoFlags, NoEntries, Entries
<1>8. PlaceInv(r)'
  BY <1>1, <1>2, <1>3, <1>4, <1>6, <1>7 DEF PlaceInv, Early, Loop, Rollback, Cleanup
<1>9. StagedInv(r)' /\ DiskInv' /\ MovedAway'
  BY <1>2, <1>3, <1>7 DEF StagedInv, Loop, DiskInv, MovedAway
<1>10. StepOk(r)
  BY <1>2, <1>3, <1>5, <1>7, <1>8, <1>9, NoJournalFacts DEF StepOk, Loop, Rollback
<1>11. ASSUME NEW e \in Entries PROVE ViewAt(e)' = ViewAt(e)
  <2>1. ViewAt(e)' = dest[e]
    BY <1>2, <1>7 DEF ViewAt
  <2>2. CASE where[r] = "cleanJournal"
    BY <1>1, <2>1, <2>2 DEF ViewAt, PlaceInv, Cleanup
  <2>3. CASE where[r] = "dropJournal"
    <3>1. Undone(e)
      BY <1>1, <2>3, UndoneOnly DEF UndoneBy
    <3> QED
      BY <2>1, <3>1 DEF ViewAt
  <2> QED
    BY <2>2, <2>3
<1>12. Shown(r) => Shown(r)'
  BY <1>3, <1>4, <1>6 DEF Shown, Cleanup
<1> QED
  BY <1>10, <1>11, <1>12, QuietStep

(* The journal cannot be removed, or stays because a step failed.            *)
LEMMA JournalStays ==
    ASSUME WorkspaceInv, NEW r \in Runs, where[r] \in {"cleanJournal", "dropJournal"},
           NEW p \in {"failed", "release"}, Go(r, p),
           Ill \/ (Well /\ errs[r] /\ where[r] = "dropJournal"),
           UNCHANGED <<vlease, dest, stage, backup, disk, mem, at, errs, result>>
    PROVE  WorkspaceInv' /\ (worst' <= 1 => View' = View)
<1>1. VTypeOK /\ PlaceInv(r) /\ CalmInv
  BY DEF WorkspaceInv
<1>2. VTypeOK' /\ Frame(r) /\ where'[r] = p
  BY <1>1, Moves DEF VTypeOK, Places
<1>3. Begun(r)' <=> Begun(r)
  BY DEF Begun
<1>4. PlaceInv(r)' /\ StagedInv(r)'
  BY <1>1, <1>2, <1>3
     DEF PlaceInv, StagedInv, Early, Loop, Rollback, Cleanup, NoEntries, Entries
<1>5. Shown(r) => Shown(r)'
  BY <1>1, <1>2, <1>3 DEF Shown, PlaceInv, Cleanup
<1>6. ASSUME worst' <= 1, NEW e \in Entries PROVE UndoneBy(r, e)' <=> UndoneBy(r, e)
  <2>1. where[r] # "dropJournal"
    <3> SUFFICES ASSUME where[r] = "dropJournal" PROVE FALSE
      OBVIOUS
    <3>1. trouble >= 1
      BY <1>1, RollTrouble DEF PlaceInv, Rollback, Loop, Cleanup
    <3> QED
      BY <1>1, <1>6, <3>1, IllFacts, WellFacts DEF CalmInv, Rollback
  <2> QED
    BY <1>2, <2>1 DEF UndoneBy
<1>7. where[r] \in Loop \cup Cleanup /\ disk.run = r => Ill \/ where'[r] \in Loop \cup Cleanup
  BY DEF Loop, Cleanup
<1> QED
  BY <1>2, <1>4, <1>5, <1>6, <1>7, InnerStep DEF Loop, Rollback

LEMMA JournalSteps ==
    ASSUME WorkspaceInv, NEW r \in Runs, CleanJournal(r) \/ DropJournal(r)
    PROVE  WorkspaceInv' /\ (worst' <= 1 => View' = View)
<1>1. CASE CleanJournal(r)
  <2>1. where[r] = "cleanJournal" /\ UNCHANGED <<vlease, dest, stage, backup, mem, at, errs>>
    BY <1>1 DEF CleanJournal
  <2>2. CASE RemoveJournal /\ Recovering(r) /\ Go(r, "batch") /\ UNCHANGED result
    BY <2>1, <2>2, JournalGoes
  <2>3. CASE /\ RemoveJournal /\ ~Recovering(r) /\ Go(r, "release")
             /\ result' = [result EXCEPT ![r] = "published"]
    BY <2>1, <2>3, JournalGoes
  <2>4. CASE Ill /\ CleanupFailed(r) /\ UNCHANGED <<disk, result>>
    BY <2>1, <2>4, JournalStays DEF CleanupFailed
  <2> QED
    BY <1>1, <2>2, <2>3, <2>4 DEF CleanJournal
<1>2. CASE DropJournal(r)
  <2>1. /\ where[r] = "dropJournal"
        /\ UNCHANGED <<vlease, dest, stage, backup, mem, at, errs, result>>
    BY <1>2 DEF DropJournal
  <2>2. CASE ~errs[r] /\ RemoveJournal /\ RollbackOk(r)
    BY <2>1, <2>2, JournalGoes DEF RollbackOk
  <2>3. CASE /\ (~errs[r] /\ Ill) \/ (errs[r] /\ Well)
             /\ RollbackFailed(r) /\ UNCHANGED disk
    BY <2>1, <2>3, JournalStays DEF RollbackFailed
  <2> QED
    BY <1>2, <2>2, <2>3 DEF DropJournal
<1> QED
  BY <1>1, <1>2

-----------------------------------------------------------------------------
(* Steps that need no publication, and the first state.                     *)

(* Steps that only the lease sees: a run starts or is refused, the lease of  *)
(* a process that is gone is removed, or nothing happens at all.             *)
LEMMA LeaseStep ==
    ASSUME WorkspaceInv, VTypeOK',
           UNCHANGED <<dest, stage, backup, disk, mem, at, errs, result>>,
           Well \/ UNCHANGED <<trouble, worst>>,
           \A q \in Runs :
               /\ \/ where'[q] = where[q]
                  \/ where[q] = "idle" /\ where'[q] \in {"recover", "done"}
               /\ where'[q] \notin {"idle", "done"} => vlease' = q
    PROVE  WorkspaceInv' /\ View' = View
<1>1. VTypeOK /\ DiskInv /\ MovedAway /\ EntryInv /\ CalmInv
  BY DEF WorkspaceInv
<1>2. worst' = worst /\ (disk # NoJournal => trouble' = trouble)
  BY <1>1, WellFacts
<1>3. \A q \in Runs : Begun(q)' <=> Begun(q)
  BY DEF Begun
<1>4. /\ (NoJournal)' = NoJournal /\ (NoEntries)' = NoEntries
  BY DEF NoJournal, Fresh, NoFlags, NoEntries, Entries
<1>5. DiskInv'
  BY <1>1, <1>2, <1>4 DEF DiskInv, Loop, Cleanup
<1>6. MovedAway'
  BY <1>1, <1>4 DEF MovedAway, Entries
<1>7. ASSUME NEW q \in Runs PROVE PlaceInv(q)' /\ StagedInv(q)'
  <2>1. PlaceInv(q) /\ StagedInv(q)
    BY DEF WorkspaceInv
  <2>2. PlaceInv(q)'
    BY <1>3, <1>4, <2>1 DEF PlaceInv, Early, Loop, Rollback, Cleanup, Entries
  <2>3. StagedInv(q)'
    BY <2>1 DEF StagedInv, Loop, Entries
  <2> QED
    BY <2>2, <2>3
<1>8. EntryInv'
  <2> SUFFICES ASSUME NEW q \in Runs, NEW e \in Entries
               PROVE  /\ where'[q] \in Loop => LoopInv(q, e)'
                      /\ where'[q] \in {"undo", "restore"} => RollInv(q, e)'
    BY DEF EntryInv, Entries, Loop
  <2>1. /\ where[q] \in Loop => LoopInv(q, e)
        /\ where[q] \in {"undo", "restore"} => RollInv(q, e)
    BY <1>1 DEF EntryInv
  <2>2. where'[q] = where[q] \/ where'[q] \in {"recover", "done"}
    OBVIOUS
  <2>3. ASSUME where'[q] \in Loop PROVE LoopInv(q, e)'
    BY <2>1, <2>2, <2>3 DEF LoopInv, Loop
  <2>4. ASSUME where'[q] \in {"undo", "restore"} PROVE RollInv(q, e)'
    BY <2>1, <2>2, <2>4 DEF RollInv
  <2> QED
    BY <2>3, <2>4
<1>9. View' = View
  <2>1. ASSUME NEW e \in Entries PROVE ViewAt(e)' = ViewAt(e)
    <3>1. Undone(e)' <=> Undone(e)
      BY DEF Undone
    <3> QED
      BY <1>4, <3>1 DEF ViewAt
  <2> QED
    BY <2>1, ViewPoints
<1>10. CalmInv'
  <2> SUFFICES ASSUME worst <= 1
               PROVE  /\ \A q \in Runs : where'[q] \in Rollback => ~errs'[q]
                      /\ \A q \in Runs, e \in Entries : View'[e] = q => Shown(q)'
    BY <1>2 DEF CalmInv, Entries, Rollback
  <2>1. \A q \in Runs : where'[q] \in Rollback => ~errs'[q]
    BY <1>1 DEF CalmInv, Rollback
  <2>2. ASSUME NEW q \in Runs, NEW e \in Entries, View'[e] = q PROVE Shown(q)'
    <3>1. Shown(q)
      BY <1>1, <1>9, <2>2 DEF CalmInv
    <3> QED
      BY <1>3, <3>1 DEF Shown, Cleanup
  <2> QED
    BY <2>1, <2>2
<1> QED
  BY <1>5, <1>6, <1>7, <1>8, <1>9, <1>10 DEF WorkspaceInv

LEMMA AcquireStep ==
    ASSUME WorkspaceInv, NEW r \in Runs, AcquireVaultLease(r)
    PROVE  WorkspaceInv' /\ View' = View
<1>1. /\ VTypeOK /\ where[r] = "idle" /\ Well
      /\ UNCHANGED <<dest, stage, backup, disk, mem, at, errs, result>>
  BY DEF WorkspaceInv, AcquireVaultLease
<1>2. PICK p \in {"recover", "done"} :
        Go(r, p) /\ ((p = "recover" /\ vlease = Nobody /\ vlease' = r)
                     \/ (p = "done" /\ vlease' = vlease))
  BY DEF AcquireVaultLease
<1>3. VTypeOK' /\ Frame(r) /\ where'[r] = p
  BY <1>1, <1>2, Moves DEF VTypeOK, Places, Early
<1>4. ASSUME NEW q \in Runs, q # r PROVE where'[q] = where[q]
  BY <1>3, <1>4 DEF Frame
<1>5. \A q \in Runs : where[q] \notin {"idle", "done"} => vlease = q
  BY DEF WorkspaceInv, PlaceInv
<1>6. ASSUME NEW q \in Runs
      PROVE  /\ \/ where'[q] = where[q]
                \/ where[q] = "idle" /\ where'[q] \in {"recover", "done"}
             /\ where'[q] \notin {"idle", "done"} => vlease' = q
  <2>1. CASE q = r
    BY <1>1, <1>2, <1>3, <2>1
  <2>2. CASE q # r
    BY <1>2, <1>4, <1>5, <2>2, NoJournalFacts
  <2> QED
    BY <2>1, <2>2
<1> QED
  BY <1>1, <1>3, <1>6, LeaseStep

LEMMA UnlockStep ==
    ASSUME WorkspaceInv, OperatorUnlock
    PROVE  WorkspaceInv' /\ View' = View
<1>1. /\ VTypeOK /\ Well /\ vlease' = Nobody /\ vlease # Nobody /\ where[vlease] = "done"
      /\ UNCHANGED <<dest, stage, backup, disk, mem, at, errs, where, result>>
  BY DEF WorkspaceInv, OperatorUnlock
<1>2. VTypeOK'
  BY <1>1, TypeStep, TroubleFacts DEF VTypeOK
<1>3. \A q \in Runs : where[q] \in {"idle", "done"}
  BY <1>1 DEF WorkspaceInv, PlaceInv
<1> QED
  BY <1>1, <1>2, <1>3, LeaseStep

LEMMA NothingHappens ==
    ASSUME WorkspaceInv, UNCHANGED vvars
    PROVE  WorkspaceInv' /\ View' = View
<1>1. UNCHANGED <<vlease, dest, stage, backup, disk, mem, at, errs, where, result, trouble, worst>>
  BY DEF vvars
<1>2. VTypeOK'
  BY <1>1, TypeStep DEF WorkspaceInv, VTypeOK
<1>3. \A q \in Runs : where[q] \notin {"idle", "done"} => vlease = q
  BY DEF WorkspaceInv, PlaceInv
<1> QED
  BY <1>1, <1>2, <1>3, LeaseStep

LEMMA InitHolds ==
    ASSUME VInit PROVE WorkspaceInv
<1>1. VTypeOK
  <2>1. NoJournal \in Journals
    BY NoJournalFacts
  <2>2. dest \in Folder /\ stage \in [Runs -> Folder] /\ backup \in [Runs -> Folder]
    BY DEF VInit, Folder, Contents, NoEntries
  <2>3. at \in [Runs -> 0 .. NumEntries + 1]
    BY WorkspaceAssumption DEF VInit
  <2> QED
    BY <2>1, <2>2, <2>3 DEF VInit, VTypeOK, Places, Early
<1>2. DiskInv /\ MovedAway
  BY DEF VInit, DiskInv, MovedAway
<1>3. \A r \in Runs : where[r] = "idle" /\ ~Begun(r) /\ disk.run # r
                      /\ backup[r] = NoEntries /\ result[r] = "none"
  BY NoJournalFacts DEF VInit, Begun
<1>4. \A r \in Runs : PlaceInv(r) /\ StagedInv(r)
  BY <1>3 DEF PlaceInv, StagedInv, Early, Loop, Rollback, Cleanup
<1>5. EntryInv
  BY <1>3 DEF EntryInv, Loop
<1>6. CalmInv
  <2>1. \A e \in Entries : View[e] \notin Runs
    <3>1. \A e \in Entries : dest[e] \notin Runs
      BY WorkspaceAssumption DEF VInit
    <3>2. disk = NoJournal
      BY DEF VInit
    <3> QED
      BY <3>1, <3>2, ViewPoints DEF ViewAt
  <2> QED
    BY <1>3, <2>1 DEF CalmInv, Rollback
<1> QED
  BY <1>1, <1>2, <1>4, <1>5, <1>6 DEF WorkspaceInv

-----------------------------------------------------------------------------
(* publishStagedOutputs.                                                    *)

(* Setting one mark of one run's journal.                                    *)
LEMMA HadOldMark ==
    ASSUME VTypeOK, NEW r \in Runs, NEW e \in Entries,
           mem' = [mem EXCEPT ![r].hadOld[e] = TRUE]
    PROVE  /\ mem' \in [Runs -> Journals] /\ \A q \in Runs \ {r} : mem'[q] = mem[q]
           /\ mem'[r].run = mem[r].run /\ mem'[r].committed = mem[r].committed
           /\ mem'[r].published = mem[r].published
           /\ \A f \in Entries : mem'[r].hadOld[f] <=> (mem[r].hadOld[f] \/ f = e)
<1>1. mem[r] \in Journals /\ mem \in [Runs -> Journals]
  BY DEF VTypeOK
<1> DEFINE flags == [mem[r].hadOld EXCEPT ![e] = TRUE]
<1>2. flags \in Flags /\ \A f \in Entries : flags[f] <=> (mem[r].hadOld[f] \/ f = e)
  BY <1>1 DEF Journals, Flags
<1> DEFINE next == [mem[r] EXCEPT !.hadOld = flags]
<1>3. mem' = [mem EXCEPT ![r] = next]
  OBVIOUS
<1> HIDE DEF flags
<1>4. /\ next \in Journals /\ next.run = mem[r].run /\ next.committed = mem[r].committed
      /\ next.published = mem[r].published /\ next.hadOld = flags
  BY <1>1, <1>2 DEF Journals
<1> HIDE DEF next
<1> QED
  BY <1>1, <1>2, <1>3, <1>4

LEMMA PublishedMark ==
    ASSUME VTypeOK, NEW r \in Runs, NEW e \in Entries,
           mem' = [mem EXCEPT ![r].published[e] = TRUE]
    PROVE  /\ mem' \in [Runs -> Journals] /\ \A q \in Runs \ {r} : mem'[q] = mem[q]
           /\ mem'[r].run = mem[r].run /\ mem'[r].committed = mem[r].committed
           /\ mem'[r].hadOld = mem[r].hadOld
           /\ \A f \in Entries : mem'[r].published[f] <=> (mem[r].published[f] \/ f = e)
<1>1. mem[r] \in Journals /\ mem \in [Runs -> Journals]
  BY DEF VTypeOK
<1> DEFINE flags == [mem[r].published EXCEPT ![e] = TRUE]
<1>2. flags \in Flags /\ \A f \in Entries : flags[f] <=> (mem[r].published[f] \/ f = e)
  BY <1>1 DEF Journals, Flags
<1> DEFINE next == [mem[r] EXCEPT !.published = flags]
<1>3. mem' = [mem EXCEPT ![r] = next]
  OBVIOUS
<1> HIDE DEF flags
<1>4. /\ next \in Journals /\ next.run = mem[r].run /\ next.committed = mem[r].committed
      /\ next.hadOld = mem[r].hadOld /\ next.published = flags
  BY <1>1, <1>2 DEF Journals
<1> HIDE DEF next
<1> QED
  BY <1>1, <1>2, <1>3, <1>4

LEMMA CommittedMark ==
    ASSUME VTypeOK, NEW r \in Runs, mem' = [mem EXCEPT ![r].committed = TRUE]
    PROVE  /\ mem' \in [Runs -> Journals] /\ \A q \in Runs \ {r} : mem'[q] = mem[q]
           /\ mem'[r].run = mem[r].run /\ mem'[r].committed
           /\ mem'[r].hadOld = mem[r].hadOld /\ mem'[r].published = mem[r].published
<1>1. mem[r] \in Journals /\ mem \in [Runs -> Journals]
  BY DEF VTypeOK
<1> DEFINE next == [mem[r] EXCEPT !.committed = TRUE]
<1>3. mem' = [mem EXCEPT ![r] = next]
  OBVIOUS
<1>4. /\ next \in Journals /\ next.run = mem[r].run /\ next.committed
      /\ next.hadOld = mem[r].hadOld /\ next.published = mem[r].published
  BY <1>1 DEF Journals
<1> HIDE DEF next
<1> QED
  BY <1>1, <1>3, <1>4

(* An error in the loop: the rollback starts from a journal that may be one   *)
(* mark ahead of the one on disk, and that mark is not yet true of the vault. *)
LEMMA AbortStep ==
    ASSUME WorkspaceInv, NEW r \in Runs, where[r] \in {"entry", "backup", "intent", "place"},
           Abort(r), UNCHANGED <<vlease, dest, stage, backup, disk, result>>,
           mem' \in [Runs -> Journals], \A q \in Runs \ {r} : mem'[q] = mem[q],
           mem'[r].run = mem[r].run, ~mem'[r].committed,
           \A e \in Entries :
               /\ disk.published[e] => mem'[r].published[e]
               /\ disk.hadOld[e] => mem'[r].hadOld[e]
               /\ mem'[r].published[e] /\ ~disk.published[e] => dest[e] = Absent
               /\ mem'[r].hadOld[e] /\ ~disk.hadOld[e] => backup[r][e] = Absent
    PROVE  WorkspaceInv' /\ (worst' <= 1 => View' = View)
<1>1. /\ VTypeOK /\ PlaceInv(r) /\ Ill /\ Go(r, "undo")
      /\ at' = [at EXCEPT ![r] = NumEntries] /\ errs' = [errs EXCEPT ![r] = FALSE]
  BY DEF WorkspaceInv, Abort
<1>2. NumEntries \in Entries /\ NumEntries \in 0 .. NumEntries + 1
  BY WorkspaceAssumption DEF Entries
<1>3. /\ where' \in [Runs -> Places] /\ where'[r] = "undo"
      /\ \A q \in Runs \ {r} : where'[q] = where[q]
  BY <1>1, GoFacts DEF Places, Rollback
<1>4. /\ at' \in [Runs -> 0 .. NumEntries + 1] /\ at'[r] = NumEntries
      /\ \A q \in Runs \ {r} : at'[q] = at[q]
      /\ errs' \in [Runs -> BOOLEAN] /\ ~errs'[r] /\ \A q \in Runs \ {r} : errs'[q] = errs[q]
  BY <1>1, <1>2 DEF VTypeOK
<1>5. VTypeOK' /\ Frame(r)
  <2>1. VTypeOK'
    BY <1>1, <1>3, <1>4, TroubleFacts, TypeStep DEF VTypeOK
  <2> QED
    BY <1>3, <1>4, <2>1 DEF Frame
<1>6. disk.run = r /\ ~disk.committed /\ mem[r] = disk /\ disk # NoJournal
  BY <1>1, NoJournalFacts DEF PlaceInv, Loop
<1>7. (NoJournal)' = NoJournal
  BY DEF NoJournal, Fresh, NoFlags, Entries
<1>8. PlaceInv(r)' /\ StagedInv(r)'
  BY <1>1, <1>2, <1>3, <1>4, <1>6, <1>7
     DEF PlaceInv, StagedInv, Begun, Early, Loop, Rollback, Cleanup, Entries
<1>9. \A e \in Entries : RollInv(r, e)'
  BY <1>3, <1>6 DEF RollInv
<1>10. \A e \in Entries : UndoneBy(r, e)' <=> UndoneBy(r, e)
  BY <1>3, <1>4, WorkspaceAssumption DEF UndoneBy, Entries
<1> QED
  BY <1>1, <1>3, <1>4, <1>5, <1>8, <1>9, <1>10, InnerStep DEF Loop, Shown, Cleanup

(* What the journal on disk lets recovery leave at one entry.                *)
JournalView(e) ==
    IF disk.hadOld[e] /\ backup[disk.run][e] # Absent
    THEN backup[disk.run][e]
    ELSE IF disk.published[e] THEN Absent ELSE dest[e]

LEMMA LoopView ==
    ASSUME WorkspaceInv, NEW r \in Runs, where[r] \in Loop, NEW e \in Entries
    PROVE  ViewAt(e) = JournalView(e)
<1>1. disk.run = r /\ ~disk.committed /\ disk # NoJournal /\ Others(r)
  BY OthersRest, NoJournalFacts DEF WorkspaceInv, PlaceInv, Loop
<1>2. ~Undone(e)
  BY <1>1, UndoneOnly DEF UndoneBy, Loop
<1> QED
  BY <1>1, <1>2 DEF ViewAt, JournalView

(* A step of the publishing loop that goes through: the journal on disk says *)
(* what memory says, and would still undo everything.                        *)
LEMMA LoopStep ==
    ASSUME WorkspaceInv, NEW r \in Runs, where[r] \in Loop \cup {"begin"},
           VTypeOK', Frame(r), Well, UNCHANGED <<vlease, result>>,
           where'[r] \in Loop, mem'[r] = disk', disk'.run = r, ~disk'.committed,
           where'[r] # "commit" => at'[r] \in Entries,
           where'[r] = "commit" => at'[r] = NumEntries + 1,
           \A q \in Runs \ {r} : backup'[q] = backup[q],
           StagedInv(r)', \A e \in Entries : LoopInv(r, e)',
           \A e \in Entries : JournalView(e)' = ViewAt(e)
    PROVE  WorkspaceInv' /\ (worst' <= 1 => View' = View)
<1>1. VTypeOK /\ PlaceInv(r) /\ DiskInv /\ Others(r)
  BY OthersRest DEF WorkspaceInv, Loop
<1>2. vlease = r /\ result[r] = "none"
  BY <1>1 DEF PlaceInv, Loop
<1>3. (NoJournal)' = NoJournal /\ disk' # NoJournal
  BY NoJournalFacts DEF NoJournal, Fresh, NoFlags, Entries
<1>4. PlaceInv(r)'
  BY <1>2, <1>3 DEF PlaceInv, Begun, Early, Loop, Rollback, Cleanup, Entries
<1>5. DiskInv'
  BY DEF DiskInv, Loop
<1>6. MovedAway'
  <2> SUFFICES ASSUME NEW e \in Entries, disk'.hadOld[e], ~disk'.published[e],
                      backup'[r][e] # Absent
               PROVE  dest'[e] = Absent
    BY DEF MovedAway, Entries
  <2>1. LoopInv(r, e)'
    OBVIOUS
  <2>2. ~(e < at'[r])
    BY <2>1 DEF LoopInv
  <2>3. at'[r] = e /\ where'[r] # "entry"
    BY <2>1, <2>2 DEF LoopInv, VTypeOK, Entries
  <2>4. where'[r] # "commit"
    BY <2>3, WorkspaceAssumption DEF Entries
  <2> QED
    BY <2>1, <2>3, <2>4 DEF LoopInv, Loop
<1>7. StepOk(r)
  BY <1>1, <1>4, <1>5, <1>6, WellFacts DEF StepOk, Loop, Rollback
<1>8. ASSUME NEW e \in Entries PROVE ViewAt(e)' = ViewAt(e)
  <2>1. ~Undone(e)'
    BY <1>1, UndoneOnlyNext DEF UndoneBy, Loop
  <2>2. ViewAt(e)' = JournalView(e)'
    BY <1>3, <2>1 DEF ViewAt, JournalView
  <2> QED
    BY <2>2
<1>9. ~Shown(r)
  BY DEF Shown, Loop, Cleanup
<1> QED
  BY <1>7, <1>8, <1>9, QuietStep DEF Loop

LEMMA BeginStep ==
    ASSUME WorkspaceInv, NEW r \in Runs, BeginPublish(r)
    PROVE  WorkspaceInv' /\ (worst' <= 1 => View' = View)
<1>1. /\ where[r] = "begin" /\ VTypeOK /\ PlaceInv(r) /\ StagedInv(r) /\ Others(r)
      /\ mem' = [mem EXCEPT ![r] = Fresh(r)] /\ at' = [at EXCEPT ![r] = 1]
      /\ UNCHANGED <<vlease, dest, stage, backup, errs, result>>
  BY OthersRest DEF WorkspaceInv, BeginPublish
<1>2. /\ vlease = r /\ ~Begun(r) /\ disk = NoJournal /\ disk.run # r /\ backup[r] = NoEntries
      /\ result[r] = "none"
  BY <1>1 DEF PlaceInv, Early
<1>3. /\ mem' \in [Runs -> Journals] /\ mem'[r] = Fresh(r)
      /\ \A q \in Runs \ {r} : mem'[q] = mem[q]
      /\ at' \in [Runs -> 0 .. NumEntries + 1] /\ at'[r] = 1
      /\ \A q \in Runs \ {r} : at'[q] = at[q]
  BY <1>1, NoJournalFacts, WorkspaceAssumption DEF VTypeOK
<1>4. CASE WriteJournal(r) /\ Go(r, "entry")
  <2>1. disk' = Fresh(r) /\ Well
    BY <1>3, <1>4 DEF WriteJournal
  <2>2. /\ where' \in [Runs -> Places] /\ where'[r] = "entry"
        /\ \A q \in Runs \ {r} : where'[q] = where[q]
    BY <1>1, <1>4, GoFacts DEF Places, Loop
  <2>3. VTypeOK'
    BY <1>1, <1>3, <2>1, <2>2, TroubleFacts, TypeStep, NoJournalFacts DEF VTypeOK
  <2>4. Frame(r)
    BY <1>1, <1>3, <2>2 DEF Frame
  <2>5. 1 \in Entries
    BY WorkspaceAssumption DEF Entries
  <2>6. StagedInv(r)'
    <3>1. PICK e \in Entries : stage[r][e] = r
      BY <1>1 DEF StagedInv
    <3>2. at'[r] <= e
      BY <1>3, WorkspaceAssumption DEF Entries
    <3> QED
      BY <1>1, <2>2, <3>1, <3>2 DEF StagedInv, Loop, Entries
  <2>7. \A e \in Entries : ~disk'.hadOld[e] /\ ~disk'.published[e] /\ backup'[r][e] = Absent
    BY <1>1, <1>2, <2>1, NoJournalFacts DEF NoEntries
  <2>8. \A e \in Entries : LoopInv(r, e)'
    BY <1>3, <2>2, <2>7, WorkspaceAssumption DEF LoopInv, Entries
  <2>9. \A e \in Entries : JournalView(e)' = ViewAt(e)
    BY <1>1, <1>2, <2>7 DEF JournalView, ViewAt
  <2> QED
    BY <1>1, <1>3, <2>1, <2>2, <2>3, <2>4, <2>5, <2>6, <2>8, <2>9, LoopStep, NoJournalFacts DEF Loop
<1>5. CASE Ill /\ Go(r, "failed") /\ UNCHANGED disk
  <2>1. /\ where' \in [Runs -> Places] /\ where'[r] = "failed"
        /\ \A q \in Runs \ {r} : where'[q] = where[q]
    BY <1>1, <1>5, GoFacts DEF Places
  <2>2. VTypeOK'
    BY <1>1, <1>3, <1>5, <2>1, TroubleFacts, TypeStep DEF VTypeOK
  <2>3. Frame(r)
    BY <1>1, <1>3, <2>1 DEF Frame
  <2>4. Begun(r)'
    BY <1>3, NoJournalFacts DEF Begun
  <2>5. PlaceInv(r)' /\ StagedInv(r)'
    BY <1>1, <1>2, <2>1, <2>4
       DEF PlaceInv, StagedInv, Early, Loop, Rollback, Cleanup, Entries
  <2>6. \A e \in Entries : UndoneBy(r, e)' <=> UndoneBy(r, e)
    BY <1>1, <2>1 DEF UndoneBy
  <2> QED
    BY <1>1, <1>5, <2>1, <2>2, <2>3, <2>5, <2>6, InnerStep DEF Loop, Rollback, Cleanup, Shown
<1> QED
  BY <1>4, <1>5 DEF BeginPublish

LEMMA NextEntryFacts ==
    ASSUME VTypeOK, NEW r \in Runs, at[r] \in Entries, NextEntry(r)
    PROVE  /\ where' \in [Runs -> Places] /\ \A q \in Runs \ {r} : where'[q] = where[q]
           /\ at' \in [Runs -> 0 .. NumEntries + 1] /\ \A q \in Runs \ {r} : at'[q] = at[q]
           /\ at'[r] = at[r] + 1 /\ where'[r] \in {"commit", "entry"}
           /\ where'[r] = "commit" => at'[r] = NumEntries + 1
           /\ where'[r] = "entry" => at'[r] \in Entries
<1>1. at[r] + 1 \in 0 .. NumEntries + 1 /\ (at[r] # NumEntries => at[r] + 1 \in Entries)
  BY WorkspaceAssumption DEF Entries
<1>2. /\ at' \in [Runs -> 0 .. NumEntries + 1] /\ \A q \in Runs \ {r} : at'[q] = at[q]
      /\ at'[r] = at[r] + 1
  BY <1>1 DEF NextEntry, VTypeOK
<1>3. PICK p \in {"commit", "entry"} : Go(r, p) /\ (p = "commit" <=> at[r] = NumEntries)
  BY DEF NextEntry
<1>4. /\ where' \in [Runs -> Places] /\ where'[r] = p
      /\ \A q \in Runs \ {r} : where'[q] = where[q]
  BY <1>3, GoFacts DEF Places, Loop
<1> QED
  BY <1>1, <1>2, <1>3, <1>4

(* What is known of a run inside the publishing loop.                        *)
LEMMA LoopFacts ==
    ASSUME WorkspaceInv, NEW r \in Runs, where[r] \in Loop
    PROVE  /\ VTypeOK /\ StagedInv(r) /\ \A e \in Entries : LoopInv(r, e)
           /\ mem[r] = disk /\ disk.run = r /\ ~disk.committed
           /\ where[r] # "commit" => at[r] \in Entries
           /\ \A e \in Entries : ViewAt(e) = JournalView(e)
           /\ Absent \notin Runs
BY LoopView, WorkspaceAssumption DEF WorkspaceInv, EntryInv, PlaceInv, Loop

LEMMA MarkHadOldStep ==
    ASSUME WorkspaceInv, NEW r \in Runs, MarkHadOld(r)
    PROVE  WorkspaceInv' /\ (worst' <= 1 => View' = View)
<1>1. where[r] = "entry" /\ UNCHANGED <<vlease, dest, stage, backup, result>>
  BY DEF MarkHadOld
<1>2. /\ VTypeOK /\ StagedInv(r) /\ \A e \in Entries : LoopInv(r, e)
      /\ mem[r] = disk /\ disk.run = r /\ ~disk.committed /\ at[r] \in Entries
      /\ \A e \in Entries : ViewAt(e) = JournalView(e)
      /\ Absent \notin Runs
  BY <1>1, LoopFacts DEF Loop
<1>3. at[r] \in Int /\ \A e \in Entries : e \in Int
  BY <1>2 DEF Entries
<1>4. LoopInv(r, at[r]) /\ ~disk.published[at[r]] /\ ~disk.hadOld[at[r]] /\ backup[r][at[r]] = Absent
  BY <1>1, <1>2 DEF LoopInv
<1>5. CASE stage[r][at[r]] = Absent /\ NextEntry(r) /\ Well /\ UNCHANGED <<mem, disk, errs>>
  <2>1. /\ where' \in [Runs -> Places] /\ \A q \in Runs \ {r} : where'[q] = where[q]
        /\ at' \in [Runs -> 0 .. NumEntries + 1] /\ \A q \in Runs \ {r} : at'[q] = at[q]
        /\ at'[r] = at[r] + 1 /\ where'[r] \in {"commit", "entry"}
        /\ where'[r] = "commit" => at'[r] = NumEntries + 1
        /\ where'[r] = "entry" => at'[r] \in Entries
    BY <1>2, <1>5, NextEntryFacts
  <2>2. VTypeOK'
    BY <1>1, <1>2, <1>5, <2>1, TroubleFacts, TypeStep DEF VTypeOK
  <2>3. Frame(r)
    BY <1>1, <1>5, <2>1 DEF Frame
  <2>4. ASSUME NEW e \in Entries PROVE LoopInv(r, e)'
    <3>1. LoopInv(r, e)
      BY <1>2
    <3>2. CASE e < at[r]
      BY <1>1, <1>3, <1>5, <2>1, <3>1, <3>2 DEF LoopInv
    <3>3. CASE e = at[r]
      BY <1>1, <1>3, <1>4, <1>5, <2>1, <3>3 DEF LoopInv
    <3>4. CASE at[r] < e
      BY <1>1, <1>3, <1>5, <2>1, <3>1, <3>4 DEF LoopInv
    <3> QED
      BY <1>3, <3>2, <3>3, <3>4
  <2>5. StagedInv(r)'
    <3>1. PICK w \in Entries : disk.published[w] \/ (stage[r][w] = r /\ at[r] <= w)
      BY <1>1, <1>2 DEF StagedInv, Loop
    <3>2. disk.published[w] \/ (stage[r][w] = r /\ at'[r] <= w)
      BY <1>2, <1>3, <1>5, <2>1, <3>1
    <3>3. \A e \in Entries : stage[r][e] \in {r, Absent}
      BY <1>1, <1>2 DEF StagedInv, Loop
    <3> QED
      BY <1>1, <1>5, <2>1, <3>2, <3>3 DEF StagedInv, Loop, Entries
  <2>6. \A e \in Entries : JournalView(e)' = ViewAt(e)
    BY <1>1, <1>2, <1>5 DEF JournalView
  <2> QED
    BY <1>1, <1>2, <1>5, <2>1, <2>2, <2>3, <2>4, <2>5, <2>6, LoopStep DEF Loop
<1>6. CASE /\ stage[r][at[r]] # Absent /\ dest[at[r]] = Absent
           /\ Go(r, "intent") /\ Well /\ UNCHANGED <<mem, disk, at, errs>>
  <2>1. VTypeOK' /\ Frame(r) /\ where'[r] = "intent"
    BY <1>1, <1>2, <1>6, Moves DEF VTypeOK, Places, Loop
  <2>2. ASSUME NEW e \in Entries PROVE LoopInv(r, e)'
    <3>1. LoopInv(r, e)
      BY <1>2
    <3>2. CASE e # at[r]
      BY <1>1, <1>3, <1>6, <2>1, <3>1, <3>2 DEF LoopInv
    <3>3. CASE e = at[r]
      BY <1>1, <1>3, <1>4, <1>6, <2>1, <3>3 DEF LoopInv
    <3> QED
      BY <3>2, <3>3
  <2>3. StagedInv(r)'
    BY <1>1, <1>2, <1>6, <2>1 DEF StagedInv, Loop, Entries
  <2>4. \A e \in Entries : JournalView(e)' = ViewAt(e)
    BY <1>1, <1>2, <1>6 DEF JournalView
  <2> QED
    BY <1>1, <1>2, <1>6, <2>1, <2>2, <2>3, <2>4, LoopStep DEF Loop
<1>7. ASSUME stage[r][at[r]] # Absent, dest[at[r]] # Absent,
             mem' = [mem EXCEPT ![r].hadOld[at[r]] = TRUE],
             \/ WriteJournal(r) /\ Go(r, "backup") /\ UNCHANGED <<at, errs>>
             \/ Abort(r) /\ UNCHANGED disk
      PROVE  WorkspaceInv' /\ (worst' <= 1 => View' = View)
  <2>1. /\ mem' \in [Runs -> Journals] /\ \A q \in Runs \ {r} : mem'[q] = mem[q]
        /\ mem'[r].run = mem[r].run /\ mem'[r].committed = mem[r].committed
        /\ mem'[r].published = mem[r].published
        /\ \A f \in Entries : mem'[r].hadOld[f] <=> (mem[r].hadOld[f] \/ f = at[r])
    BY <1>2, <1>7, HadOldMark
  <2>2. CASE WriteJournal(r) /\ Go(r, "backup") /\ UNCHANGED <<at, errs>>
    <3>1. Well /\ disk' = mem'[r]
      BY <2>2 DEF WriteJournal
    <3>2. /\ where' \in [Runs -> Places] /\ where'[r] = "backup"
          /\ \A q \in Runs \ {r} : where'[q] = where[q]
      BY <1>2, <2>2, GoFacts DEF Places, Loop
    <3>3. VTypeOK'
      BY <1>1, <1>2, <2>1, <2>2, <3>1, <3>2, TroubleFacts, TypeStep DEF VTypeOK
    <3>4. Frame(r)
      BY <1>1, <2>1, <2>2, <3>2 DEF Frame
    <3>5. ASSUME NEW e \in Entries PROVE LoopInv(r, e)'
      <4>1. LoopInv(r, e)
        BY <1>2
      <4>2. CASE e # at[r]
        BY <1>1, <1>2, <1>3, <2>1, <2>2, <3>1, <3>2, <4>1, <4>2 DEF LoopInv
      <4>3. CASE e = at[r]
        BY <1>1, <1>2, <1>3, <1>4, <1>7, <2>1, <2>2, <3>1, <3>2, <4>3 DEF LoopInv
      <4> QED
        BY <4>2, <4>3
    <3>6. StagedInv(r)'
      BY <1>1, <1>2, <2>1, <2>2, <3>1, <3>2 DEF StagedInv, Loop, Entries
    <3>7. ASSUME NEW e \in Entries PROVE JournalView(e)' = ViewAt(e)
      BY <1>1, <1>2, <1>4, <2>1, <3>1 DEF JournalView
    <3> QED
      BY <1>1, <1>2, <2>1, <2>2, <3>1, <3>2, <3>3, <3>4, <3>5, <3>6, <3>7, LoopStep DEF Loop
  <2>3. CASE Abort(r) /\ UNCHANGED disk
    BY <1>1, <1>2, <1>4, <2>1, <2>3, AbortStep
  <2> QED
    BY <1>7, <2>2, <2>3
<1> QED
  BY <1>5, <1>6, <1>7 DEF MarkHadOld

LEMMA MoveToBackupStep ==
    ASSUME WorkspaceInv, NEW r \in Runs, MoveToBackup(r)
    PROVE  WorkspaceInv' /\ (worst' <= 1 => View' = View)
<1>1. where[r] = "backup" /\ UNCHANGED <<vlease, stage, disk, mem, result>>
  BY DEF MoveToBackup
<1>2. /\ VTypeOK /\ StagedInv(r) /\ \A e \in Entries : LoopInv(r, e)
      /\ mem[r] = disk /\ disk.run = r /\ ~disk.committed /\ at[r] \in Entries
      /\ \A e \in Entries : ViewAt(e) = JournalView(e)
      /\ Absent \notin Runs
  BY <1>1, LoopFacts DEF Loop
<1>3. at[r] \in Int /\ \A e \in Entries : e \in Int
  BY <1>2 DEF Entries
<1>4. /\ disk.hadOld[at[r]] /\ ~disk.published[at[r]] /\ backup[r][at[r]] = Absent
      /\ dest[at[r]] # Absent /\ stage[r][at[r]] # Absent
  BY <1>1, <1>2 DEF LoopInv
<1>5. ASSUME backup' = [backup EXCEPT ![r][at[r]] = dest[at[r]]],
             dest' = [dest EXCEPT ![at[r]] = Absent],
             Go(r, "intent"), Well, UNCHANGED <<at, errs>>
      PROVE  WorkspaceInv' /\ (worst' <= 1 => View' = View)
  <2>1. /\ dest' \in Folder /\ dest'[at[r]] = Absent
        /\ \A e \in Entries : e # at[r] => dest'[e] = dest[e]
    BY <1>2, <1>5 DEF VTypeOK, Folder, Contents
  <2>2. /\ backup' \in [Runs -> Folder] /\ \A q \in Runs \ {r} : backup'[q] = backup[q]
        /\ backup'[r][at[r]] = dest[at[r]]
        /\ \A e \in Entries : e # at[r] => backup'[r][e] = backup[r][e]
    BY <1>2, <1>5 DEF VTypeOK, Folder
  <2>3. VTypeOK' /\ Frame(r) /\ where'[r] = "intent"
    BY <1>1, <1>2, <1>5, <2>1, <2>2, Moves DEF VTypeOK, Places, Loop
  <2>4. ASSUME NEW e \in Entries PROVE LoopInv(r, e)'
    <3>1. LoopInv(r, e)
      BY <1>2
    <3>2. CASE e # at[r]
      BY <1>1, <1>3, <1>5, <2>1, <2>2, <2>3, <3>1, <3>2 DEF LoopInv
    <3>3. CASE e = at[r]
      BY <1>1, <1>3, <1>4, <1>5, <2>1, <2>2, <2>3, <3>3 DEF LoopInv
    <3> QED
      BY <3>2, <3>3
  <2>5. StagedInv(r)'
    BY <1>1, <1>2, <1>5, <2>3 DEF StagedInv, Loop, Entries
  <2>6. ASSUME NEW e \in Entries PROVE JournalView(e)' = ViewAt(e)
    <3>1. CASE e # at[r]
      BY <1>1, <1>2, <2>1, <2>2, <3>1 DEF JournalView
    <3>2. CASE e = at[r]
      BY <1>1, <1>2, <1>4, <2>1, <2>2, <3>2 DEF JournalView
    <3> QED
      BY <3>1, <3>2
  <2> QED
    BY <1>1, <1>2, <1>5, <2>2, <2>3, <2>4, <2>5, <2>6, LoopStep DEF Loop
<1>6. CASE Abort(r) /\ UNCHANGED <<dest, backup>>
  BY <1>1, <1>2, <1>6, AbortStep DEF VTypeOK
<1> QED
  BY <1>5, <1>6 DEF MoveToBackup

LEMMA MarkPublishedStep ==
    ASSUME WorkspaceInv, NEW r \in Runs, MarkPublished(r)
    PROVE  WorkspaceInv' /\ (worst' <= 1 => View' = View)
<1>1. /\ where[r] = "intent" /\ UNCHANGED <<vlease, dest, stage, backup, result>>
      /\ mem' = [mem EXCEPT ![r].published[at[r]] = TRUE]
  BY DEF MarkPublished
<1>2. /\ VTypeOK /\ StagedInv(r) /\ \A e \in Entries : LoopInv(r, e)
      /\ mem[r] = disk /\ disk.run = r /\ ~disk.committed /\ at[r] \in Entries
      /\ \A e \in Entries : ViewAt(e) = JournalView(e)
      /\ Absent \notin Runs
  BY <1>1, LoopFacts DEF Loop
<1>3. at[r] \in Int /\ \A e \in Entries : e \in Int
  BY <1>2 DEF Entries
<1>4. /\ ~disk.published[at[r]] /\ dest[at[r]] = Absent /\ stage[r][at[r]] # Absent
      /\ disk.hadOld[at[r]] <=> backup[r][at[r]] # Absent
  BY <1>1, <1>2 DEF LoopInv
<1>5. /\ mem' \in [Runs -> Journals] /\ \A q \in Runs \ {r} : mem'[q] = mem[q]
      /\ mem'[r].run = mem[r].run /\ mem'[r].committed = mem[r].committed
      /\ mem'[r].hadOld = mem[r].hadOld
      /\ \A f \in Entries : mem'[r].published[f] <=> (mem[r].published[f] \/ f = at[r])
  BY <1>1, <1>2, PublishedMark
<1>6. CASE WriteJournal(r) /\ Go(r, "place") /\ UNCHANGED <<at, errs>>
  <2>1. Well /\ disk' = mem'[r]
    BY <1>6 DEF WriteJournal
  <2>2. /\ where' \in [Runs -> Places] /\ where'[r] = "place"
        /\ \A q \in Runs \ {r} : where'[q] = where[q]
    BY <1>2, <1>6, GoFacts DEF Places, Loop
  <2>3. VTypeOK'
    BY <1>1, <1>2, <1>5, <1>6, <2>1, <2>2, TroubleFacts, TypeStep DEF VTypeOK
  <2>4. Frame(r)
    BY <1>1, <1>5, <1>6, <2>2 DEF Frame
  <2>5. ASSUME NEW e \in Entries PROVE LoopInv(r, e)'
    <3>1. LoopInv(r, e)
      BY <1>2
    <3>2. CASE e # at[r]
      BY <1>1, <1>2, <1>3, <1>5, <1>6, <2>1, <2>2, <3>1, <3>2 DEF LoopInv
    <3>3. CASE e = at[r]
      BY <1>1, <1>2, <1>3, <1>4, <1>5, <1>6, <2>1, <2>2, <3>3 DEF LoopInv
    <3> QED
      BY <3>2, <3>3
  <2>6. StagedInv(r)'
    BY <1>1, <1>2, <1>5, <1>6, <2>1, <2>2 DEF StagedInv, Loop, Entries
  <2>7. ASSUME NEW e \in Entries PROVE JournalView(e)' = ViewAt(e)
    BY <1>1, <1>2, <1>4, <1>5, <2>1 DEF JournalView
  <2> QED
    BY <1>1, <1>2, <1>5, <1>6, <2>1, <2>2, <2>3, <2>4, <2>5, <2>6, <2>7, LoopStep DEF Loop
<1>7. CASE Abort(r) /\ UNCHANGED disk
  BY <1>1, <1>2, <1>4, <1>5, <1>7, AbortStep
<1> QED
  BY <1>6, <1>7 DEF MarkPublished

LEMMA MoveFromStageStep ==
    ASSUME WorkspaceInv, NEW r \in Runs, MoveFromStage(r)
    PROVE  WorkspaceInv' /\ (worst' <= 1 => View' = View)
<1>1. where[r] = "place" /\ UNCHANGED <<vlease, backup, disk, mem, result>>
  BY DEF MoveFromStage
<1>2. /\ VTypeOK /\ StagedInv(r) /\ \A e \in Entries : LoopInv(r, e)
      /\ mem[r] = disk /\ disk.run = r /\ ~disk.committed /\ at[r] \in Entries
      /\ \A e \in Entries : ViewAt(e) = JournalView(e)
      /\ Absent \notin Runs
  BY <1>1, LoopFacts DEF Loop
<1>3. at[r] \in Int /\ \A e \in Entries : e \in Int
  BY <1>2 DEF Entries
<1>4. disk.published[at[r]] /\ stage[r][at[r]] = r
  BY <1>1, <1>2 DEF LoopInv, StagedInv, Loop
<1>5. ASSUME dest' = [dest EXCEPT ![at[r]] = stage[r][at[r]]],
             stage' = [stage EXCEPT ![r][at[r]] = Absent],
             NextEntry(r), Well, UNCHANGED errs
      PROVE  WorkspaceInv' /\ (worst' <= 1 => View' = View)
  <2>1. /\ dest' \in Folder /\ dest'[at[r]] = r
        /\ \A e \in Entries : e # at[r] => dest'[e] = dest[e]
    BY <1>2, <1>4, <1>5 DEF VTypeOK, Folder, Contents
  <2>2. /\ stage' \in [Runs -> Folder]
        /\ stage'[r][at[r]] = Absent
        /\ \A e \in Entries : e # at[r] => stage'[r][e] = stage[r][e]
    BY <1>2, <1>5 DEF VTypeOK, Folder, Contents
  <2>3. /\ where' \in [Runs -> Places] /\ \A q \in Runs \ {r} : where'[q] = where[q]
        /\ at' \in [Runs -> 0 .. NumEntries + 1] /\ \A q \in Runs \ {r} : at'[q] = at[q]
        /\ at'[r] = at[r] + 1 /\ where'[r] \in {"commit", "entry"}
        /\ where'[r] = "commit" => at'[r] = NumEntries + 1
        /\ where'[r] = "entry" => at'[r] \in Entries
    BY <1>2, <1>5, NextEntryFacts
  <2>4. VTypeOK'
    BY <1>1, <1>2, <1>5, <2>1, <2>2, <2>3, TroubleFacts, TypeStep DEF VTypeOK
  <2>5. Frame(r)
    BY <1>1, <1>5, <2>3 DEF Frame
  <2>6. ASSUME NEW e \in Entries PROVE LoopInv(r, e)'
    <3>1. LoopInv(r, e)
      BY <1>2
    <3>2. CASE e < at[r]
      BY <1>1, <1>3, <2>1, <2>2, <2>3, <3>1, <3>2 DEF LoopInv
    <3>3. CASE e = at[r]
      BY <1>1, <1>3, <1>4, <2>1, <2>3, <3>3 DEF LoopInv
    <3>4. CASE at[r] < e
      BY <1>1, <1>3, <2>1, <2>2, <2>3, <3>1, <3>4 DEF LoopInv
    <3> QED
      BY <1>3, <3>2, <3>3, <3>4
  <2>7. StagedInv(r)'
    <3>1. \A e \in Entries : stage'[r][e] \in {r, Absent}
      BY <1>1, <1>2, <2>2 DEF StagedInv, Loop
    <3>2. disk'.published[at[r]]
      BY <1>1, <1>4
    <3> QED
      BY <1>2, <2>3, <3>1, <3>2 DEF StagedInv, Loop, Entries
  <2>8. ASSUME NEW e \in Entries PROVE JournalView(e)' = ViewAt(e)
    <3>1. CASE e # at[r]
      BY <1>1, <1>2, <2>1, <3>1 DEF JournalView
    <3>2. CASE e = at[r]
      BY <1>1, <1>2, <1>4, <3>2 DEF JournalView
    <3> QED
      BY <3>1, <3>2
  <2> QED
    BY <1>1, <1>2, <1>5, <2>3, <2>4, <2>5, <2>6, <2>7, <2>8, LoopStep DEF Loop
<1>6. CASE Abort(r) /\ UNCHANGED <<dest, stage>>
  BY <1>1, <1>2, <1>6, AbortStep DEF VTypeOK
<1> QED
  BY <1>5, <1>6 DEF MoveFromStage

(* The commit: with the journal's phase the vault stands for the new outputs, *)
(* all that were staged and no others.                                       *)
LEMMA CommitStep ==
    ASSUME WorkspaceInv, NEW r \in Runs, CommitPublish(r)
    PROVE  WorkspaceInv' /\ (worst' <= 1 => View' = View \/ Vault!Publish(r))
<1>1. /\ where[r] = "commit" /\ UNCHANGED <<vlease, dest, stage, backup, at, errs, result>>
      /\ mem' = [mem EXCEPT ![r].committed = TRUE] /\ PlaceInv(r) /\ Others(r)
  BY OthersRest DEF CommitPublish, WorkspaceInv
<1>2. /\ VTypeOK /\ StagedInv(r) /\ \A e \in Entries : LoopInv(r, e)
      /\ mem[r] = disk /\ disk.run = r /\ ~disk.committed
      /\ \A e \in Entries : ViewAt(e) = JournalView(e)
  BY <1>1, LoopFacts DEF Loop
<1>3. /\ mem' \in [Runs -> Journals] /\ \A q \in Runs \ {r} : mem'[q] = mem[q]
      /\ mem'[r].run = mem[r].run /\ mem'[r].committed
      /\ mem'[r].hadOld = mem[r].hadOld /\ mem'[r].published = mem[r].published
  BY <1>1, <1>2, CommittedMark
<1>4. vlease = r /\ result[r] = "none" /\ at[r] = NumEntries + 1
  BY <1>1 DEF PlaceInv
<1>5. \A e \in Entries : e < at[r] /\ ~(at[r] <= e)
  BY <1>4, WorkspaceAssumption DEF Entries
<1>6. \A e \in Entries : /\ disk.published[e] => dest[e] = r
                         /\ ~disk.published[e] => ~disk.hadOld[e]
  BY <1>2, <1>5 DEF LoopInv
<1>7. CASE WriteJournal(r) /\ Go(r, "cleanBackup")
  <2>1. Well /\ disk' = mem'[r]
    BY <1>7 DEF WriteJournal
  <2>2. /\ where' \in [Runs -> Places] /\ where'[r] = "cleanBackup"
        /\ \A q \in Runs \ {r} : where'[q] = where[q]
    BY <1>2, <1>7, GoFacts DEF Places, Cleanup
  <2>3. VTypeOK'
    BY <1>1, <1>2, <1>3, <2>1, <2>2, TroubleFacts, TypeStep DEF VTypeOK
  <2>4. Frame(r)
    BY <1>1, <1>3, <2>2 DEF Frame
  <2>5. PlaceInv(r)' /\ StagedInv(r)' /\ Begun(r)'
    BY <1>1, <1>2, <1>3, <1>4, <2>1, <2>2
       DEF PlaceInv, StagedInv, Begun, Early, Loop, Rollback, Cleanup
  <2>6. DiskInv'
    BY <1>2, <1>3, <2>1, <2>2 DEF DiskInv, Cleanup
  <2>7. MovedAway'
    BY <1>2, <1>3, <1>6, <2>1 DEF MovedAway, Entries
  <2>8. StepOk(r)
    BY <1>1, <1>2, <1>3, <2>1, <2>2, <2>3, <2>4, <2>5, <2>6, <2>7, WellFacts
       DEF StepOk, Loop, Rollback
  <2>9. Shown(r)'
    BY <1>1, <1>4, <2>2, <2>5 DEF Shown, Cleanup
  <2>10. ASSUME NEW e \in Entries
         PROVE  ViewAt(e)' = IF disk.published[e] THEN r ELSE ViewAt(e)
    <3>1. ViewAt(e)' = dest[e]
      BY <1>1, <1>3, <2>1 DEF ViewAt
    <3>2. ~disk.published[e] => ViewAt(e) = dest[e]
      BY <1>2, <1>6 DEF JournalView
    <3> QED
      BY <1>6, <3>1, <3>2
  <2>11. WorkspaceInv'
    BY <1>1, <2>8, <2>9, <2>10, StepKeeps
  <2>12. Vault!Publish(r)
    <3> DEFINE staged == {e \in Entries : disk.published[e]}
    <3>1. staged \in (SUBSET Entries) \ {{}}
      <4>1. PICK e \in Entries : disk.published[e]
        BY <1>1, <1>2, <1>5 DEF StagedInv, Loop
      <4> QED
        BY <4>1
    <3>2. View' = [e \in Entries |-> ViewAt(e)']
      BY DEF View, ViewAt, Entries
    <3>3. View' = [e \in Entries |-> IF e \in staged THEN r ELSE View[e]]
      BY <2>10, <3>2, ViewPoints
    <3> QED
      BY <3>1, <3>3 DEF Vault!Publish
  <2> QED
    BY <2>11, <2>12
<1>8. CASE Ill /\ Go(r, "failed") /\ UNCHANGED disk
  <2>1. /\ where' \in [Runs -> Places] /\ where'[r] = "failed"
        /\ \A q \in Runs \ {r} : where'[q] = where[q]
    BY <1>2, <1>8, GoFacts DEF Places
  <2>2. VTypeOK'
    BY <1>1, <1>2, <1>3, <1>8, <2>1, TroubleFacts, TypeStep DEF VTypeOK
  <2>3. Frame(r)
    BY <1>1, <1>3, <2>1 DEF Frame
  <2>4. PlaceInv(r)' /\ StagedInv(r)'
    BY <1>1, <1>2, <1>3, <1>4, <2>1
       DEF PlaceInv, StagedInv, Begun, Early, Loop, Rollback, Cleanup
  <2>5. \A e \in Entries : UndoneBy(r, e)' <=> UndoneBy(r, e)
    BY <1>1, <2>1 DEF UndoneBy
  <2> QED
    BY <1>1, <1>8, <2>1, <2>2, <2>3, <2>4, <2>5, InnerStep DEF Loop, Rollback, Cleanup, Shown
<1> QED
  BY <1>7, <1>8 DEF CommitPublish

-----------------------------------------------------------------------------
(* rollbackPublish.                                                         *)

(* What is known of a rollback.                                              *)
LEMMA RollFacts ==
    ASSUME WorkspaceInv, NEW r \in Runs, where[r] \in {"undo", "restore"}
    PROVE  /\ VTypeOK /\ PlaceInv(r) /\ MovedAway /\ Others(r) /\ CalmInv
           /\ disk # NoJournal /\ ~disk.committed /\ disk.run \in Runs
           /\ mem[r].run = disk.run /\ at[r] \in Entries /\ trouble >= 1
           /\ \A e \in Entries : RollInv(r, e)
           /\ (NoJournal)' = NoJournal
<1>1. VTypeOK /\ PlaceInv(r) /\ MovedAway /\ EntryInv /\ DiskInv /\ CalmInv
  BY DEF WorkspaceInv
<1>2. /\ disk # NoJournal /\ ~disk.committed /\ mem[r].run = disk.run /\ at[r] \in Entries
  BY <1>1 DEF PlaceInv, Rollback
<1>3. trouble >= 1
  BY <1>2, RollTrouble DEF Loop, Cleanup
<1>4. (NoJournal)' = NoJournal
  BY DEF NoJournal, Fresh, NoFlags, Entries
<1> QED
  BY <1>1, <1>2, <1>3, <1>4, OthersRest DEF EntryInv, DiskInv

(* Removing what was published at one entry, or failing to: the vault's      *)
(* entry was not part of what it stands for.                                 *)
LEMMA UndoGeneral ==
    ASSUME WorkspaceInv, NEW r \in Runs, where[r] = "undo", Go(r, "restore"),
           NEW x \in Contents, dest' = [dest EXCEPT ![at[r]] = x],
           dest[at[r]] = Absent => x = Absent,
           x = Absent /\ dest[at[r]] # Absent => mem[r].published[at[r]],
           \/ /\ Well /\ errs' = errs
              /\ x = Absent \/ (x = dest[at[r]] /\ ~mem[r].published[at[r]])
           \/ Ill /\ errs' = [errs EXCEPT ![r] = TRUE],
           UNCHANGED <<vlease, stage, backup, disk, mem, at, result>>
    PROVE  WorkspaceInv' /\ (worst' <= 1 => View' = View)
<1>1. /\ VTypeOK /\ PlaceInv(r) /\ MovedAway /\ Others(r) /\ CalmInv
      /\ disk # NoJournal /\ ~disk.committed /\ disk.run \in Runs
      /\ mem[r].run = disk.run /\ at[r] \in Entries /\ trouble >= 1
      /\ \A e \in Entries : RollInv(r, e)
      /\ (NoJournal)' = NoJournal
  BY RollFacts
<1>2. /\ dest' \in Folder /\ dest'[at[r]] = x
      /\ \A e \in Entries : e # at[r] => dest'[e] = dest[e]
  BY <1>1 DEF VTypeOK, Folder
<1>3. VTypeOK' /\ Frame(r) /\ where'[r] = "restore"
  BY <1>1, <1>2, Moves DEF VTypeOK, Places, Rollback
<1>4. Begun(r)' <=> Begun(r)
  BY DEF Begun
<1>5. PlaceInv(r)' /\ StagedInv(r)'
  BY <1>1, <1>3, <1>4
     DEF PlaceInv, StagedInv, Early, Loop, Rollback, Cleanup, NoEntries, Entries
<1>6. trouble' >= 1 /\ worst <= worst'
  BY <1>1, WellFacts, IllFacts
<1>7. DiskInv'
  BY <1>1, <1>6 DEF DiskInv
<1>8. MovedAway'
  BY <1>1, <1>2 DEF MovedAway, Entries
<1>9. errs'[r] \/ (errs'[r] = errs[r] /\ Well)
  BY <1>1 DEF VTypeOK
<1>10. worst' <= 1 => Well /\ errs'[r] = errs[r] /\ ~errs'[r] /\ worst <= 1
  BY <1>1, <1>6, <1>9, IllFacts, WellFacts DEF CalmInv, Rollback, VTypeOK
<1>11. ASSUME NEW e \in Entries PROVE RollInv(r, e)'
  <2>1. RollInv(r, e)
    BY <1>1
  <2>2. CASE e # at[r]
    BY <1>2, <1>3, <2>1, <2>2 DEF RollInv
  <2>3. CASE e = at[r]
    <3>1. ~errs'[r] /\ mem[r].published[e] => x = Absent
      BY <1>1, <2>3 DEF VTypeOK
    <3> QED
      BY <1>2, <1>3, <2>1, <2>3, <3>1 DEF RollInv
  <2> QED
    BY <2>2, <2>3
<1>12. StepOk(r)
  BY <1>3, <1>5, <1>6, <1>7, <1>8, <1>10, <1>11 DEF StepOk, Loop
<1>13. ASSUME worst' <= 1, NEW e \in Entries PROVE ViewAt(e)' = ViewAt(e)
  <2>1. UndoneBy(r, e) <=> at[r] < e
    BY DEF UndoneBy
  <2>2. UndoneBy(r, e)' <=> at[r] < e
    BY <1>3 DEF UndoneBy
  <2>3. Undone(e)' <=> Undone(e)
    BY <1>1, <1>3, <2>1, <2>2, UndoneOnly, UndoneOnlyNext
  <2>4. CASE e # at[r]
    BY <1>1, <1>2, <2>3, <2>4 DEF ViewAt
  <2>5. CASE e = at[r]
    <3>1. ~Undone(e)
      BY <1>1, <2>1, <2>5, UndoneOnly DEF Entries
    <3>2. ViewAt(e) = JournalView(e) /\ ViewAt(e)' = JournalView(e)'
      BY <1>1, <2>3, <3>1 DEF ViewAt, JournalView
    <3>3. ~disk.published[e] => x = dest[e]
      <4>1. x = Absent \/ x = dest[at[r]]
        BY <1>1, <1>10, <1>13 DEF VTypeOK
      <4>2. e <= at[r]
        BY <1>1, <2>5 DEF Entries
      <4>3. mem[r].published[e] /\ ~disk.published[e] => dest[e] = Absent
        BY <1>1, <4>2 DEF RollInv
      <4> QED
        BY <2>5, <4>1, <4>3
    <3> QED
      BY <1>2, <2>5, <3>2, <3>3 DEF JournalView
  <2> QED
    BY <2>4, <2>5
<1> QED
  BY <1>12, <1>13, QuietStep DEF Shown, Cleanup

LEMMA UndoStep ==
    ASSUME WorkspaceInv, NEW r \in Runs, Undo(r)
    PROVE  WorkspaceInv' /\ (worst' <= 1 => View' = View)
<1>1. /\ where[r] = "undo" /\ Go(r, "restore")
      /\ UNCHANGED <<vlease, stage, backup, disk, mem, at, result>>
  BY DEF Undo
<1>2. VTypeOK /\ at[r] \in Entries /\ dest[at[r]] \in Contents
  BY <1>1, RollFacts DEF VTypeOK, Folder
<1>3. CASE ~mem[r].published[at[r]] /\ Well /\ UNCHANGED <<dest, errs>>
  <2>1. dest' = [dest EXCEPT ![at[r]] = dest[at[r]]]
    BY <1>2, <1>3 DEF VTypeOK, Folder
  <2> QED
    BY <1>1, <1>2, <1>3, <2>1, UndoGeneral
<1>4. CASE mem[r].published[at[r]] /\ dest' = [dest EXCEPT ![at[r]] = Absent] /\ Well /\ UNCHANGED errs
  BY <1>1, <1>2, <1>4, UndoGeneral DEF Contents
<1>5. ASSUME mem[r].published[at[r]], Ill, Note(r),
             NEW left \in {dest[at[r]]} \cup (IF at[r] \in Trees /\ dest[at[r]] # Absent
                                              THEN {Damaged} ELSE {}),
             dest' = [dest EXCEPT ![at[r]] = left]
      PROVE  WorkspaceInv' /\ (worst' <= 1 => View' = View)
  <2>1. left \in Contents /\ (dest[at[r]] = Absent => left = Absent)
    BY <1>2, <1>5 DEF Contents
  <2> QED
    BY <1>1, <1>2, <1>5, <2>1, UndoGeneral DEF Note
<1> QED
  BY <1>3, <1>4, <1>5 DEF Undo

LEMMA PrevEntryFacts ==
    ASSUME VTypeOK, NEW r \in Runs, at[r] \in Entries, PrevEntry(r)
    PROVE  /\ where' \in [Runs -> Places] /\ \A q \in Runs \ {r} : where'[q] = where[q]
           /\ at' \in [Runs -> 0 .. NumEntries + 1] /\ \A q \in Runs \ {r} : at'[q] = at[q]
           /\ at'[r] = at[r] - 1 /\ where'[r] \in {"dropStage", "undo"}
           /\ where'[r] = "dropStage" => at[r] = 1
           /\ where'[r] = "undo" => at'[r] \in Entries
<1>1. at[r] - 1 \in 0 .. NumEntries + 1 /\ (at[r] # 1 => at[r] - 1 \in Entries)
  BY WorkspaceAssumption DEF Entries
<1>2. /\ at' \in [Runs -> 0 .. NumEntries + 1] /\ \A q \in Runs \ {r} : at'[q] = at[q]
      /\ at'[r] = at[r] - 1
  BY <1>1 DEF PrevEntry, VTypeOK
<1>3. PICK p \in {"dropStage", "undo"} : Go(r, p) /\ (p = "dropStage" <=> at[r] = 1)
  BY DEF PrevEntry
<1>4. /\ where' \in [Runs -> Places] /\ where'[r] = p
      /\ \A q \in Runs \ {r} : where'[q] = where[q]
  BY <1>3, GoFacts DEF Places, Rollback
<1> QED
  BY <1>1, <1>2, <1>3, <1>4

(* One entry of a rollback ends: the vault now holds what it stood for, or   *)
(* a second call has failed.                                                 *)
LEMMA RestoreGeneral ==
    ASSUME WorkspaceInv, NEW r \in Runs, where[r] = "restore", PrevEntry(r),
           NEW x \in Contents, dest' = [dest EXCEPT ![at[r]] = x],
           NEW b \in Contents, backup' = [backup EXCEPT ![disk.run][at[r]] = b],
           b \in {Absent, backup[disk.run][at[r]]},
           b # Absent => x = dest[at[r]],
           Well \/ Ill, errs' = errs \/ errs' = [errs EXCEPT ![r] = TRUE],
           worst' <= 1 => ~errs'[r] /\ x = JournalView(at[r]),
           UNCHANGED <<vlease, stage, disk, mem, result>>
    PROVE  WorkspaceInv' /\ (worst' <= 1 => View' = View)
<1>1. /\ VTypeOK /\ PlaceInv(r) /\ MovedAway /\ Others(r) /\ CalmInv
      /\ disk # NoJournal /\ ~disk.committed /\ disk.run \in Runs
      /\ mem[r].run = disk.run /\ at[r] \in Entries /\ trouble >= 1
      /\ \A e \in Entries : RollInv(r, e)
      /\ (NoJournal)' = NoJournal
  BY RollFacts
<1>2. /\ dest' \in Folder /\ dest'[at[r]] = x
      /\ \A e \in Entries : e # at[r] => dest'[e] = dest[e]
  BY <1>1 DEF VTypeOK, Folder
<1>3. /\ backup' \in [Runs -> Folder] /\ backup'[disk.run][at[r]] = b
      /\ \A q \in Runs : q # disk.run => backup'[q] = backup[q]
      /\ \A e \in Entries : e # at[r] => backup'[disk.run][e] = backup[disk.run][e]
  BY <1>1 DEF VTypeOK, Folder
<1>4. /\ where' \in [Runs -> Places] /\ \A q \in Runs \ {r} : where'[q] = where[q]
      /\ at' \in [Runs -> 0 .. NumEntries + 1] /\ \A q \in Runs \ {r} : at'[q] = at[q]
      /\ at'[r] = at[r] - 1 /\ where'[r] \in {"dropStage", "undo"}
      /\ where'[r] = "dropStage" => at[r] = 1
      /\ where'[r] = "undo" => at'[r] \in Entries
  BY <1>1, PrevEntryFacts
<1>5. errs' \in [Runs -> BOOLEAN] /\ \A q \in Runs \ {r} : errs'[q] = errs[q]
  BY <1>1 DEF VTypeOK
<1>6. VTypeOK'
  BY <1>1, <1>2, <1>3, <1>4, <1>5, TroubleFacts, TypeStep DEF VTypeOK
<1>7. Frame(r)
  BY <1>4, <1>5 DEF Frame
<1>8. Begun(r)' <=> Begun(r)
  BY DEF Begun
<1>9. PlaceInv(r)' /\ StagedInv(r)'
  BY <1>1, <1>3, <1>4, <1>8
     DEF PlaceInv, StagedInv, Early, Loop, Rollback, Cleanup, NoEntries, Entries
<1>10. trouble' >= 1 /\ worst <= worst'
  BY <1>1, WellFacts, IllFacts
<1>11. DiskInv'
  BY <1>1, <1>10 DEF DiskInv
<1>12. MovedAway'
  <2> SUFFICES ASSUME NEW e \in Entries, disk.hadOld[e], ~disk.published[e],
                      backup'[disk.run][e] # Absent
               PROVE  dest'[e] = Absent
    BY DEF MovedAway, Entries
  <2>1. backup[disk.run][e] # Absent /\ dest'[e] = dest[e]
    BY <1>1, <1>2, <1>3
  <2> QED
    BY <1>1, <2>1 DEF MovedAway
<1>13. at[r] \in Int /\ \A e \in Entries : e \in Int /\ 1 <= e
  BY <1>1 DEF Entries
<1>14. ASSUME NEW e \in Entries PROVE RollInv(r, e)'
  <2>1. RollInv(r, e)
    BY <1>1
  <2>2. CASE e <= at'[r]
    <3>1. e # at[r] /\ e <= at[r]
      BY <1>4, <1>13, <2>2
    <3> QED
      BY <1>2, <1>3, <1>4, <2>1, <3>1 DEF RollInv
  <2>3. CASE ~(e <= at'[r])
    BY <1>4, <2>1, <2>3 DEF RollInv
  <2> QED
    BY <2>2, <2>3
<1>15. StepOk(r)
  BY <1>3, <1>4, <1>6, <1>7, <1>9, <1>10, <1>11, <1>12, <1>14 DEF StepOk, Loop
<1>16. ASSUME worst' <= 1, NEW e \in Entries PROVE ViewAt(e)' = ViewAt(e)
  <2>1. Undone(e) <=> at[r] < e
    BY <1>1, UndoneOnly DEF UndoneBy
  <2>2. Undone(e)' <=> at[r] <= e
    <3>1. UndoneBy(r, e)' <=> at[r] <= e
      BY <1>4, <1>13 DEF UndoneBy
    <3> QED
      BY <1>1, <1>7, <3>1, UndoneOnlyNext
  <2>3. CASE e # at[r]
    <3>1. Undone(e)' <=> Undone(e)
      BY <1>13, <2>1, <2>2, <2>3
    <3> QED
      BY <1>1, <1>2, <1>3, <2>3, <3>1 DEF ViewAt
  <2>4. CASE e = at[r]
    <3>1. ViewAt(e) = JournalView(e)
      BY <1>1, <1>13, <2>1, <2>4 DEF ViewAt, JournalView
    <3>2. ViewAt(e)' = dest'[e]
      BY <1>13, <2>2, <2>4 DEF ViewAt
    <3> QED
      BY <1>2, <1>16, <2>4, <3>1, <3>2
  <2> QED
    BY <2>3, <2>4
<1> QED
  BY <1>15, <1>16, QuietStep DEF Shown, Cleanup

(* The backup takes its place again.  Nothing can be in its way: what was    *)
(* published has been removed, and what was moved away is not there.         *)
LEMMA RestoreStep ==
    ASSUME WorkspaceInv, NEW r \in Runs, Restore(r)
    PROVE  WorkspaceInv' /\ (worst' <= 1 => View' = View)
<1>1. /\ where[r] = "restore" /\ PrevEntry(r)
      /\ UNCHANGED <<vlease, stage, disk, mem, result>>
  BY DEF Restore
<1>2. /\ VTypeOK /\ MovedAway /\ CalmInv
      /\ disk # NoJournal /\ disk.run \in Runs
      /\ mem[r].run = disk.run /\ at[r] \in Entries /\ trouble >= 1
      /\ RollInv(r, at[r])
  BY <1>1, RollFacts
<1>3. /\ dest[at[r]] \in Contents /\ backup[disk.run][at[r]] \in Contents /\ Absent \in Contents
      /\ at[r] <= at[r]
  <2>1. dest \in Folder /\ backup[disk.run] \in Folder
    BY <1>2 DEF VTypeOK
  <2>2. at[r] <= at[r]
    BY <1>2 DEF Entries
  <2>3. Absent \in Contents
    BY DEF Contents
  <2> QED
    BY <1>2, <2>1, <2>2, <2>3 DEF Folder
<1>4. /\ dest = [dest EXCEPT ![at[r]] = dest[at[r]]]
      /\ backup = [backup EXCEPT ![disk.run][at[r]] = backup[disk.run][at[r]]]
  BY <1>2 DEF VTypeOK, Folder
<1>5. worst <= 1 => ~errs[r]
  BY <1>1, <1>2 DEF CalmInv, Rollback
<1>6. ~errs[r] /\ mem[r].published[at[r]] => dest[at[r]] = Absent
  BY <1>1, <1>2 DEF RollInv
<1>7. (mem[r].hadOld[at[r]] <=> disk.hadOld[at[r]]) \/ backup[disk.run][at[r]] = Absent
  BY <1>2, <1>3 DEF RollInv
<1>8. disk.published[at[r]] => mem[r].published[at[r]]
  BY <1>2 DEF RollInv
<1>9. CASE /\ ~mem[r].hadOld[at[r]] \/ backup[mem[r].run][at[r]] = Absent
           /\ Well /\ UNCHANGED <<dest, backup, errs>>
  <2>1. worst' <= 1 => ~errs'[r] /\ dest[at[r]] = JournalView(at[r])
    BY <1>2, <1>5, <1>6, <1>7, <1>8, <1>9, WellFacts DEF JournalView
  <2> QED
    BY <1>1, <1>3, <1>4, <1>9, <2>1, RestoreGeneral
<1>10. CASE /\ mem[r].hadOld[at[r]] /\ backup[mem[r].run][at[r]] # Absent /\ ~Blocked(at[r])
            /\ dest' = [dest EXCEPT ![at[r]] = backup[mem[r].run][at[r]]]
            /\ backup' = [backup EXCEPT ![mem[r].run][at[r]] = Absent]
            /\ Well /\ UNCHANGED errs
  <2>1. worst' <= 1 => ~errs'[r] /\ backup[disk.run][at[r]] = JournalView(at[r])
    BY <1>2, <1>5, <1>7, <1>10, WellFacts DEF JournalView
  <2> QED
    BY <1>1, <1>2, <1>3, <1>10, <2>1, RestoreGeneral
<1>11. CASE /\ mem[r].hadOld[at[r]] /\ backup[mem[r].run][at[r]] # Absent
            /\ (Blocked(at[r]) /\ Well) \/ Ill
            /\ Note(r) /\ UNCHANGED <<dest, backup>>
  <2>1. ASSUME worst' <= 1 PROVE FALSE
    <3>1. Blocked(at[r]) /\ Well /\ ~errs[r]
      BY <1>2, <1>5, <1>11, <2>1, IllFacts, WellFacts
    <3>2. disk.hadOld[at[r]] /\ backup[disk.run][at[r]] # Absent
      BY <1>2, <1>7, <1>11
    <3>3. dest[at[r]] = Absent
      BY <1>2, <1>6, <1>8, <3>1, <3>2 DEF MovedAway
    <3> QED
      BY <3>1, <3>3 DEF Blocked
  <2> QED
    BY <1>1, <1>3, <1>4, <1>11, <2>1, RestoreGeneral DEF Note
<1> QED
  BY <1>9, <1>10, <1>11 DEF Restore

-----------------------------------------------------------------------------
(* The theorems.                                                            *)

(* Every step keeps the invariant, and, no publication having met a second   *)
(* failure, publishes a run's outputs or changes nothing of what the vault   *)
(* stands for.                                                               *)
LEMMA StepHolds ==
    ASSUME WorkspaceInv, [VNext]_vvars
    PROVE  WorkspaceInv' /\ (worst' <= 1 => [Vault!Next]_View)
<1>1. ASSUME NEW r \in Runs, RunStep(r) \/ Die(r)
      PROVE  WorkspaceInv' /\ (worst' <= 1 => View' = View \/ Vault!Publish(r))
  <2>1. CASE AcquireVaultLease(r)
    BY <2>1, AcquireStep
  <2>2. CASE RecoverInterruptedPublish(r) \/ RunAndStage(r) \/ RecordFailed(r)
    BY <2>2, RecoverStep, RunAndStageStep, RecordStep
  <2>3. CASE ReleaseVaultLease(r) \/ RollbackCannotStart(r) \/ Die(r)
    BY <2>3, LeaveSteps
  <2>4. CASE BeginPublish(r) \/ MarkHadOld(r) \/ MoveToBackup(r)
    BY <2>4, BeginStep, MarkHadOldStep, MoveToBackupStep
  <2>5. CASE MarkPublished(r) \/ MoveFromStage(r)
    BY <2>5, MarkPublishedStep, MoveFromStageStep
  <2>6. CASE CommitPublish(r)
    BY <2>6, CommitStep
  <2>7. CASE Undo(r) \/ Restore(r)
    BY <2>7, UndoStep, RestoreStep
  <2>8. CASE CleanStage(r) \/ DropStage(r)
    BY <2>8, CleanStageStep, DropStageStep
  <2>9. CASE CleanBackup(r) \/ DropBackup(r)
    BY <2>9, BackupSteps
  <2>10. CASE CleanJournal(r) \/ DropJournal(r)
    BY <2>10, JournalSteps
  <2> QED
    BY <1>1, <2>1, <2>2, <2>3, <2>4, <2>5, <2>6, <2>7, <2>8, <2>9, <2>10
       DEF RunStep, PublishSteps, RollbackSteps
<1>2. CASE OperatorUnlock
  BY <1>2, UnlockStep
<1>3. CASE AllDone \/ UNCHANGED vvars
  BY <1>3, NothingHappens DEF AllDone
<1> QED
  BY <1>1, <1>2, <1>3 DEF VNext, Vault!Next

(* The inductive invariant of publishing into a vault: the journal on disk,  *)
(* the journals in memory, the directories and the place of every run agree. *)
THEOREM WorkspaceInvariant == VSpec => []WorkspaceInv
<1>1. VInit => WorkspaceInv
  BY InitHolds
<1>2. WorkspaceInv /\ [VNext]_vvars => WorkspaceInv'
  BY StepHolds
<1> QED
  BY <1>1, <1>2, PTL DEF VSpec

(* The journal, the renames and recoverInterruptedPublish implement          *)
(* AtomicVault, for any number of runs and outputs, failures of whatever     *)
(* calls and crashes at whatever points, as long as no publication meets a   *)
(* second one before its journal is gone.                                    *)
THEOREM VaultChangesAtOnce == VSpec => VaultAtomic
<1> DEFINE Good == worst' <= 1 => [Vault!Next]_View
<1>1. WorkspaceInv /\ [VNext]_vvars => [Good]_vvars
  BY StepHolds
<1>2. VaultAtomic <=> [][Good]_vvars
  BY DEF VaultAtomic
<1> HIDE DEF Good
<1> QED
  BY <1>1, <1>2, WorkspaceInvariant, PTL DEF VSpec

(* A run whose failure was recorded as unpublished is never shown by a vault *)
(* without a journal (recordFailure, publishJournalCommitted).               *)
THEOREM FailedRunsAreNeverShown == VSpec => []FailedNeverShown
<1>1. WorkspaceInv => FailedNeverShown
  <2> SUFFICES ASSUME WorkspaceInv, disk = NoJournal, worst <= 1,
                      NEW r \in Runs, result[r] = "failed", NEW e \in Entries
               PROVE  dest[e] # r
    BY DEF FailedNeverShown
  <2>1. View[e] = dest[e]
    BY ViewPoints DEF ViewAt
  <2> QED
    BY <2>1 DEF WorkspaceInv, CalmInv, Shown
<1> QED
  BY <1>1, WorkspaceInvariant, PTL

(* Once the committed journal is on disk, neither a failed cleanup, a crash  *)
(* nor any recovery changes a published output, however many calls fail.     *)
THEOREM CommittedOutputsStay == VSpec => CommittedStays
<1> DEFINE Kept == disk.committed => dest' = dest
<1>1. WorkspaceInv /\ [VNext]_vvars => [Kept]_vvars
  <2> SUFFICES ASSUME WorkspaceInv, VNext, disk.committed PROVE dest' = dest
    OBVIOUS
  <2>1. ASSUME NEW r \in Runs PROVE where[r] \notin Loop \cup Rollback
    BY DEF WorkspaceInv, PlaceInv
  <2>2. ASSUME NEW r \in Runs, RunStep(r) \/ Die(r) PROVE dest' = dest
    <3>1. where[r] \notin {"entry", "backup", "intent", "place", "commit", "undo", "restore"}
      BY <2>1 DEF Loop, Rollback
    <3>2. CASE RollbackSteps(r)
      BY <3>1, <3>2 DEF RollbackSteps, RollbackCannotStart, Undo, Restore, DropStage, DropBackup,
                       DropJournal
    <3>3. CASE PublishSteps(r)
      BY <3>1, <3>3 DEF PublishSteps, BeginPublish, MarkHadOld, MoveToBackup, MarkPublished,
                       MoveFromStage, CommitPublish, CleanBackup, CleanStage, CleanJournal
    <3>4. CASE AcquireVaultLease(r) \/ RecoverInterruptedPublish(r) \/ RunAndStage(r)
               \/ RecordFailed(r) \/ ReleaseVaultLease(r) \/ Die(r)
      BY <3>4 DEF AcquireVaultLease, RecoverInterruptedPublish, RunAndStage, RecordFailed,
                  ReleaseVaultLease, Die
    <3> QED
      BY <2>2, <3>2, <3>3, <3>4 DEF RunStep
  <2> QED
    BY <2>2 DEF VNext, OperatorUnlock, AllDone, vvars
<1>2. CommittedStays <=> [][Kept]_vvars
  BY DEF CommittedStays
<1> HIDE DEF Kept
<1> QED
  BY <1>1, <1>2, WorkspaceInvariant, PTL DEF VSpec
=============================================================================
