--------------------------- MODULE WorkspacePublish ---------------------------
(***************************************************************************)
(* Publication of a worker's outputs into a mounted vault                  *)
(* (cmd/olw_worker/workspace_publish.go, called from main.go): the vault   *)
(* lease, the staged outputs, the journal that makes several renames one   *)
(* publication, and the recovery that the next run performs.               *)
(*                                                                         *)
(* Every file-system call may fail, and the process may die between any    *)
(* two of them.  A rename and the journal's write (temporary file and      *)
(* rename) happen or do not; RemoveAll of a directory may stop half way.   *)
(* "trouble" counts the failures since the vault last had no journal.      *)
(***************************************************************************)
EXTENDS Integers, FiniteSets

CONSTANTS
    Runs,         \* worker processes, each publishing once
    NumEntries,   \* destinations of a publication, in publishing order
    Trees,        \* destinations that are directories ("wiki")
    Initial,      \* destinations that exist before the first run
    Old,          \* what they contain
    Absent,       \* a path that does not exist
    Damaged,      \* a directory whose removal stopped half way
    Nobody,       \* no lease, no journal
    MaxTrouble    \* bound on failures until the journal is gone

Entries  == 1 .. NumEntries
Contents == Runs \cup {Old, Absent, Damaged}

ASSUME WorkspaceAssumption ==
    /\ NumEntries \in Nat \ {0}
    /\ Trees \subseteq Entries
    /\ Initial \subseteq Entries
    /\ MaxTrouble \in Nat
    /\ {Old, Absent, Damaged, Nobody} \cap Runs = {}
    /\ Old # Absent /\ Old # Damaged /\ Absent # Damaged

VARIABLES
    vlease,   \* owner of .olw/worker.lease
    dest,     \* content of each destination in the vault
    stage,    \* content of each run's stage directory
    backup,   \* content of each run's backup directory
    disk,     \* the journal file
    mem,      \* each run's journal in memory
    at,       \* the entry a run is working on
    errs,     \* did a step of this rollback fail?
    where,    \* where each run stands
    result,   \* what the run recorded about its own publication
    trouble,  \* failures since there was no journal
    worst     \* the most failures that one publication has met

vvars == <<vlease, dest, stage, backup, disk, mem, at, errs, where, result,
           trouble, worst>>

NoEntries == [e \in Entries |-> Absent]
NoFlags   == [e \in Entries |-> FALSE]
Fresh(r)  == [run |-> r, hadOld |-> NoFlags, published |-> NoFlags,
              committed |-> FALSE]
NoJournal == Fresh(Nobody)

VInit ==
    /\ vlease = Nobody
    /\ dest = [e \in Entries |-> IF e \in Initial THEN Old ELSE Absent]
    /\ stage = [r \in Runs |-> NoEntries]
    /\ backup = [r \in Runs |-> NoEntries]
    /\ disk = NoJournal
    /\ mem = [r \in Runs |-> NoJournal]
    /\ at = [r \in Runs |-> 0]
    /\ errs = [r \in Runs |-> FALSE]
    /\ where = [r \in Runs |-> "idle"]
    /\ result = [r \in Runs |-> "none"]
    /\ trouble = 0
    /\ worst = 0

Go(r, place) == where' = [where EXCEPT ![r] = place]

(* A call succeeded.  Without a journal the vault is settled and the count  *)
(* of failures starts again.                                                *)
Well ==
    /\ trouble' = IF disk = NoJournal THEN 0 ELSE trouble
    /\ UNCHANGED worst

(* A call failed, or the process died.                                      *)
Ill ==
    /\ trouble < MaxTrouble
    /\ trouble' = trouble + 1
    /\ worst' = IF worst < trouble' THEN trouble' ELSE worst

-----------------------------------------------------------------------------
(* Lease, recovery and batch: runWorkerBatchWorkspace.                      *)

(* acquireVaultLease: O_EXCL; a lease that exists is never stolen.          *)
AcquireVaultLease(r) ==
    /\ where[r] = "idle"
    /\ \/ vlease = Nobody /\ vlease' = r /\ Go(r, "recover")
       \/ vlease # Nobody /\ Go(r, "done") /\ UNCHANGED vlease
    /\ Well
    /\ UNCHANGED <<dest, stage, backup, disk, mem, at, errs, result>>

(* Mutant: recovery does not look at the phase and always rolls back.       *)
RecoverByRollback(r) ==
    /\ where[r] = "recover"
    /\ mem' = [mem EXCEPT ![r] = disk]
    /\ Go(r, IF disk = NoJournal THEN "batch" ELSE "undo")
    /\ at' = [at EXCEPT ![r] = NumEntries]
    /\ errs' = [errs EXCEPT ![r] = FALSE]
    /\ Well
    /\ UNCHANGED <<vlease, dest, stage, backup, disk, result>>

(* recoverInterruptedPublish: the journal that an earlier run left decides. *)
RecoverInterruptedPublish(r) ==
    /\ where[r] = "recover"
    /\ \/ /\ Well
          /\ mem' = [mem EXCEPT ![r] = disk]
          /\ \/ disk = NoJournal /\ Go(r, "batch") /\ UNCHANGED at
             \/ /\ disk # NoJournal /\ disk.committed
                /\ Go(r, "cleanBackup") /\ UNCHANGED at
             \/ /\ disk # NoJournal /\ ~disk.committed
                /\ Go(r, "undo")
                /\ at' = [at EXCEPT ![r] = NumEntries]
       \/ Ill /\ Go(r, "release") /\ UNCHANGED <<mem, at>>
    /\ errs' = [errs EXCEPT ![r] = FALSE]
    /\ UNCHANGED <<vlease, dest, stage, backup, disk, result>>

(* Synto, reconciliation, stageWorkspaceOutputs and the preflight of        *)
(* publishStagedOutputs; some outputs may not exist in the workspace.  Only *)
(* failures after the snapshots were materialized are recorded.             *)
RunAndStage(r) ==
    /\ where[r] = "batch"
    /\ \/ /\ Well
          /\ \E staged \in (SUBSET Entries) \ {{}} :
                stage' = [stage EXCEPT ![r] =
                            [e \in Entries |-> IF e \in staged THEN r
                                                               ELSE Absent]]
          /\ Go(r, "begin")
       \/ Ill /\ (Go(r, "failed") \/ Go(r, "release")) /\ UNCHANGED stage
    /\ UNCHANGED <<vlease, dest, backup, disk, mem, at, errs, result>>

(* Mutant: a failed publication is recorded without reading the journal.    *)
RecordUnpublished(r) ==
    /\ where[r] = "failed"
    /\ result' = [result EXCEPT ![r] = "failed"]
    /\ Well
    /\ Go(r, "release")
    /\ UNCHANGED <<vlease, dest, stage, backup, disk, mem, at, errs>>

(* The failure path of the batch: recordFailure, with published taken from  *)
(* the journal on disk by publishJournalCommitted.                          *)
RecordFailed(r) ==
    /\ where[r] = "failed"
    /\ \/ /\ Well
          /\ result' = [result EXCEPT ![r] =
                IF disk.committed THEN "failedPublished" ELSE "failed"]
       \/ Ill /\ result' = [result EXCEPT ![r] = "failed"]
    /\ Go(r, "release")
    /\ UNCHANGED <<vlease, dest, stage, backup, disk, mem, at, errs>>

(* vaultLease.Release: only the owner removes it; an error leaves it.       *)
ReleaseVaultLease(r) ==
    /\ where[r] = "release"
    /\ \/ Well /\ vlease = r /\ vlease' = Nobody
       \/ Ill /\ UNCHANGED vlease
    /\ Go(r, "done")
    /\ UNCHANGED <<dest, stage, backup, disk, mem, at, errs, result>>

-----------------------------------------------------------------------------
(* publishStagedOutputs.                                                    *)

(* writePublishJournal.                                                     *)
WriteJournal(r) == disk' = mem'[r] /\ Well

(* The journal is removed and the vault is settled.                         *)
RemoveJournal == disk' = NoJournal /\ trouble' = 0 /\ UNCHANGED worst

(* An error inside the loop: the deferred rollback starts from the journal  *)
(* in memory.                                                               *)
Abort(r) ==
    /\ Ill
    /\ Go(r, "undo")
    /\ at' = [at EXCEPT ![r] = NumEntries]
    /\ errs' = [errs EXCEPT ![r] = FALSE]

NextEntry(r) ==
    /\ at' = [at EXCEPT ![r] = @ + 1]
    /\ Go(r, IF at[r] = NumEntries THEN "commit" ELSE "entry")

(* The backup directory and the first journal.  An error here comes before  *)
(* the rollback is deferred.                                                *)
BeginPublish(r) ==
    /\ where[r] = "begin"
    /\ mem' = [mem EXCEPT ![r] = Fresh(r)]
    /\ at' = [at EXCEPT ![r] = 1]
    /\ \/ WriteJournal(r) /\ Go(r, "entry")
       \/ Ill /\ Go(r, "failed") /\ UNCHANGED disk
    /\ UNCHANGED <<vlease, dest, stage, backup, errs, result>>

(* Mutant: the destination is moved away before the journal says so.        *)
MarkInMemoryOnly(r) ==
    LET e == at[r] IN
    /\ where[r] = "entry"
    /\ mem' = [mem EXCEPT ![r].hadOld[e] = stage[r][e] # Absent /\ dest[e] # Absent]
    /\ \/ stage[r][e] = Absent /\ NextEntry(r)
       \/ stage[r][e] # Absent /\ dest[e] = Absent /\ Go(r, "intent") /\ UNCHANGED at
       \/ stage[r][e] # Absent /\ dest[e] # Absent /\ Go(r, "backup") /\ UNCHANGED at
    /\ Well
    /\ UNCHANGED <<vlease, dest, stage, backup, disk, errs, result>>

(* An output that was not staged is skipped.  Before an existing            *)
(* destination is moved away the intent goes to the journal.                *)
MarkHadOld(r) ==
    LET e == at[r] IN
    /\ where[r] = "entry"
    /\ \/ /\ stage[r][e] = Absent /\ NextEntry(r) /\ Well
          /\ UNCHANGED <<mem, disk, errs>>
       \/ /\ stage[r][e] # Absent /\ dest[e] = Absent
          /\ Go(r, "intent") /\ Well
          /\ UNCHANGED <<mem, disk, at, errs>>
       \/ /\ stage[r][e] # Absent /\ dest[e] # Absent
          /\ mem' = [mem EXCEPT ![r].hadOld[e] = TRUE]
          /\ \/ WriteJournal(r) /\ Go(r, "backup") /\ UNCHANGED <<at, errs>>
             \/ Abort(r) /\ UNCHANGED disk
    /\ UNCHANGED <<vlease, dest, stage, backup, result>>

MoveToBackup(r) ==
    LET e == at[r] IN
    /\ where[r] = "backup"
    /\ \/ /\ backup' = [backup EXCEPT ![r][e] = dest[e]]
          /\ dest' = [dest EXCEPT ![e] = Absent]
          /\ Go(r, "intent") /\ Well
          /\ UNCHANGED <<at, errs>>
       \/ Abort(r) /\ UNCHANGED <<dest, backup>>
    /\ UNCHANGED <<vlease, stage, disk, mem, result>>

MarkPublished(r) ==
    /\ where[r] = "intent"
    /\ mem' = [mem EXCEPT ![r].published[at[r]] = TRUE]
    /\ \/ WriteJournal(r) /\ Go(r, "place") /\ UNCHANGED <<at, errs>>
       \/ Abort(r) /\ UNCHANGED disk
    /\ UNCHANGED <<vlease, dest, stage, backup, result>>

MoveFromStage(r) ==
    LET e == at[r] IN
    /\ where[r] = "place"
    /\ \/ /\ dest' = [dest EXCEPT ![e] = stage[r][e]]
          /\ stage' = [stage EXCEPT ![r][e] = Absent]
          /\ NextEntry(r) /\ Well
          /\ UNCHANGED errs
       \/ Abort(r) /\ UNCHANGED <<dest, stage>>
    /\ UNCHANGED <<vlease, backup, disk, mem, result>>

(* The phase is set in memory before the journal is written: when the write *)
(* fails no rollback runs, and the journal on disk still says uncommitted.  *)
CommitPublish(r) ==
    /\ where[r] = "commit"
    /\ mem' = [mem EXCEPT ![r].committed = TRUE]
    /\ \/ WriteJournal(r) /\ Go(r, "cleanBackup")
       \/ Ill /\ Go(r, "failed") /\ UNCHANGED disk
    /\ UNCHANGED <<vlease, dest, stage, backup, at, errs, result>>

-----------------------------------------------------------------------------
(* Cleanup and rollback, of this run's journal or of one left behind.       *)

(* Is the run dealing with an earlier run's journal?                        *)
Recovering(r) == mem[r].run # r

(* What RemoveAll may leave when it fails: nothing changed, or some entries *)
(* gone and some directories damaged.                                       *)
PartlyRemoved(dir) ==
    {d \in [Entries -> Contents] :
        \A e \in Entries :
            \/ d[e] \in {dir[e], Absent}
            \/ d[e] = Damaged /\ e \in Trees /\ dir[e] # Absent}

RemoveDirectory(r, dir, ok, failed) ==
    \/ dir' = [dir EXCEPT ![mem[r].run] = NoEntries] /\ Well /\ ok
    \/ /\ \E left \in PartlyRemoved(dir[mem[r].run]) :
             dir' = [dir EXCEPT ![mem[r].run] = left]
       /\ Ill /\ failed

(* An error ends the cleanup; the journal stays committed.                  *)
CleanupFailed(r) == Go(r, IF Recovering(r) THEN "release" ELSE "failed")

CleanBackup(r) ==
    /\ where[r] = "cleanBackup"
    /\ RemoveDirectory(r, backup, Go(r, "cleanStage"), CleanupFailed(r))
    /\ UNCHANGED <<vlease, dest, stage, disk, mem, at, errs, result>>

CleanStage(r) ==
    /\ where[r] = "cleanStage"
    /\ RemoveDirectory(r, stage, Go(r, "cleanJournal"), CleanupFailed(r))
    /\ UNCHANGED <<vlease, dest, backup, disk, mem, at, errs, result>>

(* A run that finished its own publication records success and releases the *)
(* lease; a recovering one goes on with its batch.                          *)
CleanJournal(r) ==
    /\ where[r] = "cleanJournal"
    /\ \/ /\ RemoveJournal
          /\ \/ Recovering(r) /\ Go(r, "batch") /\ UNCHANGED result
             \/ /\ ~Recovering(r) /\ Go(r, "release")
                /\ result' = [result EXCEPT ![r] = "published"]
       \/ Ill /\ CleanupFailed(r) /\ UNCHANGED <<disk, result>>
    /\ UNCHANGED <<vlease, dest, stage, backup, mem, at, errs>>

(* A failing step is remembered, the rollback goes on.                      *)
Note(r) == errs' = [errs EXCEPT ![r] = TRUE]

PrevEntry(r) ==
    /\ at' = [at EXCEPT ![r] = @ - 1]
    /\ Go(r, IF at[r] = 1 THEN "dropStage" ELSE "undo")

RollbackOk(r)     == Go(r, IF Recovering(r) THEN "batch" ELSE "failed")
RollbackFailed(r) == Go(r, IF Recovering(r) THEN "release" ELSE "failed")

(* rollbackPublish gives up before its first entry: the vault cannot be     *)
(* opened.                                                                  *)
RollbackCannotStart(r) ==
    /\ where[r] = "undo" /\ at[r] = NumEntries
    /\ Ill /\ RollbackFailed(r)
    /\ UNCHANGED <<vlease, dest, stage, backup, disk, mem, at, errs, result>>

(* rollbackPublish, entries in reverse: what was published is removed.      *)
Undo(r) ==
    LET e == at[r] IN
    /\ where[r] = "undo"
    /\ \/ ~mem[r].published[e] /\ Well /\ UNCHANGED <<dest, errs>>
       \/ /\ mem[r].published[e]
          /\ \/ dest' = [dest EXCEPT ![e] = Absent] /\ Well /\ UNCHANGED errs
             \/ /\ \E left \in {dest[e]} \cup (IF e \in Trees /\ dest[e] # Absent
                                                THEN {Damaged} ELSE {}) :
                      dest' = [dest EXCEPT ![e] = left]
                /\ Ill /\ Note(r)
    /\ Go(r, "restore")
    /\ UNCHANGED <<vlease, stage, backup, disk, mem, at, result>>

(* The backup takes its place again.  A missing backup is no error; a       *)
(* directory that is not empty cannot be replaced.                          *)
Blocked(e) == e \in Trees /\ dest[e] # Absent

Restore(r) ==
    LET e == at[r]
        j == mem[r].run IN
    /\ where[r] = "restore"
    /\ \/ /\ ~mem[r].hadOld[e] \/ backup[j][e] = Absent
          /\ Well /\ UNCHANGED <<dest, backup, errs>>
       \/ /\ mem[r].hadOld[e] /\ backup[j][e] # Absent /\ ~Blocked(e)
          /\ dest' = [dest EXCEPT ![e] = backup[j][e]]
          /\ backup' = [backup EXCEPT ![j][e] = Absent]
          /\ Well /\ UNCHANGED errs
       \/ /\ mem[r].hadOld[e] /\ backup[j][e] # Absent
          /\ \/ Blocked(e) /\ Well
             \/ Ill
          /\ Note(r) /\ UNCHANGED <<dest, backup>>
    /\ PrevEntry(r)
    /\ UNCHANGED <<vlease, stage, disk, mem, result>>

(* Stage and backup are removed whether or not every output was restored.   *)
DropStage(r) ==
    /\ where[r] = "dropStage"
    /\ RemoveDirectory(r, stage, UNCHANGED errs, Note(r))
    /\ Go(r, "dropBackup")
    /\ UNCHANGED <<vlease, dest, backup, disk, mem, at, result>>

DropBackup(r) ==
    /\ where[r] = "dropBackup"
    /\ RemoveDirectory(r, backup, UNCHANGED errs, Note(r))
    /\ Go(r, "dropJournal")
    /\ UNCHANGED <<vlease, dest, stage, disk, mem, at, result>>

(* The journal goes only when nothing failed.                               *)
DropJournal(r) ==
    /\ where[r] = "dropJournal"
    /\ \/ ~errs[r] /\ RemoveJournal /\ RollbackOk(r)
       \/ ~errs[r] /\ Ill /\ RollbackFailed(r) /\ UNCHANGED disk
       \/ errs[r] /\ Well /\ RollbackFailed(r) /\ UNCHANGED disk
    /\ UNCHANGED <<vlease, dest, stage, backup, mem, at, errs, result>>

-----------------------------------------------------------------------------
(* The process is killed; the lease and everything on disk stay.            *)
Die(r) ==
    /\ where[r] \notin {"idle", "done"}
    /\ Ill
    /\ Go(r, "done")
    /\ UNCHANGED <<vlease, dest, stage, backup, disk, mem, at, errs, result>>

(* An operator removes the lease of a process that is gone.                 *)
OperatorUnlock ==
    /\ vlease # Nobody /\ where[vlease] = "done"
    /\ vlease' = Nobody
    /\ Well
    /\ UNCHANGED <<dest, stage, backup, disk, mem, at, errs, where, result>>

PublishSteps(r) ==
    \/ BeginPublish(r) \/ MarkHadOld(r) \/ MoveToBackup(r)
    \/ MarkPublished(r) \/ MoveFromStage(r) \/ CommitPublish(r)
    \/ CleanBackup(r) \/ CleanStage(r) \/ CleanJournal(r)

RollbackSteps(r) ==
    \/ RollbackCannotStart(r) \/ Undo(r) \/ Restore(r) \/ DropStage(r)
    \/ DropBackup(r) \/ DropJournal(r)

RunStep(r) ==
    \/ AcquireVaultLease(r) \/ RecoverInterruptedPublish(r) \/ RunAndStage(r)
    \/ RecordFailed(r) \/ ReleaseVaultLease(r)
    \/ PublishSteps(r) \/ RollbackSteps(r)

AllDone ==
    /\ vlease = Nobody
    /\ \A r \in Runs : where[r] = "done"
    /\ UNCHANGED vvars

VNext ==
    \/ \E r \in Runs : RunStep(r) \/ Die(r)
    \/ OperatorUnlock
    \/ AllDone

VSpec == VInit /\ [][VNext]_vvars
=============================================================================
