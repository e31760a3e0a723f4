----------------------------- MODULE MCWorkspace -----------------------------
(***************************************************************************)
(* What publishing into a vault must guarantee, checked by TLC.            *)
(***************************************************************************)
EXTENDS WorkspacePublish, TLC

RunSymmetry == Permutations(Runs)

(* Has a live rollback already put entry e back?                            *)
Undone(e) ==
    \E r \in Runs :
        \/ where[r] \in {"undo", "restore"} /\ at[r] < e
        \/ where[r] \in {"dropStage", "dropBackup", "dropJournal"}

(* The outputs that the vault stands for: what recovery would leave.        *)
View == [e \in Entries |->
    IF disk = NoJournal \/ disk.committed \/ Undone(e)
    THEN dest[e]
    ELSE IF disk.hadOld[e] /\ backup[disk.run][e] # Absent
         THEN backup[disk.run][e]
         ELSE IF disk.published[e] THEN Absent ELSE dest[e]]

(* As long as no publication meets a second failure before its journal is   *)
(* gone (of whatever calls, or crashes at whatever points), the vault's     *)
(* outputs change all at once or not at all: the journal, the renames and   *)
(* recoverInterruptedPublish together implement AtomicVault.                *)
Vault == INSTANCE AtomicVault WITH view <- View
VaultAtomic == [][worst' <= 1 => [Vault!Next]_View]_vvars

(* A run whose failure was recorded as unpublished (publishJournalCommitted *)
(* said no) leaves none of its outputs in a vault without a journal, and no *)
(* later recovery brings them back, no publication having met two failures. *)
FailedNeverShown ==
    disk = NoJournal /\ worst <= 1 =>
        \A r \in Runs : result[r] = "failed" => \A e \in Entries : dest[e] # r

(* Once the committed journal is on disk, neither a failed cleanup, a crash *)
(* nor any recovery changes a published output until the journal is gone.   *)
CommittedStays == [][disk.committed => dest' = dest]_vvars

(* An output that exists is never lost: restoring the backup brings the     *)
(* previous generation back whenever a publication is undone.               *)
OutputsSurvive ==
    disk = NoJournal =>
        \A e \in Initial : dest[e] \notin {Absent, Damaged}
=============================================================================
