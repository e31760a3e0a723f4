--------------------------- MODULE PublishProtocol ---------------------------
(***************************************************************************)
(* Publication of wiki generations: cloud worker executions                *)
(* (cmd/olw_worker/cloud_publish.go, lease_liveness.go), the BFF's         *)
(* pre-manifest writers (gcs.Client.BeginLegacyGenerationWrite) and the    *)
(* admin index rebuild (gcs.Client.RebuildIndexGeneration), all acting on  *)
(* the lease and the manifest of one project.                              *)
(*                                                                         *)
(* A worker is one Cloud Run execution; Cloud Run may start its task again *)
(* after a crash or a non-zero exit, under the same execution name.  Its   *)
(* mode is a full run, a full run with CLEAN_REBUILD, or the               *)
(* suggested-queries stage.                                                *)
(***************************************************************************)
EXTENDS ObjectStore

CONSTANTS
    Workers,          \* Cloud Run executions of the pipeline job
    Sessions,         \* BFF legacy write sessions
    Rebuilders,       \* admin rebuild requests
    Redacted,         \* what a BFF lease names as its holder: no execution
    Modes,            \* modes an execution may be launched in
    MaxAttempts,      \* tasks Cloud Run starts for one execution
    NumFiles,         \* files of a generation
    WritesPerSession  \* canonical writes one session makes

Procs   == Workers \cup Sessions \cup Rebuilders
Holders == Workers \cup {Redacted}
GenIds  == (Workers \X (1 .. MaxAttempts)) \cup (Rebuilders \X {1})
Writes  == Sessions \X (1 .. WritesPerSession)

ASSUME ProcAssumption ==
    /\ Workers \cap Sessions = {} /\ Workers \cap Rebuilders = {}
    /\ Sessions \cap Rebuilders = {}
    /\ Redacted \notin Workers /\ NoHolder \notin Holders
    /\ NoId \notin GenIds
    /\ Modes \subseteq {"full", "clean", "suggest"}

ASSUME BoundAssumption ==
    /\ MaxAttempts \in Nat \ {0}
    /\ NumFiles \in Nat \ {0}
    /\ WritesPerSession \in Nat \ {0}

\* cloudLeaseReleaseAttempts and legacyLeaseReleaseAttempts
ReleaseAttempts == 3

VARIABLES
    exec,       \* Cloud Run state of each execution
    attempt,    \* which task of the execution is running
    mode,       \* the mode it was launched in
    pc,         \* where each process stands
    held,       \* generation of the lease object the process created
    seen,       \* the lease a worker read before probing its holder
    base,       \* the manifest a publisher read and will replace
    tries,      \* release attempts made
    report,     \* the error class a worker task ends with
    files,      \* objects uploaded under each generation id
    acked,      \* legacy writes each BFF session was told are stored
    success,    \* generations recorded by a success receipt
    failure,    \* generations recorded by a failure receipt
    diagnostic  \* execution -> class of its create-only failure diagnostic

taskVars    == <<exec, attempt, mode>>
recordVars  == <<success, failure, diagnostic>>
vars == <<storeVars, inflight, faults, taskVars, pc, held, seen, base, tries,
          report, files, acked, recordVars>>

Id(p)    == <<p, IF p \in Workers THEN attempt[p] ELSE 1>>
Owner(p) == IF p \in Workers THEN p ELSE Redacted

WorkerPCs  == {"idle", "create", "inspect", "probe", "delete", "recreate",
               "materialize", "materializeLegacy", "run", "upload", "commit",
               "readback", "failing", "ambiguous", "receipts", "release",
               "exit", "done"}
SessionPCs == {"idle", "check", "recheck", "put", "putOnce", "release", "done"}
RebuildPCs == {"idle", "upload", "commit", "done"}

Reports == {"none", "lease_unavailable", "crashed", "failed",
            "outcome_unknown", "committed_receipt", "committed_cleanup", "ok"}
Classes == {"none", "failed", "outcome_unknown", "receipt", "cleanup"}

Init ==
    /\ StoreInit
    /\ exec = [w \in Workers |-> "none"]
    /\ attempt = [w \in Workers |-> 1]
    /\ mode = [w \in Workers |-> "full"]
    /\ pc = [p \in Procs |-> "idle"]
    /\ held = [p \in Workers \cup Sessions |-> 0]
    /\ seen = [w \in Workers |-> NoLease]
    /\ base = [p \in Workers \cup Rebuilders |-> NoManifest]
    /\ tries = [p \in Workers \cup Sessions |-> 0]
    /\ report = [w \in Workers |-> "none"]
    /\ files = [g \in GenIds |-> 0]
    /\ acked = [s \in Sessions |-> 0]
    /\ success = {}
    /\ failure = {}
    /\ diagnostic = [w \in Workers |-> "none"]

Goto(p, label) == pc' = [pc EXCEPT ![p] = label]

(* The task returns the error class r and has nothing to release.           *)
ExitWith(w, r) ==
    /\ Goto(w, "exit")
    /\ report' = [report EXCEPT ![w] = r]

-----------------------------------------------------------------------------
(* The life of an execution.                                                *)

(* The BFF's jobs:run call starts an execution.                             *)
Launch(w) ==
    /\ pc[w] = "idle"
    /\ \E m \in Modes : mode' = [mode EXCEPT ![w] = m]
    /\ exec' = [exec EXCEPT ![w] = "RUNNING"]
    /\ Goto(w, "create")
    /\ UNCHANGED <<storeVars, inflight, faults, attempt, held, seen, base,
                   tries, report, files, acked, recordVars>>

(* The container dies: no deferred call runs, the lease stays.              *)
Crash(w) ==
    /\ pc[w] \notin {"idle", "exit", "done"}
    /\ Fault
    /\ ExitWith(w, "crashed")
    /\ UNCHANGED <<storeVars, inflight, taskVars, held, seen, base, tries,
                   files, acked, recordVars>>

(* Cloud Run starts the task again; the execution keeps its name.           *)
RestartTask(w) ==
    /\ pc[w] = "exit"
    /\ report[w] # "ok"
    /\ attempt[w] < MaxAttempts
    /\ attempt' = [attempt EXCEPT ![w] = @ + 1]
    /\ held' = [held EXCEPT ![w] = 0]
    /\ seen' = [seen EXCEPT ![w] = NoLease]
    /\ base' = [base EXCEPT ![w] = NoManifest]
    /\ tries' = [tries EXCEPT ![w] = 0]
    /\ report' = [report EXCEPT ![w] = "none"]
    /\ Goto(w, "create")
    /\ UNCHANGED <<storeVars, inflight, faults, exec, mode, files, acked,
                   recordVars>>

(* The execution reaches SUCCEEDED, FAILED or CANCELLED.                    *)
EndExecution(w) ==
    /\ pc[w] = "exit"
    /\ exec' = [exec EXCEPT ![w] = "terminal"]
    /\ Goto(w, "done")
    /\ UNCHANGED <<storeVars, inflight, faults, attempt, mode, held, seen,
                   base, tries, report, files, acked, recordVars>>

-----------------------------------------------------------------------------
(* acquireCloudLease.                                                       *)

CreateLease(w) ==
    /\ pc[w] \in {"create", "recreate"}
    /\ Answered(CreateLeaseReq(w))
    /\ held' = [held EXCEPT ![w] = clock + 1]
    /\ Goto(w, "materialize")
    /\ UNCHANGED <<taskVars, seen, base, tries, report, files, acked,
                   recordVars>>

(* A conflict is inspected once; the create after a reclaim is final.       *)
CreateConflict(w) ==
    /\ Refused(CreateLeaseReq(w))
    /\ \/ pc[w] = "create" /\ Goto(w, "inspect") /\ UNCHANGED report
       \/ pc[w] = "recreate" /\ ExitWith(w, "lease_unavailable")
    /\ UNCHANGED <<taskVars, held, seen, base, tries, files, acked,
                   recordVars>>

CreateFails(w) ==
    /\ pc[w] \in {"create", "recreate"}
    /\ Unanswered(CreateLeaseReq(w))
    /\ ExitWith(w, "lease_unavailable")
    /\ UNCHANGED <<taskVars, held, seen, base, tries, files, acked,
                   recordVars>>

(* maybeReclaimCloudLease: read the lease and parse its holder.             *)
InspectLease(w) ==
    /\ pc[w] = "inspect"
    /\ \/ /\ ReadOk
          /\ lease = NoLease
          /\ Goto(w, "recreate")
          /\ UNCHANGED <<seen, report>>
       \/ /\ ReadOk
          /\ lease.holder \in Workers
          /\ seen' = [seen EXCEPT ![w] = lease]
          /\ Goto(w, "probe")
          /\ UNCHANGED report
       \/ /\ ReadFailed \/ (ReadOk /\ lease.holder = Redacted)
          /\ ExitWith(w, "lease_unavailable")
          /\ UNCHANGED seen
    /\ UNCHANGED <<taskVars, held, base, tries, files, acked, recordVars>>

(* What Probe may answer of an execution: never terminal while it runs.     *)
ProbeAnswers(h) ==
    IF exec[h] = "RUNNING" THEN {"RUNNING"} ELSE {"terminal", "not_found"}

(* Mutants: the age of the lease counts as proof that its holder is gone;   *)
(* only an execution that no longer exists may lose its lease.              *)
ReclaimAlways(state) == TRUE
ReclaimNotFound(state) == state = "not_found"

AllowLeaseReclaim(state) == state \in {"terminal", "not_found"}

ProbeHolder(w) ==
    /\ pc[w] = "probe"
    /\ \/ /\ ReadOk
          /\ \E state \in ProbeAnswers(seen[w].holder) :
                \/ /\ AllowLeaseReclaim(state)
                   /\ Goto(w, "delete")
                   /\ UNCHANGED report
                \/ /\ ~AllowLeaseReclaim(state)
                   /\ ExitWith(w, "lease_unavailable")
       \/ ReadFailed /\ ExitWith(w, "lease_unavailable")
    /\ UNCHANGED <<taskVars, held, seen, base, tries, files, acked,
                   recordVars>>

(* The exact-generation delete; somebody else's success counts as ours.     *)
ReclaimLease(w) ==
    /\ pc[w] = "delete"
    /\ \/ /\ Answered(DeleteLeaseReq(seen[w].gen))
             \/ Refused(DeleteLeaseReq(seen[w].gen))
          /\ Goto(w, "recreate")
          /\ UNCHANGED report
       \/ /\ Unanswered(DeleteLeaseReq(seen[w].gen))
          /\ ExitWith(w, "lease_unavailable")
    /\ UNCHANGED <<taskVars, held, seen, base, tries, files, acked,
                   recordVars>>

-----------------------------------------------------------------------------
(* materializeCloudWorkspace and the batch itself.                          *)

(* The manifest is read once; its bytes, its id and its object generation   *)
(* stay the base of this run's commit.  A clean rebuild installs nothing of *)
(* the prior generation, suggested-queries needs one.                       *)
ReadManifest(w) ==
    /\ pc[w] = "materialize"
    /\ \/ /\ ReadOk
          /\ base' = [base EXCEPT ![w] =
                        [manifest EXCEPT !.covers =
                            IF mode[w] = "clean" THEN {} ELSE @]]
          /\ Goto(w, CASE manifest.gen > 0      -> "run"
                       [] mode[w] = "clean"     -> "run"
                       [] mode[w] = "suggest"   -> "failing"
                       [] OTHER                 -> "materializeLegacy")
       \/ ReadFailed /\ Goto(w, "failing") /\ UNCHANGED base
    /\ UNCHANGED <<taskVars, held, seen, tries, report, files, acked,
                   recordVars>>

(* materializeLegacyCloudOutputs: a project without a manifest starts from  *)
(* the canonical generated objects.                                         *)
ReadLegacyOutputs(w) ==
    /\ pc[w] = "materializeLegacy"
    /\ \/ /\ ReadOk
          /\ base' = [base EXCEPT ![w].covers = legacy]
          /\ Goto(w, "run")
       \/ ReadFailed /\ Goto(w, "failing") /\ UNCHANGED base
    /\ UNCHANGED <<taskVars, held, seen, tries, report, files, acked,
                   recordVars>>

(* Synto, postprocess, source and concept reconciliation, preflight.        *)
RunBatch(w) ==
    /\ pc[w] = "run"
    /\ \/ ReadOk /\ Goto(w, "upload")
       \/ ReadFailed /\ Goto(w, "failing")
    /\ UNCHANGED <<taskVars, held, seen, base, tries, report, files, acked,
                   recordVars>>

(* One create-only upload; "next" is where a complete generation goes and   *)
(* "abort" where an upload error goes, whether or not the object was made.  *)
UploadFile(p, next, abort) ==
    /\ pc[p] = "upload"
    /\ \/ /\ ReadOk
          /\ files' = [files EXCEPT ![Id(p)] = @ + 1]
          /\ Goto(p, IF files[Id(p)] + 1 = NumFiles THEN next ELSE "upload")
       \/ /\ ReadFailed
          /\ files' \in {files, [files EXCEPT ![Id(p)] = @ + 1]}
          /\ Goto(p, abort)
    /\ UNCHANGED <<taskVars, held, seen, base, tries, report, acked,
                   recordVars>>

(* Mutants: upload errors are ignored; the loop does not stop at the last   *)
(* file.                                                                    *)
UploadIgnoringErrors(w) == UploadFile(w, "commit", "commit")
UploadForever(w) == UploadFile(w, "upload", "failing")

UploadOutput(w) == UploadFile(w, "commit", "failing")

-----------------------------------------------------------------------------
(* publishCloudGenerationWithFiles: the commit and its read-back.           *)

CommitManifest(w) ==
    /\ pc[w] = "commit"
    /\ \/ Answered(CommitReq(base[w], Id(w))) /\ Goto(w, "receipts")
       \/ /\ Refused(CommitReq(base[w], Id(w)))
             \/ Unanswered(CommitReq(base[w], Id(w)))
          /\ Goto(w, "readback")
    /\ UNCHANGED <<taskVars, held, seen, base, tries, report, files, acked,
                   recordVars>>

(* Mutants: any manifest found confirms the commit; an unreadable manifest  *)
(* counts as a conflict.                                                    *)
ConfirmAnyManifest(w) ==
    /\ pc[w] = "readback"
    /\ \/ ReadOk /\ manifest # NoManifest /\ Goto(w, "receipts")
       \/ ReadOk /\ manifest = NoManifest /\ Goto(w, "failing")
       \/ ReadFailed /\ Goto(w, "ambiguous")
    /\ UNCHANGED <<taskVars, held, seen, base, tries, report, files, acked,
                   recordVars>>

ConfirmUnreadableAsConflict(w) ==
    /\ pc[w] = "readback"
    /\ \/ ReadOk /\ manifest.id = Id(w) /\ Goto(w, "receipts")
       \/ ReadOk /\ manifest.id # Id(w) /\ Goto(w, "failing")
       \/ ReadFailed /\ Goto(w, "failing")
    /\ UNCHANGED <<taskVars, held, seen, base, tries, report, files, acked,
                   recordVars>>

ConfirmManifestCommit(w) ==
    /\ pc[w] = "readback"
    /\ \/ ReadOk /\ manifest.id = Id(w) /\ Goto(w, "receipts")
       \/ ReadOk /\ manifest.id # Id(w) /\ Goto(w, "failing")
       \/ ReadFailed /\ Goto(w, "ambiguous")
    /\ UNCHANGED <<taskVars, held, seen, base, tries, report, files, acked,
                   recordVars>>

-----------------------------------------------------------------------------
(* Receipts, diagnostics and the deferred release.                          *)

(* writeCloudFailureDiagnosticWithContext: create-only under the            *)
(* execution's name, so the first task's diagnostic stays.                  *)
WithDiagnostic(w, class) ==
    IF diagnostic[w] = "none" THEN [diagnostic EXCEPT ![w] = class]
                              ELSE diagnostic

Finishing(w, r) ==
    /\ Goto(w, "release")
    /\ report' = [report EXCEPT ![w] = r]
    /\ UNCHANGED <<taskVars, held, seen, base, tries, files, acked>>

(* mergeCloudReceipts: a receipt is written for the sources whose raw and   *)
(* annotation bytes still are the ones the run materialized, maybe none.    *)
MaybeRecord(records, id) == {records, records \cup {id}}

(* writeCloudFailureReceipts: both records are attempted, each may fail.    *)
RecordFailure(w) ==
    /\ pc[w] = "failing"
    /\ failure' \in MaybeRecord(failure, Id(w))
    /\ \/ ReadOk /\ diagnostic' = WithDiagnostic(w, "failed")
       \/ ReadFailed /\ diagnostic' \in {diagnostic, WithDiagnostic(w, "failed")}
    /\ UNCHANGED success
    /\ Finishing(w, "failed")

(* recordCloudAmbiguousManifestFailure: no source receipt is touched.       *)
RecordAmbiguous(w) ==
    /\ pc[w] = "ambiguous"
    /\ \/ ReadOk /\ diagnostic' = WithDiagnostic(w, "outcome_unknown")
       \/ ReadFailed /\ UNCHANGED diagnostic
    /\ UNCHANGED <<success, failure>>
    /\ Finishing(w, "outcome_unknown")

(* writeCloudReceipts after a confirmed commit.                             *)
WriteReceipts(w) ==
    /\ pc[w] = "receipts"
    /\ success' \in MaybeRecord(success, Id(w))
    /\ UNCHANGED failure
    /\ \/ /\ ReadOk
          /\ UNCHANGED diagnostic
          /\ Finishing(w, "ok")
       \/ /\ ReadFailed
          /\ diagnostic' \in {diagnostic, WithDiagnostic(w, "receipt")}
          /\ Finishing(w, "committed_receipt")

(* RetryGenerationCleanup: every attempt deletes the generation this        *)
(* process created.  NotFound after a delete whose answer was lost is an    *)
(* error like any other.                                                    *)
ReleaseRetries(p) ==
    /\ Refused(DeleteLeaseReq(held[p])) \/ Unanswered(DeleteLeaseReq(held[p]))
    /\ tries' = [tries EXCEPT ![p] = @ + 1]

ReleaseLease(w) ==
    /\ pc[w] = "release"
    /\ Answered(DeleteLeaseReq(held[w]))
    /\ Goto(w, "exit")
    /\ UNCHANGED <<taskVars, held, seen, base, tries, report, files, acked,
                   recordVars>>

ReleaseLeaseFails(w) ==
    /\ pc[w] = "release"
    /\ ReleaseRetries(w)
    /\ \/ /\ tries[w] + 1 < ReleaseAttempts
          /\ UNCHANGED <<pc, report, diagnostic>>
       \/ /\ tries[w] + 1 = ReleaseAttempts
          /\ \/ /\ report[w] = "ok"
                /\ ExitWith(w, "committed_cleanup")
                /\ diagnostic' \in {diagnostic, WithDiagnostic(w, "cleanup")}
             \/ /\ report[w] # "ok"
                /\ Goto(w, "exit")
                /\ UNCHANGED <<report, diagnostic>>
    /\ UNCHANGED <<taskVars, held, seen, base, files, acked, success, failure>>

-----------------------------------------------------------------------------
(* BFF legacy write sessions.                                               *)

(* BeginLegacyGenerationWrite: any error of the create is reported as       *)
(* ErrGenerationManaged and nothing is released.                            *)
BeginSession(s) ==
    /\ pc[s] = "idle"
    /\ \/ /\ Answered(CreateLeaseReq(Redacted))
          /\ held' = [held EXCEPT ![s] = clock + 1]
          /\ Goto(s, "check")
       \/ /\ Refused(CreateLeaseReq(Redacted))
             \/ Unanswered(CreateLeaseReq(Redacted))
          /\ Goto(s, "done")
          /\ UNCHANGED held
    /\ UNCHANGED <<taskVars, seen, base, tries, report, files, acked,
                   recordVars>>

(* Mutant: the lease alone is taken as leave to write.                      *)
WriteWithoutCheck(s) ==
    /\ pc[s] = "check"
    /\ ReadOk
    /\ Goto(s, "putOnce")
    /\ UNCHANGED <<taskVars, held, seen, base, tries, report, files, acked,
                   recordVars>>

(* HasCurrentManifest under the lease.  A single write follows at once, a   *)
(* rebuild session checks again before each of its writes.                  *)
CheckNoManifest(s) ==
    /\ pc[s] = "check"
    /\ \/ /\ ReadOk
          /\ manifest = NoManifest
          /\ Goto(s, "putOnce") \/ Goto(s, "recheck")
       \/ ReadOk /\ manifest # NoManifest /\ Goto(s, "release")
       \/ ReadFailed /\ Goto(s, "release")
    /\ UNCHANGED <<taskVars, held, seen, base, tries, report, files, acked,
                   recordVars>>

(* withGenerationWriteLease inside a session.                               *)
RecheckNoManifest(s) ==
    /\ pc[s] = "recheck"
    /\ \/ ReadOk /\ manifest = NoManifest /\ Goto(s, "put")
       \/ ReadOk /\ manifest # NoManifest /\ Goto(s, "release")
       \/ ReadFailed /\ Goto(s, "release")
    /\ UNCHANGED <<taskVars, held, seen, base, tries, report, files, acked,
                   recordVars>>

NextWrite(s) == <<s, acked[s] + 1>>

(* The canonical object is written; a rebuild session may write another.    *)
PutLegacy(s) ==
    /\ pc[s] \in {"put", "putOnce"}
    /\ \/ /\ Answered(PutReq(NextWrite(s)))
          /\ acked' = [acked EXCEPT ![s] = @ + 1]
          /\ \/ Goto(s, "release")
             \/ /\ pc[s] = "put"
                /\ acked[s] + 1 < WritesPerSession
                /\ Goto(s, "recheck")
       \/ /\ Unanswered(PutReq(NextWrite(s)))
          /\ Goto(s, "release")
          /\ UNCHANGED acked
    /\ UNCHANGED <<taskVars, held, seen, base, tries, report, files,
                   recordVars>>

EndSession(s) ==
    /\ pc[s] = "release"
    /\ \/ Answered(DeleteLeaseReq(held[s])) /\ Goto(s, "done") /\ UNCHANGED tries
       \/ /\ ReleaseRetries(s)
          /\ \/ tries[s] + 1 < ReleaseAttempts /\ UNCHANGED pc
             \/ tries[s] + 1 = ReleaseAttempts /\ Goto(s, "done")
    /\ UNCHANGED <<taskVars, held, seen, base, report, files, acked, recordVars>>

(* The BFF instance dies: its lease names no execution and stays.           *)
CrashSession(s) ==
    /\ pc[s] \in {"check", "recheck", "put", "putOnce", "release"}
    /\ Fault
    /\ Goto(s, "done")
    /\ UNCHANGED <<storeVars, inflight, taskVars, held, seen, base, tries,
                   report, files, acked, recordVars>>

-----------------------------------------------------------------------------
(* RebuildIndexGeneration: no lease, only the manifest's CAS.               *)

ReadForRebuild(r) ==
    /\ pc[r] = "idle"
    /\ \/ /\ ReadOk
          /\ manifest # NoManifest
          /\ base' = [base EXCEPT ![r] = manifest]
          /\ Goto(r, "upload")
       \/ /\ ReadFailed \/ (ReadOk /\ manifest = NoManifest)
          /\ Goto(r, "done")
          /\ UNCHANGED base
    /\ UNCHANGED <<taskVars, held, seen, tries, report, files, acked,
                   recordVars>>

UploadRebuild(r) == UploadFile(r, "commit", "done")

(* A conflict and any other error end the request without a read-back.      *)
CommitRebuild(r) ==
    /\ pc[r] = "commit"
    /\ \/ Answered(CommitReq(base[r], Id(r)))
       \/ Refused(CommitReq(base[r], Id(r)))
       \/ Unanswered(CommitReq(base[r], Id(r)))
    /\ Goto(r, "done")
    /\ UNCHANGED <<taskVars, held, seen, base, tries, report, files, acked,
                   recordVars>>

-----------------------------------------------------------------------------
(* An abandoned request takes effect behind everybody's back.               *)
Arrive ==
    /\ \E req \in inflight : LateArrival(req)
    /\ UNCHANGED <<taskVars, pc, held, seen, base, tries, report, files,
                   acked, recordVars>>

AcquireStep(w) ==
    \/ CreateLease(w) \/ CreateConflict(w) \/ CreateFails(w)
    \/ InspectLease(w) \/ ProbeHolder(w) \/ ReclaimLease(w)

PublishStep(w) ==
    \/ ReadManifest(w) \/ ReadLegacyOutputs(w) \/ RunBatch(w)
    \/ UploadOutput(w) \/ CommitManifest(w) \/ ConfirmManifestCommit(w)

FinishStep(w) ==
    \/ RecordFailure(w) \/ RecordAmbiguous(w) \/ WriteReceipts(w)
    \/ ReleaseLease(w) \/ ReleaseLeaseFails(w)
    \/ RestartTask(w) \/ EndExecution(w)

WorkerStep(w) == AcquireStep(w) \/ PublishStep(w) \/ FinishStep(w)

SessionStep(s) ==
    \/ BeginSession(s) \/ CheckNoManifest(s) \/ RecheckNoManifest(s)
    \/ PutLegacy(s) \/ EndSession(s)

RebuildStep(r) == ReadForRebuild(r) \/ UploadRebuild(r) \/ CommitRebuild(r)

(* Every process has ended.                                                 *)
Finished ==
    /\ \A p \in Procs : pc[p] = "done"
    /\ UNCHANGED vars

Next ==
    \/ \E w \in Workers : Launch(w) \/ Crash(w) \/ WorkerStep(w)
    \/ \E s \in Sessions : SessionStep(s) \/ CrashSession(s)
    \/ \E r \in Rebuilders : RebuildStep(r)
    \/ Arrive
    \/ Finished

Spec == Init /\ [][Next]_vars

(* A task that is not killed runs on: the worker is one sequential program  *)
(* whose store calls all have timeouts.  Nothing is assumed of launches.    *)
FairSpec == Spec /\ \A w \in Workers : WF_vars(WorkerStep(w))
=============================================================================
