---------------------------- MODULE PublishProofs ----------------------------
(***************************************************************************)
(* Type correctness and the bounds of the loops, and mutual exclusion, for *)
(* every number of executions, sessions, rebuilds, files and failures.     *)
(***************************************************************************)
EXTENDS PublishInvariants, TLAPS

USE ProcAssumption, BoundAssumption, FaultAssumption DEF ReleaseAttempts

-----------------------------------------------------------------------------
(* Requests and the store.                                                  *)

LEMMA LeaseRequests ==
    /\ \A h \in Holders : CreateLeaseReq(h) \in Requests
    /\ \A n \in Nat : DeleteLeaseReq(n) \in Requests
    /\ \A x \in Writes : PutReq(x) \in Requests
  BY DEF CreateLeaseReq, DeleteLeaseReq, PutReq, Requests

LEMMA CommitRequests ==
    \A b \in ManifestRecords, id \in GenIds : CommitReq(b, id) \in Requests
  BY DEF CommitReq, Requests, ManifestRecords

LEMMA StoreTypes ==
    ASSUME StoreTypeOK, NEW req \in Requests,
           Answered(req) \/ Refused(req) \/ Unanswered(req) \/ LateArrival(req)
    PROVE  StoreTypeOK'
  <1>1. faults' \in 0 .. MaxFaults
    BY DEF StoreTypeOK, Answered, Refused, Unanswered, LateArrival, Fault,
           NoFault
  <1>2. inflight' \subseteq Requests
    BY DEF StoreTypeOK, Answered, Refused, Unanswered, LateArrival
  <1>3. Apply(req) \/ UNCHANGED storeVars
    BY DEF Answered, Refused, Unanswered, LateArrival
  <1>4. CASE UNCHANGED storeVars
    BY <1>1, <1>2, <1>4 DEF StoreTypeOK, storeVars
  <1>5. CASE Created(req)
    BY <1>1, <1>2, <1>5 DEF StoreTypeOK, Created, Requests, LeaseRecords
  <1>6. CASE Deleted(req)
    BY <1>1, <1>2, <1>6 DEF StoreTypeOK, Deleted, NoLease, LeaseRecords
  <1>7. CASE Committed(req)
    <2>1. /\ req.id \in GenIds
          /\ req.prev \in GenIds \cup {NoId}
          /\ req.covers \in SUBSET Writes
      BY <1>7 DEF Committed, Requests
    <2>2. manifest' \in ManifestRecords
      BY <1>7, <2>1 DEF Committed, StoreTypeOK, ManifestRecords
    <2>3. log' \in Seq([id : GenIds, prev : GenIds \cup {NoId}])
      BY <1>7, <2>1 DEF Committed, StoreTypeOK
    <2> QED BY <1>1, <1>2, <1>7, <2>2, <2>3 DEF Committed, StoreTypeOK
  <1>8. CASE Stored(req)
    BY <1>1, <1>2, <1>8 DEF StoreTypeOK, Stored, Requests
  <1> QED BY <1>3, <1>4, <1>5, <1>6, <1>7, <1>8 DEF Apply

LEMMA ReadTypes ==
    ASSUME StoreTypeOK, ReadOk \/ ReadFailed
    PROVE  StoreTypeOK'
  BY DEF StoreTypeOK, ReadOk, ReadFailed, Fault, NoFault, storeVars

-----------------------------------------------------------------------------
(* Types and counters.                                                      *)

LEMMA IdTypes ==
    ASSUME TaskTypeOK, NEW p \in Publishers
    PROVE  Id(p) \in GenIds /\ Id(p)[1] = p
  BY DEF TaskTypeOK, Publishers, Id, GenIds

(* A worker that moves on without uploading, starting over or retrying its  *)
(* release disturbs no counter.                                             *)
LEMMA WorkerMoves ==
    ASSUME CountInv, NEW w \in Workers, NEW l \in WorkerPCs, Goto(w, l),
           UNCHANGED <<attempt, files, acked, tries>>,
           pc[w] \notin {"exit", "done"},
           pc[w] = "release" => l = "exit",
           l \in BeforeUpload => pc[w] \in BeforeUpload,
           l = "upload" => pc[w] = "run",
           l # "commit"
    PROVE  UploadCounted' /\ ReleaseCounted' /\ WritesCounted'
  <1> USE DEF CountInv, TypeOK, TaskTypeOK, Goto, Procs
  <1>1. /\ pc'[w] = l
        /\ \A p \in Procs \ {w} : pc'[p] = pc[p]
    OBVIOUS
  <1>2. \A p \in Procs : Id(p)' = Id(p)
    BY DEF Id
  <1>3. \A id \in GenIds : Ahead(id, BeforeUpload)' => Ahead(id, BeforeUpload)
    BY <1>1, <1>2 DEF Ahead, GenIds
  <1>4. \A id \in GenIds : Ahead(id, BeforeUpload)' => files'[id] = 0
    BY <1>3 DEF UploadCounted
  <1>5. ASSUME NEW p \in Publishers
        PROVE  /\ pc'[p] = "upload" => files'[Id(p)'] < NumFiles
               /\ pc'[p] = "commit" => files'[Id(p)'] = NumFiles
    <2>1. CASE p = w
      <3>1. pc[w] = "run" => Ahead(Id(w), BeforeUpload) /\ Id(w) \in GenIds
        BY IdTypes DEF Ahead, BeforeUpload, Publishers
      <3> QED BY <1>1, <1>2, <2>1, <3>1 DEF UploadCounted, Publishers
    <2>2. CASE p # w
      BY <1>1, <1>2, <2>2 DEF UploadCounted, Publishers
    <2> QED BY <2>1, <2>2
  <1>6. UploadCounted'
    BY <1>4, <1>5 DEF UploadCounted
  <1>7. ReleaseCounted'
    BY <1>1 DEF ReleaseCounted, LeaseUsers, SessionPCs
  <1>8. WritesCounted'
    BY <1>1 DEF WritesCounted
  <1> QED BY <1>6, <1>7, <1>8

(* The same for a session and a rebuild request.                            *)
LEMMA OtherMoves ==
    ASSUME CountInv, NEW p \in Sessions \cup Rebuilders, NEW l, Goto(p, l),
           UNCHANGED <<attempt, files, tries>>,
           \A s \in Sessions \ {p} : acked'[s] = acked[s],
           p \in Sessions =>
               /\ pc[p] = "release" => l = "done"
               /\ l \notin {"release", "done"} => acked'[p] < WritesPerSession,
           p \in Rebuilders =>
               /\ l \notin BeforeUpload \cup {"commit"}
               /\ l = "upload" => pc[p] = "idle",
           pc[p] # "done"
    PROVE  UploadCounted' /\ ReleaseCounted' /\ WritesCounted'
  <1> USE DEF CountInv, TypeOK, TaskTypeOK, Goto, Procs
  <1>1. /\ pc'[p] = l
        /\ \A q \in Procs \ {p} : pc'[q] = pc[q]
    OBVIOUS
  <1>2. \A q \in Procs : Id(q)' = Id(q)
    BY DEF Id
  <1>3. \A id \in GenIds : Ahead(id, BeforeUpload)' => Ahead(id, BeforeUpload)
    BY <1>1, <1>2 DEF Ahead, GenIds
  <1>4. \A id \in GenIds : Ahead(id, BeforeUpload)' => files'[id] = 0
    BY <1>3 DEF UploadCounted
  <1>5. ASSUME NEW q \in Publishers
        PROVE  /\ pc'[q] = "upload" => files'[Id(q)'] < NumFiles
               /\ pc'[q] = "commit" => files'[Id(q)'] = NumFiles
    <2>1. CASE q = p
      <3>1. pc[p] = "idle" => Ahead(Id(q), BeforeUpload) /\ Id(q) \in GenIds
        BY <2>1, IdTypes DEF Ahead, BeforeUpload, Publishers
      <3> QED BY <1>1, <1>2, <2>1, <3>1 DEF UploadCounted, Publishers
    <2>2. CASE q # p
      BY <1>1, <1>2, <2>2 DEF UploadCounted, Publishers
    <2> QED BY <2>1, <2>2
  <1>6. UploadCounted'
    BY <1>4, <1>5 DEF UploadCounted
  <1>7. ReleaseCounted'
    BY <1>1 DEF ReleaseCounted, LeaseUsers, SessionPCs
  <1>8. WritesCounted'
    BY <1>1 DEF WritesCounted
  <1> QED BY <1>6, <1>7, <1>8

LEMMA CountInit == Init => CountInv
  <1> SUFFICES ASSUME Init PROVE CountInv
    OBVIOUS
  <1> USE DEF Init, StoreInit
  <1>1. StoreTypeOK
    BY DEF StoreTypeOK, NoLease, NoManifest, LeaseRecords, ManifestRecords
  <1>2. TaskTypeOK
    BY DEF TaskTypeOK, NoLease, NoManifest, LeaseRecords, ManifestRecords,
           WorkerPCs, SessionPCs, RebuildPCs, Reports, Procs
  <1>3. RecordTypeOK
    BY DEF RecordTypeOK, Classes
  <1>4. UploadCounted /\ ReleaseCounted /\ WritesCounted
    BY DEF UploadCounted, ReleaseCounted, WritesCounted, Publishers,
           LeaseUsers, Procs
  <1> QED BY <1>1, <1>2, <1>3, <1>4 DEF CountInv, TypeOK

LEMMA LaunchAndCrashCount ==
    ASSUME CountInv, NEW w \in Workers, Launch(w) \/ Crash(w)
    PROVE  CountInv'
  <1> USE DEF CountInv, TypeOK
  <1>1. CASE Launch(w)
    <2>1. StoreTypeOK' /\ RecordTypeOK'
      BY <1>1 DEF Launch, StoreTypeOK, RecordTypeOK, storeVars, recordVars
    <2>2. TaskTypeOK'
      BY <1>1 DEF Launch, TaskTypeOK, Goto, WorkerPCs, Procs
    <2>3. UploadCounted' /\ ReleaseCounted' /\ WritesCounted'
      BY <1>1, WorkerMoves DEF Launch, WorkerPCs, BeforeUpload
    <2> QED BY <2>1, <2>2, <2>3
  <1>2. CASE Crash(w)
    <2>1. StoreTypeOK' /\ RecordTypeOK'
      BY <1>2 DEF Crash, StoreTypeOK, RecordTypeOK, storeVars, recordVars, Fault
    <2>2. TaskTypeOK'
      BY <1>2 DEF Crash, ExitWith, TaskTypeOK, taskVars, Goto, WorkerPCs,
                  Procs, Reports
    <2>3. UploadCounted' /\ ReleaseCounted' /\ WritesCounted'
      BY <1>2, WorkerMoves DEF Crash, ExitWith, WorkerPCs, BeforeUpload, taskVars
    <2> QED BY <2>1, <2>2, <2>3
  <1> QED BY <1>1, <1>2

LEMMA AcquireCount ==
    ASSUME CountInv, NEW w \in Workers, AcquireStep(w)
    PROVE  CountInv'
  <1> USE DEF CountInv, TypeOK
  <1>0. /\ CreateLeaseReq(w) \in Requests
        /\ DeleteLeaseReq(seen[w].gen) \in Requests
    BY LeaseRequests DEF Holders, TaskTypeOK, LeaseRecords
  <1>1. RecordTypeOK' /\ UNCHANGED <<attempt, files, acked, tries>>
    BY DEF AcquireStep, CreateLease, CreateConflict, CreateFails, InspectLease,
           ProbeHolder, ReclaimLease, RecordTypeOK, recordVars, taskVars
  <1>2. CASE CreateLease(w)
    <2>1. StoreTypeOK'
      BY <1>0, <1>2, StoreTypes DEF CreateLease
    <2>2. TaskTypeOK'
      BY <1>2 DEF CreateLease, StoreTypeOK, TaskTypeOK, taskVars, Goto,
                  WorkerPCs, Procs
    <2>3. UploadCounted' /\ ReleaseCounted' /\ WritesCounted'
      BY <1>1, <1>2, WorkerMoves DEF CreateLease, WorkerPCs, BeforeUpload
    <2> QED BY <1>1, <2>1, <2>2, <2>3
  <1>3. CASE CreateConflict(w)
    <2>1. StoreTypeOK'
      BY <1>0, <1>3, StoreTypes DEF CreateConflict
    <2>2. TaskTypeOK'
      BY <1>3 DEF CreateConflict, TaskTypeOK, taskVars, Goto, ExitWith,
                  WorkerPCs, Procs, Reports
    <2>3. UploadCounted' /\ ReleaseCounted' /\ WritesCounted'
      BY <1>1, <1>3, WorkerMoves
         DEF CreateConflict, ExitWith, WorkerPCs, BeforeUpload
    <2> QED BY <1>1, <2>1, <2>2, <2>3
  <1>4. CASE CreateFails(w)
    <2>1. StoreTypeOK'
      BY <1>0, <1>4, StoreTypes DEF CreateFails
    <2>2. TaskTypeOK'
      BY <1>4 DEF CreateFails, TaskTypeOK, taskVars, Goto, ExitWith,
                  WorkerPCs, Procs, Reports
    <2>3. UploadCounted' /\ ReleaseCounted' /\ WritesCounted'
      BY <1>1, <1>4, WorkerMoves
         DEF CreateFails, ExitWith, WorkerPCs, BeforeUpload
    <2> QED BY <1>1, <2>1, <2>2, <2>3
  <1>5. CASE InspectLease(w)
    <2>1. StoreTypeOK'
      BY <1>5, ReadTypes DEF InspectLease
    <2>2. TaskTypeOK'
      <3>1. seen' \in [Workers -> LeaseRecords]
        BY <1>5 DEF InspectLease, StoreTypeOK, TaskTypeOK
      <3>2. report' \in [Workers -> Reports]
        BY <1>5 DEF InspectLease, ExitWith, TaskTypeOK, Reports
      <3>3. PICK l \in {"recreate", "probe", "exit"} : Goto(w, l)
        BY <1>5 DEF InspectLease, ExitWith
      <3> QED BY <1>5, <3>1, <3>2, <3>3
              DEF InspectLease, TaskTypeOK, taskVars, Goto, WorkerPCs, Procs
    <2>3. UploadCounted' /\ ReleaseCounted' /\ WritesCounted'
      BY <1>1, <1>5, WorkerMoves
         DEF InspectLease, ExitWith, WorkerPCs, BeforeUpload
    <2> QED BY <1>1, <2>1, <2>2, <2>3
  <1>6. CASE ProbeHolder(w)
    <2>1. StoreTypeOK'
      BY <1>6, ReadTypes DEF ProbeHolder
    <2>2. TaskTypeOK'
      BY <1>6 DEF ProbeHolder, TaskTypeOK, taskVars, Goto, ExitWith,
                  WorkerPCs, Procs, Reports
    <2>3. UploadCounted' /\ ReleaseCounted' /\ WritesCounted'
      BY <1>1, <1>6, WorkerMoves
         DEF ProbeHolder, ExitWith, WorkerPCs, BeforeUpload
    <2> QED BY <1>1, <2>1, <2>2, <2>3
  <1>7. CASE ReclaimLease(w)
    <2>1. StoreTypeOK'
      BY <1>0, <1>7, StoreTypes DEF ReclaimLease
    <2>2. TaskTypeOK'
      BY <1>7 DEF ReclaimLease, TaskTypeOK, taskVars, Goto, ExitWith,
                  WorkerPCs, Procs, Reports
    <2>3. UploadCounted' /\ ReleaseCounted' /\ WritesCounted'
      BY <1>1, <1>7, WorkerMoves
         DEF ReclaimLease, ExitWith, WorkerPCs, BeforeUpload
    <2> QED BY <1>1, <2>1, <2>2, <2>3
  <1> QED BY <1>2, <1>3, <1>4, <1>5, <1>6, <1>7 DEF AcquireStep

(* One uploaded object, of a worker or of a rebuild.                        *)
LEMMA UploadCount ==
    ASSUME CountInv, NEW p \in Publishers, NEW abort,
           UploadFile(p, "commit", abort),
           p \in Workers => abort = "failing",
           p \in Rebuilders => abort = "done"
    PROVE  CountInv'
  <1> USE DEF CountInv, TypeOK
  <1>1. StoreTypeOK'
    BY ReadTypes DEF UploadFile
  <1>2. PICK l \in {"commit", "upload", abort} : Goto(p, l)
    BY DEF UploadFile
  <1>3. TaskTypeOK'
    BY <1>2 DEF UploadFile, TaskTypeOK, taskVars, Goto, WorkerPCs, RebuildPCs,
                Procs, Publishers
  <1>4. Id(p) \in GenIds /\ files[Id(p)] \in 0 .. NumFiles - 1
    BY IdTypes DEF UploadFile, UploadCounted, RecordTypeOK
  <1>5. files' \in {files, [files EXCEPT ![Id(p)] = @ + 1]}
    BY DEF UploadFile
  <1>6. RecordTypeOK'
    BY <1>4, <1>5 DEF UploadFile, RecordTypeOK, recordVars
  <1>7. UploadCounted'
    <2>1. /\ pc'[p] = l
          /\ \A q \in Procs \ {p} : pc'[q] = pc[q]
      BY <1>2 DEF TaskTypeOK, Goto, Procs, Publishers
    <2>2. \A q \in Procs : Id(q)' = Id(q)
      BY DEF Id, UploadFile, taskVars
    <2>3. /\ \A id \in GenIds : id # Id(p) => files'[id] = files[id]
          /\ \A q \in Publishers : q # p => Id(q) # Id(p) /\ Id(q) \in GenIds
      BY <1>5, IdTypes DEF RecordTypeOK
    <2>4. ASSUME NEW id \in GenIds, Ahead(id, BeforeUpload)'
          PROVE  files'[id] = 0
      <3>1. Ahead(id, BeforeUpload) /\ id # Id(p)
        BY <2>1, <2>2, <2>4, IdTypes
           DEF Ahead, GenIds, UploadFile, taskVars, BeforeUpload, Procs,
               Publishers, Id, TaskTypeOK
      <3> QED BY <3>1, <2>3 DEF UploadCounted
    <2>5. /\ pc'[p] = "upload" => files'[Id(p)] < NumFiles
          /\ pc'[p] = "commit" => files'[Id(p)] = NumFiles
      <3>1. abort \notin {"upload", "commit"} /\ p \in Procs
        BY DEF Publishers, Procs
      <3>2. \/ /\ files'[Id(p)] = files[Id(p)] + 1
               /\ pc'[p] = IF files[Id(p)] + 1 = NumFiles THEN "commit"
                                                          ELSE "upload"
            \/ pc'[p] = abort
        BY <1>4, <3>1 DEF UploadFile, RecordTypeOK, Goto, TaskTypeOK
      <3> QED BY <1>4, <3>1, <3>2
    <2>6. ASSUME NEW q \in Publishers
          PROVE  /\ pc'[q] = "upload" => files'[Id(q)'] < NumFiles
                 /\ pc'[q] = "commit" => files'[Id(q)'] = NumFiles
      BY <2>1, <2>2, <2>3, <2>5 DEF UploadCounted, Publishers, Procs
    <2> QED BY <2>4, <2>6 DEF UploadCounted
  <1>8. ReleaseCounted' /\ WritesCounted'
    BY <1>2 DEF ReleaseCounted, WritesCounted, UploadFile, LeaseUsers, Goto,
                TaskTypeOK, Procs, Publishers
  <1> QED BY <1>1, <1>3, <1>6, <1>7, <1>8

LEMMA PublishCount ==
    ASSUME CountInv, NEW w \in Workers, PublishStep(w)
    PROVE  CountInv'
  <1> USE DEF CountInv, TypeOK
  <1>0. w \in Publishers /\ w \in Procs
    BY DEF Publishers, Procs
  <1>1. CASE ReadManifest(w)
    <2>1. StoreTypeOK' /\ RecordTypeOK'
      BY <1>1, ReadTypes DEF ReadManifest, RecordTypeOK, recordVars
    <2>2. PICK l \in {"run", "failing", "materializeLegacy"} : Goto(w, l)
      BY <1>1 DEF ReadManifest
    <2>3. base' \in [Publishers -> ManifestRecords]
      <3>1. [manifest EXCEPT !.covers = IF mode[w] = "clean" THEN {} ELSE @]
                \in ManifestRecords
        BY DEF StoreTypeOK, ManifestRecords
      <3> QED BY <1>0, <1>1, <3>1 DEF ReadManifest, TaskTypeOK, Publishers
    <2>4. TaskTypeOK'
      BY <1>1, <2>2, <2>3 DEF ReadManifest, TaskTypeOK, taskVars, Goto,
                              WorkerPCs, Procs, Publishers
    <2>5. UploadCounted' /\ ReleaseCounted' /\ WritesCounted'
      BY <1>1, <2>2, WorkerMoves
         DEF ReadManifest, taskVars, WorkerPCs, BeforeUpload
    <2> QED BY <2>1, <2>4, <2>5
  <1>2. CASE ReadLegacyOutputs(w)
    <2>1. StoreTypeOK' /\ RecordTypeOK'
      BY <1>2, ReadTypes DEF ReadLegacyOutputs, RecordTypeOK, recordVars
    <2>2. PICK l \in {"run", "failing"} : Goto(w, l)
      BY <1>2 DEF ReadLegacyOutputs
    <2>3. base' \in [Publishers -> ManifestRecords]
      <3>1. [base[w] EXCEPT !.covers = legacy] \in ManifestRecords
        BY <1>0 DEF StoreTypeOK, TaskTypeOK, ManifestRecords, Publishers
      <3> QED BY <1>0, <1>2, <3>1 DEF ReadLegacyOutputs, TaskTypeOK, Publishers
    <2>4. TaskTypeOK'
      BY <1>2, <2>2, <2>3 DEF ReadLegacyOutputs, TaskTypeOK, taskVars, Goto,
                              WorkerPCs, Procs, Publishers
    <2>5. UploadCounted' /\ ReleaseCounted' /\ WritesCounted'
      BY <1>2, <2>2, WorkerMoves
         DEF ReadLegacyOutputs, taskVars, WorkerPCs, BeforeUpload
    <2> QED BY <2>1, <2>4, <2>5
  <1>3. CASE RunBatch(w)
    <2>1. StoreTypeOK' /\ RecordTypeOK'
      BY <1>3, ReadTypes DEF RunBatch, RecordTypeOK, recordVars
    <2>2. PICK l \in {"upload", "failing"} : Goto(w, l)
      BY <1>3 DEF RunBatch
    <2>3. TaskTypeOK'
      BY <1>3, <2>2 DEF RunBatch, TaskTypeOK, taskVars, Goto, WorkerPCs, Procs
    <2>4. UploadCounted' /\ ReleaseCounted' /\ WritesCounted'
      BY <1>3, <2>2, WorkerMoves DEF RunBatch, taskVars, WorkerPCs, BeforeUpload
    <2> QED BY <2>1, <2>3, <2>4
  <1>4. CASE UploadOutput(w)
    BY <1>0, <1>4, UploadCount DEF UploadOutput
  <1>5. CASE CommitManifest(w)
    <2>1. CommitReq(base[w], Id(w)) \in Requests
      BY <1>0, IdTypes, CommitRequests DEF TaskTypeOK, Publishers
    <2>2. StoreTypeOK' /\ RecordTypeOK'
      BY <1>5, <2>1, StoreTypes DEF CommitManifest, RecordTypeOK, recordVars
    <2>3. PICK l \in {"receipts", "readback"} : Goto(w, l)
      BY <1>5 DEF CommitManifest
    <2>4. TaskTypeOK'
      BY <1>5, <2>3 DEF CommitManifest, TaskTypeOK, taskVars, Goto, WorkerPCs,
                        Procs
    <2>5. UploadCounted' /\ ReleaseCounted' /\ WritesCounted'
      BY <1>5, <2>3, WorkerMoves
         DEF CommitManifest, taskVars, WorkerPCs, BeforeUpload
    <2> QED BY <2>2, <2>4, <2>5
  <1>6. CASE ConfirmManifestCommit(w)
    <2>1. StoreTypeOK' /\ RecordTypeOK'
      BY <1>6, ReadTypes DEF ConfirmManifestCommit, RecordTypeOK, recordVars
    <2>2. PICK l \in {"receipts", "failing", "ambiguous"} : Goto(w, l)
      BY <1>6 DEF ConfirmManifestCommit
    <2>3. TaskTypeOK'
      BY <1>6, <2>2 DEF ConfirmManifestCommit, TaskTypeOK, taskVars, Goto,
                        WorkerPCs, Procs
    <2>4. UploadCounted' /\ ReleaseCounted' /\ WritesCounted'
      BY <1>6, <2>2, WorkerMoves
         DEF ConfirmManifestCommit, taskVars, WorkerPCs, BeforeUpload
    <2> QED BY <2>1, <2>3, <2>4
  <1> QED BY <1>1, <1>2, <1>3, <1>4, <1>5, <1>6 DEF PublishStep

(* The three ways a task turns to its release.                              *)
LEMMA RecordCount ==
    ASSUME CountInv, NEW w \in Workers,
           RecordFailure(w) \/ RecordAmbiguous(w) \/ WriteReceipts(w)
    PROVE  CountInv'
  <1> USE DEF CountInv, TypeOK
  <1>1. PICK r \in Reports : Finishing(w, r)
    BY DEF RecordFailure, RecordAmbiguous, WriteReceipts, Reports
  <1>2. StoreTypeOK'
    BY ReadTypes DEF RecordFailure, RecordAmbiguous, WriteReceipts
  <1>3. RecordTypeOK'
    <2>1. Id(w) \in GenIds
      BY IdTypes DEF Publishers
    <2>2. success' \subseteq GenIds /\ failure' \subseteq GenIds
      BY <2>1 DEF RecordFailure, RecordAmbiguous, WriteReceipts, MaybeRecord,
                  RecordTypeOK
    <2>3. \A c \in Classes : WithDiagnostic(w, c) \in [Workers -> Classes]
      BY DEF WithDiagnostic, RecordTypeOK
    <2>4. diagnostic' \in [Workers -> Classes]
      BY <2>3 DEF RecordFailure, RecordAmbiguous, WriteReceipts, RecordTypeOK,
                  Classes
    <2> QED BY <1>1, <2>2, <2>4 DEF Finishing, RecordTypeOK
  <1>4. TaskTypeOK'
    BY <1>1 DEF Finishing, TaskTypeOK, taskVars, Goto, WorkerPCs, Procs
  <1>5. UploadCounted' /\ ReleaseCounted' /\ WritesCounted'
    BY <1>1, WorkerMoves
       DEF Finishing, RecordFailure, RecordAmbiguous, WriteReceipts, taskVars,
           WorkerPCs, BeforeUpload
  <1> QED BY <1>2, <1>3, <1>4, <1>5

LEMMA RestartCount ==
    ASSUME CountInv, NEW w \in Workers, RestartTask(w) \/ EndExecution(w)
    PROVE  CountInv'
  <1> USE DEF CountInv, TypeOK
  <1>0. StoreTypeOK' /\ RecordTypeOK'
    BY DEF RestartTask, EndExecution, StoreTypeOK, RecordTypeOK, storeVars,
           recordVars
  <1>1. CASE RestartTask(w)
    <2>1. TaskTypeOK'
      <3>1. base' \in [Publishers -> ManifestRecords]
        BY <1>1 DEF RestartTask, TaskTypeOK, Publishers, NoManifest,
                    ManifestRecords
      <3>2. seen' \in [Workers -> LeaseRecords]
        BY <1>1 DEF RestartTask, TaskTypeOK, NoLease, LeaseRecords
      <3> QED BY <1>1, <3>1, <3>2
              DEF RestartTask, TaskTypeOK, Goto, WorkerPCs, Procs, Publishers,
                  Reports
    <2>2. /\ pc'[w] = "create" /\ pc[w] = "exit"
          /\ attempt'[w] = attempt[w] + 1
          /\ \A q \in Procs \ {w} : pc'[q] = pc[q] /\ Id(q)' = Id(q)
          /\ \A v \in Workers \ {w} : attempt'[v] = attempt[v]
      BY <1>1 DEF RestartTask, TaskTypeOK, Goto, Procs, Id
    <2>3. \A id \in GenIds : Ahead(id, BeforeUpload)' => Ahead(id, BeforeUpload)
      BY <2>1, <2>2 DEF TaskTypeOK, Ahead, GenIds, Id, Procs
    <2>4. UploadCounted'
      BY <1>1, <2>2, <2>3 DEF UploadCounted, Publishers, Procs, RestartTask
    <2>5. ReleaseCounted' /\ WritesCounted'
      BY <1>1, <2>2 DEF RestartTask, ReleaseCounted, WritesCounted, TaskTypeOK,
                        LeaseUsers, Procs
    <2> QED BY <1>0, <2>1, <2>4, <2>5
  <1>2. CASE EndExecution(w)
    <2>1. TaskTypeOK'
      BY <1>2 DEF EndExecution, TaskTypeOK, Goto, WorkerPCs, Procs
    <2>2. /\ pc'[w] = "done" /\ pc[w] = "exit"
          /\ \A q \in Procs \ {w} : pc'[q] = pc[q]
          /\ \A q \in Procs : Id(q)' = Id(q)
      BY <1>2 DEF EndExecution, TaskTypeOK, Goto, Procs, Id
    <2>3. \A id \in GenIds : Ahead(id, BeforeUpload)' => Ahead(id, BeforeUpload)
      BY <1>2, <2>2 DEF EndExecution, Ahead, GenIds, Procs, BeforeUpload
    <2>4. UploadCounted'
      BY <1>2, <2>2, <2>3 DEF UploadCounted, Publishers, Procs, EndExecution
    <2>5. ReleaseCounted' /\ WritesCounted'
      BY <1>2, <2>2 DEF EndExecution, ReleaseCounted, WritesCounted,
                        LeaseUsers, Procs
    <2> QED BY <1>0, <2>1, <2>4, <2>5
  <1> QED BY <1>1, <1>2

LEMMA ReleaseCount ==
    ASSUME CountInv, NEW w \in Workers, ReleaseLease(w) \/ ReleaseLeaseFails(w)
    PROVE  CountInv'
  <1> USE DEF CountInv, TypeOK
  <1>0. DeleteLeaseReq(held[w]) \in Requests
    BY LeaseRequests DEF TaskTypeOK
  <1>1. CASE ReleaseLease(w)
    <2>1. StoreTypeOK' /\ RecordTypeOK'
      BY <1>0, <1>1, StoreTypes DEF ReleaseLease, RecordTypeOK, recordVars
    <2>2. TaskTypeOK'
      BY <1>1 DEF ReleaseLease, TaskTypeOK, taskVars, Goto, WorkerPCs, Procs
    <2>3. UploadCounted' /\ ReleaseCounted' /\ WritesCounted'
      BY <1>1, WorkerMoves DEF ReleaseLease, taskVars, WorkerPCs, BeforeUpload
    <2> QED BY <2>1, <2>2, <2>3
  <1>2. CASE ReleaseLeaseFails(w)
    <2>1. StoreTypeOK'
      BY <1>0, <1>2, StoreTypes DEF ReleaseLeaseFails, ReleaseRetries
    <2>2. RecordTypeOK'
      <3>1. WithDiagnostic(w, "cleanup") \in [Workers -> Classes]
        BY DEF WithDiagnostic, RecordTypeOK, Classes
      <3> QED BY <1>2, <3>1 DEF ReleaseLeaseFails, RecordTypeOK
    <2>3. PICK l \in {"release", "exit"} :
             /\ Goto(w, l)
             /\ l = "release" => tries[w] + 1 < ReleaseAttempts
      BY <1>2 DEF ReleaseLeaseFails, ExitWith, Goto, TaskTypeOK
    <2>4. tries[w] \in 0 .. ReleaseAttempts - 1
      BY <1>2 DEF ReleaseLeaseFails, ReleaseCounted, TaskTypeOK, LeaseUsers
    <2>5. TaskTypeOK'
      <3>1. report' \in [Workers -> Reports]
        BY <1>2 DEF ReleaseLeaseFails, ExitWith, TaskTypeOK, Reports
      <3> QED BY <1>2, <2>3, <2>4, <3>1
              DEF ReleaseLeaseFails, ReleaseRetries, TaskTypeOK, taskVars, Goto,
                  WorkerPCs, Procs
    <2>6. /\ pc'[w] = l
          /\ \A q \in Procs \ {w} : pc'[q] = pc[q]
          /\ \A q \in Procs : Id(q)' = Id(q)
      BY <1>2, <2>3 DEF ReleaseLeaseFails, taskVars, TaskTypeOK, Goto, Procs, Id
    <2>7. \A id \in GenIds : Ahead(id, BeforeUpload)' => Ahead(id, BeforeUpload)
      BY <1>2, <2>6 DEF ReleaseLeaseFails, taskVars, Ahead, GenIds, Procs,
                        BeforeUpload
    <2>8. UploadCounted'
      BY <1>2, <2>6, <2>7 DEF UploadCounted, Publishers, Procs,
                              ReleaseLeaseFails
    <2>9. ReleaseCounted' /\ WritesCounted'
      BY <1>2, <2>3, <2>4, <2>6
         DEF ReleaseLeaseFails, ReleaseRetries, ReleaseCounted, WritesCounted,
             TaskTypeOK, LeaseUsers, Procs
    <2> QED BY <2>1, <2>2, <2>5, <2>8, <2>9
  <1> QED BY <1>1, <1>2

LEMMA SessionCount ==
    ASSUME CountInv, NEW s \in Sessions, SessionStep(s) \/ CrashSession(s)
    PROVE  CountInv'
  <1> USE DEF CountInv, TypeOK
  <1>0. /\ CreateLeaseReq(Redacted) \in Requests
        /\ DeleteLeaseReq(held[s]) \in Requests
        /\ s \in Procs
    BY LeaseRequests DEF Holders, TaskTypeOK, Procs
  <1>1. CASE BeginSession(s)
    <2>1. StoreTypeOK' /\ RecordTypeOK'
      BY <1>0, <1>1, StoreTypes DEF BeginSession, RecordTypeOK, recordVars
    <2>2. PICK l \in {"check", "done"} : Goto(s, l)
      BY <1>1 DEF BeginSession
    <2>3. TaskTypeOK'
      BY <1>1, <2>2 DEF BeginSession, StoreTypeOK, TaskTypeOK, taskVars, Goto,
                        SessionPCs, Procs
    <2>4. UploadCounted' /\ ReleaseCounted' /\ WritesCounted'
      BY <1>1, <2>2, OtherMoves DEF BeginSession, taskVars, WritesCounted
    <2> QED BY <2>1, <2>3, <2>4
  <1>2. CASE CheckNoManifest(s) \/ RecheckNoManifest(s)
    <2>1. StoreTypeOK' /\ RecordTypeOK'
      BY <1>2, ReadTypes DEF CheckNoManifest, RecheckNoManifest, RecordTypeOK,
                             recordVars
    <2>2. PICK l \in {"putOnce", "put", "recheck", "release"} : Goto(s, l)
      BY <1>2 DEF CheckNoManifest, RecheckNoManifest
    <2>3. TaskTypeOK'
      BY <1>2, <2>2 DEF CheckNoManifest, RecheckNoManifest, TaskTypeOK, taskVars,
                        Goto, SessionPCs, Procs
    <2>4. UploadCounted' /\ ReleaseCounted' /\ WritesCounted'
      BY <1>2, <2>2, OtherMoves DEF CheckNoManifest, RecheckNoManifest, taskVars,
                                    WritesCounted
    <2> QED BY <2>1, <2>3, <2>4
  <1>3. CASE PutLegacy(s)
    <2>0. acked[s] \in 0 .. WritesPerSession - 1
      BY <1>3 DEF PutLegacy, WritesCounted, RecordTypeOK
    <2>1. StoreTypeOK'
      <3>1. PutReq(NextWrite(s)) \in Requests
        BY <2>0, LeaseRequests DEF NextWrite, Writes
      <3> QED BY <1>3, <3>1, StoreTypes DEF PutLegacy
    <2>2. RecordTypeOK'
      BY <1>3, <2>0 DEF PutLegacy, RecordTypeOK, recordVars
    <2>3. PICK l \in {"recheck", "release"} :
             Goto(s, l) /\ (l = "recheck" => acked'[s] < WritesPerSession)
      BY <1>3 DEF PutLegacy, RecordTypeOK
    <2>4. TaskTypeOK'
      BY <1>3, <2>3 DEF PutLegacy, TaskTypeOK, taskVars, Goto, SessionPCs, Procs
    <2>5. UploadCounted' /\ ReleaseCounted' /\ WritesCounted'
      <3>1. \A t \in Sessions \ {s} : acked'[t] = acked[t]
        BY <1>3 DEF PutLegacy, RecordTypeOK
      <3> QED BY <1>3, <2>3, <3>1, OtherMoves DEF PutLegacy, taskVars
    <2> QED BY <2>1, <2>2, <2>4, <2>5
  <1>4. CASE EndSession(s)
    <2>1. StoreTypeOK' /\ RecordTypeOK'
      BY <1>0, <1>4, StoreTypes DEF EndSession, ReleaseRetries, RecordTypeOK,
                                    recordVars
    <2>2. tries[s] \in 0 .. ReleaseAttempts - 1
      BY <1>4 DEF EndSession, ReleaseCounted, TaskTypeOK, LeaseUsers
    <2>3. PICK l \in {"release", "done"} :
             /\ Goto(s, l)
             /\ l = "release" => tries[s] + 1 < ReleaseAttempts
      BY <1>0, <1>4 DEF EndSession, Goto, TaskTypeOK
    <2>4. tries' \in {tries, [tries EXCEPT ![s] = @ + 1]}
      BY <1>4 DEF EndSession, ReleaseRetries
    <2>5. TaskTypeOK'
      BY <1>4, <2>2, <2>3, <2>4
         DEF EndSession, TaskTypeOK, taskVars, Goto, SessionPCs, Procs
    <2>6. /\ pc'[s] = l
          /\ \A q \in Procs \ {s} : pc'[q] = pc[q]
          /\ \A q \in Procs : Id(q)' = Id(q)
      BY <1>0, <1>4, <2>3 DEF EndSession, taskVars, TaskTypeOK, Goto, Id
    <2>7. \A id \in GenIds : Ahead(id, BeforeUpload)' => Ahead(id, BeforeUpload)
      BY <1>4, <2>6 DEF EndSession, taskVars, Ahead, GenIds, Procs
    <2>8. UploadCounted'
      BY <1>4, <2>6, <2>7 DEF UploadCounted, Publishers, Procs, EndSession
    <2>9. ReleaseCounted' /\ WritesCounted'
      BY <1>4, <2>2, <2>3, <2>4, <2>6
         DEF EndSession, ReleaseCounted, WritesCounted, TaskTypeOK, LeaseUsers,
             Procs
    <2> QED BY <2>1, <2>5, <2>8, <2>9
  <1>5. CASE CrashSession(s)
    <2>1. StoreTypeOK' /\ RecordTypeOK'
      BY <1>5 DEF CrashSession, Fault, StoreTypeOK, RecordTypeOK, storeVars,
                  recordVars
    <2>2. TaskTypeOK'
      BY <1>5 DEF CrashSession, TaskTypeOK, taskVars, Goto, SessionPCs, Procs
    <2>3. UploadCounted' /\ ReleaseCounted' /\ WritesCounted'
      BY <1>5, OtherMoves DEF CrashSession, taskVars
    <2> QED BY <2>1, <2>2, <2>3
  <1> QED BY <1>1, <1>2, <1>3, <1>4, <1>5 DEF SessionStep

LEMMA RebuildCount ==
    ASSUME CountInv, NEW r \in Rebuilders, RebuildStep(r)
    PROVE  CountInv'
  <1> USE DEF CountInv, TypeOK
  <1>0. r \in Publishers /\ r \in Procs
    BY DEF Publishers, Procs
  <1>1. CASE ReadForRebuild(r)
    <2>1. StoreTypeOK' /\ RecordTypeOK'
      BY <1>1, ReadTypes DEF ReadForRebuild, RecordTypeOK, recordVars
    <2>2. PICK l \in {"upload", "done"} : Goto(r, l)
      BY <1>1 DEF ReadForRebuild
    <2>3. TaskTypeOK'
      <3>1. base' \in [Publishers -> ManifestRecords]
        BY <1>0, <1>1 DEF ReadForRebuild, StoreTypeOK, TaskTypeOK, Publishers
      <3> QED BY <1>1, <2>2, <3>1
              DEF ReadForRebuild, TaskTypeOK, taskVars, Goto, RebuildPCs, Procs,
                  Publishers
    <2>4. UploadCounted' /\ ReleaseCounted' /\ WritesCounted'
      BY <1>1, <2>2, OtherMoves DEF ReadForRebuild, taskVars, BeforeUpload
    <2> QED BY <2>1, <2>3, <2>4
  <1>2. CASE UploadRebuild(r)
    BY <1>0, <1>2, UploadCount DEF UploadRebuild
  <1>3. CASE CommitRebuild(r)
    <2>1. CommitReq(base[r], Id(r)) \in Requests
      BY <1>0, IdTypes, CommitRequests DEF TaskTypeOK, Publishers
    <2>2. StoreTypeOK' /\ RecordTypeOK'
      BY <1>3, <2>1, StoreTypes DEF CommitRebuild, RecordTypeOK, recordVars
    <2>3. TaskTypeOK'
      BY <1>3 DEF CommitRebuild, TaskTypeOK, taskVars, Goto, RebuildPCs, Procs
    <2>4. UploadCounted' /\ ReleaseCounted' /\ WritesCounted'
      BY <1>3, OtherMoves DEF CommitRebuild, taskVars, BeforeUpload
    <2> QED BY <2>2, <2>3, <2>4
  <1> QED BY <1>1, <1>2, <1>3 DEF RebuildStep

(* Nothing but the store and the faults may change in a step of no process. *)
LEMMA ArriveCount ==
    ASSUME CountInv, Arrive \/ UNCHANGED vars
    PROVE  CountInv'
  <1> USE DEF CountInv, TypeOK
  <1>1. StoreTypeOK'
    <2>1. CASE Arrive
      BY <2>1, StoreTypes DEF Arrive, LateArrival, StoreTypeOK
    <2>2. CASE UNCHANGED vars
      BY <2>2 DEF vars, storeVars, StoreTypeOK
    <2> QED BY <2>1, <2>2
  <1>2. TaskTypeOK' /\ RecordTypeOK'
    BY DEF Arrive, vars, taskVars, recordVars, TaskTypeOK, RecordTypeOK
  <1>3. UploadCounted' /\ ReleaseCounted' /\ WritesCounted'
    BY DEF Arrive, vars, taskVars, recordVars, UploadCounted, ReleaseCounted,
           WritesCounted, Ahead, Id
  <1> QED BY <1>1, <1>2, <1>3

LEMMA CountNext ==
    ASSUME CountInv, [Next]_vars
    PROVE  CountInv'
  <1>1. ASSUME NEW w \in Workers, Launch(w) \/ Crash(w) \/ WorkerStep(w)
        PROVE  CountInv'
    BY <1>1, LaunchAndCrashCount, AcquireCount, PublishCount, RecordCount,
       ReleaseCount, RestartCount
       DEF WorkerStep, FinishStep
  <1>2. ASSUME NEW s \in Sessions, SessionStep(s) \/ CrashSession(s)
        PROVE  CountInv'
    BY <1>2, SessionCount
  <1>3. ASSUME NEW r \in Rebuilders, RebuildStep(r)
        PROVE  CountInv'
    BY <1>3, RebuildCount
  <1>4. CASE Arrive \/ UNCHANGED vars
    BY <1>4, ArriveCount
  <1> QED BY <1>1, <1>2, <1>3, <1>4 DEF Next, Finished

(* In every reachable state each variable has the shape the code gives it,  *)
(* and no upload, release or write loop runs past its bound, whatever the   *)
(* number of executions, sessions, rebuilds, files and failures.            *)
THEOREM TypeCorrect == Spec => []TypeOK
  <1>1. Init => CountInv
    BY CountInit
  <1>2. CountInv /\ [Next]_vars => CountInv'
    BY CountNext
  <1>3. CountInv => TypeOK
    BY DEF CountInv
  <1> QED BY <1>1, <1>2, <1>3, PTL DEF Spec

-----------------------------------------------------------------------------
(***************************************************************************)
(* Mutual exclusion.  Every step has the shape LeaseShape describes, and a *)
(* step of that shape preserves LeaseInv.                                  *)
(***************************************************************************)

(* What a request does to the lease.                                        *)

Sent(req) == Answered(req) \/ Refused(req) \/ Unanswered(req)

LEMMA CreateEffect ==
    ASSUME NEW h, NEW req, req = CreateLeaseReq(h),
           Sent(req) \/ LateArrival(req)
    PROVE  /\ \/ /\ lease = NoLease
                 /\ clock' = clock + 1
                 /\ lease' = [gen |-> clock + 1, holder |-> h]
              \/ lease' = lease /\ clock' = clock
           /\ inflight' \subseteq inflight \cup {req}
  <1>1. Apply(req) \/ UNCHANGED storeVars
    BY DEF Sent, Answered, Refused, Unanswered, LateArrival
  <1>2. Apply(req) => /\ lease = NoLease
                      /\ clock' = clock + 1
                      /\ lease' = [gen |-> clock + 1, holder |-> h]
    BY DEF Apply, Applicable, CreateLeaseReq, Created, Deleted, Committed, Stored
  <1>3. inflight' \subseteq inflight \cup {req}
    BY DEF Sent, Answered, Refused, Unanswered, LateArrival
  <1> QED BY <1>1, <1>2, <1>3 DEF storeVars

LEMMA DeleteEffect ==
    ASSUME NEW g, NEW req, req = DeleteLeaseReq(g), Sent(req) \/ LateArrival(req)
    PROVE  /\ clock' = clock
           /\ lease' = lease \/ (lease' = NoLease /\ lease.gen = g)
           /\ inflight' \subseteq inflight \cup {req}
  <1>1. Apply(req) \/ UNCHANGED storeVars
    BY DEF Sent, Answered, Refused, Unanswered, LateArrival
  <1>2. Apply(req) => lease' = NoLease /\ lease.gen = g /\ clock' = clock
    BY DEF Apply, Applicable, DeleteLeaseReq, Created, Deleted, Committed, Stored
  <1>3. inflight' \subseteq inflight \cup {req}
    BY DEF Sent, Answered, Refused, Unanswered, LateArrival
  <1> QED BY <1>1, <1>2, <1>3 DEF storeVars

LEMMA OtherEffect ==
    ASSUME StoreTypeOK, NEW req, req.op \in {"commit", "put"},
           Sent(req) \/ LateArrival(req)
    PROVE  /\ clock' \in {clock, clock + 1}
           /\ lease' = lease
           /\ inflight' \subseteq inflight \cup {req}
  <1>1. Apply(req) \/ UNCHANGED storeVars
    BY DEF Sent, Answered, Refused, Unanswered, LateArrival
  <1>2. Apply(req) => lease' = lease /\ clock' \in {clock, clock + 1}
    BY DEF Apply, Created, Deleted, Committed, Stored
  <1>3. inflight' \subseteq inflight \cup {req}
    BY DEF Sent, Answered, Refused, Unanswered, LateArrival
  <1> QED BY <1>1, <1>2, <1>3 DEF storeVars

LEMMA ReadEffect ==
    ASSUME ReadOk \/ ReadFailed
    PROVE  UNCHANGED <<lease, clock, inflight>>
  BY DEF ReadOk, ReadFailed, storeVars

-----------------------------------------------------------------------------
(* The shape of a step.                                                     *)

(* p created the lease object in this step.                                 *)
Acquired(p) ==
    /\ clock' = clock + 1
    /\ held'[p] = clock + 1
    /\ lease' = [gen |-> clock + 1, holder |-> Owner(p)]

(* No process inside relies on the lease object with this generation.       *)
Unused(g) == \A q \in LeaseUsers : Protected(q) => held[q] # g

LeaseObjectShape ==
    \/ lease' = lease
    \/ lease' = NoLease /\ Unused(lease.gen)
    \/ /\ lease = NoLease
       /\ clock' = clock + 1
       /\ \E h \in Holders :
             /\ lease' = [gen |-> clock + 1, holder |-> h]
             /\ h \in Workers => exec'[h] # "none"

HeldShape ==
    \A p \in LeaseUsers :
        \/ held'[p] \in {held[p], 0}
        \/ Acquired(p) /\ \A q \in LeaseUsers \ {p} : held'[q] = held[q]

EnterShape ==
    \A p \in LeaseUsers : Protected(p)' =>
        (Protected(p) /\ held'[p] = held[p]) \/ Acquired(p)

RequestShape ==
    \A req \in inflight' \ inflight :
        \/ req.op = "delete" /\ req.cond <= clock /\ Unused(req.cond)
        \/ req.op = "create" /\ \A w \in Workers : req.holder = w => exec'[w] # "none"
        \/ req.op \in {"commit", "put"}

ExecShape ==
    \A w \in Workers :
        /\ pc'[w] = "idle" <=> exec'[w] = "none"
        /\ pc'[w] = "done" <=> exec'[w] = "terminal"
        /\ exec[w] # "none" => exec'[w] # "none"
        /\ exec[w] = "terminal" => exec'[w] = "terminal"

InspectShape ==
    \A w \in Workers :
        /\ seen'[w] \in {seen[w], NoLease, lease}
        /\ pc'[w] \in {"probe", "delete"} =>
              \/ /\ pc[w] \in {"probe", "delete"}
                 /\ seen'[w] = seen[w]
                 /\ pc[w] = "probe" /\ pc'[w] = "delete" =>
                        exec[seen[w].holder] # "RUNNING"
              \/ /\ pc'[w] = "probe"
                 /\ seen'[w] = lease
                 /\ lease' = lease
                 /\ lease.holder \in Workers

LeaseShape ==
    /\ clock' \in {clock, clock + 1}
    /\ LeaseObjectShape /\ HeldShape /\ EnterShape /\ RequestShape
    /\ ExecShape /\ InspectShape

LEMMA ShapePreserves ==
    ASSUME CountInv, CountInv', LeaseInv, LeaseShape
    PROVE  LeaseInv'
  <1>0. /\ clock \in Nat /\ clock' \in Nat /\ clock <= clock'
        /\ lease.gen \in Nat /\ lease.gen <= clock
    BY DEF LeaseShape, LeaseInv, LeaseGensIssued, CountInv, TypeOK, StoreTypeOK,
           LeaseRecords
  <1>h. /\ held \in [LeaseUsers -> Nat] /\ held' \in [LeaseUsers -> Nat]
        /\ \A w \in Workers : /\ seen[w].gen \in Nat
                              /\ seen'[w].gen \in Nat
    BY DEF CountInv, TypeOK, TaskTypeOK, LeaseUsers, LeaseRecords
  <1>r. inflight \subseteq Requests /\ inflight' \subseteq Requests
    BY DEF CountInv, TypeOK, StoreTypeOK
  <1>1. LeaseGensIssued'
    <2>1. lease'.gen <= clock' /\ (lease'.gen = 0 => lease' = NoLease)
      <3>1. CASE lease' = lease \/ lease' = NoLease
        BY <1>0, <3>1 DEF LeaseInv, LeaseGensIssued, NoLease
      <3>2. CASE lease'.gen = clock + 1 /\ clock' = clock + 1
        BY <1>0, <3>2
      <3> QED BY <3>1, <3>2 DEF LeaseShape, LeaseObjectShape
    <2>2. ASSUME NEW p \in LeaseUsers PROVE held'[p] <= clock'
      <3>1. held[p] \in Nat /\ held[p] <= clock
        BY <1>h DEF LeaseInv, LeaseGensIssued
      <3> QED BY <1>0, <3>1 DEF LeaseShape, HeldShape, Acquired
    <2>3. ASSUME NEW w \in Workers PROVE seen'[w].gen <= clock'
      <3>1. seen[w].gen \in Nat /\ seen[w].gen <= clock
        BY <1>h DEF LeaseInv, LeaseGensIssued
      <3> QED BY <1>0, <3>1 DEF LeaseShape, InspectShape, NoLease
    <2>4. \A req \in inflight' : req.op = "delete" => req.cond <= clock'
      <3> SUFFICES ASSUME NEW req \in inflight', req.op = "delete"
                   PROVE  req.cond <= clock'
        OBVIOUS
      <3>1. req.cond \in Nat
        BY <1>r DEF Requests
      <3>2. req.cond <= clock
        BY DEF LeaseInv, LeaseGensIssued, LeaseShape, RequestShape
      <3> QED BY <1>0, <3>1, <3>2
    <2> QED BY <2>1, <2>2, <2>3, <2>4 DEF LeaseGensIssued
  <1>2. HeldUnique'
    <2> SUFFICES ASSUME NEW p \in LeaseUsers, NEW q \in LeaseUsers,
                        held'[p] > 0, held'[p] = held'[q]
                 PROVE  p = q
      BY DEF HeldUnique
    <2>1. /\ held[p] \in Nat /\ held[p] <= clock
          /\ held[q] \in Nat /\ held[q] <= clock
          /\ held[p] > 0 /\ held[p] = held[q] => p = q
      BY <1>h DEF LeaseInv, HeldUnique, LeaseGensIssued
    <2>2. CASE Acquired(p) /\ \A x \in LeaseUsers \ {p} : held'[x] = held[x]
      <3>1. q # p => held'[q] = held[q]
        BY <2>2
      <3> QED BY <1>0, <2>1, <2>2, <3>1 DEF Acquired
    <2>3. CASE Acquired(q) /\ \A x \in LeaseUsers \ {q} : held'[x] = held[x]
      BY <1>0, <2>1, <2>3 DEF Acquired
    <2>4. CASE held'[p] \in {held[p], 0} /\ held'[q] \in {held[q], 0}
      BY <2>1, <2>4
    <2> QED BY <2>2, <2>3, <2>4 DEF LeaseShape, HeldShape
  <1>3. ExecMatchesTask'
    BY DEF ExecMatchesTask, LeaseShape, ExecShape
  <1>4. HoldersLaunched'
    <2>1. \A w \in Workers : lease'.holder = w => exec'[w] # "none"
      BY DEF LeaseInv, HoldersLaunched, LeaseShape, LeaseObjectShape, ExecShape,
             NoLease, Holders
    <2>2. \A req \in inflight' : \A w \in Workers :
             req.op = "create" /\ req.holder = w => exec'[w] # "none"
      BY DEF LeaseInv, HoldersLaunched, LeaseShape, RequestShape, ExecShape
    <2> QED BY <2>1, <2>2 DEF HoldersLaunched
  <1>5. ReclaimJustified'
    <2> SUFFICES ASSUME NEW w \in Workers, pc'[w] \in {"probe", "delete"}
                 PROVE  /\ seen'[w].gen > 0
                        /\ seen'[w].holder \in Workers
                        /\ exec'[seen'[w].holder] # "none"
                        /\ lease'.gen = seen'[w].gen =>
                              lease'.holder = seen'[w].holder
                        /\ pc'[w] = "delete" =>
                              exec'[seen'[w].holder] # "RUNNING"
      BY DEF ReclaimJustified
    <2>1. CASE /\ pc'[w] = "probe"
               /\ seen'[w] = lease
               /\ lease' = lease
               /\ lease.holder \in Workers
      <3>1. lease.gen > 0
        BY <1>0, <2>1 DEF LeaseInv, LeaseGensIssued, NoLease, Holders
      <3> QED BY <2>1, <3>1 DEF LeaseInv, HoldersLaunched, LeaseShape, ExecShape
    <2>2. CASE /\ pc[w] \in {"probe", "delete"}
               /\ seen'[w] = seen[w]
               /\ pc[w] = "probe" /\ pc'[w] = "delete" =>
                      exec[seen[w].holder] # "RUNNING"
      <3>1. /\ seen[w].gen > 0
            /\ seen[w].holder \in Workers
            /\ exec[seen[w].holder] # "none"
            /\ lease.gen = seen[w].gen => lease.holder = seen[w].holder
            /\ pc'[w] = "delete" => exec[seen[w].holder] # "RUNNING"
        <4>1. pc[w] = "delete" => exec[seen[w].holder] # "RUNNING"
          BY <2>2 DEF LeaseInv, ReclaimJustified
        <4> QED BY <2>2, <4>1 DEF LeaseInv, ReclaimJustified
      <3>2. pc'[w] = "delete" => exec'[seen[w].holder] = "terminal"
        BY <3>1 DEF LeaseShape, ExecShape, CountInv, TypeOK, TaskTypeOK
      <3>3. lease'.gen = seen[w].gen => lease'.holder = seen[w].holder
        <4>1. seen[w].gen <= clock
          BY DEF LeaseInv, LeaseGensIssued
        <4>2. CASE lease' = lease
          BY <3>1, <4>2
        <4>3. CASE lease' = NoLease
          BY <1>h, <3>1, <4>3 DEF NoLease
        <4>4. CASE lease'.gen = clock + 1
          BY <1>0, <1>h, <4>1, <4>4
        <4> QED BY <4>2, <4>3, <4>4 DEF LeaseShape, LeaseObjectShape
      <3> QED BY <2>2, <3>1, <3>2, <3>3 DEF LeaseShape, ExecShape
    <2> QED BY <2>1, <2>2 DEF LeaseShape, InspectShape
  <1>6. LateDeletesHarmless'
    <2> SUFFICES ASSUME NEW req \in inflight', req.op = "delete",
                        NEW p \in LeaseUsers, Protected(p)'
                 PROVE  held'[p] # req.cond
      BY DEF LateDeletesHarmless
    <2>1. req.cond \in Nat /\ req.cond <= clock
      BY <1>r DEF Requests, LeaseInv, LeaseGensIssued, LeaseShape, RequestShape
    <2>2. Protected(p) => held[p] # req.cond
      BY DEF LeaseInv, LateDeletesHarmless, LeaseShape, RequestShape, Unused
    <2> QED BY <1>0, <2>1, <2>2 DEF LeaseShape, EnterShape, Acquired
  <1>7. HolderKeepsLease' /\ \A p \in LeaseUsers : Protected(p)' => held'[p] > 0
    <2> SUFFICES ASSUME NEW p \in LeaseUsers, Protected(p)'
                 PROVE  /\ lease' = [gen |-> held'[p], holder |-> Owner(p)]
                        /\ held'[p] > 0
      BY DEF HolderKeepsLease, Owner
    <2>1. CASE Acquired(p)
      BY <1>0, <2>1 DEF Acquired
    <2>2. CASE Protected(p) /\ held'[p] = held[p]
      <3>1. lease = [gen |-> held[p], holder |-> Owner(p)] /\ held[p] > 0
        BY <2>2 DEF LeaseInv, HolderKeepsLease
      <3>2. lease' = lease
        BY <2>2, <3>1 DEF LeaseShape, LeaseObjectShape, Unused, NoLease
      <3> QED BY <2>2, <3>1, <3>2
    <2> QED BY <2>1, <2>2 DEF LeaseShape, EnterShape
  <1> QED BY <1>1, <1>2, <1>3, <1>4, <1>5, <1>6, <1>7 DEF LeaseInv

-----------------------------------------------------------------------------
(* Every step has the shape.                                                *)

(* The facts about the current state that the steps below rely on.          *)
LEMMA LeaseFacts ==
    ASSUME CountInv, LeaseInv
    PROVE  /\ clock \in Nat
           /\ pc \in [Procs -> WorkerPCs \cup SessionPCs \cup RebuildPCs]
           /\ exec \in [Workers -> {"none", "RUNNING", "terminal"}]
           /\ held \in [LeaseUsers -> Nat]
           /\ seen \in [Workers -> LeaseRecords]
           /\ \A w \in Workers : /\ pc[w] = "idle" <=> exec[w] = "none"
                                 /\ pc[w] = "done" <=> exec[w] = "terminal"
  BY DEF CountInv, TypeOK, StoreTypeOK, TaskTypeOK, LeaseUsers, LeaseInv,
         ExecMatchesTask

(* A process moves on, and neither the lease object nor its own knowledge   *)
(* of it changes.                                                           *)
LEMMA QuietShape ==
    ASSUME CountInv, LeaseInv, NEW p \in Procs, NEW l, Goto(p, l),
           UNCHANGED <<lease, exec, held, seen>>,
           clock' \in {clock, clock + 1},
           RequestShape,
           p \in LeaseUsers /\ l \in UnderLease => pc[p] \in UnderLease,
           p \in Workers => /\ pc[p] \notin {"idle", "done"}
                            /\ l \notin {"idle", "done", "probe", "delete"}
    PROVE  LeaseShape
  <1>1. pc' = [pc EXCEPT ![p] = l]
    BY DEF Goto
  <1>2. EnterShape
    BY <1>1, LeaseFacts DEF EnterShape, Protected
  <1>3. ExecShape
    BY <1>1, LeaseFacts DEF ExecShape, Procs
  <1>4. InspectShape
    BY <1>1, LeaseFacts DEF InspectShape, Procs
  <1> QED BY <1>2, <1>3, <1>4 DEF LeaseShape, LeaseObjectShape, HeldShape

(* The quiet steps that only read, upload or record something.              *)
LEMMA ReadShape ==
    ASSUME CountInv, LeaseInv, NEW p \in Procs, NEW l, Goto(p, l),
           ReadOk \/ ReadFailed,
           UNCHANGED <<exec, held, seen>>,
           p \in LeaseUsers /\ l \in UnderLease => pc[p] \in UnderLease,
           p \in Workers => /\ pc[p] \notin {"idle", "done"}
                            /\ l \notin {"idle", "done", "probe", "delete"}
    PROVE  LeaseShape
  BY ReadEffect, QuietShape DEF RequestShape

(* The quiet steps that send a commit or a legacy write.                    *)
LEMMA WriteShape ==
    ASSUME CountInv, LeaseInv, NEW p \in Procs, NEW l, Goto(p, l),
           NEW req, req.op \in {"commit", "put"}, Sent(req),
           UNCHANGED <<exec, held, seen>>,
           p \in LeaseUsers /\ l \in UnderLease => pc[p] \in UnderLease,
           p \in Workers => /\ pc[p] \notin {"idle", "done"}
                            /\ l \notin {"idle", "done", "probe", "delete"}
    PROVE  LeaseShape
  <1>1. UNCHANGED lease /\ clock' \in {clock, clock + 1} /\ RequestShape
    BY OtherEffect DEF RequestShape, CountInv, TypeOK
  <1> QED BY <1>1, QuietShape

LEMMA LifeShape ==
    ASSUME CountInv, LeaseInv, NEW w \in Workers,
           Launch(w) \/ Crash(w) \/ RestartTask(w) \/ EndExecution(w)
    PROVE  LeaseShape
  <1>0. w \in Procs /\ w \in LeaseUsers
    BY DEF Procs, LeaseUsers
  <1>1. CASE Launch(w)
    <2>1. /\ pc' = [pc EXCEPT ![w] = "create"] /\ pc[w] = "idle"
          /\ exec' = [exec EXCEPT ![w] = "RUNNING"]
          /\ UNCHANGED <<lease, clock, inflight, held, seen>>
      BY <1>1 DEF Launch, Goto, storeVars
    <2>2. EnterShape
      BY <2>1, LeaseFacts DEF EnterShape, Protected, UnderLease
    <2>3. ExecShape /\ InspectShape
      BY <1>0, <2>1, LeaseFacts DEF ExecShape, InspectShape, Procs
    <2> QED BY <2>1, <2>2, <2>3
            DEF LeaseShape, LeaseObjectShape, HeldShape, RequestShape
  <1>2. CASE Crash(w)
    <2>1. /\ Goto(w, "exit") /\ pc[w] \notin {"idle", "done"}
          /\ UNCHANGED <<lease, clock, inflight, held, seen, exec>>
      BY <1>2 DEF Crash, ExitWith, storeVars, taskVars
    <2> QED BY <1>0, <2>1, QuietShape DEF RequestShape, UnderLease
  <1>3. CASE RestartTask(w)
    <2>1. /\ pc' = [pc EXCEPT ![w] = "create"] /\ pc[w] = "exit"
          /\ held' = [held EXCEPT ![w] = 0]
          /\ seen' = [seen EXCEPT ![w] = NoLease]
          /\ UNCHANGED <<lease, clock, inflight, exec>>
      BY <1>3 DEF RestartTask, Goto, storeVars
    <2>2. HeldShape /\ EnterShape
      BY <2>1, LeaseFacts DEF HeldShape, EnterShape, Protected, UnderLease
    <2>3. ExecShape /\ InspectShape
      BY <1>0, <2>1, LeaseFacts DEF ExecShape, InspectShape, Procs
    <2> QED BY <2>1, <2>2, <2>3 DEF LeaseShape, LeaseObjectShape, RequestShape
  <1>4. CASE EndExecution(w)
    <2>1. /\ pc' = [pc EXCEPT ![w] = "done"] /\ pc[w] = "exit"
          /\ exec' = [exec EXCEPT ![w] = "terminal"]
          /\ UNCHANGED <<lease, clock, inflight, held, seen>>
      BY <1>4 DEF EndExecution, Goto, storeVars
    <2>2. EnterShape
      BY <2>1, LeaseFacts DEF EnterShape, Protected, UnderLease
    <2>3. ExecShape /\ InspectShape
      BY <1>0, <2>1, LeaseFacts DEF ExecShape, InspectShape, Procs
    <2> QED BY <2>1, <2>2, <2>3
            DEF LeaseShape, LeaseObjectShape, HeldShape, RequestShape
  <1> QED BY <1>1, <1>2, <1>3, <1>4

(* A create that the caller sees succeed.                                   *)
LEMMA AcquireShape ==
    ASSUME CountInv, LeaseInv, NEW p \in LeaseUsers,
           Answered(CreateLeaseReq(Owner(p))),
           NEW l \in UnderLease, Goto(p, l),
           held' = [held EXCEPT ![p] = clock + 1],
           UNCHANGED <<exec, seen>>,
           p \in Workers => pc[p] \notin {"idle", "done"}
    PROVE  LeaseShape
  <1>0. p \in Procs /\ Owner(p) \in Holders
    BY DEF Procs, LeaseUsers, Owner, Holders
  <1>1. /\ lease = NoLease
        /\ clock' = clock + 1
        /\ lease' = [gen |-> clock + 1, holder |-> Owner(p)]
        /\ inflight' = inflight
    BY DEF Answered, Apply, Applicable, CreateLeaseReq, Created, Deleted,
           Committed, Stored
  <1>2. /\ pc'[p] = l /\ \A q \in Procs \ {p} : pc'[q] = pc[q]
        /\ held'[p] = clock + 1
        /\ \A q \in LeaseUsers \ {p} : held'[q] = held[q]
    BY <1>0, LeaseFacts DEF Goto
  <1>3. LeaseObjectShape
    <2>1. p \in Workers => exec[p] # "none"
      BY LeaseFacts
    <2>2. Owner(p) \in Workers => exec'[Owner(p)] # "none"
      BY <2>1 DEF Owner
    <2> QED BY <1>0, <1>1, <2>2 DEF LeaseObjectShape
  <1>4. Acquired(p)
    BY <1>1, <1>2 DEF Acquired
  <1>5. HeldShape
    BY <1>2, <1>4 DEF HeldShape
  <1>6. EnterShape
    BY <1>2, <1>4 DEF EnterShape, Protected, Procs, LeaseUsers
  <1>7. ExecShape /\ InspectShape
    BY <1>0, <1>2, LeaseFacts DEF ExecShape, InspectShape, Procs, UnderLease
  <1> QED BY <1>1, <1>3, <1>5, <1>6, <1>7 DEF LeaseShape, RequestShape

(* A create whose caller does not learn that it was applied, if it was.     *)
LEMMA LostCreateShape ==
    ASSUME CountInv, LeaseInv, NEW p \in LeaseUsers,
           Sent(CreateLeaseReq(Owner(p))),
           NEW l, Goto(p, l), l \notin UnderLease,
           UNCHANGED <<exec, seen, held>>,
           p \in Workers => /\ pc[p] \notin {"idle", "done"}
                            /\ l \notin {"idle", "done", "probe", "delete"}
    PROVE  LeaseShape
  <1>0. p \in Procs /\ Owner(p) \in Holders
    BY DEF Procs, LeaseUsers, Owner, Holders
  <1>1. /\ \/ /\ lease = NoLease
              /\ clock' = clock + 1
              /\ lease' = [gen |-> clock + 1, holder |-> Owner(p)]
           \/ lease' = lease /\ clock' = clock
        /\ inflight' \subseteq inflight \cup {CreateLeaseReq(Owner(p))}
    BY CreateEffect
  <1>2. pc'[p] = l /\ \A q \in Procs \ {p} : pc'[q] = pc[q]
    BY <1>0, LeaseFacts DEF Goto
  <1>3. Owner(p) \in Workers => exec'[Owner(p)] # "none"
    BY LeaseFacts DEF Owner
  <1>4. LeaseObjectShape
    BY <1>0, <1>1, <1>3 DEF LeaseObjectShape
  <1>5. RequestShape
    BY <1>1, <1>3 DEF RequestShape, CreateLeaseReq
  <1>6. HeldShape /\ EnterShape
    BY <1>2 DEF HeldShape, EnterShape, Protected, Procs, LeaseUsers
  <1>7. ExecShape /\ InspectShape
    BY <1>0, <1>2, LeaseFacts DEF ExecShape, InspectShape, Procs
  <1> QED BY <1>1, <1>4, <1>5, <1>6, <1>7 DEF LeaseShape

(* A delete of a lease object nobody inside relies on.                      *)
LEMMA DeleteShape ==
    ASSUME CountInv, LeaseInv, NEW p \in LeaseUsers, NEW g \in Nat,
           Sent(DeleteLeaseReq(g)), g <= clock, Unused(g),
           NEW l, Goto(p, l), l \notin UnderLease,
           UNCHANGED <<exec, seen, held>>,
           p \in Workers => /\ pc[p] \notin {"idle", "done"}
                            /\ l \notin {"idle", "done", "probe", "delete"}
    PROVE  LeaseShape
  <1>0. p \in Procs
    BY DEF Procs, LeaseUsers
  <1>1. /\ clock' = clock
        /\ lease' = lease \/ (lease' = NoLease /\ lease.gen = g)
        /\ inflight' \subseteq inflight \cup {DeleteLeaseReq(g)}
    BY DeleteEffect
  <1>2. pc'[p] = l /\ \A q \in Procs \ {p} : pc'[q] = pc[q]
    BY <1>0, LeaseFacts DEF Goto
  <1>3. LeaseObjectShape
    BY <1>1 DEF LeaseObjectShape
  <1>4. RequestShape
    BY <1>1 DEF RequestShape, DeleteLeaseReq
  <1>5. HeldShape /\ EnterShape
    BY <1>2 DEF HeldShape, EnterShape, Protected, Procs, LeaseUsers
  <1>6. ExecShape /\ InspectShape
    BY <1>0, <1>2, LeaseFacts DEF ExecShape, InspectShape, Procs
  <1> QED BY <1>1, <1>3, <1>4, <1>5, <1>6 DEF LeaseShape

(* The lease a worker is about to reclaim protects nobody: its holder is an *)
(* execution that has ended.                                                *)
LEMMA ReclaimUnused ==
    ASSUME CountInv, LeaseInv, NEW w \in Workers, pc[w] = "delete"
    PROVE  seen[w].gen \in Nat /\ seen[w].gen <= clock /\ Unused(seen[w].gen)
  <1>1. seen[w].gen \in Nat /\ seen[w].gen <= clock
    BY LeaseFacts DEF LeaseRecords, LeaseInv, LeaseGensIssued
  <1>2. ASSUME NEW q \in LeaseUsers, Protected(q), held[q] = seen[w].gen
        PROVE  FALSE
    <2>1. lease = [gen |-> held[q], holder |-> Owner(q)]
      BY <1>2 DEF LeaseInv, HolderKeepsLease
    <2>2. /\ lease.holder \in Workers
          /\ exec[lease.holder] \notin {"none", "RUNNING"}
      BY <1>2, <2>1 DEF LeaseInv, ReclaimJustified
    <2>3. q \in Workers /\ lease.holder = q
      BY <2>1, <2>2 DEF Owner
    <2>4. exec[q] = "terminal"
      BY <2>2, <2>3, LeaseFacts
    <2>5. pc[q] = "done"
      BY <2>3, <2>4, LeaseFacts
    <2> QED BY <1>2, <2>5 DEF Protected, UnderLease
  <1> QED BY <1>1, <1>2 DEF Unused

(* The lease object a process releases is its own, and it is outside.       *)
LEMMA ReleaseUnused ==
    ASSUME CountInv, LeaseInv, NEW p \in LeaseUsers, pc[p] = "release"
    PROVE  held[p] \in Nat /\ held[p] <= clock /\ Unused(held[p])
  <1>1. held[p] \in Nat /\ held[p] <= clock
    BY LeaseFacts DEF LeaseInv, LeaseGensIssued
  <1>2. ASSUME NEW q \in LeaseUsers, Protected(q), held[q] = held[p]
        PROVE  FALSE
    <2>1. held[q] > 0
      BY <1>2 DEF LeaseInv
    <2>2. q = p
      BY <1>2, <2>1 DEF LeaseInv, HeldUnique
    <2> QED BY <1>2, <2>2 DEF Protected, UnderLease
  <1> QED BY <1>1, <1>2 DEF Unused

LEMMA AcquireStepShape ==
    ASSUME CountInv, LeaseInv, NEW w \in Workers, AcquireStep(w)
    PROVE  LeaseShape
  <1>0. w \in Procs /\ w \in LeaseUsers /\ Owner(w) = w
    BY DEF Procs, LeaseUsers, Owner
  <1>1. CASE CreateLease(w)
    BY <1>0, <1>1, AcquireShape DEF CreateLease, taskVars, UnderLease
  <1>2. CASE CreateConflict(w)
    BY <1>0, <1>2, LostCreateShape
       DEF CreateConflict, Sent, ExitWith, taskVars, UnderLease
  <1>3. CASE CreateFails(w)
    BY <1>0, <1>3, LostCreateShape
       DEF CreateFails, Sent, ExitWith, taskVars, UnderLease
  <1>4. CASE InspectLease(w)
    <2>1. CASE ReadOk /\ lease = NoLease /\ Goto(w, "recreate") /\ UNCHANGED seen
      BY <1>0, <1>4, <2>1, ReadShape DEF InspectLease, taskVars, UnderLease
    <2>2. CASE /\ ReadFailed \/ ReadOk
               /\ ExitWith(w, "lease_unavailable")
               /\ UNCHANGED seen
      BY <1>0, <1>4, <2>2, ReadShape
         DEF InspectLease, ExitWith, taskVars, UnderLease
    <2>3. CASE /\ ReadOk
               /\ lease.holder \in Workers
               /\ seen' = [seen EXCEPT ![w] = lease]
               /\ Goto(w, "probe")
      <3>1. /\ pc[w] = "inspect" /\ pc' = [pc EXCEPT ![w] = "probe"]
            /\ UNCHANGED <<lease, clock, inflight, exec, held>>
        BY <1>4, <2>3, ReadEffect DEF InspectLease, Goto, taskVars
      <3>2. EnterShape
        BY <3>1, LeaseFacts DEF EnterShape, Protected, UnderLease
      <3>3. ExecShape /\ InspectShape
        BY <1>0, <2>3, <3>1, LeaseFacts DEF ExecShape, InspectShape, Procs
      <3> QED BY <3>1, <3>2, <3>3
              DEF LeaseShape, LeaseObjectShape, HeldShape, RequestShape
    <2> QED BY <1>4, <2>1, <2>2, <2>3 DEF InspectLease
  <1>5. CASE ProbeHolder(w)
    <2>1. CASE ExitWith(w, "lease_unavailable")
      BY <1>0, <1>5, <2>1, ReadShape
         DEF ProbeHolder, ExitWith, taskVars, UnderLease
    <2>2. CASE Goto(w, "delete") /\ exec[seen[w].holder] # "RUNNING"
      <3>1. /\ pc[w] = "probe" /\ pc' = [pc EXCEPT ![w] = "delete"]
            /\ UNCHANGED <<lease, clock, inflight, exec, held, seen>>
        BY <1>5, <2>2, ReadEffect DEF ProbeHolder, Goto, taskVars
      <3>2. EnterShape
        BY <3>1, LeaseFacts DEF EnterShape, Protected, UnderLease
      <3>3. ExecShape /\ InspectShape
        BY <1>0, <2>2, <3>1, LeaseFacts DEF ExecShape, InspectShape, Procs
      <3> QED BY <3>1, <3>2, <3>3
              DEF LeaseShape, LeaseObjectShape, HeldShape, RequestShape
    <2> QED BY <1>5, <2>1, <2>2 DEF ProbeHolder, ProbeAnswers, AllowLeaseReclaim
  <1>6. CASE ReclaimLease(w)
    <2>1. Sent(DeleteLeaseReq(seen[w].gen)) /\ pc[w] = "delete"
      BY <1>6 DEF ReclaimLease, Sent
    <2>2. PICK l \in {"recreate", "exit"} : Goto(w, l)
      BY <1>6 DEF ReclaimLease, ExitWith
    <2> QED BY <1>0, <1>6, <2>1, <2>2, ReclaimUnused, DeleteShape
            DEF ReclaimLease, taskVars, UnderLease
  <1> QED BY <1>1, <1>2, <1>3, <1>4, <1>5, <1>6 DEF AcquireStep

LEMMA PublishStepShape ==
    ASSUME CountInv, LeaseInv, NEW w \in Workers, PublishStep(w)
    PROVE  LeaseShape
  <1>0. w \in Procs /\ pc[w] \in UnderLease /\ UNCHANGED <<exec, held, seen>>
    BY DEF Procs, PublishStep, ReadManifest, ReadLegacyOutputs, RunBatch,
           UploadOutput, UploadFile, CommitManifest, ConfirmManifestCommit,
           UnderLease, taskVars
  <1>1. pc[w] \notin {"idle", "done"}
    BY <1>0 DEF UnderLease
  <1>2. PICK l \in UnderLease : Goto(w, l)
    BY DEF PublishStep, ReadManifest, ReadLegacyOutputs, RunBatch,
           UploadOutput, UploadFile, CommitManifest, ConfirmManifestCommit,
           UnderLease
  <1>3. CASE CommitManifest(w)
    <2>1. Sent(CommitReq(base[w], Id(w))) /\ CommitReq(base[w], Id(w)).op = "commit"
      BY <1>3 DEF CommitManifest, Sent, CommitReq
    <2> QED BY <1>0, <1>1, <1>2, <2>1, WriteShape DEF UnderLease
  <1>4. CASE ReadOk \/ ReadFailed
    BY <1>0, <1>1, <1>2, <1>4, ReadShape DEF UnderLease
  <1> QED BY <1>3, <1>4
          DEF PublishStep, ReadManifest, ReadLegacyOutputs, RunBatch,
              UploadOutput, UploadFile, ConfirmManifestCommit

LEMMA FinishStepShape ==
    ASSUME CountInv, LeaseInv, NEW w \in Workers, FinishStep(w)
    PROVE  LeaseShape
  <1>0. w \in Procs /\ w \in LeaseUsers
    BY DEF Procs, LeaseUsers
  <1>1. CASE RecordFailure(w) \/ RecordAmbiguous(w) \/ WriteReceipts(w)
    <2>1. /\ Goto(w, "release") /\ pc[w] \notin {"idle", "done"}
          /\ UNCHANGED <<exec, held, seen>>
          /\ ReadOk \/ ReadFailed
      BY <1>1 DEF RecordFailure, RecordAmbiguous, WriteReceipts, Finishing,
                  taskVars
    <2> QED BY <1>0, <2>1, ReadShape DEF UnderLease
  <1>2. CASE ReleaseLease(w) \/ ReleaseLeaseFails(w)
    <2>1. /\ Sent(DeleteLeaseReq(held[w])) /\ pc[w] = "release"
          /\ UNCHANGED <<exec, held, seen>>
      BY <1>2 DEF ReleaseLease, ReleaseLeaseFails, ReleaseRetries, Sent, taskVars
    <2>2. PICK l \in {"release", "exit"} : Goto(w, l)
      BY <1>2, LeaseFacts DEF ReleaseLease, ReleaseLeaseFails, ExitWith, Goto
    <2> QED BY <1>0, <2>1, <2>2, ReleaseUnused, DeleteShape DEF UnderLease
  <1>3. CASE RestartTask(w) \/ EndExecution(w)
    BY <1>3, LifeShape
  <1> QED BY <1>1, <1>2, <1>3 DEF FinishStep

LEMMA SessionStepShape ==
    ASSUME CountInv, LeaseInv, NEW s \in Sessions, SessionStep(s) \/ CrashSession(s)
    PROVE  LeaseShape
  <1>0. /\ s \in Procs /\ s \in LeaseUsers /\ s \notin Workers
        /\ Owner(s) = Redacted
    BY DEF Procs, LeaseUsers, Owner
  <1>1. CASE BeginSession(s)
    <2>1. UNCHANGED <<exec, seen>>
      BY <1>1 DEF BeginSession, taskVars
    <2>2. CASE /\ Answered(CreateLeaseReq(Redacted))
               /\ held' = [held EXCEPT ![s] = clock + 1]
               /\ Goto(s, "check")
      BY <1>0, <2>1, <2>2, AcquireShape DEF UnderLease
    <2>3. CASE /\ Sent(CreateLeaseReq(Redacted))
               /\ Goto(s, "done") /\ UNCHANGED held
      BY <1>0, <2>1, <2>3, LostCreateShape DEF UnderLease
    <2> QED BY <1>1, <2>2, <2>3 DEF BeginSession, Sent
  <1>2. CASE CheckNoManifest(s) \/ RecheckNoManifest(s)
    <2>1. /\ pc[s] \in UnderLease /\ UNCHANGED <<exec, held, seen>>
          /\ ReadOk \/ ReadFailed
      BY <1>2 DEF CheckNoManifest, RecheckNoManifest, taskVars, UnderLease
    <2>2. PICK l : Goto(s, l)
      BY <1>2 DEF CheckNoManifest, RecheckNoManifest
    <2> QED BY <1>0, <2>1, <2>2, ReadShape
  <1>3. CASE PutLegacy(s)
    <2>1. /\ pc[s] \in UnderLease /\ UNCHANGED <<exec, held, seen>>
          /\ Sent(PutReq(NextWrite(s))) /\ PutReq(NextWrite(s)).op = "put"
      BY <1>3 DEF PutLegacy, taskVars, UnderLease, Sent, PutReq
    <2>2. PICK l : Goto(s, l)
      BY <1>3 DEF PutLegacy
    <2> QED BY <1>0, <2>1, <2>2, WriteShape
  <1>4. CASE EndSession(s)
    <2>1. /\ Sent(DeleteLeaseReq(held[s])) /\ pc[s] = "release"
          /\ UNCHANGED <<exec, held, seen>>
      BY <1>4 DEF EndSession, ReleaseRetries, Sent, taskVars
    <2>2. PICK l \in {"release", "done"} : Goto(s, l)
      BY <1>4, LeaseFacts DEF EndSession, Goto
    <2> QED BY <1>0, <2>1, <2>2, ReleaseUnused, DeleteShape DEF UnderLease
  <1>5. CASE CrashSession(s)
    <2>1. /\ Goto(s, "done")
          /\ UNCHANGED <<lease, clock, inflight, exec, held, seen>>
      BY <1>5 DEF CrashSession, storeVars, taskVars
    <2> QED BY <1>0, <2>1, QuietShape DEF RequestShape, UnderLease
  <1> QED BY <1>1, <1>2, <1>3, <1>4, <1>5 DEF SessionStep

LEMMA RebuildStepShape ==
    ASSUME CountInv, LeaseInv, NEW r \in Rebuilders, RebuildStep(r)
    PROVE  LeaseShape
  <1>0. /\ r \in Procs /\ r \notin LeaseUsers /\ r \notin Workers
        /\ UNCHANGED <<exec, held, seen>>
    BY DEF Procs, LeaseUsers, RebuildStep, ReadForRebuild, UploadRebuild,
           UploadFile, CommitRebuild, taskVars
  <1>1. PICK l : Goto(r, l)
    BY DEF RebuildStep, ReadForRebuild, UploadRebuild, UploadFile, CommitRebuild
  <1>2. CASE CommitRebuild(r)
    <2>1. Sent(CommitReq(base[r], Id(r))) /\ CommitReq(base[r], Id(r)).op = "commit"
      BY <1>2 DEF CommitRebuild, Sent, CommitReq
    <2> QED BY <1>0, <1>1, <2>1, WriteShape
  <1>3. CASE ReadOk \/ ReadFailed
    BY <1>0, <1>1, <1>3, ReadShape
  <1> QED BY <1>2, <1>3
          DEF RebuildStep, ReadForRebuild, UploadRebuild, UploadFile

LEMMA ArriveShape ==
    ASSUME CountInv, LeaseInv, Arrive \/ UNCHANGED vars
    PROVE  LeaseShape
  <1>0. UNCHANGED <<exec, pc, held, seen>>
    BY DEF Arrive, vars, taskVars
  <1>1. HeldShape /\ EnterShape /\ ExecShape /\ InspectShape
    BY <1>0, LeaseFacts DEF HeldShape, EnterShape, ExecShape, InspectShape,
                            Protected
  <1>2. CASE UNCHANGED vars
    BY <1>1, <1>2 DEF LeaseShape, LeaseObjectShape, RequestShape, vars, storeVars
  <1>3. CASE Arrive
    <2>1. PICK req \in inflight : LateArrival(req)
      BY <1>3 DEF Arrive
    <2>2. RequestShape
      BY <2>1 DEF RequestShape, LateArrival
    <2>3. req \in Requests
      BY DEF CountInv, TypeOK, StoreTypeOK
    <2>4. CASE req.op = "create"
      <3>1. req = CreateLeaseReq(req.holder) /\ req.holder \in Holders
        BY <2>3, <2>4 DEF Requests, CreateLeaseReq
      <3>2. \/ /\ lease = NoLease
               /\ clock' = clock + 1
               /\ lease' = [gen |-> clock + 1, holder |-> req.holder]
            \/ lease' = lease /\ clock' = clock
        BY <2>1, <3>1, CreateEffect
      <3>3. req.holder \in Workers => exec'[req.holder] # "none"
        BY <1>0, <2>4 DEF LeaseInv, HoldersLaunched
      <3> QED BY <1>1, <2>2, <3>1, <3>2, <3>3 DEF LeaseShape, LeaseObjectShape
    <2>5. CASE req.op = "delete"
      <3>1. req = DeleteLeaseReq(req.cond)
        BY <2>3, <2>5 DEF Requests, DeleteLeaseReq
      <3>2. clock' = clock /\ (lease' = lease \/ (lease' = NoLease /\ lease.gen = req.cond))
        BY <2>1, <3>1, DeleteEffect
      <3>3. Unused(req.cond)
        BY <2>5 DEF LeaseInv, LateDeletesHarmless, Unused
      <3> QED BY <1>1, <2>2, <3>2, <3>3 DEF LeaseShape, LeaseObjectShape
    <2>6. CASE req.op \in {"commit", "put"}
      BY <1>1, <2>1, <2>2, <2>6, OtherEffect
         DEF LeaseShape, LeaseObjectShape, CountInv, TypeOK
    <2> QED BY <2>3, <2>4, <2>5, <2>6 DEF Requests
  <1> QED BY <1>2, <1>3

LEMMA LeaseInit == Init => LeaseInv
  BY DEF Init, StoreInit, NoLease, LeaseInv, LeaseGensIssued, HeldUnique,
         ExecMatchesTask, HoldersLaunched, ReclaimJustified, LateDeletesHarmless,
         HolderKeepsLease, Protected, UnderLease, LeaseUsers, Procs, Holders

LEMMA LeaseNext ==
    ASSUME CountInv, LeaseInv, [Next]_vars
    PROVE  LeaseInv'
  <1>1. ASSUME NEW w \in Workers, Launch(w) \/ Crash(w) \/ WorkerStep(w)
        PROVE  LeaseShape
    BY <1>1, LifeShape, AcquireStepShape, PublishStepShape, FinishStepShape
       DEF WorkerStep
  <1>2. ASSUME NEW s \in Sessions, SessionStep(s) \/ CrashSession(s)
        PROVE  LeaseShape
    BY <1>2, SessionStepShape
  <1>3. ASSUME NEW r \in Rebuilders, RebuildStep(r)
        PROVE  LeaseShape
    BY <1>3, RebuildStepShape
  <1>4. ASSUME Arrive \/ UNCHANGED vars
        PROVE  LeaseShape
    BY <1>4, ArriveShape
  <1>5. LeaseShape
    BY <1>1, <1>2, <1>3, <1>4 DEF Next, Finished
  <1> QED BY <1>5, CountNext, ShapePreserves

(* For any number of executions and BFF sessions, and whatever fails, the   *)
(* lease object of a process between acquireCloudLease (or                  *)
(* BeginLegacyGenerationWrite) and its release is the one it created.       *)
THEOREM LeaseKept == Spec => []HolderKeepsLease
  <1>1. Init => CountInv /\ LeaseInv
    BY CountInit, LeaseInit
  <1>2. CountInv /\ LeaseInv /\ [Next]_vars => CountInv' /\ LeaseInv'
    BY CountNext, LeaseNext
  <1>3. LeaseInv => HolderKeepsLease
    BY DEF LeaseInv
  <1> QED BY <1>1, <1>2, <1>3, PTL DEF Spec

(* Two processes inside would both own the one lease object.                *)
LEMMA LeaseExcludes == LeaseInv => LeaseExclusive
  <1> SUFFICES ASSUME LeaseInv, NEW p \in LeaseUsers, NEW q \in LeaseUsers,
                      Protected(p), Protected(q)
               PROVE  p = q
    BY DEF LeaseExclusive
  <1>1. lease.gen = held[p] /\ lease.gen = held[q] /\ held[p] > 0
    BY DEF LeaseInv, HolderKeepsLease
  <1> QED BY <1>1 DEF LeaseInv, HeldUnique

(* Two processes are never between the acquisition and the release of the   *)
(* project's publish lease at once, whatever crashes, restarts, lost        *)
(* answers and late requests occur.                                         *)
THEOREM MutualExclusion == Spec => []LeaseExclusive
  <1>1. Init => CountInv /\ LeaseInv
    BY CountInit, LeaseInit
  <1>2. CountInv /\ LeaseInv /\ [Next]_vars => CountInv' /\ LeaseInv'
    BY CountNext, LeaseNext
  <1> QED BY <1>1, <1>2, LeaseExcludes, PTL DEF Spec
=============================================================================
