------------------------- MODULE PublishHistoryProofs -------------------------
(***************************************************************************)
(* The history of committed generations: every step has the shape          *)
(* HistoryShape describes, a step of that shape preserves HistoryInv, and  *)
(* it is a step of GenerationHistory or leaves the history alone.          *)
(***************************************************************************)
EXTENDS PublishProofs

USE ProcAssumption, BoundAssumption, FaultAssumption

-----------------------------------------------------------------------------
(* What a request does to the manifest.                                     *)

LEMMA NoCommitEffect ==
    ASSUME StoreTypeOK, NEW req, req.op # "commit", Sent(req) \/ LateArrival(req)
    PROVE  /\ clock' \in {clock, clock + 1}
           /\ UNCHANGED <<manifest, log>>
           /\ inflight' \subseteq inflight \cup {req}
  <1>1. Apply(req) \/ UNCHANGED storeVars
    BY DEF Sent, Answered, Refused, Unanswered, LateArrival
  <1>2. Apply(req) => UNCHANGED <<manifest, log>> /\ clock' \in {clock, clock + 1}
    BY DEF Apply, Created, Deleted, Committed, Stored
  <1>3. inflight' \subseteq inflight \cup {req}
    BY DEF Sent, Answered, Refused, Unanswered, LateArrival
  <1> QED BY <1>1, <1>2, <1>3 DEF storeVars

(* The commit is applied.                                                   *)
Replaces(req) ==
    /\ manifest.gen = req.cond
    /\ clock' = clock + 1
    /\ manifest' = [gen |-> clock + 1, id |-> req.id, prev |-> req.prev,
                    covers |-> req.covers]
    /\ log' = Append(log, [id |-> req.id, prev |-> req.prev])

LEMMA CommitEffect ==
    ASSUME NEW req, req.op = "commit", Sent(req) \/ LateArrival(req)
    PROVE  /\ Replaces(req) \/ UNCHANGED <<manifest, log, clock>>
           /\ Sent(req) => \/ Replaces(req) /\ inflight' = inflight
                           \/ /\ UNCHANGED <<manifest, log, clock>>
                              /\ inflight' \subseteq inflight \cup {req}
           /\ Answered(req) => Replaces(req)
           /\ LateArrival(req) => inflight' = inflight \ {req}
  <1>1. Apply(req) => Replaces(req)
    BY DEF Apply, Applicable, Replaces, Created, Deleted, Committed, Stored
  <1>2. UNCHANGED storeVars => UNCHANGED <<manifest, log, clock>>
    BY DEF storeVars
  <1>3. Apply(req) \/ UNCHANGED storeVars
    BY DEF Sent, Answered, Refused, Unanswered, LateArrival
  <1>4. Sent(req) => \/ Apply(req) /\ inflight' = inflight
                     \/ /\ UNCHANGED storeVars
                        /\ inflight' \subseteq inflight \cup {req}
    BY DEF Sent, Answered, Refused, Unanswered
  <1>5. Answered(req) => Apply(req)
    BY DEF Answered
  <1>6. LateArrival(req) => inflight' = inflight \ {req}
    BY DEF LateArrival
  <1> QED BY <1>1, <1>2, <1>3, <1>4, <1>5, <1>6

-----------------------------------------------------------------------------
(* The shape of a step.                                                     *)

(* The commit of a generation that is complete, was never committed, is not *)
(* under way elsewhere and names its predecessor.                           *)
Justified(req) ==
    /\ req \in Requests
    /\ req.op = "commit"
    /\ req.cond <= clock
    /\ req.cond = manifest.gen => req.prev = manifest.id
    /\ req.id \notin CommittedIds
    /\ ~Ahead(req.id, BeforeCommit)'
    /\ files[req.id] = NumFiles
    /\ files'[req.id] = files[req.id]

StoreShape ==
    \/ /\ UNCHANGED <<manifest, log>>
       /\ clock' \in {clock, clock + 1}
       /\ \/ \A req \in inflight' \ inflight : req.op # "commit"
          \/ \E req : /\ Justified(req)
                      /\ req.id \notin InflightIds
                      /\ inflight' \subseteq inflight \cup {req}
    \/ \E req : /\ Justified(req)
                /\ Replaces(req)
                /\ inflight' \subseteq inflight
                /\ req.id \notin InflightIds'

BaseShape ==
    \A p \in Publishers :
        \/ base'[p].gen = base[p].gen /\ base'[p].id = base[p].id
        \/ base'[p].gen = 0 /\ base'[p].id = NoId
        \/ /\ base'[p].gen = manifest.gen /\ base'[p].id = manifest.id
           /\ manifest' = manifest

AheadShape ==
    \A id \in GenIds :
        /\ Ahead(id, BeforeCommit)' => Ahead(id, BeforeCommit)
        /\ files'[id] # files[id] => Ahead(id, BeforeCommit)

Good == {"ok", "committed_receipt", "committed_cleanup"}

ReceiptShape ==
    /\ \A w \in Workers : pc'[w] = "receipts" =>
          /\ Id(w)' = Id(w)
          /\ pc[w] = "receipts" \/ Id(w) \in CommittedIds'
    /\ \A w \in Workers : report'[w] \in Good =>
          /\ Id(w)' = Id(w)
          /\ report[w] \in Good \/ pc[w] = "receipts"
    /\ success' \subseteq success \cup {Id(w) : w \in {v \in Workers : pc[v] = "receipts"}}

HistoryShape == StoreShape /\ BaseShape /\ AheadShape /\ ReceiptShape

LEMMA CommittedGrows ==
    ASSUME StoreTypeOK, NEW e, e.id \in GenIds, log' = Append(log, e),
           e \in [id : GenIds, prev : GenIds \cup {NoId}]
    PROVE  /\ CommittedIds' = CommittedIds \cup {e.id}
           /\ log' # <<>>
           /\ log'[Len(log')].id = e.id
  <1>1. /\ Len(log) \in Nat
        /\ Len(log') = Len(log) + 1
        /\ \A i \in 1 .. Len(log) : log'[i] = log[i]
        /\ log'[Len(log) + 1] = e
    BY DEF StoreTypeOK
  <1>2. CommittedIds' = CommittedIds \cup {e.id}
    BY <1>1 DEF CommittedIds
  <1>3. log' # <<>>
    BY <1>1
  <1> QED BY <1>1, <1>2, <1>3

LEMMA HistoryShapePreserves ==
    ASSUME CountInv, CountInv', HistoryInv, HistoryShape
    PROVE  HistoryInv'
  <1>0. /\ clock \in Nat /\ clock' \in Nat /\ clock <= clock'
        /\ manifest.gen \in Nat /\ manifest.gen <= clock
    <2>1. clock' \in {clock, clock + 1}
      BY DEF HistoryShape, StoreShape, Replaces
    <2> QED BY <2>1 DEF CountInv, TypeOK, StoreTypeOK, ManifestRecords,
                        HistoryInv, ManifestGensIssued
  <1>b. \A p \in Publishers : base[p].gen \in Nat /\ base'[p].gen \in Nat
    BY DEF CountInv, TypeOK, TaskTypeOK, ManifestRecords, Publishers
  <1>r. inflight \subseteq Requests /\ inflight' \subseteq Requests
    BY DEF CountInv, TypeOK, StoreTypeOK
  <1>c. \A req \in inflight \cup inflight' : req.op = "commit" =>
            req.cond \in Nat /\ req.id \in GenIds
    BY <1>r DEF Requests
  <1>l. CommittedIds \subseteq GenIds
    <2> DEFINE Entries == [id : GenIds, prev : GenIds \cup {NoId}]
    <2>0. log \in Seq(Entries)
      BY DEF CountInv, TypeOK, StoreTypeOK
    <2>1. \A i \in 1 .. Len(log) : log[i] \in Entries
      <3> HIDE DEF Entries
      <3> QED BY <2>0
    <2> QED BY <2>1 DEF CommittedIds
  <1>g. \/ UNCHANGED <<manifest, log>> /\ CommittedIds' = CommittedIds
        \/ \E req : /\ Justified(req) /\ Replaces(req)
                    /\ req.id \notin InflightIds' /\ inflight' \subseteq inflight
                    /\ CommittedIds' = CommittedIds \cup {req.id}
                    /\ log' # <<>>
                    /\ log'[Len(log')].id = req.id
    <2>1. CASE UNCHANGED <<manifest, log>>
      BY <2>1 DEF CommittedIds
    <2>2. ASSUME NEW req, Justified(req), Replaces(req)
          PROVE  /\ CommittedIds' = CommittedIds \cup {req.id}
                 /\ log' # <<>>
                 /\ log'[Len(log')].id = req.id
      <3>1. req.id \in GenIds /\ req.prev \in GenIds \cup {NoId}
        BY <2>2 DEF Justified, Requests
      <3> QED BY <2>2, <3>1, CommittedGrows DEF Replaces, CountInv, TypeOK
    <2> QED BY <2>1, <2>2 DEF HistoryShape, StoreShape
  <1>m. \/ UNCHANGED <<manifest, log>>
        \/ /\ manifest'.gen = clock + 1 /\ clock' = clock + 1
           /\ log' # <<>> /\ manifest'.id = log'[Len(log')].id
    <2>1. ASSUME NEW req, Replaces(req)
          PROVE  /\ manifest'.gen = clock + 1 /\ clock' = clock + 1
                 /\ manifest'.id = req.id
      BY <2>1 DEF Replaces
    <2> QED BY <1>g, <2>1
  <1>1. ManifestGensIssued'
    <2>1. manifest'.gen <= clock' /\ (manifest'.gen = 0 => manifest'.id = NoId)
      BY <1>0, <1>m DEF HistoryInv, ManifestGensIssued
    <2>2. ASSUME NEW p \in Publishers PROVE base'[p].gen <= clock'
      <3>1. base[p].gen <= clock
        BY DEF HistoryInv, ManifestGensIssued
      <3> QED BY <1>0, <1>b, <3>1 DEF HistoryShape, BaseShape
    <2>3. ASSUME NEW req \in inflight', req.op = "commit" PROVE req.cond <= clock'
      <3>1. req.cond <= clock
        BY <2>3 DEF HistoryInv, ManifestGensIssued, HistoryShape, StoreShape,
                    Justified
      <3> QED BY <1>0, <1>c, <2>3, <3>1
    <2> QED BY <2>1, <2>2, <2>3 DEF ManifestGensIssued
  <1>2. BaseMatches'
    <2>1. ASSUME NEW p \in Publishers, base'[p].gen = manifest'.gen
          PROVE  base'[p].id = manifest'.id
      <3>1. base[p].gen <= clock /\ (base[p].gen = manifest.gen => base[p].id = manifest.id)
        BY DEF HistoryInv, ManifestGensIssued, BaseMatches
      <3>2. CASE manifest' = manifest
        BY <2>1, <3>1, <3>2 DEF HistoryShape, BaseShape, HistoryInv,
                                ManifestGensIssued
      <3>3. CASE manifest'.gen = clock + 1
        BY <1>0, <1>b, <2>1, <3>1, <3>3 DEF HistoryShape, BaseShape
      <3> QED BY <1>m, <3>2, <3>3
    <2>2. ASSUME NEW req \in inflight', req.op = "commit",
                 req.cond = manifest'.gen
          PROVE  req.prev = manifest'.id
      <3>1. req.cond <= clock /\ (req.cond = manifest.gen => req.prev = manifest.id)
        BY <2>2 DEF HistoryInv, ManifestGensIssued, BaseMatches, HistoryShape,
                    StoreShape, Justified
      <3>2. CASE manifest' = manifest
        BY <2>2, <3>1, <3>2
      <3>3. CASE manifest'.gen = clock + 1
        BY <1>0, <1>c, <2>2, <3>1, <3>3
      <3> QED BY <1>m, <3>2, <3>3
    <2> QED BY <2>1, <2>2 DEF BaseMatches
  <1>i. InflightIds' \subseteq GenIds /\ InflightIds \subseteq GenIds
    BY <1>c DEF InflightIds
  <1>n. \A id \in InflightIds' \ InflightIds :
            /\ id \notin CommittedIds /\ UNCHANGED log
            /\ ~Ahead(id, BeforeCommit)'
            /\ files'[id] = NumFiles
    BY DEF HistoryShape, StoreShape, InflightIds, Justified
  <1>3. IdsFresh'
    <2>1. ASSUME NEW id \in GenIds, Ahead(id, BeforeCommit)'
          PROVE  id \notin CommittedIds' \cup InflightIds'
      <3>1. id \notin CommittedIds /\ id \notin InflightIds
        BY <2>1 DEF HistoryShape, AheadShape, HistoryInv, IdsFresh
      <3>2. id \notin InflightIds'
        BY <1>n, <2>1, <3>1
      <3>3. id \notin CommittedIds'
        BY <1>g, <2>1, <3>1 DEF Justified
      <3> QED BY <3>2, <3>3
    <2>2. InflightIds' \cap CommittedIds' = {}
      <3>1. \A id \in InflightIds' : id \notin CommittedIds
        BY <1>n DEF HistoryInv, IdsFresh
      <3>2. CASE CommittedIds' = CommittedIds
        BY <3>1, <3>2
      <3>3. ASSUME NEW req, CommittedIds' = CommittedIds \cup {req.id},
                   req.id \notin InflightIds'
            PROVE  InflightIds' \cap CommittedIds' = {}
        BY <3>1, <3>3
      <3> QED BY <1>g, <3>2, <3>3
    <2>3. ASSUME NEW r1 \in inflight', NEW r2 \in inflight',
                 r1.op = "commit", r2.op = "commit", r1.id = r2.id
          PROVE  r1 = r2
      <3>1. r1 \in inflight /\ r2 \in inflight => r1 = r2
        BY <2>3 DEF HistoryInv, IdsFresh
      <3>2. CASE \A req \in inflight' \ inflight : req.op # "commit"
        BY <2>3, <3>1, <3>2
      <3>3. CASE \E req : /\ req.id \notin InflightIds
                         /\ inflight' \subseteq inflight \cup {req}
        BY <2>3, <3>1, <3>3 DEF InflightIds
      <3> QED BY <3>2, <3>3 DEF HistoryShape, StoreShape
    <2> QED BY <2>1, <2>2, <2>3 DEF IdsFresh
  <1>4. ManifestIsLast'
    BY <1>m DEF HistoryInv, ManifestIsLast
  <1>5. UploadsComplete'
    <2>1. ASSUME NEW id \in CommittedIds \cup InflightIds
          PROVE  files'[id] = NumFiles
      <3>1. id \in GenIds
        BY <1>i, <1>l
      <3>2. ~Ahead(id, BeforeCommit) /\ files[id] = NumFiles
        BY <3>1 DEF HistoryInv, IdsFresh, UploadsComplete
      <3> QED BY <3>1, <3>2 DEF HistoryShape, AheadShape
    <2>2. \A id \in InflightIds' : files'[id] = NumFiles
      BY <1>n, <2>1
    <2>3. \A id \in CommittedIds' : files'[id] = NumFiles
      BY <1>g, <2>1 DEF Justified
    <2> QED BY <2>2, <2>3 DEF UploadsComplete
  <1>6. CommittedIds \subseteq CommittedIds'
    BY <1>g
  <1>7. ReceiptsAfterCommit'
    BY <1>6 DEF HistoryInv, ReceiptsAfterCommit, HistoryShape, ReceiptShape
  <1>8. PublishedWasCommitted'
    BY <1>6 DEF HistoryInv, PublishedWasCommitted, ReceiptsAfterCommit,
                HistoryShape, ReceiptShape, Good
  <1> QED BY <1>1, <1>2, <1>3, <1>4, <1>5, <1>7, <1>8 DEF HistoryInv

-----------------------------------------------------------------------------
(* Every step has the shape.                                                *)

LEMMA MoveFacts ==
    ASSUME CountInv, NEW p \in Procs, NEW l, Goto(p, l), UNCHANGED attempt,
           p \in Publishers /\ l \in BeforeCommit => pc[p] \in BeforeCommit
    PROVE  /\ pc'[p] = l
           /\ \A q \in Procs \ {p} : pc'[q] = pc[q]
           /\ \A q \in Procs : Id(q)' = Id(q)
           /\ \A id \in GenIds :
                 Ahead(id, BeforeCommit)' => Ahead(id, BeforeCommit)
  <1>1. pc'[p] = l /\ \A q \in Procs \ {p} : pc'[q] = pc[q]
    BY DEF Goto, CountInv, TypeOK, TaskTypeOK
  <1>2. \A q \in Procs : Id(q)' = Id(q)
    BY DEF Id
  <1>3. \A id \in GenIds : Ahead(id, BeforeCommit)' => Ahead(id, BeforeCommit)
    BY <1>1, <1>2 DEF Ahead, GenIds, Procs, Publishers
  <1> QED BY <1>1, <1>2, <1>3

LEMMA MoveShape ==
    ASSUME CountInv, HistoryInv, NEW p \in Procs, NEW l, Goto(p, l),
           UNCHANGED <<attempt, success>>,
           p \in Publishers /\ l \in BeforeCommit => pc[p] \in BeforeCommit,
           StoreShape, BaseShape,
           \A id \in GenIds : files'[id] # files[id] => Ahead(id, BeforeCommit),
           p \in Workers /\ l = "receipts" => Id(p) \in CommittedIds',
           \A w \in Workers : report'[w] \in Good =>
               report[w] \in Good \/ pc[w] = "receipts"
    PROVE  HistoryShape
  <1>1. AheadShape
    BY MoveFacts DEF AheadShape
  <1>2. ReceiptShape
    BY MoveFacts DEF ReceiptShape, Procs
  <1> QED BY <1>1, <1>2 DEF HistoryShape

(* A process moves on without touching manifest, base or uploads.           *)
LEMMA QuietHistory ==
    ASSUME CountInv, HistoryInv, NEW p \in Procs, NEW l, Goto(p, l),
           UNCHANGED <<attempt, success, manifest, log, base, files>>,
           clock' \in {clock, clock + 1},
           \A req \in inflight' \ inflight : req.op # "commit",
           p \in Publishers /\ l \in BeforeCommit => pc[p] \in BeforeCommit,
           p \in Workers => l # "receipts",
           \A w \in Workers : report'[w] \in Good =>
               report[w] \in Good \/ pc[w] = "receipts"
    PROVE  HistoryShape
  <1>1. StoreShape /\ BaseShape
    BY DEF StoreShape, BaseShape
  <1> QED BY <1>1, MoveShape

LEMMA ReadHistory ==
    ASSUME ReadOk \/ ReadFailed
    PROVE  UNCHANGED <<manifest, log, clock, inflight>>
  BY DEF ReadOk, ReadFailed, storeVars

LEMMA NewReports ==
    ASSUME CountInv, NEW w \in Workers, NEW r, r \notin Good,
           report' = [report EXCEPT ![w] = r]
    PROVE  \A v \in Workers : report'[v] \in Good => report[v] \in Good
  BY DEF CountInv, TypeOK, TaskTypeOK

LEMMA LifeHistory ==
    ASSUME CountInv, HistoryInv, NEW w \in Workers,
           Launch(w) \/ Crash(w) \/ RestartTask(w) \/ EndExecution(w)
    PROVE  HistoryShape
  <1>0. w \in Procs /\ clock \in Nat
    BY DEF Procs, CountInv, TypeOK, StoreTypeOK
  <1>1. CASE Launch(w)
    <2>1. /\ Goto(w, "create") /\ pc[w] = "idle"
          /\ UNCHANGED <<attempt, success, manifest, log, base, files, clock,
                         inflight, report>>
      BY <1>1 DEF Launch, storeVars, recordVars
    <2> QED BY <1>0, <2>1, QuietHistory DEF BeforeCommit, BeforeUpload
  <1>2. CASE Crash(w)
    <2>1. /\ Goto(w, "exit")
          /\ UNCHANGED <<attempt, success, manifest, log, base, files, clock,
                         inflight>>
          /\ report' = [report EXCEPT ![w] = "crashed"]
      BY <1>2 DEF Crash, ExitWith, storeVars, recordVars, taskVars
    <2>2. \A v \in Workers : report'[v] \in Good => report[v] \in Good
      BY <2>1, NewReports DEF Good
    <2> QED BY <1>0, <2>1, <2>2, QuietHistory DEF BeforeCommit, BeforeUpload
  <1>3. CASE EndExecution(w)
    <2>1. /\ Goto(w, "done")
          /\ UNCHANGED <<attempt, success, manifest, log, base, files, clock,
                         inflight, report>>
      BY <1>3 DEF EndExecution, storeVars, recordVars
    <2> QED BY <1>0, <2>1, QuietHistory DEF BeforeCommit, BeforeUpload
  <1>4. CASE RestartTask(w)
    <2>1. /\ pc' = [pc EXCEPT ![w] = "create"] /\ pc[w] = "exit"
          /\ attempt' = [attempt EXCEPT ![w] = @ + 1]
          /\ base' = [base EXCEPT ![w] = NoManifest]
          /\ report' = [report EXCEPT ![w] = "none"]
          /\ UNCHANGED <<success, manifest, log, files, clock, inflight>>
      BY <1>4 DEF RestartTask, Goto, storeVars, recordVars
    <2>t. /\ pc \in [Procs -> WorkerPCs \cup SessionPCs \cup RebuildPCs]
          /\ attempt \in [Workers -> 1 .. MaxAttempts]
          /\ base \in [Workers \cup Rebuilders -> ManifestRecords]
          /\ report \in [Workers -> Reports]
      BY DEF CountInv, TypeOK, TaskTypeOK
    <2>2. /\ pc'[w] = "create"
          /\ attempt'[w] = attempt[w] + 1
          /\ report'[w] = "none"
          /\ \A q \in Procs \ {w} : pc'[q] = pc[q] /\ Id(q)' = Id(q)
          /\ \A v \in Workers \ {w} : attempt'[v] = attempt[v]
                                     /\ report'[v] = report[v]
      BY <1>0, <2>1, <2>t DEF Id
    <2>3. StoreShape
      BY <2>1 DEF StoreShape
    <2>4. BaseShape
      BY <2>1, <2>t DEF BaseShape, Publishers, NoManifest
    <2>5. AheadShape
      BY <2>1, <2>2, <2>t DEF AheadShape, Ahead, GenIds, Id, Procs
    <2>6. ReceiptShape
      BY <2>1, <2>2 DEF ReceiptShape, Procs, Good
    <2> QED BY <2>3, <2>4, <2>5, <2>6 DEF HistoryShape
  <1> QED BY <1>1, <1>2, <1>3, <1>4

LEMMA AcquireHistory ==
    ASSUME CountInv, HistoryInv, NEW w \in Workers, AcquireStep(w)
    PROVE  HistoryShape
  <1>0. w \in Procs /\ StoreTypeOK /\ clock \in Nat
    BY DEF Procs, CountInv, TypeOK, StoreTypeOK
  <1>1. /\ UNCHANGED <<attempt, success, base, files>>
        /\ pc[w] \in BeforeCommit
    BY DEF AcquireStep, CreateLease, CreateConflict, CreateFails, InspectLease,
           ProbeHolder, ReclaimLease, taskVars, recordVars, BeforeCommit,
           BeforeUpload
  <1>2. PICK l : Goto(w, l) /\ l # "receipts"
    BY DEF AcquireStep, CreateLease, CreateConflict, CreateFails, InspectLease,
           ProbeHolder, ReclaimLease, ExitWith
  <1>3. \A v \in Workers : report'[v] \in Good => report[v] \in Good
    <2>1. UNCHANGED report \/ report' = [report EXCEPT ![w] = "lease_unavailable"]
      BY DEF AcquireStep, CreateLease, CreateConflict, CreateFails,
             InspectLease, ProbeHolder, ReclaimLease, ExitWith
    <2> QED BY <2>1, NewReports DEF Good
  <1>4. /\ UNCHANGED <<manifest, log>>
        /\ clock' \in {clock, clock + 1}
        /\ \A req \in inflight' \ inflight : req.op # "commit"
    <2>1. CASE Sent(CreateLeaseReq(w))
      <3>1. CreateLeaseReq(w).op = "create"
        BY DEF CreateLeaseReq
      <3> QED BY <1>0, <2>1, <3>1, NoCommitEffect
    <2>2. CASE Sent(DeleteLeaseReq(seen[w].gen))
      <3>1. DeleteLeaseReq(seen[w].gen).op = "delete"
        BY DEF DeleteLeaseReq
      <3> QED BY <1>0, <2>2, <3>1, NoCommitEffect
    <2>3. CASE ReadOk \/ ReadFailed
      BY <2>3, ReadHistory
    <2> QED BY <2>1, <2>2, <2>3
            DEF AcquireStep, CreateLease, CreateConflict, CreateFails,
                InspectLease, ProbeHolder, ReclaimLease, Sent
  <1> QED BY <1>0, <1>1, <1>2, <1>3, <1>4, QuietHistory

(* A publisher sends its one commit.                                        *)
LEMMA CommitShape ==
    ASSUME CountInv, HistoryInv, NEW p \in Publishers, pc[p] = "commit",
           NEW l, Goto(p, l), l \notin BeforeCommit,
           UNCHANGED <<attempt, files>>,
           Sent(CommitReq(base[p], Id(p)))
    PROVE  /\ StoreShape
           /\ Answered(CommitReq(base[p], Id(p))) => Id(p) \in CommittedIds'
  <1>0. /\ p \in Procs /\ Id(p) \in GenIds /\ Id(p)[1] = p
        /\ base[p] \in ManifestRecords
        /\ TaskTypeOK /\ StoreTypeOK
    BY IdTypes DEF Publishers, Procs, CountInv, TypeOK, TaskTypeOK
  <1>i. PICK id \in GenIds : id = Id(p)
    BY <1>0
  <1>q. PICK req : req = CommitReq(base[p], id)
    OBVIOUS
  <1>1. /\ req \in Requests /\ req.op = "commit" /\ req.cond = base[p].gen
        /\ req.id = id /\ req.prev = base[p].id
    BY <1>0, <1>q, CommitRequests DEF CommitReq
  <1>2. Ahead(id, BeforeCommit)
    BY <1>0, <1>i DEF Ahead, BeforeCommit
  <1>3. ~Ahead(id, BeforeCommit)'
    <2>1. pc'[p] = l
      BY <1>0 DEF Goto, TaskTypeOK
    <2>2. p \in Workers => id[2] = attempt[p] /\ attempt[p] \in Nat
      BY <1>0, <1>i DEF Id, TaskTypeOK
    <2> QED BY <1>0, <1>i, <2>1, <2>2 DEF Ahead
  <1>4. id \notin CommittedIds /\ id \notin InflightIds
    BY <1>0, <1>2 DEF HistoryInv, IdsFresh
  <1>5. Justified(req)
    <2>1. /\ base[p].gen <= clock
          /\ base[p].gen = manifest.gen => base[p].id = manifest.id
      BY DEF HistoryInv, ManifestGensIssued, BaseMatches
    <2>2. files[id] = NumFiles
      BY <1>i DEF CountInv, UploadCounted
    <2> QED BY <1>1, <1>3, <1>4, <2>1, <2>2 DEF Justified
  <1>6. Answered(req) => Replaces(req)
    BY <1>1, CommitEffect DEF Sent
  <1>7. \/ Replaces(req) /\ inflight' = inflight
        \/ /\ UNCHANGED <<manifest, log, clock>>
           /\ inflight' \subseteq inflight \cup {req}
    BY <1>1, <1>i, <1>q, CommitEffect
  <1>8. StoreShape
    <2>1. CASE Replaces(req) /\ inflight' = inflight
      <3>1. req.id \notin InflightIds'
        BY <1>1, <1>4, <2>1 DEF InflightIds
      <3> QED BY <1>5, <2>1, <3>1 DEF StoreShape
    <2>2. CASE /\ UNCHANGED <<manifest, log, clock>>
               /\ inflight' \subseteq inflight \cup {req}
      BY <1>1, <1>4, <1>5, <2>2 DEF StoreShape
    <2> QED BY <1>7, <2>1, <2>2
  <1>9. Replaces(req) => id \in CommittedIds'
    BY <1>0, <1>1, CommittedGrows DEF Replaces, Requests
  <1> QED BY <1>6, <1>8, <1>9, <1>i, <1>q

(* An uploaded object belongs to an id that has not reached its commit.     *)
LEMMA UploadHistory ==
    ASSUME CountInv, HistoryInv, NEW p \in Publishers, NEW abort,
           UploadFile(p, "commit", abort), abort \in {"failing", "done"}
    PROVE  HistoryShape
  <1>0. /\ p \in Procs /\ Id(p) \in GenIds /\ Id(p)[1] = p
        /\ files \in [GenIds -> 0 .. NumFiles]
    BY IdTypes DEF Publishers, Procs, CountInv, TypeOK, RecordTypeOK
  <1>1. /\ UNCHANGED <<attempt, success, base, report>>
        /\ ReadOk \/ ReadFailed
        /\ pc[p] = "upload"
        /\ files' \in {files, [files EXCEPT ![Id(p)] = @ + 1]}
    BY DEF UploadFile, taskVars, recordVars
  <1>2. PICK l \in {"commit", "upload", abort} : Goto(p, l)
    BY DEF UploadFile
  <1>3. Ahead(Id(p), BeforeCommit)
    BY <1>0, <1>1 DEF Ahead, BeforeCommit
  <1>4. \A id \in GenIds : files'[id] # files[id] => Ahead(id, BeforeCommit)
    BY <1>0, <1>1, <1>3
  <1>5. StoreShape /\ BaseShape
    BY <1>1, ReadHistory DEF StoreShape, BaseShape
  <1> QED BY <1>0, <1>1, <1>2, <1>4, <1>5, MoveShape DEF BeforeCommit

LEMMA PublishHistory ==
    ASSUME CountInv, HistoryInv, NEW w \in Workers, PublishStep(w)
    PROVE  HistoryShape
  <1>0. w \in Procs /\ w \in Publishers /\ StoreTypeOK /\ clock \in Nat
    BY DEF Procs, Publishers, CountInv, TypeOK, StoreTypeOK
  <1>1. CASE ReadManifest(w) \/ ReadLegacyOutputs(w)
    <2>1. /\ UNCHANGED <<attempt, success, files, report>>
          /\ ReadOk \/ ReadFailed
          /\ pc[w] \in BeforeCommit
      BY <1>1 DEF ReadManifest, ReadLegacyOutputs, taskVars, recordVars,
                  BeforeCommit, BeforeUpload
    <2>2. PICK l \in {"run", "failing", "materializeLegacy"} : Goto(w, l)
      BY <1>1 DEF ReadManifest, ReadLegacyOutputs
    <2>3. StoreShape
      BY <2>1, ReadHistory DEF StoreShape
    <2>4. BaseShape
      <3>0. /\ base \in [Publishers -> ManifestRecords]
            /\ manifest \in ManifestRecords /\ manifest' = manifest
        BY <2>1, ReadHistory DEF CountInv, TypeOK, TaskTypeOK, StoreTypeOK,
                                 Publishers
      <3>1. CASE ReadManifest(w)
        <4>1. CASE UNCHANGED base
          BY <4>1 DEF BaseShape
        <4>2. CASE base' = [base EXCEPT ![w] = [manifest EXCEPT !.covers =
                              IF mode[w] = "clean" THEN {} ELSE @]]
          BY <1>0, <3>0, <4>2 DEF BaseShape, ManifestRecords
        <4> QED BY <3>1, <4>1, <4>2 DEF ReadManifest
      <3>2. CASE ReadLegacyOutputs(w)
        <4>1. CASE UNCHANGED base
          BY <4>1 DEF BaseShape
        <4>2. CASE base' = [base EXCEPT ![w].covers = legacy]
          BY <1>0, <3>0, <4>2 DEF BaseShape, ManifestRecords
        <4> QED BY <3>2, <4>1, <4>2 DEF ReadLegacyOutputs
      <3> QED BY <1>1, <3>1, <3>2
    <2> QED BY <1>0, <2>1, <2>2, <2>3, <2>4, MoveShape
  <1>2. CASE RunBatch(w)
    <2>1. /\ UNCHANGED <<attempt, success, files, report, base>>
          /\ ReadOk \/ ReadFailed
          /\ pc[w] \in BeforeCommit
      BY <1>2 DEF RunBatch, taskVars, recordVars, BeforeCommit, BeforeUpload
    <2>2. PICK l \in {"upload", "failing"} : Goto(w, l)
      BY <1>2 DEF RunBatch
    <2> QED BY <1>0, <2>1, <2>2, ReadHistory, QuietHistory
  <1>3. CASE UploadOutput(w)
    BY <1>0, <1>3, UploadHistory DEF UploadOutput
  <1>4. CASE CommitManifest(w)
    <2>1. /\ UNCHANGED <<attempt, success, files, report, base>>
          /\ pc[w] = "commit"
          /\ Sent(CommitReq(base[w], Id(w)))
      BY <1>4 DEF CommitManifest, taskVars, recordVars, Sent
    <2>2. PICK l \in {"receipts", "readback"} :
             /\ Goto(w, l)
             /\ l = "receipts" => Answered(CommitReq(base[w], Id(w)))
      BY <1>4 DEF CommitManifest
    <2>3. l \notin BeforeCommit
      BY DEF BeforeCommit, BeforeUpload
    <2>4. StoreShape /\ (l = "receipts" => Id(w) \in CommittedIds')
      BY <1>0, <2>1, <2>2, <2>3, CommitShape
    <2>5. BaseShape
      BY <2>1 DEF BaseShape
    <2> QED BY <1>0, <2>1, <2>2, <2>3, <2>4, <2>5, MoveShape
  <1>5. CASE ConfirmManifestCommit(w)
    <2>1. /\ UNCHANGED <<attempt, success, files, report, base>>
          /\ ReadOk \/ ReadFailed
      BY <1>5 DEF ConfirmManifestCommit, taskVars, recordVars
    <2>2. PICK l \in {"receipts", "failing", "ambiguous"} :
             Goto(w, l) /\ (l = "receipts" => manifest.id = Id(w))
      BY <1>5 DEF ConfirmManifestCommit
    <2>3. manifest.id = Id(w) => Id(w) \in CommittedIds'
      <3>1. Id(w) \in GenIds
        BY <1>0, IdTypes DEF CountInv, TypeOK
      <3>2. manifest.id = Id(w) => log # <<>> /\ log[Len(log)].id = Id(w)
        BY <3>1 DEF HistoryInv, ManifestIsLast
      <3>3. log # <<>> => Len(log) \in 1 .. Len(log)
        BY <1>0 DEF StoreTypeOK
      <3>4. log' = log
        BY <2>1, ReadHistory
      <3> QED BY <3>2, <3>3, <3>4 DEF CommittedIds
    <2>4. StoreShape /\ BaseShape
      BY <2>1, ReadHistory DEF StoreShape, BaseShape
    <2>5. l \notin BeforeCommit
      BY DEF BeforeCommit, BeforeUpload
    <2> QED BY <1>0, <2>1, <2>2, <2>3, <2>4, <2>5, MoveShape
  <1> QED BY <1>1, <1>2, <1>3, <1>4, <1>5 DEF PublishStep

LEMMA FinishHistory ==
    ASSUME CountInv, HistoryInv, NEW w \in Workers, FinishStep(w)
    PROVE  HistoryShape
  <1>0. w \in Procs /\ StoreTypeOK /\ clock \in Nat
    BY DEF Procs, CountInv, TypeOK, StoreTypeOK
  <1>1. CASE RecordFailure(w) \/ RecordAmbiguous(w)
    <2>1. /\ UNCHANGED <<attempt, success, files, base>>
          /\ ReadOk \/ ReadFailed
          /\ Goto(w, "release")
      BY <1>1 DEF RecordFailure, RecordAmbiguous, Finishing, taskVars
    <2>2. \A v \in Workers : report'[v] \in Good => report[v] \in Good
      BY <1>1, NewReports DEF RecordFailure, RecordAmbiguous, Finishing, Good
    <2> QED BY <1>0, <2>1, <2>2, ReadHistory, QuietHistory
            DEF BeforeCommit, BeforeUpload
  <1>2. CASE WriteReceipts(w)
    <2>1. /\ UNCHANGED <<attempt, files, base>>
          /\ ReadOk \/ ReadFailed
          /\ Goto(w, "release") /\ pc[w] = "receipts"
          /\ success' \subseteq success \cup {Id(w)}
          /\ \E r : report' = [report EXCEPT ![w] = r]
      BY <1>2 DEF WriteReceipts, Finishing, MaybeRecord, taskVars
    <2>2. /\ pc'[w] = "release"
          /\ \A q \in Procs \ {w} : pc'[q] = pc[q]
          /\ \A q \in Procs : Id(q)' = Id(q)
          /\ \A id \in GenIds :
                Ahead(id, BeforeCommit)' => Ahead(id, BeforeCommit)
      BY <1>0, <2>1, MoveFacts DEF BeforeCommit, BeforeUpload
    <2>3. StoreShape /\ BaseShape
      BY <2>1, ReadHistory DEF StoreShape, BaseShape
    <2>4. AheadShape
      BY <2>1, <2>2 DEF AheadShape
    <2>5. \A v \in Workers \ {w} : report'[v] = report[v]
      BY <2>1 DEF CountInv, TypeOK, TaskTypeOK
    <2>6. ReceiptShape
      BY <2>1, <2>2, <2>5 DEF ReceiptShape, Procs
    <2> QED BY <2>3, <2>4, <2>6 DEF HistoryShape
  <1>3. CASE ReleaseLease(w) \/ ReleaseLeaseFails(w)
    <2>1. /\ UNCHANGED <<attempt, success, files, base>>
          /\ pc[w] = "release"
          /\ Sent(DeleteLeaseReq(held[w]))
      BY <1>3 DEF ReleaseLease, ReleaseLeaseFails, ReleaseRetries, Sent,
                  taskVars, recordVars
    <2>2. PICK l \in {"release", "exit"} : Goto(w, l)
      BY <1>3 DEF ReleaseLease, ReleaseLeaseFails, ExitWith, Goto, CountInv,
                  TypeOK, TaskTypeOK
    <2>3. \A v \in Workers : report'[v] \in Good => report[v] \in Good
      <3>1. \/ UNCHANGED report
            \/ report[w] = "ok" /\ report' = [report EXCEPT ![w] = "committed_cleanup"]
        BY <1>3 DEF ReleaseLease, ReleaseLeaseFails, ExitWith
      <3> QED BY <3>1 DEF CountInv, TypeOK, TaskTypeOK, Good
    <2>4. DeleteLeaseReq(held[w]).op = "delete"
      BY DEF DeleteLeaseReq
    <2>5. /\ UNCHANGED <<manifest, log>>
          /\ clock' \in {clock, clock + 1}
          /\ \A req \in inflight' \ inflight : req.op # "commit"
      BY <1>0, <2>1, <2>4, NoCommitEffect
    <2> QED BY <1>0, <2>1, <2>2, <2>3, <2>5, QuietHistory
            DEF BeforeCommit, BeforeUpload
  <1>4. CASE RestartTask(w) \/ EndExecution(w)
    BY <1>4, LifeHistory
  <1> QED BY <1>1, <1>2, <1>3, <1>4 DEF FinishStep

LEMMA SessionHistory ==
    ASSUME CountInv, HistoryInv, NEW s \in Sessions,
           SessionStep(s) \/ CrashSession(s)
    PROVE  HistoryShape
  <1>0. /\ s \in Procs /\ s \notin Publishers /\ s \notin Workers
        /\ StoreTypeOK /\ clock \in Nat
    BY DEF Procs, Publishers, CountInv, TypeOK, StoreTypeOK
  <1>1. UNCHANGED <<attempt, success, files, base, report>>
    BY DEF SessionStep, BeginSession, CheckNoManifest, RecheckNoManifest,
           PutLegacy, EndSession, CrashSession, taskVars, recordVars
  <1>2. PICK l : Goto(s, l)
    BY <1>0 DEF SessionStep, BeginSession, CheckNoManifest, RecheckNoManifest,
                PutLegacy, EndSession, CrashSession, Goto, CountInv, TypeOK,
                TaskTypeOK
  <1>3. /\ UNCHANGED <<manifest, log>>
        /\ clock' \in {clock, clock + 1}
        /\ \A req \in inflight' \ inflight : req.op # "commit"
    <2>1. /\ CreateLeaseReq(Redacted).op = "create"
          /\ DeleteLeaseReq(held[s]).op = "delete"
          /\ PutReq(NextWrite(s)).op = "put"
      BY DEF CreateLeaseReq, DeleteLeaseReq, PutReq
    <2>2. CASE BeginSession(s)
      BY <1>0, <2>1, <2>2, NoCommitEffect DEF BeginSession, Sent
    <2>3. CASE PutLegacy(s)
      BY <1>0, <2>1, <2>3, NoCommitEffect DEF PutLegacy, Sent
    <2>4. CASE EndSession(s)
      BY <1>0, <2>1, <2>4, NoCommitEffect DEF EndSession, ReleaseRetries, Sent
    <2>5. CASE CheckNoManifest(s) \/ RecheckNoManifest(s)
      BY <2>5, ReadHistory DEF CheckNoManifest, RecheckNoManifest
    <2>6. CASE CrashSession(s)
      BY <2>6 DEF CrashSession, storeVars
    <2> QED BY <2>2, <2>3, <2>4, <2>5, <2>6 DEF SessionStep
  <1> QED BY <1>0, <1>1, <1>2, <1>3, QuietHistory

LEMMA RebuildHistory ==
    ASSUME CountInv, HistoryInv, NEW r \in Rebuilders, RebuildStep(r)
    PROVE  HistoryShape
  <1>0. /\ r \in Procs /\ r \in Publishers /\ r \notin Workers
        /\ StoreTypeOK /\ clock \in Nat
    BY DEF Procs, Publishers, CountInv, TypeOK, StoreTypeOK
  <1>1. CASE ReadForRebuild(r)
    <2>1. /\ UNCHANGED <<attempt, success, files, report>>
          /\ ReadOk \/ ReadFailed
          /\ pc[r] \in BeforeCommit
      BY <1>1 DEF ReadForRebuild, taskVars, recordVars, BeforeCommit,
                  BeforeUpload
    <2>2. PICK l : Goto(r, l)
      BY <1>1 DEF ReadForRebuild
    <2>3. StoreShape /\ manifest' = manifest
      BY <2>1, ReadHistory DEF StoreShape
    <2>4. BaseShape
      <3>1. base \in [Publishers -> ManifestRecords]
        BY DEF CountInv, TypeOK, TaskTypeOK, Publishers
      <3>2. UNCHANGED base \/ base' = [base EXCEPT ![r] = manifest]
        BY <1>1 DEF ReadForRebuild
      <3> QED BY <1>0, <2>3, <3>1, <3>2 DEF BaseShape
    <2> QED BY <1>0, <2>1, <2>2, <2>3, <2>4, MoveShape
  <1>2. CASE UploadRebuild(r)
    BY <1>0, <1>2, UploadHistory DEF UploadRebuild
  <1>3. CASE CommitRebuild(r)
    <2>1. /\ UNCHANGED <<attempt, success, files, report, base>>
          /\ pc[r] = "commit" /\ Goto(r, "done")
          /\ Sent(CommitReq(base[r], Id(r)))
      BY <1>3 DEF CommitRebuild, taskVars, recordVars, Sent
    <2>2. "done" \notin BeforeCommit
      BY DEF BeforeCommit, BeforeUpload
    <2>3. StoreShape
      BY <1>0, <2>1, <2>2, CommitShape
    <2>4. BaseShape
      BY <2>1 DEF BaseShape
    <2> QED BY <1>0, <2>1, <2>2, <2>3, <2>4, MoveShape
  <1> QED BY <1>1, <1>2, <1>3 DEF RebuildStep

LEMMA ArriveHistory ==
    ASSUME CountInv, HistoryInv, Arrive \/ UNCHANGED vars
    PROVE  HistoryShape
  <1>0. UNCHANGED <<pc, attempt, base, files, report, success>>
    BY DEF Arrive, vars, taskVars, recordVars
  <1>1. BaseShape
    BY <1>0 DEF BaseShape
  <1>2. AheadShape /\ ReceiptShape
    <2>1. \A id \in GenIds : Ahead(id, BeforeCommit)' => Ahead(id, BeforeCommit)
      BY <1>0 DEF Ahead, Id
    <2>2. \A w \in Workers : Id(w)' = Id(w)
      BY <1>0 DEF Id
    <2> QED BY <1>0, <2>1, <2>2 DEF AheadShape, ReceiptShape
  <1>3. StoreShape
    <2>1. CASE UNCHANGED vars
      BY <2>1 DEF StoreShape, vars, storeVars
    <2>2. CASE Arrive
      <3>1. PICK req \in inflight : LateArrival(req)
        BY <2>2 DEF Arrive
      <3>2. inflight' = inflight \ {req} /\ StoreTypeOK
        BY <3>1 DEF LateArrival, CountInv, TypeOK
      <3>3. CASE req.op # "commit"
        BY <3>1, <3>2, <3>3, NoCommitEffect DEF StoreShape
      <3>4. CASE req.op = "commit"
        <4>1. req.id \in InflightIds /\ req \in Requests /\ req.id \in GenIds
          BY <3>2, <3>4 DEF InflightIds, StoreTypeOK, Requests
        <4>2. Justified(req)
          <5>1. /\ req.cond <= clock
                /\ req.cond = manifest.gen => req.prev = manifest.id
            BY <3>4 DEF HistoryInv, ManifestGensIssued, BaseMatches
          <5>2. /\ req.id \notin CommittedIds
                /\ ~Ahead(req.id, BeforeCommit)
                /\ files[req.id] = NumFiles
            BY <4>1 DEF HistoryInv, IdsFresh, UploadsComplete
          <5>3. ~Ahead(req.id, BeforeCommit)'
            BY <1>2, <4>1, <5>2 DEF AheadShape
          <5> QED BY <1>0, <3>4, <4>1, <5>1, <5>2, <5>3 DEF Justified
        <4>3. req.id \notin InflightIds'
          BY <3>2, <3>4 DEF InflightIds, HistoryInv, IdsFresh
        <4>4. CASE Replaces(req)
          BY <3>2, <4>2, <4>3, <4>4 DEF StoreShape
        <4>5. CASE UNCHANGED <<manifest, log, clock>>
          BY <3>2, <4>5 DEF StoreShape
        <4> QED BY <3>1, <3>4, <4>4, <4>5, CommitEffect
      <3> QED BY <3>3, <3>4
    <2> QED BY <2>1, <2>2
  <1> QED BY <1>1, <1>2, <1>3 DEF HistoryShape

-----------------------------------------------------------------------------

LEMMA HistoryInit == Init => HistoryInv
  BY DEF Init, StoreInit, NoManifest, HistoryInv, ManifestGensIssued,
         BaseMatches, IdsFresh, ManifestIsLast, UploadsComplete,
         ReceiptsAfterCommit, PublishedWasCommitted, CommittedIds, InflightIds,
         Publishers, Procs

LEMMA HistoryStep ==
    ASSUME CountInv, HistoryInv, [Next]_vars
    PROVE  HistoryShape
  <1>1. ASSUME NEW w \in Workers, Launch(w) \/ Crash(w) \/ WorkerStep(w)
        PROVE  HistoryShape
    BY <1>1, LifeHistory, AcquireHistory, PublishHistory, FinishHistory
       DEF WorkerStep
  <1>2. ASSUME NEW s \in Sessions, SessionStep(s) \/ CrashSession(s)
        PROVE  HistoryShape
    BY <1>2, SessionHistory
  <1>3. ASSUME NEW r \in Rebuilders, RebuildStep(r)
        PROVE  HistoryShape
    BY <1>3, RebuildHistory
  <1>4. ASSUME Arrive \/ UNCHANGED vars
        PROVE  HistoryShape
    BY <1>4, ArriveHistory
  <1> QED BY <1>1, <1>2, <1>3, <1>4 DEF Next, Finished

LEMMA HistoryNext ==
    ASSUME CountInv, HistoryInv, [Next]_vars
    PROVE  HistoryInv'
  BY HistoryStep, CountNext, HistoryShapePreserves

(* Every file of a generation is uploaded before its manifest becomes       *)
(* current, for any number of files and publishers, and stays as it was.    *)
THEOREM CommitsAreComplete == Spec => []CommittedComplete
  <1>1. Init => CountInv /\ HistoryInv
    BY CountInit, HistoryInit
  <1>2. CountInv /\ HistoryInv /\ [Next]_vars => CountInv' /\ HistoryInv'
    BY CountNext, HistoryNext
  <1>3. HistoryInv => CommittedComplete
    BY DEF HistoryInv, UploadsComplete, CommittedComplete
  <1> QED BY <1>1, <1>2, <1>3, PTL DEF Spec

(* A task reports success, and a success receipt is written, only for a     *)
(* generation that was committed, however the commit was confirmed.         *)
THEOREM ReportsAreTrue == Spec => []PublishedWasCommitted
  <1>1. Init => CountInv /\ HistoryInv
    BY CountInit, HistoryInit
  <1>2. CountInv /\ HistoryInv /\ [Next]_vars => CountInv' /\ HistoryInv'
    BY CountNext, HistoryNext
  <1>3. HistoryInv => PublishedWasCommitted
    BY DEF HistoryInv
  <1> QED BY <1>1, <1>2, <1>3, PTL DEF Spec

(* The protocol implements GenerationHistory: with or without the lease     *)
(* (the admin rebuild takes none), with late and repeated requests, the     *)
(* committed manifests form one history without forks or repetitions.       *)
THEOREM HistoryRefinement == Spec => HistorySpec
  <1>1. Init => CountInv /\ HistoryInv
    BY CountInit, HistoryInit
  <1>2. CountInv /\ HistoryInv /\ [Next]_vars => CountInv' /\ HistoryInv'
    BY CountNext, HistoryNext
  <1>3. Init => History!Init
    BY DEF Init, StoreInit, History!Init
  <1>4. CountInv /\ HistoryInv /\ [Next]_vars => [History!Next]_log
    <2> SUFFICES ASSUME CountInv, HistoryInv, [Next]_vars
                 PROVE  [History!Next]_log
      OBVIOUS
    <2>1. CASE UNCHANGED log
      BY <2>1
    <2>2. ASSUME NEW req, Justified(req), Replaces(req)
          PROVE  History!Next
      <3>1. /\ req.id \in GenIds
            /\ req.prev = manifest.id
            /\ log' = Append(log, [id |-> req.id, prev |-> req.prev])
            /\ req.id \notin CommittedIds
        BY <2>2 DEF Justified, Replaces, Requests
      <3>2. manifest.id = History!Current
        BY DEF HistoryInv, ManifestIsLast, History!Current
      <3>3. \A i \in 1 .. Len(log) : log[i].id # req.id
        BY <3>1 DEF CommittedIds
      <3>4. History!Publish(req.id)
        BY <3>1, <3>2, <3>3 DEF History!Publish
      <3> QED BY <3>1, <3>4 DEF History!Next
    <2> QED BY <2>1, <2>2, HistoryStep DEF HistoryShape, StoreShape
  <1> QED BY <1>1, <1>2, <1>3, <1>4, PTL DEF Spec, HistorySpec, History!Spec
-----------------------------------------------------------------------------
(***************************************************************************)
(* A store that applies no abandoned request later.  Every step then has   *)
(* the shape PromptShape describes: only a process at its commit replaces  *)
(* the manifest, in that very step.                                        *)
(***************************************************************************)

(* p replaces the manifest it read by its own.                              *)
CommitsAs(p) ==
    /\ pc[p] = "commit"
    /\ Replaces(CommitReq(base[p], Id(p)))
    /\ UNCHANGED <<acked, base, failure, attempt>>
    /\ pc'[p] \in {"receipts", "readback", "done"}
    /\ \A q \in Procs \ {p} : pc'[q] = pc[q]

PromptShape ==
    /\ inflight' = {}
    /\ legacy \subseteq legacy'
    /\ UNCHANGED <<manifest, log>> \/ \E p \in Publishers : CommitsAs(p)

LEMMA PromptEffect ==
    ASSUME LateDelivery = FALSE, inflight = {}, NEW req, Sent(req)
    PROVE  /\ inflight' = {}
           /\ legacy \subseteq legacy'
           /\ req.op # "commit" => UNCHANGED <<manifest, log>>
           /\ req.op = "commit" => Replaces(req) \/ UNCHANGED <<manifest, log>>
  <1>1. Apply(req) \/ UNCHANGED storeVars
    BY DEF Sent, Answered, Refused, Unanswered
  <1>2. inflight' = {}
    BY DEF Sent, Answered, Refused, Unanswered
  <1>3. CASE UNCHANGED storeVars
    BY <1>2, <1>3 DEF storeVars
  <1>4. CASE Apply(req)
    BY <1>2, <1>4 DEF Apply, Applicable, Replaces, Created, Deleted, Committed,
                      Stored
  <1> QED BY <1>1, <1>3, <1>4

LEMMA PromptRead ==
    ASSUME inflight = {}, ReadOk \/ ReadFailed
    PROVE  PromptShape
  BY DEF ReadOk, ReadFailed, storeVars, PromptShape

LEMMA PromptSent ==
    ASSUME LateDelivery = FALSE, inflight = {}, NEW req, Sent(req),
           req.op # "commit"
    PROVE  PromptShape
  BY PromptEffect DEF PromptShape

(* The commits of a worker and of a rebuild.                                *)
LEMMA PromptCommit ==
    ASSUME LateDelivery = FALSE, CountInv, inflight = {},
           NEW p \in Publishers, pc[p] = "commit",
           Sent(CommitReq(base[p], Id(p))),
           NEW l \in {"receipts", "readback", "done"}, Goto(p, l),
           UNCHANGED <<acked, base, failure, attempt>>
    PROVE  PromptShape
  <1>1. CommitReq(base[p], Id(p)).op = "commit"
    BY DEF CommitReq
  <1>2. pc'[p] = l /\ \A q \in Procs \ {p} : pc'[q] = pc[q]
    BY DEF Goto, CountInv, TypeOK, TaskTypeOK, Publishers, Procs
  <1>3. Replaces(CommitReq(base[p], Id(p))) => CommitsAs(p)
    BY <1>2 DEF CommitsAs
  <1> QED BY <1>1, <1>3, PromptEffect DEF PromptShape

LEMMA PromptWorker ==
    ASSUME LateDelivery = FALSE, CountInv, inflight = {}, NEW w \in Workers,
           Launch(w) \/ Crash(w) \/ WorkerStep(w)
    PROVE  PromptShape
  <1>1. CASE Launch(w) \/ Crash(w) \/ RestartTask(w) \/ EndExecution(w)
    BY <1>1 DEF Launch, Crash, RestartTask, EndExecution, storeVars, PromptShape
  <1>2. CASE CreateLease(w) \/ CreateConflict(w) \/ CreateFails(w)
    <2>1. Sent(CreateLeaseReq(w))
      BY <1>2 DEF CreateLease, CreateConflict, CreateFails, Sent
    <2> QED BY <2>1, PromptSent DEF CreateLeaseReq
  <1>3. CASE \/ InspectLease(w) \/ ProbeHolder(w) \/ ReadManifest(w)
             \/ ReadLegacyOutputs(w) \/ RunBatch(w) \/ UploadOutput(w)
             \/ ConfirmManifestCommit(w)
             \/ RecordFailure(w) \/ RecordAmbiguous(w) \/ WriteReceipts(w)
    <2>1. ReadOk \/ ReadFailed
      BY <1>3 DEF InspectLease, ProbeHolder, ReadManifest, ReadLegacyOutputs,
                  RunBatch, UploadOutput, UploadFile, ConfirmManifestCommit,
                  RecordFailure, RecordAmbiguous, WriteReceipts
    <2> QED BY <2>1, PromptRead
  <1>4. CASE ReclaimLease(w)
    <2>1. Sent(DeleteLeaseReq(seen[w].gen))
      BY <1>4 DEF ReclaimLease, Sent
    <2> QED BY <2>1, PromptSent DEF DeleteLeaseReq
  <1>5. CASE ReleaseLease(w) \/ ReleaseLeaseFails(w)
    <2>1. Sent(DeleteLeaseReq(held[w]))
      BY <1>5 DEF ReleaseLease, ReleaseLeaseFails, ReleaseRetries, Sent
    <2> QED BY <2>1, PromptSent DEF DeleteLeaseReq
  <1>6. CASE CommitManifest(w)
    <2>1. /\ pc[w] = "commit" /\ w \in Publishers
          /\ Sent(CommitReq(base[w], Id(w)))
          /\ UNCHANGED <<acked, base, failure, attempt>>
      BY <1>6 DEF CommitManifest, Sent, taskVars, recordVars, Publishers
    <2>2. PICK l \in {"receipts", "readback"} : Goto(w, l)
      BY <1>6 DEF CommitManifest
    <2> QED BY <2>1, <2>2, PromptCommit
  <1> QED BY <1>1, <1>2, <1>3, <1>4, <1>5, <1>6
          DEF WorkerStep, AcquireStep, PublishStep, FinishStep

LEMMA PromptOthers ==
    ASSUME LateDelivery = FALSE, CountInv, inflight = {},
           \/ \E s \in Sessions : SessionStep(s) \/ CrashSession(s)
           \/ \E r \in Rebuilders : RebuildStep(r)
           \/ Arrive \/ UNCHANGED vars
    PROVE  PromptShape
  <1>1. ASSUME NEW s \in Sessions, SessionStep(s) \/ CrashSession(s)
        PROVE  PromptShape
    <2>1. CASE BeginSession(s)
      <3>1. Sent(CreateLeaseReq(Redacted))
        BY <2>1 DEF BeginSession, Sent
      <3> QED BY <3>1, PromptSent DEF CreateLeaseReq
    <2>2. CASE CheckNoManifest(s) \/ RecheckNoManifest(s)
      BY <2>2, PromptRead DEF CheckNoManifest, RecheckNoManifest
    <2>3. CASE PutLegacy(s)
      <3>1. Sent(PutReq(NextWrite(s)))
        BY <2>3 DEF PutLegacy, Sent
      <3> QED BY <3>1, PromptSent DEF PutReq
    <2>4. CASE EndSession(s)
      <3>1. Sent(DeleteLeaseReq(held[s]))
        BY <2>4 DEF EndSession, ReleaseRetries, Sent
      <3> QED BY <3>1, PromptSent DEF DeleteLeaseReq
    <2>5. CASE CrashSession(s)
      BY <2>5 DEF CrashSession, storeVars, PromptShape
    <2> QED BY <1>1, <2>1, <2>2, <2>3, <2>4, <2>5 DEF SessionStep
  <1>2. ASSUME NEW r \in Rebuilders, RebuildStep(r)
        PROVE  PromptShape
    <2>1. CASE ReadForRebuild(r) \/ UploadRebuild(r)
      BY <2>1, PromptRead DEF ReadForRebuild, UploadRebuild, UploadFile
    <2>2. CASE CommitRebuild(r)
      <3>1. /\ pc[r] = "commit" /\ r \in Publishers /\ Goto(r, "done")
            /\ Sent(CommitReq(base[r], Id(r)))
            /\ UNCHANGED <<acked, base, failure, attempt>>
        BY <2>2 DEF CommitRebuild, Sent, taskVars, recordVars, Publishers
      <3> QED BY <3>1, PromptCommit
    <2> QED BY <1>2, <2>1, <2>2 DEF RebuildStep
  <1>3. ~Arrive
    BY DEF Arrive
  <1>4. CASE UNCHANGED vars
    BY <1>4 DEF vars, storeVars, PromptShape
  <1> QED BY <1>1, <1>2, <1>3, <1>4

LEMMA PromptStep ==
    ASSUME LateDelivery = FALSE, CountInv, inflight = {}, [Next]_vars
    PROVE  PromptShape
  BY PromptWorker, PromptOthers DEF Next, Finished
-----------------------------------------------------------------------------
(* Acknowledged legacy writes.                                              *)

AckedShape ==
    \/ UNCHANGED acked
    \/ \E s \in Sessions :
          /\ pc[s] \in Puts
          /\ acked' = [acked EXCEPT ![s] = @ + 1]
          /\ NextWrite(s) \in legacy'
          /\ UNCHANGED <<manifest, base>>

(* A base is kept, dropped, or read from the manifest.                      *)
BasesShape ==
    \A p \in Publishers :
        \/ base'[p] = base[p]
        \/ base'[p].gen = 0
        \/ base'[p] = manifest /\ UNCHANGED manifest

(* How a process gets where it writes.                                      *)
EntryShape ==
    /\ \A s \in Sessions : pc'[s] \in Puts =>
          pc[s] \in Puts \/ manifest.gen = 0
    /\ \A r \in Rebuilders : pc'[r] \in Building => base'[r].gen > 0
    /\ \A w \in Workers : pc'[w] = "materializeLegacy" => base'[w].gen = 0
    /\ \A w \in Workers : pc'[w] \in Building /\ base'[w].gen = 0 =>
          \/ pc[w] \in Building /\ base'[w] = base[w]
          \/ base'[w].covers = legacy /\ UNCHANGED acked

CoverShape ==
    /\ PromptShape /\ AckedShape /\ BasesShape /\ EntryShape
    /\ \A w \in Workers : mode'[w] # "clean"

LEMMA CoverShapePreserves ==
    ASSUME CountInv, CountInv', LeaseExclusive, HistoryInv, CoverInv, CoverShape
    PROVE  CoverInv'
  <1>0. /\ clock \in Nat /\ manifest.gen \in Nat /\ manifest.gen <= clock
        /\ \A p \in Publishers : base[p].gen \in Nat /\ base[p].gen <= clock
    BY DEF CountInv, TypeOK, StoreTypeOK, TaskTypeOK, ManifestRecords,
           Publishers, HistoryInv, ManifestGensIssued
  <1>1. UNCHANGED manifest \/ \E p \in Publishers : CommitsAs(p)
    BY DEF CoverShape, PromptShape
  <1>2. ASSUME NEW p \in Publishers, CommitsAs(p)
        PROVE  /\ manifest'.gen = clock + 1 /\ manifest'.gen > 0
               /\ manifest'.covers = base[p].covers
               /\ manifest.gen = base[p].gen
               /\ AckedWrites \subseteq base[p].covers
               /\ \A s \in Sessions : pc[s] \notin Puts
    <2>1. /\ manifest'.gen = clock + 1 /\ manifest'.covers = base[p].covers
          /\ manifest.gen = base[p].gen /\ pc[p] = "commit"
      BY <1>2 DEF CommitsAs, Replaces, CommitReq
    <2>2. AckedWrites \subseteq base[p].covers
      <3>1. CASE base[p].gen > 0
        BY <2>1, <3>1 DEF CoverInv
      <3>2. CASE base[p].gen = 0
        BY <2>1, <3>2 DEF CoverInv, Publishers, Building
      <3> QED BY <1>0, <3>1, <3>2
    <2>3. ASSUME NEW s \in Sessions, pc[s] \in Puts PROVE FALSE
      <3>1. CASE p \in Workers
        BY <2>1, <2>3, <3>1 DEF LeaseExclusive, Protected, LeaseUsers,
                                UnderLease, Puts
      <3>2. CASE p \in Rebuilders
        <4>1. base[p].gen > 0
          BY <2>1, <3>2 DEF CoverInv, Building
        <4>2. manifest.gen = 0
          BY <2>3 DEF CoverInv
        <4> QED BY <2>1, <4>1, <4>2
      <3> QED BY <3>1, <3>2 DEF Publishers
    <2> QED BY <1>0, <2>1, <2>2, <2>3
  <1>3. \/ AckedWrites' = AckedWrites
        \/ /\ UNCHANGED <<manifest, base>> /\ manifest.gen = 0
           /\ \A w \in Workers : pc[w] \notin Building
           /\ AckedWrites' \subseteq AckedWrites \cup legacy'
    <2>1. CASE UNCHANGED acked
      BY <2>1 DEF AckedWrites
    <2>2. ASSUME NEW s \in Sessions, pc[s] \in Puts,
                 acked' = [acked EXCEPT ![s] = @ + 1],
                 NextWrite(s) \in legacy', UNCHANGED <<manifest, base>>
          PROVE  /\ manifest.gen = 0
                 /\ \A w \in Workers : pc[w] \notin Building
                 /\ AckedWrites' \subseteq AckedWrites \cup legacy'
      <3>1. manifest.gen = 0
        BY <2>2 DEF CoverInv
      <3>2. \A w \in Workers : pc[w] \notin Building
        BY <2>2 DEF LeaseExclusive, Protected, LeaseUsers, UnderLease, Puts,
                    Building
      <3>3. ASSUME NEW x \in AckedWrites', x \notin AckedWrites
            PROVE  x = NextWrite(s)
        <4>1. /\ x \in Writes /\ x[1] \in Sessions /\ x[2] \in Nat
              /\ x = <<x[1], x[2]>>
              /\ x[2] <= acked'[x[1]] /\ ~(x[2] <= acked[x[1]])
          BY <3>3 DEF AckedWrites, Writes
        <4>2. acked \in [Sessions -> Nat]
          BY DEF CountInv, TypeOK, RecordTypeOK
        <4>3. x[1] = s /\ acked'[s] = acked[s] + 1
          BY <2>2, <4>1, <4>2
        <4>4. x[2] = acked[s] + 1
          BY <4>1, <4>2, <4>3
        <4> QED BY <4>1, <4>3, <4>4 DEF NextWrite
      <3> QED BY <2>2, <3>1, <3>2, <3>3
    <2> QED BY <2>1, <2>2 DEF CoverShape, AckedShape
  <1>4. inflight' = {} /\ (\A w \in Workers : mode'[w] # "clean")
    BY DEF CoverShape, PromptShape
  <1>5. (AckedWrites \subseteq legacy)'
    BY <1>3 DEF CoverInv, CoverShape, PromptShape
  <1>6. manifest'.gen = 0 => manifest' = NoManifest
    BY <1>1, <1>2 DEF CoverInv
  <1>7. \A s \in Sessions : pc'[s] \in Puts => manifest'.gen = 0
    <2>1. CASE UNCHANGED manifest
      BY <2>1 DEF CoverInv, CoverShape, EntryShape
    <2>2. ASSUME NEW p \in Publishers, CommitsAs(p), NEW s \in Sessions
          PROVE  pc'[s] \notin Puts
      <3>1. pc'[s] = pc[s]
        BY <2>2 DEF CommitsAs, Procs, Publishers
      <3> QED BY <1>2, <2>2, <3>1
    <2> QED BY <1>1, <2>1, <2>2
  <1>8. /\ \A r \in Rebuilders : pc'[r] \in Building => base'[r].gen > 0
        /\ \A w \in Workers : pc'[w] = "materializeLegacy" => base'[w].gen = 0
    BY DEF CoverShape, EntryShape
  <1>9. ASSUME NEW q \in Publishers, base'[q].gen > 0, base'[q].gen = manifest'.gen
        PROVE  base'[q].covers = manifest'.covers
    <2>1. CASE UNCHANGED manifest
      BY <1>9, <2>1 DEF CoverInv, CoverShape, BasesShape
    <2>2. CASE \E p \in Publishers : CommitsAs(p)
      <3>1. base' = base /\ manifest'.gen = clock + 1
        BY <1>2, <2>2 DEF CommitsAs
      <3> QED BY <1>0, <1>9, <3>1
    <2> QED BY <1>1, <2>1, <2>2
  <1>10. ASSUME NEW w \in Workers, pc'[w] \in Building, base'[w].gen = 0
         PROVE  AckedWrites' \subseteq base'[w].covers
    <2>1. CASE base'[w].covers = legacy /\ UNCHANGED acked
      BY <2>1 DEF AckedWrites, CoverInv
    <2>2. CASE pc[w] \in Building /\ base'[w] = base[w]
      <3>1. AckedWrites' = AckedWrites
        BY <1>3, <2>2
      <3> QED BY <1>10, <2>2, <3>1 DEF CoverInv
    <2> QED BY <1>10, <2>1, <2>2 DEF CoverShape, EntryShape
  <1>11. manifest'.gen > 0 => AckedWrites' \subseteq manifest'.covers
    <2>1. CASE UNCHANGED manifest
      BY <1>0, <1>3, <2>1 DEF CoverInv
    <2>2. ASSUME NEW p \in Publishers, CommitsAs(p)
          PROVE  AckedWrites' \subseteq manifest'.covers
      <3>1. UNCHANGED acked
        BY <2>2 DEF CommitsAs
      <3> QED BY <1>2, <2>2, <3>1 DEF AckedWrites
    <2> QED BY <1>1, <2>1, <2>2
  <1> QED BY <1>4, <1>5, <1>6, <1>7, <1>8, <1>9, <1>10, <1>11 DEF CoverInv
(* A process moves on; bases and acknowledgements stay.                     *)
LEMMA MoveCover ==
    ASSUME CountInv, CoverInv, PromptShape, NEW p \in Procs, NEW l, Goto(p, l),
           UNCHANGED <<base, acked>>, \A w \in Workers : mode'[w] # "clean",
           l \in Puts => manifest.gen = 0,
           p \in Publishers /\ l \in Building => pc[p] \in Building,
           l # "materializeLegacy"
    PROVE  CoverShape
  <1>1. pc'[p] = l /\ \A q \in Procs \ {p} : pc'[q] = pc[q]
    BY DEF Goto, CountInv, TypeOK, TaskTypeOK
  <1>2. AckedShape /\ BasesShape
    BY DEF AckedShape, BasesShape
  <1>3. EntryShape
    <2>1. \A q \in Publishers : pc'[q] \in Building => pc[q] \in Building
      BY <1>1 DEF Publishers, Procs
    <2>2. \A s \in Sessions : pc'[s] \in Puts => pc[s] \in Puts \/ manifest.gen = 0
      BY <1>1 DEF Procs
    <2>3. \A w \in Workers : pc'[w] = "materializeLegacy" => pc[w] = "materializeLegacy"
      BY <1>1 DEF Procs
    <2>4. \A q \in Publishers : base'[q] = base[q]
      OBVIOUS
    <2> QED BY <2>1, <2>2, <2>3, <2>4 DEF EntryShape, CoverInv, Publishers
  <1> QED BY <1>2, <1>3 DEF CoverShape

LEMMA LifeCover ==
    ASSUME CountInv, CoverInv, "clean" \notin Modes, PromptShape,
           NEW w \in Workers,
           Launch(w) \/ Crash(w) \/ RestartTask(w) \/ EndExecution(w)
    PROVE  CoverShape
  <1>0. w \in Procs
    BY DEF Procs
  <1>1. \A v \in Workers : mode'[v] # "clean"
    BY DEF Launch, Crash, RestartTask, EndExecution, taskVars, CoverInv,
           CountInv, TypeOK, TaskTypeOK
  <1>2. CASE Launch(w) \/ Crash(w) \/ EndExecution(w)
    <2>1. PICK l \in {"create", "exit", "done"} : Goto(w, l)
      BY <1>2 DEF Launch, Crash, EndExecution, ExitWith
    <2>2. UNCHANGED <<base, acked>>
      BY <1>2 DEF Launch, Crash, EndExecution
    <2> QED BY <1>0, <1>1, <2>1, <2>2, MoveCover DEF Puts, Building
  <1>3. CASE RestartTask(w)
    <2>1. /\ pc' = [pc EXCEPT ![w] = "create"]
          /\ base' = [base EXCEPT ![w] = NoManifest]
          /\ UNCHANGED acked
      BY <1>3 DEF RestartTask, Goto
    <2>2. /\ pc'[w] = "create" /\ base'[w] = NoManifest
          /\ \A q \in Procs \ {w} : pc'[q] = pc[q]
          /\ \A q \in Publishers \ {w} : base'[q] = base[q]
      BY <1>0, <2>1 DEF CountInv, TypeOK, TaskTypeOK, Publishers
    <2>3. AckedShape /\ BasesShape
      BY <2>1, <2>2 DEF AckedShape, BasesShape, NoManifest
    <2>4. EntryShape
      BY <2>2 DEF EntryShape, CoverInv, Publishers, Procs, Building
    <2> QED BY <1>1, <2>3, <2>4 DEF CoverShape
  <1> QED BY <1>2, <1>3

LEMMA AcquireCover ==
    ASSUME CountInv, CoverInv, PromptShape, NEW w \in Workers, AcquireStep(w)
    PROVE  CoverShape
  <1>1. /\ w \in Procs /\ UNCHANGED <<base, acked>>
        /\ \A v \in Workers : mode'[v] # "clean"
    BY DEF Procs, AcquireStep, CreateLease, CreateConflict, CreateFails,
           InspectLease, ProbeHolder, ReclaimLease, taskVars, CoverInv
  <1>2. PICK l \in {"materialize", "inspect", "exit", "recreate", "probe",
                    "delete"} : Goto(w, l)
    BY DEF AcquireStep, CreateLease, CreateConflict, CreateFails,
           InspectLease, ProbeHolder, ReclaimLease, ExitWith
  <1> QED BY <1>1, <1>2, MoveCover DEF Puts, Building

(* ReadManifest and ReadLegacyOutputs choose the base of the commit.        *)
LEMMA MaterializeCover ==
    ASSUME CountInv, CoverInv, PromptShape, NEW w \in Workers,
           ReadManifest(w) \/ ReadLegacyOutputs(w)
    PROVE  CoverShape
  <1>0. /\ w \in Procs /\ w \in Publishers /\ UNCHANGED <<acked, mode, manifest>>
        /\ manifest \in ManifestRecords /\ manifest.gen \in Nat
        /\ base \in [Publishers -> ManifestRecords]
        /\ \A v \in Workers : mode'[v] # "clean"
    BY DEF Procs, Publishers, ReadManifest, ReadLegacyOutputs, taskVars,
           CoverInv, CountInv, TypeOK, TaskTypeOK, StoreTypeOK,
           ManifestRecords, ReadOk, ReadFailed, storeVars
  <1>1. CASE UNCHANGED base /\ Goto(w, "failing")
    BY <1>0, <1>1, MoveCover DEF Puts, Building
  <1>2. ASSUME NEW l, Goto(w, l), NEW b, base' = [base EXCEPT ![w] = b],
               b = manifest \/ b.gen = 0,
               l = "materializeLegacy" => b.gen = 0,
               l \in Building /\ b.gen = 0 => b.covers = legacy,
               l \notin Puts
        PROVE  CoverShape
    <2>1. /\ pc'[w] = l /\ base'[w] = b
          /\ \A q \in Procs \ {w} : pc'[q] = pc[q]
          /\ \A q \in Publishers \ {w} : base'[q] = base[q]
      BY <1>0, <1>2 DEF Goto, CountInv, TypeOK, TaskTypeOK
    <2>2. AckedShape /\ BasesShape
      BY <1>0, <1>2, <2>1 DEF AckedShape, BasesShape
    <2>3. EntryShape
      BY <1>0, <1>2, <2>1 DEF EntryShape, CoverInv, Publishers, Procs
    <2> QED BY <1>0, <2>2, <2>3 DEF CoverShape
  <1>3. CASE ReadManifest(w)
    <2> DEFINE b == [manifest EXCEPT !.covers = IF mode[w] = "clean" THEN {} ELSE @]
               l == CASE manifest.gen > 0    -> "run"
                      [] mode[w] = "clean"   -> "run"
                      [] mode[w] = "suggest" -> "failing"
                      [] OTHER               -> "materializeLegacy"
    <2>1. CASE UNCHANGED base /\ Goto(w, "failing")
      BY <1>1, <2>1
    <2>2. CASE base' = [base EXCEPT ![w] = b] /\ Goto(w, l)
      <3>1. mode[w] # "clean"
        BY DEF CoverInv
      <3>2. b = manifest
        BY <1>0, <3>1 DEF ManifestRecords
      <3>3. /\ l \in {"run", "failing", "materializeLegacy"}
            /\ l = "run" => manifest.gen > 0
            /\ l = "materializeLegacy" => manifest.gen = 0
        BY <1>0, <3>1
      <3> HIDE DEF b, l
      <3>4. /\ l = "materializeLegacy" => b.gen = 0
            /\ l \in Building /\ b.gen = 0 => b.covers = legacy
            /\ l \notin Puts
        BY <1>0, <3>2, <3>3 DEF Building, Puts
      <3> QED BY <1>2, <2>2, <3>2, <3>4
    <2> QED BY <1>3, <2>1, <2>2 DEF ReadManifest
  <1>4. CASE ReadLegacyOutputs(w)
    <2>1. CASE UNCHANGED base /\ Goto(w, "failing")
      BY <1>1, <2>1
    <2>2. CASE base' = [base EXCEPT ![w].covers = legacy] /\ Goto(w, "run")
      <3> DEFINE b == [base[w] EXCEPT !.covers = legacy]
      <3>1. /\ base' = [base EXCEPT ![w] = b]
            /\ b.gen = base[w].gen /\ b.covers = legacy
        BY <1>0, <2>2 DEF ManifestRecords
      <3>2. base[w].gen = 0
        BY <1>4 DEF ReadLegacyOutputs, CoverInv
      <3> HIDE DEF b
      <3>3. /\ Goto(w, "run") /\ base' = [base EXCEPT ![w] = b]
            /\ b.gen = 0 /\ b.covers = legacy /\ "run" \notin Puts
        BY <2>2, <3>1, <3>2 DEF Puts
      <3> QED BY <1>2, <3>3
    <2> QED BY <1>4, <2>1, <2>2 DEF ReadLegacyOutputs
  <1> QED BY <1>3, <1>4

LEMMA PublishCover ==
    ASSUME CountInv, CoverInv, PromptShape, NEW w \in Workers,
           PublishStep(w) \/ FinishStep(w), ~RestartTask(w), ~EndExecution(w)
    PROVE  CoverShape
  <1>1. CASE ReadManifest(w) \/ ReadLegacyOutputs(w)
    BY <1>1, MaterializeCover
  <1>2. CASE RunBatch(w) \/ UploadOutput(w) \/ CommitManifest(w) \/ ConfirmManifestCommit(w)
    <2>1. /\ w \in Procs /\ UNCHANGED <<base, acked>>
          /\ \A v \in Workers : mode'[v] # "clean"
      BY <1>2 DEF Procs, RunBatch, UploadOutput, UploadFile, CommitManifest,
                  ConfirmManifestCommit, taskVars, CoverInv
    <2>2. PICK l \in {"upload", "commit", "failing", "receipts", "readback",
                      "ambiguous"} :
             Goto(w, l) /\ (l \in Building => pc[w] \in Building)
      BY <1>2 DEF RunBatch, UploadOutput, UploadFile, CommitManifest,
                  ConfirmManifestCommit, Building
    <2> QED BY <2>1, <2>2, MoveCover DEF Puts
  <1>3. CASE \/ RecordFailure(w) \/ RecordAmbiguous(w) \/ WriteReceipts(w)
             \/ ReleaseLease(w) \/ ReleaseLeaseFails(w)
    <2>1. /\ w \in Procs /\ UNCHANGED <<base, acked>>
          /\ \A v \in Workers : mode'[v] # "clean"
      BY <1>3 DEF Procs, RecordFailure, RecordAmbiguous, WriteReceipts,
                  Finishing, ReleaseLease, ReleaseLeaseFails, taskVars, CoverInv
    <2>2. PICK l \in {"release", "exit"} : Goto(w, l)
      BY <1>3 DEF RecordFailure, RecordAmbiguous, WriteReceipts, Finishing,
                  ReleaseLease, ReleaseLeaseFails, ExitWith, Goto, CountInv,
                  TypeOK, TaskTypeOK
    <2> QED BY <2>1, <2>2, MoveCover DEF Puts, Building
  <1> QED BY <1>1, <1>2, <1>3 DEF PublishStep, FinishStep

LEMMA SessionCover ==
    ASSUME CountInv, CoverInv, PromptShape, NEW s \in Sessions,
           SessionStep(s) \/ CrashSession(s)
    PROVE  CoverShape
  <1>0. /\ s \in Procs /\ s \notin Publishers /\ UNCHANGED base
        /\ \A w \in Workers : mode'[w] # "clean"
    BY DEF Procs, Publishers, SessionStep, BeginSession, CheckNoManifest,
           RecheckNoManifest, PutLegacy, EndSession, CrashSession, taskVars,
           CoverInv
  <1>1. CASE ~PutLegacy(s)
    <2>1. UNCHANGED acked
      BY <1>1 DEF SessionStep, BeginSession, CheckNoManifest,
                  RecheckNoManifest, EndSession, CrashSession
    <2>2. PICK l : /\ Goto(s, l) /\ l # "materializeLegacy"
                   /\ l \in Puts => manifest = NoManifest
      BY <1>1 DEF SessionStep, BeginSession, CheckNoManifest,
                  RecheckNoManifest, EndSession, CrashSession, Goto, Puts,
                  CountInv, TypeOK, TaskTypeOK, SessionPCs
    <2> QED BY <1>0, <2>1, <2>2, MoveCover DEF NoManifest
  <1>2. CASE PutLegacy(s)
    <2>1. PICK l \in {"release", "recheck"} : Goto(s, l)
      BY <1>2 DEF PutLegacy
    <2>2. CASE UNCHANGED acked
      BY <1>0, <2>1, <2>2, MoveCover DEF Puts
    <2>3. CASE /\ Answered(PutReq(NextWrite(s)))
               /\ acked' = [acked EXCEPT ![s] = @ + 1]
      <3>1. NextWrite(s) \in legacy' /\ UNCHANGED manifest
        BY <2>3 DEF Answered, Apply, PutReq, Created, Deleted, Committed, Stored
      <3>2. AckedShape /\ BasesShape
        BY <1>0, <1>2, <2>3, <3>1 DEF PutLegacy, AckedShape, BasesShape, Puts
      <3>3. pc'[s] = l /\ \A q \in Procs \ {s} : pc'[q] = pc[q]
        BY <1>0, <2>1 DEF Goto, CountInv, TypeOK, TaskTypeOK
      <3>4. EntryShape
        BY <1>0, <3>3 DEF EntryShape, CoverInv, Puts, Publishers, Procs
      <3> QED BY <1>0, <3>2, <3>4 DEF CoverShape
    <2> QED BY <1>2, <2>2, <2>3 DEF PutLegacy
  <1> QED BY <1>1, <1>2

LEMMA RebuildCover ==
    ASSUME CountInv, CoverInv, PromptShape, NEW r \in Rebuilders, RebuildStep(r)
    PROVE  CoverShape
  <1>0. /\ r \in Procs /\ r \in Publishers /\ r \notin Workers
        /\ UNCHANGED acked /\ \A w \in Workers : mode'[w] # "clean"
    BY DEF Procs, Publishers, RebuildStep, ReadForRebuild, UploadRebuild,
           UploadFile, CommitRebuild, taskVars, CoverInv
  <1>1. CASE UploadRebuild(r) \/ CommitRebuild(r)
    <2>1. UNCHANGED base /\ pc[r] \in Building
      BY <1>1 DEF UploadRebuild, UploadFile, CommitRebuild, Building
    <2>2. PICK l \in {"upload", "commit", "done"} : Goto(r, l)
      BY <1>1 DEF UploadRebuild, UploadFile, CommitRebuild
    <2> QED BY <1>0, <2>1, <2>2, MoveCover DEF Puts
  <1>2. CASE ReadForRebuild(r)
    <2>1. CASE UNCHANGED base /\ Goto(r, "done")
      BY <1>0, <2>1, MoveCover DEF Puts, Building
    <2>2. CASE /\ manifest # NoManifest /\ ReadOk
               /\ base' = [base EXCEPT ![r] = manifest] /\ Goto(r, "upload")
      <3>1. /\ pc'[r] = "upload" /\ base'[r] = manifest
            /\ \A q \in Procs \ {r} : pc'[q] = pc[q]
            /\ \A q \in Publishers \ {r} : base'[q] = base[q]
        BY <1>0, <2>2 DEF Goto, CountInv, TypeOK, TaskTypeOK, Publishers
      <3>2. UNCHANGED manifest /\ manifest.gen > 0
        BY <2>2 DEF ReadOk, storeVars, CoverInv, CountInv, TypeOK, StoreTypeOK,
                    ManifestRecords
      <3>3. AckedShape /\ BasesShape
        BY <1>0, <3>1, <3>2 DEF AckedShape, BasesShape
      <3>4. EntryShape
        BY <1>0, <3>1, <3>2 DEF EntryShape, CoverInv, Publishers, Procs
      <3> QED BY <1>0, <3>3, <3>4 DEF CoverShape
    <2> QED BY <1>2, <2>1, <2>2 DEF ReadForRebuild
  <1> QED BY <1>1, <1>2 DEF RebuildStep

LEMMA CoverNext ==
    ASSUME LateDelivery = FALSE, "clean" \notin Modes,
           CountInv, LeaseInv, HistoryInv, CoverInv, [Next]_vars
    PROVE  CoverInv'
  <1>0. PromptShape
    BY PromptStep DEF CoverInv
  <1>1. ASSUME NEW w \in Workers, Launch(w) \/ Crash(w) \/ WorkerStep(w)
        PROVE  CoverShape
    BY <1>0, <1>1, LifeCover, AcquireCover, PublishCover DEF WorkerStep
  <1>2. ASSUME NEW s \in Sessions, SessionStep(s) \/ CrashSession(s)
        PROVE  CoverShape
    BY <1>0, <1>2, SessionCover
  <1>3. ASSUME NEW r \in Rebuilders, RebuildStep(r)
        PROVE  CoverShape
    BY <1>0, <1>3, RebuildCover
  <1>4. ~Arrive
    BY DEF Arrive, CoverInv
  <1>5. ASSUME UNCHANGED vars
        PROVE  CoverShape
    <2>1. UNCHANGED <<pc, base, acked, mode>>
      BY <1>5 DEF vars, taskVars
    <2>2. AckedShape /\ BasesShape /\ \A w \in Workers : mode'[w] # "clean"
      BY <2>1 DEF AckedShape, BasesShape, CoverInv
    <2>3. EntryShape
      BY <2>1 DEF EntryShape, CoverInv
    <2> QED BY <1>0, <2>2, <2>3 DEF CoverShape
  <1>6. CoverShape
    <2>1. CASE \E w \in Workers : Launch(w) \/ Crash(w) \/ WorkerStep(w)
      BY <1>1, <2>1
    <2>2. CASE \E s \in Sessions : SessionStep(s) \/ CrashSession(s)
      BY <1>2, <2>2
    <2>3. CASE \E r \in Rebuilders : RebuildStep(r)
      BY <1>3, <2>3
    <2> QED BY <1>4, <1>5, <2>1, <2>2, <2>3 DEF Next, Finished
  <1> QED BY <1>6, CountNext, LeaseExcludes, CoverShapePreserves

LEMMA CoverInit == Init => CoverInv
  BY DEF Init, StoreInit, NoManifest, CoverInv, AckedWrites, Writes, Puts,
         Building, Publishers, Procs

(* For any number of executions, BFF sessions, admin rebuilds and writes:   *)
(* when the store applies no abandoned request later and no run is a clean  *)
(* rebuild, a legacy write the BFF acknowledged is in every generation that *)
(* takes over the project.                                                  *)
THEOREM AcknowledgedWritesStay ==
    ASSUME LateDelivery = FALSE, "clean" \notin Modes
    PROVE  Spec => []LegacyCovered
  <1>1. Init => CountInv /\ LeaseInv /\ HistoryInv /\ CoverInv
    BY CountInit, LeaseInit, HistoryInit, CoverInit
  <1>2. CountInv /\ LeaseInv /\ HistoryInv /\ CoverInv /\ [Next]_vars
            => CountInv' /\ LeaseInv' /\ HistoryInv' /\ CoverInv'
    BY CountNext, LeaseNext, HistoryNext, CoverNext
  <1>3. CoverInv => LegacyCovered
    BY DEF CoverInv, LegacyCovered, AckedWrites
  <1> QED BY <1>1, <1>2, <1>3, PTL DEF Spec

-----------------------------------------------------------------------------
(* Failure receipts.                                                        *)

OutcomeShape ==
    /\ PromptShape
    /\ \A w \in Workers : pc'[w] \in {"failing", "readback"} => Id(w)' = Id(w)
    /\ \A w \in Workers : pc'[w] = "failing" =>
          \/ pc[w] = "failing" \/ pc[w] \in BeforeCommit
          \/ pc[w] = "readback" /\ manifest.id # Id(w)
    /\ \A w \in Workers : pc'[w] = "readback" => pc[w] \in {"readback", "commit"}
    /\ \A id \in failure' : id \in failure
          \/ \E w \in Workers : pc[w] = "failing" /\ id = Id(w)

LEMMA OutcomeShapePreserves ==
    ASSUME Rebuilders = {}, CountInv, LeaseExclusive, HistoryInv, HistoryShape,
           OutcomeInv, OutcomeShape
    PROVE  OutcomeInv'
  <1>0. \A w \in Workers : Id(w) \in GenIds /\ Id(w)[1] = w
    BY IdTypes DEF CountInv, TypeOK, Publishers
  <1>1. \/ UNCHANGED <<manifest, log>> /\ CommittedIds' = CommittedIds
        \/ \E p \in Workers : CommitsAs(p)
    BY DEF OutcomeShape, PromptShape, Publishers, CommittedIds
  <1>2. ASSUME NEW p \in Workers, CommitsAs(p)
        PROVE  /\ CommittedIds' = CommittedIds \cup {Id(p)}
               /\ manifest'.id = Id(p)
               /\ Ahead(Id(p), BeforeCommit)
               /\ \A w \in Workers \ {p} :
                     pc'[w] # "readback" /\ pc'[w] = pc[w] /\ Id(w) # Id(p)
    <2>1. /\ pc[p] = "commit" /\ manifest'.id = Id(p)
          /\ log' = Append(log, [id |-> Id(p), prev |-> base[p].id])
          /\ \A w \in Workers \ {p} : pc'[w] = pc[w]
      BY <1>2 DEF CommitsAs, Replaces, CommitReq, Procs
    <2>2. [id |-> Id(p), prev |-> base[p].id] \in
              [id : GenIds, prev : GenIds \cup {NoId}]
      BY <1>0 DEF CountInv, TypeOK, TaskTypeOK, ManifestRecords
    <2>3. CommittedIds' = CommittedIds \cup {Id(p)}
      BY <1>0, <2>1, <2>2, CommittedGrows DEF CountInv, TypeOK
    <2>4. Ahead(Id(p), BeforeCommit)
      BY <1>0, <2>1 DEF Ahead, BeforeCommit
    <2>5. \A w \in Workers \ {p} : pc[w] # "readback"
      BY <2>1 DEF LeaseExclusive, Protected, LeaseUsers, UnderLease
    <2>6. \A w \in Workers \ {p} : Id(w) # Id(p)
      BY <1>0
    <2> QED BY <2>1, <2>3, <2>4, <2>5, <2>6
  <1>3. \A w \in Workers : pc[w] \in BeforeCommit => Id(w) \notin CommittedIds
    BY <1>0 DEF HistoryInv, IdsFresh, Ahead
  <1>4. \A w \in Workers : pc[w] = "readback" /\ manifest.id # Id(w) =>
            Id(w) \notin CommittedIds
    BY DEF OutcomeInv
  <1>5. \A w \in Workers : pc'[w] = "failing" =>
            Id(w)' = Id(w) /\ Id(w) \notin CommittedIds
    BY <1>3, <1>4 DEF OutcomeShape, OutcomeInv
  <1>6. ASSUME NEW w \in Workers, pc'[w] = "failing"
        PROVE  Id(w)' \notin CommittedIds'
    <2>1. ASSUME NEW p \in Workers, CommitsAs(p)
          PROVE  Id(w) # Id(p)
      BY <1>2, <1>6, <2>1 DEF CommitsAs
    <2> QED BY <1>1, <1>2, <1>5, <1>6, <2>1
  <1>7. ASSUME NEW w \in Workers, pc'[w] = "readback", Id(w)' \in CommittedIds'
        PROVE  manifest'.id = Id(w)'
    <2>1. Id(w)' = Id(w) /\ pc[w] \in {"readback", "commit"}
      BY <1>7 DEF OutcomeShape
    <2>2. CASE UNCHANGED manifest /\ CommittedIds' = CommittedIds
      <3>1. pc[w] # "commit"
        BY <1>3, <1>7, <2>1, <2>2 DEF BeforeCommit
      <3> QED BY <1>7, <2>1, <2>2, <3>1 DEF OutcomeInv
    <2>3. ASSUME NEW p \in Workers, CommitsAs(p)
          PROVE  manifest'.id = Id(w)
      BY <1>2, <1>7, <2>3
    <2> QED BY <1>1, <2>1, <2>2, <2>3
  <1>8. ASSUME NEW id \in failure'
        PROVE  id \notin CommittedIds' /\ ~Ahead(id, BeforeCommit)'
    <2>1. id \in GenIds /\ id \notin CommittedIds /\ ~Ahead(id, BeforeCommit)
      <3>1. CASE id \in failure
        BY <3>1 DEF OutcomeInv, CountInv, TypeOK, RecordTypeOK
      <3>2. ASSUME NEW w \in Workers, pc[w] = "failing", id = Id(w)
            PROVE  id \in GenIds /\ id \notin CommittedIds
                   /\ ~Ahead(id, BeforeCommit)
        <4>1. id \in GenIds /\ id \notin CommittedIds /\ id[1] = w
          BY <1>0, <3>2 DEF OutcomeInv
        <4>2. ~(id[2] > attempt[w])
          <5>1. id[2] = attempt[w] /\ attempt[w] \in Nat
            BY <3>2 DEF Id, CountInv, TypeOK, TaskTypeOK
          <5> QED BY <5>1
        <4> QED BY <3>2, <4>1, <4>2 DEF Ahead, BeforeCommit, BeforeUpload
      <3> QED BY <3>1, <3>2 DEF OutcomeShape
    <2>2. ~Ahead(id, BeforeCommit)'
      BY <2>1 DEF HistoryShape, AheadShape
    <2>3. ASSUME NEW p \in Workers, CommitsAs(p)
          PROVE  id # Id(p)
      BY <1>2, <2>1, <2>3
    <2> QED BY <1>1, <1>2, <2>1, <2>2, <2>3
  <1>9. inflight' = {}
    BY DEF OutcomeShape, PromptShape
  <1> QED BY <1>6, <1>7, <1>8, <1>9 DEF OutcomeInv

(* One worker moves on; receipts stay.                                      *)
LEMMA MoveOutcome ==
    ASSUME CountInv, PromptShape, NEW p \in Procs, NEW l, Goto(p, l),
           UNCHANGED <<attempt, failure>>,
           p \in Workers /\ l = "failing" =>
               \/ pc[p] \in BeforeCommit
               \/ pc[p] = "readback" /\ manifest.id # Id(p),
           p \in Workers /\ l = "readback" => pc[p] = "commit"
    PROVE  OutcomeShape
  <1>1. pc'[p] = l /\ \A q \in Procs \ {p} : pc'[q] = pc[q]
    BY DEF Goto, CountInv, TypeOK, TaskTypeOK
  <1>2. \A w \in Workers : w \in Procs /\ Id(w)' = Id(w)
    BY DEF Id, Procs
  <1> QED BY <1>1, <1>2 DEF OutcomeShape

LEMMA WorkerOutcome ==
    ASSUME CountInv, PromptShape, NEW w \in Workers,
           Launch(w) \/ Crash(w) \/ WorkerStep(w)
    PROVE  OutcomeShape
  <1>0. w \in Procs
    BY DEF Procs
  <1>1. CASE Launch(w) \/ Crash(w) \/ EndExecution(w)
    <2>1. PICK l \in {"create", "exit", "done"} : Goto(w, l)
      BY <1>1 DEF Launch, Crash, EndExecution, ExitWith
    <2>2. UNCHANGED <<attempt, failure>>
      BY <1>1 DEF Launch, Crash, EndExecution, taskVars, recordVars
    <2> QED BY <1>0, <2>1, <2>2, MoveOutcome
  <1>2. CASE RestartTask(w)
    <2>1. /\ pc' = [pc EXCEPT ![w] = "create"] /\ UNCHANGED failure
          /\ attempt' = [attempt EXCEPT ![w] = @ + 1]
      BY <1>2 DEF RestartTask, Goto, recordVars
    <2>2. /\ pc'[w] = "create"
          /\ \A v \in Workers \ {w} : pc'[v] = pc[v] /\ Id(v)' = Id(v)
      BY <2>1 DEF CountInv, TypeOK, TaskTypeOK, Procs, Id
    <2> QED BY <2>1, <2>2 DEF OutcomeShape
  <1>3. CASE AcquireStep(w)
    <2>1. UNCHANGED <<attempt, failure>>
      BY <1>3 DEF AcquireStep, CreateLease, CreateConflict, CreateFails,
                  InspectLease, ProbeHolder, ReclaimLease, taskVars, recordVars
    <2>2. PICK l \in {"materialize", "inspect", "exit", "recreate", "probe",
                      "delete"} : Goto(w, l)
      BY <1>3 DEF AcquireStep, CreateLease, CreateConflict, CreateFails,
                  InspectLease, ProbeHolder, ReclaimLease, ExitWith
    <2> QED BY <1>0, <2>1, <2>2, MoveOutcome
  <1>4. CASE PublishStep(w)
    <2>1. UNCHANGED <<attempt, failure>>
      BY <1>4 DEF PublishStep, ReadManifest, ReadLegacyOutputs, RunBatch,
                  UploadOutput, UploadFile, CommitManifest,
                  ConfirmManifestCommit, taskVars, recordVars
    <2>2. CASE \/ ReadManifest(w) \/ ReadLegacyOutputs(w) \/ RunBatch(w)
               \/ UploadOutput(w)
      <3>1. pc[w] \in BeforeCommit
        BY <2>2 DEF ReadManifest, ReadLegacyOutputs, RunBatch, UploadOutput,
                    UploadFile, BeforeCommit, BeforeUpload
      <3>2. PICK l : Goto(w, l) /\ l # "readback"
        BY <2>2 DEF ReadManifest, ReadLegacyOutputs, RunBatch, UploadOutput,
                    UploadFile
      <3> QED BY <1>0, <2>1, <3>1, <3>2, MoveOutcome
    <2>3. CASE CommitManifest(w)
      <3>1. PICK l \in {"receipts", "readback"} : Goto(w, l)
        BY <2>3 DEF CommitManifest
      <3> QED BY <1>0, <2>1, <2>3, <3>1, MoveOutcome DEF CommitManifest
    <2>4. CASE ConfirmManifestCommit(w)
      <3>1. PICK l \in {"receipts", "failing", "ambiguous"} :
               Goto(w, l) /\ (l = "failing" => manifest.id # Id(w))
        BY <2>4 DEF ConfirmManifestCommit
      <3> QED BY <1>0, <2>1, <2>4, <3>1, MoveOutcome DEF ConfirmManifestCommit
    <2> QED BY <1>4, <2>2, <2>3, <2>4 DEF PublishStep
  <1>5. CASE RecordFailure(w)
    <2>1. /\ Goto(w, "release") /\ pc[w] = "failing" /\ UNCHANGED attempt
          /\ failure' \subseteq failure \cup {Id(w)}
      BY <1>5 DEF RecordFailure, Finishing, MaybeRecord, taskVars
    <2>2. pc'[w] = "release" /\ \A v \in Workers \ {w} : pc'[v] = pc[v]
      BY <2>1 DEF Goto, CountInv, TypeOK, TaskTypeOK, Procs
    <2>3. \A v \in Workers : Id(v)' = Id(v)
      BY <2>1 DEF Id
    <2> QED BY <2>1, <2>2, <2>3 DEF OutcomeShape
  <1>6. CASE \/ RecordAmbiguous(w) \/ WriteReceipts(w) \/ ReleaseLease(w)
             \/ ReleaseLeaseFails(w)
    <2>1. UNCHANGED <<attempt, failure>>
      BY <1>6 DEF RecordAmbiguous, WriteReceipts, Finishing, ReleaseLease,
                  ReleaseLeaseFails, taskVars, recordVars
    <2>2. PICK l \in {"release", "exit"} : Goto(w, l)
      BY <1>6 DEF RecordAmbiguous, WriteReceipts, Finishing, ReleaseLease,
                  ReleaseLeaseFails, ExitWith, Goto, CountInv, TypeOK,
                  TaskTypeOK
    <2> QED BY <1>0, <2>1, <2>2, MoveOutcome
  <1> QED BY <1>1, <1>2, <1>3, <1>4, <1>5, <1>6 DEF WorkerStep, FinishStep

LEMMA SessionOutcome ==
    ASSUME CountInv, PromptShape, NEW s \in Sessions,
           SessionStep(s) \/ CrashSession(s)
    PROVE  OutcomeShape
  <1>0. s \in Procs /\ s \notin Workers
    BY DEF Procs
  <1>1. UNCHANGED <<attempt, failure>>
    BY DEF SessionStep, BeginSession, CheckNoManifest, RecheckNoManifest,
           PutLegacy, EndSession, CrashSession, taskVars, recordVars
  <1>2. PICK l : Goto(s, l)
    BY <1>0 DEF SessionStep, BeginSession, CheckNoManifest, RecheckNoManifest,
                PutLegacy, EndSession, CrashSession, Goto, CountInv, TypeOK,
                TaskTypeOK
  <1> QED BY <1>0, <1>1, <1>2, MoveOutcome

LEMMA OutcomeNext ==
    ASSUME LateDelivery = FALSE, Rebuilders = {},
           CountInv, LeaseInv, HistoryInv, OutcomeInv, [Next]_vars
    PROVE  OutcomeInv'
  <1>0. PromptShape
    BY PromptStep DEF OutcomeInv
  <1>1. ASSUME UNCHANGED vars
        PROVE  OutcomeShape
    <2>1. UNCHANGED <<pc, attempt, failure>>
      BY <1>1 DEF vars, taskVars, recordVars
    <2>2. \A w \in Workers : Id(w)' = Id(w)
      BY <2>1 DEF Id
    <2> QED BY <1>0, <2>1, <2>2 DEF OutcomeShape
  <1>2. ~Arrive
    BY DEF Arrive, OutcomeInv
  <1>3. OutcomeShape
    <2>1. CASE \E w \in Workers : Launch(w) \/ Crash(w) \/ WorkerStep(w)
      BY <1>0, <2>1, WorkerOutcome
    <2>2. CASE \E s \in Sessions : SessionStep(s) \/ CrashSession(s)
      BY <1>0, <2>2, SessionOutcome
    <2> QED BY <1>1, <1>2, <2>1, <2>2 DEF Next, Finished
  <1> QED BY <1>3, HistoryStep, LeaseExcludes, OutcomeShapePreserves

LEMMA OutcomeInit == Init => OutcomeInv
  BY DEF Init, StoreInit, OutcomeInv, Procs

(* For any number of executions, tasks and BFF sessions: when the store     *)
(* applies no abandoned request later and no admin rebuild replaces the     *)
(* manifest meanwhile, a failure receipt speaks of a generation that was    *)
(* not and never will be committed, whatever answers were lost.             *)
THEOREM FailureReceiptsAreTrue ==
    ASSUME LateDelivery = FALSE, Rebuilders = {}
    PROVE  Spec => []FailureReceiptTrue
  <1>1. Init => CountInv /\ LeaseInv /\ HistoryInv /\ OutcomeInv
    BY CountInit, LeaseInit, HistoryInit, OutcomeInit
  <1>2. CountInv /\ LeaseInv /\ HistoryInv /\ OutcomeInv /\ [Next]_vars
            => CountInv' /\ LeaseInv' /\ HistoryInv' /\ OutcomeInv'
    BY CountNext, LeaseNext, HistoryNext, OutcomeNext
  <1>3. OutcomeInv => FailureReceiptTrue
    BY DEF OutcomeInv, FailureReceiptTrue
  <1> QED BY <1>1, <1>2, <1>3, PTL DEF Spec
=============================================================================
