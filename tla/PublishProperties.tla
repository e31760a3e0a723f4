-------------------------- MODULE PublishProperties --------------------------
(***************************************************************************)
(* What the publication protocol must guarantee.  The invariants that are  *)
(* proved for every instance are conjunctions of named parts; TLC checks   *)
(* the same formulas on small instances.                                   *)
(***************************************************************************)
EXTENDS PublishProtocol

LeaseRecords    == [gen : Nat, holder : Holders \cup {NoHolder}]
ManifestRecords == [gen : Nat, id : GenIds \cup {NoId},
                    prev : GenIds \cup {NoId}, covers : SUBSET Writes]
Requests ==
         [op : {"create"}, holder : Holders]
    \cup [op : {"delete"}, cond : Nat]
    \cup [op : {"commit"}, cond : Nat, id : GenIds, prev : GenIds \cup {NoId},
          covers : SUBSET Writes]
    \cup [op : {"put"}, write : Writes]

StoreTypeOK ==
    /\ lease \in LeaseRecords
    /\ manifest \in ManifestRecords
    /\ clock \in Nat
    /\ legacy \subseteq Writes
    /\ log \in Seq([id : GenIds, prev : GenIds \cup {NoId}])
    /\ inflight \subseteq Requests
    /\ faults \in 0 .. MaxFaults

TaskTypeOK ==
    /\ exec \in [Workers -> {"none", "RUNNING", "terminal"}]
    /\ attempt \in [Workers -> 1 .. MaxAttempts]
    /\ mode \in [Workers -> {"full", "clean", "suggest"}]
    /\ pc \in [Procs -> WorkerPCs \cup SessionPCs \cup RebuildPCs]
    /\ \A w \in Workers : pc[w] \in WorkerPCs
    /\ \A s \in Sessions : pc[s] \in SessionPCs
    /\ \A r \in Rebuilders : pc[r] \in RebuildPCs
    /\ held \in [Workers \cup Sessions -> Nat]
    /\ seen \in [Workers -> LeaseRecords]
    /\ base \in [Workers \cup Rebuilders -> ManifestRecords]
    /\ tries \in [Workers \cup Sessions -> 0 .. ReleaseAttempts]
    /\ report \in [Workers -> Reports]

RecordTypeOK ==
    /\ files \in [GenIds -> 0 .. NumFiles]
    /\ acked \in [Sessions -> 0 .. WritesPerSession]
    /\ success \subseteq GenIds
    /\ failure \subseteq GenIds
    /\ diagnostic \in [Workers -> Classes]

(* Every variable of the protocol has the shape the code gives it; task     *)
(* counters, release attempts, uploads and session writes stay within their *)
(* bounds.                                                                  *)
TypeOK == StoreTypeOK /\ TaskTypeOK /\ RecordTypeOK

-----------------------------------------------------------------------------
(* Mutual exclusion.                                                        *)

LeaseUsers == Workers \cup Sessions

(* Where a process relies on holding the lease.                             *)
UnderLease == {"materialize", "materializeLegacy", "run", "upload", "commit",
               "readback", "failing", "ambiguous", "receipts",
               "check", "recheck", "put", "putOnce"}

Protected(p) == p \in LeaseUsers /\ pc[p] \in UnderLease

(* Between acquireCloudLease (or BeginLegacyGenerationWrite) and its        *)
(* release no second worker or BFF session is inside: neither a reclaim, a  *)
(* release whose answer was lost, a task restart nor a late request lets    *)
(* one in.                                                                  *)
LeaseExclusive ==
    \A p, q \in LeaseUsers : Protected(p) /\ Protected(q) => p = q

(* The lease object of a process inside is still the very object it         *)
(* created: nobody deleted it, and nobody put another in its place.         *)
HolderKeepsLease ==
    \A p \in LeaseUsers :
        Protected(p) => lease = [gen |-> held[p], holder |-> Owner(p)]

-----------------------------------------------------------------------------
(* The generations.                                                         *)

CommittedIds == {log[i].id : i \in 1 .. Len(log)}

(* A manifest becomes current only after every file it declares was         *)
(* uploaded, and nothing is uploaded to a committed generation again.       *)
CommittedComplete == \A id \in CommittedIds : files[id] = NumFiles

(* current.json is the last manifest of the history.                        *)
ManifestIsLast ==
    manifest.id = IF log = <<>> THEN NoId ELSE log[Len(log)].id

(* A task that reports its generation as published (with or without         *)
(* recording or cleanup errors), and every success receipt, speaks of a     *)
(* generation that really was committed.                                    *)
PublishedWasCommitted ==
    /\ success \subseteq CommittedIds
    /\ \A w \in Workers :
          report[w] \in {"ok", "committed_receipt", "committed_cleanup"}
              => Id(w) \in CommittedIds

(* Every legacy write the BFF acknowledged is part of the generation that   *)
(* took over the project, and of all that follow it (no run of the instance *)
(* being a clean rebuild): it is never shadowed by a first manifest that    *)
(* was built without it.                                                    *)
LegacyCovered ==
    manifest.gen > 0 =>
        \A x \in Writes : x[2] <= acked[x[1]] => x \in manifest.covers

(* A failure receipt is written only for a generation that was not and      *)
(* never will be committed.                                                 *)
FailureReceiptTrue == failure \cap CommittedIds = {}

(* The committed manifests form one unforked history.                       *)
History == INSTANCE GenerationHistory WITH Ids <- GenIds
HistorySpec == History!Spec

-----------------------------------------------------------------------------
(* Recovery.                                                                *)

(* No abandoned request is left, the lease is free or names another         *)
(* execution, and w starts its task while every other execution has ended   *)
(* or was not launched.                                                     *)
Calm(w) ==
    /\ inflight = {}
    /\ pc[w] = "create"
    /\ lease.holder # Redacted
    /\ lease.holder # w
    /\ \A v \in Workers \ {w} : exec[v] # "RUNNING"

(* Whatever crashes, lost answers and failed releases came before, an       *)
(* orphaned lease does not block the project for good: the next execution   *)
(* (or one launched beside it) commits a generation unless a further        *)
(* failure strikes.  Neither log nor faults ever shrinks, so their sum      *)
(* grows when one of the two does.                                          *)
Recovery ==
    \A w \in Workers :
        \A n \in 0 .. MaxFaults + MaxAttempts * Cardinality(Workers) :
            (Calm(w) /\ faults + Len(log) = n) ~> (faults + Len(log) > n)
=============================================================================
