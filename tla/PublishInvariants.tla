-------------------------- MODULE PublishInvariants --------------------------
(***************************************************************************)
(* The strengthenings that make the properties of PublishProperties        *)
(* inductive; the proof modules show that every step preserves them.       *)
(***************************************************************************)
EXTENDS PublishProperties

Publishers == Workers \cup Rebuilders

(* Where a process has not begun to upload its generation.                  *)
BeforeUpload == {"idle", "create", "inspect", "probe", "delete", "recreate",
                 "materialize", "materializeLegacy", "run"}

(* The ids a process may still use: of a later task, or of this one before  *)
(* the process reaches a label outside "labels".                            *)
Ahead(id, labels) ==
    \/ id[1] \in Workers /\ id[2] > attempt[id[1]]
    \/ id = Id(id[1]) /\ pc[id[1]] \in labels

-----------------------------------------------------------------------------
(* Loop counters: uploads, release attempts and session writes.             *)

UploadCounted ==
    /\ \A id \in GenIds : Ahead(id, BeforeUpload) => files[id] = 0
    /\ \A p \in Publishers :
          /\ pc[p] = "upload" => files[Id(p)] < NumFiles
          /\ pc[p] = "commit" => files[Id(p)] = NumFiles

ReleaseCounted ==
    \A p \in LeaseUsers :
        /\ pc[p] = "release" => tries[p] < ReleaseAttempts
        /\ pc[p] \notin {"release", "exit", "done"} => tries[p] = 0

WritesCounted ==
    \A s \in Sessions : pc[s] \notin {"release", "done"} =>
        acked[s] < WritesPerSession

CountInv == TypeOK /\ UploadCounted /\ ReleaseCounted /\ WritesCounted

-----------------------------------------------------------------------------
(* The lease.                                                               *)

(* No generation in use is newer than the last one the store handed out,    *)
(* so a new object's generation differs from all of them.                   *)
LeaseGensIssued ==
    /\ lease.gen <= clock
    /\ lease.gen = 0 => lease = NoLease
    /\ \A p \in LeaseUsers : held[p] <= clock
    /\ \A w \in Workers : seen[w].gen <= clock
    /\ \A req \in inflight : req.op = "delete" => req.cond <= clock

HeldUnique ==
    \A p, q \in LeaseUsers : held[p] > 0 /\ held[p] = held[q] => p = q

ExecMatchesTask ==
    \A w \in Workers :
        /\ pc[w] = "idle" <=> exec[w] = "none"
        /\ pc[w] = "done" <=> exec[w] = "terminal"

(* Only launched executions are named as holders.                           *)
HoldersLaunched ==
    /\ \A w \in Workers : lease.holder = w => exec[w] # "none"
    /\ \A req \in inflight : \A w \in Workers :
          req.op = "create" /\ req.holder = w => exec[w] # "none"

(* What a worker about to reclaim knows of the lease it read: its holder    *)
(* cannot change under the same generation, and when the worker deletes it  *)
(* that holder has ended.                                                   *)
ReclaimJustified ==
    \A w \in Workers : pc[w] \in {"probe", "delete"} =>
        /\ seen[w].gen > 0
        /\ seen[w].holder \in Workers
        /\ exec[seen[w].holder] # "none"
        /\ lease.gen = seen[w].gen => lease.holder = seen[w].holder
        /\ pc[w] = "delete" => exec[seen[w].holder] # "RUNNING"

(* An abandoned delete never names the lease of a process inside.           *)
LateDeletesHarmless ==
    \A req \in inflight : req.op = "delete" =>
        \A p \in LeaseUsers : Protected(p) => held[p] # req.cond

LeaseInv ==
    /\ LeaseGensIssued /\ HeldUnique /\ ExecMatchesTask /\ HoldersLaunched
    /\ ReclaimJustified /\ LateDeletesHarmless
    /\ HolderKeepsLease
    /\ \A p \in LeaseUsers : Protected(p) => held[p] > 0

-----------------------------------------------------------------------------
(* The history.                                                             *)

InflightIds == {req.id : req \in {x \in inflight : x.op = "commit"}}

ManifestGensIssued ==
    /\ manifest.gen <= clock
    /\ manifest.gen = 0 => manifest.id = NoId
    /\ \A p \in Publishers : base[p].gen <= clock
    /\ \A req \in inflight : req.op = "commit" => req.cond <= clock

(* Who read the current manifest object, or will replace it, names its id.  *)
BaseMatches ==
    /\ \A p \in Publishers : base[p].gen = manifest.gen => base[p].id = manifest.id
    /\ \A req \in inflight :
          req.op = "commit" /\ req.cond = manifest.gen => req.prev = manifest.id

BeforeCommit == BeforeUpload \cup {"upload", "commit"}

(* An id that has not reached its commit is neither committed nor under     *)
(* way, and one under way is not committed and is under way once.           *)
IdsFresh ==
    /\ \A id \in GenIds : Ahead(id, BeforeCommit) =>
          id \notin CommittedIds \cup InflightIds
    /\ InflightIds \cap CommittedIds = {}
    /\ \A r1, r2 \in inflight :
          r1.op = "commit" /\ r2.op = "commit" /\ r1.id = r2.id => r1 = r2

UploadsComplete ==
    \A id \in CommittedIds \cup InflightIds : files[id] = NumFiles

ReceiptsAfterCommit ==
    \A w \in Workers : pc[w] = "receipts" => Id(w) \in CommittedIds

HistoryInv ==
    /\ ManifestGensIssued /\ BaseMatches /\ IdsFresh /\ ManifestIsLast
    /\ UploadsComplete /\ ReceiptsAfterCommit /\ PublishedWasCommitted

-----------------------------------------------------------------------------
(* What a store that applies no abandoned request later adds (LateDelivery  *)
(* FALSE): nothing takes effect behind the back of the one process inside.  *)

Puts        == {"put", "putOnce"}
Building    == {"run", "upload", "commit"}
AckedWrites == {x \in Writes : x[2] <= acked[x[1]]}

(* Acknowledged writes are stored, and are only made while the project has  *)
(* no manifest; a publisher that found a manifest carries on what it        *)
(* covers, one that found none carries on every acknowledged write.         *)
CoverInv ==
    /\ inflight = {}
    /\ \A w \in Workers : mode[w] # "clean"
    /\ AckedWrites \subseteq legacy
    /\ manifest.gen = 0 => manifest = NoManifest
    /\ \A s \in Sessions : pc[s] \in Puts => manifest.gen = 0
    /\ \A r \in Rebuilders : pc[r] \in Building => base[r].gen > 0
    /\ \A w \in Workers : pc[w] = "materializeLegacy" => base[w].gen = 0
    /\ \A p \in Publishers :
          base[p].gen > 0 /\ base[p].gen = manifest.gen =>
              base[p].covers = manifest.covers
    /\ \A w \in Workers :
          pc[w] \in Building /\ base[w].gen = 0 =>
              AckedWrites \subseteq base[w].covers
    /\ manifest.gen > 0 => AckedWrites \subseteq manifest.covers

(* An execution that gave up did not commit, one that reads the manifest    *)
(* back after its commit took effect finds its own, and an id with a        *)
(* failure receipt is past its commit.                                      *)
OutcomeInv ==
    /\ inflight = {}
    /\ \A w \in Workers : pc[w] = "failing" => Id(w) \notin CommittedIds
    /\ \A w \in Workers :
          pc[w] = "readback" /\ Id(w) \in CommittedIds => manifest.id = Id(w)
    /\ \A id \in failure : id \notin CommittedIds /\ ~Ahead(id, BeforeCommit)
=============================================================================
