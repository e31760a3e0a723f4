----------------------------- MODULE ObjectStore -----------------------------
(***************************************************************************)
(* The project's bucket as the publishers see it: the objects that the     *)
(* publication protocol writes under a condition, and what a caller can    *)
(* learn of a write.                                                       *)
(*                                                                         *)
(*   .lwc/publish/lease.json     created with DoesNotExist, deleted with   *)
(*                               the exact generation that was read        *)
(*   .lwc/publish/current.json   the manifest, the only commit point       *)
(*   canonical generated paths   what the BFF writes before the project    *)
(*                               has its first manifest ("legacy")         *)
(*                                                                         *)
(* A request is answered, refused with a failed precondition, or left      *)
(* without an answer.  Without an answer it may have been applied, may     *)
(* never be, or (LateDelivery) may be applied after its sender gave up on  *)
(* it.  The storage library repeats a conditional write whose answer it    *)
(* lost, so a refused request may have been applied by its own first copy. *)
(***************************************************************************)
EXTENDS Integers, FiniteSets, Sequences

CONSTANTS
    MaxFaults,      \* bound on the failures injected in one behaviour
    LateDelivery,   \* may an abandoned request still take effect later?
    NoHolder,       \* holder of the absent lease
    NoId            \* generation id of the absent manifest

ASSUME FaultAssumption == MaxFaults \in Nat /\ LateDelivery \in BOOLEAN

VARIABLES
    lease,      \* [gen, holder] of lease.json, NoLease when it does not exist
    manifest,   \* [gen, id, prev, covers] of current.json
    clock,      \* the last object generation the store handed out
    legacy,     \* legacy writes found at canonical generated paths
    log,        \* history: every manifest ever committed, in order
    inflight,   \* abandoned requests that may still be applied
    faults      \* failures injected so far

storeVars == <<lease, manifest, clock, legacy, log>>

NoLease    == [gen |-> 0, holder |-> NoHolder]
NoManifest == [gen |-> 0, id |-> NoId, prev |-> NoId, covers |-> {}]

StoreInit ==
    /\ lease = NoLease
    /\ manifest = NoManifest
    /\ clock = 0
    /\ legacy = {}
    /\ log = <<>>
    /\ inflight = {}
    /\ faults = 0

-----------------------------------------------------------------------------
(* Requests.  "cond" is the generation the object must have; 0 stands for   *)
(* DoesNotExist, since the absent objects above have generation 0.          *)

CreateLeaseReq(holder) == [op |-> "create", holder |-> holder]

(* Mutant: the delete carries no generation and hits whatever is there.     *)
DeleteAnyLeaseReq(gen) == [op |-> "delete", cond |-> lease.gen]

DeleteLeaseReq(gen)    == [op |-> "delete", cond |-> gen]

(* Mutant: an unconditional overwrite of the manifest.                      *)
OverwriteReq(base, id) == [op |-> "commit", cond |-> manifest.gen, id |-> id,
                           prev |-> base.id, covers |-> base.covers]

CommitReq(base, id)    == [op |-> "commit", cond |-> base.gen, id |-> id,
                           prev |-> base.id, covers |-> base.covers]

PutReq(write)          == [op |-> "put", write |-> write]

(* The preconditions of objectConditions / writeCondition.                  *)
Applicable(req) ==
    CASE req.op = "create" -> lease = NoLease
      [] req.op = "delete" -> lease.gen = req.cond
      [] req.op = "commit" -> manifest.gen = req.cond
      [] req.op = "put"    -> TRUE

Created(req) ==
    /\ req.op = "create"
    /\ clock' = clock + 1
    /\ lease' = [gen |-> clock + 1, holder |-> req.holder]
    /\ UNCHANGED <<manifest, legacy, log>>

Deleted(req) ==
    /\ req.op = "delete"
    /\ lease' = NoLease
    /\ UNCHANGED <<manifest, clock, legacy, log>>

Committed(req) ==
    /\ req.op = "commit"
    /\ clock' = clock + 1
    /\ manifest' = [gen |-> clock + 1, id |-> req.id, prev |-> req.prev,
                    covers |-> req.covers]
    /\ log' = Append(log, [id |-> req.id, prev |-> req.prev])
    /\ UNCHANGED <<lease, legacy>>

Stored(req) ==
    /\ req.op = "put"
    /\ legacy' = legacy \cup {req.write}
    /\ UNCHANGED <<lease, manifest, clock, log>>

Apply(req) ==
    /\ Applicable(req)
    /\ Created(req) \/ Deleted(req) \/ Committed(req) \/ Stored(req)

-----------------------------------------------------------------------------
(* What the caller of a request observes.                                   *)

Fault   == faults < MaxFaults /\ faults' = faults + 1
NoFault == UNCHANGED faults

(* The response says the request was applied.                               *)
Answered(req) == Apply(req) /\ NoFault /\ UNCHANGED inflight

(* 412 or 404: the precondition does not hold, or it held for a first copy  *)
(* whose answer was lost before the library sent the request again.         *)
Refused(req) ==
    /\ \/ ~Applicable(req) /\ NoFault /\ UNCHANGED storeVars
       \/ req.op # "put" /\ Fault /\ Apply(req)
    /\ UNCHANGED inflight

(* A timeout or a transport error: applied, lost, or still under way.       *)
Unanswered(req) ==
    /\ Fault
    /\ \/ Apply(req) /\ UNCHANGED inflight
       \/ /\ inflight' = IF LateDelivery THEN inflight \cup {req} ELSE inflight
          /\ UNCHANGED storeVars

(* An abandoned request reaches the store.                                  *)
LateArrival(req) ==
    /\ req \in inflight
    /\ inflight' = inflight \ {req}
    /\ Apply(req) \/ (~Applicable(req) /\ UNCHANGED storeVars)
    /\ NoFault

(* A read changes nothing; a failing one costs a fault.                     *)
ReadOk     == NoFault /\ UNCHANGED <<storeVars, inflight>>
ReadFailed == Fault /\ UNCHANGED <<storeVars, inflight>>
=============================================================================
