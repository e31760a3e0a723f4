--------------------------- MODULE PipelineTrigger ---------------------------
(***************************************************************************)
(* Starting pipeline runs of one project from the BFF: PipelineRun with    *)
(* its quota (internal/handler/v1/endpoints.go, pipeline_quota.go,         *)
(* internal/firestore/quota.go, internal/pipelinequota) and                *)
(* AdminPipelineTrigger.                                                   *)
(*                                                                         *)
(* A request reads the clock, the executions of the job and the pending    *)
(* work, reserves a run in a Firestore transaction, calls jobs:run and     *)
(* gives the reservation back when that call fails.  Other requests run    *)
(* between any two of these steps.                                         *)
(***************************************************************************)
EXTENDS Integers, FiniteSets

CONSTANTS
    Users,          \* POST /pipeline/run requests
    Admins,         \* POST /admin/projects/{id}/pipeline requests
    DailyLimit,     \* PIPELINE_DAILY_LIMIT
    Cooldown,       \* PIPELINE_COOLDOWN_SECONDS, in ticks
    DayLength,      \* ticks of a UTC day
    MaxTime,        \* bound on the clock
    MaxRequest,     \* ticks after which a request has ended
    LostAnswers,    \* may jobs:run start an execution and return an error?
    ListingFails    \* may the list of executions be unavailable?

Requests == Users \cup Admins

ASSUME TriggerAssumption ==
    /\ Users \cap Admins = {}
    /\ DailyLimit \in Nat \ {0} /\ Cooldown \in Nat \ {0}
    /\ DayLength \in Nat \ {0} /\ MaxTime \in Nat /\ MaxRequest \in Nat
    /\ LostAnswers \in BOOLEAN /\ ListingFails \in BOOLEAN

VARIABLES
    now,        \* the clock
    quota,      \* the pipeline_quota document: [runs, day, last]
    step,       \* where each request stands
    asked,      \* the time a request read from the clock
    running,    \* what it learned of running executions
    pending,    \* whether it found enough work
    prev,       \* the quota its transaction replaced
    started,    \* state of the execution each request started
    accepted,   \* requests answered 202
    blind       \* user requests that did not get the list of executions

tvars == <<now, quota, step, asked, running, pending, prev, started, accepted,
           blind>>

None    == -1    \* no day, no last run
NoQuota == [runs |-> 0, day |-> None, last |-> None]
Day(t)  == t \div DayLength

TInit ==
    /\ now = 0
    /\ quota = NoQuota
    /\ step = [r \in Requests |-> "idle"]
    /\ asked = [r \in Requests |-> 0]
    /\ running = [r \in Requests |-> FALSE]
    /\ pending = [r \in Requests |-> FALSE]
    /\ prev = [r \in Requests |-> NoQuota]
    /\ started = [r \in Requests |-> "none"]
    /\ accepted = {}
    /\ blind = {}

(* A request goes on, or ends without being accepted: nothing it learned is *)
(* used again.                                                              *)
To(r, label) == step' = [step EXCEPT ![r] = label] /\ UNCHANGED <<asked, blind>>

GiveUp(r) ==
    /\ step' = [step EXCEPT ![r] = "done"]
    /\ asked' = [asked EXCEPT ![r] = 0]
    /\ blind' = blind \ {r}

-----------------------------------------------------------------------------
(* pipelinequota.Evaluate: the first reason that applies.                   *)

(* The stored count belongs to the stored day.                              *)
RunsToday(q, t) == IF q.day = Day(t) THEN q.runs ELSE 0

InCooldown(q, t) == q.last # None /\ t < q.last + Cooldown

(* Mutant: the cooldown is not looked at.                                   *)
EvaluateNoCooldown(q, t, isDemo, alreadyRunning, enough) ==
    ~isDemo /\ ~alreadyRunning /\ RunsToday(q, t) < DailyLimit /\ enough

(* Mutant: a running execution does not block.                              *)
EvaluateIgnoringRuns(q, t, isDemo, alreadyRunning, enough) ==
    ~isDemo /\ RunsToday(q, t) < DailyLimit /\ ~InCooldown(q, t) /\ enough

Evaluate(q, t, isDemo, alreadyRunning, enough) ==
    /\ ~isDemo
    /\ ~alreadyRunning
    /\ RunsToday(q, t) < DailyLimit
    /\ ~InCooldown(q, t)
    /\ enough

-----------------------------------------------------------------------------
(* The steps of a request.                                                  *)

(* evaluateQuota reads the clock once, before everything else.              *)
Ask(r) ==
    /\ step[r] = "idle"
    /\ step' = [step EXCEPT ![r] = "running"]
    /\ asked' = [asked EXCEPT ![r] = now]
    /\ UNCHANGED <<now, quota, running, pending, prev, started, accepted, blind>>

(* pipelineRunningForOwnedActivity: a running execution blocks, a history   *)
(* of finished ones overrides the lock, otherwise the lock decides.         *)
RunningForOwnedActivity(locked) ==
    LET owned == {r \in Requests : started[r] # "none"} IN
    \/ \E r \in owned : started[r] = "RUNNING"
    \/ owned = {} /\ locked

(* isPipelineRunning; without the list of executions, or when an execution  *)
(* has no condition and no count yet, only the lock counts.  Nothing in the *)
(* repository writes the lock this reads.  A user's request carries the     *)
(* answer to its reservation, an admin's acts on it at once.                *)
CheckRunningUser(r) ==
    /\ r \in Users /\ step[r] = "running"
    /\ \/ \E locked \in BOOLEAN :
            \/ /\ running' = [running EXCEPT ![r] = RunningForOwnedActivity(locked)]
               /\ To(r, "work")
            \/ /\ ListingFails
               /\ running' = [running EXCEPT ![r] = locked]
               /\ step' = [step EXCEPT ![r] = "work"]
               /\ blind' = blind \cup {r}
               /\ UNCHANGED asked
       \/ GiveUp(r) /\ UNCHANGED running
    /\ UNCHANGED <<now, quota, pending, prev, started, accepted>>

CheckRunningAdmin(r) ==
    /\ r \in Admins /\ step[r] = "running"
    /\ \/ \E locked \in BOOLEAN :
            \/ ~RunningForOwnedActivity(locked) /\ To(r, "invoke")
            \/ ListingFails /\ ~locked /\ To(r, "invoke")
       \/ GiveUp(r)
    /\ UNCHANGED <<now, quota, running, pending, prev, started, accepted>>

(* pendingWorkForProject.                                                   *)
CountWork(r) ==
    /\ step[r] = "work"
    /\ \/ \E enough \in BOOLEAN : pending' = [pending EXCEPT ![r] = enough]
          /\ To(r, "reserve")
       \/ GiveUp(r) /\ UNCHANGED pending
    /\ UNCHANGED <<now, quota, running, prev, started, accepted>>

(* Mutant: the reservation starts the day's count again.                    *)
ReservedAnew(r) == [runs |-> 1, day  |-> Day(asked[r]), last |-> asked[r]]

(* ReserveQuota.  A commit whose answer is lost leaves the reservation and  *)
(* ends the request with an error.                                          *)
Reserved(r) == [runs |-> RunsToday(quota, asked[r]) + 1,
                day  |-> Day(asked[r]), last |-> asked[r]]

Reserve(r) ==
    /\ step[r] = "reserve"
    /\ \E isDemo \in BOOLEAN :
       LET allowed == Evaluate(quota, asked[r], isDemo, running[r], pending[r])
       IN \/ /\ allowed
             /\ prev' = [prev EXCEPT ![r] = quota]
             /\ quota' = Reserved(r)
             /\ To(r, "invoke")
          \/ allowed /\ quota' = Reserved(r) /\ GiveUp(r) /\ UNCHANGED prev
          \/ GiveUp(r) /\ UNCHANGED <<quota, prev>>
    /\ running' = [running EXCEPT ![r] = FALSE]
    /\ pending' = [pending EXCEPT ![r] = FALSE]
    /\ UNCHANGED <<now, started, accepted>>

(* invokePipelineJobStage: answered, refused, or started without an answer. *)
InvokeAnswered(r) ==
    /\ step[r] = "invoke"
    /\ started' = [started EXCEPT ![r] = "RUNNING"]
    /\ accepted' = accepted \cup {r}
    /\ prev' = [prev EXCEPT ![r] = NoQuota]
    /\ To(r, "done")
    /\ UNCHANGED <<now, quota, running, pending>>

InvokeFails(r) ==
    /\ step[r] = "invoke"
    /\ \/ UNCHANGED started
       \/ LostAnswers /\ started' = [started EXCEPT ![r] = "RUNNING"]
    /\ \/ r \in Users /\ To(r, "refund")
       \/ r \in Admins /\ GiveUp(r)
    /\ UNCHANGED <<now, quota, running, pending, prev, accepted>>

(* RefundQuota writes back what the transaction had read, unless the        *)
(* request's context is gone.                                               *)
Refund(r) ==
    /\ step[r] = "refund"
    /\ quota' \in {quota, prev[r]}
    /\ prev' = [prev EXCEPT ![r] = NoQuota]
    /\ GiveUp(r)
    /\ UNCHANGED <<now, running, pending, started, accepted>>

(* An execution reaches a terminal state.                                   *)
Terminate(r) ==
    /\ started[r] = "RUNNING"
    /\ started' = [started EXCEPT ![r] = "terminal"]
    /\ UNCHANGED <<now, quota, step, asked, running, pending, prev, accepted, blind>>

(* Time passes; no request outlives its timeout.                            *)
Tick ==
    /\ now < MaxTime
    /\ \A r \in Requests :
          step[r] \notin {"idle", "done"} => now < asked[r] + MaxRequest
    /\ now' = now + 1
    /\ UNCHANGED <<quota, step, asked, running, pending, prev, started, accepted, blind>>

RequestStep(r) ==
    \/ Ask(r) \/ CheckRunningUser(r) \/ CheckRunningAdmin(r) \/ CountWork(r)
    \/ Reserve(r) \/ InvokeAnswered(r) \/ InvokeFails(r) \/ Refund(r)

TNext == (\E r \in Requests : RequestStep(r) \/ Terminate(r)) \/ Tick

TSpec == TInit /\ [][TNext]_tvars
=============================================================================
