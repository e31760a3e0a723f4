------------------------------ MODULE MCTrigger ------------------------------
(***************************************************************************)
(* What starting pipeline runs must guarantee, checked by TLC.             *)
(***************************************************************************)
EXTENDS PipelineTrigger, TLC

TriggerSymmetry == Permutations(Users) \cup Permutations(Admins)

AcceptedUsers == accepted \cap Users

(* PIPELINE_DAILY_LIMIT: at most that many requests of one UTC day are      *)
(* accepted, however requests, failed triggers and refunds interleave.      *)
AcceptedWithinLimit ==
    \A d \in 0 .. Day(MaxTime) :
        Cardinality({u \in AcceptedUsers : Day(asked[u]) = d}) <= DailyLimit

(* PIPELINE_COOLDOWN_SECONDS: two accepted requests are that far apart.     *)
CooldownKept ==
    \A u, v \in AcceptedUsers :
        u # v => asked[u] + Cooldown <= asked[v] \/ asked[v] + Cooldown <= asked[u]

(* The executions of two accepted user requests run at the same time only  *)
(* if the later request could not get the list of executions: that list is  *)
(* stale when the quota transaction commits, and the cooldown covers the    *)
(* gap.                                                                     *)
UserRunsDontOverlap ==
    \A u, v \in AcceptedUsers :
        /\ u # v /\ asked[u] <= asked[v]
        /\ started[u] = "RUNNING" /\ started[v] = "RUNNING"
        => v \in blind

(* A run is started only when none is running.                              *)
OneRunAtATime ==
    Cardinality({r \in Requests : started[r] = "RUNNING"}) <= 1
=============================================================================
