----------------------------- MODULE RateLimiter -----------------------------
(***************************************************************************)
(* The per-address request limiter of the public endpoints, for one        *)
(* address.  Each request first finds the address's entry in the shared    *)
(* map and then, under the entry's mutex, prunes and counts it; a cleanup  *)
(* goroutine prunes entries under the same mutex and deletes an empty one  *)
(* from the map only after it has unlocked it.                             *)
(***************************************************************************)
EXTENDS Naturals, FiniteSets

CONSTANTS
    Requests,      \* requests from the address
    Limit,         \* requests allowed in a window
    Window,        \* its length, in ticks
    SweepEvery,    \* ticks between two cleanups
    MaxClock       \* bound on time

ASSUME LimiterAssumption ==
    /\ Limit \in Nat \ {0} /\ Window \in Nat \ {0} /\ MaxClock \in Nat
    /\ SweepEvery \in Nat /\ SweepEvery > Window

NoEntry == 0
RequestEntries == 1 .. Cardinality(Requests)

VARIABLES
    clock,      \* time
    entryOf,    \* the entry the map holds for the address
    made,       \* entries made so far
    counted,    \* counted[e]: the requests an entry remembers
    handler,    \* handler[r]: "new", "loaded", "accepted" or "refused"
    loaded,     \* loaded[r]: the entry a request found
    stamp,      \* stamp[r]: when a request was counted
    sweep       \* [at, due]: the cleanup goroutine and its next tick

limiterVars == <<clock, entryOf, made, counted, handler, loaded, stamp, sweep>>

LimiterInit ==
    /\ clock = 0 /\ entryOf = NoEntry /\ made = 0
    /\ counted = [e \in RequestEntries |-> {}]
    /\ handler = [r \in Requests |-> "new"]
    /\ loaded = [r \in Requests |-> NoEntry]
    /\ stamp = [r \in Requests |-> 0]
    /\ sweep = [at |-> "waiting", due |-> SweepEvery]

Recent(e) == {r \in counted[e] : stamp[r] + Window > clock}

LoadOrStore(r) ==
    /\ handler[r] = "new"
    /\ made' = IF entryOf = NoEntry THEN made + 1 ELSE made
    /\ entryOf' = IF entryOf = NoEntry THEN made + 1 ELSE entryOf
    /\ loaded' = [loaded EXCEPT ![r] = entryOf']
    /\ handler' = [handler EXCEPT ![r] = "loaded"]
    /\ UNCHANGED <<clock, counted, stamp, sweep>>

(* Mutant: an accepted request is not remembered.                          *)
AcceptUncounted(r) ==
    LET e == loaded[r]  accept == Cardinality(Recent(e)) < Limit IN
    /\ handler[r] = "loaded"
    /\ counted' = [counted EXCEPT ![e] = Recent(e)]
    /\ stamp' = IF accept THEN [stamp EXCEPT ![r] = clock] ELSE stamp
    /\ handler' = [handler EXCEPT ![r] = IF accept THEN "accepted" ELSE "refused"]
    /\ UNCHANGED <<clock, entryOf, made, loaded, sweep>>

(* Under the mutex: prune, refuse at the limit, else count the request. *)
CountRequest(r) ==
    LET e == loaded[r]  accept == Cardinality(Recent(e)) < Limit IN
    /\ handler[r] = "loaded"
    /\ counted' = [counted EXCEPT ![e] = Recent(e) \cup {q \in {r} : accept}]
    /\ stamp' = IF accept THEN [stamp EXCEPT ![r] = clock] ELSE stamp
    /\ handler' = [handler EXCEPT ![r] = IF accept THEN "accepted" ELSE "refused"]
    /\ UNCHANGED <<clock, entryOf, made, loaded, sweep>>

(* Cleanup, under the mutex; then ips.Delete(key) if the entry was empty. *)
SweepEntry ==
    /\ sweep.at = "waiting" /\ clock >= sweep.due /\ entryOf # NoEntry
    /\ counted' = [counted EXCEPT ![entryOf] = Recent(entryOf)]
    /\ sweep' = [at |-> IF Recent(entryOf) = {} THEN "delete" ELSE "waiting",
                 due |-> clock + SweepEvery]
    /\ UNCHANGED <<clock, entryOf, made, handler, loaded, stamp>>

DeleteEntry ==
    /\ sweep.at = "delete"
    /\ entryOf' = NoEntry
    /\ sweep' = [sweep EXCEPT !.at = "waiting"]
    /\ UNCHANGED <<clock, made, counted, handler, loaded, stamp>>

(* A handler or a cleanup step that has begun ends within the tick. *)
ClockTick ==
    /\ clock < MaxClock /\ sweep.at = "waiting"
    /\ \A r \in Requests : handler[r] # "loaded"
    /\ clock' = clock + 1
    /\ UNCHANGED <<entryOf, made, counted, handler, loaded, stamp, sweep>>

LimiterNext ==
    \/ \E r \in Requests : LoadOrStore(r) \/ CountRequest(r)
    \/ SweepEntry \/ DeleteEntry \/ ClockTick

LimiterSpec == LimiterInit /\ [][LimiterNext]_limiterVars

(* What the limiter guarantees: a request counted in the entry the cleanup  *)
(* is about to drop is forgotten, so two entries can be filled in a window, *)
(* but never a third: in any window at most twice the limit is accepted.    *)
AcceptedInWindow ==
    \A start \in 0 .. MaxClock :
        Cardinality({r \in Requests : handler[r] = "accepted"
                        /\ start <= stamp[r] /\ stamp[r] < start + Window}) <= 2 * Limit
==============================================================================
