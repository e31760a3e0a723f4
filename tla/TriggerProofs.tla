---------------------------- MODULE TriggerProofs ----------------------------
(***************************************************************************)
(* The quota and the running check of POST /pipeline/run, for every number *)
(* of requests, every limit and every day length, when the cooldown is     *)
(* longer than a request.                                                  *)
(***************************************************************************)
EXTENDS MCTrigger, FiniteSetTheorems, TLAPS

Steps == {"idle", "running", "work", "reserve", "invoke", "refund", "done"}
Quotas == [runs : Nat, day : Nat \cup {None}, last : Nat \cup {None}]

(* User requests with a reservation whose outcome is not known yet. *)
Holding == {r \in Users : step[r] \in {"invoke", "refund"}}

TriggerTypeOK ==
    /\ now \in Nat /\ quota \in Quotas
    /\ step \in [Requests -> Steps] /\ asked \in [Requests -> Nat]
    /\ running \in [Requests -> BOOLEAN] /\ pending \in [Requests -> BOOLEAN]
    /\ prev \in [Requests -> Quotas]
    /\ started \in [Requests -> {"none", "RUNNING", "terminal"}]
    /\ IsFiniteSet(AcceptedUsers)
    /\ \A r \in Admins : step[r] \notin {"work", "reserve", "refund"}

(* Nobody asks in the future, and no request outlives its timeout. *)
TimelyInv ==
    /\ \A r \in Requests : asked[r] <= now
    /\ \A r \in Requests : step[r] \notin {"idle", "done"} => now <= asked[r] + MaxRequest
    /\ \A r \in AcceptedUsers : step[r] = "done"

AcceptedOn(d, users, times) == {u \in users : Day(times[u]) = d}

(* A quota document accounts for every accepted request. *)
Covers(q, users, times) ==
    /\ q.runs <= DailyLimit
    /\ q.last # None =>
           q.day = Day(q.last) /\ Cardinality(AcceptedOn(q.day, users, times)) <= q.runs
    /\ \A u \in users : q.last # None /\ times[u] <= q.last

Booked(q, t) == [runs |-> RunsToday(q, t) + 1, day |-> Day(t), last |-> t]

Free(q, t) == ~InCooldown(q, t) /\ RunsToday(q, t) < DailyLimit

(* There is one open reservation at most, it is the stored one, and what a  *)
(* refund would write back accounts for every accepted request as well.     *)
QuotaInv ==
    /\ Covers(quota, AcceptedUsers, asked)
    /\ \A r, s \in Holding : r = s
    /\ \A r \in Holding :
          /\ Covers(prev[r], AcceptedUsers, asked)
          /\ Free(prev[r], asked[r]) /\ quota = Booked(prev[r], asked[r])

(* A request that saw the list of executions knows of every accepted run    *)
(* that is still under way.                                                 *)
Saw(u, v) ==
    /\ asked[u] + Cooldown <= asked[v] /\ started[u] = "RUNNING" /\ v \notin blind
    => /\ step[v] \in {"work", "reserve"} => running[v]
       /\ step[v] \notin {"invoke", "refund"} /\ v \notin AcceptedUsers

SeenInv == \A u \in AcceptedUsers, v \in Users : Saw(u, v)

LimitKept == \A d \in Nat : Cardinality(AcceptedOn(d, AcceptedUsers, asked)) <= DailyLimit

TriggerInv ==
    /\ TriggerTypeOK /\ TimelyInv /\ QuotaInv /\ SeenInv /\ CooldownKept /\ LimitKept

-----------------------------------------------------------------------------
(* Days and quota documents *)

LEMMA DayMonotone ==
    ASSUME NEW a \in Nat, NEW b \in Nat, a <= b
    PROVE  Day(a) \in Nat /\ Day(b) \in Nat /\ Day(a) <= Day(b)
<1> DEFINE x == Day(a)
           y == Day(b)
<1>1. DayLength \in Nat /\ DayLength > 0
  BY TriggerAssumption
<1>2. x \in Int /\ DayLength * x <= a /\ a < DayLength * x + DayLength
  BY <1>1 DEF Day
<1>3. y \in Int /\ DayLength * y <= b /\ b < DayLength * y + DayLength
  BY <1>1 DEF Day
<1>4. x \in Nat /\ y \in Nat
  BY <1>1 DEF Day
<1> HIDE DEF x, y
<1>5. ASSUME y + 1 <= x PROVE FALSE
  <2>1. DayLength * (y + 1) <= DayLength * x
    BY <1>1, <1>2, <1>3, <1>5
  <2>2. DayLength * (y + 1) = DayLength * y + DayLength
    BY <1>1, <1>3
  <2> QED
    BY <1>1, <1>2, <1>3, <2>1, <2>2
<1>6. x <= y
  BY <1>2, <1>3, <1>5
<1> QED
  BY <1>4, <1>6 DEF x, y

(* A free quota document has counted every request accepted on the day, and *)
(* the document a reservation writes accounts for what the old one did.     *)
LEMMA BookedCovers ==
    ASSUME TriggerTypeOK, NEW q \in Quotas, NEW t \in Nat, Covers(q, AcceptedUsers, asked), Free(q, t)
    PROVE  /\ Booked(q, t) \in Quotas /\ Covers(Booked(q, t), AcceptedUsers, asked) /\ Booked(q, t).last = t
           /\ Booked(q, t).runs = RunsToday(q, t) + 1 /\ Booked(q, t).day = Day(t)
           /\ \A u \in AcceptedUsers : asked[u] + Cooldown <= t
           /\ Cardinality(AcceptedOn(Day(t), AcceptedUsers, asked)) <= RunsToday(q, t)
<1>1. /\ q.runs \in Nat /\ q.day \in Nat \cup {None} /\ q.last \in Nat \cup {None}
      /\ DailyLimit \in Nat /\ Cooldown \in Nat
  BY TriggerAssumption DEF Quotas
<1>2. Day(t) \in Nat /\ None \notin Nat
  BY DayMonotone DEF None
<1>3. RunsToday(q, t) \in Nat /\ RunsToday(q, t) + 1 <= DailyLimit
  BY <1>1 DEF RunsToday, Free
<1>4. /\ Booked(q, t) \in Quotas /\ Booked(q, t).last = t
      /\ Booked(q, t).runs = RunsToday(q, t) + 1 /\ Booked(q, t).day = Day(t)
  BY <1>2, <1>3 DEF Booked, Quotas
<1>5. \A u \in AcceptedUsers : u \in Requests /\ asked[u] \in Nat
  BY DEF AcceptedUsers, Requests, TriggerTypeOK
<1>6. \A u \in AcceptedUsers :
          q.last \in Nat /\ asked[u] <= q.last /\ q.last + Cooldown <= t
  BY <1>1, <1>2 DEF Covers, Free, InCooldown
<1>7. \A u \in AcceptedUsers : asked[u] + Cooldown <= t /\ asked[u] <= t
  BY <1>1, <1>5, <1>6
<1>8. Cardinality(AcceptedOn(Day(t), AcceptedUsers, asked)) <= RunsToday(q, t)
  <2>1. CASE AcceptedOn(Day(t), AcceptedUsers, asked) = {}
    BY <1>3, <2>1, FS_EmptySet
  <2>2. CASE AcceptedOn(Day(t), AcceptedUsers, asked) # {}
    <3>1. PICK u \in AcceptedUsers : Day(asked[u]) = Day(t)
      BY <2>2 DEF AcceptedOn
    <3>2. q.last \in Nat /\ asked[u] \in Nat /\ asked[u] <= q.last /\ q.last <= t
      BY <1>1, <1>5, <1>6
    <3>3. Day(asked[u]) <= Day(q.last) /\ Day(q.last) <= Day(t) /\ Day(q.last) \in Nat
      BY <3>2, DayMonotone
    <3>4. Day(q.last) = Day(t)
      BY <1>2, <3>1, <3>3
    <3>5. q.day = Day(t) /\ Cardinality(AcceptedOn(q.day, AcceptedUsers, asked)) <= q.runs
      BY <1>2, <3>2, <3>4 DEF Covers
    <3> QED
      BY <3>5 DEF RunsToday
  <2> QED
    BY <2>1, <2>2
<1>9. AcceptedOn(Day(t), AcceptedUsers, asked) \subseteq AcceptedUsers
  BY DEF AcceptedOn
<1>10. Cardinality(AcceptedOn(Day(t), AcceptedUsers, asked)) \in Nat
  BY <1>9, FS_Subset, FS_CardinalityType DEF TriggerTypeOK
<1>11. Covers(Booked(q, t), AcceptedUsers, asked)
  BY <1>2, <1>3, <1>4, <1>7, <1>8, <1>10 DEF Covers
<1> QED
  BY <1>4, <1>7, <1>8, <1>11

-----------------------------------------------------------------------------
(* What a step that neither books nor settles a reservation keeps *)

LEMMA OnSame ==
    ASSUME NEW users, NEW times, NEW other, \A u \in users : other[u] = times[u], NEW d
    PROVE  AcceptedOn(d, users, other) = AcceptedOn(d, users, times)
BY DEF AcceptedOn

LEMMA CoversSame ==
    ASSUME NEW q, NEW users, NEW times, NEW other, \A u \in users : other[u] = times[u],
           Covers(q, users, times)
    PROVE  Covers(q, users, other)
<1>1. \A d : AcceptedOn(d, users, other) = AcceptedOn(d, users, times)
  BY OnSame
<1> QED
  BY <1>1 DEF Covers

LEMMA QuotaKept ==
    ASSUME QuotaInv, quota' = quota, AcceptedUsers' = AcceptedUsers,
           \A u \in AcceptedUsers : asked'[u] = asked[u],
           \A r \in Holding' : r \in Holding /\ prev'[r] = prev[r] /\ asked'[r] = asked[r]
    PROVE  QuotaInv'
<1>1. \A q : Covers(q, AcceptedUsers, asked) => Covers(q, AcceptedUsers', asked')
  BY CoversSame
<1>2. \A r, s \in Holding' : r = s
  BY DEF QuotaInv
<1>3. Covers(quota', AcceptedUsers', asked')
  BY <1>1 DEF QuotaInv
<1>4. \A r \in Holding' :
          /\ Covers(prev'[r], AcceptedUsers', asked')
          /\ Free(prev'[r], asked'[r]) /\ quota' = Booked(prev'[r], asked'[r])
  BY <1>1 DEF QuotaInv
<1> QED
  BY <1>2, <1>3, <1>4 DEF QuotaInv, Free, Booked

LEMMA AcceptedKept ==
    ASSUME CooldownKept, LimitKept, AcceptedUsers' = AcceptedUsers,
           \A u \in AcceptedUsers : asked'[u] = asked[u]
    PROVE  CooldownKept' /\ LimitKept'
<1>1. \A d : AcceptedOn(d, AcceptedUsers', asked') = AcceptedOn(d, AcceptedUsers, asked)
  BY OnSame
<1>2. LimitKept'
  BY <1>1 DEF LimitKept
<1> QED
  BY <1>2 DEF CooldownKept

(* Executions are only forgotten, and every request stays at its stage, goes *)
(* on to one where it knows as much, or ends.                                *)
LEMMA SeenKept ==
    ASSUME SeenInv, AcceptedUsers' = AcceptedUsers,
           \A u \in AcceptedUsers :
               asked'[u] = asked[u] /\ (started'[u] = "RUNNING" => started[u] = "RUNNING"),
           \A v \in Users :
               \/ step'[v] \in {"idle", "running", "done"} /\ v \notin AcceptedUsers
               \/ /\ asked'[v] = asked[v] /\ running'[v] = running[v] /\ (v \in blind => v \in blind')
                  /\ step'[v] \in {"work", "reserve"} => step[v] \in {"work", "reserve"}
                  /\ step'[v] \in {"invoke", "refund"} => step[v] \in {"invoke", "refund"}
    PROVE  SeenInv'
<1> SUFFICES ASSUME NEW u \in AcceptedUsers, NEW v \in Users PROVE Saw(u, v)'
  BY DEF SeenInv
<1>1. Saw(u, v)
  BY DEF SeenInv
<1> QED
  BY <1>1 DEF Saw

(* A request that ends without being accepted takes nothing with it.        *)
LEMMA StepEnds ==
    ASSUME TriggerInv, NEW r \in Requests, step[r] # "done", GiveUp(r),
           now' = now, accepted' = accepted, quota' \in Quotas, quota' = quota \/ QuotaInv',
           running' \in [Requests -> BOOLEAN], pending' \in [Requests -> BOOLEAN],
           prev' \in [Requests -> Quotas],
           started' \in [Requests -> {"none", "RUNNING", "terminal"}],
           \A v \in Requests \ {r} :
               running'[v] = running[v] /\ prev'[v] = prev[v] /\ started'[v] = started[v]
    PROVE  TriggerInv'
<1>1. /\ step' = [step EXCEPT ![r] = "done"] /\ asked' = [asked EXCEPT ![r] = 0]
      /\ blind' = blind \ {r}
  BY DEF GiveUp
<1>2. /\ step \in [Requests -> Steps] /\ asked \in [Requests -> Nat] /\ AcceptedUsers' = AcceptedUsers
      /\ Users \subseteq Requests /\ AcceptedUsers \subseteq Users /\ r \notin AcceptedUsers
      /\ now \in Nat
  BY DEF TriggerInv, TriggerTypeOK, TimelyInv, AcceptedUsers, Requests
<1>3. \A v \in Requests \ {r} :
          step'[v] = step[v] /\ asked'[v] = asked[v] /\ (v \in blind => v \in blind')
  BY <1>1, <1>2
<1>4. step'[r] = "done" /\ asked'[r] = 0
  BY <1>1, <1>2
<1>5. TriggerTypeOK'
  <2>1. step' \in [Requests -> Steps] /\ asked' \in [Requests -> Nat]
    BY <1>1, <1>2 DEF Steps
  <2>2. \A a \in Admins : step'[a] \notin {"work", "reserve", "refund"}
    BY <1>3, <1>4 DEF TriggerInv, TriggerTypeOK, Requests
  <2> QED
    BY <1>2, <2>1, <2>2 DEF TriggerInv, TriggerTypeOK
<1>6. TimelyInv'
  BY <1>2, <1>3, <1>4 DEF TriggerInv, TimelyInv
<1>7. QuotaInv'
  <2>1. \A v \in Holding' : v \in Holding /\ prev'[v] = prev[v] /\ asked'[v] = asked[v]
    BY <1>2, <1>3, <1>4 DEF Holding
  <2> QED
    BY <1>2, <1>3, <2>1, QuotaKept DEF TriggerInv
<1>8. SeenInv'
  BY <1>2, <1>3, <1>4, SeenKept DEF TriggerInv
<1>9. CooldownKept' /\ LimitKept'
  BY <1>2, <1>3, AcceptedKept DEF TriggerInv
<1> QED
  BY <1>5, <1>6, <1>7, <1>8, <1>9 DEF TriggerInv

(* A request that goes on without touching the quota.                       *)
LEMMA StepGoesOn ==
    ASSUME TriggerInv, NEW r \in Requests, NEW label \in Steps \ {"idle", "done"},
           step[r] \notin {"idle", "done"}, step' = [step EXCEPT ![r] = label],
           now' = now, quota' = quota, accepted' = accepted, asked' = asked, prev' = prev,
           running' \in [Requests -> BOOLEAN], pending' \in [Requests -> BOOLEAN],
           started' \in [Requests -> {"none", "RUNNING", "terminal"}],
           r \in Admins => label \notin {"work", "reserve", "refund"},
           r \in Users /\ label \in {"invoke", "refund"} => step[r] \in {"invoke", "refund"},
           SeenInv'
    PROVE  TriggerInv'
<1>2. /\ step \in [Requests -> Steps] /\ AcceptedUsers' = AcceptedUsers
      /\ Users \subseteq Requests /\ Admins \subseteq Requests /\ AcceptedUsers \subseteq Users
      /\ r \notin AcceptedUsers
  BY DEF TriggerInv, TriggerTypeOK, TimelyInv, AcceptedUsers, Requests
<1>3. step'[r] = label /\ \A v \in Requests \ {r} : step'[v] = step[v]
  BY <1>2
<1>4. TriggerTypeOK'
  <2>1. step' \in [Requests -> Steps]
    BY <1>2
  <2>2. \A a \in Admins : step'[a] \notin {"work", "reserve", "refund"}
    BY <1>2, <1>3 DEF TriggerInv, TriggerTypeOK
  <2> QED
    BY <1>2, <2>1, <2>2 DEF TriggerInv, TriggerTypeOK
<1>5. TimelyInv'
  BY <1>2, <1>3 DEF TriggerInv, TimelyInv
<1>6. QuotaInv'
  <2>1. \A v \in Holding' : v \in Holding
    BY <1>2, <1>3 DEF Holding
  <2> QED
    BY <1>2, <2>1, QuotaKept DEF TriggerInv
<1>7. CooldownKept' /\ LimitKept'
  BY <1>2, AcceptedKept DEF TriggerInv
<1> QED
  BY <1>4, <1>5, <1>6, <1>7 DEF TriggerInv

-----------------------------------------------------------------------------
(* The steps of a request *)

LEMMA TriggerInitial == TInit => TriggerInv
<1> SUFFICES ASSUME TInit PROVE TriggerInv
  OBVIOUS
<1>1. AcceptedUsers = {} /\ Holding = {} /\ Users \subseteq Requests
  BY DEF TInit, AcceptedUsers, Holding, Requests
<1>2. \A d : AcceptedOn(d, AcceptedUsers, asked) = {}
  BY <1>1 DEF AcceptedOn
<1>3. NoQuota \in Quotas /\ NoQuota.runs = 0 /\ NoQuota.last = None
  BY DEF NoQuota, Quotas
<1>4. Cardinality({}) = 0 /\ IsFiniteSet({})
  BY FS_EmptySet
<1>5. TriggerTypeOK
  BY <1>1, <1>3, <1>4 DEF TInit, TriggerTypeOK, Steps, Requests
<1>6. TimelyInv
  BY <1>1 DEF TInit, TimelyInv
<1>7. Covers(NoQuota, AcceptedUsers, asked)
  BY <1>1, <1>3, TriggerAssumption DEF Covers
<1>8. QuotaInv
  BY <1>1, <1>7 DEF TInit, QuotaInv
<1>9. SeenInv /\ CooldownKept
  BY <1>1 DEF SeenInv, CooldownKept
<1>10. LimitKept
  BY <1>2, <1>4, TriggerAssumption DEF LimitKept
<1> QED
  BY <1>5, <1>6, <1>8, <1>9, <1>10 DEF TriggerInv

LEMMA AskStep == ASSUME TriggerInv, NEW r \in Requests, Ask(r) PROVE TriggerInv'
<1>1. /\ step' = [step EXCEPT ![r] = "running"] /\ asked' = [asked EXCEPT ![r] = now]
      /\ UNCHANGED <<now, quota, running, pending, prev, started, accepted, blind>>
      /\ step[r] = "idle"
  BY DEF Ask
<1>2. /\ step \in [Requests -> Steps] /\ asked \in [Requests -> Nat] /\ AcceptedUsers' = AcceptedUsers
      /\ Users \subseteq Requests /\ Admins \subseteq Requests /\ AcceptedUsers \subseteq Users
      /\ r \notin AcceptedUsers /\ now \in Nat /\ MaxRequest \in Nat
  BY <1>1, TriggerAssumption DEF TriggerInv, TriggerTypeOK, TimelyInv, AcceptedUsers, Requests
<1>3. /\ \A v \in Requests \ {r} : step'[v] = step[v] /\ asked'[v] = asked[v]
      /\ step'[r] = "running" /\ asked'[r] = now
  BY <1>1, <1>2
<1>4. TriggerTypeOK'
  <2>1. step' \in [Requests -> Steps] /\ asked' \in [Requests -> Nat]
    BY <1>1, <1>2 DEF Steps
  <2>2. \A a \in Admins : step'[a] \notin {"work", "reserve", "refund"}
    BY <1>2, <1>3 DEF TriggerInv, TriggerTypeOK
  <2> QED
    BY <1>1, <1>2, <2>1, <2>2 DEF TriggerInv, TriggerTypeOK
<1>5. TimelyInv'
  <2>1. now <= now + MaxRequest
    BY <1>2
  <2> QED
    BY <1>1, <1>2, <1>3, <2>1 DEF TriggerInv, TimelyInv
<1>6. QuotaInv'
  <2>1. \A v \in Holding' : v \in Holding /\ prev'[v] = prev[v] /\ asked'[v] = asked[v]
    BY <1>1, <1>2, <1>3 DEF Holding
  <2> QED
    BY <1>1, <1>2, <1>3, <2>1, QuotaKept DEF TriggerInv
<1>7. SeenInv'
  BY <1>1, <1>2, <1>3, SeenKept DEF TriggerInv
<1>8. CooldownKept' /\ LimitKept'
  BY <1>2, <1>3, AcceptedKept DEF TriggerInv
<1> QED
  BY <1>4, <1>5, <1>6, <1>7, <1>8 DEF TriggerInv

LEMMA TypeFacts ==
    ASSUME TriggerInv
    PROVE  /\ running \in [Requests -> BOOLEAN] /\ pending \in [Requests -> BOOLEAN]
           /\ prev \in [Requests -> Quotas] /\ quota \in Quotas
           /\ started \in [Requests -> {"none", "RUNNING", "terminal"}]
           /\ step \in [Requests -> Steps] /\ asked \in [Requests -> Nat] /\ now \in Nat
           /\ Users \subseteq Requests /\ Admins \subseteq Requests /\ AcceptedUsers \subseteq Users
           /\ \A u \in AcceptedUsers : step[u] = "done"
           /\ MaxRequest \in Nat /\ Cooldown \in Nat /\ Cooldown > 0 /\ DailyLimit \in Nat
BY TriggerAssumption DEF TriggerInv, TriggerTypeOK, TimelyInv, AcceptedUsers, Requests

(* A user's request that gets the list of executions sees every run that is *)
(* under way; one that does not is blind.                                   *)
LEMMA CheckRunningUserStep ==
    ASSUME TriggerInv, NEW r \in Requests, CheckRunningUser(r)
    PROVE  TriggerInv'
<1>1. r \in Users /\ step[r] = "running" /\ UNCHANGED <<now, quota, pending, prev, started, accepted>>
  BY DEF CheckRunningUser
<1>2. CASE GiveUp(r) /\ UNCHANGED running
  BY <1>1, <1>2, StepEnds, TypeFacts
<1>3. ASSUME NEW value \in BOOLEAN, running' = [running EXCEPT ![r] = value],
             step' = [step EXCEPT ![r] = "work"], asked' = asked, blind \subseteq blind',
             \/ r \in blind'
             \/ (\E u \in Requests : started[u] = "RUNNING") => value
      PROVE  TriggerInv'
  <2>1. /\ AcceptedUsers' = AcceptedUsers /\ r \notin AcceptedUsers
        /\ step'[r] = "work" /\ running'[r] = value
        /\ \A v \in Requests \ {r} : step'[v] = step[v] /\ running'[v] = running[v]
    BY <1>1, <1>3, TypeFacts DEF AcceptedUsers
  <2>2. SeenInv'
    <3> SUFFICES ASSUME NEW u \in AcceptedUsers, NEW v \in Users PROVE Saw(u, v)'
      BY <2>1 DEF SeenInv
    <3>1. CASE v = r
      <4>1. u \in Requests
        BY TypeFacts
      <4> QED
        BY <1>1, <1>3, <2>1, <3>1, <4>1 DEF Saw
    <3>2. CASE v # r
      <4>1. Saw(u, v) /\ v \in Requests
        BY TypeFacts DEF TriggerInv, SeenInv
      <4> QED
        BY <1>1, <1>3, <2>1, <3>2, <4>1 DEF Saw
    <3> QED
      BY <3>1, <3>2
  <2>3. running' \in [Requests -> BOOLEAN] /\ "work" \in Steps \ {"idle", "done"} /\ r \notin Admins
    BY <1>1, <1>3, TypeFacts, TriggerAssumption DEF Steps
  <2> QED
    BY <1>1, <1>3, <2>2, <2>3, StepGoesOn, TypeFacts
<1>4. ASSUME NEW locked \in BOOLEAN, running' = [running EXCEPT ![r] = RunningForOwnedActivity(locked)],
             To(r, "work")
      PROVE  TriggerInv'
  <2>1. RunningForOwnedActivity(locked) \in BOOLEAN
    BY DEF RunningForOwnedActivity
  <2>2. (\E u \in Requests : started[u] = "RUNNING") => RunningForOwnedActivity(locked)
    BY DEF RunningForOwnedActivity
  <2> QED
    BY <1>3, <1>4, <2>1, <2>2 DEF To
<1>5. ASSUME NEW locked \in BOOLEAN, running' = [running EXCEPT ![r] = locked],
             step' = [step EXCEPT ![r] = "work"], blind' = blind \cup {r}, UNCHANGED asked
      PROVE  TriggerInv'
  BY <1>3, <1>5
<1> QED
  BY <1>2, <1>4, <1>5 DEF CheckRunningUser

LEMMA CheckRunningAdminStep ==
    ASSUME TriggerInv, NEW r \in Requests, CheckRunningAdmin(r)
    PROVE  TriggerInv'
<1>1. /\ r \in Admins /\ step[r] = "running"
      /\ UNCHANGED <<now, quota, running, pending, prev, started, accepted>>
  BY DEF CheckRunningAdmin
<1>2. CASE GiveUp(r)
  BY <1>1, <1>2, StepEnds, TypeFacts
<1>3. CASE To(r, "invoke")
  <2>1. "invoke" \in Steps \ {"idle", "done"} /\ r \notin Users
    BY <1>1, TriggerAssumption DEF Steps
  <2>2. /\ AcceptedUsers' = AcceptedUsers /\ asked' = asked /\ blind' = blind
        /\ step' = [step EXCEPT ![r] = "invoke"]
        /\ \A v \in Users : step'[v] = step[v] /\ (step[v] = "done" \/ v \notin AcceptedUsers)
    BY <1>1, <1>3, <2>1, TypeFacts DEF To, AcceptedUsers
  <2>3. SeenInv'
    BY <1>1, <2>2, SeenKept DEF TriggerInv
  <2> QED
    BY <1>1, <2>1, <2>2, <2>3, StepGoesOn, TypeFacts
<1> QED
  BY <1>2, <1>3 DEF CheckRunningAdmin

LEMMA CountWorkStep ==
    ASSUME TriggerInv, NEW r \in Requests, CountWork(r)
    PROVE  TriggerInv'
<1>1. step[r] = "work" /\ UNCHANGED <<now, quota, running, prev, started, accepted>>
  BY DEF CountWork
<1>2. CASE GiveUp(r) /\ UNCHANGED pending
  BY <1>1, <1>2, StepEnds, TypeFacts
<1>3. CASE /\ \E enough \in BOOLEAN : pending' = [pending EXCEPT ![r] = enough]
           /\ To(r, "reserve")
  <2>1. "reserve" \in Steps \ {"idle", "done"} /\ r \notin Admins
    BY <1>1 DEF Steps, TriggerInv, TriggerTypeOK
  <2>2. /\ AcceptedUsers' = AcceptedUsers /\ asked' = asked /\ blind' = blind
        /\ step' = [step EXCEPT ![r] = "reserve"] /\ pending' \in [Requests -> BOOLEAN]
        /\ step'[r] = "reserve" /\ \A v \in Requests \ {r} : step'[v] = step[v]
    BY <1>1, <1>3, TypeFacts DEF To, AcceptedUsers
  <2>3. SeenInv'
    BY <1>1, <2>2, SeenKept, TypeFacts DEF TriggerInv
  <2> QED
    BY <1>1, <2>1, <2>2, <2>3, StepGoesOn, TypeFacts
<1> QED
  BY <1>2, <1>3 DEF CountWork

LEMMA TerminateStep == ASSUME TriggerInv, NEW r \in Requests, Terminate(r) PROVE TriggerInv'
<1>1. /\ started' = [started EXCEPT ![r] = "terminal"]
      /\ UNCHANGED <<now, quota, step, asked, running, pending, prev, accepted, blind>>
  BY DEF Terminate
<1>2. /\ AcceptedUsers' = AcceptedUsers /\ Holding' = Holding
      /\ started' \in [Requests -> {"none", "RUNNING", "terminal"}]
      /\ \A u \in Requests : started'[u] = "RUNNING" => started[u] = "RUNNING"
  BY <1>1, TypeFacts DEF AcceptedUsers, Holding
<1>3. TriggerTypeOK' /\ TimelyInv'
  BY <1>1, <1>2 DEF TriggerInv, TriggerTypeOK, TimelyInv
<1>4. QuotaInv'
  BY <1>1, <1>2, QuotaKept DEF TriggerInv
<1>5. SeenInv'
  BY <1>1, <1>2, SeenKept, TypeFacts DEF TriggerInv
<1>6. CooldownKept' /\ LimitKept'
  BY <1>1, <1>2, AcceptedKept DEF TriggerInv
<1> QED
  BY <1>3, <1>4, <1>5, <1>6 DEF TriggerInv

LEMMA TickStep == ASSUME TriggerInv, Tick PROVE TriggerInv'
<1>1. /\ now' = now + 1
      /\ UNCHANGED <<quota, step, asked, running, pending, prev, started, accepted, blind>>
      /\ \A r \in Requests : step[r] \notin {"idle", "done"} => now < asked[r] + MaxRequest
  BY DEF Tick
<1>2. AcceptedUsers' = AcceptedUsers /\ Holding' = Holding
  BY <1>1 DEF AcceptedUsers, Holding
<1>3. TriggerTypeOK'
  BY <1>1, <1>2 DEF TriggerInv, TriggerTypeOK
<1>4. TimelyInv'
  BY <1>1, <1>2, TypeFacts DEF TriggerInv, TimelyInv
<1>5. QuotaInv'
  BY <1>1, <1>2, QuotaKept DEF TriggerInv
<1>6. SeenInv'
  BY <1>1, <1>2, SeenKept DEF TriggerInv
<1>7. CooldownKept' /\ LimitKept'
  BY <1>1, <1>2, AcceptedKept DEF TriggerInv
<1> QED
  BY <1>3, <1>4, <1>5, <1>6, <1>7 DEF TriggerInv

(* While a reservation is open nobody can make another: it would have to be *)
(* asked for after the cooldown, when the request that holds it has ended.  *)
LEMMA NoOpenReservation ==
    ASSUME MaxRequest < Cooldown, TriggerInv, NEW r \in Requests, ~InCooldown(quota, asked[r])
    PROVE  Holding = {}
<1> SUFFICES ASSUME NEW h \in Holding PROVE FALSE
  OBVIOUS
<1>1. h \in Requests /\ prev[h] \in Quotas /\ asked[h] \in Nat /\ asked[r] \in Nat
  BY TypeFacts DEF Holding
<1>2. quota.last = asked[h] /\ asked[h] # None
  BY <1>1 DEF TriggerInv, QuotaInv, Booked, None
<1>3. asked[h] + Cooldown <= asked[r]
  BY <1>1, <1>2, TypeFacts DEF InCooldown
<1>4. asked[r] <= now /\ now <= asked[h] + MaxRequest
  BY <1>1 DEF TriggerInv, TimelyInv, Holding
<1> QED
  BY <1>1, <1>3, <1>4, TypeFacts

LEMMA ReserveStep ==
    ASSUME MaxRequest < Cooldown, TriggerInv, NEW r \in Requests, Reserve(r)
    PROVE  TriggerInv'
<1>1. /\ step[r] = "reserve" /\ UNCHANGED <<now, started, accepted>>
      /\ running' = [running EXCEPT ![r] = FALSE] /\ pending' = [pending EXCEPT ![r] = FALSE]
  BY DEF Reserve
<1>2. /\ AcceptedUsers' = AcceptedUsers /\ r \in Users
      /\ running' \in [Requests -> BOOLEAN] /\ pending' \in [Requests -> BOOLEAN]
      /\ \A v \in Requests \ {r} : running'[v] = running[v]
  BY <1>1, TypeFacts DEF AcceptedUsers, TriggerInv, TriggerTypeOK, Requests
<1>3. CASE GiveUp(r) /\ UNCHANGED <<quota, prev>>
  BY <1>1, <1>2, <1>3, StepEnds, TypeFacts
<1>4. ASSUME Free(quota, asked[r]), quota' = Reserved(r)
      PROVE  /\ Holding = {} /\ quota' \in Quotas /\ quota' = Booked(quota, asked[r])
             /\ Covers(quota', AcceptedUsers, asked)
  <2>1. Holding = {}
    BY <1>4, NoOpenReservation DEF Free
  <2>2. Reserved(r) = Booked(quota, asked[r])
    BY DEF Reserved, Booked
  <2> QED
    BY <1>4, <2>1, <2>2, BookedCovers, TypeFacts DEF TriggerInv, QuotaInv
<1>5. CASE Free(quota, asked[r]) /\ quota' = Reserved(r) /\ GiveUp(r) /\ UNCHANGED prev
  <2>1. \A u \in AcceptedUsers : asked'[u] = asked[u]
    BY <1>1, <1>5, TypeFacts DEF GiveUp
  <2>2. Holding' = {}
    BY <1>4, <1>5, TypeFacts DEF Holding, GiveUp
  <2>3. Covers(quota', AcceptedUsers', asked')
    BY <1>2, <1>4, <1>5, <2>1, CoversSame
  <2>4. QuotaInv'
    BY <2>2, <2>3 DEF QuotaInv
  <2> QED
    BY <1>1, <1>2, <1>4, <1>5, <2>4, StepEnds, TypeFacts
<1>6. CASE /\ Free(quota, asked[r]) /\ ~running[r] /\ quota' = Reserved(r)
           /\ prev' = [prev EXCEPT ![r] = quota] /\ To(r, "invoke")
  <2>1. /\ step' = [step EXCEPT ![r] = "invoke"] /\ asked' = asked /\ blind' = blind
        /\ step'[r] = "invoke" /\ \A v \in Requests \ {r} : step'[v] = step[v]
        /\ prev'[r] = quota /\ r \notin AcceptedUsers /\ r \notin Admins
    BY <1>1, <1>2, <1>6, TypeFacts, TriggerAssumption DEF To
  <2>2. TriggerTypeOK'
    <3>1. step' \in [Requests -> Steps] /\ prev' \in [Requests -> Quotas]
      BY <1>6, <2>1, TypeFacts DEF Steps
    <3>2. \A a \in Admins : step'[a] \notin {"work", "reserve", "refund"}
      BY <2>1, TypeFacts DEF TriggerInv, TriggerTypeOK
    <3> QED
      BY <1>1, <1>2, <1>4, <1>6, <2>1, <3>1, <3>2 DEF TriggerInv, TriggerTypeOK
  <2>3. TimelyInv'
    BY <1>1, <1>2, <2>1, TypeFacts DEF TriggerInv, TimelyInv
  <2>4. Holding' = {r}
    BY <1>2, <1>4, <1>6, <2>1, TypeFacts DEF Holding
  <2>5. /\ Covers(quota, AcceptedUsers', asked') /\ Covers(quota', AcceptedUsers', asked')
        /\ quota' = Booked(quota, asked[r])
    BY <1>2, <1>4, <1>6, <2>1 DEF TriggerInv, QuotaInv
  <2>6. QuotaInv'
    BY <1>6, <2>1, <2>4, <2>5 DEF QuotaInv, Free, Booked
  <2>7. SeenInv'
    <3> SUFFICES ASSUME NEW u \in AcceptedUsers, NEW v \in Users PROVE Saw(u, v)'
      BY <1>2 DEF SeenInv
    <3>1. Saw(u, v) /\ v \in Requests
      BY TypeFacts DEF TriggerInv, SeenInv
    <3>2. CASE v = r
      BY <1>1, <1>2, <1>6, <2>1, <3>1, <3>2 DEF Saw
    <3>3. CASE v # r
      BY <1>1, <1>2, <2>1, <3>1, <3>3 DEF Saw
    <3> QED
      BY <3>2, <3>3
  <2>8. CooldownKept' /\ LimitKept'
    BY <1>2, <2>1, AcceptedKept DEF TriggerInv
  <2> QED
    BY <2>2, <2>3, <2>6, <2>7, <2>8 DEF TriggerInv
<1> QED
  BY <1>3, <1>5, <1>6 DEF Reserve, Evaluate, Free

LEMMA InvokeFailsStep ==
    ASSUME TriggerInv, NEW r \in Requests, InvokeFails(r)
    PROVE  TriggerInv'
<1>1. /\ step[r] = "invoke" /\ UNCHANGED <<now, quota, running, pending, prev, accepted>>
      /\ started' = started \/ started' = [started EXCEPT ![r] = "RUNNING"]
  BY DEF InvokeFails
<1>2. /\ AcceptedUsers' = AcceptedUsers /\ r \notin AcceptedUsers
      /\ started' \in [Requests -> {"none", "RUNNING", "terminal"}]
      /\ \A v \in Requests \ {r} : started'[v] = started[v]
  BY <1>1, TypeFacts DEF AcceptedUsers
<1>3. CASE GiveUp(r)
  BY <1>1, <1>2, <1>3, StepEnds, TypeFacts
<1>4. CASE r \in Users /\ To(r, "refund")
  <2>1. "refund" \in Steps \ {"idle", "done"} /\ r \notin Admins
    BY <1>4, TriggerAssumption DEF Steps
  <2>2. /\ asked' = asked /\ blind' = blind /\ step' = [step EXCEPT ![r] = "refund"]
        /\ step'[r] = "refund" /\ \A v \in Requests \ {r} : step'[v] = step[v]
    BY <1>4, TypeFacts DEF To
  <2>3. SeenInv'
    BY <1>1, <1>2, <2>2, SeenKept, TypeFacts DEF TriggerInv
  <2> QED
    BY <1>1, <1>2, <2>1, <2>2, <2>3, StepGoesOn, TypeFacts
<1> QED
  BY <1>3, <1>4 DEF InvokeFails

(* A refund writes back a document that accounts for every accepted run.    *)
LEMMA RefundStep == ASSUME TriggerInv, NEW r \in Requests, Refund(r) PROVE TriggerInv'
<1>1. /\ step[r] = "refund" /\ quota' \in {quota, prev[r]} /\ GiveUp(r)
      /\ prev' = [prev EXCEPT ![r] = NoQuota]
      /\ UNCHANGED <<now, running, pending, started, accepted>>
  BY DEF Refund
<1>2. /\ AcceptedUsers' = AcceptedUsers /\ r \in Users /\ quota' \in Quotas /\ r \in Holding
      /\ \A v \in Requests \ {r} : prev'[v] = prev[v]
  BY <1>1, TypeFacts DEF AcceptedUsers, TriggerInv, TriggerTypeOK, Requests, Holding
<1>3. prev' \in [Requests -> Quotas]
  <2>1. NoQuota \in Quotas
    BY DEF NoQuota, Quotas
  <2> QED
    BY <1>1, <2>1, TypeFacts
<1>4. CASE quota' = quota
  BY <1>1, <1>2, <1>3, <1>4, StepEnds, TypeFacts
<1>5. CASE quota' = prev[r]
  <2>1. \A u \in AcceptedUsers : asked'[u] = asked[u]
    BY <1>1, TypeFacts DEF GiveUp
  <2>2. Holding' = {}
    <3>1. \A h \in Holding : h = r
      BY <1>2 DEF TriggerInv, QuotaInv
    <3> QED
      BY <1>1, <3>1, TypeFacts DEF Holding, GiveUp
  <2>3. Covers(prev[r], AcceptedUsers, asked)
    BY <1>2 DEF TriggerInv, QuotaInv
  <2>4. Covers(quota', AcceptedUsers', asked')
    BY <1>2, <1>5, <2>1, <2>3, CoversSame
  <2>5. QuotaInv'
    BY <2>2, <2>4 DEF QuotaInv
  <2> QED
    BY <1>1, <1>2, <1>3, <2>5, StepEnds, TypeFacts
<1> QED
  BY <1>1, <1>4, <1>5

LEMMA AnsweredUser ==
    ASSUME MaxRequest < Cooldown, TriggerInv, NEW r \in Users, InvokeAnswered(r)
    PROVE  /\ QuotaInv' /\ LimitKept' /\ CooldownKept' /\ SeenInv' /\ IsFiniteSet(AcceptedUsers')
<1>1. /\ step[r] = "invoke" /\ UNCHANGED <<now, quota, running, pending, asked, blind>>
      /\ started' = [started EXCEPT ![r] = "RUNNING"] /\ accepted' = accepted \cup {r}
      /\ step' = [step EXCEPT ![r] = "done"]
  BY DEF InvokeAnswered, To
<1>2. /\ AcceptedUsers' = AcceptedUsers \cup {r} /\ r \notin AcceptedUsers /\ r \in Requests
      /\ asked[r] \in Nat /\ prev[r] \in Quotas /\ r \in Holding
      /\ step'[r] = "done"
      /\ \A v \in Requests \ {r} : step'[v] = step[v] /\ started'[v] = started[v]
  BY <1>1, TypeFacts DEF AcceptedUsers, Holding
<1> DEFINE q == prev[r]
           t == asked[r]
           today == AcceptedOn(Day(t), AcceptedUsers, asked)
<1>3. Covers(q, AcceptedUsers, asked) /\ Free(q, t) /\ quota = Booked(q, t)
  BY <1>2 DEF TriggerInv, QuotaInv
<1>4. /\ quota.last = t /\ quota.runs = RunsToday(q, t) + 1 /\ quota.day = Day(t)
      /\ \A u \in AcceptedUsers : asked[u] + Cooldown <= t
      /\ Cardinality(today) <= RunsToday(q, t)
  BY <1>2, <1>3, BookedCovers DEF TriggerInv
<1>5. /\ RunsToday(q, t) \in Nat /\ RunsToday(q, t) + 1 <= DailyLimit /\ t # None
  BY <1>2, <1>3, TypeFacts DEF RunsToday, Free, Quotas, None
<1>6. IsFiniteSet(AcceptedUsers) /\ IsFiniteSet(today) /\ Cardinality(today) \in Nat
  <2>1. today \subseteq AcceptedUsers
    BY DEF AcceptedOn
  <2> QED
    BY <2>1, FS_Subset, FS_CardinalityType DEF TriggerInv, TriggerTypeOK
<1>7. AcceptedOn(Day(t), AcceptedUsers', asked') = today \cup {r} /\ r \notin today
  BY <1>1, <1>2 DEF AcceptedOn
<1> HIDE DEF today
<1>8. IsFiniteSet(AcceptedUsers')
  BY <1>2, <1>6, FS_AddElement
<1>9. Cardinality(AcceptedOn(Day(t), AcceptedUsers', asked')) <= RunsToday(q, t) + 1
  <2>1. Cardinality(today \cup {r}) = Cardinality(today) + 1
    BY <1>6, <1>7, FS_AddElement
  <2> QED
    BY <1>4, <1>5, <1>6, <1>7, <2>1
<1>10. \A u \in AcceptedUsers' : asked'[u] <= t
  <2>1. \A u \in AcceptedUsers : asked[u] \in Nat /\ Cooldown \in Nat
    BY TypeFacts
  <2> QED
    BY <1>1, <1>2, <1>4, <2>1
<1>11. QuotaInv'
  <2>1. Holding' = {}
    <3>1. \A h \in Holding : h = r
      BY <1>2 DEF TriggerInv, QuotaInv
    <3> QED
      BY <1>2, <3>1, TypeFacts DEF Holding
  <2>2. Covers(quota', AcceptedUsers', asked')
    BY <1>1, <1>4, <1>5, <1>9, <1>10 DEF Covers
  <2> QED
    BY <2>1, <2>2 DEF QuotaInv
<1>12. LimitKept'
  <2> SUFFICES ASSUME NEW d \in Nat
               PROVE  Cardinality(AcceptedOn(d, AcceptedUsers', asked')) <= DailyLimit
    BY DEF LimitKept
  <2>1. CASE d = Day(t)
    <3>1. IsFiniteSet(AcceptedOn(d, AcceptedUsers', asked'))
      <4>1. AcceptedOn(d, AcceptedUsers', asked') \subseteq AcceptedUsers'
        BY DEF AcceptedOn
      <4> QED
        BY <1>8, <4>1, FS_Subset
    <3>2. Cardinality(AcceptedOn(d, AcceptedUsers', asked')) \in Nat
      BY <3>1, FS_CardinalityType
    <3> QED
      BY <1>5, <1>9, <2>1, <3>2, TypeFacts
  <2>2. CASE d # Day(t)
    <3>1. AcceptedOn(d, AcceptedUsers', asked') = AcceptedOn(d, AcceptedUsers, asked)
      BY <1>1, <1>2, <2>2 DEF AcceptedOn
    <3> QED
      BY <3>1 DEF TriggerInv, LimitKept
  <2> QED
    BY <2>1, <2>2
<1>13. CooldownKept'
  BY <1>1, <1>2, <1>4 DEF TriggerInv, CooldownKept
<1>14. SeenInv'
  <2> SUFFICES ASSUME NEW u \in AcceptedUsers \cup {r}, NEW v \in Users PROVE Saw(u, v)'
    BY <1>2 DEF SeenInv
  <2>0. v \in Requests /\ asked[v] \in Nat
    BY TypeFacts
  <2>1. CASE u = r
    <3>1. ~(asked[r] + Cooldown <= asked[v])
      <4>1. asked[v] <= now /\ now <= asked[r] + MaxRequest
        BY <1>1, <1>2, <2>0 DEF TriggerInv, TimelyInv
      <4> QED
        BY <1>2, <2>0, <4>1, TypeFacts
    <3> QED
      BY <1>1, <2>1, <3>1 DEF Saw
  <2>2. CASE u # r
    <3>1. Saw(u, v) /\ u \in AcceptedUsers /\ u \in Requests
      BY <2>2, TypeFacts DEF TriggerInv, SeenInv
    <3>2. CASE v = r
      BY <1>1, <1>2, <2>2, <3>1, <3>2 DEF Saw
    <3>3. CASE v # r
      BY <1>1, <1>2, <2>0, <2>2, <3>1, <3>3 DEF Saw
    <3> QED
      BY <3>2, <3>3
  <2> QED
    BY <2>1, <2>2
<1> QED
  BY <1>8, <1>11, <1>12, <1>13, <1>14

LEMMA InvokeAnsweredStep ==
    ASSUME MaxRequest < Cooldown, TriggerInv, NEW r \in Requests, InvokeAnswered(r)
    PROVE  TriggerInv'
<1>1. /\ step[r] = "invoke" /\ UNCHANGED <<now, quota, running, pending, asked, blind>>
      /\ started' = [started EXCEPT ![r] = "RUNNING"] /\ accepted' = accepted \cup {r}
      /\ step' = [step EXCEPT ![r] = "done"] /\ prev' = [prev EXCEPT ![r] = NoQuota]
  BY DEF InvokeAnswered, To
<1>2. /\ step'[r] = "done" /\ r \notin AcceptedUsers
      /\ AcceptedUsers' = IF r \in Users THEN AcceptedUsers \cup {r} ELSE AcceptedUsers
      /\ \A v \in Requests \ {r} : step'[v] = step[v] /\ started'[v] = started[v] /\ prev'[v] = prev[v]
  BY <1>1, TypeFacts DEF AcceptedUsers
<1>3. /\ QuotaInv' /\ LimitKept' /\ CooldownKept' /\ SeenInv' /\ IsFiniteSet(AcceptedUsers')
  <2>1. CASE r \in Users
    BY <2>1, AnsweredUser
  <2>2. CASE r \notin Users
    <3>1. AcceptedUsers' = AcceptedUsers /\ \A v \in Users : v \in Requests \ {r}
      BY <1>2, <2>2, TypeFacts
    <3>2. IsFiniteSet(AcceptedUsers')
      BY <3>1 DEF TriggerInv, TriggerTypeOK
    <3>3. \A h \in Holding' : h \in Holding /\ prev'[h] = prev[h] /\ asked'[h] = asked[h]
      BY <1>1, <1>2, <3>1 DEF Holding
    <3>4. QuotaInv'
      BY <1>1, <3>1, <3>3, QuotaKept DEF TriggerInv
    <3>5. LimitKept' /\ CooldownKept'
      BY <1>1, <3>1, AcceptedKept DEF TriggerInv
    <3>6. SeenInv'
      BY <1>1, <1>2, <3>1, SeenKept, TypeFacts DEF TriggerInv
    <3> QED
      BY <3>2, <3>4, <3>5, <3>6
  <2> QED
    BY <2>1, <2>2
<1>4. TriggerTypeOK'
  <2>1. NoQuota \in Quotas
    BY DEF NoQuota, Quotas
  <2>2. /\ step' \in [Requests -> Steps] /\ prev' \in [Requests -> Quotas]
        /\ started' \in [Requests -> {"none", "RUNNING", "terminal"}]
    BY <1>1, <2>1, TypeFacts DEF Steps
  <2>3. \A a \in Admins : step'[a] \notin {"work", "reserve", "refund"}
    BY <1>2, TypeFacts DEF TriggerInv, TriggerTypeOK
  <2> QED
    BY <1>1, <1>3, <2>2, <2>3 DEF TriggerInv, TriggerTypeOK
<1>5. TimelyInv'
  BY <1>1, <1>2, TypeFacts DEF TriggerInv, TimelyInv
<1> QED
  BY <1>3, <1>4, <1>5 DEF TriggerInv

LEMMA TriggerStep ==
    ASSUME MaxRequest < Cooldown, TriggerInv, [TNext]_tvars
    PROVE  TriggerInv'
<1>1. CASE UNCHANGED tvars
  BY <1>1 DEF tvars, TriggerInv, TriggerTypeOK, TimelyInv, QuotaInv, SeenInv, CooldownKept,
              LimitKept, AcceptedUsers, Holding, Saw, Free, Booked
<1>2. ASSUME NEW r \in Requests, RequestStep(r) PROVE TriggerInv'
  BY <1>2, AskStep, CheckRunningUserStep, CheckRunningAdminStep, CountWorkStep, ReserveStep,
     InvokeAnsweredStep, InvokeFailsStep, RefundStep
     DEF RequestStep
<1> QED
  BY <1>1, <1>2, TerminateStep, TickStep DEF TNext

LEMMA TriggerInvariance ==
    ASSUME MaxRequest < Cooldown PROVE TSpec => []TriggerInv
<1>1. TInit => TriggerInv
  BY TriggerInitial
<1>2. TriggerInv /\ [TNext]_tvars => TriggerInv'
  BY TriggerStep
<1> QED
  BY <1>1, <1>2, PTL DEF TSpec

-----------------------------------------------------------------------------
(* The promises of the quota *)

(* ReserveQuota, RefundQuota and Evaluate: no UTC day has more accepted     *)
(* requests than PIPELINE_DAILY_LIMIT, whatever triggers fail or lose their *)
(* answers and whatever refunds are lost.                                   *)
THEOREM LimitIsKept ==
    ASSUME MaxRequest < Cooldown PROVE TSpec => []AcceptedWithinLimit
<1>1. TriggerInv => AcceptedWithinLimit
  <2>1. \A d \in 0 .. Day(MaxTime) : d \in Nat
    OBVIOUS
  <2> QED
    BY <2>1 DEF TriggerInv, LimitKept, AcceptedOn, AcceptedWithinLimit
<1> QED
  BY <1>1, TriggerInvariance, PTL

(* InCooldown: two accepted requests are PIPELINE_COOLDOWN_SECONDS apart.   *)
THEOREM CooldownStaysKept ==
    ASSUME MaxRequest < Cooldown PROVE TSpec => []CooldownKept
<1>1. TriggerInv => CooldownKept
  BY DEF TriggerInv
<1> QED
  BY <1>1, TriggerInvariance, PTL

(* isPipelineRunning: although the list of executions is read long before   *)
(* the reservation commits, the runs of two accepted users overlap only if  *)
(* the later request did not get the list.                                  *)
THEOREM RunsStayApart ==
    ASSUME MaxRequest < Cooldown PROVE TSpec => []UserRunsDontOverlap
<1>1. TriggerInv => UserRunsDontOverlap
  <2> SUFFICES ASSUME TriggerInv, NEW u \in AcceptedUsers, NEW v \in AcceptedUsers, u # v,
                      asked[u] <= asked[v], started[u] = "RUNNING"
               PROVE  v \in blind
    BY DEF UserRunsDontOverlap
  <2>1. asked[u] + Cooldown <= asked[v] \/ asked[v] + Cooldown <= asked[u]
    BY DEF TriggerInv, CooldownKept
  <2>2. asked[u] + Cooldown <= asked[v]
    BY <2>1, TypeFacts
  <2>3. Saw(u, v)
    BY TypeFacts DEF TriggerInv, SeenInv
  <2> QED
    BY <2>2, <2>3 DEF Saw
<1> QED
  BY <1>1, TriggerInvariance, PTL
=============================================================================
