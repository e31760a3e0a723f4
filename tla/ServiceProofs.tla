---------------------------- MODULE ServiceProofs ----------------------------
(***************************************************************************)
(* What a query promises, for every corpus, every set of criteria, every   *)
(* number of expansion attempts and every selection limit; what logins     *)
(* promise, for every number of clients, BFF instances and tokens; what    *)
(* the rate limiter promises, for every limit, window and period of its    *)
(* cleanup; and what becomes of suggested queries, for every number of     *)
(* concepts and runs.                                                      *)
(***************************************************************************)
EXTENDS QueryAnswer, Accounts, RateLimiter, SuggestedQueries, FiniteSetTheorems, TLAPS

(* Queries *)

(* What holds at the stages before an answer exists. *)
StageInv ==
    /\ stage \in {"resolve", "expand", "synthesize"} =>
           contexts = NoContexts /\ answer = NoAnswer
    /\ stage = "chat" => contexts.given # {} /\ answer = NoAnswer

CitationInv == StageInv /\ CitationsBacked

-----------------------------------------------------------------------------

(* The first n of a set are members of it.                                  *)
LEMMA TopOfSubset ==
    ASSUME NEW S, NEW score, NEW n
    PROVE  TopOf(S, score, n) \subseteq S
BY DEF TopOf

(* Select: nothing is selected that did not qualify.                        *)
LEMMA SelectSubset ==
    ASSUME NEW chosen, NEW qualified, NEW score, Select(chosen, qualified, score)
    PROVE  chosen \subseteq qualified
<1> DEFINE exact == TopOf(qualified \cap named, score, SelectionLimit)
           generic == qualified \ named
           remaining == SelectionLimit - Cardinality(exact)
           slots == MinOf(MinOf(ExplorationSlots, Cardinality(generic)), remaining)
           ranked == TopOf(generic, score, remaining - slots)
<1>1. exact \subseteq qualified
  BY TopOfSubset
<1>2. ranked \subseteq qualified
  BY TopOfSubset
<1>3. PICK explored \in SUBSET (generic \ ranked) : chosen = exact \cup ranked \cup explored
  BY DEF Select
<1> QED
  BY <1>1, <1>2, <1>3

-----------------------------------------------------------------------------

LEMMA CitationInit == QueryInit => CitationInv
BY DEF QueryInit, CitationInv, StageInv, CitationsBacked, NoContexts, NoAnswer

(* One step per action: citations are set once, from the references issued  *)
(* for this request, and never outlive them.                                *)
LEMMA CitationStep ==
    CitationInv /\ [QueryNext]_queryVars => CitationInv'
<1> SUFFICES ASSUME CitationInv, [QueryNext]_queryVars
             PROVE  CitationInv'
  OBVIOUS
<1> USE DEF CitationInv, StageInv, CitationsBacked, NoContexts, NoAnswer
<1>1. CASE ResolveConfig
  BY <1>1 DEF ResolveConfig
<1>2. CASE \E a \in Attempts : AttemptReturns(a)
  BY <1>2 DEF AttemptReturns
<1>3. CASE RetrieveResults
  BY <1>3 DEF RetrieveResults
<1>4. CASE buildContexts
  <2>1. PICK given \in SUBSET results : \E refs \in SUBSET given :
            contexts' = [given |-> given, issued |-> refs]
    BY <1>4 DEF buildContexts
  <2>2. PICK refs \in SUBSET given : contexts' = [given |-> given, issued |-> refs]
    BY <2>1
  <2>3. answer' = answer /\ results' = results /\ answer = NoAnswer
    BY <1>4 DEF buildContexts
  <2>4. contexts'.given = given /\ contexts'.issued = refs
    BY <2>2
  <2> QED
    BY <1>4, <2>1, <2>2, <2>3, <2>4 DEF buildContexts
<1>5. CASE ChatAnswers
  BY <1>5 DEF ChatAnswers, IssuedCitations, ResolveMentions
<1>6. CASE AnswerWithoutEvidence
  BY <1>6 DEF AnswerWithoutEvidence
<1>7. CASE QueryFails
  BY <1>7 DEF QueryFails
<1>8. CASE UNCHANGED queryVars
  BY <1>8 DEF queryVars
<1> QED
  BY <1>1, <1>2, <1>3, <1>4, <1>5, <1>6, <1>7, <1>8 DEF QueryNext

(* Whatever the model writes, citations are to pages shown to it under a    *)
(* reference issued for the request (ResolveMentions, buildContexts).       *)
THEOREM CitationsAreBacked == QuerySpec => []CitationsBacked
<1>1. CitationInv => CitationsBacked
  BY DEF CitationInv
<1> QED
  BY CitationInit, CitationStep, <1>1, PTL DEF QuerySpec

-----------------------------------------------------------------------------

(* A result of the merged plan meets its hard criteria.                     *)
LEMMA EligibleResults ==
    ASSUME NEW p, qualifyCandidate(aggregatePlans, p),
           NEW c \in Criteria, ~Conflict
    PROVE  /\ (\E a \in Succeeded : "excluded" \in attempt[a][c]) => corpus[p][c] = "none"
           /\ Succeeded # {} /\ (\A a \in Succeeded : "required" \in attempt[a][c])
                  => corpus[p][c] # "none"
<1>1. Eligible(aggregatePlans, p)
  BY DEF qualifyCandidate
<1>2. ASSUME NEW a \in Succeeded, "excluded" \in attempt[a][c]
      PROVE  corpus[p][c] = "none"
  <2>1. c \in aggregatePlans.excluded
    BY <1>2 DEF aggregatePlans, ExcludedByAny, In
  <2> QED
    BY <1>1, <2>1 DEF Eligible, Mentions
<1>3. ASSUME Succeeded # {}, \A a \in Succeeded : "required" \in attempt[a][c]
      PROVE  corpus[p][c] # "none"
  <2>1. c \in aggregatePlans.required
    BY <1>3 DEF aggregatePlans, AllRequire, In
  <2> QED
    BY <1>1, <2>1 DEF Eligible, Mentions
<1> QED
  BY <1>2, <1>3

LEMMA HardStep ==
    HardCriteriaKept /\ [QueryNext]_queryVars => HardCriteriaKept'
<1> SUFFICES ASSUME HardCriteriaKept, [QueryNext]_queryVars, stage' = "synthesize",
                    NEW p \in results', NEW c \in Criteria
             PROVE  (/\ corpus[p][c] # "none" /\ (\E a \in Succeeded : "excluded" \in attempt[a][c]) => Conflict
                     /\ Succeeded # {} /\ (\A a \in Succeeded : "required" \in attempt[a][c])
                            => corpus[p][c] # "none" \/ Conflict)'
  BY DEF HardCriteriaKept
<1>1. CASE RetrieveResults
  <2> DEFINE qualified == {q \in Pages : qualifyCandidate(aggregatePlans, q)}
  <2>1. p \in qualified
    BY <1>1, SelectSubset DEF RetrieveResults
  <2>2. corpus' = corpus /\ attempt' = attempt
    BY <1>1 DEF RetrieveResults
  <2>3. /\ corpus[p][c] # "none" /\ (\E a \in Succeeded : "excluded" \in attempt[a][c]) => Conflict
        /\ Succeeded # {} /\ (\A a \in Succeeded : "required" \in attempt[a][c])
               => corpus[p][c] # "none" \/ Conflict
    BY <2>1, EligibleResults
  <2>4. Succeeded' = Succeeded /\ Conflict' = Conflict
    BY <2>2 DEF Succeeded, Conflict, In
  <2> QED
    BY <2>2, <2>3, <2>4
<1>2. CASE UNCHANGED queryVars
  BY <1>2 DEF queryVars, HardCriteriaKept, Succeeded, Conflict, In
<1>3. CASE QueryNext /\ ~RetrieveResults
  BY <1>3 DEF QueryNext, ResolveConfig, AttemptReturns, buildContexts, ChatAnswers,
              AnswerWithoutEvidence, QueryFails
<1> QED
  BY <1>1, <1>2, <1>3

(* mergeCriteria, aggregateRequiredPreferred, Eligible: every result meets  *)
(* the requirements all attempts agree on and no exclusion that any of them *)
(* found, unless the attempts contradict each other.                        *)
THEOREM HardCriteriaAreKept == QuerySpec => []HardCriteriaKept
<1>1. QueryInit => HardCriteriaKept
  BY DEF QueryInit, HardCriteriaKept
<1> QED
  BY <1>1, HardStep, PTL DEF QuerySpec

-----------------------------------------------------------------------------
(* Logins and refresh tokens *)

LoginRequests == [at : {"idle", "register", "lookup", "issue"}, process : Processes \cup {NoUser},
             token : 0 .. MaxTokens, role : Roles \cup {NoUser}]

AccountsTypeOK ==
    /\ role \in Roles \cup {NoUser}
    /\ issued \in 0 .. MaxTokens
    /\ active \in [Processes -> SUBSET Tokens]
    /\ family \in [Tokens -> 0 .. MaxTokens]
    /\ client \in [Logins -> LoginRequests]

(* A refresh that holds a token it has taken out of the store. *)
Holds(c) == client[c].at \in {"lookup", "issue"} /\ client[c].token # NoToken

(* Tokens are issued in order, and a family is named by an issued token.    *)
TokensIssued ==
    /\ \A t \in Tokens : t <= issued => family[t] \in 1 .. issued
    /\ \A p \in Processes : \A t \in active[p] : t <= issued
    /\ \A c \in Logins : Holds(c) => client[c].token <= issued

(* The good tokens and the refreshes under way of one family are one.       *)
FamilyApart ==
    /\ \A p, q \in Processes : \A t \in active[p], u \in active[q] :
           family[t] = family[u] => p = q /\ t = u
    /\ \A p \in Processes : \A t \in active[p] : \A c \in Logins :
           Holds(c) => family[t] # family[client[c].token]
    /\ \A c, d \in Logins :
           Holds(c) /\ Holds(d) /\ family[client[c].token] = family[client[d].token] => c = d

AccountsInv == AccountsTypeOK /\ TokensIssued /\ FamilyApart

-----------------------------------------------------------------------------

(* A set whose elements are all equal has at most one.                      *)
LEMMA AtMostOne ==
    ASSUME NEW S, \A x, y \in S : x = y
    PROVE  Cardinality(S) \in {0, 1} /\ (S = {} => Cardinality(S) = 0)
<1>1. CASE S = {}
  BY <1>1, FS_EmptySet
<1>2. CASE S # {}
  <2>1. PICK x : x \in S
    BY <1>2
  <2>2. S = {x}
    BY <2>1
  <2> QED
    BY <2>2, <1>2, FS_Singleton
<1> QED
  BY <1>1, <1>2

LEMMA FamilyApartSuffices ==
    ASSUME AccountsInv
    PROVE  OneTokenPerLogin
<1> DEFINE Good(f) == {t \in UNION {active[p] : p \in Processes} : family[t] = f}
           InFlight(f) == {c \in Logins : client[c].at \in {"lookup", "issue"}
                            /\ client[c].token # NoToken /\ family[client[c].token] = f}
<1>1. ASSUME NEW f \in Tokens PROVE Cardinality(Good(f)) + Cardinality(InFlight(f)) <= 1
  <2>1. \A t, u \in Good(f) : t = u
    BY DEF AccountsInv, FamilyApart
  <2>2. \A c, d \in InFlight(f) : c = d
    BY DEF AccountsInv, FamilyApart, Holds
  <2>3. Good(f) = {} \/ InFlight(f) = {}
    BY DEF AccountsInv, FamilyApart, Holds
  <2> HIDE DEF Good, InFlight
  <2>4. /\ Cardinality(Good(f)) \in {0, 1}
        /\ Good(f) = {} => Cardinality(Good(f)) = 0
    BY <2>1, AtMostOne
  <2>5. /\ Cardinality(InFlight(f)) \in {0, 1}
        /\ InFlight(f) = {} => Cardinality(InFlight(f)) = 0
    BY <2>2, AtMostOne
  <2> QED
    BY <2>3, <2>4, <2>5
<1> QED
  BY <1>1 DEF OneTokenPerLogin

-----------------------------------------------------------------------------

(* Steps that issue nothing, and after which no token is good and no        *)
(* refresh holds one that was not or did not before.                        *)
LEMMA NothingIssued ==
    ASSUME AccountsInv, AccountsTypeOK', UNCHANGED <<family, issued>>,
           \A p \in Processes : active'[p] \subseteq active[p],
           \A c \in Logins : Holds(c)' => Holds(c) /\ client'[c].token = client[c].token
    PROVE  AccountsInv'
<1>1. TokensIssued'
  BY DEF AccountsInv, TokensIssued
<1>2. FamilyApart'
  BY DEF AccountsInv, FamilyApart
<1> QED
  BY <1>1, <1>2 DEF AccountsInv

LEMMA AccountsInitial == AccountsInit => AccountsInv
<1> SUFFICES ASSUME AccountsInit PROVE AccountsInv
  OBVIOUS
<1>1. AccountsTypeOK
  <2>1. AtRest \in LoginRequests
    BY AccountsAssumption DEF AtRest, LoginRequests, Roles, NoToken
  <2>2. family \in [Tokens -> 0 .. MaxTokens] /\ issued \in 0 .. MaxTokens
    BY AccountsAssumption DEF AccountsInit, NoToken
  <2> QED
    BY <2>1, <2>2 DEF AccountsInit, AccountsTypeOK
<1>2. \A c \in Logins : ~Holds(c)
  BY DEF AccountsInit, Holds, AtRest
<1>3. TokensIssued
  BY <1>2, AccountsAssumption DEF AccountsInit, TokensIssued, Tokens
<1>4. FamilyApart
  BY <1>2 DEF AccountsInit, FamilyApart
<1> QED
  BY <1>1, <1>3, <1>4 DEF AccountsInv

(* A request that is given another state leaves the others alone.           *)
LEMMA RequestBecomes ==
    ASSUME AccountsTypeOK, NEW c \in Logins, NEW q \in LoginRequests,
           client' = [client EXCEPT ![c] = q]
    PROVE  /\ client' \in [Logins -> LoginRequests]
           /\ client'[c] = q
           /\ \A d \in Logins \ {c} : client'[d] = client[d] /\ Holds(d)' = Holds(d)
BY DEF AccountsTypeOK, Holds

LEMMA RequestGoes ==
    ASSUME AccountsTypeOK, NEW c \in Logins, NEW at \in {"idle", "register"}, Goes(c, at)
    PROVE  /\ client' \in [Logins -> LoginRequests]
           /\ \A d \in Logins : Holds(d)' => Holds(d) /\ client'[d].token = client[d].token
<1> DEFINE q == [client[c] EXCEPT !.at = at]
<1>1. client[c] \in LoginRequests
  BY DEF AccountsTypeOK
<1>2. q \in LoginRequests /\ q.at = at
  BY <1>1 DEF LoginRequests
<1>3. client' = [client EXCEPT ![c] = q]
  BY DEF Goes
<1> HIDE DEF q
<1>4. ~Holds(c)'
  BY <1>2, <1>3, RequestBecomes DEF Holds
<1> QED
  BY <1>2, <1>3, <1>4, RequestBecomes

(* The requests the actions write, field by field.                          *)
LEMMA RoleFound ==
    ASSUME NEW r \in LoginRequests, NEW found \in Roles \cup {NoUser}
    PROVE  LET q == [r EXCEPT !.at = "issue", !.role = found]
           IN  q \in LoginRequests /\ q.at = "issue" /\ q.token = r.token
<1> DEFINE q1 == [r EXCEPT !.at = "issue"]
           q2 == [q1 EXCEPT !.role = found]
<1>1. q1 \in LoginRequests /\ q1.at = "issue" /\ q1.token = r.token
  BY DEF LoginRequests
<1> HIDE DEF q1
<1>2. q2 \in LoginRequests /\ q2.at = "issue" /\ q2.token = r.token
  BY <1>1 DEF LoginRequests
<1> HIDE DEF q2
<1>3. [r EXCEPT !.at = "issue", !.role = found] = q2
  BY DEF q1, q2
<1> QED
  BY <1>2, <1>3

(* validateRefreshToken moves a token from the store to one refresh.        *)
LEMMA ValidateStep ==
    ASSUME AccountsInv, NEW c \in Logins, NEW p \in Processes, NEW t \in Tokens,
           validateRefreshToken(c, p, t)
    PROVE  AccountsInv'
<1> DEFINE q == [AtRest EXCEPT !.at = "lookup", !.process = p, !.token = t]
<1>0. \/ client' = client
      \/ client' = [client EXCEPT ![c] = q]
  BY DEF validateRefreshToken
<1>1. AtRest \in LoginRequests /\ t \in 0 .. MaxTokens
  BY AccountsAssumption DEF AtRest, LoginRequests, Roles, NoToken, Tokens
<1>2. q \in LoginRequests /\ q.token = t /\ q.at = "lookup"
  <2> DEFINE q1 == [AtRest EXCEPT !.at = "lookup"]
             q2 == [q1 EXCEPT !.process = p]
             q3 == [q2 EXCEPT !.token = t]
  <2>1. q1 \in LoginRequests /\ q1.at = "lookup"
    BY <1>1 DEF LoginRequests
  <2> HIDE DEF q1
  <2>2. q2 \in LoginRequests /\ q2.at = "lookup"
    BY <2>1 DEF LoginRequests
  <2> HIDE DEF q2
  <2>3. q3 \in LoginRequests /\ q3.at = "lookup" /\ q3.token = t
    BY <1>1, <2>2 DEF LoginRequests
  <2> HIDE DEF q3
  <2>4. q = q3
    BY DEF q1, q2, q3
  <2> QED
    BY <2>3, <2>4
<1> HIDE DEF q
<1>3. UNCHANGED <<role, family, issued>> /\ client[c].at = "idle" /\ t \in active[p]
  BY DEF validateRefreshToken
<1>4. /\ active' \in [Processes -> SUBSET Tokens]
      /\ \A r \in Processes : active'[r] \subseteq active[r]
      /\ t \notin active'[p]
  BY DEF validateRefreshToken, AccountsInv, AccountsTypeOK
<1>5. CASE client' = client
  <2>1. AccountsTypeOK'
    BY <1>3, <1>4, <1>5 DEF AccountsInv, AccountsTypeOK
  <2> QED
    BY <2>1, <1>3, <1>4, <1>5, NothingIssued DEF Holds
<1>6. CASE client' = [client EXCEPT ![c] = q]
  <2>1. /\ client' \in [Logins -> LoginRequests] /\ client'[c] = q
        /\ \A d \in Logins \ {c} : client'[d] = client[d] /\ Holds(d)' = Holds(d)
    BY <1>2, <1>6, RequestBecomes DEF AccountsInv
  <2>2. AccountsTypeOK'
    BY <1>3, <1>4, <2>1 DEF AccountsInv, AccountsTypeOK
  <2>3. TokensIssued'
    BY <1>2, <1>3, <1>4, <2>1 DEF AccountsInv, TokensIssued
  <2>4. \A r, s \in Processes : \A u \in active'[r], v \in active'[s] :
            family'[u] = family'[v] => r = s /\ u = v
    BY <1>3, <1>4 DEF AccountsInv, FamilyApart
  <2>5. \A r \in Processes : \A u \in active'[r] : family[u] # family[t]
    BY <1>3, <1>4 DEF AccountsInv, FamilyApart
  <2>6. \A d \in Logins : Holds(d) => family[t] # family[client[d].token]
    BY <1>3 DEF AccountsInv, FamilyApart
  <2>7. \A r \in Processes : \A u \in active'[r] : \A d \in Logins :
            Holds(d)' => family'[u] # family'[client'[d].token]
    BY <1>2, <1>3, <1>4, <2>1, <2>5 DEF AccountsInv, FamilyApart
  <2>8. \A d, e \in Logins :
            Holds(d)' /\ Holds(e)' /\ family'[client'[d].token] = family'[client'[e].token] => d = e
    BY <1>2, <1>3, <2>1, <2>6 DEF AccountsInv, FamilyApart
  <2> QED
    BY <2>2, <2>3, <2>4, <2>7, <2>8 DEF AccountsInv, FamilyApart
<1> QED
  BY <1>0, <1>5, <1>6

(* GenerateRefreshToken: the new token begins a family, or takes the place  *)
(* of the one token its request holds.                                      *)
LEMMA GenerateStep ==
    ASSUME AccountsInv, NEW c \in Logins, GenerateRefreshToken(c)
    PROVE  AccountsInv'
<1> DEFINE t == issued + 1
           q == client[c]
           f == IF q.token = NoToken THEN t ELSE family[q.token]
<1>1. /\ issued \in 0 .. MaxTokens /\ issued < MaxTokens
      /\ t \in Tokens /\ t \in Nat /\ t > issued
      /\ issued' = t /\ issued' \in 0 .. MaxTokens
  BY AccountsAssumption DEF GenerateRefreshToken, AccountsInv, AccountsTypeOK, Tokens
<1>2. q \in LoginRequests /\ q.at = "issue" /\ q.token \in 0 .. MaxTokens
  BY DEF GenerateRefreshToken, AccountsInv, AccountsTypeOK, LoginRequests
<1>3. /\ q.token # NoToken => Holds(c) /\ q.token <= issued /\ q.token \in Tokens
  BY <1>1, <1>2, AccountsAssumption DEF Holds, AccountsInv, TokensIssued, Tokens, NoToken
<1>4. f \in 1 .. t
  BY <1>1, <1>3 DEF AccountsInv, TokensIssued
<1>5. family' = [family EXCEPT ![t] = f] /\ active' = [active EXCEPT ![q.process] = @ \cup {t}]
  BY DEF GenerateRefreshToken
<1>6. client' = [client EXCEPT ![c] = AtRest] /\ UNCHANGED role
  BY DEF GenerateRefreshToken
<1>7. AtRest \in LoginRequests /\ AtRest.at = "idle"
  BY AccountsAssumption DEF AtRest, LoginRequests, Roles, NoToken
<1>8. /\ client' \in [Logins -> LoginRequests] /\ client'[c] = AtRest
      /\ \A d \in Logins \ {c} : client'[d] = client[d] /\ Holds(d)' = Holds(d)
  BY <1>6, <1>7, RequestBecomes DEF AccountsInv
<1>9. ~Holds(c)'
  BY <1>7, <1>8 DEF Holds
<1>10. /\ family' \in [Tokens -> 0 .. MaxTokens] /\ family'[t] = f
       /\ \A u \in Tokens : u <= issued => family'[u] = family[u] /\ family[u] \in 1 .. issued
  BY <1>1, <1>4, <1>5, AccountsAssumption DEF AccountsInv, AccountsTypeOK, TokensIssued, Tokens
<1>11. /\ active' \in [Processes -> SUBSET Tokens]
       /\ \A p \in Processes : \A u \in active'[p] :
              (u \in active[p] /\ u <= issued /\ u \in Tokens) \/ (p = q.process /\ u = t)
  BY <1>1, <1>5 DEF AccountsInv, AccountsTypeOK, TokensIssued
<1>12. AccountsTypeOK'
  BY <1>1, <1>6, <1>8, <1>10, <1>11 DEF AccountsInv, AccountsTypeOK
<1> HIDE DEF q, f
<1>13. \A d \in Logins : Holds(d)' =>
           /\ d # c /\ Holds(d) /\ client'[d].token = client[d].token
           /\ client[d].token <= issued /\ client[d].token \in Tokens
  <2> TAKE d \in Logins
  <2> HAVE Holds(d)'
  <2>1. d # c /\ Holds(d) /\ client'[d].token = client[d].token
    BY <1>8, <1>9
  <2>2. client[d].token \in 0 .. MaxTokens /\ client[d].token <= issued /\ client[d].token # 0
    BY <2>1 DEF Holds, NoToken, AccountsInv, AccountsTypeOK, TokensIssued, LoginRequests
  <2> QED
    BY <2>1, <2>2, AccountsAssumption DEF Tokens
<1>14. TokensIssued'
  <2>0. \A u \in Tokens : u <= issued' => u <= issued \/ u = t
    BY <1>1, AccountsAssumption DEF Tokens
  <2>1. \A u \in Tokens : u <= issued' => family'[u] \in 1 .. issued'
    BY <1>1, <1>4, <1>10, <2>0
  <2>2. \A p \in Processes : \A u \in active'[p] : u <= issued'
    BY <1>1, <1>11, AccountsAssumption DEF Tokens
  <2>3. \A d \in Logins : Holds(d)' => client'[d].token <= issued'
    BY <1>1, <1>13, AccountsAssumption DEF Tokens
  <2> QED
    BY <2>1, <2>2, <2>3 DEF TokensIssued
(* No other good token and no other refresh is of the new token's family.   *)
<1>15. \A p \in Processes : \A u \in active[p] : family[u] # f
  <2> TAKE p \in Processes
  <2> TAKE u \in active[p]
  <2>1. u \in Tokens /\ u <= issued /\ family[u] \in 1 .. issued
    BY DEF AccountsInv, AccountsTypeOK, TokensIssued
  <2>2. CASE q.token = NoToken
    BY <1>1, <2>1, <2>2 DEF f
  <2>3. CASE q.token # NoToken
    BY <1>3, <2>3 DEF f, q, AccountsInv, FamilyApart
  <2> QED
    BY <2>2, <2>3
<1>16. \A d \in Logins : Holds(d)' => family[client[d].token] # f
  <2> TAKE d \in Logins
  <2> HAVE Holds(d)'
  <2>1. CASE q.token = NoToken
    BY <1>1, <1>10, <1>13, <2>1 DEF f
  <2>2. CASE q.token # NoToken
    BY <1>3, <1>13, <2>2 DEF f, q, AccountsInv, FamilyApart
  <2> QED
    BY <2>1, <2>2
<1>17. \A p, r \in Processes : \A u \in active'[p], v \in active'[r] :
           family'[u] = family'[v] => p = r /\ u = v
  BY <1>10, <1>11, <1>15 DEF AccountsInv, FamilyApart
<1>18. \A p \in Processes : \A u \in active'[p] : \A d \in Logins :
           Holds(d)' => family'[u] # family'[client'[d].token]
  BY <1>10, <1>11, <1>13, <1>16 DEF AccountsInv, FamilyApart
<1>19. \A d, e \in Logins :
           Holds(d)' /\ Holds(e)' /\ family'[client'[d].token] = family'[client'[e].token] => d = e
  BY <1>10, <1>13 DEF AccountsInv, FamilyApart
<1> QED
  BY <1>12, <1>14, <1>17, <1>18, <1>19 DEF AccountsInv, FamilyApart

-----------------------------------------------------------------------------

(* One step per action.                                                     *)
LEMMA AccountsStep == AccountsInv /\ [AccountsNext]_accountVars => AccountsInv'
<1> SUFFICES ASSUME AccountsInv, [AccountsNext]_accountVars
             PROVE  AccountsInv'
  OBVIOUS
<1>0. ASSUME UNCHANGED <<active, family, issued>>, role' \in Roles \cup {NoUser},
             client' \in [Logins -> LoginRequests],
             \A c \in Logins : Holds(c)' => Holds(c) /\ client'[c].token = client[c].token
      PROVE  AccountsInv'
  <2>1. AccountsTypeOK'
    BY <1>0 DEF AccountsInv, AccountsTypeOK
  <2> QED
    BY <1>0, <2>1, NothingIssued
<1>a. ASSUME UNCHANGED <<active, family, issued, client>>, role' \in Roles \cup {NoUser}
      PROVE  AccountsInv'
  BY <1>0, <1>a DEF Holds, AccountsInv, AccountsTypeOK
<1>b. role \in Roles \cup {NoUser} /\ client \in [Logins -> LoginRequests]
  BY DEF AccountsInv, AccountsTypeOK
<1>c. AtRest \in LoginRequests /\ AtRest.at = "idle" /\ AtRest.token = NoToken
  BY AccountsAssumption DEF AtRest, LoginRequests, Roles, NoToken
<1>1. CASE \E b \in {"true", "false"} : SetRegistrationEnabled(b)
  BY <1>a, <1>b, <1>1 DEF SetRegistrationEnabled
<1>2. CASE PublishAnnouncement
  BY <1>a, <1>b, <1>2 DEF PublishAnnouncement
<1>3. ASSUME NEW c \in Logins, RegisterBegins(c) PROVE AccountsInv'
  <2>1. CASE UNCHANGED client
    BY <1>a, <1>b, <1>3, <2>1 DEF RegisterBegins
  <2>2. CASE Goes(c, "register")
    BY <1>0, <1>b, <1>3, <2>2, RequestGoes DEF RegisterBegins, AccountsInv
  <2> QED
    BY <1>3, <2>1, <2>2 DEF RegisterBegins
<1>4. ASSUME NEW c \in Logins, CreateUser(c) PROVE AccountsInv'
  BY <1>0, <1>4, RequestGoes DEF CreateUser, AccountsInv, Roles
<1>5. ASSUME NEW c \in Logins, NEW p \in Processes, LoginHandler(c, p) PROVE AccountsInv'
  <2> DEFINE q == [at |-> "issue", process |-> p, token |-> NoToken, role |-> role]
  <2>1. q \in LoginRequests /\ q.token = NoToken
    BY <1>b, AccountsAssumption DEF LoginRequests, NoToken
  <2>2. client' = [client EXCEPT ![c] = q] /\ UNCHANGED <<role, active, family, issued>>
    BY <1>5 DEF LoginHandler
  <2> HIDE DEF q
  <2>3. /\ client' \in [Logins -> LoginRequests] /\ client'[c] = q
        /\ \A d \in Logins \ {c} : client'[d] = client[d] /\ Holds(d)' = Holds(d)
    BY <2>1, <2>2, RequestBecomes DEF AccountsInv
  <2>4. ~Holds(c)'
    BY <2>1, <2>3 DEF Holds
  <2> QED
    BY <1>0, <1>b, <2>2, <2>3, <2>4
<1>6. ASSUME NEW c \in Logins, NEW p \in Processes, NEW t \in Tokens,
             validateRefreshToken(c, p, t)
      PROVE  AccountsInv'
  BY <1>6, ValidateStep
<1>7. ASSUME NEW c \in Logins, RefreshLookup(c) PROVE AccountsInv'
  <2>0. UNCHANGED <<role, active, family, issued>> /\ client[c].at = "lookup"
        /\ client[c] \in LoginRequests
    BY <1>7 DEF RefreshLookup, AccountsInv, AccountsTypeOK
  <2>1. CASE client' = [client EXCEPT ![c].at = "issue", ![c].role = role]
    <3> DEFINE q == [client[c] EXCEPT !.at = "issue", !.role = role]
    <3>1. q \in LoginRequests /\ q.token = client[c].token
      BY <1>b, <2>0, RoleFound, Zenon
    <3>2. client' = [client EXCEPT ![c] = q]
      BY <1>b, <2>1
    <3> HIDE DEF q
    <3>3. /\ client' \in [Logins -> LoginRequests] /\ client'[c] = q
          /\ \A d \in Logins \ {c} : client'[d] = client[d] /\ Holds(d)' = Holds(d)
      BY <3>1, <3>2, RequestBecomes DEF AccountsInv
    <3>4. Holds(c)' => Holds(c)
      BY <3>1, <3>3, <2>0 DEF Holds
    <3> QED
      BY <1>0, <1>b, <2>0, <3>1, <3>3, <3>4
  <2>2. CASE client' = [client EXCEPT ![c] = AtRest]
    <3>1. /\ client' \in [Logins -> LoginRequests] /\ client'[c] = AtRest
          /\ \A d \in Logins \ {c} : client'[d] = client[d] /\ Holds(d)' = Holds(d)
      BY <1>c, <2>2, RequestBecomes DEF AccountsInv
    <3>2. ~Holds(c)'
      BY <1>c, <3>1 DEF Holds
    <3> QED
      BY <1>0, <1>b, <2>0, <3>1, <3>2
  <2> QED
    BY <1>7, <2>1, <2>2 DEF RefreshLookup
<1>8. ASSUME NEW c \in Logins, GenerateRefreshToken(c) PROVE AccountsInv'
  BY <1>8, GenerateStep
<1>9. CASE \E r \in Roles : AdminUpdateUser(r)
  BY <1>a, <1>9 DEF AdminUpdateUser
<1>10. CASE UserDeleted
  BY <1>a, <1>10 DEF UserDeleted
<1>11. ASSUME NEW p \in Processes, ProcessRestarts(p) PROVE AccountsInv'
  <2>1. UNCHANGED <<role, family, issued>>
        /\ client' = [c \in Logins |-> IF client[c].process = p THEN AtRest ELSE client[c]]
        /\ active' = [active EXCEPT ![p] = {}]
    BY <1>11 DEF ProcessRestarts
  <2>2. client' \in [Logins -> LoginRequests]
    BY <1>b, <1>c, <2>1
  <2>3. \A c \in Logins : client'[c] = AtRest \/ client'[c] = client[c]
    BY <2>1
  <2>4. \A c \in Logins : Holds(c)' => Holds(c) /\ client'[c].token = client[c].token
    BY <1>c, <2>3 DEF Holds
  <2>5. active' \in [Processes -> SUBSET Tokens] /\ \A r \in Processes : active'[r] \subseteq active[r]
    BY <2>1 DEF AccountsInv, AccountsTypeOK
  <2>6. AccountsTypeOK'
    BY <2>1, <2>2, <2>5 DEF AccountsInv, AccountsTypeOK
  <2> QED
    BY <2>1, <2>4, <2>5, <2>6, NothingIssued
<1>12. CASE UNCHANGED accountVars
  BY <1>a, <1>b, <1>12 DEF accountVars
<1> QED
  BY <1>1, <1>2, <1>3, <1>4, <1>5, <1>6, <1>7, <1>8, <1>9, <1>10, <1>11, <1>12
     DEF AccountsNext

(* validateRefreshToken, GenerateRefreshToken and the refresh handler: for  *)
(* any number of BFF processes, requests and tokens, and whenever processes *)
(* restart, of the tokens that descend from one login at most one is good   *)
(* or about to be replaced.                                                 *)
THEOREM LoginsKeepOneToken == AccountsSpec => []OneTokenPerLogin
<1>1. AccountsInv => OneTokenPerLogin
  BY FamilyApartSuffices
<1> QED
  BY AccountsInitial, AccountsStep, <1>1, PTL DEF AccountsSpec

-----------------------------------------------------------------------------

(* The rate limiter *)

(* The counters and maps of the limiter.  An entry is made for a request    *)
(* that had none, so there are never more entries than requests.            *)
LimiterTypeOK ==
    /\ clock \in Nat
    /\ made \in Nat
    /\ entryOf \in {NoEntry, made}
    /\ counted \in [RequestEntries -> SUBSET Requests]
    /\ handler \in [Requests -> {"new", "loaded", "accepted", "refused"}]
    /\ loaded \in [Requests -> Nat]
    /\ stamp \in [Requests -> Nat]
    /\ sweep \in [at : {"waiting", "delete"}, due : Nat]
    /\ sweep.due <= clock + SweepEvery
    /\ \A r \in Requests : handler[r] # "new" => loaded[r] \in 1 .. made

Arrived(h) == {r \in Requests : h[r] # "new"}

EntriesInv == made <= Cardinality(Arrived(handler))

AcceptedIn(e, start, h, l, s) ==
    {r \in Requests : /\ h[r] = "accepted" /\ l[r] = e
                      /\ start <= s[r] /\ s[r] < start + Window}

(* An entry remembers the accepted requests that still count.               *)
Remembers ==
    \A r \in Requests : handler[r] = "accepted" =>
        /\ stamp[r] <= clock
        /\ stamp[r] + Window > clock => r \in counted[loaded[r]]

(* No window of any one entry is overfull.                                  *)
EntriesKeepLimit ==
    \A e \in RequestEntries : \A start \in Nat :
        Cardinality(AcceptedIn(e, start, handler, loaded, stamp)) <= Limit

(* The last cleanup was at sweep.due - SweepEvery.  What was counted in an   *)
(* entry that is dropped was counted by then, and one cleanup earlier still  *)
(* unless that entry is the one before the latest.  A request under way is   *)
(* late by one entry at most, and only in the tick of the cleanup.           *)
DroppedInv ==
    /\ sweep.at = "delete" => entryOf # NoEntry /\ sweep.due = clock + SweepEvery
    /\ \A r \in Requests :
           handler[r] = "accepted" /\ (loaded[r] < made \/ entryOf = NoEntry) =>
               stamp[r] + SweepEvery <= sweep.due
    /\ \A r \in Requests :
           handler[r] = "accepted" /\ loaded[r] < made =>
               \/ loaded[r] + 1 = made /\ sweep.at = "waiting" /\ entryOf # NoEntry
               \/ stamp[r] + SweepEvery + SweepEvery <= sweep.due
    /\ \A r \in Requests :
           handler[r] = "loaded" =>
               \/ loaded[r] = made /\ (entryOf # NoEntry \/ sweep.due = clock + SweepEvery)
               \/ /\ loaded[r] + 1 = made /\ sweep.at = "waiting" /\ entryOf # NoEntry
                  /\ sweep.due = clock + SweepEvery

(* Requests accepted in entries that are two apart are two cleanups apart.   *)
EntriesApart ==
    \A q, r \in Requests :
        handler[q] = "accepted" /\ handler[r] = "accepted" /\ loaded[q] + 2 <= loaded[r]
            => stamp[q] + SweepEvery <= stamp[r]

LimiterInv ==
    /\ LimiterTypeOK /\ EntriesInv /\ Remembers
    /\ EntriesKeepLimit /\ DroppedInv /\ EntriesApart

-----------------------------------------------------------------------------

(* A subset of the requests is finite, and no larger than what holds it.     *)
LEMMA SomeRequests ==
    ASSUME IsFiniteSet(Requests), NEW S \in SUBSET Requests, NEW T \in SUBSET S
    PROVE  /\ IsFiniteSet(S) /\ Cardinality(S) \in Nat
           /\ IsFiniteSet(T) /\ Cardinality(T) \in Nat
           /\ Cardinality(T) <= Cardinality(S)
BY FS_Subset, FS_CardinalityType

(* Where the accepted requests stay as they are, so do their windows.        *)
LEMMA SameAccepted ==
    ASSUME EntriesKeepLimit,
           \A r \in Requests :
               /\ handler'[r] = "accepted" <=> handler[r] = "accepted"
               /\ handler[r] = "accepted" => loaded'[r] = loaded[r] /\ stamp'[r] = stamp[r]
    PROVE  EntriesKeepLimit'
<1>1. \A e, start : AcceptedIn(e, start, handler', loaded', stamp')
                        = AcceptedIn(e, start, handler, loaded, stamp)
  BY DEF AcceptedIn
<1> QED
  BY <1>1 DEF EntriesKeepLimit, RequestEntries

LEMMA LimiterInitial ==
    ASSUME IsFiniteSet(Requests)
    PROVE  LimiterInit => LimiterInv
<1> SUFFICES ASSUME LimiterInit PROVE LimiterInv
  OBVIOUS
<1>1. \A r \in Requests : handler[r] = "new"
  BY DEF LimiterInit
<1>2. LimiterTypeOK
  BY <1>1, LimiterAssumption DEF LimiterInit, LimiterTypeOK, NoEntry
<1>3. EntriesInv
  BY SomeRequests DEF LimiterInit, EntriesInv, Arrived
<1>4. \A e, start : AcceptedIn(e, start, handler, loaded, stamp) = {}
  BY <1>1 DEF AcceptedIn
<1>5. EntriesKeepLimit
  BY <1>4, FS_EmptySet, LimiterAssumption DEF EntriesKeepLimit
<1> QED
  BY <1>1, <1>2, <1>3, <1>5
     DEF LimiterInit, LimiterInv, Remembers, DroppedInv, EntriesApart

-----------------------------------------------------------------------------

(* LoadOrStore: a request finds the entry, or makes one.                     *)
LEMMA LoadStep ==
    ASSUME IsFiniteSet(Requests), LimiterInv, NEW r \in Requests, LoadOrStore(r)
    PROVE  LimiterInv'
<1> USE DEF LimiterInv
<1>1. /\ handler[r] = "new"
      /\ handler' \in [Requests -> {"new", "loaded", "accepted", "refused"}]
      /\ handler'[r] = "loaded"
      /\ \A q \in Requests \ {r} : handler'[q] = handler[q]
      /\ loaded' \in [Requests -> Nat]
      /\ loaded'[r] = entryOf'
      /\ \A q \in Requests \ {r} : loaded'[q] = loaded[q]
      /\ UNCHANGED <<clock, counted, stamp, sweep>>
      /\ \/ entryOf = NoEntry /\ made' = made + 1 /\ entryOf' = made + 1
         \/ entryOf # NoEntry /\ entryOf = made /\ made' = made /\ entryOf' = made
  BY DEF LoadOrStore, LimiterTypeOK, NoEntry
<1>2. LimiterTypeOK'
  <2>1. made' \in Nat /\ entryOf' = made' /\ made <= made' /\ made' >= 1
    BY <1>1 DEF LimiterTypeOK, NoEntry
  <2>2. \A q \in Requests : handler'[q] # "new" => loaded'[q] \in 1 .. made'
    BY <1>1, <2>1 DEF LimiterTypeOK
  <2> QED
    BY <1>1, <2>1, <2>2 DEF LimiterTypeOK, RequestEntries
<1>3. EntriesInv'
  <2>1. Arrived(handler') = Arrived(handler) \cup {r} /\ r \notin Arrived(handler)
    BY <1>1 DEF Arrived
  <2>2. IsFiniteSet(Arrived(handler)) /\ Cardinality(Arrived(handler)) \in Nat
    BY SomeRequests DEF Arrived
  <2>3. Cardinality(Arrived(handler')) = Cardinality(Arrived(handler)) + 1
    BY <2>1, <2>2, FS_AddElement
  <2> QED
    BY <1>1, <2>2, <2>3 DEF EntriesInv, LimiterTypeOK
<1>4. Remembers'
  BY <1>1 DEF Remembers
<1>5. EntriesKeepLimit'
  BY <1>1, SameAccepted
<1>6. DroppedInv'
  BY <1>1 DEF DroppedInv, LimiterTypeOK, NoEntry
<1>7. EntriesApart'
  BY <1>1 DEF EntriesApart
<1> QED
  BY <1>2, <1>3, <1>4, <1>5, <1>6, <1>7

(* The entry of a request that arrived is one of those the limiter has.      *)
LEMMA EntryExists ==
    ASSUME IsFiniteSet(Requests), LimiterInv, NEW r \in Requests, handler[r] # "new"
    PROVE  loaded[r] \in RequestEntries
<1>1. /\ Cardinality(Arrived(handler)) <= Cardinality(Requests)
      /\ Cardinality(Arrived(handler)) \in Nat /\ Cardinality(Requests) \in Nat
  BY SomeRequests DEF Arrived
<1> QED
  BY <1>1 DEF LimiterInv, LimiterTypeOK, EntriesInv, RequestEntries

(* CountRequest, accepting: what counts in the request's window is all in    *)
(* its entry, whose limit the code has just compared.                        *)
LEMMA CountKeepsLimit ==
    ASSUME IsFiniteSet(Requests), LimiterInv, NEW r \in Requests, handler[r] = "loaded",
           Cardinality(Recent(loaded[r])) < Limit,
           handler' = [handler EXCEPT ![r] = "accepted"],
           stamp' = [stamp EXCEPT ![r] = clock], loaded' = loaded
    PROVE  EntriesKeepLimit'
<1> USE DEF LimiterInv
<1> DEFINE A(e, start) == AcceptedIn(e, start, handler, loaded, stamp)
           B(e, start) == AcceptedIn(e, start, handler', loaded', stamp')
<1>1. /\ handler'[r] = "accepted" /\ stamp'[r] = clock
      /\ \A q \in Requests \ {r} : handler'[q] = handler[q] /\ stamp'[q] = stamp[q]
  BY DEF LimiterTypeOK
<1> SUFFICES ASSUME NEW e \in RequestEntries, NEW start \in Nat
             PROVE  Cardinality(B(e, start)) <= Limit
  BY DEF EntriesKeepLimit, RequestEntries
<1>2. CASE e = loaded[r] /\ start <= clock /\ clock < start + Window
  <2>1. B(e, start) \subseteq Recent(e) \cup {r}
    <3> SUFFICES ASSUME NEW q \in B(e, start), q # r PROVE q \in Recent(e)
      OBVIOUS
    <3>1. /\ q \in Requests /\ handler[q] = "accepted" /\ loaded[q] = e
          /\ start <= stamp[q] /\ stamp[q] \in Nat
      BY <1>1 DEF AcceptedIn, LimiterTypeOK
    <3>2. stamp[q] + Window > clock
      BY <1>2, <3>1, LimiterAssumption DEF LimiterTypeOK
    <3> QED
      BY <3>1, <3>2 DEF Remembers, Recent
  <2>2. Recent(e) \subseteq Requests
    BY DEF Recent, LimiterTypeOK
  <2>3. IsFiniteSet(Recent(e)) /\ Cardinality(Recent(e)) \in Nat
    BY <2>2, SomeRequests
  <2>4. Cardinality(Recent(e) \cup {r}) <= Cardinality(Recent(e)) + 1
    <3>1. CASE r \in Recent(e)
      <4>1. Recent(e) \cup {r} = Recent(e)
        BY <3>1
      <4>2. Cardinality(Recent(e) \cup {r}) = Cardinality(Recent(e))
        BY <4>1
      <4> QED
        BY <2>3, <4>2
    <3>2. CASE r \notin Recent(e)
      <4>1. Cardinality(Recent(e) \cup {r}) = Cardinality(Recent(e)) + 1
        BY <2>3, <3>2, FS_AddElement
      <4> QED
        BY <2>3, <4>1
    <3> QED
      BY <3>1, <3>2
  <2>5. Recent(e) \cup {r} \in SUBSET Requests
    BY <2>2
  <2>6. /\ Cardinality(B(e, start)) <= Cardinality(Recent(e) \cup {r})
        /\ Cardinality(B(e, start)) \in Nat /\ Cardinality(Recent(e) \cup {r}) \in Nat
    BY <2>1, <2>5, SomeRequests
  <2> HIDE DEF B
  <2> QED
    BY <1>2, <2>3, <2>4, <2>6, LimiterAssumption
<1>3. CASE ~(e = loaded[r] /\ start <= clock /\ clock < start + Window)
  <2>1. B(e, start) = A(e, start)
    BY <1>1, <1>3 DEF AcceptedIn, LimiterTypeOK
  <2> QED
    BY <2>1 DEF EntriesKeepLimit
<1> QED
  BY <1>2, <1>3

LEMMA CountStep ==
    ASSUME IsFiniteSet(Requests), LimiterInv, NEW r \in Requests, CountRequest(r)
    PROVE  LimiterInv'
<1> USE DEF LimiterInv
<1> DEFINE e == loaded[r]
           accept == Cardinality(Recent(e)) < Limit
<1>1. /\ handler[r] = "loaded"
      /\ counted' = [counted EXCEPT ![e] = Recent(e) \cup {q \in {r} : accept}]
      /\ stamp' = IF accept THEN [stamp EXCEPT ![r] = clock] ELSE stamp
      /\ handler' = [handler EXCEPT ![r] = IF accept THEN "accepted" ELSE "refused"]
      /\ UNCHANGED <<clock, entryOf, made, loaded, sweep>>
  BY DEF CountRequest
<1>2. e \in RequestEntries /\ e \in 1 .. made
  BY <1>1, EntryExists DEF LimiterTypeOK
<1>3. /\ handler' \in [Requests -> {"new", "loaded", "accepted", "refused"}]
      /\ handler'[r] = (IF accept THEN "accepted" ELSE "refused")
      /\ \A q \in Requests \ {r} : handler'[q] = handler[q]
      /\ stamp' \in [Requests -> Nat]
      /\ accept => stamp'[r] = clock
      /\ \A q \in Requests \ {r} : stamp'[q] = stamp[q]
  BY <1>1 DEF LimiterTypeOK
<1>4. /\ counted' \in [RequestEntries -> SUBSET Requests]
      /\ counted'[e] = Recent(e) \cup {q \in {r} : accept}
      /\ \A f \in RequestEntries \ {e} : counted'[f] = counted[f]
  BY <1>1, <1>2 DEF Recent, LimiterTypeOK
<1>5. LimiterTypeOK'
  BY <1>1, <1>3, <1>4, <1>2 DEF LimiterTypeOK, RequestEntries
<1>6. EntriesInv'
  <2>1. Arrived(handler') = Arrived(handler)
    BY <1>1, <1>3 DEF Arrived
  <2> QED
    BY <1>1, <2>1 DEF EntriesInv
<1>7. Remembers'
  <2> SUFFICES ASSUME NEW q \in Requests, handler'[q] = "accepted"
               PROVE  /\ stamp'[q] <= clock
                      /\ stamp'[q] + Window > clock => q \in counted'[loaded[q]]
    BY <1>1 DEF Remembers
  <2>1. CASE q = r
    BY <1>3, <1>4, <2>1 DEF LimiterTypeOK
  <2>2. CASE q # r
    <3>1. /\ handler[q] = "accepted" /\ stamp'[q] = stamp[q]
          /\ loaded[q] \in RequestEntries
      BY <1>3, <2>2, EntryExists
    <3> QED
      BY <1>4, <3>1 DEF Remembers, Recent
  <2> QED
    BY <2>1, <2>2
<1>8. EntriesKeepLimit'
  <2>1. CASE accept
    BY <1>1, <2>1, CountKeepsLimit
  <2>2. CASE ~accept
    BY <1>1, <1>3, <2>2, SameAccepted
  <2> QED
    BY <2>1, <2>2
<1> HIDE DEF accept
<1>9. DroppedInv'
  BY <1>1, <1>2, <1>3, LimiterAssumption DEF DroppedInv, LimiterTypeOK
<1>10. EntriesApart'
  <2> SUFFICES ASSUME NEW p \in Requests, NEW q \in Requests,
                      handler'[p] = "accepted", handler'[q] = "accepted",
                      loaded[p] + 2 <= loaded[q]
               PROVE  stamp'[p] + SweepEvery <= stamp'[q]
    BY <1>1 DEF EntriesApart
  <2>1. loaded[p] \in 1 .. made /\ loaded[q] \in 1 .. made /\ made \in Nat
    BY <1>1, <1>3 DEF LimiterTypeOK
  <2>2. CASE p = r
    BY <1>1, <2>1, <2>2 DEF DroppedInv
  <2>3. CASE p # r /\ q = r
    BY <1>1, <1>3, <2>1, <2>3, LimiterAssumption DEF DroppedInv, LimiterTypeOK
  <2>4. CASE p # r /\ q # r
    BY <1>3, <2>4 DEF EntriesApart
  <2> QED
    BY <2>2, <2>3, <2>4
<1> QED
  BY <1>5, <1>6, <1>7, <1>8, <1>9, <1>10

(* The cleanup prunes the entry and remembers when it may come again.        *)
LEMMA SweepStep ==
    ASSUME IsFiniteSet(Requests), LimiterInv, SweepEntry
    PROVE  LimiterInv'
<1> USE DEF LimiterInv
<1>1. /\ sweep.at = "waiting" /\ clock >= sweep.due /\ entryOf # NoEntry
      /\ counted' = [counted EXCEPT ![entryOf] = Recent(entryOf)]
      /\ sweep'.at \in {"waiting", "delete"} /\ sweep'.due = clock + SweepEvery
      /\ sweep' \in [at : {"waiting", "delete"}, due : Nat]
      /\ UNCHANGED <<clock, entryOf, made, handler, loaded, stamp>>
  BY LimiterAssumption DEF SweepEntry, LimiterTypeOK
<1>2. /\ counted' \in [RequestEntries -> SUBSET Requests]
      /\ \A q \in Requests, e \in RequestEntries :
             q \in counted[e] /\ stamp[q] + Window > clock => q \in counted'[e]
  BY <1>1 DEF Recent, LimiterTypeOK
<1>3. LimiterTypeOK'
  BY <1>1, <1>2, LimiterAssumption DEF LimiterTypeOK, RequestEntries
<1>4. Remembers'
  <2>1. \A q \in Requests : handler[q] = "accepted" => loaded[q] \in RequestEntries
    BY EntryExists
  <2> QED
    BY <1>1, <1>2, <2>1 DEF Remembers
<1>5. EntriesKeepLimit' /\ EntriesInv' /\ EntriesApart'
  BY <1>1, SameAccepted DEF EntriesInv, EntriesApart
<1>6. DroppedInv'
  BY <1>1, LimiterAssumption DEF DroppedInv, LimiterTypeOK, Remembers
<1> QED
  BY <1>3, <1>4, <1>5, <1>6

(* ... and then deletes it, whatever was counted in between.                 *)
LEMMA DeleteStep ==
    ASSUME LimiterInv, DeleteEntry
    PROVE  LimiterInv'
<1> USE DEF LimiterInv
<1>1. /\ sweep.at = "delete" /\ sweep'.at = "waiting" /\ sweep'.due = sweep.due
      /\ sweep' \in [at : {"waiting", "delete"}, due : Nat]
      /\ entryOf' = NoEntry
      /\ UNCHANGED <<clock, made, counted, handler, loaded, stamp>>
  BY DEF DeleteEntry, LimiterTypeOK
<1>2. LimiterTypeOK'
  BY <1>1 DEF LimiterTypeOK, RequestEntries
<1>3. EntriesKeepLimit' /\ EntriesInv' /\ EntriesApart' /\ Remembers'
  BY <1>1, SameAccepted DEF EntriesInv, EntriesApart, Remembers
<1>4. DroppedInv'
  BY <1>1, LimiterAssumption DEF DroppedInv, LimiterTypeOK, Remembers
<1> QED
  BY <1>2, <1>3, <1>4

LEMMA TickStep ==
    ASSUME LimiterInv, ClockTick
    PROVE  LimiterInv'
<1> USE DEF LimiterInv
<1>1. /\ sweep.at = "waiting" /\ clock' = clock + 1
      /\ \A r \in Requests : handler[r] # "loaded"
      /\ UNCHANGED <<entryOf, made, counted, handler, loaded, stamp, sweep>>
  BY DEF ClockTick
<1>2. LimiterTypeOK'
  BY <1>1, LimiterAssumption DEF LimiterTypeOK, RequestEntries
<1>3. EntriesKeepLimit' /\ EntriesInv' /\ EntriesApart'
  BY <1>1, SameAccepted DEF EntriesInv, EntriesApart
<1>4. Remembers'
  BY <1>1, LimiterAssumption DEF Remembers, LimiterTypeOK
<1>5. DroppedInv'
  BY <1>1 DEF DroppedInv
<1> QED
  BY <1>2, <1>3, <1>4, <1>5

LEMMA LimiterStep ==
    ASSUME IsFiniteSet(Requests)
    PROVE  LimiterInv /\ [LimiterNext]_limiterVars => LimiterInv'
<1> SUFFICES ASSUME LimiterInv, [LimiterNext]_limiterVars PROVE LimiterInv'
  OBVIOUS
<1>1. CASE \E r \in Requests : LoadOrStore(r)
  BY <1>1, LoadStep
<1>2. CASE \E r \in Requests : CountRequest(r)
  BY <1>2, CountStep
<1>3. CASE SweepEntry
  BY <1>3, SweepStep
<1>4. CASE DeleteEntry
  BY <1>4, DeleteStep
<1>5. CASE ClockTick
  BY <1>5, TickStep
<1>6. CASE UNCHANGED limiterVars
  <2>1. /\ EntriesKeepLimit' /\ EntriesInv' /\ EntriesApart' /\ Remembers'
    BY <1>6, SameAccepted DEF LimiterInv, limiterVars, EntriesInv, EntriesApart, Remembers
  <2>2. LimiterTypeOK' /\ DroppedInv'
    BY <1>6 DEF LimiterInv, limiterVars, LimiterTypeOK, DroppedInv, RequestEntries
  <2> QED
    BY <2>1, <2>2 DEF LimiterInv
<1> QED
  BY <1>1, <1>2, <1>3, <1>4, <1>5, <1>6 DEF LimiterNext

(* The requests accepted in a window lie in one entry, or in two that follow *)
(* each other, of which each keeps the limit.                                *)
LEMMA WindowsHold ==
    ASSUME IsFiniteSet(Requests), LimiterInv
    PROVE  AcceptedInWindow
<1> USE DEF LimiterInv
<1> SUFFICES ASSUME NEW start \in Nat
             PROVE  Cardinality({r \in Requests : handler[r] = "accepted"
                        /\ start <= stamp[r] /\ stamp[r] < start + Window}) <= 2 * Limit
  BY LimiterAssumption DEF AcceptedInWindow
<1> DEFINE W == {r \in Requests : handler[r] = "accepted"
                        /\ start <= stamp[r] /\ stamp[r] < start + Window}
           A(e) == AcceptedIn(e, start, handler, loaded, stamp)
<1>1. ASSUME NEW e \in RequestEntries
      PROVE  Cardinality(A(e)) <= Limit /\ Cardinality(A(e)) \in Nat /\ A(e) \in SUBSET Requests
  BY SomeRequests DEF EntriesKeepLimit, AcceptedIn
<1>2. \A r \in W : loaded[r] \in RequestEntries /\ loaded[r] \in Nat /\ r \in A(loaded[r])
  BY EntryExists DEF AcceptedIn, LimiterTypeOK
<1>3. \A q, r \in W : loaded[q] + 2 > loaded[r]
  BY <1>2, LimiterAssumption DEF EntriesApart, LimiterTypeOK
<1>4. W \in SUBSET Requests
  OBVIOUS
<1> HIDE DEF W, A
<1>5. CASE \E q, r \in W : loaded[q] < loaded[r]
  <2>1. PICK q \in W, r \in W : loaded[q] < loaded[r]
    BY <1>5
  <2>2. \A x \in W : loaded[x] = loaded[q] \/ loaded[x] = loaded[r]
    BY <1>2, <1>3, <2>1
  <2>3. W \subseteq A(loaded[q]) \cup A(loaded[r])
    BY <1>2, <2>2
  <2>4. /\ Cardinality(A(loaded[q])) <= Limit /\ Cardinality(A(loaded[r])) <= Limit
        /\ Cardinality(A(loaded[q])) \in Nat /\ Cardinality(A(loaded[r])) \in Nat
        /\ IsFiniteSet(A(loaded[q])) /\ IsFiniteSet(A(loaded[r]))
        /\ A(loaded[q]) \cup A(loaded[r]) \in SUBSET Requests
        /\ A(loaded[q]) \cap A(loaded[r]) \in SUBSET Requests
    BY <1>1, <1>2, SomeRequests
  <2>5. /\ Cardinality(A(loaded[q]) \cup A(loaded[r]))
              = Cardinality(A(loaded[q])) + Cardinality(A(loaded[r]))
                - Cardinality(A(loaded[q]) \cap A(loaded[r]))
        /\ Cardinality(A(loaded[q]) \cap A(loaded[r])) \in Nat
    BY <2>4, FS_Union, SomeRequests
  <2>6. /\ Cardinality(W) <= Cardinality(A(loaded[q]) \cup A(loaded[r]))
        /\ Cardinality(W) \in Nat
        /\ Cardinality(A(loaded[q]) \cup A(loaded[r])) \in Nat
    BY <2>3, <2>4, SomeRequests
  <2>7. Cardinality(W) <= 2 * Limit
    BY <2>4, <2>5, <2>6, LimiterAssumption
  <2> QED
    BY <2>7 DEF W
<1>6. CASE \A q, r \in W : ~(loaded[q] < loaded[r])
  <2>1. CASE W = {}
    <3>1. Cardinality(W) = 0
      BY <2>1, FS_EmptySet
    <3>2. Cardinality(W) <= 2 * Limit
      BY <3>1, LimiterAssumption
    <3> QED
      BY <3>2 DEF W
  <2>2. CASE W # {}
    <3>1. PICK r \in W : TRUE
      BY <2>2
    <3>2. \A q \in W : loaded[q] = loaded[r]
      BY <1>2, <1>6, <3>1
    <3>3. W \subseteq A(loaded[r])
      BY <1>2, <3>2
    <3>4. /\ Cardinality(W) <= Cardinality(A(loaded[r])) /\ Cardinality(W) \in Nat
          /\ Cardinality(A(loaded[r])) \in Nat /\ Cardinality(A(loaded[r])) <= Limit
      BY <1>1, <1>2, <3>3, SomeRequests
    <3>5. Cardinality(W) <= 2 * Limit
      BY <3>4, LimiterAssumption
    <3> QED
      BY <3>5 DEF W
  <2> QED
    BY <2>1, <2>2
<1> QED
  BY <1>5, <1>6

(* RateLimiter and its cleanup goroutine: for any number of requests, any    *)
(* limit and any window shorter than the cleanup's period, an address is     *)
(* never let through more than twice the limit in a window, although a       *)
(* request may be counted in an entry that is deleted under it.              *)
THEOREM WindowsKeepLimit ==
    ASSUME IsFiniteSet(Requests)
    PROVE  LimiterSpec => []AcceptedInWindow
<1>1. LimiterInv => AcceptedInWindow
  BY WindowsHold
<1>2. LimiterInit => LimiterInv
  BY LimiterInitial
<1>3. LimiterInv /\ [LimiterNext]_limiterVars => LimiterInv'
  BY LimiterStep
<1> QED
  BY <1>1, <1>2, <1>3, PTL DEF LimiterSpec

-----------------------------------------------------------------------------

(* Suggested queries *)

(* What the model answered, once accepted, has become this artifact.        *)
MadeFrom(artifact, concepts) ==
    \E reply \in Answers :
        artifact = ArtifactFromCandidates(reply) /\ validateGeneratedCandidates(reply, concepts)

ChipTypeOK ==
    chipRun = [at |-> chipRun.at, kind |-> chipRun.kind, chips |-> chipRun.chips,
               corpus |-> chipRun.corpus, asked |-> chipRun.asked]

(* The questions an artifact shows are about the concepts given. *)
About(artifact, concepts) ==
    Len(loadSuggestedQueries(artifact)) = RequiredQueries =>
        \A i \in DOMAIN artifact.candidates : ToSet(artifact.candidates[i].anchors) \subseteq concepts

(* A run carries what its model answered, or still shows what the project    *)
(* showed when it began.                                                     *)
ChipInv ==
    /\ ChipTypeOK
    /\ About(chips, origin)
    /\ chipRun.asked # {} => chipRun.at = "commit" /\ MadeFrom(chipRun.chips, chipRun.asked)
    /\ chipRun.asked = {} => About(chipRun.chips, origin)
    /\ chipRun.at # "idle" /\ chipRun.asked = {} /\ chipRun.kind # "clean" =>
           loadSuggestedQueries(chipRun.chips) = loadSuggestedQueries(chips)

-----------------------------------------------------------------------------

(* An artifact that is absent, broken, empty, or too small shows no full set. *)
LEMMA EmptyShowsNothing ==
    /\ loadSuggestedQueries(NoArtifact) = <<>>
    /\ loadSuggestedQueries(Garbage) = <<>>
    /\ loadSuggestedQueries(NoChips) = <<>>
    /\ loadSuggestedQueries(FirstChips) = <<>>
    /\ Len(loadSuggestedQueries(LegacyChips)) # RequiredQueries
<1>1. loadSuggestedQueries(NoArtifact) = <<>> /\ loadSuggestedQueries(Garbage) = <<>>
  BY DEF loadSuggestedQueries, Decode
<1>2. loadSuggestedQueries(NoChips) = <<>>
  BY DEF loadSuggestedQueries, NoChips
<1>3. loadSuggestedQueries(FirstChips) = <<>>
  BY DEF loadSuggestedQueries, FirstChips, IsPublishable
<1>4. Len(loadSuggestedQueries(LegacyChips)) # RequiredQueries
  <2>1. RequiredQueries \notin {0, 1}
    BY ChipAssumption
  <2>2. loadSuggestedQueries(LegacyChips) \in {<<"a?">>, <<>>}
    BY DEF loadSuggestedQueries, LegacyChips
  <2>3. Len(<<"a?">>) = 1 /\ Len(<<>>) = 0
    OBVIOUS
  <2> QED
    BY <2>1, <2>2, <2>3
<1> QED
  BY <1>1, <1>2, <1>3, <1>4

LEMMA CandidateShape ==
    ASSUME NEW c \in ProviderCandidates
    PROVE  /\ [c EXCEPT !.generation = TRUE].generation = TRUE
           /\ [c EXCEPT !.generation = TRUE].question = c.question
           /\ [c EXCEPT !.generation = TRUE].intent = c.intent
           /\ [c EXCEPT !.generation = TRUE].anchors = c.anchors
           /\ [c EXCEPT !.generation = TRUE].escapes = c.escapes
<1>1. c = [question |-> c.question, intent |-> c.intent, anchors |-> c.anchors,
           wellFormed |-> c.wellFormed, escapes |-> c.escapes, generation |-> c.generation]
  BY DEF ProviderCandidates, Plain
<1> QED
  BY <1>1

LEMMA AnswerShape ==
    ASSUME NEW reply \in Answers
    PROVE  /\ reply \in Seq(ProviderCandidates)
           /\ Len(reply) \in Nat /\ DOMAIN reply = 1 .. Len(reply)
           /\ \A i \in DOMAIN reply : reply[i] \in ProviderCandidates
<1>1. MaxQueries \in Nat
  BY ChipAssumption DEF MaxQueries
<1>2. CASE reply \in BoundedSeq(ProviderCandidates, MaxQueries)
  <2>1. PICK n \in 0 .. MaxQueries : reply \in [1 .. n -> ProviderCandidates]
    BY <1>2 DEF BoundedSeq, SeqOf
  <2>2. n \in Nat
    BY <1>1, <2>1
  <2> HIDE DEF MaxQueries
  <2> QED
    BY <2>1, <2>2
<1>3. CASE reply = [i \in 1 .. MaxQueries + 1 |-> Plain("a?")]
  <2>1. Plain("a?") \in ProviderCandidates
    BY DEF ProviderCandidates, Questions
  <2>2. MaxQueries + 1 \in Nat
    BY <1>1
  <2> HIDE DEF MaxQueries
  <2> QED
    BY <1>3, <2>1, <2>2
<1> QED
  BY <1>2, <1>3 DEF Answers

(* ArtifactFromCandidates, entry by entry.                                   *)
LEMMA ArtifactShape ==
    ASSUME NEW reply \in Answers
    PROVE  LET artifact == ArtifactFromCandidates(reply) IN
           /\ artifact.version = 2
           /\ Len(artifact.queries) = Len(reply) /\ Len(artifact.candidates) = Len(reply)
           /\ DOMAIN artifact.queries = 1 .. Len(reply)
           /\ DOMAIN artifact.candidates = 1 .. Len(reply)
           /\ \A i \in 1 .. Len(reply) :
                  /\ artifact.queries[i] = TrimSpace(reply[i].question)
                  /\ artifact.candidates[i] = [reply[i] EXCEPT !.generation = TRUE]
<1> DEFINE qs == [i \in 1 .. Len(reply) |-> TrimSpace(reply[i].question)]
           cs == [i \in 1 .. Len(reply) |-> [reply[i] EXCEPT !.generation = TRUE]]
<1>1. Len(reply) \in Nat /\ DOMAIN reply = 1 .. Len(reply)
  BY AnswerShape
<1>2. ArtifactFromCandidates(reply) = [version |-> 2, queries |-> qs, candidates |-> cs]
  BY <1>1 DEF ArtifactFromCandidates
<1>3. Len(qs) = Len(reply) /\ Len(cs) = Len(reply)
  BY <1>1
<1>4. DOMAIN qs = 1 .. Len(reply) /\ DOMAIN cs = 1 .. Len(reply)
  OBVIOUS
<1>5. \A i \in 1 .. Len(reply) :
          qs[i] = TrimSpace(reply[i].question) /\ cs[i] = [reply[i] EXCEPT !.generation = TRUE]
  OBVIOUS
<1> HIDE DEF qs, cs
<1> QED
  BY <1>2, <1>3, <1>4, <1>5

(* The reader accepts what the writer accepted, with the metadata attached.  *)
LEMMA ReaderAccepts ==
    ASSUME NEW reply \in Answers, NEW concepts, validateGeneratedCandidates(reply, concepts),
           \A i \in DOMAIN ArtifactFromCandidates(reply).candidates :
               ~ArtifactFromCandidates(reply).candidates[i].escapes
    PROVE  Len(loadSuggestedQueries(ArtifactFromCandidates(reply))) = RequiredQueries
<1> DEFINE artifact == ArtifactFromCandidates(reply)
           cs == artifact.candidates
<1>1. /\ artifact.version = 2
      /\ Len(artifact.queries) = Len(reply) /\ Len(cs) = Len(reply)
      /\ DOMAIN artifact.queries = 1 .. Len(reply) /\ DOMAIN cs = 1 .. Len(reply)
      /\ \A i \in 1 .. Len(reply) :
             /\ artifact.queries[i] = TrimSpace(reply[i].question)
             /\ cs[i].generation = TRUE /\ cs[i].question = reply[i].question
             /\ cs[i].intent = reply[i].intent /\ cs[i].anchors = reply[i].anchors
  <2>1. \A i \in 1 .. Len(reply) : reply[i] \in ProviderCandidates
    BY AnswerShape
  <2>2. /\ artifact.version = 2
        /\ Len(artifact.queries) = Len(reply) /\ Len(cs) = Len(reply)
        /\ DOMAIN artifact.queries = 1 .. Len(reply) /\ DOMAIN cs = 1 .. Len(reply)
        /\ \A i \in 1 .. Len(reply) :
               /\ artifact.queries[i] = TrimSpace(reply[i].question)
               /\ cs[i] = [reply[i] EXCEPT !.generation = TRUE]
    BY ArtifactShape
  <2> HIDE DEF artifact, cs
  <2>3. ASSUME NEW i \in 1 .. Len(reply)
        PROVE  /\ cs[i].generation = TRUE /\ cs[i].question = reply[i].question
               /\ cs[i].intent = reply[i].intent /\ cs[i].anchors = reply[i].anchors
    <3>1. cs[i] = [reply[i] EXCEPT !.generation = TRUE]
      BY <2>2
    <3> QED
      BY <2>1, <3>1, CandidateShape
  <2> QED
    BY <2>2, <2>3
<1>2. /\ Len(reply) = RequiredQueries /\ DOMAIN reply = 1 .. Len(reply)
      /\ Len(reply) \in MinQueries .. MaxQueries
      /\ \A i \in 1 .. Len(reply) :
             /\ ValidCandidate(reply[i], concepts, concepts, TRUE, FALSE)
             /\ \A j \in 1 .. i - 1 : normalize(reply[i].question) # normalize(reply[j].question)
  BY AnswerShape DEF validateGeneratedCandidates, validateCandidates
<1>a. Decode(artifact)
  <2>1. NoArtifact.version = 0 /\ Garbage.version = -1
    BY DEF NoArtifact, Garbage
  <2> QED
    BY <1>1, <2>1 DEF Decode
<1>b. artifact.candidates = cs
  OBVIOUS
<1> HIDE DEF artifact, cs
<1>3. \A i \in 1 .. Len(reply) : ValidCandidate(cs[i], {}, {}, FALSE, TRUE)
  BY <1>1, <1>2 DEF ValidCandidate, Titles, isTitleWrapper
<1>4. \A i \in 1 .. Len(reply) : \A j \in 1 .. i - 1 :
          normalize(cs[i].question) # normalize(cs[j].question)
  <2> SUFFICES ASSUME NEW i \in 1 .. Len(reply), NEW j \in 1 .. i - 1
               PROVE  normalize(cs[i].question) # normalize(cs[j].question)
    OBVIOUS
  <2>1. j \in 1 .. Len(reply)
    BY AnswerShape
  <2>2. cs[i].question = reply[i].question /\ cs[j].question = reply[j].question
    BY <1>1, <2>1
  <2> QED
    BY <1>2, <2>2
<1>5. validateCandidates(cs, {}, FALSE, TRUE)
  BY <1>1, <1>2, <1>3, <1>4 DEF validateCandidates
<1>6. \A q : TrimSpace(TrimSpace(q)) = TrimSpace(q)
  BY DEF TrimSpace
<1>7. IsPublishable(artifact)
  <2>1. Len(cs) \in (MinQueries .. MaxLegacyQueries) \cup {RequiredQueries}
    BY <1>1, <1>2
  <2>2. \A i \in DOMAIN artifact.queries :
            TrimSpace(artifact.queries[i]) = TrimSpace(cs[i].question)
    BY <1>1, <1>6
  <2> QED
    BY <1>1, <1>b, <1>5, <2>1, <2>2 DEF IsPublishable
<1> QED
  BY <1>1, <1>2, <1>a, <1>7 DEF loadSuggestedQueries, artifact

(* The questions of an accepted answer are about the concepts given.         *)
LEMMA MadeIsAbout ==
    ASSUME NEW artifact, NEW concepts, MadeFrom(artifact, concepts)
    PROVE  About(artifact, concepts)
<1>1. PICK reply \in Answers :
        artifact = ArtifactFromCandidates(reply) /\ validateGeneratedCandidates(reply, concepts)
  BY DEF MadeFrom
<1>2. /\ DOMAIN artifact.candidates = 1 .. Len(reply)
      /\ \A i \in 1 .. Len(reply) : artifact.candidates[i].anchors = reply[i].anchors
  BY <1>1, ArtifactShape, AnswerShape, CandidateShape
<1>3. \A i \in 1 .. Len(reply) : ToSet(reply[i].anchors) \subseteq concepts
  BY <1>1, AnswerShape DEF validateGeneratedCandidates, validateCandidates, ValidCandidate
<1> QED
  BY <1>2, <1>3 DEF About

(* Keeping the artifact, or writing an empty one where there is none, shows   *)
(* what was shown.                                                           *)
LEMMA EnsuredShowsTheSame ==
    ASSUME NEW artifact
    PROVE  /\ loadSuggestedQueries(ensureEmptySuggestedQueries(artifact))
                  = loadSuggestedQueries(artifact)
           /\ \A concepts : About(artifact, concepts) =>
                  About(ensureEmptySuggestedQueries(artifact), concepts)
<1>1. CASE artifact = NoArtifact
  <2>1. ensureEmptySuggestedQueries(artifact) = NoChips
    BY <1>1 DEF ensureEmptySuggestedQueries
  <2>2. DOMAIN NoChips.candidates = {}
    BY DEF NoChips
  <2> QED
    BY <1>1, <2>1, <2>2, EmptyShowsNothing DEF About
<1>2. CASE artifact # NoArtifact
  BY <1>2 DEF ensureEmptySuggestedQueries
<1> QED
  BY <1>1, <1>2

-----------------------------------------------------------------------------

LEMMA ChipInitial == ChipInit => ChipInv
<1> SUFFICES ASSUME ChipInit PROVE ChipInv
  OBVIOUS
<1>1. RequiredQueries # 0
  BY ChipAssumption
<1>2. \A a \in {NoArtifact, Garbage, NoChips, LegacyChips, FirstChips} : About(a, origin)
  <2>1. Len(<<>>) = 0
    OBVIOUS
  <2> QED
    BY <1>1, <2>1, EmptyShowsNothing DEF About
<1> QED
  BY <1>2 DEF ChipInit, ChipInv, ChipTypeOK, NoChipRun

LEMMA ChipStep == ChipInv /\ [ChipNext]_chipVars => ChipInv'
<1> SUFFICES ASSUME ChipInv, [ChipNext]_chipVars PROVE ChipInv'
  OBVIOUS
<1> USE DEF ChipInv, ChipTypeOK
<1>0. ASSUME NEW a \in {NoArtifact, chips} PROVE About(a, origin)
  <2>1. Len(<<>>) = 0 /\ RequiredQueries # 0
    BY ChipAssumption
  <2> QED
    BY <2>1, EmptyShowsNothing DEF About
<1>1. ASSUME NEW kind, StartChipRun(kind) PROVE ChipInv'
  BY <1>0, <1>1 DEF StartChipRun, About
<1>2. ASSUME NEW cs, runCacheIndexStage(cs) PROVE ChipInv'
  BY <1>2 DEF runCacheIndexStage, About, MadeFrom
<1>3. ASSUME NEW reply \in Answers, writeSuggestedQueries(reply) PROVE ChipInv'
  <2>1. CASE chipRun.kind # "without" /\ Generates(reply, chipRun.corpus)
    <3>1. /\ chipRun'.asked = RepresentativeConcepts(chipRun.corpus) /\ chipRun'.asked # {}
          /\ chipRun'.chips = ArtifactFromCandidates(reply) /\ chipRun'.at = "commit"
          /\ chipRun' = [at |-> chipRun'.at, kind |-> chipRun'.kind, chips |-> chipRun'.chips,
                         corpus |-> chipRun'.corpus, asked |-> chipRun'.asked]
          /\ UNCHANGED <<chips, origin>>
      BY <1>3, <2>1 DEF writeSuggestedQueries, Generates
    <3>2. MadeFrom(chipRun'.chips, chipRun'.asked)
      BY <2>1, <3>1 DEF Generates, MadeFrom
    <3>3. MadeFrom(chipRun.chips, chipRun.asked)' /\ About(chips, origin)'
      BY <3>1, <3>2 DEF MadeFrom, About
    <3> QED
      BY <3>1, <3>3
  <2>2. CASE ~(chipRun.kind # "without" /\ Generates(reply, chipRun.corpus))
    <3>1. /\ chipRun'.asked = chipRun.asked /\ chipRun'.kind = chipRun.kind
          /\ chipRun.at = "chips" /\ chipRun'.at = "commit"
          /\ chipRun'.chips = ensureEmptySuggestedQueries(chipRun.chips)
          /\ chipRun' = [at |-> chipRun'.at, kind |-> chipRun'.kind, chips |-> chipRun'.chips,
                         corpus |-> chipRun'.corpus, asked |-> chipRun'.asked]
          /\ UNCHANGED <<chips, origin>>
      BY <1>3, <2>2 DEF writeSuggestedQueries
    <3>2. /\ loadSuggestedQueries(chipRun'.chips) = loadSuggestedQueries(chipRun.chips)
          /\ About(chipRun'.chips, origin)
      BY <3>1, EnsuredShowsTheSame
    <3>3. About(chips, origin)' /\ About(chipRun.chips, origin)'
      BY <3>1, <3>2 DEF About
    <3> QED
      BY <3>1, <3>2, <3>3
  <2> QED
    BY <2>1, <2>2
<1>4. CASE ChipRunFails
  BY <1>0, <1>4 DEF ChipRunFails, NoChipRun, About
<1>5. CASE CommitChips
  <2>1. /\ chips' = chipRun.chips /\ chipRun' = NoChipRun
        /\ origin' = IF chipRun.asked # {} THEN chipRun.asked ELSE origin
    BY <1>5 DEF CommitChips
  <2>2. About(chipRun.chips, origin')
    BY <2>1, MadeIsAbout
  <2>3. About(chips, origin)'
    BY <2>1, <2>2 DEF About
  <2>4. About(NoArtifact, origin')
    <3>1. Len(<<>>) = 0 /\ RequiredQueries # 0
      BY ChipAssumption
    <3> QED
      BY <3>1, EmptyShowsNothing DEF About
  <2>5. About(chipRun.chips, origin)'
    BY <2>1, <2>4 DEF About, NoChipRun
  <2> QED
    BY <2>1, <2>3, <2>5 DEF NoChipRun
<1>6. CASE UNCHANGED chipVars
  BY <1>6 DEF chipVars, About, MadeFrom
<1> QED
  BY <1>1, <1>2, <1>3, <1>4, <1>5, <1>6 DEF ChipNext

(* writeSuggestedQueries and the reader's loadSuggestedQueries: whatever the *)
(* model answers and however runs end, a set that was generated is one the   *)
(* reader shows, and what is shown is about concepts the model was given.    *)
THEOREM GeneratedSetsAreShown == ChipSpec => []GeneratedIsShown
<1>1. ChipInv => GeneratedIsShown
  <2> SUFFICES ASSUME ChipInv PROVE GeneratedIsShown
    OBVIOUS
  <2>1. ASSUME chipRun.asked # {},
               \A i \in DOMAIN chipRun.chips.candidates : ~chipRun.chips.candidates[i].escapes
        PROVE  Len(loadSuggestedQueries(chipRun.chips)) = RequiredQueries
    <3>1. PICK reply \in Answers :
            /\ chipRun.chips = ArtifactFromCandidates(reply)
            /\ validateGeneratedCandidates(reply, chipRun.asked)
      BY <2>1 DEF ChipInv, MadeFrom
    <3> QED
      BY <2>1, <3>1, ReaderAccepts
  <2> QED
    BY <2>1 DEF ChipInv, About, GeneratedIsShown
<1> QED
  BY <1>1, ChipInitial, ChipStep, PTL DEF ChipSpec

(* ensureEmptySuggestedQueries: a run without a usable answer, or one that   *)
(* fails, never changes what the reader shows, unless it rebuilds the        *)
(* project from nothing.                                                     *)
THEOREM LastGoodSetIsKept == ChipSpec => LastKnownGoodKept
<1> DEFINE Kept == chips' # chips /\ loadSuggestedQueries(chips') # loadSuggestedQueries(chips)
                       => chipRun.asked # {} \/ chipRun.kind = "clean"
<1>1. ChipInv /\ [ChipNext]_chipVars => [Kept]_chipVars
  <2> SUFFICES ASSUME ChipInv, ChipNext PROVE Kept
    BY DEF chipVars
  <2>1. CASE CommitChips
    BY <2>1 DEF CommitChips, ChipInv
  <2>2. CASE chips' = chips
    BY <2>2
  <2> QED
    BY <2>1, <2>2 DEF ChipNext, StartChipRun, runCacheIndexStage, writeSuggestedQueries,
                      ChipRunFails
<1>2. LastKnownGoodKept <=> [][Kept]_chipVars
  BY DEF LastKnownGoodKept
<1> HIDE DEF Kept
<1> QED
  BY <1>1, <1>2, ChipInitial, ChipStep, PTL DEF ChipSpec
=============================================================================
