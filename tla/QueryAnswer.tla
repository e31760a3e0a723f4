----------------------------- MODULE QueryAnswer -----------------------------
(***************************************************************************)
(* One query: the sealed configuration is resolved against the project's   *)
(* generation, the concept corpus is loaded, several expansion attempts    *)
(* are asked of the language model in parallel and merged into one plan,   *)
(* the corpus is matched against it, results are selected, and an answer   *)
(* is synthesised from the selected pages with citations the server        *)
(* issues.                                                                 *)
(*                                                                         *)
(* A criterion stands for its kind, value and terms.  A page has it in its *)
(* title or front matter ("local"), only in its body, or not at all.       *)
(* Goals are left out: they are preferred criteria under another name,     *)
(* except that one that every attempt also requires remains evidence.      *)
(***************************************************************************)
EXTENDS Naturals, FiniteSets

CONSTANTS
    Pages,          \* slugs of the corpus, 1 .. n, in corpus order
    BodyPages,      \* those with a term in the body that is nowhere else
    Criteria,       \* criteria the model may find in the query
    HardCriteria,   \* those it may make required or excluded
    Kind,           \* Kind[c]: the kind of criterion c
    QueryWords,     \* criteria whose terms are words of the query itself
    Attempts,       \* expansion attempts
    SelectionLimit, ExplorationSlots, EvidenceThreshold, RareDocumentFrequency

MinimumKeywordConsensusSupport == 2

(* NormalizeOptions and validateStages: what a composition may be. *)
OptionsValid ==
    /\ SelectionLimit \in Nat \ {0}
    /\ ExplorationSlots \in 0 .. SelectionLimit
    /\ EvidenceThreshold \in Nat \ {0} /\ RareDocumentFrequency \in Nat \ {0}
    /\ Attempts # {} /\ HardCriteria \subseteq Criteria /\ QueryWords \subseteq Criteria

ASSUME QueryAssumption == OptionsValid

(* Options of the environment; a sealed configuration, whose default or     *)
(* whose binding serves the generation; one bound to another generation.    *)
Wirings == {"options", "sealed", "bound_elsewhere"}

(* FallbackQualificationAllowed: a sealed configuration sets the threshold. *)
FallbackQualificationAllowed(w) == w = "options"

Requirement == {"required", "semantic_required"}
Exclusion == {"excluded", "semantic_excluded"}
TermRoles == Requirement \cup Exclusion \cup {"preferred"}

(* Provider plans that DecodeMinimalV1Plan accepts: some criterion, each in *)
(* any of the roles, but none both required and excluded.                   *)
ProviderPlans ==
    {plan \in [Criteria -> SUBSET TermRoles] :
        /\ \A c \in Criteria \ HardCriteria : plan[c] \subseteq {"preferred"}
        /\ \A c \in Criteria : plan[c] \cap Requirement = {} \/ plan[c] \cap Exclusion = {}
        /\ \E c \in Criteria : plan[c] # {}}

(* Also accepted: a plan whose only terms normalise to nothing. *)
EmptyPlan == [c \in Criteria |-> {}]

(* Fields of the corpus a criterion's terms may be found in. *)
FieldLevels == {"none", "body", "local"}
Corpora ==
    {has \in [Pages -> [Criteria -> FieldLevels]] :
        \A p \in Pages, c \in Criteria :
            has[p][c] = "body" => p \in BodyPages /\ c \in HardCriteria}

VARIABLES
    stage,      \* where the request is
    wiring,     \* how the executor is configured for the project
    corpus,     \* the entries of the cache
    named,      \* pages the query names exactly
    attempt,    \* attempt[a]: the plan it returned, StillRunning or AttemptFailed
    results,    \* selected pages
    contexts,   \* pages given to the model, and those with a citation reference
    answer      \* the response

queryVars == <<stage, wiring, corpus, named, attempt, results, contexts, answer>>

NoContexts == [given |-> {}, issued |-> {}]
NoAnswer == [basis |-> "none", cited |-> {}, inline |-> {}, disclosed |-> FALSE]
StillRunning == [c \in Criteria |-> {"running"}]
AttemptFailed == [c \in Criteria |-> {"failed"}]
NoCorpus == [p \in Pages |-> [c \in Criteria |-> "none"]]
Running == [a \in Attempts |-> StillRunning]

QueryInit ==
    /\ stage = "resolve"
    /\ wiring \in Wirings
    /\ corpus \in Corpora
    /\ named \in {{}, {1}}
    /\ attempt = Running
    /\ results = {} /\ contexts = NoContexts /\ answer = NoAnswer

(* The corpus entries and the plan are out of scope. *)
LeavesRetrieval == corpus' = NoCorpus /\ named' = {} /\ attempt' = Running

-----------------------------------------------------------------------------
(* Expansion *)

(* Resolve: a bound project is served only on the generation it is bound    *)
(* to.  Then the cache is loaded, or cannot be.                             *)
ResolveConfig ==
    /\ stage = "resolve"
    /\ wiring # "bound_elsewhere"
    /\ stage' = "expand"
    /\ UNCHANGED <<wiring, corpus, named, attempt, results, contexts, answer>>

(* What an attempt may end with. *)
Outcomes == ProviderPlans \cup {EmptyPlan, AttemptFailed}

AttemptReturns(a) ==
    /\ stage = "expand" /\ attempt[a] = StillRunning
    /\ \E outcome \in Outcomes : attempt' = [attempt EXCEPT ![a] = outcome]
    /\ UNCHANGED <<stage, wiring, corpus, named, results, contexts, answer>>

Succeeded == {a \in Attempts : attempt[a] \notin {StillRunning, AttemptFailed}}
In(c, roles) == {a \in Succeeded : attempt[a][c] \cap roles # {}}

(* hasConflictingHardCriteria *)
Conflict ==
    \E c \in Criteria :
        /\ In(c, Requirement) # {}
        /\ In(c, Exclusion) # {}

(* aggregateRequiredPreferred: required only if all attempts agree *)
AllRequire(role) == {c \in Criteria : In(c, {role}) = Succeeded}

(* Mutant: excluded only if all attempts agree.                            *)
ExcludedByAll == AllRequire("excluded")

(* mergeCriteria: excluded if any attempt says so *)
ExcludedByAny == {c \in Criteria : In(c, {"excluded"}) # {}}

SomeSemantic == {c \in Criteria : In(c, {"semantic_required", "semantic_excluded"}) # {}}
SomePreferred ==
    {c \in Criteria : In(c, {"required", "preferred"}) # {}} \ AllRequire("required")

(* With no usable plan, or plans that contradict each other, the plan is    *)
(* the words of the query as one preferred criterion.                       *)
FallbackPlan ==
    [fallback |-> TRUE, required |-> {}, excluded |-> {}, preferred |-> {},
     unresolvable |-> {}, semantic |-> {}, support |-> [c \in Criteria |-> 0]]

(* support: keywordSupport, the attempts that prefer a criterion *)
aggregatePlans ==
    IF Succeeded = {} \/ Conflict THEN FallbackPlan
    ELSE [fallback |-> FALSE, required |-> AllRequire("required"), excluded |-> ExcludedByAny,
          preferred |-> SomePreferred, unresolvable |-> AllRequire("semantic_required"),
          semantic |-> SomeSemantic,
          support |-> [c \in Criteria |-> Cardinality(In(c, {"preferred"}))]]

ValidatePlan(plan) ==
    plan.fallback \/ plan.required \cup plan.excluded \cup plan.preferred \cup plan.semantic # {}

-----------------------------------------------------------------------------
(* Matching *)

Mentions(p, c) == corpus[p][c] # "none"

(* A semantic requirement is never resolved without an evaluator, and fails *)
(* closed; a semantic exclusion that is not resolved does not reject.       *)
Eligible(plan, p) ==
    /\ plan.unresolvable = {}
    /\ \A c \in plan.required : Mentions(p, c)
    /\ \A c \in plan.excluded : ~Mentions(p, c)

(* The kinds of the criteria the page has.                                  *)
positiveEvidenceDimensions(plan, p) ==
    IF plan.fallback THEN {w \in {"query"} : \E c \in QueryWords : Mentions(p, c)}
    ELSE {Kind[c] : c \in {d \in plan.preferred : Mentions(p, d)}}

keywordEvidence(plan, p) == {c \in plan.preferred : Mentions(p, c) /\ plan.support[c] > 0}

KeywordsQualify(plan, p) ==
    LET Local(c) == corpus[p][c] = "local"
        Rare(c) == Cardinality({q \in Pages : Mentions(q, c)}) <= RareDocumentFrequency
        Found == {c \in keywordEvidence(plan, p) : Local(c)}
        Agreed == {c \in Found : plan.support[c] >= MinimumKeywordConsensusSupport}
    IN  \/ \E c \in Agreed : Rare(c)
        \/ Cardinality(Agreed) >= 2
        \/ \E c \in Found : Rare(c) /\ plan.support[c] = 1 /\ c \in QueryWords

qualifyCandidate(plan, p) ==
    LET positive == positiveEvidenceDimensions(plan, p) IN
    /\ Eligible(plan, p)
    /\ \/ p \in named
       \/ /\ ~(plan.semantic # {} /\ positive = {})
          /\ IF keywordEvidence(plan, p) # {} THEN KeywordsQualify(plan, p)
             ELSE \/ plan.fallback /\ FallbackQualificationAllowed(wiring) /\ positive # {}
                  \/ Cardinality(positive) >= EvidenceThreshold

-----------------------------------------------------------------------------
(* Selection *)

MinOf(m, n) == IF m < n THEN m ELSE n

(* The first n pages of S by score, then by slug. *)
TopOf(S, score, n) ==
    {p \in S : Cardinality({q \in S : score[q] > score[p] \/ (score[q] = score[p] /\ q < p)}) < n}

(* Pages the query names come first; the last slots explore the rest.       *)
Select(chosen, qualified, score) ==
    LET exact == TopOf(qualified \cap named, score, SelectionLimit)
        generic == qualified \ named
        remaining == SelectionLimit - Cardinality(exact)
        slots == MinOf(MinOf(ExplorationSlots, Cardinality(generic)), remaining)
        ranked == TopOf(generic, score, remaining - slots)
    IN  \E explored \in SUBSET (generic \ ranked) :
            /\ Cardinality(explored) = MinOf(slots, Cardinality(generic \ ranked))
            /\ chosen = exact \cup ranked \cup explored

(* After the last attempt: merge, validate, match, select. *)
RetrieveResults ==
    LET plan == aggregatePlans
        qualified == {p \in Pages : qualifyCandidate(plan, p)}
        score == [p \in Pages |-> Cardinality(positiveEvidenceDimensions(plan, p))]
    IN  /\ stage = "expand" /\ \A a \in Attempts : attempt[a] # StillRunning
        /\ ValidatePlan(plan)
        /\ stage' = "synthesize"
        /\ Select(results', qualified, score)
        /\ UNCHANGED <<wiring, corpus, named, attempt, contexts, answer>>

-----------------------------------------------------------------------------
(* Synthesis *)

(* buildContexts: a page that the cache no longer has is left out, and one  *)
(* whose slug is no safe route gets no reference.                           *)
buildContexts ==
    /\ stage = "synthesize" /\ results # {}
    /\ \E given \in SUBSET results : \E issued \in SUBSET given :
           contexts' = [given |-> given, issued |-> issued]
    /\ stage' = IF contexts'.given = {} THEN "done" ELSE "chat"
    /\ LeavesRetrieval
    /\ UNCHANGED <<wiring, results, answer>>

(* Mutant: every result is cited, shown to the model or not.               *)
CitedResults == results

IssuedCitations == contexts.issued

(* Resolve: exact references, and titles that one issued page alone has.    *)
ResolveMentions(mention, shared) ==
    {p \in contexts.issued : mention[p] = "reference" \/ (mention[p] = "title" /\ p \notin shared)}

(* The model answers with references and titles, or fails.  A failure that  *)
(* is no cancellation leaves the results without an answer.                 *)
ChatAnswers ==
    /\ stage = "chat"
    /\ stage' = "done"
    /\ \/ \E mention \in [Pages -> {"none", "reference", "title"}], shared \in {{}, Pages} :
              answer' = [basis |-> "wiki", cited |-> IssuedCitations, disclosed |-> FALSE,
                         inline |-> ResolveMentions(mention, shared)]
       \/ answer' = NoAnswer
    /\ UNCHANGED <<wiring, corpus, named, attempt, results, contexts>>

(* No results: without the model-prior policy, or outside full mode, the    *)
(* response has no answer.                                                  *)
AnswerWithoutEvidence ==
    /\ stage = "synthesize" /\ results = {}
    /\ \/ answer' = NoAnswer
       \/ answer' = [basis |-> "model_prior", cited |-> {}, inline |-> {}, disclosed |-> TRUE]
    /\ stage' = "done"
    /\ LeavesRetrieval
    /\ UNCHANGED <<wiring, results, contexts>>

(* A binding to another generation, a corpus that cannot be read, a plan    *)
(* that does not validate, a model-prior chat that fails or is blank, or a  *)
(* cancelled request.                                                       *)
QueryFails ==
    /\ stage \in {"resolve", "expand", "synthesize", "chat"}
    /\ stage' = "failed"
    /\ LeavesRetrieval
    /\ UNCHANGED wiring
    /\ results' = {} /\ contexts' = NoContexts /\ answer' = NoAnswer

QueryNext ==
    \/ ResolveConfig
    \/ \E a \in Attempts : AttemptReturns(a)
    \/ RetrieveResults \/ buildContexts \/ ChatAnswers \/ AnswerWithoutEvidence \/ QueryFails

QuerySpec == QueryInit /\ [][QueryNext]_queryVars

-----------------------------------------------------------------------------
(* Properties *)

(* An exclusion that any attempt found keeps a page out, and a requirement  *)
(* that all attempts found is met by every result, even by a page the query *)
(* names: only plans that contradict each other lose their hard criteria.   *)
HardCriteriaKept ==
    stage = "synthesize" =>
        \A p \in results, c \in Criteria :
            /\ corpus[p][c] # "none" /\ (\E a \in Succeeded : "excluded" \in attempt[a][c]) => Conflict
            /\ Succeeded # {} /\ (\A a \in Succeeded : "required" \in attempt[a][c]) => corpus[p][c] # "none" \/ Conflict

(* Whatever the model writes, a citation is to a page that was selected and *)
(* shown to it under a reference issued for this request; an answer without *)
(* evidence has none and is disclosed.                                      *)
CitationsBacked ==
    /\ answer.cited \cup answer.inline \subseteq contexts.issued
    /\ contexts.issued \subseteq results
    /\ answer.basis = "wiki" => contexts.given # {}
    /\ answer.basis = "model_prior" => results = {} /\ answer.disclosed
==============================================================================
