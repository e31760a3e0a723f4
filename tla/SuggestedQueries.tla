-------------------------- MODULE SuggestedQueries --------------------------
(***************************************************************************)
(* The suggested queries ("query chips") of a project.  A worker run may    *)
(* rebuild the concepts, asks a language model once for questions about the *)
(* most recent ones, validates the answer against them and publishes the    *)
(* artifact with the generation; when that fails it keeps the artifact it   *)
(* has or writes an empty one.  The BFF decodes and validates the artifact  *)
(* of the current generation, without the concepts, before it shows it.     *)
(* The model itself is external and may answer anything.                    *)
(***************************************************************************)
EXTENDS Integers, SequencesExt

CONSTANTS
    MinQueries, MaxLegacyQueries, RequiredQueries,
    MaxConcepts,     \* concepts offered to the model
    Concepts,          \* concepts, numbered by their last update; 0 is wiki/index.md
    MaxChipRuns      \* bound on worker runs

ASSUME ChipAssumption ==
    /\ MinQueries \in Nat \ {0} /\ MaxLegacyQueries \in Nat /\ RequiredQueries \in Nat
    /\ MinQueries <= MaxLegacyQueries /\ MaxLegacyQueries < RequiredQueries
    /\ MaxConcepts \in Nat \ {0} /\ Concepts \subseteq Nat /\ MaxChipRuns \in Nat

MaxQueries == RequiredQueries

(* Questions: two ways to write one question, one with outer spaces, a      *)
(* statement, a blank, one that is too long, the title of concept 1 and a   *)
(* phrase wrapped around it.                                                *)
Questions == {"a?", "A ?", " b? ", "b?", "c?", "c.", " ", "long?", "one?", "what is one?"}
TrimSpace(q) == IF q = " b? " THEN "b?" ELSE IF q = " " THEN "" ELSE q
normalize(q) ==
    CASE q \in {"a?", "A ?"} -> "a"
      [] q \in {"b?", " b? "} -> "b"
      [] q \in {"c?", "c."} -> "c"
      [] q = "one?" -> "one"
      [] q = "long?" -> "long"
      [] q = "what is one?" -> "whatisone"
      [] OTHER -> ""
isQuestion(q) == q \notin {"c.", " ", ""}
isTitleWrapper(q, titled) == q = "what is one?" /\ 1 \in titled
Titles(titled) == IF 1 \in titled THEN {"one"} ELSE {}

(* A candidate as the model writes it: well formed up to one defect. escapes *)
(* marks text that JSON escaping makes several times as long.                *)
Plain(q) == [question |-> q, intent |-> TRUE, anchors |-> <<1>>, wellFormed |-> TRUE,
             escapes |-> FALSE, generation |-> FALSE]
ProviderCandidates ==
    {Plain(q) : q \in Questions} \cup
    {[Plain("c?") EXCEPT !.wellFormed = FALSE], [Plain("c?") EXCEPT !.intent = FALSE],
     [Plain("c?") EXCEPT !.escapes = TRUE]} \cup
    {[Plain("c?") EXCEPT !.anchors = a] : a \in {<<>>, <<2>>, <<1, 2>>}}

Answers == BoundedSeq(ProviderCandidates, MaxQueries) \cup {[i \in 1 .. MaxQueries + 1 |-> Plain("a?")]}

(* Artifacts: none, one that does not decode, an empty one, one of the      *)
(* smaller legacy size and one of the first version.                        *)
NoArtifact == [version |-> 0, queries |-> <<>>, candidates |-> <<>>]
Garbage == [version |-> -1, queries |-> <<>>, candidates |-> <<>>]

NoChips == [version |-> 2, queries |-> <<>>, candidates |-> <<>>]
LegacyChips == [version |-> 2, queries |-> <<"a?">>,
                candidates |-> <<[Plain("a?") EXCEPT !.generation = TRUE]>>]
FirstChips == [version |-> 1, queries |-> <<"a?", "b?">>, candidates |-> <<>>]

VARIABLES
    chips,      \* cache/suggested_queries.json of the current generation
    indexed,     \* concepts of the current generation
    chipRun,       \* [at, kind, chips, corpus] of the run under way
    chipRuns,
    origin      \* history: concepts the shown artifact was generated from

chipVars == <<chips, indexed, chipRun, chipRuns, origin>>

NoChipRun == [at |-> "idle", kind |-> "none", chips |-> NoArtifact, corpus |-> {}, asked |-> {}]

ChipInit ==
    /\ chips \in {NoArtifact, Garbage, NoChips, LegacyChips, FirstChips}
    /\ indexed \in {{}, Concepts}
    /\ chipRun = NoChipRun /\ chipRuns = 0 /\ origin = {}

----------------------------------------------------------------------------
(* Generation.                                                              *)

isSystemMetaConcept(c) == c = 0

RepresentativeConcepts(cs) ==
    {c \in cs : /\ ~isSystemMetaConcept(c)
                /\ Cardinality({d \in cs : d > c}) < MaxConcepts}

ValidCandidate(c, known, titled, checkAnchors, requireGeneration) ==
    /\ TrimSpace(c.question) # "" /\ c.question # "long?"
    /\ normalize(c.question) # "" /\ isQuestion(c.question)
    /\ normalize(c.question) \notin Titles(titled) /\ ~isTitleWrapper(c.question, titled)
    /\ c.intent
    /\ requireGeneration => c.generation
    /\ c.anchors # <<>> /\ Len(c.anchors) <= MaxConcepts
    /\ IsInjective(c.anchors)
    /\ checkAnchors => ToSet(c.anchors) \subseteq known

validateCandidates(cs, concepts, checkAnchors, requireGeneration) ==
    /\ Len(cs) \in MinQueries .. MaxQueries
    /\ \A i \in DOMAIN cs :
           /\ ValidCandidate(cs[i], concepts, concepts, checkAnchors, requireGeneration)
           /\ \A j \in 1 .. i - 1 : normalize(cs[i].question) # normalize(cs[j].question)

parseProviderCandidates(answer) ==
    Len(answer) <= MaxQueries /\ \A i \in DOMAIN answer : answer[i].wellFormed

validateGeneratedCandidates(cs, concepts) ==
    /\ Len(cs) = RequiredQueries
    /\ validateCandidates(cs, concepts, TRUE, FALSE)

(* Mutant: the artifact keeps candidates a reader refuses.                 *)
ArtifactUntrusted(cs) ==
    [version |-> 2, queries |-> [i \in DOMAIN cs |-> TrimSpace(cs[i].question)], candidates |-> cs]

(* The trusted model and prompt version are attached after validation.      *)
ArtifactFromCandidates(cs) ==
    [version |-> 2, queries |-> [i \in DOMAIN cs |-> TrimSpace(cs[i].question)],
     candidates |-> [i \in DOMAIN cs |-> [cs[i] EXCEPT !.generation = TRUE]]]

Generates(answer, cs) ==
    LET concepts == RepresentativeConcepts(cs) IN
    /\ concepts # {}
    /\ parseProviderCandidates(answer)
    /\ validateGeneratedCandidates(answer, concepts)

(* Mutant: a present artifact is emptied.                                  *)
EmptyAnyway(artifact) == NoChips

ensureEmptySuggestedQueries(artifact) == IF artifact = NoArtifact THEN NoChips ELSE artifact

----------------------------------------------------------------------------
(* Reading.                                                                 *)

(* Decode bounds the file: text that escaping made long exceeds it.         *)
Decode(artifact) ==
    /\ artifact \notin {NoArtifact, Garbage}
    /\ \A i \in DOMAIN artifact.candidates : ~artifact.candidates[i].escapes

IsPublishable(artifact) ==
    /\ artifact.version = 2
    /\ Len(artifact.candidates) \in (MinQueries .. MaxLegacyQueries) \cup {RequiredQueries}
    /\ Len(artifact.queries) = Len(artifact.candidates)
    /\ validateCandidates(artifact.candidates, {}, FALSE, TRUE)
    /\ \A i \in DOMAIN artifact.queries :
           TrimSpace(artifact.queries[i]) = TrimSpace(artifact.candidates[i].question)

loadSuggestedQueries(artifact) ==
    IF Decode(artifact) /\ IsPublishable(artifact) THEN artifact.queries ELSE <<>>

----------------------------------------------------------------------------
(* Runs: the full pipeline, with or without the chips or after a clean      *)
(* rebuild, and the chips alone, which needs a committed generation.        *)

StartChipRun(kind) ==
    /\ chipRun.at = "idle" /\ chipRuns < MaxChipRuns
    /\ kind = "suggested-queries" => chips # NoArtifact
    /\ chipRuns' = chipRuns + 1
    /\ chipRun' = [at |-> IF kind = "suggested-queries" THEN "chips" ELSE "index", kind |-> kind,
                chips |-> IF kind = "clean" THEN NoArtifact ELSE chips,
                corpus |-> indexed, asked |-> {}]
    /\ UNCHANGED <<chips, indexed, origin>>

runCacheIndexStage(cs) ==
    /\ chipRun.at = "index"
    /\ chipRun' = [chipRun EXCEPT !.at = "chips", !.corpus = cs]
    /\ UNCHANGED <<chips, indexed, chipRuns, origin>>

writeSuggestedQueries(answer) ==
    /\ chipRun.at = "chips"
    /\ IF chipRun.kind # "without" /\ Generates(answer, chipRun.corpus)
       THEN chipRun' = [chipRun EXCEPT !.at = "commit", !.chips = ArtifactFromCandidates(answer),
                                 !.asked = RepresentativeConcepts(chipRun.corpus)]
       ELSE chipRun' = [chipRun EXCEPT !.at = "commit", !.chips = ensureEmptySuggestedQueries(@)]
    /\ UNCHANGED <<chips, indexed, chipRuns, origin>>

(* A stage fails, the container dies or the publication conflicts.           *)
ChipRunFails ==
    /\ chipRun.at # "idle"
    /\ chipRun' = NoChipRun
    /\ UNCHANGED <<chips, indexed, chipRuns, origin>>

CommitChips ==
    /\ chipRun.at = "commit"
    /\ chips' = chipRun.chips /\ indexed' = chipRun.corpus
    /\ origin' = IF chipRun.asked # {} THEN chipRun.asked ELSE origin
    /\ chipRun' = NoChipRun
    /\ UNCHANGED chipRuns

ChipNext ==
    \/ \E kind \in {"full", "without", "clean", "suggested-queries"} : StartChipRun(kind)
    \/ \E cs \in SUBSET Concepts : runCacheIndexStage(cs)
    \/ \E answer \in Answers : writeSuggestedQueries(answer)
    \/ ChipRunFails
    \/ CommitChips

ChipSpec == ChipInit /\ [][ChipNext]_chipVars

----------------------------------------------------------------------------
(* A generation that replaces the last artifact is one the reader shows:     *)
(* what the writer accepts with the concepts at hand, the stricter metadata  *)
(* and format checks of the reader accept too, and every generated question  *)
(* that is shown is about concepts the model was given by the run that       *)
(* published it.  Text that escaping makes longer than the reader's bound is *)
(* the one exception.                                                        *)
GeneratedIsShown ==
    /\ chipRun.asked # {} =>
           \/ \E i \in DOMAIN chipRun.chips.candidates : chipRun.chips.candidates[i].escapes
           \/ Len(loadSuggestedQueries(chipRun.chips)) = RequiredQueries
    /\ Len(loadSuggestedQueries(chips)) = RequiredQueries =>
           \A i \in DOMAIN chips.candidates : ToSet(chips.candidates[i].anchors) \subseteq origin

(* A missing key, a failing model, an unusable answer or a failed run never  *)
(* takes away the questions a project has; only a new set replaces them.  A  *)
(* clean rebuild starts without any.                                         *)
LastKnownGoodKept ==
    [][chips' # chips /\ loadSuggestedQueries(chips') # loadSuggestedQueries(chips)
         => chipRun.asked # {} \/ chipRun.kind = "clean"]_chipVars
==============================================================================
