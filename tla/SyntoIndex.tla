----------------------------- MODULE SyntoIndex -----------------------------
(***************************************************************************)
(* INDEX.json, the identities Synto exports.  The worker joins it with     *)
(* agent/concepts.json and validates it before it is published; the BFF's  *)
(* admin rebuild reads what was published with a validator of its own.     *)
(*                                                                         *)
(* A document is well-formed JSON, built field by field.  A string is the  *)
(* class of strings the validators tell apart.  Texts: the empty one,      *)
(* "blank" (white space only), "padded" (outer white space) and "long"     *)
(* (1025 to 4096 bytes).  Paths: "dotted" (two dots inside a name),        *)
(* "spaced" (outer white space), "masked" (white space before an absolute  *)
(* path), "unclean" (a "." element), "control" and "nul" (such a           *)
(* character inside) and "absolute", which stands for all that is unsafe   *)
(* to both.  Summaries, tags and aliases, and the arrays whose content     *)
(* nobody plans from (terms, papers, identity_log, ...) are left out: both *)
(* only bound them, and alike.                                             *)
(***************************************************************************)
EXTENDS Naturals, Sequences, FiniteSets

CONSTANTS MaxRows, MaxGroups

ASSUME IndexAssumption == MaxRows \in Nat /\ MaxGroups \in Nat

VARIABLES
    doc,      \* the exported INDEX.json
    rows,     \* agent/concepts.json
    defects   \* fields that differ from an ordinary export

indexVars == <<doc, rows, defects>>

Rejected == {}          \* a result is the set with it, or empty on an error
NoValue == "none"         \* null or an absent entity_id
NoText == "empty"         \* the empty string
EntityIds == {"e1", "e2"}
RootPaths == {"index"}
OddTexts == {NoText, "blank", "padded", "long"}
OddPaths == {NoText, "blank", "spaced", "masked", "dotted", "unclean", "control", "nul",
             "absolute", "long"}

(* The slug of an article path, without regard to case; P1 and p1 differ in *)
(* case only.                                                               *)
LowerSlug(path) == IF path = "P1" THEN "p1" ELSE path

FirstArticles == [id : {"a1"}, name : {"text"}, path : {"p1", "index"},
                  entity : {NoValue, "e1"}]
NextArticles == [id : {"a1", "a2"}, name : {"text"}, path : {"p1", "P1", "p2"},
                 entity : {NoValue} \cup EntityIds]
Groups == [path : {"s1", "s2"}, hash : {"sha256"},
           items : {<<>>, <<<<"text", "e1">>>>,
                    <<<<"text", "e2">>, <<"other", "e2">>>>}]
Rows == [entity : EntityIds, id : {NoValue, "a1", "a2"}, path : {NoValue, "p1", "p2"}]
        \cup [entity : {NoText}, id : {"a1"}, path : {"p1"}]

IndexInit ==
    /\ doc = [keys |-> [required |-> 1, optional |-> 0, unknown |-> 0],
              version |-> 1,
              pack |-> [text |-> "text", language |-> 1, capabilities |-> "known"],
              stats |-> "counts", confidence |-> "number", volume |-> "bounded",
              articles |-> <<>>, groups |-> <<>>,
              source |-> [id |-> "s1", kind |-> "text"],
              synthesis |-> [path |-> "s1", title |-> "text"]]
    /\ rows = <<>> /\ defects = 0

-----------------------------------------------------------------------------
(* What both validators require alike *)

Values(s) == {s[i] : i \in DOMAIN s}
NoDuplicates(s) == \A i, j \in DOMAIN s : s[i] = s[j] => i = j
Injective(s, f(_)) == \A i, j \in DOMAIN s : f(s[i]) = f(s[j]) => i = j

(* decodeSyntoObject and decodeStrictObject: every required key, no other   *)
(* key twice, no unknown key.                                               *)
decodeObject(keys) == keys.required = 1 /\ keys.optional <= 1 /\ keys.unknown = 0

(* Limits are measured before anything is trimmed. *)
WithinBytes(text, limit) == text = "long" => limit >= 4096

ValidSyntoEntityID(e) == e \in EntityIds
ValidSourceID(id) == id \notin {NoText, "unsafe"}
ValidContentHash(hash) == hash = "sha256"

EntitiesDistinct(articles) ==
    \A i, j \in DOMAIN articles :
        articles[i].entity = articles[j].entity /\ articles[i].entity # NoValue => i = j

(* The plan of a document whose fields are valid: an entity per article     *)
(* path, and the entities of the source concepts.  IDs, slugs and entities  *)
(* are unique; index.md and log.md are no concepts.                         *)
PlanOf(articles, groups) ==
    IF /\ \A i \in DOMAIN articles : ValidSourceID(articles[i].id)
       /\ Injective(articles, LAMBDA a : a.id)
       /\ Injective(articles, LAMBDA a : LowerSlug(a.path))
       /\ EntitiesDistinct(articles)
    THEN {[byPath |-> {<<a.path, a.entity>> : a \in
                         {b \in Values(articles) : b.entity # NoValue /\ b.path \notin RootPaths}},
           active |-> UNION {{item[2] : item \in Values(g.items)} : g \in Values(groups)}]}
    ELSE Rejected

-----------------------------------------------------------------------------
(* Worker: decodeSyntoIndex, syntoIdentityPlanFromIndex *)

(* filepath.Clean leaves the path alone, and it stays inside; those who ask *)
(* have read at most 1024 bytes.                                            *)
safeSyntoRelativePath(path) ==
    path \notin {NoText, "unclean", "absolute"} /\ WithinBytes(path, 1024)

safeSyntoSourceID(id) == safeSyntoRelativePath(id) /\ id \notin {"control", "nul"}

(* safeConceptSlug allows two dots inside a name. *)
normalizeSyntoArticlePath(path) ==
    /\ safeSyntoRelativePath(path)
    /\ path \notin {"blank", "spaced", "masked", "control", "nul"}

decodeSyntoPack(pack) ==
    WithinBytes(pack.text, 1024) /\ pack.capabilities \in {"known", "none"}

(* Decoding null into an int leaves 0. *)
decodeSyntoStats(stats) == stats # "negative"

(* A number is not converted. *)
decodeSyntoConfidence(confidence) == confidence \in {"number", "huge"}

decodeSyntoArticles(articles) ==
    \A i \in DOMAIN articles :
        /\ articles[i].id = NoText \/ ValidSourceID(articles[i].id)
        /\ WithinBytes(articles[i].id, 1024)
        /\ articles[i].entity = NoValue \/ ValidSyntoEntityID(articles[i].entity)
        /\ articles[i].name # NoText /\ WithinBytes(articles[i].name, 4096)
        /\ normalizeSyntoArticlePath(articles[i].path)

decodeSyntoSourceConceptItems(items) ==
    \A i \in DOMAIN items :
        /\ items[i][1] # NoText /\ WithinBytes(items[i][1], 4096)
        /\ ValidSyntoEntityID(items[i][2])

(* The limit is on the source concepts of all groups together. *)
decodeSyntoSourceConcepts(groups, volume) ==
    /\ volume # "many_edges"
    /\ Injective(groups, LAMBDA g : g.path)
    /\ \A i \in DOMAIN groups :
        /\ safeSyntoRelativePath(groups[i].path)
        /\ ValidContentHash(groups[i].hash)
        /\ decodeSyntoSourceConceptItems(groups[i].items)
        /\ NoDuplicates(groups[i].items)

decodeSyntoSources(source) ==
    safeSyntoSourceID(source.id) /\ source.kind # NoText /\ WithinBytes(source.kind, 256)

decodeSyntoSynthesis(synthesis) ==
    /\ safeSyntoRelativePath(synthesis.path)
    /\ synthesis.title # NoText /\ WithinBytes(synthesis.title, 4096)

decodeSyntoIndex(d) ==
    /\ decodeObject(d.keys) /\ d.version = 1
    /\ decodeSyntoPack(d.pack) /\ decodeSyntoStats(d.stats)
    /\ decodeSyntoArticles(d.articles) /\ decodeSyntoConfidence(d.confidence)
    /\ decodeSyntoSourceConcepts(d.groups, d.volume)
    /\ decodeSyntoSources(d.source) /\ decodeSyntoSynthesis(d.synthesis)

syntoIdentityPlanFromIndex(d) ==
    IF decodeSyntoIndex(d) THEN PlanOf(d.articles, d.groups) ELSE Rejected

-----------------------------------------------------------------------------
(* BFF: DecodeSyntoIdentityPlan *)

(* strings.TrimSpace *)
Trimmed(text) ==
    CASE text = "blank" -> NoText
      [] text = "padded" -> "text"
      [] text = "spaced" -> "s1"
      [] text = "masked" -> "absolute"
      [] text = "padded_e1" -> "e1"
      [] text = "padded_sha256" -> "sha256"
      [] OTHER -> text

(* releasedSyntoString with trim, for what must not be empty. *)
releasedSyntoString(text, limit) == WithinBytes(text, limit) /\ Trimmed(text) # NoText

(* Two dots are refused wherever they stand, a "." element is not. *)
safeSyntoSourcePath(path) ==
    path \notin {NoText, "blank", "spaced", "masked", "dotted", "nul", "absolute"}

safeReleasedSyntoSourceID(id) ==
    safeSyntoSourcePath(id) /\ WithinBytes(id, 1024) /\ id \notin {"control", "nul"}

validSyntoArticlePath(path) ==
    path \notin {NoText, "blank", "spaced", "masked", "dotted", "unclean", "absolute"}

validateReleasedSyntoPack(pack) ==
    releasedSyntoString(pack.text, 1024) /\ pack.language > 0 /\ pack.capabilities = "known"

validateReleasedSyntoStats(stats) == stats = "counts"

(* A number is converted to a float64. *)
validateReleasedSyntoConfidence(confidence) == confidence = "number"

validateReleasedSyntoArticles(articles) ==
    \A i \in DOMAIN articles :
        /\ releasedSyntoString(articles[i].id, 1024)
        /\ releasedSyntoString(articles[i].name, 1024)
        /\ releasedSyntoString(articles[i].path, 1024)
        /\ articles[i].entity = NoValue \/ ValidSyntoEntityID(Trimmed(articles[i].entity))

validateReleasedSyntoSources(source) ==
    safeReleasedSyntoSourceID(source.id) /\ releasedSyntoString(source.kind, 256)

(* The limits are on the groups, and on the concepts of each.  Items are    *)
(* compared without outer white space.                                      *)
validateReleasedSyntoSourceConcepts(groups, volume) ==
    /\ volume # "many_groups"
    /\ Injective(groups, LAMBDA g : Trimmed(g.path))
    /\ \A i \in DOMAIN groups :
        LET items == groups[i].items IN
        /\ WithinBytes(groups[i].path, 1024) /\ safeSyntoSourcePath(Trimmed(groups[i].path))
        /\ ValidContentHash(Trimmed(groups[i].hash))
        /\ \A j \in DOMAIN items :
               releasedSyntoString(items[j][1], 4096) /\ ValidSyntoEntityID(Trimmed(items[j][2]))
        /\ \A j, k \in DOMAIN items :
               Trimmed(items[j][1]) = Trimmed(items[k][1])
               /\ Trimmed(items[j][2]) = Trimmed(items[k][2]) => j = k

validateReleasedSyntoSynthesis(synthesis) ==
    /\ WithinBytes(synthesis.path, 1024) /\ safeSyntoSourcePath(Trimmed(synthesis.path))
    /\ releasedSyntoString(synthesis.title, 4096)

validateReleasedSyntoIndex(d) ==
    /\ decodeObject(d.keys) /\ d.version = 1
    /\ validateReleasedSyntoPack(d.pack) /\ validateReleasedSyntoStats(d.stats)
    /\ validateReleasedSyntoArticles(d.articles)
    /\ validateReleasedSyntoConfidence(d.confidence)
    /\ validateReleasedSyntoSources(d.source)
    /\ validateReleasedSyntoSourceConcepts(d.groups, d.volume)
    /\ validateReleasedSyntoSynthesis(d.synthesis)

(* Only the entity of an article is used without its outer white space. *)
decodeSyntoIdentityArticles(articles) ==
    [i \in DOMAIN articles |-> [articles[i] EXCEPT !.entity = Trimmed(@)]]

decodeSyntoIdentitySourceConcepts(groups) ==
    \A i \in DOMAIN groups :
        /\ safeSyntoSourcePath(groups[i].path) /\ ValidContentHash(groups[i].hash)
        /\ \A j \in DOMAIN groups[i].items : ValidSyntoEntityID(groups[i].items[j][2])

(* Mutant: the BFF plans without validating the document.                  *)
DecodeWithoutValidation(d) ==
    IF /\ decodeSyntoIdentitySourceConcepts(d.groups)
       /\ \A i \in DOMAIN d.articles : validSyntoArticlePath(d.articles[i].path)
    THEN PlanOf(decodeSyntoIdentityArticles(d.articles), d.groups) ELSE Rejected

DecodeSyntoIdentityPlan(d) ==
    IF /\ validateReleasedSyntoIndex(d)
       /\ decodeSyntoIdentitySourceConcepts(d.groups)
       /\ \A i \in DOMAIN d.articles : validSyntoArticlePath(d.articles[i].path)
    THEN PlanOf(decodeSyntoIdentityArticles(d.articles), d.groups) ELSE Rejected

-----------------------------------------------------------------------------
(* The join with agent/concepts.json *)

(* The rows that name an article; the others are skipped. *)
Proofs(agent) == {p \in DOMAIN agent : agent[p].id # NoValue \/ agent[p].path # NoValue}

(* byID and byPath: only articles with an ID can be found by it. *)
IndexOf(articles, field, value) ==
    CHOOSE i \in DOMAIN articles : articles[i][field] = value
Has(articles, field, value) == \E i \in DOMAIN articles : articles[i][field] = value

(* A proof names one article by ID and by path, and an entity. *)
ProofOk(articles, r) ==
    /\ r.id \notin {NoValue, NoText} /\ r.path # NoValue
    /\ Has(articles, "id", r.id) /\ Has(articles, "path", r.path)
    /\ IndexOf(articles, "id", r.id) = IndexOf(articles, "path", r.path)
    /\ ValidSyntoEntityID(r.entity)

UniqueForJoin(articles) ==
    /\ \A i, j \in DOMAIN articles :
           articles[i].id = articles[j].id /\ articles[i].id # NoText => i = j
    /\ Injective(articles, LAMBDA a : a.path)
    /\ EntitiesDistinct(articles)

(* No article is proved twice, no entity proves two articles. *)
ProofsOk(articles, agent) ==
    /\ \A p \in Proofs(agent) : ProofOk(articles, agent[p])
    /\ \A p, q \in Proofs(agent) :
           agent[p].id = agent[q].id \/ agent[p].entity = agent[q].entity => p = q

ProofsFor(agent, id) == {p \in Proofs(agent) : agent[p].id = id}
ProvedEntity(agent, id) == agent[CHOOSE p \in ProofsFor(agent, id) : TRUE].entity

(* Mutant: a row also replaces an explicit entity.                         *)
OverwriteAll(articles, agent) ==
    [i \in DOMAIN articles |->
        IF ProofsFor(agent, articles[i].id) # {} THEN ProvedEntity(agent, articles[i].id)
        ELSE NoValue]

(* Only an article without an entity is filled. *)
Fills(articles, agent) ==
    [i \in DOMAIN articles |->
        IF articles[i].entity = NoValue /\ ProofsFor(agent, articles[i].id) # {}
        THEN ProvedEntity(agent, articles[i].id) ELSE NoValue]

applyAgentEntityFillsToIndex(d, fills) ==
    [d EXCEPT !.articles = [i \in DOMAIN d.articles |->
        IF fills[i] = NoValue THEN d.articles[i]
        ELSE [d.articles[i] EXCEPT !.entity = fills[i]]]]

enrichSyntoIndexWithAgentConcepts(d, agent) ==
    LET fills == Fills(d.articles, agent)
        out == applyAgentEntityFillsToIndex(d, fills)
    IN  IF /\ decodeSyntoIndex(d)
           /\ UniqueForJoin(d.articles) /\ ProofsOk(d.articles, agent)
           /\ \A i \in DOMAIN d.articles : fills[i] # NoValue =>
                  ~Has(d.articles, "entity", fills[i])
           /\ decodeSyntoIndex(out)
        THEN {out} ELSE Rejected

(* ensureSyntoIndex: what is installed and later published. *)
exportSyntoIndex == enrichSyntoIndexWithAgentConcepts(doc, rows)

-----------------------------------------------------------------------------
(* Building the documents *)

AddArticle ==
    /\ rows = <<>> /\ doc.groups = <<>> /\ defects = 0
    /\ Len(doc.articles) < 2
    /\ \E a \in IF doc.articles = <<>> THEN FirstArticles ELSE NextArticles :
           doc' = [doc EXCEPT !.articles = Append(@, a)]
    /\ UNCHANGED <<rows, defects>>

AddGroup ==
    /\ rows = <<>> /\ defects = 0 /\ Len(doc.groups) < MaxGroups
    /\ \E g \in Groups : doc' = [doc EXCEPT !.groups = Append(@, g)]
    /\ UNCHANGED <<rows, defects>>

AddRow ==
    /\ doc.groups = <<>> /\ defects = 0 /\ Len(rows) < MaxRows
    /\ \E r \in Rows : rows' = Append(rows, r)
    /\ UNCHANGED <<doc, defects>>

LastArticle(field, values) ==
    doc.articles # <<>> /\ \E v \in values :
        doc' = [doc EXCEPT !.articles[Len(doc.articles)][field] = v]

LastGroup(field, values) ==
    doc.groups # <<>> /\ \E v \in values :
        doc' = [doc EXCEPT !.groups[Len(doc.groups)][field] = v]

OddItems == {<<<<name, "e1">>>> : name \in OddTexts}
            \cup {<<<<"text", e>>>> : e \in {NoText, "unsafe", "padded_e1"}}
            \cup {<<<<"text", "e1">>, <<name, "e1">>>> : name \in {"text", "padded"}}

Deviate ==
    /\ rows = <<>> /\ defects = 0
    /\ defects' = 1 /\ UNCHANGED rows
    /\ \/ \E k \in {"required", "optional", "unknown"}, n \in 0..2 :
              doc' = [doc EXCEPT !.keys[k] = n]
       \/ doc' = [doc EXCEPT !.version = 2]
       \/ \E t \in OddTexts : doc' = [doc EXCEPT !.pack.text = t]
       \/ doc' = [doc EXCEPT !.pack.language = 0]
       \/ \E c \in {"unknown", "none"} : doc' = [doc EXCEPT !.pack.capabilities = c]
       \/ \E s \in {"null", "negative"} : doc' = [doc EXCEPT !.stats = s]
       \/ \E c \in {"huge", "boolean"} :
              doc.articles # <<>> /\ doc' = [doc EXCEPT !.confidence = c]
       \/ \E v \in {"many_edges", "many_groups"} : doc' = [doc EXCEPT !.volume = v]
       \/ \E p \in OddPaths : doc' = [doc EXCEPT !.source.id = p]
       \/ \E t \in OddTexts : doc' = [doc EXCEPT !.source.kind = t]
       \/ \E p \in OddPaths : doc' = [doc EXCEPT !.synthesis.path = p]
       \/ \E t \in OddTexts : doc' = [doc EXCEPT !.synthesis.title = t]
       \/ LastArticle("id", {NoText, "blank", "unsafe", "long"})
       \/ LastArticle("name", OddTexts) \/ LastArticle("path", OddPaths)
       \/ LastArticle("entity", {NoText, "blank", "unsafe", "padded_e1"})
       \/ LastGroup("path", OddPaths) \/ LastGroup("hash", {"md5", "padded_sha256"})
       \/ LastGroup("items", OddItems)

IndexNext == AddArticle \/ AddGroup \/ AddRow \/ Deviate

IndexSpec == IndexInit /\ [][IndexNext]_indexVars

-----------------------------------------------------------------------------
(* Properties *)

(* What only one of the two validators refuses. *)
LooseArticle(a) ==
    \/ a.id = "blank" \/ a.name \in {"blank", "long"} \/ a.entity = "padded_e1"
    \/ a.path \in {"dotted", "control", "nul"}

LooseGroup(g) ==
    \/ g.path \in {"blank", "spaced", "masked", "dotted", "unclean", "nul"}
    \/ \E i \in DOMAIN g.items : g.items[i][1] = "blank"
    \/ \E i, j \in DOMAIN g.items :
           /\ g.items[i] # g.items[j] /\ g.items[i][2] = g.items[j][2]
           /\ Trimmed(g.items[i][1]) = Trimmed(g.items[j][1])

Loose(d) ==
    \/ d.pack.text \in {NoText, "blank"} \/ d.pack.language = 0 \/ d.pack.capabilities = "none"
    \/ d.stats = "null" \/ d.confidence = "huge" \/ d.volume # "bounded"
    \/ d.source.id \in {"blank", "spaced", "masked", "dotted", "unclean"}
    \/ d.source.kind = "blank"
    \/ d.synthesis.path \in {"blank", "masked", "dotted", "unclean", "nul"}
    \/ d.synthesis.title = "blank"
    \/ \E i \in DOMAIN d.articles : LooseArticle(d.articles[i])
    \/ \E i \in DOMAIN d.groups : LooseGroup(d.groups[i])

(* DecodeSyntoIdentityPlan, "used by both worker and admin rebuild paths"   *)
(* according to its comment, is a second implementation.  The two accept    *)
(* the same documents and read the same concepts and active entities from   *)
(* them, but for the fields of Loose; that list is exact: what is on it     *)
(* one of them refuses.                                                     *)
DecodersAgree ==
    LET bff == DecodeSyntoIdentityPlan(doc)  worker == syntoIdentityPlanFromIndex(doc)
    IN  IF Loose(doc) THEN Rejected \in {bff, worker} ELSE bff = worker

(* enrichSyntoIndexWithAgentConcepts: an explicit entity is never           *)
(* overwritten, a filled one is proved by a row that names the article by   *)
(* ID and path, no entity gets two articles, and the join never spoils an   *)
(* INDEX that could be planned from.                                        *)
EnrichSound ==
    rows # <<>> => \A out \in exportSyntoIndex :
        /\ \A i \in DOMAIN doc.articles :
              LET before == doc.articles[i].entity  after == out.articles[i].entity
              IN  /\ before # NoValue => after = before
                  /\ after # before => \E r \in Values(rows) :
                         /\ r.entity = after /\ r.id = doc.articles[i].id
                         /\ r.path = doc.articles[i].path
        /\ EntitiesDistinct(out.articles)
        /\ syntoIdentityPlanFromIndex(doc) # Rejected => syntoIdentityPlanFromIndex(out) # Rejected
=============================================================================
