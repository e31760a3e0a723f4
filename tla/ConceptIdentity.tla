--------------------------- MODULE ConceptIdentity ---------------------------
(***************************************************************************)
(* The IDs of concept pages.  A project begins with legacy IDs, taken from *)
(* the pages themselves; its first Synto run replaces them by the entity   *)
(* IDs of Synto's INDEX.json and leaves an ID redirect for every legacy ID *)
(* whose page is still there.  Later runs and admin rebuilds derive the ID *)
(* map again from pages and INDEX and carry the redirects on.              *)
(*                                                                         *)
(* The root pages index.md and log.md are no articles and are left out, as *)
(* is the Redirects field of the map, which nothing reads.                 *)
(***************************************************************************)
EXTENDS Naturals, FiniteSets

CONSTANTS
    Slugs,        \* slugs of concept pages
    LegacyIds,    \* 12-digit hexadecimal IDs
    Entities,     \* ULIDs of Synto entities
    NoSlug, NoId, NoEntity

ASSUME IdentityAssumption ==
    /\ LegacyIds \cap Entities = {}
    /\ NoSlug \notin Slugs /\ NoId \notin LegacyIds \cup Entities
    /\ NoEntity \notin Entities

ConceptIds == LegacyIds \cup Entities

VARIABLES
    idmap,      \* cache/id_map.json: [concept, dormant, redirect]
    pages,      \* pages[s]: the ID in the page of slug s, NoId without page
    articles,   \* articles[s]: entity of the INDEX article, NoEntity if it
                \* has none; the function is empty before the first Synto run
    outcome     \* result of the last rebuild or run

identityVars == <<idmap, pages, articles, outcome>>

NoIds == [i \in ConceptIds |-> NoSlug]
NoRedirects == [l \in LegacyIds |-> NoId]
NoArticles == <<>>
EmptyIDMap == [concept |-> NoIds, dormant |-> NoIds, redirect |-> NoRedirects]

Active(map) == {i \in ConceptIds : map.concept[i] # NoSlug}
Dormant(map) == {i \in ConceptIds : map.dormant[i] # NoSlug}
Migrated == articles # NoArticles

(* Older maps may keep dormant concepts, under slugs of their own. *)
IdentityInit ==
    /\ pages = [s \in Slugs |-> NoId]
    /\ articles = NoArticles
    /\ outcome = "ok"
    /\ \E s \in Slugs, l \in LegacyIds :
           idmap \in {EmptyIDMap, [EmptyIDMap EXCEPT !.dormant[l] = s]}

-----------------------------------------------------------------------------
(* Legacy rebuild: the IDs are those of the pages *)

PageIdsUnique == \A s, t \in Slugs : pages[s] # NoId /\ pages[s] = pages[t] => s = t

addIDMapEntries ==
    [i \in ConceptIds |->
        IF \E s \in Slugs : pages[s] = i THEN CHOOSE s \in Slugs : pages[s] = i
        ELSE NoSlug]

(* Dormant concepts are retained and must not meet an active one. *)
preserveConceptLifecycle(concept) ==
    \A i \in Dormant(idmap) :
        concept[i] = NoSlug /\ \A j \in ConceptIds : concept[j] # idmap.dormant[i]

(* BuildIDMap starts a new map without ID redirects. *)
BuildIDMap == [EmptyIDMap EXCEPT !.concept = addIDMapEntries,
                                 !.dormant = idmap.dormant]

Rebuild ==
    /\ ~Migrated
    /\ IF PageIdsUnique /\ preserveConceptLifecycle(addIDMapEntries)
       THEN idmap' = BuildIDMap /\ outcome' = "ok"
       ELSE outcome' = "failed" /\ UNCHANGED idmap
    /\ UNCHANGED <<pages, articles>>

(* The earlier engine writes or removes a page, with an ID in it or one     *)
(* that follows from its content.                                           *)
LegacyEngineWrites(s, id) ==
    /\ ~Migrated
    /\ pages' = [pages EXCEPT ![s] = id]
    /\ UNCHANGED <<idmap, articles, outcome>>

-----------------------------------------------------------------------------
(* Rebuild with the identities of INDEX.json *)

Bound(index) == {s \in DOMAIN index : index[s] # NoEntity}

(* syntoIdentityPlanFromIndex: an entity has one article. *)
PlanOk(index) == \A s, t \in Bound(index) : index[s] = index[t] => s = t

(* enforceActiveEntityCoverage *)
CoverageOk(index, active) ==
    active # {} => \E s \in Bound(index) : index[s] \in active

(* validateSyntoIdentityPlan *)
PagesPresent(index, present) == Bound(index) \subseteq present

PlannedConcepts(index) ==
    [i \in ConceptIds |->
        IF \E s \in Bound(index) : index[s] = i
        THEN CHOOSE s \in Bound(index) : index[s] = i ELSE NoSlug]

ConceptAt(concept, s) == {i \in ConceptIds : concept[i] = s}

(* The old IDs of pages that are concepts now; only legacy IDs migrate.     *)
MigratedPairs(concept, oldRows) ==
    {p \in LegacyIds \X Entities :
        \E s \in Slugs : <<p[1], s>> \in oldRows /\ p[2] \in ConceptAt(concept, s)}

(* Mutant: earlier redirects are not carried over.                         *)
ForgetRedirects(old) == {}

CarriedPairs(old) == {<<l, old.redirect[l]>> : l \in {k \in LegacyIds : old.redirect[k] # NoId}}

ActiveRows(map) == {<<i, map.concept[i]>> : i \in Active(map)}
DormantRows(map) == {<<i, map.dormant[i]>> : i \in Dormant(map)}

(* Mutant: a redirect may point nowhere.                                   *)
PairsWithoutTarget(concept, pairs) ==
    \A p, q \in pairs : p[1] = q[1] => p = q

(* Every redirect leads from an ID that is no concept to one that is, and   *)
(* no ID has two.                                                           *)
RedirectPairsOk(concept, pairs) ==
    /\ \A p \in pairs : concept[p[1]] = NoSlug /\ concept[p[2]] # NoSlug
    /\ \A p, q \in pairs : p[1] = q[1] => p = q

AsRedirects(pairs) ==
    [l \in LegacyIds |-> IF \E p \in pairs : p[1] = l
                         THEN (CHOOSE p \in pairs : p[1] = l)[2] ELSE NoId]

(* planSyntoIDRedirects *)
PlannedRedirects(concept, old) ==
    CarriedPairs(old) \cup MigratedPairs(concept, ActiveRows(old) \cup DormantRows(old))

(* snapshotConcepts hangs the redirects on its first row; a map with        *)
(* redirects has no dormant rows, which would be skipped.                   *)
SnapshotRedirects(old) ==
    IF Active(old) = {} THEN {} ELSE CarriedPairs(old)

(* planSyntoDirectEntityIDRedirects *)
DirectRedirects(concept, old, planned) ==
    planned \cup SnapshotRedirects(old) \cup MigratedPairs(concept, ActiveRows(old))

PageRewrite(index, present) ==
    [s \in Slugs |-> IF s \in Bound(index) THEN index[s]
                     ELSE IF s \notin present THEN NoId
                     ELSE IF pages[s] # NoId THEN pages[s]
                     ELSE CHOOSE l \in LegacyIds : TRUE]

Install(index, present, pairs) ==
    /\ idmap' = [EmptyIDMap EXCEPT !.concept = PlannedConcepts(index),
                                   !.redirect = AsRedirects(pairs)]
    /\ pages' = PageRewrite(index, present)
    /\ articles' = index
    /\ outcome' = "ok"

Fail == outcome' = "failed" /\ UNCHANGED <<idmap, pages, articles>>

(* A worker run: Synto leaves pages and INDEX, runCacheIndexStage and       *)
(* reconcileWorkspaceConcepts derive the map; nothing is published unless   *)
(* every check passes.                                                      *)
SyntoRun(present, index, active) ==
    LET concept == PlannedConcepts(index)
        planned == PlannedRedirects(concept, idmap)
        direct == DirectRedirects(concept, idmap, planned)
    IN  IF /\ PlanOk(index) /\ CoverageOk(index, active)
           /\ PagesPresent(index, present)
           /\ RedirectPairsOk(concept, planned)
           /\ RedirectPairsOk(concept, direct)
        THEN Install(index, present, direct)
        ELSE Fail

(* RebuildIndexGeneration with planSyntoGeneration: the pages and INDEX of  *)
(* the current generation, and no coverage check.                           *)
AdminRebuild ==
    LET present == {s \in Slugs : pages[s] # NoId}
        concept == PlannedConcepts(articles)
        planned == PlannedRedirects(concept, idmap)
    IN  /\ Migrated
        /\ IF PlanOk(articles) /\ PagesPresent(articles, present)
              /\ RedirectPairsOk(concept, planned)
           THEN Install(articles, present, planned)
           ELSE Fail

IdentityNext ==
    \/ Rebuild
    \/ \E s \in Slugs, id \in LegacyIds \cup {NoId} : LegacyEngineWrites(s, id)
    \/ \E present \in SUBSET Slugs, active \in SUBSET Entities :
           \E listed \in SUBSET Slugs :
               \E index \in [listed -> Entities \cup {NoEntity}] :
                   index # NoArticles /\ SyntoRun(present, index, active)
    \/ AdminRebuild

IdentitySpec == IdentityInit /\ [][IdentityNext]_identityVars

-----------------------------------------------------------------------------
(* handleIDRoutedPage: the concept an ID is routed to *)

Route(map, id) ==
    IF map.concept[id] # NoSlug THEN id
    ELSE IF id \in LegacyIds /\ map.redirect[id] # NoId
            /\ map.concept[map.redirect[id]] # NoSlug
         THEN map.redirect[id] ELSE NoId

(* planSyntoIDRedirects: every published redirect is one step from a legacy *)
(* ID that is no concept of its own to a concept that exists, and concepts  *)
(* have different slugs.                                                    *)
RedirectsSound ==
    /\ \A l \in LegacyIds : idmap.redirect[l] # NoId =>
           idmap.concept[l] = NoSlug /\ Route(idmap, l) = idmap.redirect[l]
    /\ \A i, j \in Active(idmap) : idmap.concept[i] = idmap.concept[j] => i = j

(* A link that worked before a Synto run or an admin rebuild works after    *)
(* it: one to a legacy ID whose page is still a concept leads to that page, *)
(* and one that was redirected to an entity leads to it for ever, even when *)
(* the entity's page has another slug by then.                              *)
LinksKept ==
    [][articles' # NoArticles /\ outcome' = "ok" =>
        \A l \in LegacyIds :
            /\ idmap.concept[l] # NoSlug /\ ConceptAt(idmap'.concept, idmap.concept[l]) # {}
                   => Route(idmap', l) \in ConceptAt(idmap'.concept, idmap.concept[l])
            /\ idmap.redirect[l] # NoId
                   => Route(idmap', l) = idmap.redirect[l]]_identityVars
=============================================================================
