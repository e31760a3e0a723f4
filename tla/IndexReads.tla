----------------------------- MODULE IndexReads -----------------------------
(***************************************************************************)
(* Reading one project's generated files.  A request pins the manifest it  *)
(* found once and reads every generated file through that view; three      *)
(* caches of the BFF process keep what requests loaded.  Meanwhile workers *)
(* publish manifests, and RebuildIndex rewrites the canonical files of a   *)
(* project that has no manifest yet, under a Firestore lock with a TTL and *)
(* under the storage lease (one atomic resource here: PublishProtocol has  *)
(* its details).                                                           *)
(*                                                                         *)
(* The content of a file is <<generation, version>>: generation 0 stands   *)
(* for the canonical path, whose versions are the rebuilds that wrote it.  *)
(***************************************************************************)
EXTENDS Naturals

CONSTANTS
    Readers,      \* read requests
    Rebuilders,   \* rebuild-index requests
    MaxManifests  \* bound on published manifests

Files == {"id_map", "concepts", "pages"}
Kinds == {"page", "sources", "query"}
Free == "free"

ASSUME ReadsAssumption ==
    /\ MaxManifests \in Nat
    /\ Free \notin Readers \cup Rebuilders

Absent == <<>>

VARIABLES
    current,    \* generation of current.json, 0 when there is none
    canon,      \* canon[f]: version of the canonical file
    gone,       \* generations with an object that cannot be read any more
    leaseBy,    \* who holds the project's storage lease
    indexLock,  \* the rebuild_index field: holder, or Free
    rebuild,    \* rebuild[b]: a rebuild request and the version it writes
    version,    \* rebuilds that have begun to write
    answered,   \* history: the latest version whose rebuild was answered with 200
    request,    \* request[r]: a read request
    routing, lists, concepts,  \* caches, by cache key
    routingMu   \* holder of idRoutingMu

readVars == <<current, canon, gone, leaseBy, indexLock, rebuild, version,
              answered, request, routing, lists, concepts, routingMu>>
cacheVars == <<routing, lists, concepts, routingMu>>

Keys == 0 .. MaxManifests
NewRequest == [at |-> "new", kind |-> "page", view |-> 0, used |-> {},
               loaded |-> Absent]

ReadsInit ==
    /\ current = 0
    /\ canon = [f \in Files |-> 0]
    /\ gone = {}
    /\ leaseBy = Free /\ indexLock = Free
    /\ rebuild = [b \in Rebuilders |-> [at |-> "new", version |-> 0]]
    /\ version = 0 /\ answered = 0
    /\ request = [r \in Readers |-> NewRequest]
    /\ routing = [k \in Keys |-> Absent]
    /\ lists = [k \in Keys |-> Absent]
    /\ concepts = [k \in Keys |-> Absent]
    /\ routingMu = Free

-----------------------------------------------------------------------------
(* Views *)

(* A manifest view reads the objects it names, the legacy view the          *)
(* canonical paths as they are now.                                         *)
resolveReadPath(view, f) == IF view = 0 THEN <<0, canon[f]>> ELSE <<view, 0>>

(* verifyGenerationRead: a declared object that is missing or differs from  *)
(* the manifest is an error, never another file.                            *)
Readable(view) == view \notin gone

(* Mutant: the cache key leaves the generation out.                        *)
KeyWithoutToken(view) == 0

viewCacheKey(view) == view

-----------------------------------------------------------------------------
(* Read requests *)

Step(r, at, used, loaded) ==
    request' = [request EXCEPT ![r].at = at, ![r].used = @ \cup used,
                               ![r].loaded = loaded]

(* GetStore: the first use in a request pins the view. *)
Pin(r, kind) ==
    /\ request[r].at = "new"
    /\ request' = [request EXCEPT ![r].at = "pinned", ![r].kind = kind,
                                  ![r].view = current]
    /\ UNCHANGED <<current, canon, gone, leaseBy, indexLock, rebuild, version,
                   answered, cacheVars>>

At(r, kind, at) == request[r].kind = kind /\ request[r].at = at

(* Mutant: the cached ID map is filled without the mutex.                  *)
LookupWithoutMutex(r) ==
    LET key == viewCacheKey(request[r].view) IN
    /\ At(r, "page", "pinned")
    /\ IF routing[key] # Absent
       THEN Step(r, "routed", {routing[key]}, Absent)
       ELSE Step(r, "routing", {}, resolveReadPath(request[r].view, "id_map"))
    /\ UNCHANGED <<current, canon, gone, leaseBy, indexLock, rebuild, version,
                   answered, cacheVars>>

(* getIDRoutingMap keeps idRoutingMu from the lookup until the map it       *)
(* loaded is stored.                                                        *)
LookupRouting(r) ==
    LET key == viewCacheKey(request[r].view) IN
    /\ At(r, "page", "pinned")
    /\ routingMu = Free
    /\ IF routing[key] # Absent
       THEN Step(r, "routed", {routing[key]}, Absent) /\ UNCHANGED routingMu
       ELSE /\ Readable(request[r].view)
            /\ Step(r, "routing", {}, resolveReadPath(request[r].view, "id_map"))
            /\ routingMu' = r
    /\ UNCHANGED <<current, canon, gone, leaseBy, indexLock, rebuild, version,
                   answered, routing, lists, concepts>>

StoreRouting(r) ==
    LET key == viewCacheKey(request[r].view) IN
    /\ At(r, "page", "routing")
    /\ routing' = [routing EXCEPT ![key] = request[r].loaded]
    /\ routingMu' = Free
    /\ Step(r, "routed", {request[r].loaded}, Absent)
    /\ UNCHANGED <<current, canon, gone, leaseBy, indexLock, rebuild, version,
                   answered, lists, concepts>>

(* handleIDRoutedPage and GetConcept: the page itself. *)
GetPage(r) ==
    /\ At(r, "page", "routed")
    /\ Readable(request[r].view)
    /\ Step(r, "done", {resolveReadPath(request[r].view, "pages")}, Absent)
    /\ UNCHANGED <<current, canon, gone, leaseBy, indexLock, rebuild, version,
                   answered, cacheVars>>

(* ListSources: the ID map, then the metadata of old source pages, which    *)
(* are listed once per key and kept.  Lookup and store are two critical     *)
(* sections.                                                                *)
ListSources(r) ==
    LET key == viewCacheKey(request[r].view)
        ids == resolveReadPath(request[r].view, "id_map")
    IN  /\ At(r, "sources", "pinned")
        /\ Readable(request[r].view)
        /\ IF lists[key] # Absent
           THEN Step(r, "done", {ids, lists[key]}, Absent)
           ELSE Step(r, "listing", {ids}, resolveReadPath(request[r].view, "pages"))
        /\ UNCHANGED <<current, canon, gone, leaseBy, indexLock, rebuild,
                       version, answered, cacheVars>>

StoreList(r) ==
    LET key == viewCacheKey(request[r].view) IN
    /\ At(r, "sources", "listing")
    /\ lists' = [lists EXCEPT ![key] = request[r].loaded]
    /\ Step(r, "done", {request[r].loaded}, Absent)
    /\ UNCHANGED <<current, canon, gone, leaseBy, indexLock, rebuild, version,
                   answered, routing, concepts, routingMu>>

(* Cache.All: concepts.jsonl, or the pages when it cannot be used. *)
LoadConcepts(r) ==
    LET key == viewCacheKey(request[r].view) IN
    /\ At(r, "query", "pinned")
    /\ IF concepts[key] # Absent
       THEN Step(r, "done", {concepts[key]}, Absent)
       ELSE /\ Readable(request[r].view)
            /\ \E f \in {"concepts", "pages"} :
                   Step(r, "loading", {}, resolveReadPath(request[r].view, f))
    /\ UNCHANGED <<current, canon, gone, leaseBy, indexLock, rebuild, version,
                   answered, cacheVars>>

StoreConcepts(r) ==
    LET key == viewCacheKey(request[r].view) IN
    /\ At(r, "query", "loading")
    /\ concepts' = [concepts EXCEPT ![key] = request[r].loaded]
    /\ Step(r, "done", {request[r].loaded}, Absent)
    /\ UNCHANGED <<current, canon, gone, leaseBy, indexLock, rebuild, version,
                   answered, routing, lists, routingMu>>

(* A read fails: the request is answered with an error and holds no mutex.  *)
ReadFails(r) ==
    /\ request[r].at \in {"pinned", "routed"}
    /\ Step(r, "failed", {}, Absent)
    /\ UNCHANGED <<current, canon, gone, leaseBy, indexLock, rebuild, version,
                   answered, cacheVars>>

-----------------------------------------------------------------------------
(* Other writers *)

(* A worker commits the next manifest under its lease. *)
PublishManifest ==
    /\ leaseBy = Free /\ current < MaxManifests
    /\ current' = current + 1
    /\ UNCHANGED <<canon, gone, leaseBy, indexLock, rebuild, version, answered,
                   request, cacheVars>>

(* An object of a generation is deleted behind the reader's back. *)
LoseObject(g) ==
    /\ g \in 1 .. current /\ g \notin gone
    /\ gone' = gone \cup {g}
    /\ UNCHANGED <<current, canon, leaseBy, indexLock, rebuild, version,
                   answered, request, cacheVars>>

-----------------------------------------------------------------------------
(* RebuildIndex *)

Rebuilding(b, from, to) ==
    rebuild[b].at = from /\ rebuild' = [rebuild EXCEPT ![b].at = to]

UnchangedByRebuild == UNCHANGED <<current, gone, request>>

(* HasCurrentManifest, then the Firestore lock. *)
CheckManifest(b) ==
    /\ Rebuilding(b, "new", IF current = 0 THEN "checked" ELSE "refused")
    /\ UnchangedByRebuild
    /\ UNCHANGED <<canon, leaseBy, indexLock, version, answered, cacheVars>>

acquireRebuildIndexLock(b) ==
    /\ Rebuilding(b, "checked", IF indexLock = Free THEN "locked" ELSE "refused")
    /\ indexLock' = IF indexLock = Free THEN b ELSE indexLock
    /\ UnchangedByRebuild
    /\ UNCHANGED <<canon, leaseBy, version, answered, cacheVars>>

(* The lock's expires_at passes while its holder still works. *)
LockExpires ==
    /\ indexLock # Free
    /\ indexLock' = Free
    /\ UnchangedByRebuild
    /\ UNCHANGED <<canon, leaseBy, rebuild, version, answered, cacheVars>>

(* Mutant: only the Firestore lock guards a rebuild.                       *)
BeginWithoutLease(b) ==
    /\ rebuild[b].at = "locked"
    /\ rebuild' = [rebuild EXCEPT ![b] = [at |-> "writing", version |-> version + 1]]
    /\ leaseBy' = b /\ version' = version + 1
    /\ UnchangedByRebuild
    /\ UNCHANGED <<canon, indexLock, answered, cacheVars>>

(* BeginLegacyGenerationWrite: lease, then the manifest again. *)
BeginLegacyWrite(b) ==
    /\ rebuild[b].at = "locked"
    /\ IF leaseBy = Free /\ current = 0
       THEN /\ rebuild' = [rebuild EXCEPT ![b] = [at |-> "writing", version |-> version + 1]]
            /\ leaseBy' = b /\ version' = version + 1
       ELSE Rebuilding(b, "locked", "unlocking") /\ UNCHANGED <<leaseBy, version>>
    /\ UnchangedByRebuild
    /\ UNCHANGED <<canon, indexLock, answered, cacheVars>>

(* Rebuild writes the ID map and then the concepts; either write may fail. *)
WriteIDMap(b) ==
    /\ Rebuilding(b, "writing", "concepts")
    /\ canon' = [canon EXCEPT !["id_map"] = rebuild[b].version]
    /\ UnchangedByRebuild
    /\ UNCHANGED <<leaseBy, indexLock, version, answered, cacheVars>>

WriteConcepts(b) ==
    /\ Rebuilding(b, "concepts", "written")
    /\ canon' = [canon EXCEPT !["concepts"] = rebuild[b].version]
    /\ UnchangedByRebuild
    /\ UNCHANGED <<leaseBy, indexLock, version, answered, cacheVars>>

RebuildFails(b) ==
    /\ \E at \in {"writing", "concepts"} : Rebuilding(b, at, "unlocking")
    /\ leaseBy' = Free
    /\ UnchangedByRebuild
    /\ UNCHANGED <<canon, indexLock, version, answered, cacheVars>>

ReleaseLegacy(b) ==
    /\ Rebuilding(b, "written", "releasing")
    /\ leaseBy' = Free
    /\ UnchangedByRebuild
    /\ UNCHANGED <<canon, indexLock, version, answered, cacheVars>>

(* The field is deleted whoever wrote it. *)
releaseRebuildIndexLock(b) ==
    /\ \/ Rebuilding(b, "releasing", "routing")
       \/ Rebuilding(b, "unlocking", "refused")
    /\ indexLock' = Free
    /\ UnchangedByRebuild
    /\ UNCHANGED <<canon, leaseBy, version, answered, cacheVars>>

idRoutingCacheInvalidate(b) ==
    /\ Rebuilding(b, "routing", "lists")
    /\ routingMu = Free
    /\ routing' = [k \in Keys |-> Absent]
    /\ UnchangedByRebuild
    /\ UNCHANGED <<canon, leaseBy, indexLock, version, answered, lists, concepts,
                   routingMu>>

(* The list cache is emptied and the request answered. *)
listCacheInvalidate(b) ==
    /\ Rebuilding(b, "lists", "done")
    /\ lists' = [k \in Keys |-> Absent]
    /\ answered' = IF rebuild[b].version > answered THEN rebuild[b].version ELSE answered
    /\ UnchangedByRebuild
    /\ UNCHANGED <<canon, leaseBy, indexLock, version, routing, concepts, routingMu>>

-----------------------------------------------------------------------------

RebuildStep(b) ==
    \/ CheckManifest(b)
    \/ acquireRebuildIndexLock(b)
    \/ BeginLegacyWrite(b)
    \/ WriteIDMap(b)
    \/ WriteConcepts(b)
    \/ RebuildFails(b)
    \/ ReleaseLegacy(b)
    \/ releaseRebuildIndexLock(b)
    \/ idRoutingCacheInvalidate(b)
    \/ listCacheInvalidate(b)

ReadStep(r) ==
    \/ \E kind \in Kinds : Pin(r, kind)
    \/ LookupRouting(r)
    \/ StoreRouting(r)
    \/ GetPage(r)
    \/ ListSources(r)
    \/ StoreList(r)
    \/ LoadConcepts(r)
    \/ StoreConcepts(r)
    \/ ReadFails(r)

ReadsNext ==
    \/ \E r \in Readers : ReadStep(r)
    \/ \E b \in Rebuilders : RebuildStep(b)
    \/ LockExpires
    \/ PublishManifest
    \/ \E g \in 1 .. MaxManifests : LoseObject(g)

ReadsSpec == ReadsInit /\ [][ReadsNext]_readVars

-----------------------------------------------------------------------------
(* Properties *)

(* Pin, viewCacheKey: whatever a request has used, files it read and        *)
(* entries of the three caches alike, belongs to the one generation its     *)
(* view was pinned to, and to the canonical files if there was none.        *)
OneViewPerRequest ==
    \A r \in Readers : \A content \in request[r].used :
        content[1] = request[r].view

(* invalidateCachesAfterRebuild: once a rebuild was answered with success,  *)
(* no request is routed by an ID map older than that rebuild's.             *)
RoutingNotOlderThanAnswer ==
    routing[0] # Absent => routing[0][2] >= answered

(* BeginLegacyGenerationWrite: two rebuilds never write at the same time,   *)
(* although the Firestore lock expires under a slow one and is deleted by   *)
(* whoever ends first; and none writes beside a manifest.                   *)
RebuildsExclusive ==
    LET Writing == {b \in Rebuilders : rebuild[b].at \in {"writing", "concepts", "written"}}
    IN  /\ \A b, c \in Writing : b = c
        /\ Writing # {} => current = 0
=============================================================================
