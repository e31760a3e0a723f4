---------------------------- MODULE ContentProofs ----------------------------
(***************************************************************************)
(* What a project's content promises its readers and its owner: reads and  *)
(* index rebuilds, for every number of readers, rebuilds and manifests;    *)
(* how Synto's entities become the wiki's IDs, for every set of pages,     *)
(* entities and links and every sequence of runs and rebuilds; and what    *)
(* the worker promises about the vault, wherever a run fails or dies.      *)
(***************************************************************************)
EXTENDS IndexReads, ConceptIdentity, SyntoVault, SyntoIndex, SequenceTheorems, TLAPS

(* Reads and index rebuilds *)

Entries == (Keys \X Nat) \cup {Absent}

ReaderStages == {"new", "pinned", "routing", "routed", "listing", "loading",
                 "done", "failed"}

RebuildStages == {"new", "checked", "locked", "writing", "concepts", "written",
                  "releasing", "unlocking", "routing", "lists", "done", "refused"}

Reads == [at : ReaderStages, kind : Kinds, view : Keys,
          used : SUBSET (Keys \X Nat), loaded : Entries]

(* The part of the state's type that the arguments below need; who is about *)
(* to store something has loaded it.                                        *)
SharedType ==
    /\ current \in Keys
    /\ canon \in [Files -> Nat]
    /\ rebuild \in [Rebuilders -> [at : RebuildStages, version : Nat]]
    /\ version \in Nat /\ answered \in Nat
    /\ routing \in [Keys -> Entries]
    /\ lists \in [Keys -> Entries]
    /\ concepts \in [Keys -> Entries]

ReadsType ==
    /\ SharedType
    /\ request \in [Readers -> Reads]
    /\ \A r \in Readers : request[r].at \in {"routing", "listing", "loading"} =>
           request[r].loaded \in Keys \X Nat

Writers == {b \in Rebuilders : rebuild[b].at \in {"writing", "concepts", "written"}}

(* Who writes holds the lease, and no manifest appeared meanwhile.          *)
WriterHolds == \A b \in Writers : leaseBy = b /\ current = 0

(* An entry of a cache, and content about to become one, belongs to its key. *)
CachesByView ==
    /\ \A k \in Keys : /\ routing[k] # Absent => routing[k][1] = k
                       /\ lists[k] # Absent => lists[k][1] = k
                       /\ concepts[k] # Absent => concepts[k][1] = k
    /\ \A r \in Readers : request[r].at \in {"routing", "listing", "loading"} =>
           request[r].loaded[1] = request[r].view

(* A request uses nothing before its view is pinned.                        *)
NothingUnpinned == \A r \in Readers : request[r].at = "new" => request[r].used = {}

ViewInv == CachesByView /\ NothingUnpinned /\ OneViewPerRequest

(* The version a writer was given is the latest one, and the canonical ID   *)
(* map is as new as every rebuild that has got past writing it.             *)
VersionsOrdered ==
    /\ answered <= canon["id_map"] /\ canon["id_map"] <= version
    /\ \A b \in Rebuilders : rebuild[b].version <= version
    /\ \A b \in Writers : rebuild[b].version = version
    /\ \A b \in Rebuilders :
           rebuild[b].at \in {"concepts", "written", "releasing", "routing", "lists"} =>
               rebuild[b].version <= canon["id_map"]

(* A reader between lookup and store holds the mutex; what it is about to   *)
(* store, and what is stored, is as new as every rebuild that has           *)
(* invalidated the routing cache.                                           *)
AtLeast(content, v) == content[2] \in Nat /\ content[2] >= v

FillsInOrder ==
    /\ \A r \in Readers : request[r].at = "routing" =>
           /\ routingMu = r
           /\ request[r].view = 0 =>
                  /\ AtLeast(request[r].loaded, answered)
                  /\ \A b \in Rebuilders : rebuild[b].at = "lists" =>
                         AtLeast(request[r].loaded, rebuild[b].version)
    /\ routing[0] # Absent =>
           /\ AtLeast(routing[0], answered)
           /\ \A b \in Rebuilders : rebuild[b].at = "lists" =>
                  AtLeast(routing[0], rebuild[b].version)

RoutingInv == WriterHolds /\ VersionsOrdered /\ FillsInOrder

-----------------------------------------------------------------------------
(* Types *)

(* What a view resolves a file to.                                          *)
LEMMA Resolved ==
    ASSUME ReadsType, NEW v \in Keys, NEW f \in Files
    PROVE  /\ resolveReadPath(v, f) \in Keys \X Nat
           /\ resolveReadPath(v, f)[1] = v
           /\ v = 0 => resolveReadPath(v, f)[2] = canon[f]
BY ReadsAssumption DEF resolveReadPath, ReadsType, SharedType, Keys

(* What a step of a request changes of its record, and of no other.         *)
LEMMA StepShape ==
    ASSUME ReadsType, NEW r \in Readers, NEW at \in ReaderStages,
           NEW used \in SUBSET (Keys \X Nat), NEW loaded \in Entries,
           at \in {"routing", "listing", "loading"} => loaded \in Keys \X Nat,
           Step(r, at, used, loaded)
    PROVE  /\ request' \in [Readers -> Reads]
           /\ request'[r].at = at /\ request'[r].view = request[r].view
           /\ request'[r].used = request[r].used \cup used
           /\ request'[r].loaded = loaded
           /\ \A q \in Readers : q # r => request'[q] = request[q]
           /\ \A q \in Readers : request'[q].at \in {"routing", "listing", "loading"} =>
                  request'[q].loaded \in Keys \X Nat
<1> DEFINE next == [request[r] EXCEPT !.at = at, !.used = @ \cup used, !.loaded = loaded]
<1>1. request[r] \in Reads /\ request \in [Readers -> Reads]
  BY DEF ReadsType
<1>2. request' = [request EXCEPT ![r] = next]
  BY <1>1 DEF Step
<1>3. /\ next \in Reads /\ next.at = at /\ next.view = request[r].view
      /\ next.used = request[r].used \cup used /\ next.loaded = loaded
  BY <1>1 DEF Reads
<1> HIDE DEF next
<1> QED
  BY <1>1, <1>2, <1>3 DEF ReadsType

LEMMA PinShape ==
    ASSUME ReadsType, NEW r \in Readers, NEW kind \in Kinds, Pin(r, kind)
    PROVE  /\ request' \in [Readers -> Reads]
           /\ request'[r].at = "pinned" /\ request'[r].view = current
           /\ request'[r].used = request[r].used
           /\ \A q \in Readers : q # r => request'[q] = request[q]
           /\ \A q \in Readers : request'[q].at \in {"routing", "listing", "loading"} =>
                  request'[q].loaded \in Keys \X Nat
<1> DEFINE next == [request[r] EXCEPT !.at = "pinned", !.kind = kind, !.view = current]
<1>1. request[r] \in Reads /\ request \in [Readers -> Reads] /\ current \in Keys
  BY DEF ReadsType, SharedType
<1>2. request' = [request EXCEPT ![r] = next]
  BY <1>1 DEF Pin
<1>3. /\ next \in Reads /\ next.at = "pinned" /\ next.view = current
      /\ next.used = request[r].used
  BY <1>1 DEF Reads, ReaderStages
<1> HIDE DEF next
<1> QED
  BY <1>1, <1>2, <1>3 DEF ReadsType

LEMMA ReadsTypeInit == ReadsInit => ReadsType
BY ReadsAssumption DEF ReadsInit, ReadsType, SharedType, Reads, Keys, Entries, NewRequest,
   ReaderStages, RebuildStages, Files, Kinds, Absent

(* What a step of a rebuild changes of its record, and of no other.         *)
LEMMA RebuildShape ==
    ASSUME ReadsType, NEW b \in Rebuilders, NEW from, NEW to \in RebuildStages,
           Rebuilding(b, from, to)
    PROVE  /\ rebuild' \in [Rebuilders -> [at : RebuildStages, version : Nat]]
           /\ rebuild[b].at = from
           /\ rebuild'[b].at = to /\ rebuild'[b].version = rebuild[b].version
           /\ \A c \in Rebuilders : c # b => rebuild'[c] = rebuild[c]
BY DEF Rebuilding, ReadsType, SharedType

LEMMA ReadStepType ==
    ASSUME ReadsType, NEW r \in Readers, ReadStep(r)
    PROVE  ReadsType'
<1>0. /\ request[r].view \in Keys
      /\ routing \in [Keys -> Entries] /\ lists \in [Keys -> Entries]
      /\ concepts \in [Keys -> Entries]
  BY DEF ReadsType, SharedType, Reads
<1> DEFINE RequestTyped ==
        /\ request' \in [Readers -> Reads]
        /\ \A q \in Readers : request'[q].at \in {"routing", "listing", "loading"} =>
               request'[q].loaded \in Keys \X Nat
<1> USE DEF viewCacheKey
<1>1. ASSUME NEW kind \in Kinds, Pin(r, kind) PROVE ReadsType'
  BY <1>1, PinShape DEF Pin, ReadsType, SharedType, cacheVars
<1>2. CASE LookupRouting(r)
  <2>1. CASE routing[request[r].view] # Absent
    <3>1. Step(r, "routed", {routing[request[r].view]}, Absent)
      BY <1>2, <2>1 DEF LookupRouting
    <3>2. {routing[request[r].view]} \in SUBSET (Keys \X Nat)
      BY <1>0, <2>1 DEF Entries
    <3>3. RequestTyped
      BY <3>1, <3>2, StepShape DEF Entries, ReaderStages
    <3> QED
      BY <1>2, <2>1, <3>3 DEF LookupRouting, ReadsType, SharedType
  <2>2. CASE routing[request[r].view] = Absent
    <3>1. Step(r, "routing", {}, resolveReadPath(request[r].view, "id_map"))
      BY <1>2, <2>2 DEF LookupRouting
    <3>2. resolveReadPath(request[r].view, "id_map") \in Keys \X Nat
      BY <1>0, Resolved DEF Files
    <3> QED
      BY <1>2, <3>1, <3>2, StepShape
         DEF LookupRouting, ReadsType, SharedType, Entries, ReaderStages
  <2> QED
    BY <2>1, <2>2
<1>3. CASE StoreRouting(r)
  <2>1. request[r].loaded \in Keys \X Nat
    BY <1>3 DEF StoreRouting, At, ReadsType
  <2>2. {request[r].loaded} \in SUBSET (Keys \X Nat)
    BY <2>1
  <2>3. RequestTyped
    BY <1>3, <2>2, StepShape DEF StoreRouting, Entries, ReaderStages
  <2> QED
    BY <1>0, <1>3, <2>1, <2>3 DEF StoreRouting, ReadsType, SharedType, Entries
<1>4. CASE GetPage(r)
  <2>1. resolveReadPath(request[r].view, "pages") \in Keys \X Nat
    BY <1>0, Resolved DEF Files
  <2>2. {resolveReadPath(request[r].view, "pages")} \in SUBSET (Keys \X Nat)
    BY <2>1
  <2>3. RequestTyped
    BY <1>4, <2>2, StepShape DEF GetPage, Entries, ReaderStages
  <2> QED
    BY <1>4, <2>3 DEF GetPage, ReadsType, SharedType, cacheVars
<1>5. CASE ListSources(r)
  <2>1. /\ resolveReadPath(request[r].view, "pages") \in Keys \X Nat
        /\ resolveReadPath(request[r].view, "id_map") \in Keys \X Nat
    BY <1>0, Resolved DEF Files
  <2>2. CASE lists[request[r].view] # Absent
    <3>1. {resolveReadPath(request[r].view, "id_map"), lists[request[r].view]}
              \in SUBSET (Keys \X Nat)
      BY <1>0, <2>1, <2>2 DEF Entries
    <3>2. RequestTyped
      BY <1>5, <2>2, <3>1, StepShape DEF ListSources, Entries, ReaderStages
    <3> QED
      BY <1>5, <3>2 DEF ListSources, ReadsType, SharedType, cacheVars
  <2>3. CASE lists[request[r].view] = Absent
    BY <1>5, <2>1, <2>3, StepShape
       DEF ListSources, ReadsType, SharedType, Entries, ReaderStages, cacheVars
  <2> QED
    BY <2>2, <2>3
<1>6. CASE StoreList(r)
  <2>1. request[r].loaded \in Keys \X Nat
    BY <1>6 DEF StoreList, At, ReadsType
  <2>2. {request[r].loaded} \in SUBSET (Keys \X Nat)
    BY <2>1
  <2>3. RequestTyped
    BY <1>6, <2>2, StepShape DEF StoreList, Entries, ReaderStages
  <2> QED
    BY <1>0, <1>6, <2>1, <2>3 DEF StoreList, ReadsType, SharedType, Entries
<1>7. CASE LoadConcepts(r)
  <2>1. CASE concepts[request[r].view] # Absent
    <3>1. {concepts[request[r].view]} \in SUBSET (Keys \X Nat)
      BY <1>0, <2>1 DEF Entries
    <3>2. RequestTyped
      BY <1>7, <2>1, <3>1, StepShape DEF LoadConcepts, Entries, ReaderStages
    <3> QED
      BY <1>7, <3>2 DEF LoadConcepts, ReadsType, SharedType, cacheVars
  <2>2. CASE concepts[request[r].view] = Absent
    <3>1. PICK f \in {"concepts", "pages"} :
              Step(r, "loading", {}, resolveReadPath(request[r].view, f))
      BY <1>7, <2>2 DEF LoadConcepts
    <3>2. resolveReadPath(request[r].view, f) \in Keys \X Nat
      BY <1>0, Resolved DEF Files
    <3> QED
      BY <1>7, <3>1, <3>2, StepShape
         DEF LoadConcepts, ReadsType, SharedType, Entries, ReaderStages, cacheVars
  <2> QED
    BY <2>1, <2>2
<1>8. CASE StoreConcepts(r)
  <2>1. request[r].loaded \in Keys \X Nat
    BY <1>8 DEF StoreConcepts, At, ReadsType
  <2>2. {request[r].loaded} \in SUBSET (Keys \X Nat)
    BY <2>1
  <2>3. RequestTyped
    BY <1>8, <2>2, StepShape DEF StoreConcepts, Entries, ReaderStages
  <2> QED
    BY <1>0, <1>8, <2>1, <2>3 DEF StoreConcepts, ReadsType, SharedType, Entries
<1>9. CASE ReadFails(r)
  BY <1>9, StepShape DEF ReadFails, ReadsType, SharedType, Entries, ReaderStages, cacheVars
<1> QED
  BY <1>1, <1>2, <1>3, <1>4, <1>5, <1>6, <1>7, <1>8, <1>9 DEF ReadStep

LEMMA RebuildStepType ==
    ASSUME ReadsType, NEW b \in Rebuilders, RebuildStep(b)
    PROVE  ReadsType'
<1> USE DEF UnchangedByRebuild
<1>0. /\ rebuild \in [Rebuilders -> [at : RebuildStages, version : Nat]]
      /\ canon \in [Files -> Nat] /\ version \in Nat /\ answered \in Nat
  BY DEF ReadsType, SharedType
<1>1. CASE CheckManifest(b)
  BY <1>1, RebuildShape DEF CheckManifest, ReadsType, SharedType, RebuildStages, cacheVars
<1>2. CASE acquireRebuildIndexLock(b)
  BY <1>2, RebuildShape
     DEF acquireRebuildIndexLock, ReadsType, SharedType, RebuildStages, cacheVars
<1>3. CASE BeginLegacyWrite(b)
  <2>1. CASE leaseBy = Free /\ current = 0
    BY <1>0, <1>3, <2>1
       DEF BeginLegacyWrite, ReadsType, SharedType, RebuildStages, cacheVars
  <2>2. CASE ~(leaseBy = Free /\ current = 0)
    BY <1>3, <2>2, RebuildShape
       DEF BeginLegacyWrite, ReadsType, SharedType, RebuildStages, cacheVars
  <2> QED
    BY <2>1, <2>2
<1>4. CASE WriteIDMap(b)
  BY <1>0, <1>4, RebuildShape
     DEF WriteIDMap, ReadsType, SharedType, RebuildStages, cacheVars, Files
<1>5. CASE WriteConcepts(b)
  BY <1>0, <1>5, RebuildShape
     DEF WriteConcepts, ReadsType, SharedType, RebuildStages, cacheVars, Files
<1>6. CASE RebuildFails(b)
  BY <1>6, RebuildShape DEF RebuildFails, ReadsType, SharedType, RebuildStages, cacheVars
<1>7. CASE ReleaseLegacy(b)
  BY <1>7, RebuildShape DEF ReleaseLegacy, ReadsType, SharedType, RebuildStages, cacheVars
<1>8. CASE releaseRebuildIndexLock(b)
  BY <1>8, RebuildShape
     DEF releaseRebuildIndexLock, ReadsType, SharedType, RebuildStages, cacheVars
<1>9. CASE idRoutingCacheInvalidate(b)
  BY <1>9, RebuildShape
     DEF idRoutingCacheInvalidate, ReadsType, SharedType, RebuildStages, Entries
<1>10. CASE listCacheInvalidate(b)
  BY <1>0, <1>10, RebuildShape
     DEF listCacheInvalidate, ReadsType, SharedType, RebuildStages, Entries
<1> QED
  BY <1>1, <1>2, <1>3, <1>4, <1>5, <1>6, <1>7, <1>8, <1>9, <1>10 DEF RebuildStep

LEMMA ReadsTypeStep ==
    ReadsType /\ [ReadsNext]_readVars => ReadsType'
<1> SUFFICES ASSUME ReadsType, [ReadsNext]_readVars
             PROVE  ReadsType'
  OBVIOUS
<1>1. CASE LockExpires
  BY <1>1 DEF LockExpires, UnchangedByRebuild, ReadsType, SharedType, cacheVars
<1>2. CASE PublishManifest
  BY <1>2, ReadsAssumption DEF PublishManifest, ReadsType, SharedType, cacheVars, Keys
<1>3. ASSUME NEW g \in 1 .. MaxManifests, LoseObject(g)
      PROVE  ReadsType'
  BY <1>3 DEF LoseObject, ReadsType, SharedType, cacheVars
<1>4. CASE UNCHANGED readVars
  BY <1>4 DEF readVars, ReadsType, SharedType
<1> QED
  BY <1>1, <1>2, <1>3, <1>4, ReadStepType, RebuildStepType DEF ReadsNext

LEMMA ReadStepFrame ==
    ASSUME NEW r \in Readers, ReadStep(r)
    PROVE  UNCHANGED <<current, canon, leaseBy, rebuild, version, answered>>
BY DEF ReadStep, Pin, LookupRouting, StoreRouting, GetPage, ListSources, StoreList,
       LoadConcepts, StoreConcepts, ReadFails

-----------------------------------------------------------------------------
(* Rebuilds exclude each other *)

LEMMA WriterStep ==
    ReadsType /\ WriterHolds /\ [ReadsNext]_readVars => WriterHolds'
<1> SUFFICES ASSUME ReadsType, WriterHolds, [ReadsNext]_readVars
             PROVE  WriterHolds'
  OBVIOUS
<1> USE DEF WriterHolds, Writers
<1>1. ASSUME NEW r \in Readers, ReadStep(r)
      PROVE  WriterHolds'
  BY <1>1, ReadStepFrame
<1>2. ASSUME NEW b \in Rebuilders, RebuildStep(b)
      PROVE  WriterHolds'
  <2> USE DEF UnchangedByRebuild
  <2>1. CASE CheckManifest(b)
    BY <2>1, RebuildShape DEF CheckManifest, RebuildStages
  <2>2. CASE acquireRebuildIndexLock(b)
    BY <2>2, RebuildShape DEF acquireRebuildIndexLock, RebuildStages
  <2>3. CASE BeginLegacyWrite(b)
    <3>1. CASE leaseBy = Free /\ current = 0
      <4>1. \A c \in Rebuilders : c # b => rebuild'[c] = rebuild[c]
        BY <2>3, <3>1 DEF BeginLegacyWrite, ReadsType, SharedType
      <4>2. Writers = {}
        BY <3>1, ReadsAssumption
      <4> QED
        BY <2>3, <3>1, <4>1, <4>2 DEF BeginLegacyWrite
    <3>2. CASE ~(leaseBy = Free /\ current = 0)
      BY <2>3, <3>2, RebuildShape DEF BeginLegacyWrite, RebuildStages
    <3> QED
      BY <3>1, <3>2
  <2>4. CASE WriteIDMap(b)
    BY <2>4, RebuildShape DEF WriteIDMap, RebuildStages
  <2>5. CASE WriteConcepts(b)
    BY <2>5, RebuildShape DEF WriteConcepts, RebuildStages
  <2>6. CASE RebuildFails(b)
    BY <2>6, RebuildShape DEF RebuildFails, RebuildStages
  <2>7. CASE ReleaseLegacy(b)
    BY <2>7, RebuildShape DEF ReleaseLegacy, RebuildStages
  <2>8. CASE releaseRebuildIndexLock(b)
    BY <2>8, RebuildShape DEF releaseRebuildIndexLock, RebuildStages
  <2>9. CASE idRoutingCacheInvalidate(b)
    BY <2>9, RebuildShape DEF idRoutingCacheInvalidate, RebuildStages
  <2>10. CASE listCacheInvalidate(b)
    BY <2>10, RebuildShape DEF listCacheInvalidate, RebuildStages
  <2> QED
    BY <1>2, <2>1, <2>2, <2>3, <2>4, <2>5, <2>6, <2>7, <2>8, <2>9, <2>10 DEF RebuildStep
<1>3. CASE LockExpires
  BY <1>3 DEF LockExpires, UnchangedByRebuild
<1>4. CASE PublishManifest
  BY <1>4, ReadsAssumption DEF PublishManifest
<1>5. ASSUME NEW g \in 1 .. MaxManifests, LoseObject(g)
      PROVE  WriterHolds'
  BY <1>5 DEF LoseObject
<1>6. CASE UNCHANGED readVars
  BY <1>6 DEF readVars
<1> QED
  BY <1>1, <1>2, <1>3, <1>4, <1>5, <1>6 DEF ReadsNext

(* BeginLegacyGenerationWrite: however the Firestore lock expires and is    *)
(* deleted by others, no two rebuilds write at a time, and none beside a    *)
(* manifest.                                                                *)
THEOREM RebuildsExclude == ReadsSpec => []RebuildsExclusive
<1>1. ReadsInit => WriterHolds
  BY DEF ReadsInit, WriterHolds, Writers
<1>2. WriterHolds => RebuildsExclusive
  BY DEF WriterHolds, Writers, RebuildsExclusive
<1> QED
  BY <1>1, <1>2, ReadsTypeInit, ReadsTypeStep, WriterStep, PTL DEF ReadsSpec

-----------------------------------------------------------------------------
(* One view per request *)

(* A step that uses content of the request's own view, and stores at most   *)
(* what the request has loaded under its own key, keeps the invariant.      *)
LEMMA StepView ==
    ASSUME ReadsType, ViewInv, NEW r \in Readers, NEW at \in ReaderStages,
           NEW used \in SUBSET (Keys \X Nat), NEW loaded \in Entries,
           at \in {"routing", "listing", "loading"} =>
               loaded \in Keys \X Nat /\ loaded[1] = request[r].view,
           at # "new", \A c \in used : c[1] = request[r].view,
           Step(r, at, used, loaded),
           \/ UNCHANGED <<routing, lists, concepts>>
           \/ /\ request[r].at \in {"routing", "listing", "loading"}
              /\ routing' \in {routing, [routing EXCEPT ![request[r].view] = request[r].loaded]}
              /\ lists' \in {lists, [lists EXCEPT ![request[r].view] = request[r].loaded]}
              /\ concepts' \in {concepts, [concepts EXCEPT ![request[r].view] = request[r].loaded]}
    PROVE  ViewInv'
<1>1. /\ request'[r].at = at /\ request'[r].view = request[r].view
      /\ request'[r].used = request[r].used \cup used
      /\ request'[r].loaded = loaded
      /\ \A q \in Readers : q # r => request'[q] = request[q]
  BY StepShape
<1>2. /\ request[r].view \in Keys /\ routing \in [Keys -> Entries]
      /\ lists \in [Keys -> Entries] /\ concepts \in [Keys -> Entries]
  BY DEF ReadsType, SharedType, Reads
<1>3. request[r].at \in {"routing", "listing", "loading"} =>
          request[r].loaded[1] = request[r].view
  BY DEF ViewInv, CachesByView
<1>4. ASSUME NEW k \in Keys
      PROVE  /\ routing'[k] # Absent => routing'[k][1] = k
             /\ lists'[k] # Absent => lists'[k][1] = k
             /\ concepts'[k] # Absent => concepts'[k][1] = k
  <2>1. /\ routing[k] # Absent => routing[k][1] = k
        /\ lists[k] # Absent => lists[k][1] = k
        /\ concepts[k] # Absent => concepts[k][1] = k
    BY DEF ViewInv, CachesByView
  <2>2. routing'[k] = routing[k] \/ (k = request[r].view /\ routing'[k][1] = k)
    BY <1>2, <1>3
  <2>3. lists'[k] = lists[k] \/ (k = request[r].view /\ lists'[k][1] = k)
    BY <1>2, <1>3
  <2>4. concepts'[k] = concepts[k] \/ (k = request[r].view /\ concepts'[k][1] = k)
    BY <1>2, <1>3
  <2> QED
    BY <2>1, <2>2, <2>3, <2>4
<1>5. ASSUME NEW q \in Readers
      PROVE  /\ request'[q].at \in {"routing", "listing", "loading"} =>
                    request'[q].loaded[1] = request'[q].view
             /\ request'[q].at = "new" => request'[q].used = {}
             /\ \A c \in request'[q].used : c[1] = request'[q].view
  <2>1. CASE q = r
    BY <1>1, <2>1 DEF ViewInv, OneViewPerRequest
  <2>2. CASE q # r
    BY <1>1, <2>2 DEF ViewInv, OneViewPerRequest, CachesByView, NothingUnpinned
  <2> QED
    BY <2>1, <2>2
<1> QED
  BY <1>4, <1>5 DEF ViewInv, CachesByView, NothingUnpinned, OneViewPerRequest

LEMMA ReadStepView ==
    ASSUME ReadsType, ViewInv, NEW r \in Readers, ReadStep(r)
    PROVE  ViewInv'
<1> DEFINE view == request[r].view
           Read(f) == resolveReadPath(view, f)
<1>0. /\ view \in Keys /\ routing \in [Keys -> Entries]
      /\ lists \in [Keys -> Entries] /\ concepts \in [Keys -> Entries]
  BY DEF ReadsType, SharedType, Reads
<1>r. ASSUME NEW f \in Files
      PROVE  Read(f) \in Keys \X Nat /\ Read(f)[1] = view
  BY <1>0, Resolved
<1>c. ASSUME NEW cache \in {routing, lists, concepts}, cache[view] # Absent
      PROVE  cache[view] \in Keys \X Nat /\ cache[view][1] = view
  BY <1>0, <1>c DEF Entries, ViewInv, CachesByView
<1>l. request[r].at \in {"routing", "listing", "loading"} =>
          request[r].loaded \in Keys \X Nat /\ request[r].loaded[1] = view
  BY DEF ReadsType, ViewInv, CachesByView
<1>s. {"pinned", "routing", "routed", "listing", "loading", "done", "failed"}
          \subseteq ReaderStages /\ Absent \in Entries /\ Keys \X Nat \subseteq Entries
  BY DEF ReaderStages, Entries
<1>1. ASSUME NEW kind \in Kinds, Pin(r, kind) PROVE ViewInv'
  <2>1. request[r].used = {}
    BY <1>1 DEF Pin, ViewInv, NothingUnpinned
  <2>2. ASSUME NEW q \in Readers
        PROVE  /\ request'[q].at \in {"routing", "listing", "loading"} =>
                      request'[q].loaded[1] = request'[q].view
               /\ request'[q].at = "new" => request'[q].used = {}
               /\ \A c \in request'[q].used : c[1] = request'[q].view
    <3>1. CASE q = r
      BY <1>1, <2>1, <3>1, PinShape
    <3>2. CASE q # r
      <4>1. request'[q] = request[q]
        BY <1>1, <3>2, PinShape
      <4> QED
        BY <4>1 DEF ViewInv, OneViewPerRequest, CachesByView, NothingUnpinned
    <3> QED
      BY <3>1, <3>2
  <2> QED
    BY <1>1, <2>2 DEF Pin, cacheVars, ViewInv, CachesByView, NothingUnpinned, OneViewPerRequest
<1>2. CASE LookupRouting(r)
  <2>1. CASE routing[view] # Absent
    BY <1>2, <1>c, <1>s, <2>1, StepView DEF LookupRouting, viewCacheKey
  <2>2. CASE routing[view] = Absent
    <3>1. Read("id_map") \in Keys \X Nat /\ Read("id_map")[1] = view
      BY <1>r DEF Files
    <3> QED
      BY <1>2, <1>s, <2>2, <3>1, StepView DEF LookupRouting, viewCacheKey
  <2> QED
    BY <2>1, <2>2
<1>3. CASE StoreRouting(r)
  <2>1. request[r].at = "routing"
    BY <1>3 DEF StoreRouting, At
  <2>2. /\ {request[r].loaded} \in SUBSET (Keys \X Nat)
        /\ \A c \in {request[r].loaded} : c[1] = view
    BY <1>l, <2>1
  <2>3. Step(r, "routed", {request[r].loaded}, Absent)
    BY <1>3 DEF StoreRouting
  <2>4. /\ routing' \in {routing, [routing EXCEPT ![view] = request[r].loaded]}
        /\ lists' \in {lists, [lists EXCEPT ![view] = request[r].loaded]}
        /\ concepts' \in {concepts, [concepts EXCEPT ![view] = request[r].loaded]}
    BY <1>3 DEF StoreRouting, viewCacheKey
  <2> QED
    BY <1>s, <2>1, <2>2, <2>3, <2>4, StepView
<1>4. CASE GetPage(r)
  <2>1. Read("pages") \in Keys \X Nat /\ Read("pages")[1] = view
    BY <1>r DEF Files
  <2> QED
    BY <1>4, <1>s, <2>1, StepView DEF GetPage, cacheVars
<1>5. CASE ListSources(r)
  <2>1. /\ Read("pages") \in Keys \X Nat /\ Read("pages")[1] = view
        /\ Read("id_map") \in Keys \X Nat /\ Read("id_map")[1] = view
    BY <1>r DEF Files
  <2>2. CASE lists[view] # Absent
    BY <1>5, <1>c, <1>s, <2>1, <2>2, StepView DEF ListSources, viewCacheKey, cacheVars
  <2>3. CASE lists[view] = Absent
    BY <1>5, <1>s, <2>1, <2>3, StepView DEF ListSources, viewCacheKey, cacheVars
  <2> QED
    BY <2>2, <2>3
<1>6. CASE StoreList(r)
  <2>1. request[r].at = "listing"
    BY <1>6 DEF StoreList, At
  <2>2. /\ {request[r].loaded} \in SUBSET (Keys \X Nat)
        /\ \A c \in {request[r].loaded} : c[1] = view
    BY <1>l, <2>1
  <2>3. Step(r, "done", {request[r].loaded}, Absent)
    BY <1>6 DEF StoreList
  <2>4. /\ routing' \in {routing, [routing EXCEPT ![view] = request[r].loaded]}
        /\ lists' \in {lists, [lists EXCEPT ![view] = request[r].loaded]}
        /\ concepts' \in {concepts, [concepts EXCEPT ![view] = request[r].loaded]}
    BY <1>6 DEF StoreList, viewCacheKey
  <2> QED
    BY <1>s, <2>1, <2>2, <2>3, <2>4, StepView
<1>7. CASE LoadConcepts(r)
  <2>1. CASE concepts[view] # Absent
    BY <1>7, <1>c, <1>s, <2>1, StepView DEF LoadConcepts, viewCacheKey, cacheVars
  <2>2. CASE concepts[view] = Absent
    <3>1. PICK f \in {"concepts", "pages"} : Step(r, "loading", {}, Read(f))
      BY <1>7, <2>2 DEF LoadConcepts, viewCacheKey
    <3>2. Read(f) \in Keys \X Nat /\ Read(f)[1] = view
      BY <1>r DEF Files
    <3> QED
      BY <1>7, <1>s, <3>1, <3>2, StepView DEF LoadConcepts, cacheVars
  <2> QED
    BY <2>1, <2>2
<1>8. CASE StoreConcepts(r)
  <2>1. request[r].at = "loading"
    BY <1>8 DEF StoreConcepts, At
  <2>2. /\ {request[r].loaded} \in SUBSET (Keys \X Nat)
        /\ \A c \in {request[r].loaded} : c[1] = view
    BY <1>l, <2>1
  <2>3. Step(r, "done", {request[r].loaded}, Absent)
    BY <1>8 DEF StoreConcepts
  <2>4. /\ routing' \in {routing, [routing EXCEPT ![view] = request[r].loaded]}
        /\ lists' \in {lists, [lists EXCEPT ![view] = request[r].loaded]}
        /\ concepts' \in {concepts, [concepts EXCEPT ![view] = request[r].loaded]}
    BY <1>8 DEF StoreConcepts, viewCacheKey
  <2> QED
    BY <1>s, <2>1, <2>2, <2>3, <2>4, StepView
<1>9. CASE ReadFails(r)
  BY <1>9, <1>s, StepView DEF ReadFails, cacheVars
<1> QED
  BY <1>1, <1>2, <1>3, <1>4, <1>5, <1>6, <1>7, <1>8, <1>9 DEF ReadStep

(* Rebuilds and other writers leave the requests alone and only empty       *)
(* caches.                                                                  *)
LEMMA OtherStepView ==
    ASSUME ReadsType, ViewInv, UNCHANGED request,
           routing' \in {routing, [k \in Keys |-> Absent]},
           lists' \in {lists, [k \in Keys |-> Absent]}, concepts' = concepts
    PROVE  ViewInv'
BY DEF ViewInv, CachesByView, NothingUnpinned, OneViewPerRequest

LEMMA ViewStep ==
    ReadsType /\ ViewInv /\ [ReadsNext]_readVars => ViewInv'
<1> SUFFICES ASSUME ReadsType, ViewInv, [ReadsNext]_readVars
             PROVE  ViewInv'
  OBVIOUS
<1>1. ASSUME NEW b \in Rebuilders, RebuildStep(b)
      PROVE  ViewInv'
  BY <1>1, OtherStepView
     DEF RebuildStep, CheckManifest, acquireRebuildIndexLock, BeginLegacyWrite, WriteIDMap,
         WriteConcepts, RebuildFails, ReleaseLegacy, releaseRebuildIndexLock,
         idRoutingCacheInvalidate, listCacheInvalidate, UnchangedByRebuild, cacheVars
<1>2. CASE LockExpires \/ PublishManifest \/ UNCHANGED readVars
            \/ \E g \in 1 .. MaxManifests : LoseObject(g)
  BY <1>2, OtherStepView
     DEF LockExpires, PublishManifest, LoseObject, readVars, UnchangedByRebuild, cacheVars
<1> QED
  BY <1>1, <1>2, ReadStepView DEF ReadsNext

(* Pin, viewCacheKey: a request never combines files or cache entries of    *)
(* two generations, whatever is published, rebuilt or cached meanwhile.     *)
THEOREM ViewsDoNotMix == ReadsSpec => []OneViewPerRequest
<1>1. ReadsInit => ViewInv
  BY DEF ReadsInit, ViewInv, CachesByView, NothingUnpinned, OneViewPerRequest, NewRequest
<1>2. ViewInv => OneViewPerRequest
  BY DEF ViewInv
<1> QED
  BY <1>1, <1>2, ReadsTypeInit, ReadsTypeStep, ViewStep, PTL DEF ReadsSpec

-----------------------------------------------------------------------------
(* The routing cache *)

LEMMA VersionStep ==
    ReadsType /\ WriterHolds /\ VersionsOrdered /\ [ReadsNext]_readVars => VersionsOrdered'
<1> SUFFICES ASSUME ReadsType, WriterHolds, VersionsOrdered, [ReadsNext]_readVars
             PROVE  VersionsOrdered'
  OBVIOUS
<1>0. /\ rebuild \in [Rebuilders -> [at : RebuildStages, version : Nat]]
      /\ canon \in [Files -> Nat] /\ version \in Nat /\ answered \in Nat
  BY DEF ReadsType, SharedType
<1> USE DEF VersionsOrdered, Writers
<1>1. ASSUME NEW r \in Readers, ReadStep(r)
      PROVE  VersionsOrdered'
  BY <1>1, ReadStepFrame
<1>2. ASSUME NEW b \in Rebuilders, RebuildStep(b)
      PROVE  VersionsOrdered'
  <2>1. CASE CheckManifest(b)
    BY <2>1, RebuildShape DEF CheckManifest, RebuildStages
  <2>2. CASE acquireRebuildIndexLock(b)
    BY <2>2, RebuildShape DEF acquireRebuildIndexLock, RebuildStages
  <2>3. CASE BeginLegacyWrite(b)
    <3>1. CASE leaseBy = Free /\ current = 0
      <4>1. Writers = {}
        BY <3>1, ReadsAssumption DEF WriterHolds
      <4>2. /\ \A c \in Rebuilders : c # b => rebuild'[c] = rebuild[c]
            /\ rebuild'[b].at = "writing" /\ rebuild'[b].version = version + 1
            /\ version' = version + 1 /\ UNCHANGED <<canon, answered>>
        BY <1>0, <2>3, <3>1 DEF BeginLegacyWrite
      <4> QED
        BY <1>0, <4>1, <4>2 DEF Files
    <3>2. CASE ~(leaseBy = Free /\ current = 0)
      BY <2>3, <3>2, RebuildShape DEF BeginLegacyWrite, RebuildStages
    <3> QED
      BY <3>1, <3>2
  <2>4. CASE WriteIDMap(b)
    <3>1. /\ rebuild[b].at = "writing" /\ rebuild'[b].at = "concepts"
          /\ rebuild'[b].version = rebuild[b].version
          /\ \A c \in Rebuilders : c # b => rebuild'[c] = rebuild[c]
      BY <2>4, RebuildShape DEF WriteIDMap, RebuildStages
    <3>2. rebuild[b].version = version /\ canon'["id_map"] = version
      BY <1>0, <2>4, <3>1 DEF WriteIDMap, Files
    <3>3. UNCHANGED <<version, answered>>
      BY <2>4 DEF WriteIDMap
    <3> QED
      BY <1>0, <3>1, <3>2, <3>3 DEF Files
  <2>5. CASE WriteConcepts(b)
    <3>1. canon'["id_map"] = canon["id_map"]
      BY <1>0, <2>5 DEF WriteConcepts, Files
    <3> QED
      BY <2>5, <3>1, RebuildShape DEF WriteConcepts, RebuildStages
  <2>6. CASE RebuildFails(b)
    BY <2>6, RebuildShape DEF RebuildFails, RebuildStages
  <2>7. CASE ReleaseLegacy(b)
    BY <2>7, RebuildShape DEF ReleaseLegacy, RebuildStages
  <2>8. CASE releaseRebuildIndexLock(b)
    BY <2>8, RebuildShape DEF releaseRebuildIndexLock, RebuildStages
  <2>9. CASE idRoutingCacheInvalidate(b)
    BY <2>9, RebuildShape DEF idRoutingCacheInvalidate, RebuildStages
  <2>10. CASE listCacheInvalidate(b)
    BY <2>10, RebuildShape DEF listCacheInvalidate, RebuildStages
  <2> QED
    BY <1>2, <2>1, <2>2, <2>3, <2>4, <2>5, <2>6, <2>7, <2>8, <2>9, <2>10 DEF RebuildStep
<1>3. CASE LockExpires \/ PublishManifest \/ UNCHANGED readVars
            \/ \E g \in 1 .. MaxManifests : LoseObject(g)
  BY <1>3 DEF LockExpires, PublishManifest, LoseObject, readVars
<1> QED
  BY <1>1, <1>2, <1>3 DEF ReadsNext

(* A rebuild's step that neither invalidates nor answers keeps every fill   *)
(* in order.                                                                *)
LEMMA FillsFrame ==
    ASSUME FillsInOrder, UNCHANGED <<request, routing, routingMu, answered>>,
           \A b \in Rebuilders : rebuild'[b].at = "lists" => rebuild'[b] = rebuild[b]
    PROVE  FillsInOrder'
BY DEF FillsInOrder, AtLeast

LEMMA RebuildStepFills ==
    ASSUME ReadsType, RoutingInv, NEW b \in Rebuilders, RebuildStep(b)
    PROVE  FillsInOrder'
<1>0. /\ rebuild \in [Rebuilders -> [at : RebuildStages, version : Nat]]
      /\ answered \in Nat /\ FillsInOrder
  BY DEF ReadsType, SharedType, RoutingInv
<1>1. CASE idRoutingCacheInvalidate(b)
  <2>1. \A r \in Readers : request[r].at # "routing"
    BY <1>0, <1>1, ReadsAssumption DEF idRoutingCacheInvalidate, FillsInOrder
  <2>2. routing'[0] = Absent /\ request' = request
    BY <1>1, ReadsAssumption DEF idRoutingCacheInvalidate, UnchangedByRebuild, Keys
  <2> QED
    BY <2>1, <2>2 DEF FillsInOrder
<1>2. CASE listCacheInvalidate(b)
  <2>1. /\ rebuild[b].at = "lists" /\ rebuild'[b].at = "done"
        /\ \A c \in Rebuilders : c # b => rebuild'[c] = rebuild[c]
    BY <1>2, RebuildShape DEF listCacheInvalidate, RebuildStages
  <2>2. UNCHANGED <<request, routing, routingMu>> /\ answered' \in {answered, rebuild[b].version}
    BY <1>2 DEF listCacheInvalidate, UnchangedByRebuild
  <2> QED
    BY <1>0, <2>1, <2>2 DEF FillsInOrder, AtLeast
<1>3. CASE BeginLegacyWrite(b)
  <2>1. \A c \in Rebuilders : rebuild'[c].at = "lists" => rebuild'[c] = rebuild[c]
    BY <1>0, <1>3 DEF BeginLegacyWrite, Rebuilding
  <2> QED
    BY <1>0, <1>3, <2>1, FillsFrame DEF BeginLegacyWrite, UnchangedByRebuild, cacheVars
<1>4. CASE \/ CheckManifest(b) \/ acquireRebuildIndexLock(b) \/ WriteIDMap(b)
           \/ WriteConcepts(b) \/ RebuildFails(b) \/ ReleaseLegacy(b)
           \/ releaseRebuildIndexLock(b)
  <2>1. \E from, to \in RebuildStages : to # "lists" /\ Rebuilding(b, from, to)
    BY <1>4 DEF CheckManifest, acquireRebuildIndexLock, WriteIDMap, WriteConcepts,
                RebuildFails, ReleaseLegacy, releaseRebuildIndexLock, RebuildStages
  <2>2. \A c \in Rebuilders : rebuild'[c].at = "lists" => rebuild'[c] = rebuild[c]
    BY <2>1, RebuildShape
  <2>3. UNCHANGED <<request, routing, routingMu, answered>>
    BY <1>4 DEF CheckManifest, acquireRebuildIndexLock, WriteIDMap, WriteConcepts,
                RebuildFails, ReleaseLegacy, releaseRebuildIndexLock, UnchangedByRebuild, cacheVars
  <2> QED
    BY <1>0, <2>2, <2>3, FillsFrame
<1> QED
  BY <1>1, <1>2, <1>3, <1>4 DEF RebuildStep

(* A request's step that does not begin a fill of the routing cache.        *)
LEMMA IdleFills ==
    ASSUME FillsInOrder, NEW r \in Readers, request'[r].at # "routing",
           \A q \in Readers : q # r => request'[q] = request[q],
           UNCHANGED <<routing, routingMu, answered, rebuild>>
    PROVE  FillsInOrder'
BY DEF FillsInOrder, AtLeast

LEMMA ReadStepFills ==
    ASSUME ReadsType, RoutingInv, NEW r \in Readers, ReadStep(r)
    PROVE  FillsInOrder'
<1> DEFINE view == request[r].view
<1>0. /\ view \in Keys /\ routing \in [Keys -> Entries] /\ 0 \in Keys
      /\ canon \in [Files -> Nat] /\ answered \in Nat
      /\ rebuild \in [Rebuilders -> [at : RebuildStages, version : Nat]]
  BY ReadsAssumption DEF ReadsType, SharedType, Reads, Keys
<1>i. FillsInOrder /\ VersionsOrdered
  BY DEF RoutingInv
<1>f. UNCHANGED <<answered, rebuild>>
  BY ReadStepFrame
<1>1. CASE LookupRouting(r) /\ routing[view] = Absent
  <2>1. /\ resolveReadPath(view, "id_map") \in Keys \X Nat
        /\ view = 0 => resolveReadPath(view, "id_map")[2] = canon["id_map"]
    BY <1>0, Resolved DEF Files
  <2>2. /\ Step(r, "routing", {}, resolveReadPath(view, "id_map"))
        /\ routingMu = Free /\ routingMu' = r /\ routing' = routing
    BY <1>1 DEF LookupRouting, viewCacheKey
  <2>3. /\ request'[r].view = view /\ request'[r].loaded = resolveReadPath(view, "id_map")
        /\ \A q \in Readers : q # r => request'[q] = request[q]
    BY <2>1, <2>2, StepShape DEF ReaderStages, Entries
  <2>4. \A q \in Readers : q # r => request'[q].at # "routing"
    BY <1>i, <2>2, <2>3, ReadsAssumption DEF FillsInOrder
  <2>5. view = 0 => /\ AtLeast(request'[r].loaded, answered)
                    /\ \A b \in Rebuilders : rebuild[b].at = "lists" =>
                           AtLeast(request'[r].loaded, rebuild[b].version)
    BY <1>0, <1>i, <2>1, <2>3 DEF AtLeast, VersionsOrdered, Files
  <2> QED
    BY <1>f, <1>i, <2>2, <2>3, <2>4, <2>5 DEF FillsInOrder, AtLeast
<1>2. CASE StoreRouting(r)
  <2>1. request[r].at = "routing" /\ request[r].loaded \in Keys \X Nat
    BY <1>2 DEF StoreRouting, At, ReadsType
  <2>2. {request[r].loaded} \in SUBSET (Keys \X Nat)
    BY <2>1
  <2>3. /\ Step(r, "routed", {request[r].loaded}, Absent)
        /\ routing' = [routing EXCEPT ![view] = request[r].loaded]
    BY <1>2 DEF StoreRouting, viewCacheKey
  <2>4. /\ request'[r].at = "routed"
        /\ \A q \in Readers : q # r => request'[q] = request[q]
    BY <2>2, <2>3, StepShape DEF ReaderStages, Entries
  <2>5. \A q \in Readers : request'[q].at # "routing"
    BY <1>i, <2>1, <2>4 DEF FillsInOrder
  <2>6. \/ routing'[0] = routing[0]
        \/ view = 0 /\ routing'[0] = request[r].loaded
    BY <1>0, <2>3
  <2> QED
    BY <1>f, <1>i, <2>1, <2>5, <2>6 DEF FillsInOrder, AtLeast
<1>3. CASE ~StoreRouting(r) /\ ~(LookupRouting(r) /\ routing[view] = Absent)
  <2>1. UNCHANGED <<routing, routingMu>>
    BY <1>3 DEF ReadStep, Pin, LookupRouting, GetPage, ListSources, StoreList, LoadConcepts,
                StoreConcepts, ReadFails, cacheVars, viewCacheKey
  <2> DEFINE Idle == /\ request'[r].at # "routing"
                     /\ \A q \in Readers : q # r => request'[q] = request[q]
  <2>2. Idle
    <3>1. request \in [Readers -> Reads]
      BY DEF ReadsType
    <3>2. ASSUME NEW at, at # "routing", NEW used, NEW loaded, Step(r, at, used, loaded)
          PROVE  Idle
      BY <3>1, <3>2 DEF Step, Reads
    <3>3. ASSUME NEW kind \in Kinds, Pin(r, kind)
          PROVE  Idle
      BY <3>3, PinShape
    <3>4. (\E kind \in Kinds : Pin(r, kind)) \/
              (\E at \in {"routed", "done", "listing", "loading", "failed"} :
                   \E used, loaded : Step(r, at, used, loaded))
      BY <1>3 DEF ReadStep, LookupRouting, GetPage, ListSources, StoreList, LoadConcepts,
                  StoreConcepts, ReadFails, viewCacheKey
    <3> QED
      BY <3>2, <3>3, <3>4
  <2> QED
    BY <1>f, <1>i, <2>1, <2>2, IdleFills
<1> QED
  BY <1>1, <1>2, <1>3

LEMMA RoutingStep ==
    ReadsType /\ RoutingInv /\ [ReadsNext]_readVars => RoutingInv'
<1> SUFFICES ASSUME ReadsType, RoutingInv, [ReadsNext]_readVars
             PROVE  RoutingInv'
  OBVIOUS
<1>1. WriterHolds' /\ VersionsOrdered'
  BY WriterStep, VersionStep DEF RoutingInv
<1>2. CASE LockExpires \/ PublishManifest \/ UNCHANGED readVars
            \/ \E g \in 1 .. MaxManifests : LoseObject(g)
  <2>1. UNCHANGED <<request, routing, routingMu, answered, rebuild>>
    BY <1>2 DEF LockExpires, PublishManifest, LoseObject, readVars, UnchangedByRebuild, cacheVars
  <2> QED
    BY <1>1, <2>1, FillsFrame DEF RoutingInv
<1> QED
  BY <1>1, <1>2, RebuildStepFills, ReadStepFills DEF ReadsNext, RoutingInv

(* idRoutingMu and invalidateCachesAfterRebuild: a request that loads the   *)
(* ID map while a rebuild ends never brings back the map from before it.    *)
THEOREM RoutingIsFresh == ReadsSpec => []RoutingNotOlderThanAnswer
<1>1. ReadsInit => RoutingInv
  BY ReadsAssumption DEF ReadsInit, RoutingInv, WriterHolds, Writers, VersionsOrdered,
     FillsInOrder, NewRequest, Files, Keys
<1>2. RoutingInv => RoutingNotOlderThanAnswer
  BY DEF RoutingInv, FillsInOrder, AtLeast, RoutingNotOlderThanAnswer
<1> QED
  BY <1>1, <1>2, ReadsTypeInit, ReadsTypeStep, RoutingStep, PTL DEF ReadsSpec

-----------------------------------------------------------------------------
(* Concept IDs and redirects *)

Redirects == [LegacyIds -> Entities \cup {NoId}]

(* What every published map is made of.  Only redirects between known IDs   *)
(* can be carried over to the next map.                                     *)
IdMapShape ==
    /\ idmap = [concept |-> idmap.concept, dormant |-> idmap.dormant,
                redirect |-> idmap.redirect]
    /\ idmap.redirect \in Redirects

(* Articles that came from an INDEX have a slug and name an entity or none. *)
Indexes == UNION {[listed -> Entities \cup {NoEntity}] : listed \in SUBSET Slugs}

ArticlesShape == Migrated => articles \in Indexes

IdentityInv == IdMapShape /\ ArticlesShape /\ RedirectsSound

-----------------------------------------------------------------------------

(* No two IDs of a map derived from an INDEX have the same slug: the slug   *)
(* names the article and the article names the ID.                          *)
LEMMA PlannedConceptsUnique ==
    ASSUME NEW index, NEW i \in ConceptIds, NEW j \in ConceptIds,
           PlannedConcepts(index)[i] # NoSlug,
           PlannedConcepts(index)[i] = PlannedConcepts(index)[j]
    PROVE  i = j
<1>1. \A k \in ConceptIds : PlannedConcepts(index)[k] # NoSlug =>
          index[PlannedConcepts(index)[k]] = k
  BY DEF PlannedConcepts
<1> QED
  BY <1>1

(* The same for a map derived from the IDs in the pages.                    *)
LEMMA PageConceptsUnique ==
    ASSUME NEW i \in ConceptIds, NEW j \in ConceptIds,
           addIDMapEntries[i] # NoSlug, addIDMapEntries[i] = addIDMapEntries[j]
    PROVE  i = j
<1>1. \A k \in ConceptIds : addIDMapEntries[k] # NoSlug => pages[addIDMapEntries[k]] = k
  BY DEF addIDMapEntries
<1> QED
  BY <1>1

(* An ID with a redirect has the target of one of the pairs.                *)
LEMMA AsRedirectsPairs ==
    ASSUME NEW pairs, pairs \subseteq LegacyIds \X Entities
    PROVE  /\ AsRedirects(pairs) \in Redirects
           /\ \A l \in LegacyIds : AsRedirects(pairs)[l] # NoId =>
                  \E p \in pairs : p[1] = l /\ AsRedirects(pairs)[l] = p[2]
<1>1. \A l \in LegacyIds : (\E p \in pairs : p[1] = l) =>
          /\ (CHOOSE p \in pairs : p[1] = l) \in pairs
          /\ (CHOOSE p \in pairs : p[1] = l)[1] = l
  OBVIOUS
<1>2. \A p \in pairs : p[2] \in Entities
  OBVIOUS
<1>3. \A l \in LegacyIds : AsRedirects(pairs)[l] \in Entities \cup {NoId}
  BY <1>1, <1>2 DEF AsRedirects
<1>4. AsRedirects(pairs) \in Redirects
  BY <1>3 DEF AsRedirects, Redirects
<1> QED
  BY <1>1, <1>4 DEF AsRedirects

(* A pair the check has accepted becomes the redirect of its ID.            *)
LEMMA AsRedirectsKeeps ==
    ASSUME NEW concept, NEW pairs, RedirectPairsOk(concept, pairs),
           NEW p \in pairs, p[1] \in LegacyIds
    PROVE  AsRedirects(pairs)[p[1]] = p[2]
<1> DEFINE q == CHOOSE q \in pairs : q[1] = p[1]
<1>1. q \in pairs /\ q[1] = p[1]
  OBVIOUS
<1>2. q = p
  BY <1>1 DEF RedirectPairsOk
<1>3. AsRedirects(pairs)[p[1]] = q[2]
  BY DEF AsRedirects
<1> QED
  BY <1>2, <1>3

(* Carried and migrated redirects lead from legacy IDs to entities.         *)
LEMMA PlannedPairs ==
    ASSUME IdentityInv, NEW concept
    PROVE  /\ PlannedRedirects(concept, idmap) \subseteq LegacyIds \X Entities
           /\ DirectRedirects(concept, idmap, PlannedRedirects(concept, idmap))
                  \subseteq LegacyIds \X Entities
<1>1. CarriedPairs(idmap) \subseteq LegacyIds \X Entities
  BY DEF CarriedPairs, IdentityInv, IdMapShape, Redirects
<1>2. \A found : MigratedPairs(concept, found) \subseteq LegacyIds \X Entities
  BY DEF MigratedPairs
<1>3. SnapshotRedirects(idmap) \subseteq LegacyIds \X Entities
  BY <1>1 DEF SnapshotRedirects
<1> QED
  BY <1>1, <1>2, <1>3 DEF PlannedRedirects, DirectRedirects

-----------------------------------------------------------------------------

(* A map installed after the check has accepted its redirects is sound.     *)
LEMMA InstallSound ==
    ASSUME NEW index, NEW present, NEW pairs,
           Install(index, present, pairs), index \in Indexes,
           pairs \subseteq LegacyIds \X Entities,
           RedirectPairsOk(PlannedConcepts(index), pairs)
    PROVE  /\ IdentityInv'
           /\ idmap'.concept = PlannedConcepts(index)
           /\ idmap'.redirect = AsRedirects(pairs)
<1> DEFINE concept == PlannedConcepts(index)
           redirect == AsRedirects(pairs)
<1>1. idmap' = [concept |-> concept, dormant |-> NoIds, redirect |-> redirect]
  BY DEF Install, EmptyIDMap
<1>2. /\ idmap'.concept = concept /\ idmap'.redirect = redirect
      /\ idmap' = [concept |-> idmap'.concept, dormant |-> idmap'.dormant,
                   redirect |-> idmap'.redirect]
  BY <1>1
<1>3. redirect \in Redirects
  BY AsRedirectsPairs
<1>4. \A l \in LegacyIds : redirect[l] # NoId =>
          concept[l] = NoSlug /\ concept[redirect[l]] # NoSlug
  <2> TAKE l \in LegacyIds
  <2> HAVE redirect[l] # NoId
  <2>1. PICK p \in pairs : p[1] = l /\ redirect[l] = p[2]
    BY AsRedirectsPairs
  <2> QED
    BY <2>1 DEF RedirectPairsOk
<1> HIDE DEF concept, redirect
<1>5. \A l \in LegacyIds : idmap'.redirect[l] # NoId =>
           idmap'.concept[l] = NoSlug /\ Route(idmap', l) = idmap'.redirect[l]
  BY <1>2, <1>4 DEF Route
<1>6. \A i, j \in ConceptIds : concept[i] # NoSlug /\ concept[i] = concept[j] => i = j
  BY PlannedConceptsUnique DEF concept
<1>7. \A i, j \in Active(idmap)' : idmap'.concept[i] = idmap'.concept[j] => i = j
  BY <1>2, <1>6 DEF Active
<1>8. RedirectsSound'
  BY <1>5, <1>7 DEF RedirectsSound
<1>9. IdMapShape'
  BY <1>2, <1>3 DEF IdMapShape
<1> QED
  BY <1>2, <1>8, <1>9 DEF IdentityInv, Install, ArticlesShape, Migrated, concept, redirect

LEMMA IdentityInitial == IdentityInit => IdentityInv
<1> SUFFICES ASSUME IdentityInit PROVE IdentityInv
  OBVIOUS
<1>1. PICK s \in Slugs, l \in LegacyIds :
          idmap \in {EmptyIDMap, [EmptyIDMap EXCEPT !.dormant[l] = s]}
  BY DEF IdentityInit
<1>2. /\ idmap = [concept |-> idmap.concept, dormant |-> idmap.dormant,
                  redirect |-> idmap.redirect]
      /\ idmap.concept = NoIds /\ idmap.redirect = NoRedirects
  BY <1>1 DEF EmptyIDMap
<1>3. IdMapShape
  BY <1>2 DEF IdMapShape, NoRedirects, Redirects
<1>4. RedirectsSound
  BY <1>2 DEF RedirectsSound, Active, NoIds, NoRedirects
<1> QED
  BY <1>3, <1>4 DEF IdentityInv, IdentityInit, ArticlesShape, Migrated

(* One step per action.                                                     *)
LEMMA IdentityStep == IdentityInv /\ [IdentityNext]_identityVars => IdentityInv'
<1> SUFFICES ASSUME IdentityInv, [IdentityNext]_identityVars
             PROVE  IdentityInv'
  OBVIOUS
<1>0. ASSUME UNCHANGED <<idmap, articles>> PROVE IdentityInv'
  BY <1>0 DEF IdentityInv, IdMapShape, ArticlesShape, Migrated, RedirectsSound, Active, Route
<1>1. CASE Rebuild
  <2>1. CASE UNCHANGED idmap
    BY <1>1, <2>1, <1>0 DEF Rebuild
  <2>2. CASE idmap' = BuildIDMap
    <3> DEFINE concept == addIDMapEntries
    <3>1. idmap' = [concept |-> concept, dormant |-> idmap.dormant, redirect |-> NoRedirects]
      BY <2>2 DEF BuildIDMap, EmptyIDMap
    <3>2. /\ idmap'.concept = concept /\ idmap'.redirect = NoRedirects
          /\ idmap' = [concept |-> idmap'.concept, dormant |-> idmap'.dormant,
                       redirect |-> idmap'.redirect]
      BY <3>1
    <3>3. IdMapShape'
      BY <3>2 DEF IdMapShape, NoRedirects, Redirects
    <3>4. \A i, j \in ConceptIds : concept[i] # NoSlug /\ concept[i] = concept[j] => i = j
      BY PageConceptsUnique
    <3> HIDE DEF concept
    <3>5. RedirectsSound'
      BY <3>2, <3>4 DEF RedirectsSound, Active, NoRedirects
    <3> QED
      BY <1>1, <3>3, <3>5 DEF IdentityInv, Rebuild, ArticlesShape, Migrated
  <2> QED
    BY <1>1, <2>1, <2>2 DEF Rebuild
<1>2. CASE \E s \in Slugs, id \in LegacyIds \cup {NoId} : LegacyEngineWrites(s, id)
  BY <1>0, <1>2 DEF LegacyEngineWrites
<1>3. ASSUME NEW present \in SUBSET Slugs, NEW active \in SUBSET Entities,
             NEW index \in Indexes, SyntoRun(present, index, active)
      PROVE  IdentityInv'
  <2> DEFINE concept == PlannedConcepts(index)
             direct == DirectRedirects(concept, idmap, PlannedRedirects(concept, idmap))
  <2>1. \/ Install(index, present, direct) /\ RedirectPairsOk(concept, direct)
        \/ Fail
    BY <1>3 DEF SyntoRun
  <2>2. direct \subseteq LegacyIds \X Entities
    BY PlannedPairs
  <2> QED
    BY <2>1, <2>2, <1>0, InstallSound DEF Fail
<1>4. CASE AdminRebuild
  <2> DEFINE concept == PlannedConcepts(articles)
             planned == PlannedRedirects(concept, idmap)
             present == {s \in Slugs : pages[s] # NoId}
  <2>1. \/ Install(articles, present, planned) /\ RedirectPairsOk(concept, planned)
        \/ Fail
    BY <1>4 DEF AdminRebuild
  <2>2a. articles \in Indexes
    BY <1>4 DEF AdminRebuild, IdentityInv, ArticlesShape
  <2>2. planned \subseteq LegacyIds \X Entities
    BY PlannedPairs
  <2> QED
    BY <2>1, <2>2, <2>2a, <1>0, InstallSound DEF Fail
<1>5. CASE UNCHANGED identityVars
  BY <1>0, <1>5 DEF identityVars
<1>6. ASSUME NEW listed \in SUBSET Slugs, NEW index \in [listed -> Entities \cup {NoEntity}]
      PROVE  index \in Indexes
  BY DEF Indexes
<1> QED
  BY <1>1, <1>2, <1>3, <1>4, <1>5, <1>6 DEF IdentityNext

(* planSyntoIDRedirects, BuildIDMap: whatever pages, INDEX files and        *)
(* rebuilds a project sees, in whatever order, every published redirect is  *)
(* one step from an ID that is no concept to a concept that exists, and no  *)
(* two concepts share a slug.                                               *)
THEOREM RedirectsStaySound == IdentitySpec => []RedirectsSound
<1>1. IdentityInv => RedirectsSound
  BY DEF IdentityInv
<1> QED
  BY IdentityInitial, IdentityStep, <1>1, PTL DEF IdentitySpec

-----------------------------------------------------------------------------

(* The concepts of a map derived from an INDEX are entities with a slug.    *)
LEMMA PlannedConceptsAreEntities ==
    ASSUME NEW index \in Indexes, NEW i \in ConceptIds, PlannedConcepts(index)[i] # NoSlug
    PROVE  i \in Entities /\ PlannedConcepts(index)[i] \in Slugs
<1>1. PICK listed \in SUBSET Slugs : index \in [listed -> Entities \cup {NoEntity}]
  BY DEF Indexes
<1> DEFINE s == PlannedConcepts(index)[i]
<1>2. s \in Bound(index) /\ index[s] = i
  BY DEF PlannedConcepts
<1> QED
  BY <1>1, <1>2 DEF Bound

(* The links of the old map lead where they led once a map that holds at    *)
(* least the carried and the migrated redirects is installed.               *)
LEMMA InstallKeepsLinks ==
    ASSUME IdentityInv, NEW index \in Indexes, NEW present, NEW pairs,
           Install(index, present, pairs), pairs \subseteq LegacyIds \X Entities,
           RedirectPairsOk(PlannedConcepts(index), pairs),
           CarriedPairs(idmap) \subseteq pairs,
           MigratedPairs(PlannedConcepts(index), ActiveRows(idmap)) \subseteq pairs,
           NEW l \in LegacyIds
    PROVE  /\ idmap.concept[l] # NoSlug /\ ConceptAt(idmap'.concept, idmap.concept[l]) # {}
                  => Route(idmap', l) \in ConceptAt(idmap'.concept, idmap.concept[l])
           /\ idmap.redirect[l] # NoId => Route(idmap', l) = idmap.redirect[l]
<1>1. idmap'.concept = PlannedConcepts(index) /\ idmap'.redirect = AsRedirects(pairs)
  BY InstallSound
<1>2. ASSUME NEW e, <<l, e>> \in pairs PROVE Route(idmap', l) = e
  <2>1. e \in Entities /\ e # NoId
    BY <1>2, IdentityAssumption
  <2>2. AsRedirects(pairs)[l] = e
    <3> DEFINE p == <<l, e>>
    <3>1. p \in pairs /\ p[1] = l /\ p[2] = e
      BY <1>2
    <3> QED
      BY <3>1, AsRedirectsKeeps
  <2>3. PlannedConcepts(index)[l] = NoSlug /\ PlannedConcepts(index)[e] # NoSlug
    BY <1>2 DEF RedirectPairsOk
  <2> QED
    BY <1>1, <2>1, <2>2, <2>3 DEF Route
<1>3. ASSUME idmap.redirect[l] # NoId PROVE Route(idmap', l) = idmap.redirect[l]
  BY <1>2, <1>3 DEF CarriedPairs
<1>4. ASSUME idmap.concept[l] # NoSlug, ConceptAt(idmap'.concept, idmap.concept[l]) # {}
      PROVE  Route(idmap', l) \in ConceptAt(idmap'.concept, idmap.concept[l])
  <2>1. PICK e \in ConceptIds : PlannedConcepts(index)[e] = idmap.concept[l]
    BY <1>1, <1>4 DEF ConceptAt
  <2>2. e \in Entities /\ idmap.concept[l] \in Slugs
    BY <1>4, <2>1, PlannedConceptsAreEntities
  <2>3. <<l, idmap.concept[l]>> \in ActiveRows(idmap)
    BY <1>4 DEF ActiveRows, Active, ConceptIds
  <2>4. e \in ConceptAt(PlannedConcepts(index), idmap.concept[l])
    BY <2>1 DEF ConceptAt
  <2>5. <<l, e>> \in MigratedPairs(PlannedConcepts(index), ActiveRows(idmap))
    BY <2>2, <2>3, <2>4 DEF MigratedPairs
  <2> QED
    BY <1>1, <1>2, <2>4, <2>5
<1> QED
  BY <1>3, <1>4

(* planSyntoIDRedirects and its callers: a link that worked before a Synto  *)
(* run or an admin rebuild works after it, for any number of pages,         *)
(* entities, runs and rebuilds.                                             *)
THEOREM LinksStayKept == IdentitySpec => LinksKept
<1> DEFINE Kept(l) ==
        /\ idmap.concept[l] # NoSlug /\ ConceptAt(idmap'.concept, idmap.concept[l]) # {}
               => Route(idmap', l) \in ConceptAt(idmap'.concept, idmap.concept[l])
        /\ idmap.redirect[l] # NoId => Route(idmap', l) = idmap.redirect[l]
    AllKept == articles' # NoArticles /\ outcome' = "ok" => \A l \in LegacyIds : Kept(l)
<1>1. IdentityInv /\ [IdentityNext]_identityVars => [AllKept]_identityVars
  <2> SUFFICES ASSUME IdentityInv, IdentityNext, articles' # NoArticles, outcome' = "ok",
                      NEW l \in LegacyIds
               PROVE  Kept(l)
    OBVIOUS
  <2>1. ~Rebuild /\ \A s \in Slugs, id \in LegacyIds \cup {NoId} : ~LegacyEngineWrites(s, id)
    BY DEF Rebuild, LegacyEngineWrites, Migrated
  <2>2. ASSUME NEW present \in SUBSET Slugs, NEW active \in SUBSET Entities,
               NEW index \in Indexes, SyntoRun(present, index, active)
        PROVE  Kept(l)
    <3> DEFINE concept == PlannedConcepts(index)
               direct == DirectRedirects(concept, idmap, PlannedRedirects(concept, idmap))
    <3>1. Install(index, present, direct) /\ RedirectPairsOk(concept, direct)
      BY <2>2 DEF SyntoRun, Fail
    <3>2. direct \subseteq LegacyIds \X Entities
      BY PlannedPairs
    <3>3. CarriedPairs(idmap) \subseteq direct /\ MigratedPairs(concept, ActiveRows(idmap)) \subseteq direct
      BY DEF DirectRedirects, PlannedRedirects
    <3> HIDE DEF direct
    <3> QED
      BY <3>1, <3>2, <3>3, InstallKeepsLinks
  <2>3. CASE AdminRebuild
    <3> DEFINE concept == PlannedConcepts(articles)
               planned == PlannedRedirects(concept, idmap)
               present == {s \in Slugs : pages[s] # NoId}
    <3>1. Install(articles, present, planned) /\ RedirectPairsOk(concept, planned)
      BY <2>3 DEF AdminRebuild, Fail
    <3>2. planned \subseteq LegacyIds \X Entities /\ articles \in Indexes
      BY <2>3, PlannedPairs DEF AdminRebuild, IdentityInv, ArticlesShape
    <3>3. CarriedPairs(idmap) \subseteq planned
      BY DEF PlannedRedirects
    <3>4. MigratedPairs(concept, ActiveRows(idmap)) \subseteq planned
      BY DEF PlannedRedirects, MigratedPairs
    <3> HIDE DEF planned
    <3> QED
      BY <3>1, <3>2, <3>3, <3>4, InstallKeepsLinks
  <2>4. ASSUME NEW listed \in SUBSET Slugs, NEW index \in [listed -> Entities \cup {NoEntity}]
        PROVE  index \in Indexes
    BY DEF Indexes
  <2> QED
    BY <2>1, <2>2, <2>3, <2>4 DEF IdentityNext
<1>2. [AllKept]_identityVars <=> [articles' # NoArticles /\ outcome' = "ok" =>
        \A l \in LegacyIds :
            /\ idmap.concept[l] # NoSlug /\ ConceptAt(idmap'.concept, idmap.concept[l]) # {}
                   => Route(idmap', l) \in ConceptAt(idmap'.concept, idmap.concept[l])
            /\ idmap.redirect[l] # NoId
                   => Route(idmap', l) = idmap.redirect[l]]_identityVars
  OBVIOUS
<1> HIDE DEF AllKept
<1> QED
  BY IdentityInitial, IdentityStep, <1>1, <1>2, PTL DEF IdentitySpec, LinksKept

-----------------------------------------------------------------------------
(* The vault *)

Runs == [at : {"none", "ensure", "migrate", "migrated", "run", "export", "publish", "ended"},
         mode : {"none", "cloud", "local", "scratch"}, clean : BOOLEAN, key : BOOLEAN]

VaultTypeOK ==
    /\ vault \in Vaults /\ ws \in Vaults
    /\ place \in {"cloud", "local"}
    /\ run \in Runs

(* The workspace a run begins with. *)
Prepared ==
    IF run.mode = "cloud" THEN materializeCloudWorkspace(vault, run.clean)
    ELSE createWorkspace(vault, run.mode = "local")

(* A local vault whose .olw holds files that are not OLW's is left alone.   *)
NothingForeign == place = "local" => vault.olw # "other"

(* What has been established when a run reaches a stage. *)
StageInv ==
    /\ run.at \notin {"none", "ended"} => (run.mode = "cloud" <=> place = "cloud")
    /\ run.at = "ensure" => ws = Prepared /\ inputs = "same"
    /\ run.at = "run" =>
           /\ inputs = "same"
           /\ Identified(vault) /\ ~run.clean => ws.synto = "state"
    /\ run.at = "publish" => ws.config \in SafeConfigs
    /\ run.at \notin {"none", "ensure", "ended"} => NothingForeign

VaultInv == VaultTypeOK /\ StageInv /\ SyntoStartsSafely /\ PublishedIsAdopted

-----------------------------------------------------------------------------

(* A record of the four parts of a vault with one of them replaced.         *)
LEMMA PartReplaced ==
    ASSUME NEW v \in Vaults, NEW config \in Configs, NEW synto \in SyntoDirs,
           NEW wikiToml \in BOOLEAN, NEW olw \in OLWDirs
    PROVE  /\ [v EXCEPT !.config = config] \in Vaults
           /\ [v EXCEPT !.synto = synto] \in Vaults
           /\ [v EXCEPT !.wikiToml = wikiToml] \in Vaults
           /\ [v EXCEPT !.olw = olw] \in Vaults
BY DEF Vaults

LEMMA ChildLeavesVault ==
    ASSUME ws \in Vaults, NEW configs \in SUBSET Configs, NEW dirs \in SUBSET SyntoDirs,
           ChildLeaves(configs, dirs)
    PROVE  ws' \in Vaults
<1>1. PICK c \in configs, d \in dirs, legacy \in {TRUE, FALSE} :
        ws' = [ws EXCEPT !.config = c, !.synto = d,
                         !.wikiToml = @ /\ legacy,
                         !.olw = IF legacy \/ ~HasState(@) THEN @ ELSE "bare"]
  BY DEF ChildLeaves
<1> DEFINE w1 == [ws EXCEPT !.config = c]
           w2 == [w1 EXCEPT !.synto = d]
           w3 == [w2 EXCEPT !.wikiToml = @ /\ legacy]
           w4 == [w3 EXCEPT !.olw = IF legacy \/ ~HasState(@) THEN @ ELSE "bare"]
<1>2. w1 \in Vaults
  BY PartReplaced DEF Vaults
<1>3. w2 \in Vaults
  BY <1>2, PartReplaced DEF Vaults
<1>4. w3 \in Vaults
  BY <1>3, PartReplaced DEF Vaults
<1>5. w4 \in Vaults
  BY <1>4, PartReplaced DEF Vaults, OLWDirs
<1>6. ws' = w4
  BY <1>1
<1> QED
  BY <1>5, <1>6

(* createWorkspace and materializeCloudWorkspace, part by part.             *)
LEMMA CreatedParts ==
    ASSUME NEW v \in Vaults, NEW leased \in BOOLEAN
    PROVE  LET w == createWorkspace(v, leased) IN
           /\ w \in Vaults
           /\ w.config = v.config /\ w.wikiToml = v.wikiToml
           /\ w.synto = IF v.synto = "bare" THEN "none" ELSE v.synto
           /\ w.olw = IF v.olw \in {"none", "bare"} THEN (IF leased THEN "locks" ELSE "none") ELSE v.olw
<1> DEFINE w1 == [v EXCEPT !.synto = IF @ = "bare" THEN "none" ELSE @]
           w2 == [w1 EXCEPT !.olw = IF @ \in {"none", "bare"}
                                    THEN (IF leased THEN "locks" ELSE "none") ELSE @]
<1>1. /\ w1 \in Vaults
      /\ w1.config = v.config /\ w1.wikiToml = v.wikiToml /\ w1.olw = v.olw
      /\ w1.synto = IF v.synto = "bare" THEN "none" ELSE v.synto
  BY DEF Vaults, SyntoDirs
<1> HIDE DEF w1
<1>2. /\ w2 \in Vaults
      /\ w2.config = w1.config /\ w2.wikiToml = w1.wikiToml /\ w2.synto = w1.synto
      /\ w2.olw = IF w1.olw \in {"none", "bare"} THEN (IF leased THEN "locks" ELSE "none") ELSE w1.olw
  BY <1>1 DEF Vaults, OLWDirs
<1> HIDE DEF w2
<1>3. createWorkspace(v, leased) = w2
  BY DEF createWorkspace, w1, w2
<1> QED
  BY <1>1, <1>2, <1>3

LEMMA MaterializedParts ==
    ASSUME NEW v \in Vaults
    PROVE  LET w == materializeCloudWorkspace(v, FALSE) IN
           /\ w \in Vaults
           /\ w.config = v.config /\ w.wikiToml = v.wikiToml
           /\ w.synto = IF v.synto = "bare" THEN "none" ELSE v.synto
           /\ w.olw = IF v.olw \in {"bare", "locks", "other"} THEN "none" ELSE v.olw
<1> DEFINE w1 == [v EXCEPT !.synto = IF @ = "bare" THEN "none" ELSE @]
           w2 == [w1 EXCEPT !.olw = IF @ \in {"bare", "locks", "other"} THEN "none" ELSE @]
<1>1. /\ w1 \in Vaults
      /\ w1.config = v.config /\ w1.wikiToml = v.wikiToml /\ w1.olw = v.olw
      /\ w1.synto = IF v.synto = "bare" THEN "none" ELSE v.synto
  BY DEF Vaults, SyntoDirs
<1> HIDE DEF w1
<1>2. /\ w2 \in Vaults
      /\ w2.config = w1.config /\ w2.wikiToml = w1.wikiToml /\ w2.synto = w1.synto
      /\ w2.olw = IF w1.olw \in {"bare", "locks", "other"} THEN "none" ELSE w1.olw
  BY <1>1 DEF Vaults, OLWDirs
<1> HIDE DEF w2
<1>3. materializeCloudWorkspace(v, FALSE) = w2
  BY DEF materializeCloudWorkspace, w1, w2
<1> QED
  BY <1>1, <1>2, <1>3

LEMMA EmptyIsVault == EmptyVault \in Vaults
BY DEF EmptyVault, Vaults, Configs, SyntoDirs, OLWDirs

(* PublishedFiles, part by part.                                            *)
LEMMA PublishedParts ==
    ASSUME NEW w \in Vaults
    PROVE  /\ PublishedFiles(w) \in Vaults
           /\ PublishedFiles(w).config = w.config
           /\ PublishedFiles(w).wikiToml = w.wikiToml
           /\ PublishedFiles(w).synto = w.synto
           /\ vault.olw # "other" \/ run.mode = "cloud" =>
                  PublishedFiles(w).olw = IF HasState(w.olw) THEN w.olw
                                          ELSE IF run.mode = "local" THEN "bare" ELSE "none"
BY DEF PublishedFiles, Vaults, OLWDirs, HasState

(* A stage that a run moves to.                                             *)
LEMMA RunGoes ==
    ASSUME run \in Runs,
           NEW at \in {"none", "ensure", "migrate", "migrated", "run", "export", "publish", "ended"}
    PROVE  LET r == [run EXCEPT !.at = at] IN
           r \in Runs /\ r.at = at /\ r.mode = run.mode /\ r.clean = run.clean
BY DEF Runs

-----------------------------------------------------------------------------

(* ensureSyntoVault: a workspace it adopts has Synto's state, and one       *)
(* without that, adopted or initialised, comes from a vault nothing          *)
(* identifies.                                                              *)
LEMMA EnsureKeepsIdentity ==
    ASSUME VaultInv, run.at = "ensure", AdoptsSynto(ws) \/ Initialises(ws),
           Identified(vault), ~run.clean
    PROVE  ws.synto = "state"
<1>1. vault \in Vaults /\ ws \in Vaults /\ run \in Runs
  BY DEF VaultInv, VaultTypeOK
<1>2. CASE run.mode = "cloud"
  <2>1. ws = materializeCloudWorkspace(vault, FALSE) /\ place = "cloud"
    BY <1>1, <1>2 DEF VaultInv, StageInv, Prepared, materializeCloudWorkspace
  <2> QED
    BY <1>1, <2>1, MaterializedParts
       DEF AdoptsSynto, Initialises, Identified, HasState, validateSQLiteArtifact,
           validateOLWWithoutState
<1>3. CASE run.mode # "cloud"
  <2>1. ws = createWorkspace(vault, run.mode = "local") /\ (run.mode = "local") \in BOOLEAN
    BY <1>3 DEF VaultInv, StageInv, Prepared
  <2> QED
    BY <1>1, <2>1, CreatedParts
       DEF AdoptsSynto, Initialises, Identified, HasState, validateSQLiteArtifact,
           validateOLWWithoutState
<1> QED
  BY <1>2, <1>3

(* ensureSyntoVault goes on with a vault of its own kind only.              *)
LEMMA EnsureRefusesForeign ==
    ASSUME VaultInv, run.at = "ensure", AdoptsSynto(ws) \/ Migrates(ws) \/ Initialises(ws)
    PROVE  NothingForeign
<1> SUFFICES ASSUME place = "local", vault.olw = "other" PROVE FALSE
  BY DEF NothingForeign
<1>1. ws = createWorkspace(vault, run.mode = "local") /\ vault \in Vaults
  BY DEF VaultInv, VaultTypeOK, StageInv, Prepared
<1>2. ws.olw = "other"
  <2>1. (run.mode = "local") \in BOOLEAN
    OBVIOUS
  <2> QED
    BY <1>1, <2>1, CreatedParts
<1> QED
  BY <1>2 DEF AdoptsSynto, Migrates, Initialises, HasState, validateOLWWithoutState

LEMMA VaultInitial == VaultInit => VaultInv
<1> SUFFICES ASSUME VaultInit PROVE VaultInv
  OBVIOUS
<1>1. vault \in Vaults
  BY EmptyIsVault DEF VaultInit, ProjectVaults, Vaults, Configs, SyntoDirs, OLWDirs
<1>2. run \in Runs /\ run.at = "none"
  BY DEF VaultInit, NoRun, Runs
<1> QED
  BY <1>1, <1>2, EmptyIsVault
     DEF VaultInit, VaultInv, VaultTypeOK, StageInv, SyntoStartsSafely, PublishedIsAdopted, NotBegun

-----------------------------------------------------------------------------

(* What Synto's run command started with is not forgotten or changed.       *)
LEMMA StartKept ==
    ASSUME VaultInv, UNCHANGED <<began, place>>, run'.clean = run.clean
    PROVE  SyntoStartsSafely'
BY DEF VaultInv, SyntoStartsSafely, Identified

LEMMA VaultKept ==
    ASSUME VaultInv, UNCHANGED <<vault, place, published>>
    PROVE  PublishedIsAdopted'
BY DEF VaultInv, PublishedIsAdopted, NextWorkspace, materializeCloudWorkspace, createWorkspace,
       AdoptsSynto

LEMMA RunFails ==
    ASSUME VaultInv, Fails, ws' \in Vaults, UNCHANGED began \/ SyntoStartsSafely'
    PROVE  VaultInv'
<1>1. run' \in Runs /\ run'.at = "ended" /\ run'.clean = run.clean
  BY RunGoes DEF Fails, VaultInv, VaultTypeOK
<1>2. UNCHANGED <<vault, place, published>>
  BY DEF Fails
<1>3. SyntoStartsSafely' /\ PublishedIsAdopted'
  BY <1>1, <1>2, StartKept, VaultKept
<1> QED
  BY <1>1, <1>2, <1>3 DEF VaultInv, VaultTypeOK, StageInv

LEMMA RunProceeds ==
    ASSUME VaultInv, run.at \notin {"none", "ended"},
           NEW at \in {"migrate", "migrated", "run", "export", "publish"}, Proceeds(at),
           ws' \in Vaults, UNCHANGED began \/ SyntoStartsSafely',
           at = "run" => /\ inputs' = "same"
                         /\ Identified(vault) /\ ~run.clean => ws'.synto = "state",
           at = "publish" => ws'.config \in SafeConfigs,
           NothingForeign \/ run.at # "ensure"
    PROVE  VaultInv'
<1>1. run' \in Runs /\ run'.at = at /\ run'.mode = run.mode /\ run'.clean = run.clean
  BY RunGoes DEF Proceeds, VaultInv, VaultTypeOK
<1>2. UNCHANGED <<vault, place, published>>
  BY DEF Proceeds
<1>3. SyntoStartsSafely' /\ PublishedIsAdopted'
  BY <1>1, <1>2, StartKept, VaultKept
<1>4. StageInv'
  BY <1>1, <1>2 DEF VaultInv, StageInv, Identified, NothingForeign
<1> QED
  BY <1>1, <1>2, <1>3, <1>4 DEF VaultInv, VaultTypeOK

-----------------------------------------------------------------------------

LEMMA BeginStep ==
    ASSUME VaultInv, NEW i \in Invocations, runWorkerBatch(i)
    PROVE  VaultInv'
<1> DEFINE cleanRun == i.clean /\ Mode(i) = "cloud"
<1>1. /\ UNCHANGED <<vault, place, published>> /\ inputs' = "same" /\ began' = NotBegun
      /\ run' = [at |-> "ensure", mode |-> Mode(i), clean |-> cleanRun, key |-> i.key]
  BY DEF runWorkerBatch
<1>2. Mode(i) \in {"cloud", "local", "scratch"} /\ (Mode(i) = "cloud" <=> place = "cloud")
  BY DEF runWorkerBatch, VaultInv, VaultTypeOK
<1>3. i.clean \in BOOLEAN /\ i.key \in BOOLEAN /\ cleanRun \in BOOLEAN
  BY DEF Invocations
<1>4. run' \in Runs /\ run'.at = "ensure" /\ run'.mode = Mode(i) /\ run'.clean = cleanRun
  <2> HIDE DEF cleanRun
  <2> QED
    BY <1>1, <1>2, <1>3 DEF Runs
<1>5. ws' = Prepared' /\ ws' \in Vaults
  <2>1. CASE Mode(i) = "cloud"
    <3>1. ws' = materializeCloudWorkspace(vault, i.clean) /\ (cleanRun <=> i.clean)
      BY <2>1 DEF runWorkerBatch
    <3>2. ws' = materializeCloudWorkspace(vault, cleanRun)
      BY <1>3, <3>1 DEF materializeCloudWorkspace
    <3>3. ws' = Prepared'
      BY <1>1, <1>4, <2>1, <3>2 DEF Prepared, materializeCloudWorkspace
    <3>4. CASE i.clean
      BY <3>1, <3>3, <3>4, EmptyIsVault DEF materializeCloudWorkspace
    <3>5. CASE ~i.clean
      BY <1>3, <3>1, <3>3, <3>5, MaterializedParts DEF VaultInv, VaultTypeOK, materializeCloudWorkspace
    <3> QED
      BY <1>3, <3>4, <3>5
  <2>2. CASE Mode(i) # "cloud"
    <3>1. ws' = createWorkspace(vault, Mode(i) = "local")
      BY <2>2 DEF runWorkerBatch
    <3>2. createWorkspace(vault, Mode(i) = "local") \in Vaults
      BY CreatedParts DEF VaultInv, VaultTypeOK
    <3> QED
      BY <1>1, <1>4, <2>2, <3>1, <3>2 DEF Prepared, createWorkspace
  <2> QED
    BY <2>1, <2>2
<1>6. StageInv'
  BY <1>1, <1>2, <1>4, <1>5 DEF StageInv
<1>7. SyntoStartsSafely'
  BY <1>1 DEF SyntoStartsSafely, NotBegun
<1> QED
  BY <1>1, <1>4, <1>5, <1>6, <1>7, VaultKept DEF VaultInv, VaultTypeOK

LEMMA EnsureStep == ASSUME VaultInv, ensureSyntoVault PROVE VaultInv'
<1>0. run.at = "ensure" /\ UNCHANGED <<inputs, began>> /\ ws \in Vaults /\ inputs = "same"
  BY DEF ensureSyntoVault, VaultInv, VaultTypeOK, StageInv
<1>1. CASE AdoptsSynto(ws) /\ Proceeds("run") /\ UNCHANGED ws
  <2>1. Identified(vault) /\ ~run.clean => ws'.synto = "state"
    BY <1>0, <1>1, EnsureKeepsIdentity
  <2> QED
    BY <1>0, <1>1, <2>1, EnsureRefusesForeign, RunProceeds
<1>2. CASE Migrates(ws) /\ Proceeds("migrate") /\ UNCHANGED ws
  BY <1>0, <1>2, EnsureRefusesForeign, RunProceeds
<1>3. CASE Initialises(ws) /\ Proceeds("run") /\ ws' = [ws EXCEPT !.config = "default"]
  <2>1. Identified(vault) /\ ~run.clean => ws.synto = "state"
    BY <1>0, <1>3, EnsureKeepsIdentity
  <2>2. ws' \in Vaults /\ ws'.synto = ws.synto
    BY <1>0, <1>3 DEF Vaults, Configs, SafeConfigs
  <2> QED
    BY <1>0, <1>3, <2>1, <2>2, EnsureRefusesForeign, RunProceeds
<1>4. CASE Fails /\ UNCHANGED ws
  BY <1>0, <1>4, RunFails
<1> QED
  BY <1>1, <1>2, <1>3, <1>4 DEF ensureSyntoVault

LEMMA MigrateStep == ASSUME VaultInv, migrateOLW PROVE VaultInv'
<1>1. run.at = "migrate" /\ UNCHANGED began /\ ChildLeaves(Configs, SyntoDirs)
  BY DEF migrateOLW
<1>2. ws' \in Vaults
  BY <1>1, ChildLeavesVault DEF VaultInv, VaultTypeOK
<1> QED
  BY <1>1, <1>2, RunProceeds, RunFails DEF migrateOLW

LEMMA NormalizeStep == ASSUME VaultInv, normalizeMigratedSyntoConfig PROVE VaultInv'
<1>0. run.at = "migrated" /\ UNCHANGED <<inputs, began>> /\ ws \in Vaults
  BY DEF normalizeMigratedSyntoConfig, VaultInv, VaultTypeOK
<1>1. CASE equalMigrationInputs(ws) /\ ws' = [ws EXCEPT !.config = "normalized"] /\ Proceeds("run")
  <2>1. ws' \in Vaults /\ ws'.synto = ws.synto
    BY <1>0, <1>1 DEF Vaults, Configs, SafeConfigs
  <2>2. inputs' = "same" /\ ws'.synto = "state"
    BY <1>0, <1>1, <2>1 DEF equalMigrationInputs
  <2> QED
    BY <1>0, <1>1, <2>1, <2>2, RunProceeds
<1>2. CASE Fails /\ UNCHANGED ws
  BY <1>0, <1>2, RunFails
<1> QED
  BY <1>1, <1>2 DEF normalizeMigratedSyntoConfig

(* runOLWBatch: the safety of the settings is the action's own check, the   *)
(* rest was established when the stage was reached.                         *)
LEMMA RunStep == ASSUME VaultInv, runOLWBatch PROVE VaultInv'
<1>0. run.at = "run" /\ ws \in Vaults /\ run \in Runs
  BY DEF runOLWBatch, VaultInv, VaultTypeOK
<1>1. CASE /\ validateSyntoPipelineSafety(ws)
           /\ began' = [on |-> TRUE, from |-> vault, ws |-> ws, inputs |-> inputs]
           /\ ChildLeaves({ws.config, "none", "broken", "unsafe", "users"}, {"none", "corrupt", "state"})
           /\ Proceeds("export") \/ Fails
  <2>1. ws' \in Vaults
    <3>1. /\ {ws.config, "none", "broken", "unsafe", "users"} \in SUBSET Configs
          /\ {"none", "corrupt", "state"} \in SUBSET SyntoDirs
      BY <1>0 DEF Vaults, Configs, SafeConfigs, SyntoDirs
    <3> QED
      BY <1>0, <1>1, <3>1, ChildLeavesVault
  <2>2. place' = place /\ run'.clean = run.clean
    BY <1>0, <1>1, RunGoes DEF Proceeds, Fails
  <2>3. began'.on /\ began'.from = vault /\ began'.ws = ws /\ began'.inputs = inputs
    BY <1>1
  <2>4. SyntoStartsSafely'
    BY <1>0, <1>1, <2>2, <2>3
       DEF SyntoStartsSafely, VaultInv, StageInv, validateSyntoPipelineSafety, Identified
  <2> QED
    BY <1>0, <1>1, <2>1, <2>4, RunProceeds, RunFails
<1>2. CASE Fails /\ UNCHANGED <<ws, began>>
  BY <1>0, <1>2, RunFails
<1> QED
  BY <1>1, <1>2 DEF runOLWBatch

LEMMA ExportStep == ASSUME VaultInv, ensureSyntoIndex PROVE VaultInv'
<1>1. run.at = "export" /\ UNCHANGED began /\ ws \in Vaults
  BY DEF ensureSyntoIndex, VaultInv, VaultTypeOK
<1>2. ws' \in Vaults
  BY <1>1 DEF ensureSyntoIndex, Vaults, SyntoDirs
<1> QED
  BY <1>1, <1>2, RunProceeds, RunFails DEF ensureSyntoIndex, validateSyntoPipelineSafety

(* preflightGenerationOutputs and the check of the settings before it are   *)
(* together what ensureSyntoVault asks of the next run's workspace.         *)
LEMMA PublishStep == ASSUME VaultInv, Publish PROVE VaultInv'
<1>1. /\ run.at = "publish" /\ UNCHANGED <<place, ws, began>>
      /\ run' = [run EXCEPT !.at = "ended"]
      /\ ws \in Vaults /\ run \in Runs /\ ws.config \in SafeConfigs
  BY DEF Publish, VaultInv, VaultTypeOK, StageInv
<1>2. run' \in Runs /\ run'.at = "ended" /\ run'.clean = run.clean
  BY <1>1, RunGoes
<1>3. SyntoStartsSafely'
  BY <1>1, <1>2, StartKept
<1>4. CASE UNCHANGED <<vault, published>>
  BY <1>1, <1>2, <1>3, <1>4, VaultKept DEF VaultInv, VaultTypeOK, StageInv
<1>5. CASE /\ preflightGenerationOutputs(ws)
           /\ vault' = PublishedFiles(ws) /\ published' = TRUE
  <2>1. vault' \in Vaults
    BY <1>1, <1>5, PublishedParts
  <2>2. /\ vault'.config \in SafeConfigs /\ vault'.synto = "state"
        /\ vault'.olw \in {"none", "bare", "state"}
    <3>1. vault.olw # "other" \/ run.mode = "cloud"
      BY <1>1 DEF VaultInv, VaultTypeOK, StageInv, NothingForeign
    <3> QED
      BY <1>1, <1>5, <3>1, PublishedParts
         DEF preflightGenerationOutputs, HasState, validateSQLiteArtifact
  <2>3. PICK w : w = NextWorkspace'
    OBVIOUS
  <2>4. w.config \in SafeConfigs /\ w.synto = "state" /\ w.olw \in {"none", "locks", "state"}
    <3>1. CASE place = "cloud"
      <4>1. w = materializeCloudWorkspace(vault', FALSE)
        BY <1>1, <2>3, <3>1 DEF NextWorkspace, materializeCloudWorkspace
      <4> QED
        BY <2>1, <2>2, <4>1, MaterializedParts
    <3>2. CASE place # "cloud"
      <4>1. w = createWorkspace(vault', TRUE)
        BY <1>1, <2>3, <3>2 DEF NextWorkspace, createWorkspace
      <4> QED
        BY <2>1, <2>2, <4>1, CreatedParts
    <3> QED
      BY <3>1, <3>2
  <2>5. AdoptsSynto(w)
    BY <2>4 DEF AdoptsSynto, SafeConfigs, HasState, validateSQLiteArtifact,
                validateOLWWithoutState, validateSyntoPipelineSafety
  <2>6. PublishedIsAdopted'
    BY <1>1, <2>3, <2>5 DEF PublishedIsAdopted, AdoptsSynto
  <2> QED
    BY <1>1, <1>2, <1>3, <2>1, <2>6 DEF VaultInv, VaultTypeOK, StageInv
<1> QED
  BY <1>4, <1>5 DEF Publish

LEMMA VaultStep == VaultInv /\ [VaultNext]_vaultVars => VaultInv'
<1>1. ASSUME VaultInv, UNCHANGED vaultVars PROVE VaultInv'
  <2>1. UNCHANGED <<vault, place, ws, inputs, run, began, published>>
    BY <1>1 DEF vaultVars
  <2>2. Prepared' = Prepared
    BY <2>1 DEF Prepared, materializeCloudWorkspace, createWorkspace
  <2>3. StageInv'
    BY <1>1, <2>1, <2>2 DEF VaultInv, StageInv, Identified, NothingForeign
  <2> QED
    BY <1>1, <2>1, <2>3, StartKept, VaultKept DEF VaultInv, VaultTypeOK
<1> QED
  BY <1>1, BeginStep, EnsureStep, MigrateStep, NormalizeStep, RunStep, ExportStep, PublishStep
     DEF VaultNext

(* ensureSyntoVault and runOLWBatch: whatever vault a project has and       *)
(* whatever the children of any number of runs leave behind, Synto's run    *)
(* command starts with safe settings, on unaltered inputs, and never        *)
(* without the identity the project had.                                    *)
THEOREM RunsStartSafely == VaultSpec => []SyntoStartsSafely
<1>1. VaultInv => SyntoStartsSafely
  BY DEF VaultInv
<1> QED
  BY VaultInitial, VaultStep, <1>1, PTL DEF VaultSpec

(* preflightGenerationOutputs: whatever a run publishes, in the cloud or    *)
(* into a local vault, is what the next run adopts.                         *)
THEOREM PublicationsAreAdopted == VaultSpec => []PublishedIsAdopted
<1>1. VaultInv => PublishedIsAdopted
  BY DEF VaultInv
<1> QED
  BY VaultInitial, VaultStep, <1>1, PTL DEF VaultSpec

-----------------------------------------------------------------------------
(* INDEX.json: the two validators and the join with agent/concepts.json *)

Texts == {"text"} \cup OddTexts
Paths == {"s1"} \cup OddPaths
Articles == [id : {"a1", "a2", NoText, "blank", "unsafe", "long"}, name : Texts,
             path : {"p1", "P1", "p2", "index"} \cup OddPaths,
             entity : EntityIds \cup {NoValue, NoText, "blank", "unsafe", "padded_e1"}]
Items == ({"other"} \cup Texts) \X (EntityIds \cup {NoText, "unsafe", "padded_e1"})
ConceptGroups == [path : {"s2"} \cup Paths, hash : {"sha256", "md5", "padded_sha256"},
                  items : Seq(Items)]
KeyCounts == [required : 0..2, optional : 0..2, unknown : 0..2]
Packs == [text : Texts, language : {0, 1}, capabilities : {"known", "unknown", "none"}]
Sources == [id : Paths, kind : Texts]
Syntheses == [path : Paths, title : Texts]

(* Documents of any length with every deviation at once: more than a run    *)
(* builds.                                                                  *)
Documents == [keys : KeyCounts, version : {1, 2}, pack : Packs,
              stats : {"counts", "null", "negative"},
              confidence : {"number", "huge", "boolean"},
              volume : {"bounded", "many_edges", "many_groups"},
              articles : Seq(Articles), groups : Seq(ConceptGroups),
              source : Sources, synthesis : Syntheses]

IndexTypeOK == doc \in Documents /\ rows \in Seq(Rows)

(* One field of an article, a group or a part of the document at a time.    *)
LEMMA DocumentParts ==
    ASSUME NEW d \in Documents
    PROVE  /\ d.keys \in KeyCounts /\ d.pack \in Packs
           /\ d.stats \in {"counts", "null", "negative"}
           /\ d.confidence \in {"number", "huge", "boolean"}
           /\ d.volume \in {"bounded", "many_edges", "many_groups"}
           /\ d.articles \in Seq(Articles) /\ d.groups \in Seq(ConceptGroups)
           /\ d.source \in Sources /\ d.synthesis \in Syntheses
           /\ \A i \in DOMAIN d.articles : d.articles[i] \in Articles
           /\ \A i \in DOMAIN d.groups : d.groups[i] \in ConceptGroups
BY DEF Documents

LEMMA IndexInitial == IndexInit => IndexTypeOK
BY DEF IndexInit, IndexTypeOK, Documents, KeyCounts, Packs, Sources, Syntheses, Texts, Paths

(* The items that are appended, or that deviate.                            *)
LEMMA ItemLists ==
    /\ \A g \in Groups : g.items \in Seq(Items)
    /\ \A items \in OddItems : items \in Seq(Items)
<1>1. \A x, y \in Items : <<x>> \in Seq(Items) /\ <<x, y>> \in Seq(Items) /\ <<>> \in Seq(Items)
  OBVIOUS
<1>2. <<"text", "e1">> \in Items /\ <<"text", "e2">> \in Items /\ <<"other", "e2">> \in Items
  BY DEF Items, Texts, EntityIds
<1>3. \A name \in OddTexts \cup {"text"} : <<name, "e1">> \in Items
  BY DEF Items, Texts, EntityIds
<1>4. \A e \in {NoText, "unsafe", "padded_e1"} : <<"text", e>> \in Items
  BY DEF Items, Texts
<1>5. \A g \in Groups : g.items \in Seq(Items)
  <2> TAKE g \in Groups
  <2>1. g.items \in {<<>>, <<<<"text", "e1">>>>, <<<<"text", "e2">>, <<"other", "e2">>>>}
    BY DEF Groups
  <2> QED
    BY <2>1, <1>1, <1>2
<1>6. "padded" \in OddTexts
  BY DEF OddTexts
<1> QED
  BY <1>1, <1>3, <1>4, <1>5, <1>6 DEF OddItems

(* A field of the last article is replaced by a value of the field's type.  *)
LEMMA ArticleDeviates ==
    ASSUME IndexTypeOK, doc.articles # <<>>, NEW field, NEW v,
           [doc.articles[Len(doc.articles)] EXCEPT ![field] = v] \in Articles
    PROVE  [doc EXCEPT !.articles[Len(doc.articles)][field] = v] \in Documents
<1> DEFINE n == Len(doc.articles)
           a == [doc.articles[n] EXCEPT ![field] = v]
<1>1. doc.articles \in Seq(Articles) /\ n \in DOMAIN doc.articles
  BY DocumentParts DEF IndexTypeOK
<1>2. [doc.articles EXCEPT ![n] = a] \in Seq(Articles)
  BY <1>1
<1> QED
  BY <1>1, <1>2 DEF IndexTypeOK, Documents

LEMMA GroupDeviates ==
    ASSUME IndexTypeOK, doc.groups # <<>>, NEW field, NEW v,
           [doc.groups[Len(doc.groups)] EXCEPT ![field] = v] \in ConceptGroups
    PROVE  [doc EXCEPT !.groups[Len(doc.groups)][field] = v] \in Documents
<1> DEFINE n == Len(doc.groups)
           g == [doc.groups[n] EXCEPT ![field] = v]
<1>1. doc.groups \in Seq(ConceptGroups) /\ n \in DOMAIN doc.groups
  BY DocumentParts DEF IndexTypeOK
<1>2. [doc.groups EXCEPT ![n] = g] \in Seq(ConceptGroups)
  BY <1>1
<1> QED
  BY <1>1, <1>2 DEF IndexTypeOK, Documents

(* Whatever is appended, or deviates, is of the type.                       *)
LEMMA IndexStep == IndexTypeOK /\ [IndexNext]_indexVars => IndexTypeOK'
<1> SUFFICES ASSUME IndexTypeOK, [IndexNext]_indexVars PROVE IndexTypeOK'
  OBVIOUS
<1>1. CASE AddArticle
  <2>1. FirstArticles \subseteq Articles /\ NextArticles \subseteq Articles
    BY DEF FirstArticles, NextArticles, Articles, Texts, EntityIds
  <2>2. PICK a \in Articles : doc' = [doc EXCEPT !.articles = Append(@, a)]
    BY <1>1, <2>1 DEF AddArticle
  <2>3. Append(doc.articles, a) \in Seq(Articles)
    BY DocumentParts DEF IndexTypeOK
  <2> QED
    BY <1>1, <2>2, <2>3 DEF AddArticle, IndexTypeOK, Documents
<1>2. CASE AddGroup
  <2>1. PICK g \in Groups : doc' = [doc EXCEPT !.groups = Append(@, g)]
    BY <1>2 DEF AddGroup
  <2>2. g.items \in Seq(Items)
    BY ItemLists
  <2>3. g \in ConceptGroups
    BY <2>2 DEF Groups, ConceptGroups, Paths
  <2>4. Append(doc.groups, g) \in Seq(ConceptGroups)
    BY <2>3, DocumentParts DEF IndexTypeOK
  <2> QED
    BY <1>2, <2>1, <2>4 DEF AddGroup, IndexTypeOK, Documents
<1>3. CASE AddRow
  BY <1>3 DEF AddRow, IndexTypeOK
<1>4. CASE Deviate
  <2>1. rows' \in Seq(Rows)
    BY <1>4 DEF Deviate, IndexTypeOK
  <2>2. doc \in Documents
    BY DEF IndexTypeOK
  <2> SUFFICES doc' \in Documents
    BY <2>1 DEF IndexTypeOK
  <2>3. CASE \E k \in {"required", "optional", "unknown"}, n \in 0..2 :
                doc' = [doc EXCEPT !.keys[k] = n]
    <3>1. PICK k \in {"required", "optional", "unknown"}, n \in 0..2 :
              doc' = [doc EXCEPT !.keys[k] = n]
      BY <2>3
    <3>2. [doc.keys EXCEPT ![k] = n] \in KeyCounts
      BY <2>2, DocumentParts DEF KeyCounts
    <3> QED
      BY <2>2, <3>1, <3>2 DEF Documents
  <2>4. CASE doc' = [doc EXCEPT !.version = 2]
    BY <2>2, <2>4 DEF Documents
  <2>5. CASE \E t \in OddTexts : doc' = [doc EXCEPT !.pack.text = t]
    <3>1. PICK t \in OddTexts : doc' = [doc EXCEPT !.pack.text = t]
      BY <2>5
    <3>2. [doc.pack EXCEPT !.text = t] \in Packs
      BY <2>2, DocumentParts DEF Packs, Texts
    <3> QED
      BY <2>2, <3>1, <3>2 DEF Documents
  <2>6. CASE doc' = [doc EXCEPT !.pack.language = 0]
    <3>1. [doc.pack EXCEPT !.language = 0] \in Packs
      BY <2>2, DocumentParts DEF Packs
    <3> QED
      BY <2>2, <2>6, <3>1 DEF Documents
  <2>7. CASE \E c \in {"unknown", "none"} : doc' = [doc EXCEPT !.pack.capabilities = c]
    <3>1. PICK c \in {"unknown", "none"} : doc' = [doc EXCEPT !.pack.capabilities = c]
      BY <2>7
    <3>2. [doc.pack EXCEPT !.capabilities = c] \in Packs
      BY <2>2, DocumentParts DEF Packs, Texts
    <3> QED
      BY <2>2, <3>1, <3>2 DEF Documents
  <2>8. CASE \E s \in {"null", "negative"} : doc' = [doc EXCEPT !.stats = s]
    BY <2>2, <2>8 DEF Documents
  <2>9. CASE \E c \in {"huge", "boolean"} :
                doc.articles # <<>> /\ doc' = [doc EXCEPT !.confidence = c]
    BY <2>2, <2>9 DEF Documents
  <2>10. CASE \E v \in {"many_edges", "many_groups"} : doc' = [doc EXCEPT !.volume = v]
    BY <2>2, <2>10 DEF Documents
  <2>11. CASE \E p \in OddPaths : doc' = [doc EXCEPT !.source.id = p]
    <3>1. PICK p \in OddPaths : doc' = [doc EXCEPT !.source.id = p]
      BY <2>11
    <3>2. [doc.source EXCEPT !.id = p] \in Sources
      BY <2>2, DocumentParts DEF Sources, Paths
    <3> QED
      BY <2>2, <3>1, <3>2 DEF Documents
  <2>12. CASE \E t \in OddTexts : doc' = [doc EXCEPT !.source.kind = t]
    <3>1. PICK t \in OddTexts : doc' = [doc EXCEPT !.source.kind = t]
      BY <2>12
    <3>2. [doc.source EXCEPT !.kind = t] \in Sources
      BY <2>2, DocumentParts DEF Sources, Texts
    <3> QED
      BY <2>2, <3>1, <3>2 DEF Documents
  <2>13. CASE \E p \in OddPaths : doc' = [doc EXCEPT !.synthesis.path = p]
    <3>1. PICK p \in OddPaths : doc' = [doc EXCEPT !.synthesis.path = p]
      BY <2>13
    <3>2. [doc.synthesis EXCEPT !.path = p] \in Syntheses
      BY <2>2, DocumentParts DEF Syntheses, Paths
    <3> QED
      BY <2>2, <3>1, <3>2 DEF Documents
  <2>14. CASE \E t \in OddTexts : doc' = [doc EXCEPT !.synthesis.title = t]
    <3>1. PICK t \in OddTexts : doc' = [doc EXCEPT !.synthesis.title = t]
      BY <2>14
    <3>2. [doc.synthesis EXCEPT !.title = t] \in Syntheses
      BY <2>2, DocumentParts DEF Syntheses, Texts
    <3> QED
      BY <2>2, <3>1, <3>2 DEF Documents
  <2>15. CASE \/ LastArticle("id", {NoText, "blank", "unsafe", "long"})
              \/ LastArticle("name", OddTexts) \/ LastArticle("path", OddPaths)
              \/ LastArticle("entity", {NoText, "blank", "unsafe", "padded_e1"})
    <3>1. ASSUME doc.articles # <<>>
          PROVE  doc.articles[Len(doc.articles)] \in Articles
      BY <2>2, <3>1, DocumentParts
    <3>2. CASE LastArticle("id", {NoText, "blank", "unsafe", "long"})
      <4>1. PICK v \in {NoText, "blank", "unsafe", "long"} : doc' = [doc EXCEPT !.articles[Len(doc.articles)]["id"] = v]
        BY <3>2 DEF LastArticle
      <4>2. doc.articles # <<>>
        BY <3>2 DEF LastArticle
      <4>3. [doc.articles[Len(doc.articles)] EXCEPT !["id"] = v] \in Articles
        BY <3>1, <4>2 DEF Articles
      <4> QED
        BY <4>1, <4>2, <4>3, ArticleDeviates
    <3>3. CASE LastArticle("name", OddTexts)
      <4>1. PICK v \in OddTexts : doc' = [doc EXCEPT !.articles[Len(doc.articles)]["name"] = v]
        BY <3>3 DEF LastArticle
      <4>2. doc.articles # <<>>
        BY <3>3 DEF LastArticle
      <4>3. [doc.articles[Len(doc.articles)] EXCEPT !["name"] = v] \in Articles
        BY <3>1, <4>2 DEF Articles, Texts
      <4> QED
        BY <4>1, <4>2, <4>3, ArticleDeviates
    <3>4. CASE LastArticle("path", OddPaths)
      <4>1. PICK v \in OddPaths : doc' = [doc EXCEPT !.articles[Len(doc.articles)]["path"] = v]
        BY <3>4 DEF LastArticle
      <4>2. doc.articles # <<>>
        BY <3>4 DEF LastArticle
      <4>3. [doc.articles[Len(doc.articles)] EXCEPT !["path"] = v] \in Articles
        BY <3>1, <4>2 DEF Articles
      <4> QED
        BY <4>1, <4>2, <4>3, ArticleDeviates
    <3>5. CASE LastArticle("entity", {NoText, "blank", "unsafe", "padded_e1"})
      <4>1. PICK v \in {NoText, "blank", "unsafe", "padded_e1"} : doc' = [doc EXCEPT !.articles[Len(doc.articles)]["entity"] = v]
        BY <3>5 DEF LastArticle
      <4>2. doc.articles # <<>>
        BY <3>5 DEF LastArticle
      <4>3. [doc.articles[Len(doc.articles)] EXCEPT !["entity"] = v] \in Articles
        BY <3>1, <4>2 DEF Articles
      <4> QED
        BY <4>1, <4>2, <4>3, ArticleDeviates
    <3> QED
      BY <2>15, <3>2, <3>3, <3>4, <3>5
  <2>16. CASE \/ LastGroup("path", OddPaths) \/ LastGroup("hash", {"md5", "padded_sha256"})
              \/ LastGroup("items", OddItems)
    <3>1. ASSUME doc.groups # <<>>
          PROVE  doc.groups[Len(doc.groups)] \in ConceptGroups
      BY <2>2, <3>1, DocumentParts
    <3>2. CASE LastGroup("path", OddPaths)
      <4>1. PICK v \in OddPaths : doc' = [doc EXCEPT !.groups[Len(doc.groups)]["path"] = v]
        BY <3>2 DEF LastGroup
      <4>2. doc.groups # <<>>
        BY <3>2 DEF LastGroup
      <4>3. [doc.groups[Len(doc.groups)] EXCEPT !["path"] = v] \in ConceptGroups
        BY <3>1, <4>2 DEF ConceptGroups, Paths
      <4> QED
        BY <4>1, <4>2, <4>3, GroupDeviates
    <3>3. CASE LastGroup("hash", {"md5", "padded_sha256"})
      <4>1. PICK v \in {"md5", "padded_sha256"} : doc' = [doc EXCEPT !.groups[Len(doc.groups)]["hash"] = v]
        BY <3>3 DEF LastGroup
      <4>2. doc.groups # <<>>
        BY <3>3 DEF LastGroup
      <4>3. [doc.groups[Len(doc.groups)] EXCEPT !["hash"] = v] \in ConceptGroups
        BY <3>1, <4>2 DEF ConceptGroups
      <4> QED
        BY <4>1, <4>2, <4>3, GroupDeviates
    <3>4. CASE LastGroup("items", OddItems)
      <4>1. PICK v \in OddItems : doc' = [doc EXCEPT !.groups[Len(doc.groups)]["items"] = v]
        BY <3>4 DEF LastGroup
      <4>2. doc.groups # <<>>
        BY <3>4 DEF LastGroup
      <4>3. [doc.groups[Len(doc.groups)] EXCEPT !["items"] = v] \in ConceptGroups
        BY <3>1, <4>2, ItemLists DEF ConceptGroups
      <4> QED
        BY <4>1, <4>2, <4>3, GroupDeviates
    <3> QED
      BY <2>16, <3>2, <3>3, <3>4
  <2> QED
    BY <1>4, <2>3, <2>4, <2>5, <2>6, <2>7, <2>8, <2>9, <2>10, <2>11, <2>12, <2>13, <2>14,
       <2>15, <2>16
       DEF Deviate
<1>5. CASE UNCHANGED indexVars
  BY <1>5 DEF indexVars, IndexTypeOK
<1> QED
  BY <1>1, <1>2, <1>3, <1>4, <1>5 DEF IndexNext

-----------------------------------------------------------------------------

(* An article with an ID for a page of its own, a group or anything else    *)
(* that is not on the list of Loose: the two validators check alike.        *)
LEMMA ArticleAlike ==
    ASSUME NEW a \in Articles, ~LooseArticle(a), ValidSourceID(a.id)
    PROVE  /\ a.id = NoText \/ ValidSourceID(a.id)
           /\ WithinBytes(a.id, 1024)
           /\ a.entity = NoValue \/ ValidSyntoEntityID(a.entity)
           /\ a.name # NoText /\ WithinBytes(a.name, 4096)
           /\ normalizeSyntoArticlePath(a.path)
           <=> /\ releasedSyntoString(a.id, 1024)
               /\ releasedSyntoString(a.name, 1024)
               /\ releasedSyntoString(a.path, 1024)
               /\ a.entity = NoValue \/ ValidSyntoEntityID(Trimmed(a.entity))
               /\ validSyntoArticlePath(a.path)
<1>1. WithinBytes(a.id, 1024) <=> releasedSyntoString(a.id, 1024)
  BY DEF Articles, LooseArticle, ValidSourceID, releasedSyntoString, WithinBytes, Trimmed
<1>2. a.name # NoText /\ WithinBytes(a.name, 4096) <=> releasedSyntoString(a.name, 1024)
  BY DEF Articles, Texts, OddTexts, LooseArticle, releasedSyntoString, WithinBytes, Trimmed, NoText
<1>3. normalizeSyntoArticlePath(a.path)
      <=> releasedSyntoString(a.path, 1024) /\ validSyntoArticlePath(a.path)
  BY DEF Articles, OddPaths, LooseArticle, releasedSyntoString, WithinBytes, Trimmed,
         normalizeSyntoArticlePath, safeSyntoRelativePath, validSyntoArticlePath
<1>4. ValidSyntoEntityID(a.entity) <=> ValidSyntoEntityID(Trimmed(a.entity))
  BY DEF Articles, LooseArticle, ValidSyntoEntityID, EntityIds, Trimmed, NoText, NoValue
<1> QED
  BY <1>1, <1>2, <1>3, <1>4

LEMMA ArticlesAlike ==
    ASSUME NEW d \in Documents, ~Loose(d), \A i \in DOMAIN d.articles : ValidSourceID(d.articles[i].id)
    PROVE  decodeSyntoArticles(d.articles)
           <=> /\ validateReleasedSyntoArticles(d.articles)
               /\ \A i \in DOMAIN d.articles : validSyntoArticlePath(d.articles[i].path)
<1>1. \A i \in DOMAIN d.articles : d.articles[i] \in Articles /\ ~LooseArticle(d.articles[i])
  BY DocumentParts DEF Loose
<1> QED
  BY <1>1, ArticleAlike DEF decodeSyntoArticles, validateReleasedSyntoArticles

(* Articles that both accept are read alike.                                *)
LEMMA EntitiesReadAlike ==
    ASSUME NEW d \in Documents, decodeSyntoArticles(d.articles)
    PROVE  decodeSyntoIdentityArticles(d.articles) = d.articles
<1>1. ASSUME NEW i \in DOMAIN d.articles
      PROVE  [d.articles[i] EXCEPT !.entity = Trimmed(@)] = d.articles[i]
  <2>1. d.articles[i] \in Articles
    BY <1>1, DocumentParts
  <2>2. d.articles[i].entity \in {NoValue, "e1", "e2"}
    BY <1>1 DEF decodeSyntoArticles, ValidSyntoEntityID, EntityIds
  <2>3. Trimmed(d.articles[i].entity) = d.articles[i].entity
    BY <2>2 DEF Trimmed, NoValue
  <2> QED
    BY <2>1, <2>3 DEF Articles
<1>2. d.articles = [i \in DOMAIN d.articles |-> d.articles[i]]
  <2>1. d.articles \in Seq(Articles)
    BY DocumentParts
  <2> QED
    BY <2>1
<1>3. [i \in DOMAIN d.articles |-> [d.articles[i] EXCEPT !.entity = Trimmed(@)]]
      = [i \in DOMAIN d.articles |-> d.articles[i]]
  BY <1>1
<1> QED
  BY <1>2, <1>3 DEF decodeSyntoIdentityArticles

(* The path of a source concept, which the BFF reads untrimmed once more.   *)
LEMMA GroupPathAlike ==
    ASSUME NEW path \in {"s2"} \cup Paths,
           path \notin {"blank", "spaced", "masked", "dotted", "unclean", "nul"}
    PROVE  safeSyntoRelativePath(path)
           <=> /\ WithinBytes(path, 1024) /\ safeSyntoSourcePath(Trimmed(path))
               /\ safeSyntoSourcePath(path)
BY DEF Paths, OddPaths, safeSyntoRelativePath, safeSyntoSourcePath, WithinBytes, Trimmed, NoText

LEMMA SourceIdAlike ==
    ASSUME NEW id \in Paths, id \notin {"blank", "spaced", "masked", "dotted", "unclean"}
    PROVE  safeSyntoSourceID(id) <=> safeReleasedSyntoSourceID(id)
BY DEF Paths, OddPaths, safeSyntoRelativePath, safeSyntoSourcePath, safeSyntoSourceID,
       safeReleasedSyntoSourceID, WithinBytes, NoText

LEMMA SynthesisPathAlike ==
    ASSUME NEW path \in Paths, path \notin {"blank", "masked", "dotted", "unclean", "nul"}
    PROVE  safeSyntoRelativePath(path)
           <=> WithinBytes(path, 1024) /\ safeSyntoSourcePath(Trimmed(path))
BY DEF Paths, OddPaths, safeSyntoRelativePath, safeSyntoSourcePath, WithinBytes, Trimmed, NoText

LEMMA PathKept ==
    ASSUME NEW path \in {"s2"} \cup Paths, path \notin {"blank", "spaced", "masked"}
    PROVE  Trimmed(path) = path
BY DEF Paths, OddPaths, Trimmed, NoText

(* One source concept of a group.                                           *)
LEMMA ItemAlike ==
    ASSUME NEW item \in Items, item[1] # "blank"
    PROVE  item[1] # NoText /\ WithinBytes(item[1], 4096) /\ ValidSyntoEntityID(item[2])
           <=> /\ releasedSyntoString(item[1], 4096) /\ ValidSyntoEntityID(Trimmed(item[2]))
               /\ ValidSyntoEntityID(item[2])
<1>1. item[1] \in {"other"} \cup Texts /\ item[2] \in EntityIds \cup {NoText, "unsafe", "padded_e1"}
  BY DEF Items
<1>2. item[1] # NoText /\ WithinBytes(item[1], 4096) <=> releasedSyntoString(item[1], 4096)
  BY <1>1 DEF Texts, OddTexts, releasedSyntoString, WithinBytes, Trimmed, NoText
<1>3. ValidSyntoEntityID(item[2]) => ValidSyntoEntityID(Trimmed(item[2]))
  BY <1>1 DEF ValidSyntoEntityID, EntityIds, Trimmed
<1> QED
  BY <1>2, <1>3

(* The items of one group, and what the BFF asks of them twice.             *)
LEMMA GroupAlike ==
    ASSUME NEW g \in ConceptGroups, ~LooseGroup(g)
    PROVE  /\ safeSyntoRelativePath(g.path) /\ ValidContentHash(g.hash)
           /\ decodeSyntoSourceConceptItems(g.items) /\ NoDuplicates(g.items)
           <=> /\ WithinBytes(g.path, 1024) /\ safeSyntoSourcePath(Trimmed(g.path))
               /\ ValidContentHash(Trimmed(g.hash))
               /\ \A j \in DOMAIN g.items : /\ releasedSyntoString(g.items[j][1], 4096)
                                            /\ ValidSyntoEntityID(Trimmed(g.items[j][2]))
               /\ \A j, k \in DOMAIN g.items :
                      Trimmed(g.items[j][1]) = Trimmed(g.items[k][1])
                      /\ Trimmed(g.items[j][2]) = Trimmed(g.items[k][2]) => j = k
               /\ safeSyntoSourcePath(g.path) /\ ValidContentHash(g.hash)
               /\ \A j \in DOMAIN g.items : ValidSyntoEntityID(g.items[j][2])
<1>1. g.path \in {"s2"} \cup Paths /\ \A j \in DOMAIN g.items : g.items[j] \in Items
  BY DEF ConceptGroups
<1>2. safeSyntoRelativePath(g.path)
      <=> /\ WithinBytes(g.path, 1024) /\ safeSyntoSourcePath(Trimmed(g.path))
          /\ safeSyntoSourcePath(g.path)
  <2>1. g.path \notin {"blank", "spaced", "masked", "dotted", "unclean", "nul"}
    BY DEF LooseGroup
  <2> DEFINE p == g.path
  <2>2. p \in {"s2"} \cup Paths /\ p \notin {"blank", "spaced", "masked", "dotted", "unclean", "nul"}
    BY <1>1, <2>1
  <2> HIDE DEF p
  <2>3. safeSyntoRelativePath(p)
        <=> WithinBytes(p, 1024) /\ safeSyntoSourcePath(Trimmed(p)) /\ safeSyntoSourcePath(p)
    BY <2>2, GroupPathAlike
  <2> QED
    BY <2>3 DEF p
<1>3. ValidContentHash(g.hash) => ValidContentHash(Trimmed(g.hash))
  BY DEF ValidContentHash, Trimmed
<1>4. decodeSyntoSourceConceptItems(g.items)
      <=> \A j \in DOMAIN g.items : /\ releasedSyntoString(g.items[j][1], 4096)
                                   /\ ValidSyntoEntityID(Trimmed(g.items[j][2]))
                                   /\ ValidSyntoEntityID(g.items[j][2])
  <2>1. \A j \in DOMAIN g.items : g.items[j][1] # "blank"
    BY DEF LooseGroup
  <2> QED
    BY <1>1, <2>1, ItemAlike DEF decodeSyntoSourceConceptItems
<1>5. ASSUME \A j \in DOMAIN g.items : ValidSyntoEntityID(g.items[j][2])
      PROVE  NoDuplicates(g.items)
             <=> \A j, k \in DOMAIN g.items :
                    Trimmed(g.items[j][1]) = Trimmed(g.items[k][1])
                    /\ Trimmed(g.items[j][2]) = Trimmed(g.items[k][2]) => j = k
  <2>1. \A j \in DOMAIN g.items : Trimmed(g.items[j][2]) = g.items[j][2]
    BY <1>5 DEF ValidSyntoEntityID, EntityIds, Trimmed
  <2>2. ASSUME NEW j \in DOMAIN g.items, NEW k \in DOMAIN g.items
        PROVE  g.items[j] = g.items[k]
               <=> /\ Trimmed(g.items[j][1]) = Trimmed(g.items[k][1])
                   /\ g.items[j][2] = g.items[k][2]
    BY <2>2 DEF LooseGroup
  <2> QED
    BY <2>1, <2>2 DEF NoDuplicates
<1> QED
  BY <1>2, <1>3, <1>4, <1>5

LEMMA GroupsAlike ==
    ASSUME NEW d \in Documents, ~Loose(d)
    PROVE  decodeSyntoSourceConcepts(d.groups, d.volume)
           <=> /\ validateReleasedSyntoSourceConcepts(d.groups, d.volume)
               /\ decodeSyntoIdentitySourceConcepts(d.groups)
<1>1. \A i \in DOMAIN d.groups : d.groups[i] \in ConceptGroups /\ ~LooseGroup(d.groups[i])
  BY DocumentParts DEF Loose
<1>2. d.volume = "bounded"
  BY DEF Loose
<1>3. \A i \in DOMAIN d.groups : Trimmed(d.groups[i].path) = d.groups[i].path
  <2>1. \A i \in DOMAIN d.groups : /\ d.groups[i].path \in {"s2"} \cup Paths
                                   /\ d.groups[i].path \notin {"blank", "spaced", "masked"}
    BY <1>1 DEF ConceptGroups, LooseGroup
  <2> QED
    BY <2>1, PathKept
<1>4. Injective(d.groups, LAMBDA g : g.path) <=> Injective(d.groups, LAMBDA g : Trimmed(g.path))
  BY <1>3 DEF Injective
<1>5. \A i \in DOMAIN d.groups :
          /\ safeSyntoRelativePath(d.groups[i].path) /\ ValidContentHash(d.groups[i].hash)
          /\ decodeSyntoSourceConceptItems(d.groups[i].items) /\ NoDuplicates(d.groups[i].items)
          <=> /\ WithinBytes(d.groups[i].path, 1024) /\ safeSyntoSourcePath(Trimmed(d.groups[i].path))
              /\ ValidContentHash(Trimmed(d.groups[i].hash))
              /\ \A j \in DOMAIN d.groups[i].items :
                     /\ releasedSyntoString(d.groups[i].items[j][1], 4096)
                     /\ ValidSyntoEntityID(Trimmed(d.groups[i].items[j][2]))
              /\ \A j, k \in DOMAIN d.groups[i].items :
                     Trimmed(d.groups[i].items[j][1]) = Trimmed(d.groups[i].items[k][1])
                     /\ Trimmed(d.groups[i].items[j][2]) = Trimmed(d.groups[i].items[k][2]) => j = k
              /\ safeSyntoSourcePath(d.groups[i].path) /\ ValidContentHash(d.groups[i].hash)
              /\ \A j \in DOMAIN d.groups[i].items : ValidSyntoEntityID(d.groups[i].items[j][2])
  BY <1>1, GroupAlike
<1> QED
  BY <1>2, <1>4, <1>5
     DEF decodeSyntoSourceConcepts, validateReleasedSyntoSourceConcepts, decodeSyntoIdentitySourceConcepts

LEMMA RestAlike ==
    ASSUME NEW d \in Documents, ~Loose(d)
    PROVE  /\ decodeSyntoPack(d.pack) <=> validateReleasedSyntoPack(d.pack)
           /\ decodeSyntoStats(d.stats) <=> validateReleasedSyntoStats(d.stats)
           /\ decodeSyntoConfidence(d.confidence) <=> validateReleasedSyntoConfidence(d.confidence)
           /\ decodeSyntoSources(d.source) <=> validateReleasedSyntoSources(d.source)
           /\ decodeSyntoSynthesis(d.synthesis) <=> validateReleasedSyntoSynthesis(d.synthesis)
<1>1. decodeSyntoPack(d.pack) <=> validateReleasedSyntoPack(d.pack)
  <2>1. /\ d.pack.text \in Texts /\ d.pack.language \in {0, 1}
        /\ d.pack.capabilities \in {"known", "unknown", "none"}
    BY DocumentParts DEF Packs
  <2>2. d.pack.text \notin {NoText, "blank"} /\ d.pack.language # 0 /\ d.pack.capabilities # "none"
    BY DEF Loose
  <2> QED
    BY <2>1, <2>2 DEF decodeSyntoPack, validateReleasedSyntoPack, releasedSyntoString, WithinBytes,
                      Trimmed, NoText, Texts, OddTexts
<1>2. /\ decodeSyntoStats(d.stats) <=> validateReleasedSyntoStats(d.stats)
      /\ decodeSyntoConfidence(d.confidence) <=> validateReleasedSyntoConfidence(d.confidence)
  <2>1. d.stats # "null" /\ d.confidence # "huge"
    BY DEF Loose
  <2> QED
    BY <2>1, DocumentParts DEF decodeSyntoStats, validateReleasedSyntoStats, decodeSyntoConfidence,
                              validateReleasedSyntoConfidence
<1>3. decodeSyntoSources(d.source) <=> validateReleasedSyntoSources(d.source)
  <2>1. d.source.id \in Paths /\ d.source.kind \in Texts
    BY DocumentParts DEF Sources
  <2>2. d.source.id \notin {"blank", "spaced", "masked", "dotted", "unclean"} /\ d.source.kind # "blank"
    BY DEF Loose
  <2>3. d.source.kind # NoText /\ WithinBytes(d.source.kind, 256) <=> releasedSyntoString(d.source.kind, 256)
    BY <2>1, <2>2 DEF releasedSyntoString, WithinBytes, Trimmed, NoText, Texts, OddTexts
  <2> QED
    BY <2>1, <2>2, <2>3, SourceIdAlike DEF decodeSyntoSources, validateReleasedSyntoSources
<1>4. decodeSyntoSynthesis(d.synthesis) <=> validateReleasedSyntoSynthesis(d.synthesis)
  <2>1. d.synthesis.path \in Paths /\ d.synthesis.title \in Texts
    BY DocumentParts DEF Syntheses
  <2>2. /\ d.synthesis.path \notin {"blank", "masked", "dotted", "unclean", "nul"}
        /\ d.synthesis.title # "blank"
    BY DEF Loose
  <2>3. d.synthesis.title # NoText /\ WithinBytes(d.synthesis.title, 4096)
        <=> releasedSyntoString(d.synthesis.title, 4096)
    BY <2>1, <2>2 DEF releasedSyntoString, WithinBytes, Trimmed, NoText, Texts, OddTexts
  <2> QED
    BY <2>1, <2>2, <2>3, SynthesisPathAlike DEF decodeSyntoSynthesis, validateReleasedSyntoSynthesis
<1> QED
  BY <1>1, <1>2, <1>3, <1>4

(* For every document that is not on the list the two decoders plan alike.  *)
LEMMA DocumentsDecodeAlike ==
    ASSUME NEW d \in Documents, ~Loose(d)
    PROVE  DecodeSyntoIdentityPlan(d) = syntoIdentityPlanFromIndex(d)
<1>1. CASE \A i \in DOMAIN d.articles : ValidSourceID(d.articles[i].id)
  <2>1. decodeSyntoIndex(d)
        <=> /\ validateReleasedSyntoIndex(d) /\ decodeSyntoIdentitySourceConcepts(d.groups)
            /\ \A i \in DOMAIN d.articles : validSyntoArticlePath(d.articles[i].path)
    BY <1>1, ArticlesAlike, GroupsAlike, RestAlike DEF decodeSyntoIndex, validateReleasedSyntoIndex
  <2>2. decodeSyntoIndex(d) => decodeSyntoIdentityArticles(d.articles) = d.articles
    BY EntitiesReadAlike DEF decodeSyntoIndex
  <2> QED
    BY <2>1, <2>2 DEF DecodeSyntoIdentityPlan, syntoIdentityPlanFromIndex
<1>2. CASE ~ \A i \in DOMAIN d.articles : ValidSourceID(d.articles[i].id)
  <2>1. PICK i \in DOMAIN d.articles : ~ValidSourceID(d.articles[i].id)
    BY <1>2
  <2>2. d.articles[i] \in Articles
    BY DocumentParts
  <2>3. /\ i \in DOMAIN decodeSyntoIdentityArticles(d.articles)
        /\ decodeSyntoIdentityArticles(d.articles)[i].id = d.articles[i].id
    BY <2>2 DEF decodeSyntoIdentityArticles, Articles
  <2> QED
    BY <2>1, <2>3 DEF DecodeSyntoIdentityPlan, syntoIdentityPlanFromIndex, PlanOf, Rejected
<1> QED
  BY <1>1, <1>2

(* What is on the list is refused by the one or by the other.               *)
LEMMA LooseIsRefused ==
    ASSUME NEW d \in Documents, Loose(d)
    PROVE  Rejected \in {DecodeSyntoIdentityPlan(d), syntoIdentityPlanFromIndex(d)}
<1> SUFFICES ASSUME decodeSyntoIndex(d), validateReleasedSyntoIndex(d),
                    decodeSyntoIdentitySourceConcepts(d.groups),
                    \A i \in DOMAIN d.articles : validSyntoArticlePath(d.articles[i].path)
             PROVE  FALSE
  BY DEF DecodeSyntoIdentityPlan, syntoIdentityPlanFromIndex
<1>1. ~ (d.pack.text \in {NoText, "blank"} \/ d.pack.language = 0 \/ d.pack.capabilities = "none")
  <2>1. validateReleasedSyntoPack(d.pack)
    BY DEF validateReleasedSyntoIndex
  <2> QED
    BY <2>1 DEF validateReleasedSyntoPack, releasedSyntoString, Trimmed, NoText
<1>2. ~ (d.stats = "null" \/ d.confidence = "huge" \/ d.volume # "bounded")
  BY DocumentParts
     DEF decodeSyntoIndex, validateReleasedSyntoIndex, validateReleasedSyntoStats,
         validateReleasedSyntoConfidence, decodeSyntoSourceConcepts, validateReleasedSyntoSourceConcepts
<1>3. ~ (\/ d.source.id \in {"blank", "spaced", "masked", "dotted", "unclean"}
         \/ d.source.kind = "blank")
  <2>1. decodeSyntoSources(d.source) /\ validateReleasedSyntoSources(d.source)
    BY DEF decodeSyntoIndex, validateReleasedSyntoIndex
  <2> QED
    BY <2>1 DEF decodeSyntoSources, validateReleasedSyntoSources, safeSyntoSourceID,
                safeReleasedSyntoSourceID, safeSyntoRelativePath, safeSyntoSourcePath,
                releasedSyntoString, Trimmed
<1>4. ~ (\/ d.synthesis.path \in {"blank", "masked", "dotted", "unclean", "nul"}
         \/ d.synthesis.title = "blank")
  <2>1. decodeSyntoSynthesis(d.synthesis) /\ validateReleasedSyntoSynthesis(d.synthesis)
    BY DEF decodeSyntoIndex, validateReleasedSyntoIndex
  <2> QED
    BY <2>1 DEF decodeSyntoSynthesis, validateReleasedSyntoSynthesis, safeSyntoRelativePath,
                safeSyntoSourcePath, releasedSyntoString, Trimmed, NoText
<1>5. ASSUME NEW i \in DOMAIN d.articles PROVE ~LooseArticle(d.articles[i])
  <2>1. /\ releasedSyntoString(d.articles[i].id, 1024)
        /\ releasedSyntoString(d.articles[i].name, 1024)
        /\ validSyntoArticlePath(d.articles[i].path)
    BY <1>5 DEF validateReleasedSyntoIndex, validateReleasedSyntoArticles
  <2>2. /\ d.articles[i].entity = NoValue \/ ValidSyntoEntityID(d.articles[i].entity)
        /\ normalizeSyntoArticlePath(d.articles[i].path)
    BY <1>5 DEF decodeSyntoIndex, decodeSyntoArticles
  <2> QED
    BY <2>1, <2>2 DEF LooseArticle, releasedSyntoString, WithinBytes, Trimmed, validSyntoArticlePath,
                      normalizeSyntoArticlePath, ValidSyntoEntityID, EntityIds, NoValue
<1>6. ASSUME NEW i \in DOMAIN d.groups PROVE ~LooseGroup(d.groups[i])
  <2> DEFINE g == d.groups[i]
  <2>1. /\ safeSyntoRelativePath(g.path) /\ safeSyntoSourcePath(g.path)
        /\ \A j \in DOMAIN g.items : /\ releasedSyntoString(g.items[j][1], 4096)
                                     /\ ValidSyntoEntityID(g.items[j][2])
    BY <1>6 DEF decodeSyntoIndex, decodeSyntoSourceConcepts, decodeSyntoIdentitySourceConcepts,
                validateReleasedSyntoIndex, validateReleasedSyntoSourceConcepts
  <2>2. \A j, k \in DOMAIN g.items :
            Trimmed(g.items[j][1]) = Trimmed(g.items[k][1])
            /\ Trimmed(g.items[j][2]) = Trimmed(g.items[k][2]) => j = k
    BY <1>6 DEF validateReleasedSyntoIndex, validateReleasedSyntoSourceConcepts
  <2>3. g.path \notin {"blank", "spaced", "masked", "dotted", "unclean", "nul"}
    BY <2>1 DEF safeSyntoRelativePath, safeSyntoSourcePath
  <2>4. \A j \in DOMAIN g.items : g.items[j][1] # "blank"
    BY <2>1 DEF releasedSyntoString, Trimmed
  <2> QED
    BY <2>2, <2>3, <2>4 DEF LooseGroup
<1> QED
  BY <1>1, <1>2, <1>3, <1>4, <1>5, <1>6 DEF Loose

(* DecodeSyntoIdentityPlan and the worker's decodeSyntoIndex with           *)
(* syntoIdentityPlanFromIndex read the same plan from every INDEX, however  *)
(* many articles and groups it has, unless it has a field of the list; and  *)
(* then one of them refuses it.                                             *)
THEOREM DecodersStayAlike == IndexSpec => []DecodersAgree
<1>1. IndexTypeOK => DecodersAgree
  BY DocumentsDecodeAlike, LooseIsRefused DEF IndexTypeOK, DecodersAgree
<1> QED
  BY IndexInitial, IndexStep, <1>1, PTL DEF IndexSpec

-----------------------------------------------------------------------------

(* A proof's ID and its path lead to one article.                           *)
LEMMA ProofNames ==
    ASSUME NEW list, NEW r, ProofOk(list, r)
    PROVE  \E k \in DOMAIN list : list[k].id = r.id /\ list[k].path = r.path
<1> DEFINE n == IndexOf(list, "id", r.id)
<1>1. n \in DOMAIN list /\ list[n]["id"] = r.id
  BY DEF ProofOk, Has, IndexOf
<1>2. list[n]["path"] = r.path
  <2>1. n = IndexOf(list, "path", r.path)
    BY DEF ProofOk
  <2> QED
    BY <2>1 DEF ProofOk, Has, IndexOf
<1> QED
  BY <1>1, <1>2

(* A filled article had no entity, and a proof names it by ID and by path.  *)
LEMMA FillIsProved ==
    ASSUME NEW d \in Documents, NEW agent,
           UniqueForJoin(d.articles), ProofsOk(d.articles, agent),
           NEW i \in DOMAIN d.articles, Fills(d.articles, agent)[i] # NoValue
    PROVE  /\ d.articles[i].entity = NoValue
           /\ \E p \in Proofs(agent) :
                  /\ agent[p].entity = Fills(d.articles, agent)[i]
                  /\ agent[p].id = d.articles[i].id /\ agent[p].path = d.articles[i].path
                  /\ agent[p].id # NoText
<1>1. /\ d.articles[i].entity = NoValue
      /\ ProofsFor(agent, d.articles[i].id) # {}
      /\ Fills(d.articles, agent)[i] = ProvedEntity(agent, d.articles[i].id)
  BY DEF Fills
<1>2. PICK p \in Proofs(agent) : /\ agent[p].id = d.articles[i].id
                                 /\ agent[p].entity = Fills(d.articles, agent)[i]
  BY <1>1 DEF ProofsFor, ProvedEntity
<1>3. ProofOk(d.articles, agent[p])
  BY <1>2 DEF ProofsOk
<1>4. agent[p].id # NoText
  BY <1>3 DEF ProofOk
<1>5. PICK named \in DOMAIN d.articles :
          d.articles[named].id = agent[p].id /\ d.articles[named].path = agent[p].path
  BY <1>3, ProofNames
<1>6. named = i
  BY <1>2, <1>4, <1>5 DEF UniqueForJoin
<1> QED
  BY <1>1, <1>2, <1>4, <1>5, <1>6

(* What the join changes: entities, and only where a fill is.               *)
LEMMA FilledArticles ==
    ASSUME NEW d \in Documents, NEW fills
    PROVE  LET out == applyAgentEntityFillsToIndex(d, fills)
           IN  /\ DOMAIN out.articles = DOMAIN d.articles
               /\ out.groups = d.groups
               /\ \A i \in DOMAIN d.articles :
                      /\ out.articles[i].id = d.articles[i].id
                      /\ out.articles[i].path = d.articles[i].path
                      /\ out.articles[i].entity = IF fills[i] = NoValue THEN d.articles[i].entity
                                                  ELSE fills[i]
<1> DEFINE out == applyAgentEntityFillsToIndex(d, fills)
<1>1. \A i \in DOMAIN d.articles : d.articles[i] \in Articles
  BY DocumentParts
<1>2. /\ out.groups = d.groups
      /\ out.articles = [i \in DOMAIN d.articles |->
                            IF fills[i] = NoValue THEN d.articles[i]
                            ELSE [d.articles[i] EXCEPT !.entity = fills[i]]]
  BY DEF applyAgentEntityFillsToIndex, Documents
<1>3. ASSUME NEW i \in DOMAIN d.articles
      PROVE  /\ out.articles[i].id = d.articles[i].id
             /\ out.articles[i].path = d.articles[i].path
             /\ out.articles[i].entity = IF fills[i] = NoValue THEN d.articles[i].entity
                                         ELSE fills[i]
  BY <1>1, <1>2 DEF Articles
<1> QED
  BY <1>2, <1>3

(* No entity has two articles after the join: not two of the INDEX, not a   *)
(* filled one and one of the INDEX, not two filled ones.                    *)
LEMMA FilledDistinct ==
    ASSUME NEW d \in Documents, NEW agent,
           UniqueForJoin(d.articles), ProofsOk(d.articles, agent),
           \A i \in DOMAIN d.articles : Fills(d.articles, agent)[i] # NoValue =>
               ~Has(d.articles, "entity", Fills(d.articles, agent)[i])
    PROVE  EntitiesDistinct(
               applyAgentEntityFillsToIndex(d, Fills(d.articles, agent)).articles)
<1> DEFINE fills == Fills(d.articles, agent)
           out == applyAgentEntityFillsToIndex(d, fills)
<1> SUFFICES ASSUME NEW i \in DOMAIN d.articles, NEW j \in DOMAIN d.articles,
                    out.articles[i].entity = out.articles[j].entity,
                    out.articles[i].entity # NoValue
             PROVE  i = j
  BY FilledArticles DEF EntitiesDistinct
<1>1. ASSUME NEW k \in DOMAIN d.articles
      PROVE  out.articles[k].entity = IF fills[k] = NoValue THEN d.articles[k].entity ELSE fills[k]
  BY FilledArticles
<1>2. ASSUME NEW k \in DOMAIN d.articles, NEW l \in DOMAIN d.articles, fills[k] # NoValue
      PROVE  d.articles[l].entity # fills[k]
  BY <1>2 DEF Has
<1>3. CASE fills[i] = NoValue /\ fills[j] = NoValue
  BY <1>1, <1>3 DEF UniqueForJoin, EntitiesDistinct
<1>4. CASE fills[i] # NoValue /\ fills[j] # NoValue
  <2>1. fills[i] = fills[j]
    BY <1>1, <1>4
  <2>2. PICK p \in Proofs(agent) : /\ agent[p].entity = fills[i] /\ agent[p].id # NoText
                                   /\ agent[p].id = d.articles[i].id
    BY <1>4, FillIsProved
  <2>3. PICK q \in Proofs(agent) : /\ agent[q].entity = fills[j]
                                   /\ agent[q].id = d.articles[j].id
    BY <1>4, FillIsProved
  <2>4. p = q
    BY <2>1, <2>2, <2>3 DEF ProofsOk
  <2> QED
    BY <2>2, <2>3, <2>4 DEF UniqueForJoin
<1>5. CASE (fills[i] = NoValue) # (fills[j] = NoValue)
  BY <1>1, <1>2, <1>5
<1> QED
  BY <1>3, <1>4, <1>5

(* An INDEX that could be planned from still can after the join.            *)
LEMMA FilledPlans ==
    ASSUME NEW d \in Documents, NEW fills,
           EntitiesDistinct(applyAgentEntityFillsToIndex(d, fills).articles),
           decodeSyntoIndex(applyAgentEntityFillsToIndex(d, fills)),
           syntoIdentityPlanFromIndex(d) # Rejected
    PROVE  syntoIdentityPlanFromIndex(applyAgentEntityFillsToIndex(d, fills)) # Rejected
<1> DEFINE out == applyAgentEntityFillsToIndex(d, fills)
<1>1. /\ \A i \in DOMAIN d.articles : ValidSourceID(d.articles[i].id)
      /\ Injective(d.articles, LAMBDA a : a.id)
      /\ Injective(d.articles, LAMBDA a : LowerSlug(a.path))
  BY DEF syntoIdentityPlanFromIndex, PlanOf
<1>2. /\ DOMAIN out.articles = DOMAIN d.articles
      /\ \A i \in DOMAIN d.articles : /\ out.articles[i].id = d.articles[i].id
                                      /\ out.articles[i].path = d.articles[i].path
  BY FilledArticles
<1>3. /\ \A i \in DOMAIN out.articles : ValidSourceID(out.articles[i].id)
      /\ Injective(out.articles, LAMBDA a : a.id)
      /\ Injective(out.articles, LAMBDA a : LowerSlug(a.path))
  BY <1>1, <1>2 DEF Injective
<1>4. PlanOf(out.articles, out.groups) # Rejected
  BY <1>3 DEF PlanOf, Rejected
<1> QED
  BY <1>4 DEF syntoIdentityPlanFromIndex

(* enrichSyntoIndexWithAgentConcepts, for every INDEX and every list of     *)
(* agent concepts, however long: it fills only what a concept proves, no    *)
(* entity ends with two articles, and no INDEX is spoiled.                  *)
THEOREM JoinStaysSound == IndexSpec => []EnrichSound
<1>1. IndexTypeOK => EnrichSound
  <2> SUFFICES ASSUME IndexTypeOK, NEW out \in exportSyntoIndex
               PROVE  /\ \A i \in DOMAIN doc.articles :
                            LET before == doc.articles[i].entity  after == out.articles[i].entity
                            IN  /\ before # NoValue => after = before
                                /\ after # before => \E r \in Values(rows) :
                                       /\ r.entity = after /\ r.id = doc.articles[i].id
                                       /\ r.path = doc.articles[i].path
                      /\ EntitiesDistinct(out.articles)
                      /\ syntoIdentityPlanFromIndex(doc) # Rejected
                            => syntoIdentityPlanFromIndex(out) # Rejected
    BY DEF EnrichSound
  <2> DEFINE fills == Fills(doc.articles, rows)
  <2>1. doc \in Documents
    BY DEF IndexTypeOK
  <2>2. /\ out = applyAgentEntityFillsToIndex(doc, fills)
        /\ UniqueForJoin(doc.articles) /\ ProofsOk(doc.articles, rows)
        /\ \A i \in DOMAIN doc.articles : fills[i] # NoValue =>
               ~Has(doc.articles, "entity", fills[i])
        /\ decodeSyntoIndex(out)
    BY DEF exportSyntoIndex, enrichSyntoIndexWithAgentConcepts, Rejected
  <2>3. ASSUME NEW i \in DOMAIN doc.articles, fills[i] # NoValue
        PROVE  /\ doc.articles[i].entity = NoValue
               /\ \E r \in Values(rows) : /\ r.entity = fills[i] /\ r.id = doc.articles[i].id
                                          /\ r.path = doc.articles[i].path
    <3>1. doc.articles[i].entity = NoValue
      BY <2>1, <2>2, <2>3, FillIsProved
    <3>2. PICK p \in Proofs(rows) : /\ rows[p].entity = fills[i]
                                    /\ rows[p].id = doc.articles[i].id
                                    /\ rows[p].path = doc.articles[i].path
      BY <2>1, <2>2, <2>3, FillIsProved
    <3>3. rows[p] \in Values(rows)
      BY <3>2 DEF Proofs, Values
    <3> QED
      BY <3>1, <3>2, <3>3
  <2>4. ASSUME NEW i \in DOMAIN doc.articles
        PROVE  out.articles[i].entity = IF fills[i] = NoValue THEN doc.articles[i].entity
                                        ELSE fills[i]
    BY <2>1, <2>2, FilledArticles
  <2>5. EntitiesDistinct(out.articles)
    BY <2>1, <2>2, FilledDistinct
  <2>6. syntoIdentityPlanFromIndex(doc) # Rejected => syntoIdentityPlanFromIndex(out) # Rejected
    BY <2>1, <2>2, <2>5, FilledPlans
  <2> QED
    BY <2>3, <2>4, <2>5, <2>6
<1> QED
  BY IndexInitial, IndexStep, <1>1, PTL DEF IndexSpec
=============================================================================
