---------------------------- MODULE AdminProofs ----------------------------
(***************************************************************************)
(* Projects and users, for every set of owners, keys, generated IDs and    *)
(* requests: what a deletion removes, what it leaves, and that a key names *)
(* one project.                                                            *)
(***************************************************************************)
EXTENDS ProjectAdmin, FiniteSetTheorems, SequenceTheorems, TLAPS

DocType == [project : ProjectIds \cup {Nothing, LegacyProject},
            key : IdempotencyKeys \cup {Nothing}, user : Owners \cup {Nothing},
            url : BOOLEAN, name : SingleParts \cup {Nothing}]

InitType == [at : {"new", "create", "answered", "failed", "conflict"},
             user : Owners \cup {Nothing}, key : IdempotencyKeys \cup {Nothing},
             project : ProjectIds \cup {Nothing, LegacyProject}]

DeletionType == [at : {"idle", "gcs", "doc"}, user : Owners \cup {Nothing},
                 projects : Seq(DocIds), markers : Seq(DocIds)]

AdminTypeOK ==
    /\ docs \in [DocIds -> DocType]
    /\ users \subseteq Owners
    /\ objects \subseteq Owners \X (ProjectIds \cup {LegacyProject})
    /\ writing \subseteq Owners \X (ProjectIds \cup {LegacyProject})
    /\ init \in [Inits -> InitType]
    /\ deletion \in [Deletions -> DeletionType]

-----------------------------------------------------------------------------
(* What the documents of the collection are *)

IsProject(d, doc) ==
    \E o \in Owners, p \in ProjectIds :
        /\ d = projectDocID(o, p) /\ doc.project = p
        /\ doc.user = o /\ ~doc.url

IsMarker(d, doc) ==
    \E o \in Owners, k \in IdempotencyKeys :
        /\ d = projectDocID(o, k) /\ doc.key = k
        /\ doc.user = o /\ doc.url /\ doc.project \in ProjectIds

IsLegacy(d, doc) ==
    \E o \in Owners, s \in {LegacyProject, Label} :
        /\ d = projectDocID(o, s) /\ doc.project = LegacyProject
        /\ doc.user = Nothing /\ doc.key = Nothing /\ ~doc.url

DocsFormed ==
    \A d \in DocIds : Exists(d) => IsProject(d, docs[d]) \/ IsMarker(d, docs[d]) \/ IsLegacy(d, docs[d])

(* Only a marker names a project a second time. *)
ProjectsUnique ==
    \A d, e \in DocIds :
        Exists(d) /\ Exists(e) /\ ~docs[d].url /\ ~docs[e].url /\ docs[d].project = docs[e].project => d = e

(* A generated ID is in no document and in no other request. *)
CreatesFresh ==
    \A r \in Inits : init[r].at = "create" =>
        /\ init[r].user \in Owners /\ init[r].project \in ProjectIds
        /\ \A d \in DocIds : docs[d].project # init[r].project
        /\ \A q \in Inits : q # r => init[q].project # init[r].project

(* The answer to a key is in its marker. *)
AnswersMarked ==
    \A r \in Inits :
        LET d == projectDocID(init[r].user, init[r].key) IN
        init[r].at = "answered" /\ init[r].key # Nothing /\ d \notin replaced =>
            Exists(d) /\ docs[d].url /\ docs[d].project = init[r].project

(* A request that had a key has an owner. *)
RequestsOwned ==
    \A r \in Inits : init[r].at # "new" => init[r].user \in Owners

-----------------------------------------------------------------------------
(* What a deletion has still to remove *)

StageOf(x) ==
    /\ deletion[x].at = "idle" => deletion[x] = Idle
    /\ deletion[x].at = "doc" => deletion[x].projects # <<>>
    /\ deletion[x].at # "idle" /\ deletion[x].user = Nothing =>
           Len(deletion[x].projects) = 1 /\ deletion[x].markers = <<>>

DeletionStages == \A x \in Deletions : StageOf(x)

(* The IDs of projects and of markers; what exists under them may change.   *)
ProjectId(d, o) == \E p \in ProjectIds \cup {LegacyProject} : d = projectDocID(o, p)
MarkerId(d) == \E o \in Owners, k \in IdempotencyKeys : d = projectDocID(o, k)

(* A listed project may be gone, but whatever has its ID is its owner's.    *)
ProjectsOwned(x) ==
    \A i \in 1..Len(deletion[x].projects) : \E o \in Owners :
        ProjectId(deletion[x].projects[i], o) /\ deletion[x].user \in {Nothing, o}

(* A listed marker is there and the user's, unless another deletion was     *)
(* faster.                                                                  *)
MarkersOwned(x) ==
    \A i \in 1..Len(deletion[x].markers) :
        LET d == deletion[x].markers[i] IN
        MarkerId(d) /\ (<<x, d>> \in overtaken \/ (Exists(d) /\ Creator(d) = deletion[x].user))

ListsOwned == \A x \in Deletions : ProjectsOwned(x) /\ MarkersOwned(x)

Distinct(s) == \A i, j \in 1..Len(s) : s[i] = s[j] => i = j

ListsDistinct ==
    \A x \in Deletions : Distinct(deletion[x].projects) /\ Distinct(deletion[x].markers)

(* A document of the user is going to be deleted, or came too late.        *)
CompleteFor(x) ==
    deletion[x].user # Nothing =>
        \A d \in DocIds : Exists(d) /\ Creator(d) = deletion[x].user =>
            \/ Listed(d, deletion[x].projects) \/ Listed(d, deletion[x].markers)
            \/ <<deletion[x].user, Nothing>> \in writtenLate

ListsComplete == \A x \in Deletions : CompleteFor(x)

(* Once the objects of a project are gone, new ones come too late.          *)
EmptyFor(x) ==
    deletion[x].at = "doc" =>
        \A o \in objects : projectDocID(o[1], o[2]) = Target(x) => o \in writtenLate

TargetEmpty == \A x \in Deletions : EmptyFor(x)

AdminInv ==
    /\ AdminTypeOK /\ RequestsOwned
    /\ DocsFormed /\ ProjectsUnique /\ CreatesFresh /\ AnswersMarked
    /\ DeletionStages /\ ListsOwned /\ ListsDistinct /\ ListsComplete /\ TargetEmpty
    /\ DocumentsAnchorData

-----------------------------------------------------------------------------
(* Document IDs *)

(* The sets of ProjectAdmin hold names: sequences of parts.                 *)
LEMMA Names ==
    /\ \A o \in Owners : o \in Seq(IdParts) /\ o # <<>> /\ Len(o) \in Nat \ {0}
    /\ \A k \in IdempotencyKeys : k \in Seq(IdParts) /\ k # <<>> /\ Len(k) \in Nat \ {0}
    /\ \A s \in SingleParts : s \in Seq(IdParts) /\ s # <<>> /\ Len(s) = 1
    /\ LegacyProject # Label /\ LegacyProject \notin ProjectIds /\ Label \notin ProjectIds
<1>1. \A s \in Seq(IdParts) : s # <<>> => Len(s) \in Nat \ {0}
  BY EmptySeq
<1> QED
  BY <1>1, AdminAssumption DEF Nothing, SingleParts

(* A document ID ends with the last part of its suffix.                     *)
LEMMA Ends ==
    ASSUME NEW o \in Owners, NEW s \in SingleParts \cup IdempotencyKeys
    PROVE  /\ projectDocID(o, s) \in Seq(IdParts)
           /\ Len(projectDocID(o, s)) = Len(o) + Len(s)
           /\ projectDocID(o, s)[Len(o) + Len(s)] = Last(s)
           /\ projectDocID(o, s) \in DocIds
<1>1. o \in Seq(IdParts) /\ s \in Seq(IdParts) /\ Len(o) \in Nat \ {0} /\ Len(s) \in Nat \ {0}
  BY Names
<1>2. /\ o \o s \in Seq(IdParts) /\ Len(o \o s) = Len(o) + Len(s)
      /\ \A i \in 1..Len(o) + Len(s) : (o \o s)[i] = IF i <= Len(o) THEN o[i] ELSE s[i - Len(o)]
  BY <1>1, ConcatProperties
<1>3. (o \o s)[Len(o) + Len(s)] = s[Len(s)]
  BY <1>1, <1>2
<1>4. projectDocID(o, s) \in DocIds
  BY DEF DocIds
<1> QED
  BY <1>2, <1>3, <1>4 DEF projectDocID, Last

(* The ID of a document with a suffix of one part says who owns it.         *)
LEMMA SingleIds ==
    ASSUME NEW o \in Owners, NEW u \in Owners, NEW s \in SingleParts, NEW p \in SingleParts,
           projectDocID(o, s) = projectDocID(u, p)
    PROVE  o = u /\ s = p
<1>1. /\ o \in Seq(IdParts) /\ u \in Seq(IdParts) /\ Len(o) \in Nat /\ Len(u) \in Nat
      /\ s \in Seq(IdParts) /\ p \in Seq(IdParts) /\ Len(s) = 1 /\ Len(p) = 1
  BY Names
<1>2. Len(o) = Len(u) /\ Last(s) = Last(p)
  BY <1>1, Ends
<1>3. s = p
  BY <1>1, <1>2, SeqEqual DEF Last
<1>4. o = u
  BY <1>1, <1>3, ConcatSimplifications DEF projectDocID
<1> QED
  BY <1>3, <1>4

(* The ID of a marker is never that of a project.                           *)
LEMMA KeyIds ==
    ASSUME NEW o \in Owners, NEW u \in Owners, NEW k \in IdempotencyKeys
    PROVE  /\ \A s \in SingleParts : projectDocID(o, k) # projectDocID(u, s)
           /\ projectDocID(o, k) = projectDocID(u, k) => o = u
<1>1. /\ o \in Seq(IdParts) /\ u \in Seq(IdParts) /\ k \in Seq(IdParts)
  BY Names
<1>2. ASSUME NEW s \in SingleParts, projectDocID(o, k) = projectDocID(u, s)
      PROVE  FALSE
  <2>1. Last(k) = Last(s)
    BY <1>2, Ends
  <2> QED
    BY <2>1, AdminAssumption
<1>3. projectDocID(o, k) = projectDocID(u, k) => o = u
  BY <1>1, ConcatSimplifications DEF projectDocID
<1> QED
  BY <1>2, <1>3

(* What listing and deletion read off an ID.                                *)
LEMMA OwnerOfId ==
    ASSUME NEW o \in Owners, NEW s \in SingleParts
    PROVE  /\ Front(projectDocID(o, s)) = o
           /\ IsPrefix(o, projectDocID(o, s))
           /\ projectDocID(o, s) # projectDocID(o, Nothing)
           /\ projectDocID(o, s) # <<>>
<1>1. o \in Seq(IdParts) /\ s \in Seq(IdParts) /\ Len(o) \in Nat \ {0} /\ Len(s) = 1
  BY Names
<1>2. Len(o \o s) = Len(o) + 1 /\ o \o s \in Seq(IdParts)
  BY <1>1, ConcatProperties
<1>3. SubSeq(o \o s, 1, Len(o)) = SubSeq(o, 1, Len(o))
  BY <1>1, SubSeqOfConcat1
<1>4. SubSeq(o, 1, Len(o)) = o
  BY <1>1, SubSeqFull
<1>5. Front(o \o s) = o
  BY <1>1, <1>2, <1>3, <1>4 DEF Front
<1>6. o \o Nothing = o
  BY <1>1, ConcatEmptySeq DEF Nothing
<1>7. o # o \o s /\ o \o s # <<>>
  BY <1>1, <1>2
<1> QED
  BY <1>1, <1>2, <1>3, <1>5, <1>6, <1>7 DEF projectDocID, IsPrefix

(* SetToSeq lists the elements of a finite set, each once.                  *)
LEMMA Listing ==
    ASSUME NEW S, IsFiniteSet(S)
    PROVE  /\ SetToSeq(S) \in Seq(S) /\ Distinct(SetToSeq(S))
           /\ \A d \in S : Listed(d, SetToSeq(S))
<1> DEFINE n == Cardinality(S)
           Good(f) == f \in [1..n -> S] /\ IsInjective(f)
<1>1. n \in Nat
  BY FS_CardinalityType
<1>2. \E f : Good(f)
  <2>1. ExistsBijection(1..n, S)
    BY FS_NatBijection, FS_CountingElements, FS_CardinalityType
  <2>2. PICK f : f \in Bijection(1..n, S)
    BY <2>1 DEF ExistsBijection
  <2>3. f \in [1..n -> S] /\ \A i, j \in 1..n : f[i] = f[j] => i = j
    BY <2>2 DEF Bijection, Injection, IsInjective
  <2> QED
    BY <2>3 DEF IsInjective
<1> DEFINE s == SetToSeq(S)
<1>3. s \in [1..n -> S] /\ \A i, j \in 1..n : s[i] = s[j] => i = j
  BY <1>2 DEF SetToSeq, IsInjective
<1>4. s \in Seq(S) /\ Len(s) = n
  BY <1>1, <1>3
<1>5. ASSUME NEW d \in S PROVE \E i \in 1..n : s[i] = d
  <2> DEFINE R == {s[i] : i \in 1..n}
  <2>1. s \in Bijection(1..n, R)
    BY <1>3 DEF Bijection, Injection, Surjection, IsInjective
  <2>2. IsFiniteSet(R) /\ Cardinality(R) = n
    <3>1. IsFiniteSet(1..n) /\ Cardinality(1..n) = n
      BY <1>1, FS_Interval
    <3> QED
      BY <2>1, <3>1, FS_Bijection DEF ExistsBijection
  <2>3. R \subseteq S
    BY <1>3
  <2>4. R = S
    BY <2>2, <2>3, FS_Subset
  <2> QED
    BY <2>4
<1> QED
  BY <1>3, <1>4, <1>5 DEF Distinct, Listed

-----------------------------------------------------------------------------
(* classifyAdminProjectDoc on the documents that the code writes *)

(* A project and an old project are a project of the owner in their ID.     *)
LEMMA ProjectRead ==
    ASSUME AdminTypeOK, NEW d \in DocIds, Exists(d), NEW o \in Owners,
           NEW p \in ProjectIds \cup {LegacyProject},
           d = projectDocID(o, p), docs[d].project = p, docs[d].user \in {o, Nothing}
    PROVE  /\ \A u \in Owners, kind \in {"project", "marker"} :
                  Classified(d, kind, u) <=> kind = "project" /\ u = o
           /\ Creator(d) = o
<1>1. p \in SingleParts /\ p # Nothing
  BY Names DEF SingleParts, Nothing
<1>2. docs[d].key \in IdempotencyKeys \cup {Nothing}
  BY DEF AdminTypeOK, DocType
<1>3. adminProjectIdentityFromSuffix(d, docs[d].project) = {o}
  BY <1>1, SingleIds DEF adminProjectIdentityFromSuffix
<1>4. adminProjectIdentityFromSuffix(d, docs[d].key) = {}
  BY <1>1, <1>2, KeyIds DEF adminProjectIdentityFromSuffix
<1>5. Candidates(d, docs[d]) = {<<"project", o>>}
  BY <1>3, <1>4 DEF Candidates
<1>6. docs[d].key # docs[d].project
  <2>1. CASE docs[d].key = Nothing
    BY <2>1, <1>1
  <2>2. CASE docs[d].key \in IdempotencyKeys
    BY <2>2, <1>1, AdminAssumption
  <2> QED
    BY <2>1, <2>2, <1>2
<1>7. Creator(d) = o
  BY <1>1, OwnerOfId DEF Creator
<1>8. ASSUME NEW u \in Owners, NEW kind \in {"project", "marker"}
      PROVE  Classified(d, kind, u) <=> kind = "project" /\ u = o
  <2>1. ASSUME {<<"project", o>>} = {<<kind, u>>} PROVE <<"project", o>> = <<kind, u>>
    BY <2>1
  <2>2. {<<"project", o>>} = {<<kind, u>>} <=> "project" = kind /\ o = u
    BY <2>1
  <2>3. Classified(d, kind, u) <=> Candidates(d, docs[d]) = {<<kind, u>>}
    BY <1>6 DEF Classified
  <2> QED
    BY <2>2, <2>3, <1>5
<1> QED
  BY <1>8, <1>7

(* A marker is a marker of the owner in its ID.                             *)
LEMMA MarkerRead ==
    ASSUME NEW d \in DocIds, Exists(d), NEW o \in Owners, NEW k \in IdempotencyKeys,
           d = projectDocID(o, k), docs[d].key = k, docs[d].user = o, docs[d].project \in ProjectIds
    PROVE  /\ \A u \in Owners, kind \in {"project", "marker"} :
                  Classified(d, kind, u) <=> kind = "marker" /\ u = o
           /\ Creator(d) = o
<1>1. docs[d].project \in SingleParts /\ k # Nothing
  BY Names DEF SingleParts, Nothing
<1>2. adminProjectIdentityFromSuffix(d, docs[d].project) = {}
  BY <1>1, KeyIds DEF adminProjectIdentityFromSuffix
<1>3. adminProjectIdentityFromSuffix(d, docs[d].key) = {o}
  BY <1>1, KeyIds DEF adminProjectIdentityFromSuffix
<1>4. Candidates(d, docs[d]) = {<<"marker", o>>}
  BY <1>2, <1>3 DEF Candidates
<1>5. docs[d].key # docs[d].project
  BY <1>1, AdminAssumption
<1>6. Creator(d) = o
  BY Names DEF Creator, Nothing
<1>7. ASSUME NEW u \in Owners, NEW kind \in {"project", "marker"}
      PROVE  Classified(d, kind, u) <=> kind = "marker" /\ u = o
  <2>1. ASSUME {<<"marker", o>>} = {<<kind, u>>} PROVE <<"marker", o>> = <<kind, u>>
    BY <2>1
  <2>2. {<<"marker", o>>} = {<<kind, u>>} <=> "marker" = kind /\ o = u
    BY <2>1
  <2>3. Classified(d, kind, u) <=> Candidates(d, docs[d]) = {<<kind, u>>}
    BY <1>5 DEF Classified
  <2> QED
    BY <2>2, <2>3, <1>4
<1> QED
  BY <1>7, <1>6

(* A document with a label for an ID is not read at all.                    *)
LEMMA LabelRead ==
    ASSUME NEW d \in DocIds, Exists(d), NEW o \in Owners,
           d = projectDocID(o, Label), docs[d].project = LegacyProject,
           docs[d].user = Nothing, docs[d].key = Nothing
    PROVE  /\ Unclassified(d) /\ Creator(d) = o
           /\ PotentiallyOwnedBy(d, o)
<1>1. Label \in SingleParts /\ LegacyProject \in SingleParts /\ Label # LegacyProject
  BY Names DEF SingleParts
<1>2. adminProjectIdentityFromSuffix(d, docs[d].project) = {}
  BY <1>1, SingleIds DEF adminProjectIdentityFromSuffix
<1>3. adminProjectIdentityFromSuffix(d, docs[d].key) = {}
  BY DEF adminProjectIdentityFromSuffix
<1>4. Candidates(d, docs[d]) = {}
  BY <1>2, <1>3 DEF Candidates
<1>5. Unclassified(d)
  BY <1>4 DEF Unclassified, Classified
<1>6. Creator(d) = o /\ IsPrefix(o, d)
  BY <1>1, OwnerOfId DEF Creator
<1> QED
  BY <1>5, <1>6 DEF PotentiallyOwnedBy

(* What the classification says of any document that exists.                *)
LEMMA DocKinds ==
    ASSUME AdminTypeOK, DocsFormed, NEW d \in DocIds, Exists(d)
    PROVE  /\ Creator(d) \in Owners
           /\ \A u \in Owners : Classified(d, "project", u) =>
                  Creator(d) = u /\ ~docs[d].url /\ ProjectId(d, u)
           /\ \A u \in Owners : Classified(d, "marker", u) =>
                  Creator(d) = u /\ docs[d].url /\ MarkerId(d)
           /\ \/ Classified(d, "project", Creator(d))
              \/ Classified(d, "marker", Creator(d))
              \/ Unclassified(d) /\ PotentiallyOwnedBy(d, Creator(d))
           /\ docs[d].url => ~Unclassified(d)
<1>1. CASE IsProject(d, docs[d])
  <2>1. PICK o \in Owners, p \in ProjectIds :
            /\ d = projectDocID(o, p) /\ docs[d].project = p /\ docs[d].user = o /\ ~docs[d].url
    BY <1>1 DEF IsProject
  <2>2. /\ \A u \in Owners, kind \in {"project", "marker"} :
               Classified(d, kind, u) <=> kind = "project" /\ u = o
        /\ Creator(d) = o
    BY <2>1, ProjectRead
  <2>3. ProjectId(d, o)
    BY <2>1 DEF ProjectId
  <2> QED
    BY <2>1, <2>2, <2>3
<1>2. CASE IsMarker(d, docs[d])
  <2>1. PICK o \in Owners, k \in IdempotencyKeys :
            /\ d = projectDocID(o, k) /\ docs[d].key = k /\ docs[d].user = o
            /\ docs[d].url /\ docs[d].project \in ProjectIds
    BY <1>2 DEF IsMarker
  <2>2. /\ \A u \in Owners, kind \in {"project", "marker"} :
               Classified(d, kind, u) <=> kind = "marker" /\ u = o
        /\ Creator(d) = o
    BY <2>1, MarkerRead
  <2>3. ~Unclassified(d) /\ MarkerId(d)
    BY <2>1, <2>2 DEF Unclassified, MarkerId
  <2> QED
    BY <2>1, <2>2, <2>3
<1>3. CASE IsLegacy(d, docs[d])
  <2>1. PICK o \in Owners, s \in {LegacyProject, Label} :
            /\ d = projectDocID(o, s) /\ docs[d].project = LegacyProject
            /\ docs[d].user = Nothing /\ docs[d].key = Nothing /\ ~docs[d].url
    BY <1>3 DEF IsLegacy
  <2>2. CASE s = LegacyProject
    <3>1. /\ \A u \in Owners, kind \in {"project", "marker"} :
                 Classified(d, kind, u) <=> kind = "project" /\ u = o
          /\ Creator(d) = o
      BY <2>1, <2>2, ProjectRead
    <3>2. ProjectId(d, o)
      BY <2>1, <2>2 DEF ProjectId
    <3> QED
      BY <2>1, <3>1, <3>2
  <2>3. CASE s = Label
    <3>1. Unclassified(d) /\ Creator(d) = o /\ PotentiallyOwnedBy(d, o)
      BY <2>1, <2>3, LabelRead
    <3> QED
      BY <2>1, <3>1 DEF Unclassified
  <2> QED
    BY <2>1, <2>2, <2>3
<1> QED
  BY <1>1, <1>2, <1>3 DEF DocsFormed

(* Whatever exists under the ID of a project is a project of its owner.     *)
LEMMA ProjectDoc ==
    ASSUME DocsFormed, NEW d \in DocIds, Exists(d), NEW o \in Owners, ProjectId(d, o)
    PROVE  Creator(d) = o /\ ~docs[d].url
<1>1. PICK p \in ProjectIds \cup {LegacyProject} : d = projectDocID(o, p)
  BY DEF ProjectId
<1>2. ProjectIds \cup {LegacyProject, Label} \subseteq SingleParts
  BY DEF SingleParts
<1>3. CASE IsProject(d, docs[d])
  <2>1. PICK u \in Owners, q \in ProjectIds :
            d = projectDocID(u, q) /\ docs[d].user = u /\ ~docs[d].url
    BY <1>3 DEF IsProject
  <2>2. u = o
    <3>1. p \in SingleParts /\ q \in SingleParts /\ projectDocID(o, p) = projectDocID(u, q)
      BY <1>1, <1>2, <2>1
    <3> QED
      BY <3>1, SingleIds
  <2>3. u # Nothing
    BY Names DEF Nothing
  <2> QED
    BY <2>1, <2>2, <2>3 DEF Creator
<1>4. CASE IsMarker(d, docs[d])
  <2>1. PICK u \in Owners, k \in IdempotencyKeys : d = projectDocID(u, k)
    BY <1>4 DEF IsMarker
  <2> QED
    BY <1>1, <1>2, <2>1, KeyIds
<1>5. CASE IsLegacy(d, docs[d])
  <2>1. docs[d].user = Nothing /\ ~docs[d].url
    BY <1>5 DEF IsLegacy
  <2>2. Front(d) = o
    BY <1>1, <1>2, OwnerOfId
  <2> QED
    BY <2>1, <2>2 DEF Creator
<1> QED
  BY <1>3, <1>4, <1>5 DEF DocsFormed

LEMMA MarkerDoc ==
    ASSUME DocsFormed, NEW d \in DocIds, Exists(d), MarkerId(d)
    PROVE  docs[d].url
<1>1. PICK o \in Owners, k \in IdempotencyKeys : d = projectDocID(o, k)
  BY DEF MarkerId
<1>2. \A u \in Owners, s \in ProjectIds \cup {LegacyProject, Label} : d # projectDocID(u, s)
  BY <1>1, KeyIds DEF SingleParts
<1>3. ~IsProject(d, docs[d]) /\ ~IsLegacy(d, docs[d])
  BY <1>2 DEF IsProject, IsLegacy
<1> QED
  BY <1>3 DEF DocsFormed, IsMarker

(* No marker has the ID of a project.                                       *)
LEMMA MarkersAreNoProjects ==
    ASSUME NEW d, MarkerId(d), NEW e, NEW o \in Owners, ProjectId(e, o)
    PROVE  d # e
BY KeyIds DEF MarkerId, ProjectId, SingleParts

-----------------------------------------------------------------------------
(* What a step that leaves some variables alone keeps *)

LEMMA SameDocs ==
    ASSUME AdminInv, UNCHANGED docs
    PROVE  /\ DocsFormed' /\ ProjectsUnique'
           /\ \A d \in DocIds : Exists(d)' = Exists(d) /\ Creator(d)' = Creator(d)
<1>1. \A d \in DocIds : Exists(d)' = Exists(d) /\ Creator(d)' = Creator(d)
  BY DEF Exists, Creator
<1> QED
  BY <1>1 DEF AdminInv, DocsFormed, ProjectsUnique

LEMMA SameRequests ==
    ASSUME AdminInv, UNCHANGED <<docs, init>>, replaced \subseteq replaced'
    PROVE  CreatesFresh' /\ AnswersMarked' /\ RequestsOwned'
  BY DEF AdminInv, CreatesFresh, AnswersMarked, RequestsOwned, Exists

LEMMA SameDeletion ==
    ASSUME AdminInv, UNCHANGED <<docs, deletion, overtaken>>, writtenLate \subseteq writtenLate'
    PROVE  DeletionStages' /\ ListsOwned' /\ ListsDistinct' /\ ListsComplete'
<1>1. DeletionStages' /\ ListsDistinct'
  BY DEF AdminInv, DeletionStages, StageOf, ListsDistinct
<1>2. ListsOwned'
  BY DEF AdminInv, ListsOwned, ProjectsOwned, MarkersOwned, Exists, Creator
<1>3. ListsComplete'
  BY DEF AdminInv, ListsComplete, CompleteFor, Exists, Creator
<1> QED
  BY <1>1, <1>2, <1>3

LEMMA SameObjects ==
    ASSUME AdminInv, UNCHANGED <<docs, objects>>, writtenLate \subseteq writtenLate'
    PROVE  /\ UNCHANGED deletion => TargetEmpty'
           /\ UNCHANGED users => DocumentsAnchorData'
<1>1. UNCHANGED deletion => TargetEmpty'
  BY DEF AdminInv, TargetEmpty, EmptyFor, Target
<1>2. UNCHANGED users => DocumentsAnchorData'
  BY DEF AdminInv, DocumentsAnchorData, Exists, Creator
<1> QED
  BY <1>1, <1>2

LEMMA AdminInvInit ==
    ASSUME AdminInit
    PROVE  AdminInv
<1>1. PICK legacy \in LegacyDocIds :
          docs = [[d \in DocIds |-> NoDoc] EXCEPT ![legacy] =
                     [NoDoc EXCEPT !.project = LegacyProject, !.name = Label]]
  BY DEF AdminInit, LegacyDocs
<1>2. PICK o \in Owners, s \in {LegacyProject, Label} : legacy = projectDocID(o, s)
  BY <1>1, AdminAssumption
<1>3. s \in SingleParts /\ legacy \in DocIds
  BY <1>2, Ends DEF SingleParts
<1>4. \A d \in DocIds : docs[d] = IF d = legacy THEN [NoDoc EXCEPT !.project = LegacyProject, !.name = Label]
                                   ELSE NoDoc
  BY <1>1, <1>3
<1>5. /\ docs[legacy].project = LegacyProject /\ docs[legacy].user = Nothing
      /\ docs[legacy].key = Nothing /\ docs[legacy].url = FALSE
  BY <1>3, <1>4 DEF NoDoc
<1>6. \A d \in DocIds : Exists(d) => d = legacy
  BY <1>4 DEF Exists
<1>7. AdminTypeOK
  <2>1. docs \in [DocIds -> DocType]
    <3>1. NoDoc \in DocType /\ [NoDoc EXCEPT !.project = LegacyProject, !.name = Label] \in DocType
      BY DEF NoDoc, DocType, SingleParts
    <3> QED
      BY <1>1, <3>1
  <2>2. deletion \in [Deletions -> DeletionType]
    BY EmptySeq DEF AdminInit, Idle, DeletionType
  <2> QED
    BY <2>1, <2>2 DEF AdminInit, AdminTypeOK, InitType
<1>8. DocsFormed
  BY <1>2, <1>5, <1>6 DEF DocsFormed, IsLegacy
<1>9. ProjectsUnique
  BY <1>6 DEF ProjectsUnique
<1>10. RequestsOwned /\ CreatesFresh /\ AnswersMarked
  BY DEF AdminInit, RequestsOwned, CreatesFresh, AnswersMarked
<1>11. DeletionStages /\ ListsOwned /\ ListsDistinct /\ ListsComplete /\ TargetEmpty
  <2>1. \A x \in Deletions : deletion[x] = Idle
    BY DEF AdminInit
  <2>2. /\ Idle.at = "idle" /\ Idle.user = Nothing /\ Len(Idle.projects) = 0 /\ Len(Idle.markers) = 0
    BY EmptySeq DEF Idle
  <2>3. DeletionStages /\ ListsComplete /\ TargetEmpty
    BY <2>1, <2>2 DEF DeletionStages, StageOf, ListsComplete, CompleteFor, TargetEmpty, EmptyFor
  <2>4. ListsOwned /\ ListsDistinct
    BY <2>1, <2>2 DEF ListsOwned, ProjectsOwned, MarkersOwned, ListsDistinct, Distinct
  <2> QED
    BY <2>3, <2>4
<1>12. DocumentsAnchorData
  <2>1. \A d \in DocIds : Exists(d) => Creator(d) \in users
    BY <1>7, <1>8, DocKinds DEF AdminInit
  <2> QED
    BY <2>1 DEF DocumentsAnchorData, AdminInit
<1> QED
  BY <1>7, <1>8, <1>9, <1>10, <1>11, <1>12 DEF AdminInv

-----------------------------------------------------------------------------
(* InitProject *)

LEMMA AnswerType ==
    ASSUME AdminTypeOK, NEW r \in Inits, NEW at \in {"new", "create", "answered", "failed", "conflict"},
           NEW user \in Owners, NEW key \in IdempotencyKeys \cup {Nothing},
           NEW project \in ProjectIds \cup {Nothing, LegacyProject},
           Answer(r, at, user, key, project)
    PROVE  /\ init' \in [Inits -> InitType]
           /\ init'[r] = [at |-> at, user |-> user, key |-> key, project |-> project]
           /\ \A q \in Inits : q # r => init'[q] = init[q]
  BY DEF AdminTypeOK, Answer, InitType

LEMMA LookupKeyKeeps ==
    ASSUME AdminInv, NEW r \in Inits, NEW x \in InitRequests, LookupKey(r, x[1], x[2])
    PROVE  AdminInv'
<1> DEFINE user == x[1]
           key == x[2]
           d == projectDocID(user, key)
<1>1. user \in Owners /\ key \in IdempotencyKeys \cup {Nothing}
  BY AdminAssumption
<1>2. UNCHANGED <<docs, writtenLate, users, objects, deletion, writing, replaced, overtaken>>
  BY DEF LookupKey, UnchangedByInit
<1>3. /\ DocsFormed' /\ ProjectsUnique' /\ DeletionStages' /\ ListsOwned' /\ ListsDistinct'
      /\ ListsComplete' /\ TargetEmpty' /\ DocumentsAnchorData'
  BY <1>2, SameDocs, SameDeletion, SameObjects
<1>4. CASE key # Nothing /\ Exists(d)
  <2>1. Answer(r, IF docs[d].url THEN "answered" ELSE "failed", user, key, docs[d].project)
    BY <1>4 DEF LookupKey
  <2>2. d \in DocIds /\ docs[d].project \in ProjectIds \cup {Nothing, LegacyProject}
    BY <1>4 DEF Exists, AdminInv, AdminTypeOK, DocType
  <2> DEFINE at == IF docs[d].url THEN "answered" ELSE "failed"
  <2>3. at \in {"new", "create", "answered", "failed", "conflict"}
    OBVIOUS
  <2> HIDE DEF at
  <2>4. /\ init' \in [Inits -> InitType]
        /\ init'[r] = [at |-> at, user |-> user, key |-> key, project |-> docs[d].project]
        /\ \A q \in Inits : q # r => init'[q] = init[q]
    BY <1>1, <2>1, <2>2, <2>3, AnswerType DEF AdminInv, at
  <2>5. /\ AdminTypeOK'
        /\ init'[r] = [at |-> IF docs[d].url THEN "answered" ELSE "failed", user |-> user,
                       key |-> key, project |-> docs[d].project]
        /\ \A q \in Inits : q # r => init'[q] = init[q]
    BY <1>2, <2>4 DEF AdminInv, AdminTypeOK, at
  <2>6. RequestsOwned'
    BY <1>1, <2>5 DEF AdminInv, RequestsOwned
  <2>7. CreatesFresh'
    BY <1>2, <2>2, <2>5 DEF AdminInv, CreatesFresh
  <2>8. AnswersMarked'
    BY <1>2, <1>4, <2>5 DEF AdminInv, AnswersMarked, Exists
  <2> QED
    BY <1>3, <2>5, <2>6, <2>7, <2>8 DEF AdminInv
<1>5. CASE ~(key # Nothing /\ Exists(d))
  <2> DEFINE used == {docs[e].project : e \in DocIds} \cup {init[q].project : q \in Inits}
             p == CHOOSE p \in ProjectIds : p \notin used
  <2>1. p \in ProjectIds /\ p \notin used /\ Answer(r, "create", user, key, p)
    BY <1>5 DEF LookupKey
  <2> HIDE DEF p
  <2>2. /\ init' \in [Inits -> InitType]
        /\ init'[r] = [at |-> "create", user |-> user, key |-> key, project |-> p]
        /\ \A q \in Inits : q # r => init'[q] = init[q]
    BY <1>1, <2>1, AnswerType DEF AdminInv
  <2>3. AdminTypeOK'
    BY <1>2, <2>2 DEF AdminInv, AdminTypeOK
  <2>4. RequestsOwned'
    BY <1>1, <2>2 DEF AdminInv, RequestsOwned
  <2>5. CreatesFresh'
    BY <1>1, <1>2, <2>1, <2>2 DEF AdminInv, CreatesFresh
  <2>6. AnswersMarked'
    BY <1>2, <2>2 DEF AdminInv, AnswersMarked, Exists
  <2> QED
    BY <1>3, <2>3, <2>4, <2>5, <2>6 DEF AdminInv
<1> QED
  BY <1>4, <1>5

LEMMA RereadKeyKeeps ==
    ASSUME AdminInv, NEW r \in Inits, RereadKey(r)
    PROVE  AdminInv'
<1> DEFINE q == init[r]
           d == projectDocID(q.user, q.key)
           at == IF Exists(d) /\ docs[d].url THEN "answered" ELSE "failed"
           p == IF Exists(d) THEN docs[d].project ELSE Nothing
<1>1. q.user \in Owners /\ q.key \in IdempotencyKeys \cup {Nothing}
  BY DEF AdminInv, AdminTypeOK, InitType, RequestsOwned, RereadKey
<1>2. UNCHANGED <<docs, writtenLate, users, objects, deletion, writing, replaced, overtaken>>
  BY DEF RereadKey, UnchangedByInit
<1>3. /\ DocsFormed' /\ ProjectsUnique' /\ DeletionStages' /\ ListsOwned' /\ ListsDistinct'
      /\ ListsComplete' /\ TargetEmpty' /\ DocumentsAnchorData'
  BY <1>2, SameDocs, SameDeletion, SameObjects
<1>4. Answer(r, at, q.user, q.key, p)
  BY DEF RereadKey
<1>5. Exists(d) => d \in DocIds
  BY DEF Exists
<1>6. p \in ProjectIds \cup {Nothing, LegacyProject}
  BY <1>5 DEF AdminInv, AdminTypeOK, DocType
<1>7. at \in {"new", "create", "answered", "failed", "conflict"}
  OBVIOUS
<1>8. /\ init' \in [Inits -> InitType]
       /\ init'[r] = [at |-> at, user |-> q.user, key |-> q.key, project |-> p]
       /\ \A i \in Inits : i # r => init'[i] = init[i]
  <2> HIDE DEF at, p
  <2> QED
    BY <1>1, <1>4, <1>6, <1>7, AnswerType DEF AdminInv
<1>9. /\ AdminTypeOK'
      /\ init'[r] = [at |-> at, user |-> q.user, key |-> q.key, project |-> p]
      /\ \A i \in Inits : i # r => init'[i] = init[i]
  BY <1>2, <1>8 DEF AdminInv, AdminTypeOK
<1>10. RequestsOwned'
  BY <1>1, <1>9 DEF AdminInv, RequestsOwned
<1>11. CreatesFresh'
  <2>1. \A i \in Inits : init[i].at = "create" => init[i].project # p
    BY <1>5, Names DEF AdminInv, CreatesFresh, Nothing, SingleParts
  <2> QED
    BY <1>2, <1>9, <2>1 DEF AdminInv, CreatesFresh
<1>12. AnswersMarked'
  BY <1>2, <1>9 DEF AdminInv, AnswersMarked, Exists
<1> QED
  BY <1>3, <1>9, <1>10, <1>11, <1>12 DEF AdminInv

(* A new ID is the ID of no document.                                       *)
LEMMA FreshId ==
    ASSUME AdminInv, NEW user \in Owners, NEW project \in ProjectIds,
           \A d \in DocIds : docs[d].project # project
    PROVE  ~Exists(projectDocID(user, project))
<1>1. ProjectIds \cup {LegacyProject, Label} \subseteq SingleParts
  BY DEF SingleParts
<1> SUFFICES ASSUME Exists(projectDocID(user, project)) PROVE FALSE
  OBVIOUS
<1>2. PICK d \in DocIds : Exists(d) /\ d = projectDocID(user, project)
  BY DEF Exists
<1>3. CASE IsProject(d, docs[d])
  <2>1. PICK o \in Owners, p \in ProjectIds :
            projectDocID(user, project) = projectDocID(o, p) /\ docs[d].project = p
    BY <1>2, <1>3 DEF IsProject
  <2>2. project = p
    BY <1>1, <2>1, SingleIds
  <2> QED
    BY <2>1, <2>2
<1>4. CASE IsMarker(d, docs[d])
  <2>1. PICK o \in Owners, k \in IdempotencyKeys : projectDocID(user, project) = projectDocID(o, k)
    BY <1>2, <1>4 DEF IsMarker
  <2> QED
    BY <1>1, <2>1, KeyIds
<1>5. CASE IsLegacy(d, docs[d])
  <2>1. PICK o \in Owners, s \in {LegacyProject, Label} : projectDocID(user, project) = projectDocID(o, s)
    BY <1>2, <1>5 DEF IsLegacy
  <2>2. project = s
    BY <1>1, <2>1, SingleIds
  <2> QED
    BY <2>2, Names
<1> QED
  BY <1>2, <1>3, <1>4, <1>5 DEF AdminInv, DocsFormed

(* What a creation writes: nothing that is there already.                   *)
LEMMA CreationFacts ==
    ASSUME AdminInv, NEW r \in Inits, createInitProjectDocs(r),
           NEW user, NEW key, NEW project, NEW pd, NEW marker,
           user = init[r].user, key = init[r].key, project = init[r].project,
           pd = projectDocID(user, project), marker = projectDocID(user, key)
    PROVE  /\ user \in Owners /\ user # Nothing
           /\ key \in IdempotencyKeys \cup {Nothing} /\ project \in ProjectIds
           /\ pd \in DocIds /\ ~Exists(pd) /\ pd # marker
           /\ \A d \in DocIds : docs[d].project # project
           /\ ~(key # Nothing /\ Exists(marker)) =>
                 /\ key # Nothing => marker \in DocIds /\ ~Exists(marker)
                 /\ \A d \in DocIds : d # pd /\ ~(d = marker /\ key # Nothing) => docs'[d] = docs[d]
                 /\ docs'[pd] = [Created(user, key, project) EXCEPT !.url = FALSE]
                 /\ key # Nothing => docs'[marker] = [Created(user, key, project) EXCEPT !.url = TRUE]
                 /\ docs' \in [DocIds -> DocType]
<1> DEFINE new == {pd} \cup (IF key = Nothing THEN {} ELSE {marker})
<1>1. /\ user \in Owners /\ key \in IdempotencyKeys \cup {Nothing} /\ project \in ProjectIds
      /\ \A d \in DocIds : docs[d].project # project
  BY DEF AdminInv, AdminTypeOK, InitType, CreatesFresh, createInitProjectDocs
<1>2. project \in SingleParts /\ user # Nothing
  BY <1>1, Names DEF SingleParts, Nothing
<1>3. pd \in DocIds
  BY <1>1, <1>2, Ends
<1>4. ~Exists(pd)
  BY <1>1, FreshId
<1>5. pd # marker
  <2>1. CASE key = Nothing
    BY <1>1, <1>2, <2>1, OwnerOfId
  <2>2. CASE key \in IdempotencyKeys
    BY <1>1, <1>2, <2>2, KeyIds
  <2> QED
    BY <1>1, <2>1, <2>2
<1>6. ASSUME ~(key # Nothing /\ Exists(marker))
      PROVE  /\ key # Nothing => marker \in DocIds /\ ~Exists(marker)
             /\ \A d \in DocIds : d # pd /\ ~(d = marker /\ key # Nothing) => docs'[d] = docs[d]
             /\ docs'[pd] = [Created(user, key, project) EXCEPT !.url = FALSE]
             /\ key # Nothing => docs'[marker] = [Created(user, key, project) EXCEPT !.url = TRUE]
             /\ docs' \in [DocIds -> DocType]
  <2>1. key # Nothing => marker \in DocIds /\ ~Exists(marker)
    BY <1>1, <1>6, Ends
  <2>2. docs' = [d \in DocIds |-> IF d \in new
                   THEN [Created(user, key, project) EXCEPT !.url = (d = marker)] ELSE docs[d]]
    BY <1>6 DEF createInitProjectDocs
  <2>3. \A d \in DocIds : docs'[d] = IF d \in new
                   THEN [Created(user, key, project) EXCEPT !.url = (d = marker)] ELSE docs[d]
    BY <2>2
  <2>4. \A b \in BOOLEAN : [Created(user, key, project) EXCEPT !.url = b] \in DocType
    BY <1>1 DEF Created, NoDoc, DocType, SingleParts
  <2>5. docs' \in [DocIds -> DocType]
    BY <2>2, <2>4 DEF AdminInv, AdminTypeOK
  <2>6. docs'[pd] = [Created(user, key, project) EXCEPT !.url = FALSE]
    BY <1>3, <1>5, <2>3
  <2>7. key # Nothing => docs'[marker] = [Created(user, key, project) EXCEPT !.url = TRUE]
    BY <2>1, <2>3
  <2>8. \A d \in DocIds : d # pd /\ ~(d = marker /\ key # Nothing) => docs'[d] = docs[d]
    BY <2>3
  <2> QED
    BY <2>1, <2>5, <2>6, <2>7, <2>8
<1> QED
  BY <1>1, <1>2, <1>3, <1>4, <1>5, <1>6

(* A step that leaves every document that exists, and its owner's deletion.  *)
LEMMA ExistingKept ==
    ASSUME AdminInv, \A d \in DocIds : Exists(d) => docs'[d] = docs[d],
           UNCHANGED <<deletion, overtaken>>
    PROVE  /\ \A d \in DocIds : Exists(d) => Exists(d)' /\ Creator(d)' = Creator(d)
           /\ DeletionStages' /\ ListsOwned' /\ ListsDistinct'
<1>1. \A d \in DocIds : Exists(d) => Exists(d)' /\ Creator(d)' = Creator(d)
  BY DEF Exists, Creator
<1>2. DeletionStages' /\ ListsDistinct'
  BY DEF AdminInv, DeletionStages, StageOf, ListsDistinct
<1>3. \A d : Exists(d) => Exists(d)' /\ Creator(d)' = Creator(d)
  BY <1>1 DEF Exists
<1>4. ListsOwned'
  <2> SUFFICES ASSUME NEW x \in Deletions PROVE ProjectsOwned(x)' /\ MarkersOwned(x)'
    BY DEF ListsOwned
  <2>1. ProjectsOwned(x) /\ MarkersOwned(x)
    BY DEF AdminInv, ListsOwned
  <2> QED
    BY <1>3, <2>1 DEF ProjectsOwned, MarkersOwned
<1> QED
  BY <1>1, <1>2, <1>4

(* A creation overwrites nothing.                                           *)
LEMMA CreationAdds ==
    ASSUME AdminInv, NEW r \in Inits, createInitProjectDocs(r)
    PROVE  \A d \in DocIds : Exists(d) => docs'[d] = docs[d]
<1> PICK user, key, project, pd, marker :
        /\ user = init[r].user /\ key = init[r].key /\ project = init[r].project
        /\ pd = projectDocID(user, project) /\ marker = projectDocID(user, key)
  OBVIOUS
<1>1. ~Exists(pd)
  BY CreationFacts, Zenon
<1>2. CASE key # Nothing /\ Exists(marker)
  BY <1>2 DEF createInitProjectDocs
<1>3. CASE ~(key # Nothing /\ Exists(marker))
  <2>1. /\ key # Nothing => marker \in DocIds /\ ~Exists(marker)
        /\ \A d \in DocIds : d # pd /\ ~(d = marker /\ key # Nothing) => docs'[d] = docs[d]
        /\ docs'[pd] = [Created(user, key, project) EXCEPT !.url = FALSE]
        /\ key # Nothing => docs'[marker] = [Created(user, key, project) EXCEPT !.url = TRUE]
        /\ docs' \in [DocIds -> DocType]
    BY <1>3, CreationFacts
  <2> QED
    BY <1>1, <2>1
<1> QED
  BY <1>2, <1>3

LEMMA CreationKeeps ==
    ASSUME AdminInv, NEW r \in Inits, createInitProjectDocs(r)
    PROVE  AdminInv'
<1> PICK user, key, project, pd, marker :
        /\ user = init[r].user /\ key = init[r].key /\ project = init[r].project
        /\ pd = projectDocID(user, project) /\ marker = projectDocID(user, key)
  OBVIOUS
<1> DEFINE keyed == key # Nothing
<1>1. /\ user \in Owners /\ user # Nothing /\ key \in IdempotencyKeys \cup {Nothing}
      /\ project \in ProjectIds /\ pd \in DocIds /\ ~Exists(pd) /\ pd # marker
      /\ \A d \in DocIds : docs[d].project # project
  BY CreationFacts, Zenon
<1>2. init[r].at = "create" /\ \A i \in Inits : i # r => init[i].project # project
  BY DEF AdminInv, CreatesFresh, createInitProjectDocs
<1>3. UNCHANGED <<users, objects, deletion, writing, replaced, overtaken>>
  BY DEF createInitProjectDocs, UnchangedByInit
<1>4. CASE key # Nothing /\ Exists(marker)
  <2>1. Answer(r, "conflict", user, key, Nothing) /\ UNCHANGED <<docs, writtenLate>>
    BY <1>4 DEF createInitProjectDocs
  <2>2. /\ init' \in [Inits -> InitType]
        /\ init'[r] = [at |-> "conflict", user |-> user, key |-> key, project |-> Nothing]
        /\ \A i \in Inits : i # r => init'[i] = init[i]
    BY <1>1, <2>1, AnswerType DEF AdminInv
  <2>3. AdminTypeOK' /\ RequestsOwned'
    BY <1>1, <1>3, <2>1, <2>2 DEF AdminInv, AdminTypeOK, RequestsOwned
  <2>4. CreatesFresh'
    <3>1. \A i \in Inits : init[i].at = "create" => init[i].project # Nothing
      BY Names DEF AdminInv, CreatesFresh, Nothing, SingleParts
    <3> QED
      BY <2>1, <2>2, <3>1 DEF AdminInv, CreatesFresh
  <2>5. AnswersMarked'
    BY <1>3, <2>1, <2>2 DEF AdminInv, AnswersMarked, Exists
  <2>6. /\ DocsFormed' /\ ProjectsUnique' /\ DeletionStages' /\ ListsOwned' /\ ListsDistinct'
        /\ ListsComplete' /\ TargetEmpty' /\ DocumentsAnchorData'
    BY <1>3, <2>1, SameDocs, SameDeletion, SameObjects
  <2> QED
    BY <2>3, <2>4, <2>5, <2>6 DEF AdminInv
<1>5. CASE ~(key # Nothing /\ Exists(marker))
  <2>1. Answer(r, "answered", user, key, project)
    BY <1>5 DEF createInitProjectDocs
  <2>2. writtenLate' = IF user \notin users \/ \E x \in Deletions : deletion[x].user = user
                       THEN writtenLate \cup {<<user, Nothing>>} ELSE writtenLate
    BY <1>5 DEF createInitProjectDocs
  <2>3. /\ keyed => marker \in DocIds /\ ~Exists(marker)
        /\ \A d \in DocIds : d # pd /\ ~(d = marker /\ keyed) => docs'[d] = docs[d]
        /\ docs'[pd] = [Created(user, key, project) EXCEPT !.url = FALSE]
        /\ keyed => docs'[marker] = [Created(user, key, project) EXCEPT !.url = TRUE]
        /\ docs' \in [DocIds -> DocType]
    BY <1>5, CreationFacts
  <2>4. /\ docs'[pd].project = project /\ docs'[pd].key = key
        /\ docs'[pd].user = user /\ docs'[pd].url = FALSE
    BY <2>3 DEF Created, NoDoc
  <2>5. keyed => /\ docs'[marker].project = project /\ docs'[marker].key = key
                 /\ docs'[marker].user = user /\ docs'[marker].url = TRUE
    BY <2>3 DEF Created, NoDoc
  <2> HIDE DEF keyed
  <2>6. \A d \in DocIds : Exists(d) => docs'[d] = docs[d]
    BY <1>1, <2>3
  <2>7. \A d \in DocIds : Exists(d)' => Exists(d) \/ d = pd \/ (keyed /\ d = marker)
    BY <2>3 DEF Exists
  <2>8. /\ \A d \in DocIds : Exists(d) => Exists(d)' /\ Creator(d)' = Creator(d)
        /\ DeletionStages' /\ ListsOwned' /\ ListsDistinct'
    BY <1>3, <2>6, ExistingKept
  <2>9. Creator(pd)' = user /\ (keyed => Creator(marker)' = user)
    BY <1>1, <2>4, <2>5 DEF Creator
  <2>10. keyed => Exists(marker)'
    BY <1>1, <2>3, <2>5 DEF Exists, NoDoc
  <2>11. /\ init' \in [Inits -> InitType]
         /\ init'[r] = [at |-> "answered", user |-> user, key |-> key, project |-> project]
         /\ \A i \in Inits : i # r => init'[i] = init[i]
    BY <1>1, <2>1, AnswerType DEF AdminInv
  <2>12. AdminTypeOK' /\ RequestsOwned'
    BY <1>1, <1>3, <2>3, <2>11 DEF AdminInv, AdminTypeOK, RequestsOwned
  <2>13. DocsFormed'
    <3> SUFFICES ASSUME NEW d \in DocIds, Exists(d)'
                 PROVE  IsProject(d, docs'[d]) \/ IsMarker(d, docs'[d]) \/ IsLegacy(d, docs'[d])
      BY DEF DocsFormed, IsProject, IsMarker, IsLegacy
    <3>1. CASE Exists(d)
      BY <2>6, <3>1 DEF AdminInv, DocsFormed
    <3>2. CASE d = pd
      BY <1>1, <2>4, <3>2 DEF IsProject
    <3>3. CASE keyed /\ d = marker
      BY <1>1, <2>5, <3>3 DEF IsMarker, keyed
    <3> QED
      BY <2>7, <3>1, <3>2, <3>3
  <2>14. \A d \in DocIds : docs[d].project # project
    BY <1>1
  <2>15. ProjectsUnique'
    <3> SUFFICES ASSUME NEW d \in DocIds, NEW e \in DocIds, Exists(d)', Exists(e)',
                        ~docs'[d].url, ~docs'[e].url, docs'[d].project = docs'[e].project
                 PROVE  d = e
      BY DEF ProjectsUnique
    <3>1. (Exists(d) \/ d = pd) /\ (Exists(e) \/ e = pd)
      BY <2>5, <2>7
    <3>2. CASE Exists(d) /\ Exists(e)
      BY <2>6, <3>2 DEF AdminInv, ProjectsUnique
    <3>3. CASE d = pd /\ Exists(e)
      BY <2>4, <2>6, <2>14, <3>3
    <3>4. CASE Exists(d) /\ e = pd
      BY <2>4, <2>6, <2>14, <3>4
    <3> QED
      BY <3>1, <3>2, <3>3, <3>4
  <2>16. CreatesFresh'
    <3> SUFFICES ASSUME NEW i \in Inits, init'[i].at = "create"
                 PROVE  /\ init'[i].user \in Owners /\ init'[i].project \in ProjectIds
                        /\ \A d \in DocIds : docs'[d].project # init'[i].project
                        /\ \A j \in Inits : j # i => init'[j].project # init'[i].project
      BY DEF CreatesFresh
    <3>1. i # r /\ init'[i] = init[i] /\ init[i].at = "create"
      BY <2>11
    <3>2. /\ init[i].user \in Owners /\ init[i].project \in ProjectIds
          /\ \A d \in DocIds : docs[d].project # init[i].project
          /\ \A j \in Inits : j # i => init[j].project # init[i].project
      BY <3>1 DEF AdminInv, CreatesFresh
    <3>3. ASSUME NEW d \in DocIds PROVE docs'[d].project # init[i].project
      <4>1. docs'[d] = docs[d] \/ docs'[d].project = project
        BY <2>3, <2>4, <2>5
      <4> QED
        BY <1>2, <3>1, <3>2, <4>1
    <3>4. \A j \in Inits : j # i => init'[j].project # init[i].project
      BY <2>11, <3>2
    <3> QED
      BY <3>1, <3>2, <3>3, <3>4
  <2>17. AnswersMarked'
    <3> SUFFICES ASSUME NEW i \in Inits, NEW d, d = projectDocID(init'[i].user, init'[i].key),
                        init'[i].at = "answered", init'[i].key # Nothing, d \notin replaced
                 PROVE  Exists(d)' /\ docs'[d].url /\ docs'[d].project = init'[i].project
      BY <1>3 DEF AnswersMarked
    <3>1. CASE i = r
      BY <2>5, <2>10, <2>11, <3>1 DEF keyed
    <3>2. CASE i # r
      <4>1. Exists(d) /\ docs[d].url /\ docs[d].project = init[i].project
        BY <2>11, <3>2 DEF AdminInv, AnswersMarked
      <4>2. d \in DocIds
        BY <4>1 DEF Exists
      <4> QED
        BY <2>6, <2>8, <2>11, <3>2, <4>1, <4>2
    <3> QED
      BY <3>1, <3>2
  <2>18. ListsComplete'
    <3> SUFFICES ASSUME NEW x \in Deletions, deletion[x].user # Nothing,
                        NEW d \in DocIds, Exists(d)', Creator(d)' = deletion[x].user
                 PROVE  \/ Listed(d, deletion[x].projects) \/ Listed(d, deletion[x].markers)
                        \/ <<deletion[x].user, Nothing>> \in writtenLate'
      BY <1>3 DEF ListsComplete, CompleteFor, Listed
    <3>1. CASE Exists(d)
      BY <2>2, <2>8, <3>1 DEF AdminInv, ListsComplete, CompleteFor
    <3>2. CASE d = pd \/ (keyed /\ d = marker)
      BY <2>2, <2>9, <3>2
    <3> QED
      BY <2>7, <3>1, <3>2
  <2>19. TargetEmpty'
    BY <1>3, <2>2 DEF AdminInv, TargetEmpty, EmptyFor, Target
  <2>20. DocumentsAnchorData'
    <3>1. \A x \in objects : Exists(projectDocID(x[1], x[2]))' \/ x \in writtenLate'
      <4> TAKE x \in objects
      <4>1. Exists(projectDocID(x[1], x[2])) \/ x \in writtenLate
        BY DEF AdminInv, DocumentsAnchorData
      <4>2. Exists(projectDocID(x[1], x[2])) => Exists(projectDocID(x[1], x[2]))'
        BY <2>8 DEF Exists
      <4> QED
        BY <2>2, <4>1, <4>2
    <3>2. ASSUME NEW d \in DocIds, Exists(d)'
          PROVE  Creator(d)' \in users \/ <<Creator(d)', Nothing>> \in writtenLate'
      <4>1. CASE Exists(d)
        BY <2>2, <2>8, <4>1 DEF AdminInv, DocumentsAnchorData
      <4>2. CASE d = pd \/ (keyed /\ d = marker)
        BY <2>2, <2>9, <4>2
      <4> QED
        BY <2>7, <3>2, <4>1, <4>2
    <3> QED
      BY <1>3, <3>1, <3>2 DEF DocumentsAnchorData
  <2> QED
    BY <2>8, <2>12, <2>13, <2>15, <2>16, <2>17, <2>18, <2>19, <2>20 DEF AdminInv
<1> QED
  BY <1>4, <1>5

-----------------------------------------------------------------------------
(* Renaming, uploads and runs *)

LEMMA RenameKeeps ==
    ASSUME AdminInv, NEW o \in Owners, NEW p \in ProjectIds \cup {LegacyProject}, RenameProject(o, p)
    PROVE  AdminInv'
<1> PICK t : t = projectDocID(o, p)
  OBVIOUS
<1>1. /\ UNCHANGED <<users, objects, init, deletion, writing, writtenLate, replaced, overtaken>>
      /\ docs' = [docs EXCEPT ![t].name = p] /\ t \in DocIds
      /\ docs[t].project = p
  BY DEF RenameProject, Classified, Exists, historyVars
<1>2. p # Nothing /\ p \in SingleParts
  BY Names DEF SingleParts, Nothing
<1>3. docs \in [DocIds -> DocType]
  BY DEF AdminInv, AdminTypeOK
<1>4. AdminTypeOK'
  <2>1. [docs[t] EXCEPT !.name = p] \in DocType
    BY <1>1, <1>2, <1>3 DEF DocType
  <2>2. docs' \in [DocIds -> DocType]
    BY <1>1, <1>3, <2>1
  <2> QED
    BY <1>1, <2>2 DEF AdminInv, AdminTypeOK
<1>5. ASSUME NEW d \in DocIds
      PROVE  /\ docs'[d].project = docs[d].project /\ docs'[d].key = docs[d].key
             /\ docs'[d].user = docs[d].user /\ docs'[d].url = docs[d].url
  <2>1. docs[d] \in DocType
    BY <1>3
  <2>2. docs'[d] = IF d = t THEN [docs[d] EXCEPT !.name = p] ELSE docs[d]
    BY <1>1, <1>3
  <2> QED
    BY <2>1, <2>2 DEF DocType
<1>6. ASSUME NEW d \in DocIds
      PROVE  Exists(d)' = Exists(d) /\ Creator(d)' = Creator(d)
  <2>1. CASE d = t
    <3>1. docs[t].project # Nothing /\ docs'[t].project # Nothing
      BY <1>1, <1>2, <1>5
    <3> QED
      BY <1>5, <2>1, <3>1 DEF Exists, NoDoc, Creator
  <2>2. CASE d # t
    BY <1>1, <1>3, <2>2 DEF Exists, Creator
  <2> QED
    BY <2>1, <2>2
<1>7. DocsFormed'
  <2> SUFFICES ASSUME NEW d \in DocIds, Exists(d)'
               PROVE  IsProject(d, docs'[d]) \/ IsMarker(d, docs'[d]) \/ IsLegacy(d, docs'[d])
    BY DEF DocsFormed, IsProject, IsMarker, IsLegacy
  <2>1. IsProject(d, docs[d]) \/ IsMarker(d, docs[d]) \/ IsLegacy(d, docs[d])
    BY <1>6 DEF AdminInv, DocsFormed
  <2>2. IsProject(d, docs[d]) => IsProject(d, docs'[d])
    BY <1>5 DEF IsProject
  <2>3. IsMarker(d, docs[d]) => IsMarker(d, docs'[d])
    BY <1>5 DEF IsMarker
  <2>4. IsLegacy(d, docs[d]) => IsLegacy(d, docs'[d])
    BY <1>5 DEF IsLegacy
  <2> QED
    BY <2>1, <2>2, <2>3, <2>4
<1>8. ProjectsUnique'
  BY <1>5, <1>6 DEF AdminInv, ProjectsUnique
<1>9. CreatesFresh' /\ RequestsOwned'
  BY <1>1, <1>5 DEF AdminInv, CreatesFresh, RequestsOwned
<1>10. AnswersMarked'
  <2> SUFFICES ASSUME NEW r \in Inits, NEW d, d = projectDocID(init[r].user, init[r].key),
                      init[r].at = "answered", init[r].key # Nothing, d \notin replaced
               PROVE  Exists(d)' /\ docs'[d].url /\ docs'[d].project = init[r].project
    BY <1>1 DEF AnswersMarked
  <2>1. Exists(d) /\ docs[d].url /\ docs[d].project = init[r].project
    BY DEF AdminInv, AnswersMarked
  <2>2. d \in DocIds
    BY <2>1 DEF Exists
  <2> QED
    BY <1>5, <1>6, <2>1, <2>2
<1>11. DeletionStages' /\ ListsDistinct'
  BY <1>1 DEF AdminInv, DeletionStages, StageOf, ListsDistinct
<1>12. ListsOwned'
  <2>1. \A d : Exists(d) => Exists(d)' /\ Creator(d)' = Creator(d)
    BY <1>6 DEF Exists
  <2> SUFFICES ASSUME NEW x \in Deletions PROVE ProjectsOwned(x)' /\ MarkersOwned(x)'
    BY DEF ListsOwned
  <2>2. ProjectsOwned(x) /\ MarkersOwned(x)
    BY DEF AdminInv, ListsOwned
  <2> QED
    BY <1>1, <2>1, <2>2 DEF ProjectsOwned, MarkersOwned
<1>13. ListsComplete'
  BY <1>1, <1>6 DEF AdminInv, ListsComplete, CompleteFor
<1>14. TargetEmpty'
  BY <1>1 DEF AdminInv, TargetEmpty, EmptyFor, Target
<1>15. DocumentsAnchorData'
  <2>1. \A x \in objects : Exists(projectDocID(x[1], x[2])) => Exists(projectDocID(x[1], x[2]))'
    BY <1>6 DEF Exists
  <2> QED
    BY <1>1, <1>6, <2>1 DEF AdminInv, DocumentsAnchorData
<1> QED
  BY <1>4, <1>7, <1>8, <1>9, <1>10, <1>11, <1>12, <1>13, <1>14, <1>15 DEF AdminInv

LEMMA WritingKeeps ==
    ASSUME AdminInv, NEW o \in Owners, NEW p \in ProjectIds \cup {LegacyProject},
           BeginWrite(o, p) \/ WriteObjects(o, p)
    PROVE  AdminInv'
<1>1. CASE BeginWrite(o, p)
  <2>1. UNCHANGED <<docs, users, objects, init, deletion, writtenLate, replaced, overtaken>>
    BY <1>1 DEF BeginWrite, historyVars
  <2>2. AdminTypeOK'
    BY <1>1, <2>1 DEF AdminInv, AdminTypeOK, BeginWrite
  <2> QED
    BY <2>1, <2>2, SameDocs, SameRequests, SameDeletion, SameObjects DEF AdminInv
<1>2. CASE WriteObjects(o, p)
  <2> PICK x : x = <<o, p>>
    OBVIOUS
  <2>1. /\ UNCHANGED <<docs, users, init, deletion, replaced, overtaken>>
        /\ writing' = writing \ {x} /\ objects' = objects \cup {x}
        /\ writtenLate' = IF \/ ~Exists(projectDocID(x[1], x[2]))
                             \/ \E y \in Deletions : Listed(projectDocID(x[1], x[2]), deletion[y].projects)
                          THEN writtenLate \cup {x} ELSE writtenLate
    BY <1>2 DEF WriteObjects
  <2>2. AdminTypeOK'
    BY <2>1 DEF AdminInv, AdminTypeOK
  <2>3. writtenLate \subseteq writtenLate'
    BY <2>1
  <2>4. TargetEmpty'
    <3> SUFFICES ASSUME NEW y \in Deletions, deletion[y].at = "doc", NEW a \in objects',
                        projectDocID(a[1], a[2]) = Target(y)
                 PROVE  a \in writtenLate'
      BY <2>1 DEF TargetEmpty, EmptyFor, Target
    <3>1. CASE a \in objects
      BY <2>3, <3>1 DEF AdminInv, TargetEmpty, EmptyFor
    <3>2. CASE a = x
      <4>1. deletion[y].projects \in Seq(DocIds) /\ deletion[y].projects # <<>>
        BY DEF AdminInv, AdminTypeOK, DeletionType, DeletionStages, StageOf
      <4>2. Listed(Target(y), deletion[y].projects)
        BY <4>1, EmptySeq DEF Listed, Target
      <4> QED
        BY <2>1, <3>2, <4>2
    <3> QED
      BY <2>1, <3>1, <3>2
  <2>5. DocumentsAnchorData'
    BY <2>1, <2>3 DEF AdminInv, DocumentsAnchorData, Exists, Creator
  <2> QED
    BY <2>1, <2>2, <2>3, <2>4, <2>5, SameDocs, SameRequests, SameDeletion DEF AdminInv
<1> QED
  BY <1>1, <1>2

-----------------------------------------------------------------------------
(* Deletion *)

LEMMA DocIdsFinite == IsFiniteSet(DocIds)
<1> DEFINE S == SingleParts \cup IdempotencyKeys
           Pairs == Owners \X S
<1>1. IsFiniteSet({LegacyProject, Label})
  <2>1. IsFiniteSet({LegacyProject})
    BY FS_Singleton
  <2>2. {LegacyProject, Label} = {LegacyProject} \cup {Label}
    OBVIOUS
  <2> QED
    BY <2>1, <2>2, FS_AddElement
<1>2. IsFiniteSet(S)
  <2>1. IsFiniteSet(ProjectIds) /\ IsFiniteSet(IdempotencyKeys)
    BY AdminAssumption
  <2>2. IsFiniteSet(SingleParts)
    BY <1>1, <2>1, FS_Union DEF SingleParts
  <2> QED
    BY <2>1, <2>2, FS_Union
<1>3. IsFiniteSet(Pairs)
  BY <1>2, AdminAssumption, FS_Product
<1> DEFINE f == [x \in Pairs |-> projectDocID(x[1], x[2])]
<1>4. f \in Surjection(Pairs, DocIds)
  <2>1. f \in [Pairs -> DocIds]
    BY DEF DocIds
  <2>2. \A d \in DocIds : \E x \in Pairs : f[x] = d
    <3> TAKE d \in DocIds
    <3>1. PICK o \in Owners, s \in S : d = projectDocID(o, s)
      BY DEF DocIds
    <3>2. <<o, s>> \in Pairs /\ f[<<o, s>>] = d
      BY <3>1
    <3> QED
      BY <3>2
  <2> QED
    BY <2>1, <2>2 DEF Surjection
<1> QED
  BY <1>3, <1>4, FS_Surjection DEF ExistsSurjection

(* The two lists of AdminDeleteUser.                                        *)
LEMMA UserLists ==
    ASSUME NEW user, NEW kind, NEW s,
           s = SetToSeq({d \in DocIds : Classified(d, kind, user)})
    PROVE  /\ s \in Seq(DocIds) /\ Distinct(s)
           /\ \A i \in 1..Len(s) : s[i] \in DocIds /\ Classified(s[i], kind, user)
           /\ \A d \in DocIds : Classified(d, kind, user) => Listed(d, s)
<1> DEFINE S == {d \in DocIds : Classified(d, kind, user)}
<1>1. IsFiniteSet(S)
  BY DocIdsFinite, FS_Subset
<1> HIDE DEF S
<1>2. s \in Seq(S) /\ Distinct(s) /\ \A d \in S : Listed(d, s)
  BY <1>1, Listing DEF S
<1>3. \A d \in S : d \in DocIds /\ Classified(d, kind, user)
  BY DEF S
<1>4. s \in Seq(DocIds)
  BY <1>2, <1>3
<1>5. \A i \in 1..Len(s) : s[i] \in S
  BY <1>2
<1> QED
  BY <1>2, <1>3, <1>4, <1>5 DEF S

(* What is left of a list when its first document is gone.                  *)
LEMMA RestOfList ==
    ASSUME NEW s \in Seq(DocIds), s # <<>>, Distinct(s)
    PROVE  /\ Head(s) = s[1] /\ 1 \in 1..Len(s) /\ Head(s) \in DocIds
           /\ Tail(s) \in Seq(DocIds) /\ Distinct(Tail(s))
           /\ \A i \in 1..Len(Tail(s)) :
                  i + 1 \in 1..Len(s) /\ Tail(s)[i] = s[i + 1] /\ Tail(s)[i] # Head(s)
           /\ \A d : Listed(d, s) => d = Head(s) \/ Listed(d, Tail(s))
<1>1. Len(s) \in Nat /\ Len(s) > 0
  BY EmptySeq
<1>2. /\ Head(s) = s[1] /\ Head(s) \in DocIds /\ Tail(s) \in Seq(DocIds) /\ Len(Tail(s)) = Len(s) - 1
      /\ \A i \in 1..Len(Tail(s)) : Tail(s)[i] = s[i + 1]
  BY <1>1, HeadTailProperties
<1>3. \A i \in 1..Len(Tail(s)) : i + 1 \in 1..Len(s) /\ i + 1 # 1
  BY <1>1, <1>2
<1>4. 1 \in 1..Len(s)
  BY <1>1
<1>5. \A i \in 1..Len(Tail(s)) : Tail(s)[i] # Head(s)
  BY <1>2, <1>3, <1>4 DEF Distinct
<1>6. Distinct(Tail(s))
  <2> SUFFICES ASSUME NEW i \in 1..Len(Tail(s)), NEW j \in 1..Len(Tail(s)), Tail(s)[i] = Tail(s)[j]
               PROVE  i = j
    BY DEF Distinct
  <2>1. i + 1 = j + 1
    BY <1>2, <1>3 DEF Distinct
  <2>2. i \in Nat /\ j \in Nat
    BY <1>1, <1>2
  <2> QED
    BY <2>1, <2>2
<1>7. ASSUME NEW d, Listed(d, s), d # Head(s)
      PROVE  Listed(d, Tail(s))
  <2>1. PICK i \in 1..Len(s) : s[i] = d
    BY <1>7 DEF Listed
  <2>2. i # 1
    BY <1>2, <1>7, <2>1
  <2>3. i - 1 \in 1..Len(Tail(s)) /\ (i - 1) + 1 = i
    BY <1>1, <1>2, <2>2
  <2>4. Tail(s)[i - 1] = d
    BY <1>2, <2>1, <2>3
  <2> QED
    BY <2>3, <2>4 DEF Listed
<1> QED
  BY <1>2, <1>3, <1>4, <1>5, <1>6, <1>7

(* A document is removed.                                                   *)
LEMMA Removal ==
    ASSUME AdminInv, NEW t \in DocIds, docs' = [docs EXCEPT ![t] = NoDoc]
    PROVE  /\ docs' \in [DocIds -> DocType] /\ DocsFormed' /\ ProjectsUnique'
           /\ UNCHANGED init => CreatesFresh' /\ RequestsOwned'
           /\ \A d \in DocIds :
                  /\ Exists(d)' = (Exists(d) /\ d # t)
                  /\ d # t => docs'[d] = docs[d] /\ Creator(d)' = Creator(d)
<1>1. docs \in [DocIds -> DocType] /\ NoDoc \in DocType
  BY DEF AdminInv, AdminTypeOK, NoDoc, DocType
<1>2. docs' \in [DocIds -> DocType] /\ docs'[t] = NoDoc /\ \A d \in DocIds : d # t => docs'[d] = docs[d]
  BY <1>1
<1>3. \A d \in DocIds : /\ Exists(d)' = (Exists(d) /\ d # t)
                        /\ d # t => docs'[d] = docs[d] /\ Creator(d)' = Creator(d)
  BY <1>2 DEF Exists, Creator
<1>4. DocsFormed'
  <2> SUFFICES ASSUME NEW d \in DocIds, Exists(d)'
               PROVE  IsProject(d, docs'[d]) \/ IsMarker(d, docs'[d]) \/ IsLegacy(d, docs'[d])
    BY DEF DocsFormed, IsProject, IsMarker, IsLegacy
  <2>1. Exists(d) /\ docs'[d] = docs[d]
    BY <1>3
  <2> QED
    BY <2>1 DEF AdminInv, DocsFormed
<1>5. ProjectsUnique'
  BY <1>3 DEF AdminInv, ProjectsUnique
<1>6. UNCHANGED init => CreatesFresh' /\ RequestsOwned'
  <2>1. docs'[t].project = Nothing
    BY <1>2 DEF NoDoc
  <2>2. \A r \in Inits : init[r].at = "create" => init[r].project # Nothing
    BY Names DEF AdminInv, CreatesFresh, Nothing, SingleParts
  <2> QED
    BY <1>2, <2>1, <2>2 DEF AdminInv, CreatesFresh, RequestsOwned
<1> QED
  BY <1>2, <1>3, <1>4, <1>5, <1>6

(* A step of deletion x leaves the others as they are; it may take their    *)
(* documents away, but then it has overtaken them.                          *)
LEMMA OtherDeletions ==
    ASSUME AdminInv, NEW x \in Deletions, NEW next \in DeletionType, Advance(x, next),
           \A y \in Deletions, d \in DocIds : y # x /\ <<y, d>> \in overtaken => <<y, d>> \in overtaken',
           \A y \in Deletions, d \in DocIds : y # x /\ Listed(d, deletion[y].markers) /\ Exists(d) =>
               <<y, d>> \in overtaken' \/ (Exists(d)' /\ Creator(d)' = Creator(d)),
           \A d \in DocIds : Exists(d)' => Exists(d) /\ Creator(d)' = Creator(d),
           UNCHANGED writtenLate, objects' \subseteq objects
    PROVE  /\ deletion' \in [Deletions -> DeletionType] /\ deletion'[x] = next
           /\ /\ StageOf(x)' /\ ProjectsOwned(x)' /\ MarkersOwned(x)'
              /\ Distinct(next.projects) /\ Distinct(next.markers)
              /\ CompleteFor(x)' /\ EmptyFor(x)'
              => DeletionStages' /\ ListsOwned' /\ ListsDistinct' /\ ListsComplete' /\ TargetEmpty'
<1>1. deletion \in [Deletions -> DeletionType]
  BY DEF AdminInv, AdminTypeOK
<1>2. deletion' = [deletion EXCEPT ![x] = next]
  BY DEF Advance
<1>3. deletion' \in [Deletions -> DeletionType] /\ deletion'[x] = next
  BY <1>1, <1>2
<1>4. ASSUME NEW y \in Deletions, y # x
      PROVE  /\ StageOf(y)' /\ ProjectsOwned(y)' /\ MarkersOwned(y)'
             /\ Distinct(deletion'[y].projects) /\ Distinct(deletion'[y].markers)
             /\ CompleteFor(y)' /\ EmptyFor(y)'
  <2>1. deletion'[y] = deletion[y]
    BY <1>1, <1>2, <1>4
  <2>2. /\ StageOf(y) /\ ProjectsOwned(y) /\ MarkersOwned(y)
        /\ Distinct(deletion[y].projects) /\ Distinct(deletion[y].markers)
        /\ CompleteFor(y) /\ EmptyFor(y)
    BY DEF AdminInv, DeletionStages, ListsOwned, ListsDistinct, ListsComplete, TargetEmpty
  <2>3. StageOf(y)' /\ ProjectsOwned(y)'
    BY <2>1, <2>2 DEF StageOf, ProjectsOwned
  <2>4. MarkersOwned(y)'
    <3> SUFFICES ASSUME NEW i \in 1..Len(deletion[y].markers), NEW d, d = deletion[y].markers[i]
                 PROVE  MarkerId(d) /\ (<<y, d>> \in overtaken'
                                        \/ (Exists(d)' /\ Creator(d)' = deletion[y].user))
      BY <2>1 DEF MarkersOwned
    <3>1. MarkerId(d) /\ (<<y, d>> \in overtaken \/ (Exists(d) /\ Creator(d) = deletion[y].user))
      BY <2>2 DEF MarkersOwned
    <3>2. Listed(d, deletion[y].markers)
      BY DEF Listed
    <3>3. d \in DocIds
      <4>1. deletion[y].markers \in Seq(DocIds)
        BY <1>1 DEF DeletionType
      <4> QED
        BY <4>1
    <3> QED
      BY <1>4, <3>1, <3>2, <3>3
  <2>5. CompleteFor(y)'
    BY <2>1, <2>2 DEF CompleteFor
  <2>6. EmptyFor(y)'
    BY <2>1, <2>2 DEF EmptyFor, Target
  <2> QED
    BY <2>1, <2>2, <2>3, <2>4, <2>5, <2>6
<1> QED
  BY <1>3, <1>4 DEF DeletionStages, ListsOwned, ListsDistinct, ListsComplete, TargetEmpty

LEMMA AdminDeleteProjectKeeps ==
    ASSUME AdminInv, NEW x \in Deletions, NEW t \in DocIds, AdminDeleteProject(x, t)
    PROVE  AdminInv'
<1>1. UNCHANGED <<docs, users, objects, replaced, overtaken, init, writing, writtenLate>>
  BY DEF AdminDeleteProject, UnchangedByDeletion
<1> DEFINE next == [at |-> "gcs", user |-> Nothing, projects |-> <<t>>, markers |-> <<>>]
<1>2. Advance(x, next)
  BY DEF AdminDeleteProject
<1>3. next \in DeletionType
  <2>1. <<t>> \in Seq(DocIds) /\ <<>> \in Seq(DocIds)
    OBVIOUS
  <2> QED
    BY <2>1 DEF DeletionType
<1>4. /\ next.at = "gcs" /\ next.user = Nothing /\ next.projects = <<t>> /\ next.markers = <<>>
      /\ Len(<<t>>) = 1 /\ <<t>>[1] = t /\ Len(<<>>) = 0
  OBVIOUS
<1> HIDE DEF next
<1>5. \E o \in Owners : ProjectId(t, o)
  <2>1. PICK o \in Owners : Classified(t, "project", o)
    BY DEF AdminDeleteProject
  <2> QED
    BY <2>1, DocKinds DEF Classified, AdminInv
<1>6. /\ deletion' \in [Deletions -> DeletionType] /\ deletion'[x] = next
      /\ /\ StageOf(x)' /\ ProjectsOwned(x)' /\ MarkersOwned(x)'
         /\ Distinct(next.projects) /\ Distinct(next.markers)
         /\ CompleteFor(x)' /\ EmptyFor(x)'
         => DeletionStages' /\ ListsOwned' /\ ListsDistinct' /\ ListsComplete' /\ TargetEmpty'
  BY <1>1, <1>2, <1>3, OtherDeletions, SameDocs
<1>7. StageOf(x)' /\ CompleteFor(x)' /\ EmptyFor(x)'
  BY <1>4, <1>6 DEF StageOf, CompleteFor, EmptyFor
<1>8. ProjectsOwned(x)' /\ MarkersOwned(x)'
  BY <1>4, <1>5, <1>6 DEF ProjectsOwned, MarkersOwned
<1>9. Distinct(next.projects) /\ Distinct(next.markers)
  BY <1>4 DEF Distinct
<1>10. AdminTypeOK'
  BY <1>1, <1>6 DEF AdminInv, AdminTypeOK
<1>11. DocumentsAnchorData'
  BY <1>1, SameObjects
<1> QED
  BY <1>1, <1>6, <1>7, <1>8, <1>9, <1>10, <1>11, SameDocs, SameRequests DEF AdminInv

LEMMA AdminDeleteUserKeeps ==
    ASSUME AdminInv, NEW x \in Deletions, NEW user \in Owners, AdminDeleteUser(x, user)
    PROVE  AdminInv'
<1> DEFINE mine(kind) == SetToSeq({d \in DocIds : Classified(d, kind, user)})
<1> PICK ps, ms : ps = mine("project") /\ ms = mine("marker")
  OBVIOUS
<1> DEFINE next == [at |-> "gcs", user |-> user, projects |-> ps, markers |-> ms]
<1>1. UNCHANGED <<docs, users, objects, replaced, overtaken, init, writing, writtenLate>>
  BY DEF AdminDeleteUser, UnchangedByDeletion
<1>2. Advance(x, next)
  BY DEF AdminDeleteUser
<1>3. ~\E d \in DocIds : Unclassified(d) /\ PotentiallyOwnedBy(d, user)
  BY DEF AdminDeleteUser
<1>4. /\ ps \in Seq(DocIds) /\ Distinct(ps)
      /\ \A i \in 1..Len(ps) : ps[i] \in DocIds /\ Classified(ps[i], "project", user)
      /\ \A d \in DocIds : Classified(d, "project", user) => Listed(d, ps)
  BY UserLists
<1>5. /\ ms \in Seq(DocIds) /\ Distinct(ms)
      /\ \A i \in 1..Len(ms) : ms[i] \in DocIds /\ Classified(ms[i], "marker", user)
      /\ \A d \in DocIds : Classified(d, "marker", user) => Listed(d, ms)
  BY UserLists
<1> HIDE DEF mine
<1>6. user # Nothing
  BY Names DEF Nothing
<1>7. /\ next \in DeletionType /\ next.at = "gcs" /\ next.user = user
      /\ next.projects = ps /\ next.markers = ms
  BY <1>4, <1>5 DEF DeletionType
<1> HIDE DEF next
<1>8. /\ deletion' \in [Deletions -> DeletionType] /\ deletion'[x] = next
      /\ /\ StageOf(x)' /\ ProjectsOwned(x)' /\ MarkersOwned(x)'
         /\ Distinct(next.projects) /\ Distinct(next.markers)
         /\ CompleteFor(x)' /\ EmptyFor(x)'
         => DeletionStages' /\ ListsOwned' /\ ListsDistinct' /\ ListsComplete' /\ TargetEmpty'
  BY <1>1, <1>2, <1>7, OtherDeletions, SameDocs
<1>9. StageOf(x)' /\ EmptyFor(x)'
  BY <1>6, <1>7, <1>8 DEF StageOf, EmptyFor
<1>10. \A d \in DocIds : Classified(d, "project", user) => ProjectId(d, user)
  BY DocKinds DEF AdminInv, Classified
<1>11. \A d \in DocIds : Classified(d, "marker", user) => MarkerId(d) /\ Exists(d) /\ Creator(d) = user
  BY DocKinds DEF AdminInv, Classified
<1>12. ProjectsOwned(x)'
  BY <1>4, <1>7, <1>8, <1>10 DEF ProjectsOwned
<1>13. MarkersOwned(x)'
  <2>1. \A i \in 1..Len(ms) : MarkerId(ms[i]) /\ Exists(ms[i])' /\ Creator(ms[i])' = user
    BY <1>1, <1>5, <1>11, SameDocs
  <2> QED
    BY <1>7, <1>8, <2>1 DEF MarkersOwned
<1>14. CompleteFor(x)'
  <2> SUFFICES ASSUME NEW d \in DocIds, Exists(d)', Creator(d)' = user
               PROVE  Listed(d, ps) \/ Listed(d, ms)
    BY <1>7, <1>8 DEF CompleteFor
  <2>1. Exists(d) /\ Creator(d) = user
    BY <1>1, SameDocs
  <2>2. Classified(d, "project", user) \/ Classified(d, "marker", user)
    BY <1>3, <2>1, DocKinds DEF AdminInv
  <2> QED
    BY <1>4, <1>5, <2>2
<1>15. AdminTypeOK'
  BY <1>1, <1>8 DEF AdminInv, AdminTypeOK
<1>16. DocumentsAnchorData'
  BY <1>1, SameObjects
<1> QED
  BY <1>1, <1>4, <1>5, <1>7, <1>8, <1>9, <1>12, <1>13, <1>14, <1>15, <1>16, SameDocs, SameRequests
     DEF AdminInv

LEMMA GCSKeeps ==
    ASSUME AdminInv, NEW x \in Deletions, deleteGCSProjectPrefix(x)
    PROVE  AdminInv'
<1> PICK old, next : old = deletion[x] /\ next = [deletion[x] EXCEPT !.at = "doc"]
  OBVIOUS
<1>1. /\ UNCHANGED <<docs, users, replaced, overtaken, init, writing, writtenLate>>
      /\ objects' = {o \in objects : projectDocID(o[1], o[2]) # Target(x)}
      /\ Advance(x, next) /\ old.projects # <<>> /\ old.at = "gcs"
  BY DEF deleteGCSProjectPrefix, UnchangedByDeletion, HasTarget
<1>2. objects' \subseteq objects
  BY <1>1
<1>3. old \in DeletionType
  BY DEF AdminInv, AdminTypeOK
<1>4. /\ next \in DeletionType /\ next.at = "doc" /\ next.user = old.user
      /\ next.projects = old.projects /\ next.markers = old.markers
  BY <1>3 DEF DeletionType
<1>5. /\ StageOf(x) /\ ProjectsOwned(x) /\ MarkersOwned(x)
      /\ Distinct(old.projects) /\ Distinct(old.markers) /\ CompleteFor(x)
  BY DEF AdminInv, DeletionStages, ListsOwned, ListsDistinct, ListsComplete
<1>6. /\ deletion' \in [Deletions -> DeletionType] /\ deletion'[x] = next
      /\ /\ StageOf(x)' /\ ProjectsOwned(x)' /\ MarkersOwned(x)'
         /\ Distinct(next.projects) /\ Distinct(next.markers)
         /\ CompleteFor(x)' /\ EmptyFor(x)'
         => DeletionStages' /\ ListsOwned' /\ ListsDistinct' /\ ListsComplete' /\ TargetEmpty'
  BY <1>1, <1>2, <1>4, OtherDeletions, SameDocs
<1>7. StageOf(x)' /\ ProjectsOwned(x)'
  BY <1>1, <1>4, <1>5, <1>6 DEF StageOf, ProjectsOwned
<1>8. MarkersOwned(x)' /\ CompleteFor(x)'
  <2>1. \A d : Exists(d)' = Exists(d) /\ Creator(d)' = Creator(d)
    BY <1>1 DEF Exists, Creator
  <2> QED
    BY <1>1, <1>4, <1>5, <1>6, <2>1 DEF MarkersOwned, CompleteFor
<1>9. EmptyFor(x)'
  <2>1. Target(x)' = Target(x)
    BY <1>4, <1>6 DEF Target
  <2> QED
    BY <1>1, <2>1 DEF EmptyFor
<1>10. AdminTypeOK'
  BY <1>1, <1>2, <1>6 DEF AdminInv, AdminTypeOK
<1>11. DocumentsAnchorData'
  BY <1>1, <1>2 DEF AdminInv, DocumentsAnchorData, Exists, Creator
<1> QED
  BY <1>1, <1>4, <1>5, <1>6, <1>7, <1>8, <1>9, <1>10, <1>11, SameDocs, SameRequests DEF AdminInv

(* The answers to keys survive what does not remove their markers.          *)
LEMMA AnswersKept ==
    ASSUME AdminInv, NEW t \in DocIds, docs' = [docs EXCEPT ![t] = NoDoc], UNCHANGED init,
           replaced \subseteq replaced', t \in replaced' \/ ~(Exists(t) /\ docs[t].url)
    PROVE  AnswersMarked'
<1> SUFFICES ASSUME NEW r \in Inits, NEW d, d = projectDocID(init[r].user, init[r].key),
                    init[r].at = "answered", init[r].key # Nothing, d \notin replaced'
             PROVE  Exists(d)' /\ docs'[d].url /\ docs'[d].project = init[r].project
  BY DEF AnswersMarked
<1>1. Exists(d) /\ docs[d].url /\ docs[d].project = init[r].project
  BY DEF AdminInv, AnswersMarked
<1>2. d # t /\ d \in DocIds
  BY <1>1 DEF Exists
<1> QED
  BY <1>1, <1>2, Removal

(* A request that is answered has nothing left to remove.                   *)
LEMMA FinishKeeps ==
    ASSUME AdminInv, NEW x \in Deletions, Finish(x),
           \A y \in Deletions, d \in DocIds : y # x /\ Listed(d, deletion[y].markers) /\ Exists(d) =>
               Exists(d)' /\ Creator(d)' = Creator(d),
           \A d \in DocIds : Exists(d)' => Exists(d) /\ Creator(d)' = Creator(d),
           UNCHANGED writtenLate, UNCHANGED objects
    PROVE  /\ deletion' \in [Deletions -> DeletionType] /\ DeletionStages' /\ ListsOwned'
           /\ ListsDistinct' /\ ListsComplete' /\ TargetEmpty'
<1>1. /\ Idle.at = "idle" /\ Idle.user = Nothing /\ Idle.projects = <<>> /\ Idle.markers = <<>>
      /\ Len(<<>>) = 0 /\ Idle \in DeletionType
  BY EmptySeq DEF Idle, DeletionType
<1>2. Advance(x, Idle) /\ overtaken' = {o \in overtaken : o[1] # x}
  BY DEF Finish
<1>3. \A y \in Deletions, d \in DocIds : y # x /\ <<y, d>> \in overtaken => <<y, d>> \in overtaken'
  BY <1>2
<1>4. /\ deletion' \in [Deletions -> DeletionType] /\ deletion'[x] = Idle
      /\ /\ StageOf(x)' /\ ProjectsOwned(x)' /\ MarkersOwned(x)'
         /\ Distinct(Idle.projects) /\ Distinct(Idle.markers)
         /\ CompleteFor(x)' /\ EmptyFor(x)'
         => DeletionStages' /\ ListsOwned' /\ ListsDistinct' /\ ListsComplete' /\ TargetEmpty'
  BY <1>1, <1>2, <1>3, OtherDeletions
<1>5. StageOf(x)' /\ CompleteFor(x)' /\ EmptyFor(x)'
  BY <1>1, <1>4 DEF StageOf, CompleteFor, EmptyFor
<1>6. ProjectsOwned(x)' /\ MarkersOwned(x)' /\ Distinct(Idle.projects) /\ Distinct(Idle.markers)
  BY <1>1, <1>4 DEF ProjectsOwned, MarkersOwned, Distinct
<1> QED
  BY <1>4, <1>5, <1>6

LEMMA DeleteProjectKeeps ==
    ASSUME AdminInv, NEW x \in Deletions, deleteProject(x)
    PROVE  AdminInv'
<1> PICK old, ps, ms, user, t : /\ old = deletion[x] /\ ps = old.projects /\ ms = old.markers
                                /\ user = old.user /\ t = Head(ps)
  OBVIOUS
<1>1. /\ old \in DeletionType /\ ps \in Seq(DocIds) /\ ms \in Seq(DocIds)
      /\ user \in Owners \cup {Nothing}
      /\ ps # <<>> /\ Distinct(ps) /\ Distinct(ms) /\ t = Target(x) /\ old.at = "doc"
  BY DEF AdminInv, AdminTypeOK, DeletionType, ListsDistinct, deleteProject, HasTarget, Target
<1>2. /\ t = ps[1] /\ 1 \in 1..Len(ps) /\ t \in DocIds
      /\ Tail(ps) \in Seq(DocIds) /\ Distinct(Tail(ps))
      /\ \A i \in 1..Len(Tail(ps)) : i + 1 \in 1..Len(ps) /\ Tail(ps)[i] = ps[i + 1] /\ Tail(ps)[i] # t
      /\ \A d : Listed(d, ps) => d = t \/ Listed(d, Tail(ps))
  BY <1>1, RestOfList
<1>3. /\ docs' = [docs EXCEPT ![t] = NoDoc]
      /\ UNCHANGED <<users, objects, replaced, init, writing, writtenLate>>
      /\ IF user = Nothing THEN Finish(x)
         ELSE Advance(x, [old EXCEPT !.at = "gcs", !.projects = Tail(ps)]) /\ UNCHANGED overtaken
  BY <1>1 DEF deleteProject, UnchangedByDeletion
<1>4. ProjectsOwned(x) /\ MarkersOwned(x) /\ CompleteFor(x) /\ EmptyFor(x)
  BY DEF AdminInv, ListsOwned, ListsComplete, TargetEmpty
<1>5. PICK owner \in Owners : ProjectId(t, owner) /\ user \in {Nothing, owner}
  BY <1>2, <1>4 DEF ProjectsOwned
<1>6. ~(Exists(t) /\ docs[t].url)
  BY <1>2, <1>5, ProjectDoc DEF AdminInv
<1>7. /\ docs' \in [DocIds -> DocType] /\ DocsFormed' /\ ProjectsUnique' /\ CreatesFresh' /\ RequestsOwned'
      /\ \A d \in DocIds : /\ Exists(d)' = (Exists(d) /\ d # t)
                           /\ d # t => docs'[d] = docs[d] /\ Creator(d)' = Creator(d)
  BY <1>2, <1>3, Removal
<1>8. AnswersMarked'
  BY <1>2, <1>3, <1>6, AnswersKept
<1>9. DocumentsAnchorData'
  <2>1. \A o \in objects : projectDocID(o[1], o[2]) = t => o \in writtenLate
    BY <1>1, <1>4 DEF EmptyFor
  <2>2. \A d : Exists(d) /\ d # t => Exists(d)'
    BY <1>7 DEF Exists
  <2>3. \A o \in objects : Exists(projectDocID(o[1], o[2]))' \/ o \in writtenLate
    BY <2>1, <2>2 DEF AdminInv, DocumentsAnchorData
  <2>4. \A d \in DocIds : Exists(d)' => Creator(d)' \in users \/ <<Creator(d)', Nothing>> \in writtenLate
    BY <1>7 DEF AdminInv, DocumentsAnchorData
  <2> QED
    BY <1>3, <2>3, <2>4 DEF DocumentsAnchorData
<1>10. ASSUME NEW y \in Deletions, NEW d \in DocIds, Listed(d, deletion[y].markers), Exists(d)
       PROVE  Exists(d)' /\ Creator(d)' = Creator(d)
  <2>1. MarkerId(d)
    BY <1>10 DEF AdminInv, ListsOwned, MarkersOwned, Listed
  <2>2. d # t
    BY <1>5, <2>1, MarkersAreNoProjects
  <2> QED
    BY <1>7, <1>10, <2>2
<1>11. \A d \in DocIds : Exists(d)' => Exists(d) /\ Creator(d)' = Creator(d)
  BY <1>7
<1>12. CASE user = Nothing
  <2>1. /\ deletion' \in [Deletions -> DeletionType] /\ DeletionStages' /\ ListsOwned'
        /\ ListsDistinct' /\ ListsComplete' /\ TargetEmpty'
    BY <1>3, <1>10, <1>11, <1>12, FinishKeeps
  <2>2. AdminTypeOK'
    BY <1>3, <1>7, <2>1 DEF AdminInv, AdminTypeOK
  <2> QED
    BY <1>7, <1>8, <1>9, <2>1, <2>2 DEF AdminInv
<1>13. CASE user # Nothing
  <2> PICK next : next = [old EXCEPT !.at = "gcs", !.projects = Tail(ps)]
    OBVIOUS
  <2>1. /\ next \in DeletionType /\ next.at = "gcs" /\ next.user = user
        /\ next.projects = Tail(ps) /\ next.markers = ms
    BY <1>1, <1>2 DEF DeletionType
  <2>2. Advance(x, next) /\ UNCHANGED <<overtaken, writtenLate, objects>>
    BY <1>3, <1>13
  <2>3. /\ deletion' \in [Deletions -> DeletionType] /\ deletion'[x] = next
        /\ /\ StageOf(x)' /\ ProjectsOwned(x)' /\ MarkersOwned(x)'
           /\ Distinct(next.projects) /\ Distinct(next.markers)
           /\ CompleteFor(x)' /\ EmptyFor(x)'
           => DeletionStages' /\ ListsOwned' /\ ListsDistinct' /\ ListsComplete' /\ TargetEmpty'
    BY <1>10, <1>11, <2>1, <2>2, OtherDeletions
  <2>4. AdminTypeOK'
    BY <1>3, <1>7, <2>3 DEF AdminInv, AdminTypeOK
  <2>5. StageOf(x)' /\ EmptyFor(x)'
    BY <1>13, <2>1, <2>3 DEF StageOf, EmptyFor
  <2>6. ProjectsOwned(x)'
    <3>1. \A i \in 1..Len(Tail(ps)) : \E o \in Owners : ProjectId(Tail(ps)[i], o) /\ user \in {Nothing, o}
      BY <1>2, <1>4 DEF ProjectsOwned
    <3> QED
      BY <2>1, <2>3, <3>1 DEF ProjectsOwned
  <2>7. MarkersOwned(x)'
    <3> SUFFICES ASSUME NEW i \in 1..Len(ms), NEW d, d = ms[i]
                 PROVE  MarkerId(d) /\ (<<x, d>> \in overtaken \/ (Exists(d)' /\ Creator(d)' = user))
      BY <2>1, <2>2, <2>3 DEF MarkersOwned
    <3>1. MarkerId(d) /\ (<<x, d>> \in overtaken \/ (Exists(d) /\ Creator(d) = user))
      BY <1>4 DEF MarkersOwned
    <3>2. Listed(d, deletion[x].markers)
      BY DEF Listed
    <3>3. d \in DocIds
      BY <1>1
    <3> QED
      BY <1>10, <3>1, <3>2, <3>3
  <2>8. CompleteFor(x)'
    <3> SUFFICES ASSUME NEW d \in DocIds, Exists(d)', Creator(d)' = user
                 PROVE  Listed(d, Tail(ps)) \/ Listed(d, ms) \/ <<user, Nothing>> \in writtenLate
      BY <2>1, <2>2, <2>3 DEF CompleteFor
    <3>1. Exists(d) /\ d # t /\ Creator(d) = user
      BY <1>7
    <3>2. Listed(d, ps) \/ Listed(d, ms) \/ <<user, Nothing>> \in writtenLate
      BY <1>4, <1>13, <3>1 DEF CompleteFor
    <3> QED
      BY <1>2, <3>1, <3>2
  <2> QED
    BY <1>1, <1>2, <1>7, <1>8, <1>9, <2>1, <2>3, <2>4, <2>5, <2>6, <2>7, <2>8 DEF AdminInv
<1> QED
  BY <1>12, <1>13

LEMMA DeleteMarkerKeeps ==
    ASSUME AdminInv, NEW x \in Deletions, deleteMarker(x)
    PROVE  AdminInv'
<1> PICK old, ps, ms, user, t : /\ old = deletion[x] /\ ps = old.projects /\ ms = old.markers
                                /\ user = old.user /\ t = Head(ms)
  OBVIOUS
<1>1. /\ old \in DeletionType /\ ps = <<>> /\ ms \in Seq(DocIds) /\ user \in Owners \cup {Nothing}
      /\ ms # <<>> /\ Distinct(ms) /\ old.at = "gcs"
  BY DEF AdminInv, AdminTypeOK, DeletionType, ListsDistinct, deleteMarker
<1>2. /\ t = ms[1] /\ 1 \in 1..Len(ms) /\ t \in DocIds
      /\ Tail(ms) \in Seq(DocIds) /\ Distinct(Tail(ms))
      /\ \A i \in 1..Len(Tail(ms)) : i + 1 \in 1..Len(ms) /\ Tail(ms)[i] = ms[i + 1] /\ Tail(ms)[i] # t
      /\ \A d : Listed(d, ms) => d = t \/ Listed(d, Tail(ms))
  BY <1>1, RestOfList
<1>3. /\ docs' = [docs EXCEPT ![t] = NoDoc] /\ replaced' = replaced \cup {t}
      /\ UNCHANGED <<users, objects, init, writing, writtenLate>>
      /\ overtaken' = overtaken \cup
             {<<y, t>> : y \in {z \in Deletions \ {x} : Listed(t, deletion[z].markers)}}
      /\ Advance(x, [old EXCEPT !.markers = Tail(ms)])
  BY DEF deleteMarker, UnchangedByDeletion
<1>4. StageOf(x) /\ MarkersOwned(x) /\ CompleteFor(x)
  BY DEF AdminInv, DeletionStages, ListsOwned, ListsComplete
<1>5. user # Nothing
  BY <1>1, <1>4 DEF StageOf
<1>6. MarkerId(t)
  BY <1>2, <1>4 DEF MarkersOwned
<1>7. /\ docs' \in [DocIds -> DocType] /\ DocsFormed' /\ ProjectsUnique' /\ CreatesFresh' /\ RequestsOwned'
      /\ \A d \in DocIds : /\ Exists(d)' = (Exists(d) /\ d # t)
                           /\ d # t => docs'[d] = docs[d] /\ Creator(d)' = Creator(d)
  BY <1>2, <1>3, Removal
<1>8. AnswersMarked'
  BY <1>2, <1>3, AnswersKept
<1>9. \A o \in objects : projectDocID(o[1], o[2]) # t
  <2>1. ASSUME NEW o \in objects PROVE o[1] \in Owners /\ ProjectId(projectDocID(o[1], o[2]), o[1])
    BY <2>1 DEF AdminInv, AdminTypeOK, ProjectId
  <2> QED
    BY <1>6, <2>1, MarkersAreNoProjects
<1>10. DocumentsAnchorData'
  <2>1. \A d : Exists(d) /\ d # t => Exists(d)'
    BY <1>7 DEF Exists
  <2>2. \A o \in objects : Exists(projectDocID(o[1], o[2]))' \/ o \in writtenLate
    BY <1>9, <2>1 DEF AdminInv, DocumentsAnchorData
  <2>3. \A d \in DocIds : Exists(d)' => Creator(d)' \in users \/ <<Creator(d)', Nothing>> \in writtenLate
    BY <1>7 DEF AdminInv, DocumentsAnchorData
  <2> QED
    BY <1>3, <2>2, <2>3 DEF DocumentsAnchorData
<1> PICK next : next = [old EXCEPT !.markers = Tail(ms)]
  OBVIOUS
<1>11. /\ next \in DeletionType /\ next.at = "gcs" /\ next.user = user
       /\ next.projects = ps /\ next.markers = Tail(ms)
  BY <1>1, <1>2 DEF DeletionType
<1>12. /\ deletion' \in [Deletions -> DeletionType] /\ deletion'[x] = next
       /\ /\ StageOf(x)' /\ ProjectsOwned(x)' /\ MarkersOwned(x)'
          /\ Distinct(next.projects) /\ Distinct(next.markers)
          /\ CompleteFor(x)' /\ EmptyFor(x)'
          => DeletionStages' /\ ListsOwned' /\ ListsDistinct' /\ ListsComplete' /\ TargetEmpty'
  <2>1. ASSUME NEW y \in Deletions, NEW d \in DocIds, y # x, Listed(d, deletion[y].markers), Exists(d)
        PROVE  <<y, d>> \in overtaken' \/ (Exists(d)' /\ Creator(d)' = Creator(d))
    <3>1. CASE d = t
      BY <1>3, <2>1, <3>1
    <3>2. CASE d # t
      BY <1>7, <2>1, <3>2
    <3> QED
      BY <3>1, <3>2
  <2>2. \A d \in DocIds : Exists(d)' => Exists(d) /\ Creator(d)' = Creator(d)
    BY <1>7
  <2>3. \A y \in Deletions, d \in DocIds : y # x /\ <<y, d>> \in overtaken => <<y, d>> \in overtaken'
    BY <1>3
  <2> QED
    BY <1>3, <1>11, <2>1, <2>2, <2>3, OtherDeletions
<1>13. AdminTypeOK'
  BY <1>3, <1>7, <1>12 DEF AdminInv, AdminTypeOK
<1>14. StageOf(x)' /\ EmptyFor(x)'
  BY <1>5, <1>11, <1>12 DEF StageOf, EmptyFor
<1>15. ProjectsOwned(x)' /\ Distinct(next.projects) /\ Distinct(next.markers)
  <2>1. Len(next.projects) = 0
    BY <1>1, <1>11
  <2> QED
    BY <1>2, <1>11, <1>12, <2>1 DEF ProjectsOwned, Distinct
<1>16. MarkersOwned(x)'
  <2> SUFFICES ASSUME NEW i \in 1..Len(Tail(ms)), NEW d, d = Tail(ms)[i]
               PROVE  MarkerId(d) /\ (<<x, d>> \in overtaken' \/ (Exists(d)' /\ Creator(d)' = user))
    BY <1>11, <1>12 DEF MarkersOwned
  <2>1. i + 1 \in 1..Len(ms) /\ d = ms[i + 1] /\ d # t
    BY <1>2
  <2>2. MarkerId(d) /\ (<<x, d>> \in overtaken \/ (Exists(d) /\ Creator(d) = user))
    BY <1>4, <2>1 DEF MarkersOwned
  <2>3. d \in DocIds
    BY <1>1, <2>1
  <2> QED
    BY <1>3, <1>7, <2>1, <2>2, <2>3
<1>17. CompleteFor(x)'
  <2> SUFFICES ASSUME NEW d \in DocIds, Exists(d)', Creator(d)' = user
               PROVE  Listed(d, ps) \/ Listed(d, Tail(ms)) \/ <<user, Nothing>> \in writtenLate
    BY <1>3, <1>11, <1>12 DEF CompleteFor
  <2>1. Exists(d) /\ d # t /\ Creator(d) = user
    BY <1>7
  <2>2. Listed(d, ps) \/ Listed(d, ms) \/ <<user, Nothing>> \in writtenLate
    BY <1>4, <1>5, <2>1 DEF CompleteFor
  <2> QED
    BY <1>2, <2>1, <2>2
<1> QED
  BY <1>7, <1>8, <1>10, <1>12, <1>13, <1>14, <1>15, <1>16, <1>17 DEF AdminInv

LEMMA DeletionEndKeeps ==
    ASSUME AdminInv, NEW x \in Deletions, deleteUser(x) \/ DeletionFails(x)
    PROVE  AdminInv'
<1>1. /\ UNCHANGED <<docs, objects, replaced, init, writing, writtenLate>>
      /\ Finish(x) /\ users' \subseteq users
  BY DEF deleteUser, DeletionFails, UnchangedByDeletion
<1>2. \A d \in DocIds : Exists(d)' = Exists(d) /\ Creator(d)' = Creator(d)
  BY <1>1, SameDocs
<1>3. /\ deletion' \in [Deletions -> DeletionType] /\ DeletionStages' /\ ListsOwned'
      /\ ListsDistinct' /\ ListsComplete' /\ TargetEmpty'
  BY <1>1, <1>2, FinishKeeps
<1>4. AdminTypeOK'
  BY <1>1, <1>3 DEF AdminInv, AdminTypeOK
<1>5. DocumentsAnchorData'
  <2>1. CASE deleteUser(x)
    <3> PICK user : user = deletion[x].user
      OBVIOUS
    <3>1. /\ users' = users \ {user} /\ user # Nothing
          /\ deletion[x].projects = <<>> /\ deletion[x].markers = <<>>
      BY <2>1 DEF deleteUser
    <3>2. \A d : ~Listed(d, deletion[x].projects) /\ ~Listed(d, deletion[x].markers)
      BY <3>1, EmptySeq DEF Listed
    <3>3. \A d \in DocIds : Exists(d) /\ Creator(d) = user => <<user, Nothing>> \in writtenLate
      BY <3>1, <3>2 DEF AdminInv, ListsComplete, CompleteFor
    <3> QED
      BY <1>1, <3>1, <3>3 DEF AdminInv, DocumentsAnchorData, Exists, Creator
  <2>2. CASE DeletionFails(x)
    BY <1>1, <2>2, SameObjects DEF DeletionFails
  <2> QED
    BY <2>1, <2>2
<1> QED
  BY <1>1, <1>3, <1>4, <1>5, SameDocs, SameRequests DEF AdminInv

LEMMA AdminInvNext ==
    ASSUME AdminInv, [AdminNext]_adminVars
    PROVE  AdminInv'
<1>1. CASE UNCHANGED adminVars
  <2>1. UNCHANGED <<docs, users, objects, init, deletion, writing, writtenLate, replaced, overtaken>>
    BY <1>1 DEF adminVars
  <2>2. AdminTypeOK'
    BY <2>1 DEF AdminInv, AdminTypeOK
  <2> QED
    BY <2>1, <2>2, SameDocs, SameRequests, SameDeletion, SameObjects DEF AdminInv
<1>2. ASSUME NEW r \in Inits, NEW i \in InitRequests, LookupKey(r, i[1], i[2]) PROVE AdminInv'
  BY <1>2, LookupKeyKeeps
<1>3. ASSUME NEW r \in Inits, createInitProjectDocs(r) \/ RereadKey(r) PROVE AdminInv'
  BY <1>3, CreationKeeps, RereadKeyKeeps
<1>4. ASSUME NEW o \in Owners, NEW p \in ProjectIds \cup {LegacyProject},
             RenameProject(o, p) \/ BeginWrite(o, p) \/ WriteObjects(o, p)
      PROVE  AdminInv'
  BY <1>4, RenameKeeps, WritingKeeps
<1>5. ASSUME NEW x \in Deletions, NEW d \in DocIds, AdminDeleteProject(x, d) PROVE AdminInv'
  BY <1>5, AdminDeleteProjectKeeps
<1>6. ASSUME NEW x \in Deletions, NEW o \in Owners, AdminDeleteUser(x, o) PROVE AdminInv'
  BY <1>6, AdminDeleteUserKeeps
<1>7. ASSUME NEW x \in Deletions, deleteGCSProjectPrefix(x) \/ deleteProject(x) \/ deleteMarker(x)
      PROVE  AdminInv'
  BY <1>7, GCSKeeps, DeleteProjectKeeps, DeleteMarkerKeeps
<1>8. ASSUME NEW x \in Deletions, deleteUser(x) \/ DeletionFails(x) PROVE AdminInv'
  BY <1>8, DeletionEndKeeps
<1> QED
  BY <1>1, <1>2, <1>3, <1>4, <1>5, <1>6, <1>7, <1>8 DEF AdminNext

(* The inductive invariant of projects and users.                           *)
THEOREM AdminInvariant == AdminSpec => []AdminInv
<1>1. AdminInit => AdminInv
  BY AdminInvInit
<1>2. AdminInv /\ [AdminNext]_adminVars => AdminInv'
  BY AdminInvNext
<1> QED
  BY <1>1, <1>2, PTL DEF AdminSpec

-----------------------------------------------------------------------------
(* What follows *)

LEMMA OneProjectPerKeyFollows ==
    ASSUME AdminInv
    PROVE  OneProjectPerKey
<1>1. ASSUME NEW q \in Inits, NEW r \in Inits, init[q].at = "answered", init[r].at = "answered",
             init[q].user = init[r].user, init[q].key = init[r].key, init[q].key # Nothing,
             projectDocID(init[q].user, init[q].key) \notin replaced
      PROVE  init[q].project = init[r].project
  <2> PICK d : d = projectDocID(init[q].user, init[q].key)
    OBVIOUS
  <2>1. docs[d].project = init[q].project /\ docs[d].project = init[r].project
    BY <1>1 DEF AdminInv, AnswersMarked
  <2> QED
    BY <2>1
<1>2. ASSUME NEW d \in DocIds, NEW e \in DocIds, Exists(d), Exists(e), d # e,
             docs[d].project = docs[e].project, NEW o \in Owners,
             ListProjects(o, d), ListProjects(o, e)
      PROVE  FALSE
  <2>1. \A x \in DocIds : Exists(x) /\ ListProjects(o, x) => ~docs[x].url
    BY DocKinds DEF AdminInv, ListProjects
  <2> QED
    BY <1>2, <2>1 DEF AdminInv, ProjectsUnique
<1> QED
  BY <1>1, <1>2 DEF OneProjectPerKey

(* InitProject, createInitProjectDocs: overlapping requests of a user with  *)
(* one Idempotency-Key are answered with one project, and no project is     *)
(* listed twice, for any owners and keys, also with common prefixes.        *)
THEOREM KeysNameProjects == AdminSpec => []OneProjectPerKey
<1>1. AdminInv => OneProjectPerKey
  BY OneProjectPerKeyFollows
<1> QED
  BY <1>1, AdminInvariant, PTL

(* deleteAdminUserResourcesWithUserProjects: whatever call of a deletion    *)
(* fails, and whatever is written meanwhile, data without a document and a  *)
(* document without a user come only from a write that overlapped it.       *)
THEOREM DataAnchored == AdminSpec => []DocumentsAnchorData
<1>1. AdminInv => DocumentsAnchorData
  BY DEF AdminInv
<1> QED
  BY <1>1, AdminInvariant, PTL

(* What a step removes, a deletion of its user or project removes.          *)
RightOne(x, d) == Aimed(x, Creator(d), d) \/ (docs[d].url /\ <<x, d>> \in overtaken)

TargetsOnly ==
    /\ \A d \in DocIds : Exists(d) /\ docs'[d] = NoDoc =>
          \E x \in Deletions :
              /\ deletion'[x] # deletion[x]
              /\ Aimed(x, Creator(d), d) \/ (docs[d].url /\ <<x, d>> \in overtaken)
    /\ \A o \in objects \ objects' :
          \E x \in Deletions :
              deletion'[x] # deletion[x] /\ Aimed(x, o[1], projectDocID(o[1], o[2]))

(* The document a deletion works on, and its objects, are its user's.       *)
LEMMA TargetAimed ==
    ASSUME AdminInv, NEW x \in Deletions, NEW at, at # "idle", HasTarget(x, at)
    PROVE  \E o \in Owners : ProjectId(Target(x), o) /\ Aimed(x, o, Target(x))
<1> PICK old, ps : old = deletion[x] /\ ps = old.projects
  OBVIOUS
<1>1. ps \in Seq(DocIds) /\ ps # <<>> /\ old.at = at
  BY DEF AdminInv, AdminTypeOK, DeletionType, HasTarget
<1>2. Target(x) = ps[1] /\ 1 \in 1..Len(ps)
  BY <1>1, EmptySeq DEF Target
<1>3. PICK o \in Owners : ProjectId(Target(x), o) /\ old.user \in {Nothing, o}
  BY <1>2 DEF AdminInv, ListsOwned, ProjectsOwned
<1>4. old.user = Nothing => ps = <<Target(x)>>
  <2>1. old.user = Nothing => Len(ps) = 1
    BY <1>1 DEF AdminInv, DeletionStages, StageOf
  <2> QED
    BY <1>1, <1>2, <2>1
<1> QED
  BY <1>3, <1>4 DEF Aimed

(* Documents that a step changes without removing them.                     *)
LEMMA RenamingRemovesNothing ==
    ASSUME AdminInv, NEW o \in Owners, NEW p \in ProjectIds \cup {LegacyProject}, RenameProject(o, p),
           NEW d \in DocIds, Exists(d)
    PROVE  docs'[d] # NoDoc
<1> PICK t : t = projectDocID(o, p)
  OBVIOUS
<1>1. docs' = [docs EXCEPT ![t].name = p] /\ docs \in [DocIds -> DocType]
  BY DEF RenameProject, AdminInv, AdminTypeOK
<1>2. docs'[d].name = p \/ docs'[d] = docs[d]
  BY <1>1 DEF DocType
<1>3. p # Nothing
  BY Names DEF SingleParts, Nothing
<1> QED
  BY <1>2, <1>3 DEF NoDoc, Exists

(* The two removals of documents.                                           *)
LEMMA ProjectRemoval ==
    ASSUME AdminInv, NEW x \in Deletions, deleteProject(x), NEW d \in DocIds, Exists(d), docs'[d] = NoDoc
    PROVE  deletion'[x] # deletion[x] /\ Aimed(x, Creator(d), d)
<1>1. HasTarget(x, "doc") /\ docs' = [docs EXCEPT ![Target(x)] = NoDoc]
  BY DEF deleteProject
<1>2. d = Target(x)
  BY <1>1 DEF Exists, AdminInv, AdminTypeOK
<1>3. PICK o \in Owners : ProjectId(d, o) /\ Aimed(x, o, d)
  BY <1>1, <1>2, TargetAimed
<1>4. Creator(d) = o
  BY <1>3, ProjectDoc DEF AdminInv
<1>5. deletion'[x] # deletion[x]
  <2>1. deletion[x].at = "doc" /\ deletion \in [Deletions -> DeletionType]
    BY <1>1 DEF HasTarget, AdminInv, AdminTypeOK
  <2>2. \/ deletion' = [deletion EXCEPT ![x] = Idle]
        \/ deletion' = [deletion EXCEPT ![x] =
                          [deletion[x] EXCEPT !.at = "gcs", !.projects = Tail(@)]]
    BY DEF deleteProject, Finish, Advance
  <2>3. Idle.at = "idle"
    BY DEF Idle
  <2>4. CASE deletion' = [deletion EXCEPT ![x] = Idle]
    <3>1. deletion'[x] = Idle
      BY <2>1, <2>4
    <3> QED
      BY <2>1, <2>3, <3>1
  <2>5. CASE deletion' = [deletion EXCEPT ![x] =
                            [deletion[x] EXCEPT !.at = "gcs", !.projects = Tail(@)]]
    <3>1. deletion'[x].at = "gcs"
      BY <2>1, <2>5 DEF DeletionType
    <3> QED
      BY <2>1, <3>1
  <2> QED
    BY <2>2, <2>4, <2>5
<1> QED
  BY <1>3, <1>4, <1>5

LEMMA MarkerRemoval ==
    ASSUME AdminInv, NEW x \in Deletions, deleteMarker(x), NEW d \in DocIds, Exists(d), docs'[d] = NoDoc
    PROVE  deletion'[x] # deletion[x] /\ RightOne(x, d)
<1> PICK old, ms : old = deletion[x] /\ ms = old.markers
  OBVIOUS
<1>1. /\ old \in DeletionType /\ ms \in Seq(DocIds) /\ ms # <<>> /\ old.at = "gcs"
      /\ docs' = [docs EXCEPT ![Head(ms)] = NoDoc]
      /\ deletion' = [deletion EXCEPT ![x] = [old EXCEPT !.markers = Tail(ms)]]
      /\ deletion \in [Deletions -> DeletionType]
  BY DEF AdminInv, AdminTypeOK, DeletionType, deleteMarker, Advance
<1>2. d = Head(ms)
  BY <1>1 DEF Exists, AdminInv, AdminTypeOK
<1>3. d = ms[1] /\ 1 \in 1..Len(ms) /\ Len(Tail(ms)) = Len(ms) - 1 /\ Len(ms) \in Nat
  BY <1>1, <1>2, EmptySeq
<1>4. MarkerId(d) /\ (<<x, d>> \in overtaken \/ Creator(d) = old.user)
  BY <1>3 DEF AdminInv, ListsOwned, MarkersOwned
<1>5. docs[d].url
  BY <1>4, MarkerDoc DEF AdminInv
<1>6. old.user # Nothing
  BY <1>1 DEF AdminInv, DeletionStages, StageOf
<1>7. deletion'[x] # deletion[x]
  <2>1. deletion'[x].markers = Tail(ms)
    BY <1>1 DEF DeletionType
  <2>2. Tail(ms) # ms
    <3>1. Len(Tail(ms)) # Len(ms)
      BY <1>3
    <3> QED
      BY <3>1
  <2> QED
    BY <2>1, <2>2
<1> QED
  BY <1>4, <1>5, <1>6, <1>7 DEF RightOne, Aimed

(* The removal of objects.                                                  *)
LEMMA ObjectRemoval ==
    ASSUME AdminInv, NEW x \in Deletions, deleteGCSProjectPrefix(x), NEW o \in objects \ objects'
    PROVE  deletion'[x] # deletion[x] /\ Aimed(x, o[1], projectDocID(o[1], o[2]))
<1>1. HasTarget(x, "gcs") /\ projectDocID(o[1], o[2]) = Target(x)
  BY DEF deleteGCSProjectPrefix
<1>2. PICK u \in Owners : ProjectId(Target(x), u) /\ Aimed(x, u, Target(x))
  BY <1>1, TargetAimed
<1>3. o[1] \in Owners /\ o[2] \in ProjectIds \cup {LegacyProject}
  BY DEF AdminInv, AdminTypeOK
<1>4. o[1] = u
  BY <1>1, <1>2, <1>3, SingleIds DEF ProjectId, SingleParts
<1>5. deletion'[x] # deletion[x]
  <2>1. deletion[x].at = "gcs" /\ deletion \in [Deletions -> DeletionType]
    BY <1>1 DEF HasTarget, AdminInv, AdminTypeOK
  <2>2. deletion'[x].at = "doc"
    BY <2>1 DEF deleteGCSProjectPrefix, Advance, DeletionType
  <2> QED
    BY <2>1, <2>2
<1> QED
  BY <1>1, <1>2, <1>4, <1>5

LEMMA TargetsOnlyFollows ==
    ASSUME AdminInv, AdminNext
    PROVE  TargetsOnly
<1>1. CASE \E r \in Inits : createInitProjectDocs(r)
  <2>1. UNCHANGED objects
    BY <1>1 DEF createInitProjectDocs, UnchangedByInit
  <2>2. \A d \in DocIds : Exists(d) => docs'[d] # NoDoc
    BY <1>1, CreationAdds DEF Exists
  <2> QED
    BY <2>1, <2>2 DEF TargetsOnly
<1>2. CASE \E o \in Owners, p \in ProjectIds \cup {LegacyProject} : RenameProject(o, p)
  <2>1. UNCHANGED objects
    BY <1>2 DEF RenameProject
  <2>2. \A d \in DocIds : Exists(d) => docs'[d] # NoDoc
    BY <1>2, RenamingRemovesNothing
  <2> QED
    BY <2>1, <2>2 DEF TargetsOnly
<1>3. CASE UNCHANGED docs /\ objects \subseteq objects'
  BY <1>3 DEF TargetsOnly, Exists
<1>4. ASSUME NEW x \in Deletions, deleteProject(x) PROVE TargetsOnly
  <2>1. UNCHANGED objects
    BY <1>4 DEF deleteProject
  <2> QED
    BY <1>4, <2>1, ProjectRemoval DEF TargetsOnly, RightOne
<1>5. ASSUME NEW x \in Deletions, deleteMarker(x) PROVE TargetsOnly
  <2>1. UNCHANGED objects
    BY <1>5 DEF deleteMarker
  <2> QED
    BY <1>5, <2>1, MarkerRemoval DEF TargetsOnly, RightOne
<1>6. ASSUME NEW x \in Deletions, deleteGCSProjectPrefix(x) PROVE TargetsOnly
  <2>1. \A d \in DocIds : Exists(d) => docs'[d] # NoDoc
    BY <1>6 DEF deleteGCSProjectPrefix, Exists
  <2> QED
    BY <1>6, <2>1, ObjectRemoval DEF TargetsOnly
<1>7. ASSUME NEW r \in Inits, NEW i \in InitRequests, LookupKey(r, i[1], i[2])
      PROVE  UNCHANGED <<docs, objects>>
  BY <1>7 DEF LookupKey, UnchangedByInit
<1>8. ASSUME NEW r \in Inits, RereadKey(r) PROVE UNCHANGED <<docs, objects>>
  BY <1>8 DEF RereadKey, UnchangedByInit
<1>9. ASSUME NEW o \in Owners, NEW p \in ProjectIds \cup {LegacyProject}, BeginWrite(o, p) \/ WriteObjects(o, p)
      PROVE  UNCHANGED docs /\ objects \subseteq objects'
  BY <1>9 DEF BeginWrite, WriteObjects
<1>10. ASSUME NEW x \in Deletions, NEW d \in DocIds, AdminDeleteProject(x, d) PROVE UNCHANGED <<docs, objects>>
  BY <1>10 DEF AdminDeleteProject
<1>11. ASSUME NEW x \in Deletions, NEW o \in Owners, AdminDeleteUser(x, o) PROVE UNCHANGED <<docs, objects>>
  BY <1>11 DEF AdminDeleteUser
<1>12. ASSUME NEW x \in Deletions, deleteUser(x) \/ DeletionFails(x) PROVE UNCHANGED <<docs, objects>>
  BY <1>12 DEF deleteUser, DeletionFails
<1> QED
  BY <1>1, <1>2, <1>3, <1>4, <1>5, <1>6, <1>7, <1>8, <1>9, <1>10, <1>11, <1>12 DEF AdminNext

(* classifyAdminProjectDoc: deletions remove documents and objects of the   *)
(* one user or the one project they were asked for, whatever other owners'  *)
(* IDs begin with, whatever is created meanwhile and however many deletions *)
(* overlap; only a marker that another one has removed before may be        *)
(* someone else's by now.                                                   *)
THEOREM DeletionsHitTargets == AdminSpec => OnlyTargetsDeleted
<1>1. AdminInv /\ [AdminNext]_adminVars => [TargetsOnly]_adminVars
  BY TargetsOnlyFollows
<1>2. AdminSpec => [][TargetsOnly]_adminVars
  BY <1>1, AdminInvariant, PTL DEF AdminSpec
<1> QED
  BY <1>2, PTL DEF OnlyTargetsDeleted, TargetsOnly

=============================================================================
