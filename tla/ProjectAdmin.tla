---------------------------- MODULE ProjectAdmin ----------------------------
(***************************************************************************)
(* Creating, listing, renaming and deleting projects and users.  Project   *)
(* documents and the markers of Idempotency-Key share one collection; the  *)
(* ID of a document is owner_suffix, and owners and keys may contain the   *)
(* separator themselves.  An ID is the sequence of its parts here.         *)
(*                                                                         *)
(* No handler is atomic across Firestore and the object store: every call  *)
(* of a deletion that changes what is modelled is a step of its own, and    *)
(* the request may end with a failure between any two of them.             *)
(* Deletions take no lock: any number run at the same time, of the same    *)
(* user too, each with the lists it read when it began.                    *)
(***************************************************************************)
EXTENDS Naturals, Sequences, FiniteSets, SequencesExt

CONSTANTS
    Inits,           \* init-project requests
    Deletions,       \* admin deletions that run at the same time
    IdParts,         \* what stands between the separators of an ID
    Owners,          \* users that have ever registered
    ProjectIds,      \* the project IDs that are generated
    IdempotencyKeys, \* the keys that clients send
    LegacyProject,   \* an older project ID
    Label,           \* a project's name
    InitRequests,    \* <<owner, key>> of an init-project request
    LegacyDocIds,    \* documents from before user_id was stored
    MaxChanges       \* bound

Nothing == <<>>
SingleParts == ProjectIds \cup {LegacyProject, Label}
projectDocID(user, value) == user \o value
DocIds == {projectDocID(o, s) : o \in Owners, s \in SingleParts \cup IdempotencyKeys}

(* A generated ID has no separator.  As it is random, it is none that was   *)
(* there before, and no key ends with it.                                   *)
ASSUME AdminAssumption ==
    /\ IsFiniteSet(Owners) /\ IsFiniteSet(ProjectIds) /\ IsFiniteSet(IdempotencyKeys)
    /\ \A s \in Owners \cup SingleParts \cup IdempotencyKeys : s \in Seq(IdParts) /\ s # Nothing
    /\ \A s \in SingleParts : Len(s) = 1
    /\ LegacyProject # Label /\ {LegacyProject, Label} \cap ProjectIds = {}
    /\ \A k \in IdempotencyKeys, p \in SingleParts : Last(k) # Last(p)
    /\ InitRequests \subseteq Owners \X (IdempotencyKeys \cup {Nothing})
    /\ LegacyDocIds \subseteq {projectDocID(o, s) : o \in Owners, s \in {LegacyProject, Label}}

NoDoc == [project |-> Nothing, key |-> Nothing, user |-> Nothing,
          url |-> FALSE, name |-> Nothing]

VARIABLES
    docs,       \* collection projects
    users,      \* users with a document
    objects,    \* <<owner, project>> with objects in the bucket
    init,       \* init[r]: an init-project request
    deletion,   \* deletion[x]: an admin deletion
    writing,    \* <<owner, project>> of an upload or a run that has begun
    writtenLate,   \* history: owners and projects written to after a deletion
                   \* had looked at them
    replaced,      \* history: markers that a deletion removed
    overtaken      \* history: <<x, d>> if deletion x still lists the marker d,
                   \* and another deletion has removed it since

adminVars == <<docs, users, objects, init, deletion,
               writing, writtenLate, replaced, overtaken>>
historyVars == <<writtenLate, replaced, overtaken>>

Exists(d) == d \in DocIds /\ docs[d] # NoDoc

Idle == [at |-> "idle", user |-> Nothing, projects |-> <<>>, markers |-> <<>>]

(* Older documents have no user_id, or a label in place of the project ID.  *)
LegacyDocs ==
    {[[d \in DocIds |-> NoDoc] EXCEPT ![legacy] =
        [NoDoc EXCEPT !.project = LegacyProject, !.name = Label]] : legacy \in LegacyDocIds}

AdminInit ==
    /\ docs \in LegacyDocs
    /\ users = Owners
    /\ objects = {} /\ writing = {}
    /\ writtenLate = {} /\ replaced = {} /\ overtaken = {}
    /\ init = [r \in Inits |-> [at |-> "new", user |-> Nothing, key |-> Nothing,
                                project |-> Nothing]]
    /\ deletion = [x \in Deletions |-> Idle]

-----------------------------------------------------------------------------
(* Whose document is it *)

(* The owner that a complete stored suffix leaves. *)
adminProjectIdentityFromSuffix(docID, suffix) ==
    {o \in Owners : suffix # Nothing /\ docID = projectDocID(o, suffix)}

(* Every reading of the document as a project or a marker; a stored user_id *)
(* decides.                                                                 *)
Candidates(docID, doc) ==
    {c \in ({"project"} \X adminProjectIdentityFromSuffix(docID, doc.project))
           \cup ({"marker"} \X adminProjectIdentityFromSuffix(docID, doc.key)) :
        doc.user \in {Nothing, c[2]}}

(* classifyAdminProjectDoc: one reading, or the document is of no use. *)
Classified(docID, kind, user) ==
    LET doc == docs[docID] IN
    /\ Exists(docID) /\ doc.key # doc.project
    /\ Candidates(docID, doc) = {<<kind, user>>}

Unclassified(docID) ==
    Exists(docID) /\ ~\E kind \in {"project", "marker"}, o \in Owners : Classified(docID, kind, o)

(* adminProjectDocPotentiallyOwnedBy *)
PotentiallyOwnedBy(docID, user) ==
    docs[docID].user = user \/ IsPrefix(user, docID)

(* listFirestoreProjects: d is listed for the user as a project of his own,  *)
(* or as a document that cannot be classified whose ID ends in one part.     *)
ListProjects(user, d) ==
    Classified(d, "project", user) \/ (Unclassified(d) /\ Front(d) = user)

-----------------------------------------------------------------------------
(* InitProject *)

Answer(r, at, user, key, project) ==
    init' = [init EXCEPT ![r] = [at |-> at, user |-> user, key |-> key, project |-> project]]

UnchangedByInit == UNCHANGED <<users, objects, deletion, writing, replaced, overtaken>>

(* A key that is in use is answered with what its document says, if that is *)
(* a marker; otherwise a project ID is generated.                           *)
LookupKey(r, user, key) ==
    LET d == projectDocID(user, key)
        used == {docs[e].project : e \in DocIds} \cup {init[q].project : q \in Inits}
    IN  /\ init[r].at = "new"
        /\ IF key # Nothing /\ Exists(d)
           THEN Answer(r, IF docs[d].url THEN "answered" ELSE "failed", user, key, docs[d].project)
           ELSE /\ ProjectIds \ used # {}
                /\ Answer(r, "create", user, key, CHOOSE p \in ProjectIds : p \notin used)
        /\ UnchangedByInit /\ UNCHANGED <<docs, writtenLate>>

Created(user, key, project) ==
    [NoDoc EXCEPT !.project = project, !.key = key, !.user = user, !.name = Label]

(* Mutant: the marker is written whether it exists or not.                 *)
CreateUnconditionally(r) ==
    LET q == init[r]
        new == {projectDocID(q.user, q.project)} \cup {projectDocID(q.user, q.key)}
    IN  /\ q.at = "create"
        /\ docs' = [d \in DocIds |-> IF d \in new
                      THEN [Created(q.user, q.key, q.project) EXCEPT !.url = (d = projectDocID(q.user, q.key))]
                      ELSE docs[d]]
        /\ UNCHANGED writtenLate
        /\ Answer(r, "answered", q.user, q.key, q.project)
        /\ UnchangedByInit

(* createInitProjectDocs: project and marker in one transaction that fails  *)
(* when the marker exists by now.                                           *)
createInitProjectDocs(r) ==
    LET q == init[r]
        marker == projectDocID(q.user, q.key)
        new == {projectDocID(q.user, q.project)} \cup (IF q.key = Nothing THEN {} ELSE {marker})
    IN  /\ q.at = "create"
        /\ IF q.key # Nothing /\ Exists(marker)
           THEN Answer(r, "conflict", q.user, q.key, Nothing) /\ UNCHANGED <<docs, writtenLate>>
           ELSE /\ docs' = [d \in DocIds |-> IF d \in new
                      THEN [Created(q.user, q.key, q.project) EXCEPT !.url = (d = marker)]
                      ELSE docs[d]]
                /\ writtenLate' = IF q.user \notin users
                                     \/ \E x \in Deletions : deletion[x].user = q.user
                           THEN writtenLate \cup {<<q.user, Nothing>>} ELSE writtenLate
                /\ Answer(r, "answered", q.user, q.key, q.project)
        /\ UnchangedByInit

RereadKey(r) ==
    LET q == init[r]  d == projectDocID(q.user, q.key)
    IN  /\ q.at = "conflict"
        /\ Answer(r, IF Exists(d) /\ docs[d].url THEN "answered" ELSE "failed",
                  q.user, q.key, IF Exists(d) THEN docs[d].project ELSE Nothing)
        /\ UnchangedByInit /\ UNCHANGED <<docs, writtenLate>>

(* Bound on renamed projects, writers and what they left. *)
MayChange == Cardinality({d \in DocIds : docs[d].name \notin {Nothing, Label}})
             + Cardinality(writing \cup objects \cup writtenLate) < MaxChanges

(* RenameProject and AdminRenameProject: one transaction, so a project that *)
(* is gone is not written again.                                            *)
RenameProject(user, project) ==
    LET d == projectDocID(user, project) IN
    /\ MayChange
    /\ Classified(d, "project", user) /\ docs[d].project = project
    /\ docs' = [docs EXCEPT ![d].name = project]
    /\ UNCHANGED <<users, objects, init, deletion, writing, historyVars>>

-----------------------------------------------------------------------------
(* Uploads, pipeline runs and rebuilds of a project *)

(* rawUploadProjectReady, or the trigger of a run. *)
BeginWrite(user, project) ==
    /\ Exists(projectDocID(user, project)) /\ MayChange
    /\ writing' = writing \cup {<<user, project>>}
    /\ UNCHANGED <<docs, users, objects, init, deletion, historyVars>>

Listed(d, s) == \E i \in 1..Len(s) : s[i] = d

(* What was begun is written whatever has happened to the project since. *)
WriteObjects(user, project) ==
    /\ <<user, project>> \in writing
    /\ writing' = writing \ {<<user, project>>}
    /\ objects' = objects \cup {<<user, project>>}
    /\ LET d == projectDocID(user, project) IN
       writtenLate' = IF ~Exists(d) \/ \E x \in Deletions : Listed(d, deletion[x].projects)
                      THEN writtenLate \cup {<<user, project>>} ELSE writtenLate
    /\ UNCHANGED <<docs, users, init, deletion, replaced, overtaken>>

-----------------------------------------------------------------------------
(* Deletion *)

UnchangedByDeletion == UNCHANGED <<init, writing, writtenLate>>

Advance(x, next) == deletion' = [deletion EXCEPT ![x] = next]

(* The request is answered. *)
Finish(x) == Advance(x, Idle) /\ overtaken' = {o \in overtaken : o[1] # x}

(* AdminDeleteProject: the document must be a project. *)
AdminDeleteProject(x, docID) ==
    /\ deletion[x] = Idle
    /\ \E o \in Owners : Classified(docID, "project", o)
    /\ Advance(x, [at |-> "gcs", user |-> Nothing, markers |-> <<>>, projects |-> <<docID>>])
    /\ UNCHANGED <<docs, users, objects, replaced, overtaken>> /\ UnchangedByDeletion

(* Mutant: every document whose ID starts with the user.                   *)
DeleteByPrefix(x, user) ==
    /\ deletion[x] = Idle /\ user \in users
    /\ Advance(x, [at |-> "gcs", user |-> user, markers |-> <<>>,
                projects |-> SetToSeq({d \in DocIds : Exists(d) /\ IsPrefix(user, d)})])
    /\ UNCHANGED <<docs, users, objects, replaced, overtaken>> /\ UnchangedByDeletion

(* AdminDeleteUser: nothing is deleted if a document that may be the user's *)
(* cannot be classified.                                                    *)
AdminDeleteUser(x, user) ==
    LET mine(kind) == SetToSeq({d \in DocIds : Classified(d, kind, user)}) IN
    /\ deletion[x] = Idle /\ user \in users
    /\ ~\E d \in DocIds : Unclassified(d) /\ PotentiallyOwnedBy(d, user)
    /\ Advance(x, [at |-> "gcs", user |-> user,
                projects |-> mine("project"), markers |-> mine("marker")])
    /\ UNCHANGED <<docs, users, objects, replaced, overtaken>> /\ UnchangedByDeletion

Target(x) == Head(deletion[x].projects)

HasTarget(x, at) == deletion[x].at = at /\ deletion[x].projects # <<>>

(* Mutant: the document goes before its objects.                           *)
DocFirst(x) ==
    /\ HasTarget(x, "gcs")
    /\ docs' = [docs EXCEPT ![Target(x)] = NoDoc]
    /\ Advance(x, [deletion[x] EXCEPT !.at = "doc"])
    /\ UNCHANGED <<users, objects, replaced, overtaken>> /\ UnchangedByDeletion

deleteGCSProjectPrefix(x) ==
    /\ HasTarget(x, "gcs")
    /\ objects' = {o \in objects : projectDocID(o[1], o[2]) # Target(x)}
    /\ Advance(x, [deletion[x] EXCEPT !.at = "doc"])
    /\ UNCHANGED <<docs, users, replaced, overtaken>> /\ UnchangedByDeletion

(* After deleteLock, which removes the lock document of RebuildIndex (see   *)
(* IndexReads).  Deleting what is gone succeeds.                            *)
deleteProject(x) ==
    /\ HasTarget(x, "doc")
    /\ docs' = [docs EXCEPT ![Target(x)] = NoDoc]
    /\ IF deletion[x].user = Nothing THEN Finish(x)
       ELSE /\ Advance(x, [deletion[x] EXCEPT !.at = "gcs", !.projects = Tail(@)])
            /\ UNCHANGED overtaken
    /\ UNCHANGED <<users, objects, replaced>> /\ UnchangedByDeletion

(* The delete has no condition: it also removes what another owner has      *)
(* created under the same ID since the list was read.                       *)
deleteMarker(x) ==
    LET d == Head(deletion[x].markers) IN
    /\ deletion[x].at = "gcs" /\ deletion[x].projects = <<>> /\ deletion[x].markers # <<>>
    /\ docs' = [docs EXCEPT ![d] = NoDoc]
    /\ replaced' = replaced \cup {d}
    /\ overtaken' = overtaken \cup
           {<<y, d>> : y \in {z \in Deletions \ {x} : Listed(d, deletion[z].markers)}}
    /\ Advance(x, [deletion[x] EXCEPT !.markers = Tail(@)])
    /\ UNCHANGED <<users, objects>> /\ UnchangedByDeletion

(* After users/{id}/projects, written at registration and read by nobody.   *)
deleteUser(x) ==
    /\ deletion[x].at = "gcs" /\ deletion[x].user # Nothing
    /\ deletion[x].projects = <<>> /\ deletion[x].markers = <<>>
    /\ users' = users \ {deletion[x].user}
    /\ Finish(x)
    /\ UNCHANGED <<docs, objects, replaced>> /\ UnchangedByDeletion

(* A call fails; the request is answered with 500. *)
DeletionFails(x) ==
    /\ deletion[x] # Idle
    /\ Finish(x)
    /\ UNCHANGED <<docs, users, objects, replaced>> /\ UnchangedByDeletion

-----------------------------------------------------------------------------

AdminNext ==
    \/ \E r \in Inits : \/ \E i \in InitRequests : LookupKey(r, i[1], i[2])
                        \/ createInitProjectDocs(r)
                        \/ RereadKey(r)
    \/ \E o \in Owners, p \in ProjectIds \cup {LegacyProject} :
           RenameProject(o, p) \/ BeginWrite(o, p) \/ WriteObjects(o, p)
    \/ \E x \in Deletions :
           \/ \E d \in DocIds : AdminDeleteProject(x, d)
           \/ \E o \in Owners : AdminDeleteUser(x, o)
           \/ deleteGCSProjectPrefix(x) \/ deleteProject(x)
           \/ deleteMarker(x) \/ deleteUser(x) \/ DeletionFails(x)

AdminSpec == AdminInit /\ [][AdminNext]_adminVars

-----------------------------------------------------------------------------
(* Properties *)

(* Who created the document. *)
Creator(d) == IF docs[d].user = Nothing THEN Front(d) ELSE docs[d].user

(* createInitProjectDocs: requests of a user with the same Idempotency-Key  *)
(* are answered with the same project, however they overlap, unless a       *)
(* deletion has removed the marker; and the marker, which names the         *)
(* project too, never makes it appear twice in a list.                      *)
OneProjectPerKey ==
    /\ \A q, r \in Inits :
           /\ init[q].at = "answered" /\ init[r].at = "answered"
           /\ init[q].user = init[r].user /\ init[q].key = init[r].key /\ init[q].key # Nothing
           /\ projectDocID(init[q].user, init[q].key) \notin replaced
           => init[q].project = init[r].project
    /\ \A d, e \in {x \in DocIds : Exists(x)} :
           d # e /\ docs[d].project = docs[e].project
           => ~\E o \in Owners : ListProjects(o, d) /\ ListProjects(o, e)

(* deleteAdminProjectResources, deleteAdminUserResourcesWithUserProjects:   *)
(* data without its project document, or a document without its user, is    *)
(* left only by a write to the project, or a creation by the user, that     *)
(* overlapped the deletion; a deletion that stopped halfway can be repeated *)
(* while another one works on the same user.                                *)
DocumentsAnchorData ==
    /\ \A x \in objects : Exists(projectDocID(x[1], x[2])) \/ x \in writtenLate
    /\ \A d \in DocIds : Exists(d) => Creator(d) \in users \/ <<Creator(d), Nothing>> \in writtenLate

(* What deletion x was asked to remove: one user's data, or one project.    *)
Aimed(x, owner, docID) ==
    IF deletion[x].user = Nothing THEN deletion[x].projects = <<docID>>
    ELSE owner = deletion[x].user

(* classifyAdminProjectDoc, deleteAdminUserResourcesWithUserProjects:       *)
(* documents and objects are removed only by a deletion of their user or    *)
(* of their project, although IDs of different owners have common prefixes  *)
(* and deletions that overlap work on lists that are out of date.  The one  *)
(* exception is a marker that another deletion has removed since this one   *)
(* listed it: an owner with the same ID may have created it anew.           *)
OnlyTargetsDeleted ==
    [][/\ \A d \in DocIds : Exists(d) /\ docs'[d] = NoDoc =>
             \E x \in Deletions :
                 /\ deletion'[x] # deletion[x]
                 /\ Aimed(x, Creator(d), d) \/ (docs[d].url /\ <<x, d>> \in overtaken)
       /\ \A o \in objects \ objects' :
             \E x \in Deletions :
                 deletion'[x] # deletion[x] /\ Aimed(x, o[1], projectDocID(o[1], o[2]))
      ]_adminVars
=============================================================================
