----------------------------- MODULE Workspace -----------------------------
(***************************************************************************)
(* A user's clusters, tasks and reference collections: the API of          *)
(* api/v1/clusters.py, api/v1/tasks.py and the collections of              *)
(* api/v1/kb.py, for the users of one organisation.  What happens to a     *)
(* document's content is DocumentPipeline's; here a document is a row of   *)
(* its collection.                                                         *)
(*                                                                         *)
(* A request checks and decides in one step and commits in a later one.    *)
(* Ids of rows are the requests that inserted them.                        *)
(***************************************************************************)
EXTENDS Integers, FiniteSets

CONSTANTS
  Requests,        \* the requests, each served once
  Users,           \* users of the organisation
  SeedClusters,    \* the clusters at first: id |-> [owner, type, name]
  SeedTasks,       \* the tasks at first: id |-> [owner, module, cluster, title]
  SeedCollections, \* the collections at first: id |-> owner
  Names,           \* names of clusters and titles of tasks
  Modules,         \* module types, "student_paper_review" among them
  None             \* no cluster, no name

ClusterTypes == {"assignment", "project"}
SPR == "student_paper_review"
IsAssignment(c) == c.type = "assignment"

ASSUME WorkspaceAssumption ==
  /\ SPR \in Modules
  /\ \A c \in DOMAIN SeedClusters :
       SeedClusters[c] \in [owner : Users, type : ClusterTypes, name : Names]
  /\ \A t \in DOMAIN SeedTasks :
       /\ SeedTasks[t] \in [owner : Users, module : Modules, title : Names,
                            cluster : DOMAIN SeedClusters \cup {None}]
       /\ SeedTasks[t].cluster # None =>
            SeedClusters[SeedTasks[t].cluster].owner = SeedTasks[t].owner
  /\ \A k \in DOMAIN SeedCollections : SeedCollections[k] \in Users
  /\ None \notin Names \cup DOMAIN SeedClusters \cup Requests
  /\ Requests \cap (DOMAIN SeedClusters \cup DOMAIN SeedTasks \cup DOMAIN SeedCollections) = {}

VARIABLES
  clusters,    \* id |-> [owner, type, name]
  tasks,       \* id |-> [owner, module, cluster, title, status, submission]
  collections, \* id |-> owner
  documents,   \* kb_documents: [id, collection, active, deleted]
  attached,    \* kb_collection_attachments: [id, collection, entity]
  req,         \* what each request decided
  pc,          \* "idle", "writing", "done", "failed"
  overlapped   \* history: two requests were open at once

rows == <<clusters, tasks, collections, documents, attached>>
vars == <<rows, req, pc, overlapped>>

NoReq == [kind |-> "none"]
Cluster(owner, type, name) == [owner |-> owner, type |-> type, name |-> name]
Task(owner, module, cluster, title, submission) ==
  [owner |-> owner, module |-> module, cluster |-> cluster, title |-> title,
   status |-> "draft", submission |-> submission]
Added(table, id, row) ==
  [i \in DOMAIN table \cup {id} |-> IF i = id THEN row ELSE table[i]]

Init ==
  /\ clusters = SeedClusters
  /\ tasks = [t \in DOMAIN SeedTasks |->
                Task(SeedTasks[t].owner, SeedTasks[t].module, SeedTasks[t].cluster,
                     SeedTasks[t].title, FALSE)]
  /\ collections = SeedCollections
  /\ documents = {} /\ attached = {}
  /\ req = [r \in Requests |-> NoReq]
  /\ pc = [r \in Requests |-> "idle"]
  /\ overlapped = FALSE

(* get_owned_cluster, get_owned_task, _get_owned_collection *)
OwnedCluster(u, c) == c \in DOMAIN clusters /\ clusters[c].owner = u
OwnedTask(u, t) == t \in DOMAIN tasks /\ tasks[t].owner = u
OwnedCollection(u, k) == k \in DOMAIN collections /\ collections[k] = u

Decides(r, decision) ==
  /\ pc[r] = "idle"
  /\ pc' = [pc EXCEPT ![r] = "writing"]
  /\ req' = [req EXCEPT ![r] = decision]
  /\ overlapped' = (overlapped \/ \E q \in Requests : pc[q] = "writing")
  /\ UNCHANGED rows

(***************************************************************************)
(* Clusters and tasks.                                                     *)
(***************************************************************************)
(* create_cluster: an Assignment has the type "assignment". *)
CreateCluster(r, u, type, name) ==
  Decides(r, [kind |-> "cluster", row |-> Cluster(u, type, name)])

(* update_cluster: the type stays. *)
UpdateCluster(r, u, c, name) ==
  /\ OwnedCluster(u, c)
  /\ Decides(r, [kind |-> "rename", cluster |-> c, name |-> name])

(* create_submission: under an Assignment of the user. *)
CreateSubmission(r, u, c, title) ==
  /\ OwnedCluster(u, c)
  /\ IsAssignment(clusters[c])
  /\ Decides(r, [kind |-> "task", row |-> Task(u, SPR, c, title, TRUE)])

(* create_task: of any module, with a cluster of the user or without. *)
CreateTask(r, u, module, c, title) ==
  /\ c # None => OwnedCluster(u, c)
  /\ Decides(r, [kind |-> "task", row |-> Task(u, module, c, title, FALSE)])

(* update_task: a cluster or a title that is not given stays. *)
Given(value, old) == IF value = None THEN old ELSE value
WithGiven(task, q) ==
  [task EXCEPT !.cluster = Given(q.cluster, task.cluster), !.title = Given(q.title, task.title)]
MayMoveTo(u, c) == c # None => OwnedCluster(u, c)
UpdateTask(r, u, t, c, title) ==
  /\ OwnedTask(u, t)
  /\ MayMoveTo(u, c)
  /\ Decides(r, [kind |-> "update", task |-> t, cluster |-> c, title |-> title])

(* archive_task *)
ArchiveTask(r, u, t) ==
  /\ OwnedTask(u, t)
  /\ Decides(r, [kind |-> "archive", task |-> t])

(***************************************************************************)
(* Collections.                                                            *)
(***************************************************************************)
CreateCollection(r, u) == Decides(r, [kind |-> "collection", owner |-> u])

(* upload_document and delete_document, as far as the row is concerned. *)
AddDocument(r, u, k) ==
  /\ OwnedCollection(u, k)
  /\ Decides(r, [kind |-> "adddoc", collection |-> k])
RemoveDocument(r, u, d) ==
  /\ OwnedCollection(u, d.collection)
  /\ ~d.deleted
  /\ Decides(r, [kind |-> "removedoc", document |-> d.id])

(* delete_collection: only active documents are looked for... *)
ActiveDocuments(k) == {d \in documents : d.collection = k /\ d.active /\ ~d.deleted}
DeleteCollection(r, u, k) ==
  /\ OwnedCollection(u, k)
  /\ ActiveDocuments(k) = {}
  /\ Decides(r, [kind |-> "delete", collection |-> k])

(* _validate_attach_target: the entity has to be of the organisation. *)
Entities == DOMAIN tasks \cup DOMAIN clusters

(* attach_collection *)
IsAttached(k, e) == \E a \in attached : a.collection = k /\ a.entity = e
Attach(r, u, k, e) ==
  /\ OwnedCollection(u, k)
  /\ e \in Entities
  /\ ~IsAttached(k, e)
  /\ Decides(r, [kind |-> "attach", collection |-> k, entity |-> e])

(* detach_collection *)
Detach(r, u, a) ==
  /\ OwnedCollection(u, a.collection)
  /\ Decides(r, [kind |-> "detach", attachment |-> a])

(***************************************************************************)
(* The commits.                                                            *)
(***************************************************************************)
Ends(r, how) ==
  /\ pc' = [pc EXCEPT ![r] = how]
  /\ req' = [req EXCEPT ![r] = NoReq]
  /\ UNCHANGED overlapped
Commits(r, kind) == pc[r] = "writing" /\ req[r].kind = kind

(* A commit writes the columns that were given. *)
CommitCluster(r) ==
  /\ Ends(r, "done")
  /\ \/ /\ Commits(r, "cluster")
        /\ clusters' = Added(clusters, r, req[r].row)
     \/ /\ Commits(r, "rename")
        /\ clusters' = [clusters EXCEPT ![req[r].cluster] = [@ EXCEPT !.name = req[r].name]]
  /\ UNCHANGED <<tasks, collections, documents, attached>>

CommitTask(r) ==
  /\ Ends(r, "done")
  /\ \/ /\ Commits(r, "task")
        /\ tasks' = Added(tasks, r, req[r].row)
     \/ /\ Commits(r, "update")
        /\ tasks' = [tasks EXCEPT ![req[r].task] = WithGiven(@, req[r])]
     \/ /\ Commits(r, "archive")
        /\ tasks' = [tasks EXCEPT ![req[r].task] = [@ EXCEPT !.status = "archived"]]
  /\ UNCHANGED <<clusters, collections, documents, attached>>

CommitCollection(r) ==
  /\ Commits(r, "collection") /\ Ends(r, "done")
  /\ collections' = Added(collections, r, req[r].owner)
  /\ UNCHANGED <<clusters, tasks, documents, attached>>

(* A row of a collection that is gone violates its foreign key. *)
CommitDocument(r) ==
  /\ \/ /\ Commits(r, "adddoc")
        /\ IF req[r].collection \in DOMAIN collections
           THEN /\ documents' = documents \cup
                     {[id |-> r, collection |-> req[r].collection, active |-> TRUE,
                       deleted |-> FALSE]}
                /\ Ends(r, "done")
           ELSE Ends(r, "failed") /\ UNCHANGED documents
     \/ /\ Commits(r, "removedoc") /\ Ends(r, "done")
        /\ documents' = {IF d.id = req[r].document
                         THEN [d EXCEPT !.active = FALSE, !.deleted = TRUE] ELSE d :
                           d \in documents}
  /\ UNCHANGED <<clusters, tasks, collections, attached>>

(* ... and the ORM sets the collection of every document and attachment it *)
(* still has, deleted ones too, to null, which the columns do not allow.   *)
(* Mutation: documents that are deleted already do not count. *)
CommitDelete_ActiveOnly(r) ==
  /\ Commits(r, "delete")
  /\ LET k == req[r].collection
     IN IF ActiveDocuments(k) # {} \/ \E a \in attached : a.collection = k
        THEN Ends(r, "failed") /\ UNCHANGED collections
        ELSE /\ collections' = [c \in DOMAIN collections \ {k} |-> collections[c]]
             /\ Ends(r, "done")
  /\ UNCHANGED <<clusters, tasks, documents, attached>>
CommitDelete(r) ==
  /\ Commits(r, "delete")
  /\ LET k == req[r].collection
     IN IF \E x \in documents \cup attached : x.collection = k
        THEN Ends(r, "failed") /\ UNCHANGED collections
        ELSE /\ collections' = [c \in DOMAIN collections \ {k} |-> collections[c]]
             /\ Ends(r, "done")
  /\ UNCHANGED <<clusters, tasks, documents, attached>>

CommitAttach(r) ==
  /\ Commits(r, "attach")
  /\ IF req[r].collection \in DOMAIN collections
     THEN /\ attached' = attached \cup
               {[id |-> r, collection |-> req[r].collection, entity |-> req[r].entity]}
          /\ Ends(r, "done")
     ELSE Ends(r, "failed") /\ UNCHANGED attached
  /\ UNCHANGED <<clusters, tasks, collections, documents>>

CommitDetach(r) ==
  /\ Commits(r, "detach") /\ Ends(r, "done")
  /\ attached' = attached \ {req[r].attachment}
  /\ UNCHANGED <<clusters, tasks, collections, documents>>

(* A request is served once. *)
Serve(r) ==
  /\ pc[r] = "idle"
  /\ \E u \in Users :
       \/ \E n \in Names, type \in ClusterTypes : CreateCluster(r, u, type, n)
       \/ \E n \in Names, c \in DOMAIN clusters :
            UpdateCluster(r, u, c, n) \/ CreateSubmission(r, u, c, n)
       \/ \E n \in Names, m \in Modules, c \in DOMAIN clusters \cup {None} :
            CreateTask(r, u, m, c, n)
       \/ \E t \in DOMAIN tasks :
            \/ ArchiveTask(r, u, t)
            \/ \E c \in DOMAIN clusters \cup {None}, n \in Names \cup {None} :
                 UpdateTask(r, u, t, c, n)
       \/ CreateCollection(r, u)
       \/ \E d \in documents : RemoveDocument(r, u, d)
       \/ \E a \in attached : Detach(r, u, a)
       \/ \E k \in DOMAIN collections :
            \/ AddDocument(r, u, k) \/ DeleteCollection(r, u, k)
            \/ \E e \in Entities : Attach(r, u, k, e)

Next ==
  \E r \in Requests :
    \/ Serve(r)
    \/ CommitCluster(r) \/ CommitTask(r) \/ CommitCollection(r) \/ CommitDocument(r)
    \/ CommitDelete(r) \/ CommitAttach(r) \/ CommitDetach(r)

Spec == Init /\ [][Next]_vars

(***************************************************************************)
(* The listings.                                                           *)
(***************************************************************************)
(* list_cluster_submissions: the tasks list_cluster_tasks returns. *)
Submissions(u, c) ==
  {t \in DOMAIN tasks : tasks[t].cluster = c /\ tasks[t].owner = u}

(* list_task_reference_collections: the task's attachments first, then     *)
(* those of its cluster, every collection once. *)
(* Mutation: the cluster's are listed again. *)
References_Twice(t) ==
  {[collection |-> a.collection, via |-> "task"] :
     a \in {b \in attached : b.entity = t}} \cup
  {[collection |-> a.collection, via |-> "cluster"] :
     a \in {b \in attached : b.entity = tasks[t].cluster}}
References(t) ==
  LET own == {a.collection : a \in {b \in attached : b.entity = t}}
      shared == {a.collection : a \in {b \in attached : b.entity = tasks[t].cluster}}
  IN {[collection |-> k, via |-> "task"] : k \in own} \cup
     {[collection |-> k, via |-> "cluster"] : k \in shared \ own}

(***************************************************************************)
(* Properties.                                                             *)
(***************************************************************************)
(* Rows and requests have their types. *)
ClusterRows == [owner : Users, type : ClusterTypes, name : Names]
TypeOK ==
  /\ \A c \in DOMAIN clusters : clusters[c] \in ClusterRows
  /\ \A t \in DOMAIN tasks :
       tasks[t] \in [owner : Users, module : Modules, title : Names,
                     status : {"draft", "archived"}, submission : BOOLEAN,
                     cluster : DOMAIN clusters \cup {None}]
  /\ \A k \in DOMAIN collections : collections[k] \in Users
  /\ documents \subseteq [id : Requests, collection : DOMAIN collections,
                          active : BOOLEAN, deleted : BOOLEAN]
  /\ attached \subseteq [id : Requests, collection : DOMAIN collections, entity : Entities]
  /\ pc \in [Requests -> {"idle", "writing", "done", "failed"}]

(* No row refers to a row that is gone, or to a missing one, whatever is   *)
(* deleted while somebody else refers to it. *)
ReferencesHold ==
  /\ \A t \in DOMAIN tasks : tasks[t].cluster \in DOMAIN clusters \cup {None}
  /\ \A d \in documents : d.collection \in DOMAIN collections
  /\ \A a \in attached : a.collection \in DOMAIN collections /\ a.entity \in Entities

(* A task is only ever in a cluster of its own user, whatever moves it:    *)
(* the cluster's instructions and collections become part of its context.  *)
(* A submission stays in some cluster. *)
TasksInOwnClusters ==
  \A t \in DOMAIN tasks :
    /\ tasks[t].cluster # None => clusters[tasks[t].cluster].owner = tasks[t].owner
    /\ tasks[t].submission => tasks[t].cluster # None

(* Both hold whatever requests overlap: no row refers to a missing one, and *)
(* no task is in another user's cluster.                                    *)
WorkspaceIsSound == ReferencesHold /\ TasksInOwnClusters

(* "Collection is already attached to this entity": requests that do not   *)
(* overlap attach a collection to an entity once.  A second row would make *)
(* every later attach of the pair fail. *)
SerialAttachedOnce ==
  ~overlapped =>
    \A a, b \in attached : a.collection = b.collection /\ a.entity = b.entity => a = b

(* A task's reference collections are those attached to it or to its       *)
(* cluster, each listed once even when rows are doubled. *)
ReferencesListedOnce ==
  \A t \in DOMAIN tasks :
    /\ \A x, y \in References(t) : x.collection = y.collection => x = y
    /\ {x.collection : x \in References(t)} =
         {a.collection : a \in {b \in attached : b.entity \in {t, tasks[t].cluster}}}

(* A collection is attached once, and listed once wherever it is attached. *)
AttachmentsAreSingle == SerialAttachedOnce /\ ReferencesListedOnce

(* "List Submission Tasks for an Assignment Cluster".  The code does not keep   *)
(* this: a task of another module that was moved there is listed too. *)
OnlySubmissionsListed ==
  \A u \in Users, c \in DOMAIN clusters :
    IsAssignment(clusters[c]) => \A t \in Submissions(u, c) : tasks[t].module = SPR

(* "Delete a collection when it has no active documents": such a deletion  *)
(* does not fail, when no other request is open.  The code does not keep   *)
(* this: deleted documents and attachments still refer to the collection. *)
NothingFails == ~overlapped => \A r \in Requests : pc[r] # "failed"

=============================================================================
