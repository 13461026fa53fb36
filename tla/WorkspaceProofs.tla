-------------------------- MODULE WorkspaceProofs --------------------------
(***************************************************************************)
(* The rows of a workspace stay sound, for every number of requests, users   *)
(* and rows, and with any number of API containers that seed their sample    *)
(* rows beside the users' requests.                                          *)
(*                                                                           *)
(* A request commits what it decided on an earlier state, so the argument    *)
(* is about open decisions: what a decision found is still there when it     *)
(* is committed (rows of clusters and tasks are never deleted, the owner     *)
(* of a cluster never changes), and what may be gone, a collection, is       *)
(* looked at again by the foreign key.                                       *)
(*                                                                           *)
(* Without an overlap one request is open at a time, and the attachments     *)
(* and sample rows it saw are those it commits to (SerialInv); so a pair     *)
(* is attached once and a start leaves nothing missing.                      *)
(***************************************************************************)
EXTENDS ApiStart, TLAPS

(* The columns of a task, and what a request may know of one. *)
TaskRows == [owner : Users, module : Modules, title : Names,
             status : {"draft", "archived"}, submission : BOOLEAN,
             cluster : DOMAIN clusters \cup {None}]
RightCluster(t) ==
  /\ t.cluster # None => clusters[t.cluster].owner = t.owner
  /\ t.submission => t.cluster # None

ClustersOK ==
  /\ \A c \in DOMAIN clusters : clusters[c] \in ClusterRows
  /\ None \notin DOMAIN clusters
TasksOK == \A t \in DOMAIN tasks : tasks[t] \in TaskRows /\ RightCluster(tasks[t])
CollectionsOK == \A k \in DOMAIN collections : collections[k] \in Users
DocumentsOK ==
  documents \subseteq [id : Requests, collection : DOMAIN collections,
                       active : BOOLEAN, deleted : BOOLEAN]
AttachedOK ==
  attached \subseteq [id : Requests, collection : DOMAIN collections, entity : Entities]

(* An open decision, by its kind. *)
NewClusterOK(q) == q.row \in ClusterRows
RenameOK(q) == q.cluster \in DOMAIN clusters /\ q.name \in Names
NewTaskOK(q) == q.row \in TaskRows /\ RightCluster(q.row)
UpdateOK(q) ==
  /\ q.task \in DOMAIN tasks
  /\ q.title \in Names \cup {None}
  /\ q.cluster \in DOMAIN clusters \cup {None}
  /\ q.cluster # None => clusters[q.cluster].owner = tasks[q.task].owner
AttachOK(q) == q.entity \in Entities
SeedOK(r, q) ==
  /\ q.missing \subseteq {"paper", "assignment", "submission"}
  /\ IF "assignment" \in q.missing
     THEN q.assignment = r
     ELSE q.assignment \in DOMAIN clusters /\ clusters[q.assignment].owner = SeedUser
DecisionOK(r, q) ==
  /\ q.kind = "cluster" => NewClusterOK(q)
  /\ q.kind = "rename" => RenameOK(q)
  /\ q.kind = "task" => NewTaskOK(q)
  /\ q.kind = "update" => UpdateOK(q)
  /\ q.kind = "archive" => q.task \in DOMAIN tasks
  /\ q.kind = "collection" => q.owner \in Users
  /\ q.kind = "attach" => AttachOK(q)
  /\ q.kind = "seed" => SeedOK(r, q)
DecisionsOK == \A r \in Requests : pc[r] = "writing" => DecisionOK(r, req[r])
RequestsOK ==
  /\ pc \in [Requests -> {"idle", "writing", "done", "failed"}]
  /\ DOMAIN req = Requests
  /\ DecisionsOK
(* The ids a request gives are new. *)
TaskIds(r) == {r, <<r, "paper">>, <<r, "submission">>}
FreshOK ==
  \A r \in Requests :
    pc[r] \in {"idle", "writing"} =>
      r \notin DOMAIN clusters /\ TaskIds(r) \cap DOMAIN tasks = {}

IInv ==
  /\ ClustersOK /\ TasksOK /\ CollectionsOK /\ DocumentsOK /\ AttachedOK
  /\ RequestsOK /\ FreshOK

(* What every step keeps of the rows a decision refers to. *)
Grows ==
  /\ DOMAIN clusters \subseteq DOMAIN clusters'
  /\ \A c \in DOMAIN clusters : clusters'[c].owner = clusters[c].owner
  /\ DOMAIN tasks \subseteq DOMAIN tasks'
  /\ \A t \in DOMAIN tasks : tasks'[t].owner = tasks[t].owner

(***************************************************************************)
(* Lemmas.                                                                 *)
(***************************************************************************)
(* The initial rows are sound. *)
LEMMA InitIInv == ASSUME Init PROVE IInv
BY WorkspaceAssumption, SeedAssumption DEF Init, IInv, ClustersOK, TasksOK, CollectionsOK, DocumentsOK, AttachedOK,
  RequestsOK, DecisionsOK, FreshOK, TaskIds, TaskRows, RightCluster, ClusterRows, Task, NoReq

(* Every part of a decision stays right while rows are only added. *)
LEMMA DecisionStays ==
  ASSUME NEW r \in Requests, NEW q, DecisionOK(r, q), ClustersOK, TasksOK, Grows
  PROVE  DecisionOK(r, q)'
<1>1. NewTaskOK(q) => NewTaskOK(q)'
  BY DEF NewTaskOK, TaskRows, RightCluster, ClustersOK, Grows
<1>2. UpdateOK(q) => UpdateOK(q)'
  BY DEF UpdateOK, ClustersOK, Grows
<1>3. RenameOK(q) => RenameOK(q)'
  BY DEF RenameOK, Grows
<1>4. SeedOK(r, q) => SeedOK(r, q)'
  BY DEF SeedOK, Grows
<1>5. AttachOK(q) => AttachOK(q)'
  BY DEF AttachOK, Entities, Grows
<1>6. NewClusterOK(q) => NewClusterOK(q)'
  BY DEF NewClusterOK, ClusterRows
<1>7. q.kind = "archive" => q.task \in DOMAIN tasks'
  BY DEF DecisionOK, Grows
<1> QED
  BY <1>1, <1>2, <1>3, <1>4, <1>5, <1>6, <1>7 DEF DecisionOK

(* A request that decides rightly keeps the invariant. *)
LEMMA DecidesKeeps ==
  ASSUME IInv, NEW r \in Requests, NEW q, Decides(r, q), DecisionOK(r, q)
  PROVE  IInv'
<1>1. ClustersOK' /\ TasksOK' /\ CollectionsOK' /\ DocumentsOK' /\ AttachedOK' /\ FreshOK'
  BY DEF IInv, Decides, rows, ClustersOK, TasksOK, CollectionsOK, DocumentsOK, AttachedOK,
    ClusterRows, TaskRows, RightCluster, Entities, FreshOK, TaskIds, RequestsOK
<1>2. DecisionsOK'
  <2> SUFFICES ASSUME NEW s \in Requests, pc'[s] = "writing"
               PROVE  DecisionOK(s, req[s])'
    BY DEF DecisionsOK
  <2> PICK d : d = req'[s]
    OBVIOUS
  <2>1. DecisionOK(s, d)
    BY DEF Decides, IInv, RequestsOK, DecisionsOK
  <2>2. DecisionOK(s, d)'
    BY <2>1 DEF DecisionOK, NewClusterOK, ClusterRows, RenameOK, NewTaskOK, TaskRows,
      RightCluster, UpdateOK, AttachOK, Entities, SeedOK, Decides, rows
  <2> QED
    BY <2>2 DEF DecisionOK, NewClusterOK, RenameOK, NewTaskOK, UpdateOK, AttachOK, SeedOK
<1> QED
  BY <1>1, <1>2 DEF IInv, RequestsOK, Decides

(* A request that ends, done or failed, keeps the open decisions right when *)
(* rows are only added and kept. *)
LEMMA EndsKeeps ==
  ASSUME IInv, NEW r \in Requests, NEW how \in {"done", "failed"}, Ends(r, how), Grows
  PROVE  RequestsOK'
<1>1. DecisionsOK'
  <2> SUFFICES ASSUME NEW s \in Requests, pc'[s] = "writing"
               PROVE  DecisionOK(s, req[s])'
    BY DEF DecisionsOK
  <2> PICK d : d = req'[s]
    OBVIOUS
  <2>1. DecisionOK(s, d)
    BY DEF Ends, IInv, RequestsOK, DecisionsOK
  <2>2. DecisionOK(s, d)'
    BY <2>1, DecisionStays DEF IInv
  <2> QED
    BY <2>2 DEF DecisionOK, NewClusterOK, RenameOK, NewTaskOK, UpdateOK, AttachOK, SeedOK
<1> QED
  BY <1>1 DEF IInv, RequestsOK, Ends

(***************************************************************************)
(* The steps.                                                              *)
(***************************************************************************)
(* A request that is served decides rightly. *)
LEMMA ServeStep ==
  ASSUME IInv, NEW r \in Requests, Serve(r)
  PROVE  IInv'
<1> PICK u \in Users :
       \/ \E n \in Names, type \in ClusterTypes : CreateCluster(r, u, type, n)
       \/ \E n \in Names, c \in DOMAIN clusters :
            UpdateCluster(r, u, c, n) \/ CreateSubmission(r, u, c, n)
       \/ \E n \in Names, m \in Modules, c \in DOMAIN clusters \cup {None} :
            CreateTask(r, u, m, c, n)
       \/ \E t \in DOMAIN tasks :
            \/ ArchiveTask(r, u, t)
            \/ \E c \in DOMAIN clusters \cup {None}, n \in Names \cup {None} :
                 UpdateTask(r, u, t, c, n)
       \/ CreateCollection(r, u)
       \/ \E d \in documents : RemoveDocument(r, u, d)
       \/ \E a \in attached : Detach(r, u, a)
       \/ \E k \in DOMAIN collections :
            \/ AddDocument(r, u, k) \/ DeleteCollection(r, u, k)
            \/ \E e \in Entities : Attach(r, u, k, e)
  BY DEF Serve
<1>1. CASE \E n \in Names, type \in ClusterTypes : CreateCluster(r, u, type, n)
  <2> PICK n \in Names, type \in ClusterTypes : CreateCluster(r, u, type, n)
    BY <1>1
  <2> PICK q : q = [kind |-> "cluster", row |-> Cluster(u, type, n)]
    OBVIOUS
  <2>1. Decides(r, q) /\ DecisionOK(r, q)
    BY DEF CreateCluster, DecisionOK, NewClusterOK, ClusterRows, Cluster
  <2> QED
    BY <2>1, DecidesKeeps
<1>2. CASE \E n \in Names, c \in DOMAIN clusters : UpdateCluster(r, u, c, n)
  <2> PICK n \in Names, c \in DOMAIN clusters : UpdateCluster(r, u, c, n)
    BY <1>2
  <2> PICK q : q = [kind |-> "rename", cluster |-> c, name |-> n]
    OBVIOUS
  <2>1. Decides(r, q) /\ DecisionOK(r, q)
    BY DEF UpdateCluster, DecisionOK, RenameOK
  <2> QED
    BY <2>1, DecidesKeeps
<1>3. CASE \E n \in Names, c \in DOMAIN clusters : CreateSubmission(r, u, c, n)
  <2> PICK n \in Names, c \in DOMAIN clusters : CreateSubmission(r, u, c, n)
    BY <1>3
  <2> PICK q : q = [kind |-> "task", row |-> Task(u, SPR, c, n, TRUE)]
    OBVIOUS
  <2>1. c # None
    BY DEF IInv, ClustersOK
  <2>2. Decides(r, q) /\ DecisionOK(r, q)
    BY <2>1, WorkspaceAssumption
    DEF CreateSubmission, OwnedCluster, DecisionOK, NewTaskOK, TaskRows, RightCluster, Task
  <2> QED
    BY <2>2, DecidesKeeps
<1>4. CASE \E n \in Names, m \in Modules, c \in DOMAIN clusters \cup {None} :
             CreateTask(r, u, m, c, n)
  <2> PICK n \in Names, m \in Modules, c \in DOMAIN clusters \cup {None} :
             CreateTask(r, u, m, c, n)
    BY <1>4
  <2> PICK q : q = [kind |-> "task", row |-> Task(u, m, c, n, FALSE)]
    OBVIOUS
  <2>1. Decides(r, q) /\ DecisionOK(r, q)
    BY DEF CreateTask, OwnedCluster, DecisionOK, NewTaskOK, TaskRows, RightCluster, Task
  <2> QED
    BY <2>1, DecidesKeeps
<1>5. CASE \E t \in DOMAIN tasks : ArchiveTask(r, u, t)
  <2> PICK t \in DOMAIN tasks : ArchiveTask(r, u, t)
    BY <1>5
  <2> PICK q : q = [kind |-> "archive", task |-> t]
    OBVIOUS
  <2>1. Decides(r, q) /\ DecisionOK(r, q)
    BY DEF ArchiveTask, DecisionOK
  <2> QED
    BY <2>1, DecidesKeeps
<1>6. CASE \E t \in DOMAIN tasks, c \in DOMAIN clusters \cup {None}, n \in Names \cup {None} :
             UpdateTask(r, u, t, c, n)
  <2> PICK t \in DOMAIN tasks, c \in DOMAIN clusters \cup {None}, n \in Names \cup {None} :
             UpdateTask(r, u, t, c, n)
    BY <1>6
  <2> PICK q : q = [kind |-> "update", task |-> t, cluster |-> c, title |-> n]
    OBVIOUS
  <2>1. Decides(r, q) /\ DecisionOK(r, q)
    BY DEF UpdateTask, MayMoveTo, OwnedTask, OwnedCluster, DecisionOK, UpdateOK
  <2> QED
    BY <2>1, DecidesKeeps
<1>7. CASE CreateCollection(r, u)
  <2> PICK q : q = [kind |-> "collection", owner |-> u]
    OBVIOUS
  <2>1. Decides(r, q) /\ DecisionOK(r, q)
    BY <1>7 DEF CreateCollection, DecisionOK
  <2> QED
    BY <2>1, DecidesKeeps
<1>8. CASE \E d \in documents : RemoveDocument(r, u, d)
  <2> PICK d \in documents : RemoveDocument(r, u, d)
    BY <1>8
  <2> PICK q : q = [kind |-> "removedoc", document |-> d.id]
    OBVIOUS
  <2>1. Decides(r, q) /\ DecisionOK(r, q)
    BY DEF RemoveDocument, DecisionOK
  <2> QED
    BY <2>1, DecidesKeeps
<1>9. CASE \E a \in attached : Detach(r, u, a)
  <2> PICK a \in attached : Detach(r, u, a)
    BY <1>9
  <2> PICK q : q = [kind |-> "detach", attachment |-> a]
    OBVIOUS
  <2>1. Decides(r, q) /\ DecisionOK(r, q)
    BY DEF Detach, DecisionOK
  <2> QED
    BY <2>1, DecidesKeeps
<1>10. CASE \E k \in DOMAIN collections : AddDocument(r, u, k)
  <2> PICK k \in DOMAIN collections : AddDocument(r, u, k)
    BY <1>10
  <2> PICK q : q = [kind |-> "adddoc", collection |-> k]
    OBVIOUS
  <2>1. Decides(r, q) /\ DecisionOK(r, q)
    BY DEF AddDocument, DecisionOK
  <2> QED
    BY <2>1, DecidesKeeps
<1>11. CASE \E k \in DOMAIN collections : DeleteCollection(r, u, k)
  <2> PICK k \in DOMAIN collections : DeleteCollection(r, u, k)
    BY <1>11
  <2> PICK q : q = [kind |-> "delete", collection |-> k]
    OBVIOUS
  <2>1. Decides(r, q) /\ DecisionOK(r, q)
    BY DEF DeleteCollection, DecisionOK
  <2> QED
    BY <2>1, DecidesKeeps
<1>12. CASE \E k \in DOMAIN collections, e \in Entities : Attach(r, u, k, e)
  <2> PICK k \in DOMAIN collections, e \in Entities : Attach(r, u, k, e)
    BY <1>12
  <2> PICK q : q = [kind |-> "attach", collection |-> k, entity |-> e]
    OBVIOUS
  <2>1. Decides(r, q) /\ DecisionOK(r, q)
    BY DEF Attach, DecisionOK, AttachOK
  <2> QED
    BY <2>1, DecidesKeeps
<1> QED
  BY <1>1, <1>2, <1>3, <1>4, <1>5, <1>6, <1>7, <1>8, <1>9, <1>10, <1>11, <1>12

(* A commit that leaves clusters and tasks alone. *)
LEMMA SideCommit ==
  ASSUME IInv, NEW r \in Requests, NEW how \in {"done", "failed"}, Ends(r, how),
         UNCHANGED <<clusters, tasks>>,
         CollectionsOK', DocumentsOK', AttachedOK'
  PROVE  IInv'
<1>1. Grows
  BY DEF Grows
<1>2. RequestsOK'
  BY <1>1, EndsKeeps
<1>3. ClustersOK' /\ TasksOK'
  BY DEF IInv, ClustersOK, TasksOK, TaskRows, RightCluster, ClusterRows
<1>4. FreshOK'
  BY DEF IInv, FreshOK, TaskIds, Ends, RequestsOK
<1> QED
  BY <1>2, <1>3, <1>4 DEF IInv

(* A new cluster, or another name for one. *)
LEMMA CommitClusterStep ==
  ASSUME IInv, NEW r \in Requests, CommitCluster(r)
  PROVE  IInv'
<1> USE DEF IInv
<1>1. ClustersOK' /\ Grows
  <2>1. CASE Commits(r, "cluster") /\ clusters' = Added(clusters, r, req[r].row)
    <3>1. r \notin DOMAIN clusters /\ req[r].row \in ClusterRows
      BY <2>1 DEF Commits, FreshOK, RequestsOK, DecisionsOK, DecisionOK, NewClusterOK
    <3>2. ClustersOK'
      BY <2>1, <3>1, WorkspaceAssumption DEF ClustersOK, Added, ClusterRows
    <3> QED
      BY <2>1, <3>1, <3>2 DEF Grows, Added, CommitCluster
  <2>2. CASE /\ Commits(r, "rename")
             /\ clusters' = [clusters EXCEPT ![req[r].cluster] = [@ EXCEPT !.name = req[r].name]]
    <3>1. req[r].cluster \in DOMAIN clusters /\ req[r].name \in Names
      BY <2>2 DEF Commits, RequestsOK, DecisionsOK, DecisionOK, RenameOK
    <3> DEFINE c == req[r].cluster
               row == [clusters[c] EXCEPT !.name = req[r].name]
    <3>2. row \in ClusterRows /\ row.owner = clusters[c].owner
      BY <3>1 DEF ClustersOK, ClusterRows
    <3>3. clusters' = [clusters EXCEPT ![c] = row]
      BY <2>2
    <3> HIDE DEF row
    <3>4. ClustersOK'
      BY <3>2, <3>3 DEF ClustersOK, ClusterRows
    <3> QED
      BY <3>2, <3>3, <3>4 DEF Grows, CommitCluster
  <2> QED
    BY <2>1, <2>2 DEF CommitCluster
<1>2. RequestsOK'
  BY <1>1, EndsKeeps DEF CommitCluster
<1>3. TasksOK'
  BY <1>1 DEF CommitCluster, TasksOK, TaskRows, RightCluster, ClustersOK, Grows
<1>4. FreshOK'
  BY DEF CommitCluster, FreshOK, TaskIds, Ends, Added, RequestsOK
<1>5. CollectionsOK' /\ DocumentsOK' /\ AttachedOK'
  BY <1>1 DEF CommitCluster, CollectionsOK, DocumentsOK, AttachedOK, Entities, Grows
<1> QED
  BY <1>1, <1>2, <1>3, <1>4, <1>5

(* A new task, other columns of one, or its archiving. *)
LEMMA CommitTaskStep ==
  ASSUME IInv, NEW r \in Requests, CommitTask(r)
  PROVE  IInv'
<1> USE DEF IInv
<1>1. TasksOK' /\ Grows
  <2>1. CASE Commits(r, "task") /\ tasks' = Added(tasks, r, req[r].row)
    <3>1. r \notin DOMAIN tasks /\ NewTaskOK(req[r])
      BY <2>1 DEF Commits, FreshOK, TaskIds, RequestsOK, DecisionsOK, DecisionOK
    <3>2. TasksOK'
      BY <2>1, <3>1 DEF CommitTask, TasksOK, NewTaskOK, Added, TaskRows, RightCluster
    <3> QED
      BY <2>1, <3>1, <3>2 DEF Grows, Added, CommitTask
  <2>2. CASE /\ Commits(r, "update")
             /\ tasks' = [tasks EXCEPT ![req[r].task] = WithGiven(@, req[r])]
    <3>1. UpdateOK(req[r])
      BY <2>2 DEF Commits, RequestsOK, DecisionsOK, DecisionOK
    <3> DEFINE t == req[r].task
               row == WithGiven(tasks[t], req[r])
    <3>2. tasks[t] \in TaskRows /\ RightCluster(tasks[t])
      BY <3>1 DEF TasksOK, UpdateOK
    <3>3. /\ Given(req[r].cluster, tasks[t].cluster) \in DOMAIN clusters \cup {None}
          /\ Given(req[r].title, tasks[t].title) \in Names
      BY <3>1, <3>2 DEF UpdateOK, Given, TaskRows
    <3>4. row \in TaskRows /\ row.owner = tasks[t].owner
      BY <3>2, <3>3 DEF TaskRows, WithGiven
    <3>5. RightCluster(row)
      BY <3>1, <3>2 DEF UpdateOK, Given, WithGiven, RightCluster, TaskRows
    <3>6. tasks' = [tasks EXCEPT ![t] = row]
      BY <2>2
    <3> HIDE DEF row
    <3>7. TasksOK'
      BY <3>4, <3>5, <3>6 DEF TasksOK, CommitTask, TaskRows, RightCluster
    <3> QED
      BY <3>4, <3>6, <3>7 DEF Grows, CommitTask
  <2>3. CASE /\ Commits(r, "archive")
             /\ tasks' = [tasks EXCEPT ![req[r].task] = [@ EXCEPT !.status = "archived"]]
    <3> DEFINE t == req[r].task
               row == [tasks[t] EXCEPT !.status = "archived"]
    <3>1. t \in DOMAIN tasks
      BY <2>3 DEF Commits, RequestsOK, DecisionsOK, DecisionOK
    <3>2. row \in TaskRows /\ RightCluster(row) /\ row.owner = tasks[t].owner
      BY <3>1 DEF TasksOK, TaskRows, RightCluster
    <3>3. tasks' = [tasks EXCEPT ![t] = row]
      BY <2>3
    <3> HIDE DEF row
    <3>4. TasksOK'
      BY <3>2, <3>3 DEF TasksOK, CommitTask, TaskRows, RightCluster
    <3> QED
      BY <3>2, <3>3, <3>4 DEF Grows, CommitTask
  <2> QED
    BY <2>1, <2>2, <2>3 DEF CommitTask
<1>2. RequestsOK'
  BY <1>1, EndsKeeps DEF CommitTask
<1>3. ClustersOK' /\ CollectionsOK' /\ DocumentsOK' /\ AttachedOK'
  BY <1>1 DEF CommitTask, ClustersOK, ClusterRows, CollectionsOK, DocumentsOK, AttachedOK,
    Entities, Grows
<1>4. FreshOK'
  BY SeedAssumption DEF CommitTask, FreshOK, TaskIds, Ends, Added, RequestsOK
<1> QED
  BY <1>1, <1>2, <1>3, <1>4

(* Two requests give different ids. *)
LEMMA IdsDiffer ==
  ASSUME NEW r \in Requests, NEW s \in Requests, r # s
  PROVE  TaskIds(r) \cap TaskIds(s) = {}
BY SeedAssumption DEF TaskIds

(* The sample rows a start found missing. *)
LEMMA CommitStartStep ==
  ASSUME IInv, NEW r \in Requests, CommitStart(r)
  PROVE  IInv'
<1> USE DEF IInv
<1>1. SeedOK(r, req[r]) /\ r \notin DOMAIN clusters /\ TaskIds(r) \cap DOMAIN tasks = {}
  BY DEF CommitStart, Commits, RequestsOK, DecisionsOK, DecisionOK, FreshOK
<1> DEFINE new == "assignment" \in req[r].missing
<1>2. SampleTasks(r) \subseteq TaskIds(r)
  BY <1>1 DEF SampleTasks, TaskIds, SeedOK
<1>3. ClustersOK' /\ Grows /\ (new => r \in DOMAIN clusters' /\ clusters'[r].owner = SeedUser)
  <2>1. \A t \in DOMAIN tasks : t \in DOMAIN tasks' /\ tasks'[t] = tasks[t]
    BY <1>1, <1>2 DEF CommitStart
  <2>2. CASE new
    <3>1. clusters' = Added(clusters, r, Cluster(SeedUser, "assignment", Sample))
      BY <2>2 DEF CommitStart
    <3>2. Cluster(SeedUser, "assignment", Sample) \in ClusterRows
      BY SeedAssumption DEF Cluster, ClusterRows, ClusterTypes
    <3>3. ClustersOK'
      BY <3>1, <3>2, WorkspaceAssumption DEF ClustersOK, Added, ClusterRows
    <3>4. Grows
      BY <1>1, <2>1, <3>1 DEF Added, Grows
    <3> QED
      BY <3>1, <3>3, <3>4 DEF Added, Cluster
  <2>3. CASE ~new
    <3>1. clusters' = clusters
      BY <2>3 DEF CommitStart
    <3> QED
      BY <2>1, <2>3, <3>1 DEF ClustersOK, ClusterRows, Grows
  <2> QED
    BY <2>2, <2>3
<1>4. RequestsOK'
  BY <1>3, EndsKeeps DEF CommitStart
<1>5. TasksOK'
  <2> DEFINE a == req[r].assignment
  <2>1. a \in DOMAIN clusters' /\ clusters'[a].owner = SeedUser /\ a # None
    BY <1>1, <1>3 DEF SeedOK, ClustersOK, Grows
  <2> SUFFICES ASSUME NEW t \in DOMAIN tasks'
               PROVE  (tasks[t] \in TaskRows /\ RightCluster(tasks[t]))'
    BY DEF TasksOK
  <2>2. CASE t \in SampleTasks(r)
    <3>1. PICK row : row = SampleTask(r, t[2])
      OBVIOUS
    <3>2. \/ row = Task(SeedUser, EPR, None, Sample, FALSE)
          \/ row = Task(SeedUser, SPR, a, Sample, TRUE)
      BY <3>1 DEF SampleTask
    <3>3. (row \in TaskRows /\ RightCluster(row))'
      <4>1. CASE row = Task(SeedUser, EPR, None, Sample, FALSE)
        BY <4>1, SeedAssumption DEF Task, TaskRows, RightCluster
      <4>2. CASE row = Task(SeedUser, SPR, a, Sample, TRUE)
        <5>1. SPR \in Modules
          BY WorkspaceAssumption
        <5> HIDE DEF a
        <5>2. row.cluster = a /\ row.owner = SeedUser
          BY <4>2 DEF Task
        <5>3. (row \in TaskRows)'
          BY <2>1, <4>2, <5>1, SeedAssumption DEF Task, TaskRows
        <5> QED
          BY <2>1, <5>2, <5>3 DEF RightCluster
      <4> QED
        BY <3>2, <4>1, <4>2
    <3>4. tasks'[t] = row
      BY <2>2, <3>1 DEF CommitStart
    <3> QED
      BY <3>3, <3>4 DEF RightCluster, TaskRows
  <2>3. CASE t \notin SampleTasks(r)
    <3>1. t \in DOMAIN tasks /\ tasks'[t] = tasks[t]
      BY <2>3 DEF CommitStart
    <3> QED
      BY <1>3, <3>1 DEF TasksOK, TaskRows, RightCluster, ClustersOK, Grows
  <2> QED
    BY <2>2, <2>3
<1>6. FreshOK'
  <2>1. /\ DOMAIN clusters' \subseteq DOMAIN clusters \cup {r}
        /\ DOMAIN tasks' \subseteq DOMAIN tasks \cup TaskIds(r)
    BY <1>2 DEF CommitStart, Added
  <2> SUFFICES ASSUME NEW s \in Requests, pc'[s] \in {"idle", "writing"}
               PROVE  s \notin DOMAIN clusters' /\ TaskIds(s) \cap DOMAIN tasks' = {}
    BY DEF FreshOK, TaskIds
  <2>2. s # r /\ pc[s] \in {"idle", "writing"}
    BY DEF CommitStart, Ends, RequestsOK
  <2> QED
    BY <2>1, <2>2, IdsDiffer DEF FreshOK
<1>7. CollectionsOK' /\ DocumentsOK' /\ AttachedOK'
  BY <1>3 DEF CommitStart, CollectionsOK, DocumentsOK, AttachedOK, Entities, Grows
<1> QED
  BY <1>3, <1>4, <1>5, <1>6, <1>7

(* A start of a container. *)
LEMMA StartStep ==
  ASSUME IInv, NEW r \in Requests, Start(r)
  PROVE  IInv'
<1>1. CASE /\ pc[r] = "idle" /\ pc' = [pc EXCEPT ![r] = "failed"]
           /\ UNCHANGED <<rows, req, overlapped>>
  <2>1. RequestsOK'
    <3>1. DecisionsOK'
      BY <1>1 DEF IInv, RequestsOK, DecisionsOK, DecisionOK, NewClusterOK, ClusterRows, RenameOK,
        NewTaskOK, TaskRows, RightCluster, UpdateOK, AttachOK, Entities, SeedOK, rows
    <3> QED
      BY <1>1, <3>1 DEF IInv, RequestsOK
  <2>2. FreshOK'
    BY <1>1 DEF IInv, RequestsOK, FreshOK, TaskIds, rows
  <2> QED
    BY <1>1, <2>1, <2>2 DEF IInv, rows, ClustersOK, TasksOK, CollectionsOK, DocumentsOK,
      AttachedOK, ClusterRows, TaskRows, RightCluster, Entities
<1>2. CASE Decides(r, [kind |-> "seed", missing |-> Missing, assignment |-> SeedAssignment(r)])
  <2> PICK q : q = [kind |-> "seed", missing |-> Missing, assignment |-> SeedAssignment(r)]
    OBVIOUS
  <2>1. "assignment" \in Missing <=> SampleAssignments = {}
    BY DEF Missing
  <2>2. SampleAssignments # {} => SeedAssignment(r) \in SampleAssignments
    BY DEF SeedAssignment
  <2>3. SampleAssignments = {} => SeedAssignment(r) = r
    BY DEF SeedAssignment
  <2>4. Missing \subseteq {"paper", "assignment", "submission"}
    BY DEF Missing
  <2>5. SeedOK(r, q)
    BY <2>1, <2>2, <2>3, <2>4 DEF SeedOK, SampleAssignments
  <2>6. Decides(r, q) /\ DecisionOK(r, q)
    BY <1>2, <2>5 DEF DecisionOK
  <2> QED
    BY <2>6, DecidesKeeps
<1> QED
  BY <1>1, <1>2 DEF Start

(* Every step keeps the invariant. *)
LEMMA NextIInv ==
  ASSUME IInv, [StartNext]_vars
  PROVE  IInv'
<1>1. CASE UNCHANGED vars
  BY <1>1 DEF vars, rows, IInv, ClustersOK, TasksOK, CollectionsOK, DocumentsOK, AttachedOK,
    ClusterRows, TaskRows, RightCluster, Entities, RequestsOK, DecisionsOK, DecisionOK,
    NewClusterOK, RenameOK, NewTaskOK, UpdateOK, AttachOK, SeedOK, FreshOK, TaskIds
<1>2. ASSUME NEW r \in Requests, Serve(r) PROVE IInv'
  BY <1>2, ServeStep
<1>3. ASSUME NEW r \in Requests, CommitCluster(r) PROVE IInv'
  BY <1>3, CommitClusterStep
<1>4. ASSUME NEW r \in Requests, CommitTask(r) PROVE IInv'
  BY <1>4, CommitTaskStep
<1>5. ASSUME NEW r \in Requests, CommitCollection(r) PROVE IInv'
  <2>1. req[r].owner \in Users
    BY <1>5 DEF CommitCollection, Commits, IInv, RequestsOK, DecisionsOK, DecisionOK
  <2>2. CollectionsOK' /\ DocumentsOK' /\ AttachedOK'
    BY <1>5, <2>1 DEF CommitCollection, Added, IInv, CollectionsOK, DocumentsOK, AttachedOK,
      Entities
  <2> QED
    BY <1>5, <2>2, SideCommit DEF CommitCollection
<1>6. ASSUME NEW r \in Requests, CommitDocument(r) PROVE IInv'
  <2>1. PICK how \in {"done", "failed"} : Ends(r, how)
    BY <1>6 DEF CommitDocument
  <2>2. DocumentsOK'
    <3>1. CASE /\ Commits(r, "adddoc") /\ req[r].collection \in DOMAIN collections
               /\ documents' = documents \cup
                    {[id |-> r, collection |-> req[r].collection, active |-> TRUE,
                      deleted |-> FALSE]}
      <4> DEFINE row == [id |-> r, collection |-> req[r].collection, active |-> TRUE,
                         deleted |-> FALSE]
      <4>1. row \in [id : Requests, collection : DOMAIN collections,
                     active : BOOLEAN, deleted : BOOLEAN]
        BY <1>6, <3>1
      <4>2. collections' = collections /\ documents' = documents \cup {row}
        BY <1>6, <3>1 DEF CommitDocument
      <4> HIDE DEF row
      <4> QED
        BY <4>1, <4>2 DEF IInv, DocumentsOK
    <3>2. CASE documents' = documents
      BY <1>6, <3>2 DEF CommitDocument, IInv, DocumentsOK
    <3>3. CASE documents' = {IF d.id = req[r].document
                             THEN [d EXCEPT !.active = FALSE, !.deleted = TRUE] ELSE d :
                               d \in documents}
      <4>1. \A d \in documents :
              [d EXCEPT !.active = FALSE, !.deleted = TRUE] \in
                [id : Requests, collection : DOMAIN collections,
                 active : BOOLEAN, deleted : BOOLEAN]
        BY DEF IInv, DocumentsOK
      <4> QED
        BY <1>6, <3>3, <4>1 DEF CommitDocument, IInv, DocumentsOK
    <3> QED
      BY <1>6, <3>1, <3>2, <3>3 DEF CommitDocument
  <2>3. CollectionsOK' /\ AttachedOK'
    BY <1>6 DEF CommitDocument, IInv, CollectionsOK, AttachedOK, Entities
  <2> QED
    BY <1>6, <2>1, <2>2, <2>3, SideCommit DEF CommitDocument
<1>7. ASSUME NEW r \in Requests, CommitDelete(r) PROVE IInv'
  <2>1. PICK how \in {"done", "failed"} : Ends(r, how)
    BY <1>7 DEF CommitDelete
  <2>2. CollectionsOK' /\ DocumentsOK' /\ AttachedOK'
    BY <1>7 DEF CommitDelete, IInv, CollectionsOK, DocumentsOK, AttachedOK, Entities
  <2> QED
    BY <1>7, <2>1, <2>2, SideCommit DEF CommitDelete
<1>8. ASSUME NEW r \in Requests, CommitAttach(r) PROVE IInv'
  <2>1. PICK how \in {"done", "failed"} : Ends(r, how)
    BY <1>8 DEF CommitAttach
  <2>2. req[r].entity \in Entities
    BY <1>8 DEF CommitAttach, Commits, Ends, IInv, RequestsOK, DecisionsOK, DecisionOK, AttachOK
  <2>3. CollectionsOK' /\ DocumentsOK' /\ AttachedOK'
    BY <1>8, <2>2 DEF CommitAttach, IInv, CollectionsOK, DocumentsOK, AttachedOK, Entities
  <2> QED
    BY <1>8, <2>1, <2>3, SideCommit DEF CommitAttach
<1>9. ASSUME NEW r \in Requests, CommitDetach(r) PROVE IInv'
  <2>1. CollectionsOK' /\ DocumentsOK' /\ AttachedOK'
    BY <1>9 DEF CommitDetach, IInv, CollectionsOK, DocumentsOK, AttachedOK, Entities
  <2> QED
    BY <1>9, <2>1, SideCommit DEF CommitDetach
<1>10. ASSUME NEW r \in Requests, Start(r) PROVE IInv'
  BY <1>10, StartStep
<1>11. ASSUME NEW r \in Requests, CommitStart(r) PROVE IInv'
  BY <1>11, CommitStartStep
<1> QED
  BY <1>1, <1>2, <1>3, <1>4, <1>5, <1>6, <1>7, <1>8, <1>9, <1>10, <1>11 DEF StartNext, Next

LEMMA SpecIInv == StartSpec => []IInv
<1>1. Init => IInv
  BY InitIInv
<1>2. IInv /\ [StartNext]_vars => IInv'
  BY NextIInv
<1> QED
  BY <1>1, <1>2, PTL DEF StartSpec

(***************************************************************************)
(* Requests that do not overlap.                                           *)
(***************************************************************************)
(* What an open request saw still holds of the rows. *)
StillFits(r, q) ==
  /\ q.kind = "attach" => ~IsAttached(q.collection, q.entity)
  /\ q.kind = "seed" =>
       ~StartFails /\ q.missing = Missing /\ q.assignment = SeedAssignment(r)
OpenFits == \A r \in Requests : pc[r] = "writing" => StillFits(r, req[r])
OneOpen == \A r, s \in Requests : pc[r] = "writing" /\ pc[s] = "writing" => r = s
AttachedOnce ==
  \A a, b \in attached : a.collection = b.collection /\ a.entity = b.entity => a = b
SerialInv == ~overlapped => OneOpen /\ OpenFits /\ AttachedOnce

LEMMA InitSerialInv == ASSUME Init PROVE SerialInv
BY DEF Init, SerialInv, OneOpen, OpenFits, AttachedOnce

(* What is decided stays fitting as long as the rows do. *)
LEMMA FitsStays ==
  ASSUME UNCHANGED rows, NEW r, NEW q, StillFits(r, q)
  PROVE  StillFits(r, q)'
BY DEF rows, StillFits, IsAttached, StartFails, Missing, SeedAssignment, SamplePapers,
  SampleAssignments, SampleSubmissions

LEMMA SerialStays ==
  ASSUME SerialInv, UNCHANGED <<rows, req, overlapped>>,
         \A s \in Requests : pc'[s] = "writing" => pc[s] = "writing"
  PROVE  SerialInv'
<1> SUFFICES ASSUME ~overlapped
             PROVE  OneOpen' /\ OpenFits' /\ AttachedOnce'
  BY DEF SerialInv
<1>1. OneOpen' /\ AttachedOnce'
  BY DEF SerialInv, OneOpen, AttachedOnce, rows
<1>2. ASSUME NEW s \in Requests, pc'[s] = "writing"
      PROVE  StillFits(s, req[s])'
  <2> PICK q : q = req[s]
    OBVIOUS
  <2>1. StillFits(s, q)'
    BY <1>2, FitsStays DEF SerialInv, OpenFits
  <2> QED
    BY <2>1 DEF StillFits
<1> QED
  BY <1>1, <1>2 DEF OpenFits

(* A request that decides while another one is open is an overlap; one     *)
(* that decides alone is the only open one. *)
LEMMA DecidesSerial ==
  ASSUME IInv, SerialInv, NEW r \in Requests, NEW q, Decides(r, q), StillFits(r, q)
  PROVE  SerialInv'
<1> SUFFICES ASSUME ~overlapped'
             PROVE  OneOpen' /\ OpenFits' /\ AttachedOnce'
  BY DEF SerialInv
<1>1. ~overlapped /\ (\A s \in Requests : pc[s] # "writing") /\ UNCHANGED rows
  BY DEF Decides
<1>2. AttachedOnce'
  BY <1>1 DEF SerialInv, AttachedOnce, rows
<1>3. StillFits(r, q)'
  BY <1>1, FitsStays
<1>4. /\ \A s \in Requests : pc'[s] = "writing" => s = r
      /\ req'[r] = q
  BY <1>1 DEF Decides, IInv, RequestsOK
<1>5. OpenFits'
  BY <1>3, <1>4 DEF OpenFits, StillFits
<1> QED
  BY <1>2, <1>4, <1>5 DEF OneOpen

(* A request that ends leaves none open, when it was the only one. *)
LEMMA EndsSerial ==
  ASSUME IInv, SerialInv, NEW r \in Requests, pc[r] = "writing",
         NEW how \in {"done", "failed"}, Ends(r, how),
         AttachedOnce /\ StillFits(r, req[r]) => AttachedOnce'
  PROVE  SerialInv'
<1> SUFFICES ASSUME ~overlapped
             PROVE  OneOpen' /\ OpenFits' /\ AttachedOnce'
  BY DEF SerialInv, Ends
<1>1. AttachedOnce'
  BY DEF SerialInv, OpenFits
<1>2. \A s \in Requests : pc'[s] # "writing"
  BY DEF SerialInv, OneOpen, Ends, IInv, RequestsOK
<1> QED
  BY <1>1, <1>2 DEF OneOpen, OpenFits

(* Serving a request. *)
LEMMA ServeSerial ==
  ASSUME IInv, SerialInv, NEW r \in Requests, Serve(r)
  PROVE  SerialInv'
<1>1. PICK q : Decides(r, q) /\ q.kind # "seed"
               /\ (q.kind = "attach" => ~IsAttached(q.collection, q.entity))
  <2>1. \A u, n, type : CreateCluster(r, u, type, n) =>
          \E q : Decides(r, q) /\ q.kind = "cluster"
    BY DEF CreateCluster
  <2>2. \A u, n, c : UpdateCluster(r, u, c, n) => \E q : Decides(r, q) /\ q.kind = "rename"
    BY DEF UpdateCluster
  <2>3. \A u, n, c : CreateSubmission(r, u, c, n) => \E q : Decides(r, q) /\ q.kind = "task"
    BY DEF CreateSubmission
  <2>4. \A u, n, m, c : CreateTask(r, u, m, c, n) => \E q : Decides(r, q) /\ q.kind = "task"
    BY DEF CreateTask
  <2>5. \A u, t : ArchiveTask(r, u, t) => \E q : Decides(r, q) /\ q.kind = "archive"
    BY DEF ArchiveTask
  <2>6. \A u, t, c, n : UpdateTask(r, u, t, c, n) => \E q : Decides(r, q) /\ q.kind = "update"
    BY DEF UpdateTask
  <2>7. \A u : CreateCollection(r, u) => \E q : Decides(r, q) /\ q.kind = "collection"
    BY DEF CreateCollection
  <2>8. \A u, d : RemoveDocument(r, u, d) => \E q : Decides(r, q) /\ q.kind = "removedoc"
    BY DEF RemoveDocument
  <2>9. \A u, a : Detach(r, u, a) => \E q : Decides(r, q) /\ q.kind = "detach"
    BY DEF Detach
  <2>10. \A u, k : AddDocument(r, u, k) => \E q : Decides(r, q) /\ q.kind = "adddoc"
    BY DEF AddDocument
  <2>11. \A u, k : DeleteCollection(r, u, k) => \E q : Decides(r, q) /\ q.kind = "delete"
    BY DEF DeleteCollection
  <2>12. ASSUME NEW u, NEW k, NEW e, Attach(r, u, k, e)
         PROVE  \E q : /\ Decides(r, q) /\ q.kind = "attach"
                       /\ ~IsAttached(q.collection, q.entity)
    <3> PICK q : q = [kind |-> "attach", collection |-> k, entity |-> e]
      OBVIOUS
    <3>1. Decides(r, q) /\ q.kind = "attach" /\ q.collection = k /\ q.entity = e
      BY <2>12 DEF Attach
    <3>2. ~IsAttached(q.collection, q.entity)
      BY <2>12, <3>1 DEF Attach
    <3> QED
      BY <3>1, <3>2
  <2>13. \/ \E q : Decides(r, q) /\ q.kind \in {"cluster", "rename", "task", "archive", "update",
                                               "collection", "removedoc", "detach", "adddoc",
                                               "delete"}
         \/ \E q : /\ Decides(r, q) /\ q.kind = "attach"
                   /\ ~IsAttached(q.collection, q.entity)
    BY <2>1, <2>2, <2>3, <2>4, <2>5, <2>6, <2>7, <2>8, <2>9, <2>10, <2>11, <2>12, SMTT(60) DEF Serve
  <2> QED
    BY <2>13
<1> QED
  BY <1>1, DecidesSerial DEF StillFits

(* The commits; only attaching adds an attachment. *)
LEMMA CommitSerial ==
  ASSUME IInv, SerialInv, NEW r \in Requests,
         \/ CommitCluster(r) \/ CommitTask(r) \/ CommitCollection(r) \/ CommitDocument(r)
         \/ CommitDelete(r) \/ CommitAttach(r) \/ CommitDetach(r) \/ CommitStart(r)
  PROVE  SerialInv'
<1>1. pc[r] = "writing" /\ \E how \in {"done", "failed"} : Ends(r, how)
  BY DEF CommitCluster, CommitTask, CommitCollection, CommitDocument, CommitDelete, CommitAttach,
    CommitDetach, CommitStart, Commits
<1>2. CASE CommitAttach(r) /\ attached' # attached
  <2> PICK q : q = req[r]
    OBVIOUS
  <2> PICK row : row = [id |-> r, collection |-> q.collection, entity |-> q.entity]
    OBVIOUS
  <2>1. row.collection = q.collection /\ row.entity = q.entity
    OBVIOUS
  <2>2. q.kind = "attach" /\ attached' = attached \cup {row}
    BY <1>2 DEF CommitAttach, Commits
  <2>3. AttachedOnce /\ StillFits(r, q) => AttachedOnce'
    BY <2>1, <2>2 DEF StillFits, IsAttached, AttachedOnce
  <2> QED
    BY <1>1, <2>3, EndsSerial
<1>3. CASE ~(CommitAttach(r) /\ attached' # attached)
  <2>1. attached' \subseteq attached
    BY <1>3 DEF CommitCluster, CommitTask, CommitCollection, CommitDocument, CommitDelete,
      CommitAttach, CommitDetach, CommitStart
  <2>2. AttachedOnce => AttachedOnce'
    BY <2>1 DEF AttachedOnce
  <2> QED
    BY <1>1, <2>2, EndsSerial
<1> QED
  BY <1>2, <1>3

(* A start that decides, or fails and writes nothing. *)
LEMMA StartSerial ==
  ASSUME IInv, SerialInv, NEW r \in Requests, Start(r)
  PROVE  SerialInv'
<1>1. CASE /\ pc[r] = "idle" /\ pc' = [pc EXCEPT ![r] = "failed"]
           /\ UNCHANGED <<rows, req, overlapped>>
  <2>1. \A s \in Requests : pc'[s] = "writing" => pc[s] = "writing"
    BY <1>1 DEF IInv, RequestsOK
  <2> QED
    BY <1>1, <2>1, SerialStays
<1>2. CASE /\ ~StartFails
           /\ Decides(r, [kind |-> "seed", missing |-> Missing,
                          assignment |-> SeedAssignment(r)])
  <2> PICK q : q = [kind |-> "seed", missing |-> Missing, assignment |-> SeedAssignment(r)]
    OBVIOUS
  <2>1. StillFits(r, q)
    BY <1>2 DEF StillFits
  <2> QED
    BY <1>2, <2>1, DecidesSerial
<1> QED
  BY <1>1, <1>2 DEF Start

LEMMA SpecSerialInv == StartSpec => []SerialInv
<1>1. Init => SerialInv
  BY InitSerialInv
<1>2. IInv /\ SerialInv /\ [StartNext]_vars => SerialInv'
  <2> SUFFICES ASSUME IInv, SerialInv, [StartNext]_vars
               PROVE  SerialInv'
    OBVIOUS
  <2>1. CASE UNCHANGED vars
    BY <2>1, SerialStays DEF vars
  <2>2. ASSUME NEW r \in Requests,
               \/ Serve(r) \/ Start(r)
               \/ CommitCluster(r) \/ CommitTask(r) \/ CommitCollection(r) \/ CommitDocument(r)
               \/ CommitDelete(r) \/ CommitAttach(r) \/ CommitDetach(r) \/ CommitStart(r)
        PROVE  SerialInv'
    BY <2>2, ServeSerial, StartSerial, CommitSerial
  <2> QED
    BY <2>1, <2>2 DEF StartNext, Next
<1> QED
  BY <1>1, <1>2, SpecIInv, PTL DEF StartSpec

(* Every reference collection of a task is listed, once. *)
LEMMA ListedOnce == ReferencesListedOnce
<1> SUFFICES ASSUME NEW t \in DOMAIN tasks
             PROVE  /\ \A x, y \in References(t) : x.collection = y.collection => x = y
                    /\ {x.collection : x \in References(t)} =
                         {a.collection : a \in {b \in attached : b.entity \in {t, tasks[t].cluster}}}
  BY DEF ReferencesListedOnce
<1> DEFINE own == {a.collection : a \in {b \in attached : b.entity = t}}
           shared == {a.collection : a \in {b \in attached : b.entity = tasks[t].cluster}}
           ownRows == {[collection |-> k, via |-> "task"] : k \in own}
           sharedRows == {[collection |-> k, via |-> "cluster"] : k \in shared \ own}
<1>1. References(t) = ownRows \cup sharedRows
  BY DEF References
<1>2. {a.collection : a \in {b \in attached : b.entity \in {t, tasks[t].cluster}}} = own \cup shared
  OBVIOUS
<1> HIDE DEF own, shared
<1>3. \A x \in ownRows : x.collection \in own /\ x = [collection |-> x.collection, via |-> "task"]
  <2> SUFFICES ASSUME NEW k \in own, NEW x, x = [collection |-> k, via |-> "task"]
               PROVE  x.collection \in own /\ x = [collection |-> x.collection, via |-> "task"]
    OBVIOUS
  <2>1. x.collection = k
    OBVIOUS
  <2> QED
    BY <2>1
<1>4. \A x \in sharedRows :
        /\ x.collection \in shared \ own
        /\ x = [collection |-> x.collection, via |-> "cluster"]
  <2> SUFFICES ASSUME NEW k \in shared \ own, NEW x, x = [collection |-> k, via |-> "cluster"]
               PROVE  /\ x.collection \in shared \ own
                      /\ x = [collection |-> x.collection, via |-> "cluster"]
    OBVIOUS
  <2>1. x.collection = k
    OBVIOUS
  <2> QED
    BY <2>1
<1>5. \A k \in own : \E x \in ownRows : x.collection = k
  <2> SUFFICES ASSUME NEW k \in own
               PROVE  \E x \in ownRows : x.collection = k
    OBVIOUS
  <2> PICK x : x = [collection |-> k, via |-> "task"]
    OBVIOUS
  <2>1. x \in ownRows /\ x.collection = k
    OBVIOUS
  <2> HIDE DEF ownRows
  <2> QED
    BY <2>1
<1>6. \A k \in shared \ own : \E x \in sharedRows : x.collection = k
  <2> SUFFICES ASSUME NEW k \in shared \ own
               PROVE  \E x \in sharedRows : x.collection = k
    OBVIOUS
  <2> PICK x : x = [collection |-> k, via |-> "cluster"]
    OBVIOUS
  <2>1. x \in sharedRows /\ x.collection = k
    OBVIOUS
  <2> HIDE DEF sharedRows
  <2> QED
    BY <2>1
<1> HIDE DEF ownRows, sharedRows
<1>7. \A x, y \in References(t) : x.collection = y.collection => x = y
  BY <1>1, <1>3, <1>4
<1>8. {x.collection : x \in References(t)} = own \cup shared
  BY <1>1, <1>3, <1>4, <1>5, <1>6
<1> QED
  BY <1>2, <1>7, <1>8

(* A start alone: it commits what it found missing, and leaves each of the *)
(* three sample rows exactly once. *)
LEMMA StartLeavesSamples ==
  ASSUME IInv, SerialInv, NEW r \in Requests, CommitStart(r), ~overlapped
  PROVE  Missing' = {} /\ ~StartFails'
<1> PICK q : q = req[r]
  OBVIOUS
<1> PICK a : a = q.assignment
  OBVIOUS
<1>1. /\ ~StartFails /\ q.missing = Missing /\ a = SeedAssignment(r)
      /\ r \notin DOMAIN clusters /\ TaskIds(r) \cap DOMAIN tasks = {}
  BY DEF CommitStart, Commits, SerialInv, OpenFits, StillFits, IInv, RequestsOK, FreshOK
<1>2. /\ "paper" \in q.missing <=> SamplePapers = {}
      /\ "assignment" \in q.missing <=> SampleAssignments = {}
      /\ "submission" \in q.missing <=> SampleSubmissions = {}
  BY <1>1 DEF Missing
<1>3. SampleAssignments' = {a}
  <2>1. CASE SampleAssignments = {}
    <3> PICK row : row = Cluster(SeedUser, "assignment", Sample)
      OBVIOUS
    <3>1. row.owner = SeedUser /\ row.name = Sample /\ IsAssignment(row)
      BY DEF Cluster, IsAssignment
    <3>2. a = r /\ clusters' = Added(clusters, r, row)
      BY <1>1, <1>2, <2>1 DEF SeedAssignment, CommitStart
    <3>3. /\ DOMAIN clusters' = DOMAIN clusters \cup {r} /\ clusters'[r] = row
          /\ \A c \in DOMAIN clusters : clusters'[c] = clusters[c]
      BY <1>1, <3>2 DEF Added
    <3> QED
      BY <2>1, <3>1, <3>2, <3>3 DEF SampleAssignments, IsAssignment
  <2>2. CASE SampleAssignments # {}
    <3>1. SampleAssignments = {a}
      BY <1>1, <2>2 DEF SeedAssignment, StartFails, Several
    <3>2. clusters' = clusters
      BY <1>2, <2>2 DEF CommitStart
    <3> QED
      BY <3>1, <3>2 DEF SampleAssignments, IsAssignment
  <2> QED
    BY <2>1, <2>2
<1> PICK paper : paper = <<r, "paper">>
  OBVIOUS
<1> PICK submission : submission = <<r, "submission">>
  OBVIOUS
<1> DEFINE paperRow == Task(SeedUser, EPR, None, Sample, FALSE)
           submissionRow == Task(SeedUser, SPR, a, Sample, TRUE)
<1>4. /\ paper # submission /\ paper \notin DOMAIN tasks /\ submission \notin DOMAIN tasks
      /\ paper[2] = "paper" /\ submission[2] = "submission"
  BY <1>1 DEF TaskIds
<1>5. \A t : t \in SampleTasks(r) <=> \/ t = paper /\ SamplePapers = {}
                                      \/ t = submission /\ SampleSubmissions = {}
  <2>1. q.missing \subseteq {"paper", "assignment", "submission"}
    BY <1>1 DEF Missing
  <2> QED
    BY <1>2, <2>1 DEF SampleTasks
<1>6. SampleTask(r, "paper") = paperRow /\ SampleTask(r, "submission") = submissionRow
  BY DEF SampleTask
<1>7. /\ DOMAIN tasks' = DOMAIN tasks \cup SampleTasks(r)
      /\ \A t \in DOMAIN tasks : tasks'[t] = tasks[t]
      /\ SamplePapers = {} => tasks'[paper] = paperRow
      /\ SampleSubmissions = {} => tasks'[submission] = submissionRow
  BY <1>4, <1>5, <1>6 DEF CommitStart
<1>8. /\ paperRow.owner = SeedUser /\ paperRow.title = Sample /\ paperRow.module = EPR
      /\ submissionRow.cluster = a /\ submissionRow.module = SPR /\ EPR # SPR
  BY DEF Task, EPR, SPR
<1> HIDE DEF paperRow, submissionRow
<1>9. /\ SamplePapers' # {}
      /\ ~Several(SamplePapers')
  <2>1. CASE SamplePapers = {}
    <3>1. SamplePapers' = {paper}
      BY <1>5, <1>7, <1>8, <2>1 DEF SamplePapers
    <3> QED
      BY <3>1 DEF Several
  <2>2. CASE SamplePapers # {}
    <3>1. SamplePapers' = SamplePapers
      BY <1>5, <1>7, <1>8, <2>2 DEF SamplePapers
    <3> QED
      BY <1>1, <2>2, <3>1 DEF StartFails, Several
  <2> QED
    BY <2>1, <2>2
<1>10. /\ SampleSubmissions' # {}
       /\ ~Several(SampleSubmissions')
  <2>1. SampleSubmissions = {t \in DOMAIN tasks : tasks[t].cluster = a /\ tasks[t].module = SPR}
    <3>1. CASE SampleAssignments = {}
      <4>1. a = r
        BY <1>1, <3>1 DEF SeedAssignment
      <4>2. r \notin DOMAIN clusters \cup {None}
        BY <1>1, WorkspaceAssumption
      <4>3. \A t \in DOMAIN tasks : tasks[t].cluster \in DOMAIN clusters \cup {None}
        BY DEF IInv, TasksOK, TaskRows
      <4> QED
        BY <3>1, <4>1, <4>2, <4>3 DEF SampleSubmissions
    <3>2. CASE SampleAssignments # {}
      BY <1>1, <3>2 DEF SeedAssignment, StartFails, Several, SampleSubmissions
    <3> QED
      BY <3>1, <3>2
  <2>2. SampleSubmissions' =
          {t \in DOMAIN tasks' : tasks'[t].cluster = a /\ tasks'[t].module = SPR}
    BY <1>3 DEF SampleSubmissions
  <2>3. CASE SampleSubmissions = {}
    <3>1. SampleSubmissions' = {submission}
      BY <1>5, <1>7, <1>8, <2>1, <2>2, <2>3
    <3> QED
      BY <3>1 DEF Several
  <2>4. CASE SampleSubmissions # {}
    <3>1. SampleSubmissions' = SampleSubmissions
      BY <1>5, <1>7, <1>8, <2>1, <2>2, <2>4
    <3> QED
      BY <1>1, <2>4, <3>1 DEF StartFails, Several
  <2> QED
    BY <2>3, <2>4
<1>11. ~StartFails'
  BY <1>3, <1>9, <1>10 DEF StartFails, Several
<1>12. Missing' = {}
  BY <1>3, <1>9, <1>10 DEF Missing
<1> QED
  BY <1>11, <1>12

(***************************************************************************)
(* The theorems.                                                           *)
(***************************************************************************)
(* Whatever requests overlap, and whatever containers start beside them,   *)
(* no row refers to a missing one and no task is in another user's cluster.*)
THEOREM WorkspaceIsSoundCorrect == StartSpec => []WorkspaceIsSound
<1>1. IInv => WorkspaceIsSound
  BY DEF IInv, ClustersOK, TasksOK, TaskRows, RightCluster, DocumentsOK, AttachedOK,
    WorkspaceIsSound, ReferencesHold, TasksInOwnClusters
<1> QED
  BY <1>1, SpecIInv, PTL

(* Requests that do not overlap attach a collection to an entity once, and *)
(* whatever overlaps, a task lists each of its collections once. *)
THEOREM AttachmentsAreSingleCorrect == StartSpec => []AttachmentsAreSingle
<1>1. SerialInv => AttachmentsAreSingle
  BY ListedOnce DEF SerialInv, AttachedOnce, AttachmentsAreSingle, SerialAttachedOnce
<1> QED
  BY <1>1, SpecSerialInv, PTL

(* A start alone leaves the sample rows as the next start expects them. *)
THEOREM StartsRepeatCorrect == StartSpec => StartsRepeat
<1>1. IInv /\ SerialInv /\ [StartNext]_vars =>
        [\A r \in Requests :
           CommitStart(r) /\ ~overlapped => Missing' = {} /\ ~StartFails']_vars
  BY StartLeavesSamples
<1> QED
  BY <1>1, SpecIInv, SpecSerialInv, PTL DEF StartSpec, StartsRepeat

=============================================================================
