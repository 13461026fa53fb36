---------------------------- MODULE IntegrityGate ----------------------------
(***************************************************************************)
(* One task, its documents, the knowledge base collections attached to it  *)
(* and to clusters, and the requests that carry documents to the model.  A *)
(* request evaluates the integrity gate and once it has passed assembles   *)
(* the context in a session of its own: an AI stream once, an automated    *)
(* workflow once for every prompt of its steps.  Each query reads what is  *)
(* committed at that moment, so attachments, uploads, acknowledgments and  *)
(* moves of the task fall between any two of them.                         *)
(*                                                                         *)
(* Documents live as DocumentLife says, which DocumentPipeline implements. *)
(* No code sets is_org_collection; which collections are the organisation's *)
(* is fixed before, by whoever writes to the database, and may be none.    *)
(***************************************************************************)
EXTENDS Integers

CONSTANTS
  Docs, Kb, Papers, Long, Suspicious,  \* as in DocumentLife
  Collections,
  CollectionOf,   \* the collection of each document in Kb
  Clusters,
  Requests,       \* requests for an AI stream or a workflow
  Automated,      \* those that start a workflow
  Attachers       \* concurrent requests to attach a collection

ASSUME GateAssumption ==
  /\ Kb \subseteq Docs
  /\ Papers \subseteq Docs \ Kb
  /\ CollectionOf \in [Kb -> Collections]
  /\ Clusters \cap {"none", "task", "paper"} = {}
  /\ Automated \subseteq Requests

Entities == {"task"} \cup Clusters

VARIABLES
  doc,       \* the committed document rows, see DocumentLife
  attached,  \* attached[e][c]: kb_collection_attachments of c to entity e
  cluster,   \* task.cluster_id
  attacher,  \* the route each attach request has checked and not yet made
  request,   \* the stream requests
  org,       \* the collections with is_org_collection
  news       \* history: what came into scope since a request began

vars == <<doc, attached, cluster, attacher, request, org, news>>

Life == INSTANCE DocumentLife

\* What a request no longer reads is reset with the step that read it last.
NewRequest ==
  [pc |-> "idle", cluster |-> "none", cols |-> {}, papers |-> {}, warned |-> FALSE,
   offered |-> {}]

NoNews == [docs |-> {}, routes |-> {}]

Init ==
  /\ Life!Init
  /\ attached = [e \in Entities |-> [c \in Collections |-> 0]]
  /\ cluster \in Clusters \cup {"none"}
  /\ attacher = [a \in Attachers |-> {}]
  /\ request = [r \in Requests |-> NewRequest]
  /\ org \in SUBSET Collections
  /\ news = [r \in Requests |-> NoNews]

-----------------------------------------------------------------------------
(***************************************************************************)
(* What the two sides look at.  The gate looks at ready papers and at the  *)
(* ready, active documents of attached collections; the context takes the  *)
(* full text of short papers and the chunks of long ones and of attached   *)
(* collections.                                                            *)
(***************************************************************************)
AttachedTo(e) == {c \in Collections : attached[e][c] > 0}

\* document_requires_acknowledgment: an acknowledgment is of the same content.
Requires(d) == doc[d].scanned /\ d \in Suspicious /\ ~doc[d].acked

\* Mutation: the gate looks only at the papers that are loaded in full.
GatePapersNow_FullText ==
  {d \in Papers : doc[d].status = "ready" /\ doc[d].strategy = "full"}

GatePapersNow == {d \in Papers : doc[d].status = "ready"}

GateDocsNow(cols) ==
  {d \in Kb : CollectionOf[d] \in cols /\ doc[d].status = "ready" /\ ~doc[d].deleted}

\* Mutation: papers are loaded before they are processed.
FullTextPapers_AnyStatus ==
  {d \in Papers : doc[d].strategy = "full" /\ doc[d].status # "absent"}

FullTextPapers == {d \in Papers : doc[d].strategy = "full" /\ doc[d].status = "ready"}

RagPapers == {d \in Papers : doc[d].strategy = "rag" /\ doc[d].status = "ready"}

\* The documents whose chunks a search may return, whatever the query.
Searched(papers, cols) ==
  {d \in papers : doc[d].indexed} \cup
  {d \in Kb : /\ CollectionOf[d] \in cols /\ doc[d].indexed
              /\ doc[d].status = "ready" /\ ~doc[d].deleted}

-----------------------------------------------------------------------------
(***************************************************************************)
(* History.  Warned are the usable documents with an open warning; a route *)
(* is an entity and a collection attached to it.  news[r] are the          *)
(* documents that became warned, and the routes that were made or that the *)
(* task was moved onto, since r began.                                     *)
(***************************************************************************)
Warned ==
  {d \in Kb \cup Papers : doc[d].status = "ready" /\ ~doc[d].deleted /\ Requires(d)}

Routes == {x \in Collections \X Entities : attached[x[2]][x[1]] > 0}

NewRoutes ==
  {x \in Routes' : x \notin Routes \/ (x[2] = cluster' /\ cluster' # cluster)}

Observe(r) ==
  IF request[r].pc = "idle" \/ request'[r].pc \in {"idle", "blocked"} THEN NoNews
  ELSE [docs |-> news[r].docs \cup (Warned' \ Warned),
        routes |-> news[r].routes \cup NewRoutes]

Observed == news' = [r \in Requests |-> Observe(r)]

-----------------------------------------------------------------------------
(***************************************************************************)
(* Attaching checks that there is no attachment and then inserts one; no   *)
(* constraint of the table forbids a second.                               *)
(***************************************************************************)
AttachCheck(a, c, e) ==
  /\ attacher[a] = {}
  /\ attached[e][c] = 0
  /\ attacher' = [attacher EXCEPT ![a] = {<<c, e>>}]
  /\ UNCHANGED <<doc, attached, cluster, org, request>>
  /\ Observed

AttachCommit(a, c, e) ==
  /\ attacher[a] = {<<c, e>>}
  /\ attacher' = [attacher EXCEPT ![a] = {}]
  /\ attached' = [attached EXCEPT ![e][c] = @ + 1]
  /\ UNCHANGED <<doc, cluster, org, request>>
  /\ Observed

Detach(c, e) ==
  /\ attached[e][c] > 0
  /\ attached' = [attached EXCEPT ![e][c] = @ - 1]
  /\ UNCHANGED <<doc, cluster, attacher, org, request>>
  /\ Observed

\* update_task may name another cluster, it cannot take the task out of one.
MoveTask(k) ==
  /\ k # cluster
  /\ cluster' = k
  /\ UNCHANGED <<doc, attached, attacher, org, request>>
  /\ Observed

DocumentChange(d) ==
  /\ Life!Change(d)
  /\ UNCHANGED <<attached, cluster, attacher, org, request>>
  /\ Observed

-----------------------------------------------------------------------------
(***************************************************************************)
(* The gate: evaluate_task_integrity_gate, query by query.                 *)
(***************************************************************************)
Step(r, now) == request[r].pc = now

Begin(r) ==
  /\ Step(r, "idle")
  /\ request' = [request EXCEPT ![r] =
       [@ EXCEPT !.pc = "gatePapers", !.cluster = cluster]]
  /\ UNCHANGED <<doc, attached, cluster, attacher, org>>
  /\ Observed

GatePapers(r) ==
  /\ Step(r, "gatePapers")
  /\ request' = [request EXCEPT ![r] =
       [@ EXCEPT !.pc = "gateTask", !.warned = \E d \in GatePapersNow : Requires(d)]]
  /\ UNCHANGED <<doc, attached, cluster, attacher, org>>
  /\ Observed

GateTask(r) ==
  /\ Step(r, "gateTask")
  /\ request' = [request EXCEPT ![r] =
       [@ EXCEPT !.pc = "gateCluster", !.cols = AttachedTo("task")]]
  /\ UNCHANGED <<doc, attached, cluster, attacher, org>>
  /\ Observed

\* Mutation: collections of the cluster are forgotten.
ClusterCols_None(r) == {}

ClusterCols(r) == IF request[r].cluster = "none" THEN {} ELSE AttachedTo(request[r].cluster)

GateCluster(r) ==
  /\ Step(r, "gateCluster")
  /\ request' = [request EXCEPT ![r] =
       [@ EXCEPT !.pc = "gateDocs", !.cols = request[r].cols \cup ClusterCols(r)]]
  /\ UNCHANGED <<doc, attached, cluster, attacher, org>>
  /\ Observed

\* The last query decides: HTTP 409, or on to the context.
GateDocs(r) ==
  LET blocked == request[r].warned \/ \E d \in GateDocsNow(request[r].cols) : Requires(d) IN
  /\ Step(r, "gateDocs")
  /\ request' = [request EXCEPT ![r] =
       [NewRequest EXCEPT !.pc = IF blocked THEN "blocked" ELSE "passed"]]
  /\ UNCHANGED <<doc, attached, cluster, attacher, org>>
  /\ Observed

-----------------------------------------------------------------------------
(***************************************************************************)
(* The context: ContextAssembler._task_documents_block, then the queries   *)
(* of RAGRetriever, which also reads the organisation's collections.  A    *)
(* workflow assembles it again and again.                                  *)
(***************************************************************************)
ContextPapers(r) ==
  /\ Step(r, "passed") \/ (Step(r, "sent") /\ r \in Automated)
  /\ request' = [request EXCEPT ![r] =
       [NewRequest EXCEPT !.pc = "scopeTask", !.cluster = cluster, !.offered = FullTextPapers]]
  /\ UNCHANGED <<doc, attached, cluster, attacher, org>>
  /\ Observed

ScopeTask(r) ==
  /\ Step(r, "scopeTask")
  /\ request' = [request EXCEPT ![r] =
       [@ EXCEPT !.pc = "scopeCluster", !.cols = AttachedTo("task")]]
  /\ UNCHANGED <<doc, attached, cluster, attacher, org>>
  /\ Observed

ScopeCluster(r) ==
  /\ Step(r, "scopeCluster")
  /\ request' = [request EXCEPT ![r] =
       [@ EXCEPT !.pc = "scopeOrg", !.cols = request[r].cols \cup ClusterCols(r)]]
  /\ UNCHANGED <<doc, attached, cluster, attacher, org>>
  /\ Observed

ScopeOrg(r) ==
  /\ Step(r, "scopeOrg")
  /\ request' = [request EXCEPT ![r] =
       [@ EXCEPT !.pc = "ragPapers", !.cols = request[r].cols \cup org]]
  /\ UNCHANGED <<doc, attached, cluster, attacher, org>>
  /\ Observed

RagPapersRead(r) ==
  /\ Step(r, "ragPapers")
  /\ request' = [request EXCEPT ![r] = [@ EXCEPT !.pc = "search", !.papers = RagPapers]]
  /\ UNCHANGED <<doc, attached, cluster, attacher, org>>
  /\ Observed

Search(r) ==
  /\ Step(r, "search")
  /\ request' = [request EXCEPT ![r] =
       [NewRequest EXCEPT !.pc = "sent",
                          !.offered = request[r].offered \cup
                                      Searched(request[r].papers, request[r].cols)]]
  /\ UNCHANGED <<doc, attached, cluster, attacher, org>>
  /\ Observed

Finish(r) ==
  /\ request[r].pc \in {"blocked", "sent"}
  /\ request' = [request EXCEPT ![r] = NewRequest]
  /\ UNCHANGED <<doc, attached, cluster, attacher, org>>
  /\ Observed

-----------------------------------------------------------------------------
Gate(r) == Begin(r) \/ GatePapers(r) \/ GateTask(r) \/ GateCluster(r) \/ GateDocs(r)

Context(r) ==
  \/ ContextPapers(r) \/ ScopeTask(r) \/ ScopeCluster(r) \/ ScopeOrg(r)
  \/ RagPapersRead(r) \/ Search(r)

Next ==
  \/ \E d \in Docs : DocumentChange(d)
  \/ \E a \in Attachers, c \in Collections, e \in Entities :
       AttachCheck(a, c, e) \/ AttachCommit(a, c, e)
  \/ \E c \in Collections, e \in Entities : Detach(c, e)
  \/ \E k \in Clusters : MoveTask(k)
  \/ \E r \in Requests : Gate(r) \/ Context(r) \/ Finish(r)

Spec == Init /\ [][Next]_vars

-----------------------------------------------------------------------------
Request ==
  [pc : {"idle", "gatePapers", "gateTask", "gateCluster", "gateDocs", "blocked", "passed",
         "scopeTask", "scopeCluster", "scopeOrg", "ragPapers", "search", "sent"},
   cluster : Clusters \cup {"none"}, cols : SUBSET Collections, papers : SUBSET Papers,
   warned : BOOLEAN, offered : SUBSET Docs]

TypeOK ==
  /\ Life!TypeOK
  /\ attached \in [Entities -> [Collections -> Nat]]
  /\ cluster \in Clusters \cup {"none"}
  /\ attacher \in [Attachers -> SUBSET (Collections \X Entities)]
  /\ request \in [Requests -> Request]
  /\ org \subseteq Collections
  /\ news \in [Requests ->
       [docs : SUBSET Docs, routes : SUBSET (Collections \X Entities)]]

(***************************************************************************)
(* Properties.                                                             *)
(***************************************************************************)
Passed(r) == request[r].pc \notin {"idle", "gatePapers", "gateTask", "gateCluster", "gateDocs", "blocked"}

\* The warned documents that were in scope over the same route in every state
\* since r began: as papers, or over an attachment to the task or its cluster.
Steady(r) ==
  {x \in (Warned \ news[r].docs) \X ({"paper"} \cup Entities) :
     \/ x[1] \in Papers /\ x[2] = "paper"
     \/ /\ x[1] \in Kb
        /\ x[2] \in {"task", cluster}
        /\ <<CollectionOf[x[1]], x[2]>> \in Routes \ news[r].routes}

\* A warning that is there blocks: no request passes the gate while some document
\* has been in scope, unacknowledged and over the same route, since it began, no
\* matter what happens between the queries of the gate.
SteadyWarningBlocks == \A r \in Requests : Passed(r) => Steady(r) = {}

\* What is sent was checked: a document whose warning is open is in a context only
\* if its warning, or the attachment or move that led to it, came up after the
\* request began, or if it is in a collection of the organisation, which the
\* retriever reads and the gate does not.  This holds for every context an
\* automated workflow assembles after its one gate, and whatever happens between
\* the queries of both.
Excused(r, d) ==
  \/ d \in news[r].docs
  \/ d \in Kb /\ \E e \in Entities : <<CollectionOf[d], e>> \in news[r].routes
  \/ d \in Kb /\ CollectionOf[d] \in org

SentWasChecked ==
  \A r \in Requests : Step(r, "sent") =>
    \A d \in request[r].offered : Requires(d) => Excused(r, d)

\* No document reaches the model unscanned, however its processing, the gate and
\* the context interleave.
OfferedIsScanned == \A r \in Requests : \A d \in request[r].offered : doc[d].scanned

\* A context that is sent holds no document with an open warning.  The code
\* does not keep this: a paper may become ready between gate and context.
SentIsCleared ==
  \A r \in Requests : Step(r, "sent") =>
    \A d \in request[r].offered \cap Suspicious : doc[d].acked

=============================================================================
