------------------------- MODULE IntegrityGateProofs -------------------------
(***************************************************************************)
(* Proofs about IntegrityGate: its types, that a warning which is there    *)
(* all along blocks, that nothing unscanned is offered to the model, and   *)
(* that an open warning in a context is news, or the organisation's.       *)
(***************************************************************************)
EXTENDS IntegrityGate, TLAPS

(***************************************************************************)
(* Types.                                                                  *)
(***************************************************************************)
LEMMA ObservedType ==
  ASSUME TypeOK, Observed
  PROVE  news' \in [Requests ->
           [docs : SUBSET Docs, routes : SUBSET (Collections \X Entities)]]
<1> DEFINE Kept == [docs : SUBSET Docs, routes : SUBSET (Collections \X Entities)]
<1>1. Warned' \subseteq Docs /\ NewRoutes \subseteq Collections \X Entities
  BY GateAssumption DEF Warned, NewRoutes, Routes
<1>2. ASSUME NEW r \in Requests PROVE Observe(r) \in Kept
  <2>1. news[r] \in Kept
    BY DEF TypeOK
  <2>2. NoNews \in Kept
    BY DEF NoNews
  <2>3. news[r].docs \cup (Warned' \ Warned) \in SUBSET Docs
    BY <1>1, <2>1
  <2>4. news[r].routes \cup NewRoutes \in SUBSET (Collections \X Entities)
    BY <1>1, <2>1
  <2> QED BY <2>2, <2>3, <2>4 DEF Observe
<1> HIDE DEF Kept
<1>3. news' \in [Requests -> Kept]
  BY <1>2 DEF Observed
<1> QED BY <1>3 DEF Kept

LEMMA DocumentType ==
  ASSUME Life!TypeOK, NEW d \in Docs, Life!Change(d)
  PROVE  Life!TypeOK'
<1> USE DEF Life!TypeOK, Life!View
<1>1. CASE Life!Upload(d)
  BY <1>1 DEF Life!Upload
<1>2. CASE Life!Process(d)
  <2> DEFINE strategy == IF Life!Indexes(d) THEN "rag" ELSE "full"
             scanned == Life!Scans(d)
             indexed == Life!Indexes(d)
  <2>1. strategy \in {"full", "rag"} /\ scanned \in BOOLEAN /\ indexed \in BOOLEAN
    BY DEF Life!Scans, Life!Indexes
  <2>2. doc' = [doc EXCEPT ![d] = [@ EXCEPT !.status = "ready", !.strategy = strategy,
                                            !.scanned = scanned, !.indexed = indexed]]
    BY <1>2 DEF Life!Process
  <2> HIDE DEF strategy, scanned, indexed
  <2> QED BY <2>1, <2>2
<1>3. CASE Life!Fail(d)
  <2> DEFINE scanned == Life!Scans(d)
  <2>1. scanned \in BOOLEAN
    BY DEF Life!Scans
  <2>2. \/ doc' = [doc EXCEPT ![d].status = "failed"]
        \/ doc' = [doc EXCEPT ![d] = [@ EXCEPT !.status = "failed", !.strategy = "rag"]]
        \/ doc' = [doc EXCEPT ![d] = [@ EXCEPT !.status = "failed", !.strategy = "rag",
                                               !.scanned = scanned]]
    BY <1>3 DEF Life!Fail
  <2> HIDE DEF scanned
  <2>3. CASE doc' = [doc EXCEPT ![d].status = "failed"]
    BY <2>3
  <2>4. CASE doc' = [doc EXCEPT ![d] = [@ EXCEPT !.status = "failed", !.strategy = "rag",
                                               !.scanned = scanned]]
    BY <2>1, <2>4
  <2>5. CASE doc' = [doc EXCEPT ![d] = [@ EXCEPT !.status = "failed", !.strategy = "rag"]]
    BY <2>5
  <2> QED BY <2>2, <2>3, <2>4, <2>5
<1>4. CASE Life!Acknowledge(d)
  BY <1>4 DEF Life!Acknowledge
<1>5. CASE Life!Delete(d)
  BY <1>5 DEF Life!Delete
<1> QED BY <1>1, <1>2, <1>3, <1>4, <1>5 DEF Life!Change

\* The part of TypeOK an action on requests can disturb.
LEMMA RequestType ==
  ASSUME TypeOK, NEW r \in Requests,
         Gate(r) \/ Context(r) \/ Finish(r)
  PROVE  request' \in [Requests -> Request]
<1>0. request \in [Requests -> Request] /\ cluster \in Clusters \cup {"none"}
  BY DEF TypeOK
<1> USE <1>0 DEF Request
<1>1. \A k \in Clusters \cup {"none"} : AttachedTo(k) \in SUBSET Collections
  BY DEF AttachedTo
<1>2. AttachedTo("task") \in SUBSET Collections
  BY DEF AttachedTo
<1>3. ClusterCols(r) \in SUBSET Collections
  BY DEF ClusterCols, AttachedTo
<1>4. CASE Begin(r)
  BY <1>4 DEF Begin
<1>5. CASE GatePapers(r)
  <2> DEFINE warned == \E d \in GatePapersNow : Requires(d)
  <2>1. warned \in BOOLEAN
    OBVIOUS
  <2>2. request' = [request EXCEPT ![r] = [@ EXCEPT !.pc = "gateTask", !.warned = warned]]
    BY <1>5 DEF GatePapers
  <2> HIDE DEF warned
  <2> QED BY <2>1, <2>2
<1>6. CASE GateTask(r)
  BY <1>6, <1>2 DEF GateTask
<1>7. CASE GateCluster(r)
  <2> DEFINE cols == request[r].cols \cup ClusterCols(r)
  <2>1. cols \in SUBSET Collections
    BY <1>3
  <2>2. request' = [request EXCEPT ![r] = [@ EXCEPT !.pc = "gateDocs", !.cols = cols]]
    BY <1>7 DEF GateCluster
  <2> HIDE DEF cols
  <2> QED BY <2>1, <2>2
<1>8. CASE GateDocs(r)
  <2> DEFINE blocked == request[r].warned \/ \E d \in GateDocsNow(request[r].cols) : Requires(d)
             next == IF blocked THEN "blocked" ELSE "passed"
  <2>1. request' = [request EXCEPT ![r] = [NewRequest EXCEPT !.pc = next]]
    BY <1>8 DEF GateDocs
  <2>2. next \in {"blocked", "passed"}
    OBVIOUS
  <2> HIDE DEF next
  <2> QED BY <2>1, <2>2 DEF NewRequest
<1>9. CASE ContextPapers(r)
  <2>1. FullTextPapers \in SUBSET Docs
    BY GateAssumption DEF FullTextPapers
  <2> QED BY <1>9, <2>1 DEF ContextPapers, NewRequest
<1>10. CASE ScopeTask(r)
  BY <1>10, <1>2 DEF ScopeTask
<1>11. CASE ScopeCluster(r)
  <2> DEFINE cols == request[r].cols \cup ClusterCols(r)
  <2>1. cols \in SUBSET Collections
    BY <1>3
  <2>2. request' = [request EXCEPT ![r] = [@ EXCEPT !.pc = "scopeOrg", !.cols = cols]]
    BY <1>11 DEF ScopeCluster
  <2> HIDE DEF cols
  <2> QED BY <2>1, <2>2
<1>15. CASE ScopeOrg(r)
  <2> DEFINE cols == request[r].cols \cup org
  <2>1. cols \in SUBSET Collections
    BY DEF TypeOK
  <2>2. request' = [request EXCEPT ![r] = [@ EXCEPT !.pc = "ragPapers", !.cols = cols]]
    BY <1>15 DEF ScopeOrg
  <2> HIDE DEF cols
  <2> QED BY <2>1, <2>2
<1>12. CASE RagPapersRead(r)
  <2>1. RagPapers \in SUBSET Papers
    BY DEF RagPapers
  <2> QED BY <1>12, <2>1 DEF RagPapersRead
<1>13. CASE Search(r)
  <2> DEFINE offered == request[r].offered \cup Searched(request[r].papers, request[r].cols)
  <2>1. offered \in SUBSET Docs
    BY GateAssumption DEF Searched
  <2>2. request' = [request EXCEPT ![r] = [NewRequest EXCEPT !.pc = "sent", !.offered = offered]]
    BY <1>13 DEF Search
  <2> HIDE DEF offered
  <2> QED BY <2>1, <2>2 DEF NewRequest
<1>14. CASE Finish(r)
  BY <1>14 DEF Finish, NewRequest
<1> QED BY <1>4, <1>5, <1>6, <1>7, <1>8, <1>9, <1>10, <1>11, <1>12, <1>13, <1>14,
       <1>15 DEF Gate, Context

LEMMA TypeInit == Init => TypeOK
<1> SUFFICES ASSUME Init PROVE TypeOK
  OBVIOUS
<1>1. Life!TypeOK
  BY DEF Init, Life!Init, Life!TypeOK, Life!View, Life!Absent
<1>2. request \in [Requests -> Request]
  BY DEF Init, NewRequest, Request
<1>3. news \in [Requests -> [docs : SUBSET Docs, routes : SUBSET (Collections \X Entities)]]
  BY DEF Init, NoNews
<1>4. attached \in [Entities -> [Collections -> Nat]]
  BY DEF Init
<1> QED BY <1>1, <1>2, <1>3, <1>4 DEF Init, TypeOK

LEMMA TypeStep == TypeOK /\ [Next]_vars => TypeOK'
<1> SUFFICES ASSUME TypeOK, [Next]_vars PROVE TypeOK'
  OBVIOUS
<1>1. ASSUME NEW d \in Docs, DocumentChange(d) PROVE TypeOK'
  <2>1. Life!TypeOK'
    BY <1>1, DocumentType DEF DocumentChange, TypeOK
  <2> QED BY <1>1, <2>1, ObservedType DEF DocumentChange, TypeOK
<1>2. ASSUME NEW a \in Attachers, NEW c \in Collections, NEW e \in Entities,
             AttachCheck(a, c, e)
      PROVE  TypeOK'
  BY <1>2, ObservedType DEF AttachCheck, TypeOK, Life!TypeOK
<1>3. ASSUME NEW a \in Attachers, NEW c \in Collections, NEW e \in Entities,
             AttachCommit(a, c, e)
      PROVE  TypeOK'
  <2>1. attached' \in [Entities -> [Collections -> Nat]]
    BY <1>3 DEF AttachCommit, TypeOK
  <2>2. attacher' \in [Attachers -> SUBSET (Collections \X Entities)]
    BY <1>3 DEF AttachCommit, TypeOK
  <2> QED BY <1>3, <2>1, <2>2, ObservedType DEF AttachCommit, TypeOK, Life!TypeOK
<1>4. ASSUME NEW c \in Collections, NEW e \in Entities, Detach(c, e) PROVE TypeOK'
  <2>1. attached[e][c] \in Nat /\ attached[e][c] > 0
    BY <1>4 DEF Detach, TypeOK
  <2>2. attached' \in [Entities -> [Collections -> Nat]]
    BY <1>4, <2>1 DEF Detach, TypeOK
  <2> QED BY <1>4, <2>2, ObservedType DEF Detach, TypeOK, Life!TypeOK
<1>5. ASSUME NEW k \in Clusters, MoveTask(k) PROVE TypeOK'
  BY <1>5, ObservedType DEF MoveTask, TypeOK, Life!TypeOK
<1>6. ASSUME NEW r \in Requests, Gate(r) \/ Context(r) \/ Finish(r) PROVE TypeOK'
  <2>1. request' \in [Requests -> Request]
    BY <1>6, RequestType
  <2>2. UNCHANGED <<doc, attached, cluster, attacher, org>> /\ Observed
    BY <1>6 DEF Gate, Context, Begin, GatePapers, GateTask, GateCluster, GateDocs,
                ContextPapers, ScopeTask, ScopeCluster, ScopeOrg, RagPapersRead, Search, Finish
  <2> QED BY <2>1, <2>2, ObservedType DEF TypeOK, Life!TypeOK
<1>7. CASE UNCHANGED vars
  BY <1>7 DEF vars, TypeOK, Life!TypeOK
<1> QED BY <1>1, <1>2, <1>3, <1>4, <1>5, <1>6, <1>7 DEF Next

\* Every variable keeps its type.
THEOREM TypeCorrect == Spec => []TypeOK
BY TypeInit, TypeStep, PTL DEF Spec

(***************************************************************************)
(* A warning that is there blocks.  The invariant says what the gate has   *)
(* already made sure of at each of its queries: the papers have been       *)
(* looked at, then the collections of the task are in cols, then those of  *)
(* the cluster the request began with, which is the cluster of every route *)
(* that has been there since.                                              *)
(***************************************************************************)
InGate(r) == request[r].pc \in {"gatePapers", "gateTask", "gateCluster", "gateDocs"}

PapersSeen(r) ==
  request[r].pc \in {"gateTask", "gateCluster", "gateDocs"} /\ ~request[r].warned =>
    \A x \in Steady(r) : x[2] # "paper"

SameCluster(r) ==
  InGate(r) => \A x \in Steady(r) : x[2] \in Clusters => x[2] = request[r].cluster

TaskSeen(r) ==
  request[r].pc \in {"gateCluster", "gateDocs"} =>
    \A x \in Steady(r) : x[2] = "task" => CollectionOf[x[1]] \in request[r].cols

ClusterSeen(r) ==
  request[r].pc = "gateDocs" =>
    \A x \in Steady(r) : x[2] \in Clusters => CollectionOf[x[1]] \in request[r].cols

NonePassed(r) == Passed(r) => Steady(r) = {}

GateOK(r) ==
  PapersSeen(r) /\ SameCluster(r) /\ TaskSeen(r) /\ ClusterSeen(r) /\ NonePassed(r)

GateInv == \A r \in Requests : GateOK(r)

\* The warned documents with the routes by which they are in scope.
WarnedRoutes ==
  {x \in Warned \X ({"paper"} \cup Entities) :
     \/ x[1] \in Papers /\ x[2] = "paper"
     \/ /\ x[1] \in Kb /\ x[2] \in {"task", cluster}
        /\ <<CollectionOf[x[1]], x[2]>> \in Routes}

LEMMA RouteFacts ==
  ASSUME NEW x \in WarnedRoutes, cluster \in Clusters \cup {"none"}
  PROVE  /\ Requires(x[1])
         /\ x[2] = "paper" => x[1] \in GatePapersNow
         /\ x[2] # "paper" =>
              /\ x[2] \in {"task"} \cup Clusters
              /\ x[2] \in {"task", cluster}
              /\ x[1] \in GateDocsNow(AttachedTo(x[2]))
<1>1. x[1] \in Warned /\ x[2] \in {"paper"} \cup Entities
  BY DEF WarnedRoutes
<1>2. Requires(x[1]) /\ doc[x[1]].status = "ready" /\ ~doc[x[1]].deleted
  BY <1>1 DEF Warned
<1>3. CASE x[1] \in Papers /\ x[2] = "paper"
  BY <1>2, <1>3 DEF GatePapersNow
<1>4. CASE /\ x[1] \in Kb /\ x[2] \in {"task", cluster}
           /\ <<CollectionOf[x[1]], x[2]>> \in Routes
  <2>1. x[2] # "paper" /\ x[2] \in {"task"} \cup Clusters
    BY <1>1, <1>4, GateAssumption DEF Entities
  <2>2. CollectionOf[x[1]] \in AttachedTo(x[2])
    BY <1>4 DEF Routes, AttachedTo
  <2> QED BY <1>2, <1>4, <2>1, <2>2 DEF GateDocsNow
<1> QED BY <1>3, <1>4 DEF WarnedRoutes

LEMMA SteadyRoutes == \A r \in Requests : Steady(r) \subseteq WarnedRoutes
BY DEF Steady, WarnedRoutes

\* What Observed makes of the history of a request that is under way.
LEMMA Watching ==
  ASSUME TypeOK, Observed, NEW r \in Requests,
         request[r].pc # "idle", request'[r].pc \notin {"idle", "blocked"}
  PROVE  /\ news'[r].docs = news[r].docs \cup (Warned' \ Warned)
         /\ news'[r].routes = news[r].routes \cup NewRoutes
BY DEF Observed, Observe

LEMMA SteadyShrinks ==
  ASSUME TypeOK, TypeOK', Observed, NEW r \in Requests,
         request[r].pc # "idle", request'[r].pc \notin {"idle", "blocked"}
  PROVE  Steady(r)' \subseteq Steady(r)
<1> SUFFICES ASSUME NEW x \in Steady(r)' PROVE x \in Steady(r)
  OBVIOUS
<1>1. /\ x \in Warned' \X ({"paper"} \cup Entities) /\ x[1] \in Warned' \ news'[r].docs
      /\ \/ x[1] \in Papers /\ x[2] = "paper"
         \/ /\ x[1] \in Kb /\ x[2] \in {"task", cluster'}
            /\ <<CollectionOf[x[1]], x[2]>> \in Routes' \ news'[r].routes
  BY DEF Steady
<1>2. x[1] \in Warned \ news[r].docs
  BY <1>1, Watching
<1>3. CASE x[1] \in Papers /\ x[2] = "paper"
  BY <1>1, <1>2, <1>3 DEF Steady
<1>4. CASE /\ x[1] \in Kb /\ x[2] \in {"task", cluster'}
           /\ <<CollectionOf[x[1]], x[2]>> \in Routes' \ news'[r].routes
  <2> DEFINE y == <<CollectionOf[x[1]], x[2]>>
  <2>1. y \in Routes' /\ y \notin news[r].routes /\ y \notin NewRoutes
    BY <1>4, Watching
  <2>2. y \in Routes /\ ~(y[2] = cluster' /\ cluster' # cluster)
    BY <2>1 DEF NewRoutes
  <2>3. x[2] \in {"task", cluster}
    BY <1>4, <2>2
  <2> QED BY <1>1, <1>2, <1>4, <2>1, <2>2, <2>3 DEF Steady
<1> QED BY <1>1, <1>3, <1>4

LEMMA RoutesKept ==
  ASSUME UNCHANGED <<doc, attached, cluster>>
  PROVE  WarnedRoutes' = WarnedRoutes
BY DEF WarnedRoutes, Warned, Routes, Requires

\* A request that does not move keeps what it knows, whatever the others do.
LEMMA Unmoved ==
  ASSUME TypeOK, TypeOK', Observed, NEW r \in Requests, GateOK(r), request'[r] = request[r]
  PROVE  GateOK(r)'
<1>1. CASE request[r].pc \in {"idle", "blocked"}
  BY <1>1 DEF GateOK, PapersSeen, SameCluster, TaskSeen, ClusterSeen, NonePassed,
              InGate, Passed
<1>2. CASE request[r].pc \notin {"idle", "blocked"}
  <2>1. Steady(r)' \subseteq Steady(r)
    BY <1>2, SteadyShrinks
  <2> QED BY <2>1 DEF GateOK, PapersSeen, SameCluster, TaskSeen, ClusterSeen, NonePassed,
                     InGate, Passed
<1> QED BY <1>1, <1>2

\* How a step of a request changes it, for the steps of the gate.
LEMMA Moved ==
  ASSUME TypeOK, NEW r \in Requests, NEW v, request' = [request EXCEPT ![r] = v]
  PROVE  /\ request'[r] = v
         /\ \A q \in Requests \ {r} : request'[q] = request[q]
BY DEF TypeOK

LEMMA MovedRequest ==
  ASSUME TypeOK, NEW r \in Requests
  PROVE  /\ request[r] \in Request
         /\ request[r].cluster \in Clusters \cup {"none"}
BY DEF TypeOK, Request

LEMMA GateMoves ==
  ASSUME TypeOK, TypeOK', NEW r \in Requests, GateOK(r), Gate(r) \/ Context(r) \/ Finish(r)
  PROVE  GateOK(r)'
<1>1. UNCHANGED <<doc, attached, cluster, attacher, org>> /\ Observed
  BY DEF Gate, Context, Begin, GatePapers, GateTask, GateCluster, GateDocs,
         ContextPapers, ScopeTask, ScopeCluster, ScopeOrg, RagPapersRead, Search, Finish
<1>2. Steady(r)' \subseteq WarnedRoutes
  <2>1. Steady(r)' \subseteq WarnedRoutes'
    BY DEF Steady, WarnedRoutes
  <2> QED BY <1>1, <2>1, RoutesKept
<1>3. request[r].pc # "idle" /\ request'[r].pc \notin {"idle", "blocked"} =>
        Steady(r)' \subseteq Steady(r)
  BY <1>1, SteadyShrinks
<1>4. request[r] \in Request /\ cluster \in Clusters \cup {"none"}
  BY MovedRequest DEF TypeOK
<1> USE DEF GateOK
<1>5. CASE Begin(r)
  <2>1. request'[r] = [request[r] EXCEPT !.pc = "gatePapers", !.cluster = cluster]
    BY <1>5, Moved DEF Begin
  <2>2. request'[r].pc = "gatePapers" /\ request'[r].cluster = cluster
    BY <2>1, <1>4 DEF Request
  <2>3. SameCluster(r)'
    BY <2>2, <1>2, <1>4, RouteFacts, GateAssumption DEF SameCluster
  <2> QED BY <2>2, <2>3 DEF PapersSeen, TaskSeen, ClusterSeen, NonePassed, Passed
<1>6. CASE GatePapers(r)
  <2> DEFINE warned == \E d \in GatePapersNow : Requires(d)
  <2>1. request'[r] = [request[r] EXCEPT !.pc = "gateTask", !.warned = warned]
    BY <1>6, Moved DEF GatePapers
  <2>2. /\ request'[r].pc = "gateTask" /\ request'[r].cluster = request[r].cluster
        /\ request'[r].warned = warned
    <3> HIDE DEF warned
    <3> QED BY <2>1, <1>4 DEF Request
  <2>3. request[r].pc = "gatePapers"
    BY <1>6 DEF GatePapers, Step
  <2>4. PapersSeen(r)'
    BY <2>2, <1>2, <1>4, RouteFacts DEF PapersSeen
  <2>5. SameCluster(r)'
    <3> HIDE DEF warned
    <3> QED BY <2>2, <2>3, <1>3 DEF SameCluster, InGate
  <2> HIDE DEF warned
  <2> QED BY <2>2, <2>4, <2>5 DEF TaskSeen, ClusterSeen, NonePassed, Passed
<1>7. CASE GateTask(r)
  <2> DEFINE cols == AttachedTo("task")
  <2>1. request'[r] = [request[r] EXCEPT !.pc = "gateCluster", !.cols = cols]
    BY <1>7, Moved DEF GateTask
  <2>2. /\ request'[r].pc = "gateCluster" /\ request'[r].cluster = request[r].cluster
        /\ request'[r].warned = request[r].warned /\ request'[r].cols = cols
    <3> HIDE DEF cols
    <3> QED BY <2>1, <1>4 DEF Request
  <2>3. request[r].pc = "gateTask"
    BY <1>7 DEF GateTask, Step
  <2>4. TaskSeen(r)'
    BY <2>2, <1>2, <1>4, RouteFacts DEF TaskSeen, GateDocsNow
  <2> HIDE DEF cols
  <2>5. PapersSeen(r)' /\ SameCluster(r)'
    BY <2>2, <2>3, <1>3 DEF PapersSeen, SameCluster, InGate
  <2> QED BY <2>2, <2>4, <2>5 DEF ClusterSeen, NonePassed, Passed
<1>8. CASE GateCluster(r)
  <2> DEFINE cols == request[r].cols \cup ClusterCols(r)
  <2>1. request'[r] = [request[r] EXCEPT !.pc = "gateDocs", !.cols = cols]
    BY <1>8, Moved DEF GateCluster
  <2>2. /\ request'[r].pc = "gateDocs" /\ request'[r].cluster = request[r].cluster
        /\ request'[r].warned = request[r].warned /\ request'[r].cols = cols
    <3> HIDE DEF cols
    <3> QED BY <2>1, <1>4 DEF Request
  <2>3. request[r].pc = "gateCluster"
    BY <1>8 DEF GateCluster, Step
  <2>4. Steady(r)' \subseteq Steady(r)
    <3> HIDE DEF cols
    <3> QED BY <2>2, <2>3, <1>3
  <2>5. TaskSeen(r)'
    BY <2>2, <2>3, <2>4 DEF TaskSeen
  <2>6. ClusterSeen(r)'
    <3> SUFFICES ASSUME NEW x \in Steady(r)', x[2] \in Clusters
                 PROVE  CollectionOf[x[1]] \in cols
      BY <2>2 DEF ClusterSeen
    <3>1. x[2] = request[r].cluster
      BY <2>3, <2>4 DEF SameCluster, InGate
    <3>2. x[2] # "none" /\ x[2] # "paper"
      BY GateAssumption
    <3>3. x[1] \in GateDocsNow(AttachedTo(x[2]))
      BY <3>2, <1>2, <1>4, RouteFacts
    <3> QED BY <3>1, <3>2, <3>3 DEF GateDocsNow, ClusterCols
  <2> HIDE DEF cols
  <2>7. PapersSeen(r)' /\ SameCluster(r)'
    BY <2>2, <2>3, <2>4 DEF PapersSeen, SameCluster, InGate
  <2> QED BY <2>2, <2>5, <2>6, <2>7 DEF NonePassed, Passed
<1>9. CASE GateDocs(r)
  <2> DEFINE blocked == request[r].warned \/ \E d \in GateDocsNow(request[r].cols) : Requires(d)
             next == IF blocked THEN "blocked" ELSE "passed"
  <2>1. request'[r] = [NewRequest EXCEPT !.pc = next]
    <3>1. request' = [request EXCEPT ![r] = [NewRequest EXCEPT !.pc = next]]
      BY <1>9 DEF GateDocs
    <3> HIDE DEF next
    <3> QED BY <3>1, Moved
  <2>2. request'[r].pc = next
    <3> HIDE DEF next
    <3> QED BY <2>1 DEF NewRequest
  <2>3. request[r].pc = "gateDocs"
    BY <1>9 DEF GateDocs, Step
  <2>5. ~blocked => Steady(r)' = {}
    <3> SUFFICES ASSUME ~blocked, NEW x \in Steady(r)' PROVE FALSE
      OBVIOUS
    <3>0. Steady(r)' \subseteq Steady(r)
      BY <2>2, <2>3, <1>3
    <3>1. x[2] # "paper"
      BY <2>3, <3>0 DEF PapersSeen
    <3>2. /\ Requires(x[1]) /\ x[2] \in {"task"} \cup Clusters
          /\ x[1] \in GateDocsNow(AttachedTo(x[2]))
      BY <3>1, <1>2, <1>4, RouteFacts
    <3>3. CollectionOf[x[1]] \in request[r].cols
      BY <3>2, <2>3, <3>0 DEF TaskSeen, ClusterSeen
    <3>4. x[1] \in GateDocsNow(request[r].cols)
      BY <3>2, <3>3 DEF GateDocsNow
    <3> QED BY <3>2, <3>4
  <2>6. NonePassed(r)'
    BY <2>2, <2>5 DEF NonePassed, Passed
  <2>7. request'[r].pc \in {"blocked", "passed"}
    BY <2>2
  <2> QED BY <2>6, <2>7 DEF PapersSeen, SameCluster, TaskSeen, ClusterSeen, InGate
<1>10. CASE Context(r)
  <2>1. Passed(r) /\ request[r].pc # "idle"
    BY <1>10 DEF Context, ContextPapers, ScopeTask, ScopeCluster, ScopeOrg, RagPapersRead,
                 Search, Step, Passed
  <2>2. request'[r].pc \notin {"idle", "blocked"} => Steady(r)' = {}
    BY <2>1, <1>3 DEF NonePassed
  <2>3. request'[r].pc \in {"idle", "blocked"} => GateOK(r)'
    BY DEF PapersSeen, SameCluster, TaskSeen, ClusterSeen, NonePassed, InGate, Passed
  <2>4. request'[r].pc \notin {"idle", "blocked"} => GateOK(r)'
    BY <2>2 DEF PapersSeen, SameCluster, TaskSeen, ClusterSeen, NonePassed
  <2> QED BY <2>3, <2>4
<1>11. CASE Finish(r)
  <2>1. request'[r].pc = "idle"
    <3>1. request'[r] = NewRequest
      BY <1>11, Moved DEF Finish
    <3> QED BY <3>1 DEF NewRequest
  <2> QED BY <2>1 DEF PapersSeen, SameCluster, TaskSeen, ClusterSeen, NonePassed, InGate, Passed
<1> QED BY <1>5, <1>6, <1>7, <1>8, <1>9, <1>10, <1>11 DEF Gate

LEMMA GateStep == TypeOK /\ TypeOK' /\ GateInv /\ [Next]_vars => GateInv'
<1> SUFFICES ASSUME TypeOK, TypeOK', GateInv, [Next]_vars, NEW q \in Requests PROVE GateOK(q)'
  BY DEF GateInv
<1>1. GateOK(q)
  BY DEF GateInv
<1>2. ASSUME NEW r \in Requests, Gate(r) \/ Context(r) \/ Finish(r) PROVE GateOK(q)'
  <2>1. CASE r = q
    BY <1>1, <1>2, <2>1, GateMoves
  <2>2. CASE r # q
    <3>1. request'[q] = request[q] /\ Observed
      BY <1>2, <2>2, Moved
         DEF Gate, Context, Begin, GatePapers, GateTask, GateCluster, GateDocs,
             ContextPapers, ScopeTask, ScopeCluster, ScopeOrg, RagPapersRead, Search, Finish
    <3> QED BY <3>1, <1>1, Unmoved
  <2> QED BY <2>1, <2>2
<1>3. CASE UNCHANGED request /\ Observed
  BY <1>1, <1>3, Unmoved
<1>4. CASE UNCHANGED vars
  <2>1. Steady(q)' = Steady(q)
    BY <1>4 DEF vars, Steady, Warned, Routes, Requires
  <2> QED BY <1>1, <1>4, <2>1
          DEF vars, GateOK, PapersSeen, SameCluster, TaskSeen, ClusterSeen, NonePassed,
              InGate, Passed
<1> QED BY <1>2, <1>3, <1>4
        DEF Next, DocumentChange, AttachCheck, AttachCommit, Detach, MoveTask

\* No request passes the gate while a warning has been there since it began,
\* whatever happens between the queries of the gate and however many requests,
\* collections, clusters and documents there are.
THEOREM SteadyWarningCorrect == Spec => []SteadyWarningBlocks
<1>1. Init => GateInv
  BY DEF Init, GateInv, GateOK, PapersSeen, SameCluster, TaskSeen, ClusterSeen, NonePassed,
         InGate, Passed, NewRequest
<1>2. GateInv => SteadyWarningBlocks
  BY DEF GateInv, GateOK, NonePassed, SteadyWarningBlocks
<1> QED BY <1>1, <1>2, GateStep, TypeCorrect, PTL DEF Spec

(***************************************************************************)
(* Nothing unscanned is offered.  What a request holds was scanned when it *)
(* was read, and a report never disappears.                                *)
(***************************************************************************)
ReadyScanned ==
  \A d \in Docs :
    /\ doc[d].scanned => Life!Scans(d)
    /\ Life!Scans(d) /\ doc[d].status = "ready" => doc[d].scanned

PapersScanned == \A r \in Requests : \A d \in request[r].papers : doc[d].scanned

ScanInv == ReadyScanned /\ PapersScanned /\ OfferedIsScanned

\* A change of a document never takes a report away.
LEMMA ReportsStay ==
  ASSUME TypeOK, ReadyScanned, NEW d \in Docs, Life!Change(d)
  PROVE  /\ ReadyScanned'
         /\ \A k \in Docs : doc[k].scanned => doc'[k].scanned
<1>1. doc \in [Docs -> Life!View]
  BY DEF TypeOK, Life!TypeOK
<1>2. PICK v : doc' = [doc EXCEPT ![d] = v] /\
               (\/ v = [doc[d] EXCEPT !.status = "pending"]
                \/ v = [doc[d] EXCEPT !.status = "failed"]
                \/ v = [doc[d] EXCEPT !.status = "failed", !.strategy = "rag"]
                \/ v = [doc[d] EXCEPT !.acked = TRUE]
                \/ v = [doc[d] EXCEPT !.deleted = TRUE]
                \/ v.scanned = Life!Scans(d))
  <2>1. CASE Life!Upload(d)
    BY <2>1 DEF Life!Upload
  <2>2. CASE Life!Process(d)
    <3> DEFINE strategy == IF Life!Indexes(d) THEN "rag" ELSE "full"
               v == [doc[d] EXCEPT !.status = "ready", !.strategy = strategy,
                                   !.scanned = Life!Scans(d), !.indexed = Life!Indexes(d)]
    <3>1. doc' = [doc EXCEPT ![d] = v]
      BY <2>2 DEF Life!Process
    <3>2. v.scanned = Life!Scans(d)
      <4> HIDE DEF strategy
      <4> QED BY <1>1 DEF Life!View
    <3> HIDE DEF v
    <3> QED BY <3>1, <3>2
  <2>3. CASE Life!Fail(d)
    <3> DEFINE v == [doc[d] EXCEPT !.status = "failed", !.strategy = "rag",
                                   !.scanned = Life!Scans(d)]
    <3>1. v.scanned = Life!Scans(d)
      BY <1>1 DEF Life!View
    <3>2. \/ doc' = [doc EXCEPT ![d] = v]
          \/ doc' = [doc EXCEPT ![d] = [doc[d] EXCEPT !.status = "failed"]]
          \/ doc' = [doc EXCEPT ![d] = [doc[d] EXCEPT !.status = "failed", !.strategy = "rag"]]
      BY <2>3 DEF Life!Fail
    <3> HIDE DEF v
    <3> QED BY <3>1, <3>2
  <2>4. CASE Life!Acknowledge(d)
    BY <2>4 DEF Life!Acknowledge
  <2>5. CASE Life!Delete(d)
    BY <2>5 DEF Life!Delete
  <2> QED BY <2>1, <2>2, <2>3, <2>4, <2>5 DEF Life!Change
<1>3. doc'[d] = v /\ \A k \in Docs \ {d} : doc'[k] = doc[k]
  BY <1>1, <1>2
<1>4. doc[d] \in Life!View
  BY <1>1
<1>5. \/ v.scanned = doc[d].scanned /\ v.status = doc[d].status
      \/ v.scanned = doc[d].scanned /\ v.status # "ready"
      \/ v.scanned = Life!Scans(d)
  BY <1>2, <1>4 DEF Life!View
<1>6. doc[d].scanned \in BOOLEAN /\ Life!Scans(d) \in BOOLEAN
  BY <1>4 DEF Life!View, Life!Scans
<1>7. \A k \in Docs : Life!Scans(k)' = Life!Scans(k)
  BY DEF Life!Scans
<1>8. ReadyScanned'
  <2>1. (doc'[d].scanned => Life!Scans(d)) /\
        (Life!Scans(d) /\ doc'[d].status = "ready" => doc'[d].scanned)
    BY <1>3, <1>5, <1>6 DEF ReadyScanned
  <2> QED BY <2>1, <1>3, <1>7 DEF ReadyScanned
<1>9. doc[d].scanned => doc'[d].scanned
  BY <1>3, <1>5, <1>6 DEF ReadyScanned
<1> QED BY <1>3, <1>8, <1>9

LEMMA ScanStep == TypeOK /\ ScanInv /\ [Next]_vars => ScanInv'
<1> SUFFICES ASSUME TypeOK, ScanInv, [Next]_vars PROVE ScanInv'
  OBVIOUS
<1>0. \A r \in Requests : request[r].papers \subseteq Docs /\ request[r].offered \subseteq Docs
  BY GateAssumption, MovedRequest DEF Request
<1>1. ASSUME NEW d \in Docs, DocumentChange(d) PROVE ScanInv'
  <2>1. ReadyScanned' /\ \A k \in Docs : doc[k].scanned => doc'[k].scanned
    BY <1>1, ReportsStay DEF DocumentChange, ScanInv
  <2>2. UNCHANGED request
    BY <1>1 DEF DocumentChange
  <2> QED BY <2>1, <2>2, <1>0 DEF ScanInv, PapersScanned, OfferedIsScanned
<1>2. ASSUME NEW r \in Requests, Gate(r) \/ Context(r) \/ Finish(r) PROVE ScanInv'
  <2>1. UNCHANGED doc
    BY <1>2 DEF Gate, Context, Begin, GatePapers, GateTask, GateCluster, GateDocs,
                ContextPapers, ScopeTask, ScopeCluster, ScopeOrg, RagPapersRead, Search, Finish
  <2>2. /\ \A d \in request'[r].papers \cup request'[r].offered : doc[d].scanned
        /\ \A q \in Requests \ {r} : request'[q] = request[q]
    <3>0. request[r] \in Request
      BY MovedRequest
    <3>1. \A d \in request[r].papers \cup request[r].offered : doc[d].scanned
      BY DEF ScanInv, PapersScanned, OfferedIsScanned
    <3>2. \A d \in FullTextPapers \cup RagPapers : doc[d].scanned
      BY GateAssumption DEF FullTextPapers, RagPapers, ScanInv, ReadyScanned, Life!Scans
    <3>3. \A d \in Searched(request[r].papers, request[r].cols) : doc[d].scanned
      BY <3>1, GateAssumption DEF Searched, ScanInv, ReadyScanned, Life!Scans
    <3>4. CASE Gate(r)
      <4>1. PICK v : /\ request' = [request EXCEPT ![r] = v]
                     /\ v.papers = request[r].papers \/ v.papers = {}
                     /\ v.offered = request[r].offered \/ v.offered = {}
        <5>1. CASE Begin(r)
          BY <5>1, <3>0 DEF Begin, Request
        <5>2. CASE GatePapers(r)
          <6> DEFINE warned == \E d \in GatePapersNow : Requires(d)
                     v == [request[r] EXCEPT !.pc = "gateTask", !.warned = warned]
          <6>1. request' = [request EXCEPT ![r] = v]
            BY <5>2 DEF GatePapers
          <6>2. v.papers = request[r].papers /\ v.offered = request[r].offered
            <7> HIDE DEF warned
            <7> QED BY <3>0 DEF Request
          <6> HIDE DEF v
          <6> QED BY <6>1, <6>2
        <5>3. CASE GateTask(r)
          BY <5>3, <3>0 DEF GateTask, Request
        <5>4. CASE GateCluster(r)
          BY <5>4, <3>0 DEF GateCluster, Request
        <5>5. CASE GateDocs(r)
          <6> DEFINE blocked == request[r].warned \/ \E d \in GateDocsNow(request[r].cols) : Requires(d)
                     next == IF blocked THEN "blocked" ELSE "passed"
                     v == [NewRequest EXCEPT !.pc = next]
          <6>1. request' = [request EXCEPT ![r] = v]
            BY <5>5 DEF GateDocs
          <6>2. v.papers = {} /\ v.offered = {}
            <7> HIDE DEF next
            <7> QED BY DEF NewRequest
          <6> HIDE DEF v
          <6> QED BY <6>1, <6>2
        <5> QED BY <3>4, <5>1, <5>2, <5>3, <5>4, <5>5 DEF Gate
      <4> QED BY <4>1, <3>1, Moved
    <3>5. CASE ContextPapers(r)
      <4> DEFINE v == [NewRequest EXCEPT !.pc = "scopeTask", !.cluster = cluster,
                                         !.offered = FullTextPapers]
      <4>1. v.papers = {} /\ v.offered = FullTextPapers
        BY DEF NewRequest
      <4>2. request' = [request EXCEPT ![r] = v]
        BY <3>5 DEF ContextPapers
      <4> HIDE DEF v
      <4> QED BY <4>1, <4>2, <3>1, <3>2, Moved
    <3>6. CASE ScopeTask(r)
      <4>1. request'[r] = [request[r] EXCEPT !.pc = "scopeCluster", !.cols = AttachedTo("task")]
            /\ \A q \in Requests \ {r} : request'[q] = request[q]
        BY <3>6, Moved DEF ScopeTask
      <4> QED BY <4>1, <3>0, <3>1 DEF Request
    <3>7. CASE ScopeCluster(r)
      <4> DEFINE cols == request[r].cols \cup ClusterCols(r)
      <4>1. request'[r] = [request[r] EXCEPT !.pc = "scopeOrg", !.cols = cols]
            /\ \A q \in Requests \ {r} : request'[q] = request[q]
        BY <3>7, Moved DEF ScopeCluster
      <4> HIDE DEF cols
      <4> QED BY <4>1, <3>0, <3>1 DEF Request
    <3>11. CASE ScopeOrg(r)
      <4>1. request'[r] = [request[r] EXCEPT !.pc = "ragPapers", !.cols = @ \cup org]
            /\ \A q \in Requests \ {r} : request'[q] = request[q]
        BY <3>11, Moved DEF ScopeOrg
      <4> QED BY <4>1, <3>0, <3>1 DEF Request
    <3>8. CASE RagPapersRead(r)
      <4>1. request'[r] = [request[r] EXCEPT !.pc = "search", !.papers = RagPapers]
            /\ \A q \in Requests \ {r} : request'[q] = request[q]
        BY <3>8, Moved DEF RagPapersRead
      <4> QED BY <4>1, <3>0, <3>1, <3>2 DEF Request
    <3>9. CASE Search(r)
      <4> DEFINE offered == request[r].offered \cup Searched(request[r].papers, request[r].cols)
      <4>1. request'[r] = [NewRequest EXCEPT !.pc = "sent", !.offered = offered]
            /\ \A q \in Requests \ {r} : request'[q] = request[q]
        BY <3>9, Moved DEF Search
      <4>2. \A d \in offered : doc[d].scanned
        BY <3>1, <3>3
      <4> HIDE DEF offered
      <4> QED BY <4>1, <4>2 DEF NewRequest
    <3>10. CASE Finish(r)
      <4>1. request'[r] = NewRequest /\ \A q \in Requests \ {r} : request'[q] = request[q]
        BY <3>10, Moved DEF Finish
      <4>2. NewRequest.papers = {} /\ NewRequest.offered = {}
        BY DEF NewRequest
      <4> QED BY <4>1, <4>2
    <3> QED BY <1>2, <3>4, <3>5, <3>6, <3>7, <3>8, <3>9, <3>10, <3>11
            DEF Context
  <2>3. ReadyScanned'
    BY <2>1 DEF ScanInv, ReadyScanned, Life!Scans
  <2>4. PapersScanned' /\ OfferedIsScanned'
    BY <2>1, <2>2 DEF ScanInv, PapersScanned, OfferedIsScanned
  <2> QED BY <2>3, <2>4 DEF ScanInv
<1>3. CASE UNCHANGED <<doc, request>>
  BY <1>3 DEF ScanInv, ReadyScanned, PapersScanned, OfferedIsScanned, Life!Scans
<1> QED BY <1>1, <1>2, <1>3 DEF Next, AttachCheck, AttachCommit, Detach, MoveTask, vars

LEMMA ScanInit == Init => ScanInv
<1> SUFFICES ASSUME Init PROVE ScanInv
  OBVIOUS
<1>1. ReadyScanned
  BY DEF Init, Life!Init, Life!Absent, ReadyScanned
<1>2. \A r \in Requests : request[r].papers = {} /\ request[r].offered = {}
  BY DEF Init, NewRequest
<1> QED BY <1>1, <1>2 DEF ScanInv, PapersScanned, OfferedIsScanned

\* No document of a task or a knowledge base reaches the model unscanned, however
\* its processing, its reprocessing, the gate and the context interleave.
THEOREM OfferedCorrect == Spec => []OfferedIsScanned
<1>2. ScanInv => OfferedIsScanned
  BY DEF ScanInv
<1> QED BY ScanInit, <1>2, ScanStep, TypeCorrect, PTL DEF Spec

(***************************************************************************)
(* What is sent was checked.  Once the gate has passed no route over which *)
(* a warned document is in scope is older than the request, so whatever    *)
(* the queries of the context find is news; what they have found stays     *)
(* excused, for news is never forgotten and no document loses an           *)
(* acknowledgment.                                                         *)
(***************************************************************************)
Open(r, d) == Requires(d) => Excused(r, d)

\* The routes of the cluster the context was begun with.
ClusterIsNews(r) ==
  request[r].pc \in {"scopeTask", "scopeCluster"} =>
    \A d \in Kb \cap Warned :
      <<CollectionOf[d], request[r].cluster>> \in Routes =>
        d \in news[r].docs \/ <<CollectionOf[d], request[r].cluster>> \in news[r].routes

ColsAreNews(r) ==
  request[r].pc \in {"scopeCluster", "scopeOrg", "ragPapers", "search"} =>
    \A d \in Kb \cap Warned : CollectionOf[d] \in request[r].cols => Excused(r, d)

PapersAreNews(r) == request[r].pc = "search" => \A d \in request[r].papers : Open(r, d)

OfferedIsNews(r) == Passed(r) => \A d \in request[r].offered : Open(r, d)

SentOK(r) == ClusterIsNews(r) /\ ColsAreNews(r) /\ PapersAreNews(r) /\ OfferedIsNews(r)

PapersKept == \A d \in Papers : ~doc[d].deleted

SentInv == PapersKept /\ \A r \in Requests : SentOK(r)

\* A change of a document takes no acknowledgment away and deletes no paper.
LEMMA AcknowledgmentsStay ==
  ASSUME TypeOK, NEW d \in Docs, Life!Change(d)
  PROVE  \A k \in Docs : /\ doc[k].acked => doc'[k].acked
                         /\ k \in Papers /\ ~doc[k].deleted => ~doc'[k].deleted
<1>1. doc \in [Docs -> Life!View]
  BY DEF TypeOK, Life!TypeOK
<1>2. doc[d] \in Life!View
  BY <1>1
<1> USE DEF Life!View
<1>3. CASE Life!Upload(d)
  BY <1>1, <1>2, <1>3 DEF Life!Upload
<1>4. CASE Life!Process(d)
  <2> DEFINE strategy == IF Life!Indexes(d) THEN "rag" ELSE "full"
             v == [doc[d] EXCEPT !.status = "ready", !.strategy = strategy,
                                 !.scanned = Life!Scans(d), !.indexed = Life!Indexes(d)]
  <2>1. doc' = [doc EXCEPT ![d] = v]
    BY <1>4 DEF Life!Process
  <2>2. v.acked = doc[d].acked /\ v.deleted = doc[d].deleted
    <3> HIDE DEF strategy
    <3> QED BY <1>2
  <2> HIDE DEF v
  <2> QED BY <2>1, <2>2, <1>1
<1>5. CASE Life!Fail(d)
  <2> DEFINE v == [doc[d] EXCEPT !.status = "failed", !.strategy = "rag",
                                 !.scanned = Life!Scans(d)]
  <2>1. v.acked = doc[d].acked /\ v.deleted = doc[d].deleted
    BY <1>2
  <2>2. \/ doc' = [doc EXCEPT ![d] = v]
        \/ doc' = [doc EXCEPT ![d] = [doc[d] EXCEPT !.status = "failed"]]
        \/ doc' = [doc EXCEPT ![d] = [doc[d] EXCEPT !.status = "failed", !.strategy = "rag"]]
    BY <1>5 DEF Life!Fail
  <2> HIDE DEF v
  <2> QED BY <2>1, <2>2, <1>1, <1>2
<1>6. CASE Life!Acknowledge(d)
  BY <1>1, <1>2, <1>6 DEF Life!Acknowledge
<1>7. CASE Life!Delete(d)
  <2>1. d \notin Papers
    BY <1>7, GateAssumption DEF Life!Delete
  <2> QED BY <1>1, <1>2, <1>7, <2>1 DEF Life!Delete
<1> QED BY <1>3, <1>4, <1>5, <1>6, <1>7 DEF Life!Change

\* In any step, a document that has been scanned needs no acknowledgment it did
\* not need before.
DocsGrow ==
  /\ \A k \in Docs : doc[k].scanned /\ Requires(k)' => Requires(k)
  /\ PapersKept => PapersKept'

LEMMA DocumentsGrow ==
  ASSUME TypeOK, ScanInv, [Next]_vars
  PROVE  DocsGrow
<1>1. CASE UNCHANGED doc
  BY <1>1 DEF DocsGrow, Requires, PapersKept
<1>2. ASSUME NEW d \in Docs, DocumentChange(d) PROVE DocsGrow
  <2>1. Life!Change(d)
    BY <1>2 DEF DocumentChange
  <2>2. \A k \in Docs : /\ doc[k].acked => doc'[k].acked
                        /\ k \in Papers /\ ~doc[k].deleted => ~doc'[k].deleted
    BY <2>1, AcknowledgmentsStay
  <2> QED BY <2>2, GateAssumption DEF DocsGrow, Requires, PapersKept
<1> QED BY <1>1, <1>2
        DEF Next, AttachCheck, AttachCommit, Detach, MoveTask, vars, Gate, Context, Begin,
            GatePapers, GateTask, GateCluster, GateDocs, ContextPapers, ScopeTask,
            ScopeCluster, ScopeOrg, RagPapersRead, Search, Finish

\* News is never forgotten while a request is under way.
LEMMA NewsStays ==
  ASSUME TypeOK, Observed, org' = org, NEW r \in Requests, NEW d \in Docs,
         Passed(r), request'[r].pc \notin {"idle", "blocked"}, Excused(r, d)
  PROVE  Excused(r, d)'
<1>1. news[r].docs \subseteq news'[r].docs /\ news[r].routes \subseteq news'[r].routes
  BY Watching DEF Passed
<1> QED BY <1>1 DEF Excused

\* What becomes warned is news.
LEMMA WarnedIsNews ==
  ASSUME TypeOK, Observed, NEW r \in Requests, NEW d \in Docs,
         Passed(r), request'[r].pc \notin {"idle", "blocked"}, d \in Warned', d \notin Warned
  PROVE  d \in news'[r].docs
BY Watching DEF Passed

\* A request that does not move keeps what it knows, whatever the others do.
LEMMA UnmovedSent ==
  ASSUME TypeOK, ScanInv, DocsGrow, Observed, org' = org, NEW r \in Requests, SentOK(r),
         request'[r] = request[r]
  PROVE  SentOK(r)'
<1> USE GateAssumption
<1>1. CASE ~Passed(r)
  BY <1>1 DEF SentOK, ClusterIsNews, ColsAreNews, PapersAreNews, OfferedIsNews, Passed
<1>2. CASE Passed(r)
  <2>1. request'[r].pc \notin {"idle", "blocked"}
    BY <1>2 DEF Passed
  <2>2. ClusterIsNews(r)'
    <3> DEFINE k == request[r].cluster
    <3> SUFFICES ASSUME request[r].pc \in {"scopeTask", "scopeCluster"},
                        NEW d \in Kb \cap Warned', <<CollectionOf[d], k>> \in Routes'
                 PROVE  \/ d \in news'[r].docs
                        \/ <<CollectionOf[d], k>> \in news'[r].routes
      BY DEF ClusterIsNews
    <3>1. CASE d \notin Warned
      BY <1>2, <2>1, <3>1, WarnedIsNews
    <3>2. CASE <<CollectionOf[d], k>> \notin Routes
      <4>1. <<CollectionOf[d], k>> \in NewRoutes
        BY <3>2 DEF NewRoutes
      <4> QED BY <4>1, <1>2, <2>1, Watching DEF Passed
    <3>3. CASE d \in Warned /\ <<CollectionOf[d], k>> \in Routes
      <4>1. d \in news[r].docs \/ <<CollectionOf[d], k>> \in news[r].routes
        BY <3>3 DEF SentOK, ClusterIsNews
      <4> QED BY <4>1, <1>2, <2>1, Watching DEF Passed
    <3> QED BY <3>1, <3>2, <3>3
  <2>3. ColsAreNews(r)'
    <3> SUFFICES ASSUME request[r].pc \in {"scopeCluster", "scopeOrg", "ragPapers", "search"},
                        NEW d \in Kb \cap Warned', CollectionOf[d] \in request[r].cols
                 PROVE  Excused(r, d)'
      BY DEF ColsAreNews
    <3>1. CASE d \notin Warned
      BY <1>2, <2>1, <3>1, WarnedIsNews DEF Excused
    <3>2. CASE d \in Warned
      <4>1. Excused(r, d)
        BY <3>2 DEF SentOK, ColsAreNews
      <4> QED BY <4>1, <1>2, <2>1, NewsStays
    <3> QED BY <3>1, <3>2
  <2>4. \A d \in request[r].papers \cup request[r].offered :
          d \in Docs /\ doc[d].scanned
    BY MovedRequest DEF Request, ScanInv, PapersScanned, OfferedIsScanned
  <2>5. ASSUME NEW d \in Docs, doc[d].scanned, Open(r, d) PROVE Open(r, d)'
    BY <2>5, <1>2, <2>1, NewsStays DEF Open, DocsGrow
  <2>6. PapersAreNews(r)'
    BY <2>4, <2>5 DEF PapersAreNews, SentOK
  <2>7. OfferedIsNews(r)'
    BY <1>2, <2>4, <2>5 DEF OfferedIsNews, SentOK
  <2> QED BY <2>2, <2>3, <2>6, <2>7 DEF SentOK
<1> QED BY <1>1, <1>2

\* When the gate has passed, whatever is warned now and in scope is news.
LEMMA NothingSteady ==
  ASSUME NEW r \in Requests, Steady(r) = {}, PapersKept,
         cluster \in Clusters \cup {"none"}
  PROVE  /\ \A d \in Papers : doc[d].status = "ready" => Open(r, d)
         /\ \A d \in Kb \cap Warned, e \in Entities \cap {"task", cluster} :
              <<CollectionOf[d], e>> \in Routes =>
                d \in news[r].docs \/ <<CollectionOf[d], e>> \in news[r].routes
<1>1. ASSUME NEW d \in Papers, doc[d].status = "ready", Requires(d) PROVE Excused(r, d)
  <2>1. d \in Warned
    BY <1>1 DEF Warned, PapersKept
  <2>2. <<d, "paper">> \notin Steady(r)
    OBVIOUS
  <2>3. d \in news[r].docs
    BY <2>1, <2>2 DEF Steady
  <2> QED BY <2>3 DEF Excused
<1>2. ASSUME NEW d \in Kb \cap Warned, NEW e \in Entities \cap {"task", cluster},
             <<CollectionOf[d], e>> \in Routes
      PROVE  d \in news[r].docs \/ <<CollectionOf[d], e>> \in news[r].routes
  <2>1. <<d, e>> \notin Steady(r)
    OBVIOUS
  <2> QED BY <1>2, <2>1 DEF Steady
<1> QED BY <1>1, <1>2 DEF Open

LEMMA MovedSent ==
  ASSUME TypeOK, TypeOK', GateInv, PapersKept, NEW r \in Requests, SentOK(r),
         Gate(r) \/ Context(r) \/ Finish(r)
  PROVE  SentOK(r)'
<1>1. UNCHANGED <<doc, attached, cluster, attacher, org>> /\ Observed
  BY DEF Gate, Context, Begin, GatePapers, GateTask, GateCluster, GateDocs,
         ContextPapers, ScopeTask, ScopeCluster, ScopeOrg, RagPapersRead, Search, Finish
<1>2. Warned' = Warned /\ Routes' = Routes /\ \A d : Requires(d)' = Requires(d)
  BY <1>1 DEF Warned, Routes, Requires
<1>3. request[r] \in Request /\ cluster \in Clusters \cup {"none"}
  BY DEF TypeOK
<1>4. CASE ~Passed(r)'
  BY <1>4 DEF SentOK, ClusterIsNews, ColsAreNews, PapersAreNews, OfferedIsNews, Passed
<1>5. CASE GateDocs(r)
  <2> DEFINE blocked == request[r].warned \/ \E d \in GateDocsNow(request[r].cols) : Requires(d)
             next == IF blocked THEN "blocked" ELSE "passed"
  <2>1. request'[r] = [NewRequest EXCEPT !.pc = next]
    <3>1. request' = [request EXCEPT ![r] = [NewRequest EXCEPT !.pc = next]]
      BY <1>5 DEF GateDocs
    <3> HIDE DEF next
    <3> QED BY <3>1, Moved
  <2>2. next \in {"blocked", "passed"}
    OBVIOUS
  <2>3. request'[r].pc \in {"blocked", "passed"} /\ request'[r].offered = {}
    <3> HIDE DEF next
    <3> QED BY <2>1, <2>2 DEF NewRequest
  <2> QED BY <2>3 DEF SentOK, ClusterIsNews, ColsAreNews, PapersAreNews, OfferedIsNews
<1>6. CASE Begin(r) \/ GatePapers(r) \/ GateTask(r) \/ GateCluster(r)
  <2>1. request'[r].pc \in {"gatePapers", "gateTask", "gateCluster", "gateDocs"}
    <3>1. CASE Begin(r)
      <4>1. request'[r] = [request[r] EXCEPT !.pc = "gatePapers", !.cluster = cluster]
        BY <3>1, Moved DEF Begin
      <4> QED BY <4>1, <1>3 DEF Request
    <3>2. CASE GatePapers(r)
      <4> DEFINE warned == \E d \in GatePapersNow : Requires(d)
      <4>1. request'[r] = [request[r] EXCEPT !.pc = "gateTask", !.warned = warned]
        BY <3>2, Moved DEF GatePapers
      <4> HIDE DEF warned
      <4> QED BY <4>1, <1>3 DEF Request
    <3>3. CASE GateTask(r)
      <4>1. request'[r] = [request[r] EXCEPT !.pc = "gateCluster", !.cols = AttachedTo("task")]
        BY <3>3, Moved DEF GateTask
      <4> QED BY <4>1, <1>3 DEF Request
    <3>4. CASE GateCluster(r)
      <4> DEFINE cols == request[r].cols \cup ClusterCols(r)
      <4>1. request'[r] = [request[r] EXCEPT !.pc = "gateDocs", !.cols = cols]
        BY <3>4, Moved DEF GateCluster
      <4> HIDE DEF cols
      <4> QED BY <4>1, <1>3 DEF Request
    <3> QED BY <1>6, <3>1, <3>2, <3>3, <3>4
  <2> QED BY <2>1, <1>4 DEF Passed
<1>7. CASE Finish(r)
  <2>1. request'[r] = NewRequest
    BY <1>7, Moved DEF Finish
  <2> QED BY <2>1, <1>4 DEF NewRequest, Passed
<1>8. CASE Context(r)
  <2>1. Passed(r)
    BY <1>8 DEF Context, ContextPapers, ScopeTask, ScopeCluster, ScopeOrg, RagPapersRead,
                Search, Step, Passed
  <2>2. Steady(r) = {}
    BY <2>1 DEF GateInv, GateOK, NonePassed
  <2>3. CASE request'[r].pc \in {"idle", "blocked"}
    BY <1>4, <2>3 DEF Passed
  <2>4. CASE request'[r].pc \notin {"idle", "blocked"}
    <3>1. \A d \in Docs : Excused(r, d) => Excused(r, d)'
      BY <1>1, <2>1, <2>4, NewsStays
    <3>2. \A d \in Docs : Open(r, d) => Open(r, d)'
      BY <1>2, <3>1 DEF Open
    <3>3. /\ news[r].docs \subseteq news'[r].docs
          /\ news[r].routes \subseteq news'[r].routes
      BY <1>1, <2>1, <2>4, Watching DEF Passed
    <3>4. \A d \in Papers : doc[d].status = "ready" => Open(r, d)
      BY <1>3, <2>2, NothingSteady
    <3>5. \A d \in Kb \cap Warned, e \in Entities \cap {"task", cluster} :
            <<CollectionOf[d], e>> \in Routes =>
              d \in news[r].docs \/ <<CollectionOf[d], e>> \in news[r].routes
      BY <1>3, <2>2, NothingSteady
    <3>6. Papers \subseteq Docs /\ Kb \subseteq Docs
          /\ \A d \in request[r].papers \cup request[r].offered : d \in Docs
      BY <1>3, GateAssumption DEF Request
    <3>7. CASE ContextPapers(r)
      <4>1. /\ request'[r] = [NewRequest EXCEPT !.pc = "scopeTask", !.cluster = cluster,
                                                !.offered = FullTextPapers]
        BY <3>7, Moved DEF ContextPapers
      <4>2. /\ request'[r].pc = "scopeTask" /\ request'[r].cluster = cluster
            /\ request'[r].offered = FullTextPapers
        BY <4>1 DEF NewRequest
      <4>3. ClusterIsNews(r)'
        <5> SUFFICES ASSUME NEW d \in Kb \cap Warned, <<CollectionOf[d], cluster>> \in Routes
                     PROVE  \/ d \in news'[r].docs
                            \/ <<CollectionOf[d], cluster>> \in news'[r].routes
          BY <4>2, <1>2 DEF ClusterIsNews
        <5>1. cluster \in Entities
          BY DEF Routes
        <5> QED BY <5>1, <3>3, <3>5
      <4>4. OfferedIsNews(r)'
        BY <4>2, <3>2, <3>4, <3>6 DEF OfferedIsNews, FullTextPapers
      <4> QED BY <4>2, <4>3, <4>4 DEF SentOK, ColsAreNews, PapersAreNews
    <3>8. CASE ScopeTask(r)
      <4> DEFINE cols == AttachedTo("task")
      <4>1. request'[r] = [request[r] EXCEPT !.pc = "scopeCluster", !.cols = cols]
            /\ request[r].pc = "scopeTask"
        BY <3>8, Moved DEF ScopeTask, Step
      <4>2. /\ request'[r].pc = "scopeCluster" /\ request'[r].cluster = request[r].cluster
            /\ request'[r].cols = cols /\ request'[r].offered = request[r].offered
        <5> HIDE DEF cols
        <5> QED BY <4>1, <1>3 DEF Request
      <4>3. ColsAreNews(r)'
        <5> SUFFICES ASSUME NEW d \in Kb \cap Warned, CollectionOf[d] \in cols
                     PROVE  Excused(r, d)'
          BY <4>2, <1>2 DEF ColsAreNews
        <5>1. <<CollectionOf[d], "task">> \in Routes /\ "task" \in Entities
          BY DEF AttachedTo, Routes, Entities
        <5>2. Excused(r, d)
          BY <5>1, <3>5 DEF Excused
        <5> QED BY <5>2, <3>1, <3>6
      <4>4. ClusterIsNews(r)'
        BY <4>1, <4>2, <1>2, <3>3 DEF ClusterIsNews, SentOK
      <4>5. OfferedIsNews(r)'
        BY <4>2, <2>1, <3>2, <3>6 DEF OfferedIsNews, SentOK
      <4> QED BY <4>2, <4>3, <4>4, <4>5 DEF SentOK, PapersAreNews
    <3>9. CASE ScopeCluster(r)
      <4> DEFINE cols == request[r].cols \cup ClusterCols(r)
      <4>1. request'[r] = [request[r] EXCEPT !.pc = "scopeOrg", !.cols = cols]
            /\ request[r].pc = "scopeCluster"
        BY <3>9, Moved DEF ScopeCluster, Step
      <4>2. /\ request'[r].pc = "scopeOrg" /\ request'[r].offered = request[r].offered
            /\ request'[r].cols = cols
        <5> HIDE DEF cols
        <5> QED BY <4>1, <1>3 DEF Request
      <4>3. ColsAreNews(r)'
        <5> SUFFICES ASSUME NEW d \in Kb \cap Warned, CollectionOf[d] \in cols
                     PROVE  Excused(r, d)'
          BY <4>2, <1>2 DEF ColsAreNews
        <5>1. CASE CollectionOf[d] \in request[r].cols
          BY <5>1, <4>1, <3>1, <3>6 DEF ColsAreNews, SentOK
        <5>2. CASE CollectionOf[d] \in ClusterCols(r)
          <6> DEFINE k == request[r].cluster
          <6>1. k \in Entities /\ <<CollectionOf[d], k>> \in Routes
            BY <5>2, <1>3 DEF ClusterCols, AttachedTo, Routes, Entities, Request
          <6>2. d \in news[r].docs \/ <<CollectionOf[d], k>> \in news[r].routes
            BY <6>1, <4>1 DEF ClusterIsNews, SentOK
          <6>3. Excused(r, d)
            BY <6>1, <6>2 DEF Excused
          <6> QED BY <6>3, <3>1, <3>6
        <5> QED BY <5>1, <5>2
      <4>4. OfferedIsNews(r)'
        BY <4>2, <2>1, <3>2, <3>6 DEF OfferedIsNews, SentOK
      <4> QED BY <4>2, <4>3, <4>4 DEF SentOK, ClusterIsNews, PapersAreNews
    <3>10. CASE ScopeOrg(r)
      <4> DEFINE cols == request[r].cols \cup org
      <4>1. request'[r] = [request[r] EXCEPT !.pc = "ragPapers", !.cols = cols]
            /\ request[r].pc = "scopeOrg"
        BY <3>10, Moved DEF ScopeOrg, Step
      <4>2. /\ request'[r].pc = "ragPapers" /\ request'[r].offered = request[r].offered
            /\ request'[r].cols = cols
        <5> HIDE DEF cols
        <5> QED BY <4>1, <1>3 DEF Request
      <4>3. ColsAreNews(r)'
        <5> SUFFICES ASSUME NEW d \in Kb \cap Warned, CollectionOf[d] \in cols
                     PROVE  Excused(r, d)'
          BY <4>2, <1>2 DEF ColsAreNews
        <5>1. CASE CollectionOf[d] \in request[r].cols
          BY <5>1, <4>1, <3>1, <3>6 DEF ColsAreNews, SentOK
        <5>2. CASE CollectionOf[d] \in org
          BY <5>2, <1>1 DEF Excused
        <5> QED BY <5>1, <5>2
      <4>4. OfferedIsNews(r)'
        BY <4>2, <2>1, <3>2, <3>6 DEF OfferedIsNews, SentOK
      <4> QED BY <4>2, <4>3, <4>4 DEF SentOK, ClusterIsNews, PapersAreNews
    <3>11. CASE RagPapersRead(r)
      <4>1. request'[r] = [request[r] EXCEPT !.pc = "search", !.papers = RagPapers]
            /\ request[r].pc = "ragPapers"
        BY <3>11, Moved DEF RagPapersRead, Step
      <4>2. /\ request'[r].pc = "search" /\ request'[r].offered = request[r].offered
            /\ request'[r].cols = request[r].cols /\ request'[r].papers = RagPapers
        BY <4>1, <1>3 DEF Request
      <4>3. ColsAreNews(r)'
        BY <4>1, <4>2, <1>2, <3>1, <3>6 DEF ColsAreNews, SentOK
      <4>4. PapersAreNews(r)'
        BY <4>2, <3>2, <3>4, <3>6 DEF PapersAreNews, RagPapers
      <4>5. OfferedIsNews(r)'
        BY <4>2, <2>1, <3>2, <3>6 DEF OfferedIsNews, SentOK
      <4> QED BY <4>2, <4>3, <4>4, <4>5 DEF SentOK, ClusterIsNews
    <3>12. CASE Search(r)
      <4> DEFINE found == Searched(request[r].papers, request[r].cols)
                 offered == request[r].offered \cup found
      <4>1. request'[r] = [NewRequest EXCEPT !.pc = "sent", !.offered = offered]
            /\ request[r].pc = "search"
        BY <3>12, Moved DEF Search, Step
      <4>2. request'[r].pc = "sent" /\ request'[r].offered = offered
        <5> HIDE DEF offered
        <5> QED BY <4>1 DEF NewRequest
      <4>3. ASSUME NEW d \in found PROVE d \in Docs /\ Open(r, d)
        <5>1. CASE d \in request[r].papers
          BY <5>1, <4>1, <3>6 DEF PapersAreNews, SentOK
        <5>2. CASE d \in Kb /\ CollectionOf[d] \in request[r].cols
                   /\ doc[d].status = "ready" /\ ~doc[d].deleted
          BY <5>2, <4>1, <3>6 DEF ColsAreNews, SentOK, Open, Warned
        <5> QED BY <5>1, <5>2, <4>3 DEF Searched
      <4>4. \A d \in request[r].offered : Open(r, d)
        BY <2>1 DEF OfferedIsNews, SentOK
      <4>5. OfferedIsNews(r)'
        BY <4>2, <4>3, <4>4, <3>2, <3>6 DEF OfferedIsNews
      <4> QED BY <4>2, <4>5 DEF SentOK, ClusterIsNews, ColsAreNews, PapersAreNews
    <3> QED BY <1>8, <3>7, <3>8, <3>9, <3>10, <3>11, <3>12 DEF Context
  <2> QED BY <2>3, <2>4
<1> QED BY <1>5, <1>6, <1>7, <1>8 DEF Gate

LEMMA SentStep ==
  TypeOK /\ TypeOK' /\ ScanInv /\ GateInv /\ SentInv /\ [Next]_vars => SentInv'
<1> SUFFICES ASSUME TypeOK, TypeOK', ScanInv, GateInv, SentInv, [Next]_vars
             PROVE  SentInv'
  OBVIOUS
<1>1. DocsGrow
  BY DocumentsGrow
<1>2. PapersKept'
  BY <1>1 DEF DocsGrow, SentInv
<1>3. ASSUME NEW q \in Requests PROVE SentOK(q)'
  <2>1. SentOK(q) /\ PapersKept
    BY DEF SentInv
  <2>2. ASSUME NEW r \in Requests, Gate(r) \/ Context(r) \/ Finish(r) PROVE SentOK(q)'
    <3>1. CASE r = q
      BY <2>1, <2>2, <3>1, MovedSent
    <3>2. CASE r # q
      <4>1. request'[q] = request[q] /\ Observed /\ org' = org
        BY <2>2, <3>2, Moved
           DEF Gate, Context, Begin, GatePapers, GateTask, GateCluster, GateDocs,
               ContextPapers, ScopeTask, ScopeCluster, ScopeOrg, RagPapersRead, Search, Finish
      <4> QED BY <4>1, <1>1, <2>1, UnmovedSent
    <3> QED BY <3>1, <3>2
  <2>3. CASE UNCHANGED <<request, org>> /\ Observed
    BY <1>1, <2>1, <2>3, UnmovedSent
  <2>4. CASE UNCHANGED vars
    BY <2>1, <2>4
       DEF vars, SentOK, ClusterIsNews, ColsAreNews, PapersAreNews, OfferedIsNews, Passed,
           Open, Excused, Requires, Warned, Routes
  <2> QED BY <2>2, <2>3, <2>4
          DEF Next, DocumentChange, AttachCheck, AttachCommit, Detach, MoveTask
<1> QED BY <1>2, <1>3 DEF SentInv

\* A document whose warning is open is in a context only if its warning, or the
\* attachment or move that led to it, came up after the request began, or if the
\* organisation's collections hold it: for any number of requests and documents and
\* however often an automated workflow assembles its context after its one gate.
THEOREM SentWasCheckedCorrect == Spec => []SentWasChecked
<1>1. Init => GateInv
  BY DEF Init, GateInv, GateOK, PapersSeen, SameCluster, TaskSeen, ClusterSeen, NonePassed,
         InGate, Passed, NewRequest
<1>2. Init => SentInv
  <2>1. Init => PapersKept
    <3> SUFFICES ASSUME Init, NEW d \in Papers PROVE ~doc[d].deleted
      BY DEF PapersKept
    <3>1. d \in Docs /\ doc = [k \in Docs |-> Life!Absent(k)]
      BY GateAssumption DEF Init, Life!Init
    <3> QED BY <3>1 DEF Life!Absent
  <2>2. Init => \A r \in Requests : ~Passed(r)
    BY DEF Init, NewRequest, Passed
  <2>3. ASSUME Init, NEW r \in Requests PROVE SentOK(r)
    <3>1. request[r].pc = "idle"
      BY <2>3 DEF Init, NewRequest
    <3> QED BY <3>1 DEF SentOK, ClusterIsNews, ColsAreNews, PapersAreNews, OfferedIsNews, Passed
  <2> QED BY <2>1, <2>3 DEF SentInv
<1>3. SentInv => SentWasChecked
  BY DEF SentInv, SentOK, OfferedIsNews, Open, SentWasChecked, Step, Passed
<1> QED BY <1>1, <1>2, <1>3, ScanInit, ScanStep, GateStep, SentStep, TypeInit, TypeStep, PTL
        DEF Spec

=============================================================================
