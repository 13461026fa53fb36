------------------------------ MODULE Retrieval ------------------------------
(***************************************************************************)
(* One retrieval of services/rag/retriever.py: the scope is read level by  *)
(* level, the question is embedded, the index is searched with the asked   *)
(* threshold and, when little is found, once more with a lower one.  Every *)
(* read is a statement of its own at READ COMMITTED, so that collections   *)
(* are attached and detached, and documents become ready or are deleted,   *)
(* between any two of them.                                                *)
(*                                                                         *)
(* A chunk has a similarity to the question; the set of chunks of one text *)
(* is the business of DocumentText.  The order of the collections within a *)
(* level is not seen in the answer and is left out.                        *)
(***************************************************************************)
EXTENDS Integers, FiniteSets, Sequences, FiniteSetsExt, Functions

CONSTANTS
    Pieces,        \* the chunks of the index, DocumentChunk rows
    TaskPapers,    \* indexed papers of the task, TaskDocument rows
    Collections,   \* collections of the task's organisation
    Owner,         \* the paper or collection a chunk is of
    Grades,        \* similarities
    Thresholds,    \* thresholds asked for; 0.7 by default
    TopK,          \* how many chunks are asked for; 10 by default
    Floor,         \* FALLBACK_THRESHOLD, 0.5
    Enough,        \* MIN_RESULTS_BEFORE_FALLBACK, 3
    MaxChanges     \* bound: what others do during a retrieval

ASSUME RetrievalAssumption ==
    /\ TaskPapers \cap Collections = {} /\ IsFiniteSet(Pieces)
    /\ Owner \in [Pieces -> TaskPapers \union Collections]
    /\ Grades \subseteq Nat /\ Thresholds \subseteq Nat /\ Floor \in Nat
    /\ TopK \in Nat \ {0} /\ Enough \in Nat /\ MaxChanges \in Nat

\* The levels a collection is attached at, by the number the code gives them;
\* 1 is for the papers of the task.
Levels == 2..4

VARIABLES
    attached,   \* the collections attached at each level
    ready,      \* the chunks whose document is active, not deleted and ready
    grade,      \* the similarity of each chunk to the question
    pc,         \* the next statement of the retrieval
    asked,      \* the threshold asked for
    level,      \* priority_by_id: the collections in scope, each with its level
    papers,     \* the papers in scope
    scored,     \* the chunks found by the last search, best first
    first,      \* history: what the first search found
    touched,    \* history: collections attached or detached meanwhile
    stirred,    \* history: documents have changed since the first search
    changes     \* bound: the changes made so far

ragVars == <<attached, ready, grade, pc, asked, level, papers, scored, first,
             touched, stirred, changes>>

Steps == <<"task", "cluster", "org", "papers", "search", "again">>

RagTypeOK ==
    /\ attached \in [Levels -> SUBSET Collections]
    /\ ready \subseteq Pieces
    /\ grade \in [Pieces -> Grades]
    /\ pc \in Range(Steps) \union {"idle", "done"}
    /\ asked \in Thresholds \union {0}
    /\ DOMAIN level \subseteq Collections /\ Range(level) \subseteq Levels
    /\ papers \subseteq TaskPapers
    /\ Range(scored) \subseteq [piece : Pieces, grade : Grades, level : 1..4]
    /\ first \subseteq Pieces
    /\ touched \subseteq Collections /\ stirred \in BOOLEAN
    /\ changes \in 0..MaxChanges

RagInit ==
    /\ attached = [l \in Levels |-> {}]
    /\ ready = {} /\ grade \in [Pieces -> Grades]
    /\ pc = "idle" /\ asked = 0 /\ level = <<>> /\ papers = {}
    /\ scored = <<>> /\ first = {}
    /\ touched = {} /\ stirred = FALSE /\ changes = 0

-----------------------------------------------------------------------------
(* What others do: kb.py, tasks.py and the document worker. *)

Busy == pc \in Range(Steps)

\* A collection is attached or detached, or made the organisation's or not.
Relate ==
    /\ pc = "idle" \/ (Busy /\ changes < MaxChanges)
    /\ \E l \in Levels, c \in Collections :
         /\ pc = "idle" => c \notin attached[l]
         /\ attached' = [attached EXCEPT ![l] = SymDiff(@, {c})]
         /\ touched' = IF Busy THEN touched \union {c} ELSE {}
    /\ changes' = IF Busy THEN changes + 1 ELSE changes
    /\ UNCHANGED <<ready, grade, pc, asked, level, papers, scored, first, stirred>>

\* The chunks of a document come to be searched, or no longer are.
Republish ==
    /\ pc = "idle" \/ (Busy /\ changes < MaxChanges)
    /\ \E p \in Pieces :
         /\ pc = "idle" => p \notin ready
         /\ ready' = SymDiff(ready, {p})
    /\ stirred' = (pc = "again")
    /\ changes' = IF Busy THEN changes + 1 ELSE changes
    /\ UNCHANGED <<attached, grade, pc, asked, level, papers, scored, first, touched>>

-----------------------------------------------------------------------------
(* The retrieval. *)

\* retrieve: task and thread are loaded and match.
Ask ==
    /\ pc = "idle"
    /\ \E t \in Thresholds : asked' = t
    /\ pc' = "task"
    /\ UNCHANGED <<attached, ready, grade, level, papers, scored, first, touched,
                   stirred, changes>>

\* Mutation: the last level a collection is attached at is kept.
WithLevel_Last(map, cols, l) ==
    [c \in DOMAIN map \union cols |-> IF c \in cols THEN l ELSE map[c]]

\* _collection_priority_map: setdefault, so the first level is kept.
WithLevel(map, cols, l) ==
    [c \in DOMAIN map \union cols |-> IF c \in DOMAIN map THEN map[c] ELSE l]

\* _resolve_collection_scope, one statement for each level.
ReadLevel(step, l, next) ==
    /\ pc = step
    /\ level' = WithLevel(level, attached[l], l)
    /\ pc' = next
    /\ UNCHANGED <<attached, ready, grade, asked, papers, scored, first, touched,
                   stirred, changes>>

\* Papers with an index that are ready; without any scope there is no search.
ReadPapers ==
    /\ pc = "papers"
    /\ papers' = {q \in TaskPapers : \E p \in ready : Owner[p] = q}
    /\ pc' = IF level = <<>> /\ papers' = {} THEN "done" ELSE "search"
    /\ UNCHANGED <<attached, ready, grade, asked, level, scored, first, touched,
                   stirred, changes>>

\* _build_scope_filters and chunk_visible.  A paper is not asked again whether
\* it is still ready; its chunks stay while it is processed anew.
Scope == {p \in Pieces : \/ Owner[p] \in papers
                         \/ Owner[p] \in DOMAIN level /\ p \in ready}

\* _priority_level_for_chunk
PriorityLevel(p) ==
    IF Owner[p] \in papers THEN 1
    ELSE IF Owner[p] \in DOMAIN level THEN level[Owner[p]] ELSE 4

\* order_by(distance).limit(top_k): no chunk left out is better than one taken.
Best(found, chosen) ==
    /\ Cardinality(chosen) = Min({TopK, Cardinality(found)})
    /\ \A p \in chosen, q \in found \ chosen : grade[q] <= grade[p]

\* _vector_search: ties come in any order.
VectorSearch(threshold) ==
    LET found == {p \in Scope : grade[p] >= threshold}
    IN  \E chosen \in SUBSET found :
          /\ Best(found, chosen)
          /\ \E order \in Bijection(1..Cardinality(chosen), chosen) :
               /\ \A i, j \in DOMAIN order : i < j => grade[order[i]] >= grade[order[j]]
               /\ scored' = [i \in DOMAIN order |->
                      [piece |-> order[i], grade |-> grade[order[i]],
                       level |-> PriorityLevel(order[i])]]

NeedsFallback(n) == n < Enough /\ asked > Floor

\* The first search, with the threshold asked for.
Search ==
    /\ pc = "search"
    /\ VectorSearch(asked)
    /\ first' = {s.piece : s \in Range(scored')}
    /\ stirred' = FALSE
    /\ pc' = IF NeedsFallback(Len(scored')) THEN "again" ELSE "done"
    /\ UNCHANGED <<attached, ready, grade, asked, level, papers, touched, changes>>

\* The second search, in the same scope.
SearchAgain ==
    /\ pc = "again"
    /\ VectorSearch(Floor)
    /\ pc' = "done"
    /\ UNCHANGED <<attached, ready, grade, asked, level, papers, first, touched,
                   stirred, changes>>

RagNext ==
    \/ Relate \/ Republish
    \/ Ask
    \/ ReadLevel("task", 2, "cluster")
    \/ ReadLevel("cluster", 3, "org")
    \/ ReadLevel("org", 4, "papers")
    \/ ReadPapers \/ Search \/ SearchAgain

-----------------------------------------------------------------------------
(* Properties. *)

Answered == pc = "done"

\* The level of a chunk is the nearest at which its collection is attached,
\* unless someone attached or detached that collection meanwhile; a paper of
\* the task comes before every collection.  (_collection_priority_map,
\* _priority_level_for_chunk)
NearestLevelCounts ==
    Answered => \A s \in Range(scored) :
        LET owner == Owner[s.piece]
        IN  IF owner \in TaskPapers THEN s.level = 1
            ELSE owner \notin touched
                 => s.level = Min({l \in Levels : owner \in attached[l]})

\* The lower threshold is for answers that would be thin: an answer has a chunk
\* below the threshold asked for only when fewer than Enough reached it, and
\* none below both thresholds.  (_retrieve_scored)
OnlyThinAnswersFallBack ==
    Answered => \A s \in Range(scored) :
        s.grade < asked => Cardinality(first) < Enough /\ s.grade >= Floor

\* The second search adds and takes nothing away: what the first one found is
\* in the answer, unless documents changed between the two.  (_retrieve_scored,
\* where the second result replaces the first)
FallbackKeepsTheFirst ==
    Answered /\ ~stirred /\ Cardinality(first) < Min({Enough, TopK})
        => first \subseteq {s.piece : s \in Range(scored)}

\* An answer leaves out no better chunk of a collection in scope: a chunk that
\* is searched and is not in the answer is below the threshold used, or the
\* answer is full of chunks at least as good.  (_vector_search)
NothingBetterIsLeftOut ==
    LET used == IF Cardinality(first) < Enough THEN Min({asked, Floor}) ELSE asked
        seen == {s.piece : s \in Range(scored)}
    IN  Answered /\ changes = 0 => \A p \in ready \ seen :
            \/ Owner[p] \notin TaskPapers /\ \A l \in Levels : Owner[p] \notin attached[l]
            \/ grade[p] < used
            \/ Len(scored) = TopK /\ \A s \in Range(scored) : s.grade >= grade[p]

\* An answer is the best the scope has to offer, with the level of every chunk
\* right, and thin answers are filled up without losing what was there.
AnswerIsBest ==
    /\ NearestLevelCounts /\ OnlyThinAnswersFallBack
    /\ FallbackKeepsTheFirst /\ NothingBetterIsLeftOut

=============================================================================
