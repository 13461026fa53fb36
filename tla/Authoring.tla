------------------------------ MODULE Authoring ------------------------------
(***************************************************************************)
(* What the authoring assistant and the integrity check are shown when the *)
(* text of a layer is written (services/instructions/authoring_context.py): *)
(* the texts of the broader layers, which the new text has to agree with.  *)
(* The same layers are asked for again, by other queries, when a chat is   *)
(* answered (Instructions!Queries).                                        *)
(***************************************************************************)
EXTENDS Instructions, Sequences

(* _PARENT_LEVELS: a layer inherits from every broader one. *)
StackOrder == <<"platform", "org", "user", "cluster", "task", "thread">>
Rank == [l \in Levels |-> CHOOSE i \in 1..Len(StackOrder) : StackOrder[i] = l]
ParentLevels == [l \in Levels |-> {StackOrder[i] : i \in 1..(Rank[l] - 1)}]

(* The author names a thread type or none; a thread has its own. *)
ThreadTypeGiven(slot, typed) == typed \/ Level[slot] = "thread"

(* Clusters and tasks are filtered by task_thread_type_filter instead,     *)
(* which stays None for a thread. *)
FilterGiven(slot, typed) == typed /\ Level[slot] \in {"cluster", "task"}

(* _instruction_for_level, for a slot of the chat's chain: the sets of the *)
(* level that carry no thread type, and with a thread type those that      *)
(* carry it. *)
Filter(slot, typed, level) ==
  IF level \in {"cluster", "task"} THEN FilterGiven(slot, typed)
  ELSE ThreadTypeGiven(slot, typed)
(* Mutation: a user's sets are not looked up by their user. *)
Inheritable_AnyUser(slot, typed, level) ==
  LET filter == Filter(slot, typed, level)
  IN {s \in IF level = "user" THEN Slots ELSE Chain :
        Level[s] = level /\ (s \in Typed => filter)}
Inheritable(slot, typed, level) ==
  LET filter == Filter(slot, typed, level)
  IN {s \in Chain : Level[s] = level /\ (s \in Typed => filter)}

(* The first set found answers, whichever it is: the texts an author of    *)
(* the slot may be shown for a level. *)
Shown(slot, typed, level) ==
  LET slots == Inheritable(slot, typed, level)
  IN {active[t.id] : t \in {u \in sets : u.slot \in slots}} \ {None}

(* build: one block per broader level that has a text.  A cluster's author *)
(* gets none of it. *)
Inherited(slot, typed) ==
  IF Level[slot] = "cluster" THEN {}
  ELSE UNION {Shown(slot, typed, l) : l \in ParentLevels[Level[slot]]}

(***************************************************************************)
(* Properties.                                                             *)
(***************************************************************************)
Authored == {s \in Chain : s \notin Typed}

(* What an author is shown of the broader layers is what chats of that     *)
(* layer may be given, and never a draft of the edited layer or of a       *)
(* narrower one, whatever saves and activations overlap. *)
InheritedIsGiven ==
  LET given == MayBeGiven
  IN \A s \in Authored, typed \in BOOLEAN :
       LET inherited == Inherited(s, typed)
       IN /\ inherited \subseteq given
          /\ \A v \in versions :
               v.id \in inherited => Rank[Level[SlotOf(v.set)]] < Rank[Level[s]]

(* The texts of a chat and of the authors of its layers are its own.  *)
LayersAreFaithful == ContextIsFaithful /\ InheritedIsGiven

(* "Compare against inherited instructions": the author of a thread's text *)
(* is shown every text that the chat is certainly given.  The code does    *)
(* not keep this: of the platform's two texts one is shown, and a          *)
(* cluster's typed text is not. *)
AuthorSeesChat ==
  \A s \in Authored : Level[s] = "thread" =>
    \A v \in versions :
      v.id \in IsGiven /\ SlotOf(v.set) # s => v.id \in Inherited(s, TRUE)

=============================================================================
