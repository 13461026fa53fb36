---------------------------- MODULE Instructions ----------------------------
(***************************************************************************)
(* The instruction studio (api/v1/instructions.py): the integrity check    *)
(* that issues approval tokens (services/instructions/integrity_checker.py *)
(* and integrity_gate.py), and the handlers that show, save and activate   *)
(* instruction versions at every level; and how the context assembler      *)
(* picks the layers of a chat (services/ai/context.py).  What the author of *)
(* a layer is shown is in Authoring.                                       *)
(*                                                                         *)
(* A save or an activation is one transaction: a step that checks and      *)
(* reads, and a step that commits, with other requests in between.         *)
(***************************************************************************)
EXTENDS InstructionStore

CONSTANTS
  Level,     \* the level of each slot
  Typed,     \* the slots whose set carries a thread type
  Owner,     \* the user who owns a user, cluster, task or thread slot
  Entity,    \* the cluster, task or thread of a slot, or None
  OrgAdmins, \* users with role org_admin or app_admin
  AppAdmins, \* users with role app_admin
  Blocking,  \* texts the deterministic rules reject
  TTL,       \* lifetime of an approval token
  MaxTime,   \* bound on the clock
  MaxTokens, \* bound on the tokens issued
  Chain      \* the slots that apply to the chat: its organisation's, its
             \* user's, its cluster's, its task's and its own

Levels == {"platform", "org", "user", "cluster", "task", "thread"}

ASSUME InstructionAssumption ==
  /\ Level \in [Slots -> Levels]
  /\ Typed \subseteq Slots
  /\ Owner \in [Slots -> Users]
  /\ \A s \in Slots : Level[s] \in {"platform", "org", "user"} => Entity[s] = None
  /\ AppAdmins \subseteq OrgAdmins /\ OrgAdmins \subseteq Users
  /\ Blocking \subseteq Contents /\ SeedText \notin Blocking
  /\ TTL \in Nat /\ MaxTime \in Nat /\ MaxTokens \in Nat
  /\ Chain \subseteq Slots
  /\ \A s \in Seeded : Level[s] = "thread" => s \notin Typed

VARIABLES
  tokens,  \* approval tokens issued
  now,     \* the clock of the approval tokens
  req,     \* what each request decided and has not committed yet
  pc,      \* "idle", "writing", "done" for each request
  savedAt, \* history: the time each save was let through
  overlapped \* history: two requests were open at once

vars == <<storeVars, tokens, now, req, pc, savedAt, overlapped>>

(* scope_key_from_assistant_scope, and from a set: target and level, thread *)
(* type and entity; not the organisation, not the user. *)
Key(slot) == <<Level[slot], slot \in Typed, Entity[slot]>>

NoReq == [kind |-> "none"]

Init ==
  /\ StoreInit
  /\ tokens = {} /\ now = 0
  /\ req = [r \in Requests |-> NoReq]
  /\ pc = [r \in Requests |-> "idle"]
  /\ savedAt = [r \in Requests |-> 0]
  /\ overlapped = FALSE

Tick ==
  /\ now < MaxTime
  /\ now' = now + 1
  /\ UNCHANGED <<storeVars, tokens, req, pc, savedAt, overlapped>>

(***************************************************************************)
(* Approval.                                                               *)
(***************************************************************************)
(* deterministic_integrity_issues: any of its rules blocks. *)
PassesRules(content) == content \notin Blocking

(* issue_approval_token: it lives for _TOKEN_TTL_SECONDS; for records the slot the check was run for. *)
Token(user, slot, content) ==
  [user |-> user, key |-> Key(slot), content |-> content, exp |-> now + TTL,
   for |-> slot]

(* _resolve_entity_context: who may ask for a check of a slot.  The request *)
(* for a cluster reads Cluster.title, which the model does not have, and   *)
(* fails: a new text for a cluster is never approved. *)
MayAuthor(user, slot) ==
  CASE Level[slot] = "platform" -> user \in AppAdmins
    [] Level[slot] = "org" -> user \in OrgAdmins
    [] Level[slot] = "cluster" -> FALSE
    [] OTHER -> user = Owner[slot]

(* check: the rules first, then the context, then the model, whose verdict *)
(* may be either; a call that fails or does not parse is a fail.  A pass   *)
(* issues a token. *)
Check(user, slot, content) ==
  /\ Cardinality(tokens) < MaxTokens
  /\ PassesRules(content)
  /\ MayAuthor(user, slot)
  /\ tokens' = tokens \cup {Token(user, slot, content)}
  /\ UNCHANGED <<storeVars, now, req, pc, savedAt, overlapped>>

(* verify_approval_token. *)
(* Mutation: the content hash is not compared. *)
Approved_AnyContent(user, slot, content) ==
  \E t \in tokens : t.user = user /\ t.key = Key(slot) /\ t.exp >= now
Approved(user, slot, content) ==
  \E t \in tokens : /\ t.user = user /\ t.key = Key(slot)
                    /\ t.content = content /\ ~(t.exp < now)

(***************************************************************************)
(* Who may use a slot.                                                     *)
(***************************************************************************)
(* _require_studio_level_write. *)
(* Mutation: org instructions are checked like user instructions. *)
MayWriteStudio_Unchecked(user, slot) ==
  /\ Level[slot] = "platform" => user \in AppAdmins
  /\ Level[slot] = "user" => user = Owner[slot]
MayWriteStudio(user, slot) ==
  /\ Level[slot] = "platform" => user \in AppAdmins
  /\ Level[slot] = "org" => user \in OrgAdmins
  /\ Level[slot] = "user" => user = Owner[slot]

(* _studio_instruction_set_query: the sets without a thread type that a    *)
(* user sees at a studio level; anyone of the organisation sees its own. *)
Studio(user, slot) ==
  /\ Level[slot] \in {"platform", "org", "user"} /\ slot \notin Typed
  /\ Level[slot] = "user" => user = Owner[slot]

(* get_owned_cluster, get_owned_task, get_owned_thread. *)
Owned(user, slot, level) == Level[slot] = level /\ user = Owner[slot]

(***************************************************************************)
(* The three kinds of request, each from its reads to its commit.          *)
(***************************************************************************)
Decides(r, decision) ==
  /\ pc[r] = "idle"
  /\ pc' = [pc EXCEPT ![r] = "writing"]
  /\ req' = [req EXCEPT ![r] = decision]
  /\ overlapped' = (overlapped \/ \E q \in Requests : pc[q] = "writing")
  /\ UNCHANGED <<storeVars, tokens, now>>

(* GET: the set is created when it is missing, for a reader too. *)
Open(r, user, slot) ==
  /\ SetsOf(slot) = {}
  /\ Decides(r, [kind |-> "open", user |-> user, slot |-> slot, set |-> r])
  /\ UNCHANGED savedAt

(* POST: _create_instruction_version.  It activates the version only if    *)
(* the set it loaded had none. *)
Save(r, user, slot, content) ==
  /\ Approved(user, slot, content)
  /\ \E set \in Candidates(r, slot) :
       Decides(r, [kind |-> "save", user |-> user, slot |-> slot, set |-> set,
                   number |-> NextNumber(set), content |-> content,
                   activates |-> active[set] = None])
  /\ savedAt' = [savedAt EXCEPT ![r] = now]

(* POST .../activate: the version has to belong to the set found. *)
(* Mutation: any version the client names is activated. *)
Activate_Any(r, user, slot) ==
  /\ \E set \in SetsOf(slot), v \in versions :
       Decides(r, [kind |-> "activate", user |-> user, slot |-> slot,
                   set |-> set, version |-> v.id])
  /\ UNCHANGED savedAt
Activate(r, user, slot) ==
  /\ \E set \in SetsOf(slot) : \E v \in VersionsOf(set) :
       Decides(r, [kind |-> "activate", user |-> user, slot |-> slot,
                   set |-> set, version |-> v.id])
  /\ UNCHANGED savedAt

(* The rows a request inserts and the set it updates, all at its commit. *)
Inserted(r) == IF req[r].set = r THEN {SetRow(r, req[r].slot)} ELSE {}
NewVersion(r) ==
  VersionRow(r, req[r].set, req[r].number, req[r].content, req[r].user)

Commit(r) ==
  /\ pc[r] = "writing"
  /\ pc' = [pc EXCEPT ![r] = "done"]
  /\ sets' = sets \cup Inserted(r)
  /\ versions' = IF req[r].kind = "save" THEN versions \cup {NewVersion(r)} ELSE versions
  /\ active' = CASE req[r].kind = "save" /\ req[r].activates ->
                      [active EXCEPT ![req[r].set] = r]
                 [] req[r].kind = "activate" ->
                      [active EXCEPT ![req[r].set] = req[r].version]
                 [] OTHER -> active
  /\ req' = [req EXCEPT ![r] = NoReq]
  /\ UNCHANGED <<tokens, now, savedAt, overlapped>>

(* The request fails or its client is gone before the commit. *)
Abort(r) ==
  /\ pc[r] = "writing"
  /\ pc' = [pc EXCEPT ![r] = "done"]
  /\ req' = [req EXCEPT ![r] = NoReq]
  /\ savedAt' = [savedAt EXCEPT ![r] = 0]
  /\ UNCHANGED <<storeVars, tokens, now, overlapped>>

(***************************************************************************)
(* The handlers, level by level: whom each lets through to which slot.     *)
(***************************************************************************)
(* get_instruction_set, create_instruction_version and                     *)
(* activate_instruction_version: platform, org and user. *)
GetStudio(u, s) == Studio(u, s)
SaveStudio(u, s) == Studio(u, s) /\ MayWriteStudio(u, s)
ActivateStudio(u, s) == Studio(u, s) /\ MayWriteStudio(u, s)

(* The same for a cluster, with or without a thread type... *)
GetCluster(u, s) == Owned(u, s, "cluster")
SaveCluster(u, s) == Owned(u, s, "cluster")
ActivateCluster(u, s) == Owned(u, s, "cluster")

(* ... a task, with or without a thread type... *)
GetTask(u, s) == Owned(u, s, "task")
SaveTask(u, s) == Owned(u, s, "task")
ActivateTask(u, s) == Owned(u, s, "task")

(* ... and a thread, whose set has no thread type. *)
GetThread(u, s) == Owned(u, s, "thread") /\ s \notin Typed
SaveThread(u, s) == Owned(u, s, "thread") /\ s \notin Typed
ActivateThread(u, s) == Owned(u, s, "thread") /\ s \notin Typed

Opens(u, s) ==
  TRUE \in {GetStudio(u, s), GetCluster(u, s), GetTask(u, s), GetThread(u, s)}
Saves(u, s) ==
  TRUE \in {SaveStudio(u, s), SaveCluster(u, s), SaveTask(u, s), SaveThread(u, s)}
Activates(u, s) ==
  TRUE \in {ActivateStudio(u, s), ActivateCluster(u, s), ActivateTask(u, s),
            ActivateThread(u, s)}

(* A request is served once. *)
Serve(r) ==
  /\ pc[r] = "idle"
  /\ \E u \in Users, s \in Slots :
       \/ Opens(u, s) /\ Open(r, u, s)
       \/ Activates(u, s) /\ Activate(r, u, s)
       \/ Saves(u, s) /\ \E c \in Contents : Save(r, u, s, c)

Next ==
  \/ Tick
  \/ \E u \in Users, s \in Slots, c \in Contents : Check(u, s, c)
  \/ \E r \in Requests : Serve(r) \/ Commit(r) \/ Abort(r)

Spec == Init /\ [][Next]_vars

(***************************************************************************)
(* The layers of a chat: ContextAssembler.assemble.                        *)
(***************************************************************************)
(* _instruction_for_level: platform is asked for its untyped and for its   *)
(* typed set; org, user and cluster for whichever of the two comes first;  *)
(* task and thread for the untyped set. *)
Queries ==
  {[level |-> l, slots |-> {s \in Chain : Level[s] = l /\ s \notin Typed}] :
     l \in {"platform", "task", "thread"}} \cup
  {[level |-> "platform", slots |-> {s \in Chain : Level[s] = "platform" /\ s \in Typed}]} \cup
  {[level |-> l, slots |-> {s \in Chain : Level[s] = l}] : l \in {"org", "user", "cluster"}}

(* Mutation: user sets are not looked up by their user. *)
Matching_AnyUser(q) ==
  {t.id : t \in {s \in sets : s.slot \in q.slots \/
                              (q.level = "user" /\ Level[s.slot] = "user")}}
Matching(q) == {t.id : t \in {s \in sets : s.slot \in q.slots}}

(* One set answers each query: what a chat may be given at a level, and    *)
(* what it is given whichever set comes first. *)
Given(q) == IF Matching(q) = {} THEN {None} ELSE {active[i] : i \in Matching(q)}
MayBeGiven == (UNION {Given(q) : q \in Queries}) \ {None}
IsGiven == {v.id : v \in {w \in versions : \E q \in Queries : Given(q) = {w.id}}}

(***************************************************************************)
(* Properties.                                                             *)
(***************************************************************************)
(* Rows, tokens and requests have their types. *)
TypeOK ==
  /\ StoreTypeOK
  /\ tokens \subseteq [user : Users, key : {Key(s) : s \in Slots}, content : Contents,
                       exp : TTL..(MaxTime + TTL), for : Slots]
  /\ now \in 0..MaxTime
  /\ pc \in [Requests -> {"idle", "writing", "done"}]
  /\ \A r \in Requests : (pc[r] = "writing") <=> (req[r] # NoReq)
  /\ savedAt \in [Requests -> 0..MaxTime]

SameLayer(s, t) ==
  Level[s] = Level[t] /\ Entity[s] = Entity[t] /\ (s \in Typed <=> t \in Typed)

(* "All instruction saves require integrity_approval_token": every version *)
(* that was saved here had passed the rules, in a check of the same text   *)
(* for the same layer by the same user, not longer ago than the token      *)
(* lives. *)
SavedWasApproved ==
  \A v \in versions : v.id \in Requests =>
    /\ v.content \notin Blocking
    /\ \E t \in tokens :
         /\ t.user = v.by /\ t.content = v.content
         /\ SameLayer(t.for, SlotOf(v.set))
         /\ savedAt[v.id] <= t.exp

(* Who changes what is in force for a layer, by a save or by an            *)
(* activation, may do so: an admin for the platform and the organisation,  *)
(* the owner for the rest. *)
Entitled(user, slot) ==
  CASE Level[slot] = "platform" -> user \in AppAdmins
    [] Level[slot] = "org" -> user \in OrgAdmins
    [] OTHER -> user = Owner[slot]
ChangesAreEntitled ==
  \A i \in Ids : active'[i] # active[i] =>
    \E r \in Requests :
      /\ pc[r] = "writing" /\ pc'[r] = "done"
      /\ req[r].set = i /\ Entitled(req[r].user, req[r].slot)
OnlyEntitledActivate == [][ChangesAreEntitled]_vars

(* Requests that never overlap leave one set per slot, and one version per *)
(* number in it. *)
SerialSetsAreUnique ==
  ~overlapped =>
    /\ \A s, t \in sets : s.slot = t.slot => s = t
    /\ \A v, w \in versions : v.set = w.set /\ v.number = w.number => v = w

(* What the tables hold makes sense to every later request: versions belong *)
(* to their sets, a set in force points at a version of its own, numbers   *)
(* have no gaps, and serial requests leave one set for a layer. *)
StoreIsSound ==
  /\ StoreTypeOK /\ VersionsHaveSets
  /\ ActiveBelongs /\ NumbersHaveNoGaps /\ SerialSetsAreUnique

(* A chat is only ever given versions of sets of its own chain. *)
ContextIsOwn ==
  LET given == MayBeGiven
  IN \A v \in versions : v.id \in given => SlotOf(v.set) \in Chain

(* "Cluster instructions": whoever may save a layer can get a text for it  *)
(* approved.  The code does not keep this: a cluster's author cannot. *)
SaversMayAuthor == \A u \in Users, s \in Slots : Saves(u, s) => MayAuthor(u, s)

(* The stack order names one text per level, and all of them apply: what   *)
(* is in force for a layer of the chat is in its context.  The code does   *)
(* not keep this: one of two sets at a level is read. *)
InForce == {active[s.id] : s \in {t \in sets : t.slot \in Chain}} \ {None}
EveryLayerIsRead == InForce \subseteq IsGiven

(* It is as long as no other set applies at its level and, for tasks, the  *)
(* set has no thread type. *)
LoneLayerIsRead ==
  LET given == IsGiven
  IN \A s \in sets :
       /\ s.slot \in Chain /\ active[s.id] # None
       /\ Level[s.slot] = "task" => s.slot \notin Typed
       /\ \A t \in sets : t # s /\ t.slot \in Chain => Level[t.slot] # Level[s.slot]
       => active[s.id] \in given

(* The texts of a chat are its own: nothing of another chain, and all of a *)
(* layer that no second set competes with. *)
ContextIsFaithful == ContextIsOwn /\ LoneLayerIsRead

=============================================================================
