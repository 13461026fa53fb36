-------------------------- MODULE ActivityLibrary --------------------------
(***************************************************************************)
(* The activity library: platform and organisation activity types and      *)
(* their prompts (api/v1/admin_activity_library.py,                        *)
(* activity_library_manage.py), the instruction sets their default texts   *)
(* are synced to (services/activity/instruction_sync.py), and how a        *)
(* thread, the model router and the read API pick an entry among those of  *)
(* a thread type.  One organisation; its entries and the platform's.       *)
(*                                                                         *)
(* A request reads and decides in one step and commits in a later one.     *)
(***************************************************************************)
EXTENDS InstructionStore

CONSTANTS
  Types,     \* thread types
  Modules,   \* module types
  PlatformOrg, \* PLATFORM_ORG_ID
  Org,       \* the organisation of the org_admin and of the tasks
  Admin,     \* who writes at a scope: an app_admin, an org_admin
  Approvals, \* approvals the integrity check gave: [key, content]
  MaxPrompts \* bound on the prompts of one replacement

Scopes == {"platform", "org"}
Orgs == {PlatformOrg, Org}
Texts == Contents \cup {None}

(* org_id of an entry, and the instruction set its text is synced to. *)
OrgOf(scope) == IF scope = "platform" THEN PlatformOrg ELSE Org
SyncSlot(scope, type) == <<scope, OrgOf(scope), type>>

ASSUME LibraryAssumption ==
  /\ Slots = Scopes \X Orgs \X Types
  /\ Seeded \subseteq {SyncSlot("platform", type) : type \in Types}
  /\ Admin \in [Scopes -> Users]
  /\ MaxPrompts \in Nat

VARIABLES
  entries,   \* activity_library_entries: id |-> row
  prompts,   \* activity_prompts: [id, entry, index]
  usage,     \* thread_prompt_usage: the prompts some thread used
  threads,   \* threads created: [id, type, module, from, text, known], known
             \* a history: the active entries create_thread read
  req,       \* what each request decided
  pc,        \* "idle", "checked", "writing", "done"
  overlapped \* history: two requests were open at once

libVars == <<entries, prompts, usage, threads>>
vars == <<storeVars, libVars, req, pc, overlapped>>

(* Rank of a scope: _SCOPE_PRIORITY. *)
Rank(scope) == IF scope = "org" THEN 0 ELSE 2

Row(scope, type, module, isActive, automated, text) ==
  [scope |-> scope, type |-> type, module |-> module, active |-> isActive,
   automated |-> automated, text |-> text]
Prompt(id, entry, index) == [id |-> id, entry |-> entry, index |-> index]
PromptsOf(e) == {p \in prompts : p.entry = e}
SlotFor(row) == SyncSlot(row.scope, row.type)

NoReq == [kind |-> "none"]
NoSync == [set |-> None]

(* The migrations seed an entry of a platform type, for one module, with a *)
(* prompt and its instruction set. *)
Init ==
  /\ StoreInit
  /\ \E seedModule \in [Seeded -> Modules] :
       entries = [s \in Seeded |->
                    Row(s[1], s[3], seedModule[s], TRUE, TRUE, SeedText)]
  /\ prompts = {Prompt(<<s, 0>>, s, 0) : s \in Seeded}
  /\ usage = {} /\ threads = {}
  /\ req = [r \in Requests |-> NoReq]
  /\ pc = [r \in Requests |-> "idle"]
  /\ overlapped = FALSE

(***************************************************************************)
(* Picking an entry.                                                       *)
(***************************************************************************)
Active == {e \in DOMAIN entries : entries[e].active}
OfLeastRank(S) ==
  {e \in S : \A f \in S : Rank(entries[e].scope) <= Rank(entries[f].scope)}

(* get_activity_library_entry: limit(1), without an order. *)
Shown(type, module) ==
  {e \in Active : entries[e].type = type /\ entries[e].module = module}

(* _activity_entry_for_thread: an org entry before the platform's; among   *)
(* equals whichever row comes first. *)
(* Mutation: the first row, whatever its scope. *)
Chosen_First(type, module) == Shown(type, module)
Chosen(type, module) == OfLeastRank(Shown(type, module))

(* AIRouter.ensure_loaded: by thread type, whatever the module. *)
Routed(type) == OfLeastRank({e \in Active : entries[e].type = type})

(***************************************************************************)
(* Approval and sync of a default text.                                    *)
(***************************************************************************)
(* scope_key_for_activity_entry. *)
Key(row, entry) == <<row.scope, row.type, row.module, entry>>

(* require_activity_default_integrity_approval: an empty text needs none. *)
Approved(row, entry) ==
  row.text # None => [key |-> Key(row, entry), content |-> row.text] \in Approvals

ContentOf(version) == (CHOOSE v \in versions : v.id = version).content
InForceIn(set) == IF active[set] = None THEN None ELSE ContentOf(active[set])

(* _instruction_for_level: what a thread of a task of org reads at a level, *)
(* limit(1) without an order. *)
Read(org, level, type) ==
  LET found == SetsOf(<<level, org, type>>)
  IN IF found = {} THEN {None} ELSE {InForceIn(set) : set \in found}

(* sync_instruction_set_from_activity_default: what a request will insert. *)
(* An empty text, or the text in force, changes nothing. *)
SyncPlans(r, row) ==
  IF row.text = None THEN {NoSync}
  ELSE {IF active[set] # None /\ ContentOf(active[set]) = row.text
        THEN NoSync
        ELSE [set |-> set, number |-> NextNumber(set)] :
          set \in Candidates(r, SlotFor(row))}

(* Its rows, at the commit: the new version is activated. *)
(* Mutation: it is activated only in a set that had none. *)
Sync_KeepsActive(r, plan, row) ==
  IF plan = NoSync THEN UNCHANGED storeVars
  ELSE /\ sets' = sets \cup IF plan.set = r THEN {SetRow(r, SlotFor(row))} ELSE {}
       /\ versions' = versions \cup
            {VersionRow(r, plan.set, plan.number, row.text, Admin[row.scope])}
       /\ active' = IF active[plan.set] # None THEN active
                    ELSE [active EXCEPT ![plan.set] = r]
Sync(r, plan, row) ==
  IF plan = NoSync THEN UNCHANGED storeVars
  ELSE /\ sets' = sets \cup IF plan.set = r THEN {SetRow(r, SlotFor(row))} ELSE {}
       /\ versions' = versions \cup
            {VersionRow(r, plan.set, plan.number, row.text, Admin[row.scope])}
       /\ active' = [active EXCEPT ![plan.set] = r]

(***************************************************************************)
(* The requests.                                                           *)
(***************************************************************************)
Decides(r, state, decision) ==
  /\ pc' = [pc EXCEPT ![r] = state]
  /\ req' = [req EXCEPT ![r] = decision]
  /\ overlapped' = (overlapped \/ \E q \in Requests \ {r} : pc[q] \in {"checked", "writing"})
  /\ UNCHANGED <<storeVars, libVars>>

(* POST: no entry of the scope, type and module may exist.  The entry may  *)
(* be automated and has no prompts yet. *)
(* Mutation: only active entries count. *)
Exists_Active(row) ==
  \E e \in Active : /\ entries[e].scope = row.scope
                    /\ entries[e].type = row.type
                    /\ entries[e].module = row.module
Exists(row) ==
  \E e \in DOMAIN entries : /\ entries[e].scope = row.scope
                            /\ entries[e].type = row.type
                            /\ entries[e].module = row.module
Create(r, row) ==
  /\ pc[r] = "idle"
  /\ ~Exists(row)
  /\ Approved(row, None)
  /\ \E plan \in SyncPlans(r, row) :
       Decides(r, "writing", [kind |-> "create", row |-> row, plan |-> plan])
CreatePlatform(r, type, module, isActive, automated, text) ==
  Create(r, Row("platform", type, module, isActive, automated, text))
CreateOrg(r, type, module, isActive, automated, text) ==
  Create(r, Row("org", type, module, isActive, automated, text))

(* PATCH: the fields are set first, an automated entry has to have prompts *)
(* then, and a given text is approved and synced.  Only the columns that   *)
(* change are written. *)
(* Mutation: the check reads the entry as it was before the patch. *)
MayPatch_Before(e, row) == entries[e].automated => PromptsOf(e) # {}
MayPatch(e, row) == row.automated => PromptsOf(e) # {}
Update(r, e, row, given) ==
  /\ pc[r] = "idle"
  /\ MayPatch(e, row)
  /\ given => Approved(row, e)
  /\ \E plan \in IF given THEN SyncPlans(r, row) ELSE {NoSync} :
       Decides(r, "writing",
         [kind |-> "update", entry |-> e, row |-> row, plan |-> plan,
          fields |-> {f \in {"active", "automated", "text"} : row[f] # entries[e][f]}])
UpdateAt(scope, r, e, isActive, automated, text, given) ==
  /\ entries[e].scope = scope
  /\ ~given => text = entries[e].text
  /\ Update(r, e, [entries[e] EXCEPT !.active = isActive, !.automated = automated,
                                     !.text = text], given)
UpdatePlatform(r, e, isActive, automated, text, given) ==
  UpdateAt("platform", r, e, isActive, automated, text, given)
UpdateOrg(r, e, isActive, automated, text, given) ==
  UpdateAt("org", r, e, isActive, automated, text, given)

(* PUT .../prompts: an automated entry has to get one at least... *)
Replace(r, e, n) ==
  /\ pc[r] = "idle"
  /\ entries[e].automated => n > 0
  /\ Decides(r, "checked", [kind |-> "replace", entry |-> e, count |-> n])
ReplacePlatform(r, e, n) == entries[e].scope = "platform" /\ Replace(r, e, n)
ReplaceOrg(r, e, n) == entries[e].scope = "org" /\ Replace(r, e, n)

(* ... the DELETE takes the rows its statement sees, and fails when a      *)
(* usage refers to one of them. *)
Deleted(e) == PromptsOf(e)
DeletePrompts(r) ==
  /\ pc[r] = "checked" /\ req[r].kind = "replace"
  /\ LET seen == Deleted(req[r].entry)
     IN IF \E p \in seen : p.id \in usage
        THEN Decides(r, "done", NoReq)
        ELSE Decides(r, "writing",
               [kind |-> "prompts", entry |-> req[r].entry, count |-> req[r].count,
                seen |-> seen])

(* mark_thread_prompt_used: the prompt is one of the entry the thread's    *)
(* type and module pick. *)
MarkCheck(r, type, module, p) ==
  /\ pc[r] = "idle"
  /\ p.entry \in Chosen(type, module)
  /\ p.id \notin usage
  /\ Decides(r, "checked", [kind |-> "mark", prompt |-> p.id])

(* The insert waits for a delete of the prompt, and fails if it is gone. *)
MarkInsert(r) ==
  /\ pc[r] = "checked" /\ req[r].kind = "mark"
  /\ ~\E q \in Requests : /\ pc[q] = "writing" /\ req[q].kind = "prompts"
                          /\ \E p \in req[q].seen : p.id = req[r].prompt
  /\ usage' = usage \cup {p.id : p \in {q \in prompts : q.id = req[r].prompt}}
  /\ pc' = [pc EXCEPT ![r] = "done"]
  /\ req' = [req EXCEPT ![r] = NoReq]
  /\ UNCHANGED <<storeVars, entries, prompts, threads, overlapped>>

(* create_thread: the entry's default text is copied; without an entry, or *)
(* without a text, the thread's own set is empty. *)
CreateThread(r, type, module) ==
  /\ pc[r] = "idle"
  /\ \E from \in IF Chosen(type, module) = {} THEN {None} ELSE Chosen(type, module) :
       Decides(r, "writing",
         [kind |-> "thread",
          row |-> [id |-> r, type |-> type, module |-> module, from |-> from,
                   text |-> IF from = None THEN None ELSE entries[from].text,
                   known |-> Shown(type, module)]])

(***************************************************************************)
(* The commits.                                                            *)
(***************************************************************************)
Commits(r, kind) ==
  /\ pc[r] = "writing" /\ req[r].kind = kind
  /\ pc' = [pc EXCEPT ![r] = "done"]
  /\ req' = [req EXCEPT ![r] = NoReq]
  /\ UNCHANGED overlapped

CommitCreate(r) ==
  /\ Commits(r, "create")
  /\ entries' = [e \in DOMAIN entries \cup {r} |-> IF e = r THEN req[r].row ELSE entries[e]]
  /\ Sync(r, req[r].plan, req[r].row)
  /\ UNCHANGED <<prompts, usage, threads>>

CommitUpdate(r) ==
  /\ Commits(r, "update")
  /\ entries' = [entries EXCEPT ![req[r].entry] =
                   [f \in DOMAIN @ |-> IF f \in req[r].fields THEN req[r].row[f] ELSE @[f]]]
  /\ Sync(r, req[r].plan, req[r].row)
  /\ UNCHANGED <<prompts, usage, threads>>

CommitPrompts(r) ==
  /\ Commits(r, "prompts")
  /\ prompts' = (prompts \ req[r].seen) \cup
                {Prompt(<<r, i>>, req[r].entry, i) : i \in 0..(req[r].count - 1)}
  /\ UNCHANGED <<storeVars, entries, usage, threads>>

CommitThread(r) ==
  /\ Commits(r, "thread")
  /\ threads' = threads \cup {req[r].row}
  /\ UNCHANGED <<storeVars, entries, prompts, usage>>

(* The request fails before its commit. *)
Abort(r) ==
  /\ pc[r] \in {"checked", "writing"}
  /\ pc' = [pc EXCEPT ![r] = "done"]
  /\ req' = [req EXCEPT ![r] = NoReq]
  /\ UNCHANGED <<storeVars, libVars, overlapped>>

(* A request is served once. *)
Serve(r) ==
  /\ pc[r] = "idle"
  /\ \/ \E type \in Types, module \in Modules :
          \/ \E isActive, automated \in BOOLEAN, text \in Texts :
               \/ CreatePlatform(r, type, module, isActive, automated, text)
               \/ CreateOrg(r, type, module, isActive, automated, text)
          \/ \E p \in prompts : MarkCheck(r, type, module, p)
          \/ CreateThread(r, type, module)
     \/ \E e \in DOMAIN entries :
          \/ \E isActive, automated, given \in BOOLEAN, text \in Texts :
               \/ UpdatePlatform(r, e, isActive, automated, text, given)
               \/ UpdateOrg(r, e, isActive, automated, text, given)
          \/ \E n \in 0..MaxPrompts : ReplacePlatform(r, e, n) \/ ReplaceOrg(r, e, n)

Next ==
  \E r \in Requests :
    \/ Serve(r)
    \/ DeletePrompts(r) \/ MarkInsert(r)
    \/ CommitCreate(r) \/ CommitUpdate(r) \/ CommitPrompts(r) \/ CommitThread(r)
    \/ Abort(r)

Spec == Init /\ [][Next]_vars

(***************************************************************************)
(* Properties.                                                             *)
(***************************************************************************)
(* Rows and requests have their types. *)
TypeOK ==
  /\ StoreTypeOK
  /\ DOMAIN entries \subseteq Ids
  /\ \A e \in DOMAIN entries :
       entries[e] \in [scope : Scopes, type : Types, module : Modules,
                       active : BOOLEAN, automated : BOOLEAN, text : Texts]
  /\ \A p \in prompts : p.entry \in DOMAIN entries /\ p.index \in Nat
  /\ usage \subseteq {p.id : p \in prompts}
  /\ pc \in [Requests -> {"idle", "checked", "writing", "done"}]

(* "Activity type already exists": requests that do not overlap leave one  *)
(* entry for a scope, type and module. *)
SerialEntriesAreUnique ==
  ~overlapped =>
    \A e, f \in DOMAIN entries :
      /\ entries[e].scope = entries[f].scope /\ entries[e].type = entries[f].type
      /\ entries[e].module = entries[f].module
      => e = f

(* "Replace all activity prompts": when no two requests overlap, the       *)
(* prompts of an entry are one list, numbered from 0. *)
SerialPromptsAreOneList ==
  ~overlapped =>
    \A e \in DOMAIN entries :
      {p.index : p \in PromptsOf(e)} = 0..(Cardinality(PromptsOf(e)) - 1)

(* "Automated activity types require at least one activity prompt": an     *)
(* entry that is not automated without prompts never becomes so, by a      *)
(* patch or by a replacement, unless the two overlap: the workflow engine  *)
(* fails an automated thread that has none. *)
Empty(e) == entries[e].automated /\ PromptsOf(e) = {}
StaysAutomatable ==
  overlapped' \/ \A e \in DOMAIN entries : ~Empty(e) => ~Empty(e)'
SerialKeepsPrompts == [][StaysAutomatable]_vars

(* A default text that was saved is what threads of its organisation's     *)
(* tasks read at its level, when no other entry shares scope and type and  *)
(* no requests overlapped. *)
LoneDefaultIsRead ==
  ~overlapped =>
    \A e \in DOMAIN entries :
      LET row == entries[e]
      IN /\ row.text # None
         /\ \A f \in DOMAIN entries \ {e} : SlotFor(entries[f]) # SlotFor(row)
         => Read(OrgOf(row.scope), row.scope, row.type) = {row.text}

(* Every version that reached the instruction sets through the library was *)
(* approved, for an entry of the scope and type of its set, and is an      *)
(* admin's of that scope. *)
SyncedWasApproved ==
  \A v \in versions : v.id \in Requests =>
    \E s \in sets, a \in Approvals :
      /\ s.id = v.set /\ s.slot = SyncSlot(a.key[1], a.key[2])
      /\ a.content = v.content /\ v.by = Admin[s.slot[1]]

(* A text an entry may have: none, the seed's of a seeded entry, or one     *)
(* approved for the entry, or for its scope, type and module before it was  *)
(* there. *)
Vetted(e, text) ==
  \/ text = None
  \/ e \in Seeded /\ text = SeedText
  \/ \E a \in Approvals : /\ a.content = text
                          /\ a.key \in {Key(entries[e], None), Key(entries[e], e)}

(* A thread starts with a text that was approved for an entry of its own    *)
(* type and module, however patches of the entry overlap its creation. *)
ThreadsStartApproved ==
  \A t \in threads :
    IF t.from = None THEN t.text = None
    ELSE /\ entries[t.from].type = t.type /\ entries[t.from].module = t.module
         /\ Vetted(t.from, t.text)

(* The model of a thread is routed by the entry it was created from, as     *)
(* long as that one is active, unless by an entry of another module, one    *)
(* that was not active when the thread was created, or a double of it. *)
RoutedAsCreated ==
  \A t \in threads : t.from \in Active =>
    \A e \in Routed(t.type) \ {t.from} :
      \/ entries[e].module # t.module
      \/ e \notin t.known
      \/ entries[e].scope = entries[t.from].scope

(* One entry for a scope, type and module, and one list of prompts for an  *)
(* entry, as long as requests do not overlap. *)
SerialLibrary == SerialEntriesAreUnique /\ SerialPromptsAreOneList

(* What an admin saved reaches the tasks of the organisation it was saved  *)
(* for: it was approved and is what their threads read. *)
DefaultsReachTasks == SyncedWasApproved /\ LoneDefaultIsRead

(* A thread's text and its model both come from the entry that create_thread *)
(* picked for it. *)
ThreadsFollowTheirEntry == ThreadsStartApproved /\ RoutedAsCreated

(* "Upsert platform/org InstructionSet for this thread_type".  The code     *)
(* does not keep the platform half for other organisations: it writes the   *)
(* platform's default with the platform's org_id, and a task reads the      *)
(* platform level by its own. *)
PlatformDefaultIsRead ==
  ~overlapped =>
    \A e \in DOMAIN entries :
      LET row == entries[e]
      IN /\ row.scope = "platform" /\ row.text # None
         /\ \A f \in DOMAIN entries \ {e} : SlotFor(entries[f]) # SlotFor(row)
         => Read(Org, "platform", row.type) = {row.text}

(* "Org entry with same thread_type as platform shadows platform for that  *)
(* org's users (existing read API behavior)".  The code does not keep this: *)
(* the read API takes either row. *)
OrgEntryShadows ==
  \A type \in Types, module \in Modules :
    (\E e \in Shown(type, module) : entries[e].scope = "org") =>
      \A e \in Shown(type, module) : entries[e].scope = "org"

=============================================================================
