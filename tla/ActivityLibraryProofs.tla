----------------------- MODULE ActivityLibraryProofs -----------------------
(***************************************************************************)
(* The activity library, for every number of requests, types, modules,     *)
(* texts and prompts: what an admin saved is what threads start from, the  *)
(* versions synced to the instruction sets were approved for their layer,  *)
(* a prompt in use is not deleted, and requests that do not overlap keep   *)
(* one entry for a scope, type and module and one list of prompts for an   *)
(* entry.                                                                  *)
(*                                                                         *)
(* A request's decision carries the argument from its reads to its commit. *)
(* What it says of keys and rows that only grow holds whatever happens in  *)
(* between (DraftOK); what it says of the tables as they are holds as long *)
(* as no other request was open (StillFits).                               *)
(***************************************************************************)
EXTENDS ActivityLibrary, FiniteSetTheorems, TLAPS

EntryRows ==
  [scope : Scopes, type : Types, module : Modules, active : BOOLEAN,
   automated : BOOLEAN, text : Texts]
SameKey(a, b) == a.scope = b.scope /\ a.type = b.type /\ a.module = b.module

(* An entry comes before another when a thread or the router picks. *)
Shadows(e, f) == Rank(entries[e].scope) < Rank(entries[f].scope)

EntriesOK == DOMAIN entries \subseteq Ids /\ \A e \in DOMAIN entries : entries[e] \in EntryRows
PromptsOK == \A p \in prompts : p.entry \in DOMAIN entries
TextsOK == \A e \in DOMAIN entries : Vetted(e, entries[e].text)
ThreadFrom(t) ==
  IF t.from = None THEN t.text = None
  ELSE /\ t.from \in DOMAIN entries
       /\ entries[t.from].type = t.type /\ entries[t.from].module = t.module
       /\ Vetted(t.from, t.text)
       /\ \A e \in t.known : e \in DOMAIN entries /\ ~Shadows(e, t.from)
ThreadsOK == \A t \in threads : ThreadFrom(t)
LibraryOK == EntriesOK /\ TextsOK /\ PromptsOK /\ ThreadsOK

(* Sets and versions have one row per id. *)
SetsOK ==
  /\ \A s \in sets : s.id \in Ids /\ s.slot \in Slots /\ s = SetRow(s.id, s.slot)
  /\ \A s, t \in sets : s.id = t.id => s = t
IdsUnique(V) == \A v, w \in V : v.id = w.id => v = w
VersionsOK == IdsUnique(versions)
ActiveOK == active \in [Ids -> Ids \cup {None}]
StoreOK == SetsOK /\ VersionsOK /\ ActiveOK /\ ActiveBelongs /\ SyncedWasApproved

(* What an open request decided, of rows that only grow. *)
ApprovedRow(row) ==
  \E a \in Approvals : a.content = row.text /\ SyncSlot(a.key[1], a.key[2]) = SlotFor(row)
PlanOK(r, row, plan) ==
  plan # NoSync =>
    /\ plan.set = r \/ SetRow(plan.set, SlotFor(row)) \in sets
    /\ row.text # None /\ ApprovedRow(row)
Columns == {"active", "automated", "text"}
DraftOK(r, q) ==
  /\ q.kind \in {"create", "update"} => q.row \in EntryRows /\ PlanOK(r, q.row, q.plan)
  /\ q.kind = "update" => /\ q.entry \in DOMAIN entries /\ SameKey(q.row, entries[q.entry])
                          /\ q.fields \subseteq Columns
                          /\ "text" \in q.fields => Approved(q.row, q.entry)
  /\ q.kind = "create" => Approved(q.row, None)
  /\ q.kind \in {"replace", "prompts"} => q.entry \in DOMAIN entries /\ q.count \in Nat
  /\ q.kind = "prompts" => \A p \in q.seen : p.entry = q.entry
  /\ q.kind = "thread" => ThreadFrom(q.row)
Open(r) == pc[r] \in {"checked", "writing"}
RequestsOK ==
  /\ pc \in [Requests -> {"idle", "checked", "writing", "done"}]
  /\ DOMAIN req = Requests
  /\ \A r \in Requests : Open(r) => DraftOK(r, req[r])

(* The id a request gives to its rows is new, and no version is in force   *)
(* in a set that is not there. *)
FreshOK ==
  \A r \in Requests :
    pc[r] # "done" => /\ r \notin DOMAIN entries /\ active[r] = None
                      /\ (\A s \in sets : s.id # r) /\ (\A v \in versions : v.id # r)

(* A prompt that is being deleted is not used meanwhile. *)
UsageOK ==
  /\ usage \subseteq {p.id : p \in prompts}
  /\ \A r \in Requests :
       pc[r] = "writing" /\ req[r].kind = "prompts" => \A p \in req[r].seen : p.id \notin usage

IInv == LibraryOK /\ StoreOK /\ RequestsOK /\ FreshOK /\ UsageOK

(***************************************************************************)
(* Lemmas.                                                                 *)
(***************************************************************************)
LEMMA SeedFacts ==
  \A s \in Seeded : /\ s \in Ids /\ s \in Slots /\ s # None /\ s \notin Requests
                    /\ s[3] \in Types /\ s[1] = "platform" /\ s = SyncSlot("platform", s[3])
BY StoreAssumption, LibraryAssumption DEF Ids, SyncSlot

LEMMA InitIInv == ASSUME Init PROVE IInv
<1>1. PICK seedModule \in [Seeded -> Modules] :
        entries = [s \in Seeded |-> Row(s[1], s[3], seedModule[s], TRUE, TRUE, SeedText)]
  BY DEF Init
<1>2. DOMAIN entries = Seeded
  BY <1>1
<1>3. EntriesOK
  <2> SUFFICES ASSUME NEW s \in Seeded PROVE entries[s] \in EntryRows
    BY <1>2, SeedFacts DEF EntriesOK
  <2>1. s[1] \in Scopes /\ s[3] \in Types /\ seedModule[s] \in Modules /\ SeedText \in Texts
    BY SeedFacts, StoreAssumption DEF Texts, Scopes
  <2>2. entries[s] = Row(s[1], s[3], seedModule[s], TRUE, TRUE, SeedText)
    BY <1>1
  <2> QED
    BY <2>1, <2>2 DEF EntryRows, Row
<1>4. PromptsOK /\ ThreadsOK
  BY <1>2 DEF Init, PromptsOK, ThreadsOK, Prompt
<1>5. TextsOK
  BY <1>1 DEF TextsOK, Vetted, Row
<1>6. SetsOK
  BY SeedFacts DEF Init, StoreInit, SetsOK, SetRow
<1>7. \A v \in versions : v.id \in Seeded /\ v = VersionRow(v.id, v.id, 1, SeedText, Seeder)
  BY DEF Init, StoreInit, VersionRow
<1>8. VersionsOK
  BY <1>7 DEF VersionsOK, IdsUnique
<1>9. ActiveOK
  BY SeedFacts DEF Init, StoreInit, ActiveOK
<1>10. ActiveBelongs
  <2> SUFFICES ASSUME NEW s \in sets, active[s.id] # None
               PROVE  \E v \in versions : v.id = active[s.id] /\ v.set = s.id
    BY DEF ActiveBelongs
  <2>1. s.id \in Seeded /\ active[s.id] = s.id
    BY SeedFacts DEF Init, StoreInit, SetRow
  <2>2. VersionRow(s.id, s.id, 1, SeedText, Seeder) \in versions
    BY <2>1 DEF Init, StoreInit
  <2> QED
    BY <2>1, <2>2 DEF VersionRow
<1>11. SyncedWasApproved
  BY <1>7, SeedFacts DEF SyncedWasApproved
<1>12. RequestsOK
  BY DEF Init, RequestsOK, Open
<1>13. FreshOK
  <2>1. \A s \in sets : s.id \in Seeded
    BY DEF Init, StoreInit, SetRow
  <2>2. \A r \in Requests : active[r] = None
    BY SeedFacts DEF Init, StoreInit, Ids
  <2> QED
    BY <1>2, <1>7, <2>1, <2>2, SeedFacts DEF FreshOK
<1>14. UsageOK
  BY DEF Init, UsageOK
<1> QED
  BY <1>3, <1>4, <1>6, <1>8, <1>9, <1>10, <1>11, <1>12, <1>13, <1>14, <1>5
    DEF IInv, LibraryOK, StoreOK

(* Rows are added, and an entry keeps its scope, type and module. *)
Grows ==
  /\ sets \subseteq sets'
  /\ DOMAIN entries \subseteq DOMAIN entries'
  /\ \A e \in DOMAIN entries : SameKey(entries[e], entries'[e])

LEMMA VettedStays ==
  ASSUME Grows, NEW e \in DOMAIN entries, NEW text, Vetted(e, text)
  PROVE  Vetted(e, text)'
BY DEF Vetted, Key, Grows, SameKey

LEMMA ThreadStays ==
  ASSUME Grows, NEW t, ThreadFrom(t)
  PROVE  ThreadFrom(t)'
<1>1. t.from # None => Vetted(t.from, t.text)'
  BY VettedStays DEF ThreadFrom
<1>2. t.from # None => \A e \in t.known : e \in DOMAIN entries' /\ ~Shadows(e, t.from)'
  BY DEF ThreadFrom, Shadows, Grows, SameKey
<1> QED
  BY <1>1, <1>2 DEF ThreadFrom, Grows, SameKey

(* What is said of the rows stays where no entry, prompt or thread is        *)
(* changed but its own. *)
LEMMA LibraryStays ==
  ASSUME IInv, Grows, UNCHANGED entries,
         \A p \in prompts' : p \in prompts \/ p.entry \in DOMAIN entries,
         \A t \in threads' : t \in threads \/ ThreadFrom(t)
  PROVE  LibraryOK'
<1>1. EntriesOK' /\ PromptsOK'
  BY DEF IInv, LibraryOK, EntriesOK, PromptsOK, Ids
<1>2. TextsOK'
  BY VettedStays DEF IInv, LibraryOK, TextsOK
<1>3. \A t \in threads' : ThreadFrom(t)
  BY DEF IInv, LibraryOK, ThreadsOK
<1>4. ThreadsOK'
  BY <1>3, ThreadStays DEF ThreadsOK
<1> QED
  BY <1>1, <1>2, <1>4 DEF LibraryOK

LEMMA DraftStays ==
  ASSUME Grows, NEW r, NEW q, DraftOK(r, q)
  PROVE  DraftOK(r, q)'
<1>1. q.kind \in {"create", "update"} => PlanOK(r, q.row, q.plan)'
  BY DEF DraftOK, PlanOK, Grows
<1>2. q.kind = "update" => q.entry \in DOMAIN entries' /\ SameKey(q.row, entries'[q.entry])
  BY DEF DraftOK, Grows, SameKey
<1>3. q.kind = "thread" => ThreadFrom(q.row)'
  BY ThreadStays DEF DraftOK
<1> QED
  BY <1>1, <1>2, <1>3 DEF DraftOK, Grows

(* The requests, when one takes a step. *)
Moves(r, state, d) == pc' = [pc EXCEPT ![r] = state] /\ req' = [req EXCEPT ![r] = d]

LEMMA RequestsStay ==
  ASSUME IInv, NEW r \in Requests, NEW state \in {"checked", "writing", "done"}, NEW d,
         Moves(r, state, d), Grows, state # "done" => DraftOK(r, d)
  PROVE  RequestsOK'
<1>1. ASSUME NEW s \in Requests, Open(s)'
      PROVE  DraftOK(s, req[s])'
  <2> PICK q : q = req'[s]
    OBVIOUS
  <2>1. DraftOK(s, q)
    <3>1. CASE s = r
      BY <1>1, <3>1 DEF Moves, IInv, RequestsOK, Open
    <3>2. CASE s # r
      BY <1>1, <3>2 DEF Moves, IInv, RequestsOK, Open
    <3> QED
      BY <3>1, <3>2
  <2>2. DraftOK(s, q)'
    BY <2>1, DraftStays
  <2> QED
    BY <2>2 DEF DraftOK, PlanOK, ThreadFrom
<1> QED
  BY <1>1 DEF RequestsOK, Moves, IInv

LEMMA TheContent ==
  ASSUME NEW V, IdsUnique(V), NEW v \in V
  PROVE  (CHOOSE w \in V : w.id = v.id) = v
BY DEF IdsUnique

(***************************************************************************)
(* The commits of a text.                                                  *)
(***************************************************************************)
(* A text is in force at a slot. *)
InForce(slot, text) ==
  \E s \in sets : s.slot = slot /\ active[s.id] # None /\ ContentOf(active[s.id]) = text

LEMMA SyncKeeps ==
  ASSUME IInv, NEW r \in Requests, Open(r), NEW row \in EntryRows, NEW plan,
         PlanOK(r, row, plan), Sync(r, plan, row)
  PROVE  /\ StoreOK'
         /\ sets \subseteq sets'
         /\ \A s \in sets' : s \in sets \/ s.id = r
         /\ \A v \in versions' : v \in versions \/ v.id = r
        /\ \A s \in Requests \ {r} : pc[s] # "done" => active'[s] = None
<1>1. CASE plan = NoSync
  BY <1>1 DEF Sync, storeVars, IInv, FreshOK, StoreOK, SetsOK, VersionsOK, ActiveOK, ActiveBelongs,
    SyncedWasApproved
<1>2. CASE plan # NoSync
  <2> PICK slot : slot = SlotFor(row)
    OBVIOUS
  <2> DEFINE new == VersionRow(r, plan.set, plan.number, row.text, Admin[row.scope])
             own == SetRow(plan.set, slot)
  <2>1. /\ sets' = sets \cup IF plan.set = r THEN {SetRow(r, slot)} ELSE {}
        /\ versions' = versions \cup {new}
        /\ active' = [active EXCEPT ![plan.set] = r]
    BY <1>2 DEF Sync
  <2>2. slot = SyncSlot(row.scope, row.type) /\ slot \in Slots /\ slot[1] = row.scope
    BY LibraryAssumption DEF SlotFor, SyncSlot, OrgOf, Orgs, EntryRows
  <2>3. plan.set = r \/ own \in sets
    BY <1>2 DEF PlanOK
  <2>4. own \in sets' /\ own.id = plan.set /\ own.slot = slot
    BY <2>1, <2>3 DEF SetRow
  <2>5. \A s \in sets' : s \in sets \/ (s = own /\ plan.set = r)
    BY <2>1
  <2>6. new.id = r /\ new.set = plan.set /\ new.content = row.text /\ new.by = Admin[row.scope]
    BY DEF VersionRow
  <2>7. own = SetRow(own.id, own.slot)
    BY DEF SetRow
  <2> HIDE DEF own, new
  <2>8. (\A s \in sets : s.id # r) /\ (\A v \in versions : v.id # r) /\ r \in Ids /\ r # None
    BY StoreAssumption DEF IInv, FreshOK, Open, Ids
  <2>9. plan.set \in Ids
    BY <2>3, <2>4, <2>8 DEF IInv, StoreOK, SetsOK
  <2>10. SetsOK'
    <3>1. \A s \in sets' : s.id \in Ids /\ s.slot \in Slots /\ s = SetRow(s.id, s.slot)
      BY <2>2, <2>4, <2>5, <2>7, <2>9 DEF IInv, StoreOK, SetsOK
    <3>2. \A s, t \in sets' : s.id = t.id => s = t
      BY <2>4, <2>5, <2>8 DEF IInv, StoreOK, SetsOK
    <3> QED
      BY <3>1, <3>2 DEF SetsOK, Ids
  <2>11. VersionsOK'
    BY <2>1, <2>6, <2>8 DEF VersionsOK, IdsUnique, IInv, StoreOK
  <2>12. ActiveOK'
    BY <2>1, <2>8, <2>9 DEF ActiveOK, IInv, StoreOK, Ids
  <2>13. ActiveBelongs'
    <3> SUFFICES ASSUME NEW s \in sets', active'[s.id] # None
                 PROVE  \E v \in versions' : v.id = active'[s.id] /\ v.set = s.id
      BY DEF ActiveBelongs
    <3>1. CASE s.id = plan.set
      <4>1. active'[s.id] = r
        BY <2>1, <2>9, <3>1 DEF IInv, StoreOK, ActiveOK
      <4>2. new \in versions'
        BY <2>1
      <4> QED
        BY <2>6, <3>1, <4>1, <4>2
    <3>2. CASE s.id # plan.set
      <4>1. s \in sets
        BY <2>4, <2>5, <3>2
      <4>2. active'[s.id] = active[s.id]
        BY <2>1, <3>2, <4>1 DEF IInv, StoreOK, ActiveOK, SetsOK
      <4> QED
        BY <2>1, <4>1, <4>2 DEF IInv, StoreOK, ActiveBelongs
    <3> QED
      BY <3>1, <3>2
  <2>14. SyncedWasApproved'
    <3> SUFFICES ASSUME NEW v \in versions', v.id \in Requests
                 PROVE  \E s \in sets', a \in Approvals :
                          /\ s.id = v.set /\ s.slot = SyncSlot(a.key[1], a.key[2])
                          /\ a.content = v.content /\ v.by = Admin[s.slot[1]]
      BY DEF SyncedWasApproved
    <3>1. CASE v \in versions
      BY <2>1, <3>1 DEF IInv, StoreOK, SyncedWasApproved
    <3>2. CASE v = new
      <4>1. PICK a \in Approvals : a.content = row.text /\ SyncSlot(a.key[1], a.key[2]) = slot
        BY <1>2 DEF PlanOK, ApprovedRow
      <4> QED
        BY <2>2, <2>4, <2>6, <3>2, <4>1
    <3> QED
      BY <2>1, <3>1, <3>2
  <2>15. ASSUME NEW s \in Requests \ {r}, pc[s] # "done"
         PROVE  active'[s] = None
    BY <2>1, <2>3, <2>4, <2>15 DEF IInv, FreshOK, StoreOK, ActiveOK, Ids
  <2> QED
    BY <2>1, <2>4, <2>5, <2>6, <2>10, <2>11, <2>12, <2>13, <2>14, <2>15 DEF StoreOK
<1> QED
  BY <1>1, <1>2

(* The text of an entry is in force at its slot once it is committed, and  *)
(* what is in force at other slots stays so. *)
LEMMA SyncPutsInForce ==
  ASSUME IInv, NEW r \in Requests, Open(r), NEW row \in EntryRows, NEW plan,
         PlanOK(r, row, plan), Sync(r, plan, row)
  PROVE  /\ plan # NoSync => InForce(SlotFor(row), row.text)'
         /\ \A slot, text : /\ slot # SlotFor(row) \/ plan = NoSync
                            /\ InForce(slot, text)
                            => InForce(slot, text)'
<1>1. CASE plan = NoSync
  BY <1>1 DEF Sync, storeVars, InForce, ContentOf
<1>2. CASE plan # NoSync
  <2> DEFINE new == VersionRow(r, plan.set, plan.number, row.text, Admin[row.scope])
  <2>1. /\ versions' = versions \cup {new}
        /\ active' = [active EXCEPT ![plan.set] = r]
        /\ new.id = r /\ new.content = row.text
    BY <1>2 DEF Sync, VersionRow
  <2> HIDE DEF new
  <2>2. IdsUnique(versions') /\ sets \subseteq sets'
    BY SyncKeeps DEF StoreOK, VersionsOK, IdsUnique
  <2>3. \E s \in sets' : s.id = plan.set /\ s.slot = SlotFor(row)
    BY <1>2 DEF Sync, PlanOK, SetRow
  <2>4. r # None
    BY StoreAssumption
  <2>5. InForce(SlotFor(row), row.text)'
    <3>1. PICK s \in sets' : s.id = plan.set /\ s.slot = SlotFor(row)
      BY <2>3
    <3>2. s.id \in Ids
      BY SyncKeeps DEF StoreOK, SetsOK, Ids
    <3>3. active'[s.id] = r
      BY <2>1, <3>1, <3>2 DEF IInv, StoreOK, ActiveOK
    <3>4. (CHOOSE w \in versions' : w.id = r) = new
      BY <2>1, <2>2, TheContent
    <3> QED
      BY <2>1, <2>4, <3>1, <3>3, <3>4 DEF InForce, ContentOf
  <2>6. ASSUME NEW slot, NEW text, slot # SlotFor(row), InForce(slot, text)
        PROVE  InForce(slot, text)'
    <3>1. PICK s \in sets : s.slot = slot /\ active[s.id] # None
                            /\ ContentOf(active[s.id]) = text
      BY <2>6 DEF InForce
    <3>2. s.id # plan.set
      BY <1>2, <2>6, <3>1 DEF PlanOK, SetRow, IInv, StoreOK, SetsOK, FreshOK, Open
    <3>3. active'[s.id] = active[s.id]
      BY <2>1, <3>2 DEF IInv, StoreOK, ActiveOK, SetsOK
    <3>4. PICK v \in versions : v.id = active[s.id]
      BY <3>1 DEF IInv, StoreOK, ActiveBelongs
    <3>5. (CHOOSE w \in versions : w.id = v.id) = v /\ (CHOOSE w \in versions' : w.id = v.id) = v
      BY <2>1, <2>2, TheContent DEF IInv, StoreOK, VersionsOK
    <3>6. ContentOf(active[s.id]) = v.content /\ ContentOf(active[s.id])' = v.content
      BY <3>3, <3>4, <3>5 DEF ContentOf
    <3> QED
      BY <2>2, <3>1, <3>3, <3>6 DEF InForce
  <2> QED
    BY <1>2, <2>5, <2>6
<1> QED
  BY <1>1, <1>2

(***************************************************************************)
(* What an open request saw still holds of the tables.                     *)
(***************************************************************************)
TextFits(q) ==
  q.plan = NoSync /\ q.row.text # None =>
    \/ InForce(SlotFor(q.row), q.row.text)
    \/ q.kind = "update" /\ q.row.text = entries[q.entry].text
PlanFits(q) ==
  q.plan # NoSync => \/ SetsOf(SlotFor(q.row)) = {}
                     \/ SetRow(q.plan.set, SlotFor(q.row)) \in sets
RowFits(q) ==
  /\ q.row.automated => PromptsOf(q.entry) # {}
  /\ "text" \notin q.fields => q.row.text = entries[q.entry].text
  /\ "automated" \notin q.fields => q.row.automated = entries[q.entry].automated
StillFits(q) ==
  /\ q.kind \in {"create", "update"} => TextFits(q) /\ PlanFits(q)
  /\ q.kind = "create" => ~Exists(q.row)
  /\ q.kind = "update" => RowFits(q)
  /\ q.kind \in {"replace", "prompts"} => (entries[q.entry].automated => q.count > 0)
  /\ q.kind = "prompts" => q.seen = PromptsOf(q.entry)

(* A plan to sync an approved text. *)
LEMMA PlanIsOK ==
  ASSUME IInv, NEW r \in Requests, pc[r] = "idle",
         NEW row \in EntryRows, NEW plan \in SyncPlans(r, row),
         NEW entry, Approved(row, entry)
  PROVE  /\ PlanOK(r, row, plan)
         /\ plan # NoSync => \/ SetsOf(SlotFor(row)) = {}
                             \/ SetRow(plan.set, SlotFor(row)) \in sets
         /\ plan = NoSync /\ row.text # None => InForce(SlotFor(row), row.text)
<1>1. CASE row.text = None
  BY <1>1 DEF SyncPlans, PlanOK
<1>2. CASE row.text # None
  <2>1. PICK set \in Candidates(r, SlotFor(row)) :
          plan = IF active[set] # None /\ ContentOf(active[set]) = row.text
                 THEN NoSync ELSE [set |-> set, number |-> NextNumber(set)]
    BY <1>2 DEF SyncPlans
  <2>2. (SetsOf(SlotFor(row)) = {} /\ set = r) \/ SetRow(set, SlotFor(row)) \in sets
    BY DEF Candidates, SetsOf, IInv, StoreOK, SetsOK
  <2>3. ApprovedRow(row)
    BY <1>2 DEF Approved, ApprovedRow, Key, SlotFor
  <2>4. PlanOK(r, row, plan)
    BY <1>2, <2>1, <2>2, <2>3 DEF PlanOK
  <2>5. ASSUME plan = NoSync
        PROVE  InForce(SlotFor(row), row.text)
    <3>1. active[set] # None /\ ContentOf(active[set]) = row.text
      <4>1. [set |-> set, number |-> NextNumber(set)] # NoSync
        BY DEF NoSync
      <4> QED
        BY <2>1, <2>5, <4>1
    <3>2. CASE SetRow(set, SlotFor(row)) \in sets
      BY <3>1, <3>2 DEF InForce, SetRow
    <3>3. CASE SetRow(set, SlotFor(row)) \notin sets
      <4>1. set = r
        BY <2>2, <3>3
      <4> QED
        BY <3>1, <4>1 DEF IInv, FreshOK, Open
    <3> QED
      BY <3>2, <3>3
  <2> QED
    BY <2>1, <2>2, <2>4, <2>5
<1> QED
  BY <1>1, <1>2

(* What the requests decide when they are served, of the tables they read. *)
LEMMA CreateDecides ==
  ASSUME IInv, NEW r \in Requests, NEW row \in EntryRows, Create(r, row)
  PROVE  \E q : Decides(r, "writing", q) /\ DraftOK(r, q) /\ StillFits(q) /\ q.kind = "create"
<1> PICK plan \in SyncPlans(r, row) :
      Decides(r, "writing", [kind |-> "create", row |-> row, plan |-> plan])
  BY DEF Create
<1> PICK q : q = [kind |-> "create", row |-> row, plan |-> plan]
  OBVIOUS
<1>1. q.kind = "create" /\ q.row = row /\ q.plan = plan
  OBVIOUS
<1>2. /\ PlanOK(r, row, plan)
      /\ plan = NoSync /\ row.text # None => InForce(SlotFor(row), row.text)
      /\ PlanFits(q)
  BY <1>1, PlanIsOK DEF Create, PlanFits
<1>3. DraftOK(r, q)
  BY <1>1, <1>2 DEF DraftOK, Create
<1>4. StillFits(q)
  BY <1>1, <1>2 DEF StillFits, TextFits, Create
<1> QED
  BY <1>1, <1>3, <1>4

LEMMA UpdateDecides ==
  ASSUME IInv, NEW r \in Requests, NEW scope, NEW e \in DOMAIN entries,
         NEW isActive \in BOOLEAN, NEW automated \in BOOLEAN, NEW text \in Texts,
         NEW given \in BOOLEAN, UpdateAt(scope, r, e, isActive, automated, text, given)
  PROVE  \E q : Decides(r, "writing", q) /\ DraftOK(r, q) /\ StillFits(q) /\ q.kind = "update"
<1> PICK old \in EntryRows : old = entries[e]
  BY DEF IInv, LibraryOK, EntriesOK
<1> PICK row : row = [old EXCEPT !.active = isActive, !.automated = automated, !.text = text]
  OBVIOUS
<1> DEFINE fields == {f \in Columns : row[f] # old[f]}
<1>1. row \in EntryRows /\ SameKey(row, old) /\ row.automated = automated /\ row.text = text
  BY DEF EntryRows, SameKey
<1>2. Update(r, e, row, given) /\ (~given => text = old.text)
  BY DEF UpdateAt
<1> PICK plan \in IF given THEN SyncPlans(r, row) ELSE {NoSync} :
      Decides(r, "writing", [kind |-> "update", entry |-> e, row |-> row, plan |-> plan,
                             fields |-> fields])
  BY <1>2 DEF Update, Columns
<1>3. /\ fields \subseteq Columns
      /\ "text" \in fields <=> row.text # old.text
      /\ "automated" \notin fields => row.automated = old.automated
  BY DEF Columns
<1> HIDE DEF fields
<1> PICK q : q = [kind |-> "update", entry |-> e, row |-> row, plan |-> plan, fields |-> fields]
  OBVIOUS
<1>4. q.kind = "update" /\ q.entry = e /\ q.row = row /\ q.plan = plan /\ q.fields = fields
  OBVIOUS
<1>5. /\ PlanOK(r, row, plan)
      /\ plan = NoSync /\ row.text # None => InForce(SlotFor(row), row.text) \/ text = old.text
      /\ PlanFits(q)
      /\ "text" \in fields => Approved(row, e)
  <2>1. CASE given
    BY <1>1, <1>2, <1>4, <2>1, PlanIsOK DEF Update, PlanFits
  <2>2. CASE ~given
    BY <1>1, <1>2, <1>3, <1>4, <2>2 DEF PlanOK, PlanFits
  <2> QED
    BY <2>1, <2>2
<1>6. DraftOK(r, q)
  BY <1>1, <1>3, <1>4, <1>5 DEF DraftOK
<1>7. row.automated => PromptsOf(e) # {}
  BY <1>2 DEF Update, MayPatch
<1>8. StillFits(q)
  BY <1>1, <1>3, <1>4, <1>5, <1>7 DEF StillFits, TextFits, RowFits
<1> QED
  BY <1>4, <1>6, <1>8

LEMMA ServeDecides ==
  ASSUME IInv, NEW r \in Requests, Serve(r)
  PROVE  \E state \in {"checked", "writing"} : \E q :
           Decides(r, state, q) /\ DraftOK(r, q) /\ StillFits(q) /\ q.kind # "prompts"
<1>1. ASSUME NEW type \in Types, NEW module \in Modules, NEW isActive \in BOOLEAN,
             NEW automated \in BOOLEAN, NEW text \in Texts, NEW scope \in Scopes,
             Create(r, Row(scope, type, module, isActive, automated, text))
      PROVE  \E q : Decides(r, "writing", q) /\ DraftOK(r, q) /\ StillFits(q) /\ q.kind = "create"
  <2>1. Row(scope, type, module, isActive, automated, text) \in EntryRows
    BY DEF Row, EntryRows
  <2> QED
    BY <1>1, <2>1, CreateDecides
<1>2. ASSUME NEW type \in Types, NEW module \in Modules, NEW p \in prompts,
             MarkCheck(r, type, module, p)
      PROVE  \E q : Decides(r, "checked", q) /\ DraftOK(r, q) /\ StillFits(q) /\ q.kind = "mark"
  <2> PICK q : q = [kind |-> "mark", prompt |-> p.id]
    OBVIOUS
  <2>1. Decides(r, "checked", q) /\ DraftOK(r, q) /\ StillFits(q) /\ q.kind = "mark"
    BY <1>2 DEF MarkCheck, DraftOK, StillFits
  <2> QED
    BY <2>1
<1>3. ASSUME NEW type \in Types, NEW module \in Modules, CreateThread(r, type, module)
      PROVE  \E q : Decides(r, "writing", q) /\ DraftOK(r, q) /\ StillFits(q) /\ q.kind = "thread"
  <2> PICK from \in IF Chosen(type, module) = {} THEN {None} ELSE Chosen(type, module) :
        Decides(r, "writing",
          [kind |-> "thread",
           row |-> [id |-> r, type |-> type, module |-> module, from |-> from,
                    text |-> IF from = None THEN None ELSE entries[from].text,
                    known |-> Shown(type, module)]])
    BY <1>3 DEF CreateThread
  <2> PICK row : row = [id |-> r, type |-> type, module |-> module, from |-> from,
                        text |-> IF from = None THEN None ELSE entries[from].text,
                        known |-> Shown(type, module)]
    OBVIOUS
  <2> PICK q : q = [kind |-> "thread", row |-> row]
    OBVIOUS
  <2>1. /\ row.from = from /\ row.type = type /\ row.module = module
        /\ row.text = IF from = None THEN None ELSE entries[from].text
        /\ row.known = Shown(type, module)
    OBVIOUS
  <2>2. ThreadFrom(row)
    <3>1. CASE from = None
      BY <2>1, <3>1 DEF ThreadFrom
    <3>2. CASE from # None
      <4>1. from \in Chosen(type, module)
        BY <3>2
      <4>2. /\ from \in DOMAIN entries
            /\ entries[from].type = type /\ entries[from].module = module
            /\ \A e \in Shown(type, module) :
                 e \in DOMAIN entries /\ Rank(entries[from].scope) <= Rank(entries[e].scope)
        BY <4>1 DEF Chosen, OfLeastRank, Shown, Active
      <4>3. \A e \in Shown(type, module) : ~Shadows(e, from)
        BY <4>2 DEF Shadows, Rank
      <4>4. Vetted(from, row.text)
        BY <2>1, <3>2, <4>2 DEF IInv, LibraryOK, TextsOK
      <4> QED
        BY <2>1, <3>2, <4>2, <4>3, <4>4 DEF ThreadFrom
    <3> QED
      BY <3>1, <3>2
  <2>3. Decides(r, "writing", q) /\ DraftOK(r, q) /\ StillFits(q) /\ q.kind = "thread"
    BY <2>2 DEF DraftOK, StillFits
  <2> QED
    BY <2>3
<1>4. ASSUME NEW e \in DOMAIN entries, NEW n \in 0..MaxPrompts, Replace(r, e, n)
      PROVE  \E q : Decides(r, "checked", q) /\ DraftOK(r, q) /\ StillFits(q) /\ q.kind = "replace"
  <2> PICK q : q = [kind |-> "replace", entry |-> e, count |-> n]
    OBVIOUS
  <2>1. Decides(r, "checked", q) /\ DraftOK(r, q) /\ StillFits(q) /\ q.kind = "replace"
    BY <1>4, LibraryAssumption DEF Replace, DraftOK, StillFits
  <2> QED
    BY <2>1
<1>5. \/ \E type \in Types, module \in Modules, isActive, automated \in BOOLEAN, text \in Texts,
            scope \in Scopes : Create(r, Row(scope, type, module, isActive, automated, text))
      \/ \E type \in Types, module \in Modules, p \in prompts : MarkCheck(r, type, module, p)
      \/ \E type \in Types, module \in Modules : CreateThread(r, type, module)
      \/ \E e \in DOMAIN entries, isActive, automated, given \in BOOLEAN, text \in Texts,
            scope \in Scopes : UpdateAt(scope, r, e, isActive, automated, text, given)
      \/ \E e \in DOMAIN entries, n \in 0..MaxPrompts : Replace(r, e, n)
  BY Zenon DEF Serve, CreatePlatform, CreateOrg, UpdatePlatform, UpdateOrg, ReplacePlatform,
    ReplaceOrg, Scopes
<1> QED
  BY <1>1, <1>2, <1>3, <1>4, <1>5, UpdateDecides

(* So does a replacement when it looks at what it deletes. *)
LEMMA DeleteDecides ==
  ASSUME IInv, NEW r \in Requests, DeletePrompts(r)
  PROVE  \/ Decides(r, "done", NoReq)
         \/ \E q : /\ Decides(r, "writing", q) /\ DraftOK(r, q)
                   /\ StillFits(req[r]) => StillFits(q)
                   /\ q.kind = "prompts" /\ \A p \in q.seen : p.id \notin usage
<1> PICK d : d = req[r]
  OBVIOUS
<1>1. DraftOK(r, d) /\ d.kind = "replace"
  BY DEF DeletePrompts, IInv, RequestsOK, Open
<1> PICK q : q = [kind |-> "prompts", entry |-> d.entry, count |-> d.count,
                  seen |-> PromptsOf(d.entry)]
  OBVIOUS
<1>2. CASE \E p \in PromptsOf(d.entry) : p.id \in usage
  BY <1>2 DEF DeletePrompts, Deleted
<1>3. CASE \A p \in PromptsOf(d.entry) : p.id \notin usage
  <2>1. Decides(r, "writing", q)
    BY <1>3 DEF DeletePrompts, Deleted
  <2>2. /\ q.kind = "prompts" /\ q.entry = d.entry /\ q.count = d.count
        /\ q.seen = PromptsOf(d.entry)
    OBVIOUS
  <2>3. DraftOK(r, q)
    BY <1>1, <2>2 DEF DraftOK, PromptsOf
  <2>4. StillFits(d) => StillFits(q)
    BY <1>1, <2>2 DEF StillFits
  <2> QED
    BY <1>3, <2>1, <2>2, <2>3, <2>4
<1> QED
  BY <1>2, <1>3

(***************************************************************************)
(* The steps.                                                              *)
(***************************************************************************)
(* Tables that do not change keep what is said of them. *)
LEMMA TablesStay ==
  ASSUME IInv, UNCHANGED <<storeVars, libVars>>, NEW r \in Requests,
         NEW state \in {"checked", "writing", "done"}, NEW d, Moves(r, state, d),
         pc[r] # "done", state # "done" => DraftOK(r, d),
         state = "writing" /\ d.kind = "prompts" => \A p \in d.seen : p.id \notin usage
  PROVE  IInv'
<1>1. StoreOK'
  BY DEF IInv, StoreOK, SetsOK, VersionsOK, ActiveOK, ActiveBelongs, SyncedWasApproved, storeVars
<1>2. Grows
  BY DEF Grows, SameKey, storeVars, libVars
<1>3. LibraryOK'
  BY <1>2, LibraryStays DEF libVars
<1>4. RequestsOK'
  BY <1>2, RequestsStay
<1>5. FreshOK'
  BY DEF IInv, FreshOK, RequestsOK, Moves, storeVars, libVars
<1>6. UsageOK'
  <2> SUFFICES ASSUME NEW s \in Requests, pc'[s] = "writing", req'[s].kind = "prompts"
               PROVE  \A p \in req'[s].seen : p.id \notin usage
    BY DEF IInv, UsageOK, libVars
  <2>1. CASE s = r
    BY <2>1 DEF IInv, RequestsOK, Moves
  <2>2. CASE s # r
    BY <2>2 DEF IInv, RequestsOK, UsageOK, Moves
  <2> QED
    BY <2>1, <2>2
<1> QED
  BY <1>3, <1>1, <1>4, <1>5, <1>6 DEF IInv

LEMMA DecidesMoves ==
  ASSUME NEW r, NEW state, NEW d, Decides(r, state, d)
  PROVE  Moves(r, state, d) /\ UNCHANGED <<storeVars, libVars>>
BY DEF Decides, Moves

LEMMA QuietStep ==
  ASSUME IInv, NEW r \in Requests, Serve(r) \/ DeletePrompts(r) \/ Abort(r)
  PROVE  IInv' /\ UNCHANGED <<storeVars, libVars>>
<1>1. CASE Serve(r)
  <2>1. pc[r] = "idle"
    BY <1>1 DEF Serve
  <2> PICK state \in {"checked", "writing"} : \E q :
         Decides(r, state, q) /\ DraftOK(r, q) /\ StillFits(q) /\ q.kind # "prompts"
    BY <1>1, ServeDecides
  <2> PICK q : Decides(r, state, q) /\ DraftOK(r, q) /\ q.kind # "prompts"
    OBVIOUS
  <2> QED
    BY <2>1, DecidesMoves, TablesStay
<1>2. CASE DeletePrompts(r)
  <2>1. pc[r] = "checked"
    BY <1>2 DEF DeletePrompts
  <2>2. CASE Decides(r, "done", NoReq)
    <3>1. Moves(r, "done", NoReq) /\ UNCHANGED <<storeVars, libVars>>
      BY <2>2, DecidesMoves
    <3> QED
      BY <2>1, <3>1, TablesStay
  <2>3. ASSUME NEW q, Decides(r, "writing", q), DraftOK(r, q),
               \A p \in q.seen : p.id \notin usage
        PROVE  IInv' /\ UNCHANGED <<storeVars, libVars>>
    BY <2>1, <2>3, DecidesMoves, TablesStay
  <2> QED
    BY <1>2, <2>2, <2>3, DeleteDecides
<1>3. CASE Abort(r)
  <2>1. pc[r] # "done" /\ Moves(r, "done", NoReq) /\ UNCHANGED <<storeVars, libVars>>
    BY <1>3 DEF Abort, Moves
  <2> QED
    BY <2>1, TablesStay
<1> QED
  BY <1>1, <1>2, <1>3

(* The requests and ids, when a request commits. *)
LEMMA CommitMoves ==
  ASSUME IInv, NEW r \in Requests, NEW kind, Commits(r, kind)
  PROVE  Moves(r, "done", NoReq) /\ pc[r] = "writing" /\ DraftOK(r, req[r]) /\ req[r].kind = kind
BY DEF Commits, Moves, IInv, RequestsOK, Open

LEMMA OthersFresh ==
  ASSUME IInv, NEW r \in Requests, Moves(r, "done", NoReq),
         \A e \in DOMAIN entries' : e \in DOMAIN entries \/ e = r,
         \A s \in sets' : s \in sets \/ s.id = r,
         \A v \in versions' : v \in versions \/ v.id = r,
         \A s \in Requests \ {r} : pc[s] # "done" => active'[s] = None
  PROVE  FreshOK'
BY DEF FreshOK, Moves, IInv, RequestsOK

LEMMA UsageStays ==
  ASSUME IInv, NEW r \in Requests, Moves(r, "done", NoReq), UNCHANGED usage,
         \A p \in prompts : p.id \in usage => p \in prompts'
  PROVE  UsageOK'
<1>1. usage' \subseteq {p.id : p \in prompts'}
  BY DEF IInv, UsageOK
<1>2. ASSUME NEW s \in Requests, pc'[s] = "writing"
      PROVE  s # r /\ pc[s] = "writing" /\ req'[s] = req[s]
  BY <1>2 DEF Moves, IInv, RequestsOK
<1> QED
  BY <1>1, <1>2 DEF IInv, UsageOK

LEMMA CreateStep ==
  ASSUME IInv, NEW r \in Requests, CommitCreate(r)
  PROVE  IInv'
<1> PICK q : q = req[r]
  OBVIOUS
<1>1. /\ Moves(r, "done", NoReq) /\ pc[r] = "writing" /\ DraftOK(r, q) /\ q.kind = "create"
      /\ Open(r)
  BY CommitMoves DEF CommitCreate, Open
<1>2. q.row \in EntryRows /\ PlanOK(r, q.row, q.plan) /\ Sync(r, q.plan, q.row)
  BY <1>1 DEF DraftOK, CommitCreate
<1>3. r \notin DOMAIN entries /\ r \in Ids
  BY <1>1 DEF IInv, FreshOK, Ids
<1>4. /\ DOMAIN entries' = DOMAIN entries \cup {r}
      /\ entries'[r] = q.row
      /\ \A e \in DOMAIN entries : entries'[e] = entries[e]
  BY <1>3 DEF CommitCreate
<1>5. UNCHANGED <<prompts, usage, threads>>
  BY DEF CommitCreate
<1>6. Grows
  BY <1>1, <1>2, <1>4, SyncKeeps DEF Grows, SameKey
<1>7. LibraryOK'
  <2>1. EntriesOK'
    BY <1>2, <1>3, <1>4 DEF IInv, LibraryOK, EntriesOK, Ids
  <2>2. PromptsOK'
    BY <1>4, <1>5 DEF IInv, LibraryOK, PromptsOK
  <2>3. ThreadsOK'
    BY <1>5, <1>6, ThreadStays DEF IInv, LibraryOK, ThreadsOK
  <2>4. TextsOK'
    <3>1. Vetted(r, q.row.text)'
      BY <1>1, <1>4 DEF DraftOK, Approved, Vetted, Key
    <3>2. \A e \in DOMAIN entries : Vetted(e, entries[e].text)'
      <4> SUFFICES ASSUME NEW e \in DOMAIN entries PROVE Vetted(e, entries[e].text)'
        OBVIOUS
      <4> PICK text : text = entries[e].text
        OBVIOUS
      <4>1. Vetted(e, text)'
        BY <1>6, VettedStays DEF IInv, LibraryOK, TextsOK
      <4> QED
        BY <1>4, <4>1
    <3> QED
      BY <1>4, <3>1, <3>2 DEF TextsOK
  <2> QED
    BY <2>1, <2>2, <2>3, <2>4 DEF LibraryOK
<1> QED
  BY <1>1, <1>2, <1>4, <1>5, <1>7, <1>6, SyncKeeps, RequestsStay, OthersFresh, UsageStays DEF IInv

(* The row an update leaves: the columns that changed, over what is there. *)
Patched(q) ==
  [f \in DOMAIN entries[q.entry] |->
     IF f \in q.fields THEN q.row[f] ELSE entries[q.entry][f]]
LEMMA PatchedIs ==
  ASSUME IInv, NEW r, NEW q, q.kind = "update", DraftOK(r, q)
  PROVE  /\ Patched(q) \in EntryRows
         /\ SameKey(Patched(q), entries[q.entry]) /\ SameKey(Patched(q), q.row)
         /\ Patched(q).text = IF "text" \in q.fields THEN q.row.text ELSE entries[q.entry].text
         /\ Patched(q).automated =
              IF "automated" \in q.fields THEN q.row.automated ELSE entries[q.entry].automated
<1> PICK old \in EntryRows : old = entries[q.entry]
  BY DEF DraftOK, IInv, LibraryOK, EntriesOK
<1> PICK row \in EntryRows : row = q.row
  BY DEF DraftOK
<1> PICK fields : fields = q.fields
  OBVIOUS
<1>1. Patched(q) = [f \in DOMAIN old |-> IF f \in fields THEN row[f] ELSE old[f]]
  BY DEF Patched
<1>2. fields \subseteq Columns /\ SameKey(row, old)
  BY DEF DraftOK
<1>3. DOMAIN old = {"scope", "type", "module", "active", "automated", "text"}
  BY DEF EntryRows
<1>4. /\ Patched(q).scope = old.scope /\ Patched(q).type = old.type
      /\ Patched(q).module = old.module
      /\ Patched(q).active = IF "active" \in fields THEN row.active ELSE old.active
      /\ Patched(q).text = IF "text" \in fields THEN row.text ELSE old.text
      /\ Patched(q).automated = IF "automated" \in fields THEN row.automated ELSE old.automated
  BY <1>1, <1>2, <1>3 DEF Columns
<1>5. Patched(q) \in EntryRows
  BY <1>1, <1>3, <1>4 DEF EntryRows
<1> QED
  BY <1>2, <1>4, <1>5 DEF SameKey

LEMMA UpdateStep ==
  ASSUME IInv, NEW r \in Requests, CommitUpdate(r)
  PROVE  IInv'
<1> PICK q : q = req[r]
  OBVIOUS
<1>1. /\ Moves(r, "done", NoReq) /\ pc[r] = "writing" /\ DraftOK(r, q) /\ q.kind = "update"
      /\ Open(r)
  BY CommitMoves DEF CommitUpdate, Open
<1>2. q.row \in EntryRows /\ PlanOK(r, q.row, q.plan) /\ Sync(r, q.plan, q.row)
  BY <1>1 DEF DraftOK, CommitUpdate
<1>3. q.entry \in DOMAIN entries
  BY <1>1 DEF DraftOK
<1>4. /\ DOMAIN entries' = DOMAIN entries
      /\ entries'[q.entry] = Patched(q)
      /\ \A e \in DOMAIN entries \ {q.entry} : entries'[e] = entries[e]
  BY <1>3 DEF CommitUpdate, Patched
<1>5. Patched(q) \in EntryRows /\ SameKey(Patched(q), entries[q.entry])
  BY <1>1, PatchedIs
<1>6. UNCHANGED <<prompts, usage, threads>>
  BY DEF CommitUpdate
<1>7. Grows
  BY <1>1, <1>2, <1>4, <1>5, SyncKeeps DEF Grows, SameKey
<1>8. LibraryOK'
  <2>1. EntriesOK'
    BY <1>4, <1>5 DEF IInv, LibraryOK, EntriesOK, Ids
  <2>2. PromptsOK'
    BY <1>4, <1>6 DEF IInv, LibraryOK, PromptsOK
  <2>3. ThreadsOK'
    BY <1>6, <1>7, ThreadStays DEF IInv, LibraryOK, ThreadsOK
  <2>4. TextsOK'
    <3> SUFFICES ASSUME NEW e \in DOMAIN entries PROVE Vetted(e, entries[e].text)'
      BY <1>4 DEF TextsOK
    <3> PICK text : text = entries'[e].text
      OBVIOUS
    <3>1. CASE e = q.entry /\ "text" \in q.fields
      <4>1. Approved(q.row, e) /\ text = q.row.text
        BY <1>1, <1>4, <3>1, PatchedIs DEF DraftOK
      <4>2. Key(entries'[e], e) = Key(q.row, e)
        BY <1>1, <1>4, <3>1, PatchedIs DEF SameKey, Key
      <4>3. Vetted(e, text)'
        BY <4>1, <4>2 DEF Approved, Vetted
      <4> QED
        BY <4>3
    <3>2. CASE ~(e = q.entry /\ "text" \in q.fields)
      <4>1. text = entries[e].text
        BY <1>1, <1>4, <3>2, PatchedIs
      <4>2. Vetted(e, text)'
        BY <1>7, <4>1, VettedStays DEF IInv, LibraryOK, TextsOK
      <4> QED
        BY <4>2
    <3> QED
      BY <3>1, <3>2
  <2> QED
    BY <2>1, <2>2, <2>3, <2>4 DEF LibraryOK
<1> QED
  BY <1>1, <1>2, <1>4, <1>6, <1>7, <1>8, SyncKeeps, RequestsStay, OthersFresh, UsageStays DEF IInv

(* The other commits leave the instruction sets alone. *)
LEMMA StoreStays ==
  ASSUME IInv, UNCHANGED storeVars
  PROVE  StoreOK'
BY DEF IInv, StoreOK, SetsOK, VersionsOK, ActiveOK, ActiveBelongs, SyncedWasApproved, storeVars

LEMMA PromptsStep ==
  ASSUME IInv, NEW r \in Requests, CommitPrompts(r)
  PROVE  IInv'
<1> PICK q : q = req[r]
  OBVIOUS
<1> DEFINE new == {Prompt(<<r, i>>, q.entry, i) : i \in 0..(q.count - 1)}
<1>1. /\ Moves(r, "done", NoReq) /\ pc[r] = "writing" /\ DraftOK(r, q) /\ q.kind = "prompts"
      /\ Open(r)
  BY CommitMoves DEF CommitPrompts, Open
<1>2. prompts' = (prompts \ q.seen) \cup new /\ UNCHANGED <<storeVars, entries, usage, threads>>
  BY DEF CommitPrompts
<1>3. \A p \in new : p.entry = q.entry
  BY DEF Prompt
<1> HIDE DEF new
<1>4. Grows
  BY <1>2 DEF Grows, SameKey, storeVars
<1>5. LibraryOK'
  BY <1>1, <1>2, <1>3, <1>4, LibraryStays DEF DraftOK
<1>6. \A p \in q.seen : p.id \notin usage
  BY <1>1 DEF IInv, UsageOK
<1>7. UsageOK'
  BY <1>1, <1>2, <1>6, UsageStays
<1>8. FreshOK'
  BY <1>1, <1>2, OthersFresh DEF storeVars, IInv, FreshOK
<1> QED
  BY <1>1, <1>2, <1>5, <1>4, <1>7, <1>8, StoreStays, RequestsStay DEF IInv

LEMMA ThreadStep ==
  ASSUME IInv, NEW r \in Requests, CommitThread(r)
  PROVE  IInv'
<1> PICK q : q = req[r]
  OBVIOUS
<1>1. Moves(r, "done", NoReq) /\ DraftOK(r, q) /\ q.kind = "thread"
  BY CommitMoves DEF CommitThread
<1>2. threads' = threads \cup {q.row} /\ UNCHANGED <<storeVars, entries, prompts, usage>>
  BY DEF CommitThread
<1>3. Grows
  BY <1>2 DEF Grows, SameKey, storeVars
<1>4. LibraryOK'
  BY <1>1, <1>2, <1>3, LibraryStays DEF DraftOK, IInv, LibraryOK, PromptsOK
<1>5. UsageOK' /\ FreshOK'
  BY <1>1, <1>2, UsageStays, OthersFresh DEF storeVars, IInv, FreshOK
<1> QED
  BY <1>1, <1>2, <1>4, <1>3, <1>5, StoreStays, RequestsStay DEF IInv

(* A use is recorded only of a prompt that is there and is not being        *)
(* deleted. *)
LEMMA MarkStep ==
  ASSUME IInv, NEW r \in Requests, MarkInsert(r)
  PROVE  IInv'
<1> PICK id : id = req[r].prompt
  OBVIOUS
<1>1. Moves(r, "done", NoReq) /\ UNCHANGED <<storeVars, entries, prompts, threads>>
  BY DEF MarkInsert, Moves
<1>2. usage' = usage \cup {p.id : p \in {q \in prompts : q.id = id}}
  BY DEF MarkInsert
<1>3. \A s \in Requests : pc[s] = "writing" /\ req[s].kind = "prompts"
                          => \A p \in req[s].seen : p.id # id
  BY DEF MarkInsert
<1>4. UsageOK'
  <2>1. usage' \subseteq {p.id : p \in prompts'}
    BY <1>1, <1>2 DEF IInv, UsageOK
  <2>2. ASSUME NEW s \in Requests, pc'[s] = "writing", req'[s].kind = "prompts"
        PROVE  \A p \in req'[s].seen : p.id \notin usage'
    <3>1. s # r /\ pc[s] = "writing" /\ req'[s] = req[s]
      BY <1>1, <2>2 DEF Moves, IInv, RequestsOK
    <3>2. \A p \in req[s].seen : p.id \notin usage /\ p.id # id
      BY <1>3, <2>2, <3>1 DEF IInv, UsageOK
    <3> QED
      BY <1>2, <3>1, <3>2
  <2> QED
    BY <2>1, <2>2 DEF UsageOK
<1>5. Grows
  BY <1>1 DEF Grows, SameKey, storeVars
<1>6. LibraryOK'
  BY <1>1, <1>5, LibraryStays
<1>7. FreshOK'
  BY <1>1, OthersFresh DEF storeVars, IInv, FreshOK
<1> QED
  BY <1>1, <1>4, <1>6, <1>5, <1>7, StoreStays, RequestsStay DEF IInv

LEMMA NextIInv ==
  ASSUME IInv, [Next]_vars
  PROVE  IInv'
<1>1. CASE UNCHANGED vars
  <2>1. FreshOK' /\ UsageOK' /\ Grows
    BY <1>1 DEF IInv, FreshOK, UsageOK, Grows, SameKey, vars, libVars, storeVars
  <2>2. RequestsOK'
    <3> SUFFICES ASSUME NEW s \in Requests, Open(s)' PROVE DraftOK(s, req[s])'
      BY <1>1 DEF IInv, RequestsOK, vars
    <3> PICK q : q = req[s]
      OBVIOUS
    <3>1. DraftOK(s, q)'
      BY <1>1, <2>1, DraftStays DEF IInv, RequestsOK, Open, vars
    <3> QED
      BY <1>1, <3>1 DEF vars, DraftOK, PlanOK, ThreadFrom
  <2>3. LibraryOK'
    BY <1>1, <2>1, LibraryStays DEF vars, libVars
  <2> QED
    BY <1>1, <2>1, <2>2, <2>3, StoreStays DEF vars, IInv
<1>2. ASSUME NEW r \in Requests,
             \/ Serve(r) \/ DeletePrompts(r) \/ Abort(r) \/ MarkInsert(r)
             \/ CommitCreate(r) \/ CommitUpdate(r) \/ CommitPrompts(r) \/ CommitThread(r)
      PROVE  IInv'
  BY <1>2, QuietStep, MarkStep, CreateStep, UpdateStep, PromptsStep, ThreadStep
<1> QED
  BY <1>1, <1>2 DEF Next

LEMMA SpecIInv == Spec => []IInv
<1>1. Init => IInv
  BY InitIInv
<1>2. IInv /\ [Next]_vars => IInv'
  BY NextIInv
<1> QED
  BY <1>1, <1>2, PTL DEF Spec

(* Every version the library synced was approved for its layer, whatever   *)
(* requests overlap. *)
THEOREM SyncedWasApprovedCorrect == Spec => []SyncedWasApproved
<1>1. IInv => SyncedWasApproved
  BY DEF IInv, StoreOK
<1> QED
  BY <1>1, SpecIInv, PTL

(* A prompt some thread used stays, whatever replacements and uses overlap. *)
UsedPromptsStay == usage \subseteq {p.id : p \in prompts}
THEOREM UsedPromptsStayCorrect == Spec => []UsedPromptsStay
<1>1. IInv => UsedPromptsStay
  BY DEF IInv, UsageOK, UsedPromptsStay
<1> QED
  BY <1>1, SpecIInv, PTL

(***************************************************************************)
(* Requests that do not overlap.                                           *)
(***************************************************************************)
OneList(e) ==
  \E n \in Nat : \E by : PromptsOf(e) = {Prompt(<<by, i>>, e, i) : i \in 0..(n - 1)}
Lone(e) == \A f \in DOMAIN entries \ {e} : SlotFor(entries[f]) # SlotFor(entries[e])
TextReaches(e) ==
  entries[e].text # None /\ Lone(e) => InForce(SlotFor(entries[e]), entries[e].text)

EntriesUnique == \A e, f \in DOMAIN entries : SameKey(entries[e], entries[f]) => e = f
SlotsUnique == \A s, t \in sets : s.slot = t.slot => s = t
RowsFit ==
  /\ EntriesUnique /\ SlotsUnique
  /\ \A e \in DOMAIN entries : OneList(e)
  /\ \A e \in DOMAIN entries : TextReaches(e)

OneOpen == \A r, s \in Requests : Open(r) /\ Open(s) => r = s
OpenFits == \A r \in Requests : Open(r) => StillFits(req[r])
SerialInv == ~overlapped => OneOpen /\ OpenFits /\ RowsFit

LEMMA InitSerialInv == ASSUME Init PROVE SerialInv
<1>1. PICK seedModule \in [Seeded -> Modules] :
        entries = [s \in Seeded |-> Row(s[1], s[3], seedModule[s], TRUE, TRUE, SeedText)]
  BY DEF Init
<1>2. \A s \in Seeded : SlotFor(entries[s]) = s /\ entries[s].text = SeedText
                        /\ entries[s].type = s[3]
  BY <1>1, SeedFacts DEF Row, SlotFor
<1>3. EntriesUnique
  <2> SUFFICES ASSUME NEW e \in Seeded, NEW f \in Seeded, SameKey(entries[e], entries[f])
               PROVE  e = f
    BY <1>1 DEF EntriesUnique
  <2>1. e[3] = f[3]
    BY <1>2 DEF SameKey
  <2> QED
    BY <2>1, SeedFacts
<1>6. SlotsUnique
  BY DEF Init, StoreInit, SlotsUnique, SetRow
<1>4. ASSUME NEW s \in Seeded PROVE OneList(s)
  <2>1. PromptsOf(s) = {Prompt(<<s, 0>>, s, 0)}
    BY DEF Init, PromptsOf, Prompt
  <2>2. {Prompt(<<s, i>>, s, i) : i \in 0..(1 - 1)} = {Prompt(<<s, 0>>, s, 0)}
    <3>1. 0..(1 - 1) = {0}
      OBVIOUS
    <3> QED
      BY <3>1
  <2> QED
    BY <2>1, <2>2 DEF OneList
<1>5. ASSUME NEW s \in Seeded PROVE TextReaches(s)
  <2> PICK v : v = VersionRow(s, s, 1, SeedText, Seeder)
    OBVIOUS
  <2>1. SetRow(s, s) \in sets /\ active[s] = s /\ v \in versions /\ s # None
    BY SeedFacts DEF Init, StoreInit
  <2>2. v.id = s /\ v.content = SeedText
    BY DEF VersionRow
  <2>3. (CHOOSE w \in versions : w.id = v.id) = v
    BY <2>1, InitIInv, TheContent DEF IInv, StoreOK, VersionsOK
  <2>4. InForce(s, SeedText)
    BY <2>1, <2>2, <2>3 DEF InForce, ContentOf, SetRow
  <2> QED
    BY <1>2, <2>4 DEF TextReaches
<1> QED
  BY <1>1, <1>3, <1>4, <1>5, <1>6 DEF Init, SerialInv, OneOpen, OpenFits, Open, RowsFit

(* Tables that do not change fit as before. *)
LEMMA RowsFitStay ==
  ASSUME UNCHANGED <<storeVars, entries, prompts>>
  PROVE  RowsFit' = RowsFit /\ \A q : StillFits(q) => StillFits(q)'
<1>1. ASSUME NEW q, StillFits(q) PROVE StillFits(q)'
  <2>1. TextFits(q)' = TextFits(q)
    BY DEF TextFits, InForce, ContentOf, storeVars
  <2>2. PlanFits(q)' = PlanFits(q)
    BY DEF PlanFits, SetsOf, storeVars
  <2>3. RowFits(q)' = RowFits(q) /\ PromptsOf(q.entry)' = PromptsOf(q.entry)
    BY DEF RowFits, PromptsOf
  <2> QED
    BY <1>1, <2>1, <2>2, <2>3 DEF StillFits, Exists
<1>2. RowsFit' = RowsFit
  BY DEF RowsFit, EntriesUnique, SlotsUnique, OneList, TextReaches, Lone, PromptsOf, InForce, ContentOf,
    storeVars
<1> QED
  BY <1>1, <1>2

LEMMA DecidesSerial ==
  ASSUME IInv, SerialInv, NEW r \in Requests, NEW state, NEW q, Decides(r, state, q),
         ~overlapped /\ state # "done" => StillFits(q), state \in {"checked", "writing", "done"}
  PROVE  SerialInv'
<1> SUFFICES ASSUME ~overlapped' PROVE OneOpen' /\ OpenFits' /\ RowsFit'
  BY DEF SerialInv
<1>1. ~overlapped /\ \A s \in Requests \ {r} : ~Open(s)
  BY DEF Decides, Open
<1>2. \A s \in Requests \ {r} : ~Open(s)'
  BY <1>1 DEF Decides, Open, IInv, RequestsOK
<1>3. Open(r)' => state # "done" /\ req'[r] = q
  BY DEF Decides, Open, IInv, RequestsOK
<1>4. RowsFit' /\ (state # "done" => StillFits(q)')
  BY <1>1, RowsFitStay DEF SerialInv, Decides, libVars
<1>5. OpenFits'
  <2> SUFFICES ASSUME NEW s \in Requests, Open(s)' PROVE StillFits(req[s])'
    BY DEF OpenFits
  <2>1. s = r /\ StillFits(q)' /\ req'[s] = q
    BY <1>2, <1>3, <1>4
  <2> QED
    BY <2>1 DEF StillFits, TextFits, PlanFits, RowFits, Exists
<1> QED
  BY <1>2, <1>4, <1>5 DEF OneOpen

(* A request that commits was the only one open. *)
LEMMA CommitSerial ==
  ASSUME IInv, SerialInv, NEW r \in Requests, Open(r), Moves(r, "done", NoReq),
         UNCHANGED overlapped, ~overlapped => RowsFit'
  PROVE  SerialInv'
<1> SUFFICES ASSUME ~overlapped PROVE OneOpen' /\ OpenFits' /\ RowsFit'
  BY DEF SerialInv
<1>1. \A s \in Requests : ~Open(s)'
  BY DEF SerialInv, OneOpen, Moves, Open, IInv, RequestsOK
<1> QED
  BY <1>1 DEF OneOpen, OpenFits

(* A sync adds a set only to a slot that has none. *)
LEMMA SyncKeepsSlots ==
  ASSUME SlotsUnique, NEW r, NEW q, PlanFits(q), \A s \in sets : s.id # r,
         Sync(r, q.plan, q.row)
  PROVE  SlotsUnique'
<1> PICK slot : slot = SlotFor(q.row)
  OBVIOUS
<1>1. CASE q.plan = NoSync \/ q.plan.set # r
  BY <1>1 DEF Sync, storeVars, SlotsUnique
<1>2. CASE q.plan # NoSync /\ q.plan.set = r
  <2>1. sets' = sets \cup {SetRow(r, slot)}
    BY <1>2 DEF Sync
  <2>2. \A s \in sets : s.slot # slot
    BY <1>2 DEF PlanFits, SetsOf, SetRow
  <2> QED
    BY <2>1, <2>2 DEF SlotsUnique, SetRow
<1> QED
  BY <1>1, <1>2

(* The slot and the text of an entry after a step. *)
LEMMA TextReachesNext ==
  ASSUME NEW e, \A slot, text : /\ entries'[e].text # None /\ Lone(e)'
                                /\ slot = SlotFor(entries'[e]) /\ text = entries'[e].text
                                => InForce(slot, text)'
  PROVE  TextReaches(e)'
<1> SUFFICES ASSUME (entries[e].text # None /\ Lone(e))'
             PROVE  InForce(SlotFor(entries[e]), entries[e].text)'
  BY DEF TextReaches
<1> PICK slot, text : slot = SlotFor(entries'[e]) /\ text = entries'[e].text
  OBVIOUS
<1>1. InForce(slot, text)'
  OBVIOUS
<1> QED
  BY <1>1 DEF InForce, SlotFor

LEMMA CreateSerial ==
  ASSUME IInv, SerialInv, NEW r \in Requests, CommitCreate(r)
  PROVE  SerialInv'
<1> PICK q : q = req[r]
  OBVIOUS
<1>1. /\ Moves(r, "done", NoReq) /\ Open(r) /\ DraftOK(r, q) /\ q.kind = "create"
      /\ UNCHANGED overlapped
  BY CommitMoves DEF CommitCreate, Commits, Open
<1>2. q.row \in EntryRows /\ PlanOK(r, q.row, q.plan) /\ Sync(r, q.plan, q.row)
  BY <1>1 DEF DraftOK, CommitCreate
<1>3. r \notin DOMAIN entries
  BY <1>1 DEF IInv, FreshOK, Open
<1>4. /\ DOMAIN entries' = DOMAIN entries \cup {r}
      /\ entries'[r] = q.row
      /\ \A e \in DOMAIN entries : entries'[e] = entries[e]
      /\ prompts' = prompts
  BY <1>3 DEF CommitCreate
<1>5. ASSUME ~overlapped PROVE RowsFit'
  <2>1. RowsFit /\ TextFits(q) /\ PlanFits(q) /\ ~Exists(q.row)
    BY <1>1, <1>5 DEF SerialInv, OpenFits, StillFits
  <2>2. EntriesUnique'
    <3>1. \A e \in DOMAIN entries : ~SameKey(entries[e], q.row)
      BY <2>1 DEF Exists, SameKey
    <3>2. \A e \in DOMAIN entries : ~SameKey(q.row, entries[e])
      BY <3>1 DEF SameKey
    <3> QED
      BY <1>4, <2>1, <3>1, <3>2 DEF RowsFit, EntriesUnique
  <2>3. ASSUME NEW e \in DOMAIN entries' PROVE OneList(e)'
    <3>1. CASE e \in DOMAIN entries
      <4>1. OneList(e) /\ PromptsOf(e)' = PromptsOf(e)
        BY <1>4, <2>1, <3>1 DEF RowsFit, PromptsOf
      <4> QED
        BY <4>1 DEF OneList
    <3>2. CASE e = r
      <4>1. PromptsOf(e)' = {}
        BY <1>3, <1>4, <3>2 DEF PromptsOf, IInv, LibraryOK, PromptsOK
      <4>2. PromptsOf(e)' = {Prompt(<<r, i>>, e, i) : i \in 0..(0 - 1)} /\ 0 \in Nat
        BY <4>1
      <4> QED
        BY <4>2, Zenon DEF OneList
    <3> QED
      BY <1>4, <3>1, <3>2
  <2>4. ASSUME NEW e \in DOMAIN entries', entries'[e].text # None, Lone(e)',
               NEW slot, NEW text, slot = SlotFor(entries'[e]), text = entries'[e].text
        PROVE  InForce(slot, text)'
    <3>1. CASE e = r
      <4>1. CASE q.plan = NoSync
        <5>1. InForce(SlotFor(q.row), q.row.text)
          BY <1>1, <1>4, <2>1, <2>4, <3>1, <4>1 DEF TextFits
        <5> QED
          BY <1>1, <1>2, <1>4, <2>4, <3>1, <4>1, <5>1, SyncPutsInForce
      <4>2. CASE q.plan # NoSync
        BY <1>1, <1>2, <1>4, <2>4, <3>1, <4>2, SyncPutsInForce
      <4> QED
        BY <4>1, <4>2
    <3>2. CASE e # r
      <4>1. e \in DOMAIN entries /\ entries'[e] = entries[e]
        BY <1>4, <3>2
      <4>2. SlotFor(q.row) # slot
        BY <1>3, <1>4, <2>4, <3>2, <4>1 DEF Lone
      <4>3. Lone(e)
        BY <1>4, <2>4, <4>1 DEF Lone
      <4>4. InForce(slot, text)
        BY <2>1, <2>4, <4>1, <4>3 DEF RowsFit, TextReaches
      <4> QED
        BY <1>1, <1>2, <4>2, <4>4, SyncPutsInForce
    <3> QED
      BY <3>1, <3>2
  <2>5. ASSUME NEW e \in DOMAIN entries' PROVE TextReaches(e)'
    BY <2>4, TextReachesNext
  <2>6. SlotsUnique'
    BY <1>1, <1>2, <2>1, SyncKeepsSlots DEF RowsFit, IInv, FreshOK, Open
  <2> QED
    BY <2>2, <2>3, <2>5, <2>6 DEF RowsFit
<1> QED
  BY <1>1, <1>5, CommitSerial

LEMMA UpdateSerial ==
  ASSUME IInv, SerialInv, NEW r \in Requests, CommitUpdate(r)
  PROVE  SerialInv'
<1> PICK q : q = req[r]
  OBVIOUS
<1>1. /\ Moves(r, "done", NoReq) /\ Open(r) /\ DraftOK(r, q) /\ q.kind = "update"
      /\ UNCHANGED overlapped
  BY CommitMoves DEF CommitUpdate, Commits, Open
<1>2. q.row \in EntryRows /\ PlanOK(r, q.row, q.plan) /\ Sync(r, q.plan, q.row)
  BY <1>1 DEF DraftOK, CommitUpdate
<1> PICK row : row = Patched(q)
  OBVIOUS
<1>3. /\ q.entry \in DOMAIN entries /\ SameKey(row, entries[q.entry]) /\ SameKey(row, q.row)
      /\ row.text = IF "text" \in q.fields THEN q.row.text ELSE entries[q.entry].text
  BY <1>1, PatchedIs DEF DraftOK
<1>4. /\ DOMAIN entries' = DOMAIN entries
      /\ entries'[q.entry] = row
      /\ \A e \in DOMAIN entries \ {q.entry} : entries'[e] = entries[e]
      /\ prompts' = prompts
  BY <1>3 DEF CommitUpdate, Patched
<1>5. \A e \in DOMAIN entries : /\ SameKey(entries'[e], entries[e])
                                /\ SlotFor(entries'[e]) = SlotFor(entries[e])
  BY <1>3, <1>4 DEF SameKey, SlotFor
<1>6. SlotFor(q.row) = SlotFor(entries[q.entry])
  BY <1>3 DEF SameKey, SlotFor
<1>7. ASSUME ~overlapped PROVE RowsFit'
  <2>1. RowsFit /\ TextFits(q) /\ PlanFits(q) /\ RowFits(q)
    BY <1>1, <1>7 DEF SerialInv, OpenFits, StillFits
  <2>2. row.text = q.row.text
    BY <1>3, <2>1 DEF RowFits
  <2>3. EntriesUnique'
    BY <1>4, <1>5, <2>1 DEF RowsFit, EntriesUnique, SameKey
  <2>4. ASSUME NEW e \in DOMAIN entries' PROVE OneList(e)'
    <3>1. OneList(e) /\ PromptsOf(e)' = PromptsOf(e)
      BY <1>4, <2>1 DEF RowsFit, PromptsOf
    <3> QED
      BY <3>1 DEF OneList
  <2>5. ASSUME NEW e \in DOMAIN entries', entries'[e].text # None, Lone(e)',
               NEW slot, NEW text, slot = SlotFor(entries'[e]), text = entries'[e].text
        PROVE  InForce(slot, text)'
    <3>1. e \in DOMAIN entries /\ Lone(e) /\ SlotFor(entries[e]) = slot
      BY <1>4, <1>5, <2>5 DEF Lone
    <3>2. CASE e = q.entry /\ q.plan # NoSync
      BY <1>1, <1>2, <1>4, <1>6, <2>2, <2>5, <3>1, <3>2, SyncPutsInForce
    <3>3. CASE e = q.entry /\ q.plan = NoSync
      <4>1. text = q.row.text /\ text # None
        BY <1>4, <2>2, <2>5, <3>3
      <4>2. InForce(slot, text)
        BY <1>6, <2>1, <3>1, <3>3, <4>1 DEF TextFits, RowsFit, TextReaches
      <4> QED
        BY <1>1, <1>2, <3>3, <4>2, SyncPutsInForce
    <3>4. CASE e # q.entry
      <4>1. entries'[e] = entries[e]
        BY <1>4, <3>1, <3>4
      <4>2. InForce(slot, text)
        BY <2>1, <2>5, <3>1, <4>1 DEF RowsFit, TextReaches
      <4>3. slot # SlotFor(q.row)
        BY <1>3, <1>6, <3>1, <3>4 DEF Lone
      <4> QED
        BY <1>1, <1>2, <4>2, <4>3, SyncPutsInForce
    <3> QED
      BY <3>2, <3>3, <3>4
  <2>6. ASSUME NEW e \in DOMAIN entries' PROVE TextReaches(e)'
    BY <2>5, TextReachesNext
  <2>7. SlotsUnique'
    BY <1>1, <1>2, <2>1, SyncKeepsSlots DEF RowsFit, IInv, FreshOK, Open
  <2> QED
    BY <2>3, <2>4, <2>6, <2>7 DEF RowsFit
<1> QED
  BY <1>1, <1>7, CommitSerial

LEMMA PromptsSerial ==
  ASSUME IInv, SerialInv, NEW r \in Requests, CommitPrompts(r)
  PROVE  SerialInv'
<1> PICK q : q = req[r]
  OBVIOUS
<1> PICK e : e = q.entry
  OBVIOUS
<1> DEFINE new == {Prompt(<<r, i>>, e, i) : i \in 0..(q.count - 1)}
<1>1. /\ Moves(r, "done", NoReq) /\ Open(r) /\ DraftOK(r, q) /\ q.kind = "prompts"
      /\ UNCHANGED overlapped
  BY CommitMoves DEF CommitPrompts, Commits, Open
<1>2. prompts' = (prompts \ q.seen) \cup new /\ UNCHANGED <<storeVars, entries, usage, threads>>
  BY DEF CommitPrompts
<1>3. \A p \in new : p.entry = e
  BY DEF Prompt
<1>4. ASSUME ~overlapped PROVE RowsFit'
  <2>1. RowsFit /\ q.seen = PromptsOf(e)
    BY <1>1, <1>4 DEF SerialInv, OpenFits, StillFits
  <2>2. ASSUME NEW f \in DOMAIN entries PROVE OneList(f)'
    <3>1. CASE f = e
      <4>1. PromptsOf(f)' = new
        <5> HIDE DEF new
        <5> QED
          BY <1>2, <1>3, <2>1, <3>1 DEF PromptsOf
      <4>2. q.count \in Nat
        BY <1>1 DEF DraftOK
      <4>3. PromptsOf(f)' = {Prompt(<<r, i>>, f, i) : i \in 0..(q.count - 1)}
        BY <3>1, <4>1
      <4> QED
        BY <4>2, <4>3, Zenon DEF OneList
    <3>2. CASE f # e
      <4> HIDE DEF new
      <4>1. OneList(f) /\ PromptsOf(f)' = PromptsOf(f)
        BY <1>2, <1>3, <2>1, <3>2 DEF PromptsOf, RowsFit
      <4> QED
        BY <4>1 DEF OneList
    <3> QED
      BY <3>1, <3>2
  <2>3. EntriesUnique' /\ SlotsUnique'
    BY <1>2, <2>1 DEF RowsFit, EntriesUnique, SlotsUnique, storeVars
  <2>4. ASSUME NEW f \in DOMAIN entries PROVE TextReaches(f)'
    <3>1. TextReaches(f)
      BY <2>1 DEF RowsFit
    <3> QED
      BY <1>2, <3>1 DEF TextReaches, Lone, InForce, ContentOf, storeVars
  <2> QED
    BY <1>2, <2>2, <2>3, <2>4 DEF RowsFit
<1> QED
  BY <1>1, <1>4, CommitSerial

LEMMA QuietSerial ==
  ASSUME IInv, SerialInv, NEW r \in Requests,
         Serve(r) \/ DeletePrompts(r) \/ Abort(r) \/ MarkInsert(r) \/ CommitThread(r)
  PROVE  SerialInv'
<1>1. CASE Serve(r)
  BY <1>1, ServeDecides, DecidesSerial
<1>2. CASE DeletePrompts(r)
  <2>1. CASE Decides(r, "done", NoReq)
    BY <2>1, DecidesSerial
  <2>2. ASSUME NEW q, Decides(r, "writing", q), StillFits(req[r]) => StillFits(q)
        PROVE  SerialInv'
    <3>1. ~overlapped => StillFits(req[r])
      BY <1>2 DEF SerialInv, OpenFits, Open, DeletePrompts
    <3> QED
      BY <2>2, <3>1, DecidesSerial
  <2> QED
    BY <1>2, <2>1, <2>2, DeleteDecides
<1>3. CASE Abort(r) \/ MarkInsert(r) \/ CommitThread(r)
  <2>1. /\ Open(r) /\ Moves(r, "done", NoReq)
        /\ UNCHANGED <<storeVars, entries, prompts, overlapped>>
    BY <1>3 DEF Abort, MarkInsert, CommitThread, Commits, Open, Moves, libVars
  <2>2. ~overlapped => RowsFit'
    BY <2>1, RowsFitStay DEF SerialInv
  <2> QED
    BY <2>1, <2>2, CommitSerial
<1> QED
  BY <1>1, <1>2, <1>3

LEMMA SpecSerialInv == Spec => []SerialInv
<1>1. Init => SerialInv
  BY InitSerialInv
<1>2. ASSUME IInv, SerialInv, [Next]_vars
      PROVE  SerialInv'
  <2>1. CASE UNCHANGED vars
    <3>1. RowsFit' = RowsFit /\ \A q : StillFits(q) => StillFits(q)'
      BY <2>1, RowsFitStay DEF vars, libVars
    <3>2. OneOpen' = OneOpen
      BY <2>1 DEF vars, OneOpen, Open
    <3>3. OpenFits => OpenFits'
      <4> SUFFICES ASSUME OpenFits, NEW s \in Requests, Open(s)' PROVE StillFits(req[s])'
        BY DEF OpenFits
      <4> PICK q : q = req[s]
        OBVIOUS
      <4>1. StillFits(q)' /\ req'[s] = q
        BY <2>1, <3>1 DEF OpenFits, vars, Open
      <4> QED
        BY <4>1 DEF StillFits, TextFits, PlanFits, RowFits, Exists
    <3> QED
      BY <1>2, <2>1, <3>1, <3>2, <3>3 DEF SerialInv, vars
  <2>2. ASSUME NEW r \in Requests,
               \/ Serve(r) \/ DeletePrompts(r) \/ Abort(r) \/ MarkInsert(r)
               \/ CommitCreate(r) \/ CommitUpdate(r) \/ CommitPrompts(r) \/ CommitThread(r)
        PROVE  SerialInv'
    BY <1>2, <2>2, QuietSerial, CreateSerial, UpdateSerial, PromptsSerial
  <2> QED
    BY <1>2, <2>1, <2>2 DEF Next
<1> QED
  BY <1>1, <1>2, SpecIInv, PTL DEF Spec

(* The list of n prompts is numbered from 0 and has n members. *)
LEMMA ListIsNumbered ==
  ASSUME NEW e, OneList(e)
  PROVE  {p.index : p \in PromptsOf(e)} = 0..(Cardinality(PromptsOf(e)) - 1)
<1> PICK n \in Nat : \E by : PromptsOf(e) = {Prompt(<<by, i>>, e, i) : i \in 0..(n - 1)}
  BY DEF OneList
<1> PICK by : PromptsOf(e) = {Prompt(<<by, i>>, e, i) : i \in 0..(n - 1)}
  OBVIOUS
<1>1. \A i \in 0..(n - 1) : Prompt(<<by, i>>, e, i).index = i
  BY DEF Prompt
<1>2. {p.index : p \in PromptsOf(e)} = 0..(n - 1)
  <2>1. \A p \in PromptsOf(e) : p.index \in 0..(n - 1)
    BY <1>1
  <2>2. \A i \in 0..(n - 1) : \E p \in PromptsOf(e) : p.index = i
    BY <1>1
  <2> QED
    BY <2>1, <2>2
<1>3. Cardinality(PromptsOf(e)) = n
  <2> DEFINE f == [i \in 0..(n - 1) |-> Prompt(<<by, i>>, e, i)]
  <2>1. f \in Bijection(0..(n - 1), PromptsOf(e))
    <3>1. f \in [0..(n - 1) -> PromptsOf(e)]
      OBVIOUS
    <3>2. \A i, j \in 0..(n - 1) : f[i] = f[j] => i = j
      BY <1>1
    <3>3. \A p \in PromptsOf(e) : \E i \in 0..(n - 1) : f[i] = p
      OBVIOUS
    <3> HIDE DEF f
    <3> QED
      BY <3>1, <3>2, <3>3 DEF Bijection, Injection, Surjection, IsInjective
  <2>2. IsFiniteSet(0..(n - 1)) /\ Cardinality(0..(n - 1)) = n
    BY FS_Interval
  <2> QED
    BY <2>1, <2>2, FS_Bijection DEF ExistsBijection
<1> QED
  BY <1>2, <1>3

(* "Activity type already exists" and "Replace all activity prompts": for   *)
(* any number of requests that do not overlap there is one entry for a      *)
(* scope, type and module and one list of prompts for an entry. *)
THEOREM SerialLibraryCorrect == Spec => []SerialLibrary
<1>1. ASSUME SerialInv PROVE SerialLibrary
  <2>1. SerialEntriesAreUnique
    BY <1>1 DEF SerialEntriesAreUnique, SerialInv, RowsFit, EntriesUnique, SameKey
  <2>2. SerialPromptsAreOneList
    BY <1>1, ListIsNumbered DEF SerialPromptsAreOneList, SerialInv, RowsFit
  <2> QED
    BY <2>1, <2>2 DEF SerialLibrary
<1> QED
  BY <1>1, SpecSerialInv, PTL

(* A text that is in force in the one set of a slot is what is read there. *)
LEMMA InForceIsRead ==
  ASSUME IInv, SlotsUnique, NEW org, NEW level, NEW type, NEW text,
         InForce(<<level, org, type>>, text)
  PROVE  Read(org, level, type) = {text}
<1> PICK slot : slot = <<level, org, type>>
  OBVIOUS
<1>1. PICK s \in sets : s.slot = slot /\ active[s.id] # None /\ ContentOf(active[s.id]) = text
  BY DEF InForce
<1>2. SetsOf(slot) = {s.id}
  BY <1>1 DEF SetsOf, SlotsUnique
<1>3. InForceIn(s.id) = text
  BY <1>1 DEF InForceIn
<1> QED
  BY <1>2, <1>3 DEF Read

(* What an admin saved reaches the tasks of the organisation it was saved   *)
(* for, for any types, modules and texts. *)
THEOREM DefaultsReachTasksCorrect == Spec => []DefaultsReachTasks
<1>1. ASSUME IInv, SerialInv PROVE DefaultsReachTasks
  <2>1. LoneDefaultIsRead
    <3> SUFFICES ASSUME ~overlapped, NEW e \in DOMAIN entries, entries[e].text # None, Lone(e)
                 PROVE  Read(OrgOf(entries[e].scope), entries[e].scope, entries[e].type)
                          = {entries[e].text}
      BY DEF LoneDefaultIsRead, Lone
    <3>1. InForce(SlotFor(entries[e]), entries[e].text) /\ SlotsUnique
      BY <1>1 DEF SerialInv, RowsFit, TextReaches
    <3> QED
      BY <1>1, <3>1, InForceIsRead DEF SlotFor, SyncSlot
  <2>2. SyncedWasApproved
    BY <1>1 DEF IInv, StoreOK
  <2> QED
    BY <2>1, <2>2 DEF DefaultsReachTasks
<1> QED
  BY <1>1, SpecIInv, SpecSerialInv, PTL

(* A thread's text and model come from the entry that create_thread picked, *)
(* whatever requests overlap. *)
THEOREM ThreadsFollowTheirEntryCorrect == Spec => []ThreadsFollowTheirEntry
<1>1. ASSUME IInv PROVE ThreadsFollowTheirEntry
  <2>1. \A t \in threads : ThreadFrom(t)
    BY <1>1 DEF IInv, LibraryOK, ThreadsOK
  <2>2. ThreadsStartApproved
    BY <2>1 DEF ThreadsStartApproved, ThreadFrom
  <2>3. ASSUME NEW t \in threads, t.from \in Active, NEW e \in Routed(t.type), e \in t.known
        PROVE  entries[e].scope = entries[t.from].scope
    <3>1. t.from # None
      BY <1>1, <2>3, StoreAssumption DEF Active, IInv, LibraryOK, EntriesOK, Ids
    <3>2. entries[t.from].type = t.type /\ ~Shadows(e, t.from)
      BY <2>1, <2>3, <3>1 DEF ThreadFrom
    <3>3. Rank(entries[e].scope) <= Rank(entries[t.from].scope)
      BY <2>3, <3>2 DEF Routed, OfLeastRank
    <3>4. entries[e].scope \in Scopes /\ entries[t.from].scope \in Scopes
      BY <1>1, <2>3 DEF Routed, OfLeastRank, Active, IInv, LibraryOK, EntriesOK, EntryRows
    <3> QED
      BY <3>2, <3>3, <3>4 DEF Shadows, Rank, Scopes
  <2>4. RoutedAsCreated
    BY <2>3 DEF RoutedAsCreated
  <2> QED
    BY <2>2, <2>4 DEF ThreadsFollowTheirEntry
<1> QED
  BY <1>1, SpecIInv, PTL

(* "Automated activity types require at least one activity prompt": a step  *)
(* of a request that was alone leaves no automated entry without prompts    *)
(* that was not one before. *)
LEMMA UpdateKeepsPrompts ==
  ASSUME IInv, SerialInv, ~overlapped, NEW r \in Requests, CommitUpdate(r),
         NEW e \in DOMAIN entries, ~Empty(e)
  PROVE  ~Empty(e)'
<1> PICK q : q = req[r]
  OBVIOUS
<1>1. DraftOK(r, q) /\ q.kind = "update" /\ Open(r)
  BY CommitMoves DEF CommitUpdate, Open
<1>2. RowFits(q)
  BY <1>1 DEF SerialInv, OpenFits, StillFits
<1>3. prompts' = prompts /\ entries' = [entries EXCEPT ![q.entry] = Patched(q)]
  BY DEF CommitUpdate, Patched
<1>4. CASE e = q.entry
  <2>1. entries'[e].automated = q.row.automated
    BY <1>1, <1>2, <1>3, <1>4, PatchedIs DEF RowFits
  <2> QED
    BY <1>2, <1>3, <1>4, <2>1 DEF RowFits, Empty, PromptsOf
<1>5. CASE e # q.entry
  BY <1>3, <1>5 DEF Empty, PromptsOf
<1> QED
  BY <1>4, <1>5

LEMMA PromptsKeepPrompts ==
  ASSUME IInv, SerialInv, ~overlapped, NEW r \in Requests, CommitPrompts(r),
         NEW e \in DOMAIN entries, ~Empty(e)
  PROVE  ~Empty(e)'
<1> PICK q : q = req[r]
  OBVIOUS
<1>1. DraftOK(r, q) /\ q.kind = "prompts" /\ Open(r)
  BY CommitMoves DEF CommitPrompts, Open
<1>2. q.seen = PromptsOf(q.entry) /\ (entries[q.entry].automated => q.count > 0)
  BY <1>1 DEF SerialInv, OpenFits, StillFits
<1>3. /\ entries' = entries
      /\ prompts' = (prompts \ q.seen) \cup
                    {Prompt(<<r, i>>, q.entry, i) : i \in 0..(q.count - 1)}
  BY DEF CommitPrompts
<1>4. CASE e = q.entry /\ entries[e].automated
  <2>1. 0 \in 0..(q.count - 1)
    BY <1>1, <1>2, <1>4 DEF DraftOK
  <2>2. Prompt(<<r, 0>>, e, 0) \in prompts'
    BY <1>3, <1>4, <2>1
  <2> QED
    BY <2>2 DEF Empty, PromptsOf, Prompt
<1>5. CASE e # q.entry /\ entries[e].automated
  <2>1. PICK p \in prompts : p.entry = e
    BY <1>5 DEF Empty, PromptsOf
  <2>2. p \in prompts'
    BY <1>2, <1>3, <1>5, <2>1 DEF PromptsOf
  <2> QED
    BY <2>1, <2>2 DEF Empty, PromptsOf
<1>6. CASE ~entries[e].automated
  BY <1>3, <1>6 DEF Empty
<1> QED
  BY <1>4, <1>5, <1>6

THEOREM SerialKeepsPromptsCorrect == Spec => SerialKeepsPrompts
<1>1. ASSUME IInv, SerialInv, [Next]_vars
      PROVE  [StaysAutomatable]_vars
  <2> SUFFICES ASSUME ~overlapped', NEW e \in DOMAIN entries, ~Empty(e), ~UNCHANGED vars
               PROVE  ~Empty(e)'
    BY DEF StaysAutomatable
  <2> PICK r \in Requests :
         \/ Serve(r) \/ DeletePrompts(r) \/ Abort(r) \/ MarkInsert(r)
         \/ CommitCreate(r) \/ CommitUpdate(r) \/ CommitPrompts(r) \/ CommitThread(r)
    BY <1>1 DEF Next
  <2>1. CASE Serve(r) \/ DeletePrompts(r) \/ Abort(r) \/ MarkInsert(r) \/ CommitThread(r)
    <3>1. UNCHANGED <<entries, prompts>>
      BY <1>1, <2>1, QuietStep DEF MarkInsert, CommitThread, libVars
    <3> QED
      BY <3>1 DEF Empty, PromptsOf
  <2>2. CASE CommitCreate(r)
    <3>1. r \notin DOMAIN entries
      BY <1>1, <2>2 DEF CommitCreate, Commits, IInv, FreshOK
    <3>2. entries'[e] = entries[e] /\ prompts' = prompts
      BY <2>2, <3>1 DEF CommitCreate
    <3> QED
      BY <3>2 DEF Empty, PromptsOf
  <2>3. CASE CommitUpdate(r)
    <3>1. ~overlapped
      BY <2>3 DEF CommitUpdate, Commits
    <3> QED
      BY <1>1, <2>3, <3>1, UpdateKeepsPrompts
  <2>4. CASE CommitPrompts(r)
    <3>1. ~overlapped
      BY <2>4 DEF CommitPrompts, Commits
    <3> QED
      BY <1>1, <2>4, <3>1, PromptsKeepPrompts
  <2> QED
    BY <2>1, <2>2, <2>3, <2>4
<1> QED
  BY <1>1, SpecIInv, SpecSerialInv, PTL DEF Spec, SerialKeepsPrompts

=============================================================================
