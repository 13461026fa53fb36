------------------------- MODULE InstructionsProofs -------------------------
(***************************************************************************)
(* Instruction versions, for every number of requests, users, layers and     *)
(* texts and every lifetime of a token: what is saved was approved for its   *)
(* layer, what is in force changes only by those who may, a set points at    *)
(* versions of its own, versions do not change, their numbers have no        *)
(* gaps, and a chat reads its own layers.                                    *)
(*                                                                           *)
(* A request's decision carries the argument from its reads to its commit:   *)
(* the approval it was let through by is still on record, the set it found   *)
(* is still the set of that slot, the version it names still belongs to      *)
(* that set, and nobody else uses the id it gives to new rows.               *)
(*                                                                           *)
(* The number a request takes is at most one more than the greatest of its *)
(* set, and numbers are never given back, so no gap opens whatever         *)
(* overlaps (NumberInv); without an overlap nobody else takes it, nor      *)
(* opens another set of its slot (SerialInv).                              *)
(***************************************************************************)
EXTENDS Authoring, FiniteSetTheorems, TLAPS

(* Sets have one row per id; versions belong to sets. *)
SetsOK ==
  /\ \A s \in sets : s.id \in Ids /\ s.slot \in Slots /\ s = SetRow(s.id, s.slot)
  /\ \A s, t \in sets : s.id = t.id => s = t
VersionsOK ==
  \A v \in versions : v.id \in Ids /\ \E s \in sets : s.id = v.set
ActiveOK == active \in [Ids -> Ids \cup {None}]
TokensOK ==
  \A t \in tokens :
    t.key = Key(t.for) /\ t.exp \in Nat /\ t.content \notin Blocking

(* A user got a text approved for the layer of a slot, in time. *)
WasApproved(user, slot, content, at) ==
  /\ content \notin Blocking
  /\ \E t \in tokens : /\ t.user = user /\ t.content = content
                       /\ SameLayer(t.for, slot) /\ at <= t.exp
VersionApproved(v) ==
  /\ pc[v.id] = "done"
  /\ \E s \in sets : s.id = v.set /\ WasApproved(v.by, s.slot, v.content, savedAt[v.id])
AllApproved == \A v \in versions : v.id \in Requests => VersionApproved(v)

(* What an open request decided. *)
SaveOK(r, q) ==
  /\ q.set = r \/ SetRow(q.set, q.slot) \in sets
  /\ WasApproved(q.user, q.slot, q.content, savedAt[r])
  /\ Entitled(q.user, q.slot)
ActivateOK(q) ==
  /\ SetRow(q.set, q.slot) \in sets
  /\ \E v \in versions : v.id = q.version /\ v.set = q.set
  /\ Entitled(q.user, q.slot)
DecisionOK(r, q) ==
  /\ q.kind \in {"open", "save", "activate"}
  /\ q.slot \in Slots
  /\ q.kind = "open" => q.set = r
  /\ q.kind = "save" => SaveOK(r, q)
  /\ q.kind = "activate" => ActivateOK(q)
DecisionsOK == \A r \in Requests : pc[r] = "writing" => DecisionOK(r, req[r])
RequestsOK ==
  /\ pc \in [Requests -> {"idle", "writing", "done"}]
  /\ DOMAIN req = Requests /\ DOMAIN savedAt = Requests
  /\ DecisionsOK
(* The id a request gives to its rows is new, and a set that is not there   *)
(* has no version in force. *)
FreshOK ==
  \A r \in Requests :
    pc[r] \in {"idle", "writing"} =>
      /\ active[r] = None
      /\ \A s \in sets : s.id # r
      /\ \A v \in versions : v.id # r

IInv ==
  /\ SetsOK /\ VersionsOK /\ ActiveOK /\ ActiveBelongs
  /\ now \in Nat /\ TokensOK /\ AllApproved
  /\ RequestsOK /\ FreshOK

(***************************************************************************)
(* Lemmas.                                                                 *)
(***************************************************************************)
(* The initial tables. *)
LEMMA InitIInv == ASSUME Init PROVE IInv
<1>1. \A i \in Seeded : i \in Ids /\ i \in Slots /\ i # None /\ i \notin Requests
  BY StoreAssumption DEF Ids
<1>2. SetsOK
  BY <1>1 DEF Init, StoreInit, SetsOK, SetRow
<1>3. \A v \in versions : v.id \in Seeded /\ v.set = v.id
  BY DEF Init, StoreInit, VersionRow
<1>4. \A i \in Seeded : SetRow(i, i) \in sets /\ VersionRow(i, i, 1, SeedText, Seeder) \in versions
  BY DEF Init, StoreInit
<1>5. VersionsOK
  BY <1>1, <1>3, <1>4 DEF VersionsOK, SetRow
<1>6. ActiveOK
  BY <1>1 DEF Init, StoreInit, ActiveOK
<1>7. ActiveBelongs
  <2> SUFFICES ASSUME NEW s \in sets, active[s.id] # None
               PROVE  \E v \in versions : v.id = active[s.id] /\ v.set = s.id
    BY DEF ActiveBelongs
  <2>1. s.id \in Seeded /\ active[s.id] = s.id
    BY <1>1 DEF Init, StoreInit, SetRow
  <2> QED
    BY <1>4, <2>1 DEF VersionRow
<1>8. now \in Nat /\ TokensOK
  BY DEF Init, TokensOK
<1>9. AllApproved
  BY <1>1, <1>3 DEF AllApproved
<1>10. RequestsOK
  BY DEF Init, RequestsOK, DecisionsOK
<1>11. FreshOK
  <2>1. \A r \in Requests : active[r] = None
    BY <1>1 DEF Init, StoreInit, Ids
  <2>2. \A s \in sets : s.id \in Seeded
    BY DEF Init, StoreInit, SetRow
  <2> QED
    BY <1>1, <1>3, <2>1, <2>2 DEF FreshOK
<1> QED
  BY <1>2, <1>5, <1>6, <1>7, <1>8, <1>9, <1>10, <1>11 DEF IInv

(* What was approved stays on record. *)
LEMMA ApprovalStays ==
  ASSUME tokens \subseteq tokens', NEW user, NEW slot, NEW content, NEW at,
         WasApproved(user, slot, content, at)
  PROVE  WasApproved(user, slot, content, at)'
BY DEF WasApproved

(* A decision stays right while rows are only added and its time is kept. *)
LEMMA DecisionStays ==
  ASSUME sets \subseteq sets', versions \subseteq versions', tokens \subseteq tokens',
         NEW r \in Requests, savedAt'[r] = savedAt[r], NEW q, DecisionOK(r, q)
  PROVE  DecisionOK(r, q)'
<1> PICK at : at = savedAt[r]
  OBVIOUS
<1>1. SaveOK(r, q) => SaveOK(r, q)'
  <2> SUFFICES ASSUME SaveOK(r, q) PROVE SaveOK(r, q)'
    OBVIOUS
  <2>1. WasApproved(q.user, q.slot, q.content, at)
    BY DEF SaveOK
  <2>2. WasApproved(q.user, q.slot, q.content, at)'
    BY <2>1, ApprovalStays
  <2>3. WasApproved(q.user, q.slot, q.content, savedAt[r])'
    BY <2>2 DEF WasApproved
  <2> QED
    BY <2>3 DEF SaveOK
<1>2. ActivateOK(q) => ActivateOK(q)'
  BY DEF ActivateOK
<1> QED
  BY <1>1, <1>2 DEF DecisionOK

(* The same for all requests but one. *)
LEMMA OthersStay ==
  ASSUME IInv, sets \subseteq sets', versions \subseteq versions', tokens \subseteq tokens',
         NEW r \in Requests, DOMAIN savedAt' = Requests, DOMAIN req' = Requests,
         pc' \in [Requests -> {"idle", "writing", "done"}],
         \A s \in Requests \ {r} :
           pc'[s] = pc[s] /\ req'[s] = req[s] /\ savedAt'[s] = savedAt[s],
         pc'[r] = "writing" => DecisionOK(r, req[r])'
  PROVE  RequestsOK'
<1>1. ASSUME NEW s \in Requests, s # r, pc'[s] = "writing"
      PROVE  DecisionOK(s, req[s])'
  <2> PICK d : d = req'[s]
    OBVIOUS
  <2>1. DecisionOK(s, d)
    BY <1>1 DEF IInv, RequestsOK, DecisionsOK
  <2>2. DecisionOK(s, d)'
    BY <1>1, <2>1, DecisionStays
  <2> QED
    BY <2>2 DEF DecisionOK, SaveOK, ActivateOK, WasApproved
<1> QED
  BY <1>1 DEF RequestsOK, DecisionsOK

(* What is about the tables does not change with them. *)
LEMMA RowsStay ==
  ASSUME IInv, UNCHANGED storeVars
  PROVE  SetsOK' /\ VersionsOK' /\ ActiveOK' /\ ActiveBelongs'
BY DEF IInv, storeVars, SetsOK, VersionsOK, ActiveOK, ActiveBelongs

(* Versions that were approved stay so when the times of their saves do. *)
LEMMA ApprovedStay ==
  ASSUME IInv, UNCHANGED storeVars, tokens \subseteq tokens',
         \A s \in Requests : pc[s] = "done" => pc'[s] = "done" /\ savedAt'[s] = savedAt[s]
  PROVE  AllApproved'
<1> SUFFICES ASSUME NEW v \in versions, v.id \in Requests
             PROVE  VersionApproved(v)'
  BY DEF AllApproved, storeVars
<1>1. pc[v.id] = "done" /\ pc'[v.id] = "done" /\ savedAt'[v.id] = savedAt[v.id]
  BY DEF IInv, AllApproved, VersionApproved
<1>2. PICK s \in sets : s.id = v.set /\ WasApproved(v.by, s.slot, v.content, savedAt[v.id])
  BY DEF IInv, AllApproved, VersionApproved
<1>3. WasApproved(v.by, s.slot, v.content, savedAt[v.id])'
  BY <1>1, <1>2 DEF WasApproved
<1> QED
  BY <1>1, <1>2, <1>3 DEF VersionApproved, storeVars

(* A request that decides rightly keeps the invariant. *)
LEMMA DecidesKeeps ==
  ASSUME IInv, NEW r \in Requests, NEW q, Decides(r, q),
         savedAt' = savedAt \/ savedAt' = [savedAt EXCEPT ![r] = now],
         DecisionOK(r, q)'
  PROVE  IInv'
<1>1. pc[r] = "idle" /\ UNCHANGED <<storeVars, tokens, now>>
  BY DEF Decides
<1>2. RequestsOK'
  <2>1. req'[r] = q
    BY DEF Decides, IInv, RequestsOK
  <2>2. DecisionOK(r, req[r])'
    BY <2>1 DEF DecisionOK, SaveOK, ActivateOK, WasApproved
  <2>3. /\ pc' \in [Requests -> {"idle", "writing", "done"}]
        /\ DOMAIN savedAt' = Requests /\ DOMAIN req' = Requests
        /\ \A s \in Requests \ {r} :
             pc'[s] = pc[s] /\ req'[s] = req[s] /\ savedAt'[s] = savedAt[s]
    BY DEF Decides, IInv, RequestsOK
  <2>4. sets \subseteq sets' /\ versions \subseteq versions' /\ tokens \subseteq tokens'
    BY <1>1 DEF storeVars
  <2> QED
    BY <2>2, <2>3, <2>4, OthersStay
<1>3. AllApproved'
  <2>1. \A s \in Requests : pc[s] = "done" => pc'[s] = "done" /\ savedAt'[s] = savedAt[s]
    BY <1>1 DEF Decides, IInv, RequestsOK
  <2> QED
    BY <1>1, <2>1, ApprovedStay
<1>4. FreshOK'
  BY <1>1 DEF FreshOK, Decides, storeVars, IInv, RequestsOK
<1>5. now' \in Nat /\ TokensOK'
  BY <1>1 DEF IInv, TokensOK
<1> QED
  BY <1>1, <1>2, <1>3, <1>4, <1>5, RowsStay DEF IInv

(***************************************************************************)
(* The steps.                                                              *)
(***************************************************************************)
(* Who saves or activates at a layer is entitled to. *)
LEMMA WritersAreEntitled ==
  ASSUME NEW u, NEW s, Saves(u, s) \/ Activates(u, s)
  PROVE  Entitled(u, s)
BY DEF Saves, Activates, SaveStudio, SaveCluster, SaveTask, SaveThread, ActivateStudio,
  ActivateCluster, ActivateTask, ActivateThread, Studio, MayWriteStudio, Owned, Entitled

(* A request that is served decides rightly. *)
LEMMA ServeStep ==
  ASSUME IInv, NEW r \in Requests, Serve(r)
  PROVE  IInv'
<1> PICK u \in Users, s \in Slots :
      \/ Opens(u, s) /\ Open(r, u, s)
      \/ Activates(u, s) /\ Activate(r, u, s)
      \/ Saves(u, s) /\ \E c \in Contents : Save(r, u, s, c)
  BY DEF Serve
<1>1. CASE Open(r, u, s)
  <2> PICK q : q = [kind |-> "open", user |-> u, slot |-> s, set |-> r]
    OBVIOUS
  <2>1. Decides(r, q) /\ savedAt' = savedAt
    BY <1>1 DEF Open
  <2>2. DecisionOK(r, q)'
    BY DEF DecisionOK
  <2> QED
    BY <2>1, <2>2, DecidesKeeps
<1>2. CASE Activates(u, s) /\ Activate(r, u, s)
  <2> PICK set \in SetsOf(s) : \E v \in VersionsOf(set) :
         Decides(r, [kind |-> "activate", user |-> u, slot |-> s, set |-> set,
                     version |-> v.id])
    BY <1>2 DEF Activate
  <2> PICK v \in VersionsOf(set) :
         Decides(r, [kind |-> "activate", user |-> u, slot |-> s, set |-> set,
                     version |-> v.id])
    OBVIOUS
  <2> PICK q : q = [kind |-> "activate", user |-> u, slot |-> s, set |-> set,
                    version |-> v.id]
    OBVIOUS
  <2>1. Decides(r, q) /\ savedAt' = savedAt
    BY <1>2 DEF Activate
  <2>2. SetRow(set, s) \in sets /\ v \in versions /\ v.set = set
    BY DEF SetsOf, VersionsOf, IInv, SetsOK
  <2>3. Entitled(u, s)
    BY <1>2, WritersAreEntitled
  <2>4. DecisionOK(r, q)'
    BY <2>1, <2>2, <2>3 DEF DecisionOK, ActivateOK, Decides, storeVars, Entitled
  <2> QED
    BY <2>1, <2>4, DecidesKeeps
<1>3. CASE Saves(u, s) /\ \E c \in Contents : Save(r, u, s, c)
  <2> PICK c \in Contents : Save(r, u, s, c)
    BY <1>3
  <2> PICK set \in Candidates(r, s) :
         Decides(r, [kind |-> "save", user |-> u, slot |-> s, set |-> set,
                     number |-> NextNumber(set), content |-> c,
                     activates |-> active[set] = None])
    BY DEF Save
  <2> PICK q : q = [kind |-> "save", user |-> u, slot |-> s, set |-> set,
                    number |-> NextNumber(set), content |-> c,
                    activates |-> active[set] = None]
    OBVIOUS
  <2>1. Decides(r, q) /\ savedAt' = [savedAt EXCEPT ![r] = now]
    BY DEF Save
  <2>2. set = r \/ SetRow(set, s) \in sets
    BY DEF Candidates, SetsOf, IInv, SetsOK
  <2>3. PICK t \in tokens : t.user = u /\ t.key = Key(s) /\ t.content = c /\ ~(t.exp < now)
    BY DEF Save, Approved
  <2>4. t.key = Key(t.for) /\ t.exp \in Nat /\ c \notin Blocking /\ now <= t.exp
    BY <2>3 DEF IInv, TokensOK
  <2>5. SameLayer(t.for, s)
    BY <2>3, <2>4 DEF Key, SameLayer
  <2> PICK at : at = now
    OBVIOUS
  <2>6. WasApproved(u, s, c, at)
    BY <2>3, <2>4, <2>5 DEF WasApproved
  <2>7. tokens' = tokens /\ sets' = sets /\ savedAt'[r] = at
    BY <2>1 DEF Decides, storeVars, IInv, RequestsOK
  <2>8. WasApproved(u, s, c, savedAt[r])'
    BY <2>6, <2>7 DEF WasApproved
  <2>9. Entitled(u, s)
    BY <1>3, WritersAreEntitled
  <2>10. SaveOK(r, q)'
    BY <2>2, <2>7, <2>8, <2>9 DEF SaveOK, Entitled
  <2>11. DecisionOK(r, q)'
    BY <2>10 DEF DecisionOK
  <2> QED
    BY <2>1, <2>11, DecidesKeeps
<1> QED
  BY <1>1, <1>2, <1>3

(* The clock and the checks, which only add tokens. *)
LEMMA ApprovalStep ==
  ASSUME IInv, Tick \/ \E u \in Users, s \in Slots, c \in Contents : Check(u, s, c)
  PROVE  IInv'
<1>1. /\ UNCHANGED <<storeVars, req, pc, savedAt>>
      /\ tokens \subseteq tokens'
      /\ now' \in Nat
  BY InstructionAssumption DEF Tick, Check, IInv
<1>2. TokensOK'
  <2>1. CASE Tick
    BY <2>1 DEF Tick, IInv, TokensOK, Key
  <2>2. ASSUME NEW u \in Users, NEW s \in Slots, NEW c \in Contents, Check(u, s, c)
        PROVE  TokensOK'
    <3> PICK t : t = Token(u, s, c)
      OBVIOUS
    <3>1. t.key = Key(t.for) /\ t.exp \in Nat /\ t.content \notin Blocking
      BY <2>2, InstructionAssumption DEF Token, Check, PassesRules, IInv
    <3>2. tokens' = tokens \cup {t}
      BY <2>2 DEF Check
    <3> QED
      BY <3>1, <3>2 DEF IInv, TokensOK, Key
  <2> QED
    BY <2>1, <2>2
<1>3. RequestsOK'
  <2>1. ASSUME NEW s \in Requests, pc'[s] = "writing"
        PROVE  DecisionOK(s, req[s])'
    <3> PICK d : d = req[s]
      OBVIOUS
    <3>1. DecisionOK(s, d)
      BY <1>1, <2>1 DEF IInv, RequestsOK, DecisionsOK
    <3>2. DecisionOK(s, d)'
      BY <1>1, <3>1, DecisionStays DEF storeVars
    <3> QED
      BY <1>1, <3>2 DEF DecisionOK, SaveOK, ActivateOK, WasApproved
  <2> QED
    BY <1>1, <2>1 DEF IInv, RequestsOK, DecisionsOK
<1>4. AllApproved'
  BY <1>1, ApprovedStay
<1>5. FreshOK'
  BY <1>1 DEF IInv, FreshOK, storeVars
<1> QED
  BY <1>1, <1>2, <1>3, <1>4, <1>5, RowsStay DEF IInv

(* A request that fails leaves nothing, and no version has its id. *)
LEMMA AbortStep ==
  ASSUME IInv, NEW r \in Requests, Abort(r)
  PROVE  IInv'
<1>1. /\ UNCHANGED <<storeVars, tokens, now>>
      /\ pc[r] = "writing" /\ pc' = [pc EXCEPT ![r] = "done"]
      /\ \A s \in Requests \ {r} :
           pc'[s] = pc[s] /\ req'[s] = req[s] /\ savedAt'[s] = savedAt[s]
      /\ DOMAIN savedAt' = Requests /\ DOMAIN req' = Requests
      /\ pc' \in [Requests -> {"idle", "writing", "done"}] /\ pc'[r] = "done"
  BY DEF Abort, IInv, RequestsOK
<1>2. RequestsOK'
  BY <1>1, OthersStay DEF storeVars
<1>3. AllApproved'
  <2>1. \A s \in Requests : pc[s] = "done" => pc'[s] = "done" /\ savedAt'[s] = savedAt[s]
    BY <1>1
  <2> QED
    BY <1>1, <2>1, ApprovedStay
<1>4. FreshOK'
  BY <1>1 DEF IInv, RequestsOK, FreshOK, storeVars
<1>5. now' \in Nat /\ TokensOK'
  BY <1>1 DEF IInv, TokensOK
<1> QED
  BY <1>1, <1>2, <1>3, <1>4, <1>5, RowsStay DEF IInv

(* What a commit adds, and where it points the set. *)
InsertedBy(r, q) == IF q.set = r THEN {SetRow(r, q.slot)} ELSE {}
LEMMA CommitStep ==
  ASSUME IInv, NEW r \in Requests, Commit(r)
  PROVE  /\ IInv'
         /\ KeepsVersions
         /\ ChangesAreEntitled
<1> USE DEF IInv
<1> PICK q : q = req[r]
  OBVIOUS
<1> PICK at : at = savedAt[r]
  OBVIOUS
<1> DEFINE new == VersionRow(r, q.set, q.number, q.content, q.user)
           row == SetRow(q.set, q.slot)
<1>1. DecisionOK(r, q) /\ pc[r] = "writing"
  BY DEF Commit, RequestsOK, DecisionsOK
<1>2. (\A s \in sets : s.id # r) /\ (\A v \in versions : v.id # r)
  BY <1>1 DEF FreshOK
<1>3. /\ r \in Ids /\ r # None
      /\ q.set \in Ids
  BY <1>1, StoreAssumption DEF Ids, DecisionOK, SaveOK, ActivateOK, SetsOK, SetRow
<1>4. /\ tokens' = tokens /\ now' = now /\ savedAt' = savedAt
      /\ pc' = [pc EXCEPT ![r] = "done"] /\ req' = [req EXCEPT ![r] = NoReq]
      /\ sets' = sets \cup InsertedBy(r, q)
      /\ versions' = IF q.kind = "save" THEN versions \cup {new} ELSE versions
  BY DEF Commit, Inserted, NewVersion, InsertedBy
<1>5. row \in sets' /\ row.id = q.set /\ row.slot = q.slot
  BY <1>1, <1>4 DEF DecisionOK, SaveOK, ActivateOK, InsertedBy, SetRow
<1>6. \A s \in sets' : s \in sets \/ (s = SetRow(r, q.slot) /\ q.set = r)
  BY <1>4 DEF InsertedBy
<1>7. SetsOK'
  <2>1. \A s \in sets' : s.id \in Ids /\ s.slot \in Slots /\ s = SetRow(s.id, s.slot)
    BY <1>1, <1>3, <1>6 DEF SetsOK, SetRow, DecisionOK
  <2>2. \A s, t \in sets' : s.id = t.id => s = t
    BY <1>2, <1>6 DEF SetsOK, SetRow
  <2> QED
    BY <2>1, <2>2 DEF SetsOK, Ids
<1>8. new.id = r /\ new.set = q.set /\ new.content = q.content /\ new.by = q.user
  BY DEF VersionRow
<1> HIDE DEF new, row
<1>9. sets \subseteq sets' /\ versions \subseteq versions' /\ tokens \subseteq tokens'
  BY <1>4
<1>10. VersionsOK'
  <2> SUFFICES ASSUME NEW v \in versions'
               PROVE  v.id \in Ids /\ \E s \in sets' : s.id = v.set
    BY DEF VersionsOK, Ids
  <2>1. CASE v = new
    BY <1>3, <1>5, <1>8, <2>1
  <2>2. CASE v \in versions
    BY <1>9, <2>2 DEF VersionsOK
  <2> QED
    BY <1>4, <2>1, <2>2
<1>11. \/ active' = active
       \/ /\ q.kind = "save" /\ active' = [active EXCEPT ![q.set] = r]
          /\ new \in versions'
       \/ q.kind = "activate" /\ active' = [active EXCEPT ![q.set] = q.version]
  BY <1>1, <1>4 DEF Commit, DecisionOK
<1>12. \/ active' = active
       \/ \E v \in versions' : /\ v.set = q.set /\ v.id \in Ids
                               /\ active' = [active EXCEPT ![q.set] = v.id]
                               /\ q.kind \in {"save", "activate"}
  <2>1. CASE q.kind = "save" /\ active' = [active EXCEPT ![q.set] = r] /\ new \in versions'
    BY <1>3, <1>8, <2>1
  <2>2. CASE q.kind = "activate" /\ active' = [active EXCEPT ![q.set] = q.version]
    <3>1. PICK v \in versions : v.id = q.version /\ v.set = q.set
      BY <1>1, <2>2 DEF DecisionOK, ActivateOK
    <3> QED
      BY <1>9, <2>2, <3>1 DEF VersionsOK
  <2> QED
    BY <1>11, <2>1, <2>2
<1>13. ActiveOK'
  BY <1>12 DEF ActiveOK, Ids
<1>14. ActiveBelongs'
  <2> SUFFICES ASSUME NEW s \in sets', active'[s.id] # None
               PROVE  \E v \in versions' : v.id = active'[s.id] /\ v.set = s.id
    BY DEF ActiveBelongs
  <2>1. CASE s \in sets /\ active'[s.id] = active[s.id]
    BY <1>9, <2>1 DEF ActiveBelongs
  <2>2. CASE s \notin sets /\ active'[s.id] = active[s.id]
    <3>1. s.id = r /\ active[r] # None
      BY <1>6, <2>2 DEF SetRow
    <3>2. active[r] = None
      BY <1>1 DEF FreshOK
    <3> QED
      BY <3>1, <3>2
  <2>3. CASE active'[s.id] # active[s.id]
    <3>1. PICK v \in versions' : /\ v.set = q.set /\ v.id \in Ids
                                 /\ active' = [active EXCEPT ![q.set] = v.id]
      BY <1>12, <2>3
    <3>2. s.id = q.set
      BY <2>3, <3>1
    <3>3. active'[s.id] = v.id
      BY <1>3, <3>1, <3>2 DEF ActiveOK
    <3> QED
      BY <3>1, <3>2, <3>3
  <2> QED
    BY <2>1, <2>2, <2>3
<1>15. AllApproved'
  <2> SUFFICES ASSUME NEW v \in versions', v.id \in Requests
               PROVE  VersionApproved(v)'
    BY DEF AllApproved
  <2>1. CASE v \in versions
    <3>1. pc[v.id] = "done"
      BY <2>1 DEF AllApproved, VersionApproved
    <3>2. PICK s \in sets :
            s.id = v.set /\ WasApproved(v.by, s.slot, v.content, savedAt[v.id])
      BY <2>1 DEF AllApproved, VersionApproved
    <3>3. WasApproved(v.by, s.slot, v.content, savedAt[v.id])'
      BY <1>4, <3>2 DEF WasApproved
    <3>4. pc'[v.id] = "done"
      BY <1>4, <3>1 DEF RequestsOK
    <3> QED
      BY <1>9, <3>2, <3>3, <3>4 DEF VersionApproved
  <2>2. CASE v = new /\ q.kind = "save"
    <3>1. WasApproved(q.user, q.slot, q.content, savedAt[r])
      BY <1>1, <2>2 DEF DecisionOK, SaveOK
    <3>2. WasApproved(q.user, q.slot, q.content, savedAt[r])'
      BY <1>4, <3>1 DEF WasApproved
    <3>3. pc'[r] = "done"
      BY <1>4 DEF RequestsOK
    <3>4. v.id = r /\ v.by = q.user /\ v.content = q.content /\ v.set = q.set
      BY <1>8, <2>2
    <3> QED
      BY <1>5, <3>2, <3>3, <3>4 DEF VersionApproved, WasApproved
  <2> QED
    BY <1>4, <2>1, <2>2
<1>16. RequestsOK'
  <2>1. /\ \A s \in Requests \ {r} :
             pc'[s] = pc[s] /\ req'[s] = req[s] /\ savedAt'[s] = savedAt[s]
        /\ DOMAIN savedAt' = Requests /\ DOMAIN req' = Requests
        /\ pc' \in [Requests -> {"idle", "writing", "done"}] /\ pc'[r] = "done"
    BY <1>4 DEF RequestsOK
  <2> QED
    BY <1>9, <2>1, OthersStay
<1>17. FreshOK'
  <2> SUFFICES ASSUME NEW s \in Requests, pc'[s] \in {"idle", "writing"}
               PROVE  /\ active'[s] = None
                      /\ (\A t \in sets' : t.id # s) /\ (\A v \in versions' : v.id # s)
    BY DEF FreshOK
  <2>1. s # r /\ pc[s] \in {"idle", "writing"}
    BY <1>4 DEF RequestsOK
  <2>2. q.set # s
    BY <1>5, <1>6, <2>1 DEF FreshOK, SetRow
  <2>3. active'[s] = None
    <3>1. active[s] = None /\ s \in Ids
      BY <2>1 DEF FreshOK, Ids
    <3>2. active'[s] = active[s]
      BY <1>12, <2>2, <3>1 DEF ActiveOK
    <3> QED
      BY <3>1, <3>2
  <2> QED
    BY <1>4, <1>6, <1>8, <2>1, <2>3 DEF FreshOK, SetRow
<1>18. now' \in Nat /\ TokensOK'
  BY <1>4 DEF TokensOK
<1>19. KeepsVersions
  BY <1>3, <1>9, <1>12, StoreAssumption DEF KeepsVersions, ActiveOK, Ids
<1>20. ChangesAreEntitled
  <2> SUFFICES ASSUME NEW i \in Ids, active'[i] # active[i]
               PROVE  \E s \in Requests :
                        /\ pc[s] = "writing" /\ pc'[s] = "done"
                        /\ req[s].set = i /\ Entitled(req[s].user, req[s].slot)
    BY DEF ChangesAreEntitled
  <2>1. q.set = i /\ q.kind \in {"save", "activate"}
    BY <1>3, <1>12 DEF ActiveOK
  <2>2. Entitled(q.user, q.slot)
    BY <1>1, <2>1 DEF DecisionOK, SaveOK, ActivateOK
  <2>3. pc'[r] = "done"
    BY <1>4 DEF RequestsOK
  <2> QED
    BY <1>1, <2>1, <2>2, <2>3
<1> QED
  BY <1>7, <1>10, <1>13, <1>14, <1>15, <1>16, <1>17, <1>18, <1>19, <1>20

(* Every step keeps the invariant, and what is said of steps. *)
LEMMA NextIInv ==
  ASSUME IInv, [Next]_vars
  PROVE  IInv'
<1>1. CASE UNCHANGED vars
  <2>1. RequestsOK' /\ AllApproved' /\ FreshOK' /\ now' \in Nat /\ TokensOK'
    BY <1>1 DEF vars, storeVars, IInv, RequestsOK, DecisionsOK, DecisionOK, SaveOK, ActivateOK,
      WasApproved, AllApproved, VersionApproved, FreshOK, TokensOK
  <2> QED
    BY <1>1, <2>1, RowsStay DEF vars, IInv
<1>2. CASE Tick \/ \E u \in Users, s \in Slots, c \in Contents : Check(u, s, c)
  BY <1>2, ApprovalStep
<1>3. ASSUME NEW r \in Requests, Serve(r) \/ Commit(r) \/ Abort(r)
      PROVE  IInv'
  BY <1>3, ServeStep, CommitStep, AbortStep
<1> QED
  BY <1>1, <1>2, <1>3 DEF Next

LEMMA SpecIInv == Spec => []IInv
<1>1. Init => IInv
  BY InitIInv
<1>2. IInv /\ [Next]_vars => IInv'
  BY NextIInv
<1> QED
  BY <1>1, <1>2, PTL DEF Spec

(* A step commits, or leaves the tables as they are. *)
LEMMA OnlyCommitsWrite ==
  ASSUME [Next]_vars
  PROVE  UNCHANGED storeVars \/ \E r \in Requests : Commit(r)
<1>1. \A u, s, c : Check(u, s, c) => UNCHANGED storeVars
  BY DEF Check
<1>2. Tick \/ UNCHANGED vars => UNCHANGED storeVars
  BY DEF Tick, vars
<1>3. \A r : Abort(r) => UNCHANGED storeVars
  BY DEF Abort
<1>4. \A r, u, s : Open(r, u, s) \/ Activate(r, u, s) => UNCHANGED storeVars
  BY DEF Open, Activate, Decides
<1>5. \A r, u, s, c : Save(r, u, s, c) => UNCHANGED storeVars
  BY DEF Save, Decides
<1>6. \A r : Serve(r) => UNCHANGED storeVars
  BY <1>4, <1>5, Zenon DEF Serve
<1> QED
  BY <1>1, <1>2, <1>3, <1>6 DEF Next

(***************************************************************************)
(* The numbers of versions.                                                *)
(***************************************************************************)
NumbersUpTo(i, n) == {v.number : v \in VersionsOf(i)} = 1..n
(* The requests that saved a version. *)
Saved == {r \in Requests : \E v \in versions : v.id = r}
SavedCount == Cardinality(Saved)

VersionRows == [id : Ids, set : Ids, number : Nat, content : Contents, by : Users]
VersionRowsOK ==
  /\ versions \subseteq VersionRows
  /\ \A v, w \in versions : v.id = w.id => v = w
(* No gaps, and no number but the seed's without a save. *)
NumbersOK ==
  \A i \in Ids : \E n \in Nat : NumbersUpTo(i, n) /\ n <= SavedCount + 1
(* A set of a thread has no thread type. *)
ThreadsUntyped == \A s \in sets : Level[s.slot] = "thread" => s.slot \notin Typed

(* The number an open save took may be taken by others meanwhile, and is   *)
(* never beyond the next one. *)
NumberFits(q) == \E n \in Nat : NumbersUpTo(q.set, n) /\ q.number \in 1..(n + 1)
DraftOK(q) ==
  /\ q.kind = "save" => q.content \in Contents /\ q.user \in Users /\ NumberFits(q)
  /\ q.kind \in {"open", "save"} => (Level[q.slot] = "thread" => q.slot \notin Typed)
DraftsOK == \A r \in Requests : pc[r] = "writing" => DraftOK(req[r])

NumberInv == VersionRowsOK /\ NumbersOK /\ ThreadsUntyped /\ DraftsOK

(* What an open request saw still holds of the tables. *)
StillFits(r, q) ==
  /\ q.kind \in {"open", "save"} /\ q.set = r => SetsOf(q.slot) = {}
  /\ q.kind = "save" => \A v \in VersionsOf(q.set) : v.number # q.number
OneOpen == \A r, s \in Requests : pc[r] = "writing" /\ pc[s] = "writing" => r = s
OpenFits == \A r \in Requests : pc[r] = "writing" => StillFits(r, req[r])
SetsUnique == \A s, t \in sets : s.slot = t.slot => s = t
NumbersUnique == \A v, w \in versions : v.set = w.set /\ v.number = w.number => v = w
SerialInv == ~overlapped => OneOpen /\ OpenFits /\ SetsUnique /\ NumbersUnique

(* Two intervals from 1 are the same only if they end at the same number. *)
LEMMA IntervalEnd ==
  ASSUME NEW m \in Nat, NEW n \in Nat, 1..m = 1..n
  PROVE  m = n
<1>1. m > n => m \in 1..m /\ m \notin 1..n
  OBVIOUS
<1>2. n > m => n \in 1..n /\ n \notin 1..m
  OBVIOUS
<1> QED
  BY <1>1, <1>2

(* The next number is one beyond the numbers there are. *)
LEMMA NextNumberIs ==
  ASSUME NEW i, NEW n \in Nat, NumbersUpTo(i, n)
  PROVE  NextNumber(i) = n + 1
<1>1. CASE VersionsOf(i) = {}
  <2>1. 1..n = {}
    BY <1>1 DEF NumbersUpTo
  <2>2. n = 0
    BY <2>1
  <2> QED
    BY <1>1, <2>2 DEF NextNumber
<1>2. CASE VersionsOf(i) # {}
  <2>1. n \in 1..n
    BY <1>2 DEF NumbersUpTo
  <2>2. Max(1..n) \in 1..n /\ \A y \in 1..n : Max(1..n) >= y
    BY <2>1 DEF Max
  <2>3. Max(1..n) = n
    BY <2>1, <2>2
  <2> QED
    BY <1>2, <2>3 DEF NextNumber, NumbersUpTo
<1> QED
  BY <1>1, <1>2

LEMMA SavedFinite == IsFiniteSet(Saved) /\ SavedCount \in Nat /\ SavedCount <= Cardinality(Requests)
<1>1. Saved \in SUBSET Requests
  BY DEF Saved
<1> QED
  BY <1>1, StoreAssumption, FS_Subset, FS_CardinalityType DEF SavedCount

LEMMA InitNumberInv == ASSUME Init PROVE NumberInv
<1>1. \A i \in Seeded : i \in Ids /\ i \in Slots /\ i \notin Requests
  BY StoreAssumption DEF Ids
<1>2. /\ \A v \in versions : v.id \in Seeded /\ v = VersionRow(v.id, v.id, 1, SeedText, Seeder)
      /\ \A i \in Seeded : VersionRow(i, i, 1, SeedText, Seeder) \in versions
  BY DEF Init, StoreInit, VersionRow
<1>3. VersionRowsOK
  BY <1>1, <1>2, StoreAssumption DEF VersionRowsOK, VersionRows, VersionRow
<1>4. NumbersOK
  <2> SUFFICES ASSUME NEW i \in Ids
               PROVE  \E n \in Nat : NumbersUpTo(i, n) /\ n <= SavedCount + 1
    BY DEF NumbersOK
  <2>1. CASE i \in Seeded
    <3>1. VersionsOf(i) = {VersionRow(i, i, 1, SeedText, Seeder)}
      BY <1>2, <2>1 DEF VersionsOf, VersionRow
    <3>2. {v.number : v \in VersionsOf(i)} = {1}
      BY <3>1 DEF VersionRow
    <3>3. NumbersUpTo(i, 1)
      BY <3>2 DEF NumbersUpTo
    <3> QED
      BY <3>3, SavedFinite
  <2>2. CASE i \notin Seeded
    <3>1. VersionsOf(i) = {}
      BY <1>2, <2>2 DEF VersionsOf, VersionRow
    <3>2. NumbersUpTo(i, 0)
      BY <3>1 DEF NumbersUpTo
    <3> QED
      BY <3>2, SavedFinite
  <2> QED
    BY <2>1, <2>2
<1>5. ThreadsUntyped
  BY InstructionAssumption DEF Init, StoreInit, ThreadsUntyped, SetRow
<1>6. DraftsOK
  BY DEF Init, DraftsOK
<1> QED
  BY <1>3, <1>4, <1>5, <1>6 DEF NumberInv

LEMMA InitSerialInv == ASSUME Init PROVE SerialInv
<1>1. \A r \in Requests : pc[r] # "writing"
  BY DEF Init
<1>2. SetsUnique
  BY DEF Init, StoreInit, SetsUnique, SetRow
<1>3. NumbersUnique
  BY DEF Init, StoreInit, NumbersUnique, VersionRow
<1> QED
  BY <1>1, <1>2, <1>3 DEF SerialInv, OneOpen, OpenFits

(* What a request decides, of the tables it read. *)
LEMMA ServeDecides ==
  ASSUME IInv, NumberInv, NEW r \in Requests, Serve(r)
  PROVE  \E q : Decides(r, q) /\ DraftOK(q) /\ StillFits(r, q)
<1> PICK u \in Users, s \in Slots :
      \/ Opens(u, s) /\ Open(r, u, s)
      \/ Activates(u, s) /\ Activate(r, u, s)
      \/ Saves(u, s) /\ \E c \in Contents : Save(r, u, s, c)
  BY DEF Serve
<1>1. Opens(u, s) \/ Saves(u, s) => (Level[s] = "thread" => s \notin Typed)
  BY DEF Opens, Saves, GetStudio, GetCluster, GetTask, GetThread, SaveStudio, SaveCluster,
    SaveTask, SaveThread, Studio, Owned
<1>2. CASE Opens(u, s) /\ Open(r, u, s)
  <2> PICK q : q = [kind |-> "open", user |-> u, slot |-> s, set |-> r]
    OBVIOUS
  <2>1. Decides(r, q) /\ SetsOf(s) = {}
    BY <1>2 DEF Open
  <2>2. q.kind = "open" /\ q.slot = s /\ q.set = r
    OBVIOUS
  <2>3. DraftOK(q) /\ StillFits(r, q)
    BY <1>1, <1>2, <2>1, <2>2 DEF DraftOK, StillFits
  <2> QED
    BY <2>1, <2>3
<1>3. CASE Activate(r, u, s)
  <2>1. PICK set, v : Decides(r, [kind |-> "activate", user |-> u, slot |-> s, set |-> set,
                                  version |-> v.id])
    BY <1>3 DEF Activate
  <2> PICK q : q = [kind |-> "activate", user |-> u, slot |-> s, set |-> set, version |-> v.id]
    OBVIOUS
  <2>2. DraftOK(q) /\ StillFits(r, q)
    BY DEF DraftOK, StillFits
  <2> QED
    BY <2>1, <2>2
<1>4. CASE Saves(u, s) /\ \E c \in Contents : Save(r, u, s, c)
  <2> PICK c \in Contents : Save(r, u, s, c)
    BY <1>4
  <2> PICK set \in Candidates(r, s) :
         Decides(r, [kind |-> "save", user |-> u, slot |-> s, set |-> set,
                     number |-> NextNumber(set), content |-> c,
                     activates |-> active[set] = None])
    BY DEF Save
  <2> PICK q : q = [kind |-> "save", user |-> u, slot |-> s, set |-> set,
                    number |-> NextNumber(set), content |-> c,
                    activates |-> active[set] = None]
    OBVIOUS
  <2>1. /\ q.kind = "save" /\ q.slot = s /\ q.set = set /\ q.content = c /\ q.user = u
        /\ q.number = NextNumber(set)
    OBVIOUS
  <2>2. set \in Ids /\ (set = r => SetsOf(s) = {})
    <3>1. r \notin SetsOf(s) /\ SetsOf(s) \subseteq Ids
      BY DEF Save, Decides, IInv, FreshOK, SetsOK, SetsOf
    <3> QED
      BY <3>1 DEF Candidates, Ids
  <2>3. PICK n \in Nat : NumbersUpTo(set, n)
    BY <2>2 DEF NumberInv, NumbersOK
  <2>4. q.number = n + 1
    BY <2>1, <2>3, NextNumberIs
  <2>5. NumberFits(q)
    BY <2>1, <2>3, <2>4 DEF NumberFits
  <2>6. \A v \in VersionsOf(set) : v.number \in 1..n
    BY <2>3 DEF NumbersUpTo
  <2>7. StillFits(r, q)
    BY <2>1, <2>2, <2>4, <2>6 DEF StillFits
  <2>8. DraftOK(q)
    BY <1>1, <1>4, <2>1, <2>5 DEF DraftOK
  <2> QED
    BY <2>1, <2>7, <2>8
<1> QED
  BY <1>2, <1>3, <1>4

(* Steps that leave the tables alone: what is decided stays fitting. *)
LEMMA DraftStays ==
  ASSUME UNCHANGED storeVars, NEW r, NEW q
  PROVE  /\ DraftOK(q) => DraftOK(q)'
         /\ StillFits(r, q) => StillFits(r, q)'
BY DEF storeVars, DraftOK, NumberFits, NumbersUpTo, VersionsOf, StillFits, SetsOf

LEMMA NumbersStay ==
  ASSUME NumberInv, UNCHANGED storeVars,
         \A s \in Requests : pc'[s] = "writing" => \/ pc[s] = "writing" /\ req'[s] = req[s]
                                                  \/ DraftOK(req'[s])
  PROVE  NumberInv'
<1>1. VersionRowsOK' /\ NumbersOK' /\ ThreadsUntyped'
  BY DEF NumberInv, VersionRowsOK, NumbersOK, ThreadsUntyped, NumbersUpTo, VersionsOf, SavedCount,
    Saved, storeVars
<1>2. ASSUME NEW s \in Requests, pc'[s] = "writing"
      PROVE  DraftOK(req[s])'
  <2> PICK q : q = req'[s]
    OBVIOUS
  <2>1. DraftOK(q)
    BY <1>2 DEF NumberInv, DraftsOK
  <2>2. DraftOK(q)'
    BY <2>1, DraftStays
  <2> QED
    BY <2>2 DEF DraftOK, NumberFits, NumbersUpTo, VersionsOf
<1> QED
  BY <1>1, <1>2 DEF NumberInv, DraftsOK

LEMMA SerialStays ==
  ASSUME SerialInv, UNCHANGED storeVars, overlapped' = overlapped,
         \A s \in Requests : pc'[s] = "writing" => pc[s] = "writing" /\ req'[s] = req[s]
  PROVE  SerialInv'
<1> SUFFICES ASSUME ~overlapped
             PROVE  OneOpen' /\ OpenFits' /\ SetsUnique' /\ NumbersUnique'
  BY DEF SerialInv
<1>1. OneOpen' /\ SetsUnique' /\ NumbersUnique'
  BY DEF SerialInv, OneOpen, SetsUnique, NumbersUnique, storeVars
<1>2. ASSUME NEW s \in Requests, pc'[s] = "writing"
      PROVE  StillFits(s, req[s])'
  <2> PICK q : q = req'[s]
    OBVIOUS
  <2>1. StillFits(s, q)
    BY <1>2 DEF SerialInv, OpenFits
  <2>2. StillFits(s, q)'
    BY <2>1, DraftStays
  <2> QED
    BY <2>2 DEF StillFits, SetsOf, VersionsOf
<1> QED
  BY <1>1, <1>2 DEF OpenFits

(* A request that decides while another one is open is an overlap; one     *)
(* that decides alone is the only open one. *)
LEMMA DecidesNumbers ==
  ASSUME IInv, NumberInv, SerialInv, NEW r \in Requests, NEW q, Decides(r, q), DraftOK(q),
         StillFits(r, q)
  PROVE  NumberInv' /\ SerialInv'
<1>1. UNCHANGED storeVars
  BY DEF Decides
<1>2. \A s \in Requests : pc'[s] = "writing" => \/ pc[s] = "writing" /\ req'[s] = req[s]
                                               \/ req'[s] = q
  BY DEF Decides, IInv, RequestsOK
<1>3. NumberInv'
  BY <1>1, <1>2, NumbersStay
<1>4. ASSUME ~overlapped'
      PROVE  OneOpen' /\ OpenFits' /\ SetsUnique' /\ NumbersUnique'
  <2>1. ~overlapped /\ \A s \in Requests : pc[s] # "writing"
    BY <1>4 DEF Decides
  <2>2. SetsUnique' /\ NumbersUnique'
    BY <1>1, <2>1 DEF SerialInv, SetsUnique, NumbersUnique, storeVars
  <2>3. \A s \in Requests : pc'[s] = "writing" => s = r
    BY <2>1 DEF Decides, IInv, RequestsOK
  <2>4. StillFits(r, q)' /\ req'[r] = q
    BY <1>1, DraftStays DEF Decides, IInv, RequestsOK
  <2>5. OpenFits'
    BY <2>3, <2>4 DEF OpenFits, StillFits, SetsOf, VersionsOf
  <2> QED
    BY <2>2, <2>3, <2>5 DEF OneOpen
<1> QED
  BY <1>3, <1>4 DEF SerialInv

(* A new version extends the numbers of its set by one at most. *)
LEMMA NumbersGrow ==
  ASSUME NEW new, versions' = versions \cup {new}, NEW i, NEW n \in Nat, NumbersUpTo(i, n),
         new.set = i => new.number \in 1..(n + 1)
  PROVE  \E m \in n..(n + 1) : NumbersUpTo(i, m)'
<1>1. CASE new.set # i
  <2>1. VersionsOf(i)' = VersionsOf(i)
    BY <1>1 DEF VersionsOf
  <2> QED
    BY <2>1 DEF NumbersUpTo
<1>2. CASE new.set = i
  <2>1. VersionsOf(i)' = VersionsOf(i) \cup {new}
    BY <1>2 DEF VersionsOf
  <2>2. {v.number : v \in VersionsOf(i)'} = {v.number : v \in VersionsOf(i)} \cup {new.number}
    BY <2>1
  <2>3. {v.number : v \in VersionsOf(i)'} = (1..n) \cup {new.number}
    BY <2>2 DEF NumbersUpTo
  <2>4. CASE new.number = n + 1
    <3>1. (1..n) \cup {n + 1} = 1..(n + 1)
      OBVIOUS
    <3>2. NumbersUpTo(i, n + 1)'
      BY <2>3, <2>4, <3>1 DEF NumbersUpTo
    <3> QED
      BY <3>2
  <2>5. CASE new.number # n + 1
    <3>1. (1..n) \cup {new.number} = 1..n
      BY <1>2, <2>5
    <3>2. NumbersUpTo(i, n)'
      BY <2>3, <3>1 DEF NumbersUpTo
    <3> QED
      BY <3>2
  <2> QED
    BY <2>4, <2>5
<1> QED
  BY <1>1, <1>2

(* A commit of a save adds its version, numbered as it was decided. *)
LEMMA CommitNumbers ==
  ASSUME IInv, NumberInv, NEW r \in Requests, Commit(r)
  PROVE  NumberInv'
<1> PICK q : q = req[r]
  OBVIOUS
<1> PICK new : new = VersionRow(r, q.set, q.number, q.content, q.user)
  OBVIOUS
<1>1. /\ new.id = r /\ new.set = q.set /\ new.number = q.number /\ new.content = q.content
      /\ new.by = q.user
      /\ new = [id |-> r, set |-> q.set, number |-> q.number, content |-> q.content, by |-> q.user]
  BY DEF VersionRow
<1>2. /\ DecisionOK(r, q) /\ DraftOK(q)
      /\ (\A s \in sets : s.id # r) /\ (\A v \in versions : v.id # r)
  BY DEF Commit, IInv, RequestsOK, DecisionsOK, FreshOK, NumberInv, DraftsOK
<1>3. /\ sets' = sets \cup InsertedBy(r, q)
      /\ versions' = IF q.kind = "save" THEN versions \cup {new} ELSE versions
      /\ \A s \in Requests : pc'[s] = "writing" => s # r /\ pc[s] = "writing" /\ req'[s] = req[s]
  BY DEF Commit, Inserted, NewVersion, InsertedBy, IInv, RequestsOK
<1>4. r \in Ids /\ q.set \in Ids
  BY <1>2, StoreAssumption DEF Ids, DecisionOK, SaveOK, ActivateOK, SetRow, IInv, SetsOK
<1>5. ThreadsUntyped'
  <2>1. \A s \in sets' : s \in sets \/ (s.slot = q.slot /\ q.set = r)
    BY <1>3 DEF InsertedBy, SetRow
  <2>2. q.set = r => q.kind \in {"open", "save"}
    BY <1>2 DEF DecisionOK, ActivateOK, SetRow
  <2> QED
    BY <1>2, <2>1, <2>2 DEF ThreadsUntyped, NumberInv, DraftOK
<1>6. CASE q.kind # "save"
  <2>1. versions' = versions
    BY <1>3, <1>6
  <2>2. VersionRowsOK' /\ NumbersOK'
    BY <2>1 DEF NumberInv, VersionRowsOK, NumbersOK, NumbersUpTo, VersionsOf, SavedCount, Saved
  <2>3. ASSUME NEW s \in Requests, pc'[s] = "writing"
        PROVE  DraftOK(req[s])'
    <3>1. DraftOK(req[s]) /\ req'[s] = req[s]
      BY <1>3, <2>3 DEF NumberInv, DraftsOK
    <3> QED
      BY <2>1, <3>1 DEF DraftOK, NumberFits, NumbersUpTo, VersionsOf
  <2> QED
    BY <1>5, <2>2, <2>3 DEF NumberInv, DraftsOK
<1>7. CASE q.kind = "save"
  <2>1. versions' = versions \cup {new}
    BY <1>3, <1>7
  <2>2. q.content \in Contents /\ q.user \in Users /\ NumberFits(q)
    BY <1>2, <1>7 DEF DraftOK
  <2>3. PICK k \in Nat : NumbersUpTo(q.set, k) /\ q.number \in 1..(k + 1)
    BY <2>2 DEF NumberFits
  <2>4. VersionRowsOK'
    <3>1. new \in VersionRows
      BY <1>1, <1>4, <2>2, <2>3 DEF VersionRows
    <3>2. VersionRows' = VersionRows
      BY DEF VersionRows, Ids
    <3> QED
      BY <1>1, <1>2, <2>1, <3>1, <3>2 DEF NumberInv, VersionRowsOK
  <2>5. SavedCount' = SavedCount + 1
    <3>1. Saved' = Saved \cup {r} /\ r \notin Saved
      BY <1>1, <1>2, <2>1 DEF Saved
    <3> QED
      BY <3>1, SavedFinite, FS_AddElement DEF SavedCount
  <2>6. ASSUME NEW i \in Ids, NEW n \in Nat, NumbersUpTo(i, n)
        PROVE  \E m \in n..(n + 1) : NumbersUpTo(i, m)'
    <3>1. i = q.set => k = n
      BY <2>3, <2>6, IntervalEnd DEF NumbersUpTo
    <3>2. new.set = i => new.number \in 1..(n + 1)
      BY <1>1, <2>3, <3>1
    <3> QED
      BY <2>1, <2>6, <3>2, NumbersGrow
  <2>7. NumbersOK'
    <3> SUFFICES ASSUME NEW i \in Ids
                 PROVE  \E n \in Nat : NumbersUpTo(i, n)' /\ n <= SavedCount' + 1
      BY DEF NumbersOK, Ids
    <3>1. PICK n \in Nat : NumbersUpTo(i, n) /\ n <= SavedCount + 1
      BY DEF NumberInv, NumbersOK
    <3>2. PICK m \in n..(n + 1) : NumbersUpTo(i, m)'
      BY <2>6, <3>1
    <3>3. m \in Nat /\ m <= SavedCount' + 1
      BY <2>5, <3>1, SavedFinite
    <3> QED
      BY <3>2, <3>3
  <2>8. ASSUME NEW s \in Requests, pc'[s] = "writing"
        PROVE  DraftOK(req[s])'
    <3> PICK d : d = req[s]
      OBVIOUS
    <3>1. DraftOK(d) /\ req'[s] = d /\ DecisionOK(s, d)
      BY <1>3, <2>8 DEF NumberInv, DraftsOK, IInv, RequestsOK, DecisionsOK
    <3>2. d.set \in Ids
      BY <3>1, StoreAssumption DEF Ids, DecisionOK, SaveOK, ActivateOK, SetRow, IInv, SetsOK
    <3>3. NumberFits(d) => NumberFits(d)'
      <4> SUFFICES ASSUME NEW n \in Nat, NumbersUpTo(d.set, n), d.number \in 1..(n + 1)
                   PROVE  NumberFits(d)'
        BY DEF NumberFits
      <4>1. PICK m \in n..(n + 1) : NumbersUpTo(d.set, m)'
        BY <2>6, <3>2
      <4>2. m \in Nat /\ d.number \in 1..(m + 1)
        OBVIOUS
      <4> QED
        BY <4>1, <4>2 DEF NumberFits
    <3>4. DraftOK(d)'
      BY <3>1, <3>3 DEF DraftOK
    <3> QED
      BY <3>1, <3>4 DEF DraftOK, NumberFits, NumbersUpTo, VersionsOf
  <2> QED
    BY <1>5, <2>4, <2>7, <2>8 DEF NumberInv, DraftsOK
<1> QED
  BY <1>6, <1>7

(* A commit of the only open request adds the set and the number it saw    *)
(* missing, and leaves none open. *)
LEMMA CommitSerial ==
  ASSUME IInv, NumberInv, SerialInv, NEW r \in Requests, Commit(r)
  PROVE  SerialInv'
<1> SUFFICES ASSUME ~overlapped
             PROVE  OneOpen' /\ OpenFits' /\ SetsUnique' /\ NumbersUnique'
  BY DEF SerialInv, Commit
<1> PICK q : q = req[r]
  OBVIOUS
<1> PICK new : new = VersionRow(r, q.set, q.number, q.content, q.user)
  OBVIOUS
<1>1. new.set = q.set /\ new.number = q.number
  BY DEF VersionRow
<1>2. StillFits(r, q) /\ DecisionOK(r, q) /\ SetsUnique /\ NumbersUnique
  BY DEF SerialInv, OpenFits, Commit, IInv, RequestsOK, DecisionsOK
<1>3. /\ sets' = sets \cup InsertedBy(r, q)
      /\ versions' = IF q.kind = "save" THEN versions \cup {new} ELSE versions
  BY DEF Commit, Inserted, NewVersion, InsertedBy
<1>4. \A s \in Requests : pc'[s] # "writing"
  BY DEF SerialInv, OneOpen, Commit, IInv, RequestsOK
<1>5. SetsUnique'
  <2>1. CASE q.set # r
    BY <1>2, <1>3, <2>1 DEF InsertedBy, SetsUnique
  <2>2. CASE q.set = r
    <3>1. q.kind \in {"open", "save"}
      <4>1. \A s \in sets : s.id # r
        BY DEF Commit, IInv, FreshOK
      <4> QED
        BY <1>2, <2>2, <4>1 DEF DecisionOK, ActivateOK, SetRow
    <3>2. \A s \in sets : s.slot # q.slot
      BY <1>2, <2>2, <3>1 DEF StillFits, SetsOf
    <3>3. sets' = sets \cup {SetRow(r, q.slot)} /\ SetRow(r, q.slot).slot = q.slot
      BY <1>3, <2>2 DEF InsertedBy, SetRow
    <3> QED
      BY <1>2, <3>2, <3>3 DEF SetsUnique
  <2> QED
    BY <2>1, <2>2
<1>6. NumbersUnique'
  <2>1. CASE q.kind # "save"
    BY <1>2, <1>3, <2>1 DEF NumbersUnique
  <2>2. CASE q.kind = "save"
    BY <1>1, <1>2, <1>3, <2>2 DEF NumbersUnique, StillFits, VersionsOf
  <2> QED
    BY <2>1, <2>2
<1> QED
  BY <1>4, <1>5, <1>6 DEF OneOpen, OpenFits

LEMMA SpecTableInv == Spec => [](NumberInv /\ SerialInv)
<1>1. Init => NumberInv /\ SerialInv
  BY InitNumberInv, InitSerialInv
<1>2. IInv /\ (NumberInv /\ SerialInv) /\ [Next]_vars => (NumberInv /\ SerialInv)'
  <2> SUFFICES ASSUME IInv, NumberInv, SerialInv, [Next]_vars
               PROVE  NumberInv' /\ SerialInv'
    OBVIOUS
  <2>1. ASSUME UNCHANGED storeVars, overlapped' = overlapped,
               \A s \in Requests : pc'[s] = "writing" => pc[s] = "writing" /\ req'[s] = req[s]
        PROVE  NumberInv' /\ SerialInv'
    BY <2>1, NumbersStay, SerialStays
  <2>2. CASE UNCHANGED vars \/ Tick
    <3>1. UNCHANGED <<storeVars, overlapped, pc, req>>
      BY <2>2 DEF vars, Tick
    <3> QED
      BY <2>1, <3>1
  <2>3. ASSUME NEW u \in Users, NEW s \in Slots, NEW c \in Contents, Check(u, s, c)
        PROVE  NumberInv' /\ SerialInv'
    BY <2>1, <2>3 DEF Check
  <2>4. ASSUME NEW r \in Requests, Abort(r)
        PROVE  NumberInv' /\ SerialInv'
    BY <2>1, <2>4 DEF Abort, IInv, RequestsOK
  <2>5. ASSUME NEW r \in Requests, Serve(r)
        PROVE  NumberInv' /\ SerialInv'
    BY <2>5, ServeDecides, DecidesNumbers
  <2>6. ASSUME NEW r \in Requests, Commit(r)
        PROVE  NumberInv' /\ SerialInv'
    BY <2>6, CommitNumbers, CommitSerial
  <2> QED
    BY <2>2, <2>3, <2>4, <2>5, <2>6 DEF Next
<1> QED
  BY <1>1, <1>2, SpecIInv, PTL DEF Spec

(***************************************************************************)
(* What the tables say of a chat.                                          *)
(***************************************************************************)
(* A set is found by its id, and its version in force by that version's.   *)
LEMMA SlotIs ==
  ASSUME IInv, NEW s \in sets
  PROVE  SlotOf(s.id) = s.slot
<1>1. \A t \in sets : t.id = s.id => t = s
  BY DEF IInv, SetsOK
<1> QED
  BY <1>1 DEF SlotOf

LEMMA ForceIs ==
  ASSUME IInv, NumberInv, NEW s \in sets, NEW v \in versions, v.id = active[s.id]
  PROVE  v.set = s.id
<1>1. active[s.id] # None
  BY StoreAssumption DEF IInv, VersionsOK, Ids
<1>2. PICK w \in versions : w.id = active[s.id] /\ w.set = s.id
  BY <1>1 DEF IInv, ActiveBelongs
<1> QED
  BY <1>2 DEF NumberInv, VersionRowsOK

LEMMA ContextOwn ==
  ASSUME IInv, NumberInv
  PROVE  ContextIsOwn
<1> SUFFICES ASSUME NEW v \in versions, v.id \in MayBeGiven
             PROVE  SlotOf(v.set) \in Chain
  BY DEF ContextIsOwn
<1>1. PICK q \in Queries : v.id \in Given(q) /\ v.id # None
  BY DEF MayBeGiven
<1>2. PICK s \in sets : s.slot \in q.slots /\ v.id = active[s.id]
  BY <1>1 DEF Given, Matching
<1>3. q.slots \subseteq Chain
  BY DEF Queries
<1>4. SlotOf(v.set) = s.slot
  BY <1>2, ForceIs, SlotIs
<1> QED
  BY <1>2, <1>3, <1>4

(* A set that no other one competes with at its level answers its query.   *)
LEMMA LoneRead ==
  ASSUME IInv, NumberInv
  PROVE  LoneLayerIsRead
<1> SUFFICES ASSUME NEW s \in sets, s.slot \in Chain, active[s.id] # None,
                    Level[s.slot] = "task" => s.slot \notin Typed,
                    \A t \in sets : t # s /\ t.slot \in Chain => Level[t.slot] # Level[s.slot]
             PROVE  active[s.id] \in IsGiven
  BY DEF LoneLayerIsRead
<1> DEFINE l == Level[s.slot]
           typed == {t \in Chain : Level[t] = l /\ t \in Typed}
           untyped == {t \in Chain : Level[t] = l /\ t \notin Typed}
           both == {t \in Chain : Level[t] = l}
<1>1. l \in Levels
  BY InstructionAssumption DEF IInv, SetsOK
<1>2. l = "thread" => s.slot \notin Typed
  BY DEF NumberInv, ThreadsUntyped
<1>3. \E q \in Queries : s.slot \in q.slots /\ q.slots \subseteq both
  <2>1. CASE l \in {"org", "user", "cluster"}
    <3> PICK q : q = [level |-> l, slots |-> both]
      OBVIOUS
    <3>1. q \in Queries /\ q.slots = both
      BY <2>1 DEF Queries
    <3> QED
      BY <3>1
  <2>2. CASE l \in {"platform", "task", "thread"} /\ s.slot \notin Typed
    <3> PICK q : q = [level |-> l, slots |-> untyped]
      OBVIOUS
    <3>1. q \in Queries /\ q.slots = untyped
      BY <2>2 DEF Queries
    <3> QED
      BY <2>2, <3>1
  <2>3. CASE l = "platform" /\ s.slot \in Typed
    <3> PICK q : q = [level |-> l, slots |-> typed]
      OBVIOUS
    <3>1. q \in Queries /\ q.slots = typed
      BY <2>3 DEF Queries
    <3> QED
      BY <2>3, <3>1
  <2> QED
    BY <1>1, <1>2, <2>1, <2>2, <2>3 DEF Levels
<1>4. PICK q \in Queries : s.slot \in q.slots /\ q.slots \subseteq both
  BY <1>3
<1>5. Matching(q) = {s.id}
  BY <1>4 DEF Matching
<1>6. Given(q) = {active[s.id]}
  BY <1>5 DEF Given
<1>7. PICK v \in versions : v.id = active[s.id]
  BY DEF IInv, ActiveBelongs
<1> QED
  BY <1>6, <1>7 DEF IsGiven

(* The order of the levels. *)
LEMMA RankIs ==
  /\ Rank["platform"] = 1 /\ Rank["org"] = 2 /\ Rank["user"] = 3
  /\ Rank["cluster"] = 4 /\ Rank["task"] = 5 /\ Rank["thread"] = 6
<1>1. \A i \in 1..6 : i = 1 \/ i = 2 \/ i = 3 \/ i = 4 \/ i = 5 \/ i = 6
  OBVIOUS
<1>2. /\ Len(StackOrder) = 6
      /\ StackOrder[1] = "platform" /\ StackOrder[2] = "org" /\ StackOrder[3] = "user"
      /\ StackOrder[4] = "cluster" /\ StackOrder[5] = "task" /\ StackOrder[6] = "thread"
  BY DEF StackOrder
<1>3. \A l \in Levels : Rank[l] = CHOOSE i \in 1..6 : StackOrder[i] = l
  BY <1>2 DEF Rank
<1>4. ASSUME NEW k \in 1..6, NEW l \in Levels, StackOrder[k] = l
      PROVE  Rank[l] = k
  <2>1. \A i \in 1..6 : StackOrder[i] = l => i = k
    BY <1>1, <1>2, <1>4
  <2>2. (CHOOSE i \in 1..6 : StackOrder[i] = l) = k
    BY <1>4, <2>1
  <2> QED
    BY <1>3, <2>2
<1> QED
  BY <1>2, <1>4 DEF Levels

(* The levels an author inherits from come before the author's. *)
LEMMA ParentsAreBroader ==
  ASSUME NEW l \in Levels, NEW k \in ParentLevels[l]
  PROVE  /\ k \in {"platform", "org", "user", "cluster", "task"}
         /\ Rank[k] < Rank[l]
         /\ k = "task" => l = "thread"
<1>1. ParentLevels[l] = {StackOrder[i] : i \in 1..(Rank[l] - 1)}
  BY DEF ParentLevels
<1>2. PICK i \in 1..(Rank[l] - 1) : k = StackOrder[i]
  BY <1>1
<1>3. Rank[l] \in 1..6
  BY RankIs DEF Levels
<1>4. i \in 1..5 /\ i < Rank[l]
  BY <1>2, <1>3
<1>5. i = 1 \/ i = 2 \/ i = 3 \/ i = 4 \/ i = 5
  BY <1>4
<1>6. /\ StackOrder[1] = "platform" /\ StackOrder[2] = "org" /\ StackOrder[3] = "user"
      /\ StackOrder[4] = "cluster" /\ StackOrder[5] = "task"
  BY DEF StackOrder
<1>7. k \in {"platform", "org", "user", "cluster", "task"} /\ Rank[k] = i
  BY <1>2, <1>5, <1>6, RankIs
<1>8. Rank[l] = 6 => l = "thread"
  BY RankIs DEF Levels
<1>9. k = "task" => Rank[l] = 6
  BY <1>3, <1>4, <1>7, RankIs
<1> QED
  BY <1>4, <1>7, <1>8, <1>9

LEMMA InheritedGiven ==
  ASSUME IInv, NumberInv
  PROVE  InheritedIsGiven
<1> SUFFICES ASSUME NEW s \in Authored, NEW typed \in BOOLEAN
             PROVE  /\ Inherited(s, typed) \subseteq MayBeGiven
                    /\ \A v \in versions :
                         v.id \in Inherited(s, typed) =>
                           Rank[Level[SlotOf(v.set)]] < Rank[Level[s]]
  BY DEF InheritedIsGiven
<1>1. Level[s] \in Levels
  BY InstructionAssumption DEF Authored
<1>2. ASSUME NEW x \in Inherited(s, typed)
      PROVE  \E t \in sets : /\ x = active[t.id] /\ x # None
                             /\ t.slot \in Chain /\ Level[t.slot] \in ParentLevels[Level[s]]
                             /\ Level[t.slot] = "task" => t.slot \notin Typed
  <2>1. PICK l \in ParentLevels[Level[s]] : x \in Shown(s, typed, l)
    BY <1>2 DEF Inherited
  <2>2. PICK t \in sets : /\ t.slot \in Inheritable(s, typed, l)
                          /\ x = active[t.id] /\ x # None
    BY <2>1 DEF Shown
  <2>3. /\ t.slot \in Chain /\ Level[t.slot] = l
        /\ t.slot \in Typed => Filter(s, typed, l)
    BY <2>2 DEF Inheritable
  <2>4. l = "task" => ~Filter(s, typed, l)
    BY <1>1, ParentsAreBroader DEF Filter, FilterGiven
  <2> QED
    BY <2>1, <2>2, <2>3, <2>4
<1>3. Inherited(s, typed) \subseteq MayBeGiven
  <2> SUFFICES ASSUME NEW x \in Inherited(s, typed)
               PROVE  x \in MayBeGiven
    OBVIOUS
  <2>1. PICK t \in sets : /\ x = active[t.id] /\ x # None
                          /\ t.slot \in Chain /\ Level[t.slot] \in ParentLevels[Level[s]]
                          /\ Level[t.slot] = "task" => t.slot \notin Typed
    BY <1>2
  <2> PICK l : l = Level[t.slot]
    OBVIOUS
  <2>2. l \in {"platform", "org", "user", "cluster", "task"}
    BY <1>1, <2>1, ParentsAreBroader
  <2>3. \E q \in Queries : t.slot \in q.slots
    <3>1. CASE l \in {"org", "user", "cluster"}
      <4> PICK q : q = [level |-> l, slots |-> {c \in Chain : Level[c] = l}]
        OBVIOUS
      <4>1. q \in Queries /\ t.slot \in q.slots
        BY <2>1, <3>1 DEF Queries
      <4> QED
        BY <4>1
    <3>2. CASE l \in {"platform", "task"} /\ t.slot \notin Typed
      <4> PICK q : q = [level |-> l, slots |-> {c \in Chain : Level[c] = l /\ c \notin Typed}]
        OBVIOUS
      <4>1. q \in Queries /\ t.slot \in q.slots
        BY <2>1, <3>2 DEF Queries
      <4> QED
        BY <4>1
    <3>3. CASE l = "platform" /\ t.slot \in Typed
      <4> PICK q : q = [level |-> "platform",
                        slots |-> {c \in Chain : Level[c] = "platform" /\ c \in Typed}]
        OBVIOUS
      <4>1. q \in Queries /\ t.slot \in q.slots
        BY <2>1, <3>3 DEF Queries
      <4> QED
        BY <4>1
    <3> QED
      BY <2>1, <2>2, <3>1, <3>2, <3>3
  <2>4. PICK q \in Queries : t.slot \in q.slots
    BY <2>3
  <2>5. t.id \in Matching(q)
    BY <2>4 DEF Matching
  <2>6. x \in Given(q)
    BY <2>1, <2>5 DEF Given
  <2> QED
    BY <2>1, <2>6 DEF MayBeGiven
<1>4. ASSUME NEW v \in versions, v.id \in Inherited(s, typed)
      PROVE  Rank[Level[SlotOf(v.set)]] < Rank[Level[s]]
  <2>1. PICK t \in sets : v.id = active[t.id] /\ Level[t.slot] \in ParentLevels[Level[s]]
    BY <1>2, <1>4
  <2>2. SlotOf(v.set) = t.slot
    BY <2>1, ForceIs, SlotIs
  <2> QED
    BY <1>1, <2>1, <2>2, ParentsAreBroader
<1> QED
  BY <1>3, <1>4

(***************************************************************************)
(* The theorems.                                                           *)
(***************************************************************************)
(* Every version that was saved had passed the rules in a check of the     *)
(* same text, for the same layer, by the same user, and its token had not  *)
(* run out. *)
THEOREM SavedWasApprovedCorrect == Spec => []SavedWasApproved
<1>1. ASSUME IInv
      PROVE  SavedWasApproved
  <2> SUFFICES ASSUME NEW v \in versions, v.id \in Requests
               PROVE  /\ v.content \notin Blocking
                      /\ \E t \in tokens :
                           /\ t.user = v.by /\ t.content = v.content
                           /\ SameLayer(t.for, SlotOf(v.set))
                           /\ savedAt[v.id] <= t.exp
    BY DEF SavedWasApproved
  <2>1. PICK s \in sets : s.id = v.set /\ WasApproved(v.by, s.slot, v.content, savedAt[v.id])
    BY <1>1 DEF IInv, AllApproved, VersionApproved
  <2>2. \A t \in sets : t.id = v.set => t = s
    BY <1>1, <2>1 DEF IInv, SetsOK
  <2>3. (CHOOSE t \in sets : t.id = v.set) = s
    BY <2>1, <2>2
  <2>4. SlotOf(v.set) = s.slot
    BY <2>3 DEF SlotOf
  <2> QED
    BY <2>1, <2>4 DEF WasApproved
<1> QED
  BY <1>1, SpecIInv, PTL

(* A set is only ever pointed at a version of its own. *)
THEOREM ActiveBelongsCorrect == Spec => []ActiveBelongs
<1>1. IInv => ActiveBelongs
  BY DEF IInv
<1> QED
  BY <1>1, SpecIInv, PTL

(* What is in force for a layer changes only through a request of somebody *)
(* who may write that layer. *)
THEOREM OnlyEntitledActivateCorrect == Spec => OnlyEntitledActivate
<1>1. IInv /\ [Next]_vars => [ChangesAreEntitled]_vars
  <2> SUFFICES ASSUME IInv, [Next]_vars
               PROVE  ChangesAreEntitled
    OBVIOUS
  <2>1. CASE UNCHANGED storeVars
    BY <2>1 DEF ChangesAreEntitled, storeVars
  <2>2. CASE \E r \in Requests : Commit(r)
    BY <2>2, CommitStep
  <2> QED
    BY <2>1, <2>2, OnlyCommitsWrite
<1> QED
  BY <1>1, SpecIInv, PTL DEF Spec, OnlyEntitledActivate

(* A version is never changed or removed, and a set in force stays so. *)
THEOREM VersionsImmutableCorrect == Spec => VersionsImmutable
<1>1. IInv /\ [Next]_vars => [KeepsVersions]_storeVars
  BY OnlyCommitsWrite, CommitStep
<1> QED
  BY <1>1, SpecIInv, PTL DEF Spec, VersionsImmutable

(* What the tables hold makes sense to every later request: rows have      *)
(* their types, versions their sets, a set in force a version of its own;  *)
(* numbers run from 1 without a gap whatever saves race, and requests that *)
(* do not overlap leave one set for a layer and one version for a number.  *)
THEOREM StoreIsSoundCorrect == Spec => []StoreIsSound
<1>1. ASSUME IInv, NumberInv, SerialInv
      PROVE  StoreIsSound
  <2> USE <1>1
  <2>1. sets \subseteq [id : Ids, slot : Slots]
    <3>1. \A s \in sets : s.id \in Ids /\ s.slot \in Slots /\ s = [id |-> s.id, slot |-> s.slot]
      BY DEF IInv, SetsOK, SetRow
    <3> QED
      BY <3>1
  <2>2. \A v \in versions : v.set \in Ids /\ v.set \in {s.id : s \in sets}
    BY DEF IInv, VersionsOK, SetsOK
  <2>3. \A v \in versions : v.number \in 1..(Cardinality(Requests) + 1)
    <3> SUFFICES ASSUME NEW v \in versions
                 PROVE  v.number \in 1..(Cardinality(Requests) + 1)
      OBVIOUS
    <3>1. PICK n \in Nat : NumbersUpTo(v.set, n) /\ n <= SavedCount + 1
      BY <2>2 DEF NumberInv, NumbersOK
    <3>2. v.number \in 1..n
      BY <3>1 DEF NumbersUpTo, VersionsOf
    <3>3. Cardinality(Requests) \in Nat
      BY StoreAssumption, FS_CardinalityType
    <3> QED
      BY <3>1, <3>2, <3>3, SavedFinite
  <2>4. StoreTypeOK
    <3>1. versions \subseteq [id : Ids, set : Ids, number : 1..(Cardinality(Requests) + 1),
                              content : Contents, by : Users]
      BY <2>3 DEF NumberInv, VersionRowsOK, VersionRows
    <3> QED
      BY <2>1, <3>1 DEF StoreTypeOK, IInv, ActiveOK
  <2>5. NumbersHaveNoGaps
    <3> SUFFICES ASSUME NEW s \in sets
                 PROVE  {v.number : v \in VersionsOf(s.id)} =
                          1..Cardinality({v.number : v \in VersionsOf(s.id)})
      BY DEF NumbersHaveNoGaps
    <3>1. s.id \in Ids
      BY DEF IInv, SetsOK
    <3>2. PICK n \in Nat : NumbersUpTo(s.id, n)
      BY <3>1 DEF NumberInv, NumbersOK
    <3>3. Cardinality(1..n) = n
      BY FS_Interval
    <3> QED
      BY <3>2, <3>3 DEF NumbersUpTo
  <2>6. VersionsHaveSets
    BY DEF IInv, VersionsOK, VersionsHaveSets
  <2>7. SerialSetsAreUnique
    BY DEF SerialInv, SetsUnique, NumbersUnique, SerialSetsAreUnique
  <2> QED
    BY <2>4, <2>5, <2>6, <2>7 DEF IInv, StoreIsSound
<1> QED
  BY <1>1, SpecIInv, SpecTableInv, PTL

(* A chat is given texts of its own chain only and every layer that is     *)
(* alone at its level; an author inherits only texts the chat may be given, *)
(* of broader layers. *)
THEOREM LayersAreFaithfulCorrect == Spec => []LayersAreFaithful
<1>1. IInv /\ NumberInv => LayersAreFaithful
  BY ContextOwn, LoneRead, InheritedGiven DEF LayersAreFaithful, ContextIsFaithful
<1> QED
  BY <1>1, SpecIInv, SpecTableInv, PTL

=============================================================================
