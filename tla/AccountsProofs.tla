--------------------------- MODULE AccountsProofs ---------------------------
(***************************************************************************)
(* Accounts and invitations, for every number of requests, users and         *)
(* organisations and every lifetime: an address has one account and every    *)
(* account has its invitation, only app_admins appoint app_admins, a         *)
(* deactivated user's session ends, and requests that do not overlap leave   *)
(* one pending invitation for an address and an app_admin.                   *)
(*                                                                           *)
(* Three arguments.  An invitation that was accepted has an account with     *)
(* its address, so that a second acceptance, decided before the first was    *)
(* committed, is stopped by the unique index.  An invitation to become an    *)
(* app_admin was made by one, and so was an open decision to appoint one.    *)
(* A token lives until AccessTTL from now at the latest, and a sign-in that  *)
(* issues tokens for an inactive user had read the account before it was     *)
(* deactivated.                                                              *)
(*                                                                           *)
(* Without an overlap one request is open at a time, so that what it saw     *)
(* still holds when it commits (SerialInv).                                  *)
(***************************************************************************)
EXTENDS Accounts, TLAPS

Fields == {"role", "active"}
InviteRows ==
  [org : OrgIds, email : Emails, role : Roles, exp : Nat,
   accepted : Requests \cup {None}, revoked : BOOLEAN, by : Roles]

(* The rows. *)
OrgsOK == DOMAIN orgs \subseteq OrgIds
UsersOK ==
  /\ DOMAIN users \subseteq UserIds /\ SeedUsers \subseteq DOMAIN users
  /\ \A u \in DOMAIN users : users[u] \in UserRows
InvitesOK ==
  /\ DOMAIN invites \subseteq Requests
  /\ \A i \in DOMAIN invites : invites[i] \in InviteRows
(* An account has an address of its own, and an accepted invitation has    *)
(* the account it made. *)
OneAccount == \A u, v \in DOMAIN users : users[u].email = users[v].email => u = v
MadeFrom(u, i) ==
  invites[i].accepted = u /\ invites[i].email = users[u].email /\ invites[i].org = users[u].org
FromInvite == \A u \in DOMAIN users \ SeedUsers : \E i \in DOMAIN invites : MadeFrom(u, i)
AcceptedHasAccount ==
  \A i \in DOMAIN invites :
    invites[i].accepted # None =>
      /\ invites[i].accepted \in DOMAIN users
      /\ users[invites[i].accepted].email = invites[i].email
(* Only app_admins invite an app_admin. *)
InvitedByPeer ==
  \A i \in DOMAIN invites : invites[i].role = "app_admin" => invites[i].by = "app_admin"

(* What an open request decided. *)
DecisionOK(q) ==
  /\ q.kind = "user" =>
       /\ q.user \in DOMAIN users
       /\ q.fields \subseteq Fields
       /\ q.row \in [role : Roles, active : BOOLEAN]
       /\ "role" \in q.fields /\ q.row.role = "app_admin" => q.actorRole = "app_admin"
  /\ q.kind = "orgpatch" => q.org \in DOMAIN orgs
  /\ q.kind = "invite" =>
       /\ q.row \in InviteRows
       /\ q.row.accepted = None
       /\ q.row.role = "app_admin" => q.row.by = "app_admin"
  /\ q.kind = "revoke" => q.invite \in DOMAIN invites
  /\ q.kind = "accept" => q.invite \in DOMAIN invites
DecisionsOK == \A r \in Requests : pc[r] = "writing" => DecisionOK(req[r])
RequestsOK ==
  /\ pc \in [Requests -> {"idle", "writing", "done"}]
  /\ DOMAIN req = Requests
  /\ DecisionsOK
(* The ids a request gives are new. *)
FreshOK ==
  \A r \in Requests :
    pc[r] \in {"idle", "writing"} => r \notin DOMAIN users /\ r \notin DOMAIN invites

(* Tokens and the clock. *)
ClockOK ==
  /\ now \in Nat
  /\ live \in [Signers -> Nat] /\ offAt \in [Signers -> Nat]
  /\ signing \in [Signins -> Signers \cup {None}]
  /\ \A u \in Signers : live[u] <= now + AccessTTL

IInv ==
  /\ OrgsOK /\ UsersOK /\ InvitesOK
  /\ OneAccount /\ FromInvite /\ AcceptedHasAccount /\ InvitedByPeer
  /\ RequestsOK /\ FreshOK
  /\ ClockOK /\ SessionsEnd

(* What every commit keeps of the rows an open decision refers to. *)
Grows ==
  /\ DOMAIN users \subseteq DOMAIN users'
  /\ DOMAIN orgs \subseteq DOMAIN orgs'
  /\ DOMAIN invites \subseteq DOMAIN invites'

(***************************************************************************)
(* Lemmas.                                                                 *)
(***************************************************************************)
(* A patch changes the columns it names, of the row it was given. *)
LEMMA PatchedRow ==
  ASSUME NEW row, NEW fields, NEW new,
         row \in UserRows, fields \subseteq Fields, new \in [role : Roles, active : BOOLEAN]
  PROVE  /\ Patched(row, fields, new) \in UserRows
         /\ Patched(row, fields, new).org = row.org
         /\ Patched(row, fields, new).email = row.email
         /\ Patched(row, fields, new).role = IF "role" \in fields THEN new.role ELSE row.role
<1> DEFINE f == [g \in {"org", "email", "role", "active"} |->
                   IF g \in fields THEN new[g] ELSE row[g]]
<1>1. DOMAIN row = {"org", "email", "role", "active"}
  BY DEF UserRows
<1>2. Patched(row, fields, new) = f
  BY <1>1 DEF Patched
<1>3. /\ f.org = row.org /\ f.email = row.email
      /\ f.role = IF "role" \in fields THEN new.role ELSE row.role
      /\ f.active = IF "active" \in fields THEN new.active ELSE row.active
  BY DEF Fields
<1>4. f = [org |-> f.org, email |-> f.email, role |-> f.role, active |-> f.active]
  OBVIOUS
<1>5. f.org \in OrgIds /\ f.email \in Emails /\ f.role \in Roles /\ f.active \in BOOLEAN
  BY <1>3 DEF UserRows
<1> HIDE DEF f
<1>6. f \in UserRows
  BY <1>4, <1>5 DEF UserRows
<1> QED
  BY <1>2, <1>3, <1>6

(* The initial rows. *)
LEMMA InitIInv == ASSUME Init PROVE IInv
<1>1. OrgsOK /\ InvitesOK /\ AcceptedHasAccount /\ InvitedByPeer
  BY DEF Init, OrgsOK, OrgIds, InvitesOK, AcceptedHasAccount, InvitedByPeer
<1>2. UsersOK /\ OneAccount /\ FromInvite
  BY AccountsAssumption DEF Init, UsersOK, UserIds, OneAccount, FromInvite
<1>3. RequestsOK
  BY DEF Init, RequestsOK, DecisionsOK, DecisionOK, NoReq
<1>4. FreshOK
  BY AccountsAssumption DEF Init, FreshOK
<1>5. ClockOK /\ SessionsEnd
  BY AccountsAssumption DEF Init, ClockOK, SessionsEnd, sessionVars
<1> QED
  BY <1>1, <1>2, <1>3, <1>4, <1>5 DEF IInv

(* What is about rows only does not change with the rows. *)
LEMMA RowsStay ==
  ASSUME IInv, UNCHANGED dbVars
  PROVE  /\ OrgsOK' /\ UsersOK' /\ InvitesOK'
         /\ OneAccount' /\ FromInvite' /\ AcceptedHasAccount' /\ InvitedByPeer'
BY DEF IInv, dbVars, OrgsOK, UsersOK, InvitesOK, OneAccount, FromInvite, MadeFrom,
  AcceptedHasAccount, InvitedByPeer

(* A request that decides rightly keeps the invariant. *)
LEMMA DecidesKeeps ==
  ASSUME IInv, NEW r \in Requests, NEW q, Decides(r, q), DecisionOK(q)
  PROVE  IInv'
<1>1. UNCHANGED dbVars /\ UNCHANGED <<now, sessionVars>>
  BY DEF Decides
<1>2. RequestsOK'
  BY DEF Decides, dbVars, IInv, RequestsOK, DecisionsOK, DecisionOK
<1>3. FreshOK'
  BY DEF Decides, dbVars, IInv, RequestsOK, FreshOK
<1>4. ClockOK' /\ SessionsEnd'
  BY <1>1 DEF IInv, ClockOK, SessionsEnd, sessionVars, dbVars
<1> QED
  BY <1>1, <1>2, <1>3, <1>4, RowsStay DEF IInv

(* A commit of r keeps the other decisions right when it only adds rows. *)
LEMMA CommitKeeps ==
  ASSUME IInv, NEW r \in Requests, NEW kind, Commits(r, kind), Grows
  PROVE  RequestsOK'
<1>1. DecisionsOK'
  <2> SUFFICES ASSUME NEW s \in Requests, pc'[s] = "writing"
               PROVE  DecisionOK(req[s])'
    BY DEF DecisionsOK
  <2> PICK d : d = req'[s]
    OBVIOUS
  <2>1. DecisionOK(d)
    BY DEF Commits, IInv, RequestsOK, DecisionsOK
  <2>2. DecisionOK(d)'
    BY <2>1 DEF DecisionOK, Grows
  <2> QED
    BY <2>2 DEF DecisionOK
<1> QED
  BY <1>1 DEF IInv, RequestsOK, Commits

(***************************************************************************)
(* The steps.                                                              *)
(***************************************************************************)
(* A request that is served decides rightly. *)
LEMMA ServeStep ==
  ASSUME IInv, NEW r \in Requests, Serve(r)
  PROVE  IInv'
<1> DEFINE Admins == {u \in DOMAIN users : IsAdmin(u)}
<1>1. ASSUME NEW a \in Admins, NEW slug \in Slugs, CreateOrg(r, a, slug)
      PROVE  IInv'
  <2> PICK q : q = [kind |-> "org", slug |-> slug]
    OBVIOUS
  <2>1. Decides(r, q) /\ DecisionOK(q)
    BY <1>1 DEF CreateOrg, DecisionOK
  <2> QED
    BY <2>1, DecidesKeeps
<1>2. ASSUME NEW a \in Admins, NEW o \in DOMAIN orgs, NEW slug \in Slugs, NEW isActive \in BOOLEAN,
             UpdateOrg(r, a, o, slug, isActive)
      PROVE  IInv'
  <2> PICK q : q = [kind |-> "orgpatch", org |-> o, row |-> [slug |-> slug, active |-> isActive],
                    fields |-> {f \in {"slug", "active"} :
                                  [slug |-> slug, active |-> isActive][f] # orgs[o][f]}]
    OBVIOUS
  <2>1. Decides(r, q) /\ DecisionOK(q)
    BY <1>2 DEF UpdateOrg, DecisionOK
  <2> QED
    BY <2>1, DecidesKeeps
<1>3. ASSUME NEW a \in Admins, NEW u \in DOMAIN users, NEW role \in Roles, NEW isActive \in BOOLEAN,
             UpdateUser(r, a, u, role, isActive)
      PROVE  IInv'
  <2> PICK fields : fields = {f \in {"role", "active"} :
                                [role |-> role, active |-> isActive][f] # users[u][f]}
    OBVIOUS
  <2> PICK by : by = users[a].role
    OBVIOUS
  <2> PICK q : q = [kind |-> "user", user |-> u, actorRole |-> by,
                    row |-> [role |-> role, active |-> isActive], fields |-> fields]
    OBVIOUS
  <2>1. fields \subseteq Fields
    BY DEF Fields
  <2>2. "role" \in fields => role # users[u].role
    OBVIOUS
  <2>3. "role" \in fields /\ role = "app_admin" => by = "app_admin"
    BY <1>3, <2>2 DEF UpdateUser, CanAssign, IsAppAdmin
  <2>4. Decides(r, q)
    BY <1>3 DEF UpdateUser
  <2>5. DecisionOK(q)
    BY <2>1, <2>3 DEF DecisionOK
  <2> QED
    BY <2>4, <2>5, DecidesKeeps
<1>4. ASSUME NEW a \in Admins, NEW o \in DOMAIN orgs, NEW email \in Emails, NEW role \in Roles,
             CreateInvitation(r, a, o, email, role)
      PROVE  IInv'
  <2> PICK row : row = Invite(o, email, role, users[a].role)
    OBVIOUS
  <2> PICK q : q = [kind |-> "invite", row |-> row]
    OBVIOUS
  <2>1. now + InviteTTL \in Nat /\ o \in OrgIds /\ users[a].role \in Roles
    BY AccountsAssumption DEF IInv, ClockOK, OrgsOK, UsersOK, UserRows
  <2>2. row \in InviteRows /\ row.accepted = None
    BY <2>1 DEF Invite, InviteRows
  <2>3. row.role = "app_admin" => row.by = "app_admin"
    BY <1>4 DEF CreateInvitation, CanAssign, IsAppAdmin, Invite
  <2>4. Decides(r, q)
    BY <1>4 DEF CreateInvitation
  <2>5. DecisionOK(q)
    BY <2>2, <2>3 DEF DecisionOK
  <2> QED
    BY <2>4, <2>5, DecidesKeeps
<1>5. ASSUME NEW a \in Admins, NEW i \in DOMAIN invites, Revoke(r, a, i)
      PROVE  IInv'
  <2> PICK q : q = [kind |-> "revoke", invite |-> i]
    OBVIOUS
  <2>1. Decides(r, q) /\ DecisionOK(q)
    BY <1>5 DEF Revoke, DecisionOK
  <2> QED
    BY <2>1, DecidesKeeps
<1>6. ASSUME NEW i \in DOMAIN invites, Accept(r, i)
      PROVE  IInv'
  <2> PICK q : q = [kind |-> "accept", invite |-> i]
    OBVIOUS
  <2>1. Decides(r, q) /\ DecisionOK(q)
    BY <1>6 DEF Accept, DecisionOK
  <2> QED
    BY <2>1, DecidesKeeps
<1> HIDE DEF Admins
<1>7. \/ \E a \in Admins :
          \/ \E slug \in Slugs : CreateOrg(r, a, slug)
          \/ \E o \in DOMAIN orgs, slug \in Slugs, isActive \in BOOLEAN :
               UpdateOrg(r, a, o, slug, isActive)
          \/ \E u \in DOMAIN users, role \in Roles, isActive \in BOOLEAN :
               UpdateUser(r, a, u, role, isActive)
          \/ \E o \in DOMAIN orgs, email \in Emails, role \in Roles :
               CreateInvitation(r, a, o, email, role)
          \/ \E i \in DOMAIN invites : Revoke(r, a, i)
      \/ \E i \in DOMAIN invites : Accept(r, i)
  BY DEF Serve, Admins
<1> QED
  BY <1>1, <1>2, <1>3, <1>4, <1>5, <1>6, <1>7

(* Organisations are added and patched, nothing else follows them. *)
LEMMA CommitOrgStep ==
  ASSUME IInv, NEW r \in Requests, CommitOrg(r) \/ CommitOrgPatch(r)
  PROVE  IInv'
<1>1. PICK kind : Commits(r, kind)
  BY DEF CommitOrg, CommitOrgPatch
<1>2. UNCHANGED <<users, invites, sessionVars, now>>
  BY DEF CommitOrg, CommitOrgPatch, Commits
<1>3. OrgsOK' /\ DOMAIN orgs \subseteq DOMAIN orgs'
  BY DEF CommitOrg, CommitOrgPatch, Added, IInv, OrgsOK, OrgIds
<1>4. RequestsOK'
  BY <1>1, <1>2, <1>3, CommitKeeps DEF Grows
<1>5. FreshOK'
  BY <1>1, <1>2 DEF Commits, IInv, RequestsOK, FreshOK
<1> QED
  BY <1>2, <1>3, <1>4, <1>5 DEF IInv, UsersOK, InvitesOK, OneAccount, FromInvite, MadeFrom,
    AcceptedHasAccount, InvitedByPeer, ClockOK, SessionsEnd, sessionVars

(* A patch keeps a user's address and organisation, and follows when it    *)
(* deactivates one. *)
LEMMA CommitUserStep ==
  ASSUME IInv, NEW r \in Requests, CommitUser(r)
  PROVE  IInv'
<1> USE DEF IInv
<1> PICK q : q = req[r]
  OBVIOUS
<1>1. /\ q.user \in DOMAIN users
      /\ q.fields \subseteq Fields
      /\ q.row \in [role : Roles, active : BOOLEAN]
  BY DEF CommitUser, Commits, RequestsOK, DecisionsOK, DecisionOK
<1> DEFINE row == Patched(users[q.user], q.fields, q.row)
<1>2. row \in UserRows /\ row.org = users[q.user].org /\ row.email = users[q.user].email
  <2>1. users[q.user] \in UserRows
    BY <1>1 DEF UsersOK
  <2> QED
    BY <1>1, <2>1, PatchedRow
<1>3. users' = [users EXCEPT ![q.user] = row] /\ UNCHANGED <<orgs, invites, now>>
  BY DEF CommitUser, Commits
<1> HIDE DEF row
<1>4. /\ DOMAIN users' = DOMAIN users
      /\ \A u \in DOMAIN users : /\ users'[u] \in UserRows
                                 /\ users'[u].org = users[u].org
                                 /\ users'[u].email = users[u].email
  BY <1>2, <1>3 DEF UsersOK
<1>5. UsersOK'
  BY <1>4 DEF UsersOK
<1>6. OneAccount' /\ FromInvite' /\ AcceptedHasAccount'
  BY <1>3, <1>4 DEF OneAccount, FromInvite, MadeFrom, AcceptedHasAccount
<1>7. OrgsOK' /\ InvitesOK' /\ InvitedByPeer'
  BY <1>3 DEF OrgsOK, InvitesOK, InvitedByPeer
<1>8. RequestsOK'
  BY <1>3, <1>4, CommitKeeps DEF CommitUser, Grows
<1>9. FreshOK'
  BY <1>3, <1>4 DEF FreshOK, CommitUser, Commits, RequestsOK
<1>10. ClockOK' /\ SessionsEnd'
  <2> PICK off : off = {u \in Signers : users[u].active /\ ~users'[u].active}
    OBVIOUS
  <2>1. /\ offAt' = [u \in Signers |-> IF u \in off THEN now ELSE offAt[u]]
        /\ late' = late \cup {s \in Signins : signing[s] \in off}
        /\ UNCHANGED <<signing, live, lateLive>>
    BY DEF CommitUser
  <2>2. ClockOK'
    BY <1>3, <2>1 DEF ClockOK
  <2>3. SessionsEnd'
    BY <1>3, <2>1 DEF ClockOK, SessionsEnd, sessionVars
  <2> QED
    BY <2>2, <2>3
<1> QED
  BY <1>5, <1>6, <1>7, <1>8, <1>9, <1>10

(* A new invitation is nobody's account yet; a revoked one stays what it   *)
(* was otherwise. *)
LEMMA CommitInviteStep ==
  ASSUME IInv, NEW r \in Requests, CommitInvite(r) \/ CommitRevoke(r)
  PROVE  IInv'
<1> USE DEF IInv
<1>1. UNCHANGED <<orgs, users, sessionVars, now>>
  BY DEF CommitInvite, CommitRevoke, Commits
<1>2. /\ InvitesOK' /\ InvitedByPeer' /\ AcceptedHasAccount'
      /\ DOMAIN invites \subseteq DOMAIN invites'
      /\ DOMAIN invites' \subseteq DOMAIN invites \cup {r}
      /\ \A i \in DOMAIN invites :
           /\ invites'[i].accepted = invites[i].accepted
           /\ invites'[i].email = invites[i].email
           /\ invites'[i].org = invites[i].org
  <2>1. CASE CommitInvite(r)
    <3> PICK row : row = req[r].row
      OBVIOUS
    <3>1. /\ row \in InviteRows /\ row.accepted = None
          /\ row.role = "app_admin" => row.by = "app_admin"
          /\ r \notin DOMAIN invites
      BY <2>1 DEF CommitInvite, Commits, RequestsOK, DecisionsOK, DecisionOK, FreshOK
    <3>2. invites' = Added(invites, r, row)
      BY <2>1 DEF CommitInvite
    <3>3. /\ DOMAIN invites' = DOMAIN invites \cup {r}
          /\ invites'[r] = row
          /\ \A i \in DOMAIN invites : invites'[i] = invites[i]
      BY <3>1, <3>2 DEF Added
    <3> QED
      BY <1>1, <3>1, <3>3 DEF InvitesOK, InvitedByPeer, AcceptedHasAccount
  <2>2. CASE CommitRevoke(r)
    <3> PICK j : j = req[r].invite
      OBVIOUS
    <3> DEFINE row == [invites[j] EXCEPT !.revoked = TRUE]
    <3>1. j \in DOMAIN invites
      BY <2>2 DEF CommitRevoke, Commits, RequestsOK, DecisionsOK, DecisionOK
    <3>2. /\ row \in InviteRows
          /\ row.accepted = invites[j].accepted /\ row.email = invites[j].email
          /\ row.org = invites[j].org /\ row.role = invites[j].role /\ row.by = invites[j].by
      BY <3>1 DEF InvitesOK, InviteRows
    <3>3. invites' = [invites EXCEPT ![j] = row]
      BY <2>2 DEF CommitRevoke
    <3> HIDE DEF row
    <3>4. /\ DOMAIN invites' = DOMAIN invites
          /\ invites'[j] = row
          /\ \A i \in DOMAIN invites : i # j => invites'[i] = invites[i]
      BY <3>1, <3>3
    <3> QED
      BY <1>1, <3>1, <3>2, <3>4 DEF InvitesOK, InvitedByPeer, AcceptedHasAccount
  <2> QED
    BY <2>1, <2>2
<1>3. OrgsOK' /\ UsersOK' /\ OneAccount'
  BY <1>1 DEF OrgsOK, UsersOK, OneAccount
<1>4. FromInvite'
  BY <1>1, <1>2 DEF FromInvite, MadeFrom
<1>5. RequestsOK'
  BY <1>1, <1>2, CommitKeeps DEF CommitInvite, CommitRevoke, Grows
<1>6. FreshOK'
  BY <1>1, <1>2 DEF FreshOK, CommitInvite, CommitRevoke, Commits, RequestsOK
<1>7. ClockOK' /\ SessionsEnd'
  BY <1>1 DEF ClockOK, SessionsEnd, sessionVars
<1> QED
  BY <1>2, <1>3, <1>4, <1>5, <1>6, <1>7

(* An acceptance that finds no account with its address makes one; of two   *)
(* that were decided for one invitation the second finds the first's. *)
LEMMA CommitAcceptStep ==
  ASSUME IInv, NEW r \in Requests, CommitAccept(r)
  PROVE  IInv'
<1> USE DEF IInv
<1> PICK j : j = req[r].invite
  OBVIOUS
<1>1. j \in DOMAIN invites /\ r \notin DOMAIN users /\ r # None
  BY AccountsAssumption
  DEF CommitAccept, Commits, RequestsOK, DecisionsOK, DecisionOK, FreshOK
<1>2. UNCHANGED <<orgs, sessionVars, now>>
  BY DEF CommitAccept, Commits
<1>3. CASE HasAccount(invites[j].email)
  <2>1. UNCHANGED dbVars
    BY <1>2, <1>3 DEF CommitAccept, dbVars
  <2>2. RequestsOK'
    BY <2>1, CommitKeeps DEF CommitAccept, Grows, dbVars
  <2>3. FreshOK'
    BY <2>1 DEF FreshOK, CommitAccept, Commits, RequestsOK, dbVars
  <2>4. ClockOK' /\ SessionsEnd'
    BY <1>2, <2>1 DEF ClockOK, SessionsEnd, sessionVars, dbVars
  <2> QED
    BY <2>1, <2>2, <2>3, <2>4, RowsStay
<1>4. CASE ~HasAccount(invites[j].email)
  <2> DEFINE i == invites[j]
             new == User(i.org, i.email, i.role)
             row == [i EXCEPT !.accepted = r]
  <2>1. new \in UserRows /\ new.email = i.email /\ new.org = i.org
    BY <1>1 DEF InvitesOK, InviteRows, UserRows, User
  <2>2. /\ row \in InviteRows /\ row.accepted = r /\ row.email = i.email /\ row.org = i.org
        /\ row.role = i.role /\ row.by = i.by
    BY <1>1 DEF InvitesOK, InviteRows
  <2>3. users' = Added(users, r, new) /\ invites' = [invites EXCEPT ![j] = row]
    BY <1>4 DEF CommitAccept
  <2> HIDE DEF new, row
  <2>4. /\ DOMAIN users' = DOMAIN users \cup {r} /\ users'[r] = new
        /\ \A u \in DOMAIN users : users'[u] = users[u]
    BY <1>1, <2>3 DEF Added
  <2>5. /\ DOMAIN invites' = DOMAIN invites /\ invites'[j] = row
        /\ \A k \in DOMAIN invites : k # j => invites'[k] = invites[k]
    BY <1>1, <2>3
  <2>6. \A u \in DOMAIN users : users[u].email # i.email
    BY <1>4 DEF HasAccount
  <2>7. i.accepted = None
    BY <1>1, <2>6 DEF AcceptedHasAccount
  <2>8. UsersOK' /\ OneAccount'
    BY <2>1, <2>4, <2>6 DEF UsersOK, UserIds, OneAccount
  <2>9. InvitesOK' /\ InvitedByPeer'
    BY <1>1, <2>2, <2>5 DEF InvitesOK, InvitedByPeer
  <2>10. AcceptedHasAccount'
    BY <1>1, <2>1, <2>2, <2>4, <2>5 DEF AcceptedHasAccount
  <2>11. FromInvite'
    <3> SUFFICES ASSUME NEW u \in DOMAIN users' \ SeedUsers
                 PROVE  \E k \in DOMAIN invites' : MadeFrom(u, k)'
      BY DEF FromInvite
    <3>1. CASE u = r
      BY <1>1, <2>1, <2>2, <2>4, <2>5, <3>1 DEF MadeFrom
    <3>2. CASE u \in DOMAIN users
      <4>1. PICK k \in DOMAIN invites : MadeFrom(u, k)
        BY <3>2 DEF FromInvite
      <4>2. k # j
        BY <2>6, <3>2, <4>1 DEF MadeFrom
      <4> QED
        BY <2>4, <2>5, <3>2, <4>1, <4>2 DEF MadeFrom
    <3> QED
      BY <2>4, <3>1, <3>2
  <2>12. RequestsOK'
    BY <1>2, <2>4, <2>5, CommitKeeps DEF CommitAccept, Grows
  <2>13. FreshOK'
    BY <2>4, <2>5 DEF FreshOK, CommitAccept, Commits, RequestsOK
  <2>14. ClockOK' /\ SessionsEnd' /\ OrgsOK'
    BY <1>2, <2>4, AccountsAssumption DEF ClockOK, SessionsEnd, sessionVars, OrgsOK, UsersOK
  <2> QED
    BY <2>8, <2>9, <2>10, <2>11, <2>12, <2>13, <2>14
<1> QED
  BY <1>3, <1>4

(* The clock, signing in and refreshing. *)
Session ==
  \/ Tick
  \/ \E s \in Signins :
       \/ \E u \in Signers : Login(s, u) \/ Refresh(s, u)
       \/ IssueTokens(s) \/ FailSignIn(s)

LEMMA SessionIs ==
  ASSUME Session
  PROVE  /\ UNCHANGED <<dbVars, offAt, req, pc, overlapped>>
         /\ now' = now \/ now' = now + 1
BY DEF Session, Tick, sessionVars, Login, Refresh, SignsIn, IssueTokens, FailSignIn, SignInEnds

LEMMA SessionStep ==
  ASSUME IInv, Session
  PROVE  IInv'
<1> USE DEF IInv
<1>1. UNCHANGED dbVars /\ UNCHANGED <<req, pc, offAt>>
  BY SessionIs
<1>2. RequestsOK' /\ FreshOK'
  BY <1>1 DEF RequestsOK, DecisionsOK, DecisionOK, FreshOK, dbVars
<1>3. ClockOK' /\ SessionsEnd'
  <2>1. CASE Tick
    BY <2>1, AccountsAssumption DEF Tick, ClockOK, SessionsEnd, sessionVars, dbVars
  <2>2. ASSUME NEW s \in Signins, NEW u \in Signers, Login(s, u) \/ Refresh(s, u)
        PROVE  ClockOK' /\ SessionsEnd'
    <3>1. /\ users[u].active
          /\ signing' = [signing EXCEPT ![s] = u]
          /\ UNCHANGED <<users, now, live, late, offAt>>
      BY <2>2 DEF Login, Refresh, SignsIn, dbVars
    <3> QED
      BY <3>1 DEF ClockOK, SessionsEnd
  <2>3. ASSUME NEW s \in Signins, IssueTokens(s) \/ FailSignIn(s)
        PROVE  ClockOK' /\ SessionsEnd'
    <3> PICK u \in Signers : u = signing[s]
      BY <2>3 DEF IssueTokens, FailSignIn, SignInEnds, ClockOK
    <3>1. /\ signing' = [signing EXCEPT ![s] = None] /\ late' = late \ {s}
          /\ UNCHANGED <<users, now, offAt>>
          /\ \/ UNCHANGED live
             \/ s \notin late /\ live' = [live EXCEPT ![u] = now + AccessTTL]
      BY <2>3 DEF IssueTokens, FailSignIn, SignInEnds, dbVars
    <3>2. ClockOK'
      BY <3>1, AccountsAssumption DEF ClockOK
    <3>3. \A v \in Signers, t \in Signins : ~users[v].active /\ signing'[t] = v => t \in late'
      BY <3>1, AccountsAssumption DEF ClockOK, SessionsEnd
    <3>4. s \notin late => users[u].active
      BY DEF SessionsEnd
    <3>5. \A v \in Signers : ~users[v].active => live'[v] <= offAt[v] + AccessTTL
      BY <3>1, <3>4 DEF ClockOK, SessionsEnd
    <3> QED
      BY <3>1, <3>2, <3>3, <3>5 DEF SessionsEnd
  <2> QED
    BY <2>1, <2>2, <2>3 DEF Session
<1> QED
  BY <1>1, <1>2, <1>3, RowsStay

(* Every step keeps the invariant. *)
LEMMA NextIInv ==
  ASSUME IInv, [Next]_vars
  PROVE  IInv'
<1>1. CASE UNCHANGED vars
  <2>1. UNCHANGED dbVars
    BY <1>1 DEF vars
  <2> QED
    BY <1>1, <2>1, RowsStay DEF IInv, vars, dbVars, RequestsOK, DecisionsOK, DecisionOK,
      FreshOK, ClockOK, SessionsEnd, sessionVars
<1>2. CASE Session
  BY <1>2, SessionStep
<1>3. ASSUME NEW r \in Requests,
             \/ Serve(r)
             \/ CommitOrg(r) \/ CommitOrgPatch(r) \/ CommitUser(r)
             \/ CommitInvite(r) \/ CommitRevoke(r) \/ CommitAccept(r)
      PROVE  IInv'
  BY <1>3, ServeStep, CommitOrgStep, CommitUserStep, CommitInviteStep, CommitAcceptStep
<1> QED
  BY <1>1, <1>2, <1>3 DEF Next, Session

LEMMA SpecIInv == Spec => []IInv
<1>1. Init => IInv
  BY InitIInv
<1>2. IInv /\ [Next]_vars => IInv'
  BY NextIInv
<1> QED
  BY <1>1, <1>2, PTL DEF Spec

(***************************************************************************)
(* Requests that do not overlap.                                           *)
(***************************************************************************)
(* What an open request saw still holds of the rows. *)
StillFits(q) ==
  /\ q.kind = "user" =>
       \E v \in DOMAIN users : v # q.user /\ users[v].role = "app_admin" /\ users[v].active
  /\ q.kind = "invite" =>
       \A i \in DOMAIN invites : invites[i].email = q.row.email => ~Pending(i)
  /\ q.kind = "revoke" => invites[q.invite].accepted = None
  /\ q.kind = "accept" => ~invites[q.invite].revoked
OpenFits == \A r \in Requests : pc[r] = "writing" => StillFits(req[r])
OneOpen == \A r, s \in Requests : pc[r] = "writing" /\ pc[s] = "writing" => r = s
(* What the three serial properties say, once requests do not overlap. *)
OnePending ==
  \A i, j \in DOMAIN invites :
    invites[i].email = invites[j].email /\ Pending(i) /\ Pending(j) => i = j
RevokedUnused == \A i \in DOMAIN invites : invites[i].revoked => invites[i].accepted = None
AppAdminRemains == \E u \in DOMAIN users : users[u].role = "app_admin" /\ users[u].active
RowsFit == OnePending /\ RevokedUnused /\ AppAdminRemains
SerialInv == ~overlapped => OneOpen /\ OpenFits /\ RowsFit

LEMMA InitSerialInv == ASSUME Init PROVE SerialInv
BY AccountsAssumption
DEF Init, SerialInv, OneOpen, OpenFits, RowsFit, OnePending, RevokedUnused, AppAdminRemains

(* The clock only ends what is pending. *)
LEMMA RowsFitStay ==
  ASSUME IInv, UNCHANGED dbVars, now' \in Nat, now <= now', RowsFit
  PROVE  RowsFit' /\ \A q : StillFits(q) => StillFits(q)'
<1>1. \A i \in DOMAIN invites : invites[i].exp \in Nat /\ invites'[i] = invites[i]
  BY DEF IInv, InvitesOK, InviteRows, dbVars
<1>2. \A i \in DOMAIN invites : Pending(i)' => Pending(i)
  BY <1>1 DEF Pending, Expired, IInv, ClockOK
<1>3. DOMAIN invites' = DOMAIN invites /\ DOMAIN users' = DOMAIN users /\ users' = users
  BY DEF dbVars
<1>4. RowsFit'
  BY <1>1, <1>2, <1>3 DEF RowsFit, OnePending, RevokedUnused, AppAdminRemains, dbVars
<1>5. ASSUME NEW q, StillFits(q)
      PROVE  StillFits(q)'
  BY <1>1, <1>2, <1>3, <1>5 DEF StillFits, dbVars
<1> QED
  BY <1>4, <1>5

(* A request that decides while another one is open is an overlap; one     *)
(* that decides alone is the only open one. *)
LEMMA DecidesSerial ==
  ASSUME IInv, SerialInv, NEW r \in Requests, NEW q, Decides(r, q),
         RowsFit => StillFits(q)
  PROVE  SerialInv'
<1> SUFFICES ASSUME ~overlapped'
             PROVE  OneOpen' /\ OpenFits' /\ RowsFit'
  BY DEF SerialInv
<1>1. ~overlapped /\ \A s \in Requests : pc[s] # "writing"
  BY DEF Decides
<1>2. RowsFit /\ UNCHANGED dbVars /\ now' = now
  BY <1>1 DEF SerialInv, Decides
<1>3. RowsFit' /\ StillFits(q)'
  BY <1>2, RowsFitStay DEF IInv, ClockOK
<1>4. \A s \in Requests : pc'[s] = "writing" => s = r
  BY <1>1 DEF Decides, IInv, RequestsOK
<1>5. req'[r] = q
  BY DEF Decides, IInv, RequestsOK
<1>6. OpenFits'
  BY <1>3, <1>4, <1>5 DEF OpenFits, StillFits
<1> QED
  BY <1>3, <1>4, <1>6 DEF OneOpen

(* A commit leaves no request open, when it was the only one. *)
LEMMA CommitSerial ==
  ASSUME IInv, SerialInv, NEW r \in Requests, NEW kind, Commits(r, kind),
         RowsFit /\ StillFits(req[r]) => RowsFit'
  PROVE  SerialInv'
<1> SUFFICES ASSUME ~overlapped
             PROVE  OneOpen' /\ OpenFits' /\ RowsFit'
  BY DEF SerialInv, Commits
<1>1. RowsFit'
  BY DEF SerialInv, OpenFits, Commits
<1>2. \A s \in Requests : pc'[s] # "writing"
  BY DEF SerialInv, OneOpen, Commits, IInv, RequestsOK
<1> QED
  BY <1>1, <1>2 DEF OneOpen, OpenFits

(* Serving a request: it decides what the rows allow. *)
LEMMA ServeSerial ==
  ASSUME IInv, SerialInv, NEW r \in Requests, Serve(r)
  PROVE  SerialInv'
<1> DEFINE Admins == {u \in DOMAIN users : IsAdmin(u)}
<1>1. ASSUME NEW a \in Admins, NEW slug \in Slugs, CreateOrg(r, a, slug)
      PROVE  SerialInv'
  <2> PICK q : q = [kind |-> "org", slug |-> slug]
    OBVIOUS
  <2>1. Decides(r, q) /\ StillFits(q)
    BY <1>1 DEF CreateOrg, StillFits
  <2> QED
    BY <2>1, DecidesSerial
<1>2. ASSUME NEW a \in Admins, NEW o \in DOMAIN orgs, NEW slug \in Slugs, NEW isActive \in BOOLEAN,
             UpdateOrg(r, a, o, slug, isActive)
      PROVE  SerialInv'
  <2> PICK q : q = [kind |-> "orgpatch", org |-> o, row |-> [slug |-> slug, active |-> isActive],
                    fields |-> {f \in {"slug", "active"} :
                                  [slug |-> slug, active |-> isActive][f] # orgs[o][f]}]
    OBVIOUS
  <2>1. Decides(r, q) /\ StillFits(q)
    BY <1>2 DEF UpdateOrg, StillFits
  <2> QED
    BY <2>1, DecidesSerial
<1>3. ASSUME NEW a \in Admins, NEW u \in DOMAIN users, NEW role \in Roles, NEW isActive \in BOOLEAN,
             UpdateUser(r, a, u, role, isActive)
      PROVE  SerialInv'
  <2> PICK q : q = [kind |-> "user", user |-> u, actorRole |-> users[a].role,
                    row |-> [role |-> role, active |-> isActive],
                    fields |-> {f \in {"role", "active"} :
                                  [role |-> role, active |-> isActive][f] # users[u][f]}]
    OBVIOUS
  <2>1. Decides(r, q) /\ q.kind = "user" /\ q.user = u
    BY <1>3 DEF UpdateUser
  <2>2. /\ a # u /\ users[a].active /\ a \in DOMAIN users
        /\ (users[u].role = "app_admin" => users[a].role = "app_admin")
    BY <1>3 DEF UpdateUser, SignedIn, CanManage, IsAppAdmin
  <2>3. AppAdminRemains =>
          \E v \in DOMAIN users : v # u /\ users[v].role = "app_admin" /\ users[v].active
    BY <2>2 DEF AppAdminRemains
  <2>4. RowsFit => StillFits(q)
    BY <2>1, <2>3 DEF RowsFit, StillFits
  <2> QED
    BY <2>1, <2>4, DecidesSerial
<1>4. ASSUME NEW a \in Admins, NEW o \in DOMAIN orgs, NEW email \in Emails, NEW role \in Roles,
             CreateInvitation(r, a, o, email, role)
      PROVE  SerialInv'
  <2> PICK row : row = Invite(o, email, role, users[a].role)
    OBVIOUS
  <2> PICK q : q = [kind |-> "invite", row |-> row]
    OBVIOUS
  <2>1. row.email = email
    BY DEF Invite
  <2>2. Decides(r, q) /\ StillFits(q)
    BY <1>4, <2>1 DEF CreateInvitation, PendingExists, StillFits
  <2> QED
    BY <2>2, DecidesSerial
<1>5. ASSUME NEW a \in Admins, NEW i \in DOMAIN invites, Revoke(r, a, i)
      PROVE  SerialInv'
  <2> PICK q : q = [kind |-> "revoke", invite |-> i]
    OBVIOUS
  <2>1. Decides(r, q) /\ StillFits(q)
    BY <1>5 DEF Revoke, MayRevoke, StillFits
  <2> QED
    BY <2>1, DecidesSerial
<1>6. ASSUME NEW i \in DOMAIN invites, Accept(r, i)
      PROVE  SerialInv'
  <2> PICK q : q = [kind |-> "accept", invite |-> i]
    OBVIOUS
  <2>1. Decides(r, q) /\ StillFits(q)
    BY <1>6 DEF Accept, Valid, Pending, StillFits
  <2> QED
    BY <2>1, DecidesSerial
<1> HIDE DEF Admins
<1>7. \/ \E a \in Admins :
          \/ \E slug \in Slugs : CreateOrg(r, a, slug)
          \/ \E o \in DOMAIN orgs, slug \in Slugs, isActive \in BOOLEAN :
               UpdateOrg(r, a, o, slug, isActive)
          \/ \E u \in DOMAIN users, role \in Roles, isActive \in BOOLEAN :
               UpdateUser(r, a, u, role, isActive)
          \/ \E o \in DOMAIN orgs, email \in Emails, role \in Roles :
               CreateInvitation(r, a, o, email, role)
          \/ \E i \in DOMAIN invites : Revoke(r, a, i)
      \/ \E i \in DOMAIN invites : Accept(r, i)
  BY DEF Serve, Admins
<1> QED
  BY <1>1, <1>2, <1>3, <1>4, <1>5, <1>6, <1>7

(* Commits that leave users and invitations alone. *)
LEMMA CommitOrgSerial ==
  ASSUME IInv, SerialInv, NEW r \in Requests, CommitOrg(r) \/ CommitOrgPatch(r)
  PROVE  SerialInv'
<1>1. PICK kind : Commits(r, kind)
  BY DEF CommitOrg, CommitOrgPatch
<1>2. UNCHANGED <<users, invites, now>>
  BY DEF CommitOrg, CommitOrgPatch, Commits
<1>3. RowsFit => RowsFit'
  BY <1>2 DEF RowsFit, OnePending, RevokedUnused, AppAdminRemains, Pending, Expired
<1> QED
  BY <1>1, <1>3, CommitSerial

(* A patch leaves another active app_admin. *)
LEMMA CommitUserSerial ==
  ASSUME IInv, SerialInv, NEW r \in Requests, CommitUser(r)
  PROVE  SerialInv'
<1> PICK q : q = req[r]
  OBVIOUS
<1>1. Commits(r, "user") /\ q.kind = "user"
  BY DEF CommitUser, Commits
<1>2. \A v \in DOMAIN users : v # q.user => users'[v] = users[v] /\ v \in DOMAIN users'
  BY DEF CommitUser
<1>3. UNCHANGED <<invites, now>>
  BY DEF CommitUser, Commits
<1>4. RowsFit => OnePending' /\ RevokedUnused'
  BY <1>3 DEF RowsFit, OnePending, RevokedUnused, Pending, Expired
<1>5. StillFits(q) => AppAdminRemains'
  BY <1>1, <1>2 DEF StillFits, AppAdminRemains
<1> QED
  BY <1>1, <1>4, <1>5, CommitSerial DEF RowsFit

(* The new invitation's address had no pending one. *)
LEMMA CommitInviteSerial ==
  ASSUME IInv, SerialInv, NEW r \in Requests, CommitInvite(r)
  PROVE  SerialInv'
<1> PICK q : q = req[r]
  OBVIOUS
<1>1. /\ Commits(r, "invite") /\ q.kind = "invite" /\ r \notin DOMAIN invites
      /\ q.row.accepted = None
  BY DEF CommitInvite, Commits, IInv, RequestsOK, DecisionsOK, DecisionOK, FreshOK
<1> PICK row : row = q.row
  OBVIOUS
<1>2. UNCHANGED <<users, now>>
  BY DEF CommitInvite, Commits
<1>3. /\ DOMAIN invites' = DOMAIN invites \cup {r} /\ invites'[r] = row
      /\ \A i \in DOMAIN invites : invites'[i] = invites[i]
  BY <1>1 DEF CommitInvite, Added
<1>4. \A i \in DOMAIN invites : Pending(i)' = Pending(i)
  BY <1>2, <1>3 DEF Pending, Expired
<1>5. ASSUME RowsFit, StillFits(q)
      PROVE  OnePending'
  <2>1. \A i \in DOMAIN invites : invites[i].email = row.email => ~Pending(i)
    BY <1>1, <1>5 DEF StillFits
  <2> QED
    BY <1>3, <1>4, <1>5, <2>1 DEF RowsFit, OnePending
<1>6. RowsFit => RevokedUnused' /\ AppAdminRemains'
  BY <1>1, <1>2, <1>3 DEF RowsFit, RevokedUnused, AppAdminRemains
<1> QED
  BY <1>1, <1>5, <1>6, CommitSerial DEF RowsFit

(* Revoking and accepting end an invitation, and do not meet. *)
LEMMA CommitEndSerial ==
  ASSUME IInv, SerialInv, NEW r \in Requests, CommitRevoke(r) \/ CommitAccept(r)
  PROVE  SerialInv'
<1> PICK q : q = req[r]
  OBVIOUS
<1> PICK j : j = q.invite
  OBVIOUS
<1>1. /\ \/ Commits(r, "revoke") /\ q.kind = "revoke"
         \/ Commits(r, "accept") /\ q.kind = "accept"
      /\ j \in DOMAIN invites /\ r \notin DOMAIN users
  BY DEF CommitRevoke, CommitAccept, Commits, IInv, RequestsOK, DecisionsOK, DecisionOK, FreshOK
<1>2. now' = now
  BY DEF CommitRevoke, CommitAccept, Commits
<1>3. \A u \in DOMAIN users : u \in DOMAIN users' /\ users'[u] = users[u]
  BY <1>1 DEF CommitRevoke, CommitAccept, Added
<1>4. AppAdminRemains => AppAdminRemains'
  BY <1>3 DEF AppAdminRemains
<1>5. CASE UNCHANGED invites
  <2>1. RowsFit => RowsFit'
    BY <1>2, <1>4, <1>5 DEF RowsFit, OnePending, RevokedUnused, Pending, Expired
  <2> QED
    BY <1>1, <2>1, CommitSerial
<1>6. CASE ~UNCHANGED invites
  <2> DEFINE row == invites'[j]
  <2>1. /\ DOMAIN invites' = DOMAIN invites
        /\ \A i \in DOMAIN invites : i # j => invites'[i] = invites[i]
    BY <1>1, <1>6 DEF CommitRevoke, CommitAccept
  <2>2. /\ row.email = invites[j].email
        /\ \/ q.kind = "revoke" /\ row.revoked = TRUE /\ row.accepted = invites[j].accepted
           \/ q.kind = "accept" /\ row.revoked = invites[j].revoked /\ row.accepted = r
    <3>1. invites[j] \in InviteRows
      BY <1>1 DEF IInv, InvitesOK
    <3>2. CASE CommitRevoke(r)
      <4>1. q.kind = "revoke" /\ row = [invites[j] EXCEPT !.revoked = TRUE]
        BY <1>1, <3>2 DEF CommitRevoke, Commits
      <4> QED
        BY <3>1, <4>1 DEF InviteRows
    <3>3. CASE CommitAccept(r)
      <4>1. q.kind = "accept" /\ row = [invites[j] EXCEPT !.accepted = r]
        BY <1>1, <1>6, <3>3 DEF CommitAccept, Commits
      <4> QED
        BY <3>1, <4>1 DEF InviteRows
    <3> QED
      BY <3>2, <3>3
  <2>3. ~Pending(j)'
    BY <2>2, AccountsAssumption DEF Pending
  <2>4. \A i \in DOMAIN invites : i # j => Pending(i)' = Pending(i)
    BY <1>2, <2>1 DEF Pending, Expired
  <2> HIDE DEF row
  <2>5. OnePending => OnePending'
    BY <2>1, <2>3, <2>4 DEF OnePending
  <2>6. StillFits(q) /\ RevokedUnused => RevokedUnused'
    <3>1. StillFits(q) => (row.revoked => row.accepted = None)
      BY <2>2 DEF StillFits
    <3> QED
      BY <2>1, <3>1 DEF RevokedUnused, row
  <2> QED
    BY <1>1, <1>4, <2>5, <2>6, CommitSerial DEF RowsFit
<1> QED
  BY <1>5, <1>6

(* The clock and the sessions. *)
LEMMA SessionSerial ==
  ASSUME IInv, SerialInv, Session
  PROVE  SerialInv'
<1>1. UNCHANGED dbVars /\ UNCHANGED <<req, pc, overlapped>> /\ now' \in Nat /\ now <= now'
  BY SessionIs DEF IInv, ClockOK
<1> SUFFICES ASSUME ~overlapped
             PROVE  OneOpen' /\ OpenFits' /\ RowsFit'
  BY <1>1 DEF SerialInv
<1>2. OneOpen /\ OpenFits /\ RowsFit
  BY DEF SerialInv
<1>3. RowsFit' /\ \A q : StillFits(q) => StillFits(q)'
  BY <1>1, <1>2, RowsFitStay
<1>4. OpenFits'
  <2>1. ASSUME NEW s \in Requests, pc[s] = "writing"
        PROVE  StillFits(req[s])'
    <3> PICK q : q = req[s]
      OBVIOUS
    <3>1. StillFits(q)'
      BY <1>2, <1>3, <2>1 DEF OpenFits
    <3> QED
      BY <1>1, <3>1 DEF StillFits
  <2> QED
    BY <1>1, <2>1 DEF OpenFits
<1> QED
  BY <1>1, <1>2, <1>3, <1>4 DEF OneOpen

LEMMA SpecSerialInv == Spec => []SerialInv
<1>1. Init => SerialInv
  BY InitSerialInv
<1>2. IInv /\ SerialInv /\ [Next]_vars => SerialInv'
  <2> SUFFICES ASSUME IInv, SerialInv, [Next]_vars
               PROVE  SerialInv'
    OBVIOUS
  <2>1. CASE UNCHANGED vars
    BY <2>1 DEF vars, dbVars, SerialInv, OneOpen, OpenFits, StillFits, RowsFit, OnePending,
      RevokedUnused, AppAdminRemains, Pending, Expired
  <2>2. CASE Session
    BY <2>2, SessionSerial
  <2>3. ASSUME NEW r \in Requests,
               \/ Serve(r)
               \/ CommitOrg(r) \/ CommitOrgPatch(r) \/ CommitUser(r)
               \/ CommitInvite(r) \/ CommitRevoke(r) \/ CommitAccept(r)
        PROVE  SerialInv'
    BY <2>3, ServeSerial, CommitOrgSerial, CommitUserSerial, CommitInviteSerial, CommitEndSerial
  <2> QED
    BY <2>1, <2>2, <2>3 DEF Next, Session
<1> QED
  BY <1>1, <1>2, SpecIInv, PTL DEF Spec

(***************************************************************************)
(* The theorems.                                                           *)
(***************************************************************************)
(* Whatever requests race, an address has one account, every account that  *)
(* was not seeded comes from one invitation, and every accepted invitation *)
(* has its account. *)
THEOREM InvitesMakeAccountsCorrect == Spec => []InvitesMakeAccounts
<1>1. IInv => InvitesMakeAccounts
  BY DEF IInv, OneAccount, FromInvite, MadeFrom, AcceptedHasAccount, InvitesMakeAccounts
<1> QED
  BY <1>1, SpecIInv, PTL

(* A deactivation ends a session: only a sign-in that had read the account  *)
(* before still issues tokens. *)
THEOREM SessionsEndCorrect == Spec => []SessionsEnd
<1>1. IInv => SessionsEnd
  BY DEF IInv
<1> QED
  BY <1>1, SpecIInv, PTL

(* Requests that do not overlap leave one pending invitation for an        *)
(* address, no invitation both revoked and accepted, and an app_admin who  *)
(* is active. *)
THEOREM SerialAdminCorrect == Spec => []SerialAdmin
<1>1. SerialInv => SerialAdmin
  BY DEF SerialInv, RowsFit, OnePending, RevokedUnused, AppAdminRemains,
    SerialAdmin, SerialOnePending, SerialRevokedUnused, SerialAppAdminRemains, IsAppAdmin
<1> QED
  BY <1>1, SpecSerialInv, PTL

(* Only what an app_admin decided, a patch or an invitation, ever makes an *)
(* app_admin. *)
LEMMA AppointStep ==
  ASSUME IInv, Next
  PROVE  AppointedByAppAdmin
<1> SUFFICES ASSUME NEW u \in DOMAIN users', users'[u].role = "app_admin",
                    u \in DOMAIN users => users[u].role # "app_admin"
             PROVE  \E r \in Requests :
                      /\ pc[r] = "writing" /\ pc'[r] = "done"
                      /\ \/ req[r].kind = "user" /\ req[r].actorRole = "app_admin"
                         \/ req[r].kind = "accept" /\ invites[req[r].invite].by = "app_admin"
  BY DEF AppointedByAppAdmin
<1>1. users' # users
  OBVIOUS
<1>2. PICK r \in Requests : CommitUser(r) \/ CommitAccept(r)
  <2>1. Session => users' = users
    BY SessionIs DEF dbVars
  <2>2. \A r \in Requests : Serve(r) => users' = users
    <3>1. \A r, a, x : CreateOrg(r, a, x) \/ Revoke(r, a, x) => users' = users
      BY DEF CreateOrg, Revoke, Decides, dbVars
    <3>2. \A r, a, o, x, y : UpdateOrg(r, a, o, x, y) => users' = users
      BY DEF UpdateOrg, Decides, dbVars
    <3>3. \A r, a, v, x, y : UpdateUser(r, a, v, x, y) => users' = users
      BY DEF UpdateUser, Decides, dbVars
    <3>4. \A r, a, o, x, y : CreateInvitation(r, a, o, x, y) => users' = users
      BY DEF CreateInvitation, Decides, dbVars
    <3>5. \A r, i : Accept(r, i) => users' = users
      BY DEF Accept, Decides, dbVars
    <3> QED
      BY <3>1, <3>2, <3>3, <3>4, <3>5, Zenon DEF Serve
  <2>3. \A r \in Requests :
          CommitOrg(r) \/ CommitOrgPatch(r) \/ CommitInvite(r) \/ CommitRevoke(r) =>
            users' = users
    BY DEF CommitOrg, CommitOrgPatch, CommitInvite, CommitRevoke
  <2> QED
    BY <1>1, <2>1, <2>2, <2>3 DEF Next, Session
<1>3. pc[r] = "writing" /\ pc'[r] = "done"
  BY <1>2 DEF CommitUser, CommitAccept, Commits, IInv, RequestsOK
<1> PICK q : q = req[r]
  OBVIOUS
<1>4. CASE CommitUser(r)
  <2>1. /\ q.kind = "user"
        /\ q.user \in DOMAIN users
        /\ q.fields \subseteq Fields
        /\ q.row \in [role : Roles, active : BOOLEAN]
        /\ "role" \in q.fields /\ q.row.role = "app_admin" => q.actorRole = "app_admin"
    BY <1>4 DEF CommitUser, Commits, IInv, RequestsOK, DecisionsOK, DecisionOK
  <2>2. users' = [users EXCEPT ![q.user] = Patched(users[q.user], q.fields, q.row)]
    BY <1>4 DEF CommitUser
  <2>3. users[q.user] \in UserRows
    BY <2>1 DEF IInv, UsersOK
  <2>4. Patched(users[q.user], q.fields, q.row).role =
          IF "role" \in q.fields THEN q.row.role ELSE users[q.user].role
    BY <2>1, <2>3, PatchedRow
  <2>5. u = q.user /\ u \in DOMAIN users
    BY <2>1, <2>2
  <2>6. "role" \in q.fields /\ q.row.role = "app_admin"
    BY <2>1, <2>2, <2>4, <2>5
  <2> QED
    BY <1>3, <2>1, <2>6
<1>5. CASE CommitAccept(r)
  <2> PICK j : j = q.invite
    OBVIOUS
  <2>1. q.kind = "accept" /\ j \in DOMAIN invites
    BY <1>5 DEF CommitAccept, Commits, IInv, RequestsOK, DecisionsOK, DecisionOK
  <2>2. users' = Added(users, r, User(invites[j].org, invites[j].email, invites[j].role))
    BY <1>1, <1>5 DEF CommitAccept
  <2>3. users'[u].role = invites[j].role
    BY <2>2 DEF Added, User
  <2>4. invites[j].by = "app_admin"
    BY <2>1, <2>3 DEF IInv, InvitedByPeer
  <2> QED
    BY <1>3, <2>1, <2>4
<1> QED
  BY <1>2, <1>4, <1>5

(* No step makes anybody an app_admin but a patch or an invitation by an   *)
(* app_admin. *)
THEOREM OnlyAppAdminsAppointCorrect == Spec => OnlyAppAdminsAppoint
<1>1. IInv /\ [Next]_vars => [AppointedByAppAdmin]_vars
  BY AppointStep
<1> QED
  BY <1>1, SpecIInv, PTL DEF Spec, OnlyAppAdminsAppoint

=============================================================================
