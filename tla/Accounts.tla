------------------------------ MODULE Accounts ------------------------------
(***************************************************************************)
(* Organisations, users and invitations: the admin panel's API             *)
(* (api/v1/admin.py), signing in and accepting an invitation               *)
(* (api/v1/auth.py, core/security.py, services/invitations.py) and the     *)
(* rules of who manages whom (api/admin_access.py).                        *)
(*                                                                         *)
(* A request authenticates, checks and decides in one step and commits in  *)
(* a later one; a login or refresh reads the account in one step and       *)
(* issues its tokens in a later one.  Ids of rows are the requests that    *)
(* inserted them.  Names and languages are left out.                       *)
(***************************************************************************)
EXTENDS Integers, FiniteSets

CONSTANTS
  Requests,   \* the requests, each served once
  Platform,   \* the platform organisation
  SeedOrgs,   \* the organisations at first, Platform among them
  Slugs,      \* slugs an organisation may be given
  SeedUsers,  \* the users at first
  SeedUser,   \* their rows
  Emails,     \* addresses, in lower case
  Signers,    \* the users whose sign-ins are followed
  Signins,    \* bound on the logins and refreshes in flight
  InviteTTL,  \* lifetime of an invitation
  AccessTTL,  \* lifetime of an access token
  MaxTime,    \* bound on the clock
  None        \* no request

Roles == {"app_admin", "org_admin", "user"}
OrgIds == SeedOrgs \cup Requests
UserIds == SeedUsers \cup Requests
UserRows == [org : OrgIds, email : Emails, role : Roles, active : BOOLEAN]

ASSUME AccountsAssumption ==
  /\ Platform \in SeedOrgs /\ SeedOrgs \cap Requests = {}
  /\ None \notin Requests \cup Signers
  /\ SeedUsers \cap Requests = {} /\ Signers \subseteq SeedUsers
  /\ SeedUser \in [SeedUsers -> UserRows]
  /\ \A u, v \in SeedUsers : SeedUser[u].email = SeedUser[v].email => u = v
  /\ \E u \in SeedUsers : SeedUser[u].role = "app_admin" /\ SeedUser[u].active
  /\ InviteTTL \in Nat /\ AccessTTL \in Nat /\ MaxTime \in Nat

VARIABLES
  orgs,    \* id |-> [slug, active]
  users,   \* id |-> row
  invites, \* id |-> [org, email, role, exp, accepted, revoked, by]; accepted
           \* is the request that accepted it
  now,     \* the clock
  signing, \* whose account each login or refresh in flight has read
  live,    \* until when each signer's access tokens live,
  lateLive, \* and those of sign-ins that were late
  late,    \* history: the sign-ins whose user was deactivated since they
           \* read the account
  offAt,   \* history: when each signer was deactivated last
  req,     \* what each request decided
  pc,      \* "idle", "writing", "done"
  overlapped \* history: two requests were open at once

dbVars == <<orgs, users, invites>>
sessionVars == <<signing, live, lateLive, late, offAt>>
vars == <<dbVars, now, sessionVars, req, pc, overlapped>>

NoReq == [kind |-> "none"]
Added(table, id, row) ==
  [i \in DOMAIN table \cup {id} |-> IF i = id THEN row ELSE table[i]]
Org(slug) == [slug |-> slug, active |-> TRUE]
User(org, email, role) == [org |-> org, email |-> email, role |-> role, active |-> TRUE]
Invite(org, email, role, by) ==
  [org |-> org, email |-> email, role |-> role, exp |-> now + InviteTTL,
   accepted |-> None, revoked |-> FALSE, by |-> by]

Init ==
  /\ orgs = [o \in SeedOrgs |-> Org(o)]
  /\ users = SeedUser
  /\ invites = [i \in {} |-> NoReq]
  /\ now = 0
  /\ signing = [s \in Signins |-> None] /\ late = {}
  /\ live = [u \in Signers |-> 0] /\ lateLive = live
  /\ offAt = [u \in Signers |-> 0]
  /\ req = [r \in Requests |-> NoReq]
  /\ pc = [r \in Requests |-> "idle"]
  /\ overlapped = FALSE

Tick ==
  /\ now < MaxTime
  /\ now' = now + 1
  /\ UNCHANGED <<dbVars, sessionVars, req, pc, overlapped>>

(***************************************************************************)
(* Who may do what (api/admin_access.py).                                  *)
(***************************************************************************)
IsAppAdmin(a) == users[a].role = "app_admin"
IsAdmin(a) == users[a].role \in {"app_admin", "org_admin"}
CanAccess(a, org) == IsAppAdmin(a) \/ users[a].org = org

(* Mutation: every admin assigns every role. *)
CanAssign_AnyAdmin(a, role) == IsAdmin(a)
CanAssign(a, role) == IF role = "app_admin" THEN IsAppAdmin(a) ELSE IsAdmin(a)

(* Mutation: admins manage themselves too. *)
CanManage_Self(a, u) ==
  /\ CanAccess(a, users[u].org)
  /\ users[u].role = "app_admin" => IsAppAdmin(a)
  /\ IsAdmin(a)
CanManage(a, u) ==
  /\ a # u
  /\ CanAccess(a, users[u].org)
  /\ users[u].role = "app_admin" => IsAppAdmin(a)
  /\ IsAdmin(a)

Decides(r, decision) ==
  /\ pc[r] = "idle"
  /\ pc' = [pc EXCEPT ![r] = "writing"]
  /\ req' = [req EXCEPT ![r] = decision]
  /\ overlapped' = (overlapped \/ \E q \in Requests : pc[q] = "writing")
  /\ UNCHANGED <<dbVars, now, sessionVars>>

(* get_current_active_user: the account is read again by every request. *)
SignedIn(a) == a \in DOMAIN users /\ users[a].active

(***************************************************************************)
(* Organisations.                                                          *)
(***************************************************************************)
SlugTaken(slug) == \E o \in DOMAIN orgs : orgs[o].slug = slug

CreateOrg(r, a, slug) ==
  /\ SignedIn(a) /\ IsAppAdmin(a)
  /\ ~SlugTaken(slug)
  /\ Decides(r, [kind |-> "org", slug |-> slug])

(* The platform's slug does not change; its activity may.  A patch that    *)
(* changes nothing writes nothing and is left out, for users too. *)
UpdateOrg(r, a, o, slug, isActive) ==
  /\ SignedIn(a) /\ IsAppAdmin(a)
  /\ orgs[o] # [slug |-> slug, active |-> isActive]
  /\ slug # orgs[o].slug => o # Platform /\ ~SlugTaken(slug)
  /\ Decides(r, [kind |-> "orgpatch", org |-> o, row |-> [slug |-> slug, active |-> isActive],
                 fields |-> {f \in {"slug", "active"} :
                               [slug |-> slug, active |-> isActive][f] # orgs[o][f]}])

(***************************************************************************)
(* Users.                                                                  *)
(***************************************************************************)
UpdateUser(r, a, u, role, isActive) ==
  /\ SignedIn(a) /\ CanManage(a, u)
  /\ role # users[u].role \/ isActive # users[u].active
  /\ role # users[u].role => CanAssign(a, role)
  /\ Decides(r, [kind |-> "user", user |-> u, actorRole |-> users[a].role,
                 row |-> [role |-> role, active |-> isActive],
                 fields |-> {f \in {"role", "active"} :
                               [role |-> role, active |-> isActive][f] # users[u][f]}])

(***************************************************************************)
(* Invitations.                                                            *)
(***************************************************************************)
(* is_invitation_expired *)
Expired(i) == invites[i].exp <= now
Pending(i) == invites[i].accepted = None /\ ~invites[i].revoked /\ ~Expired(i)
HasAccount(email) == \E u \in DOMAIN users : users[u].email = email

(* _pending_invite_exists *)
PendingExists(email, org) ==
  \E i \in DOMAIN invites : invites[i].email = email /\ Pending(i)

(* create_invitation *)
CreateInvitation(r, a, org, email, role) ==
  /\ SignedIn(a) /\ IsAdmin(a)
  /\ CanAssign(a, role)
  /\ IF IsAppAdmin(a) THEN TRUE ELSE org = users[a].org
  /\ orgs[org].active
  /\ ~HasAccount(email)
  /\ ~PendingExists(email, org)
  /\ Decides(r, [kind |-> "invite", row |-> Invite(org, email, role, users[a].role)])

(* revoke_invitation: an invitation that is revoked already stays so. *)
MayRevoke(i) == invites[i].accepted = None /\ ~invites[i].revoked
Revoke(r, a, i) ==
  /\ SignedIn(a) /\ IsAdmin(a)
  /\ CanAccess(a, invites[i].org)
  /\ MayRevoke(i)
  /\ Decides(r, [kind |-> "revoke", invite |-> i])

(* accept_invite: _invitation_is_valid, and no account with the address. *)
Valid(i) == Pending(i) /\ orgs[invites[i].org].active
Accept(r, i) ==
  /\ Valid(i)
  /\ ~HasAccount(invites[i].email)
  /\ Decides(r, [kind |-> "accept", invite |-> i])

(***************************************************************************)
(* Signing in.                                                             *)
(***************************************************************************)
SignsIn(s, u) ==
  /\ signing[s] = None
  /\ signing' = [signing EXCEPT ![s] = u]
  /\ UNCHANGED <<dbVars, now, live, lateLive, late, offAt, req, pc, overlapped>>

(* login, with the right password; an inactive user gets no token.  It     *)
(* flushes last_login_at next, for which it may wait. *)
Login(s, u) == users[u].active /\ SignsIn(s, u)

HasSignedIn(u) == live[u] > 0 \/ lateLive[u] > 0

(* refresh, with a refresh token from an earlier sign-in; refresh tokens   *)
(* live longer than the clock runs here. *)
(* Mutation: the account is not read again. *)
Refresh_Unread(s, u) == HasSignedIn(u) /\ SignsIn(s, u)
Refresh(s, u) == HasSignedIn(u) /\ users[u].active /\ SignsIn(s, u)

SignInEnds(s) ==
  /\ signing[s] # None
  /\ signing' = [signing EXCEPT ![s] = None]
  /\ late' = late \ {s}
  /\ UNCHANGED <<dbVars, now, offAt, req, pc, overlapped>>

(* Both tokens are issued, whatever became of the account meanwhile. *)
IssueTokens(s) ==
  /\ SignInEnds(s)
  /\ IF s \in late
     THEN lateLive' = [lateLive EXCEPT ![signing[s]] = now + AccessTTL] /\ UNCHANGED live
     ELSE live' = [live EXCEPT ![signing[s]] = now + AccessTTL] /\ UNCHANGED lateLive

(* The flush of a login fails, or its client went away. *)
FailSignIn(s) == SignInEnds(s) /\ UNCHANGED <<live, lateLive>>

(***************************************************************************)
(* The commits.  A unique index that is violated fails the request.        *)
(***************************************************************************)
Commits(r, kind) ==
  /\ pc[r] = "writing" /\ req[r].kind = kind
  /\ pc' = [pc EXCEPT ![r] = "done"]
  /\ req' = [req EXCEPT ![r] = NoReq]
  /\ UNCHANGED <<now, overlapped>>

Patched(row, fields, new) ==
  [f \in DOMAIN row |-> IF f \in fields THEN new[f] ELSE row[f]]

CommitOrg(r) ==
  /\ Commits(r, "org")
  /\ orgs' = IF SlugTaken(req[r].slug) THEN orgs ELSE Added(orgs, r, Org(req[r].slug))
  /\ UNCHANGED <<users, invites, sessionVars>>

CommitOrgPatch(r) ==
  /\ Commits(r, "orgpatch")
  /\ orgs' = IF "slug" \in req[r].fields /\ SlugTaken(req[r].row.slug) THEN orgs
             ELSE [orgs EXCEPT ![req[r].org] = Patched(@, req[r].fields, req[r].row)]
  /\ UNCHANGED <<users, invites, sessionVars>>

CommitUser(r) ==
  /\ Commits(r, "user")
  /\ users' = [users EXCEPT ![req[r].user] = Patched(@, req[r].fields, req[r].row)]
  /\ LET off == {u \in Signers : users[u].active /\ ~users'[u].active}
     IN /\ offAt' = [u \in Signers |-> IF u \in off THEN now ELSE offAt[u]]
        /\ late' = late \cup {s \in Signins : signing[s] \in off}
  /\ UNCHANGED <<orgs, invites, signing, live, lateLive>>

CommitInvite(r) ==
  /\ Commits(r, "invite")
  /\ invites' = Added(invites, r, req[r].row)
  /\ UNCHANGED <<orgs, users, sessionVars>>

CommitRevoke(r) ==
  /\ Commits(r, "revoke")
  /\ invites' = [invites EXCEPT ![req[r].invite] = [@ EXCEPT !.revoked = TRUE]]
  /\ UNCHANGED <<orgs, users, sessionVars>>

(* The account and the mark on the invitation, in one transaction. *)
(* Mutation: the mark is committed first, the account after it. *)
CommitAccept_Torn(r) ==
  /\ Commits(r, "accept")
  /\ LET i == invites[req[r].invite]
     IN /\ users' = IF HasAccount(i.email) THEN users
                    ELSE Added(users, r, User(i.org, i.email, i.role))
        /\ invites' = [invites EXCEPT ![req[r].invite] = [@ EXCEPT !.accepted = r]]
  /\ UNCHANGED <<orgs, sessionVars>>
CommitAccept(r) ==
  /\ Commits(r, "accept")
  /\ LET i == invites[req[r].invite]
     IN IF HasAccount(i.email) THEN UNCHANGED <<users, invites>>
        ELSE /\ users' = Added(users, r, User(i.org, i.email, i.role))
             /\ invites' = [invites EXCEPT ![req[r].invite] = [@ EXCEPT !.accepted = r]]
  /\ UNCHANGED <<orgs, sessionVars>>

(* A request is served once. *)
Serve(r) ==
  /\ pc[r] = "idle"
  /\ \/ \E a \in {u \in DOMAIN users : IsAdmin(u)} :
          \/ \E slug \in Slugs : CreateOrg(r, a, slug)
          \/ \E o \in DOMAIN orgs, slug \in Slugs, isActive \in BOOLEAN :
               UpdateOrg(r, a, o, slug, isActive)
          \/ \E u \in DOMAIN users, role \in Roles, isActive \in BOOLEAN :
               UpdateUser(r, a, u, role, isActive)
          \/ \E o \in DOMAIN orgs, email \in Emails, role \in Roles :
               CreateInvitation(r, a, o, email, role)
          \/ \E i \in DOMAIN invites : Revoke(r, a, i)
     \/ \E i \in DOMAIN invites : Accept(r, i)

Next ==
  \/ Tick
  \/ \E s \in Signins :
       \/ \E u \in Signers : Login(s, u) \/ Refresh(s, u)
       \/ IssueTokens(s) \/ FailSignIn(s)
  \/ \E r \in Requests :
       \/ Serve(r)
       \/ CommitOrg(r) \/ CommitOrgPatch(r) \/ CommitUser(r)
       \/ CommitInvite(r) \/ CommitRevoke(r) \/ CommitAccept(r)

Spec == Init /\ [][Next]_vars

(***************************************************************************)
(* Properties.                                                             *)
(***************************************************************************)
(* Rows and requests have their types. *)
TypeOK ==
  /\ DOMAIN orgs \subseteq OrgIds
  /\ \A o \in DOMAIN orgs : orgs[o] \in [slug : Slugs \cup SeedOrgs, active : BOOLEAN]
  /\ DOMAIN users \subseteq UserIds
  /\ \A u \in DOMAIN users : users[u] \in UserRows
  /\ DOMAIN invites \subseteq Requests
  /\ \A i \in DOMAIN invites :
       invites[i] \in [org : OrgIds, email : Emails, role : Roles, exp : Nat,
                       accepted : Requests \cup {None}, revoked : BOOLEAN, by : Roles]
  /\ pc \in [Requests -> {"idle", "writing", "done"}]
  /\ \A r \in Requests : (pc[r] = "writing") <=> (req[r] # NoReq)
  /\ signing \in [Signins -> Signers \cup {None}]
  /\ late \subseteq {s \in Signins : signing[s] # None}

(* "Creates user, marks invite accepted": whatever races with whatever, an *)
(* address has one account, every account that was not seeded comes from   *)
(* one invitation, with its address and organisation, and every accepted   *)
(* invitation has its account. *)
InvitesMakeAccounts ==
  /\ \A u, v \in DOMAIN users : users[u].email = users[v].email => u = v
  /\ \A u \in DOMAIN users \ SeedUsers :
       \E i \in DOMAIN invites : /\ invites[i].accepted = u
                                 /\ invites[i].email = users[u].email
                                 /\ invites[i].org = users[u].org
  /\ \A i \in DOMAIN invites :
       invites[i].accepted # None => invites[i].accepted \in DOMAIN users

(* "A pending invitation already exists for this email": requests that do  *)
(* not overlap leave one pending invitation for an address. *)
SerialOnePending ==
  ~overlapped =>
    \A i, j \in DOMAIN invites :
      invites[i].email = invites[j].email /\ Pending(i) /\ Pending(j) => i = j

(* "Accepted invitations cannot be revoked", and revoked ones are not      *)
(* accepted, when requests do not overlap. *)
SerialRevokedUnused ==
  ~overlapped => \A i \in DOMAIN invites : invites[i].revoked => invites[i].accepted = None

(* Nobody manages themselves, so that some app_admin stays active as long  *)
(* as requests do not overlap: nobody else could appoint a new one. *)
SerialAppAdminRemains ==
  ~overlapped => \E u \in DOMAIN users : IsAppAdmin(u) /\ users[u].active

(* An app_admin is only ever appointed by one: by a patch, or through an   *)
(* invitation. *)
AppointedByAppAdmin ==
  \A u \in DOMAIN users' :
    users'[u].role = "app_admin" /\ (u \in DOMAIN users => users[u].role # "app_admin") =>
      \E r \in Requests :
        /\ pc[r] = "writing" /\ pc'[r] = "done"
        /\ \/ req[r].kind = "user" /\ req[r].actorRole = "app_admin"
           \/ req[r].kind = "accept" /\ invites[req[r].invite].by = "app_admin"
OnlyAppAdminsAppoint == [][AppointedByAppAdmin]_vars

(* A deactivation ends a session.  A token outlives it by AccessTTL only if *)
(* it was issued to a login or refresh that had read the account before,    *)
(* and no such sign-in begins any more: a refresh does not prolong it. *)
SessionsEnd ==
  \A u \in Signers : ~users[u].active =>
    /\ live[u] <= offAt[u] + AccessTTL
    /\ \A s \in Signins : signing[s] = u => s \in late

(* What requests that do not overlap leave: one pending invitation for an  *)
(* address, no revoked invitation that was accepted, and an app_admin. *)
SerialAdmin == SerialOnePending /\ SerialRevokedUnused /\ SerialAppAdminRemains

=============================================================================
