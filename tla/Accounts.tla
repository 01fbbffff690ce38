------------------------------ MODULE Accounts ------------------------------
(***************************************************************************)
(* Accounts and their administrators: the users table as identity.ts       *)
(* writes it, the requests that change it (the admin routes, sign-up, the  *)
(* first-admin bootstrap) and the guards they pass to updateUser and       *)
(* createUser.  Every query outside a transaction is a step of its own;    *)
(* the transactions take the users key, so each is one step.               *)
(*                                                                         *)
(* A user stands for a username.  Passwords, invitations, sessions, limits *)
(* and display names are left out: no guard reads them.                    *)
(***************************************************************************)
EXTENDS Naturals, FiniteSets

CONSTANTS Users,
          Founder,   \* ADMIN_BOOTSTRAP_USERNAME
          Orgs,
          Requests,  \* bound: requests, each made once
          Patches,   \* bound: the bodies a PATCH may have
          FirstRows  \* bound: the rows accounts may start with

Statuses == {"absent", "active", "suspended", "deleted"}
Roles == {"admin", "user"}
NoOrg == "none"
Row == [status : Statuses, role : Roles, org : Orgs \cup {NoOrg}]
Blank == [status |-> "absent", role |-> "user", org |-> NoOrg]

(* What a PATCH sets; "keep" when the body has no such field, or the value *)
(* the row was read with.                                                  *)
Patch == [role : Roles \cup {"keep"}, status : {"active", "suspended", "keep"},
          org : Orgs \cup {NoOrg, "keep"}]
NoPatch == [role |-> "keep", status |-> "keep", org |-> "keep"]

ASSUME AccountsAssumption ==
  /\ IsFiniteSet(Users) /\ Founder \in Users /\ "none" \notin Users
  /\ NoOrg \notin Orgs /\ "keep" \notin Orgs
  /\ Patches \subseteq Patch
  /\ FirstRows \subseteq {row \in Row : row.status = "absent" => row = Blank}

VARIABLES
  users,   \* the rows; a username nobody has is an absent one
  request  \* each request: how far it is, and what it read and decided

accountsVars == <<users, request>>

Request == [at : {"idle", "begun", "counted", "checking", "ready", "done", "refused"},
            op : {"none", "update", "delete", "create", "promote", "found"},
            actor : Users \cup {"none"}, actorOrg : Orgs \cup {NoOrg},
            target : Users, seen : Row, patch : Patch, guarded : BOOLEAN]

NewRequest == [at |-> "idle", op |-> "none", actor |-> "none", actorOrg |-> NoOrg,
               target |-> Founder, seen |-> Blank, patch |-> NoPatch, guarded |-> FALSE]

AccountsTypeOK ==
  /\ users \in [Users -> Row]
  /\ \A u \in Users : users[u].status = "absent" => users[u] = Blank
  /\ request \in [Requests -> Request]

AccountsInit ==
  /\ users \in [Users -> FirstRows]
  /\ request = [r \in Requests |-> NewRequest]

-----------------------------------------------------------------------------
(* countActiveAdmins, countActiveOrgAdmins.                                *)

IsActiveAdmin(row) == row.role = "admin" /\ row.status = "active"
ActiveAdmins == {u \in Users : IsActiveAdmin(users[u])}
OrgAdmins(o) == {u \in ActiveAdmins : users[u].org = o}

(* Fault: the rule of an organisation's own last admin is dropped.         *)
LastAnywhere(row, actorOrg) == IsActiveAdmin(row) /\ Cardinality(ActiveAdmins) <= 1

(* assertNotLastActiveAdmin refuses.                                       *)
LastAdmin(row, actorOrg) ==
  /\ IsActiveAdmin(row)
  /\ \/ Cardinality(ActiveAdmins) <= 1
     \/ /\ row.org # NoOrg /\ actorOrg # NoOrg
        /\ Cardinality(OrgAdmins(row.org)) <= 1

InScope(actorOrg, row) == actorOrg = NoOrg \/ row.org = actorOrg

(* A step of request r alone.                                              *)
Goes(r, next) == request' = [request EXCEPT ![r] = next]

-----------------------------------------------------------------------------
(* The admin routes up to their transaction.                               *)

(* requireAdmin.                                                           *)
Begin(r, admin) ==
  /\ request[r].at = "idle"
  /\ IsActiveAdmin(users[admin])
  /\ Goes(r, [request[r] EXCEPT !.at = "begun", !.actor = admin, !.actorOrg = users[admin].org])
  /\ UNCHANGED users

Changes(field, value) == field # "keep" /\ field # value

(* What is left of the body once what the row has already is dropped.      *)
Effective(patch, row) ==
  [role |-> IF Changes(patch.role, row.role) THEN patch.role ELSE "keep",
   status |-> IF Changes(patch.status, row.status) THEN patch.status ELSE "keep",
   org |-> IF Changes(patch.org, row.org) THEN patch.org ELSE "keep"]

(* needsAdminGuard.                                                        *)
NeedsGuard(patch, row) ==
  \/ patch.role = "user" \/ patch.status = "suspended"
  \/ patch.org # "keep" /\ row.role = "admin" /\ row.org = NoOrg

(* PATCH reads the target; what it refuses goes no further.                *)
ReadForUpdate(r, target, patch) ==
  LET q == request[r]  row == users[target]  effective == Effective(patch, row) IN
  /\ q.at = "begun"
  /\ row.status \notin {"absent", "deleted"} /\ InScope(q.actorOrg, row)
  /\ target = q.actor => patch.role # "user" /\ patch.status # "suspended" /\ effective.org = "keep"
  /\ effective.org # "keep" => q.actorOrg = NoOrg
  /\ Goes(r, [q EXCEPT !.at = IF NeedsGuard(effective, row) THEN "checking" ELSE "ready",
                       !.op = "update", !.target = target, !.seen = row, !.patch = effective,
                       !.guarded = NeedsGuard(effective, row)])
  /\ UNCHANGED users

(* DELETE reads it, also to finish the deletion of a deleted account.      *)
ReadForDelete(r, target) ==
  LET q == request[r]  row == users[target] IN
  /\ q.at = "begun"
  /\ row.status # "absent" /\ InScope(q.actorOrg, row) /\ target # q.actor
  /\ Goes(r, [q EXCEPT !.at = "checking", !.op = "delete", !.target = target, !.seen = row,
                       !.guarded = TRUE])
  /\ UNCHANGED users

(* The early answer, on the row read before and counts of now.             *)
EarlyAnswer(r) ==
  LET q == request[r] IN
  /\ q.at = "checking"
  /\ Goes(r, [q EXCEPT !.at = IF LastAdmin(q.seen, q.actorOrg) THEN "refused" ELSE "ready"])
  /\ UNCHANGED users

(* POST users and orgs: a name not taken, in the admin's organisation or,  *)
(* for a platform admin, in any.  The first admin of a new organisation.   *)
ReadForCreate(r, target, role, org) ==
  LET q == request[r] IN
  /\ q.at = "begun"
  /\ users[target].status = "absent"
  /\ q.actorOrg # NoOrg => org = q.actorOrg
  /\ Goes(r, [q EXCEPT !.at = "ready", !.op = "create", !.target = target,
                       !.patch = [role |-> role, status |-> "active", org |-> org]])
  /\ UNCHANGED users

(* POST register.                                                          *)
Register(r, target) ==
  /\ request[r].at = "idle"
  /\ users[target].status = "absent"
  /\ Goes(r, [request[r] EXCEPT !.at = "ready", !.op = "create", !.target = target,
                !.patch = [role |-> "user", status |-> "active", org |-> NoOrg]])
  /\ UNCHANGED users

-----------------------------------------------------------------------------
(* bootstrapFirstAdmin: the count, then the founder's row.                 *)

Bootstrap(r) ==
  /\ request[r].at = "idle"
  /\ ActiveAdmins = {}
  /\ Goes(r, [request[r] EXCEPT !.at = "counted", !.op = "found"])
  /\ UNCHANGED users

ReadFounder(r) ==
  /\ request[r].at = "counted"
  /\ Goes(r, [request[r] EXCEPT !.at = "ready",
                !.op = IF users[Founder].status = "absent" THEN "found" ELSE "promote"])
  /\ UNCHANGED users

-----------------------------------------------------------------------------
(* The transactions, under the users key.                                  *)

(* Fault: the transaction relies on the early answer.                      *)
RefusedByStatus(q) == q.op = "update" /\ users[q.target].status = "deleted"

(* updateUser's guard on the locked row.                                   *)
GuardRefuses(q) ==
  \/ q.op = "update" /\ users[q.target].status = "deleted"
  \/ q.guarded /\ LastAdmin(users[q.target], q.actorOrg)

Set(value, field) == IF field = "keep" THEN value ELSE field

Patched(row, patch) ==
  [status |-> Set(row.status, patch.status), role |-> Set(row.role, patch.role),
   org |-> Set(row.org, patch.org)]

UpdateUser(r) ==
  LET q == request[r] IN
  /\ q.at = "ready" /\ q.op \in {"update", "delete"}
  /\ IF GuardRefuses(q)
     THEN Goes(r, [q EXCEPT !.at = "refused"]) /\ UNCHANGED users
     ELSE /\ Goes(r, [q EXCEPT !.at = "done"])
          /\ users' = [users EXCEPT ![q.target] =
               IF q.op = "delete" THEN [@ EXCEPT !.status = "deleted"] ELSE Patched(@, q.patch)]

Created(patch) == [status |-> "active", role |-> patch.role, org |-> patch.org]

(* createUser checks the name again.                                       *)
CreateUser(r) ==
  LET q == request[r] IN
  /\ q.at = "ready" /\ q.op = "create"
  /\ IF users[q.target].status # "absent"
     THEN Goes(r, [q EXCEPT !.at = "refused"]) /\ UNCHANGED users
     ELSE /\ Goes(r, [q EXCEPT !.at = "done"])
          /\ users' = [users EXCEPT ![q.target] = Created(q.patch)]

(* assertNoActiveAdmin, and the name for a founder who is created.         *)
FounderRises(q) ==
  ActiveAdmins = {} /\ (q.op = "found" => users[Founder].status = "absent")

WriteFounder(r) ==
  LET q == request[r] IN
  /\ q.at = "ready" /\ q.op \in {"promote", "found"}
  /\ IF ~FounderRises(q)
     THEN Goes(r, [q EXCEPT !.at = "refused"]) /\ UNCHANGED users
     ELSE /\ Goes(r, [q EXCEPT !.at = "done"])
          /\ users' = [users EXCEPT ![Founder].role = "admin", ![Founder].status = "active"]

-----------------------------------------------------------------------------
AccountsNext ==
  \E r \in Requests :
    \/ \E u \in Users :
         \/ Begin(r, u)
         \/ \E patch \in Patches : ReadForUpdate(r, u, patch)
         \/ ReadForDelete(r, u)
         \/ \E role \in Roles, org \in Orgs \cup {NoOrg} : ReadForCreate(r, u, role, org)
         \/ Register(r, u)
    \/ EarlyAnswer(r)
    \/ Bootstrap(r) \/ ReadFounder(r)
    \/ UpdateUser(r) \/ CreateUser(r) \/ WriteFounder(r)

AccountsSpec == AccountsInit /\ [][AccountsNext]_accountsVars
-----------------------------------------------------------------------------
(* Properties.                                                             *)

(* Whatever requests cross, the last active administrator stays one        *)
(* (assertNotLastActiveAdmin as the guard of updateUser).                  *)
AdminRemains == [][ActiveAdmins # {} => ActiveAdmins' # {}]_accountsVars

(* An organisation loses its last active admin only to a platform admin,   *)
(* even when the guarded request read the row before another one changed   *)
(* it (docs/ADMIN_MANUAL.md).                                              *)
OrgKeepsItsAdmin ==
  [][\A r \in Requests, o \in Orgs :
       request'[r] # request[r] /\ request[r].actorOrg # NoOrg /\ OrgAdmins(o) # {} =>
         OrgAdmins(o)' # {}]_accountsVars

(* A deleted account stays as it is, for requests that read it before the  *)
(* deletion too; only a bootstrap brings the founder's back.               *)
DeletedStaysDeleted ==
  [][\A u \in Users :
       users[u].status = "deleted" /\ users'[u] # users[u] =>
         \E r \in Requests : request[r].op = "promote" /\ request'[r].at = "done"]_accountsVars

(* Of all bootstraps, at once or not, one makes an administrator.          *)
BootstrapOnce ==
  \A q, r \in Requests :
    /\ request[q].at = "done" /\ request[q].op \in {"promote", "found"}
    /\ request[r].at = "done" /\ request[r].op \in {"promote", "found"}
    => q = r
=============================================================================
