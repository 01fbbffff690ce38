----------------------------- MODULE MCAccounts -----------------------------
(* Instances of Accounts small enough for TLC.                             *)
EXTENDS Accounts, TLC

MCRow(status, role, org) == [status |-> status, role |-> role, org |-> org]

(* Administrators and users of the platform and of an organisation.        *)
MCFirstRows ==
  {Blank} \cup {MCRow("active", role, org) : role \in Roles, org \in Orgs \cup {NoOrg}}
    \cup {MCRow("suspended", "admin", NoOrg), MCRow("deleted", "user", NoOrg)}

(* One field at a time, and a demotion with a suspension.                  *)
MCPatches ==
  {[NoPatch EXCEPT !.role = role] : role \in Roles}
    \cup {[NoPatch EXCEPT !.status = status] : status \in {"active", "suspended"}}
    \cup {[NoPatch EXCEPT !.org = org] : org \in Orgs \cup {NoOrg}}
    \cup {[NoPatch EXCEPT !.role = "user", !.status = "suspended"]}

MCSymmetry == Permutations(Users \ {Founder}) \cup Permutations(Requests)
=============================================================================
