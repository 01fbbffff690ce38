SPECIFICATION AccountsSpec
CONSTANTS
  Users = {founder, ann, bob, cyd}
  Founder = founder
  Orgs = {acme}
  Requests = {q1, q2}
  Patches <- MCPatches
  FirstRows <- MCFirstRows
SYMMETRY MCSymmetry
CHECK_DEADLOCK FALSE
PROPERTIES AdminRemains OrgKeepsItsAdmin
