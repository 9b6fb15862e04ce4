\* An administrator and a manager; two requests overlap.
SPECIFICATION Spec
CONSTANTS
  Users = {admin, manager}
  Admin = admin
  Requests = {r1, r2}
  Players = {p1, p2}
  Jerseys = {1, 2}
  MaxActs = 4
  MaxRows = 2
  RolesGiven = {"coach", "tournament-manager"}
  MaxAreas = 2
SYMMETRY Alike
INVARIANTS TypeOK ReviewHolds DecisionsStand InvitationsGrantOnce OldLogosRetired
CHECK_DEADLOCK FALSE
