CONSTANTS
  Session = {s1, s2}
  ATTEMPTS = 2
  User = {u1, u2}
  Workspace = {w1}
  Invitation = {i1}
  SpareRole = {"r1"}
  CustomName = {"clerk"}
  NoRequest = NoRequest
  Absent = Absent
  Gone = Gone
  NoInvitation = NoInvitation
  Requests <- RoleRequests
SYMMETRY Symmetry
SPECIFICATION Spec
INVARIANTS
  RolesInUseExist
  LockInv
PROPERTIES
  AuthorisedWhenCommitted
