CONSTANTS
  Session = {s1, s2}
  ATTEMPTS = 2
  User = {u1}
  Workspace = {w1, w2}
  Invitation = {}
  SpareRole = {}
  CustomName = {}
  NoRequest = NoRequest
  Absent = Absent
  Gone = Gone
  NoInvitation = NoInvitation
  Requests <- SkewRequests
SYMMETRY Symmetry
SPECIFICATION Spec
INVARIANTS
  ReturnedToWorkspaceStep
