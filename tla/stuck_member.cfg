CONSTANTS
  Session = {s1, s2}
  ATTEMPTS = 2
  User = {u1, u2}
  Workspace = {w1}
  Invitation = {i1}
  SpareRole = {}
  CustomName = {}
  NoRequest = NoRequest
  Absent = Absent
  Gone = Gone
  NoInvitation = NoInvitation
  Requests <- StuckRequests
SYMMETRY Symmetry
SPECIFICATION Spec
INVARIANTS
  MembersPassedWorkspaceStep
