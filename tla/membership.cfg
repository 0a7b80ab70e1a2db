CONSTANTS
  Session = {s1, s2}
  ATTEMPTS = 1
  User = {u1, u2}
  Workspace = {w1}
  Invitation = {i1, i2}
  SpareRole = {}
  CustomName = {}
  NoRequest = NoRequest
  Absent = Absent
  Gone = Gone
  NoInvitation = NoInvitation
  Requests <- MembershipRequests
SYMMETRY Symmetry
SPECIFICATION Spec
INVARIANTS
  TypeOK
  IInv
  OwnersAreSingle
  UsableInvitationIsLive
  PurgedForGood
  OneUsableInvitation
  ReturnedToWorkspaceStep
  
PROPERTIES
  SettledOnce
  ImplementsTeams
