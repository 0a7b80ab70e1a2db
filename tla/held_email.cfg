CONSTANTS
  Session = {s1, s2}
  ATTEMPTS = 2
  Subject = {v1, v2}
  TheEmail = e1
  Upload = {}
  TooLarge = {}
  File = {}
  Killable = {}
  Faults = {}
  Email <- OneEmail
  EmailOf <- EmailOfAll
  NoRequest = NoRequest
  NoFile = NoFile
  NoUpload = NoUpload
  Absent = Absent
  Gone = Gone
SYMMETRY Symmetry
SPECIFICATION Spec
INVARIANTS
  NobodyIsLockedOut
