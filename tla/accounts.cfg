CONSTANTS
  Session = {s1, s2, s3}
  ATTEMPTS = 2
  Subject = {v1, v2}
  TheEmail = e1
  Upload = {u1}
  TooLarge = {}
  File = {f1, f2}
  Killable = {}
  Faults = {"password"}
  Email <- OneEmail
  EmailOf <- EmailOfAll
  NoRequest = NoRequest
  NoFile = NoFile
  NoUpload = NoUpload
  Absent = Absent
  Gone = Gone
SYMMETRY Symmetry
SPECIFICATION Spec
INVARIANTS
  TypeOK
  OneRowPerEmail
  AvatarsHaveFiles
  FilesAccountedFor
  DeletedInBoth
  IInv
  FilesInOnePlace
  
PROPERTIES
  NeverHandedOver
