CONSTANTS
  Session = {s1, s2}
  ATTEMPTS = 2
  Workspace = {w1}
  Product = {x1}
  File = {f1, f2, f3}
  Upload = {u1, u2}
  Value = {a, b}
  MAX_VERSION = 2
  MAX_PRODUCTS = 2
  MAX_BYTES = 3
  MAX_IMAGES = 2
  PRODUCT_BATCH = 1
  PendingBytes <- SizesWhenPending
  StoredBytes <- SizesWhenStored
  NoRequest = NoRequest
  Absent = Absent
  Gone = Gone
  NoVersion = NoVersion
  NoFile = NoFile
  NoUpload = NoUpload
  Job = {}
  Killable = {}
  Faults = {}
  TooLarge = {u2}
  Requests <- DetailRequests
SYMMETRY Symmetry
SPECIFICATION Spec
INVARIANTS
  ShownFilesExist
  FilesAccountedFor
  FilesInOnePlace

  
