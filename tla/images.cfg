CONSTANTS
  Session = {s1, s2}
  ATTEMPTS = 2
  Workspace = {w1}
  Product = {x1, x2}
  File = {f1, f2}
  Upload = {u1, u2, u3}
  Value = {a}
  MAX_VERSION = 0
  MAX_PRODUCTS = 1
  MAX_BYTES = 3
  MAX_IMAGES = 2
  PRODUCT_BATCH = 1
  PendingBytes <- SizesWhenPending
  StoredBytes <- SizesWhenStored
  NoRequest = NoRequest
  Absent = Absent
  Gone = Gone
  NoVersion = NoVersion
  NoFile = NoFile
  NoUpload = NoUpload
  Job = {}
  Killable = {}
  Faults = {"unanswered"}
  TooLarge = {}
  Requests <- ImageRequests
SYMMETRY Symmetry
SPECIFICATION Spec
INVARIANTS
  TypeOK
  QuotasHold
  PositionsAreDense
  OneImagePerUpload
  
  IInv
