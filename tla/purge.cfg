CONSTANTS
  Session = {s1, s2, j1}
  ATTEMPTS = 2
  Workspace = {w1}
  Product = {x1}
  File = {f1}
  Upload = {u1}
  Value = {a}
  MAX_VERSION = 0
  MAX_PRODUCTS = 2
  MAX_BYTES = 3
  MAX_IMAGES = 2
  PRODUCT_BATCH = 1
  PendingBytes <- SizesWhenPending
  StoredBytes <- SizesWhenStored
  NoRequest = NoRequest
  Absent = Absent
  Gone = Gone
  NoVersion = NoVersion
  NoFile = NoFile
  NoUpload = NoUpload
  Job = {j1}
  Killable = {s1, s2, j1}
  Faults = {"undeleted"}
  TooLarge = {}
  Requests <- PurgeRequests
SPECIFICATION FairSpec
INVARIANTS
  ImagesHaveProducts
  FilesInOnePlace
PROPERTIES
  PurgeCompletes
