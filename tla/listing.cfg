CONSTANTS
  Product <- Ids
  Key <- Keys
  SIZE = 2
  NoCursor = NoCursor
  Absent = Absent
  Gone = Gone
CHECK_DEADLOCK FALSE
SPECIFICATION Spec
INVARIANTS
  TypeOK
  IInv
  ScrolledInOrder
  StayersListedOnce
  QuietListingIsComplete
