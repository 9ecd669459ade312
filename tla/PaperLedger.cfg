SPECIFICATION Spec
SYMMETRY MCSymmetry
CONSTANTS
  Ids = {p1, p2}
  Prices = {1, 2}
  DefaultCash = 3
  AccountSizes = {2}
  Closers = {lane, autopilot}
  Arena = TRUE
  Protected = TRUE
  DcaMax = 1
  MaxEdits = 1
  MaxCrashes = 1
  NoId = NoId
INVARIANTS
  BooksAgree
  CashHoldsUnlessOvertaken
  DcaCappedUntilRestart
PROPERTIES
  ClosedOnceUnlessOvertaken
CHECK_DEADLOCK FALSE
