SPECIFICATION Spec
CONSTANTS
  Tables <- MCTables
  Requests <- MCRequests
  Limits <- MCLimits
INVARIANTS
  TypeOK
  NearestIsClosest
  ClosestWithinCap
  MegahertzRoundTrip
  LoopsMatchClosedForms
CHECK_DEADLOCK FALSE
