SPECIFICATION Spec
CONSTANTS
  Consoles <- MCConsoles
  Tvs <- MCTvs
  NoTv = NoTv
  Fps = {25, 100}
  NoFps = 254
  Wishes <- MCWishes
  FocusAfter = 0
  TickWidth = 2
  TopAfter = 1
  MaxEvent = 2
INVARIANTS
  TypeOK
  PanelInRange
  TvWithinHighest
  OnePassTooLate
  FocusKnown
PROPERTIES
  PassFits
  TicksForEver
CHECK_DEADLOCK FALSE
