SPECIFICATION Spec
CONSTANTS
  Consoles <- CapConsoles
  Tvs = {}
  NoTv = NoTv
  Fps = {30, 60}
  NoFps = 254
  Wishes <- CapWishes
  FocusAfter = 0
  TickWidth = 2
  TopAfter = 1
  MaxEvent = 0
INVARIANTS
  CapKept
CHECK_DEADLOCK FALSE
