SPECIFICATION Spec
CONSTANTS
  NoTitle = "none"
  Global = "global"
  Apps <- MCApps
  Section <- MCSection
  Content <- MCContent
  OverwriteBoostMode = FALSE
  Word = 65536
  PcvDebugFails = FALSE
  World <- OneWorld
  Sections <- ModestSections
  Override <- NoOverrides
  Table <- MarikoTable
  ApmConf = {"handheld"}
  Boost = {}
  Stock <- StockHandheld
  Load = {0}
  Soc = "Mariko"
  GpuUv = 0
  Bracket = 0
  Hijack = TRUE
  DvfsOffset <- Minus45mV
  MinHz = 10200
INVARIANTS
  FloorWithinVmax
CHECK_DEADLOCK FALSE
