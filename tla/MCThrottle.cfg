SPECIFICATION Spec
CONSTANTS
  NoTitle = "none"
  Global = "global"
  Apps <- MCApps
  Section <- MCSection
  Content <- MCContent
  OverwriteBoostMode = FALSE
  Word = 65536
  PcvDebugFails = FALSE
  World <- OneWorld
  Sections <- CpuSections
  Override <- NoOverrides
  Table <- EristaTable
  ApmConf = {"handheld"}
  Boost = {}
  Stock <- StockHandheld
  Load = {0}
  Soc = "Erista"
  GpuUv = 0
  Bracket = 0
  Hijack = FALSE
  DvfsOffset = 0
  MinHz = 10200
INVARIANTS
  ThrottleHolds
CHECK_DEADLOCK FALSE
