SPECIFICATION Spec
CONSTANTS
  NoTitle = "none"
  Global = "global"
  Apps <- MCApps
  Section <- MCSection
  Content <- MCContent
  OverwriteBoostMode = FALSE
  Word = 65536
  PcvDebugFails = FALSE
  World <- OneWorld
  Sections <- GovernorSections
  Override <- GovernorOverrides
  Table <- EristaTable
  ApmConf = {"handheld"}
  Boost = {}
  Stock <- StockHandheld
  Load = {900}
  Soc = "Erista"
  GpuUv = 0
  Bracket = 0
  Hijack = FALSE
  DvfsOffset = 0
  MinHz = 10200
PROPERTIES
  GovernorStopsClean
CHECK_DEADLOCK FALSE
