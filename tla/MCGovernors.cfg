SPECIFICATION Spec
CONSTANTS
  NoTitle = "none"
  Global = "global"
  Apps <- MCApps
  Section <- MCSection
  Content <- MCContent
  OverwriteBoostMode = FALSE
  Word = 65536
  PcvDebugFails = FALSE
  World <- DockWorlds
  Sections <- GovernorSections
  Override <- GovernorOverrides
  Table <- EristaTable
  ApmConf = {"handheld", "docked"}
  Boost = {}
  Stock <- StockDock
  Load = {0, 500, 900}
  Soc = "Erista"
  GpuUv = 0
  Bracket = 0
  Hijack = FALSE
  DvfsOffset = 0
  MinHz = 10200
INVARIANTS
  SettleAtStock
  CapRespected
PROPERTIES
  GovernorWithinTarget
CHECK_DEADLOCK FALSE
