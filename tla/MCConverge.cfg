SPECIFICATION FairSpec
CONSTANTS
  NoTitle = "none"
  Global = "global"
  Apps <- MCApps
  Section <- MCSection
  Content <- MCContent
  OverwriteBoostMode = FALSE
  Word = 65536
  PcvDebugFails = FALSE
  World <- OneWorld
  Sections <- RamSections
  Override <- RamOverride
  Table <- MarikoTable
  ApmConf = {"handheld", "docked"}
  Boost = {}
  Stock <- StockDock
  Load = {0}
  Soc = "Mariko"
  GpuUv = 0
  Bracket = 0
  Hijack = TRUE
  DvfsOffset <- Minus45mV
  MinHz = 10200
INVARIANTS
  TypeOK
  FloorCoversMem
  SettleAtStock
  CapRespected
PROPERTIES
  ClocksConverge
  EditsLoaded
CHECK_DEADLOCK FALSE
