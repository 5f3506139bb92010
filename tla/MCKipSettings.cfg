SPECIFICATION Spec
CONSTANTS
  KipField <- MCFields
  DefaultKip = "stock"
  Torn = "torn"
  Mixed = "mixed"
  Setting = {"stock", "tuned"}
  Option = {"off", "on", "bad"}
  BadOption = "bad"
  DefaultOption = "off"
  Crc <- MCCrc
  NoCrc = NoCrc
  Closed = Closed
  Profiles = {"none", "set"}
  NoProfiles = "none"
  Release = {"r1", "r2"}
  MaxTime = 3
  MaxOff = 2
  MaxFail = 1
  MaxEvent = 1
  MaxSave = 1
INVARIANTS
  TypeOK
  KipAgreesAfterBoot
  TornNeverAdopted
  MixedOnlyByHand
  StaleOnlyWithinSecond
PROPERTIES
  StoreRefined
  UpdateKeepsSettings
CHECK_DEADLOCK FALSE
