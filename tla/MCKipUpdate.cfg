SPECIFICATION Spec
CONSTANTS
  KipField <- MCFields
  DefaultKip = "stock"
  Torn = "torn"
  Mixed = "mixed"
  Setting = {"stock", "tuned"}
  Option = {"off", "on", "bad"}
  BadOption = "bad"
  DefaultOption = "off"
  Crc <- MCCrc
  NoCrc = NoCrc
  Closed = Closed
  Profiles = {"none", "set"}
  NoProfiles = "none"
  Release = {"r1"}
  MaxTime = 3
  MaxOff = 1
  MaxFail = 0
  MaxEvent = 0
  MaxSave = 2
CHECK_DEADLOCK FALSE
PROPERTIES
  UpdateIsNews
