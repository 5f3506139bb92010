SPECIFICATION FairSpec
CONSTANTS
  Session = {s1, s2, s3, s4}
  MaxSessions = 3
  MaxAsk = 5
INVARIANTS
  TypeOK
  TableIsExact
  RoomForAll
  AnswerGoesToAsker
PROPERTIES
  NobodyCutOff
  EveryoneAnswered
  ExitEnds
CHECK_DEADLOCK FALSE
