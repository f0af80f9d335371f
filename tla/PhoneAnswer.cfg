SPECIFICATION FairSpec
CONSTANTS
  Ids <- MCIds
  NewKeys <- MCKeys
  Rc4Key = "k0"
  Torn = "torn"
  CbufPackets = 3
  MaxEvents = 2
  WritesMayFail = FALSE
  SendMayFail = FALSE
PROPERTY CommandAnswered
CHECK_DEADLOCK FALSE
