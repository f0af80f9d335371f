SPECIFICATION FairSpec
CONSTANTS
  Ids <- MCIds
  NewKeys <- MCKeys
  Rc4Key = "k0"
  Torn = "torn"
  CbufPackets = 2
  MaxEvents = 2
  WritesMayFail = FALSE
  SendMayFail = TRUE
INVARIANTS TypeOK PacketHasEvent KeysAgree AcksReadable BindingSaved
PROPERTY KeptCommandAnswered
CHECK_DEADLOCK FALSE
