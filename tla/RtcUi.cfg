SPECIFICATION FairSpec
CONSTANTS
  WeekLen = 3
  Envs <- MCEnvs
  MaxQueue = 2
INVARIANTS TypeOK EditOwnTarget
PROPERTIES DateKept MenusEnd EditsSaved RingNotCut
