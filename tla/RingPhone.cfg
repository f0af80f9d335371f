SPECIFICATION FairSpec
CONSTANTS
  Envs <- MCPhone
  MaxEvents <- MCMaxEvents
  MaxPolls = 1
  MaxOrphans = 1
PROPERTY AlarmAnswered
CHECK_DEADLOCK FALSE
