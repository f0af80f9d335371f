SPECIFICATION FairSpec
CONSTANTS
  Devices = {sd0, udisk0}
  Main = sd0
  None = None
  Gone = Gone
  Cards <- MCCards
  Envs <- MCEnvs
  MaxQueue = 3
INVARIANTS TypeOK GoodDeviceKept
PROPERTIES SilenceEnds
CHECK_DEADLOCK FALSE
