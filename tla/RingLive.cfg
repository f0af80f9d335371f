SPECIFICATION FairSpec
CONSTANTS
  Envs <- MCEnvs
  MaxEvents <- MCMaxEvents
  MaxPolls = 1
  MaxOrphans = 1
INVARIANTS TypeOK KeyStopsRing StopTimerOwned
PROPERTIES SnoozeBelongs RingKept RingsEnd TurnedOffAgain IdleAlarmRings PowerOffObeyed
CHECK_DEADLOCK FALSE
