SPECIFICATION Spec
CONSTANTS
  WeekLen = 3
  Envs <- MCToggle
  MaxQueue = 2
PROPERTY InterruptedIsTold
