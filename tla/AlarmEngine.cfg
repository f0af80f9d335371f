SPECIFICATION Spec
CONSTANTS
  NumSlots = 2
  DayLen = 1
  WeekLen = 3
  MaxDay = 2
  MaxEvents = 1
  SwInputs = {0, 1}
  ModeInputs <- MCTwoModes
  DayInputs = {0}
  Crashes = TRUE
  WritesMayFail = FALSE
  TickInHandler = TRUE
INVARIANTS
  TypeOK
  ArmedForEarliest
  PromiseKept
  MappedHasRecord
PROPERTIES UndisturbedAlarmRings SettingsStored
CHECK_DEADLOCK FALSE
