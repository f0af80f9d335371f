SPECIFICATION CmdSpec
CONSTANTS
  NumSlots = 4
  DayLen = 1
  WeekLen = 1
  MaxDay = 1
  MaxEvents = 1
  SwInputs = {0, 1}
  ModeInputs <- MCModes
  DayInputs = {0}
  Crashes = TRUE
  WritesMayFail = FALSE
  TickInHandler = FALSE
  PhoneModes <- MCPhoneModes
  MaxCommands = 3
  SleepTime = 0
INVARIANTS
  CommandWhole
PROPERTIES FreeAlarmFirst
CHECK_DEADLOCK FALSE
