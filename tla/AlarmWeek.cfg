SPECIFICATION Spec
CONSTANTS
  NumSlots = 1
  DayLen = 2
  WeekLen = 3
  MaxDay = 3
  MaxEvents = 1
  SwInputs = {1, 2}
  ModeInputs <- MCWeekModes
  DayInputs = {2}
  Crashes = TRUE
  WritesMayFail = TRUE
  TickInHandler = FALSE
INVARIANTS FlashErrorsContained RegisterAhead
CHECK_DEADLOCK FALSE
