SPECIFICATION Spec
CONSTANTS
  DayLen = 1440
  WeekLen = 7
  FirstYear = 2024
  LastYear = 2024
  MinuteInputs <- MCMorning
  ModeInputs <- MCModes
  NumSlots = 3
  TimeAhead <- MCAhead
INVARIANT BeijingTime
CHECK_DEADLOCK FALSE
