SPECIFICATION Spec
CONSTANTS
  DayLen = 1440
  WeekLen = 7
  FirstYear = 2000
  LastYear = 2099
  MinuteInputs <- MCMinutes
  ModeInputs <- MCModes
  NumSlots = 3
  TimeAhead <- MCAhead
INVARIANTS TypeOK WeekdayOfDate DateOfDay AlarmDue EarliestFound SnoozeDue
CHECK_DEADLOCK FALSE
