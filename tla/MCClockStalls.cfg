SPECIFICATION Spec
CONSTANTS
  Frames <- MCFrames
  Blank <- MCBlank
  NoFrame <- MCNoFrame
  FastTicks = 1
  FullTicks = 2
  SecsPerMin = 12
  MinsPerHour = 2
  HoursPerDay = 2
  Days = 1
  TimeZone <- MCTimeZone
  DstHours = {}
  Jumps <- SecondJumps
  MinQuiet = 12
  MaxStall = 1
  WarmStart = TRUE
INVARIANT NoOverprint
PROPERTY ShowsOnlyCurrentMinutes
INVARIANT FastBetweenUpdates
