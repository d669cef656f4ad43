SPECIFICATION Spec
CONSTANTS
  Frames <- MCFrames
  Blank <- MCBlank
  NoFrame <- MCNoFrame
  FastTicks = 1
  FullTicks = 2
  SecsPerMin = 12
  MinsPerHour = 2
  HoursPerDay = 2
  Days = 2
  TimeZone <- MCTimeZone
  DstHours <- SummerDay
  Jumps <- SecondJumps
  MinQuiet = 12
  MaxStall = 0
  WarmStart = TRUE
INVARIANT TypeOK
INVARIANT MinuteOnScreen
INVARIANT WeatherEveryMinute
INVARIANT BlindWritesOnlyWhenIdle
PROPERTY KeepsShowingTime
