SPECIFICATION Spec
CONSTANTS
  Pcbs = {p1, p2, p3, p4}
  Lifetime = 1
  MaxFailures = 1
  Contents = {sun}
  NoWeather = none
  Segments <- MCSegments
INVARIANT TypeOK
INVARIANT PcbForEveryRequest
INVARIANT WeatherNotTorn
PROPERTY ConnectionsEnd
