SPECIFICATION Spec
CONSTANTS
  Pcbs = {p1, p2, p3}
  Lifetime = 1
  MaxFailures = 4
  Contents = {sun}
  NoWeather = none
  Segments <- MCSegments
INVARIANT NewPcbStaysPossible
