SPECIFICATION Spec
CONSTANTS
  Pcbs = {p1, p2, p3}
  Lifetime = 1
  MaxFailures = 0
  Contents = {sun}
  NoWeather = none
  Segments <- MCSegments
INVARIANT ConnectsOnlyToResolved
