SPECIFICATION Spec
CONSTANTS
  Handlers = {h1, h2}
  Zones = {"Seoul", "NewYork", "London"}
  Home = "Seoul"
  OtherZones = {}
  Times = {0, 2}
  DefaultTime = 0
  DayLength = 4
  Offset <- MCOffset
  Start = 4
  Horizon = 20
  MaxVisits = 2
  MaxFailures = 1
SYMMETRY Symmetry
INVARIANTS
  OncePerDay
  EveryDayServed
  StreakRight
CHECK_DEADLOCK FALSE
