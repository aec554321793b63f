\* Five questions on two levels, a scheduler and a backfill, one seed, one failure.
SPECIFICATION FairSpec
CONSTANTS
  Questions = {1, 2, 3, 4, 5}
  Scripts = {"a", "c", "bad"}
  Hopeless = {"bad"}
  None = None
  FirstScript <- MCFirstScript
  LevelOf <- MCLevelOf
  SessionLevels <- MCSessionLevels
  BackfillLevel = "N4"
  Servers = {"scheduler"}
  Admins = {"admin"}
  PerCycle = 2
  MaxSeeds = 1
  MaxShows = 2
  MaxFailures = 1
INVARIANTS
  PathLeadsToClip
  HeardWhatIsAsked
  ShownWithClip
PROPERTIES
  EveryClipMade
CHECK_DEADLOCK FALSE
