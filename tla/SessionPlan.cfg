\* A quiz of five from twelve questions, with one failed query; or any study plan
\* from any supply of materials.
SPECIFICATION MCSpec
CONSTANTS
  Catalog <- MCCatalog
  Relay <- MCRelay
  Scope = {"lower", "current", "upper"}
  Total = 5
  ReviewCount = 2
  MaxPerCategory = 2
  MaxKanji = 1
  MaxFailures = 1
  Supplies <- MCSupplies
INVARIANTS
  CapsKept
  ShortOnlyWithoutSupply
  CurrentFirst
  ReservationsKept
  MixKept
  StudyShortOnlyWithoutSupply
CHECK_DEADLOCK FALSE
