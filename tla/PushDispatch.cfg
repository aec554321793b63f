\* Two servers, two slots, three ticks in the day, one failure.
SPECIFICATION FairSpec
CONSTANTS
  Servers = {s1, s2}
  SlotCount = 2
  MaxUnfinished = 2
  MaxTicks = 3
  MaxRequests = 1
  MaxFailures = 1
INVARIANTS
  SentOncePerClaim
  BacklogBounded
PROPERTIES
  DueSlotAnswered
CHECK_DEADLOCK FALSE
