\* One tap at a time, with failures and stray taps.
SPECIFICATION FairSpec
CONSTANTS
  ItemCount = 3
  Handlers = {h1}
  MaxStrays = 2
  MaxFailures = 2
PROPERTIES
  MarksKept
  PromiseKept
  StudyFinishes
