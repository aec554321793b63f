\* One tap at a time, with failures and stray taps.
SPECIFICATION FairSpec
CONSTANTS
  ItemCount = 3
  Handwriting = {1}
  Typed = {0}
  Handlers = {h1}
  MaxStrays = 1
  MaxFailures = 2
  MaxAccepts = 4
INVARIANTS
  AcceptedOncePerFailure
PROPERTIES
  InProgressKeepsAnswers
  PromiseKept
  QuizFinishes
