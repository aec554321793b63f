\* Two words, two handlers, two overlapping taps, one tap on an older message,
\* two failures.
SPECIFICATION FairSpec
CONSTANTS
  OptionCount = 2
  Handlers = {h1, h2}
  MaxChanges = 1
  MaxStrays = 1
  MaxOverlaps = 2
  MaxFailures = 2
PROPERTIES
  SubmittedAsShown
  SentenceSubmitted
CHECK_DEADLOCK FALSE
