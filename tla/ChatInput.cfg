\* Two handlers, two overlapping updates, one command, one failure.
SPECIFICATION FairSpec
CONSTANTS
  ItemCount = 3
  Typed = {0, 2}
  Handlers = {h1, h2}
  MaxCommands = 1
  MaxOverlaps = 2
  MaxFailures = 1
INVARIANTS
  OneTextPerAnnouncement
  EveryTextAnswered
  TypedAnswerRecorded
PROPERTIES
  TypingEndsQuiz
