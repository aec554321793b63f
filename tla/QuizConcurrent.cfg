\* Two handlers at once, one failure: what holds under every race.
SPECIFICATION Spec
CONSTANTS
  ItemCount = 2
  Handwriting = {1}
  Typed = {0}
  Handlers = {h1, h2}
  MaxStrays = 1
  MaxFailures = 1
  MaxAccepts = 1
SYMMETRY Symmetry
INVARIANTS
  FlushIsWhole
  FlushedOncePerOpening
  AnswersWereAccepted
