\* Two handlers at once, one failure: what holds under every race.
SPECIFICATION Spec
CONSTANTS
  ItemCount = 3
  Handlers = {h1, h2}
  MaxStrays = 1
  MaxFailures = 1
SYMMETRY Symmetry
INVARIANTS
  StudyFlushIsWhole
  PractisedOncePerOpening
  StudiedWasShown
