\* One tap at a time; the reload of a start may fail.
SPECIFICATION FairSpec
CONSTANTS
  ItemCount = 2
  Handwriting = {}
  Typed = {}
  Handlers = {h1}
  MaxStrays = 1
  MaxFailures = 1
  MaxAccepts = 2
PROPERTIES
  RepeatedStartKeepsAnswers
