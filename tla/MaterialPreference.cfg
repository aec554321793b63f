\* Two questions, one of them kanji recall and alone on its level; the second was reviewed before.
SPECIFICATION Spec
CONSTANTS
  Questions = {1, 2}
  KanjiRecall = {2}
  Reviewed = {2}
  Mute = {}
  Scopes = {{1, 2}, {2}}
  Sessions = {1, 2}
  InitialDays = 30
  MaxDays = 40
  Waits = {30}
  Horizon = 90
  MaxChoices = 1
  MaxStarts = 3
INVARIANTS
  ChecksSpaced
  CheckedOnce
  ScheduleSound
  
PROPERTIES
  ChoiceStands
CHECK_DEADLOCK FALSE
