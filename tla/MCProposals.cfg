SPECIFICATION PSpec
CONSTANTS
  drill = drill
  original = original
  changed = changed
  NoText = NoText
  NoSource = NoSource
  NoId = NoId
  Ids = {r1, c1}
  Runs = {r1}
  Keys = {slide, drill}
  Exercises = {drill}
  Texts = {original, changed, edited}
  Canonical <- MCCanonical
  FileOf <- MCFileOf
  Answers <- MCAnswers
  MaxEdits = 1
INVARIANT OneOpen
PROPERTY DecisionsStand
PROPERTY NothingOverwritten
PROPERTY AcceptedIsWritten
CHECK_DEADLOCK FALSE
