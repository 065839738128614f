SPECIFICATION Spec
CONSTANTS
  drill = drill
  original = original
  changed = changed
  NoText = NoText
  NoSource = NoSource
  NoId = NoId
  Ids = {r1, c1}
  Runs = {r1}
  Keys = {drill}
  Exercises = {drill}
  Texts = {original, changed}
  Canonical <- MCCanonical
  FileOf <- MCFileOf
  Answers <- MCAnswers
  Modes = {"exercises"}
  MaxEdits = 0
  MaxEnds = 1
PROPERTY OutcomeStays
CHECK_DEADLOCK FALSE
