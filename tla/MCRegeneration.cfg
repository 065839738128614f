SPECIFICATION LiveSpec
CONSTANTS
  drill = drill
  original = original
  changed = changed
  NoText = NoText
  NoSource = NoSource
  NoId = NoId
  Ids = {r1, c1}
  Runs = {r1}
  Keys = {drill}
  Exercises = {drill}
  Texts = {original, changed}
  Canonical <- MCCanonical
  FileOf <- MCFileOf
  Answers <- MCAnswers
  Modes = {"scope", "exercises"}
  MaxEdits = 0
  MaxEnds = 2
INVARIANT WaitingHasProposal
INVARIANT DecisionRecorded
INVARIANT NoRunForgotten
PROPERTY ImplementsProposals
PROPERTY RunsFinish
CHECK_DEADLOCK FALSE
