SPECIFICATION WorkbenchSpec
CONSTANTS
  provider = provider
  progress = progress
  chat = chat
  t1 = t1
  s1 = s1
  s2 = s2
  k1 = k1
  k2 = k2
  i1 = i1
  x = x
  y = y
  z = z
  f1 = f1
  f2 = f2
  m1 = m1
  Jobs = {provider, progress, chat}
  Workers = {s1, s2}
  Turns = {t1}
  KindOf <- MCKindOf
  TurnOf <- MCTurnOf
  NoJob = NoJob
  NoTurn = NoTurn
  Stop = Stop
  RvBlocks = {k1, k2, x}
  RvExercises = {k2, x}
  RvPlaced <- MCPlaced
  RvIssues = {i1}
  RvJobs = {s1, s2}
  RvMaxEdits = 2
  RvMaxRuns = 2
  RvNone = RvNone
  VoTurns <- MCTurns
  VoConfigs <- MCConfigs
  VoMaxTurns = 3
  VoNone = VoNone
  LaBindings = {k1, k2}
  LaPrints = {f1, f2}
  LaStart <- MCText
  LaJobs = {s1, s2}
  LaAttempts = 2
  LaMaxEdits = 1
  LaNone = LaNone
  ErLessons <- MCLessons
  ErStranger = z
  ErMaxBlocks = 2
  ErMaxItems = 2
  ErMaxOdd = 1
  AlExercises = {k1}
  AlSections = {x, y}
  AlTexts = {0, 1}
  AlRefs <- MCRefs
  AlMaxEdits = 3
  AlMaxRuns = 1
  AlMaxDrafts = 2
  AlNone = AlNone
SYMMETRY MCSymmetry
INVARIANT ShutdownReachesAll
INVARIANT ReportsSay
INVARIANT AlignmentSound
PROPERTY FinalStays
PROPERTY ReviewsTruthful
PROPERTY VoicesSound
PROPERTY RecordingsTrusted
CHECK_DEADLOCK FALSE
