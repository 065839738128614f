SPECIFICATION AuthoringSpec
CONSTANTS
  x = x
  y = y
  z = z
  s1 = s1
  s2 = s2
  f1 = f1
  f2 = f2
  DcMaxTexts = 2
  DcMaxFaults = 1
  DcMaxCrashes = 1
  DcMaxCommits = 1
  DcMaxOps = 2
  DcNone = DcNone
  DcPartial = DcPartial
  CuIds <- MCIds
  CuStart <- MCStart
  CuCanonical = {x}
  CuJobs = {s1, s2}
  CuSlug <- MCSlug
  CuRepairs = 1
  CuMaxSaves = 2
  CuMaxFaults = 1
  CuMaxCrashes = 1
  CuNone = CuNone
  RlSources = {1, 2}
  RlUses <- MCUses
  RlTags = {s1, s2}
  RlMaxTakes = 2
  RlMaxPlans = 2
  RlMaxRuns = 2
  RlMaxFaults = 1
  RlNone = RlNone
  NvHrefs = {"lesson", "source", "plan"}
  NvPageOf <- MCPageOf
  NvDrops = {"lesson"}
  NvMaxSteps = 6
  DeMaxEdits = 2
  DeMaxChanges = 1
  DeMaxFails = 1
  DeMaxVisits = 2
  PeStart <- MCPlan
  PeNew = "n"
  PeCreated = "c"
  PeMaxMoves = 1
  PeMaxEdits = 2
  PeMaxTypes = 1
  PeMaxFetches = 1
  PeMaxSaves = 1
  PeMaxFails = 1
  PjSessions = {"s"}
  PjTickets = {"k"}
  PjMaxJobs = 2
  PjMaxFaults = 1
  PjMaxRestarts = 1
  PjMaxReloads = 1
  DtIds = {x, y}
  DtSources <- MCSources
  DtPlans <- MCPlans
  DtDisordered <- MCDisordered
  DtMaxEdits = 1
  DtMaxTampers = 1
  DtMaxExports = 2
  DtMaxChecks = 1
  DtMaxCrashes = 1
  DtNone = DtNone
  LsForeign = {"english"}
  LsPackages <- MCLsPackages
  LsNodes <- MCLsNodes
  LsItems <- MCLsItems
  LsObjectives <- MCLsObjectives
  LsTagged = {"tagged"}
  LsStatus <- MCLsStatus
  LsMaxEdits = 2
  LsFailed = LsFailed
  LsNone = LsNone
INVARIANT LessonsSound
PROPERTY DraftsSafe
PROPERTY CurriculumSafe
PROPERTY ReleasesStand
PROPERTY NavigationSafe
PROPERTY EditorsSafe
PROPERTY PagesFollowJobs
PROPERTY DistributionSound
CHECK_DEADLOCK FALSE
