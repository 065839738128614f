SPECIFICATION ProvidersSpec
CONSTANTS
  u = u
  v = v
  a = a
  b = b
  c1 = c1
  c2 = c2
  c3 = c3
  m1 = m1
  m2 = m2
  p1 = p1
  CxCallers = {u, v}
  CxThreadOf <- MCThreadOf
  CxCancelled = {u}
  CxGarbles = TRUE
  CxMaxGens = 2
  CxMaxFaults = 1
  CxNone = CxNone
  CaMaxGens = 2
  CaMaxLogins = 1
  CaMaxRefreshes = 2
  CaMaxCrashes = 1
  CaNone = CaNone
  CaTorn = CaTorn
  OcCalls = {c1, c2, c3}
  OcModels = {m1, m2}
  OcModelOf <- MCModelOf
  OcPackages = {p1}
  OcMaxCrashes = 2
  OcNone = OcNone
  OcTorn = OcTorn
  OlCalls = {a}
  OlRetries = 1
  OlMaxLines = 3
  OaCalls = {a, b}
  OaMaxLogins = 2
  OaMaxRefreshes = 2
  OaNone = OaNone
INVARIANT ClientSound
INVARIANT CallsEndCleanly
PROPERTY CodexLoginSafe
PROPERTY SharedCacheSound
PROPERTY OpencodeLoginSafe
CHECK_DEADLOCK FALSE
