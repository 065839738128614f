SPECIFICATION StorySpec
CONSTANTS
  p1 = p1
  p2 = p2
  p3 = p3
  c1 = c1
  c2 = c2
  Plans = {p1, p2}
  Clips = {c1, c2}
  Characters <- MCCharacters
  LastMonth = 2
  Price = 1
  Increment = 2
  Caps = {2, 4}
  Findings = {"none", "flawed", "invalid_wav"}
  MaxCrashes = 2
  MaxFaults = 2
  Nobody = Nobody
  NoClip = NoClip
INVARIANT AnswersCovered
INVARIANT SettledInFull
INVARIANT ReservedAndChargedOnce
PROPERTY ImplementsSpend
PROPERTY CapHonoured
PROPERTY NothingLeftOver
CHECK_DEADLOCK FALSE
