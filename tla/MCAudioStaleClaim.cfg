SPECIFICATION Spec
CONSTANTS
  p1 = p1
  p2 = p2
  p3 = p3
  c1 = c1
  c2 = c2
  Plans = {p1}
  Clips = {c1}
  Characters <- MCCharacters
  LastMonth = 1
  Price = 1
  Increment = 2
  Caps = {2, 4}
  Findings = {"none", "invalid_wav"}
  MaxCrashes = 1
  MaxFaults = 1
  Nobody = Nobody
  NoClip = NoClip
INVARIANT ChargedOnce
CHECK_DEADLOCK FALSE
