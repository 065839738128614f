SPECIFICATION Spec
CONSTANTS
  p1 = p1
  p2 = p2
  p3 = p3
  c1 = c1
  c2 = c2
  Plans = {p1, p2, p3}
  Clips = {c1}
  Characters <- MCCharacters
  LastMonth = 0
  Price = 1
  Increment = 1
  Caps = {2}
  Findings = {"none", "flawed"}
  MaxCrashes = 0
  MaxFaults = 0
  Nobody = Nobody
  NoClip = NoClip
SYMMETRY Symmetry
PROPERTY CapHonoured
CHECK_DEADLOCK FALSE
