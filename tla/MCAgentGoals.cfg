SPECIFICATION Spec
CONSTANTS
  t1 = t1
  t2 = t2
  h1 = h1
  h2 = h2
  Turns = {t1, t2}
  Hosts = {h1, h2}
  Host <- TwoHosts
  Goals = {g1, g2}
  NoId = NoId
  Limits = {2}
  BlockedAfter = 2
  MaxRevision = 3
  MaxFaults = 1
  MaxCrashes = 1
SYMMETRY TurnSymmetry
INVARIANTS RoundsOwned LogSealed GoalHistory ConclusionFinal PersonDecides
CHECK_DEADLOCK FALSE
