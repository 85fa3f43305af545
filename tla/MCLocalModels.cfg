SPECIFICATION ModelsSpec
CONSTANTS
  s1 = s1
  s2 = s2
  m1 = m1
  m2 = m2
  c1 = c1
  c2 = c2
  Servers = {s1, s2}
  Models = {m1, m2}
  Clusters = {c1, c2}
  Installed <- MCInstalled
  Cases <- MCCases
INVARIANTS
    ModelsInv
    NothingMissed
CHECK_DEADLOCK FALSE
