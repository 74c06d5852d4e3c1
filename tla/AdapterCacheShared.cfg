SPECIFICATION Spec
CONSTANTS
  k1 = k1
  k2 = k2
  s1 = s1
  g1 = g1
  g2 = g2
  base = base
  repoA = repoA
  repoB = repoB
  r1 = r1
  r2 = r2
  Procs = {g1, g2}
  Keys = {k1, k2}
  AdminKeys = {k1, k2}
  Bases = {base}
  BaseOf <- MCBaseOf
  StaticList <- MCNoStatic
  Repos = {repoA}
  Rids = {r1, r2}
  DynIdStart = 1
  NoRow = NoRow
  NoAdapter = NoAdapter
  DbFaults = TRUE
  MaxHits = 1
  MaxLoads = 1
  MaxRestarts = 0
INVARIANTS
  TypeOK
  OneRowPerAdapter
SYMMETRY MCSymmetry
