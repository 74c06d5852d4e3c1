SPECIFICATION FairGatewaySpec
CONSTANTS
  k1 = k1
  s1 = s1
  g1 = g1
  base = base
  repoA = repoA
  repoB = repoB
  r1 = r1
  r2 = r2
  c1 = c1
  c2 = c2
  client = client
  Procs = {g1}
  Keys = {k1, s1}
  AdminKeys = {k1}
  Bases = {base}
  BaseOf <- MCBaseOf
  StaticList <- MCStatic
  Repos = {repoA, repoB}
  Rids = {r1}
  DynIdStart = 2
  NoRow = NoRow
  NoAdapter = NoAdapter
  DbFaults = TRUE
  MaxHits = 2
  MaxLoads = 2
  MaxRestarts = 1
  Calls = {c1, c2}
  Clients = {client}
  ClientOf <- MCClientOf
  Limit = 1
  Window = 0
  MaxNow = 1
INVARIANTS
  GatewayTypeOK
  LoraIdNamesOneAdapter
  CachedHasRow
  HitsAreCalls
PROPERTIES
  EveryCallIsAnswered
  ImplementsAdapterService
  SweepSparesRecentlyUsed
