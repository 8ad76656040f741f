\* Two identities, two requests at a time, a sweep and two reflections of a pair
\* for two slots.
SPECIFICATION FairSpec
CONSTANTS
  a = a
  b = b
  c1 = c1
  c2 = c2
  r1 = r1
  r2 = r2
  u1 = u1
  u2 = u2
  Identities = {a, b}
  NoIdentity = NoIdentity
  FactsPerUser = 1
  FactsTotal = 2
  Replies = {c1, c2}
  Sweep = Sweep
  Reflections = {r1, r2}
  PairOf <- OnePair
  Concurrency = 2
  Users = {u1, u2}
  Limit = 2
  Period = 2
  OldestPeriod = 2
  MaxKeys = 1
  Databases <- Found
INVARIANTS TypeOK ChatSlotStaysFree LimitHolds VersionSevenIsClean
PROPERTIES MigrationKeepsOneIdentity CloseWaitsForWork ProcessEnds
