\* Three keys of one user compete for the room of two reflections.
SPECIFICATION Spec
CONSTANTS
  Tasks = {t1, t2, t3, t4}
  Users = {u1}
  Places = {guild, other, DM}
  Nothing = Nothing
  MaxPendingRequests = 2
  ReflectEvery = 2
  MeaningfulThreshold = 1
  MaxBatch = 2
  MaxPendingPerUser = 2
  MaxTotalPending = 0
  MaxRelationships = 1
  MaxInteractions = 4
  MaxCommands = 0
  MaxRestarts = 0
SYMMETRY Symmetry
INVARIANTS ReflectionsBounded
CHECK_DEADLOCK FALSE
