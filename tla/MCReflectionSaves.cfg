\* One user in a guild and in direct messages, one command and one restart.
SPECIFICATION FairSpec
CONSTANTS
  Tasks = {t1, t2}
  Users = {u1}
  Places = {guild, DM}
  Nothing = Nothing
  MaxPendingRequests = 2
  ReflectEvery = 2
  MeaningfulThreshold = 1
  MaxBatch = 2
  MaxPendingPerUser = 2
  MaxTotalPending = 3
  MaxRelationships = 1
  MaxInteractions = 2
  MaxCommands = 1
  MaxRestarts = 1
INVARIANTS TypeOK
PROPERTIES RelationshipNeedsInteraction StaleReflectionsLearnNothing DueIsReflected
CHECK_DEADLOCK FALSE
