\* One channel over two days, with a restart at any point.
SPECIFICATION Spec
CONSTANTS
  Channels = {c1}
  Nothing = Nothing
  MinIdle = 2
  Lateness = 1
  Cooldown = 1
  DailyLimit = 1
  DayLength = 5
  MaxTime = 8
  MaxSaid = 5
  MaxRestarts = 1
INVARIANTS TypeOK QuotaHolds
PROPERTIES NoChain PostsAreGrounded
CHECK_DEADLOCK FALSE
