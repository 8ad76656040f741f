\* One channel, and a crash between the two commits.
SPECIFICATION Spec
CONSTANTS
  Channels = {c1}
  Nothing = Nothing
  MinIdle = 2
  Lateness = 1
  Cooldown = 1
  DailyLimit = 1
  DayLength = 4
  MaxTime = 6
  MaxSaid = 5
  MaxRestarts = 1
PROPERTIES OneStarterPerReply
CHECK_DEADLOCK FALSE
