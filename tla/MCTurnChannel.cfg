\* Three messages of two users in one guild channel.
SPECIFICATION FairSpec
CONSTANTS
  Turns = {t1, t2, t3}
  u1 = u1
  u2 = u2
  Users = {u1, u2}
  guild = guild
  DM = DM
  Guilds = {guild}
  channel = channel
  dm = dm
  Channels = {channel}
  GuildOf <- OneGuild
  Members <- Everyone
  Memos = {}
  Nothing = Nothing
  MaxPendingRequests = 2
  MaxMessagesPerScope = 4
  MaxTotalMessages = 0
  AmortiseFrom = 128
  MaxInterval = 64
  IntervalShare = 10
  MaxMemoriesPerUser = 1
  MaxTotalMemories = 0
  MaxPendingPerUser = 1
  MaxTotalPending = 0
  MaxRelationships = 0
  RespondToDMs = FALSE
  RelationshipsEnabled = FALSE
  RelationshipDirectOnly = FALSE
  MaxCommands = 0
INVARIANTS ResourcesMatch RepliesDoNotInterleave
PROPERTIES EveryTurnEnds
CHECK_DEADLOCK FALSE
