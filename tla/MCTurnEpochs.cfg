\* Two messages of two users in a guild channel and of one in direct messages.
SPECIFICATION Spec
CONSTANTS
  Turns = {t1, t2}
  u1 = u1
  u2 = u2
  Users = {u1, u2}
  guild = guild
  DM = DM
  Guilds = {guild}
  channel = channel
  dm = dm
  Channels = {channel, dm}
  GuildOf <- GuildAndDM
  Members <- EveryoneAndOne
  Memos = {memo}
  Nothing = Nothing
  MaxPendingRequests = 2
  MaxMessagesPerScope = 2
  MaxTotalMessages = 3
  AmortiseFrom = 128
  MaxInterval = 64
  IntervalShare = 10
  MaxMemoriesPerUser = 1
  MaxTotalMemories = 2
  MaxPendingPerUser = 1
  MaxTotalPending = 2
  MaxRelationships = 1
  RespondToDMs = TRUE
  RelationshipsEnabled = TRUE
  RelationshipDirectOnly = TRUE
  MaxCommands = 2
SYMMETRY Symmetry
INVARIANTS TypeOK
PROPERTIES OptOutHolds RelationshipEarned ConversationErased ContinuityErased
CHECK_DEADLOCK FALSE
