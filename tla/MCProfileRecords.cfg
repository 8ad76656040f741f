\* Two users, each in a guild and in direct messages, and one command.
SPECIFICATION Spec
CONSTANTS
  Users = {u1, u2}
  guild = guild
  DM = DM
  Places = {guild, DM}
  fact = fact
  rumour = rumour
  other = other
  topic = topic
  apart = apart
  Texts = {fact, rumour, other}
  Facts = {fact}
  Subject <- Topics
  EvidenceCap = 2
  MaxFactsPerUser = 2
  MaxFacts = 3
  PayloadRecords = 2
  MaxLinks = 1
  MaxReflections = 2
  Confidences = {TRUE}
  MaxTime = 2
  MaxSaves = 3
  MaxCommands = 1
  Nothing = Nothing
SYMMETRY Symmetry
INVARIANTS TypeOK ChainsEnd
PROPERTIES CorrectionStands SaveReaches
CHECK_DEADLOCK FALSE
