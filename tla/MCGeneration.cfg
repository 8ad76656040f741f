\* Two replies of a channel and a reflection; two models.
SPECIFICATION FairSpec
CONSTANTS
  c1 = c1
  c2 = c2
  r1 = r1
  Calls = {c1, c2, r1}
  Replies = {c1, c2}
  Illustrated = {c1}
  Reflections = {r1}
  Scope <- OneChannel
  Models = {m1, m2}
  MaxSelections = 1
  Nothing = Nothing
INVARIANTS TypeOK AlternativeDiffers
PROPERTIES LateCallsSubmitNothing JobsAreClosed EveryCallEnds
CHECK_DEADLOCK FALSE
