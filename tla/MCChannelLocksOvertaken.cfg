\* More channels than the cache holds.
SPECIFICATION Spec
CONSTANTS
  Requests = {r1, r2}
  Sweep = Sweep
  Channels = {c1, c2, c3, c4}
  Cap = 3
  Nothing = Nothing
INVARIANTS OneGenerationPerChannel
CHECK_DEADLOCK FALSE
