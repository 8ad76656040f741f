\* Four channels and a cache of three.
SPECIFICATION Spec
CONSTANTS
  Requests = {r1, r2}
  Sweep = Sweep
  Channels = {c1, c2, c3, c4}
  Cap = 3
  Nothing = Nothing
SYMMETRY Symmetry
INVARIANTS TypeOK TurnIsPassedOn
CHECK_DEADLOCK FALSE
