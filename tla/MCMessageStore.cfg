\* Three conversations of two authors; the table is looked at every two inserts.
SPECIFICATION Spec
CONSTANTS
  Scopes = {s1, s2, s3}
  Owners = {u1, u2}
  MaxMessagesPerScope = 2
  MaxTotalMessages = 5
  AmortiseFrom = 4
  MaxInterval = 3
  IntervalShare = 2
  MaxInserts = 12
SYMMETRY Symmetry
INVARIANTS TypeOK CeilingsHold
PROPERTIES OldestGoFirst
CHECK_DEADLOCK FALSE
