------------------------------- MODULE Limiter -------------------------------
(***************************************************************************)
(* SlidingWindowLimiter of agentbot/policy.py, as operators on its table:  *)
(* [key, window] entries, least recently asked for first, where a window   *)
(* holds the ages of what was allowed, oldest first.  Ages are counted in  *)
(* ticks and not beyond the longest one that makes a difference.           *)
(***************************************************************************)
EXTENDS Integers, SequencesExt

CONSTANTS Limit,         \* what a window may hold
          Period,        \* its length
          OldestPeriod,  \* oldest_period_seconds of cleanup
          MaxKeys        \* of a table

\* Settings allow no period that is longer than what cleanup keeps.
ASSUME LimiterAssumption ==
  /\ Limit \in Nat \ {0} /\ MaxKeys \in Nat \ {0}
  /\ Period \in Nat \ {0} /\ OldestPeriod \in Nat /\ Period <= OldestPeriod

Known(table, key) == \E i \in DOMAIN table : table[i].key = key
Place(table, key) == CHOOSE i \in DOMAIN table : table[i].key = key

\* What popleft leaves: all from the first event on that is not too old.
Young(window) ==
  LET old == CHOOSE n \in 0..Len(window) :
               /\ \A i \in 1..n : window[i] >= Period
               /\ n < Len(window) => window[n + 1] < Period
  IN  SubSeq(window, old + 1, Len(window))

\* The window of key when it is asked for.
Window(table, key) ==
  IF Known(table, key) THEN Young(table[Place(table, key)].window) ELSE <<>>

\* The key that has to make room for a new one, if any.
Evicted(table, key) ==
  IF Known(table, key) \/ Len(table) < MaxKeys THEN {} ELSE {Head(table).key}

\* The entries that stay before key's.
Others(table, key) ==
  IF Known(table, key) THEN RemoveAt(table, Place(table, key))
  ELSE IF Evicted(table, key) = {} THEN table ELSE Tail(table)

Allowed(table, key) == Len(Window(table, key)) < Limit

\* check: the key is the most recent one, whether it is allowed or not.
Checked(table, key) ==
  LET window == Window(table, key)
  IN  Append(Others(table, key),
             [key    |-> key,
              window |-> IF Allowed(table, key) THEN Append(window, 0) ELSE window])

\* The entries at the places I, in their order.
Picked(table, I) ==
  [k \in 1..Cardinality(I) |-> table[CHOOSE i \in I : Cardinality({j \in I : j <= i}) = k]]

\* Mutant: a window is dropped for the age of its first event, not its last.
CleanedByFirst(table) ==
  Picked(table, {i \in DOMAIN table :
                   table[i].window # <<>> /\ Head(table[i].window) < OldestPeriod})

\* cleanup
Cleaned(table) ==
  Picked(table, {i \in DOMAIN table :
                   table[i].window # <<>> /\ Last(table[i].window) <= OldestPeriod})

\* A tick later.
Older(age)  == IF age <= OldestPeriod THEN age + 1 ELSE age
Aged(table) ==
  [i \in DOMAIN table |->
     [key |-> table[i].key,
      window |-> [j \in DOMAIN table[i].window |-> Older(table[i].window[j])]]]
=============================================================================
