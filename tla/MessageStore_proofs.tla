------------------------- MODULE MessageStore_proofs -------------------------
(***************************************************************************)
(* The ceilings on the table messages hold for every value of the          *)
(* constants.  The inductive invariant is RoomForUncheckedInserts, which   *)
(* relates the amortised counter to the table, together with the ceiling   *)
(* of every conversation and the shape of the rows.                        *)
(***************************************************************************)
EXTENDS MessageStore, FiniteSetTheorems, TLAPS

-----------------------------------------------------------------------------
(* What the trims of Rows return, for every table and every limit.         *)

\* Rows with the same id are the same row (the primary key).
HasIds(S) == /\ \A r \in S : r.id \in Nat
             /\ \A r, q \in S : r.id = q.id => r = q

\* A trim to n rows leaves at most n: the number of rows above a row tells the
\* rows apart and stays below n.
LEMMA NewestBounded ==
  ASSUME NEW S, IsFiniteSet(S), HasIds(S), NEW n \in Nat
  PROVE  /\ Newest(S, n) \subseteq S
         /\ IsFiniteSet(Newest(S, n))
         /\ Cardinality(Newest(S, n)) <= n
  <1> DEFINE Above(r) == {q \in S : q.id > r.id}
             T == Newest(S, n)
             rank == [r \in T |-> Cardinality(Above(r))]
  <1>1. T \subseteq S /\ IsFiniteSet(T)
    BY FS_Subset DEF Newest
  <1>2. \A r \in S : IsFiniteSet(Above(r)) /\ Cardinality(Above(r)) \in Nat
    <2> TAKE r \in S
    <2>1. Above(r) \in SUBSET S
      OBVIOUS
    <2> HIDE DEF Above
    <2>2. QED
      BY <2>1, FS_Subset, FS_CardinalityType
  <1>3. \A r \in T : rank[r] \in 0..(n - 1)
    BY <1>1, <1>2 DEF Newest
  <1>4. ASSUME NEW r \in T, NEW q \in T, r.id < q.id
        PROVE  rank[q] # rank[r]
    <2>1. Above(q) \in SUBSET Above(r)
      BY <1>1, <1>4 DEF HasIds
    <2>2. q \in Above(r) /\ q \notin Above(q)
      BY <1>1, <1>4 DEF HasIds
    <2>3. IsFiniteSet(Above(r))
      BY <1>1, <1>2
    <2> HIDE DEF Above
    <2>4. Cardinality(Above(q)) # Cardinality(Above(r))
      BY <2>1, <2>2, <2>3, FS_Subset
    <2>5. QED
      BY <2>4
  <1>5. rank \in Injection(T, 0..(n - 1))
    <2>1. \A r, q \in T : rank[r] = rank[q] => r = q
      <3> SUFFICES ASSUME NEW r \in T, NEW q \in T, r # q
                   PROVE  rank[r] # rank[q]
        OBVIOUS
      <3> HIDE DEF rank
      <3>1. r.id < q.id \/ q.id < r.id
        BY <1>1 DEF HasIds
      <3>2. QED
        BY <3>1, <1>4
    <2> HIDE DEF T
    <2>2. rank \in [T -> 0..(n - 1)]
      BY <1>3
    <2> HIDE DEF rank
    <2>3. QED
      BY <2>1, <2>2 DEF Injection, IsInjective
  <1>6. IsFiniteSet(0..(n - 1)) /\ Cardinality(0..(n - 1)) <= n
    <2>1. 0 \in Int /\ n - 1 \in Int
      OBVIOUS
    <2>2. IsFiniteSet(0..(n - 1))
      BY <2>1, FS_Interval
    <2>3. Cardinality(0..(n - 1)) = IF 0 > n - 1 THEN 0 ELSE n - 1 - 0 + 1
      BY <2>1, FS_Interval
    <2>4. QED
      BY <2>2, <2>3
  <1> HIDE DEF rank, T
  <1>7. Cardinality(T) <= Cardinality(0..(n - 1))
    BY <1>5, <1>6, FS_Injection
  <1>8. Cardinality(T) \in Nat /\ Cardinality(0..(n - 1)) \in Nat
    BY <1>1, <1>6, FS_CardinalityType
  <1>9. QED
    BY <1>1, <1>6, <1>7, <1>8 DEF T

\* What a trim drops is older than what it keeps.
LEMMA NewestAreNewer ==
  ASSUME NEW S, IsFiniteSet(S), HasIds(S), NEW n \in Nat,
         NEW r \in S \ Newest(S, n), NEW q \in Newest(S, n)
  PROVE  r.id < q.id
  <1> DEFINE Above(x) == {y \in S : y.id > x.id}
  <1>1. q \in S
    BY DEF Newest
  <1>2. Cardinality(Above(q)) < n /\ ~(Cardinality(Above(r)) < n)
    BY DEF Newest
  <1>3. SUFFICES ASSUME q.id <= r.id PROVE FALSE
    BY <1>1 DEF HasIds
  <1>4. Above(r) \in SUBSET Above(q) /\ Above(q) \in SUBSET S
    BY <1>1, <1>3 DEF HasIds
  <1> HIDE DEF Above
  <1>5. IsFiniteSet(Above(q)) /\ IsFiniteSet(Above(r))
    BY <1>4, FS_Subset
  <1>6. /\ Cardinality(Above(r)) <= Cardinality(Above(q))
        /\ Cardinality(Above(r)) \in Nat /\ Cardinality(Above(q)) \in Nat
    BY <1>4, <1>5, FS_Subset, FS_CardinalityType
  <1>7. QED
    BY <1>2, <1>6

\* The newest row of all survives every trim that keeps something.
LEMMA LastSurvives ==
  ASSUME NEW S, NEW n \in Nat \ {0}, NEW r \in S,
         \A q \in S : ~(q.id > r.id)
  PROVE  r \in Newest(S, n)
  <1>1. {q \in S : q.id > r.id} = {}
    OBVIOUS
  <1>2. Cardinality({q \in S : q.id > r.id}) = 0
    BY <1>1, FS_EmptySet
  <1>3. QED
    BY <1>2 DEF Newest

-----------------------------------------------------------------------------
(* The table messages.                                                     *)

\* What a trim returns, whatever the limit.
LEMMA TrimReturns ==
  ASSUME NEW S, IsFiniteSet(S), HasIds(S), NEW n \in Nat
  PROVE  /\ TrimRows(S, n) \subseteq S
         /\ IsFiniteSet(TrimRows(S, n))
         /\ HasIds(TrimRows(S, n))
         /\ n > 0 => Cardinality(TrimRows(S, n)) <= n
         /\ \A r \in S \ TrimRows(S, n), q \in TrimRows(S, n) : r.id < q.id
  <1>1. CASE n = 0
    BY <1>1 DEF TrimRows
  <1>2. CASE n > 0
    <2>1. TrimRows(S, n) = Newest(S, n)
      BY <1>2 DEF TrimRows
    <2>2. QED
      BY <1>2, <2>1, NewestBounded, NewestAreNewer DEF HasIds
  <1>3. QED
    BY <1>1, <1>2

\* A part of a table is no larger and has the same ids.
LEMMA PartOfTable ==
  ASSUME NEW S, IsFiniteSet(S), HasIds(S), NEW T, T \subseteq S
  PROVE  /\ IsFiniteSet(T) /\ HasIds(T)
         /\ Cardinality(T) <= Cardinality(S)
         /\ Cardinality(T) \in Nat /\ Cardinality(S) \in Nat
  BY FS_Subset, FS_CardinalityType DEF HasIds

\* A share of a ceiling is a proper part of it.
LEMMA ShareIsPart ==
  ASSUME NEW total \in Nat, NEW k \in Nat, k > 1, total >= k
  PROVE  total \div k \in Nat /\ total \div k >= 1 /\ total \div k < total
  <1> DEFINE q == total \div k
  <1>1. q \in Int /\ k * q <= total /\ total < k * (q + 1)
    OBVIOUS
  <1> HIDE DEF q
  <1>2. q >= 1
    BY <1>1
  <1>3. q < total
    BY <1>1, <1>2
  <1>4. QED
    BY <1>1, <1>2, <1>3 DEF q

\* The amortised trim leaves room for the inserts that do not look.
LEMMA Amortisation ==
  ASSUME MaxTotalMessages > 0
  PROVE  /\ CheckInterval \in Nat \ {0}
         /\ TrimTarget \in Nat \ {0}
         /\ TrimTarget + CheckInterval - 1 <= MaxTotalMessages
  <1>1. CASE MaxTotalMessages < AmortiseFrom
    BY <1>1, MessageCeilings DEF CheckInterval, TrimTarget
  <1>2. CASE MaxTotalMessages >= AmortiseFrom
    <2>1. Share \in Nat /\ Share >= 1 /\ Share < MaxTotalMessages
      BY <1>2, ShareIsPart, MessageCeilings DEF Share
    <2>2. QED
      BY <1>2, <2>1, MessageCeilings DEF CheckInterval, TrimTarget
  <1>3. QED
    BY <1>1, <1>2, MessageCeilings

ScopesBounded(S) ==
  MaxMessagesPerScope > 0 =>
    \A s \in Scopes : Cardinality(InScope(S, s)) <= MaxMessagesPerScope

Inv ==
  /\ TypeOK
  /\ IsFiniteSet(rows) /\ HasIds(rows)
  /\ RoomForUncheckedInserts
  /\ ScopesBounded(rows)

\* Fewer rows of every conversation keep the conversations within bounds.
LEMMA FewerRows ==
  ASSUME NEW S, IsFiniteSet(S), HasIds(S), ScopesBounded(S), NEW T, T \subseteq S
  PROVE  ScopesBounded(T)
  <1> SUFFICES ASSUME MaxMessagesPerScope > 0, NEW s \in Scopes
               PROVE  Cardinality(InScope(T, s)) <= MaxMessagesPerScope
    BY DEF ScopesBounded
  <1>1. InScope(T, s) \subseteq InScope(S, s) /\ InScope(S, s) \subseteq S
    BY DEF InScope
  <1>2. IsFiniteSet(InScope(S, s)) /\ HasIds(InScope(S, s))
    BY <1>1, PartOfTable
  <1>3. /\ Cardinality(InScope(T, s)) <= Cardinality(InScope(S, s))
        /\ Cardinality(InScope(T, s)) \in Nat /\ Cardinality(InScope(S, s)) \in Nat
    BY <1>1, <1>2, PartOfTable
  <1>4. Cardinality(InScope(S, s)) <= MaxMessagesPerScope
    BY DEF ScopesBounded
  <1>5. QED
    BY <1>3, <1>4, MessageCeilings

\* One insert: the new row stays, its conversation and the table are within
\* bounds again, and what goes is older than what stays of its conversation.
LEMMA InsertReturns ==
  ASSUME NEW S, IsFiniteSet(S), HasIds(S), ScopesBounded(S), NEW n \in Int,
         MaxTotalMessages > 0 => n >= 1 /\ Cardinality(S) + n - 1 <= MaxTotalMessages,
         NEW row, row.id \in Nat, \A r \in S : r.id < row.id,
         NEW after, after = InsertMessage([rows |-> S, checks |-> n], row)
  PROVE  /\ after.rows \subseteq S \cup {row}
         /\ row \in after.rows
         /\ IsFiniteSet(after.rows) /\ HasIds(after.rows)
         /\ ScopesBounded(after.rows)
         /\ after.checks \in Int
         /\ MaxTotalMessages > 0 =>
              /\ after.checks >= 1
              /\ Cardinality(after.rows) + after.checks - 1 <= MaxTotalMessages
         /\ \A r \in S \ after.rows, q \in after.rows :
              q.scope = r.scope => r.id < q.id
  <1> DEFINE all == S \cup {row}
             here == InScope(all, row.scope)
             scoped == TrimGroup(all, here, MaxMessagesPerScope)
             trimmed == TrimRows(scoped, TrimTarget)
  <1> USE MessageCeilings
  <1>1. /\ IsFiniteSet(all) /\ HasIds(all)
        /\ Cardinality(S) \in Nat
        /\ Cardinality(all) <= Cardinality(S) + 1
        /\ \A q \in all : ~(q.id > row.id)
    <2>1. IsFiniteSet(all) /\ Cardinality(S) \in Nat
      BY FS_AddElement, FS_CardinalityType
    <2>2. Cardinality(all) = IF row \in S THEN Cardinality(S) ELSE Cardinality(S) + 1
      BY FS_AddElement
    <2>3. HasIds(all) /\ \A q \in all : ~(q.id > row.id)
      BY DEF HasIds
    <2> HIDE DEF all
    <2>4. QED
      BY <2>1, <2>2, <2>3
  <1>2. here \subseteq all /\ row \in here /\ \A r \in here : r.scope = row.scope
    BY DEF InScope
  <1>3. IsFiniteSet(here) /\ HasIds(here)
    BY <1>1, <1>2, PartOfTable
  <1>4. TrimRows(here, MaxMessagesPerScope) \subseteq here
    BY <1>3, TrimReturns
  <1>5. scoped \subseteq all
    BY <1>2, <1>4 DEF TrimGroup
  <1>6. /\ IsFiniteSet(scoped) /\ HasIds(scoped)
        /\ Cardinality(scoped) \in Nat
        /\ Cardinality(scoped) <= Cardinality(S) + 1
    <2>1. /\ IsFiniteSet(scoped) /\ HasIds(scoped)
          /\ Cardinality(scoped) <= Cardinality(all)
          /\ Cardinality(scoped) \in Nat /\ Cardinality(all) \in Nat
      BY <1>1, <1>5, PartOfTable
    <2>2. QED
      BY <1>1, <2>1
  <1>7. row \in scoped
    <2>1. row \in TrimRows(here, MaxMessagesPerScope)
      <3>1. CASE MaxMessagesPerScope = 0
        BY <1>2, <3>1 DEF TrimRows
      <3>2. CASE MaxMessagesPerScope # 0
        <4>1. \A q \in here : ~(q.id > row.id)
          BY <1>1, <1>2
        <4>2. row \in Newest(here, MaxMessagesPerScope)
          BY <1>2, <3>2, <4>1, LastSurvives
        <4>3. QED
          BY <3>2, <4>2 DEF TrimRows
      <3>3. QED
        BY <3>1, <3>2
    <2>2. QED
      BY <2>1 DEF TrimGroup
  <1>8. ASSUME NEW r \in S \ scoped, NEW q \in scoped, q.scope = r.scope
        PROVE  r.id < q.id
    <2>1. r \in here \ TrimRows(here, MaxMessagesPerScope)
      BY <1>8 DEF TrimGroup
    <2>2. q \in all /\ q.scope = row.scope
      BY <1>2, <1>5, <1>8, <2>1
    <2>3. q \in here
      BY <2>2 DEF InScope
    <2>4. q \in TrimRows(here, MaxMessagesPerScope)
      BY <1>8, <2>3 DEF TrimGroup
    <2>5. QED
      BY <1>3, <2>1, <2>4, TrimReturns
  <1>9. ScopesBounded(scoped)
    <2> SUFFICES ASSUME MaxMessagesPerScope > 0, NEW s \in Scopes
                 PROVE  Cardinality(InScope(scoped, s)) <= MaxMessagesPerScope
      BY DEF ScopesBounded
    <2>1. CASE s = row.scope
      <3>1. InScope(scoped, s) = TrimRows(here, MaxMessagesPerScope)
        BY <1>2, <1>4, <2>1 DEF TrimGroup, InScope
      <3>2. QED
        BY <1>3, <3>1, TrimReturns
    <2>2. CASE s # row.scope
      <3>1. InScope(scoped, s) \subseteq InScope(S, s)
        BY <1>5, <2>2 DEF InScope
      <3>2. InScope(S, s) \subseteq S
        BY DEF InScope
      <3>3. IsFiniteSet(InScope(S, s)) /\ HasIds(InScope(S, s))
        BY <3>2, PartOfTable
      <3>4. /\ Cardinality(InScope(scoped, s)) <= Cardinality(InScope(S, s))
            /\ Cardinality(InScope(scoped, s)) \in Nat
            /\ Cardinality(InScope(S, s)) \in Nat
        BY <3>1, <3>3, PartOfTable
      <3>5. Cardinality(InScope(S, s)) <= MaxMessagesPerScope
        BY DEF ScopesBounded
      <3>6. QED
        BY <3>4, <3>5
    <2>3. QED
      BY <2>1, <2>2
  <1>10. after = IF MaxTotalMessages = 0
                   THEN [rows |-> scoped, checks |-> n]
                 ELSE IF n - 1 <= 0
                   THEN [rows |-> trimmed, checks |-> CheckInterval]
                   ELSE [rows |-> scoped, checks |-> n - 1]
    BY DEF InsertMessage
  <1>11. CASE MaxTotalMessages = 0
    <2> HIDE DEF scoped, trimmed, all, here
    <2>1. after.rows = scoped /\ after.checks = n
      BY <1>10, <1>11
    <2>2. QED
      BY <1>5, <1>6, <1>7, <1>8, <1>9, <1>11, <2>1 DEF all
  <1>12. CASE MaxTotalMessages > 0 /\ n - 1 > 0
    <2> HIDE DEF scoped, trimmed, all, here
    <2>1. after.rows = scoped /\ after.checks = n - 1
      BY <1>10, <1>12
    <2>2. Cardinality(scoped) + (n - 1) - 1 <= MaxTotalMessages
      BY <1>1, <1>6, <1>12
    <2>3. QED
      BY <1>5, <1>6, <1>7, <1>8, <1>9, <1>12, <2>1, <2>2 DEF all
  <1>13. CASE MaxTotalMessages > 0 /\ n - 1 <= 0
    <2> HIDE DEF scoped, all, here
    <2>1. after.rows = trimmed /\ after.checks = CheckInterval
      BY <1>10, <1>13
    <2>2. /\ CheckInterval \in Nat \ {0} /\ TrimTarget \in Nat \ {0}
          /\ TrimTarget + CheckInterval - 1 <= MaxTotalMessages
      BY <1>13, Amortisation
    <2>3. /\ trimmed \subseteq scoped /\ IsFiniteSet(trimmed) /\ HasIds(trimmed)
          /\ Cardinality(trimmed) <= TrimTarget
          /\ \A r \in scoped \ trimmed, q \in trimmed : r.id < q.id
      <3>1. TrimTarget \in Nat /\ TrimTarget > 0
        BY <2>2
      <3>2. QED
        BY <1>6, <3>1, TrimReturns
    <2>4. Cardinality(trimmed) \in Nat
      BY <2>3, FS_CardinalityType
    <2>5. row \in trimmed
      <3>1. \A q \in scoped : ~(q.id > row.id)
        BY <1>1, <1>5
      <3>2. row \in Newest(scoped, TrimTarget)
        BY <1>7, <2>2, <3>1, LastSurvives
      <3>3. QED
        BY <2>2, <3>2 DEF TrimRows
    <2>6. ScopesBounded(trimmed)
      BY <1>6, <1>9, <2>3, FewerRows
    <2> HIDE DEF trimmed
    <2>7. ASSUME NEW r \in S \ trimmed, NEW q \in trimmed, q.scope = r.scope
          PROVE  r.id < q.id
      BY <1>8, <2>3, <2>7
    <2>8. Cardinality(trimmed) + CheckInterval - 1 <= MaxTotalMessages
      BY <2>2, <2>3, <2>4
    <2>9. QED
      BY <1>5, <1>13, <2>1, <2>2, <2>3, <2>5, <2>6, <2>7, <2>8 DEF all
  <1>14. QED
    BY <1>11, <1>12, <1>13

\* A prune: both ceilings hold, and what goes is older than what stays of its
\* conversation.
LEMMA PruneReturns ==
  ASSUME NEW S, IsFiniteSet(S), HasIds(S), ScopesBounded(S),
         \A r \in S : r.scope \in Scopes, NEW n \in Int,
         NEW after, after = PruneMessages([rows |-> S, checks |-> n], Scopes,
                                          MaxMessagesPerScope)
  PROVE  /\ after.rows \subseteq S
         /\ after.checks \in Int
         /\ MaxTotalMessages > 0 =>
              after.checks = 1 /\ Cardinality(after.rows) <= MaxTotalMessages
         /\ \A r \in S \ after.rows, q \in after.rows :
              q.scope = r.scope => r.id < q.id
  <1> USE MessageCeilings
  <1> DEFINE Kept(s) == TrimRows(InScope(S, s), MaxMessagesPerScope)
             scoped == UNION {Kept(s) : s \in Scopes}
  <1>1. ASSUME NEW s \in Scopes
        PROVE  /\ Kept(s) \subseteq InScope(S, s)
               /\ \A r \in InScope(S, s) \ Kept(s), q \in Kept(s) : r.id < q.id
    <2>1. InScope(S, s) \subseteq S
      BY DEF InScope
    <2>2. IsFiniteSet(InScope(S, s)) /\ HasIds(InScope(S, s))
      BY <2>1, PartOfTable
    <2>3. QED
      BY <2>2, TrimReturns
  <1> HIDE DEF Kept
  <1>2. scoped \subseteq S
    BY <1>1 DEF InScope
  <1>3. ASSUME NEW r \in S \ scoped, NEW q \in scoped, q.scope = r.scope
        PROVE  r.id < q.id
    <2>1. r \in InScope(S, r.scope) \ Kept(r.scope) /\ r.scope \in Scopes
      BY <1>3 DEF InScope
    <2>2. PICK s \in Scopes : q \in Kept(s)
      BY <1>3
    <2>3. s = r.scope
      BY <1>1, <1>3, <2>2 DEF InScope
    <2>4. QED
      BY <1>1, <2>1, <2>2, <2>3
  <1>4. after = IF MaxTotalMessages = 0
                  THEN [[rows |-> S, checks |-> n] EXCEPT !.rows = scoped]
                  ELSE [rows |-> TrimRows(scoped, MaxTotalMessages), checks |-> 1]
    BY DEF PruneMessages, ChecksAtOpen, Kept
  <1> HIDE DEF scoped
  <1>5. IsFiniteSet(scoped) /\ HasIds(scoped)
    BY <1>2, PartOfTable
  <1>6. CASE MaxTotalMessages = 0
    <2>1. after.rows = scoped /\ after.checks = n
      BY <1>4, <1>6
    <2>2. QED
      BY <1>2, <1>3, <1>6, <2>1
  <1>7. CASE MaxTotalMessages > 0
    <2>1. after.rows = TrimRows(scoped, MaxTotalMessages) /\ after.checks = 1
      BY <1>4, <1>7
    <2>2. /\ after.rows \subseteq scoped
          /\ Cardinality(after.rows) <= MaxTotalMessages
          /\ \A r \in scoped \ after.rows, q \in after.rows : r.id < q.id
      BY <1>5, <1>7, <2>1, TrimReturns
    <2>3. ASSUME NEW r \in S \ after.rows, NEW q \in after.rows, q.scope = r.scope
          PROVE  r.id < q.id
      BY <1>3, <2>2, <2>3
    <2>4. QED
      BY <1>2, <1>7, <2>1, <2>2, <2>3
  <1>8. QED
    BY <1>6, <1>7

-----------------------------------------------------------------------------

\* The invariant is inductive: an insert may use the room that the counter
\* stands for, a prune or a restart makes the next insert look, and a deletion
\* only makes room.
LEMMA InvHolds == Init /\ [][Next]_vars => []Inv
  <1>1. Init => Inv
    BY MessageCeilings, FS_EmptySet
       DEF Init, Inv, TypeOK, HasIds, RoomForUncheckedInserts, ScopesBounded, InScope,
           ChecksAtOpen
  <1>2. Inv /\ [Next]_vars => Inv'
    <2> SUFFICES ASSUME Inv, [Next]_vars PROVE Inv'
      OBVIOUS
    <2> USE DEF Inv
    <2>1. CASE UNCHANGED vars
      BY <2>1 DEF vars, TypeOK, HasIds, RoomForUncheckedInserts, ScopesBounded, InScope
    <2>2. ASSUME NEW scope \in Scopes, NEW owner \in Owners, RecordMessage(scope, owner)
          PROVE  Inv'
      <3> DEFINE row == [id |-> nextId, scope |-> scope, owner |-> owner]
                 after == InsertMessage([rows |-> rows, checks |-> checks], row)
      <3>1. rows' = after.rows /\ checks' = after.checks /\ nextId' = nextId + 1
        BY <2>2 DEF RecordMessage, Becomes, Store
      <3>2. /\ row \in StoredRows /\ row.id \in Nat /\ row.id = nextId
            /\ \A r \in rows : r.id < row.id
            /\ nextId \in Nat /\ checks \in Int
            /\ \A r \in rows : r \in StoredRows /\ r.id \in Nat
        BY DEF TypeOK, StoredRows
      <3> HIDE DEF row, after
      <3>3. MaxTotalMessages > 0 =>
              checks >= 1 /\ Cardinality(rows) + checks - 1 <= MaxTotalMessages
        BY DEF RoomForUncheckedInserts
      <3>4. /\ rows' \subseteq rows \cup {row}
            /\ IsFiniteSet(rows') /\ HasIds(rows')
            /\ ScopesBounded(rows')
            /\ checks' \in Int
            /\ MaxTotalMessages > 0 =>
                 /\ checks' >= 1
                 /\ Cardinality(rows') + checks' - 1 <= MaxTotalMessages
        BY <3>1, <3>2, <3>3, InsertReturns DEF after
      <3>5. TypeOK'
        BY <3>1, <3>2, <3>4 DEF TypeOK
      <3>6. QED
        BY <3>4, <3>5 DEF RoomForUncheckedInserts, ScopesBounded, InScope, HasIds
    <2>3. CASE Prune
      <3> DEFINE after == PruneMessages([rows |-> rows, checks |-> checks], Scopes,
                                        MaxMessagesPerScope)
      <3>1. rows' = after.rows /\ checks' = after.checks /\ nextId' = nextId
        BY <2>3 DEF Prune, Becomes, Store
      <3> HIDE DEF after
      <3>2. checks \in Int /\ \A r \in rows : r.scope \in Scopes
        BY DEF TypeOK, StoredRows
      <3>3. /\ rows' \subseteq rows /\ checks' \in Int
            /\ MaxTotalMessages > 0 =>
                 checks' = 1 /\ Cardinality(rows') <= MaxTotalMessages
        BY <3>1, <3>2, PruneReturns DEF after
      <3>4. /\ IsFiniteSet(rows') /\ HasIds(rows') /\ ScopesBounded(rows')
            /\ Cardinality(rows') \in Nat
        BY <3>3, PartOfTable, FewerRows
      <3>5. TypeOK'
        BY <3>1, <3>3 DEF TypeOK
      <3>6. QED
        BY <3>3, <3>4, <3>5, MessageCeilings
           DEF RoomForUncheckedInserts, ScopesBounded, InScope, HasIds
    <2>4. ASSUME NEW owner \in Owners, Forget(owner)
          PROVE  Inv'
      <3>1. rows' \subseteq rows /\ checks' = checks /\ nextId' = nextId
        BY <2>4 DEF Forget
      <3>2. /\ IsFiniteSet(rows') /\ HasIds(rows') /\ ScopesBounded(rows')
            /\ Cardinality(rows') <= Cardinality(rows)
            /\ Cardinality(rows') \in Nat /\ Cardinality(rows) \in Nat
        BY <3>1, PartOfTable, FewerRows
      <3>3. TypeOK'
        BY <3>1 DEF TypeOK
      <3>4. RoomForUncheckedInserts'
        BY <3>1, <3>2, MessageCeilings DEF RoomForUncheckedInserts, TypeOK
      <3>5. QED
        BY <3>2, <3>3, <3>4 DEF ScopesBounded, InScope, HasIds
    <2>5. CASE Reopen
      <3>1. rows' = rows /\ checks' = 1 /\ nextId' = nextId
        BY <2>5 DEF Reopen, ChecksAtOpen
      <3>2. Cardinality(rows) \in Nat
        BY FS_CardinalityType
      <3>3. RoomForUncheckedInserts'
        BY <3>1, <3>2, MessageCeilings DEF RoomForUncheckedInserts, TypeOK
      <3>4. QED
        BY <3>1, <3>3 DEF TypeOK, ScopesBounded, InScope, HasIds
    <2>6. QED
      BY <2>1, <2>2, <2>3, <2>4, <2>5 DEF Next
  <1>3. QED
    BY <1>1, <1>2, PTL

\* The types of MessageStore, and that an id is never given out twice.
THEOREM TypeCorrect == Spec => []TypeOK
  <1>1. Inv => TypeOK
    BY DEF Inv
  <1>2. QED
    BY <1>1, InvHolds, PTL DEF Spec

\* The amortised counter never allows more inserts than fit under the ceiling.
THEOREM RoomAlwaysLeft == Spec => []RoomForUncheckedInserts
  <1>1. Inv => RoomForUncheckedInserts
    BY DEF Inv
  <1>2. QED
    BY <1>1, InvHolds, PTL DEF Spec

\* No commit leaves the table, or a conversation, over its ceiling.
THEOREM CeilingsAlwaysHold == Spec => []CeilingsHold
  <1>1. Inv => CeilingsHold
    <2> SUFFICES ASSUME Inv PROVE CeilingsHold
      OBVIOUS
    <2>1. Cardinality(rows) \in Nat
      BY FS_CardinalityType DEF Inv
    <2>2. MaxTotalMessages > 0 => Cardinality(rows) <= MaxTotalMessages
      BY <2>1, MessageCeilings DEF Inv, RoomForUncheckedInserts, TypeOK
    <2>3. QED
      BY <2>2 DEF Inv, CeilingsHold, ScopesBounded
  <1>2. QED
    BY <1>1, InvHolds, PTL DEF Spec

\* The ceilings forget the oldest rows of a conversation first and never the
\* row just inserted.
THEOREM OldestAlwaysGoFirst == Spec => OldestGoFirst
  <1> DEFINE Kept == (\A o \in Owners : ~Forget(o)) =>
       /\ \A r \in rows \ rows', q \in rows' : q.scope = r.scope => r.id < q.id
       /\ nextId' > nextId => \E r \in rows' : r.id = nextId
  <1>1. Inv /\ [Next]_vars => [Kept]_vars
    <2> SUFFICES ASSUME Inv, Next, \A o \in Owners : ~Forget(o)
                 PROVE  /\ \A r \in rows \ rows', q \in rows' :
                             q.scope = r.scope => r.id < q.id
                        /\ nextId' > nextId => \E r \in rows' : r.id = nextId
      BY DEF vars
    <2> USE DEF Inv
    <2>1. ASSUME NEW scope \in Scopes, NEW owner \in Owners, RecordMessage(scope, owner)
          PROVE  /\ \A r \in rows \ rows', q \in rows' : q.scope = r.scope => r.id < q.id
                 /\ \E r \in rows' : r.id = nextId
      <3> DEFINE row == [id |-> nextId, scope |-> scope, owner |-> owner]
                 after == InsertMessage([rows |-> rows, checks |-> checks], row)
      <3>1. rows' = after.rows
        BY <2>1 DEF RecordMessage, Becomes, Store
      <3>2. /\ row.id \in Nat /\ row.id = nextId
            /\ \A r \in rows : r.id < row.id
            /\ checks \in Int
        BY DEF TypeOK
      <3> HIDE DEF row, after
      <3>3. MaxTotalMessages > 0 =>
              checks >= 1 /\ Cardinality(rows) + checks - 1 <= MaxTotalMessages
        BY DEF RoomForUncheckedInserts
      <3>4. /\ row \in rows'
            /\ \A r \in rows \ rows', q \in rows' : q.scope = r.scope => r.id < q.id
        BY <3>1, <3>2, <3>3, InsertReturns DEF after
      <3>5. QED
        BY <3>2, <3>4
    <2>2. CASE Prune
      <3> DEFINE after == PruneMessages([rows |-> rows, checks |-> checks], Scopes,
                                        MaxMessagesPerScope)
      <3>1. rows' = after.rows /\ nextId' = nextId
        BY <2>2 DEF Prune, Becomes, Store
      <3> HIDE DEF after
      <3>2. checks \in Int /\ nextId \in Nat /\ \A r \in rows : r.scope \in Scopes
        BY DEF TypeOK, StoredRows
      <3>3. \A r \in rows \ rows', q \in rows' : q.scope = r.scope => r.id < q.id
        BY <3>1, <3>2, PruneReturns DEF after
      <3>4. QED
        BY <3>1, <3>2, <3>3
    <2>3. CASE Reopen
      BY <2>3 DEF Reopen, TypeOK
    <2>4. QED
      BY <2>1, <2>2, <2>3 DEF Next
  <1>2. QED
    BY <1>1, InvHolds, PTL DEF Spec, OldestGoFirst
=============================================================================
