-------------------------- MODULE ChannelLocks_proofs --------------------------
(***************************************************************************)
(* Proofs about ChannelLocks, for every value of its constants.            *)
(***************************************************************************)
EXTENDS ChannelLocks, FiniteSetTheorems, SequenceTheorems, TLAPS

(* Sequences without repetitions: the order of the cache and the waiters.  *)

\* One more at the end.
LEMMA Appended ==
  ASSUME NEW S, NEW q \in Seq(S), IsInjective(q), NEW e \in S, e \notin Range(q)
  PROVE  /\ Append(q, e) \in Seq(S) /\ IsInjective(Append(q, e))
         /\ Len(Append(q, e)) = Len(q) + 1 /\ Append(q, e) # <<>>
         /\ Range(Append(q, e)) = Range(q) \cup {e}
         /\ q # <<>> => Head(Append(q, e)) = Head(q)
  <1> DEFINE r == Append(q, e)
  <1>1. /\ r \in Seq(S) /\ Len(r) = Len(q) + 1 /\ Len(q) \in Nat
        /\ DOMAIN r = 1..(Len(q) + 1) /\ DOMAIN q = 1..Len(q)
        /\ \A i \in 1..Len(q) : r[i] = q[i]
        /\ r[Len(q) + 1] = e
    OBVIOUS
  <1>2. Range(r) = Range(q) \cup {e}
    <2>1. DOMAIN r = DOMAIN q \cup {Len(q) + 1}
      BY <1>1
    <2>2. QED
      BY <1>1, <2>1 DEF Range
  <1>3. IsInjective(r)
    BY <1>1 DEF IsInjective, Range
  <1>4. r # <<>> /\ (q # <<>> => Head(r) = Head(q))
    BY HeadTailAppend, AppendProperties
  <1>5. QED
    BY <1>1, <1>2, <1>3, <1>4

\* The one at k less; the others keep their order.
LEMMA Removed ==
  ASSUME NEW S, NEW q \in Seq(S), IsInjective(q), NEW k \in 1..Len(q)
  PROVE  /\ RemoveAt(q, k) \in Seq(S) /\ IsInjective(RemoveAt(q, k))
         /\ Len(RemoveAt(q, k)) = Len(q) - 1
         /\ Range(RemoveAt(q, k)) = Range(q) \ {q[k]}
         /\ k # 1 => RemoveAt(q, k) # <<>> /\ Head(RemoveAt(q, k)) = Head(q)
  <1> DEFINE n == Len(q)
             front == SubSeq(q, 1, k - 1)
             back == SubSeq(q, k + 1, n)
             r == RemoveAt(q, k)
  <1>1. n \in Nat /\ k \in Nat /\ 1 <= k /\ k <= n /\ DOMAIN q = 1..n /\ \A i \in 1..n : q[i] \in S
    OBVIOUS
  <1> HIDE DEF n
  <1>2. front \in Seq(S) /\ Len(front) = k - 1 /\ \A i \in 1..(k - 1) : front[i] = q[i]
    <2>1. \A i \in 1..(k - 1) : q[i] \in S
      BY <1>1
    <2>2. /\ front \in Seq(S) /\ Len(front) = IF 1 <= k - 1 THEN k - 1 - 1 + 1 ELSE 0
          /\ \A i \in 1..(k - 1 - 1 + 1) : front[i] = q[1 + i - 1]
      BY <1>1, <2>1, SubSeqProperties
    <2> HIDE DEF front
    <2>3. \A i \in Int : 1 + i - 1 = i
      OBVIOUS
    <2>4. k - 1 - 1 + 1 = k - 1 /\ (~(1 <= k - 1) => k - 1 = 0)
      BY <1>1
    <2>5. QED
      BY <2>2, <2>3, <2>4
  <1>3. back \in Seq(S) /\ Len(back) = n - k /\ \A i \in 1..(n - k) : back[i] = q[i + k]
    <2>1. \A i \in (k + 1)..n : q[i] \in S
      BY <1>1
    <2>2. /\ back \in Seq(S) /\ Len(back) = IF k + 1 <= n THEN n - (k + 1) + 1 ELSE 0
          /\ \A i \in 1..(n - (k + 1) + 1) : back[i] = q[k + 1 + i - 1]
      BY <1>1, <2>1, SubSeqProperties
    <2> HIDE DEF back
    <2>3. \A i \in Int : k + 1 + i - 1 = i + k
      BY <1>1
    <2>4. n - (k + 1) + 1 = n - k /\ (~(k + 1 <= n) => n - k = 0)
      BY <1>1
    <2>5. Len(back) = n - k
      <3>1. CASE k + 1 <= n
        BY <2>2, <2>4, <3>1
      <3>2. CASE ~(k + 1 <= n)
        <4>1. Len(back) = 0
          BY <2>2, <3>2
        <4>2. QED
          BY <2>4, <3>2, <4>1
      <3>3. QED
        BY <3>1, <3>2
    <2>6. ASSUME NEW i \in 1..(n - k) PROVE back[i] = q[i + k]
      <3>1. i \in Int /\ i \in 1..(n - (k + 1) + 1)
        BY <1>1, <2>4
      <3>2. back[i] = q[k + 1 + i - 1] /\ k + 1 + i - 1 = i + k
        BY <2>2, <2>3, <3>1
      <3>3. QED
        BY <3>2
    <2>7. QED
      BY <2>2, <2>5, <2>6
  <1>4. r = front \o back
    BY DEF RemoveAt, n
  <1> HIDE DEF front, back, r
  <1>5. /\ r \in Seq(S) /\ Len(r) = n - 1 /\ DOMAIN r = 1..(n - 1)
        /\ \A i \in 1..(n - 1) : r[i] = IF i <= k - 1 THEN front[i] ELSE back[i - (k - 1)]
    <2>1. Len(front) + Len(back) = n - 1
      BY <1>1, <1>2, <1>3
    <2>2. /\ r \in Seq(S) /\ Len(r) = Len(front) + Len(back)
          /\ \A i \in 1..(Len(front) + Len(back)) :
               r[i] = IF i <= Len(front) THEN front[i] ELSE back[i - Len(front)]
      BY <1>2, <1>3, <1>4, ConcatProperties
    <2>3. DOMAIN r = 1..Len(r)
      BY <2>2, LenProperties
    <2>4. QED
      BY <1>2, <2>1, <2>2, <2>3
  <1>6. \A i \in 1..(n - 1) : r[i] = IF i < k THEN q[i] ELSE q[i + 1]
    <2> SUFFICES ASSUME NEW i \in 1..(n - 1)
                 PROVE  r[i] = IF i < k THEN q[i] ELSE q[i + 1]
      OBVIOUS
    <2>1. CASE i < k
      BY <1>1, <1>2, <1>5, <2>1
    <2>2. CASE ~(i < k)
      <3>1. i - (k - 1) \in 1..(n - k) /\ (i - (k - 1)) + k = i + 1 /\ ~(i <= k - 1)
        BY <1>1, <2>2
      <3>2. QED
        BY <1>3, <1>5, <2>2, <3>1
    <2>3. QED
      BY <2>1, <2>2
  <1> DEFINE at(i) == IF i < k THEN i ELSE i + 1
  <1>7. \A i \in 1..(n - 1) : at(i) \in 1..n /\ at(i) # k /\ r[i] = q[at(i)]
    BY <1>1, <1>6
  <1>8. \A j \in 1..n : j # k => \E i \in 1..(n - 1) : at(i) = j
    <2> SUFFICES ASSUME NEW j \in 1..n, j # k
                 PROVE  \E i \in 1..(n - 1) : at(i) = j
      OBVIOUS
    <2>1. CASE j < k
      <3>1. j \in 1..(n - 1) /\ at(j) = j
        BY <1>1, <2>1
      <3>2. QED
        BY <3>1
    <2>2. CASE j > k
      <3>1. j - 1 \in 1..(n - 1) /\ at(j - 1) = j
        BY <1>1, <2>2
      <3>2. QED
        BY <3>1
    <2>3. QED
      BY <1>1, <2>1, <2>2
  <1>9. \A i, j \in 1..(n - 1) : at(i) = at(j) => i = j
    BY <1>1
  <1> HIDE DEF at
  <1>10. IsInjective(r)
    BY <1>1, <1>5, <1>7, <1>9 DEF IsInjective
  <1>11. Range(r) = Range(q) \ {q[k]}
    <2>1. ASSUME NEW e \in Range(r)
          PROVE  e \in Range(q) \ {q[k]}
      BY <1>1, <1>5, <1>7, <2>1 DEF Range, IsInjective
    <2>2. ASSUME NEW e \in Range(q), e # q[k]
          PROVE  e \in Range(r)
      <3>1. PICK j \in 1..n : q[j] = e
        BY <1>1 DEF Range
      <3>2. PICK i \in 1..(n - 1) : at(i) = j
        BY <1>8, <2>2, <3>1
      <3>3. QED
        BY <1>5, <1>7, <3>1, <3>2 DEF Range
    <2>3. QED
      BY <2>1, <2>2
  <1>12. k # 1 => r # <<>> /\ Head(r) = Head(q)
    <2> SUFFICES ASSUME k # 1
                 PROVE  r # <<>> /\ Head(r) = Head(q)
      OBVIOUS
    <2>1. 1 \in 1..(n - 1) /\ 1 < k
      BY <1>1
    <2>2. r[1] = q[1]
      BY <1>6, <2>1
    <2>3. r # <<>> /\ q # <<>>
      BY <1>1, <1>5, <2>1 DEF n
    <2>4. QED
      BY <1>5, <2>2, <2>3
  <1>13. QED
    BY <1>5, <1>10, <1>11, <1>12 DEF r, n

\* A set of positions that is not empty has a first one.
LEMMA FirstPosition ==
  ASSUME NEW n \in Nat, NEW I \in SUBSET (1..n), I # {}
  PROVE  \E i \in I : \A j \in I : i <= j
  <1>1. I \subseteq Nat
    OBVIOUS
  <1>2. PICK i \in I : \A j \in I : ~(<<j, i>> \in OpToRel(<, Nat))
    BY <1>1, NatLessThanWellFounded, WFMin
  <1>3. \A j \in I : ~(j < i)
    BY <1>1, <1>2 DEF OpToRel
  <1>4. QED
    BY <1>1, <1>3

\* RemoveFirst removes at the element's position, which is the only one.
LEMMA RemovedFirst ==
  ASSUME NEW S, NEW q \in Seq(S), IsInjective(q), NEW e \in Range(q)
  PROVE  \E k \in 1..Len(q) : q[k] = e /\ RemoveFirst(q, e) = RemoveAt(q, k)
  <1>1. PICK k \in 1..Len(q) : q[k] = e
    BY DEF Range
  <1>2. {i \in 1..Len(q) : q[i] = e} = {k}
    BY <1>1 DEF IsInjective
  <1>3. SelectInSeq(q, LAMBDA v : v = e) = k
    BY <1>2 DEF SelectInSeq, Min
  <1>4. QED
    BY <1>1, <1>3 DEF RemoveFirst

-----------------------------------------------------------------------------
(* Type correctness.                                                       *)

\* The cache and the order of its keys.
CacheType ==
  /\ cache \in [Channels -> Locks \cup {Nothing}]
  /\ order \in Seq(Channels) /\ IsInjective(order)
  /\ Range(order) = {c \in Channels : cache[c] # Nothing}
  /\ Len(order) <= Cap

\* The locks and the processes; each process is in one place, and stands once
\* in the line of its lock while it waits.
WaitInv ==
  /\ holder \in [Locks -> Procs \cup {Nothing}]
  /\ waiters \in [Locks -> Seq(Procs)]
  /\ pc \in [Procs -> {"away", "asking", "waiting", "working"}]
  /\ channel \in [Procs -> Channels \cup {Nothing}]
  /\ lock \in [Procs -> Locks \cup {Nothing}]
  /\ \A p \in Procs : pc[p] # "away" => lock[p] \in Locks
  /\ \A l \in Locks : IsInjective(waiters[l])
  /\ \A l \in Locks, p \in Procs :
       p \in Range(waiters[l]) <=> pc[p] = "waiting" /\ lock[p] = l
  /\ \A l \in Locks, p \in Procs : holder[l] = p <=> pc[p] = "working" /\ lock[p] = l
  /\ woken \subseteq {p \in Procs : pc[p] = "waiting"}

\* The processes are finitely many and none of them is Nothing.
LEMMA ProcsFacts ==
  /\ IsFiniteSet(Procs) /\ Cardinality(Procs) \in Nat
  /\ Nothing \notin Procs /\ Nothing \notin Locks /\ Nothing \notin Channels
  /\ Sweep \in Procs /\ Requests \subseteq Procs
  <1>1. IsFiniteSet(Procs)
    BY ChannelLocksAssumption, FS_AddElement DEF Procs
  <1>2. QED
    BY <1>1, ChannelLocksAssumption, FS_CardinalityType DEF Procs

\* How many numbers there are from 1 to n.
LEMMA UpTo == ASSUME NEW n \in Nat PROVE IsFiniteSet(1..n) /\ Cardinality(1..n) = n
  <1>1. 1 \in Int /\ n \in Int
    OBVIOUS
  <1>2. IsFiniteSet(1..n) /\ Cardinality(1..n) = IF 1 > n THEN 0 ELSE n - 1 + 1
    BY <1>1, FS_Interval
  <1>3. (IF 1 > n THEN 0 ELSE n - 1 + 1) = n
    OBVIOUS
  <1>4. QED
    BY <1>2, <1>3

\* There is a lock that neither the cache nor a process knows.
LEMMA NewLockType ==
  ASSUME CacheType, lock \in [Procs -> Locks \cup {Nothing}]
  PROVE  NewLock \in Locks
  <1> DEFINE n == Len(order)
             m == Cardinality(Procs)
             ofCache == {cache[c] : c \in Channels} \ {Nothing}
             ofProcs == {lock[p] : p \in Procs}
             known == {cache[c] : c \in Channels} \cup ofProcs
  <1>1. n \in Nat /\ n <= Cap /\ Cap \in Nat /\ m \in Nat
    BY ProcsFacts, ChannelLocksAssumption DEF CacheType
  <1>2. IsFiniteSet(ofCache) /\ Cardinality(ofCache) <= n
    <2> DEFINE T == {cache[order[i]] : i \in 1..n}
               f == [i \in 1..n |-> cache[order[i]]]
    <2>1. f \in Surjection(1..n, T)
      BY DEF Surjection
    <2>2. IsFiniteSet(1..n) /\ Cardinality(1..n) = n
      BY <1>1, UpTo
    <2>3. ofCache \in SUBSET T
      <3> SUFFICES ASSUME NEW c \in Channels, cache[c] # Nothing
                   PROVE  \E i \in 1..n : cache[c] = cache[order[i]]
        OBVIOUS
      <3>1. c \in Range(order)
        BY DEF CacheType
      <3>2. QED
        BY <3>1 DEF Range, CacheType
    <2> HIDE DEF f, T, ofCache
    <2>4. IsFiniteSet(T) /\ Cardinality(T) <= n
      BY <2>1, <2>2, FS_Surjection
    <2>5. /\ IsFiniteSet(ofCache) /\ Cardinality(ofCache) <= Cardinality(T)
          /\ Cardinality(ofCache) \in Nat /\ Cardinality(T) \in Nat
      BY <2>3, <2>4, FS_Subset, FS_CardinalityType
    <2>6. QED
      BY <1>1, <2>4, <2>5
  <1>3. IsFiniteSet(ofProcs) /\ Cardinality(ofProcs) <= m
    <2> DEFINE f == [p \in Procs |-> lock[p]]
    <2>1. f \in Surjection(Procs, ofProcs)
      BY DEF Surjection
    <2> HIDE DEF f
    <2>2. QED
      BY <2>1, ProcsFacts, FS_Surjection
  <1> HIDE DEF ofCache, ofProcs
  <1>4. IsFiniteSet(ofCache \cup ofProcs) /\ Cardinality(ofCache \cup ofProcs) <= Cap + m
    <2>1. /\ IsFiniteSet(ofCache \cup ofProcs)
          /\ Cardinality(ofCache \cup ofProcs) =
               Cardinality(ofCache) + Cardinality(ofProcs) - Cardinality(ofCache \cap ofProcs)
      BY <1>2, <1>3, FS_Union
    <2>2. IsFiniteSet(ofCache \cap ofProcs)
      BY <1>2, FS_Intersection
    <2>3. /\ Cardinality(ofCache) \in Nat /\ Cardinality(ofProcs) \in Nat
          /\ Cardinality(ofCache \cap ofProcs) \in Nat
      BY <1>2, <1>3, <2>2, FS_CardinalityType
    <2>4. QED
      BY <1>1, <1>2, <1>3, <2>1, <2>3
  <1>5. \E l \in Locks : l \notin known
    <2> SUFFICES ASSUME Locks \subseteq known
                 PROVE  FALSE
      OBVIOUS
    <2>1. Locks \in SUBSET (ofCache \cup ofProcs)
      BY ProcsFacts DEF ofCache
    <2>2. Cardinality(Locks) <= Cardinality(ofCache \cup ofProcs)
      BY <1>4, <2>1, FS_Subset
    <2>3. Cardinality(Locks) = Cap + m + 1
      <3>1. Cap + m + 1 \in Nat /\ Locks = 1..(Cap + m + 1)
        BY <1>1 DEF Locks
      <3>2. QED
        BY <3>1, UpTo
    <2>4. Cardinality(ofCache \cup ofProcs) \in Nat
      BY <1>4, FS_CardinalityType
    <2>5. QED
      BY <1>1, <1>4, <2>2, <2>3, <2>4
  <1>6. NewLock = CHOOSE l \in Locks : l \notin known
    BY DEF NewLock, ofProcs
  <1> HIDE DEF known
  <1>7. QED
    BY <1>5, <1>6

\* The lock that is evicted is at a position of the order.
LEMMA RemovablePosition ==
  ASSUME CacheType
  PROVE  Removable # 0 => Removable \in 1..Len(order)
  <1> DEFINE I == {i \in 1..Len(order) : holder[cache[order[i]]] = Nothing}
  <1>1. Removable = IF I # {} THEN Min(I) ELSE 0
    BY DEF Removable, SelectInSeq
  <1>2. CASE I # {}
    <2>1. I \in SUBSET (1..Len(order)) /\ Len(order) \in Nat
      BY DEF CacheType
    <2> HIDE DEF I
    <2>2. Min(I) \in I
      BY <1>2, <2>1, FirstPosition DEF Min
    <2>3. QED
      BY <1>1, <1>2, <2>1, <2>2
  <1>3. CASE I = {}
    BY <1>1, <1>3
  <1>4. QED
    BY <1>2, <1>3

\* Getting a lock leaves a well-formed cache, and a lock for the process.
LEMMA GetLockType ==
  ASSUME CacheType, WaitInv, NEW p \in Procs, NEW c \in Channels, GetLock(p, c)
  PROVE  /\ CacheType'
         /\ lock'[p] \in Locks /\ lock' = [lock EXCEPT ![p] = lock'[p]]
  <1>1. NewLock \in Locks
    BY NewLockType DEF WaitInv
  <1>2. Cap \in Nat /\ Len(order) \in Nat /\ Nothing \notin Locks
    BY ProcsFacts, ChannelLocksAssumption DEF CacheType
  <1>3. CASE /\ cache[c] # Nothing /\ lock' = [lock EXCEPT ![p] = cache[c]]
             /\ order' = Append(RemoveFirst(order, c), c) /\ UNCHANGED cache
    <2>1. c \in Range(order)
      BY <1>3 DEF CacheType
    <2>2. PICK k \in 1..Len(order) : order[k] = c /\ RemoveFirst(order, c) = RemoveAt(order, k)
      BY <2>1, RemovedFirst DEF CacheType
    <2> DEFINE q == RemoveAt(order, k)
    <2>3. /\ q \in Seq(Channels) /\ IsInjective(q) /\ Len(q) = Len(order) - 1
          /\ Range(q) = Range(order) \ {c}
      BY <2>2, Removed DEF CacheType
    <2> HIDE DEF q
    <2>4. /\ Append(q, c) \in Seq(Channels) /\ IsInjective(Append(q, c))
          /\ Len(Append(q, c)) = Len(q) + 1 /\ Range(Append(q, c)) = Range(q) \cup {c}
      BY <2>3, Appended
    <2>5. order' = Append(q, c)
      BY <1>3, <2>2 DEF q
    <2>6. Len(order') <= Cap
      BY <1>2, <2>3, <2>4, <2>5 DEF CacheType
    <2>7. Range(order') = {d \in Channels : cache'[d] # Nothing}
      BY <1>3, <2>1, <2>3, <2>4, <2>5 DEF CacheType
    <2>8. CacheType'
      BY <1>3, <2>4, <2>5, <2>6, <2>7 DEF CacheType
    <2>9. cache[c] \in Locks
      BY <1>3 DEF CacheType
    <2>10. QED
      BY <1>3, <2>8, <2>9 DEF WaitInv
  <1>4. CASE cache[c] = Nothing /\ lock' = [lock EXCEPT ![p] = NewLock]
    <2>1. lock'[p] \in Locks /\ lock' = [lock EXCEPT ![p] = lock'[p]]
      BY <1>1, <1>4 DEF WaitInv
    <2>2. c \notin Range(order)
      BY <1>4 DEF CacheType
    <2>3. CASE /\ Len(order) < Cap /\ order' = Append(order, c)
               /\ cache' = [cache EXCEPT ![c] = NewLock]
      <3>1. /\ order' \in Seq(Channels) /\ IsInjective(order')
            /\ Len(order') = Len(order) + 1 /\ Range(order') = Range(order) \cup {c}
        BY <2>2, <2>3, Appended DEF CacheType
      <3>2. Len(order') <= Cap
        BY <1>2, <2>3, <3>1
      <3>3. cache' \in [Channels -> Locks \cup {Nothing}]
        BY <1>1, <2>3 DEF CacheType
      <3>4. Range(order') = {d \in Channels : cache'[d] # Nothing}
        BY <1>1, <1>2, <2>3, <3>1 DEF CacheType
      <3>5. QED
        BY <2>1, <3>1, <3>2, <3>3, <3>4 DEF CacheType
    <2>4. CASE /\ Removable # 0 /\ order' = Append(RemoveAt(order, Removable), c)
               /\ cache' = [cache EXCEPT ![order[Removable]] = Nothing, ![c] = NewLock]
      <3> DEFINE k == Removable
                 d == order[k]
                 q == RemoveAt(order, k)
      <3>1. k \in 1..Len(order)
        BY <2>4, RemovablePosition
      <3>2. /\ q \in Seq(Channels) /\ IsInjective(q) /\ Len(q) = Len(order) - 1
            /\ Range(q) = Range(order) \ {d}
        BY <3>1, Removed DEF CacheType
      <3>3. d \in Channels /\ d \in Range(order) /\ d # c
        BY <2>2, <3>1 DEF Range, CacheType
      <3>4. order' = Append(q, c) /\ cache' = [cache EXCEPT ![d] = Nothing, ![c] = NewLock]
        BY <2>4
      <3> HIDE DEF k, d, q
      <3>5. /\ order' \in Seq(Channels) /\ IsInjective(order')
            /\ Len(order') = Len(q) + 1 /\ Range(order') = Range(q) \cup {c}
        BY <2>2, <3>2, <3>4, Appended
      <3>6. Len(order') <= Cap
        BY <1>2, <3>2, <3>5 DEF CacheType
      <3>7. /\ cache' \in [Channels -> Locks \cup {Nothing}]
            /\ \A e \in Channels : cache'[e] = IF e = c THEN NewLock
                                               ELSE IF e = d THEN Nothing ELSE cache[e]
        BY <1>1, <3>3, <3>4 DEF CacheType
      <3>8. Range(order') = {e \in Channels : cache'[e] # Nothing}
        BY <1>1, <1>2, <3>2, <3>3, <3>5, <3>7 DEF CacheType
      <3>9. QED
        BY <2>1, <3>5, <3>6, <3>7, <3>8 DEF CacheType
    <2>5. CASE UNCHANGED cached
      BY <2>1, <2>5 DEF cached, CacheType
    <2>6. QED
      BY <1>4, <2>3, <2>4, <2>5 DEF GetLock
  <1>5. QED
    BY <1>3, <1>4 DEF GetLock

-----------------------------------------------------------------------------
(* The lines of the locks.                                                 *)

\* Where a process stands, from WaitInv.
LEMMA Standing ==
  ASSUME WaitInv
  PROVE  /\ \A l \in Locks, p \in Procs :
              p \in Range(waiters[l]) <=> pc[p] = "waiting" /\ lock[p] = l
         /\ \A l \in Locks, p \in Procs :
              holder[l] = p <=> pc[p] = "working" /\ lock[p] = l
         /\ Nothing \notin Procs /\ Nothing \notin Locks
  BY ProcsFacts DEF WaitInv

\* A process that neither waits nor works takes a free lock or joins its line.
LEMMA AcquireStep ==
  ASSUME WaitInv, TurnIsPassedOn, NEW p \in Procs, pc[p] \in {"away", "asking"},
         NEW l \in Locks, lock' = [lock EXCEPT ![p] = l],
         channel' \in [Procs -> Channels \cup {Nothing}], Acquire(p, l)
  PROVE  WaitInv' /\ TurnIsPassedOn'
  <1>1. p \notin woken /\ (\A m \in Locks : p \notin Range(waiters[m]) /\ holder[m] # p)
    BY DEF WaitInv
  <1>2. p # Nothing /\ woken' = woken
    BY ProcsFacts DEF Acquire
  <1>3. lock' \in [Procs -> Locks \cup {Nothing}] /\ lock'[p] = l
        /\ \A q \in Procs \ {p} : lock'[q] = lock[q]
    BY DEF WaitInv
  <1>4. CASE holder[l] = Nothing /\ waiters[l] = <<>>
    <2>1. /\ holder' = [holder EXCEPT ![l] = p] /\ pc' = [pc EXCEPT ![p] = "working"]
          /\ waiters' = waiters
      BY <1>4 DEF Acquire, Goto
    <2>2. \A q \in Procs : q \notin Range(waiters[l])
      BY <1>4, EmptySeq DEF Range
    <2>3. /\ holder' \in [Locks -> Procs \cup {Nothing}] /\ holder'[l] = p
          /\ \A m \in Locks \ {l} : holder'[m] = holder[m]
      BY <2>1 DEF WaitInv
    <2>4. /\ pc' \in [Procs -> {"away", "asking", "waiting", "working"}] /\ pc'[p] = "working"
          /\ \A o \in Procs \ {p} : pc'[o] = pc[o]
      BY <2>1 DEF WaitInv
    <2>5. \A m \in Locks, o \in Procs :
            o \in Range(waiters'[m]) <=> pc'[o] = "waiting" /\ lock'[o] = m
      BY <1>1, <1>3, <2>1, <2>4, Standing
    <2>6. \A m \in Locks, o \in Procs : holder'[m] = o <=> pc'[o] = "working" /\ lock'[o] = m
      BY <1>1, <1>3, <1>4, <2>3, <2>4, Standing
    <2>7. woken' \subseteq {o \in Procs : pc'[o] = "waiting"}
      BY <1>1, <1>2, <2>4 DEF WaitInv
    <2>8. WaitInv'
      BY <1>3, <2>1, <2>3, <2>4, <2>5, <2>6, <2>7 DEF WaitInv
    <2>9. TurnIsPassedOn'
      BY <1>2, <1>4, <2>1, <2>3 DEF TurnIsPassedOn
    <2>10. QED
      BY <2>8, <2>9
  <1>5. CASE ~(holder[l] = Nothing /\ waiters[l] = <<>>)
    <2> DEFINE q == waiters[l]
               r == Append(q, p)
    <2>1. /\ waiters' = [waiters EXCEPT ![l] = r] /\ pc' = [pc EXCEPT ![p] = "waiting"]
          /\ holder' = holder
      BY <1>5 DEF Acquire, Goto
    <2>2. q \in Seq(Procs) /\ IsInjective(q) /\ p \notin Range(q)
      BY <1>1 DEF WaitInv
    <2>3. /\ r \in Seq(Procs) /\ IsInjective(r) /\ Range(r) = Range(q) \cup {p}
          /\ q # <<>> => Head(r) = Head(q)
      BY <2>2, Appended
    <2>4. waiters'[l] = r /\ \A m \in Locks \ {l} : waiters'[m] = waiters[m]
      BY <2>1 DEF WaitInv
    <2>5. waiters' \in [Locks -> Seq(Procs)]
      BY <2>1, <2>3 DEF WaitInv
    <2> HIDE DEF r
    <2>6. pc' \in [Procs -> {"away", "asking", "waiting", "working"}] /\ pc'[p] = "waiting"
          /\ \A o \in Procs \ {p} : pc'[o] = pc[o]
      BY <2>1 DEF WaitInv
    <2>7. \A m \in Locks, o \in Procs :
            o \in Range(waiters'[m]) <=> pc'[o] = "waiting" /\ lock'[o] = m
      BY <1>1, <1>3, <2>3, <2>4, <2>6 DEF WaitInv
    <2>8. \A m \in Locks, o \in Procs : holder'[m] = o <=> pc'[o] = "working" /\ lock'[o] = m
      BY <1>1, <1>3, <2>1, <2>6 DEF WaitInv
    <2>9. \A m \in Locks : IsInjective(waiters'[m])
      BY <2>3, <2>4 DEF WaitInv
    <2>10. WaitInv'
      BY <1>2, <1>3, <2>1, <2>5, <2>6, <2>7, <2>8, <2>9 DEF WaitInv
    <2>11. Range(waiters'[l]) \cap woken' = Range(q) \cap woken
      BY <1>1, <1>2, <2>3, <2>4
    <2>12. Range(waiters'[l]) \cap woken' =
             IF holder'[l] = Nothing THEN {Head(waiters'[l])} ELSE {}
      <3>1. CASE q = <<>>
        <4>1. Range(q) = {}
          BY <3>1, EmptySeq DEF Range
        <4>2. QED
          BY <1>5, <2>1, <2>11, <3>1, <4>1
      <3>2. CASE q # <<>>
        BY <2>1, <2>3, <2>4, <2>11, <3>2 DEF TurnIsPassedOn
      <3>3. QED
        BY <3>1, <3>2
    <2>13. TurnIsPassedOn'
      BY <1>2, <2>1, <2>4, <2>12 DEF TurnIsPassedOn
    <2>14. QED
      BY <2>10, <2>13
  <1>6. QED
    BY <1>4, <1>5

\* The waiter that runs is the first of the line of a free lock.
LEMMA ResumeStep ==
  ASSUME WaitInv, TurnIsPassedOn, NEW p \in Procs, Resume(p)
  PROVE  WaitInv' /\ TurnIsPassedOn'
  <1> DEFINE l == lock[p]
             q == waiters[l]
             r == Tail(q)
  <1>1. p \in woken /\ pc[p] = "waiting" /\ l \in Locks /\ p \in Range(q) /\ p # Nothing
    BY ProcsFacts DEF Resume, WaitInv
  <1>2. q \in Seq(Procs) /\ IsInjective(q) /\ q # <<>>
    BY <1>1, EmptySeq DEF WaitInv, Range
  <1>3. holder[l] = Nothing /\ p = Head(q) /\ Range(q) \cap woken = {p}
    BY <1>1, <1>2 DEF TurnIsPassedOn
  <1>4. r \in Seq(Procs) /\ IsInjective(r) /\ Range(r) = Range(q) \ {p}
    <2>1. Len(q) \in Nat \ {0} /\ q[1] = p
      BY <1>2, <1>3, EmptySeq
    <2>2. /\ r \in Seq(Procs) /\ Len(r) = Len(q) - 1 /\ DOMAIN r = 1..(Len(q) - 1)
          /\ DOMAIN q = 1..Len(q) /\ \A i \in 1..(Len(q) - 1) : r[i] = q[i + 1]
      BY <1>2, <2>1, HeadTailProperties, LenProperties
    <2>3. IsInjective(r)
      <3> SUFFICES ASSUME NEW i \in 1..(Len(q) - 1), NEW j \in 1..(Len(q) - 1), r[i] = r[j]
                   PROVE  i = j
        BY <2>2 DEF IsInjective
      <3>1. /\ i \in Nat /\ j \in Nat /\ i + 1 \in DOMAIN q /\ j + 1 \in DOMAIN q
            /\ q[i + 1] = q[j + 1]
        BY <2>1, <2>2
      <3>2. i + 1 = j + 1
        BY <1>2, <3>1 DEF IsInjective
      <3>3. QED
        BY <3>1, <3>2
    <2>4. ASSUME NEW e \in Range(r)
          PROVE  e \in Range(q) \ {p}
      BY <1>2, <2>1, <2>2, <2>4 DEF Range, IsInjective
    <2>5. ASSUME NEW e \in Range(q), e # p
          PROVE  e \in Range(r)
      <3>1. PICK i \in 1..Len(q) : q[i] = e
        BY <2>2 DEF Range
      <3>2. i - 1 \in 1..(Len(q) - 1) /\ (i - 1) + 1 = i
        BY <2>1, <2>5, <3>1
      <3>3. r[i - 1] = e
        BY <2>2, <3>1, <3>2
      <3>4. QED
        BY <2>2, <3>2, <3>3 DEF Range
    <2>6. QED
      BY <2>2, <2>3, <2>4, <2>5
  <1>5. /\ woken' = woken \ {p} /\ waiters' = [waiters EXCEPT ![l] = r]
        /\ holder' = [holder EXCEPT ![l] = p] /\ pc' = [pc EXCEPT ![p] = "working"]
        /\ UNCHANGED <<channel, lock>>
    BY DEF Resume, Goto
  <1> HIDE DEF r
  <1>6. /\ waiters' \in [Locks -> Seq(Procs)] /\ waiters'[l] = r
        /\ \A m \in Locks \ {l} : waiters'[m] = waiters[m]
    BY <1>1, <1>4, <1>5 DEF WaitInv
  <1>7. /\ holder' \in [Locks -> Procs \cup {Nothing}] /\ holder'[l] = p
        /\ \A m \in Locks \ {l} : holder'[m] = holder[m]
    BY <1>1, <1>5 DEF WaitInv
  <1>8. /\ pc' \in [Procs -> {"away", "asking", "waiting", "working"}] /\ pc'[p] = "working"
        /\ \A o \in Procs \ {p} : pc'[o] = pc[o]
    BY <1>5 DEF WaitInv
  <1>9. \A m \in Locks, o \in Procs :
          o \in Range(waiters'[m]) <=> pc'[o] = "waiting" /\ lock'[o] = m
    BY <1>1, <1>4, <1>5, <1>6, <1>8, Standing
  <1>10. \A m \in Locks, o \in Procs : holder'[m] = o <=> pc'[o] = "working" /\ lock'[o] = m
    BY <1>1, <1>3, <1>5, <1>7, <1>8, Standing
  <1>11. \A m \in Locks : IsInjective(waiters'[m])
    BY <1>4, <1>6 DEF WaitInv
  <1>12. WaitInv'
    BY <1>1, <1>5, <1>6, <1>7, <1>8, <1>9, <1>10, <1>11 DEF WaitInv
  <1>13. \A m \in Locks \ {l} : Range(waiters'[m]) \cap woken' = Range(waiters[m]) \cap woken
    BY <1>1, <1>5, <1>6 DEF WaitInv
  <1>14. Range(waiters'[l]) \cap woken' = {}
    BY <1>3, <1>4, <1>5, <1>6
  <1>15. TurnIsPassedOn'
    BY <1>1, <1>6, <1>7, <1>13, <1>14 DEF TurnIsPassedOn
  <1>16. QED
    BY <1>12, <1>15

\* A release wakes the first of the line.
LEMMA ReleaseStep ==
  ASSUME WaitInv, TurnIsPassedOn, NEW p \in Procs, Release(p)
  PROVE  WaitInv' /\ TurnIsPassedOn'
  <1> DEFINE l == lock[p]
             q == waiters[l]
  <1>1. pc[p] = "working" /\ l \in Locks /\ holder[l] = p /\ p # Nothing
    BY ProcsFacts DEF Release, WaitInv
  <1>2. /\ holder' = [holder EXCEPT ![l] = Nothing] /\ waiters' = waiters
        /\ pc' = [pc EXCEPT ![p] = "away"] /\ channel' = [channel EXCEPT ![p] = Nothing]
        /\ lock' = [lock EXCEPT ![p] = Nothing]
    BY DEF Release, Leave, Goto
  <1>3. holder'[l] = Nothing /\ \A m \in Locks \ {l} : holder'[m] = holder[m]
    BY <1>1, <1>2 DEF WaitInv
  <1>4. woken' = woken \cup (IF q # <<>> THEN {Head(q)} ELSE {})
    BY <1>2, <1>3 DEF Release, WakeFirst
  <1>5. q # <<>> => Head(q) \in Range(q) /\ Range(q) \cap woken = {}
    <2> SUFFICES ASSUME q # <<>>
                 PROVE  Head(q) \in Range(q) /\ Range(q) \cap woken = {}
      OBVIOUS
    <2>1. q \in Seq(Procs) /\ Len(q) \in Nat \ {0}
      BY <1>1, EmptySeq DEF WaitInv
    <2>2. Head(q) = q[1] /\ 1 \in DOMAIN q
      BY <2>1
    <2>3. QED
      BY <1>1, <2>2 DEF Range, TurnIsPassedOn
  <1>6. WaitInv'
    <2>1. /\ pc'[p] = "away" /\ lock'[p] = Nothing /\ Nothing \notin Locks
          /\ \A o \in Procs \ {p} : pc'[o] = pc[o] /\ lock'[o] = lock[o]
      BY <1>2, ProcsFacts DEF WaitInv
    <2>2. \A m \in Locks, o \in Procs :
            o \in Range(waiters'[m]) <=> pc'[o] = "waiting" /\ lock'[o] = m
      BY <1>1, <1>2, <2>1, Standing
    <2>3. \A m \in Locks, o \in Procs : holder'[m] = o <=> pc'[o] = "working" /\ lock'[o] = m
      BY <1>1, <1>3, <2>1, Standing
    <2>4. woken' \subseteq {o \in Procs : pc'[o] = "waiting"}
      <3>1. woken \subseteq {o \in Procs : pc'[o] = "waiting"}
        BY <1>1, <2>1 DEF WaitInv
      <3>2. q # <<>> => Head(q) \in Procs /\ pc'[Head(q)] = "waiting"
        BY <1>1, <1>2, <1>5, <2>2, RangeOfSeq DEF WaitInv
      <3>3. QED
        BY <1>4, <3>1, <3>2
    <2>5. /\ holder' \in [Locks -> Procs \cup {Nothing}]
          /\ pc' \in [Procs -> {"away", "asking", "waiting", "working"}]
          /\ channel' \in [Procs -> Channels \cup {Nothing}]
          /\ lock' \in [Procs -> Locks \cup {Nothing}]
      BY <1>2 DEF WaitInv
    <2>6. QED
      BY <1>2, <2>1, <2>2, <2>3, <2>4, <2>5 DEF WaitInv
  <1>7. ASSUME NEW m \in Locks, waiters[m] # <<>>
        PROVE  Range(waiters[m]) \cap woken' =
                 IF holder'[m] = Nothing THEN {Head(waiters[m])} ELSE {}
    <2>1. CASE m = l
      BY <1>3, <1>4, <1>5, <1>7, <2>1
    <2>2. CASE m # l
      <3>1. q # <<>> => Head(q) \notin Range(waiters[m])
        <4>1. q # <<>> => Head(q) \in Procs /\ lock[Head(q)] = l
          BY <1>1, <1>5, RangeOfSeq DEF WaitInv
        <4>2. QED
          BY <2>2, <4>1 DEF WaitInv
      <3>2. QED
        BY <1>3, <1>4, <1>7, <2>2, <3>1 DEF TurnIsPassedOn
    <2>3. QED
      BY <2>1, <2>2
  <1>8. TurnIsPassedOn'
    BY <1>2, <1>7 DEF TurnIsPassedOn
  <1>9. QED
    BY <1>6, <1>8

\* Who gives up leaves the line; if it was its turn, the next one is woken.
LEMMA TimeoutStep ==
  ASSUME WaitInv, TurnIsPassedOn, NEW p \in Procs, Timeout(p)
  PROVE  WaitInv' /\ TurnIsPassedOn'
  <1> DEFINE l == lock[p]
             q == waiters[l]
             r == RemoveFirst(q, p)
  <1>1. pc[p] = "waiting" /\ l \in Locks /\ p \in Range(q) /\ p # Nothing /\ holder[l] # p
    BY ProcsFacts DEF Timeout, WaitInv
  <1>2. q \in Seq(Procs) /\ IsInjective(q) /\ q # <<>>
    BY <1>1, EmptySeq DEF WaitInv, Range
  <1>3. PICK k \in 1..Len(q) : q[k] = p /\ r = RemoveAt(q, k)
    BY <1>1, <1>2, RemovedFirst
  <1>4. /\ r \in Seq(Procs) /\ IsInjective(r) /\ Range(r) = Range(q) \ {p}
        /\ Head(q) # p => r # <<>> /\ Head(r) = Head(q)
    <2>1. k = 1 => Head(q) = p
      BY <1>2, <1>3
    <2>2. QED
      BY <1>2, <1>3, <2>1, Removed
  <1>5. r # <<>> => Head(r) \in Range(r)
    <2> HIDE DEF r
    <2> SUFFICES ASSUME r # <<>>
                 PROVE  Head(r) \in Range(r)
      OBVIOUS
    <2>1. Len(r) \in Nat \ {0}
      BY <1>4, EmptySeq
    <2>2. Head(r) = r[1] /\ 1 \in DOMAIN r
      BY <1>4, <2>1
    <2>3. QED
      BY <2>2 DEF Range
  <1>6. /\ waiters' = [waiters EXCEPT ![l] = r] /\ holder' = holder
        /\ pc' = [pc EXCEPT ![p] = "away"] /\ channel' = [channel EXCEPT ![p] = Nothing]
        /\ lock' = [lock EXCEPT ![p] = Nothing]
    BY DEF Timeout, Leave, Goto
  <1> HIDE DEF r
  <1>7. /\ waiters' \in [Locks -> Seq(Procs)] /\ waiters'[l] = r
        /\ \A m \in Locks \ {l} : waiters'[m] = waiters[m]
    BY <1>1, <1>4, <1>6 DEF WaitInv
  <1> DEFINE next == IF holder[l] = Nothing /\ r # <<>> THEN {Head(r)} ELSE {}
  <1>8. woken' = (woken \ {p}) \cup next
    BY <1>6, <1>7 DEF Timeout, WakeFirst
  <1>9. next \subseteq Range(r)
    BY <1>5
  <1>10. WaitInv'
    <2>1. /\ pc'[p] = "away" /\ lock'[p] = Nothing /\ Nothing \notin Locks
          /\ \A o \in Procs \ {p} : pc'[o] = pc[o] /\ lock'[o] = lock[o]
      BY <1>6, ProcsFacts DEF WaitInv
    <2>2. \A m \in Locks, o \in Procs :
            o \in Range(waiters'[m]) <=> pc'[o] = "waiting" /\ lock'[o] = m
      BY <1>1, <1>4, <1>7, <2>1, Standing
    <2>3. \A m \in Locks, o \in Procs : holder'[m] = o <=> pc'[o] = "working" /\ lock'[o] = m
      BY <1>1, <1>6, <2>1, Standing
    <2> HIDE DEF next
    <2>4. woken' \subseteq {o \in Procs : pc'[o] = "waiting"}
      <3>1. woken \ {p} \subseteq {o \in Procs : pc'[o] = "waiting"}
        BY <2>1 DEF WaitInv
      <3>2. Range(r) \subseteq {o \in Procs : pc'[o] = "waiting"}
        BY <1>1, <1>4, <1>7, <2>2, RangeOfSeq
      <3>3. QED
        BY <1>8, <1>9, <3>1, <3>2
    <2>5. /\ pc' \in [Procs -> {"away", "asking", "waiting", "working"}]
          /\ channel' \in [Procs -> Channels \cup {Nothing}]
          /\ lock' \in [Procs -> Locks \cup {Nothing}]
      BY <1>6 DEF WaitInv
    <2>6. \A m \in Locks : IsInjective(waiters'[m])
      BY <1>4, <1>7 DEF WaitInv
    <2>7. QED
      BY <1>6, <1>7, <2>1, <2>2, <2>3, <2>4, <2>5, <2>6 DEF WaitInv
  <1>11. ASSUME NEW m \in Locks, waiters'[m] # <<>>
         PROVE  Range(waiters'[m]) \cap woken' =
                  IF holder[m] = Nothing THEN {Head(waiters'[m])} ELSE {}
    <2>1. CASE m = l
      <3>1. Range(r) \cap (woken \ {p}) = (Range(q) \cap woken) \ {p}
        BY <1>4
      <3>2. CASE holder[l] = Nothing
        <4>1. Range(q) \cap woken = {Head(q)}
          BY <1>1, <1>2, <3>2 DEF TurnIsPassedOn
        <4>2. (Range(q) \cap woken) \ {p} \subseteq {Head(r)}
          BY <1>4, <4>1
        <4>3. QED
          BY <1>5, <1>7, <1>8, <1>11, <2>1, <3>1, <3>2, <4>2
      <3>3. CASE holder[l] # Nothing
        <4>1. Range(q) \cap woken = {}
          BY <1>1, <1>2, <3>3 DEF TurnIsPassedOn
        <4>2. QED
          BY <1>7, <1>8, <2>1, <3>1, <3>3, <4>1
      <3>4. QED
        BY <3>2, <3>3
    <2>2. CASE m # l
      <3>1. waiters'[m] = waiters[m] /\ p \notin Range(waiters[m])
        BY <1>1, <1>7, <2>2 DEF WaitInv
      <3>2. Range(r) \cap Range(waiters[m]) = {}
        <4>1. \A o \in Range(r) : o \in Procs /\ lock[o] = l
          BY <1>1, <1>4, RangeOfSeq DEF WaitInv
        <4>2. QED
          BY <2>2, <4>1 DEF WaitInv
      <3> HIDE DEF next
      <3>3. Range(waiters'[m]) \cap woken' = Range(waiters[m]) \cap woken
        BY <1>8, <1>9, <3>1, <3>2
      <3>4. QED
        BY <1>11, <3>1, <3>3 DEF TurnIsPassedOn
    <2>3. QED
      BY <2>1, <2>2
  <1>12. TurnIsPassedOn'
    BY <1>6, <1>11 DEF TurnIsPassedOn
  <1>13. QED
    BY <1>10, <1>12

-----------------------------------------------------------------------------
(* The theorems.                                                           *)

\* The cache is well formed, the lines are those of the waiting, and turns are
\* passed on.
LEMMA LocksAlways == Spec => [](CacheType /\ WaitInv /\ TurnIsPassedOn)
  <1>1. Init => CacheType /\ WaitInv /\ TurnIsPassedOn
    <2> SUFFICES ASSUME Init PROVE CacheType /\ WaitInv /\ TurnIsPassedOn
      OBVIOUS
    <2>1. <<>> \in Seq(Channels) /\ <<>> \in Seq(Procs) /\ Len(<<>>) = 0
          /\ IsInjective(<<>>) /\ Range(<<>>) = {}
      BY DEF IsInjective, Range
    <2>2. CacheType
      BY <2>1, ChannelLocksAssumption DEF Init, CacheType
    <2>3. WaitInv
      BY <2>1, ProcsFacts DEF Init, WaitInv
    <2>4. QED
      BY <2>2, <2>3 DEF Init, TurnIsPassedOn
  <1>2. CacheType /\ WaitInv /\ TurnIsPassedOn /\ [Next]_vars
          => (CacheType /\ WaitInv /\ TurnIsPassedOn)'
    <2> SUFFICES ASSUME CacheType, WaitInv, TurnIsPassedOn, [Next]_vars
                 PROVE  (CacheType /\ WaitInv /\ TurnIsPassedOn)'
      OBVIOUS
    <2>1. ASSUME UNCHANGED cached
          PROVE  CacheType'
      BY <2>1 DEF cached, CacheType
    <2>2. ASSUME NEW p \in Procs, pc[p] = "away", UNCHANGED locks,
                 lock'[p] \in Locks, lock' = [lock EXCEPT ![p] = lock'[p]],
                 channel' \in [Procs -> Channels \cup {Nothing}],
                 NEW where \in {"away", "asking"}, pc' = [pc EXCEPT ![p] = where]
          PROVE  WaitInv' /\ TurnIsPassedOn'
      BY <2>2 DEF locks, WaitInv, TurnIsPassedOn
    <2>3. ASSUME NEW p \in Requests, NEW c \in Channels, Request(p, c)
          PROVE  (CacheType /\ WaitInv /\ TurnIsPassedOn)'
      <3>1. /\ CacheType'
            /\ lock'[p] \in Locks /\ lock' = [lock EXCEPT ![p] = lock'[p]]
        BY <2>3, GetLockType, ProcsFacts DEF Request
      <3>2. channel' \in [Procs -> Channels \cup {Nothing}]
        BY <2>3 DEF Request, WaitInv
      <3>3. QED
        BY <2>2, <2>3, <3>1, <3>2, ProcsFacts DEF Request, Goto
    <2>4. ASSUME NEW p \in Requests, Ask(p)
          PROVE  (CacheType /\ WaitInv /\ TurnIsPassedOn)'
      <3>1. p \in Procs /\ pc[p] = "asking" /\ lock[p] \in Locks
        BY <2>4, ProcsFacts DEF Ask, WaitInv
      <3>2. lock' = [lock EXCEPT ![p] = lock[p]] /\ channel' = channel
        BY <2>4 DEF Ask, WaitInv
      <3>3. channel' \in [Procs -> Channels \cup {Nothing}] /\ Acquire(p, lock[p])
        BY <2>4, <3>2 DEF Ask, WaitInv
      <3>4. WaitInv' /\ TurnIsPassedOn'
        BY <3>1, <3>2, <3>3, AcquireStep
      <3>5. QED
        BY <2>1, <2>4, <3>4 DEF Ask
    <2>5. ASSUME NEW c \in Channels, Visit(c)
          PROVE  (CacheType /\ WaitInv /\ TurnIsPassedOn)'
      <3>1. /\ CacheType'
            /\ lock'[Sweep] \in Locks /\ lock' = [lock EXCEPT ![Sweep] = lock'[Sweep]]
        BY <2>5, GetLockType, ProcsFacts DEF Visit
      <3>2. pc[Sweep] = "away" /\ Sweep \in Procs
        BY <2>5, ProcsFacts DEF Visit
      <3>3. CASE UNCHANGED <<locks, pc, channel>>
        <4>1. pc' = [pc EXCEPT ![Sweep] = "away"] /\ channel' \in [Procs -> Channels \cup {Nothing}]
          BY <3>2, <3>3 DEF WaitInv
        <4>2. QED
          BY <2>2, <3>1, <3>2, <3>3, <4>1
      <3>4. CASE /\ Acquire(Sweep, lock'[Sweep])
                 /\ channel' = [channel EXCEPT ![Sweep] = c]
        <4>1. channel' \in [Procs -> Channels \cup {Nothing}]
          BY <3>4 DEF WaitInv
        <4>2. QED
          BY <3>1, <3>2, <3>4, <4>1, AcquireStep
      <3>5. QED
        BY <2>5, <3>3, <3>4 DEF Visit
    <2>6. ASSUME NEW p \in Procs, Resume(p)
          PROVE  (CacheType /\ WaitInv /\ TurnIsPassedOn)'
      BY <2>1, <2>6, ResumeStep DEF Resume
    <2>7. ASSUME NEW p \in Procs, Release(p)
          PROVE  (CacheType /\ WaitInv /\ TurnIsPassedOn)'
      BY <2>1, <2>7, ReleaseStep DEF Release, Leave
    <2>8. ASSUME NEW p \in Requests, Timeout(p)
          PROVE  (CacheType /\ WaitInv /\ TurnIsPassedOn)'
      BY <2>1, <2>8, TimeoutStep, ProcsFacts DEF Timeout, Leave
    <2>9. CASE UNCHANGED vars
      BY <2>9 DEF vars, cached, locks, procs, CacheType, WaitInv, TurnIsPassedOn
    <2>10. QED
      BY <2>3, <2>4, <2>5, <2>6, <2>7, <2>8, <2>9 DEF Next
  <1>3. QED
    BY <1>1, <1>2, PTL DEF Spec

\* Every variable keeps its type, and the cache agrees with its order.
THEOREM TypeCorrect == Spec => []TypeOK
  <1>1. CacheType /\ WaitInv => TypeOK
    BY DEF CacheType, WaitInv, TypeOK
  <1>2. QED
    BY <1>1, LocksAlways, PTL

\* The turn of a free lock is never lost: a free lock that is waited for has
\* woken the first of its waiters and nobody else, whoever gives up when.
THEOREM TurnAlwaysPassedOn == Spec => []TurnIsPassedOn
  BY LocksAlways, PTL
==============================================================================
