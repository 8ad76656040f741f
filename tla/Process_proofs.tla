---------------------------- MODULE Process_proofs ----------------------------
(***************************************************************************)
(* Proofs about Process for every value of its constants: any number of    *)
(* requests, reflections, slots and users, and any database.               *)
(***************************************************************************)
EXTENDS Process, FiniteSetTheorems, SequenceTheorems, WellFoundedInduction, TLAPS

-----------------------------------------------------------------------------
(* Lines: sequences in which everybody stands once.                        *)

\* A task comes to the end of a line; those who were there keep their places.
LEMMA Joined ==
  ASSUME NEW S, NEW q \in Seq(S), IsInjective(q), NEW t \in S, t \notin ToSet(q)
  PROVE  /\ Append(q, t) \in Seq(S) /\ IsInjective(Append(q, t))
         /\ ToSet(Append(q, t)) = ToSet(q) \cup {t}
         /\ DOMAIN q \subseteq DOMAIN Append(q, t)
         /\ \A i \in DOMAIN q : Append(q, t)[i] = q[i]
  <1> DEFINE r == Append(q, t)
  <1>1. /\ r \in Seq(S) /\ Len(r) = Len(q) + 1 /\ Len(q) \in Nat
        /\ DOMAIN r = 1..(Len(q) + 1) /\ DOMAIN q = 1..Len(q)
        /\ \A i \in 1..Len(q) : r[i] = q[i]
        /\ r[Len(q) + 1] = t
    OBVIOUS
  <1>2. DOMAIN q \subseteq DOMAIN r /\ DOMAIN r = DOMAIN q \cup {Len(q) + 1}
    BY <1>1
  <1>3. ToSet(r) = ToSet(q) \cup {t}
    BY <1>1, <1>2 DEF ToSet
  <1>4. IsInjective(r)
    BY <1>1, <1>2 DEF IsInjective, ToSet
  <1>5. QED
    BY <1>1, <1>2, <1>3, <1>4

\* Several come at once.
LEMMA JoinedAll ==
  ASSUME NEW S, NEW q \in Seq(S), IsInjective(q),
         NEW T, T \subseteq S, IsFiniteSet(T), T \cap ToSet(q) = {}
  PROVE  LET r == q \o SetToSeq(T)
         IN  /\ r \in Seq(S) /\ IsInjective(r)
             /\ ToSet(r) = ToSet(q) \cup T
             /\ DOMAIN q \subseteq DOMAIN r
             /\ \A i \in DOMAIN q : r[i] = q[i]
  <1> DEFINE n == Cardinality(T)
             new == SetToSeq(T)
             r == q \o new
  <1>1. n \in Nat /\ ExistsBijection(1..n, T)
    BY FS_CardinalityType
  <1>2. PICK f \in [1..n -> T] : IsInjective(f) /\ \A t \in T : \E i \in 1..n : f[i] = t
    BY <1>1 DEF ExistsBijection, Bijection, Injection, Surjection, IsInjective
  <1>3. new \in [1..n -> T] /\ IsInjective(new)
    BY <1>2 DEF SetToSeq
  <1>4. \A t \in T : \E i \in 1..n : new[i] = t
    <2>1. new \in Injection(1..n, T)
      BY <1>3 DEF Injection, IsInjective
    <2>2. IsFiniteSet(1..n) /\ Cardinality(1..n) = n
      BY <1>1, FS_Interval
    <2>3. new \in Surjection(1..n, T)
      BY <2>1, <2>2, FS_Injection
    <2>4. QED
      BY <2>3 DEF Surjection
  <1>5. new \in Seq(S) /\ Len(new) = n
    BY <1>1, <1>3
  <1>6. /\ r \in Seq(S) /\ Len(r) = Len(q) + n /\ Len(q) \in Nat
        /\ DOMAIN r = 1..(Len(q) + n) /\ DOMAIN q = 1..Len(q)
        /\ \A i \in 1..Len(q) : r[i] = q[i]
        /\ \A i \in 1..n : r[Len(q) + i] = new[i]
    BY <1>1, <1>5
  <1>7. \A i \in DOMAIN r : i \in DOMAIN q \/ (i - Len(q) \in 1..n /\ i = Len(q) + (i - Len(q)))
    BY <1>1, <1>6
  <1>8. ToSet(r) = ToSet(q) \cup T
    <2>1. ToSet(r) \subseteq ToSet(q) \cup T
      BY <1>3, <1>6, <1>7 DEF ToSet
    <2>2. ToSet(q) \subseteq ToSet(r)
      BY <1>1, <1>6 DEF ToSet
    <2>3. T \subseteq ToSet(r)
      <3> SUFFICES ASSUME NEW t \in T PROVE t \in ToSet(r)
        OBVIOUS
      <3>1. PICK i \in 1..n : new[i] = t
        BY <1>4
      <3>2. Len(q) + i \in DOMAIN r
        BY <1>1, <1>6
      <3>3. QED
        BY <1>6, <3>1, <3>2 DEF ToSet
    <2>4. QED
      BY <2>1, <2>2, <2>3
  <1>9. IsInjective(r)
    <2> SUFFICES ASSUME NEW i \in DOMAIN r, NEW j \in DOMAIN r, r[i] = r[j] PROVE i = j
      BY DEF IsInjective
    <2>1. CASE i \in DOMAIN q /\ j \in DOMAIN q
      BY <1>6, <2>1 DEF IsInjective
    <2>2. CASE i \in DOMAIN q /\ j \notin DOMAIN q
      BY <1>3, <1>6, <1>7, <2>2 DEF ToSet
    <2>3. CASE i \notin DOMAIN q /\ j \in DOMAIN q
      BY <1>3, <1>6, <1>7, <2>3 DEF ToSet
    <2>4. CASE i \notin DOMAIN q /\ j \notin DOMAIN q
      <3>1. new[i - Len(q)] = new[j - Len(q)] /\ i - Len(q) \in 1..n /\ j - Len(q) \in 1..n
        BY <1>6, <1>7, <2>4
      <3>2. i - Len(q) = j - Len(q)
        BY <1>3, <3>1 DEF IsInjective
      <3>3. QED
        BY <1>6, <3>2
    <2>5. QED
      BY <2>1, <2>2, <2>3, <2>4
  <1>10. QED
    BY <1>1, <1>6, <1>8, <1>9

\* The end of a sequence from its n-th element on.
LEMMA Suffix ==
  ASSUME NEW S, NEW w \in Seq(S), NEW n \in 0..Len(w), NEW v, v = SubSeq(w, n + 1, Len(w))
  PROVE  /\ v \in Seq(S) /\ Len(v) = Len(w) - n /\ DOMAIN v = 1..(Len(w) - n)
         /\ \A i \in 1..(Len(w) - n) : v[i] = w[n + i]
  <1>1. \A i \in (n + 1)..Len(w) : w[i] \in S
    OBVIOUS
  <1>2. /\ v \in Seq(S) /\ Len(v) = IF n + 1 <= Len(w) THEN Len(w) - (n + 1) + 1 ELSE 0
        /\ \A i \in 1..(Len(w) - (n + 1) + 1) : v[i] = w[n + 1 + i - 1]
    BY <1>1, SubSeqProperties
  <1>3. Len(w) \in Nat /\ n \in Nat /\ n <= Len(w)
    OBVIOUS
  <1>4. Len(v) = Len(w) - n
    <2>1. CASE n + 1 <= Len(w)
      BY <1>2, <1>3, <2>1
    <2>2. CASE ~(n + 1 <= Len(w))
      <3>1. Len(v) = 0
        BY <1>2, <2>2
      <3>2. Len(w) - n = 0
        BY <1>3, <2>2
      <3>3. QED
        BY <3>1, <3>2
    <2>3. QED
      BY <2>1, <2>2
  <1>5. /\ Len(w) - (n + 1) + 1 = Len(w) - n
        /\ \A i \in 1..(Len(w) - n) : n + 1 + i - 1 = n + i
    BY <1>3
  <1>6. DOMAIN v = 1..(Len(w) - n)
    BY <1>2, <1>4, LenProperties
  <1>7. QED
    BY <1>2, <1>4, <1>5, <1>6

\* One leaves: who stood behind moves up by one.
LEMMA LeftPlaces ==
  ASSUME NEW S, NEW q \in Seq(S), NEW k \in 1..Len(q)
  PROVE  LET r == RemoveAt(q, k)
         IN  /\ r \in Seq(S) /\ Len(r) = Len(q) - 1 /\ Len(q) \in Nat
             /\ DOMAIN r = 1..(Len(q) - 1) /\ DOMAIN q = 1..Len(q)
             /\ \A i \in 1..(Len(q) - 1) : r[i] = IF i < k THEN q[i] ELSE q[i + 1]
  <1> DEFINE front == SubSeq(q, 1, k - 1)
             back == SubSeq(q, k + 1, Len(q))
             r == RemoveAt(q, k)
  <1>1. Len(q) \in Nat /\ k \in Nat /\ 1 <= k /\ k <= Len(q) /\ DOMAIN q = 1..Len(q)
    OBVIOUS
  <1>2. /\ front \in Seq(S) /\ Len(front) = k - 1
        /\ \A i \in 1..(k - 1) : front[i] = q[i]
    BY <1>1
  <1>3. /\ back \in Seq(S) /\ Len(back) = Len(q) - k
        /\ \A i \in 1..(Len(q) - k) : back[i] = q[i + k]
    <2> HIDE DEF back
    <2>0. k \in 0..Len(q) /\ back = SubSeq(q, k + 1, Len(q))
      BY <1>1 DEF back
    <2>1. /\ back \in Seq(S) /\ Len(back) = Len(q) - k
          /\ \A i \in 1..(Len(q) - k) : back[i] = q[k + i]
      BY <2>0, Suffix
    <2>2. \A i \in 1..(Len(q) - k) : k + i = i + k
      BY <1>1
    <2>3. QED
      BY <2>1, <2>2
  <1>4. r = front \o back
    BY DEF RemoveAt
  <1> HIDE DEF front, back, r
  <1>5. /\ r \in Seq(S) /\ Len(r) = Len(front) + Len(back)
        /\ \A i \in 1..(Len(front) + Len(back)) :
              r[i] = IF i <= Len(front) THEN front[i] ELSE back[i - Len(front)]
    BY <1>2, <1>3, <1>4, ConcatProperties
  <1>6. /\ Len(r) = Len(q) - 1 /\ DOMAIN r = 1..(Len(q) - 1)
        /\ \A i \in 1..(Len(q) - 1) :
              r[i] = IF i < k THEN front[i] ELSE back[i - (k - 1)]
    <2>1. Len(front) + Len(back) = Len(q) - 1
      BY <1>1, <1>2, <1>3
    <2>2. Len(r) = Len(q) - 1 /\ DOMAIN r = 1..Len(r)
      BY <1>5, <2>1, LenProperties
    <2>3. \A i \in 1..(Len(q) - 1) : i <= Len(front) <=> i < k
      BY <1>1, <1>2
    <2>4. QED
      BY <1>2, <1>5, <2>1, <2>2, <2>3
  <1>7. \A i \in 1..(Len(q) - 1) : r[i] = IF i < k THEN q[i] ELSE q[i + 1]
    <2> SUFFICES ASSUME NEW i \in 1..(Len(q) - 1)
                 PROVE  r[i] = IF i < k THEN q[i] ELSE q[i + 1]
      OBVIOUS
    <2>1. CASE i < k
      BY <1>1, <1>2, <1>6, <2>1
    <2>2. CASE i >= k
      <3>1. i - (k - 1) \in 1..(Len(q) - k) /\ (i - (k - 1)) + k = i + 1
        BY <1>1, <2>2
      <3>2. QED
        BY <1>1, <1>3, <1>6, <2>2, <3>1
    <2>3. QED
      BY <1>1, <2>1, <2>2
  <1>8. QED
    BY <1>1, <1>5, <1>6, <1>7 DEF r

\* Nobody loses a place by that, and those behind move up.
LEMMA Left ==
  ASSUME NEW S, NEW q \in Seq(S), IsInjective(q), NEW t
  PROVE  LET r == RemoveFirst(q, t)
         IN  /\ r \in Seq(S) /\ IsInjective(r)
             /\ ToSet(r) = ToSet(q) \ {t}
             /\ \A i \in DOMAIN q : q[i] # t => \E j \in DOMAIN r : j <= i /\ r[j] = q[i]
  <1> DEFINE r == RemoveFirst(q, t)
  <1>1. CASE \E k \in 1..Len(q) : q[k] = t
    <2>1. PICK k \in 1..Len(q) : q[k] = t
      BY <1>1
    <2>2. {i \in 1..Len(q) : q[i] = t} = {k}
      BY <2>1 DEF IsInjective
    <2>3. SelectInSeq(q, LAMBDA v : v = t) = k
      BY <2>2 DEF SelectInSeq, Min
    <2>4. r = RemoveAt(q, k)
      BY <1>1, <2>3 DEF RemoveFirst
    <2>5. /\ r \in Seq(S) /\ Len(r) = Len(q) - 1 /\ Len(q) \in Nat
          /\ DOMAIN r = 1..(Len(q) - 1) /\ DOMAIN q = 1..Len(q)
          /\ \A i \in 1..(Len(q) - 1) : r[i] = IF i < k THEN q[i] ELSE q[i + 1]
      <3>1. LET p == RemoveAt(q, k)
            IN  /\ p \in Seq(S) /\ Len(p) = Len(q) - 1 /\ Len(q) \in Nat
                /\ DOMAIN p = 1..(Len(q) - 1) /\ DOMAIN q = 1..Len(q)
                /\ \A i \in 1..(Len(q) - 1) : p[i] = IF i < k THEN q[i] ELSE q[i + 1]
        BY LeftPlaces
      <3>2. QED
        BY <2>4, <3>1
    <2>6. \A i \in DOMAIN q : q[i] # t => \E j \in DOMAIN r : j <= i /\ r[j] = q[i]
      <3> SUFFICES ASSUME NEW i \in DOMAIN q, q[i] # t
                   PROVE  \E j \in DOMAIN r : j <= i /\ r[j] = q[i]
        OBVIOUS
      <3>1. CASE i < k
        <4>1. i \in DOMAIN r /\ r[i] = q[i]
          BY <2>1, <2>5, <3>1
        <4>2. QED
          BY <2>5, <4>1
      <3>2. CASE i > k
        <4>1. i - 1 \in DOMAIN r /\ r[i - 1] = q[i] /\ i - 1 <= i
          BY <2>1, <2>5, <3>2
        <4>2. QED
          BY <4>1
      <3>3. QED
        BY <2>1, <2>5, <3>1, <3>2
    <2>7. \A j \in DOMAIN r : r[j] \in ToSet(q) \ {t}
      BY <2>1, <2>5 DEF IsInjective, ToSet
    <2>8. ToSet(r) = ToSet(q) \ {t}
      BY <2>6, <2>7 DEF ToSet
    <2>9. IsInjective(r)
      <3> SUFFICES ASSUME NEW i \in DOMAIN r, NEW j \in DOMAIN r, r[i] = r[j] PROVE i = j
        BY DEF IsInjective
      <3> DEFINE at(x) == IF x < k THEN x ELSE x + 1
      <3>1. at(i) \in DOMAIN q /\ at(j) \in DOMAIN q /\ q[at(i)] = q[at(j)]
        BY <2>1, <2>5
      <3>2. at(i) = at(j)
        BY <3>1 DEF IsInjective
      <3>3. QED
        BY <2>1, <2>5, <3>2
    <2>10. QED
      BY <2>5, <2>6, <2>8, <2>9
  <1>2. CASE ~\E k \in 1..Len(q) : q[k] = t
    <2>1. r = q
      BY <1>2 DEF RemoveFirst
    <2>2. DOMAIN q = 1..Len(q) /\ Len(q) \in Nat
      OBVIOUS
    <2>3. t \notin ToSet(q)
      BY <1>2, <2>2 DEF ToSet
    <2>4. QED
      BY <2>1, <2>2, <2>3
  <1>3. QED
    BY <1>1, <1>2

-----------------------------------------------------------------------------
(* Tasks and the semaphores on their path.                                 *)

\* The path of each kind of task.
LEMMA Paths ==
  /\ \A t \in Replies : Path(t) = <<"global">>
  /\ Path(Sweep) = <<"background", "global">>
  /\ \A t \in Reflections : Path(t) = <<"reflection", "background", "global">>
  BY ProcessAssumption DEF Path

\* Every semaphore lets somebody in.
LEMMA Capacities == \A s \in Semaphores : Capacity(s) \in Nat \ {0}
  BY ProcessAssumption DEF Capacity, Semaphores

\* Everybody stands in a line once, and who delivers an answer in none.
TasksInv ==
  /\ line \in [Semaphores -> Seq(Tasks)]
  /\ \A s \in Semaphores : IsInjective(line[s])
  /\ sending \subseteq Events
  /\ \A t \in sending, s \in Semaphores : ~In(t, s)

\* Background work comes to the common line with its own slot in hand.
SlotsInv == \A t \in Background : In(t, "global") => Holds(t, "background")

\* The line of s grows by ts at its end.
Grows(ts, s) ==
  /\ line' \in [Semaphores -> Seq(Tasks)]
  /\ \A z \in Semaphores : IsInjective(line'[z])
  /\ \A z \in Semaphores : ToSet(line'[z]) = ToSet(line[z]) \cup (IF z = s THEN ts ELSE {})
  /\ \A z \in Semaphores : /\ DOMAIN line[z] \subseteq DOMAIN line'[z]
                           /\ \A i \in DOMAIN line[z] : line'[z][i] = line[z][i]

\* A task that comes to a line it does not stand in.
LEMMA GrowsByOne ==
  ASSUME TasksInv, NEW t \in Tasks, NEW s \in Semaphores, ~In(t, s),
         line' = [line EXCEPT ![s] = Append(@, t)]
  PROVE  Grows({t}, s)
  <1>1. line[s] \in Seq(Tasks) /\ IsInjective(line[s]) /\ t \notin ToSet(line[s])
    BY DEF TasksInv, In
  <1>2. /\ Append(line[s], t) \in Seq(Tasks) /\ IsInjective(Append(line[s], t))
        /\ ToSet(Append(line[s], t)) = ToSet(line[s]) \cup {t}
        /\ DOMAIN line[s] \subseteq DOMAIN Append(line[s], t)
        /\ \A i \in DOMAIN line[s] : Append(line[s], t)[i] = line[s][i]
    BY <1>1, Joined
  <1>3. /\ line'[s] = Append(line[s], t)
        /\ \A z \in Semaphores : z # s => line'[z] = line[z]
        /\ line' \in [Semaphores -> Seq(Tasks)]
    BY <1>2 DEF TasksInv
  <1>4. QED
    BY <1>2, <1>3 DEF TasksInv, Grows

\* New tasks that come to the first line on their path.
LEMMA GrowsBySome ==
  ASSUME TasksInv, NEW ts, ts \subseteq Tasks, IsFiniteSet(ts), NEW s \in Semaphores,
         \A t \in ts : Head(Path(t)) = s /\ ~Alive(t), line' = Begun(ts)
  PROVE  Grows(ts, s)
  <1>1. CASE ts = {}
    BY <1>1 DEF Begun, TasksInv, Grows
  <1>2. CASE ts # {}
    <2>1. line' = [line EXCEPT ![s] = @ \o SetToSeq(ts)]
      BY <1>2 DEF Begun
    <2>2. line[s] \in Seq(Tasks) /\ IsInjective(line[s]) /\ ts \cap ToSet(line[s]) = {}
      BY DEF TasksInv, Alive, In
    <2> DEFINE r == line[s] \o SetToSeq(ts)
    <2>3. /\ r \in Seq(Tasks) /\ IsInjective(r)
          /\ ToSet(r) = ToSet(line[s]) \cup ts
          /\ DOMAIN line[s] \subseteq DOMAIN r
          /\ \A i \in DOMAIN line[s] : r[i] = line[s][i]
      BY <2>2, JoinedAll
    <2> HIDE DEF r
    <2>4. /\ line'[s] = r
          /\ \A z \in Semaphores : z # s => line'[z] = line[z]
          /\ line' \in [Semaphores -> Seq(Tasks)]
      BY <2>1, <2>3 DEF TasksInv, r
    <2>5. QED
      BY <2>3, <2>4 DEF TasksInv, Grows
  <1>3. QED
    BY <1>1, <1>2

\* When a line grows, who stood in one still does and holds what it held.
LEMMA GrowthKeepsPlaces ==
  ASSUME NEW ts, NEW s, Grows(ts, s), NEW u, NEW z \in Semaphores
  PROVE  /\ In(u, z)' <=> In(u, z) \/ (z = s /\ u \in ts)
         /\ Holds(u, z) => Holds(u, z)'
  <1>1. In(u, z)' <=> In(u, z) \/ (z = s /\ u \in ts)
    BY DEF Grows, In
  <1>2. Holds(u, z) => Holds(u, z)'
    <2> SUFFICES ASSUME Holds(u, z) PROVE Holds(u, z)'
      OBVIOUS
    <2>1. PICK i \in DOMAIN line[z] : i <= Capacity(z) /\ line[z][i] = u
      BY DEF Holds
    <2>2. i \in DOMAIN line'[z] /\ line'[z][i] = u /\ Capacity(z)' = Capacity(z)
      BY <2>1 DEF Grows, Capacity
    <2>3. QED
      BY <2>1, <2>2 DEF Holds
  <1>3. QED
    BY <1>1, <1>2

\* When a task leaves all lines, the others stay in theirs and hold what they held.
LEMMA ReleaseKeepsPlaces ==
  ASSUME TasksInv, NEW t, line' = Released(t)
  PROVE  /\ line' \in [Semaphores -> Seq(Tasks)]
         /\ \A s \in Semaphores : IsInjective(line'[s])
         /\ \A u, z : z \in Semaphores => (In(u, z)' <=> In(u, z) /\ u # t)
         /\ \A u, z : z \in Semaphores /\ u # t /\ Holds(u, z) => Holds(u, z)'
  <1>1. \A z \in Semaphores : line[z] \in Seq(Tasks) /\ IsInjective(line[z])
    BY DEF TasksInv
  <1>2. \A z \in Semaphores :
          /\ line'[z] \in Seq(Tasks) /\ IsInjective(line'[z])
          /\ ToSet(line'[z]) = ToSet(line[z]) \ {t}
          /\ \A i \in DOMAIN line[z] :
               line[z][i] # t => \E j \in DOMAIN line'[z] : j <= i /\ line'[z][j] = line[z][i]
    <2> SUFFICES ASSUME NEW z \in Semaphores
                 PROVE  /\ line'[z] \in Seq(Tasks) /\ IsInjective(line'[z])
                        /\ ToSet(line'[z]) = ToSet(line[z]) \ {t}
                        /\ \A i \in DOMAIN line[z] :
                             line[z][i] # t => \E j \in DOMAIN line'[z] :
                                                 j <= i /\ line'[z][j] = line[z][i]
      OBVIOUS
    <2>1. line'[z] = RemoveFirst(line[z], t)
      BY DEF Released
    <2>2. QED
      BY <1>1, <2>1, Left
  <1>3. line' \in [Semaphores -> Seq(Tasks)]
    BY <1>2 DEF Released
  <1>4. \A u, z : z \in Semaphores => (In(u, z)' <=> In(u, z) /\ u # t)
    BY <1>2 DEF In
  <1>5. ASSUME NEW u, NEW z \in Semaphores, u # t, Holds(u, z)
        PROVE  Holds(u, z)'
    <2>1. PICK i \in DOMAIN line[z] : i <= Capacity(z) /\ line[z][i] = u
      BY <1>5 DEF Holds
    <2>2. PICK j \in DOMAIN line'[z] : j <= i /\ line'[z][j] = u
      BY <1>2, <1>5, <2>1
    <2>3. DOMAIN line[z] = 1..Len(line[z]) /\ DOMAIN line'[z] = 1..Len(line'[z])
      BY <1>1, <1>2, LenProperties
    <2>4. i \in Nat /\ j \in Nat
      BY <2>1, <2>2, <2>3
    <2>5. Capacity(z) \in Nat
      BY Capacities
    <2>6. j <= Capacity(z)
      BY <2>1, <2>2, <2>4, <2>5
    <2>7. QED
      BY <2>2, <2>6 DEF Holds, Capacity
  <1>6. QED
    BY <1>2, <1>3, <1>4, <1>5

-----------------------------------------------------------------------------
(* What a step does to the lines.                                          *)

\* It is one of six things.
Quiet   == UNCHANGED <<line, sending>>
Move(t) == Acquire(t) /\ UNCHANGED sending
Sends(t) ==
  /\ t \in Events /\ Holds(t, Head(Path(t)))
  /\ line' = Released(t) /\ sending' = sending \cup {t}
Begins(ts, s) ==
  /\ ts \subseteq Tasks /\ IsFiniteSet(ts) /\ s \in Semaphores
  /\ \A t \in ts : Head(Path(t)) = s /\ ~Alive(t)
  /\ s = "global" => ts \cap Background = {}
  /\ line' = Begun(ts)
  /\ \/ sending' = sending
     \/ \E t \in sending : sending' = sending \ {t} /\ ts \cap Events = {}
Ends(t) == line' = Released(t) /\ sending' = sending \ {t}
Over    == line' = Nobody /\ sending' = {}

\* What schedule_due_relationship_reflections does to the lines.
LEMMA ScheduleBegins ==
  ASSUME TasksInv, Schedule,
         sending' = sending \/ \E t \in sending : sending' = sending \ {t}
  PROVE  \E ts \in SUBSET Reflections, s \in Semaphores : Begins(ts, s)
  <1>1. PICK due \in SUBSET {r \in Reflections : ~Alive(r)} : line' = Begun(due)
    BY DEF Schedule
  <1>2. IsFiniteSet(due)
    BY FS_Subset, ProcessAssumption
  <1>3. \A t \in due : Head(Path(t)) = "reflection" /\ ~Alive(t)
    BY Paths
  <1>4. due \cap Events = {} /\ due \subseteq Tasks
    BY ProcessAssumption DEF Events, Tasks, Background
  <1>5. Begins(due, "reflection")
    BY <1>1, <1>2, <1>3, <1>4 DEF Begins, Semaphores
  <1>6. QED
    BY <1>5 DEF Semaphores

\* Every step has one of these effects on the lines.
LEMMA Effects ==
  ASSUME TasksInv, [Next]_vars
  PROVE  \/ Quiet \/ Over
         \/ \E t \in Tasks : Move(t) \/ Sends(t) \/ Ends(t)
         \/ \E ts \in SUBSET Tasks, s \in Semaphores : Begins(ts, s)
  <1>1. CASE UNCHANGED vars
    BY <1>1 DEF Quiet, vars, work
  <1>2. CASE Refuse \/ Start \/ MigrationBegins \/ CarryOver \/ MigrationCommits \/ Opened
    BY <1>2
       DEF Refuse, Start, MigrationBegins, CarryOver, MigrationCommits, Opened, Quiet, vars, work
  <1>3. ASSUME NEW t \in Tasks, Acquire(t) PROVE Move(t)
    BY <1>3 DEF Acquire, Move
  <1>4. ASSUME NEW t \in Tasks, Return(t) PROVE Sends(t) \/ Ends(t)
    <2>1. Holds(t, Head(Path(t)))
      BY <1>4, Paths DEF Return, Tasks, Background, ToSet
    <2>2. QED
      BY <1>4, <2>1 DEF Return, Gone, Sends, Ends
  <1>5. ASSUME NEW t \in Tasks, Sent(t)
        PROVE  \E ts \in SUBSET Tasks, s \in Semaphores : Begins(ts, s)
    <2>1. t \in sending /\ sending' = sending \ {t}
      BY <1>5 DEF Sent
    <2>2. CASE Schedule
      BY <2>1, <2>2, ScheduleBegins DEF Tasks, Background
    <2>3. CASE line' = line
      <3>1. Begins({}, "reflection")
        BY <2>1, <2>3, FS_EmptySet DEF Begins, Begun, Semaphores
      <3>2. QED
        BY <3>1 DEF Semaphores
    <2>4. QED
      BY <1>5, <2>2, <2>3 DEF Sent
  <1>6. ASSUME NEW t \in Tasks, Obey(t) PROVE Ends(t)
    BY <1>6 DEF Obey, Gone, Ends
  <1>7. ASSUME NEW t \in Tasks, Resist(t) PROVE Quiet
    BY <1>7 DEF Resist, Quiet
  <1>8. ASSUME NEW u \in Users, Message(u)
        PROVE  Quiet \/ \E ts \in SUBSET Tasks, s \in Semaphores : Begins(ts, s)
    <2>1. CASE line' = line
      BY <1>8, <2>1 DEF Message, Quiet
    <2>2. ASSUME NEW c \in Replies, ~Alive(c), line' = Begun({c})
          PROVE  \E ts \in SUBSET Tasks, s \in Semaphores : Begins(ts, s)
      <3>1. sending' = sending
        BY <1>8 DEF Message
      <3>2. Head(Path(c)) = "global" /\ IsFiniteSet({c})
        <4>1. Path(c) = <<"global">>
          BY Paths
        <4>2. IsFiniteSet({c})
          BY FS_Singleton
        <4>3. QED
          BY <4>1, <4>2
      <3>3. {c} \subseteq Tasks /\ {c} \cap Background = {}
        BY ProcessAssumption DEF Tasks, Background
      <3>4. Begins({c}, "global")
        BY <2>2, <3>1, <3>2, <3>3 DEF Begins, Semaphores
      <3>5. QED
        BY <3>3, <3>4 DEF Semaphores
    <2>3. QED
      BY <1>8, <2>1, <2>2 DEF Message
  <1>9. CASE SweepBegins
    <2>1. ~Alive(Sweep) /\ sending' = sending /\ line' = Begun({Sweep})
      BY <1>9 DEF SweepBegins
    <2>2. Head(Path(Sweep)) = "background"
      BY Paths
    <2>3. IsFiniteSet({Sweep})
      BY FS_Singleton
    <2>4. {Sweep} \subseteq Tasks
      BY DEF Tasks, Background
    <2>5. Begins({Sweep}, "background")
      BY <2>1, <2>2, <2>3, <2>4 DEF Begins, Semaphores
    <2>6. QED
      BY <2>4, <2>5 DEF Semaphores
  <1>10. CASE Maintain \/ Greeted
    <2>1. Schedule /\ sending' = sending
      BY <1>10 DEF Maintain, Greeted
    <2>2. QED
      BY <2>1, ScheduleBegins DEF Tasks, Background
  <1>11. CASE Tick \/ Ready \/ Close \/ EventsClosed \/ DiscordClosed \/ CoreClosed
    BY <1>11 DEF Tick, Ready, Close, EventsClosed, DiscordClosed, CoreClosed, Quiet, work
  <1>12. ASSUME NEW r \in Reflections, Forget(r) \/ CalledBack(r) PROVE Quiet
    BY <1>12 DEF Forget, CalledBack, Quiet
  <1>13. CASE StoreClosed \/ Interrupt
    BY <1>13 DEF StoreClosed, Interrupt, Teardown, Quiet
  <1>14. CASE Exit \/ Watchdog \/ Crash
    BY <1>14 DEF Exit, Watchdog, Crash, Down, Over
  <1>15. QED
    BY <1>1, <1>2, <1>3, <1>4, <1>5, <1>6, <1>7, <1>8, <1>9, <1>10, <1>11, <1>12, <1>13, <1>14
       DEF Next

\* At first nobody stands anywhere.
LEMMA InitTasks == Init => TasksInv /\ SlotsInv
  BY Paths, EmptySeq
     DEF Init, TasksInv, SlotsInv, Nobody, In, Holds, ToSet, IsInjective, Semaphores

\* Who holds a semaphore stands in its line.
LEMMA HoldsIsIn == \A t, s : Holds(t, s) => In(t, s)
  BY DEF Holds, In, ToSet

\* A move is the growth of one line, by a task that holds what comes before.
LEMMA MoveGrows ==
  ASSUME TasksInv, NEW t \in Tasks, Move(t)
  PROVE  \E s \in Semaphores :
           /\ Grows({t}, s)
           /\ s # Head(Path(t)) /\ In(t, Head(Path(t)))
           /\ s = "global" /\ t \in Background => Holds(t, "background")
  <1>1. PICK i \in 1..(Len(Path(t)) - 1) :
          /\ \A j \in 1..i : Holds(t, Path(t)[j])
          /\ ~In(t, Path(t)[i + 1])
          /\ line' = [line EXCEPT ![Path(t)[i + 1]] = Append(@, t)]
    BY DEF Move, Acquire
  <1>2. /\ Path(t)[i + 1] \in Semaphores /\ Path(t)[i + 1] # Head(Path(t))
        /\ Holds(t, Head(Path(t)))
        /\ Path(t)[i + 1] = "global" /\ t \in Background => Holds(t, "background")
    <2>1. CASE t \in Replies
      BY <2>1, Paths
    <2>2. CASE t = Sweep
      <3>1. Path(t) = <<"background", "global">> /\ i = 1
        BY <2>2, Paths
      <3>2. QED
        BY <1>1, <3>1 DEF Semaphores
    <2>3. CASE t \in Reflections
      <3>1. Path(t) = <<"reflection", "background", "global">> /\ i \in {1, 2}
        <4>1. Path(t) = <<"reflection", "background", "global">>
          BY <2>3, Paths
        <4>2. Len(Path(t)) = 3
          BY <4>1
        <4>3. i \in 1..2
          BY <4>2
        <4>4. QED
          BY <4>1, <4>3
      <3>2. CASE i = 1
        BY <1>1, <3>1, <3>2 DEF Semaphores
      <3>3. CASE i = 2
        BY <1>1, <3>1, <3>3 DEF Semaphores
      <3>4. QED
        BY <3>1, <3>2, <3>3
    <2>4. QED
      BY <2>1, <2>2, <2>3 DEF Tasks, Background
  <1>3. Grows({t}, Path(t)[i + 1])
    BY <1>1, <1>2, GrowsByOne
  <1>4. QED
    BY <1>2, <1>3, HoldsIsIn

\* No effect disturbs the lines or the order in which semaphores are taken.
LEMMA NextTasks ==
  ASSUME TasksInv, SlotsInv, [Next]_vars
  PROVE  TasksInv' /\ SlotsInv'
  <1>1. CASE Quiet
    BY <1>1 DEF Quiet, TasksInv, SlotsInv, In, Holds, Capacity
  <1>2. CASE Over
    BY <1>2, EmptySeq
       DEF Over, TasksInv, SlotsInv, Nobody, In, Holds, ToSet, IsInjective, Semaphores
  <1>3. ASSUME NEW t \in Tasks, Move(t) PROVE TasksInv' /\ SlotsInv'
    <2>1. PICK s \in Semaphores :
            /\ Grows({t}, s)
            /\ In(t, Head(Path(t))) /\ Head(Path(t)) \in Semaphores
            /\ s = "global" /\ t \in Background => Holds(t, "background")
      BY <1>3, MoveGrows, Paths DEF Tasks, Background, Semaphores
    <2>2. t \notin sending /\ sending' = sending
      BY <1>3, <2>1 DEF TasksInv, Move
    <2>3. TasksInv'
      <3>1. \A u \in sending, z \in Semaphores : ~In(u, z)'
        BY <2>1, <2>2, GrowthKeepsPlaces DEF TasksInv
      <3>2. QED
        BY <2>1, <2>2, <3>1 DEF TasksInv, Grows
    <2>4. SlotsInv'
      BY <2>1, GrowthKeepsPlaces DEF SlotsInv, Semaphores
    <2>5. QED
      BY <2>3, <2>4
  <1>4. ASSUME NEW t \in Tasks, Sends(t) \/ Ends(t) PROVE TasksInv' /\ SlotsInv'
    <2>1. /\ line' \in [Semaphores -> Seq(Tasks)]
          /\ \A s \in Semaphores : IsInjective(line'[s])
          /\ \A u, z : z \in Semaphores => (In(u, z)' <=> In(u, z) /\ u # t)
          /\ \A u, z : z \in Semaphores /\ u # t /\ Holds(u, z) => Holds(u, z)'
      BY <1>4, ReleaseKeepsPlaces DEF Sends, Ends
    <2>2. sending' \subseteq sending \cup {t} /\ sending' \subseteq Events
      BY <1>4 DEF Sends, Ends, TasksInv
    <2>3. TasksInv'
      BY <2>1, <2>2 DEF TasksInv
    <2>4. SlotsInv'
      BY <2>1 DEF SlotsInv, Semaphores
    <2>5. QED
      BY <2>3, <2>4
  <1>5. ASSUME NEW ts \in SUBSET Tasks, NEW s \in Semaphores, Begins(ts, s)
        PROVE  TasksInv' /\ SlotsInv'
    <2>1. Grows(ts, s)
      BY <1>5, GrowsBySome DEF Begins
    <2>2. sending' \subseteq sending /\ ts \cap sending = {}
      BY <1>5 DEF Begins, Alive
    <2>3. TasksInv'
      <3>1. \A u \in sending', z \in Semaphores : ~In(u, z)'
        BY <2>1, <2>2, GrowthKeepsPlaces DEF TasksInv
      <3>2. QED
        BY <2>1, <2>2, <3>1 DEF TasksInv, Grows
    <2>4. s = "global" => ts \cap Background = {}
      BY <1>5 DEF Begins
    <2>5. SlotsInv'
      BY <2>1, <2>4, GrowthKeepsPlaces DEF SlotsInv, Semaphores
    <2>6. QED
      BY <2>3, <2>5
  <1>6. QED
    BY <1>1, <1>2, <1>3, <1>4, <1>5, Effects

\* So both hold all the time.
LEMMA TasksAlways == Spec => [](TasksInv /\ SlotsInv)
  <1>1. TasksInv /\ SlotsInv /\ [Next]_vars => (TasksInv /\ SlotsInv)'
    BY NextTasks
  <1>2. QED
    BY <1>1, InitTasks, PTL DEF Spec

\* The background semaphore has one slot less than the common one, which its
\* holders are the only background tasks to ask for.
LEMMA SlotsSuffice == TasksInv /\ SlotsInv => ChatSlotStaysFree
  <1> SUFFICES ASSUME TasksInv, SlotsInv, Concurrency > 1
               PROVE  Cardinality({t \in Background : In(t, "global")}) < Concurrency
    BY DEF ChatSlotStaysFree
  <1> DEFINE asking == {t \in Background : In(t, "global")}
             q == line["background"]
             n == Concurrency - 1
             holders == {q[i] : i \in {j \in 1..n : j \in DOMAIN q}}
  <1>1. n \in Nat /\ Capacity("background") = n
    BY ProcessAssumption DEF Capacity
  <1>2. DOMAIN q = 1..Len(q) /\ Len(q) \in Nat
    BY LenProperties DEF TasksInv, Semaphores
  <1>3. asking \subseteq holders
    BY <1>1, <1>2 DEF SlotsInv, Holds
  <1>4. IsFiniteSet(holders) /\ Cardinality(holders) <= n
    <2> DEFINE dom == {j \in 1..n : j \in DOMAIN q}
               f == [i \in dom |-> q[i]]
    <2>1. IsFiniteSet(1..n) /\ Cardinality(1..n) = n
      BY <1>1, FS_Interval
    <2>2. IsFiniteSet(dom) /\ Cardinality(dom) <= n
      BY <2>1, FS_Subset
    <2>3. f \in Surjection(dom, holders)
      BY DEF Surjection
    <2>4. IsFiniteSet(holders) /\ Cardinality(holders) <= Cardinality(dom)
      BY <2>2, <2>3, FS_Surjection
    <2>5. Cardinality(dom) \in Nat /\ Cardinality(holders) \in Nat
      BY <2>2, <2>4, FS_CardinalityType
    <2>6. QED
      BY <1>1, <2>2, <2>4, <2>5
  <1>5. IsFiniteSet(asking) /\ Cardinality(asking) <= Cardinality(holders)
    BY <1>3, <1>4, FS_Subset
  <1>6. Cardinality(asking) \in Nat /\ Cardinality(holders) \in Nat
    BY <1>4, <1>5, FS_CardinalityType
  <1>7. QED
    BY <1>1, <1>4, <1>5, <1>6, ProcessAssumption

\* Two slots or more, and any number of reflections: one is there for a chat
\* (orchestrator.py:141-153).
THEOREM ChatSlotAlwaysFree == Spec => []ChatSlotStaysFree
  BY TasksAlways, SlotsSuffice, PTL

-----------------------------------------------------------------------------
(* The order of the shutdown.                                              *)

\* What the steps of the shutdown that are done have waited for.
SettledInv ==
  /\ phase \in {"discord", "core", "session"} => Settled(Events)
  /\ phase = "session" => Settled(Reflections \ unseen)

\* Every path begins with a semaphore.
LEMMA HeadsAreLines == \A t \in Tasks : Head(Path(t)) \in Semaphores
  BY Paths DEF Tasks, Background, Semaphores

\* Scheduling brings reflections to life, and once core.close has looked only
\* ones it does not see.
LEMMA ScheduleRevives ==
  ASSUME TasksInv, Schedule, sending' \subseteq sending
  PROVE  \E due \in SUBSET Reflections :
           /\ \A u \in Tasks : In(u, Head(Path(u)))' => In(u, Head(Path(u))) \/ u \in due
           /\ unseen \subseteq unseen' /\ (phase = "session" => due \subseteq unseen')
  <1>1. PICK due \in SUBSET {r \in Reflections : ~Alive(r)} :
          /\ line' = Begun(due)
          /\ unseen' = IF Looked THEN unseen \cup due ELSE unseen
    BY DEF Schedule
  <1>2. IsFiniteSet(due) /\ due \subseteq Tasks
    BY FS_Subset, ProcessAssumption DEF Tasks, Background
  <1>3. \A t \in due : Head(Path(t)) = "reflection" /\ ~Alive(t)
    BY Paths
  <1>4. Grows(due, "reflection")
    BY <1>1, <1>2, <1>3, GrowsBySome DEF Semaphores
  <1>5. \A u \in Tasks : In(u, Head(Path(u)))' => In(u, Head(Path(u))) \/ u \in due
    BY <1>4, HeadsAreLines, GrowthKeepsPlaces
  <1>6. QED
    BY <1>1, <1>5 DEF Looked

\* A task that ends makes nobody unsettled.
LEMMA GoneSettles ==
  ASSUME TasksInv, SettledInv, NEW t \in Tasks, Gone(t)
  PROVE  SettledInv'
  <1>1. \A u \in Tasks : Alive(u)' => Alive(u) /\ u # t
    BY ReleaseKeepsPlaces, HeadsAreLines DEF Gone, Alive
  <1>2. /\ phase' = phase /\ resisted' = resisted \ {t} /\ unseen' = unseen \ {t}
    BY DEF Gone
  <1>3. Events \subseteq Tasks /\ Reflections \subseteq Tasks
    BY DEF Events, Tasks, Background
  <1>4. QED
    BY <1>1, <1>2, <1>3 DEF SettledInv, Settled

\* Once the shutdown has waited for tasks, no step brings one of them back.
LEMMA NextSettled ==
  ASSUME TasksInv, SettledInv, [Next]_vars
  PROVE  SettledInv'
  <1>0. Events \subseteq Tasks /\ Reflections \subseteq Tasks /\ Events \cap Reflections = {}
    BY ProcessAssumption DEF Events, Tasks, Background
  <1>1. CASE UNCHANGED vars
    BY <1>1 DEF vars, work, SettledInv, Settled, Alive, In
  <1>2. CASE Refuse \/ Start \/ MigrationBegins \/ CarryOver \/ MigrationCommits \/ Opened
    BY <1>2
       DEF Refuse, Start, MigrationBegins, CarryOver, MigrationCommits, Opened, vars, SettledInv
  <1>3. ASSUME NEW t \in Tasks, Acquire(t) PROVE SettledInv'
    <2>1. Move(t) /\ UNCHANGED <<phase, resisted, unseen>>
      BY <1>3 DEF Acquire, Move
    <2>2. PICK s \in Semaphores : Grows({t}, s) /\ s # Head(Path(t))
      BY <2>1, MoveGrows
    <2>3. \A u \in Tasks : In(u, Head(Path(u)))' => In(u, Head(Path(u)))
      BY <2>2, HeadsAreLines, GrowthKeepsPlaces
    <2>4. \A u \in Tasks : Alive(u)' => Alive(u)
      BY <2>1, <2>3 DEF Alive, Move
    <2>5. QED
      BY <1>0, <2>1, <2>4 DEF SettledInv, Settled
  <1>4. ASSUME NEW t \in Tasks, Return(t) PROVE SettledInv'
    <2>1. CASE Gone(t)
      BY <2>1, GoneSettles
    <2>2. CASE line' = Released(t) /\ sending' = sending \cup {t}
               /\ UNCHANGED <<phase, resisted, unseen>>
      <3>1. Alive(t)
        BY <1>4, Paths, HoldsIsIn DEF Return, Alive, Tasks, Background, ToSet
      <3>2. \A u \in Tasks : In(u, Head(Path(u)))' => In(u, Head(Path(u)))
        BY <2>2, ReleaseKeepsPlaces, HeadsAreLines
      <3>3. \A u \in Tasks : Alive(u)' => Alive(u)
        BY <2>2, <3>1, <3>2 DEF Alive
      <3>4. QED
        BY <1>0, <2>2, <3>3 DEF SettledInv, Settled
    <2>3. QED
      BY <1>4, <2>1, <2>2 DEF Return
  <1>5. ASSUME NEW t \in Tasks, Sent(t) PROVE SettledInv'
    <2>1. /\ t \in sending /\ sending' = sending \ {t} /\ resisted' = resisted \ {t}
          /\ phase' = phase /\ t \in Events /\ ~In(t, Head(Path(t)))
      BY <1>5, HeadsAreLines DEF Sent, TasksInv
    <2>2. PICK due \in SUBSET Reflections :
            /\ \A u \in Tasks : In(u, Head(Path(u)))' => In(u, Head(Path(u))) \/ u \in due
            /\ unseen \subseteq unseen' /\ (phase = "session" => due \subseteq unseen')
      <3>1. CASE Schedule
        BY <2>1, <3>1, ScheduleRevives
      <3>2. CASE UNCHANGED <<line, unseen>>
        <4>1. \A u \in Tasks : In(u, Head(Path(u)))' => In(u, Head(Path(u)))
          BY <3>2 DEF In
        <4>2. {} \in SUBSET Reflections /\ unseen \subseteq unseen' /\ {} \subseteq unseen'
          BY <3>2
        <4>3. QED
          BY <4>1, <4>2
      <3>3. QED
        BY <1>5, <3>1, <3>2 DEF Sent
    <2>3. \A u \in Tasks : Alive(u)' => (Alive(u) /\ u # t) \/ u \in due
      BY <1>0, <2>1, <2>2 DEF Alive
    <2>4. QED
      BY <1>0, <2>1, <2>2, <2>3 DEF SettledInv, Settled
  <1>6. ASSUME NEW t \in Tasks, Obey(t) PROVE SettledInv'
    BY <1>6, GoneSettles DEF Obey
  <1>7. ASSUME NEW t \in Tasks, Resist(t) PROVE SettledInv'
    BY <1>7 DEF Resist, SettledInv, Settled, Alive, In
  <1>8. ASSUME NEW u \in Users, Message(u) PROVE SettledInv'
    BY <1>8 DEF Message, SettledInv
  <1>9. CASE SweepBegins \/ Maintain \/ Tick \/ Ready
    BY <1>9 DEF SweepBegins, Maintain, Tick, Ready, SettledInv
  <1>10. ASSUME NEW r \in Reflections, Forget(r) \/ CalledBack(r) PROVE SettledInv'
    <2>1. CASE Forget(r)
      BY <2>1 DEF Forget, SettledInv
    <2>2. CASE CalledBack(r)
      <3>1. UNCHANGED <<phase, line, sending, resisted>> /\ unseen \subseteq unseen'
        BY <2>2 DEF CalledBack
      <3>2. QED
        BY <3>1 DEF SettledInv, Settled, Alive, In
    <2>3. QED
      BY <1>10, <2>1, <2>2
  <1>11. CASE Greeted
    <2>1. Schedule /\ UNCHANGED <<phase, sending, resisted>>
      BY <1>11 DEF Greeted
    <2>2. PICK due \in SUBSET Reflections :
            /\ \A u \in Tasks : In(u, Head(Path(u)))' => In(u, Head(Path(u))) \/ u \in due
            /\ unseen \subseteq unseen' /\ (phase = "session" => due \subseteq unseen')
      BY <2>1, ScheduleRevives
    <2>3. \A u \in Tasks : Alive(u)' => Alive(u) \/ u \in due
      BY <2>1, <2>2 DEF Alive
    <2>4. QED
      BY <1>0, <2>1, <2>2, <2>3 DEF SettledInv, Settled
  <1>12. CASE Close
    BY <1>12 DEF Close, SettledInv
  <1>13. CASE EventsClosed \/ DiscordClosed \/ CoreClosed
    BY <1>13 DEF EventsClosed, DiscordClosed, CoreClosed, work, SettledInv, Settled, Alive, In
  <1>14. CASE StoreClosed \/ Interrupt
    BY <1>14 DEF StoreClosed, Interrupt, Teardown, SettledInv
  <1>15. CASE Exit \/ Watchdog \/ Crash
    BY <1>15 DEF Exit, Watchdog, Crash, Down, SettledInv
  <1>16. QED
    BY <1>1, <1>2, <1>3, <1>4, <1>5, <1>6, <1>7, <1>8, <1>9, <1>10, <1>11, <1>12, <1>13,
       <1>14, <1>15 DEF Next

\* So what it has waited for stays gone.
LEMMA SettledAlways == Spec => []SettledInv
  <1>1. Init => SettledInv
    BY DEF Init, SettledInv
  <1>2. TasksInv /\ SettledInv /\ [Next]_vars => SettledInv'
    BY NextSettled
  <1>3. QED
    BY <1>1, <1>2, TasksAlways, PTL DEF Spec

\* Whatever number of handlers and reflections there is, the store is closed on
\* none of them but those that outlast a grace or begin after core.close has
\* (app.py:1065-1091).
THEOREM CloseAlwaysWaits == Spec => CloseWaitsForWork
  <1>1. SettledInv /\ [Next]_vars
          => [open /\ ~open' /\ phase' # "down" => Living \subseteq resisted \cup unseen]_vars
    <2> SUFFICES ASSUME SettledInv, Next, open, ~open', phase' # "down"
                 PROVE  Living \subseteq resisted \cup unseen
      BY DEF vars
    <2>1. StoreClosed
      BY DEF Next, Refuse, Start, MigrationBegins, CarryOver, MigrationCommits, Opened,
             Acquire, Return, Gone, Sent, Obey, Resist, Message, SweepBegins, Maintain,
             Tick, Ready, Greeted, Forget, CalledBack, Close, EventsClosed, DiscordClosed,
             CoreClosed, Interrupt, Exit, Watchdog, Crash, Down, vars
    <2>2. Settled(Events) /\ Settled(Reflections \ unseen)
      BY <2>1 DEF StoreClosed, SettledInv
    <2>3. QED
      BY <2>2 DEF Settled, Living, Tasks, Background, Events
  <1>2. QED
    BY <1>1, SettledAlways, PTL DEF Spec, CloseWaitsForWork

-----------------------------------------------------------------------------
(* The database: what reading one more legacy row leaves true.             *)

\* A ceiling that a set may not exceed, with one element more and one less.
LEMMA OneMore ==
  ASSUME NEW S, IsFiniteSet(S), NEW x, x \notin S
  PROVE  /\ IsFiniteSet(S \cup {x}) /\ Cardinality(S \cup {x}) = Cardinality(S) + 1
         /\ Cardinality(S) \in Nat
         /\ \A y \in S \cup {x} :
              /\ IsFiniteSet((S \cup {x}) \ {y})
              /\ Cardinality((S \cup {x}) \ {y}) = Cardinality(S)
  <1>1. /\ IsFiniteSet(S \cup {x}) /\ Cardinality(S \cup {x}) = Cardinality(S) + 1
        /\ Cardinality(S) \in Nat
    BY FS_AddElement, FS_CardinalityType
  <1>2. ASSUME NEW y \in S \cup {x}
        PROVE  /\ IsFiniteSet((S \cup {x}) \ {y})
               /\ Cardinality((S \cup {x}) \ {y}) = Cardinality(S \cup {x}) - 1
    BY <1>1, FS_RemoveElement
  <1>3. QED
    BY <1>1, <1>2

\* The facts: a new one comes in, with or without another going.
LEMMA FactJoins ==
  ASSUME NEW old, NEW new, IsFiniteSet(new), FactsKept(old, new),
         \A f \in old : f.table = "facts",
         NEW r, r.table = "facts", r.text # "unsafe",
         ~\E f \in new : SameRecord(f, r),
         ~(FactsTotal > 0 /\ Cardinality(new) >= FactsTotal),
         NEW now,
         \/ /\ now = new \cup {r}
            /\ ~(FactsPerUser > 0 /\ Cardinality(FactsOf(now, r.user)) > FactsPerUser)
         \/ /\ FactsPerUser > 0 /\ Cardinality(FactsOf(new \cup {r}, r.user)) > FactsPerUser
            /\ \E f \in FactsOf(new \cup {r}, r.user) : now = (new \cup {r}) \ {f}
  PROVE  FactsKept(old \cup {r}, now) /\ IsFiniteSet(now)
  <1> DEFINE mine == {f \in new : f.user = r.user}
             all  == new \cup {r}
  <1>1. r \notin new
    BY DEF SameRecord
  <1>2. /\ new \subseteq {f \in old : f.text # "unsafe"}
        /\ \A f, g \in new : SameRecord(f, g) => f = g
        /\ Within(FactsTotal, new)
        /\ \A f \in old : Within(FactsPerUser, FactsOf(new, f.user))
        /\ \A f \in old :
             \/ f.text = "unsafe" \/ \E g \in new : SameRecord(f, g)
             \/ Reached(FactsTotal, new) \/ Reached(FactsPerUser, FactsOf(new, f.user))
    BY DEF FactsKept
  <1>3. \A u : FactsOf(new, u) = {f \in new : f.user = u}
    BY <1>2 DEF FactsOf, RowsOf
  <1>4. /\ FactsOf(all, r.user) = mine \cup {r} /\ FactsOf(new, r.user) = mine
        /\ \A u : u # r.user => FactsOf(all, u) = FactsOf(new, u)
    BY <1>2 DEF FactsOf, RowsOf
  <1>5. IsFiniteSet(mine) /\ r \notin mine
    BY <1>1, FS_Subset
  <1>6. /\ Cardinality(new) \in Nat /\ Cardinality(mine) \in Nat
        /\ IsFiniteSet(all) /\ Cardinality(all) = Cardinality(new) + 1
        /\ IsFiniteSet(mine \cup {r}) /\ Cardinality(mine \cup {r}) = Cardinality(mine) + 1
        /\ \A y \in all : IsFiniteSet(all \ {y}) /\ Cardinality(all \ {y}) = Cardinality(new)
        /\ \A y \in mine \cup {r} : Cardinality((mine \cup {r}) \ {y}) = Cardinality(mine)
    BY <1>1, <1>5, OneMore
  <1>7. FactsPerUser > 0 => Cardinality(mine) <= FactsPerUser
    <2>1. CASE \E f \in old : f.user = r.user
      BY <1>2, <1>4, <2>1 DEF Within
    <2>2. CASE ~\E f \in old : f.user = r.user
      <3>1. mine = {}
        BY <1>2, <2>2
      <3>2. Cardinality(mine) = 0
        BY <3>1, FS_EmptySet
      <3>3. QED
        BY <3>2, SchemaAssumption
    <2>3. QED
      BY <2>1, <2>2
  <1>8. /\ all \subseteq {f \in old \cup {r} : f.text # "unsafe"}
        /\ \A f, g \in all : SameRecord(f, g) => f = g
    BY <1>2 DEF SameRecord
  <1>9. FactsTotal > 0 => Cardinality(new) < FactsTotal
    BY <1>6, SchemaAssumption
  <1> HIDE DEF mine, all
  <1>10. CASE /\ now = all
              /\ ~(FactsPerUser > 0 /\ Cardinality(FactsOf(now, r.user)) > FactsPerUser)
    <2>1. Within(FactsTotal, now)
      BY <1>6, <1>9, <1>10, SchemaAssumption DEF Within
    <2>2. /\ FactsOf(now, r.user) = mine \cup {r}
          /\ FactsPerUser > 0 => Cardinality(mine) + 1 <= FactsPerUser
      <3>1. FactsOf(now, r.user) = mine \cup {r}
        BY <1>4, <1>10
      <3>2. ~(FactsPerUser > 0 /\ Cardinality(mine \cup {r}) > FactsPerUser)
        BY <1>10, <3>1
      <3>3. QED
        BY <1>6, <3>1, <3>2, SchemaAssumption
    <2>3. \A f \in old \cup {r} : Within(FactsPerUser, FactsOf(now, f.user))
      <3>1. Within(FactsPerUser, FactsOf(now, r.user))
        BY <1>6, <2>2 DEF Within
      <3>2. QED
        BY <1>2, <1>4, <1>10, <3>1
    <2>4. ~Reached(FactsTotal, new)
      BY <1>6, <1>9, SchemaAssumption DEF Reached
    <2>5. ~Reached(FactsPerUser, FactsOf(new, r.user))
      BY <1>4, <1>6, <2>2, SchemaAssumption DEF Reached
    <2>6. ASSUME NEW f \in old \cup {r}
          PROVE  \/ f.text = "unsafe" \/ \E g \in now : SameRecord(f, g)
                 \/ Reached(FactsPerUser, FactsOf(now, f.user))
      <3>1. CASE f = r
        BY <1>10, <3>1 DEF SameRecord, all
      <3>2. CASE f \in old /\ \E g \in new : SameRecord(f, g)
        BY <1>10, <3>2 DEF all
      <3>3. CASE f \in old /\ Reached(FactsPerUser, FactsOf(new, f.user))
        BY <1>4, <1>10, <2>5, <3>3
      <3>4. QED
        BY <1>2, <2>4, <3>1, <3>2, <3>3
    <2>7. QED
      BY <1>6, <1>8, <1>10, <2>1, <2>3, <2>6 DEF FactsKept
  <1>11. CASE /\ FactsPerUser > 0 /\ Cardinality(FactsOf(all, r.user)) > FactsPerUser
              /\ \E f \in FactsOf(all, r.user) : now = all \ {f}
    <2>1. PICK x \in mine \cup {r} : now = all \ {x}
      BY <1>4, <1>11
    <2>2. x \in all /\ x.user = r.user
      BY <2>1 DEF mine, all
    <2>3. IsFiniteSet(now) /\ Cardinality(now) = Cardinality(new)
      BY <1>6, <2>1, <2>2
    <2>4. FactsOf(now, r.user) = (mine \cup {r}) \ {x}
      <3>1. FactsOf(now, r.user) = FactsOf(all, r.user) \ {x}
        BY <2>1 DEF FactsOf, RowsOf
      <3>2. QED
        BY <1>4, <3>1
    <2>5. Cardinality(FactsOf(now, r.user)) = FactsPerUser
      <3>1. Cardinality(mine) + 1 > FactsPerUser /\ Cardinality(mine) <= FactsPerUser
        BY <1>4, <1>6, <1>7, <1>11
      <3>2. Cardinality(mine) = FactsPerUser
        BY <1>6, <3>1, SchemaAssumption
      <3>3. QED
        BY <1>6, <2>1, <2>4, <3>2
    <2>6. \A u : u # r.user => FactsOf(now, u) = FactsOf(new, u)
      <3>1. \A u : u # r.user => FactsOf(now, u) = FactsOf(all, u)
        BY <2>1, <2>2 DEF FactsOf, RowsOf
      <3>2. QED
        BY <1>4, <3>1
    <2>7. Reached(FactsPerUser, FactsOf(now, r.user)) /\ Within(FactsPerUser, FactsOf(now, r.user))
      BY <1>11, <2>5, SchemaAssumption DEF Reached, Within
    <2>8. /\ Within(FactsTotal, now)
          /\ Reached(FactsTotal, new) => Reached(FactsTotal, now)
      BY <1>2, <2>3 DEF Within, Reached
    <2>9. \A f \in old \cup {r} : Within(FactsPerUser, FactsOf(now, f.user))
      BY <1>2, <2>6, <2>7
    <2>10. ASSUME NEW f \in old \cup {r}
           PROVE  \/ f.text = "unsafe" \/ \E g \in now : SameRecord(f, g)
                  \/ Reached(FactsTotal, now) \/ Reached(FactsPerUser, FactsOf(now, f.user))
      <3>1. CASE f.user = r.user
        BY <2>7, <3>1
      <3>2. CASE f.user # r.user
        <4>1. f \in old
          BY <3>2
        <4>2. CASE \E g \in new : SameRecord(f, g)
          BY <2>1, <2>2, <3>2, <4>2 DEF SameRecord, all
        <4>3. CASE Reached(FactsPerUser, FactsOf(new, f.user))
          BY <2>6, <3>2, <4>3
        <4>4. QED
          BY <1>2, <2>8, <4>1, <4>2, <4>3
      <3>3. QED
        BY <3>1, <3>2
    <2>11. now \subseteq all
      BY <2>1
    <2>12. QED
      BY <1>8, <2>3, <2>8, <2>9, <2>10, <2>11 DEF FactsKept
  <1>12. QED
    BY <1>10, <1>11 DEF all

\* The facts: one is refused, or known already.
LEMMA FactStaysAway ==
  ASSUME NEW old, NEW new, IsFiniteSet(new), FactsKept(old, new), NEW r,
         \/ r.text = "unsafe" \/ \E f \in new : SameRecord(f, r)
         \/ FactsTotal > 0 /\ Cardinality(new) >= FactsTotal
  PROVE  FactsKept(old \cup {r}, new)
  <1>1. Cardinality(new) \in Nat
    BY FS_CardinalityType
  <1>2. /\ new \subseteq {f \in old : f.text # "unsafe"}
        /\ Within(FactsTotal, new)
        /\ \A f \in old : Within(FactsPerUser, FactsOf(new, f.user))
    BY DEF FactsKept
  <1>3. Within(FactsPerUser, FactsOf(new, r.user))
    <2>1. CASE \E f \in old : f.user = r.user
      BY <1>2, <2>1
    <2>2. CASE ~\E f \in old : f.user = r.user
      <3>1. FactsOf(new, r.user) = {}
        BY <1>2, <2>2 DEF FactsOf, RowsOf
      <3>2. QED
        BY <3>1, FS_EmptySet, SchemaAssumption DEF Within
    <2>3. QED
      BY <2>1, <2>2
  <1>4. \/ r.text = "unsafe" \/ \E g \in new : SameRecord(r, g)
        \/ Reached(FactsTotal, new)
    BY <1>1, <1>2, SchemaAssumption DEF Within, Reached, SameRecord
  <1>5. QED
    BY <1>2, <1>3, <1>4 DEF FactsKept

\* The relationships: the next one of a user, in the order of their ids.
LEMMA RelationshipJoins ==
  ASSUME NEW old, old \subseteq SocialRows, NEW new, new \subseteq SocialRows,
         RelationshipsKept(old, new),
         NEW r \in SocialRows, \A q \in old : q.id <= r.id,
         NEW texts,
         LET before == {q \in new : q.user = r.user}
         IN  texts = IF Says(r) THEN {r.text}
                     ELSE IF before # {} THEN {q.text : q \in before} ELSE {"omitted"},
         NEW now,
         now = (new \ {q \in new : q.user = r.user}) \cup {[r EXCEPT !.text = t] : t \in texts}
  PROVE  RelationshipsKept(old \cup {r}, now)
  <1> DEFINE before == {q \in new : q.user = r.user}
             K(t)   == [r EXCEPT !.text = t]
             says(k, rows) ==
               \/ k.text = "omitted" /\ \A q \in rows : q.user = k.user => ~Says(q)
               \/ \E p \in rows :
                    /\ p.user = k.user /\ Says(p) /\ k.text = p.text
                    /\ \A q \in rows : q.user = k.user /\ q.id > p.id => ~Says(q)
  <1>1. /\ \A p \in old : \E k \in new : k.user = p.user
        /\ \A k \in new :
             /\ \A j \in new : j.user = k.user => j = k
             /\ \E p \in old : k = [p EXCEPT !.text = k.text]
             /\ \A p \in old : p.user = k.user => p.id <= k.id
             /\ says(k, old)
    BY DEF RelationshipsKept
  <1>2. /\ \A p \in SocialRows : p.id \in Nat
        /\ \A t : K(t).user = r.user /\ K(t).id = r.id /\ K(t).text = t
    BY DEF SocialRows
  <1>3. \E t : texts = {t}
    <2>1. CASE Says(r)
      BY <2>1
    <2>2. CASE ~Says(r) /\ before = {}
      BY <2>2
    <2>3. CASE ~Says(r) /\ before # {}
      <3>1. PICK k \in before : before = {k}
        BY <1>1, <2>3
      <3>2. texts = {q.text : q \in before}
        BY <2>3
      <3>3. texts = {k.text}
        BY <3>1, <3>2
      <3>4. QED
        BY <3>3
    <2>4. QED
      BY <2>1, <2>2, <2>3
  <1>4. PICK t : texts = {t}
    BY <1>3
  <1>5. now = (new \ before) \cup {K(t)}
    BY <1>4
  <1>6. says(K(t), old \cup {r})
    <2>1. CASE Says(r)
      <3>1. K(t).text = r.text
        BY <1>2, <1>4, <2>1
      <3>2. \A q \in old \cup {r} : ~(q.id > r.id)
        BY <1>2
      <3>3. QED
        BY <1>2, <2>1, <3>1, <3>2
    <2>2. CASE ~Says(r) /\ before # {}
      <3>1. PICK k \in new : k.user = r.user /\ k.text = t
        BY <1>4, <2>2
      <3>2. CASE k.text = "omitted" /\ \A q \in old : q.user = k.user => ~Says(q)
        BY <1>2, <2>2, <3>1, <3>2
      <3>3. CASE \E p \in old :
                   /\ p.user = k.user /\ Says(p) /\ k.text = p.text
                   /\ \A q \in old : q.user = k.user /\ q.id > p.id => ~Says(q)
        <4>1. PICK p \in old :
                /\ p.user = k.user /\ Says(p) /\ k.text = p.text
                /\ \A q \in old : q.user = k.user /\ q.id > p.id => ~Says(q)
          BY <3>3
        <4>2. \A q \in old \cup {r} : q.user = K(t).user /\ q.id > p.id => ~Says(q)
          BY <1>2, <2>2, <3>1, <4>1
        <4>3. p.user = K(t).user /\ K(t).text = p.text
          BY <1>2, <3>1, <4>1
        <4>4. QED
          BY <4>1, <4>2, <4>3
      <3>4. QED
        BY <1>1, <3>1, <3>2, <3>3
    <2>3. CASE ~Says(r) /\ before = {}
      <3>1. t = "omitted"
        BY <1>4, <2>3
      <3>2. \A q \in old : q.user # r.user
        BY <1>1, <2>3
      <3>3. QED
        BY <1>2, <2>3, <3>1, <3>2
    <2>4. QED
      BY <2>1, <2>2, <2>3
  <1>7. /\ \A j \in now : j.user = K(t).user => j = K(t)
        /\ K(t) = [r EXCEPT !.text = K(t).text]
        /\ \A p \in old \cup {r} : p.user = K(t).user => p.id <= K(t).id
    BY <1>2, <1>5
  <1>8. ASSUME NEW k \in new, k.user # r.user
        PROVE  /\ \A j \in now : j.user = k.user => j = k
               /\ \E p \in old \cup {r} : k = [p EXCEPT !.text = k.text]
               /\ \A p \in old \cup {r} : p.user = k.user => p.id <= k.id
               /\ says(k, old \cup {r})
    <2>1. \A j \in now : j.user = k.user => j = k
      <3>1. ASSUME NEW j \in now, j.user = k.user PROVE j \in new
        BY <1>2, <1>5, <1>8, <3>1
      <3>2. QED
        BY <1>1, <3>1
    <2>2. /\ \E p \in old \cup {r} : k = [p EXCEPT !.text = k.text]
          /\ \A p \in old \cup {r} : p.user = k.user => p.id <= k.id
      BY <1>1, <1>8
    <2>3. says(k, old \cup {r})
      BY <1>1, <1>8
    <2>4. QED
      BY <2>1, <2>2, <2>3
  <1>9. ASSUME NEW p \in old \cup {r} PROVE \E k \in now : k.user = p.user
    <2>1. CASE p.user = r.user
      BY <1>2, <1>5, <2>1
    <2>2. CASE p.user # r.user
      <3>1. PICK k \in new : k.user = p.user
        BY <1>1, <2>2
      <3>2. QED
        BY <1>5, <2>2, <3>1
    <2>3. QED
      BY <2>1, <2>2
  <1>10. \A k \in now : k = K(t) \/ (k \in new /\ k.user # r.user)
    BY <1>5
  <1>11. ASSUME NEW k \in now
         PROVE  /\ \A j \in now : j.user = k.user => j = k
                /\ \E p \in old \cup {r} : k = [p EXCEPT !.text = k.text]
                /\ \A p \in old \cup {r} : p.user = k.user => p.id <= k.id
                /\ says(k, old \cup {r})
    <2>1. CASE k = K(t)
      <3>1. \E p \in old \cup {r} : k = [p EXCEPT !.text = k.text]
        BY <1>7, <2>1
      <3> HIDE DEF says, K
      <3>2. QED
        BY <1>6, <1>7, <2>1, <3>1
    <2>2. CASE k \in new /\ k.user # r.user
      BY <1>8, <2>2
    <2>3. QED
      BY <1>10, <2>1, <2>2
  <1>12. QED
    BY <1>9, <1>11 DEF RelationshipsKept

\* What the policy leaves of one row.
LEMMA SanitizedRow ==
  ASSUME NEW r \in SocialRows
  PROVE  /\ Sanitized({r}) \subseteq SocialRows
         /\ \A k \in Sanitized({r}) :
              k.text # "unsafe" /\ k.table = r.table /\ k.id = r.id /\ k.of = r.of
         /\ r.text # "unsafe" => r \in Sanitized({r})
         /\ r.table = "events" => \E k \in Sanitized({r}) : k.table = "events" /\ k.id = r.id
  <1> DEFINE k == [r EXCEPT !.text = "omitted"]
  <1>1. /\ k \in SocialRows /\ k.table = r.table /\ k.id = r.id /\ k.of = r.of
        /\ k.text = "omitted"
    BY DEF SocialRows
  <1>2. Sanitized({r}) = IF r.text # "unsafe" THEN {r}
                         ELSE IF r.table \in Placeholder THEN {k} ELSE {}
    BY DEF Sanitized
  <1> HIDE DEF k
  <1>3. QED
    BY <1>1, <1>2 DEF Placeholder

\* Row r comes after the rows old, and the new tables keep what they owe to those.
MayJoin(r, old, new) ==
  /\ old \subseteq SocialRows /\ new \subseteq SocialRows /\ r \in SocialRows
  /\ IsFiniteSet(RowsOf(new, "facts")) /\ Kept(old, new)
  /\ \A q \in old : q.table = r.table => q.id <= r.id

\* The tables have become now: they keep what they owe to r too.
RowJoined(r, old, new, now) ==
  /\ Kept(old \cup {r}, now) /\ now \subseteq SocialRows
  /\ IsFiniteSet(RowsOf(now, "facts"))
  /\ \A k \in now : k.of = r.of \/ \E p \in new : k.of = p.of

\* Another row is read, and what is owed to the rows read so far is still kept.
LEMMA RowJoins ==
  ASSUME NEW old, NEW new, NEW r, MayJoin(r, old, new), NEW now \in CarriedOver(new, r)
  PROVE  RowJoined(r, old, new, now)
  <1> SUFFICES /\ Kept(old \cup {r}, now) /\ now \subseteq SocialRows
               /\ IsFiniteSet(RowsOf(now, "facts"))
               /\ \A k \in now : k.of = r.of \/ \E p \in new : k.of = p.of
    BY DEF RowJoined
  <1> USE DEF MayJoin
  <1> DEFINE logs(rows) == {x \in rows : x.table \in {"events", "journal"}}
             both == old \cup {r}
  <1>0. /\ FactsKept(RowsOf(old, "facts"), RowsOf(new, "facts"))
        /\ RelationshipsKept(RowsOf(old, "relationships"), RowsOf(new, "relationships"))
        /\ LogsKept(logs(old), logs(new))
    BY DEF Kept
  <1>1. CASE r.table = "facts"
    <2>1. /\ RowsOf(both, "relationships") = RowsOf(old, "relationships")
          /\ logs(both) = logs(old)
          /\ RowsOf(both, "facts") = RowsOf(old, "facts") \cup {r}
      BY <1>1 DEF RowsOf
    <2>2. now \in Upserts(new, r)
      BY <1>1 DEF CarriedOver
    <2>3. CASE /\ now = new
               /\ \/ r.text = "unsafe"
                  \/ \E f \in RowsOf(new, "facts") : SameRecord(f, r)
                  \/ FactsTotal > 0 /\ Cardinality(RowsOf(new, "facts")) >= FactsTotal
      <3>1. FactsKept(RowsOf(old, "facts") \cup {r}, RowsOf(new, "facts"))
        BY <1>0, <2>3, FactStaysAway
      <3>2. QED
        BY <1>0, <2>1, <2>3, <3>1 DEF Kept
    <2>4. CASE /\ now \in Trims(new \cup {r}, r.user) /\ r.text # "unsafe"
               /\ ~\E f \in RowsOf(new, "facts") : SameRecord(f, r)
               /\ ~(FactsTotal > 0 /\ Cardinality(RowsOf(new, "facts")) >= FactsTotal)
      <3> DEFINE new1 == RowsOf(new, "facts")
                 now1 == RowsOf(now, "facts")
      <3>1. RowsOf(new \cup {r}, "facts") = new1 \cup {r}
        BY <1>1 DEF RowsOf
      <3>2. \A u : /\ FactsOf(new \cup {r}, u) = FactsOf(new1 \cup {r}, u)
                   /\ FactsOf(now, u) = FactsOf(now1, u)
        BY <1>1 DEF FactsOf, RowsOf
      <3>3. \/ /\ now = new \cup {r}
               /\ ~(FactsPerUser > 0 /\ Cardinality(FactsOf(new \cup {r}, r.user)) > FactsPerUser)
            \/ /\ FactsPerUser > 0 /\ Cardinality(FactsOf(new \cup {r}, r.user)) > FactsPerUser
               /\ \E f \in FactsOf(new \cup {r}, r.user) : now = (new \cup {r}) \ {f}
        BY <2>4 DEF Trims
      <3>4. \/ /\ now1 = new1 \cup {r}
               /\ ~(FactsPerUser > 0 /\ Cardinality(FactsOf(now1, r.user)) > FactsPerUser)
            \/ /\ FactsPerUser > 0 /\ Cardinality(FactsOf(new1 \cup {r}, r.user)) > FactsPerUser
               /\ \E f \in FactsOf(new1 \cup {r}, r.user) : now1 = (new1 \cup {r}) \ {f}
        <4>1. CASE /\ now = new \cup {r}
                   /\ ~(FactsPerUser > 0
                          /\ Cardinality(FactsOf(new \cup {r}, r.user)) > FactsPerUser)
          BY <3>1, <3>2, <4>1
        <4>2. CASE /\ FactsPerUser > 0 /\ Cardinality(FactsOf(new \cup {r}, r.user)) > FactsPerUser
                   /\ \E f \in FactsOf(new \cup {r}, r.user) : now = (new \cup {r}) \ {f}
          <5>1. PICK f \in FactsOf(new \cup {r}, r.user) : now = (new \cup {r}) \ {f}
            BY <4>2
          <5>2. now1 = RowsOf(new \cup {r}, "facts") \ {f}
            BY <5>1 DEF RowsOf
          <5>3. QED
            BY <3>1, <3>2, <4>2, <5>1, <5>2
        <4>3. QED
          BY <3>3, <4>1, <4>2
      <3>5. \A f \in RowsOf(old, "facts") : f.table = "facts"
        BY DEF RowsOf
      <3> HIDE DEF new1, now1
      <3>6. FactsKept(RowsOf(old, "facts") \cup {r}, now1) /\ IsFiniteSet(now1)
        BY <1>0, <1>1, <2>4, <3>4, <3>5, FactJoins DEF new1
      <3>7. \E f : f.table = "facts" /\ (now = new \cup {r} \/ now = (new \cup {r}) \ {f})
        BY <1>1, <3>3 DEF FactsOf, RowsOf
      <3>8. /\ RowsOf(now, "relationships") = RowsOf(new, "relationships")
            /\ logs(now) = logs(new) /\ now \subseteq new \cup {r}
        BY <1>1, <3>7 DEF RowsOf
      <3>9. QED
        BY <1>0, <2>1, <3>6, <3>8 DEF Kept, now1
    <2>5. QED
      BY <2>2, <2>3, <2>4 DEF Upserts
  <1>2. CASE r.table = "relationships"
    <2> DEFINE before == {q \in RowsOf(new, "relationships") : q.user = r.user}
               texts  == IF Says(r) THEN {r.text}
                         ELSE IF before # {} THEN {q.text : q \in before} ELSE {"omitted"}
               more   == {[r EXCEPT !.text = t] : t \in texts}
    <2>1. /\ RowsOf(both, "facts") = RowsOf(old, "facts")
          /\ logs(both) = logs(old)
          /\ RowsOf(both, "relationships") = RowsOf(old, "relationships") \cup {r}
      BY <1>2 DEF RowsOf
    <2>2. now = (new \ before) \cup more
      BY <1>2 DEF CarriedOver, Combined
    <2>3. texts \subseteq {"clean", "unsafe", "wordy", "omitted"}
      BY DEF RowsOf, SocialRows
    <2>4. \A k \in more : k \in SocialRows /\ k.table = "relationships" /\ k.of = r.of
      <3>1. ASSUME NEW t \in texts
            PROVE  LET k == [r EXCEPT !.text = t]
                   IN  k \in SocialRows /\ k.table = "relationships" /\ k.of = r.of
        <4>1. t \in {"clean", "unsafe", "wordy", "omitted"}
          BY <2>3, <3>1
        <4> HIDE DEF texts
        <4>2. QED
          BY <1>2, <4>1 DEF SocialRows
      <3>2. QED
        BY <3>1
    <2>5. \A q \in before : q.table = "relationships"
      BY DEF RowsOf
    <2>6. RelationshipsKept(RowsOf(old, "relationships") \cup {r},
                            (RowsOf(new, "relationships") \ before) \cup more)
      <3>1. /\ RowsOf(old, "relationships") \subseteq SocialRows
            /\ RowsOf(new, "relationships") \subseteq SocialRows
            /\ \A q \in RowsOf(old, "relationships") : q.id <= r.id
        BY <1>2 DEF RowsOf
      <3>2. QED
        BY <1>0, <3>1, RelationshipJoins
    <2> HIDE DEF before, texts, more
    <2>7. /\ RowsOf(now, "facts") = RowsOf(new, "facts") /\ logs(now) = logs(new)
          /\ RowsOf(now, "relationships") = (RowsOf(new, "relationships") \ before) \cup more
      BY <2>2, <2>4, <2>5 DEF RowsOf
    <2>8. QED
      BY <1>0, <2>1, <2>2, <2>4, <2>6, <2>7 DEF Kept
  <1>3. CASE r.table \in {"events", "journal"}
    <2>1. now = new \cup Sanitized({r})
      BY <1>3 DEF CarriedOver
    <2>2. /\ RowsOf(both, "facts") = RowsOf(old, "facts")
          /\ RowsOf(both, "relationships") = RowsOf(old, "relationships")
          /\ logs(both) = logs(old) \cup {r}
      BY <1>3 DEF RowsOf
    <2>3. /\ RowsOf(now, "facts") = RowsOf(new, "facts")
          /\ RowsOf(now, "relationships") = RowsOf(new, "relationships")
          /\ logs(now) = logs(new) \cup Sanitized({r})
      BY <1>3, <2>1, SanitizedRow DEF RowsOf
    <2>4. LogsKept(logs(old) \cup {r}, logs(new) \cup Sanitized({r}))
      <3>1. /\ {x \in logs(old) : x.text # "unsafe"} \subseteq logs(new)
            /\ \A x \in logs(old) :
                 x.table = "events" => \E k \in logs(new) : k.table = "events" /\ k.id = x.id
            /\ \A k \in logs(new) :
                 /\ k.text # "unsafe"
                 /\ \E x \in logs(old) : x.table = k.table /\ x.id = k.id /\ x.of = k.of
        BY <1>0 DEF LogsKept
      <3> HIDE DEF logs
      <3>2. /\ \A k \in Sanitized({r}) :
                  k.text # "unsafe" /\ k.table = r.table /\ k.id = r.id /\ k.of = r.of
            /\ r.text # "unsafe" => r \in Sanitized({r})
            /\ r.table = "events"
                 => \E k \in Sanitized({r}) : k.table = "events" /\ k.id = r.id
        BY SanitizedRow
      <3> DEFINE from == logs(old) \cup {r}
                 to   == logs(new) \cup Sanitized({r})
      <3>3. {x \in from : x.text # "unsafe"} \subseteq to
        BY <3>1, <3>2
      <3>4. \A x \in from :
              x.table = "events" => \E k \in to : k.table = "events" /\ k.id = x.id
        BY <3>1, <3>2
      <3>5. \A k \in to :
              k.text # "unsafe" /\ \E x \in from : x.table = k.table /\ x.id = k.id /\ x.of = k.of
        BY <3>1, <3>2
      <3>6. QED
        BY <3>3, <3>4, <3>5 DEF LogsKept
    <2>5. QED
      BY <1>0, <2>1, <2>2, <2>3, <2>4, SanitizedRow DEF Kept
  <1>4. QED
    BY <1>1, <1>2, <1>3 DEF SocialRows, Tables

-----------------------------------------------------------------------------
(* The database: the two transactions.                                     *)

DatabaseInv ==
  /\ db \in Database
  /\ setting \in Identities \cup {NoIdentity}
  /\ VersionSevenIsClean

\* While the migration is under way, what is owed to the rows it has read is kept
\* in its new tables.
MovedInv ==
  /\ phase \in {"opening", "migrating"} /\ db.legacy => Selection(db, setting) # {}
  /\ left \subseteq Own /\ moved \subseteq SocialRows
  /\ phase # "migrating" => left = {} /\ moved = {}
  /\ phase = "migrating" =>
       /\ db.legacy
       /\ \A r \in Own \ left, q \in left : r.table = q.table => r.id <= q.id
       /\ Kept(Own \ left, moved) /\ IsFiniteSet(RowsOf(moved, "facts"))
       /\ \A k \in moved : k.of \in Selection(db, setting)

\* The policy replaces or drops rows.
LEMMA SanitizedRows ==
  ASSUME NEW rows, rows \subseteq SocialRows
  PROVE  Sanitized(rows) \subseteq SocialRows /\ \A r \in Sanitized(rows) : r.text # "unsafe"
  BY DEF Sanitized, SocialRows

\* The steps that change the database, and what they make of it.
LEMMA DatabaseSteps ==
  ASSUME [Next]_vars
  PROVE  \/ UNCHANGED db
         \/ phase = "migrating" /\ left = {} /\ db' = Migrated(db, moved)
         \/ ~db.legacy /\ db.version < 7 /\ db' = Quarantined(db)
  BY DEF Next, Refuse, Start, MigrationBegins, CarryOver, MigrationCommits, Opened, Acquire,
         Return, Gone, Sent, Obey, Resist, Message, SweepBegins, Maintain, Tick, Ready, Greeted,
         Forget, CalledBack, Close, EventsClosed, DiscordClosed, CoreClosed, StoreClosed,
         Teardown, Interrupt, Exit, Watchdog, Crash, Down, vars, store

\* All but a few leave alone what the migration works on.
LEMMA MovedSteps ==
  ASSUME [Next]_vars
  PROVE  \/ /\ UNCHANGED <<db, left, moved, setting>>
            /\ phase' = phase \/ {phase, phase'} \cap {"opening", "migrating"} = {}
         \/ Start \/ MigrationBegins \/ CarryOver \/ MigrationCommits \/ Opened \/ Down
  BY DEF Next, Refuse, Acquire, Return, Gone, Sent, Obey, Resist, Message, SweepBegins,
         Maintain, Tick, Ready, Greeted, Forget, CalledBack, Close, EventsClosed, DiscordClosed,
         CoreClosed, StoreClosed, Teardown, Interrupt, Steps, Exit, Watchdog, Crash, vars, store

\* Nothing is owed to no rows.
LEMMA KeptAtFirst == Kept({}, {}) /\ IsFiniteSet(RowsOf({}, "facts"))
  <1>1. /\ RowsOf({}, "facts") = {} /\ RowsOf({}, "relationships") = {}
        /\ {r \in {} : r.table \in {"events", "journal"}} = {}
    BY DEF RowsOf
  <1>2. FactsKept({}, {})
    BY FS_EmptySet, SchemaAssumption DEF FactsKept, Within
  <1>3. RelationshipsKept({}, {}) /\ LogsKept({}, {})
    BY DEF RelationshipsKept, LogsKept
  <1>4. QED
    BY <1>1, <1>2, <1>3, FS_EmptySet DEF Kept

\* The migration keeps what it owes, row by row.
LEMMA NextMoved ==
  ASSUME DatabaseInv, MovedInv, [Next]_vars
  PROVE  MovedInv'
  <1>1. CASE /\ UNCHANGED <<db, left, moved, setting>>
             /\ phase' = phase \/ {phase, phase'} \cap {"opening", "migrating"} = {}
    BY <1>1 DEF MovedInv, Own
  <1>2. CASE Start
    <2>1. /\ phase = "down" /\ phase' = "opening" /\ UNCHANGED <<db, left, moved>>
          /\ db.legacy => Selection(db, setting') # {}
      BY <1>2 DEF Start, Acceptable, store
    <2>2. QED
      BY <2>1 DEF MovedInv
  <1>3. CASE MigrationBegins
    <2>1. /\ phase = "opening" /\ phase' = "migrating" /\ db.legacy
          /\ left' = Own /\ moved' = {} /\ UNCHANGED <<db, setting>>
      BY <1>3 DEF MigrationBegins
    <2>2. Own' = Own /\ Own' \ left' = {}
      BY <2>1 DEF Own
    <2>3. Kept(Own \ left, moved)' /\ IsFiniteSet(RowsOf(moved, "facts"))'
      BY <2>1, <2>2, KeptAtFirst
    <2>4. QED
      BY <2>1, <2>2, <2>3 DEF MovedInv
  <1>4. CASE CarryOver
    <2>1. PICK r \in First(left) : left' = left \ {r} /\ moved' \in CarriedOver(moved, r)
      BY <1>4 DEF CarryOver
    <2>2. phase = "migrating" /\ UNCHANGED <<phase, db, setting>>
      BY <1>4 DEF CarryOver
    <2> DEFINE old == Own \ left
    <2>3. /\ r \in left /\ \A q \in left : q.table = r.table => r.id <= q.id
          /\ left \subseteq Own /\ Own \subseteq SocialRows
          /\ r.of \in Selection(db, setting)
      BY <2>1 DEF First, MovedInv, Own, DatabaseInv, Database
    <2>4. /\ \A p \in old : p.table = r.table => p.id <= r.id
          /\ old \subseteq SocialRows /\ r \in SocialRows
          /\ Own' = Own /\ Own' \ left' = old \cup {r}
      BY <2>1, <2>2, <2>3 DEF MovedInv, Own
    <2>5. /\ Kept(old \cup {r}, moved') /\ moved' \subseteq SocialRows
          /\ IsFiniteSet(RowsOf(moved', "facts"))
          /\ \A k \in moved' : k.of = r.of \/ \E p \in moved : k.of = p.of
      <3>1. /\ Kept(old, moved) /\ moved \subseteq SocialRows
            /\ IsFiniteSet(RowsOf(moved, "facts"))
        BY <2>2 DEF MovedInv
      <3>2. moved' \in CarriedOver(moved, r)
        BY <2>1
      <3> HIDE DEF old
      <3>3. MayJoin(r, old, moved)
        BY <2>4, <3>1 DEF MayJoin
      <3>4. RowJoined(r, old, moved, moved')
        BY <3>2, <3>3, RowJoins
      <3>5. QED
        BY <3>4 DEF RowJoined
    <2>6. \A p \in old \cup {r}, q \in left' : p.table = q.table => p.id <= q.id
      BY <2>1, <2>2, <2>3 DEF MovedInv
    <2>7. \A k \in moved' : k.of \in Selection(db, setting)
      BY <2>2, <2>3, <2>5 DEF MovedInv
    <2>8. Kept(Own \ left, moved)'
      BY <2>4, <2>5
    <2>9. left' \subseteq Own' /\ Selection(db', setting') = Selection(db, setting)
      BY <2>1, <2>2, <2>3, <2>4
    <2> HIDE DEF old
    <2>10. QED
      BY <2>2, <2>4, <2>5, <2>6, <2>7, <2>8, <2>9 DEF MovedInv
  <1>5. CASE MigrationCommits
    <2>1. db' = [db EXCEPT !.version = 5, !.legacy = FALSE, !.rows = moved]
      BY <1>5 DEF MigrationCommits, Migrated
    <2>2. ~db'.legacy
      BY <2>1 DEF DatabaseInv, Database
    <2>3. phase' = "opening" /\ left' = {} /\ moved' = {}
      BY <1>5 DEF MigrationCommits
    <2>4. QED
      BY <2>2, <2>3 DEF MovedInv
  <1>6. CASE Opened
    <2>1. phase = "opening" /\ phase' = "running" /\ UNCHANGED <<left, moved>>
      BY <1>6 DEF Opened
    <2>2. QED
      BY <2>1 DEF MovedInv
  <1>7. CASE Down
    BY <1>7 DEF Down, MovedInv
  <1>8. QED
    BY <1>1, <1>2, <1>3, <1>4, <1>5, <1>6, <1>7, MovedSteps

\* The first transaction: a database of version 5 with the new tables.
LEMMA MigratedDatabase ==
  ASSUME db \in Database, NEW rows, rows \subseteq SocialRows
  PROVE  /\ Migrated(db, rows) \in Database
         /\ Migrated(db, rows).version = 5 /\ ~Migrated(db, rows).legacy
         /\ Migrated(db, rows).seq = db.seq /\ Migrated(db, rows).rows = rows
  BY DEF Migrated, Database

\* The second transaction: a clean database.
LEMMA QuarantinedDatabase ==
  ASSUME db \in Database, ~db.legacy
  PROVE  Quarantined(db) \in Database /\ Clean(Quarantined(db))
  <1> DEFINE now(r) == IF r.text = "wordy" THEN [r EXCEPT !.text = "clean"] ELSE r
             rows == {now(r) : r \in Sanitized(db.rows)}
  <1>1. \A r \in Sanitized(db.rows) : r \in SocialRows /\ r.text # "unsafe"
    BY SanitizedRows DEF Database
  <1>2. \A r \in Sanitized(db.rows) :
          now(r) \in SocialRows /\ now(r).text \in {"clean", "omitted"}
    BY <1>1 DEF SocialRows
  <1>3. rows \subseteq SocialRows /\ \A r \in rows : r.text \in {"clean", "omitted"}
    BY <1>2
  <1>4. Quarantined(db) = [db EXCEPT !.version = 7, !.rows = rows]
    BY DEF Quarantined
  <1> HIDE DEF rows
  <1>5. [db EXCEPT !.version = 7, !.rows = rows] \in Database
    BY <1>3 DEF Database
  <1>6. /\ [db EXCEPT !.version = 7, !.rows = rows].rows = rows
        /\ ~[db EXCEPT !.version = 7, !.rows = rows].legacy
    BY DEF Database
  <1>7. QED
    BY <1>3, <1>4, <1>5, <1>6 DEF Clean

\* The database is one all the time, and clean when it says version 7.
LEMMA DatabaseAlways == Spec => [](DatabaseInv /\ MovedInv)
  <1>1. Init => DatabaseInv /\ MovedInv
    BY DatabasesAssumption DEF Init, DatabaseInv, VersionSevenIsClean, MovedInv
  <1>2. ASSUME DatabaseInv, MovedInv, [Next]_vars PROVE DatabaseInv' /\ MovedInv'
    <2>1. setting' \in Identities \cup {NoIdentity}
      BY <1>2 DEF DatabaseInv, Next, Refuse, Start, MigrationBegins, CarryOver,
                  MigrationCommits, Opened, Acquire, Return, Gone, Sent, Obey, Resist, Message,
                  SweepBegins, Maintain, Tick, Ready, Greeted, Forget, CalledBack, Close,
                  EventsClosed, DiscordClosed, CoreClosed, StoreClosed, Teardown, Interrupt,
                  Exit, Watchdog, Crash, Down, vars
    <2>2. db' \in Database /\ (db'.version = 7 => Clean(db'))
      <3>1. CASE UNCHANGED db
        BY <1>2, <3>1 DEF DatabaseInv, VersionSevenIsClean
      <3>2. CASE db' = Migrated(db, moved)
        <4>1. db' \in Database /\ db'.version = 5
          BY <1>2, <3>2, MigratedDatabase DEF DatabaseInv, MovedInv
        <4>2. QED
          BY <4>1
      <3>3. CASE ~db.legacy /\ db' = Quarantined(db)
        BY <1>2, <3>3, QuarantinedDatabase DEF DatabaseInv
      <3>4. QED
        BY <1>2, <3>1, <3>2, <3>3, DatabaseSteps
    <2>3. QED
      BY <1>2, <2>1, <2>2, NextMoved DEF DatabaseInv, VersionSevenIsClean
  <1>3. QED
    BY <1>1, <1>2, PTL DEF Spec

\* Of whatever version and identities a database is, once it says 7 it holds
\* nothing that the policy refuses (memory.py:732-735).
THEOREM VersionSevenAlwaysClean == Spec => []VersionSevenIsClean
  <1>1. DatabaseInv => VersionSevenIsClean
    BY DEF DatabaseInv
  <1>2. QED
    BY <1>1, DatabaseAlways, PTL

\* For any number of identities, users, rows and any ceilings, one identity is
\* carried over, with all that is owed to it, and no number of the others is given
\* out again (memory.py:955-1192).
THEOREM MigrationAlwaysKeepsOne == Spec => MigrationKeepsOneIdentity
  <1>1. ASSUME DatabaseInv, MovedInv, [Next]_vars PROVE OneIdentityKept
    <2> SUFFICES ASSUME db.legacy, db' # db PROVE OneIdentityKept
      BY DEF OneIdentityKept
    <2>1. phase = "migrating" /\ left = {} /\ db' = Migrated(db, moved)
      BY <1>1, DatabaseSteps
    <2>2. /\ ~db'.legacy /\ db'.seq = db.seq /\ db'.rows = moved
      BY <1>1, <2>1, MigratedDatabase DEF DatabaseInv, MovedInv
    <2>3. \A t \in Numbered : db'.seq[t] >= db.seq[t]
      BY <1>1, <2>2 DEF DatabaseInv, Database
    <2>4. db.rows \subseteq SocialRows
      BY <1>1 DEF DatabaseInv, Database
    <2>5. /\ Selection(db, setting) # {} /\ Kept(Own, db'.rows)
          /\ \A k \in db'.rows : k.of \in Selection(db, setting)
      <3>1. Own \ left = Own
        BY <2>1
      <3>2. QED
        BY <1>1, <2>1, <2>2, <3>1 DEF MovedInv
    <2>6. CASE db.rows = {}
      <3>1. Own = {}
        BY <2>6 DEF Own
      <3>2. \A k \in db'.rows : k.table \in Tables
        BY <1>1, <2>2 DEF MovedInv, SocialRows
      <3>3. db'.rows = {}
        BY <2>5, <3>1, <3>2
           DEF Kept, FactsKept, RelationshipsKept, LogsKept, RowsOf, Tables
      <3>4. QED
        BY <2>2, <2>3, <2>6, <3>3 DEF OneIdentityKept
    <2>7. CASE db.rows # {}
      <3>1. IdentitiesOf(db) # {} /\ IdentitiesOf(db) \subseteq Identities
        BY <2>4, <2>7 DEF IdentitiesOf, SocialRows
      <3>2. PICK identity : Selection(db, setting) = {identity}
        BY <2>5, <3>1 DEF Selection
      <3>3. \/ identity = setting /\ setting \in IdentitiesOf(db)
            \/ setting = NoIdentity /\ IdentitiesOf(db) = {identity}
        BY <3>1, <3>2 DEF Selection
      <3>4. Own = {r \in db.rows : r.of = identity}
        BY <3>2 DEF Own
      <3>5. identity \in Identities /\ {r \in db.rows : r.of = identity} # {}
        BY <3>1, <3>3 DEF IdentitiesOf
      <3>6. setting \in {identity, NoIdentity}
        BY <3>3
      <3>7. setting = NoIdentity => \A r \in db.rows : r.of = identity
        BY <3>1, <3>3, SchemaAssumption DEF IdentitiesOf
      <3>8. /\ \A r \in db'.rows : r.of = identity
            /\ Kept({r \in db.rows : r.of = identity}, db'.rows)
        BY <2>5, <3>2, <3>4
      <3>9. QED
        BY <2>2, <2>3, <3>5, <3>6, <3>7, <3>8 DEF OneIdentityKept
    <2>8. QED
      BY <2>6, <2>7
  <1>2. QED
    BY <1>1, DatabaseAlways, PTL DEF Spec, MigrationKeepsOneIdentity

-----------------------------------------------------------------------------
(* The rate limiter.                                                       *)

Ages == 0..(OldestPeriod + 1)

\* The oldest event comes first.
Falling(ages) == \A i, j \in DOMAIN ages : i < j => ages[i] >= ages[j]

\* A window as check leaves it.
WindowType(window) == window \in Seq(Ages) /\ Falling(window) /\ Len(window) <= Limit

Entries == [key : Users, window : Seq(Ages)]

\* A table has one entry for a key, and no more of them than it may.
IsTable(T) ==
  /\ T \in Seq(Entries) /\ Len(T) <= MaxKeys
  /\ \A i \in DOMAIN T : WindowType(T[i].window)
  /\ \A i, j \in DOMAIN T : T[i].key = T[j].key => i = j

\* What a user has been allowed within the period is what the limiter sees of it.
ServedInv ==
  /\ IsTable(table)
  /\ served = [u \in Users |-> Window(table, u)]

\* popleft takes away the events that are too old and no others.
LEMMA YoungSuffix ==
  ASSUME NEW w \in Seq(Nat), Falling(w)
  PROVE  \E n \in 0..Len(w) :
           /\ \A i \in 1..n : w[i] >= Period
           /\ \A i \in (n + 1)..Len(w) : w[i] < Period
           /\ Young(w) = SubSeq(w, n + 1, Len(w))
  <1> DEFINE P(n) == /\ \A i \in 1..n : w[i] >= Period
                     /\ n < Len(w) => w[n + 1] < Period
             recent == {i \in 1..Len(w) : w[i] < Period}
  <1>0. Len(w) \in Nat /\ DOMAIN w = 1..Len(w) /\ Period \in Nat /\ \A i \in 1..Len(w) : w[i] \in Nat
    BY LimiterAssumption
  <1>1. \E n \in 0..Len(w) : P(n)
    <2>1. CASE recent = {}
      <3>1. P(Len(w)) /\ Len(w) \in 0..Len(w)
        BY <1>0, <2>1
      <3>2. QED
        BY <3>1
    <2>2. CASE recent # {}
      <3>1. PICK m \in recent : \A i \in recent : ~(i < m)
        <4>1. recent \subseteq Nat
          BY <1>0
        <4> HIDE DEF recent
        <4>2. IsWellFoundedOn(OpToRel(<, Nat), Nat)
          BY NatLessThanWellFounded
        <4>3. \E x \in recent : \A y \in recent : ~(<<y, x>> \in OpToRel(<, Nat))
          BY <2>2, <4>1, <4>2, WFMin
        <4>4. QED
          BY <4>1, <4>3 DEF OpToRel
      <3>2. m - 1 \in 0..Len(w) /\ P(m - 1)
        BY <1>0, <3>1
      <3>3. QED
        BY <3>2
    <2>3. QED
      BY <2>1, <2>2
  <1>2. PICK n \in 0..Len(w) : P(n) /\ Young(w) = SubSeq(w, n + 1, Len(w))
    BY <1>1 DEF Young
  <1>3. \A i \in (n + 1)..Len(w) : w[i] < Period
    <2> SUFFICES ASSUME NEW i \in (n + 1)..Len(w) PROVE w[i] < Period
      OBVIOUS
    <2>1. n + 1 \in 1..Len(w) /\ i \in 1..Len(w) /\ w[n + 1] < Period
      BY <1>0, <1>2
    <2>2. n + 1 = i \/ w[n + 1] >= w[i]
      BY <1>0, <2>1 DEF Falling
    <2>3. QED
      BY <1>0, <2>1, <2>2
  <1>4. QED
    BY <1>2, <1>3

\* Cutting a falling sequence between what is too old and what is not yields
\* what popleft leaves.
LEMMA YoungIs ==
  ASSUME NEW w \in Seq(Nat), Falling(w), NEW n \in 0..Len(w),
         \A i \in 1..n : w[i] >= Period,
         n < Len(w) => w[n + 1] < Period
  PROVE  Young(w) = SubSeq(w, n + 1, Len(w))
  <1>1. PICK m \in 0..Len(w) :
          /\ \A i \in 1..m : w[i] >= Period
          /\ \A i \in (m + 1)..Len(w) : w[i] < Period
          /\ Young(w) = SubSeq(w, m + 1, Len(w))
    BY YoungSuffix
  <1>2. Len(w) \in Nat /\ Period \in Nat /\ \A i \in 1..Len(w) : w[i] \in Nat
    BY LimiterAssumption
  <1>3. CASE m < n
    <2>1. m + 1 \in 1..n /\ m + 1 \in (m + 1)..Len(w) /\ w[m + 1] \in Nat
      BY <1>2, <1>3
    <2>2. w[m + 1] >= Period
      BY <2>1
    <2>3. w[m + 1] < Period
      BY <1>1, <2>1
    <2>4. QED
      BY <1>2, <2>1, <2>2, <2>3
  <1>4. CASE n < m
    <2>1. n + 1 \in 1..m /\ n < Len(w) /\ n + 1 \in 1..Len(w)
      BY <1>2, <1>4
    <2>2. QED
      BY <1>1, <1>2, <2>1
  <1>5. CASE n = m
    BY <1>1, <1>5
  <1>6. QED
    BY <1>2, <1>3, <1>4, <1>5

\* What popleft leaves is young, still falling, and no longer than it was.
LEMMA YoungType ==
  ASSUME NEW S, S \subseteq Nat, NEW w \in Seq(S), Falling(w)
  PROVE  /\ Young(w) \in Seq(S) /\ Falling(Young(w)) /\ Len(Young(w)) <= Len(w)
         /\ \A i \in DOMAIN Young(w) : Young(w)[i] < Period
  <1>0. w \in Seq(Nat)
    BY SeqMonotonic
  <1>1. PICK n \in 0..Len(w) :
          /\ \A i \in (n + 1)..Len(w) : w[i] < Period
          /\ Young(w) = SubSeq(w, n + 1, Len(w))
    BY <1>0, YoungSuffix
  <1>2. /\ Young(w) \in Seq(S) /\ Len(Young(w)) = Len(w) - n
        /\ DOMAIN Young(w) = 1..(Len(w) - n)
        /\ \A i \in 1..(Len(w) - n) : Young(w)[i] = w[n + i]
    BY <1>1, Suffix
  <1>3. Len(w) \in Nat /\ DOMAIN w = 1..Len(w)
    OBVIOUS
  <1>4. \A i \in 1..(Len(w) - n) : n + i \in (n + 1)..Len(w) /\ n + i \in DOMAIN w
    BY <1>3
  <1>5. Falling(Young(w))
    <2> DEFINE v == Young(w)
    <2>1. v \in Seq(S) /\ DOMAIN v = 1..(Len(w) - n) /\ \A i \in 1..(Len(w) - n) : v[i] = w[n + i]
      BY <1>2
    <2> HIDE DEF v
    <2> SUFFICES ASSUME NEW i \in DOMAIN v, NEW j \in DOMAIN v, i < j PROVE v[i] >= v[j]
      BY DEF Falling, v
    <2>2. n + i \in DOMAIN w /\ n + j \in DOMAIN w /\ n + i < n + j
      BY <1>3, <1>4, <2>1
    <2>3. w[n + i] >= w[n + j]
      BY <2>2 DEF Falling
    <2>4. QED
      BY <2>1, <2>3
  <1>6. Len(Young(w)) <= Len(w)
    BY <1>2, <1>3
  <1>7. \A i \in DOMAIN Young(w) : Young(w)[i] < Period
    BY <1>1, <1>2, <1>4
  <1>8. QED
    BY <1>2, <1>5, <1>6, <1>7

\* It takes nothing from a window in which everything is young.
LEMMA YoungStays ==
  ASSUME NEW w \in Seq(Nat), Falling(w), \A i \in DOMAIN w : w[i] < Period
  PROVE  Young(w) = w
  <1>1. 0 \in 0..Len(w) /\ (0 < Len(w) => w[0 + 1] < Period) /\ \A i \in 1..0 : w[i] >= Period
    OBVIOUS
  <1>2. Young(w) = SubSeq(w, 0 + 1, Len(w))
    BY <1>1, YoungIs
  <1>3. QED
    BY <1>2, SubSeqFull

\* What a window becomes in a tick, the limiter sees as what was allowed a tick
\* ago.
LEMMA AgedWindow ==
  ASSUME NEW w, WindowType(w)
  PROVE  LET v == [i \in DOMAIN w |-> Older(w[i])]
         IN  /\ WindowType(v)
             /\ Young(v) = Recent([i \in DOMAIN Young(w) |-> Young(w)[i] + 1])
  <1> DEFINE v == [i \in DOMAIN w |-> Older(w[i])]
             y == Young(w)
             o == [i \in DOMAIN y |-> y[i] + 1]
  <1>1. /\ w \in Seq(Ages) /\ w \in Seq(Nat) /\ Falling(w) /\ Len(w) <= Limit
        /\ Len(w) \in Nat /\ DOMAIN w = 1..Len(w)
        /\ \A i \in 1..Len(w) : w[i] \in Ages /\ w[i] \in Nat
    <2>1. Ages \subseteq Nat
      BY LimiterAssumption DEF Ages
    <2>2. w \in Seq(Ages) /\ w \in Seq(Nat) /\ Falling(w) /\ Len(w) <= Limit
      BY <2>1, SeqMonotonic DEF WindowType
    <2>3. QED
      BY <2>1, <2>2, LenProperties
  <1>2. PICK n \in 0..Len(w) :
          /\ \A i \in 1..n : w[i] >= Period
          /\ \A i \in (n + 1)..Len(w) : w[i] < Period
          /\ y = SubSeq(w, n + 1, Len(w))
    BY <1>1, YoungSuffix
  <1>4. Falling(y)
    BY <1>1, YoungType
  <1> HIDE DEF y
  <1>3. /\ y \in Seq(Nat) /\ Len(y) = Len(w) - n /\ DOMAIN y = 1..(Len(w) - n)
        /\ \A i \in 1..(Len(w) - n) : y[i] = w[n + i]
    <2>1. n \in 0..Len(w) /\ y = SubSeq(w, n + 1, Len(w))
      BY <1>2
    <2>2. w \in Seq(Nat)
      BY <1>1
    <2>3. QED
      BY <2>1, <2>2, Suffix
  <1>5. /\ o \in Seq(Nat) /\ Len(o) = Len(w) - n /\ DOMAIN o = 1..(Len(w) - n)
        /\ \A i \in 1..(Len(w) - n) : o[i] = w[n + i] + 1
    <2>1. Len(w) - n \in Nat
      BY <1>1
    <2>2. \A i \in 1..(Len(w) - n) : y[i] \in Nat
      BY <1>1, <1>3
    <2>3. o \in [1..(Len(w) - n) -> Nat]
      BY <1>3, <2>2
    <2>4. o \in Seq(Nat)
      BY <2>1, <2>3, SeqDef
    <2>5. QED
      BY <1>3, <2>1, <2>3, <2>4
  <1>6. Falling(o)
    <2> SUFFICES ASSUME NEW i \in DOMAIN o, NEW j \in DOMAIN o, i < j PROVE o[i] >= o[j]
      BY DEF Falling
    <2>1. o[i] = y[i] + 1 /\ o[j] = y[j] + 1 /\ y[i] \in Nat /\ y[j] \in Nat
      BY <1>3, <1>5
    <2>2. y[i] >= y[j]
      BY <1>3, <1>4, <1>5 DEF Falling
    <2>3. QED
      BY <2>1, <2>2
  <1>7. /\ v \in Seq(Ages) /\ v \in Seq(Nat) /\ Len(v) = Len(w) /\ DOMAIN v = 1..Len(w)
        /\ \A i \in 1..Len(w) : v[i] = Older(w[i])
    <2>1. \A a \in Ages : Older(a) \in Ages
      BY LimiterAssumption DEF Ages, Older
    <2>2. v \in [1..Len(w) -> Ages]
      BY <1>1, <2>1
    <2>3. v \in Seq(Ages)
      BY <1>1, <2>2, SeqDef
    <2>4. Ages \subseteq Nat
      BY LimiterAssumption DEF Ages
    <2>5. v \in Seq(Nat)
      BY <2>3, <2>4, SeqMonotonic
    <2>6. QED
      BY <1>1, <2>2, <2>3, <2>5
  <1> HIDE DEF y, o, v
  <1>8. Falling(v)
    <2>1. \A a, b \in Ages : a >= b => Older(a) >= Older(b)
      BY LimiterAssumption DEF Ages, Older
    <2>2. QED
      BY <1>1, <1>7, <2>1 DEF Falling
  <1>9. PICK m \in 0..Len(o) :
          /\ \A i \in 1..m : o[i] >= Period
          /\ \A i \in (m + 1)..Len(o) : o[i] < Period
    BY <1>5, <1>6, YoungSuffix
  <1>10. Recent(o) = SubSeq(o, m + 1, Len(o))
    <2>1. {i \in DOMAIN o : o[i] >= Period} = 1..m
      <3>1. Len(o) \in Nat /\ DOMAIN o = 1..Len(o) /\ Period \in Nat
        BY <1>5, LimiterAssumption
      <3>2. 1..m \subseteq DOMAIN o
        BY <1>9, <3>1
      <3>3. \A i \in DOMAIN o : i \in 1..m \/ i \in (m + 1)..Len(o)
        BY <1>9, <3>1
      <3>4. \A i \in DOMAIN o : o[i] \in Nat
        BY <1>5, <3>1
      <3>5. \A i \in DOMAIN o : o[i] >= Period <=> i \in 1..m
        BY <1>9, <3>1, <3>3, <3>4
      <3>6. QED
        BY <3>2, <3>5
    <2>2. m \in Nat /\ Cardinality(1..m) = m
      BY <1>1, <1>5, <1>9, FS_Interval
    <2>3. QED
      BY <2>1, <2>2 DEF Recent
  <1>11. n + m \in 0..Len(v) /\ n \in Nat /\ m \in Nat /\ Len(v) - (n + m) = Len(o) - m
    BY <1>1, <1>5, <1>7, <1>9
  <1>12. \A i \in 1..(Len(w) - n) : n + i \in 1..Len(w) /\ v[n + i] = o[i]
    <2> SUFFICES ASSUME NEW i \in 1..(Len(w) - n)
                 PROVE  n + i \in 1..Len(w) /\ v[n + i] = o[i]
      OBVIOUS
    <2>1. n + i \in (n + 1)..Len(w) /\ n + i \in 1..Len(w)
      BY <1>1
    <2>2. w[n + i] \in Nat /\ w[n + i] < Period
      BY <1>1, <1>2, <2>1
    <2>3. Older(w[n + i]) = w[n + i] + 1
      BY <2>2, LimiterAssumption DEF Older
    <2>4. QED
      BY <1>5, <1>7, <2>1, <2>3
  <1>13. \A i \in 1..(n + m) : v[i] >= Period
    <2> SUFFICES ASSUME NEW i \in 1..(n + m) PROVE v[i] >= Period
      OBVIOUS
    <2>1. CASE i <= n
      <3>1. i \in 1..n /\ i \in 1..Len(w)
        BY <1>1, <2>1
      <3>2. w[i] \in Nat /\ w[i] >= Period
        BY <1>1, <1>2, <3>1
      <3>3. Older(w[i]) >= Period
        BY <3>2, LimiterAssumption DEF Older
      <3>4. QED
        BY <1>7, <3>1, <3>3
    <2>2. CASE i > n
      <3>1. i - n \in 1..m /\ i - n \in 1..(Len(w) - n) /\ n + (i - n) = i
        BY <1>1, <1>5, <1>9, <1>11, <2>2
      <3>2. QED
        BY <1>9, <1>12, <3>1
    <2>3. QED
      BY <1>11, <2>1, <2>2
  <1>14. n + m < Len(v) => v[n + m + 1] < Period
    <2> SUFFICES ASSUME n + m < Len(v) PROVE v[n + m + 1] < Period
      OBVIOUS
    <2>1. m + 1 \in (m + 1)..Len(o) /\ m + 1 \in 1..(Len(w) - n) /\ n + (m + 1) = n + m + 1
      BY <1>1, <1>5, <1>7, <1>11
    <2>2. QED
      BY <1>9, <1>12, <2>1
  <1>15. Young(v) = SubSeq(v, n + m + 1, Len(v))
    BY <1>7, <1>8, <1>11, <1>13, <1>14, YoungIs
  <1>16. Young(v) = Recent(o)
    <2> DEFINE a == Young(v)
               b == Recent(o)
    <2>0. /\ a = SubSeq(v, (n + m) + 1, Len(v)) /\ b = SubSeq(o, m + 1, Len(o))
          /\ v \in Seq(Nat) /\ n + m \in 0..Len(v) /\ o \in Seq(Nat) /\ m \in 0..Len(o)
      BY <1>5, <1>7, <1>10, <1>11, <1>15
    <2> HIDE DEF a, b
    <2>1. /\ a \in Seq(Nat) /\ Len(a) = Len(v) - (n + m)
          /\ \A i \in 1..(Len(v) - (n + m)) : a[i] = v[(n + m) + i]
      BY <2>0, Suffix
    <2>2. /\ b \in Seq(Nat) /\ Len(b) = Len(o) - m
          /\ \A i \in 1..(Len(o) - m) : b[i] = o[m + i]
      BY <2>0, Suffix
    <2>3. \A i \in 1..(Len(o) - m) : v[n + m + i] = o[m + i]
      <3> SUFFICES ASSUME NEW i \in 1..(Len(o) - m) PROVE v[n + m + i] = o[m + i]
        OBVIOUS
      <3>1. m + i \in 1..(Len(w) - n) /\ n + (m + i) = n + m + i
        BY <1>1, <1>5, <1>11
      <3>2. QED
        BY <1>12, <3>1
    <2>4. a = b
      BY <1>11, <2>1, <2>2, <2>3, SeqEqual
    <2>5. QED
      BY <2>4 DEF a, b
  <1>17. QED
    BY <1>1, <1>7, <1>8, <1>16 DEF WindowType, v, y, o

\* What the limiter sees of a key is the young part of its one window.
LEMMA WindowIs ==
  ASSUME NEW T, IsTable(T), NEW i \in DOMAIN T
  PROVE  Known(T, T[i].key) /\ Window(T, T[i].key) = Young(T[i].window)
  BY DEF IsTable, Known, Place, Window

\* Some entries of a table, in whatever order, are a table, in which a key that
\* is left looks as it did.
LEMMA PartTable ==
  ASSUME NEW T, IsTable(T), NEW O \in Seq(Entries), Len(O) <= Len(T),
         NEW at \in [DOMAIN O -> DOMAIN T],
         \A i, j \in DOMAIN O : at[i] = at[j] => i = j,
         \A i \in DOMAIN O : O[i] = T[at[i]]
  PROVE  /\ IsTable(O)
         /\ \A key : Known(O, key) => Known(T, key) /\ Window(O, key) = Window(T, key)
  <1>1. IsTable(O)
    <2>1. Len(T) \in Nat /\ Len(O) \in Nat /\ MaxKeys \in Nat /\ Len(T) <= MaxKeys
      BY LimiterAssumption DEF IsTable
    <2>2. \A i \in DOMAIN O : WindowType(O[i].window)
      BY DEF IsTable
    <2>3. ASSUME NEW i \in DOMAIN O, NEW j \in DOMAIN O, O[i].key = O[j].key PROVE i = j
      <3>1. at[i] \in DOMAIN T /\ at[j] \in DOMAIN T /\ T[at[i]].key = T[at[j]].key
        BY <2>3
      <3>2. QED
        BY <3>1 DEF IsTable
    <2>4. QED
      BY <2>1, <2>2, <2>3 DEF IsTable
  <1>2. ASSUME NEW key, Known(O, key)
        PROVE  Known(T, key) /\ Window(O, key) = Window(T, key)
    <2>1. PICK i \in DOMAIN O : O[i].key = key
      BY <1>2 DEF Known
    <2>2. at[i] \in DOMAIN T /\ T[at[i]].key = key /\ T[at[i]] = O[i]
      BY <2>1
    <2>3. Window(O, key) = Young(O[i].window)
      BY <1>1, <2>1, WindowIs
    <2>4. Known(T, key) /\ Window(T, key) = Young(T[at[i]].window)
      BY <2>2, WindowIs
    <2>5. QED
      BY <2>2, <2>3, <2>4
  <1>3. QED
    BY <1>1, <1>2

\* What the limiter sees is young, falling and within the limit.
LEMMA WindowSeen ==
  ASSUME NEW T, IsTable(T), NEW key
  PROVE  /\ WindowType(Window(T, key)) /\ Window(T, key) \in Seq(Nat)
         /\ \A i \in DOMAIN Window(T, key) : Window(T, key)[i] < Period
  <1>0. Ages \subseteq Nat /\ Limit \in Nat
    BY LimiterAssumption DEF Ages
  <1>1. CASE Known(T, key)
    <2>1. PICK i \in DOMAIN T : T[i].key = key
      BY <1>1 DEF Known
    <2> DEFINE w == T[i].window
    <2>2. w \in Seq(Ages) /\ Falling(w) /\ Len(w) <= Limit
      BY <2>1 DEF IsTable, WindowType
    <2>3. Window(T, key) = Young(w)
      BY <2>1, WindowIs
    <2> HIDE DEF w
    <2>4. /\ Young(w) \in Seq(Ages) /\ Falling(Young(w)) /\ Len(Young(w)) <= Len(w)
          /\ \A j \in DOMAIN Young(w) : Young(w)[j] < Period
      BY <1>0, <2>2, YoungType
    <2>5. Len(Young(w)) <= Limit
      <3>1. Len(Young(w)) \in Nat /\ Len(w) \in Nat
        BY <2>2, <2>4
      <3>2. QED
        BY <1>0, <2>2, <2>4, <3>1
    <2>6. Young(w) \in Seq(Nat)
      BY <1>0, <2>4, SeqMonotonic
    <2>7. QED
      BY <2>3, <2>4, <2>5, <2>6 DEF WindowType
  <1>2. CASE ~Known(T, key)
    <2>1. Window(T, key) = <<>>
      BY <1>2 DEF Window
    <2>2. <<>> \in Seq(Ages) /\ <<>> \in Seq(Nat) /\ Len(<<>>) = 0 /\ DOMAIN <<>> = {}
      BY EmptySeq
    <2>3. QED
      BY <1>0, <2>1, <2>2 DEF WindowType, Falling
  <1>3. QED
    BY <1>1, <1>2

\* A window that has been asked for looks the same when it is asked for again.
LEMMA SeenAgain ==
  ASSUME NEW w, WindowType(w), \A i \in DOMAIN w : w[i] < Period
  PROVE  Young(w) = w
  <1>1. Ages \subseteq Nat
    BY LimiterAssumption DEF Ages
  <1>2. w \in Seq(Nat) /\ Falling(w)
    BY <1>1, SeqMonotonic DEF WindowType
  <1>3. QED
    BY <1>2, YoungStays

\* The entries that stay before key's: all but its own and the one that has to
\* make room for it.
LEMMA OthersTable ==
  ASSUME NEW T, IsTable(T), NEW key
  PROVE  LET O == Others(T, key)
         IN  /\ IsTable(O) /\ Len(O) < MaxKeys
             /\ \A other : Known(O, other) => Window(O, other) = Window(T, other)
             /\ \A other : Known(O, other) <=>
                            Known(T, other) /\ other # key /\ other \notin Evicted(T, key)
  <1> DEFINE O == Others(T, key)
             n == Len(T)
  <1>1. T \in Seq(Entries) /\ n \in Nat /\ DOMAIN T = 1..n /\ n <= MaxKeys /\ MaxKeys \in Nat \ {0}
    BY LimiterAssumption DEF IsTable
  <1>2. CASE ~Known(T, key) /\ n < MaxKeys
    <2>1. O = T /\ Evicted(T, key) = {}
      BY <1>2 DEF Others, Evicted
    <2>2. QED
      BY <1>2, <2>1 DEF Known
  <1>3. CASE Known(T, key) \/ n >= MaxKeys
    <2>1. PICK k \in 1..n :
            /\ O \in Seq(Entries) /\ Len(O) = n - 1
            /\ \A i \in 1..(n - 1) : O[i] = IF i < k THEN T[i] ELSE T[i + 1]
            /\ \/ T[k].key = key /\ Evicted(T, key) = {}
               \/ ~Known(T, key) /\ Evicted(T, key) = {T[k].key}
      <3>1. CASE Known(T, key)
        <4>1. PICK k \in 1..n : T[k].key = key /\ k = Place(T, key)
          BY <1>1, <3>1 DEF Known, Place
        <4>2. O = RemoveAt(T, k) /\ Evicted(T, key) = {}
          BY <3>1, <4>1 DEF Others, Evicted
        <4> HIDE DEF O
        <4>3. /\ RemoveAt(T, k) \in Seq(Entries) /\ Len(RemoveAt(T, k)) = n - 1
              /\ \A i \in 1..(n - 1) : RemoveAt(T, k)[i] = IF i < k THEN T[i] ELSE T[i + 1]
          BY <1>1, <4>1, LeftPlaces
        <4>4. QED
          BY <4>1, <4>2, <4>3
      <3>2. CASE ~Known(T, key)
        <4>1. ~(n < MaxKeys) /\ 1 \in 1..n /\ T # <<>>
          BY <1>1, <1>3, <3>2
        <4>2. O = Tail(T) /\ Evicted(T, key) = {Head(T).key} /\ Head(T) = T[1]
          BY <3>2, <4>1 DEF Others, Evicted
        <4> HIDE DEF O
        <4>3. /\ O \in Seq(Entries) /\ Len(O) = n - 1
              /\ \A i \in 1..(n - 1) : O[i] = T[i + 1]
          BY <1>1, <4>1, <4>2, HeadTailProperties
        <4>4. \A i \in 1..(n - 1) : ~(i < 1)
          BY <1>1
        <4>5. QED
          BY <3>2, <4>1, <4>2, <4>3, <4>4
      <3>3. QED
        BY <3>1, <3>2
    <2> HIDE DEF O
    <2> DEFINE at == [i \in DOMAIN O |-> IF i < k THEN i ELSE i + 1]
    <2>2. DOMAIN O = 1..(n - 1) /\ Len(O) <= n /\ Len(O) < MaxKeys
      BY <1>1, <2>1, LenProperties
    <2>3. at \in [DOMAIN O -> DOMAIN T] /\ \A i \in DOMAIN O : at[i] # k
      BY <1>1, <2>1, <2>2
    <2>4. \A i, j \in DOMAIN O : at[i] = at[j] => i = j
      BY <1>1, <2>1, <2>2
    <2>5. \A i \in DOMAIN O : O[i] = T[at[i]]
      BY <2>1, <2>2
    <2>6. \A j \in DOMAIN T : j # k => \E i \in DOMAIN O : at[i] = j
      <3> SUFFICES ASSUME NEW j \in DOMAIN T, j # k PROVE \E i \in DOMAIN O : at[i] = j
        OBVIOUS
      <3>1. CASE j < k
        <4>1. j \in DOMAIN O /\ at[j] = j
          BY <1>1, <2>2, <3>1
        <4>2. QED
          BY <4>1
      <3>2. CASE j > k
        <4>1. j - 1 \in DOMAIN O /\ at[j - 1] = j
          BY <1>1, <2>2, <3>2
        <4>2. QED
          BY <4>1
      <3>3. QED
        BY <1>1, <3>1, <3>2
    <2> HIDE DEF at
    <2>7. /\ IsTable(O)
          /\ \A other : Known(O, other) => Known(T, other) /\ Window(O, other) = Window(T, other)
      BY <2>1, <2>2, <2>3, <2>4, <2>5, PartTable
    <2>8. \A i \in DOMAIN O : O[i].key # T[k].key
      BY <1>1, <2>1, <2>3, <2>5 DEF IsTable
    <2>9. ASSUME NEW other
          PROVE  Known(O, other) <=> Known(T, other) /\ other # T[k].key
      <3>1. Known(O, other) => Known(T, other) /\ other # T[k].key
        BY <2>7, <2>8 DEF Known
      <3>2. ASSUME Known(T, other), other # T[k].key PROVE Known(O, other)
        <4>1. PICK j \in DOMAIN T : T[j].key = other
          BY <3>2 DEF Known
        <4>2. PICK i \in DOMAIN O : at[i] = j
          BY <2>6, <3>2, <4>1
        <4>3. QED
          BY <2>5, <4>1, <4>2 DEF Known
      <3>3. QED
        BY <3>1, <3>2
    <2>10. QED
      BY <2>1, <2>2, <2>7, <2>9 DEF O
  <1>4. QED
    BY <1>1, <1>2, <1>3

\* check leaves a table, in which a key sees what it did and what it is allowed.
LEMMA CheckedTable ==
  ASSUME NEW T, IsTable(T), NEW u \in Users
  PROVE  /\ IsTable(Checked(T, u))
         /\ \A v : Window(Checked(T, u), v) =
                     IF v \in Evicted(T, u) THEN <<>>
                     ELSE IF v = u /\ Allowed(T, u) THEN Append(Window(T, v), 0) ELSE Window(T, v)
  <1> DEFINE O == Others(T, u)
             w == Window(T, u)
             x == IF Allowed(T, u) THEN Append(w, 0) ELSE w
             C == Append(O, [key |-> u, window |-> x])
  <1>1. /\ IsTable(O) /\ Len(O) < MaxKeys
        /\ \A v : Known(O, v) => Window(O, v) = Window(T, v)
        /\ \A v : Known(O, v) <=> Known(T, v) /\ v # u /\ v \notin Evicted(T, u)
    BY OthersTable
  <1>2. /\ WindowType(w) /\ w \in Seq(Nat)
        /\ \A i \in DOMAIN w : w[i] < Period
    BY WindowSeen
  <1>3. Checked(T, u) = C
    BY DEF Checked
  <1>4. Allowed(T, u) <=> Len(w) < Limit
    BY DEF Allowed
  <1>5. u \notin Evicted(T, u)
    <2>1. ASSUME ~Known(T, u), Len(T) >= MaxKeys PROVE u # Head(T).key
      <3>1. T \in Seq(Entries) /\ Len(T) \in Nat /\ MaxKeys \in Nat \ {0}
        BY LimiterAssumption DEF IsTable
      <3>2. 1 \in DOMAIN T /\ Head(T) = T[1]
        BY <2>1, <3>1
      <3>3. QED
        BY <2>1, <3>2 DEF Known
    <2>2. Len(T) \in Nat /\ MaxKeys \in Nat
      BY LimiterAssumption DEF IsTable
    <2>3. QED
      BY <2>1, <2>2 DEF Evicted
  <1> HIDE DEF O, w
  <1>6. WindowType(x) /\ \A i \in DOMAIN x : x[i] < Period
    <2>1. CASE ~Allowed(T, u)
      BY <1>2, <2>1
    <2>2. CASE Allowed(T, u)
      <3>1. w \in Seq(Ages) /\ Falling(w) /\ Len(w) \in Nat /\ Limit \in Nat /\ DOMAIN w = 1..Len(w)
        BY <1>2, LimiterAssumption DEF WindowType
      <3>2. 0 \in Ages /\ 0 < Period
        BY LimiterAssumption DEF Ages
      <3>3. /\ Append(w, 0) \in Seq(Ages) /\ Len(Append(w, 0)) = Len(w) + 1
            /\ \A i \in 1..Len(w) : Append(w, 0)[i] = w[i]
            /\ Append(w, 0)[Len(w) + 1] = 0
        BY <3>1, <3>2, AppendProperties
      <3>4. x = Append(w, 0)
        BY <2>2
      <3> HIDE DEF x
      <3>5. /\ x \in Seq(Ages) /\ Len(x) = Len(w) + 1 /\ DOMAIN x = 1..(Len(w) + 1)
            /\ \A i \in 1..Len(w) : x[i] = w[i]
            /\ x[Len(w) + 1] = 0
        BY <3>3, <3>4
      <3>6. Len(x) <= Limit
        BY <1>4, <2>2, <3>1, <3>5
      <3>7. \A i \in DOMAIN x : i \in DOMAIN w \/ i = Len(w) + 1
        BY <3>1, <3>5
      <3>8. \A i \in DOMAIN x : x[i] < Period
        BY <1>2, <3>1, <3>2, <3>5, <3>7
      <3>9. Falling(x)
        <4> SUFFICES ASSUME NEW i \in DOMAIN x, NEW j \in DOMAIN x, i < j PROVE x[i] >= x[j]
          BY DEF Falling
        <4>1. x[i] \in Nat
          BY <3>5, LimiterAssumption DEF Ages
        <4>2. CASE j = Len(w) + 1
          BY <3>5, <4>1, <4>2
        <4>3. CASE j # Len(w) + 1
          <5>1. i \in DOMAIN w /\ j \in DOMAIN w
            BY <3>1, <3>5, <4>3
          <5>2. QED
            BY <3>1, <3>5, <5>1 DEF Falling
        <4>4. QED
          BY <4>2, <4>3
      <3>10. QED
        BY <3>5, <3>6, <3>8, <3>9 DEF WindowType
    <2>3. QED
      BY <2>1, <2>2
  <1> HIDE DEF x
  <1>7. /\ O \in Seq(Entries) /\ Len(O) \in Nat /\ DOMAIN O = 1..Len(O) /\ MaxKeys \in Nat
        /\ [key |-> u, window |-> x] \in Entries
    BY <1>1, <1>6, LimiterAssumption DEF IsTable, Entries, WindowType
  <1>8. /\ C \in Seq(Entries) /\ Len(C) = Len(O) + 1 /\ DOMAIN C = 1..(Len(O) + 1)
        /\ \A i \in 1..Len(O) : C[i] = O[i]
        /\ C[Len(O) + 1] = [key |-> u, window |-> x]
    BY <1>7
  <1> HIDE DEF C
  <1>9. \A i \in DOMAIN C : i \in DOMAIN O \/ i = Len(O) + 1
    BY <1>7, <1>8
  <1>10. \A i \in DOMAIN O : O[i].key # u
    BY <1>1 DEF Known
  <1>11. IsTable(C)
    <2>1. \A i \in DOMAIN C : WindowType(C[i].window)
      BY <1>1, <1>6, <1>7, <1>8, <1>9 DEF IsTable
    <2>2. ASSUME NEW i \in DOMAIN C, NEW j \in DOMAIN C, C[i].key = C[j].key PROVE i = j
      <3>1. CASE i \in DOMAIN O /\ j \in DOMAIN O
        BY <1>1, <1>7, <1>8, <2>2, <3>1 DEF IsTable
      <3>2. CASE i \notin DOMAIN O \/ j \notin DOMAIN O
        BY <1>7, <1>8, <1>9, <1>10, <2>2, <3>2
      <3>3. QED
        BY <3>1, <3>2
    <2>3. Len(C) <= MaxKeys
      BY <1>1, <1>7, <1>8
    <2>4. QED
      BY <1>8, <2>1, <2>2, <2>3 DEF IsTable
  <1>12. Window(C, u) = x
    <2>1. Len(O) + 1 \in DOMAIN C /\ C[Len(O) + 1].key = u /\ C[Len(O) + 1].window = x
      BY <1>7, <1>8
    <2>2. Window(C, u) = Young(x)
      BY <1>11, <2>1, WindowIs
    <2>3. QED
      BY <1>6, <2>2, SeenAgain
  <1>13. ASSUME NEW v, v # u
         PROVE  Window(C, v) = IF v \in Evicted(T, u) THEN <<>> ELSE Window(T, v)
    <2>1. CASE Known(O, v)
      <3>1. PICK i \in DOMAIN O : O[i].key = v
        BY <2>1 DEF Known
      <3>2. i \in DOMAIN C /\ C[i] = O[i]
        BY <1>7, <1>8
      <3>3. Window(C, v) = Young(C[i].window)
        BY <1>11, <3>1, <3>2, WindowIs
      <3>4. Window(O, v) = Young(O[i].window)
        BY <1>1, <3>1, WindowIs
      <3>5. QED
        BY <1>1, <2>1, <3>2, <3>3, <3>4
    <2>2. CASE ~Known(O, v)
      <3>1. ~Known(C, v)
        BY <1>7, <1>8, <1>9, <1>13, <2>2 DEF Known
      <3>2. Window(C, v) = <<>>
        BY <3>1 DEF Window
      <3>3. v \in Evicted(T, u) \/ Window(T, v) = <<>>
        BY <1>1, <1>13, <2>2 DEF Window
      <3>4. QED
        BY <3>2, <3>3
    <2>3. QED
      BY <2>1, <2>2
  <1>14. x = IF Allowed(T, u) THEN Append(Window(T, u), 0) ELSE Window(T, u)
    BY DEF x, w
  <1>15. QED
    BY <1>3, <1>5, <1>11, <1>12, <1>13, <1>14

\* Picked gives each of the places I a place of its own.
LEMMA PickedPlaces ==
  ASSUME NEW T, NEW I, I \subseteq DOMAIN T, IsFiniteSet(I), I \subseteq Nat
  PROVE  \E at \in [1..Cardinality(I) -> I] :
           /\ Picked(T, I) = [k \in 1..Cardinality(I) |-> T[at[k]]]
           /\ \A i, j \in 1..Cardinality(I) : at[i] = at[j] => i = j
           /\ \A i \in I : \E k \in 1..Cardinality(I) : at[k] = i
  <1> DEFINE n == Cardinality(I)
             below(i) == {j \in I : j <= i}
             rank == [i \in I |-> Cardinality(below(i))]
             at == [k \in 1..n |-> CHOOSE i \in I : Cardinality(below(i)) = k]
  <1>1. n \in Nat
    BY FS_CardinalityType
  <1>2. ASSUME NEW i \in I
        PROVE  IsFiniteSet(below(i)) /\ Cardinality(below(i)) \in 1..n
    <2>1. below(i) \in SUBSET I
      OBVIOUS
    <2>2. i \in below(i)
      OBVIOUS
    <2> HIDE DEF below
    <2>3. IsFiniteSet(below(i)) /\ Cardinality(below(i)) <= n
      BY <2>1, FS_Subset
    <2>4. Cardinality(below(i)) \in Nat /\ Cardinality(below(i)) # 0
      BY <2>2, <2>3, FS_CardinalityType, FS_EmptySet
    <2>5. QED
      BY <1>1, <2>3, <2>4
  <1>3. ASSUME NEW i \in I, NEW j \in I, i < j
        PROVE  Cardinality(below(i)) # Cardinality(below(j))
    <2>1. below(i) \in SUBSET below(j) /\ j \in below(j) /\ j \notin below(i)
      BY <1>3
    <2> HIDE DEF below
    <2>2. IsFiniteSet(below(j))
      BY <1>2
    <2>3. QED
      BY <2>1, <2>2, FS_Subset
  <1>4. rank \in Injection(I, 1..n)
    <2>1. rank \in [I -> 1..n]
      BY <1>2
    <2>2. ASSUME NEW i \in I, NEW j \in I, rank[i] = rank[j] PROVE i = j
      <3>1. i \in Nat /\ j \in Nat
        OBVIOUS
      <3>2. ~(i < j) /\ ~(j < i)
        BY <1>3, <2>2
      <3>3. QED
        BY <3>1, <3>2
    <2>3. QED
      BY <2>1, <2>2 DEF Injection, IsInjective
  <1>5. IsFiniteSet(1..n) /\ Cardinality(1..n) = n
    BY <1>1, FS_Interval
  <1>6. rank \in Surjection(I, 1..n)
    BY <1>4, <1>5, FS_Injection
  <1>7. \A k \in 1..n : \E i \in I : Cardinality(below(i)) = k
    BY <1>6 DEF Surjection
  <1>8. \A k \in 1..n : at[k] \in I /\ Cardinality(below(at[k])) = k
    BY <1>7
  <1>9. Picked(T, I) = [k \in 1..n |-> T[at[k]]]
    BY DEF Picked
  <1> HIDE DEF below
  <1>10. at \in [1..n -> I] /\ \A i, j \in 1..n : at[i] = at[j] => i = j
    BY <1>8
  <1>11. ASSUME NEW i \in I PROVE \E k \in 1..n : at[k] = i
    <2> DEFINE k == Cardinality(below(i))
    <2>1. k \in 1..n
      BY <1>2
    <2> HIDE DEF k
    <2>2. at[k] \in I /\ Cardinality(below(at[k])) = k
      BY <1>8, <2>1
    <2>3. rank[at[k]] = rank[i]
      BY <2>2 DEF k
    <2>4. at[k] = i
      BY <1>4, <2>2, <2>3 DEF Injection, IsInjective
    <2>5. QED
      BY <2>1, <2>4
  <1> HIDE DEF at
  <1>12. QED
    BY <1>9, <1>10, <1>11

\* cleanup leaves a table, in which every key sees what it did: an entry is
\* dropped when all of its events are too old for anybody.
LEMMA CleanedTable ==
  ASSUME NEW T, IsTable(T)
  PROVE  /\ IsTable(Cleaned(T))
         /\ \A v : Window(Cleaned(T), v) = Window(T, v)
  <1> DEFINE I == {i \in DOMAIN T : T[i].window # <<>> /\ Last(T[i].window) <= OldestPeriod}
             n == Cardinality(I)
             C == Cleaned(T)
  <1>1. T \in Seq(Entries) /\ Len(T) \in Nat /\ DOMAIN T = 1..Len(T)
    BY DEF IsTable
  <1>2. IsFiniteSet(DOMAIN T) /\ Cardinality(DOMAIN T) = Len(T)
    BY <1>1, FS_Interval
  <1>3. I \in SUBSET DOMAIN T /\ I \subseteq Nat
    BY <1>1
  <1>4. C = Picked(T, I)
    BY DEF Cleaned
  <1>5. ASSUME NEW i \in DOMAIN T, i \notin I PROVE Young(T[i].window) = <<>>
    <2> DEFINE w == T[i].window
    <2>1. w \in Seq(Ages) /\ Falling(w)
      BY DEF IsTable, WindowType
    <2>2. Ages \subseteq Nat /\ Period \in Nat /\ OldestPeriod \in Nat /\ Period <= OldestPeriod
      BY LimiterAssumption DEF Ages
    <2>3. w \in Seq(Nat)
      BY <2>1, <2>2, SeqMonotonic
    <2>4. w = <<>> \/ ~(w[Len(w)] <= OldestPeriod)
      BY <1>5 DEF Last
    <2> HIDE DEF w
    <2>5. PICK m \in 0..Len(w) :
            /\ \A j \in (m + 1)..Len(w) : w[j] < Period
            /\ Young(w) = SubSeq(w, m + 1, Len(w))
      BY <2>1, <2>3, YoungSuffix
    <2>6. Len(w) \in Nat /\ \A j \in 1..Len(w) : w[j] \in Nat
      BY <2>3
    <2>7. m = Len(w)
      <3> SUFFICES ASSUME m < Len(w) PROVE FALSE
        BY <2>6
      <3>1. Len(w) \in (m + 1)..Len(w) /\ Len(w) \in 1..Len(w) /\ w # <<>>
        BY <2>6
      <3>2. w[Len(w)] \in Nat /\ w[Len(w)] < Period
        BY <2>5, <2>6, <3>1
      <3>3. QED
        BY <2>2, <2>4, <3>1, <3>2
    <2>8. Young(w) = <<>>
      BY <2>5, <2>6, <2>7, SubSeqEmpty
    <2>9. QED
      BY <2>8 DEF w
  <1> HIDE DEF I, C
  <1>6. IsFiniteSet(I) /\ n \in Nat /\ n <= Len(T)
    BY <1>1, <1>2, <1>3, FS_Subset, FS_CardinalityType
  <1>7. PICK at \in [1..n -> I] :
          /\ C = [k \in 1..n |-> T[at[k]]]
          /\ \A i, j \in 1..n : at[i] = at[j] => i = j
          /\ \A i \in I : \E k \in 1..n : at[k] = i
    BY <1>3, <1>4, <1>6, PickedPlaces
  <1> HIDE DEF n
  <1>8. C \in Seq(Entries) /\ DOMAIN C = 1..n /\ Len(C) = n /\ \A k \in 1..n : C[k] = T[at[k]]
    <2>1. \A k \in 1..n : T[at[k]] \in Entries
      BY <1>1, <1>3
    <2>2. C \in [1..n -> Entries]
      BY <1>7, <2>1
    <2>3. C \in Seq(Entries)
      BY <1>6, <2>2, SeqDef
    <2>4. DOMAIN C = 1..n /\ \A k \in 1..n : C[k] = T[at[k]]
      BY <1>7
    <2>5. Len(C) = n
      BY <1>6, <2>2
    <2>6. QED
      BY <2>3, <2>4, <2>5
  <1>9. at \in [DOMAIN C -> DOMAIN T]
    BY <1>3, <1>8
  <1>10. /\ IsTable(C)
         /\ \A key : Known(C, key) => Known(T, key) /\ Window(C, key) = Window(T, key)
    BY <1>6, <1>7, <1>8, <1>9, PartTable
  <1>11. ASSUME NEW v, ~Known(C, v) PROVE Window(C, v) = Window(T, v)
    <2>1. Window(C, v) = <<>>
      BY <1>11 DEF Window
    <2>2. CASE ~Known(T, v)
      BY <2>1, <2>2 DEF Window
    <2>3. CASE Known(T, v)
      <3>1. PICK i \in DOMAIN T : T[i].key = v
        BY <2>3 DEF Known
      <3>2. i \notin I
        <4> SUFFICES ASSUME i \in I PROVE FALSE
          OBVIOUS
        <4>1. PICK k \in 1..n : at[k] = i
          BY <1>7
        <4>2. k \in DOMAIN C /\ C[k].key = v
          BY <1>8, <3>1, <4>1
        <4>3. QED
          BY <1>11, <4>2 DEF Known
      <3>3. Window(T, v) = Young(T[i].window)
        BY <3>1, WindowIs
      <3>4. QED
        BY <1>5, <2>1, <3>2, <3>3
    <2>4. QED
      BY <2>2, <2>3
  <1>12. \A v : Window(C, v) = Window(T, v)
    BY <1>10, <1>11
  <1>13. QED
    BY <1>10, <1>12 DEF C

\* So does a tick, after which every key sees what is still recent.
LEMMA AgedTable ==
  ASSUME NEW T, IsTable(T)
  PROVE  /\ IsTable(Aged(T))
         /\ \A v : Window(Aged(T), v) =
                     Recent([i \in DOMAIN Window(T, v) |-> Window(T, v)[i] + 1])
  <1> DEFINE A == Aged(T)
             old(w) == [j \in DOMAIN w |-> Older(w[j])]
  <1>1. T \in Seq(Entries) /\ Len(T) \in Nat /\ DOMAIN T = 1..Len(T) /\ Len(T) <= MaxKeys
    BY DEF IsTable
  <1>2. A = [i \in DOMAIN T |-> [key |-> T[i].key, window |-> old(T[i].window)]]
    BY DEF Aged
  <1>3. ASSUME NEW i \in DOMAIN T
        PROVE  /\ WindowType(old(T[i].window))
               /\ Young(old(T[i].window)) =
                    Recent([j \in DOMAIN Young(T[i].window) |-> Young(T[i].window)[j] + 1])
    <2>1. WindowType(T[i].window)
      BY DEF IsTable
    <2>2. QED
      BY <2>1, AgedWindow
  <1> HIDE DEF old, A
  <1>4. DOMAIN A = DOMAIN T /\ \A i \in DOMAIN T : A[i].key = T[i].key /\ A[i].window = old(T[i].window)
    BY <1>2
  <1>5. A \in Seq(Entries) /\ Len(A) = Len(T)
    <2>1. ASSUME NEW i \in DOMAIN T
          PROVE  [key |-> T[i].key, window |-> old(T[i].window)] \in Entries
      <3>1. T[i] \in Entries
        BY <1>1
      <3>2. T[i].key \in Users
        BY <3>1 DEF Entries
      <3>3. old(T[i].window) \in Seq(Ages)
        BY <1>3 DEF WindowType
      <3>4. QED
        BY <3>2, <3>3 DEF Entries
    <2>2. A \in [1..Len(T) -> Entries]
      BY <1>1, <1>2, <2>1
    <2>3. QED
      BY <1>1, <2>2, SeqDef
  <1>6. IsTable(A)
    <2>1. \A i, j \in DOMAIN A : A[i].key = A[j].key => i = j
      BY <1>4 DEF IsTable
    <2>2. \A i \in DOMAIN A : WindowType(A[i].window)
      BY <1>3, <1>4
    <2>3. QED
      BY <1>1, <1>5, <2>1, <2>2 DEF IsTable
  <1>7. ASSUME NEW v
        PROVE  Window(A, v) = Recent([i \in DOMAIN Window(T, v) |-> Window(T, v)[i] + 1])
    <2>1. CASE Known(T, v)
      <3>1. PICK i \in DOMAIN T : T[i].key = v
        BY <2>1 DEF Known
      <3>2. Window(T, v) = Young(T[i].window)
        BY <3>1, WindowIs
      <3>3. i \in DOMAIN A /\ A[i].key = v /\ A[i].window = old(T[i].window)
        BY <1>4, <3>1
      <3>4. Window(A, v) = Young(old(T[i].window))
        BY <1>6, <3>3, WindowIs
      <3>5. QED
        BY <1>3, <3>2, <3>4
    <2>2. CASE ~Known(T, v)
      <3>1. ~Known(A, v)
        BY <1>4, <2>2 DEF Known
      <3>2. Window(T, v) = <<>> /\ Window(A, v) = <<>>
        BY <2>2, <3>1 DEF Window
      <3> DEFINE none == [i \in DOMAIN <<>> |-> <<>>[i] + 1]
      <3>3. none = <<>> /\ {i \in DOMAIN none : none[i] >= Period} = {}
        OBVIOUS
      <3>4. Cardinality({}) = 0 /\ Len(<<>>) = 0
        BY FS_EmptySet
      <3>5. Recent(none) = SubSeq(<<>>, 0 + 1, 0)
        BY <3>3, <3>4 DEF Recent
      <3>6. SubSeq(<<>>, 0 + 1, 0) = <<>>
        BY SubSeqEmpty
      <3>7. QED
        BY <3>2, <3>5, <3>6
    <2>3. QED
      BY <2>1, <2>2
  <1>8. QED
    BY <1>6, <1>7 DEF A

\* An empty table.
LEMMA NobodyKnown ==
  ASSUME table = <<>>, served = NoneServed
  PROVE  ServedInv
  <1>1. <<>> \in Seq(Entries) /\ Len(<<>>) = 0 /\ DOMAIN <<>> = {}
    BY EmptySeq
  <1>2. IsTable(table)
    BY <1>1, LimiterAssumption DEF IsTable
  <1>3. \A u \in Users : Window(table, u) = <<>>
    BY <1>1 DEF Window, Known
  <1>4. QED
    BY <1>2, <1>3 DEF ServedInv, NoneServed

\* What the steps do to the table and to what it is held against.
LEMMA LimiterSteps ==
  ASSUME [Next]_vars
  PROVE  \/ UNCHANGED limiting
         \/ \E u \in Users : Serve(u)
         \/ table' = Cleaned(table) /\ served' = served
         \/ Tick
         \/ table' = <<>> /\ served' = NoneServed
  BY DEF Next, Refuse, Start, MigrationBegins, CarryOver, MigrationCommits, Opened, Acquire,
         Return, Gone, Sent, Obey, Resist, Message, SweepBegins, Maintain, Ready, Greeted,
         Forget, CalledBack, Close, EventsClosed, DiscordClosed, CoreClosed, StoreClosed,
         Teardown, Interrupt, Exit, Watchdog, Crash, Down, vars, limiting

\* Neither eviction nor cleanup, nor the clock, makes the limiter forget what
\* somebody has been allowed within the period.
LEMMA ServedAlways == Spec => []ServedInv
  <1>1. Init => ServedInv
    BY NobodyKnown DEF Init
  <1>2. ASSUME ServedInv, [Next]_vars PROVE ServedInv'
    <2>1. CASE UNCHANGED limiting
      BY <1>2, <2>1 DEF limiting, ServedInv
    <2>2. ASSUME NEW u \in Users, Serve(u) PROVE ServedInv'
      <3>1. /\ IsTable(Checked(table, u))
            /\ \A v : Window(Checked(table, u), v) =
                   IF v \in Evicted(table, u) THEN <<>>
                   ELSE IF v = u /\ Allowed(table, u) THEN Append(Window(table, v), 0)
                        ELSE Window(table, v)
        BY <1>2, CheckedTable DEF ServedInv
      <3>2. \A v \in Users : served[v] = Window(table, v)
        BY <1>2 DEF ServedInv
      <3>3. table' = Checked(table, u)
        BY <2>2 DEF Serve
      <3>4. served' = [v \in Users |-> Window(table', v)]
        BY <2>2, <3>1, <3>2, <3>3 DEF Serve
      <3>5. QED
        BY <3>1, <3>3, <3>4 DEF ServedInv
    <2>3. CASE table' = Cleaned(table) /\ served' = served
      <3>1. IsTable(table') /\ \A v : Window(table', v) = Window(table, v)
        BY <1>2, <2>3, CleanedTable DEF ServedInv
      <3>2. QED
        BY <1>2, <2>3, <3>1 DEF ServedInv
    <2>4. CASE Tick
      <3>1. /\ IsTable(table')
            /\ \A v : Window(table', v) =
                   Recent([i \in DOMAIN Window(table, v) |-> Window(table, v)[i] + 1])
        BY <1>2, <2>4, AgedTable DEF ServedInv, Tick
      <3>2. \A v \in Users : served[v] = Window(table, v)
        BY <1>2 DEF ServedInv
      <3>3. served' = [v \in Users |-> Window(table', v)]
        BY <2>4, <3>1, <3>2 DEF Tick
      <3>4. QED
        BY <3>1, <3>3 DEF ServedInv
    <2>5. CASE table' = <<>> /\ served' = NoneServed
      <3>1. <<>> \in Seq(Entries) /\ Len(<<>>) = 0 /\ DOMAIN <<>> = {}
        BY EmptySeq
      <3>2. IsTable(table')
        BY <2>5, <3>1, LimiterAssumption DEF IsTable
      <3>3. \A u \in Users : Window(table', u) = <<>>
        BY <2>5, <3>1 DEF Window, Known
      <3>4. QED
        BY <2>5, <3>2, <3>3 DEF ServedInv, NoneServed
    <2>6. QED
      BY <1>2, <2>1, <2>2, <2>3, <2>4, <2>5, LimiterSteps
  <1>3. QED
    BY <1>1, <1>2, PTL DEF Spec

\* For any limit, period and number of users, with a table that has no room for
\* all of them, nobody is allowed more than the limit within the period while his
\* window is kept (policy.py:340-371).
THEOREM LimitAlwaysHolds == Spec => []LimitHolds
  <1>1. ServedInv => LimitHolds
    BY WindowSeen DEF ServedInv, WindowType, LimitHolds
  <1>2. QED
    BY <1>1, ServedAlways, PTL

-----------------------------------------------------------------------------
(* Types.                                                                  *)

\* Only tasks that are there are cancelled.
CancelledInv == resisted \subseteq cancelled /\ cancelled \subseteq Living

PhaseInv ==
  /\ phase \in {"down", "opening", "migrating", "running", "teardown"} \cup Steps
  /\ open \in BOOLEAN /\ greeting \in BOOLEAN

\* Nobody loses his place to those that are scheduled.
LEMMA ScheduleKeeps ==
  ASSUME TasksInv, Schedule
  PROVE  \A u \in Tasks : In(u, Head(Path(u))) => In(u, Head(Path(u)))'
  <1>1. PICK due \in SUBSET {r \in Reflections : ~Alive(r)} : line' = Begun(due)
    BY DEF Schedule
  <1>2. IsFiniteSet(due) /\ due \subseteq Tasks
    BY FS_Subset, ProcessAssumption DEF Tasks, Background
  <1>3. \A t \in due : Head(Path(t)) = "reflection" /\ ~Alive(t)
    BY Paths
  <1>4. Grows(due, "reflection")
    BY <1>1, <1>2, <1>3, GrowsBySome DEF Semaphores
  <1>5. \A u \in Tasks : In(u, Head(Path(u))) => In(u, Head(Path(u)))'
    BY <1>4, HeadsAreLines, GrowthKeepsPlaces
  <1>6. QED
    BY <1>5

\* Nor to a single task that begins.
LEMMA OneBeginsKeeps ==
  ASSUME TasksInv, NEW t \in Tasks, ~Alive(t), line' = Begun({t})
  PROVE  \A u \in Tasks : In(u, Head(Path(u))) => In(u, Head(Path(u)))'
  <1>1. IsFiniteSet({t}) /\ {t} \subseteq Tasks /\ Head(Path(t)) \in Semaphores
    BY FS_Singleton, HeadsAreLines
  <1>2. Grows({t}, Head(Path(t)))
    BY <1>1, GrowsBySome
  <1>3. QED
    BY <1>2, HeadsAreLines, GrowthKeepsPlaces

\* A task that ends is taken out of the books, and nobody else is.
LEMMA GoneKeeps ==
  ASSUME TasksInv, CancelledInv, NEW t \in Tasks, Gone(t)
  PROVE  CancelledInv'
  <1>1. \A u \in Tasks : Alive(u) /\ u # t => Alive(u)'
    BY ReleaseKeepsPlaces, HeadsAreLines DEF Gone, Alive
  <1>2. QED
    BY <1>1 DEF Gone, CancelledInv, Living

\* Every step keeps the books of the cancelled tasks right.
LEMMA NextCancelled ==
  ASSUME TasksInv, CancelledInv, [Next]_vars
  PROVE  CancelledInv'
  <1> DEFINE Stays == \A u \in Tasks : In(u, Head(Path(u))) => In(u, Head(Path(u)))'
  <1>0. /\ Events \subseteq Tasks /\ Reflections \subseteq Tasks
        /\ resisted \subseteq cancelled
        /\ \A u \in cancelled : u \in Tasks /\ Alive(u)
    BY DEF Events, Tasks, Background, CancelledInv, Living
  <1>1. CASE UNCHANGED <<line, sending>>
             /\ resisted' \subseteq cancelled' /\ cancelled' \subseteq Living
    BY <1>0, <1>1 DEF CancelledInv, Living, Alive, In
  <1>2. CASE Refuse \/ Start \/ MigrationBegins \/ CarryOver \/ MigrationCommits \/ Opened
             \/ Tick \/ Ready
             \/ EventsClosed \/ CoreClosed \/ UNCHANGED vars
    <2>1. UNCHANGED work
      BY <1>2
         DEF Refuse, Start, MigrationBegins, CarryOver, MigrationCommits, Opened, Tick, Ready,
             EventsClosed, CoreClosed, vars
    <2>2. QED
      BY <1>1, <2>1 DEF work, CancelledInv
  <1>3. ASSUME Stays, UNCHANGED <<sending, cancelled, resisted>>
        PROVE  CancelledInv'
    BY <1>0, <1>3 DEF CancelledInv, Living, Alive
  <1>4. ASSUME NEW t \in Tasks, Acquire(t) PROVE CancelledInv'
    <2>1. Move(t)
      BY <1>4 DEF Acquire, Move
    <2>2. PICK s \in Semaphores : Grows({t}, s)
      BY <2>1, MoveGrows
    <2>3. Stays
      BY <2>2, HeadsAreLines, GrowthKeepsPlaces
    <2> HIDE DEF Stays
    <2>4. UNCHANGED <<sending, cancelled, resisted>>
      BY <1>4 DEF Acquire
    <2>5. QED
      BY <1>3, <2>3, <2>4
  <1>5. ASSUME NEW t \in Tasks, Return(t) PROVE CancelledInv'
    <2>1. CASE Gone(t)
      BY <2>1, GoneKeeps
    <2>2. CASE /\ line' = Released(t) /\ sending' = sending \cup {t}
               /\ UNCHANGED <<cancelled, resisted>>
      <3>1. \A u \in Tasks : Alive(u) => Alive(u)'
        BY <2>2, ReleaseKeepsPlaces, HeadsAreLines DEF Alive
      <3>2. QED
        BY <1>0, <2>2, <3>1 DEF CancelledInv, Living
    <2>3. QED
      BY <1>5, <2>1, <2>2 DEF Return
  <1>6. ASSUME NEW t \in Tasks, Sent(t) PROVE CancelledInv'
    <2>1. /\ sending' = sending \ {t} /\ resisted' = resisted \ {t}
          /\ cancelled' = cancelled \ {t}
      BY <1>6 DEF Sent
    <2>2. Stays
      <3>1. CASE Schedule
        BY <3>1, ScheduleKeeps
      <3>2. CASE UNCHANGED <<line, unseen>>
        BY <3>2 DEF In
      <3>3. QED
        BY <1>6, <3>1, <3>2 DEF Sent
    <2>3. \A u \in Tasks : Alive(u) /\ u # t => Alive(u)'
      BY <2>1, <2>2 DEF Alive
    <2>4. QED
      BY <1>0, <2>1, <2>2, <2>3 DEF CancelledInv, Living
  <1>7. ASSUME NEW t \in Tasks, Obey(t) PROVE CancelledInv'
    BY <1>7, GoneKeeps DEF Obey
  <1>8. ASSUME NEW t \in Tasks, Resist(t) PROVE CancelledInv'
    <2>1. /\ t \in cancelled /\ resisted' = resisted \cup {t} /\ cancelled' = cancelled
          /\ UNCHANGED <<line, sending>>
      BY <1>8 DEF Resist
    <2>2. QED
      BY <1>0, <1>1, <2>1 DEF CancelledInv
  <1>9. ASSUME NEW u \in Users, Message(u) PROVE CancelledInv'
    <2>1. UNCHANGED <<sending, cancelled, resisted>>
      BY <1>9 DEF Message
    <2>2. line' = line \/ \E c \in Replies : ~Alive(c) /\ line' = Begun({c})
      BY <1>9 DEF Message
    <2>3. CASE line' = line
      BY <1>1, <2>1, <2>3 DEF CancelledInv
    <2>4. ASSUME NEW c \in Replies, ~Alive(c), line' = Begun({c}) PROVE CancelledInv'
      <3>1. Stays
        BY <2>4, OneBeginsKeeps DEF Tasks
      <3> HIDE DEF Stays
      <3>2. QED
        BY <1>3, <2>1, <3>1
    <2>5. QED
      BY <2>2, <2>3, <2>4
  <1>10. CASE SweepBegins
    <2>1. ~Alive(Sweep) /\ line' = Begun({Sweep}) /\ Sweep \in Tasks
          /\ UNCHANGED <<sending, cancelled, resisted>>
      BY <1>10 DEF SweepBegins, Tasks, Background
    <2>2. Stays
      BY <2>1, OneBeginsKeeps
    <2> HIDE DEF Stays
    <2>3. QED
      BY <1>3, <2>1, <2>2
  <1>11. CASE Maintain \/ Greeted
    <2>1. Schedule /\ UNCHANGED <<sending, cancelled, resisted>>
      BY <1>11 DEF Maintain, Greeted
    <2>2. Stays
      BY <2>1, ScheduleKeeps
    <2> HIDE DEF Stays
    <2>3. QED
      BY <1>3, <2>1, <2>2
  <1>12. ASSUME NEW r \in Reflections, Forget(r) \/ CalledBack(r) PROVE CancelledInv'
    BY <1>0, <1>1, <1>12 DEF Forget, CalledBack, Listed, CancelledInv, Living
  <1>13. CASE Close
    BY <1>0, <1>1, <1>13 DEF Close, CancelledInv, Living
  <1>14. CASE DiscordClosed
    BY <1>0, <1>1, <1>14 DEF DiscordClosed, Listed, CancelledInv, Living
  <1>15. CASE StoreClosed \/ Interrupt
    BY <1>0, <1>1, <1>15 DEF StoreClosed, Interrupt, Teardown, CancelledInv, Living
  <1>16. CASE Exit \/ Watchdog \/ Crash
    BY <1>16 DEF Exit, Watchdog, Crash, Down, CancelledInv
  <1>17. QED
    BY <1>2, <1>4, <1>5, <1>6, <1>7, <1>8, <1>9, <1>10, <1>11, <1>12, <1>13, <1>14, <1>15,
       <1>16 DEF Next

\* Every step leads from phase to phase.
LEMMA NextPhase == PhaseInv /\ [Next]_vars => PhaseInv'
  <1> DEFINE Stays == UNCHANGED <<phase, open, greeting>>
  <1>1. CASE \/ Refuse \/ CarryOver \/ (\E u \in Users : Message(u))
             \/ SweepBegins \/ Maintain \/ Tick
             \/ (\E r \in Reflections : Forget(r) \/ CalledBack(r)) \/ UNCHANGED vars
    <2>1. Stays
      BY <1>1 DEF Refuse, CarryOver, Message, SweepBegins, Maintain, Tick, Forget, CalledBack,
                  vars
    <2>2. QED
      BY <2>1 DEF PhaseInv
  <1>2. CASE \E t \in Tasks : Acquire(t) \/ Return(t) \/ Sent(t) \/ Obey(t) \/ Resist(t)
    <2>1. Stays
      BY <1>2 DEF Acquire, Return, Gone, Sent, Obey, Resist
    <2>2. QED
      BY <2>1 DEF PhaseInv
  <1>3. CASE Start \/ MigrationBegins \/ MigrationCommits \/ Opened \/ Ready \/ Greeted
    BY <1>3 DEF Start, MigrationBegins, MigrationCommits, Opened, Ready, Greeted, PhaseInv
  <1>4. CASE Close \/ EventsClosed \/ DiscordClosed \/ CoreClosed
    BY <1>4 DEF Close, EventsClosed, DiscordClosed, CoreClosed, PhaseInv, Steps
  <1>5. CASE StoreClosed \/ Interrupt
    BY <1>5 DEF StoreClosed, Interrupt, Teardown, PhaseInv
  <1>6. CASE Exit \/ Watchdog \/ Crash
    BY <1>6 DEF Exit, Watchdog, Crash, Down, PhaseInv
  <1>7. QED
    BY <1>1, <1>2, <1>3, <1>4, <1>5, <1>6 DEF Next

\* Only reflections have callbacks, or go unseen.
BooksInv == ended \cup unseen \subseteq Reflections

LEMMA NextBooks == BooksInv /\ [Next]_vars => BooksInv'
  <1>1. Schedule => unseen' \subseteq unseen \cup Reflections
    BY DEF Schedule
  <1>2. \A r \in Reflections : CalledBack(r) => unseen' \subseteq unseen \cup Reflections
    BY DEF CalledBack, Listed
  <1>3. QED
    BY <1>1, <1>2
       DEF Next, Refuse, Start, MigrationBegins, CarryOver, MigrationCommits, Opened, Acquire,
           Return, Gone, Sent, Obey, Resist, Message, SweepBegins, Maintain, Tick, Ready,
           Greeted, Forget, CalledBack, Close, EventsClosed, DiscordClosed, CoreClosed,
           StoreClosed, Teardown, Interrupt, Exit, Watchdog, Crash, Down, vars, work, BooksInv

\* What is cancelled is there, and the phase is one.
LEMMA CancelledAlways == Spec => [](CancelledInv /\ PhaseInv /\ BooksInv)
  <1>1. Init => CancelledInv /\ PhaseInv /\ BooksInv
    BY DEF Init, CancelledInv, PhaseInv, BooksInv
  <1>2. TasksInv /\ CancelledInv /\ PhaseInv /\ BooksInv /\ [Next]_vars
          => (CancelledInv /\ PhaseInv /\ BooksInv)'
    BY NextCancelled, NextPhase, NextBooks
  <1>3. QED
    BY <1>1, <1>2, TasksAlways, PTL DEF Spec

\* The process keeps its types, among them that a task stands in a line once and
\* that only a task that is there is in the books of the shutdown (app.py:1023-1091).
THEOREM TypeCorrect == Spec => []TypeOK
  <1>1. TasksInv /\ DatabaseInv /\ ServedInv /\ CancelledInv /\ PhaseInv
          /\ BooksInv /\ MovedInv => TypeOK
    <2> SUFFICES ASSUME TasksInv, DatabaseInv, ServedInv, CancelledInv, PhaseInv,
                        BooksInv, MovedInv
                 PROVE  TypeOK
      OBVIOUS
    <2>1. \A i \in DOMAIN table : table[i].key \in Users /\ Len(table[i].window) <= Limit
      <3> SUFFICES ASSUME NEW i \in DOMAIN table
                   PROVE  table[i].key \in Users /\ Len(table[i].window) <= Limit
        OBVIOUS
      <3>1. IsTable(table)
        BY DEF ServedInv
      <3>2. table[i] \in Entries /\ Len(table[i].window) <= Limit
        BY <3>1 DEF IsTable, WindowType
      <3>3. QED
        BY <3>2 DEF Entries
    <2>2. Len(table) <= MaxKeys
      BY DEF ServedInv, IsTable
    <2>3. QED
      BY <2>1, <2>2 DEF TasksInv, DatabaseInv, CancelledInv, PhaseInv, BooksInv,
                              MovedInv, Own, TypeOK
  <1>2. QED
    BY <1>1, TasksAlways, DatabaseAlways, ServedAlways, CancelledAlways, PTL
=============================================================================
