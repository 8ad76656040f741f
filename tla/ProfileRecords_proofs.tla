------------------------- MODULE ProfileRecords_proofs -------------------------
(***************************************************************************)
(* Proofs about ProfileRecords, for every value of its constants.          *)
(***************************************************************************)
EXTENDS ProfileRecords, FiniteSetTheorems, SequenceTheorems, TLAPS

(* The order of the records.                                               *)

\* The records that the table may hold before the id n is used.
FactRows(n) ==
  [id : 1..(n - 1), user : Users, text : Texts, evidence : 1..EvidenceCap,
   confident : BOOLEAN, status : Statuses, by : 1..(n - 1) \cup {Nothing},
   visibility : {"dm", "guild"}, seen : 1..MaxTime]

\* Nothing comes before itself, and what comes before what comes before c
\* comes before c.
LEMMA PrecedesIsOrder ==
  ASSUME NEW n \in Nat, NEW a \in [1..n -> Int], NEW b \in [1..n -> Int],
         NEW c \in [1..n -> Int]
  PROVE  /\ ~Precedes(a, a)
         /\ Precedes(a, b) /\ Precedes(b, c) => Precedes(a, c)
  <1>1. ~Precedes(a, a)
    BY DEF Precedes
  <1>2. ASSUME Precedes(a, b), Precedes(b, c)
        PROVE  Precedes(a, c)
    <2>1. PICK i \in 1..n : a[i] > b[i] /\ \A j \in 1..n : j < i => a[j] = b[j]
      BY <1>2 DEF Precedes
    <2>2. PICK k \in 1..n : b[k] > c[k] /\ \A j \in 1..n : j < k => b[j] = c[j]
      BY <1>2 DEF Precedes
    <2>3. i \in Nat /\ k \in Nat
      OBVIOUS
    <2>4. CASE i <= k
      <3>1. a[i] > c[i] /\ \A j \in 1..n : j < i => a[j] = c[j]
        BY <2>1, <2>2, <2>3, <2>4
      <3>2. QED
        BY <3>1 DEF Precedes
    <2>5. CASE k < i
      <3>1. a[k] > c[k] /\ \A j \in 1..n : j < k => a[j] = c[j]
        BY <2>1, <2>2, <2>3, <2>5
      <3>2. QED
        BY <3>1 DEF Precedes
    <2>6. QED
      BY <2>3, <2>4, <2>5
  <1>3. QED
    BY <1>1, <1>2

\* Six numbers rank a record; for the user's own order the first of them tells
\* whether it is active.
LEMMA RankType ==
  ASSUME NEW n, NEW f \in FactRows(n)
  PROVE  /\ RankOverall(f) \in [1..6 -> Int] /\ RankOfUser(f) \in [1..6 -> Int]
         /\ RankOfUser(f)[1] = IF f.status = "confirmed" THEN 2 ELSE Bit(f.status = "tentative")
  <1>1. \A b : Bit(b) \in Int
    BY DEF Bit
  <1>2. f.evidence \in Int /\ f.seen \in Int /\ f.id \in Int
    BY DEF FactRows
  <1>3. Strength(f) \in Seq(Int) /\ Len(Strength(f)) = 5
    BY <1>1, <1>2 DEF Strength
  <1>4. ASSUME NEW x \in Int
        PROVE  <<x>> \o Strength(f) \in [1..6 -> Int] /\ (<<x>> \o Strength(f))[1] = x
    <2> DEFINE s == Strength(f)
               r == <<x>> \o s
    <2>1. <<x>> \in Seq(Int) /\ Len(<<x>>) = 1 /\ <<x>>[1] = x
      OBVIOUS
    <2> HIDE DEF s
    <2>2. Len(<<x>>) + Len(s) = 6
      BY <1>3, <2>1 DEF s
    <2>3. /\ r \in Seq(Int) /\ Len(r) = Len(<<x>>) + Len(s)
          /\ \A i \in 1..(Len(<<x>>) + Len(s)) :
               r[i] = IF i <= Len(<<x>>) THEN <<x>>[i] ELSE s[i - Len(<<x>>)]
      BY <1>3, <2>1, ConcatProperties DEF s
    <2> HIDE DEF r
    <2>4. r[1] = x
      BY <2>1, <2>2, <2>3
    <2>5. r \in [1..Len(r) -> Int]
      BY <2>3, LenProperties
    <2>6. r \in [1..6 -> Int]
      BY <2>2, <2>3, <2>5
    <2>7. QED
      BY <2>4, <2>6 DEF r, s
  <1>5. QED
    BY <1>1, <1>4 DEF RankOverall, RankOfUser

-----------------------------------------------------------------------------
(* The trims.                                                              *)

\* A trim drops records, that of a user only the user's.
LEMMA TrimsDrop ==
  ASSUME NEW rows, NEW user
  PROVE  /\ TrimFacts(rows) \subseteq rows
         /\ TrimFactsOf(rows, user) \subseteq rows
         /\ \A f \in rows \ TrimFactsOf(rows, user) : f.user = user
  BY DEF TrimFacts, FirstOverall, TrimFactsOf, FirstOfUser, RecordsOf

\* A table that is not over its ceiling loses nothing.
LEMMA TrimFactsKeeps ==
  ASSUME NEW n, NEW rows \in SUBSET FactRows(n), IsFiniteSet(rows),
         MaxFacts > 0 => Cardinality(rows) <= MaxFacts
  PROVE  TrimFacts(rows) = rows
  <1> SUFFICES ASSUME MaxFacts # 0, NEW f \in rows
               PROVE  Cardinality({g \in rows : Precedes(RankOverall(g), RankOverall(f))}) < MaxFacts
    BY DEF TrimFacts, FirstOverall
  <1>0. MaxFacts \in Nat /\ Cardinality(rows) <= MaxFacts
    BY ProfileTableAssumption
  <1> DEFINE T == {g \in rows : Precedes(RankOverall(g), RankOverall(f))}
  <1>1. f \notin T
    <2>1. RankOverall(f) \in [1..6 -> Int]
      BY RankType
    <2>2. ~Precedes(RankOverall(f), RankOverall(f))
      BY <2>1, PrecedesIsOrder
    <2>3. QED
      BY <2>2
  <1>2. T \in SUBSET rows
    OBVIOUS
  <1> HIDE DEF T
  <1>3. Cardinality(T) <= Cardinality(rows) /\ T # rows /\ IsFiniteSet(T)
    BY <1>1, <1>2, FS_Subset
  <1>4. Cardinality(T) # Cardinality(rows)
    BY <1>2, <1>3, FS_Subset
  <1>5. Cardinality(T) \in Nat /\ Cardinality(rows) \in Nat
    BY <1>3, FS_CardinalityType
  <1>6. Cardinality(T) < MaxFacts
    BY <1>0, <1>3, <1>4, <1>5
  <1>7. QED
    BY <1>6 DEF T

\* A trim that keeps a record which is not active keeps those that are.
LEMMA TrimKeepsActive ==
  ASSUME NEW n, NEW rows \in SUBSET FactRows(n), IsFiniteSet(rows), NEW user,
         NEW f \in rows, f.user = user, Active(f),
         NEW g \in TrimFactsOf(rows, user), g.user = user, ~Active(g)
  PROVE  f \in TrimFactsOf(rows, user)
  <1> DEFINE mine == RecordsOf(rows, user)
             Above(x) == {h \in mine : Precedes(RankOfUser(h), RankOfUser(x))}
  <1>1. CASE MaxFactsPerUser = 0
    BY <1>1 DEF TrimFactsOf
  <1>2. CASE MaxFactsPerUser # 0
    <2>1. f \in mine /\ g \in mine /\ mine \in SUBSET rows
      BY TrimsDrop DEF RecordsOf
    <2>2. Cardinality(Above(g)) < MaxFactsPerUser
      BY <1>2, <2>1 DEF TrimFactsOf, FirstOfUser
    <2>3. Precedes(RankOfUser(f), RankOfUser(g))
      <3> DEFINE a == RankOfUser(f)
                 b == RankOfUser(g)
      <3>1. a \in [1..6 -> Int] /\ b \in [1..6 -> Int] /\ a[1] > 0 /\ b[1] = 0
        BY <2>1, RankType DEF Active, Bit
      <3> HIDE DEF a, b
      <3>2. a[1] > b[1] /\ 1 \in DOMAIN a /\ \A j \in DOMAIN a : j < 1 => a[j] = b[j]
        BY <3>1
      <3>3. QED
        BY <3>2 DEF Precedes, a, b
    <2>4. Above(f) \in SUBSET Above(g)
      BY <2>1, <2>3, RankType, PrecedesIsOrder
    <2>5. IsFiniteSet(Above(g))
      <3>1. Above(g) \in SUBSET rows
        BY <2>1
      <3> HIDE DEF Above
      <3>2. QED
        BY <3>1, FS_Subset
    <2>6. Cardinality(Above(f)) < MaxFactsPerUser
      <3> HIDE DEF Above
      <3>1. Cardinality(Above(f)) <= Cardinality(Above(g)) /\ IsFiniteSet(Above(f))
        BY <2>4, <2>5, FS_Subset
      <3>2. Cardinality(Above(f)) \in Nat /\ Cardinality(Above(g)) \in Nat
        BY <2>5, <3>1, FS_CardinalityType
      <3>3. QED
        BY <2>2, <3>1, <3>2, ProfileTableAssumption
    <2>7. QED
      BY <1>2, <2>1, <2>6 DEF TrimFactsOf, FirstOfUser
  <1>3. QED
    BY <1>1, <1>2

-----------------------------------------------------------------------------
(* One observation.                                                        *)

\* No two records of an id, nor of a user and a text.
Unique(rows) ==
  \A f, g \in rows : f.id = g.id \/ (f.user = g.user /\ f.text = g.text) => f = g

\* ChainsEnd, of any table.
Chains(rows) ==
  \A S \in SUBSET rows : S # {} => \E f \in S : f.by \notin {g.id : g \in S}

\* What is true of the table before the id n is used.
Table(rows, n) ==
  /\ rows \subseteq FactRows(n)
  /\ Unique(rows)
  /\ \A f \in rows : f.by # Nothing => f.status = "superseded"
  /\ IsFiniteSet(rows)
  /\ MaxFacts > 0 => Cardinality(rows) <= MaxFacts
  /\ Chains(rows)

\* A table with fewer records is still one, and so is it when ids have been used.
LEMMA SmallerTable ==
  ASSUME NEW n \in Nat, NEW m \in Nat, n <= m, NEW rows, Table(rows, n), NEW T \in SUBSET rows
  PROVE  Table(T, m)
  <1>1. FactRows(n) \subseteq FactRows(m)
    <2>1. 1..(n - 1) \subseteq 1..(m - 1)
      OBVIOUS
    <2>2. QED
      BY <2>1 DEF FactRows
  <1>2. IsFiniteSet(T) /\ Cardinality(T) <= Cardinality(rows)
    BY FS_Subset DEF Table
  <1>3. Cardinality(T) \in Nat /\ Cardinality(rows) \in Nat
    BY <1>2, FS_CardinalityType DEF Table
  <1>4. MaxFacts > 0 => Cardinality(T) <= MaxFacts
    BY <1>2, <1>3, ProfileTableAssumption DEF Table
  <1>5. Chains(T)
    BY DEF Table, Chains
  <1>6. QED
    BY <1>1, <1>2, <1>4, <1>5 DEF Table, Unique

\* Chains still end when links are cut.
LEMMA ChainsCut ==
  ASSUME NEW rows, Chains(rows), NEW T,
         \A g \in T : g.id \in Nat,
         \A g \in T : g.by = Nothing \/ \E f \in rows : f.id = g.id /\ f.by = g.by
  PROVE  Chains(T)
  <1> SUFFICES ASSUME NEW S \in SUBSET T, S # {}
               PROVE  \E f \in S : f.by \notin {g.id : g \in S}
    BY DEF Chains
  <1>1. CASE \E g \in S : g.by = Nothing
    BY <1>1, ProfileTableAssumption
  <1>2. CASE \A g \in S : g.by # Nothing
    <2> DEFINE R == {f \in rows : \E g \in S : f.id = g.id /\ f.by = g.by}
    <2>1. \A g \in S : \E f \in R : f.id = g.id /\ f.by = g.by
      BY <1>2
    <2>2. R \in SUBSET rows /\ R # {}
      BY <2>1
    <2>3. PICK f \in R : f.by \notin {h.id : h \in R}
      BY <2>2 DEF Chains
    <2>4. PICK g \in S : f.id = g.id /\ f.by = g.by
      BY <2>3
    <2>5. g.by \notin {h.id : h \in S}
      BY <2>1, <2>3, <2>4
    <2>6. QED
      BY <2>5
  <1>3. QED
    BY <1>1, <1>2

\* The links of T are those of rows, or lead to the id i, whose own record, if
\* there is one, links to nothing.
LinksKept(rows, T, i) ==
  /\ \A g \in T : g.id \in Nat
  /\ \A g \in T : g.id = i => g.by = Nothing
  /\ \A g \in T : \/ g.by = Nothing
                  \/ g.by = i
                  \/ \E f \in rows : f.id = g.id /\ f.by = g.by

\* They still end then.
LEMMA ChainsKept ==
  ASSUME NEW rows, Chains(rows), NEW T, NEW i, LinksKept(rows, T, i)
  PROVE  Chains(T)
  <1> USE DEF LinksKept
  <1> SUFFICES ASSUME NEW S \in SUBSET T, S # {}
               PROVE  \E f \in S : f.by \notin {g.id : g \in S}
    BY DEF Chains
  <1>1. CASE \E g \in S : g.by = Nothing
    BY <1>1, ProfileTableAssumption
  <1>2. CASE \E g \in S : g.by = i /\ \A h \in S : h.by # Nothing
    BY <1>2
  <1>3. CASE \A g \in S : g.by # Nothing /\ g.by # i
    <2>1. Chains(S)
      BY <1>3, ChainsCut
    <2>2. QED
      BY <2>1 DEF Chains
  <1>4. QED
    BY <1>1, <1>2, <1>3

\* What is observed of a user.
Statement(o) == o.text \in Texts /\ o.confident \in BOOLEAN

\* The id that the next record gets, after a save that makes one or not.
NextFact(rows, n, user, o) == IF Earlier(rows, user, o) = {} THEN n + 1 ELSE n

\* The record of an observation is active and links to nothing; it has a new id
\* or that of the one earlier record of its user and text.
LEMMA RecordFacts ==
  ASSUME NEW n \in Nat \ {0}, NEW rows, Table(rows, n), NEW user \in Users,
         NEW o, Statement(o), NEW visibility \in {"dm", "guild"}, NEW now \in 1..MaxTime
  PROVE  LET record == RecordOf(rows, n, user, o, visibility, now)
             earlier == Earlier(rows, user, o)
         IN  /\ record \in FactRows(NextFact(rows, n, user, o))
             /\ record.user = user /\ record.text = o.text
             /\ record.by = Nothing /\ Active(record)
             /\ \/ earlier = {} /\ record.id = n /\ record.visibility = visibility
                \/ \E f \in rows : /\ earlier = {f} /\ record.id = f.id
                                   /\ record.visibility \in {visibility, f.visibility}
  <1> DEFINE record == RecordOf(rows, n, user, o, visibility, now)
             earlier == Earlier(rows, user, o)
  <1>1. EvidenceCap \in Nat /\ EvidenceCap > 1
    BY ProfileTableAssumption
  <1>2. CASE earlier = {}
    <2>1. record = NewRecord(n, user, o, visibility, now)
      BY <1>2 DEF RecordOf
    <2>2. n \in 1..(n + 1 - 1) /\ 1 \in 1..EvidenceCap
      BY <1>1
    <2>3. record \in FactRows(n + 1)
      BY <2>1, <2>2 DEF NewRecord, FactRows, Statuses, Statement
    <2>4. /\ record.user = user /\ record.text = o.text /\ record.by = Nothing
          /\ Active(record) /\ record.id = n /\ record.visibility = visibility
      BY <2>1 DEF NewRecord, Active
    <2>5. QED
      BY <1>2, <2>3, <2>4 DEF NextFact
  <1>3. CASE earlier # {}
    <2> DEFINE f == CHOOSE f \in earlier : TRUE
    <2>1. record = Merged(f, o, visibility, now)
      BY <1>3 DEF RecordOf
    <2>2. f \in earlier
      BY <1>3
    <2>3. /\ f \in rows /\ f.user = user /\ f.text = o.text /\ f \in FactRows(n)
      BY <2>2 DEF Earlier, Table
    <2>4. earlier = {f}
      BY <2>2, <2>3 DEF Earlier, Table, Unique
    <2> HIDE DEF f
    <2> DEFINE evidence == IF f.evidence < EvidenceCap THEN f.evidence + 1 ELSE EvidenceCap
               status == IF f.text \in Facts \/ (evidence >= 2 /\ (f.confident \/ o.confident))
                           THEN "confirmed" ELSE "tentative"
               seenAt == IF now >= f.seen THEN visibility ELSE f.visibility
               seen == IF now >= f.seen THEN now ELSE f.seen
    <2>5. evidence \in 1..EvidenceCap
      BY <1>1, <2>3 DEF FactRows
    <2>6. /\ status \in {"confirmed", "tentative"} /\ seenAt \in {visibility, f.visibility}
          /\ seen \in 1..MaxTime /\ seenAt \in {"dm", "guild"}
          /\ (f.confident \/ o.confident) \in BOOLEAN
      BY <2>3 DEF FactRows, Statement
    <2>7. record = [f EXCEPT !.evidence = evidence, !.confident = f.confident \/ o.confident,
                             !.status = status, !.by = Nothing, !.visibility = seenAt,
                             !.seen = seen]
      BY <2>1 DEF Merged
    <2> HIDE DEF evidence, status, seenAt, seen
    <2>8. record \in FactRows(n)
      BY <2>3, <2>5, <2>6, <2>7 DEF FactRows, Statuses
    <2>9. /\ record.user = user /\ record.text = o.text /\ record.by = Nothing
          /\ record.status = status /\ record.id = f.id /\ record.visibility = seenAt
      BY <2>3, <2>7 DEF FactRows
    <2>10. QED
      BY <1>3, <2>3, <2>4, <2>6, <2>8, <2>9 DEF NextFact, Active
  <1>4. QED
    BY <1>2, <1>3

\* A correction touches nothing but status and link, of a record that is linked.
LEMMA CorrectedFacts ==
  ASSUME NEW n, NEW f \in FactRows(n), NEW record, NEW o,
         record.id \in 1..(n - 1)
  PROVE  LET g == Corrected(f, record, o)
         IN  /\ g \in FactRows(n)
             /\ g.id = f.id /\ g.user = f.user /\ g.text = f.text
             /\ g.visibility = f.visibility
             /\ \/ g = f
                \/ /\ Linked(f, record) /\ f.id \in o.supersedes
                   /\ g.status = "superseded" /\ g.by = record.id
                \/ /\ Linked(f, record) /\ f.id \in o.contradicts
                   /\ g.status = "contradicted" /\ g.by = Nothing
  <1> DEFINE g == Corrected(f, record, o)
  <1>1. CASE Linked(f, record) /\ f.id \in o.supersedes
    <2>1. g = [f EXCEPT !.status = "superseded", !.by = record.id]
      BY <1>1 DEF Corrected
    <2>2. QED
      BY <1>1, <2>1 DEF FactRows, Statuses
  <1>2. CASE Linked(f, record) /\ f.id \notin o.supersedes /\ f.id \in o.contradicts
    <2>1. g = [f EXCEPT !.status = "contradicted", !.by = Nothing]
      BY <1>2 DEF Corrected
    <2>2. QED
      BY <1>2, <2>1 DEF FactRows, Statuses
  <1>3. CASE ~Linked(f, record) \/ (f.id \notin o.supersedes /\ f.id \notin o.contradicts)
    BY <1>3 DEF Corrected
  <1>4. QED
    BY <1>1, <1>2, <1>3

\* What a function makes of a finite set is no larger.
LEMMA ImageFacts ==
  ASSUME NEW S, IsFiniteSet(S), NEW f, DOMAIN f = S
  PROVE  /\ IsFiniteSet({f[x] : x \in S})
         /\ Cardinality({f[x] : x \in S}) <= Cardinality(S)
  <1> DEFINE T == {f[x] : x \in S}
             g == [x \in S |-> f[x]]
  <1>1. g \in [S -> T] /\ \A y \in T : \E x \in S : g[x] = y
    OBVIOUS
  <1>2. g \in Surjection(S, T)
    BY <1>1 DEF Surjection
  <1> HIDE DEF g, T
  <1>3. IsFiniteSet(T) /\ Cardinality(T) <= Cardinality(S)
    BY <1>2, FS_Surjection
  <1>4. QED
    BY <1>3 DEF T

\* The table that an observation makes, before it is trimmed, is one.
LEMMA WithRecordTable ==
  ASSUME NEW n \in Nat \ {0}, NEW rows, Table(rows, n), NEW user \in Users,
         NEW o, Statement(o), ~Refused(rows, user, o),
         NEW visibility \in {"dm", "guild"}, NEW now \in 1..MaxTime
  PROVE  Table(WithRecord(rows, Earlier(rows, user, o),
                          RecordOf(rows, n, user, o, visibility, now), o),
               NextFact(rows, n, user, o))
  <1> DEFINE record == RecordOf(rows, n, user, o, visibility, now)
             earlier == Earlier(rows, user, o)
             m == NextFact(rows, n, user, o)
             rest == rows \ earlier
             C(f) == Corrected(f, record, o)
             corrected == {C(f) : f \in rest}
             W == WithRecord(rows, earlier, record, o)
  <1>1. W = corrected \cup {record}
    BY DEF WithRecord
  <1>2. /\ record \in FactRows(m) /\ record.user = user /\ record.text = o.text
        /\ record.by = Nothing /\ Active(record)
        /\ (earlier = {} /\ record.id = n) \/ \E f \in rows : earlier = {f} /\ record.id = f.id
    BY RecordFacts
  <1>3. m \in Nat /\ n <= m /\ n - 1 <= m - 1
    BY DEF NextFact
  <1>4. rest \in SUBSET rows /\ rows \subseteq FactRows(n) /\ FactRows(n) \subseteq FactRows(m)
    <2>1. 1..(n - 1) \subseteq 1..(m - 1)
      BY <1>3
    <2>2. QED
      BY <2>1 DEF Table, FactRows
  <1>5. \A f \in rest : f.id # record.id /\ ~(f.user = user /\ f.text = o.text)
    <2> SUFFICES ASSUME NEW f \in rest
                 PROVE  f.id # record.id /\ ~(f.user = user /\ f.text = o.text)
      OBVIOUS
    <2>1. ~(f.user = user /\ f.text = o.text)
      BY <1>4 DEF Earlier
    <2>2. f.id \in 1..(n - 1)
      BY <1>4 DEF FactRows
    <2>3. QED
      BY <1>2, <1>4, <2>1, <2>2 DEF Table, Unique
  <1>6. \A f \in rest :
          /\ C(f) \in FactRows(m) /\ C(f).id = f.id /\ C(f).user = f.user /\ C(f).text = f.text
          /\ \/ C(f) = f
             \/ C(f).status = "superseded" /\ C(f).by = record.id
             \/ C(f).by = Nothing
    <2>1. record.id \in 1..(m - 1)
      BY <1>2 DEF FactRows
    <2>2. QED
      BY <1>4, <2>1, CorrectedFacts
  <1> HIDE DEF record, earlier, m, rest, C, W
  <1>7. W \subseteq FactRows(m)
    BY <1>1, <1>2, <1>6
  <1>8. Unique(W)
    BY <1>1, <1>2, <1>4, <1>5, <1>6 DEF Table, Unique
  <1>9. \A g \in W : g.by # Nothing => g.status = "superseded"
    BY <1>1, <1>2, <1>4, <1>6 DEF Table
  <1>10. IsFiniteSet(W) /\ (MaxFacts > 0 => Cardinality(W) <= MaxFacts)
    <2>1. IsFiniteSet(rest) /\ IsFiniteSet(rows)
      BY <1>4, FS_Subset DEF Table
    <2>2. IsFiniteSet(corrected) /\ Cardinality(corrected) <= Cardinality(rest)
      <3> DEFINE F == [f \in rest |-> C(f)]
      <3>1. DOMAIN F = rest /\ corrected = {F[f] : f \in rest}
        OBVIOUS
      <3> HIDE DEF F, corrected
      <3>2. IsFiniteSet({F[f] : f \in rest}) /\ Cardinality({F[f] : f \in rest}) <= Cardinality(rest)
        BY <2>1, <3>1, ImageFacts
      <3>3. QED
        BY <3>1, <3>2
    <2> HIDE DEF corrected
    <2>3. IsFiniteSet(W) /\ Cardinality(W) <= Cardinality(corrected) + 1
      <3>1. Cardinality(corrected) \in Nat
        BY <2>2, FS_CardinalityType
      <3>2. QED
        BY <1>1, <2>2, <3>1, FS_AddElement
    <2>4. /\ Cardinality(W) \in Nat /\ Cardinality(corrected) \in Nat
          /\ Cardinality(rest) \in Nat /\ Cardinality(rows) \in Nat
      BY <2>1, <2>2, <2>3, FS_CardinalityType
    <2>5. ASSUME MaxFacts > 0 PROVE Cardinality(rest) + 1 <= MaxFacts
      <3>1. MaxFacts \in Nat /\ Cardinality(rows) <= MaxFacts
        BY <2>5, ProfileTableAssumption DEF Table
      <3>2. CASE earlier = {}
        <4>1. rest = rows
          BY <3>2 DEF rest
        <4>2. ~(Cardinality(rows) >= MaxFacts)
          BY <2>5, <3>2 DEF Refused, earlier
        <4>3. QED
          BY <2>4, <3>1, <4>1, <4>2
      <3>3. ASSUME NEW f \in rows, earlier = {f} PROVE Cardinality(rest) + 1 <= MaxFacts
        <4>1. rest = rows \ {f}
          BY <3>3 DEF rest
        <4>2. Cardinality(rest) = Cardinality(rows) - 1
          BY <2>1, <4>1, FS_RemoveElement
        <4>3. QED
          BY <2>4, <3>1, <4>2
      <3>4. QED
        BY <1>2, <3>2, <3>3
    <2>6. QED
      BY <2>2, <2>3, <2>4, <2>5, ProfileTableAssumption
  <1>11. Chains(W)
    <2>1. \A g \in W : g.id \in Nat
      BY <1>3, <1>7 DEF FactRows
    <2>2. \A g \in W : g.id = record.id => g.by = Nothing
      BY <1>1, <1>2, <1>5, <1>6
    <2>3. \A g \in W : \/ g.by = Nothing
                       \/ g.by = record.id
                       \/ \E f \in rows : f.id = g.id /\ f.by = g.by
      BY <1>1, <1>2, <1>4, <1>6
    <2>4. Chains(rows)
      BY DEF Table
    <2>5. LinksKept(rows, W, record.id)
      BY <2>1, <2>2, <2>3 DEF LinksKept
    <2> HIDE DEF W, record
    <2>6. QED
      BY <2>4, <2>5, ChainsKept
  <1>12. Table(W, m)
    BY <1>7, <1>8, <1>9, <1>10, <1>11 DEF Table
  <1>13. QED
    BY <1>12 DEF W, m, record, earlier

-----------------------------------------------------------------------------
(* One save.                                                               *)

\* The table after a save, of an answer with the observation o.
Saved(rows, n, user, o, visibility, now) ==
  TrimFacts(TrimFactsOf(Observed(rows, n, user, o, visibility, now), user))

\* The id that is next after it.
NextAfter(rows, n, user, o) ==
  IF Earlier(rows, user, o) = {} /\ ~Refused(rows, user, o) THEN n + 1 ELSE n

\* A save that is refused drops records of the user.  Another leaves what it
\* observes and corrects, but for records of the user; while one of these is
\* left that is not active, so is the record that was observed.
LEMMA SavedFacts ==
  ASSUME NEW n \in Nat \ {0}, NEW rows, Table(rows, n), NEW user \in Users,
         NEW o, Statement(o), NEW visibility \in {"dm", "guild"}, NEW now \in 1..MaxTime
  PROVE  LET saved == Saved(rows, n, user, o, visibility, now)
             record == RecordOf(rows, n, user, o, visibility, now)
             all == IF Refused(rows, user, o) THEN rows
                    ELSE WithRecord(rows, Earlier(rows, user, o), record, o)
         IN  /\ Table(saved, NextAfter(rows, n, user, o))
             /\ saved \subseteq all
             /\ \A f \in all \ saved : f.user = user
             /\ ~Refused(rows, user, o) =>
                  \A g \in saved : g.user = user /\ ~Active(g) => record \in saved
  <1> DEFINE saved == Saved(rows, n, user, o, visibility, now)
             record == RecordOf(rows, n, user, o, visibility, now)
             W == WithRecord(rows, Earlier(rows, user, o), record, o)
             all == IF Refused(rows, user, o) THEN rows ELSE W
             m == NextAfter(rows, n, user, o)
             once == Observed(rows, n, user, o, visibility, now)
             twice == TrimFactsOf(once, user)
  <1>1. m \in Nat /\ n <= m
    BY DEF NextAfter
  <1>2. Table(all, m)
    <2>1. CASE Refused(rows, user, o)
      BY <2>1 DEF NextAfter
    <2>2. CASE ~Refused(rows, user, o)
      <3>1. NextFact(rows, n, user, o) = m
        BY <2>2 DEF NextFact, NextAfter
      <3>2. Table(W, NextFact(rows, n, user, o))
        BY <2>2, WithRecordTable
      <3>3. QED
        BY <2>2, <3>1, <3>2
    <2>3. QED
      BY <2>1, <2>2
  <1>3. /\ Refused(rows, user, o) => once = all
        /\ ~Refused(rows, user, o) => once = TrimFactsOf(all, user)
    BY DEF Observed
  <1>4. once \in SUBSET all /\ twice \in SUBSET all
        /\ (\A f \in all \ once : f.user = user) /\ (\A f \in once \ twice : f.user = user)
    <2> HIDE DEF all, once
    <2>1. QED
      BY <1>3, TrimsDrop
  <1>5. ~Refused(rows, user, o) => record \in all /\ Active(record) /\ record.user = user
    <2>1. Active(record) /\ record.user = user
      BY RecordFacts
    <2>2. ~Refused(rows, user, o) => record \in all
      BY DEF WithRecord
    <2>3. QED
      BY <2>1, <2>2
  <1> HIDE DEF record, W, all, m, once
  <1>6. Table(once, m) /\ Table(twice, m)
    BY <1>1, <1>2, <1>4, SmallerTable
  <1>7. saved = twice
    <2>1. twice \in SUBSET FactRows(m) /\ IsFiniteSet(twice)
          /\ (MaxFacts > 0 => Cardinality(twice) <= MaxFacts)
      BY <1>6 DEF Table
    <2> HIDE DEF twice
    <2>2. TrimFacts(twice) = twice
      BY <2>1, TrimFactsKeeps
    <2>3. QED
      BY <2>2 DEF Saved, twice, once
  <1>8. ASSUME ~Refused(rows, user, o), NEW g \in twice, g.user = user, ~Active(g)
        PROVE  record \in twice
    <2>1. g \in once /\ g \in all
      BY <1>4, TrimsDrop
    <2>2. all \in SUBSET FactRows(m) /\ IsFiniteSet(all)
          /\ once \in SUBSET FactRows(m) /\ IsFiniteSet(once)
      BY <1>2, <1>6 DEF Table
    <2>3. once = TrimFactsOf(all, user)
      BY <1>3, <1>8
    <2>4. record \in once
      BY <1>5, <1>8, <2>1, <2>2, <2>3, TrimKeepsActive
    <2>5. QED
      BY <1>5, <1>8, <2>2, <2>4, TrimKeepsActive
  <1>9. /\ Table(saved, m) /\ saved \subseteq all
        /\ \A f \in all \ saved : f.user = user
        /\ ~Refused(rows, user, o) =>
             \A g \in saved : g.user = user /\ ~Active(g) => record \in saved
    BY <1>4, <1>6, <1>7, <1>8
  <1>10. QED
    BY <1>9 DEF all, W, m, record

\* A save drops records of its user only; it sets an active record aside only
\* when a link names it, for a record of its subject that is active thereafter;
\* and what is shown in guilds was, unless the observation was made in one.
LEMMA SaveEffect ==
  ASSUME NEW n \in Nat \ {0}, NEW rows, Table(rows, n), NEW user \in Users,
         NEW o, Statement(o), NEW visibility \in {"dm", "guild"}, NEW now \in 1..MaxTime
  PROVE  LET saved == Saved(rows, n, user, o, visibility, now)
         IN  /\ Table(saved, NextAfter(rows, n, user, o))
             /\ \A f \in rows \ saved : f.user = user
             /\ \A f \in rows, g \in saved :
                  f.id = g.id /\ f # g /\ ~Active(g) =>
                    /\ Active(f) /\ (f.id \in o.supersedes \/ f.id \in o.contradicts)
                    /\ \E h \in saved : /\ h.id # g.id /\ Active(h) /\ h.user = user
                                        /\ Subject[h.text] = Subject[g.text]
                                        /\ g.status = "superseded" => h.id = g.by
             /\ visibility = "dm" => \A g \in saved :
                  g.visibility = "guild" => \E f \in rows : f.id = g.id /\ f.visibility = "guild"
  <1> DEFINE saved == Saved(rows, n, user, o, visibility, now)
             record == RecordOf(rows, n, user, o, visibility, now)
             earlier == Earlier(rows, user, o)
             m == NextFact(rows, n, user, o)
             rest == rows \ earlier
             C(f) == Corrected(f, record, o)
             W == WithRecord(rows, earlier, record, o)
  <1>1. Table(saved, NextAfter(rows, n, user, o))
    BY SavedFacts
  <1>2. CASE Refused(rows, user, o)
    <2>1. saved \subseteq rows /\ \A f \in rows \ saved : f.user = user
      BY <1>2, SavedFacts
    <2>2. \A f \in rows, g \in saved : f.id = g.id => f = g
      BY <2>1 DEF Table, Unique
    <2> HIDE DEF saved
    <2>3. QED
      BY <1>1, <2>1, <2>2 DEF saved
  <1>3. CASE ~Refused(rows, user, o)
    <2>1. /\ saved \subseteq W /\ (\A f \in W \ saved : f.user = user)
          /\ \A g \in saved : g.user = user /\ ~Active(g) => record \in saved
      BY <1>3, SavedFacts
    <2>2. W = {C(f) : f \in rest} \cup {record}
      BY DEF WithRecord
    <2>3. /\ record \in FactRows(m) /\ record.user = user /\ Active(record)
          /\ \/ earlier = {} /\ record.visibility = visibility
             \/ \E f \in rows : /\ earlier = {f} /\ record.id = f.id
                                /\ record.visibility \in {visibility, f.visibility}
      BY RecordFacts
    <2>4. FactRows(n) \subseteq FactRows(m) /\ record.id \in 1..(m - 1)
      <3>1. 1..(n - 1) \subseteq 1..(m - 1)
        BY DEF NextFact
      <3>2. QED
        BY <2>3, <3>1 DEF FactRows
    <2>5. \A f \in rest :
            /\ C(f).id = f.id /\ C(f).user = f.user /\ C(f).text = f.text
            /\ C(f).visibility = f.visibility
            /\ \/ C(f) = f
               \/ /\ Linked(f, record) /\ f.id \in o.supersedes
                  /\ C(f).status = "superseded" /\ C(f).by = record.id
               \/ /\ Linked(f, record) /\ f.id \in o.contradicts
                  /\ C(f).status = "contradicted" /\ C(f).by = Nothing
      <3>1. rest \subseteq FactRows(m)
        BY <2>4 DEF Table
      <3>2. QED
        BY <2>4, <3>1, CorrectedFacts
    <2>6. rest \subseteq rows /\ \A f \in earlier : f.user = user
      BY DEF Earlier
    <2> HIDE DEF saved, record, earlier, m, rest, C, W
    <2>7. ASSUME NEW f \in rows \ saved PROVE f.user = user
      <3>1. CASE f \in earlier
        BY <2>6, <3>1
      <3>2. CASE f \notin earlier
        <4>1. f \in rest /\ C(f) \in W
          BY <2>2, <3>2 DEF rest
        <4>2. CASE C(f) \in saved
          <5>1. Linked(f, record)
            BY <2>5, <2>7, <4>1, <4>2
          <5>2. QED
            BY <2>3, <5>1 DEF Linked
        <4>3. CASE C(f) \notin saved
          BY <2>1, <2>5, <4>1, <4>3
        <4>4. QED
          BY <4>2, <4>3
      <3>3. QED
        BY <3>1, <3>2
    <2>8. ASSUME NEW f \in rows, NEW g \in saved, f.id = g.id, f # g, ~Active(g)
          PROVE  /\ Active(f) /\ (f.id \in o.supersedes \/ f.id \in o.contradicts)
                 /\ \E h \in saved : /\ h.id # g.id /\ Active(h) /\ h.user = user
                                     /\ Subject[h.text] = Subject[g.text]
                                     /\ g.status = "superseded" => h.id = g.by
      <3>1. PICK k \in rest : g = C(k)
        BY <2>1, <2>2, <2>3, <2>8
      <3>2. k = f
        BY <2>5, <2>6, <2>8, <3>1 DEF Table, Unique
      <3>3. Linked(f, record) /\ (f.id \in o.supersedes \/ f.id \in o.contradicts)
        BY <2>5, <2>8, <3>1, <3>2
      <3>4. g.user = f.user /\ g.text = f.text /\ (g.status = "superseded" => record.id = g.by)
        <4>1. g.user = f.user /\ g.text = f.text
          BY <2>5, <3>1, <3>2
        <4>2. g.status = "superseded" => record.id = g.by
          BY <2>5, <2>8, <3>1, <3>2
        <4>3. QED
          BY <4>1, <4>2
      <3>5. record \in saved
        BY <2>1, <2>3, <2>8, <3>3, <3>4 DEF Linked
      <3>6. QED
        BY <2>3, <2>8, <3>3, <3>4, <3>5 DEF Linked
    <2>9. ASSUME visibility = "dm", NEW g \in saved, g.visibility = "guild"
          PROVE  \E f \in rows : f.id = g.id /\ f.visibility = "guild"
      <3>1. CASE g = record
        BY <2>3, <2>9, <3>1
      <3>2. CASE g # record
        <4>1. PICK k \in rest : g = C(k)
          BY <2>1, <2>2, <3>2
        <4>2. QED
          BY <2>5, <2>6, <2>9, <4>1
      <3>3. QED
        BY <3>1, <3>2
    <2>10. QED
      BY <1>1, <2>7, <2>8, <2>9 DEF saved
  <1>4. QED
    BY <1>2, <1>3

\* An answer without observations only trims.
LEMMA TrimmedFacts ==
  ASSUME NEW n \in Nat, NEW rows, Table(rows, n), NEW user
  PROVE  LET trimmed == TrimFacts(TrimFactsOf(rows, user))
         IN  /\ Table(trimmed, n) /\ trimmed \subseteq rows
             /\ \A f \in rows \ trimmed : f.user = user
  <1> DEFINE once == TrimFactsOf(rows, user)
  <1>1. once \in SUBSET rows /\ \A f \in rows \ once : f.user = user
    BY TrimsDrop
  <1> HIDE DEF once
  <1>2. Table(once, n)
    BY <1>1, SmallerTable
  <1>3. TrimFacts(once) = once
    <2>1. once \in SUBSET FactRows(n) /\ IsFiniteSet(once)
          /\ (MaxFacts > 0 => Cardinality(once) <= MaxFacts)
      BY <1>2 DEF Table
    <2>2. QED
      BY <2>1, TrimFactsKeeps
  <1>4. QED
    BY <1>1, <1>2, <1>3 DEF once

\* A deletion cuts links and touches nothing else of the records that are left.
LEMMA WithoutFacts ==
  ASSUME NEW n \in Nat, NEW rows, Table(rows, n), NEW f \in rows
  PROVE  /\ Table(Without(rows, f), n)
         /\ \A g \in rows, h \in Without(rows, f) : g.id = h.id => g.status = h.status
  <1> DEFINE rest == rows \ {f}
             Cut(g) == [g EXCEPT !.by = IF g.user = f.user /\ g.by = f.id THEN Nothing ELSE g.by]
             left == Without(rows, f)
  <1>1. left = {Cut(g) : g \in rest}
    BY DEF Without
  <1>2. \A g \in rest : /\ Cut(g) \in FactRows(n) /\ Cut(g).id = g.id /\ Cut(g).user = g.user
                        /\ Cut(g).text = g.text /\ Cut(g).status = g.status
                        /\ Cut(g).by \in {Nothing, g.by}
    <2> SUFFICES ASSUME NEW g \in rest
                 PROVE  /\ Cut(g) \in FactRows(n) /\ Cut(g).id = g.id /\ Cut(g).user = g.user
                        /\ Cut(g).text = g.text /\ Cut(g).status = g.status
                        /\ Cut(g).by \in {Nothing, g.by}
      OBVIOUS
    <2>1. g \in FactRows(n)
      BY DEF Table
    <2>2. PICK by : /\ by = IF g.user = f.user /\ g.by = f.id THEN Nothing ELSE g.by
                    /\ Cut(g) = [g EXCEPT !.by = by]
      OBVIOUS
    <2>3. by \in {Nothing, g.by}
      BY <2>2
    <2> HIDE DEF Cut
    <2>4. QED
      BY <2>1, <2>2, <2>3 DEF FactRows
  <1>3. IsFiniteSet(left) /\ Cardinality(left) <= Cardinality(rows)
    <2> DEFINE F == [g \in rest |-> Cut(g)]
    <2>1. DOMAIN F = rest /\ left = {F[g] : g \in rest}
      BY <1>1
    <2>2. rest \in SUBSET rows
      OBVIOUS
    <2> HIDE DEF F, Cut, left, rest
    <2>3. IsFiniteSet(rest) /\ Cardinality(rest) <= Cardinality(rows)
      BY <2>2, FS_Subset DEF Table
    <2>4. IsFiniteSet({F[g] : g \in rest}) /\ Cardinality({F[g] : g \in rest}) <= Cardinality(rest)
      BY <2>1, <2>3, ImageFacts
    <2>5. Cardinality(left) \in Nat /\ Cardinality(rest) \in Nat /\ Cardinality(rows) \in Nat
      BY <2>1, <2>3, <2>4, FS_CardinalityType DEF Table
    <2>6. QED
      BY <2>1, <2>3, <2>4, <2>5
  <1> HIDE DEF Cut, left
  <1>4. MaxFacts > 0 => Cardinality(left) <= MaxFacts
    <2>1. Cardinality(left) \in Nat /\ Cardinality(rows) \in Nat
      BY <1>3, FS_CardinalityType DEF Table
    <2>2. QED
      BY <1>3, <2>1, ProfileTableAssumption DEF Table
  <1>5. left \subseteq FactRows(n)
    BY <1>1, <1>2
  <1>6. Unique(left)
    BY <1>1, <1>2 DEF Table, Unique
  <1>7. \A g \in left : g.by # Nothing => g.status = "superseded"
    BY <1>1, <1>2 DEF Table
  <1>8. Chains(left)
    <2>1. \A g \in left : g.id \in Nat
      BY <1>5 DEF FactRows
    <2>2. \A g \in left : g.by = Nothing \/ \E h \in rows : h.id = g.id /\ h.by = g.by
      BY <1>1, <1>2
    <2>3. Chains(rows)
      BY DEF Table
    <2>4. QED
      BY <2>1, <2>2, <2>3, ChainsCut
  <1>9. \A g \in rows, h \in left : g.id = h.id => g.status = h.status
    BY <1>1, <1>2 DEF Table, Unique
  <1>10. Table(left, n)
    BY <1>3, <1>4, <1>5, <1>6, <1>7, <1>8 DEF Table
  <1>11. QED
    BY <1>9, <1>10 DEF left

-----------------------------------------------------------------------------
(* The specification.                                                      *)

\* The inductive invariant: the variables' types, and what is true of the table.
FactsInv ==
  /\ Table(facts, nextFact)
  /\ nextFact \in Nat \ {0}
  /\ revision \in [Users -> Nat]
  /\ reading \in [Keys -> [revision : Nat, offered : SUBSET (1..(nextFact - 1))] \cup {Nothing}]
  /\ saves \in Nat /\ commands \in Nat

\* An empty table satisfies it.
LEMMA FactsInvInit == Init => FactsInv
  <1> SUFFICES ASSUME Init PROVE FactsInv
    OBVIOUS
  <1>1. facts = {} /\ IsFiniteSet(facts) /\ Cardinality(facts) = 0
    BY FS_EmptySet DEF Init
  <1>2. Table(facts, nextFact)
    BY <1>1, ProfileTableAssumption DEF Table, Unique, Chains
  <1>3. reading \in [Keys -> {Nothing}]
    BY DEF Init
  <1>4. QED
    BY <1>2, <1>3 DEF Init, FactsInv

\* What a save with an observation does is what SaveEffect says, of links to
\* records in the payload of the reflection.
LEMMA SaveStep ==
  ASSUME FactsInv, NEW place \in Places, NEW user \in Users, NEW now \in 1..MaxTime,
         NEW o \in Observations, Save(place, user, {o}, now)
  PROVE  LET links == CheckedLinks(o, reading[<<place, user>>].offered)
         IN  /\ Statement(links)
             /\ links.supersedes \subseteq reading[<<place, user>>].offered
             /\ links.contradicts \subseteq reading[<<place, user>>].offered
             /\ facts' = Saved(facts, nextFact, user, links, Visibility(place), now)
             /\ nextFact' = NextAfter(facts, nextFact, user, links)
  <1> DEFINE links == CheckedLinks(o, reading[<<place, user>>].offered)
  <1>1. /\ links.text = o.text /\ links.confident = o.confident
        /\ links.supersedes = o.supersedes \cap reading[<<place, user>>].offered
        /\ links.contradicts = o.contradicts \cap reading[<<place, user>>].offered
    BY DEF CheckedLinks, Observations
  <1>2. Statement(links)
    BY <1>1, ProfileRecordsAssumption DEF Observations, Statement
  <1>3. /\ facts' = TrimFacts(TrimFactsOf(
                      Observed(facts, nextFact, user, links, Visibility(place), now), user))
        /\ nextFact' = IF Earlier(facts, user, o) = {} /\ ~Refused(facts, user, o)
                         THEN nextFact + 1 ELSE nextFact
    BY DEF Save
  <1> HIDE DEF links
  <1>4. Earlier(facts, user, o) = Earlier(facts, user, links)
    BY <1>1 DEF Earlier
  <1>5. Refused(facts, user, o) <=> Refused(facts, user, links)
    BY <1>4 DEF Refused
  <1>6. QED
    BY <1>1, <1>2, <1>3, <1>4, <1>5 DEF Saved, NextAfter, links

\* Offers are of records that the table has had.
LEMMA OfferedType ==
  ASSUME FactsInv, NEW place, NEW user
  PROVE  {f.id : f \in Offered(place, user)} \in SUBSET (1..(nextFact - 1))
  <1>1. \A f \in Offered(place, user) : f \in facts
    BY DEF Offered, FirstOfUser, RecordsOf
  <1>2. \A f \in facts : f.id \in 1..(nextFact - 1)
    BY DEF FactsInv, Table, FactRows
  <1>3. QED
    BY <1>1, <1>2

\* The table, the one part of the invariant that takes an argument, is preserved.
LEMMA TablePreserved ==
  ASSUME FactsInv, [Next]_vars
  PROVE  Table(facts', nextFact') /\ nextFact' \in {nextFact, nextFact + 1}
  <1>1. Table(facts, nextFact) /\ nextFact \in Nat \ {0} /\ nextFact \in Nat
    BY DEF FactsInv
  <1>2. ASSUME NEW place \in Places, NEW user \in Users,
               Read(place, user) \/ Abandon(place, user)
        PROVE  Table(facts', nextFact') /\ nextFact' \in {nextFact, nextFact + 1}
    BY <1>1, <1>2 DEF Read, Abandon, tables
  <1>3. ASSUME NEW place \in Places, NEW user \in Users, NEW now \in 1..MaxTime,
               Save(place, user, {}, now)
        PROVE  Table(facts', nextFact') /\ nextFact' \in {nextFact, nextFact + 1}
    <2>1. facts' = TrimFacts(TrimFactsOf(facts, user)) /\ nextFact' = nextFact
      BY <1>3 DEF Save
    <2>2. QED
      BY <1>1, <2>1, TrimmedFacts
  <1>4. ASSUME NEW place \in Places, NEW user \in Users, NEW now \in 1..MaxTime,
               NEW o \in Observations, Save(place, user, {o}, now)
        PROVE  Table(facts', nextFact') /\ nextFact' \in {nextFact, nextFact + 1}
    <2> DEFINE links == CheckedLinks(o, reading[<<place, user>>].offered)
    <2>1. /\ Statement(links)
          /\ facts' = Saved(facts, nextFact, user, links, Visibility(place), now)
          /\ nextFact' = NextAfter(facts, nextFact, user, links)
      BY <1>4, SaveStep
    <2>2. Visibility(place) \in {"dm", "guild"}
      BY DEF Visibility
    <2> HIDE DEF links
    <2>3. Table(facts', nextFact')
      BY <1>1, <2>1, <2>2, SavedFacts
    <2>4. QED
      BY <2>1, <2>3 DEF NextAfter
  <1>5. ASSUME NEW f \in facts, DeleteFact(f)
        PROVE  Table(facts', nextFact') /\ nextFact' \in {nextFact, nextFact + 1}
    <2>1. facts' = Without(facts, f) /\ nextFact' = nextFact
      BY <1>5 DEF DeleteFact, Command
    <2>2. QED
      BY <1>1, <2>1, WithoutFacts
  <1>6. ASSUME NEW user \in Users, Reset(user)
        PROVE  Table(facts', nextFact') /\ nextFact' \in {nextFact, nextFact + 1}
    <2>1. facts' \in SUBSET facts /\ nextFact' = nextFact
      BY <1>6 DEF Reset, Command
    <2>2. QED
      BY <1>1, <2>1, SmallerTable
  <1>7. CASE UNCHANGED vars
    BY <1>1, <1>7 DEF vars, tables
  <1>8. CASE Next
    BY <1>2, <1>3, <1>4, <1>5, <1>6, <1>8 DEF Next
  <1>9. QED
    BY <1>7, <1>8

\* The offers of a reflection under way, while the next id is n.
Reads(n) == [revision : Nat, offered : SUBSET (1..(n - 1))] \cup {Nothing}

\* Every action but Read only ends reflections; none touches a revision, or a
\* counter, in any other way than to add one to it.
LEMMA OthersPreserved ==
  ASSUME FactsInv, [Next]_vars, reading \in [Keys -> Reads(nextFact')]
  PROVE  /\ reading' \in [Keys -> Reads(nextFact')]
         /\ revision' \in [Users -> Nat] /\ saves' \in Nat /\ commands' \in Nat
  <1> DEFINE Kept == /\ reading' \in [Keys -> Reads(nextFact')]
                     /\ revision' \in [Users -> Nat] /\ saves' \in Nat /\ commands' \in Nat
  <1>1. revision \in [Users -> Nat] /\ saves \in Nat /\ commands \in Nat
    BY DEF FactsInv
  <1>2. ASSUME NEW place \in Places, NEW user \in Users, Read(place, user)
        PROVE  Kept
    <2> DEFINE read == [revision |-> revision[user],
                        offered  |-> {f.id : f \in Offered(place, user)}]
    <2>1. /\ reading' = [reading EXCEPT ![<<place, user>>] = read]
          /\ revision' = revision /\ saves' = saves /\ commands' = commands
          /\ nextFact' = nextFact
      BY <1>2 DEF Read, tables
    <2>2. {f.id : f \in Offered(place, user)} \in SUBSET (1..(nextFact' - 1))
      BY <2>1, OfferedType
    <2>3. read \in Reads(nextFact')
      BY <1>1, <2>2 DEF Reads
    <2> HIDE DEF read
    <2>4. QED
      BY <1>1, <2>1, <2>3
  <1>3. ASSUME NEW place \in Places, NEW user \in Users, Abandon(place, user)
        PROVE  Kept
    <2>1. /\ reading' = [reading EXCEPT ![<<place, user>>] = Nothing]
          /\ revision' = revision /\ saves' = saves /\ commands' = commands
      BY <1>3 DEF Abandon, tables
    <2>2. Nothing \in Reads(nextFact')
      BY DEF Reads
    <2>3. QED
      BY <1>1, <2>1, <2>2
  <1>4. ASSUME NEW place \in Places, NEW user \in Users, NEW now \in 1..MaxTime, NEW answer,
               Save(place, user, answer, now)
        PROVE  Kept
    <2>1. /\ reading' = [reading EXCEPT ![<<place, user>>] = Nothing]
          /\ saves' = saves + 1 /\ revision' = revision /\ commands' = commands
      BY <1>4 DEF Save
    <2>2. Nothing \in Reads(nextFact')
      BY DEF Reads
    <2>3. reading' \in [Keys -> Reads(nextFact')]
      BY <2>1, <2>2
    <2>4. QED
      BY <1>1, <2>1, <2>3
  <1>5. ASSUME NEW user \in Users, Command(user)
        PROVE  Kept
    <2>1. /\ reading' = reading /\ saves' = saves /\ commands' = commands + 1
          /\ revision' = [revision EXCEPT ![user] = @ + 1]
      BY <1>5 DEF Command
    <2>2. revision' \in [Users -> Nat]
      <3>1. revision[user] + 1 \in Nat
        BY <1>1
      <3>2. QED
        BY <1>1, <2>1, <3>1
    <2>3. reading' \in [Keys -> Reads(nextFact')]
      BY <2>1
    <2>4. QED
      BY <1>1, <2>1, <2>2, <2>3
  <1>6. CASE UNCHANGED vars
    <2>1. /\ reading' = reading /\ saves' = saves /\ commands' = commands
          /\ revision' = revision
      BY <1>6 DEF vars, tables
    <2>2. QED
      BY <1>1, <2>1
  <1>7. ASSUME NEW f \in facts, DeleteFact(f) PROVE Kept
    <2>1. f.user \in Users
      BY DEF FactsInv, Table, FactRows
    <2>2. Command(f.user)
      BY <1>7 DEF DeleteFact
    <2> HIDE DEF Kept
    <2>3. QED
      BY <1>5, <2>1, <2>2
  <1>8. ASSUME NEW user \in Users, Reset(user) PROVE Kept
    <2>1. Command(user)
      BY <1>8 DEF Reset
    <2> HIDE DEF Kept
    <2>2. QED
      BY <1>5, <2>1
  <1>9. CASE Next
    <2>1. CASE \E f \in facts : DeleteFact(f)
      BY <1>7, <2>1
    <2>2. CASE \E user \in Users : Reset(user)
      BY <1>8, <2>2
    <2>3. ASSUME NEW place \in Places, NEW user \in Users, NEW now \in 1..MaxTime,
                 \/ Save(place, user, {}, now)
                 \/ \E o \in Observations : Save(place, user, {o}, now)
          PROVE  Kept
      BY <1>4, <2>3
    <2>4. QED
      BY <1>2, <1>3, <1>9, <2>1, <2>2, <2>3 DEF Next
  <1>10. QED
    BY <1>6, <1>9

\* Every step keeps it.
LEMMA FactsInvNext ==
  ASSUME FactsInv, [Next]_vars
  PROVE  FactsInv'
  <1>1. Table(facts', nextFact') /\ nextFact' \in {nextFact, nextFact + 1}
    BY TablePreserved
  <1>2. nextFact \in Nat \ {0}
    BY DEF FactsInv
  <1>3. nextFact' \in Nat \ {0} /\ 1..(nextFact - 1) \subseteq 1..(nextFact' - 1)
    <2>1. PICK m : m = nextFact' /\ m \in {nextFact, nextFact + 1}
      BY <1>1
    <2>2. PICK n \in Nat \ {0} : n = nextFact
      BY <1>2
    <2>3. m \in Nat \ {0} /\ m \in {n, n + 1}
      BY <2>1, <2>2
    <2>4. 1..(n - 1) \subseteq 1..(m - 1)
      BY <2>3
    <2>5. QED
      BY <2>1, <2>2, <2>3, <2>4
  <1>4. reading \in [Keys -> Reads(nextFact')]
    <2>1. Reads(nextFact) \subseteq Reads(nextFact')
      BY <1>3 DEF Reads
    <2>2. reading \in [Keys -> Reads(nextFact)]
      BY DEF FactsInv, Reads
    <2>3. QED
      BY <2>1, <2>2
  <1>5. /\ reading' \in [Keys -> Reads(nextFact')]
        /\ revision' \in [Users -> Nat] /\ saves' \in Nat /\ commands' \in Nat
    BY <1>4, OthersPreserved
  <1>6. QED
    BY <1>1, <1>3, <1>5 DEF FactsInv, Reads

\* The invariant holds of every reachable state.
LEMMA FactsInvHolds == Spec => []FactsInv
  BY FactsInvInit, FactsInvNext, PTL DEF Spec

\* Every variable keeps its type; above all, no save, correction or deletion
\* leaves two records of a text with one user, or a successor to what is active.
THEOREM TypeCorrect == Spec => []TypeOK
  <1>1. FactsInv => TypeOK
    BY DEF FactsInv, TypeOK, Table, FactRows, Unique
  <1>2. QED
    BY <1>1, FactsInvHolds, PTL

\* However often what had been corrected is observed again, corrections lead
\* somewhere.
THEOREM ChainsAlwaysEnd == Spec => []ChainsEnd
  <1>1. FactsInv => ChainsEnd
    BY DEF FactsInv, ChainsEnd, Table, Chains
  <1>2. QED
    BY <1>1, FactsInvHolds, PTL

\* What a step without an observation leaves is as it was, in its status.
LEMMA StatusKept ==
  ASSUME FactsInv, [Next]_vars,
         \A place \in Places, user \in Users, now \in 1..MaxTime, o \in Observations :
           ~Save(place, user, {o}, now),
         NEW f \in facts, NEW g \in facts', f.id = g.id
  PROVE  f.status = g.status
  <1>1. Table(facts, nextFact) /\ nextFact \in Nat
    BY DEF FactsInv
  <1>2. CASE facts' \subseteq facts
    BY <1>1, <1>2 DEF Table, Unique
  <1>3. ASSUME NEW place \in Places, NEW user \in Users, NEW now \in 1..MaxTime,
               \/ Read(place, user) \/ Abandon(place, user) \/ Save(place, user, {}, now)
        PROVE  facts' \subseteq facts
    <2>1. CASE facts' = TrimFacts(TrimFactsOf(facts, user))
      BY <1>1, <2>1, TrimmedFacts
    <2>2. facts' = TrimFacts(TrimFactsOf(facts, user)) \/ facts' = facts
      BY <1>3 DEF Read, Abandon, Save, tables
    <2>3. QED
      BY <2>1, <2>2
  <1>4. ASSUME NEW d \in facts, DeleteFact(d)
        PROVE  f.status = g.status
    <2>1. facts' = Without(facts, d)
      BY <1>4 DEF DeleteFact
    <2>2. QED
      BY <1>1, <2>1, WithoutFacts
  <1>5. ASSUME NEW user \in Users, Reset(user)
        PROVE  facts' \subseteq facts
    BY <1>5 DEF Reset
  <1>6. CASE UNCHANGED vars
    BY <1>2, <1>6 DEF vars, tables
  <1>7. 1 \in 1..MaxTime \/ facts = {}
    <2>1. f.seen \in 1..MaxTime
      BY <1>1 DEF Table, FactRows
    <2>2. QED
      BY <2>1, ProfileRecordsAssumption
  <1>8. CASE Next
    BY <1>2, <1>3, <1>4, <1>5, <1>7, <1>8 DEF Next
  <1>9. QED
    BY <1>6, <1>8

\* A record that is superseded has an active one in its place.
LEMMA CorrectionStep ==
  ASSUME FactsInv, [Next]_vars,
         NEW f \in facts, NEW g \in facts', f.id = g.id, Active(f), g.status = "superseded"
  PROVE  \E h \in facts' : h.id = g.by /\ Active(h)
  <1>1. f # g /\ f.status # g.status /\ ~Active(g)
    BY DEF Active
  <1>2. PICK place \in Places, user \in Users, now \in 1..MaxTime, o \in Observations :
          Save(place, user, {o}, now)
    BY <1>1, StatusKept
  <1> DEFINE links == CheckedLinks(o, reading[<<place, user>>].offered)
  <1>3. /\ Statement(links)
        /\ facts' = Saved(facts, nextFact, user, links, Visibility(place), now)
    BY <1>2, SaveStep
  <1>4. Table(facts, nextFact) /\ nextFact \in Nat \ {0}
    BY DEF FactsInv
  <1>5. Visibility(place) \in {"dm", "guild"}
    BY DEF Visibility
  <1> HIDE DEF links
  <1>6. PICK h \in facts' : Active(h) /\ (g.status = "superseded" => h.id = g.by)
    BY <1>1, <1>3, <1>4, <1>5, SaveEffect
  <1>7. QED
    BY <1>6

\* A correction stands: the save that makes it may trim the table, but never the
\* record that took the place of another.
THEOREM CorrectionsAlwaysStand == Spec => CorrectionStands
  <1>1. ASSUME FactsInv, [Next]_vars
        PROVE  [\A f \in facts, g \in facts' :
                  f.id = g.id /\ Active(f) /\ g.status = "superseded" =>
                    \E h \in facts' : h.id = g.by /\ Active(h)]_vars
    BY <1>1, CorrectionStep
  <1>2. QED
    BY <1>1, FactsInvHolds, PTL DEF Spec, CorrectionStands

\* Only the save of a place and user ends their reflection and counts as a save.
LEMMA SavedStep ==
  ASSUME FactsInv, [Next]_vars, NEW place \in Places, NEW user \in Users, SavedBy(place, user)
  PROVE  \E now \in 1..MaxTime :
           \/ Save(place, user, {}, now)
           \/ \E o \in Observations : Save(place, user, {o}, now)
  <1>1. saves \in Nat /\ saves' # saves
    BY DEF FactsInv, SavedBy
  <1>2. \A p \in Places, u \in Users : ~Read(p, u) /\ ~Abandon(p, u)
    BY <1>1 DEF Read, Abandon
  <1>3. \A f \in facts : ~DeleteFact(f)
    BY <1>1 DEF DeleteFact, Command
  <1>4. \A u \in Users : ~Reset(u)
    BY <1>1 DEF Reset, Command
  <1>5. Next
    BY <1>1 DEF vars
  <1>6. PICK p \in Places, u \in Users, now \in 1..MaxTime :
          \/ Save(p, u, {}, now)
          \/ \E o \in Observations : Save(p, u, {o}, now)
    BY <1>2, <1>3, <1>4, <1>5 DEF Next
  <1>7. reading' = [reading EXCEPT ![<<p, u>>] = Nothing]
    BY <1>6 DEF Save
  <1>8. /\ <<place, user>> \in Keys /\ DOMAIN reading = Keys
        /\ reading[<<place, user>>] # Nothing /\ reading'[<<place, user>>] = Nothing
    BY DEF FactsInv, SavedBy, Keys
  <1>9. <<p, u>> = <<place, user>>
    BY <1>7, <1>8
  <1>10. p = place /\ u = user
    BY <1>9
  <1>11. QED
    BY <1>6, <1>10

\* What one save may do to the records of other users, of other kinds and topics, and
\* to those that the provider was not shown.
LEMMA SaveReachesStep ==
  ASSUME FactsInv, [Next]_vars, NEW place \in Places, NEW user \in Users, SavedBy(place, user)
  PROVE  /\ \A f \in facts \ facts' : f.user = user
         /\ \A f \in facts, g \in facts' :
              f.id = g.id /\ f # g /\ ~Active(g) =>
                /\ Active(f) /\ f.id \in reading[<<place, user>>].offered
                /\ \E h \in facts' : h.id # g.id /\ Active(h) /\ h.user = user
                                       /\ Subject[h.text] = Subject[g.text]
         /\ place = DM => \A g \in facts' :
              g.visibility = "guild" => \E f \in facts : f.id = g.id /\ f.visibility = "guild"
  <1>1. Table(facts, nextFact) /\ nextFact \in Nat \ {0} /\ nextFact \in Nat
    BY DEF FactsInv
  <1>2. PICK now \in 1..MaxTime :
          \/ Save(place, user, {}, now)
          \/ \E o \in Observations : Save(place, user, {o}, now)
    BY SavedStep
  <1>3. CASE Save(place, user, {}, now)
    <2>1. facts' = TrimFacts(TrimFactsOf(facts, user))
      BY <1>3 DEF Save
    <2>2. facts' \subseteq facts /\ \A f \in facts \ facts' : f.user = user
      BY <1>1, <2>1, TrimmedFacts
    <2>3. \A f \in facts, g \in facts' : f.id = g.id => f = g
      BY <1>1, <2>2 DEF Table, Unique
    <2>4. QED
      BY <2>2, <2>3
  <1>4. ASSUME NEW o \in Observations, Save(place, user, {o}, now)
        PROVE  /\ \A f \in facts \ facts' : f.user = user
               /\ \A f \in facts, g \in facts' :
                    f.id = g.id /\ f # g /\ ~Active(g) =>
                      /\ Active(f) /\ f.id \in reading[<<place, user>>].offered
                      /\ \E h \in facts' : h.id # g.id /\ Active(h) /\ h.user = user
                                             /\ Subject[h.text] = Subject[g.text]
               /\ place = DM => \A g \in facts' :
                    g.visibility = "guild" => \E f \in facts : f.id = g.id /\ f.visibility = "guild"
    <2> DEFINE links == CheckedLinks(o, reading[<<place, user>>].offered)
    <2>1. /\ Statement(links)
          /\ links.supersedes \subseteq reading[<<place, user>>].offered
          /\ links.contradicts \subseteq reading[<<place, user>>].offered
          /\ facts' = Saved(facts, nextFact, user, links, Visibility(place), now)
      BY <1>4, SaveStep
    <2>2. Visibility(place) \in {"dm", "guild"} /\ (place = DM => Visibility(place) = "dm")
      BY DEF Visibility
    <2> HIDE DEF links
    <2>3. /\ \A f \in facts \ facts' : f.user = user
          /\ \A f \in facts, g \in facts' :
               f.id = g.id /\ f # g /\ ~Active(g) =>
                 /\ Active(f) /\ (f.id \in links.supersedes \/ f.id \in links.contradicts)
                 /\ \E h \in facts' : /\ h.id # g.id /\ Active(h) /\ h.user = user
                                      /\ Subject[h.text] = Subject[g.text]
                                      /\ g.status = "superseded" => h.id = g.by
          /\ Visibility(place) = "dm" => \A g \in facts' :
               g.visibility = "guild" => \E f \in facts : f.id = g.id /\ f.visibility = "guild"
      BY <1>1, <2>1, <2>2, SaveEffect
    <2>4. QED
      BY <2>1, <2>2, <2>3
  <1>5. QED
    BY <1>2, <1>3, <1>4

\* A save reaches the records of its user, sets aside those of its payload only,
\* and never shows in guilds what was said in direct messages: whatever other
\* reflections and commands did since the payload was read.
THEOREM SavesReachOnlyTheirs == Spec => SaveReaches
  <1>1. ASSUME FactsInv, [Next]_vars
        PROVE  [\A place \in Places, user \in Users : SavedBy(place, user) =>
       /\ \A f \in facts \ facts' : f.user = user
       /\ \A f \in facts, g \in facts' :
            f.id = g.id /\ f # g /\ ~Active(g) =>
              /\ Active(f) /\ f.id \in reading[<<place, user>>].offered
              /\ \E h \in facts' : h.id # g.id /\ Active(h) /\ h.user = user
                                     /\ Subject[h.text] = Subject[g.text]
       /\ place = DM => \A g \in facts' :
            g.visibility = "guild" => \E f \in facts : f.id = g.id /\ f.visibility = "guild"]_vars
    BY <1>1, SaveReachesStep
  <1>2. QED
    BY <1>1, FactsInvHolds, PTL DEF Spec, SaveReaches
==============================================================================
