-------------------------------- MODULE Rows --------------------------------
(***************************************************************************)
(* Ceilings on the rows of a SQLite table of agentbot/memory.py.  A row is *)
(* a record with an AUTOINCREMENT "id": a larger id is a later insert, and *)
(* an id is never used twice.                                              *)
(***************************************************************************)
EXTENDS Integers, FiniteSets

\* Mutant: the least recent rows stay.
LeastRecent(S, n) == {r \in S : Cardinality({q \in S : q.id < r.id}) < n}

\* DELETE ... WHERE id <= (SELECT id ... ORDER BY id DESC LIMIT 1 OFFSET n):
\* the n most recent rows of S stay.
Newest(S, n) == {r \in S : Cardinality({q \in S : q.id > r.id}) < n}

\* The _trim_* methods return at once when the limit is not positive.
TrimRows(S, n) == IF n = 0 THEN S ELSE Newest(S, n)

\* A trim confined to the rows T of the table S (one scope, one user, ...).
TrimGroup(S, T, n) == (S \ T) \cup TrimRows(T, n)
=============================================================================
