---------------------------- MODULE ProfileTable ----------------------------
(***************************************************************************)
(* The table profile_facts of agentbot/memory.py: how an observation of a  *)
(* user becomes a record, or more evidence for one, and takes the place of *)
(* the records that it corrects.                                           *)
(*                                                                         *)
(* A record is [id, user, text, evidence, confident, status, by,           *)
(* visibility, seen].  "by" is superseded_by_id, "seen" last_seen_at.  The *)
(* text determines kind and topic (Subject) and, since the parser accepts  *)
(* facts as direct and impressions as inferred only, the provenance        *)
(* (Facts).  "confident" is a confidence of 0.65 or more.                  *)
(***************************************************************************)
EXTENDS Rows, Sequences

CONSTANTS Texts,            \* what can be said of a user
          Facts,            \* texts of kind "fact", whose provenance is direct
          Subject,          \* kind and topic of each text
          EvidenceCap,      \* 20
          MaxFactsPerUser,  \* MAX_PROFILE_FACTS_PER_USER; 0 is no ceiling
          MaxFacts,         \* MAX_TOTAL_PROFILE_FACTS; 0 is no ceiling
          Nothing           \* NULL

ASSUME ProfileTableAssumption ==
  /\ Facts \subseteq Texts
  /\ DOMAIN Subject = Texts
  /\ EvidenceCap \in Nat \ {0, 1}
  /\ MaxFactsPerUser \in Nat /\ MaxFacts \in Nat
  /\ Nothing \notin Nat

Active(f) == f.status \in {"tentative", "confirmed"}

-----------------------------------------------------------------------------
(* The trims.                                                              *)

Bit(b) == IF b THEN 1 ELSE 0

\* What the ORDER BY of every query of the table has in common.
Strength(f) == <<Bit(f.text \in Facts), f.evidence, Bit(f.confident), f.seen, f.id>>

\* a comes before b in descending order.
Precedes(a, b) ==
  \E i \in DOMAIN a : a[i] > b[i] /\ \A j \in DOMAIN a : j < i => a[j] = b[j]

RankOfUser(f) ==
  <<IF f.status = "confirmed" THEN 2 ELSE Bit(f.status = "tentative")>> \o Strength(f)
RankOverall(f) == <<Bit(f.status = "confirmed")>> \o Strength(f)

\* ORDER BY ... LIMIT n
FirstOfUser(rows, n) ==
  {f \in rows : Cardinality({g \in rows : Precedes(RankOfUser(g), RankOfUser(f))}) < n}
FirstOverall(rows, n) ==
  {f \in rows : Cardinality({g \in rows : Precedes(RankOverall(g), RankOverall(f))}) < n}

RecordsOf(rows, user) == {f \in rows : f.user = user}

TrimFactsOf(rows, user) ==
  IF MaxFactsPerUser = 0 THEN rows
  ELSE (rows \ RecordsOf(rows, user)) \cup FirstOfUser(RecordsOf(rows, user), MaxFactsPerUser)

TrimFacts(rows) == IF MaxFacts = 0 THEN rows ELSE FirstOverall(rows, MaxFacts)

-----------------------------------------------------------------------------
(* One observation o = [text, confident, supersedes, contradicts].         *)

Earlier(rows, user, o) == {f \in rows : f.user = user /\ f.text = o.text}

NewRecord(id, user, o, visibility, now) ==
  [id |-> id, user |-> user, text |-> o.text, evidence |-> 1, confident |-> o.confident,
   status |-> IF o.text \in Facts THEN "confirmed" ELSE "tentative", by |-> Nothing,
   visibility |-> visibility, seen |-> now]

\* Mutant: a record that is observed again keeps its link.
MergedKeepingLink(f, o, visibility, now) ==
  LET evidence  == IF f.evidence < EvidenceCap THEN f.evidence + 1 ELSE EvidenceCap
      confident == f.confident \/ o.confident
  IN  [f EXCEPT !.evidence = evidence, !.confident = confident,
         !.status = IF f.text \in Facts \/ (evidence >= 2 /\ confident)
                      THEN "confirmed" ELSE "tentative",
         !.visibility = IF now >= f.seen THEN visibility ELSE f.visibility,
         !.seen = IF now >= f.seen THEN now ELSE f.seen]

\* Observed again, a record is active again, whatever had become of it.  It is
\* seen where it was seen last by the clock of the host, which may be set back.
Merged(f, o, visibility, now) ==
  LET evidence  == IF f.evidence < EvidenceCap THEN f.evidence + 1 ELSE EvidenceCap
      confident == f.confident \/ o.confident
  IN  [f EXCEPT !.evidence = evidence, !.confident = confident,
         !.status = IF f.text \in Facts \/ (evidence >= 2 /\ confident)
                      THEN "confirmed" ELSE "tentative",
         !.by = Nothing,
         !.visibility = IF now >= f.seen THEN visibility ELSE f.visibility,
         !.seen = IF now >= f.seen THEN now ELSE f.seen]

\* The links of o reach active records of the same user, kind and topic.
Linked(f, record) ==
  f.id # record.id /\ f.user = record.user /\ Subject[f.text] = Subject[record.text] /\ Active(f)

Corrected(f, record, o) ==
  IF Linked(f, record) /\ f.id \in o.supersedes
    THEN [f EXCEPT !.status = "superseded", !.by = record.id]
  ELSE IF Linked(f, record) /\ f.id \in o.contradicts
    THEN [f EXCEPT !.status = "contradicted", !.by = Nothing]
  ELSE f

\* The table with the record of o in place of an earlier one, which corrects others.
WithRecord(rows, earlier, record, o) ==
  {Corrected(f, record, o) : f \in rows \ earlier} \cup {record}

\* A table that is full takes no new record.
Refused(rows, user, o) ==
  MaxFacts > 0 /\ Cardinality(rows) >= MaxFacts /\ Earlier(rows, user, o) = {}

RecordOf(rows, id, user, o, visibility, now) ==
  LET earlier == Earlier(rows, user, o)
  IN  IF earlier = {} THEN NewRecord(id, user, o, visibility, now)
      ELSE Merged(CHOOSE f \in earlier : TRUE, o, visibility, now)

\* Mutant: the user's records are trimmed before the corrections.
ObservedTrimmingFirst(rows, id, user, o, visibility, now) ==
  LET record == RecordOf(rows, id, user, o, visibility, now)
      kept   == TrimFactsOf((rows \ Earlier(rows, user, o)) \cup {record}, user)
  IN  IF Refused(rows, user, o) THEN rows
      ELSE {IF f = record THEN f ELSE Corrected(f, record, o) : f \in kept}

\* _upsert_profile_record_no_commit, with id the next of the table.  An
\* observation that is refused corrects nothing.
Observed(rows, id, user, o, visibility, now) ==
  LET record == RecordOf(rows, id, user, o, visibility, now)
  IN  IF Refused(rows, user, o) THEN rows
      ELSE TrimFactsOf(WithRecord(rows, Earlier(rows, user, o), record, o), user)

\* delete_social_record: what the deleted record had superseded names nothing.
Without(rows, f) ==
  {[g EXCEPT !.by = IF g.user = f.user /\ g.by = f.id THEN Nothing ELSE g.by] : g \in rows \ {f}}
=============================================================================
