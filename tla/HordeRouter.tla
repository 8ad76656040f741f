----------------------------- MODULE HordeRouter -----------------------------
(***************************************************************************)
(* HordeRouter of agentbot/horde_router.py: which model a generation is    *)
(* sent to.  A selection is kept for each task and scope in a bounded,     *)
(* least recently used table; one recent failure demotes its model.        *)
(*                                                                         *)
(* Which models have workers may change with every look at the metadata,   *)
(* so the metadata is no variable.  What orders the candidates otherwise   *)
(* (tags, expected wait, workers, size) is abstracted: any may come first. *)
(***************************************************************************)
EXTENDS Integers, FiniteSets, SequencesExt

CONSTANTS Models,         \* names of models that have a usable reference row
          MaxSelections,  \* HORDE_ROUTER_MAX_SCOPES
          Nothing         \* no failure

ASSUME HordeRouterAssumption == MaxSelections \in Nat \ {0}

VARIABLES
  sticky,   \* _selections: [key, model] entries, least recently used first
  failure   \* _last_failure: [model, task], while it demotes its model

router == <<sticky, failure>>

RouterInit == sticky = <<>> /\ failure = Nothing

\* Mutant: the retry looks its selection up like a first attempt.
CandidatesOfAnyAttempt(models, excluded) == models

\* _candidates
Candidates(models, excluded) == models \ excluded

\* The selection of a key that is kept, if its model is a candidate.
Kept(key, candidates) ==
  {e.model : e \in {s \in ToSet(sticky) : s.key = key}} \cap candidates

\* The models that select may return.  A chat prefers those whose expected wait
\* is within its budget (timely), and everything a model that has not just failed.
Eligible(key, candidates, timely) ==
  LET preferred == IF candidates \cap timely # {} THEN candidates \cap timely
                                                  ELSE candidates
      healthy   == IF failure = Nothing THEN preferred ELSE preferred \ {failure.model}
  IN  CASE Kept(key, candidates) # {} -> Kept(key, candidates)
        [] Kept(key, candidates) = {} /\ healthy # {} -> healthy
        [] OTHER -> preferred

\* clear_selection: a key has one entry.
Cleared(key) == RemoveFirstMatch(sticky, LAMBDA e : e.key = key)

\* Mutant: nothing bounds the table.
SelectedToo(key, model) == Append(Cleared(key), [key |-> key, model |-> model])

\* The table after the selection of model for key.
Selected(key, model) ==
  LET entries == Append(Cleared(key), [key |-> key, model |-> model])
      surplus == Len(entries) - MaxSelections
  IN  IF surplus > 0 THEN SubSeq(entries, surplus + 1, Len(entries)) ELSE entries

\* record_result
Failed(model, task) == [model |-> model, task |-> task]
Succeeded(model, task) == IF failure = Failed(model, task) THEN Nothing ELSE failure

\* _evict_idle_selections: the entries used longest ago are idle first.
EvictIdle == sticky # <<>> /\ sticky' = Tail(sticky) /\ UNCHANGED failure

\* Five minutes after a failure.
FailureFades == failure # Nothing /\ failure' = Nothing /\ UNCHANGED sticky
=============================================================================
