------------------------------- MODULE Erasure -------------------------------
(***************************************************************************)
(* What agentbot promises about deletion, apart from how it keeps the      *)
(* promise.  Work items (chat turns, reflections) are admitted under a key *)
(* (a user in one guild, or a user everywhere) and may then leave traces.  *)
(* An erasure of a key removes the traces it covers, and an erasure or a   *)
(* change of the storage preference voids all the work admitted before it: *)
(* a voided item leaves no further trace, however long it stays in flight. *)
(***************************************************************************)
CONSTANTS Items,     \* the work items
          Keys,      \* what an erasure is about
          NoKey,     \* the claim of an item not yet admitted, and no key
          Facets,    \* the kinds of trace an item leaves
          Erasable   \* the facets that an erasure removes

VARIABLES claim,     \* the key each item was admitted under
          void,      \* the items that may leave no further trace
          traces     \* pairs of an item and a facet

evars == <<claim, void, traces>>

EInit ==
  /\ claim = [i \in Items |-> NoKey]
  /\ void = {}
  /\ traces = {}

\* An item is admitted, or goes on with its work.  It may leave traces of its
\* own; ceilings may make room by dropping any others.
Work(i, k) ==
  /\ i \notin void
  /\ claim[i] \in {NoKey, k}
  /\ claim' = [claim EXCEPT ![i] = k]
  /\ traces' \subseteq traces \cup ({i} \X Facets)
  /\ UNCHANGED void

Discard ==
  /\ traces' \subseteq traces
  /\ UNCHANGED <<claim, void>>

Claimed(k) == {i \in Items : claim[i] = k}

Revoke(k) ==
  /\ void' = void \cup Claimed(k)
  /\ UNCHANGED <<claim, traces>>

Erase(k) ==
  /\ void' = void \cup Claimed(k)
  /\ traces' = traces \ (Claimed(k) \X Erasable)
  /\ UNCHANGED claim

ENext ==
  \/ \E i \in Items, k \in Keys : Work(i, k)
  \/ Discard
  \/ \E k \in Keys : Revoke(k) \/ Erase(k)

ESpec == EInit /\ [][ENext]_evars
==============================================================================
