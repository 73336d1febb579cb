-------------------------- MODULE OutcomeRegister --------------------------
(***************************************************************************)
(* What every `createIfAbsent` collection of the service promises its      *)
(* callers: one row per key, written once, never rewritten and never       *)
(* removed.  changeExecutions (keyed by reviewId), githubPublications      *)
(* (keyed by executionId) and deployments (keyed by publicationId) are     *)
(* such registers; the modules that model those stages implement this      *)
(* specification.                                                          *)
(***************************************************************************)
CONSTANTS
  Key,      \* what the collection's unique index is on
  Outcome,  \* the rows that may be recorded
  None      \* no row yet

VARIABLE row

Init == row = [k \in Key |-> None]

\* A row appears for a key that had none, and only there.
Record(k) ==
  /\ row[k] = None
  /\ row'[k] \in Outcome
  /\ row' = [row EXCEPT ![k] = row'[k]]

Next == \E k \in Key : Record(k)

Spec == Init /\ [][Next]_row
=============================================================================
