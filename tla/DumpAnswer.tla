----------------------------- MODULE DumpAnswer -----------------------------
(***************************************************************************)
(* The promise of `dump`, in one step: the query is answered, whatever     *)
(* collector was chosen, with the rows IsAnswer describes.                 *)
(***************************************************************************)
EXTENDS Events

VARIABLES
  trace,      \* the decoded trace of each selected signal
  query,      \* the parsed command line
  rows,       \* the rows returned; empty until answered
  truncated,  \* the truncation flag returned
  answered    \* whether the collector has returned

vars == <<trace, query, rows, truncated, answered>>

Init ==
  /\ trace \in [Sid -> Traces]
  /\ query \in Queries
  /\ rows = << >>
  /\ truncated = FALSE
  /\ answered = FALSE

Answer ==
  /\ ~answered
  /\ answered' = TRUE
  /\ IsAnswer(trace, query, rows', truncated')
  /\ UNCHANGED <<trace, query>>

Spec == Init /\ [][Answer]_vars
=============================================================================
