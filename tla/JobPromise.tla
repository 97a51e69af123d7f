----------------------------- MODULE JobPromise -----------------------------
(***************************************************************************)
(* The promise of one job to its readers: GET status and artifacts, and    *)
(* the session.  Once accepted it is open until the pipeline has decided   *)
(* on a result; the store shows that result or an open job, and the        *)
(* session is told once, of the result, when the store shows it.  A result *)
(* that the session was told does not change.  One that was complete may   *)
(* be withdrawn for an error before that, when the store raised on it,     *)
(* even though it shows it.  A document that an approve call writes back   *)
(* may hide the result or show a withdrawn one, never make up another.     *)
(***************************************************************************)
EXTENDS Naturals

VARIABLES
  result,    \* what the pipeline decided
  shown,     \* what the store shows
  told,      \* the verdict the session heard
  rewritten, \* an approve call has written the document
  withdrawn  \* the results that were taken back

vars == <<result, shown, told, rewritten, withdrawn>>

Absent == [phase |-> "absent", files |-> 0]
Open == [phase |-> "open", files |-> 0]
Results == [phase : {"complete", "error"}, files : Nat]

Init ==
  /\ result = Absent /\ shown = Absent /\ told = "none" /\ rewritten = FALSE /\ withdrawn = {}

Accept ==
  /\ result = Absent
  /\ result' = Open /\ shown' = Open
  /\ UNCHANGED <<told, rewritten, withdrawn>>

\* The result may be stored as it is decided, or later.
Decide ==
  /\ result = Open
  /\ result' \in Results /\ shown' \in {shown, result'}
  /\ UNCHANGED <<told, rewritten, withdrawn>>

Store ==
  /\ result \in Results
  /\ shown' = result
  /\ UNCHANGED <<result, told, rewritten, withdrawn>>

\* Once, before anybody was told: the error is stored in the same step.
Withdraw ==
  /\ result \in Results /\ result.phase = "complete" /\ told = "none" /\ withdrawn = {}
  /\ result' = [result EXCEPT !.phase = "error"] /\ shown' = result'
  /\ withdrawn' = {result}
  /\ UNCHANGED <<told, rewritten>>

Tell ==
  /\ result \in Results /\ told = "none"
  /\ shown = result \/ rewritten
  /\ told' = result.phase
  /\ UNCHANGED <<result, shown, rewritten, withdrawn>>

Rewrite ==
  /\ shown # Absent
  /\ shown' \in {Open, result} \cup withdrawn /\ rewritten' = TRUE
  /\ UNCHANGED <<result, told, withdrawn>>

Next == Accept \/ Decide \/ Store \/ Withdraw \/ Tell \/ Rewrite

Spec == Init /\ [][Next]_vars
=============================================================================
