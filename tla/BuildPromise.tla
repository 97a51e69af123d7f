---------------------------- MODULE BuildPromise ----------------------------
(***************************************************************************)
(* What GET /builder/status promises the reader of one build record: a     *)
(* build is queued, then runs from its first event, its progress moves on  *)
(* one event at a time until all of it is there, and a complete build      *)
(* stays complete.  Only an error or a lost instance makes it start over.  *)
(***************************************************************************)
EXTENDS Naturals

CONSTANTS
  Steps,   \* events a run may have
  Ends     \* those after which it may be complete

VARIABLES status, done

Init == status = "absent" /\ done = 0

Queue ==
  /\ status = "absent"
  /\ status' = "queued" /\ done' = 0

Begin ==
  /\ status \in {"queued", "running", "error"}
  /\ status' = "running" /\ done' = 0

Advance ==
  /\ status = "running" /\ done < Steps
  /\ done' = done + 1
  /\ UNCHANGED status

Finish ==
  /\ status = "running" /\ done \in Ends
  /\ status' = "complete"
  /\ UNCHANGED done

GiveUp ==
  /\ status = "running"
  /\ status' = "error"
  /\ UNCHANGED done

Next == Queue \/ Begin \/ Advance \/ Finish \/ GiveUp

Spec == Init /\ [][Next]_<<status, done>>
=============================================================================
