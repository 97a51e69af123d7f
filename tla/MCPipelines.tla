---------------------------- MODULE MCPipelines ----------------------------
(***************************************************************************)
(* The two pipelines of the orchestrator that run to an end, builds and    *)
(* jobs, on small instances.  They share no state: a behaviour is one of   *)
(* either, while the other does not start (and owes nothing by fairness).  *)
(***************************************************************************)
EXTENDS BuildDispatch, JobPipeline

CONSTANT Pipelines   \* those a configuration is about

VARIABLE focus   \* the pipeline this behaviour is about

PipelinesInit == focus \in Pipelines /\ Init /\ JobInit

PipelinesNext ==
  /\ UNCHANGED focus
  /\ \/ focus = "build" /\ Next /\ UNCHANGED jobVars
     \/ focus = "job" /\ JobNext /\ UNCHANGED vars

\* Builds alone; jobs are neither started nor due.
BuildsSpec == PipelinesInit /\ [][PipelinesNext]_<<focus, vars, jobVars>> /\ Fairness

PipelinesSpec ==
  /\ PipelinesInit /\ [][PipelinesNext]_<<focus, vars, jobVars>>
  /\ Fairness /\ JobFairness
=============================================================================
