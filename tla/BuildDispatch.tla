--------------------------- MODULE BuildDispatch ---------------------------
(***************************************************************************)
(* How a build gets from POST /builder/start to a durable result.          *)
(*                                                                         *)
(* One key of the durable build store ("build", session_id) is modelled,   *)
(* with everything that may write it: the /start handlers that name the    *)
(* key, the Cloud Tasks deliveries of their tasks to POST /builder/_run,   *)
(* and the in-process fallback tasks.  Keys do not interact.               *)
(*                                                                         *)
(* Simplifications.                                                        *)
(*  - A build is Steps events; an event stands for any of the callbacks of *)
(*    execute_parallel_build that mutate the local working copy and write  *)
(*    it through (module ParallelBuild has the events themselves).         *)
(*  - worker_started_at is kept as its age in ticks, saturating at Stale:  *)
(*    the code only compares time.time() - worker_started_at to the        *)
(*    window.                                                              *)
(*  - Bounds: Runs are the executions alive at one time, MaxFaults is the  *)
(*    number of faults (members of Faults) in a behaviour.                 *)
(***************************************************************************)
EXTENDS Naturals

CONSTANTS
  Reqs,        \* the /start calls that name this session_id
  Runs,        \* slots for executions of _run_parallel_build
  NoReq,       \* not a member of Reqs
  Steps,       \* events a successful build emits
  Stale,       \* _WORKER_STALE_SECONDS, in ticks
  Deadline,    \* _DISPATCH_DEADLINE, in ticks
  Backoff,     \* ticks Cloud Tasks waits before it retries a failed attempt
  Faults,      \* what may go wrong, a subset of FaultKinds
  MaxFaults    \* how often

FaultKinds ==
  { "crash",       \* the instance that runs a handler or a build dies
    "lostWrite",   \* durable_store.put raises and _persist_build swallows it
    "failedRead",  \* durable_store.get raises inside the worker
    "rejected",    \* not configured, no access token, or Cloud Tasks refuses
    "lostReply",   \* Cloud Tasks took the task but the client timed out
    "duplicate",   \* a task is delivered again while an attempt is in flight
    "slow",        \* an attempt outlives its dispatch deadline
    "buildError" } \* execute_parallel_build raises

ASSUME ConstantsAssumption ==
  /\ NoReq \notin Reqs
  /\ Steps \in Nat
  /\ Stale \in Nat \ {0}
  /\ Deadline \in Nat \ {0}
  /\ Backoff \in Nat
  /\ Faults \subseteq FaultKinds
  /\ MaxFaults \in Nat

VARIABLES
  rec,     \* the durable record of the key
  req,     \* where each /start handler is
  task,    \* the Cloud Tasks task of each /start call
  wait,    \* ticks before the queue may deliver the task again
  pc,      \* where each execution is
  job,     \* the /start call whose payload an execution carries
  link,    \* "open": Cloud Tasks awaits its answer; "dropped": no longer; "none": inline
  sent,    \* ticks since the attempt was dispatched
  age,     \* ticks since the execution stamped its claim
  step,    \* events in the execution's local working copy
  faults   \* faults so far

queueVars == <<task, wait>>
runVars == <<pc, job, link, sent, age, step>>
vars == <<rec, req, task, wait, pc, job, link, sent, age, step, faults>>

Document == [ status : {"absent", "queued", "running", "complete", "error"},
              age : 0..Stale, step : 0..Steps, job : Reqs \cup {NoReq} ]

TypeOK ==
  /\ rec \in Document
  /\ req \in [Reqs -> {"new", "persisted", "accepted", "refused", "done", "failed"}]
  /\ task \in [Reqs -> {"none", "queued", "acked"}]
  /\ wait \in [Reqs -> 0..Backoff]
  /\ pc \in [Runs -> {"idle", "guard", "claim", "build", "check"}]
  /\ job \in [Runs -> Reqs \cup {NoReq}]
  /\ link \in [Runs -> {"none", "open", "dropped"}]
  /\ sent \in [Runs -> 0..Deadline]
  /\ age \in [Runs -> 0..Stale]
  /\ step \in [Runs -> 0..Steps]
  /\ faults \in 0..MaxFaults

Init ==
  /\ rec = [status |-> "absent", age |-> 0, step |-> 0, job |-> NoReq]
  /\ req = [q \in Reqs |-> "new"]
  /\ task = [q \in Reqs |-> "none"]
  /\ wait = [q \in Reqs |-> 0]
  /\ pc = [r \in Runs |-> "idle"]
  /\ job = [r \in Runs |-> NoReq]
  /\ link = [r \in Runs |-> "none"]
  /\ sent = [r \in Runs |-> 0]
  /\ age = [r \in Runs |-> 0]
  /\ step = [r \in Runs |-> 0]
  /\ faults = 0

-----------------------------------------------------------------------------
(* Helpers.                                                                *)

Strike(kind) ==
  /\ kind \in Faults
  /\ faults < MaxFaults
  /\ faults' = faults + 1

\* _persist_build: a full-document upsert; an exception is logged and dropped.
Persist(doc) ==
  \/ rec' = doc /\ UNCHANGED faults
  \/ Strike("lostWrite") /\ UNCHANGED rec

\* The record _new_build_store and the event callback write for a request.
NewStore(status, a, s, q) == [status |-> status, age |-> a, step |-> s, job |-> q]

\* The answer of the worker as Cloud Tasks sees it, if it still listens.
Answer2xx(r) ==
  /\ task' = IF link[r] = "open" THEN [task EXCEPT ![job[r]] = "acked"] ELSE task
  /\ UNCHANGED wait

AttemptFailed(r) ==
  /\ wait' = IF link[r] = "open" THEN [wait EXCEPT ![job[r]] = Backoff] ELSE wait
  /\ UNCHANGED task

Release(r) ==
  /\ pc' = [pc EXCEPT ![r] = "idle"]
  /\ job' = [job EXCEPT ![r] = NoReq]
  /\ link' = [link EXCEPT ![r] = "none"]
  /\ sent' = [sent EXCEPT ![r] = 0]
  /\ age' = [age EXCEPT ![r] = 0]
  /\ step' = [step EXCEPT ![r] = 0]

Occupy(r, q, at, conn) ==
  /\ pc[r] = "idle"
  /\ pc' = [pc EXCEPT ![r] = at]
  /\ job' = [job EXCEPT ![r] = q]
  /\ link' = [link EXCEPT ![r] = conn]
  /\ UNCHANGED <<sent, age, step>>

InFlight(q) == \E r \in Runs : link[r] = "open" /\ job[r] = q

-----------------------------------------------------------------------------
(* POST /builder/start.                                                    *)

\* The initial "queued" record overwrites whatever the key holds.
StartPersist(q) ==
  /\ req[q] = "new"
  /\ req' = [req EXCEPT ![q] = "persisted"]
  /\ Persist(NewStore("queued", 0, 0, q))
  /\ UNCHANGED <<queueVars, runVars>>

\* enqueue_build_task: the request reaches Cloud Tasks and the task exists.
EnqueueAccepted(q) ==
  /\ req[q] = "persisted"
  /\ req' = [req EXCEPT ![q] = "accepted"]
  /\ task' = [task EXCEPT ![q] = "queued"]
  /\ UNCHANGED <<rec, wait, runVars, faults>>

\* enqueue_build_task returns False and there is no task.
EnqueueRefused(q) ==
  /\ req[q] = "persisted"
  /\ Strike("rejected")
  /\ req' = [req EXCEPT ![q] = "refused"]
  /\ UNCHANGED <<rec, queueVars, runVars>>

\* Mutant: a late but successful answer is taken for a refusal.
ReplyMisread(q) ==
  /\ req[q] = "accepted"
  /\ req' = [req EXCEPT ![q] = "refused"]
  /\ UNCHANGED <<rec, queueVars, runVars, faults>>

\* The 2xx of Cloud Tasks arrives: /start answers "queued".
ReplyArrives(q) ==
  /\ req[q] = "accepted"
  /\ req' = [req EXCEPT ![q] = "done"]
  /\ UNCHANGED <<rec, queueVars, runVars, faults>>

\* The 2xx is lost or late (client timeout): False is returned, the task exists.
ReplyLost(q) ==
  /\ req[q] = "accepted"
  /\ Strike("lostReply")
  /\ req' = [req EXCEPT ![q] = "refused"]
  /\ UNCHANGED <<rec, queueVars, runVars>>

\* asyncio.create_task(_run_parallel_build(..., executor="inline")); no guard.
InlineFallback(q, r) ==
  /\ req[q] = "refused"
  /\ req' = [req EXCEPT ![q] = "done"]
  /\ Occupy(r, q, "claim", "none")
  /\ UNCHANGED <<rec, queueVars, faults>>

\* The instance dies inside /start; the caller gets an error, not a session.
StartCrash(q) ==
  /\ req[q] \in {"persisted", "accepted", "refused"}
  /\ Strike("crash")
  /\ req' = [req EXCEPT ![q] = "failed"]
  /\ UNCHANGED <<rec, queueVars, runVars>>

-----------------------------------------------------------------------------
(* Cloud Tasks: an at-least-once queue of HTTP targets (external).         *)

Deliver(q, r) ==
  /\ task[q] = "queued" /\ wait[q] = 0 /\ ~InFlight(q)
  /\ Occupy(r, q, "guard", "open")
  /\ UNCHANGED <<rec, req, queueVars, faults>>

DeliverAgain(q, r) ==
  /\ task[q] = "queued" /\ InFlight(q)
  /\ Strike("duplicate")
  /\ Occupy(r, q, "guard", "open")
  /\ UNCHANGED <<rec, req, queueVars>>

\* The dispatch deadline passes: the attempt has failed for the queue, while
\* the handler goes on.
DispatchDeadline(r) ==
  /\ link[r] = "open" /\ sent[r] = Deadline
  /\ Strike("slow")
  /\ link' = [link EXCEPT ![r] = "dropped"]
  /\ AttemptFailed(r)
  /\ UNCHANGED <<rec, req, pc, job, sent, age, step>>

-----------------------------------------------------------------------------
(* POST /builder/_run.                                                     *)

Fresh == rec.status = "running" /\ rec.age < Stale

\* Mutant: the guard forgets that a build may already be complete.
SkipsFreshOnly == Fresh

\* A complete build, or a claim younger than the window, is answered 200.
Skips == rec.status = "complete" \/ Fresh

\* Mutant: a redelivery that is skipped is answered 409 instead of 200.
GuardRejects(r) ==
  /\ pc[r] = "guard" /\ Skips
  /\ AttemptFailed(r)
  /\ Release(r)
  /\ UNCHANGED <<rec, req, faults>>

GuardSkip(r) ==
  /\ pc[r] = "guard" /\ Skips
  /\ Answer2xx(r)
  /\ Release(r)
  /\ UNCHANGED <<rec, req, faults>>

GuardPass(r) ==
  /\ pc[r] = "guard" /\ ~Skips
  /\ pc' = [pc EXCEPT ![r] = "claim"]
  /\ UNCHANGED <<rec, req, queueVars, job, link, sent, age, step, faults>>

\* durable_store.get raises in the guard or in the final check: a 500.
ReadFails(r) ==
  /\ pc[r] \in {"guard", "check"}
  /\ Strike("failedRead")
  /\ AttemptFailed(r)
  /\ Release(r)
  /\ UNCHANGED <<rec, req>>

\* Mutant: the worker answers 200 whatever became of the build.
RecheckNothing(r) ==
  /\ pc[r] = "check"
  /\ Answer2xx(r)
  /\ Release(r)
  /\ UNCHANGED <<rec, req, faults>>

\* The final re-read decides the answer: 500 only for an "error" record.
Recheck(r) ==
  /\ pc[r] = "check"
  /\ IF rec.status = "error" THEN AttemptFailed(r) ELSE Answer2xx(r)
  /\ Release(r)
  /\ UNCHANGED <<rec, req, faults>>

-----------------------------------------------------------------------------
(* _run_parallel_build, for the worker and for the inline fallback.        *)

\* A new working copy, stamped with worker_started_at, is written first.
Claim(r) ==
  /\ pc[r] = "claim"
  /\ pc' = [pc EXCEPT ![r] = "build"]
  /\ age' = [age EXCEPT ![r] = 0]
  /\ step' = [step EXCEPT ![r] = 0]
  /\ Persist(NewStore("running", 0, 0, job[r]))
  /\ UNCHANGED <<req, queueVars, job, link, sent>>

\* Mutant: an event is accepted after the last one.
EventUnbounded(r) ==
  /\ pc[r] = "build"
  /\ step' = [step EXCEPT ![r] = @ + 1]
  /\ Persist(NewStore("running", age[r], step[r] + 1, job[r]))
  /\ UNCHANGED <<req, queueVars, pc, job, link, sent, age>>

\* on_event: mutate the working copy and write all of it through.
Event(r) ==
  /\ pc[r] = "build" /\ step[r] < Steps
  /\ step' = [step EXCEPT ![r] = @ + 1]
  /\ Persist(NewStore("running", age[r], step[r] + 1, job[r]))
  /\ UNCHANGED <<req, queueVars, pc, job, link, sent, age>>

\* What follows the final write: the worker re-reads, an inline task ends.
EndBuild(r) ==
  IF link[r] = "none"
  THEN Release(r)
  ELSE /\ pc' = [pc EXCEPT ![r] = "check"]
       /\ UNCHANGED <<job, link, sent, age, step>>

Complete(r) ==
  /\ pc[r] = "build" /\ step[r] = Steps
  /\ Persist(NewStore("complete", 0, Steps, job[r]))
  /\ EndBuild(r)
  /\ UNCHANGED <<req, queueVars>>

\* Mutant: the write of the finally block is missing after an exception.
FailSilently(r) ==
  /\ pc[r] = "build"
  /\ Strike("buildError")
  /\ UNCHANGED rec
  /\ EndBuild(r)
  /\ UNCHANGED <<req, queueVars>>

\* The except branch of _run_parallel_build: "error" is written instead (that
\* write may be lost as well: the two count as one fault).
Fail(r) ==
  /\ pc[r] = "build"
  /\ Strike("buildError")
  /\ \/ rec' = NewStore("error", 0, step[r], job[r])
     \/ "lostWrite" \in Faults /\ UNCHANGED rec
  /\ EndBuild(r)
  /\ UNCHANGED <<req, queueVars>>

\* The instance dies under an execution: whatever it had not written is gone.
Crash(r) ==
  /\ pc[r] # "idle"
  /\ Strike("crash")
  /\ AttemptFailed(r)
  /\ Release(r)
  /\ UNCHANGED <<rec, req>>

-----------------------------------------------------------------------------
(* Time.                                                                   *)

Older(n, limit) == IF n < limit THEN n + 1 ELSE limit

Tick ==
  /\ \/ "slow" \in Faults /\ faults < MaxFaults
     \/ \A r \in Runs : link[r] = "open" => sent[r] + 1 < Deadline
  /\ rec' = IF rec.status = "running" THEN [rec EXCEPT !.age = Older(@, Stale)] ELSE rec
  /\ wait' = [q \in Reqs |-> IF wait[q] > 0 THEN wait[q] - 1 ELSE 0]
  /\ sent' = [r \in Runs |-> IF link[r] = "open" THEN Older(sent[r], Deadline) ELSE sent[r]]
  /\ age' = [r \in Runs |-> IF pc[r] = "build" THEN Older(age[r], Stale) ELSE age[r]]
  /\ UNCHANGED <<req, task, pc, job, link, step, faults>>

StartStep(q) ==
  \/ StartPersist(q) \/ EnqueueAccepted(q) \/ EnqueueRefused(q)
  \/ ReplyArrives(q) \/ ReplyLost(q)
  \/ StartCrash(q)
  \/ \E r \in Runs : InlineFallback(q, r)

RunStep(r) ==
  \/ GuardSkip(r) \/ GuardPass(r) \/ ReadFails(r) \/ Recheck(r)
  \/ Claim(r) \/ Event(r) \/ Complete(r) \/ Fail(r) \/ Crash(r)
  \/ DispatchDeadline(r)

Next ==
  \/ \E q \in Reqs : StartStep(q)
  \/ \E q \in Reqs, r \in Runs : Deliver(q, r) \/ DeliverAgain(q, r)
  \/ \E r \in Runs : RunStep(r)
  \/ Tick

Spec == Init /\ [][Next]_vars

(***************************************************************************)
(* Fairness.  A handler that was entered keeps being scheduled by its      *)
(* event loop, Cloud Tasks keeps dispatching a task it holds, and time     *)
(* passes. Nothing makes a caller start a build, and no fault is ever due. *)
(***************************************************************************)
Fairness ==
  /\ \A q \in Reqs :
       /\ WF_vars(EnqueueAccepted(q)) /\ WF_vars(ReplyArrives(q))
       /\ WF_vars(\E r \in Runs : InlineFallback(q, r))
       /\ WF_vars(\E r \in Runs : Deliver(q, r))
  /\ \A r \in Runs :
       /\ WF_vars(GuardSkip(r)) /\ WF_vars(GuardPass(r)) /\ WF_vars(Claim(r))
       /\ WF_vars(Event(r)) /\ WF_vars(Complete(r)) /\ WF_vars(Recheck(r))
       /\ WF_vars(DispatchDeadline(r))
  /\ WF_vars(Tick)

FairSpec == Spec /\ Fairness

-----------------------------------------------------------------------------
(* Properties.                                                             *)

\* The executions that have claimed the record and may write it again.
Writers == {r \in Runs : pc[r] = "build"}

(***************************************************************************)
(* A worker answers a delivery of a running build with 200 and its task is *)
(* given up, so a "running" record has to have an execution behind it that *)
(* will still write a final status, whatever is duplicated, late or lost   *)
(* on the way from /start to the worker (builder.py 636-645).  Nothing but *)
(* a crash or a lost write may leave a "running" record with nobody behind *)
(* it.                                                                     *)
(***************************************************************************)
RunningHasWriter ==
  rec.status = "running" =>
    \/ Writers # {}
    \/ faults > 0 /\ Faults \cap {"crash", "lostWrite"} # {}

(***************************************************************************)
(* The faults under which the executions of a build follow one another:    *)
(* one /start per key, no second copy of a task, no attempt past its       *)
(* deadline, and crashes only when a retry waits out the staleness window. *)
(***************************************************************************)
SingleFile ==
  /\ \A p, q \in Reqs : p = q
  /\ Faults \cap {"lostReply", "duplicate", "slow", "lostWrite"} = {}

RetryOutlivesClaim == "crash" \in Faults => Backoff >= Stale

(***************************************************************************)
(* The 2xx that makes Cloud Tasks drop the task is given only for a build  *)
(* that is complete (run_build_worker's "Returns 2xx on success ... and    *)
(* 5xx on failure"), through errors, failed reads and crashes.             *)
(***************************************************************************)
AckedIsComplete ==
  SingleFile /\ RetryOutlivesClaim =>
    \A q \in Reqs : task[q] = "acked" => rec.status = "complete"

(***************************************************************************)
(* "races-free for the single writer that owns a given key"                *)
(* (durable_store.py 15-16): two executions never write one key at a time. *)
(***************************************************************************)
SingleWriter == \A r, s \in Writers : r = s

\* The same for the executions that follow one another.
SingleWriterInFile == SingleFile => SingleWriter

(***************************************************************************)
(* A build that was started successfully reaches a final status, so that   *)
(* the poller of GET /builder/status ends.                                 *)
(***************************************************************************)
EventuallySettled ==
  \A q \in Reqs : req[q] = "done" ~> [](rec.status \in {"complete", "error"})

(***************************************************************************)
(* A build that Cloud Tasks accepted is retried until it completes         *)
(* (builder.py 558-561: it survives scale-down and is retried).            *)
(***************************************************************************)
EventuallyComplete ==
  \A q \in Reqs : task[q] = "queued" ~> rec.status = "complete"

(***************************************************************************)
(* Cloud Tasks lets go of every task it took: no combination of faults has *)
(* the worker answer 5xx, or start over, for ever.                         *)
(***************************************************************************)
TaskDrains == \A q \in Reqs : task[q] = "queued" ~> task[q] = "acked"

\* What the pollers of the record are promised (module BuildPromise).
Promise == INSTANCE BuildPromise WITH status <- rec.status, done <- rec.step, Ends <- {Steps}
PromiseKept == Promise!Spec
=============================================================================
