---------------------------- MODULE JobPipeline ----------------------------
(***************************************************************************)
(* One job of POST /orchestrate: the background pipeline (analyze,         *)
(* architect, codegen, review), its record in the durable job store, the   *)
(* approve calls that rewrite that record, and the tail behind             *)
(* /ws/job/{job_id}.                                                       *)
(*                                                                         *)
(* Simplifications.                                                        *)
(*  - The state document keeps what its readers tell apart: phase,         *)
(*    progress, approval and the number of generated files.                *)
(*  - The model is called once per module in codegen and once per batch in *)
(*    review; Calls bounds both and each successful codegen call yields    *)
(*    one file.  The delays between attempts are not timed.                *)
(*  - Broadcasts reach the sessions of module SessionHub; here only the    *)
(*    last verdict that was broadcast is kept.                             *)
(***************************************************************************)
EXTENDS Naturals

CONSTANTS
  Callers,   \* the approve calls
  Calls,     \* model calls of a codegen or review node
  Retries,   \* _LLM_MAX_RETRIES
  Misses     \* not_found iterations before the tail gives up

ASSUME PipelineAssumption ==
  /\ Calls \in Nat /\ Misses \in Nat /\ Retries \in Nat \ {0}

VARIABLES
  doc,       \* the stored document, or NoDoc
  live,      \* the pipeline's own state object
  stage,     \* where the pipeline is
  left,      \* model calls the current node still has to make
  tries,     \* failed attempts of the current call
  told,      \* the verdict broadcast last
  refused,   \* history: the store raised on a complete result
  call,      \* where each approve call is
  copy,      \* the document an approve call read and changed
  srv,       \* the tail, of the owner ("tailing") or of somebody else
  missing,   \* its missing_ticks
  sig,       \* its last_sig
  lastSent   \* the phase of the last snapshot it sent

pipeVars == <<live, stage, left, tries, told, refused>>
callVars == <<call, copy>>
tailVars == <<srv, missing, sig, lastSent>>
jobVars == <<doc, live, stage, left, tries, told, refused, call, copy,
             srv, missing, sig, lastSent>>

NoDoc == [phase |-> "none", progress |-> 0, approved |-> FALSE, files |-> 0]
Nodes == {"analyze", "architect", "codegen", "review"}
Phases == {"none", "analyzing", "architecting", "generating", "reviewing", "complete", "error"}
Terminal == {"complete", "error"}
Documents == [phase : Phases, progress : 0..4, approved : BOOLEAN, files : 0..Calls]
NoSig == <<>>

JobTypeOK ==
  /\ doc \in Documents /\ live \in Documents
  /\ stage \in Nodes \cup {"none", "start", "store", "tell", "failing", "tellError", "over", "dead"}
  /\ left \in 0..(Calls + 1) /\ tries \in 0..(Retries - 1)
  /\ told \in {"none", "complete", "error"} /\ refused \in BOOLEAN
  /\ call \in [Callers -> {"new", "read", "done"}]
  /\ copy \in [Callers -> Documents]
  /\ srv \in {"none", "tailing", "stranger", "ended", "broken"} /\ missing \in 0..(Misses + 1)
  /\ lastSent \in Phases \cup {"not_found"}

JobInit ==
  /\ doc = NoDoc /\ live = NoDoc /\ stage = "none" /\ left = 0 /\ tries = 0
  /\ told = "none" /\ refused = FALSE
  /\ call = [c \in Callers |-> "new"] /\ copy = [c \in Callers |-> NoDoc]
  /\ srv = "none" /\ missing = 0 /\ sig = NoSig /\ lastSent = "none"

-----------------------------------------------------------------------------
(* start_generation and _run_pipeline.                                     *)

\* The job is stored, then the pipeline is spawned.
Start ==
  /\ stage = "none"
  /\ live' = [NoDoc EXCEPT !.phase = "analyzing"]
  /\ doc' = live'
  /\ stage' = "start"
  /\ UNCHANGED <<left, tries, told, refused, callVars, tailVars>>

PhaseOf == [analyze |-> "analyzing", architect |-> "architecting",
            codegen |-> "generating", review |-> "reviewing"]
StepOf == [analyze |-> 1, architect |-> 2, codegen |-> 3, review |-> 4]

\* Entering a node stamps phase and progress; n calls follow.
Enter(node, n) ==
  /\ stage' = node
  /\ live' = [live EXCEPT !.phase = PhaseOf[node], !.progress = StepOf[node]]
  /\ left' = n

Begin ==
  /\ stage = "start"
  /\ Enter("analyze", 1)
  /\ UNCHANGED <<doc, tries, told, refused, callVars, tailVars>>

\* LangGraph is not installed.
NoGraph ==
  /\ stage = "start"
  /\ stage' = "failing"
  /\ UNCHANGED <<doc, live, left, tries, told, refused, callVars, tailVars>>

\* _invoke_llm_with_retry: the model answers, with a file in codegen or with
\* something that does not parse.
ModelAnswers ==
  /\ stage \in Nodes /\ left > 0
  /\ left' = left - 1 /\ tries' = 0
  /\ \/ UNCHANGED live
     \/ stage = "codegen" /\ live' = [live EXCEPT !.files = @ + 1]
  /\ UNCHANGED <<doc, stage, told, refused, callVars, tailVars>>

\* Mutant: the attempts are counted from the beginning again.
ModelFailsForEver ==
  /\ stage \in Nodes /\ left > 0
  /\ tries' = (tries + 1) % Retries
  /\ UNCHANGED <<doc, live, left, stage, told, refused, callVars, tailVars>>

\* Mutant: the number of attempts is not looked at.
ModelFailsUnbounded ==
  /\ stage \in Nodes /\ left > 0
  /\ tries' = tries + 1
  /\ UNCHANGED <<doc, live, left, stage, told, refused, callVars, tailVars>>

\* A timeout or an error: try again, and give the job up after the last try.
ModelFails ==
  /\ stage \in Nodes /\ left > 0
  /\ IF tries + 1 < Retries
     THEN tries' = tries + 1 /\ UNCHANGED <<stage, left>>
     ELSE tries' = 0 /\ left' = 0 /\ stage' = "failing"
  /\ UNCHANGED <<doc, live, told, refused, callVars, tailVars>>

\* A caught exception anywhere else in a node (no model can be made, an answer
\* does not validate).
NodeRaises ==
  /\ stage \in Nodes
  /\ stage' = "failing" /\ left' = 0 /\ tries' = 0
  /\ UNCHANGED <<doc, live, told, refused, callVars, tailVars>>

\* should_generate looks at the pipeline's own copy and lets every job pass.
NodeDone ==
  /\ stage \in Nodes /\ left = 0
  /\ CASE stage = "analyze" -> Enter("architect", 1)
       [] stage = "architect" -> \E n \in 0..Calls : Enter("codegen", n)
       [] stage = "codegen" -> \E n \in 0..Calls : Enter("review", n)
       [] stage = "review" -> /\ stage' = "store" /\ left' = 0
                           /\ live' = [live EXCEPT !.phase = "complete"]
  /\ UNCHANGED <<doc, tries, told, refused, callVars, tailVars>>

\* Mutant: the verdict is broadcast before the result is stored.
StoreLate ==
  /\ stage = "store"
  /\ stage' = "tell"
  /\ UNCHANGED <<doc, live, left, tries, told, refused, callVars, tailVars>>

Store ==
  /\ stage = "store"
  /\ doc' = live /\ stage' = "tell"
  /\ UNCHANGED <<live, left, tries, told, refused, callVars, tailVars>>

\* put raises one of the caught exceptions, before its commit or after it: the
\* except branch takes over, with a result that was complete.
StoreFails ==
  /\ stage = "store"
  /\ doc' \in {doc, live} /\ stage' = "failing" /\ refused' = TRUE
  /\ UNCHANGED <<live, left, tries, told, callVars, tailVars>>

\* Files, reviews, phase_change and generation_complete go out in this order.
TellComplete ==
  /\ stage = "tell"
  /\ told' = "complete" /\ stage' = "over"
  /\ UNCHANGED <<doc, live, left, tries, refused, callVars, tailVars>>

\* Mutant: whatever the graph left behind is stored as a completed job.
StoreErrorAsComplete ==
  /\ stage = "failing"
  /\ live' = [live EXCEPT !.phase = "error"]
  /\ doc' = [live EXCEPT !.phase = "complete"] /\ stage' = "tellError"
  /\ UNCHANGED <<left, tries, told, refused, callVars, tailVars>>

\* The except branch: RuntimeError, ValueError, TimeoutError, OSError.  From a node
\* the state it stores has what the nodes did, or not: that is LangGraph's choice.
\* After put refused the result the merge has been made: its files are there.  A put
\* that fails here leaves the except branch: Vanish, as after the commit.
StoreError ==
  /\ stage = "failing"
  /\ \/ live' = [live EXCEPT !.phase = "error"]
     \/ ~refused /\ live' = [NoDoc EXCEPT !.phase = "error"]
  /\ doc' = live' /\ stage' = "tellError"
  /\ UNCHANGED <<left, tries, told, refused, callVars, tailVars>>

TellError ==
  /\ stage = "tellError"
  /\ told' = "error" /\ stage' = "over"
  /\ UNCHANGED <<doc, live, left, tries, refused, callVars, tailVars>>

\* Any other exception (also one raised in the except branch), or the end of the
\* process, ends the task unnoticed.
Vanish ==
  /\ stage \in Nodes \cup {"start", "store", "tell", "failing", "tellError"}
  /\ stage' = "dead"
  /\ UNCHANGED <<doc, live, left, tries, told, refused, callVars, tailVars>>

PipelineStep ==
  \/ Begin \/ NoGraph \/ ModelAnswers \/ ModelFails \/ NodeRaises \/ NodeDone
  \/ Store \/ StoreFails \/ TellComplete \/ StoreError \/ TellError

-----------------------------------------------------------------------------
(* approve_architecture: read, change, write the whole document.           *)

ApproveRead(c) ==
  /\ call[c] = "new" /\ doc # NoDoc
  /\ \E v \in BOOLEAN : copy' = [copy EXCEPT ![c] = [doc EXCEPT !.approved = v]]
  /\ call' = [call EXCEPT ![c] = "read"]
  /\ UNCHANGED <<doc, pipeVars, tailVars>>

ApproveWrite(c) ==
  /\ call[c] = "read"
  /\ doc' = copy[c]
  /\ call' = [call EXCEPT ![c] = "done"]
  /\ UNCHANGED <<pipeVars, copy, tailVars>>

-----------------------------------------------------------------------------
(* job_stream_endpoint.                                                    *)

\* A client with a token of the job's owner, or of somebody else.
Connect ==
  /\ srv = "none"
  /\ srv' \in {"tailing", "stranger"}
  /\ UNCHANGED <<doc, pipeVars, callVars, missing, sig, lastSent>>

TailMissing ==
  /\ srv \in {"tailing", "stranger"} /\ doc = NoDoc
  /\ missing' = missing + 1
  /\ IF missing' > Misses THEN srv' = "ended" /\ lastSent' = "not_found"
     ELSE UNCHANGED <<srv, lastSent>>
  /\ UNCHANGED <<doc, pipeVars, callVars, sig>>

Signature == <<doc.phase, doc.progress, doc.files>>

\* Mutant: a terminal phase that was sent does not end the stream.
TailReadOn ==
  /\ srv = "tailing" /\ doc # NoDoc
  /\ missing' = 0 /\ sig' = Signature
  /\ lastSent' = IF sig' # sig THEN doc.phase ELSE lastSent
  /\ UNCHANGED <<doc, pipeVars, callVars, srv>>

\* Mutant: the verdict ends the stream before it is sent.
TailEndsFirst ==
  /\ srv = "tailing" /\ doc # NoDoc
  /\ missing' = 0 /\ sig' = Signature
  /\ lastSent' = IF sig' # sig /\ doc.phase \notin Terminal THEN doc.phase ELSE lastSent
  /\ srv' = IF doc.phase \in Terminal THEN "ended" ELSE srv
  /\ UNCHANGED <<doc, pipeVars, callVars>>

TailRead ==
  /\ srv = "tailing" /\ doc # NoDoc
  /\ missing' = 0 /\ sig' = Signature
  /\ lastSent' = IF sig' # sig THEN doc.phase ELSE lastSent
  /\ srv' = IF doc.phase \in Terminal THEN "ended" ELSE srv
  /\ UNCHANGED <<doc, pipeVars, callVars>>

\* "only the owner may stream the job".
TailForeign ==
  /\ srv = "stranger" /\ doc # NoDoc
  /\ srv' = "ended" /\ lastSent' = "not_found"
  /\ UNCHANGED <<doc, pipeVars, callVars, missing, sig>>

\* A read of the store, the decoding of the document or a send raises, or the client
\* leaves: the socket is closed with nothing more said.
TailBreaks ==
  /\ srv \in {"tailing", "stranger"}
  /\ srv' = "broken"
  /\ UNCHANGED <<doc, pipeVars, callVars, missing, sig, lastSent>>

TailStep == TailMissing \/ TailRead \/ TailForeign

JobNext ==
  \/ Start \/ PipelineStep \/ Vanish
  \/ \E c \in Callers : ApproveRead(c) \/ ApproveWrite(c)
  \/ Connect \/ TailStep \/ TailBreaks

JobSpec == JobInit /\ [][JobNext]_jobVars

(***************************************************************************)
(* Fairness: a task and a handler that have begun keep running.  The model *)
(* need not answer: an attempt may fail each time.  An approve call need   *)
(* not write: its put may raise.                                           *)
(***************************************************************************)
JobFairness ==
  /\ WF_jobVars(PipelineStep) /\ WF_jobVars(TailStep)

JobFairSpec == JobSpec /\ JobFairness

-----------------------------------------------------------------------------
(* Properties.                                                             *)

\* An approve call has written its copy of the document back.
Disturbed == \E c \in Callers : call[c] = "done"

(***************************************************************************)
(* A client that hears a verdict over the session finds it in the store: a *)
(* job that was announced complete has all its files to download, as long  *)
(* as no approve call rewrote the document (StoredVerdictStays).           *)
(***************************************************************************)
ToldIsStored == told # "none" /\ ~Disturbed => doc = live /\ doc.phase = told

(***************************************************************************)
(* An approve call that writes an old document back may hide a verdict but *)
(* cannot forge one: what is stored as final is what the pipeline ended    *)
(* with, with all of its files (also when the task vanished), or the       *)
(* complete result that the store had raised on and the except branch took *)
(* back.                                                                   *)
(***************************************************************************)
WasComplete(phase) == refused /\ phase = "complete"

StoreNeverAhead ==
  doc.phase \in Terminal =>
    /\ doc.phase = live.phase \/ WasComplete(doc.phase)
    /\ doc.files = live.files

\* What the readers of a job see of a document.
View(d) ==
  IF d.phase = "none" THEN [phase |-> "absent", files |-> 0]
  ELSE IF d.phase \in Terminal THEN [phase |-> d.phase, files |-> d.files]
  ELSE [phase |-> "open", files |-> 0]

\* The results the pipeline had come to and took back.
Withdrawn ==
  IF refused /\ live.phase = "error" THEN {[phase |-> "complete", files |-> live.files]} ELSE {}

Promised == INSTANCE JobPromise
  WITH result <- View(live), shown <- View(doc), told <- told, rewritten <- Disturbed,
       withdrawn <- Withdrawn

(***************************************************************************)
(* The pipeline, its error path and the approve calls keep what module     *)
(* JobPromise promises the readers of a job: a result is shown before it   *)
(* is told, does not change once it was told, and is replaced before that  *)
(* only if the store raised on it, by an error; an approve call hides it   *)
(* or brings a replaced one back, never another.                           *)
(***************************************************************************)
JobPromiseKept == Promised!Spec

(***************************************************************************)
(* A stream of /ws/job/{job_id} that was not broken off does not end in    *)
(* silence, although it only sends when the signature moved: its last word *)
(* is a verdict or not_found.  No verdict is sent that the pipeline never  *)
(* came to, and nothing but not_found to anybody but the owner.  (After an *)
(* exception in the tail the socket closes without a word: "broken".)      *)
(***************************************************************************)
StreamIsTrue ==
  /\ srv = "ended" => lastSent \in Terminal \cup {"not_found"}
  /\ lastSent \in Terminal => lastSent = live.phase \/ WasComplete(lastSent)
  /\ srv = "stranger" => lastSent = "none"

(***************************************************************************)
(* "races-free for the single writer that owns a given key"                *)
(* (durable_store.py 15-16): a stored verdict is never taken back.         *)
(***************************************************************************)
StoredVerdictStays == [][doc.phase \in Terminal => doc'.phase = doc.phase]_doc

(***************************************************************************)
(* Whatever the model answers, and however often it fails, the session     *)
(* hears of a verdict and the store has it, unless the task vanished or an *)
(* approve call wrote over it.                                             *)
(***************************************************************************)
JobSettles ==
  stage = "start" ~> stage = "dead" \/ (told \in Terminal /\ (Disturbed \/ doc.phase = told))

(***************************************************************************)
(* The stream of a job that is not broken off ends by itself, with the     *)
(* verdict or with not_found, under the same provisos; that of somebody    *)
(* else in any case.                                                       *)
(***************************************************************************)
StreamEnds ==
  /\ srv = "tailing" ~>
       \/ srv = "ended" /\ lastSent \in Terminal \cup {"not_found"}
       \/ srv = "broken" \/ stage = "dead" \/ Disturbed
  /\ srv = "stranger" ~> srv = "broken" \/ (srv = "ended" /\ lastSent = "not_found")
=============================================================================
