--------------------------- MODULE PipelineProofs ---------------------------
(***************************************************************************)
(* Proofs about the pipelines of the orchestrator: BuildDispatch and       *)
(* JobPipeline, for every value of their constants, and their composition. *)
(***************************************************************************)
EXTENDS MCPipelines, TLAPS

USE DEF FaultKinds

(***************************************************************************)
(* Type correctness.                                                       *)
(***************************************************************************)
LEMMA InitTyped == Init => TypeOK
BY ConstantsAssumption DEF Init, TypeOK, Document

\* Occupying and releasing a slot keep the variables of the executions typed.
LEMMA OccupyTyped ==
  ASSUME TypeOK, NEW q \in Reqs, NEW r \in Runs,
         NEW at \in {"guard", "claim"}, NEW conn \in {"none", "open"},
         Occupy(r, q, at, conn)
  PROVE  /\ pc' \in [Runs -> {"idle", "guard", "claim", "build", "check"}]
         /\ job' \in [Runs -> Reqs \cup {NoReq}]
         /\ link' \in [Runs -> {"none", "open", "dropped"}]
         /\ sent' \in [Runs -> 0..Deadline]
         /\ age' \in [Runs -> 0..Stale]
         /\ step' \in [Runs -> 0..Steps]
BY DEF TypeOK, Occupy

LEMMA ReleaseTyped ==
  ASSUME TypeOK, NEW r \in Runs, Release(r)
  PROVE  /\ pc' \in [Runs -> {"idle", "guard", "claim", "build", "check"}]
         /\ job' \in [Runs -> Reqs \cup {NoReq}]
         /\ link' \in [Runs -> {"none", "open", "dropped"}]
         /\ sent' \in [Runs -> 0..Deadline]
         /\ age' \in [Runs -> 0..Stale]
         /\ step' \in [Runs -> 0..Steps]
BY ConstantsAssumption DEF TypeOK, Release

\* What Cloud Tasks does with an answer keeps its variables typed.
LEMMA AnswerTyped ==
  ASSUME TypeOK, NEW r \in Runs, Answer2xx(r) \/ AttemptFailed(r)
  PROVE  /\ task' \in [Reqs -> {"none", "queued", "acked"}]
         /\ wait' \in [Reqs -> 0..Backoff]
BY ConstantsAssumption DEF TypeOK, Answer2xx, AttemptFailed

LEMMA StrikeTyped ==
  ASSUME TypeOK, NEW kind, Strike(kind)
  PROVE  faults' \in 0..MaxFaults
BY ConstantsAssumption DEF TypeOK, Strike

LEMMA PersistTyped ==
  ASSUME TypeOK, NEW written \in Document, Persist(written)
  PROVE  rec' \in Document /\ faults' \in 0..MaxFaults
BY StrikeTyped DEF TypeOK, Persist

LEMMA StartTyped ==
  ASSUME TypeOK, NEW q \in Reqs, StartStep(q)
  PROVE  TypeOK'
<1>1. CASE StartPersist(q)
  <2>1. NewStore("queued", 0, 0, q) \in Document
    BY ConstantsAssumption DEF NewStore, Document
  <2>2. rec' \in Document /\ faults' \in 0..MaxFaults
    BY <1>1, <2>1, PersistTyped DEF StartPersist
  <2>3. QED
    BY <1>1, <2>2 DEF TypeOK, StartPersist, queueVars, runVars
<1>2. CASE EnqueueAccepted(q)
  BY <1>2 DEF TypeOK, EnqueueAccepted, runVars
<1>3. CASE EnqueueRefused(q)
  <2>1. faults' \in 0..MaxFaults
    BY <1>3, StrikeTyped DEF EnqueueRefused, TypeOK
  <2>2. QED
    BY <1>3, <2>1 DEF TypeOK, EnqueueRefused, queueVars, runVars
<1>4. CASE ReplyArrives(q)
  BY <1>4 DEF TypeOK, ReplyArrives, queueVars, runVars
<1>5. CASE ReplyLost(q)
  BY <1>5, StrikeTyped DEF TypeOK, ReplyLost, queueVars, runVars
<1>6. CASE StartCrash(q)
  BY <1>6, StrikeTyped DEF TypeOK, StartCrash, queueVars, runVars
<1>7. ASSUME NEW r \in Runs, InlineFallback(q, r) PROVE TypeOK'
  BY <1>7, OccupyTyped DEF TypeOK, InlineFallback, queueVars
<1>8. QED
  BY <1>1, <1>2, <1>3, <1>4, <1>5, <1>6, <1>7 DEF StartStep

LEMMA EndBuildTyped ==
  ASSUME TypeOK, NEW r \in Runs, EndBuild(r)
  PROVE  /\ pc' \in [Runs -> {"idle", "guard", "claim", "build", "check"}]
         /\ job' \in [Runs -> Reqs \cup {NoReq}]
         /\ link' \in [Runs -> {"none", "open", "dropped"}]
         /\ sent' \in [Runs -> 0..Deadline]
         /\ age' \in [Runs -> 0..Stale]
         /\ step' \in [Runs -> 0..Steps]
<1>1. CASE link[r] = "none"
  BY <1>1, ReleaseTyped DEF EndBuild
<1>2. CASE link[r] # "none"
  BY <1>2 DEF EndBuild, TypeOK
<1>3. QED
  BY <1>1, <1>2

LEMMA RunTyped ==
  ASSUME TypeOK, NEW r \in Runs, RunStep(r)
  PROVE  TypeOK'
<1>1. CASE GuardSkip(r)
  BY <1>1, AnswerTyped, ReleaseTyped DEF TypeOK, GuardSkip
<1>2. CASE GuardPass(r)
  BY <1>2 DEF TypeOK, GuardPass, queueVars
<1>3. CASE ReadFails(r)
  BY <1>3, AnswerTyped, ReleaseTyped, StrikeTyped DEF TypeOK, ReadFails
<1>4. CASE Recheck(r)
  BY <1>4, AnswerTyped, ReleaseTyped DEF TypeOK, Recheck
<1>5. CASE Claim(r)
  <2>1. NewStore("running", 0, 0, job[r]) \in Document
    BY ConstantsAssumption DEF NewStore, Document, TypeOK
  <2>2. rec' \in Document /\ faults' \in 0..MaxFaults
    BY <1>5, <2>1, PersistTyped DEF Claim
  <2>3. QED
    BY <1>5, <2>2, ConstantsAssumption DEF TypeOK, Claim, queueVars
<1>6. CASE Event(r)
  <2>1. step[r] + 1 \in 0..Steps
    BY <1>6, ConstantsAssumption DEF Event, TypeOK
  <2>2. NewStore("running", age[r], step[r] + 1, job[r]) \in Document
    BY <2>1 DEF NewStore, Document, TypeOK
  <2>3. rec' \in Document /\ faults' \in 0..MaxFaults
    BY <1>6, <2>2, PersistTyped DEF Event
  <2>4. step' \in [Runs -> 0..Steps]
    BY <1>6, <2>1 DEF Event, TypeOK
  <2>5. QED
    BY <1>6, <2>3, <2>4 DEF TypeOK, Event, queueVars
<1>7. CASE Complete(r)
  <2>1. NewStore("complete", 0, Steps, job[r]) \in Document
    BY ConstantsAssumption DEF NewStore, Document, TypeOK
  <2>2. rec' \in Document /\ faults' \in 0..MaxFaults
    BY <1>7, <2>1, PersistTyped DEF Complete
  <2>3. QED
    BY <1>7, <2>2, EndBuildTyped DEF TypeOK, Complete, queueVars
<1>8. CASE Fail(r)
  <2>1. NewStore("error", 0, step[r], job[r]) \in Document
    BY ConstantsAssumption DEF NewStore, Document, TypeOK
  <2>2. rec' \in Document /\ faults' \in 0..MaxFaults
    BY <1>8, <2>1, StrikeTyped DEF Fail, TypeOK
  <2>3. QED
    BY <1>8, <2>2, EndBuildTyped DEF TypeOK, Fail, queueVars
<1>9. CASE Crash(r)
  BY <1>9, AnswerTyped, ReleaseTyped, StrikeTyped DEF TypeOK, Crash
<1>10. CASE DispatchDeadline(r)
  BY <1>10, AnswerTyped, StrikeTyped DEF TypeOK, DispatchDeadline
<1>11. QED
  BY <1>1, <1>2, <1>3, <1>4, <1>5, <1>6, <1>7, <1>8, <1>9, <1>10 DEF RunStep

LEMMA TickTyped == TypeOK /\ Tick => TypeOK'
<1> SUFFICES ASSUME TypeOK, Tick PROVE TypeOK'
  OBVIOUS
<1>1. rec' \in Document
  BY ConstantsAssumption DEF TypeOK, Tick, Older, Document
<1>2. wait' \in [Reqs -> 0..Backoff]
  BY ConstantsAssumption DEF TypeOK, Tick
<1>3. sent' \in [Runs -> 0..Deadline] /\ age' \in [Runs -> 0..Stale]
  BY ConstantsAssumption DEF TypeOK, Tick, Older
<1>4. QED
  BY <1>1, <1>2, <1>3 DEF TypeOK, Tick

LEMMA NextTyped == TypeOK /\ [Next]_vars => TypeOK'
<1> SUFFICES ASSUME TypeOK, [Next]_vars PROVE TypeOK'
  OBVIOUS
<1>1. ASSUME NEW q \in Reqs, StartStep(q) PROVE TypeOK'
  BY <1>1, StartTyped
<1>2. ASSUME NEW q \in Reqs, NEW r \in Runs, Deliver(q, r) PROVE TypeOK'
  BY <1>2, OccupyTyped DEF TypeOK, Deliver, queueVars
<1>3. ASSUME NEW q \in Reqs, NEW r \in Runs, DeliverAgain(q, r) PROVE TypeOK'
  BY <1>3, OccupyTyped, StrikeTyped DEF TypeOK, DeliverAgain, queueVars
<1>4. ASSUME NEW r \in Runs, RunStep(r) PROVE TypeOK'
  BY <1>4, RunTyped
<1>5. CASE Tick
  BY <1>5, TickTyped
<1>6. CASE UNCHANGED vars
  BY <1>6 DEF TypeOK, vars
<1>7. QED
  BY <1>1, <1>2, <1>3, <1>4, <1>5, <1>6 DEF Next

\* Every variable of the dispatch keeps to its type in every behaviour.
THEOREM TypeCorrect == Spec => []TypeOK
BY InitTyped, NextTyped, PTL DEF Spec

-----------------------------------------------------------------------------
(***************************************************************************)
(* A running record has a writer.                                          *)
(***************************************************************************)

\* Steps that leave the record and the writers alone keep the invariant.
LEMMA SameWriters ==
  ASSUME TypeOK, RunningHasWriter, rec'.status = rec.status, faults' >= faults,
         faults' \in Nat, Writers \subseteq Writers'
  PROVE  RunningHasWriter'
BY DEF RunningHasWriter, TypeOK

\* A fault that can strand a record has been counted when it strikes.
LEMMA StruckStrands ==
  ASSUME TypeOK, NEW kind \in {"crash", "lostWrite"}, Strike(kind)
  PROVE  RunningHasWriter'
BY ConstantsAssumption DEF Strike, RunningHasWriter, TypeOK

LEMMA WriterNext ==
  TypeOK /\ RunningHasWriter /\ [Next]_vars => RunningHasWriter'
<1> SUFFICES ASSUME TypeOK, RunningHasWriter, [Next]_vars PROVE RunningHasWriter'
  OBVIOUS
<1>0. faults \in Nat /\ faults + 1 >= faults /\ faults >= faults
  BY ConstantsAssumption DEF TypeOK
<1>1. ASSUME NEW q \in Reqs, StartStep(q) PROVE RunningHasWriter'
  <2>1. CASE StartPersist(q)
    <3>1. CASE rec' = NewStore("queued", 0, 0, q)
      BY <3>1 DEF RunningHasWriter, NewStore
    <3>2. CASE Strike("lostWrite")
      BY <3>2, StruckStrands
    <3>3. QED
      BY <2>1, <3>1, <3>2 DEF StartPersist, Persist
  <2>2. CASE EnqueueAccepted(q) \/ ReplyArrives(q)
    BY <2>2, <1>0, SameWriters
    DEF EnqueueAccepted, ReplyArrives, runVars, Writers
  <2>3. CASE EnqueueRefused(q) \/ ReplyLost(q)
    <3>1. rec' = rec /\ pc' = pc /\ faults' \in {faults, faults + 1}
      BY <2>3 DEF EnqueueRefused, ReplyLost, runVars, Strike
    <3>2. QED
      BY <3>1, <1>0, SameWriters DEF Writers
  <2>4. CASE StartCrash(q)
    BY <2>4, StruckStrands DEF StartCrash
  <2>5. ASSUME NEW r \in Runs, InlineFallback(q, r) PROVE RunningHasWriter'
    <3>1. rec' = rec /\ faults' = faults /\ Writers \subseteq Writers'
      BY <2>5 DEF InlineFallback, Occupy, Writers, TypeOK
    <3>2. QED
      BY <3>1, <1>0, SameWriters
  <2>6. QED
    BY <1>1, <2>1, <2>2, <2>3, <2>4, <2>5 DEF StartStep
<1>2. ASSUME NEW q \in Reqs, NEW r \in Runs, Deliver(q, r) \/ DeliverAgain(q, r)
      PROVE  RunningHasWriter'
  <2>1. rec' = rec /\ faults' \in {faults, faults + 1} /\ Writers \subseteq Writers'
    BY <1>2 DEF Deliver, DeliverAgain, Occupy, Strike, Writers, TypeOK
  <2>2. QED
    BY <2>1, <1>0, SameWriters
<1>3. ASSUME NEW r \in Runs, RunStep(r) PROVE RunningHasWriter'
  <2>1. CASE GuardSkip(r) \/ Recheck(r) \/ ReadFails(r)
    <3>1. rec' = rec /\ faults' \in {faults, faults + 1} /\ Writers \subseteq Writers'
      BY <2>1 DEF GuardSkip, Recheck, ReadFails, Release, Strike, Writers, TypeOK
    <3>2. QED
      BY <3>1, <1>0, SameWriters
  <2>2. CASE GuardPass(r) \/ DispatchDeadline(r)
    <3>1. rec' = rec /\ faults' \in {faults, faults + 1} /\ Writers \subseteq Writers'
      BY <2>2 DEF GuardPass, DispatchDeadline, Strike, Writers, TypeOK
    <3>2. QED
      BY <3>1, <1>0, SameWriters
  <2>3. CASE Claim(r) \/ Event(r)
    BY <2>3 DEF Claim, Event, Writers, TypeOK, RunningHasWriter
  <2>4. CASE Complete(r)
    <3>1. CASE rec' = NewStore("complete", 0, Steps, job[r])
      BY <3>1 DEF RunningHasWriter, NewStore
    <3>2. CASE Strike("lostWrite")
      BY <3>2, StruckStrands
    <3>3. QED
      BY <2>4, <3>1, <3>2 DEF Complete, Persist
  <2>5. CASE Fail(r)
    <3>1. CASE rec' = NewStore("error", 0, step[r], job[r])
      BY <3>1 DEF RunningHasWriter, NewStore
    <3>2. CASE "lostWrite" \in Faults
      <4>1. faults' > 0
        BY <2>5, <1>0 DEF Fail, Strike
      <4>2. QED
        BY <3>2, <4>1 DEF RunningHasWriter
    <3>3. QED
      BY <2>5, <3>1, <3>2 DEF Fail
  <2>6. CASE Crash(r)
    BY <2>6, StruckStrands DEF Crash
  <2>7. QED
    BY <1>3, <2>1, <2>2, <2>3, <2>4, <2>5, <2>6 DEF RunStep
<1>4. CASE Tick
  <2>1. rec'.status = rec.status
    BY <1>4 DEF Tick, TypeOK, Document
  <2>2. faults' = faults /\ Writers' = Writers
    BY <1>4 DEF Tick, Writers
  <2>3. QED
    BY <2>1, <2>2, <1>0, SameWriters
<1>5. CASE UNCHANGED vars
  BY <1>5 DEF vars, RunningHasWriter, Writers
<1>6. QED
  BY <1>1, <1>2, <1>3, <1>4, <1>5 DEF Next

(***************************************************************************)
(* Whatever else goes wrong, only a crash or a lost write can leave a      *)
(* "running" record that no execution will finish: the "in_progress"       *)
(* answer of the worker guard is safe without them.                        *)
(***************************************************************************)
THEOREM RunningIsWritten == Spec => []RunningHasWriter
<1>1. Init => RunningHasWriter
  BY DEF Init, RunningHasWriter
<1>2. QED
  BY <1>1, WriterNext, TypeCorrect, PTL DEF Spec

-----------------------------------------------------------------------------
(***************************************************************************)
(* Executions that follow one another.                                     *)
(***************************************************************************)

Busy(r) == pc[r] # "idle"

\* At most one execution, and what the record says at each of its stages.
OneRun ==
  /\ \A r, s \in Runs : Busy(r) /\ Busy(s) => r = s
  /\ \A r \in Runs :
       /\ Busy(r) => job[r] \in Reqs
       /\ pc[r] = "claim" => rec.status \in {"queued", "running", "error"}
       /\ pc[r] = "build" => /\ rec.status = "running"
                             /\ rec.step = step[r]
       /\ pc[r] = "check" => rec.status \in {"complete", "error"}

\* Every attempt is still awaited by the queue, an inline run has no task.
Linked ==
  \A r \in Runs :
    /\ ~Busy(r) => link[r] = "none" /\ sent[r] = 0
    /\ link[r] = "open" => task[job[r]] = "queued" /\ sent[r] < Deadline
    /\ link[r] # "dropped"
    /\ Busy(r) /\ link[r] = "none" =>
         /\ pc[r] \in {"claim", "build"}
         /\ req[job[r]] = "done" /\ task[job[r]] = "none"

\* Where the /start handler is, and what exists by then.
Started ==
  \A q \in Reqs :
    /\ req[q] = "new" <=> rec.status = "absent"
    /\ req[q] \in {"new", "persisted", "refused"} =>
         task[q] = "none" /\ \A r \in Runs : ~Busy(r)
    /\ req[q] \in {"persisted", "refused"} => rec.status = "queued"

FileInv == SingleFile => OneRun /\ Linked /\ Started

LEMMA FileInit == Init => FileInv
BY ConstantsAssumption DEF Init, FileInv, OneRun, Linked, Started, Busy

\* The faults that SingleFile rules out never strike.
LEMMA NoStrike ==
  ASSUME SingleFile, NEW kind \in {"lostReply", "duplicate", "slow", "lostWrite"}
  PROVE  ~Strike(kind)
BY DEF SingleFile, Strike

LEMMA NoLostWrite ==
  ASSUME SingleFile, NEW written, Persist(written)
  PROVE  rec' = written
BY NoStrike DEF Persist

LEMMA FileStart ==
  ASSUME TypeOK, SingleFile, OneRun, Linked, Started,
         NEW q \in Reqs, StartStep(q)
  PROVE  OneRun' /\ Linked' /\ Started'
<1>0. \A p \in Reqs : p = q
  BY DEF SingleFile
<1>1. CASE StartPersist(q)
  <2>1. rec' = NewStore("queued", 0, 0, q)
    BY <1>1, NoLostWrite DEF StartPersist
  <2>2. QED
    BY <1>0, <1>1, <2>1
    DEF StartPersist, NewStore, OneRun, Linked, Started, Busy, TypeOK, queueVars, runVars
<1>2. CASE EnqueueAccepted(q)
  BY <1>0, <1>2 DEF EnqueueAccepted, OneRun, Linked, Started, Busy, TypeOK, runVars
<1>3. CASE EnqueueRefused(q)
  BY <1>0, <1>3
  DEF EnqueueRefused, OneRun, Linked, Started, Busy, TypeOK, queueVars, runVars
<1>4. CASE ReplyArrives(q)
  BY <1>0, <1>4
  DEF ReplyArrives, OneRun, Linked, Started, Busy, TypeOK, queueVars, runVars
<1>5. CASE ReplyLost(q)
  BY <1>5, NoStrike DEF ReplyLost
<1>6. CASE StartCrash(q)
  <2>1. req[q] # "new" /\ req' = [req EXCEPT ![q] = "failed"]
    BY <1>6 DEF StartCrash
  <2>2. req[q] # "done"
    BY <1>6 DEF StartCrash
  <2>3. QED
    BY <1>0, <1>6, <2>1, <2>2
    DEF StartCrash, OneRun, Linked, Started, Busy, TypeOK, queueVars, runVars
<1>7. ASSUME NEW r \in Runs, InlineFallback(q, r)
      PROVE  OneRun' /\ Linked' /\ Started'
  <2>1. req[q] = "refused" /\ task[q] = "none" /\ rec.status = "queued"
        /\ \A s \in Runs : ~Busy(s)
    BY <1>7 DEF InlineFallback, Started
  <2>2. OneRun'
    BY <1>7, <2>1 DEF InlineFallback, Occupy, OneRun, Busy, TypeOK
  <2>3. Linked'
    BY <1>0, <1>7, <2>1 DEF InlineFallback, Occupy, Linked, Busy, TypeOK, queueVars
  <2>4. Started'
    BY <1>0, <1>7, <2>1 DEF InlineFallback, Started, TypeOK, queueVars
  <2>5. QED
    BY <2>2, <2>3, <2>4
<1>8. QED
  BY <1>1, <1>2, <1>3, <1>4, <1>5, <1>6, <1>7 DEF StartStep

LEMMA FileDeliver ==
  ASSUME TypeOK, SingleFile, OneRun, Linked, Started,
         NEW q \in Reqs, NEW r \in Runs, Deliver(q, r)
  PROVE  OneRun' /\ Linked' /\ Started'
<1>0. \A p \in Reqs : p = q
  BY DEF SingleFile
<1>1. \A s \in Runs : ~Busy(s)
  BY <1>0 DEF Deliver, InFlight, Linked, OneRun, TypeOK
<1>2. OneRun'
  BY <1>1 DEF Deliver, Occupy, OneRun, Busy, TypeOK
<1>3. Linked'
  BY <1>0, <1>1, ConstantsAssumption
  DEF Deliver, Occupy, Linked, Busy, TypeOK, queueVars
<1>4. req[q] \notin {"new", "persisted", "refused"}
  BY DEF Deliver, Started
<1>5. Started'
  BY <1>0, <1>4 DEF Deliver, Started, TypeOK, queueVars
<1>6. QED
  BY <1>2, <1>3, <1>5

\* The only busy execution ends: everything is idle again.
LEMMA AllIdle ==
  ASSUME TypeOK, SingleFile, OneRun, Linked, Started,
         NEW r \in Runs, Busy(r), Release(r)
  PROVE  /\ \A s \in Runs : ~Busy(s)' /\ link'[s] = "none" /\ sent'[s] = 0
         /\ \A q \in Reqs : req[q] \notin {"new", "persisted", "refused"}
<1>1. \A s \in Runs : s # r => ~Busy(s)
  BY DEF OneRun
<1>2. \A s \in Runs : ~Busy(s)' /\ link'[s] = "none" /\ sent'[s] = 0
  BY <1>1 DEF Release, Linked, Busy, TypeOK
<1>3. \A q \in Reqs : req[q] \notin {"new", "persisted", "refused"}
  BY DEF Started
<1>4. QED
  BY <1>2, <1>3

LEMMA FileEnd ==
  ASSUME TypeOK, SingleFile, OneRun, Linked, Started,
         NEW r \in Runs, Busy(r), Release(r),
         req' = req, rec'.status # "absent", rec.status # "absent"
  PROVE  OneRun' /\ Linked' /\ Started'
<1>1. /\ \A s \in Runs : ~Busy(s)' /\ link'[s] = "none" /\ sent'[s] = 0
      /\ \A q \in Reqs : req[q] \notin {"new", "persisted", "refused"}
  BY AllIdle
<1>2. OneRun'
  BY <1>1 DEF OneRun, Busy
<1>3. Linked'
  BY <1>1 DEF Linked
<1>4. Started'
  BY <1>1 DEF Started
<1>5. QED
  BY <1>2, <1>3, <1>4

\* A busy execution implies that the record exists.
LEMMA BusyPresent ==
  ASSUME TypeOK, OneRun, Started, NEW r \in Runs, Busy(r)
  PROVE  rec.status # "absent" /\ job[r] \in Reqs
BY DEF OneRun, Started

\* The execution moves on to another stage, in place.
LEMMA FileStage ==
  ASSUME TypeOK, SingleFile, OneRun, Linked, Started,
         NEW r \in Runs, Busy(r), NEW at \in {"claim", "build", "check"},
         pc' = [pc EXCEPT ![r] = at],
         at = "check" => link[r] # "none",
         UNCHANGED <<req, task, job, link, sent>>,
         rec'.status # "absent",
         at = "claim" => rec'.status \in {"queued", "running", "error"},
         at = "build" => rec'.status = "running" /\ rec'.step = step'[r],
         at = "check" => rec'.status \in {"complete", "error"}
  PROVE  OneRun' /\ Linked' /\ Started'
<1>1. \A s \in Runs : s # r => ~Busy(s)
  BY DEF OneRun
<1>2. \A s \in Runs : pc'[s] = IF s = r THEN at ELSE "idle"
  BY <1>1 DEF Busy, TypeOK
<1>3. rec.status # "absent" /\ job[r] \in Reqs
  BY BusyPresent
<1>4. OneRun'
  BY <1>2, <1>3 DEF OneRun, Busy
<1>5. Linked'
  BY <1>1, <1>2 DEF Linked, Busy, TypeOK
<1>6. Started'
  BY <1>2, <1>3 DEF Started, Busy, TypeOK
<1>7. QED
  BY <1>4, <1>5, <1>6

LEMMA FileRun ==
  ASSUME TypeOK, SingleFile, OneRun, Linked, Started,
         NEW r \in Runs, RunStep(r)
  PROVE  OneRun' /\ Linked' /\ Started'
<1>1. CASE GuardSkip(r) \/ ReadFails(r) \/ Recheck(r) \/ Crash(r)
  <2>1. Busy(r) /\ Release(r) /\ req' = req /\ rec' = rec
    BY <1>1 DEF GuardSkip, ReadFails, Recheck, Crash, Busy
  <2>2. QED
    BY <2>1, BusyPresent, FileEnd
<1>2. CASE GuardPass(r)
  <2>1. Busy(r) /\ rec.status \in {"queued", "running", "error"}
    BY <1>2, BusyPresent DEF GuardPass, Skips, Busy, TypeOK, Document
  <2>2. QED
    BY <1>2, <2>1, FileStage DEF GuardPass, queueVars
<1>3. CASE Claim(r)
  <2>1. rec' = NewStore("running", 0, 0, job[r]) /\ Busy(r)
    BY <1>3, NoLostWrite DEF Claim, Busy
  <2>2. step'[r] = 0
    BY <1>3 DEF Claim, TypeOK
  <2>3. QED
    BY <1>3, <2>1, <2>2, FileStage DEF Claim, NewStore, queueVars
<1>4. CASE Event(r)
  <2>1. rec' = NewStore("running", age[r], step[r] + 1, job[r]) /\ Busy(r)
    BY <1>4, NoLostWrite DEF Event, Busy
  <2>2. step'[r] = step[r] + 1 /\ pc' = [pc EXCEPT ![r] = "build"]
    BY <1>4 DEF Event, TypeOK
  <2>3. QED
    BY <1>4, <2>1, <2>2, FileStage DEF Event, NewStore, queueVars
<1>5. CASE Complete(r) \/ Fail(r)
  <2>1. Busy(r) /\ EndBuild(r) /\ UNCHANGED <<req, queueVars>>
    BY <1>5 DEF Complete, Fail, Busy
  <2>2. rec'.status \in {"complete", "error"}
    <3>1. CASE Complete(r)
      BY <3>1, NoLostWrite DEF Complete, NewStore
    <3>2. CASE Fail(r)
      BY <3>2 DEF Fail, SingleFile, NewStore
    <3>3. QED
      BY <1>5, <3>1, <3>2
  <2>3. CASE link[r] = "none"
    BY <2>1, <2>2, <2>3, BusyPresent, FileEnd DEF EndBuild
  <2>4. CASE link[r] # "none"
    BY <2>1, <2>2, <2>4, FileStage DEF EndBuild, queueVars
  <2>5. QED
    BY <2>3, <2>4
<1>6. CASE DispatchDeadline(r)
  <2>1. sent[r] < Deadline /\ sent[r] = Deadline
    BY <1>6 DEF DispatchDeadline, Linked
  <2>2. QED
    BY <2>1, ConstantsAssumption DEF TypeOK
<1>7. QED
  BY <1>1, <1>2, <1>3, <1>4, <1>5, <1>6 DEF RunStep

LEMMA FileTick ==
  ASSUME TypeOK, SingleFile, OneRun, Linked, Started, Tick
  PROVE  OneRun' /\ Linked' /\ Started'
<1>1. rec'.status = rec.status /\ rec'.step = rec.step
  BY DEF Tick, TypeOK, Document
<1>2. OneRun'
  BY <1>1 DEF Tick, OneRun, Busy
<1>3. Linked'
  <2>1. \A r \in Runs : link[r] = "open" => sent[r] + 1 < Deadline
    BY DEF Tick, SingleFile
  <2>2. \A r \in Runs : link[r] = "open" => sent'[r] < Deadline
    BY <2>1, ConstantsAssumption DEF Tick, Older, TypeOK
  <2>3. \A r \in Runs : link[r] # "open" => sent'[r] = sent[r]
    BY DEF Tick
  <2>4. QED
    BY <2>2, <2>3 DEF Tick, Linked, Busy
<1>4. Started'
  BY <1>1 DEF Tick, Started, Busy
<1>5. QED
  BY <1>2, <1>3, <1>4

LEMMA FileNext == TypeOK /\ FileInv /\ [Next]_vars => FileInv'
<1> SUFFICES ASSUME TypeOK, SingleFile, OneRun, Linked, Started, [Next]_vars
             PROVE  OneRun' /\ Linked' /\ Started'
  BY DEF FileInv
<1>1. ASSUME NEW q \in Reqs, StartStep(q) PROVE OneRun' /\ Linked' /\ Started'
  BY <1>1, FileStart
<1>2. ASSUME NEW q \in Reqs, NEW r \in Runs, Deliver(q, r)
      PROVE  OneRun' /\ Linked' /\ Started'
  BY <1>2, FileDeliver
<1>3. ASSUME NEW q \in Reqs, NEW r \in Runs, DeliverAgain(q, r) PROVE FALSE
  BY <1>3, NoStrike DEF DeliverAgain
<1>4. ASSUME NEW r \in Runs, RunStep(r) PROVE OneRun' /\ Linked' /\ Started'
  BY <1>4, FileRun
<1>5. CASE Tick
  BY <1>5, FileTick
<1>6. CASE UNCHANGED vars
  BY <1>6 DEF vars, OneRun, Linked, Started, Busy
<1>7. QED
  BY <1>1, <1>2, <1>3, <1>4, <1>5, <1>6 DEF Next

LEMMA FileAlways == Spec => []FileInv
<1>1. Init => FileInv
  BY FileInit
<1>2. QED
  BY <1>1, FileNext, TypeCorrect, PTL DEF Spec

(***************************************************************************)
(* One /start per key, no duplicate or overdue delivery and no lost reply  *)
(* or write: then one execution at a time writes the record.               *)
(***************************************************************************)
THEOREM OneWriter == Spec => []SingleWriterInFile
<1>1. FileInv => SingleWriterInFile
  BY DEF FileInv, OneRun, Busy, SingleWriterInFile, SingleWriter, Writers
<1>2. QED
  BY <1>1, FileAlways, PTL

-----------------------------------------------------------------------------
(***************************************************************************)
(* An acknowledged task left a complete build.                             *)
(***************************************************************************)

\* An acknowledged task has nobody working for it any more.
AckedInv ==
  \A q \in Reqs : task[q] = "acked" => rec.status = "complete" /\ \A r \in Runs : ~Busy(r)

\* An abandoned "running" record is stale by the time of the retry.
StaleInv ==
  /\ \A q \in Reqs :
       rec.status = "running" /\ task[q] = "queued" /\ (\A r \in Runs : ~Busy(r)) =>
         rec.age + wait[q] >= Stale
  /\ \A r \in Runs : pc[r] = "guard" /\ rec.status = "running" => rec.age >= Stale

RecoveryInv == SingleFile /\ RetryOutlivesClaim => AckedInv /\ StaleInv

\* The task of a busy execution was not acknowledged.
LEMMA BusyUnacked ==
  ASSUME AckedInv, NEW r \in Runs, Busy(r), NEW q \in Reqs
  PROVE  task[q] # "acked"
BY DEF AckedInv

\* Steps that leave a busy execution behind keep both.
LEMMA StillBusy ==
  ASSUME AckedInv, NEW r \in Runs, Busy(r), Busy(r)', task' = task,
         \A s \in Runs : pc'[s] # "guard"
  PROVE  AckedInv' /\ StaleInv'
<1>1. AckedInv'
  BY BusyUnacked DEF AckedInv
<1>2. StaleInv'
  BY DEF StaleInv
<1>3. QED
  BY <1>1, <1>2

LEMMA AckedRun ==
  ASSUME TypeOK, SingleFile, RetryOutlivesClaim, RunningHasWriter,
         OneRun, Linked, Started, AckedInv, StaleInv,
         NEW r \in Runs, RunStep(r)
  PROVE  AckedInv' /\ StaleInv'
<1>0. (\A p, q \in Reqs : p = q) /\ Stale \in Nat /\ Backoff \in Nat
  BY ConstantsAssumption DEF SingleFile
<1>1. Busy(r) \/ DispatchDeadline(r)
  BY DEF RunStep, GuardSkip, GuardPass, ReadFails, Recheck, Claim, Event,
         Complete, Fail, Crash, Busy
<1>2. ~DispatchDeadline(r)
  <2>1. link[r] = "open" => sent[r] < Deadline /\ sent[r] \in Nat
    BY DEF Linked, TypeOK
  <2>2. QED
    BY <2>1, ConstantsAssumption DEF DispatchDeadline
<1>3. Busy(r) /\ job[r] \in Reqs
  BY <1>1, <1>2, BusyPresent
<1>4. \A s \in Runs : s # r => ~Busy(s)
  BY <1>3 DEF OneRun
<1>5. task[job[r]] # "acked"
  BY <1>3, BusyUnacked
<1>6. rec.status = "running" /\ pc[r] # "build" => Backoff >= Stale
  <2>1. SUFFICES ASSUME rec.status = "running", pc[r] # "build"
                 PROVE  Backoff >= Stale
    OBVIOUS
  <2>2. Writers = {}
    BY <2>1, <1>4 DEF Writers, Busy
  <2>3. "crash" \in Faults
    BY <2>1, <2>2 DEF RunningHasWriter, SingleFile
  <2>4. QED
    BY <2>3 DEF RetryOutlivesClaim
<1>7. CASE GuardSkip(r)
  <2>1. rec.status = "complete"
    <3>1. rec.status = "running" => rec.age >= Stale /\ rec.age \in Nat
      BY <1>7 DEF GuardSkip, StaleInv, TypeOK, Document
    <3>2. QED
      BY <1>7, <3>1, <1>0 DEF GuardSkip, Skips, Fresh
  <2>2. \A s \in Runs : ~Busy(s)'
    BY <1>3, <1>7, AllIdle DEF GuardSkip
  <2>3. rec' = rec
    BY <1>7 DEF GuardSkip
  <2>4. QED
    BY <2>1, <2>2, <2>3 DEF AckedInv, StaleInv, Busy
<1>8. CASE GuardPass(r)
  <2>1. Busy(r)' /\ task' = task /\ \A s \in Runs : pc'[s] # "guard"
    BY <1>4, <1>8 DEF GuardPass, Busy, TypeOK, queueVars
  <2>2. QED
    BY <1>3, <2>1, StillBusy
<1>9. CASE ReadFails(r) \/ Crash(r)
  <2>1. Release(r) /\ rec' = rec /\ AttemptFailed(r)
    BY <1>9 DEF ReadFails, Crash
  <2>2. \A s \in Runs : ~Busy(s)'
    BY <1>3, <2>1, AllIdle
  <2>3. AckedInv'
    BY <1>0, <1>3, <1>5, <2>1 DEF AttemptFailed, AckedInv
  <2>4. rec.status = "running" => Backoff >= Stale
    <3>1. CASE Crash(r)
      BY <3>1 DEF Crash, Strike, RetryOutlivesClaim
    <3>2. CASE ReadFails(r)
      BY <3>2, <1>6 DEF ReadFails
    <3>3. QED
      BY <1>9, <3>1, <3>2
  <2>5. ASSUME NEW q \in Reqs, rec.status = "running", task'[q] = "queued"
        PROVE  rec.age + wait'[q] >= Stale
    <3>1. q = job[r] /\ task[q] = "queued"
      BY <1>0, <1>3, <2>1, <2>5 DEF AttemptFailed
    <3>2. link[r] = "open"
      BY <3>1, <1>3 DEF Linked, TypeOK
    <3>3. wait'[q] = Backoff
      BY <2>1, <3>1, <3>2 DEF AttemptFailed, TypeOK
    <3>4. QED
      BY <1>0, <2>4, <2>5, <3>3 DEF TypeOK, Document
  <2>6. StaleInv'
    BY <2>1, <2>2, <2>5 DEF StaleInv, Busy
  <2>7. QED
    BY <2>3, <2>6
<1>10. CASE Recheck(r)
  <2>1. Release(r) /\ rec' = rec /\ rec.status \in {"complete", "error"}
    BY <1>10 DEF Recheck, OneRun
  <2>2. \A s \in Runs : ~Busy(s)'
    BY <1>3, <2>1, AllIdle
  <2>3. CASE rec.status = "error"
    BY <1>0, <1>3, <1>5, <1>10, <2>1, <2>2, <2>3
    DEF Recheck, AttemptFailed, AckedInv, StaleInv, Busy
  <2>4. CASE rec.status = "complete"
    BY <2>1, <2>2, <2>4 DEF AckedInv, StaleInv, Busy
  <2>5. QED
    BY <2>1, <2>3, <2>4
<1>11. CASE Claim(r) \/ Event(r)
  <2>1. Busy(r)' /\ task' = task /\ \A s \in Runs : pc'[s] # "guard"
    BY <1>4, <1>11 DEF Claim, Event, Busy, TypeOK, queueVars
  <2>2. QED
    BY <1>3, <2>1, StillBusy
<1>12. CASE Complete(r) \/ Fail(r)
  <2>1. EndBuild(r) /\ task' = task
    BY <1>12 DEF Complete, Fail, queueVars
  <2>2. CASE link[r] = "none"
    <3>1. \A s \in Runs : ~Busy(s)'
      BY <1>3, <2>1, <2>2, AllIdle DEF EndBuild
    <3>2. \A q \in Reqs : task'[q] = "none"
      BY <1>0, <1>3, <2>1, <2>2 DEF Linked
    <3>3. QED
      BY <3>1, <3>2 DEF AckedInv, StaleInv, Busy
  <2>3. CASE link[r] # "none"
    <3>1. Busy(r)' /\ \A s \in Runs : pc'[s] # "guard"
      BY <1>4, <2>1, <2>3 DEF EndBuild, Busy, TypeOK
    <3>2. QED
      BY <1>3, <2>1, <3>1, StillBusy
  <2>4. QED
    BY <2>2, <2>3
<1>13. QED
  BY <1>2, <1>7, <1>8, <1>9, <1>10, <1>11, <1>12 DEF RunStep

LEMMA AckedStart ==
  ASSUME TypeOK, SingleFile, OneRun, Linked, Started, AckedInv, StaleInv,
         NEW q \in Reqs, StartStep(q)
  PROVE  AckedInv' /\ StaleInv'
<1>0. \A p \in Reqs : p = q
  BY DEF SingleFile
<1>1. CASE StartPersist(q)
  <2>1. rec'.status = "queued"
    BY <1>1, NoLostWrite DEF StartPersist, NewStore
  <2>2. task[q] = "none" /\ task' = task
    BY <1>1 DEF StartPersist, Started, queueVars
  <2>3. QED
    BY <1>0, <2>1, <2>2 DEF AckedInv, StaleInv
<1>2. CASE EnqueueAccepted(q)
  <2>1. rec.status = "queued" /\ rec' = rec
    BY <1>2 DEF EnqueueAccepted, Started
  <2>2. task'[q] = "queued"
    BY <1>2 DEF EnqueueAccepted, TypeOK
  <2>3. QED
    BY <1>0, <2>1, <2>2 DEF AckedInv, StaleInv
<1>3. CASE EnqueueRefused(q) \/ ReplyArrives(q) \/ StartCrash(q)
  BY <1>3
  DEF EnqueueRefused, ReplyArrives, StartCrash, queueVars, runVars,
      AckedInv, StaleInv, Busy
<1>4. CASE ReplyLost(q)
  BY <1>4, NoStrike DEF ReplyLost
<1>5. ASSUME NEW r \in Runs, InlineFallback(q, r) PROVE AckedInv' /\ StaleInv'
  <2>1. task[q] = "none" /\ task' = task /\ rec.status = "queued" /\ rec' = rec
    BY <1>5 DEF InlineFallback, Started, queueVars
  <2>2. QED
    BY <1>0, <2>1 DEF AckedInv, StaleInv
<1>6. QED
  BY <1>1, <1>2, <1>3, <1>4, <1>5 DEF StartStep

LEMMA AckedDeliver ==
  ASSUME TypeOK, SingleFile, OneRun, Linked, AckedInv, StaleInv,
         NEW q \in Reqs, NEW r \in Runs, Deliver(q, r)
  PROVE  AckedInv' /\ StaleInv'
<1>0. \A p \in Reqs : p = q
  BY DEF SingleFile
<1>1. \A s \in Runs : ~Busy(s)
  BY <1>0 DEF Deliver, InFlight, Linked, OneRun, TypeOK
<1>2. rec.status = "running" => rec.age >= Stale
  <2>1. SUFFICES ASSUME rec.status = "running" PROVE rec.age >= Stale
    OBVIOUS
  <2>2. rec.age + wait[q] >= Stale /\ wait[q] = 0
    BY <1>1, <2>1 DEF Deliver, StaleInv
  <2>3. QED
    BY <2>2 DEF TypeOK, Document
<1>3. rec' = rec /\ task'[q] = "queued" /\ Busy(r)'
  BY DEF Deliver, Occupy, Busy, TypeOK, queueVars
<1>4. QED
  BY <1>0, <1>2, <1>3 DEF AckedInv, StaleInv

LEMMA AckedTick ==
  ASSUME TypeOK, AckedInv, StaleInv, Tick
  PROVE  AckedInv' /\ StaleInv'
<1>1. rec'.status = rec.status /\ task' = task /\ pc' = pc
  BY DEF Tick, TypeOK, Document
<1>2. AckedInv'
  BY <1>1 DEF AckedInv, Busy
<1>3. rec.age \in Nat /\ rec.age <= Stale /\ Stale \in Nat
  BY ConstantsAssumption DEF TypeOK, Document
<1>4. rec.status = "running" => rec'.age = IF rec.age < Stale THEN rec.age + 1 ELSE Stale
  BY DEF Tick, Older, TypeOK, Document
<1>5. ASSUME NEW q \in Reqs, rec.status = "running", rec.age + wait[q] >= Stale
      PROVE  rec'.age + wait'[q] >= Stale
  <2>1. wait[q] \in Nat /\ wait'[q] = IF wait[q] > 0 THEN wait[q] - 1 ELSE 0
    BY ConstantsAssumption DEF Tick, TypeOK
  <2>2. QED
    BY <1>3, <1>4, <1>5, <2>1
<1>6. StaleInv'
  BY <1>1, <1>3, <1>4, <1>5 DEF StaleInv, Busy
<1>7. QED
  BY <1>2, <1>6

LEMMA AckedNext ==
  TypeOK /\ FileInv /\ RunningHasWriter /\ RecoveryInv /\ [Next]_vars => RecoveryInv'
<1> SUFFICES ASSUME TypeOK, SingleFile, RetryOutlivesClaim, RunningHasWriter,
                    OneRun, Linked, Started, AckedInv, StaleInv, [Next]_vars
             PROVE  AckedInv' /\ StaleInv'
  BY DEF FileInv, RecoveryInv
<1>1. ASSUME NEW q \in Reqs, StartStep(q) PROVE AckedInv' /\ StaleInv'
  BY <1>1, AckedStart
<1>2. ASSUME NEW q \in Reqs, NEW r \in Runs, Deliver(q, r)
      PROVE  AckedInv' /\ StaleInv'
  BY <1>2, AckedDeliver
<1>3. ASSUME NEW q \in Reqs, NEW r \in Runs, DeliverAgain(q, r) PROVE FALSE
  BY <1>3, NoStrike DEF DeliverAgain
<1>4. ASSUME NEW r \in Runs, RunStep(r) PROVE AckedInv' /\ StaleInv'
  BY <1>4, AckedRun
<1>5. CASE Tick
  BY <1>5, AckedTick
<1>6. CASE UNCHANGED vars
  BY <1>6 DEF vars, AckedInv, StaleInv, Busy
<1>7. QED
  BY <1>1, <1>2, <1>3, <1>4, <1>5, <1>6 DEF Next

(***************************************************************************)
(* When a retry waits at least as long as the staleness window, the queue  *)
(* lets go of a task only when its build is complete, through any number   *)
(* of crashes, build errors and failed reads.                              *)
(***************************************************************************)
THEOREM AckedBuilt == Spec => []AckedIsComplete
<1>1. Init => RecoveryInv
  BY DEF Init, RecoveryInv, AckedInv, StaleInv
<1>2. RecoveryInv => AckedIsComplete
  BY DEF RecoveryInv, AckedInv, AckedIsComplete
<1>3. QED
  BY <1>1, <1>2, AckedNext, FileAlways, RunningIsWritten, TypeCorrect, PTL DEF Spec

-----------------------------------------------------------------------------
(***************************************************************************)
(* Executions that follow one another keep the promise of BuildPromise.    *)
(***************************************************************************)

LEMMA PromiseInit == Init => Promise!Init
BY DEF Init, Promise!Init

LEMMA PromiseNext ==
  ASSUME SingleFile, TypeOK, FileInv, [Next]_vars
  PROVE  [Promise!Next]_<<rec.status, rec.step>>
<1> USE DEF Promise!Next, Promise!Queue, Promise!Begin, Promise!Advance,
            Promise!Finish, Promise!GiveUp
<1>0. OneRun /\ Started
  BY DEF FileInv
<1>1. ASSUME NEW q \in Reqs, StartStep(q)
      PROVE  [Promise!Next]_<<rec.status, rec.step>>
  <2>1. CASE StartPersist(q)
    <3>1. rec.status = "absent" /\ rec' = NewStore("queued", 0, 0, q)
      BY <1>0, <2>1, NoLostWrite DEF StartPersist, Started
    <3>2. QED
      BY <3>1 DEF NewStore
  <2>2. CASE ~StartPersist(q)
    <3>1. rec' = rec
      BY <1>1, <2>2 DEF StartStep, EnqueueAccepted, EnqueueRefused, ReplyArrives,
                        ReplyLost, StartCrash, InlineFallback
    <3>2. QED
      BY <3>1
  <2>3. QED
    BY <2>1, <2>2
<1>2. ASSUME NEW q \in Reqs, NEW r \in Runs, Deliver(q, r) \/ DeliverAgain(q, r)
      PROVE  [Promise!Next]_<<rec.status, rec.step>>
  BY <1>2 DEF Deliver, DeliverAgain
<1>3. ASSUME NEW r \in Runs, RunStep(r)
      PROVE  [Promise!Next]_<<rec.status, rec.step>>
  <2>1. CASE Claim(r)
    <3>1. rec.status \in {"queued", "running", "error"}
      BY <1>0, <2>1 DEF Claim, OneRun
    <3>2. rec' = NewStore("running", 0, 0, job[r])
      BY <2>1, NoLostWrite DEF Claim
    <3>3. QED
      BY <3>1, <3>2 DEF NewStore
  <2>2. CASE Event(r)
    <3>1. rec.status = "running" /\ rec.step = step[r] /\ step[r] < Steps
      BY <1>0, <2>2 DEF Event, OneRun
    <3>2. rec' = NewStore("running", age[r], step[r] + 1, job[r])
      BY <2>2, NoLostWrite DEF Event
    <3>3. QED
      BY <3>1, <3>2 DEF NewStore
  <2>3. CASE Complete(r)
    <3>1. rec.status = "running" /\ rec.step = Steps
      BY <1>0, <2>3 DEF Complete, OneRun
    <3>2. rec' = NewStore("complete", 0, Steps, job[r])
      BY <2>3, NoLostWrite DEF Complete
    <3>3. QED
      BY <3>1, <3>2 DEF NewStore
  <2>4. CASE Fail(r)
    <3>1. rec.status = "running" /\ rec.step = step[r]
      BY <1>0, <2>4 DEF Fail, OneRun
    <3>2. rec' = NewStore("error", 0, step[r], job[r])
      BY <2>4 DEF Fail, SingleFile
    <3>3. QED
      BY <3>1, <3>2 DEF NewStore
  <2>5. CASE GuardSkip(r) \/ GuardPass(r) \/ ReadFails(r) \/ Recheck(r)
             \/ Crash(r) \/ DispatchDeadline(r)
    BY <2>5 DEF GuardSkip, GuardPass, ReadFails, Recheck, Crash, DispatchDeadline
  <2>6. QED
    BY <1>3, <2>1, <2>2, <2>3, <2>4, <2>5 DEF RunStep
<1>4. CASE Tick
  BY <1>4 DEF Tick, TypeOK, Document
<1>5. CASE UNCHANGED vars
  BY <1>5 DEF vars
<1>6. QED
  BY <1>1, <1>2, <1>3, <1>4, <1>5 DEF Next

(***************************************************************************)
(* The reader of a build record sees a queued build run from its first     *)
(* event to its last, and a complete build stay complete, when executions  *)
(* follow one another.                                                     *)
(***************************************************************************)
THEOREM PromiseIsKept ==
  ASSUME SingleFile
  PROVE  Spec => PromiseKept
BY PromiseInit, PromiseNext, FileAlways, TypeCorrect, PTL
DEF Spec, PromiseKept, Promise!Spec

\* The promise as BuildWatch has it: a run may be complete after any number of
\* events.
Watchable == INSTANCE BuildPromise WITH status <- rec.status, done <- rec.step, Ends <- 0..Steps

(***************************************************************************)
(* The record that the dispatch makes and the one that BuildWatch reduces  *)
(* it to (RecordPromised there) keep one and the same promise.             *)
(***************************************************************************)
THEOREM DispatchIsWatchable ==
  ASSUME SingleFile
  PROVE  Spec => Watchable!Spec
<1>1. Promise!Init => Watchable!Init
  BY DEF Promise!Init, Watchable!Init
<1>2. [Promise!Next]_<<rec.status, rec.step>> => [Watchable!Next]_<<rec.status, rec.step>>
  BY ConstantsAssumption
  DEF Promise!Next, Promise!Queue, Promise!Begin, Promise!Advance, Promise!Finish, Promise!GiveUp,
      Watchable!Next, Watchable!Queue, Watchable!Begin, Watchable!Advance, Watchable!Finish,
      Watchable!GiveUp
<1> QED
  BY <1>1, <1>2, PromiseIsKept, PTL DEF PromiseKept, Promise!Spec, Watchable!Spec

-----------------------------------------------------------------------------
(* JobPipeline.                                                            *)

(***************************************************************************)
(* Type correctness.  A file needs a model call, and a tail that goes on   *)
(* has not used up its misses: JobTypeOK is inductive only with these two  *)
(* counts.                                                                 *)
(***************************************************************************)
Counted ==
  /\ stage \in {"none", "start", "analyze", "architect"} => live.files = 0
  /\ stage = "codegen" => live.files + left <= Calls
  /\ srv \in {"none", "tailing", "stranger"} => missing <= Misses

Typed == JobTypeOK /\ Counted

USE PipelineAssumption DEF Documents, Phases, Nodes, Terminal

LEMMA NoDocTyped == NoDoc \in Documents /\ NoDoc.files = 0
BY DEF NoDoc

LEMMA JobInitTyped == JobInit => Typed
<1>1. JobInit => refused \in BOOLEAN
  BY Zenon DEF JobInit
<1> QED
  BY <1>1 DEF JobInit, Typed, JobTypeOK, Counted, NoDoc

\* A node is entered with a typed state and a typed number of calls.
LEMMA EnterTyped ==
  ASSUME Typed, NEW node \in Nodes, NEW n \in 0..(Calls + 1), Enter(node, n)
  PROVE  /\ live' \in Documents /\ live'.files = live.files
         /\ stage' = node /\ left' = n
<1>1. PhaseOf[node] \in Phases /\ StepOf[node] \in 0..4
  BY DEF PhaseOf, StepOf
<1>2. live' = [live EXCEPT !.phase = PhaseOf[node], !.progress = StepOf[node]]
  BY DEF Enter
<1>3. live \in Documents
  BY DEF Typed, JobTypeOK
<1>4. live' \in Documents /\ live'.files = live.files
  BY <1>1, <1>2, <1>3
<1> QED
  BY <1>4 DEF Enter

LEMMA NodeDoneTyped == Typed /\ NodeDone => Typed'
<1> SUFFICES ASSUME Typed, NodeDone PROVE Typed'
  OBVIOUS
<1>1. 0 \in 0..(Calls + 1) /\ 1 \in 0..(Calls + 1) /\ 0..Calls \subseteq 0..(Calls + 1)
  OBVIOUS
<1>2. CASE stage = "analyze"
  <2>1. Enter("architect", 1)
    BY <1>2 DEF NodeDone
  <2> QED
    BY <1>1, <1>2, <2>1, EnterTyped DEF NodeDone, Typed, JobTypeOK, Counted, callVars, tailVars
<1>3. CASE stage = "architect"
  <2>1. PICK n \in 0..Calls : Enter("codegen", n)
    BY <1>3 DEF NodeDone
  <2>2. live' \in Documents /\ live'.files = live.files /\ stage' = "codegen" /\ left' = n
    BY <1>1, <2>1, EnterTyped
  <2>3. live'.files + left' <= Calls
    BY <1>3, <2>2 DEF Typed, JobTypeOK, Counted
  <2> QED
    BY <1>3, <2>2, <2>3 DEF NodeDone, Typed, JobTypeOK, Counted, callVars, tailVars
<1>4. CASE stage = "codegen"
  <2>1. PICK n \in 0..Calls : Enter("review", n)
    BY <1>4 DEF NodeDone
  <2> QED
    BY <1>1, <1>4, <2>1, EnterTyped DEF NodeDone, Typed, JobTypeOK, Counted, callVars, tailVars
<1>5. CASE stage = "review"
  BY <1>5 DEF NodeDone, Typed, JobTypeOK, Counted, callVars, tailVars
<1> QED
  BY <1>2, <1>3, <1>4, <1>5 DEF NodeDone

LEMMA JobNextTyped == Typed /\ [JobNext]_jobVars => Typed'
<1> SUFFICES ASSUME Typed, [JobNext]_jobVars PROVE Typed'
  OBVIOUS
<1> USE DEF Typed, JobTypeOK, Counted, pipeVars, callVars, tailVars
<1>1. CASE Start
  <2>1. live' = [NoDoc EXCEPT !.phase = "analyzing"]
    BY <1>1 DEF Start
  <2>2. live' \in Documents /\ live'.files = 0
    BY <2>1, NoDocTyped
  <2> QED
    BY <1>1, <2>2 DEF Start
<1>2. CASE Begin
  <2>1. Enter("analyze", 1) /\ 1 \in 0..(Calls + 1)
    BY <1>2 DEF Begin
  <2>2. live' \in Documents /\ live'.files = live.files /\ stage' = "analyze" /\ left' = 1
    BY <2>1, EnterTyped
  <2> QED
    BY <1>2, <2>2 DEF Begin
<1>3. CASE NoGraph \/ NodeRaises
  BY <1>3 DEF NoGraph, NodeRaises
<1>4. CASE ModelAnswers
  BY <1>4 DEF ModelAnswers
<1>5. CASE ModelFails
  BY <1>5 DEF ModelFails
<1>6. CASE NodeDone
  BY <1>6, NodeDoneTyped
<1>7. CASE Store \/ TellComplete \/ TellError \/ Vanish
  BY <1>7 DEF Store, TellComplete, TellError, Vanish
<1>14. CASE StoreFails
  <2>1. refused' \in BOOLEAN
    BY <1>14, Zenon DEF StoreFails
  <2> QED
    BY <1>14, <2>1 DEF StoreFails
<1>8. CASE StoreError
  <2>1. [live EXCEPT !.phase = "error"] \in Documents
    OBVIOUS
  <2>2. [NoDoc EXCEPT !.phase = "error"] \in Documents
    BY NoDocTyped
  <2>3. live' \in Documents
    BY <1>8, <2>1, <2>2 DEF StoreError
  <2> QED
    BY <1>8, <2>3 DEF StoreError
<1>9. ASSUME NEW c \in Callers, ApproveRead(c) \/ ApproveWrite(c) PROVE Typed'
  BY <1>9 DEF ApproveRead, ApproveWrite
<1>10. CASE Connect
  BY <1>10 DEF Connect
<1>11. CASE TailMissing
  BY <1>11 DEF TailMissing
<1>12. CASE TailRead \/ TailForeign \/ TailBreaks
  BY <1>12 DEF TailRead, TailForeign, TailBreaks
<1>13. CASE UNCHANGED jobVars
  BY <1>13 DEF jobVars
<1> QED
  BY <1>1, <1>2, <1>3, <1>4, <1>5, <1>6, <1>7, <1>8, <1>9, <1>10, <1>11, <1>12, <1>13,
     <1>14
  DEF JobNext, PipelineStep, TailStep

(***************************************************************************)
(* Every variable of the pipeline, its callers and its tail keeps its      *)
(* type.                                                                   *)
(***************************************************************************)
THEOREM JobTypes == JobSpec => []JobTypeOK
<1>1. JobSpec => []Typed
  BY JobInitTyped, JobNextTyped, PTL DEF JobSpec
<1> QED
  BY <1>1, PTL DEF Typed

-----------------------------------------------------------------------------
(***************************************************************************)
(* Verdicts.  A document with a verdict, stored or in the hands of an      *)
(* approve call, exists only once the pipeline has stopped changing its    *)
(* own state, and agrees with it, or with the complete result it had when  *)
(* the store raised; so writing it back forges nothing.  Between the store *)
(* and the broadcast the undisturbed document is that state.               *)
(***************************************************************************)
Stopped == {"tell", "tellError", "over", "dead"}

\* The pipeline has come to its verdict, though after a refusal not for good.
Decided == stage \in Stopped \/ refused

Final(d) ==
  d.phase \in Terminal =>
    /\ Decided /\ d.files = live.files
    /\ d.phase = live.phase \/ WasComplete(d.phase)

VerdictInv ==
  /\ Final(doc)
  /\ \A c \in Callers : Final(copy[c])
  /\ stage \in {"store", "tell"} => live.phase = "complete"
  /\ stage = "tellError" => live.phase = "error"
  /\ refused => stage \in Stopped \cup {"failing"} /\ live.phase \in Terminal
  /\ refused /\ stage = "failing" => live.phase = "complete"
  /\ told # "none" => stage = "over" /\ live.phase = told
  /\ (stage \in {"tell", "tellError"} \/ told # "none") /\ ~Disturbed => doc = live

LEMMA InitVerdict == JobInit => VerdictInv
BY DEF JobInit, VerdictInv, Final, NoDoc

LEMMA NextVerdict == Typed /\ VerdictInv /\ [JobNext]_jobVars => VerdictInv'
<1> SUFFICES ASSUME JobTypeOK, VerdictInv, [JobNext]_jobVars PROVE VerdictInv'
  BY DEF Typed
<1> USE DEF JobTypeOK, VerdictInv, Final, Decided, WasComplete, Stopped, Disturbed, pipeVars,
            callVars, tailVars
<1>1. CASE Start
  BY <1>1 DEF Start, NoDoc
<1>2. CASE Begin
  BY <1>2 DEF Begin, Enter
<1>3. CASE NoGraph \/ NodeRaises
  BY <1>3 DEF NoGraph, NodeRaises
<1>4. CASE ModelAnswers
  BY <1>4 DEF ModelAnswers
<1>5. CASE ModelFails
  BY <1>5 DEF ModelFails
<1>6. CASE NodeDone
  BY <1>6 DEF NodeDone, Enter
<1>7. CASE Store \/ StoreFails
  BY <1>7 DEF Store, StoreFails
<1>8. CASE TellComplete \/ TellError
  BY <1>8 DEF TellComplete, TellError
<1>9. CASE Vanish
  BY <1>9 DEF Vanish
<1>10. CASE StoreError
  BY <1>10 DEF StoreError, NoDoc
<1>11. ASSUME NEW c \in Callers, ApproveRead(c) PROVE VerdictInv'
  <2>1. PICK v \in BOOLEAN : copy' = [copy EXCEPT ![c] = [doc EXCEPT !.approved = v]]
    BY <1>11 DEF ApproveRead
  <2>2. copy'[c].phase = doc.phase /\ copy'[c].files = doc.files
    BY <2>1
  <2>3. \A e \in Callers : e # c => copy'[e] = copy[e]
    BY <2>1
  <2>4. Disturbed' = Disturbed
    BY <1>11 DEF ApproveRead
  <2>5. UNCHANGED <<doc, live, stage, told, refused>>
    BY <1>11 DEF ApproveRead
  <2> QED
    BY <2>2, <2>3, <2>4, <2>5
<1>12. ASSUME NEW c \in Callers, ApproveWrite(c) PROVE VerdictInv'
  BY <1>12 DEF ApproveWrite
<1>13. CASE Connect \/ TailStep \/ TailBreaks
  BY <1>13 DEF Connect, TailStep, TailMissing, TailRead, TailForeign, TailBreaks
<1>14. CASE UNCHANGED jobVars
  BY <1>14 DEF jobVars
<1> QED
  BY <1>1, <1>2, <1>3, <1>4, <1>5, <1>6, <1>7, <1>8, <1>9, <1>10, <1>11, <1>12, <1>13, <1>14
  DEF JobNext, PipelineStep

LEMMA VerdictHolds == JobSpec => []VerdictInv
BY JobInitTyped, JobNextTyped, InitVerdict, NextVerdict, PTL DEF JobSpec

(***************************************************************************)
(* Whatever the approve calls write back, and wherever the task vanishes,  *)
(* a stored verdict is the pipeline's own, with all of its files, or its   *)
(* complete result on which the store raised, with the same files.         *)
(***************************************************************************)
THEOREM NoForgedVerdict == JobSpec => []StoreNeverAhead
<1>1. VerdictInv => StoreNeverAhead
  BY DEF VerdictInv, Final, StoreNeverAhead
<1> QED
  BY <1>1, VerdictHolds, PTL

(***************************************************************************)
(* A verdict that was broadcast is in the store, files and all, unless an  *)
(* approve call has written over it.                                       *)
(***************************************************************************)
THEOREM ToldAfterStored == JobSpec => []ToldIsStored
<1>1. VerdictInv => ToldIsStored
  BY DEF VerdictInv, ToldIsStored
<1> QED
  BY <1>1, VerdictHolds, PTL

-----------------------------------------------------------------------------
(***************************************************************************)
(* The promise of a job.  A reader sees a job that is absent, open or      *)
(* decided; the pipeline's own state is decided from its last node, or its *)
(* error path, on; once refused it stays so.  No approve call holds a      *)
(* document of a job that was not there, so none makes it absent again.    *)
(***************************************************************************)
Undecided == {"start", "analyze", "architect", "codegen", "review", "failing"}

OpenInv ==
  /\ stage = "none" =>
       live = NoDoc /\ doc = NoDoc /\ told = "none" /\ \A c \in Callers : call[c] = "new"
  /\ stage # "none" => live.phase # "none" /\ doc.phase # "none"
  /\ stage \in Undecided => live.phase \notin Terminal \/ refused
  /\ \A c \in Callers : call[c] = "read" => copy[c].phase # "none"

LEMMA OpenInit == JobInit => OpenInv
BY DEF JobInit, OpenInv, Undecided

LEMMA OpenNext == Typed /\ VerdictInv /\ OpenInv /\ [JobNext]_jobVars => OpenInv'
<1> SUFFICES ASSUME JobTypeOK, VerdictInv, OpenInv, [JobNext]_jobVars PROVE OpenInv'
  BY DEF Typed
<1> USE DEF JobTypeOK, OpenInv, Undecided, pipeVars, callVars, tailVars
<1>1. CASE Start
  BY <1>1 DEF Start, NoDoc
<1>2. CASE Begin
  BY <1>2 DEF Begin, Enter, PhaseOf
<1>3. CASE NoGraph \/ NodeRaises
  BY <1>3 DEF NoGraph, NodeRaises
<1>4. CASE ModelAnswers
  BY <1>4 DEF ModelAnswers
<1>5. CASE ModelFails
  BY <1>5 DEF ModelFails
<1>6. CASE NodeDone
  BY <1>6 DEF NodeDone, Enter, PhaseOf
<1>7. CASE Store \/ StoreFails \/ TellComplete \/ TellError
  BY <1>7 DEF Store, StoreFails, TellComplete, TellError, VerdictInv
<1>8. CASE Vanish
  BY <1>8 DEF Vanish
<1>9. CASE StoreError
  BY <1>9 DEF StoreError, NoDoc
<1>10. ASSUME NEW c \in Callers, ApproveRead(c) PROVE OpenInv'
  <2>1. PICK v \in BOOLEAN : copy' = [copy EXCEPT ![c] = [doc EXCEPT !.approved = v]]
    BY <1>10 DEF ApproveRead
  <2>2. copy'[c].phase = doc.phase /\ \A e \in Callers : e # c => copy'[e] = copy[e]
    BY <2>1
  <2>3. stage # "none"
    BY <1>10 DEF ApproveRead
  <2>4. doc.phase # "none"
    BY <2>3
  <2>5. \A e \in Callers : call'[e] = "read" => copy'[e].phase # "none"
    BY <1>10, <2>2, <2>4 DEF ApproveRead
  <2> QED
    BY <1>10, <2>5 DEF ApproveRead
<1>11. ASSUME NEW c \in Callers, ApproveWrite(c) PROVE OpenInv'
  BY <1>11 DEF ApproveWrite
<1>12. CASE Connect \/ TailStep \/ TailBreaks
  BY <1>12 DEF Connect, TailStep, TailMissing, TailRead, TailForeign, TailBreaks
<1>13. CASE UNCHANGED jobVars
  BY <1>13 DEF jobVars
<1> QED
  BY <1>1, <1>2, <1>3, <1>4, <1>5, <1>6, <1>7, <1>8, <1>9, <1>10, <1>11, <1>12, <1>13
  DEF JobNext, PipelineStep

LEMMA PromisedInit == JobInit => Promised!Init
BY DEF JobInit, Promised!Init, Promised!Absent, View, NoDoc, Disturbed, Withdrawn

\* What a document shows stays what it is as long as phase and files do.
LEMMA SameView ==
  ASSUME NEW d, NEW e, d.phase = e.phase, d.files = e.files
  PROVE  View(d) = View(e)
BY DEF View

LEMMA OpenView ==
  ASSUME NEW d, d.phase # "none", d.phase \notin Terminal
  PROVE  View(d) = Promised!Open
BY DEF View, Promised!Open

LEMMA FinalView ==
  ASSUME NEW d \in Documents, d.phase \in Terminal
  PROVE  /\ View(d) = [phase |-> d.phase, files |-> d.files]
         /\ View(d) \in Promised!Results
BY DEF View, Promised!Results

LEMMA PromisedNext ==
  ASSUME Typed, VerdictInv, OpenInv, [JobNext]_jobVars
  PROVE  [Promised!Next]_<<View(live), View(doc), told, Disturbed, Withdrawn>>
<1> DEFINE Kept == UNCHANGED <<View(live), View(doc), told, Disturbed, Withdrawn>>
<1> USE DEF pipeVars, callVars, tailVars
<1>0. live \in Documents /\ doc \in Documents /\ copy \in [Callers -> Documents]
  BY DEF Typed, JobTypeOK
<1>1. CASE Start
  <2>1. View(live) = Promised!Absent
    BY <1>1 DEF Start, OpenInv, NoDoc, View, Promised!Absent
  <2>2. View(live') = Promised!Open /\ doc' = live'
    BY <1>1 DEF Start, NoDoc, View, Promised!Open
  <2>3. told' = told /\ Disturbed' = Disturbed
    BY <1>1 DEF Start, Disturbed
  <2>4. Withdrawn = {} /\ Withdrawn' = {}
    BY <1>1 DEF Start, VerdictInv, Stopped, Withdrawn
  <2> QED
    BY <2>1, <2>2, <2>3, <2>4 DEF Promised!Next, Promised!Accept
<1>2. CASE Begin \/ NoGraph \/ ModelAnswers \/ ModelFails \/ NodeRaises \/ (NodeDone /\ stage # "review")
  <2>1. stage \in Undecided
    BY <1>2 DEF Begin, NoGraph, ModelAnswers, ModelFails, NodeRaises, NodeDone, Undecided
  <2>2. stage' \in Undecided /\ doc' = doc /\ told' = told /\ call' = call
    BY <1>2 DEF Begin, NoGraph, ModelAnswers, ModelFails, NodeRaises, NodeDone, Enter, Undecided
  <2>3. OpenInv'
    BY OpenNext
  <2>4. ~refused /\ refused' = refused
    BY <1>2 DEF Begin, NoGraph, ModelAnswers, ModelFails, NodeRaises, NodeDone, VerdictInv,
                Stopped, Nodes
  <2>5. View(live) = Promised!Open
    BY <2>1, <2>4, OpenView DEF OpenInv, Undecided
  <2>6. View(live') = Promised!Open
    BY <2>2, <2>3, <2>4, OpenView DEF OpenInv, Undecided
  <2> QED
    BY <2>2, <2>4, <2>5, <2>6 DEF Disturbed, Withdrawn
<1>3. CASE NodeDone /\ stage = "review"
  <2>1. live' = [live EXCEPT !.phase = "complete"] /\ doc' = doc /\ told' = told /\ call' = call
    BY <1>3 DEF NodeDone
  <2>2. ~refused /\ refused' = refused /\ View(live) = Promised!Open
    BY <1>3, OpenView DEF NodeDone, OpenInv, Undecided, VerdictInv, Stopped
  <2>3. live' \in Documents /\ live'.phase \in Terminal
    BY <1>0, <2>1
  <2>4. View(live') \in Promised!Results
    BY <2>3, FinalView
  <2> QED
    BY <2>1, <2>2, <2>4 DEF Promised!Next, Promised!Decide, Disturbed, Withdrawn
<1>4. CASE Store \/ StoreFails
  <2>1. /\ live.phase = "complete" /\ doc' \in {doc, live}
        /\ live' = live /\ told' = told /\ call' = call
    BY <1>4 DEF Store, StoreFails, VerdictInv
  <2>2. View(live) \in Promised!Results
    BY <1>0, <2>1, FinalView
  <2>3. Withdrawn = {} /\ Withdrawn' = {}
    BY <2>1 DEF Withdrawn
  <2> QED
    BY <2>1, <2>2, <2>3 DEF Promised!Next, Promised!Store, Disturbed
<1>5. CASE StoreError
  <2>1. /\ live' \in Documents /\ live'.phase = "error" /\ doc' = live'
        /\ UNCHANGED <<told, call, refused>> /\ stage = "failing"
    BY <1>0, <1>5, NoDocTyped DEF StoreError
  <2>2. View(live') \in Promised!Results
    BY <2>1, FinalView
  <2>3. CASE ~refused
    <3>1. View(live) = Promised!Open
      BY <2>1, <2>3, OpenView DEF OpenInv, Undecided
    <3>2. Withdrawn = {} /\ Withdrawn' = {}
      BY <2>1, <2>3 DEF Withdrawn
    <3> QED
      BY <2>1, <2>2, <3>1, <3>2 DEF Promised!Next, Promised!Decide, Disturbed
  <2>4. CASE refused
    <3>1. live.phase = "complete" /\ live'.files = live.files /\ told = "none"
      BY <1>0, <1>5, <2>1, <2>4 DEF StoreError, VerdictInv
    <3>2. View(live) = [phase |-> "complete", files |-> live.files] /\ View(live) \in Promised!Results
      BY <1>0, <3>1, FinalView
    <3>3. View(live') = [phase |-> "error", files |-> live.files]
      BY <2>1, <3>1, FinalView
    <3>4. View(live') = [View(live) EXCEPT !.phase = "error"]
      BY <3>2, <3>3
    <3>5. Withdrawn = {} /\ Withdrawn' = {View(live)}
      BY <2>1, <2>4, <3>1, <3>2 DEF Withdrawn
    <3>6. View(doc') = View(live') /\ told' = told /\ Disturbed' = Disturbed
      BY <2>1 DEF Disturbed
    <3> QED
      BY <3>1, <3>2, <3>4, <3>5, <3>6 DEF Promised!Next, Promised!Withdraw
  <2> QED
    BY <2>3, <2>4
<1>6. CASE TellComplete \/ TellError
  <2>1. /\ live.phase \in Terminal /\ told = "none" /\ told' = live.phase
        /\ UNCHANGED <<live, doc, call, refused>> /\ (doc = live \/ Disturbed)
    BY <1>6 DEF TellComplete, TellError, VerdictInv
  <2>2. View(live) \in Promised!Results /\ View(live).phase = live.phase
    BY <1>0, <2>1, FinalView
  <2> QED
    BY <2>1, <2>2 DEF Promised!Next, Promised!Tell, Disturbed, Withdrawn
<1>7. ASSUME NEW c \in Callers, ApproveRead(c) PROVE Kept
  <2>1. UNCHANGED <<live, doc, told, refused>> /\ call' = [call EXCEPT ![c] = "read"] /\ call[c] = "new"
    BY <1>7 DEF ApproveRead
  <2>2. call \in [Callers -> {"new", "read", "done"}]
    BY DEF Typed, JobTypeOK
  <2> QED
    BY <2>1, <2>2 DEF Disturbed, Withdrawn
<1>8. ASSUME NEW c \in Callers, ApproveWrite(c)
      PROVE  [Promised!Next]_<<View(live), View(doc), told, Disturbed, Withdrawn>>
  <2>1. UNCHANGED <<live, told, refused>> /\ doc' = copy[c] /\ call' = [call EXCEPT ![c] = "done"]
    BY <1>8 DEF ApproveWrite
  <2>2. call \in [Callers -> {"new", "read", "done"}] /\ call[c] = "read"
    BY <1>8 DEF Typed, JobTypeOK, ApproveWrite
  <2>3. Disturbed'
    BY <2>1, <2>2 DEF Disturbed
  <2>4. copy[c].phase # "none" /\ doc.phase # "none" /\ stage # "none"
    BY <2>2 DEF OpenInv
  <2>5. View(doc) # Promised!Absent
    BY <1>0, <2>4 DEF View, Promised!Absent
  <2>6. View(copy[c]) \in {Promised!Open, View(live)} \cup Withdrawn
    <3>1. CASE copy[c].phase \in Terminal
      <4>1. copy[c].files = live.files
        BY <3>1 DEF VerdictInv, Final
      <4>2. CASE copy[c].phase = live.phase
        BY <4>1, <4>2, SameView
      <4>3. CASE copy[c].phase # live.phase
        <5>1. refused /\ copy[c].phase = "complete" /\ live.phase = "error"
          BY <3>1, <4>3 DEF VerdictInv, Final, WasComplete
        <5>2. View(copy[c]) = [phase |-> "complete", files |-> live.files]
          BY <4>1, <5>1 DEF View
        <5> QED
          BY <5>1, <5>2 DEF Withdrawn
      <4> QED
        BY <4>2, <4>3
    <3>2. CASE copy[c].phase \notin Terminal
      BY <2>4, <3>2, OpenView
    <3> QED
      BY <3>1, <3>2
  <2> QED
    BY <2>1, <2>3, <2>5, <2>6 DEF Promised!Next, Promised!Rewrite, Withdrawn
<1>9. CASE Vanish \/ Connect \/ TailStep \/ TailBreaks \/ UNCHANGED jobVars
  BY <1>9 DEF Vanish, Connect, TailStep, TailMissing, TailRead, TailForeign, TailBreaks, jobVars,
              Disturbed, Withdrawn
<1> QED
  BY <1>1, <1>2, <1>3, <1>4, <1>5, <1>6, <1>7, <1>8, <1>9 DEF JobNext, PipelineStep

(***************************************************************************)
(* Whatever the model answers, wherever the task vanishes, whenever the    *)
(* store raises and whatever the approve calls write back: readers see an  *)
(* open job, the job's result with its files, or a complete one that was   *)
(* withdrawn because the store had raised on it; the session hears of the  *)
(* result after the store had it, and from then on it does not change.     *)
(***************************************************************************)
THEOREM JobPromiseIsKept == JobSpec => JobPromiseKept
<1>1. JobSpec => [](Typed /\ VerdictInv)
  BY JobInitTyped, JobNextTyped, InitVerdict, NextVerdict, PTL DEF JobSpec
<1>2. JobSpec => []OpenInv
  BY <1>1, OpenInit, OpenNext, PTL DEF JobSpec
<1> QED
  BY <1>1, <1>2, PromisedInit, PromisedNext, PTL
  DEF JobSpec, JobPromiseKept, Promised!Spec, Promised!vars

-----------------------------------------------------------------------------
(***************************************************************************)
(* The tail.  Its signature begins with the phase it sent last, so that a  *)
(* final document it finds unchanged is one whose verdict it has sent.     *)
(***************************************************************************)
TailInv ==
  /\ srv = "none" => sig = NoSig
  /\ srv \in {"none", "stranger"} => lastSent = "none"
  /\ srv = "tailing" => sig = NoSig \/ \E p, f : sig = <<lastSent, p, f>>
  /\ srv = "ended" => lastSent \in Terminal \cup {"not_found"}
  /\ lastSent \in Terminal => Decided /\ (lastSent = live.phase \/ WasComplete(lastSent))

LEMMA TailInit == JobInit => TailInv
BY DEF JobInit, TailInv

\* Once the pipeline has decided its own state stays as it is, or the complete result
\* that was refused becomes an error.
LEMMA DecidedStays ==
  ASSUME VerdictInv, Decided, [JobNext]_jobVars
  PROVE  Decided' /\ (refused => refused') /\ (live' = live \/ (refused /\ live.phase = "complete"))
<1> USE DEF Decided, Stopped, pipeVars
<1>1. CASE Start \/ PipelineStep \/ Vanish
  BY <1>1 DEF Start, PipelineStep, Vanish, Begin, NoGraph, ModelAnswers, ModelFails, NodeRaises,
              NodeDone, Store, StoreFails, TellComplete, StoreError, TellError, VerdictInv
<1>2. ASSUME NEW c \in Callers, ApproveRead(c) \/ ApproveWrite(c) PROVE UNCHANGED pipeVars
  BY <1>2 DEF ApproveRead, ApproveWrite
<1>3. CASE Connect \/ TailStep \/ TailBreaks
  BY <1>3 DEF Connect, TailStep, TailMissing, TailRead, TailForeign, TailBreaks
<1>4. CASE UNCHANGED jobVars
  BY <1>4 DEF jobVars
<1> QED
  BY <1>1, <1>2, <1>3, <1>4 DEF JobNext

LEMMA TailNext == VerdictInv /\ TailInv /\ [JobNext]_jobVars => TailInv'
<1> SUFFICES ASSUME VerdictInv, TailInv, [JobNext]_jobVars PROVE TailInv'
  OBVIOUS
<1>0. ASSUME lastSent \in Terminal
      PROVE  Decided' /\ (lastSent = live'.phase \/ (refused' /\ lastSent = "complete"))
  <2>1. Decided /\ (lastSent = live.phase \/ (refused /\ lastSent = "complete"))
    BY <1>0 DEF TailInv, WasComplete
  <2>2. Decided' /\ (refused => refused') /\ (live' = live \/ (refused /\ live.phase = "complete"))
    BY <2>1, DecidedStays
  <2> QED
    BY <2>1, <2>2
<1>1. CASE Connect \/ TailBreaks
  BY <1>0, <1>1 DEF Connect, TailBreaks, TailInv, WasComplete
<1>2. CASE TailMissing \/ TailForeign
  BY <1>0, <1>2 DEF TailMissing, TailForeign, TailInv, WasComplete
<1>3. CASE TailRead
  <2>1. sig' = <<doc.phase, doc.progress, doc.files>> /\ srv = "tailing"
    BY <1>3 DEF TailRead, Signature
  <2>2. lastSent' = doc.phase
    <3>1. CASE sig' # sig
      BY <1>3, <3>1 DEF TailRead
    <3>2. CASE sig' = sig
      <4>1. sig # NoSig
        BY <2>1, <3>2 DEF NoSig
      <4>2. PICK p, f : sig = <<lastSent, p, f>>
        BY <2>1, <4>1 DEF TailInv
      <4> QED
        BY <1>3, <2>1, <3>2, <4>2 DEF TailRead
    <3> QED
      BY <3>1, <3>2
  <2>3. doc.phase \in Terminal => Decided /\ (doc.phase = live.phase \/ WasComplete(doc.phase))
    BY DEF VerdictInv, Final
  <2>4. srv' = IF doc.phase \in Terminal THEN "ended" ELSE "tailing"
    BY <1>3, <2>1 DEF TailRead
  <2>5. UNCHANGED <<stage, live, refused>>
    BY <1>3 DEF TailRead, pipeVars
  <2> QED
    BY <2>1, <2>2, <2>3, <2>4, <2>5 DEF TailInv, Decided, WasComplete
<1>4. CASE Start \/ PipelineStep \/ Vanish
  <2>1. UNCHANGED tailVars
    BY <1>4 DEF Start, PipelineStep, Vanish, Begin, NoGraph, ModelAnswers, ModelFails, NodeRaises,
                NodeDone, Store, StoreFails, TellComplete, StoreError, TellError
  <2> QED
    BY <1>0, <2>1 DEF TailInv, tailVars, WasComplete
<1>5. ASSUME NEW c \in Callers, ApproveRead(c) \/ ApproveWrite(c) PROVE UNCHANGED tailVars
  BY <1>5 DEF ApproveRead, ApproveWrite
<1>6. CASE UNCHANGED jobVars
  BY <1>0, <1>6 DEF TailInv, jobVars, WasComplete
<1>7. CASE UNCHANGED tailVars
  BY <1>0, <1>7 DEF TailInv, tailVars, WasComplete
<1> QED
  BY <1>1, <1>2, <1>3, <1>4, <1>5, <1>6, <1>7 DEF JobNext, TailStep

(***************************************************************************)
(* A stream that is not broken off never ends in silence, and none ends    *)
(* with a verdict the pipeline did not come to, though it compares         *)
(* signatures and the documents it reads may have been written back by an  *)
(* approve call; a stranger is sent nothing of the job.                    *)
(***************************************************************************)
THEOREM StreamsAreTrue == JobSpec => []StreamIsTrue
<1>1. TailInv => StreamIsTrue
  BY DEF TailInv, StreamIsTrue
<1> QED
  BY <1>1, VerdictHolds, TailInit, TailNext, PTL DEF JobSpec

-----------------------------------------------------------------------------
(***************************************************************************)
(* Progress.  The order of the stages, and what a step of the pipeline     *)
(* does towards the end: a later stage, a call less, or an attempt more.   *)
(***************************************************************************)
RankOf == [none |-> 0, start |-> 1, analyze |-> 2, architect |-> 3, codegen |-> 4, review |-> 5,
           store |-> 6, failing |-> 7, tell |-> 8, tellError |-> 8, over |-> 9, dead |-> 9]

Nearer ==
  \/ RankOf[stage'] > RankOf[stage]
  \/ stage' = stage /\ left' < left
  \/ stage' = stage /\ left' = left /\ tries' > tries

\* Stages, calls and attempts are numbers up to a limit, so that there is an end
\* to coming nearer.
Measured == RankOf[stage] \in 0..9 /\ left \in 0..(Calls + 1) /\ tries \in 0..(Retries - 1)

Advances ==
  /\ PipelineStep => Nearer
  /\ UNCHANGED pipeVars \/ Nearer

LEMMA NodeDoneNears == NodeDone => Nearer
<1> SUFFICES ASSUME NodeDone PROVE RankOf[stage'] > RankOf[stage]
  BY DEF Nearer
<1>1. \/ stage = "analyze" /\ stage' = "architect"
      \/ stage = "architect" /\ stage' = "codegen"
      \/ stage = "codegen" /\ stage' = "review"
      \/ stage = "review" /\ stage' = "store"
  BY DEF NodeDone, Enter
<1> QED
  BY <1>1 DEF RankOf

LEMMA StepNears == JobTypeOK /\ PipelineStep => Nearer
<1> SUFFICES ASSUME JobTypeOK, PipelineStep PROVE Nearer
  OBVIOUS
<1> USE DEF Nearer, RankOf, JobTypeOK
<1>1. CASE Begin \/ NoGraph \/ NodeRaises
  BY <1>1 DEF Begin, NoGraph, NodeRaises, Enter
<1>2. CASE ModelAnswers
  BY <1>2 DEF ModelAnswers
<1>3. CASE ModelFails
  BY <1>3 DEF ModelFails
<1>4. CASE Store \/ StoreFails \/ TellComplete \/ StoreError \/ TellError
  BY <1>4 DEF Store, StoreFails, TellComplete, StoreError, TellError
<1> QED
  BY <1>1, <1>2, <1>3, <1>4, NodeDoneNears DEF PipelineStep

LEMMA NextAdvances == JobTypeOK /\ [JobNext]_jobVars => Advances
<1> SUFFICES ASSUME JobTypeOK, [JobNext]_jobVars PROVE UNCHANGED pipeVars \/ Nearer
  BY StepNears DEF Advances
<1>1. CASE Start \/ Vanish
  BY <1>1 DEF Start, Vanish, Nearer, RankOf
<1>2. ASSUME NEW c \in Callers, ApproveRead(c) \/ ApproveWrite(c) PROVE UNCHANGED pipeVars
  BY <1>2 DEF ApproveRead, ApproveWrite
<1>3. CASE Connect \/ TailStep \/ TailBreaks
  BY <1>3 DEF Connect, TailStep, TailMissing, TailRead, TailForeign, TailBreaks
<1>4. CASE UNCHANGED jobVars
  BY <1>4 DEF jobVars, pipeVars
<1> QED
  BY <1>1, <1>2, <1>3, <1>4, StepNears DEF JobNext

(***************************************************************************)
(* The safe half of JobSettles: every step of the pipeline, whatever the   *)
(* model answers, brings it nearer to its end by a measure that is         *)
(* bounded, and nothing else, neither approve calls nor the tail, sets it  *)
(* back.                                                                   *)
(***************************************************************************)
THEOREM JobAdvances == JobSpec => []Measured /\ [][Advances]_jobVars
<1>1. JobTypeOK => Measured
  BY DEF JobTypeOK, Measured, RankOf
<1> QED
  BY <1>1, JobTypes, NextAdvances, PTL DEF JobSpec

-----------------------------------------------------------------------------
(* The composition.                                                        *)

\* A step of both pipelines is a step of one, or leaves it alone.
LEMMA PipelinesStep ==
  [PipelinesNext]_<<focus, vars, jobVars>> => [Next]_vars /\ [JobNext]_jobVars
BY DEF PipelinesNext

(***************************************************************************)
(* Builds and jobs share no state: a behaviour of both is a fair one of    *)
(* the dispatch and a fair one of the job pipeline, whichever pipelines    *)
(* are in focus.  What is proved of either holds of the specifications     *)
(* that are run.                                                           *)
(***************************************************************************)
THEOREM PipelinesCompose ==
  /\ BuildsSpec => FairSpec /\ JobSpec
  /\ PipelinesSpec => FairSpec /\ JobFairSpec
<1>1. PipelinesInit => Init /\ JobInit
  BY DEF PipelinesInit
<1> QED
  BY <1>1, PipelinesStep, PTL DEF BuildsSpec, PipelinesSpec, FairSpec, Spec, JobFairSpec, JobSpec
=============================================================================
