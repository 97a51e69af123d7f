---------------------------- MODULE ParallelBuild ----------------------------
(***************************************************************************)
(* execute_parallel_build and the event callback that records it: the      *)
(* swarm of model calls, one per milestone, the files of their answers,    *)
(* and the record a watcher reads.  Builds of the same project name run    *)
(* over one project directory (project_dir is made of the slug alone); it  *)
(* is scratch space, and the files a client loads come from the record.    *)
(*                                                                         *)
(* Simplifications.                                                        *)
(*  - A file is its path; its content is <<build, n>>, the build's n-th    *)
(*    file.                                                                *)
(*  - The log, the current task, the sub-agents and the syntax check are   *)
(*    left out, and with them the events that touch nothing else           *)
(*    (milestone_started, codegen_diag, ast_results): module BuildWatch    *)
(*    has the log.                                                         *)
(*  - Whether a claim is justified is module BuildDispatch's subject: a    *)
(*    build here is one execution with a record of its own.                *)
(***************************************************************************)
EXTENDS Naturals, Sequences, SequencesExt

CONSTANTS
  Builds,      \* executions over one project directory
  Milestones,  \* milestones of the blueprint: 1..Milestones
  Paths,       \* the file paths an answer may name
  Answers,     \* the files a model call may answer with, in order; <<>> if it raised
  Scaffold,    \* the paths of _generate_scaffold_files
  MaxLost      \* bound on the record writes that are lost

ASSUME SwarmAssumption ==
  /\ Milestones \in Nat /\ MaxLost \in Nat
  /\ Scaffold \in Seq(Paths) /\ Answers \subseteq Seq(Paths)

VARIABLES
  pc,      \* "idle", "swarm", "write", "scaffold", "close", "final" or "over"
  answer,  \* per milestone, the files of its model call; Pending before
  at,      \* the milestone whose files are being written
  nth,     \* files of it (or of the scaffold) written so far
  made,    \* session.generated_files
  store,   \* the working copy of the record
  due,     \* a change of the working copy has still to be written through
  rec,     \* the record in the durable store
  disk,    \* the project directory
  lost     \* record writes lost so far

swarmVars == <<pc, answer, at, nth, made, store, due, rec, disk, lost>>

Pending == <<"pending">>
NoFile == <<>>
Swarm == 1..Milestones

Document == [status : {"none", "running", "complete", "error"}, progress : 0..100,
             files : Seq(Paths), generated : Seq(Paths)]
NoStore == [status |-> "none", progress |-> 0, files |-> <<>>, generated |-> <<>>]

SwarmTypeOK ==
  /\ pc \in [Builds -> {"idle", "swarm", "write", "scaffold", "close", "final", "over"}]
  /\ answer \in [Builds -> [Swarm -> Answers \cup {Pending}]]
  /\ at \in [Builds -> 1..(Milestones + 1)] /\ nth \in [Builds -> Nat]
  /\ made \in [Builds -> Seq(Paths)]
  /\ store \in [Builds -> Document] /\ rec \in [Builds -> Document]
  /\ due \in [Builds -> BOOLEAN] /\ lost \in 0..MaxLost
  /\ disk \in [Paths -> (Builds \X Nat) \cup {NoFile}]

SwarmInit ==
  /\ pc = [b \in Builds |-> "idle"]
  /\ answer = [b \in Builds |-> [m \in Swarm |-> Pending]]
  /\ at = [b \in Builds |-> 1] /\ nth = [b \in Builds |-> 0]
  /\ made = [b \in Builds |-> <<>>]
  /\ store = [b \in Builds |-> NoStore] /\ rec = [b \in Builds |-> NoStore]
  /\ due = [b \in Builds |-> FALSE] /\ lost = 0
  /\ disk = [p \in Paths |-> NoFile]

-----------------------------------------------------------------------------
(* The callback: every event is written through before the build goes on.  *)

Ready(b, where) == pc[b] = where /\ ~due[b]

\* _persist_build: the whole working copy, or nothing when the write fails.
WriteThrough(b) ==
  /\ due[b]
  /\ due' = [due EXCEPT ![b] = FALSE]
  /\ \/ rec' = [rec EXCEPT ![b] = store[b]] /\ UNCHANGED lost
     \/ lost < MaxLost /\ lost' = lost + 1 /\ UNCHANGED rec
  /\ UNCHANGED <<pc, answer, at, nth, made, store, disk>>

Record(b, doc) ==
  /\ store' = [store EXCEPT ![b] = doc]
  /\ due' = [due EXCEPT ![b] = TRUE]
  /\ UNCHANGED <<rec, lost>>

-----------------------------------------------------------------------------
(* execute_parallel_build.                                                 *)

\* The claim, the directory, build_started and every milestone_started.
Begin(b) ==
  /\ Ready(b, "idle")
  /\ pc' = [pc EXCEPT ![b] = "swarm"]
  /\ Record(b, [NoStore EXCEPT !.status = "running"])
  /\ UNCHANGED <<answer, at, nth, made, disk>>

\* _gen: one model call ends, with files, or without any when it raised.
Answer(b, m) ==
  /\ Ready(b, "swarm") /\ answer[b][m] = Pending
  /\ \E files \in Answers : answer' = [answer EXCEPT ![b][m] = files]
  /\ UNCHANGED <<pc, at, nth, made, store, due, rec, disk, lost>>

\* asyncio.gather returns when every call has ended.
Gather(b) ==
  /\ Ready(b, "swarm") /\ \A m \in Swarm : answer[b][m] # Pending
  /\ pc' = [pc EXCEPT ![b] = "write"]
  /\ UNCHANGED <<answer, at, nth, made, store, due, rec, disk, lost>>

\* Mutant: a file that is there already is left alone.
SaveUnlessThere(b, path) ==
  /\ disk' = IF disk[path] = NoFile
             THEN [disk EXCEPT ![path] = <<b, Len(made[b]) + 1>>] ELSE disk
  /\ nth' = [nth EXCEPT ![b] = @ + 1]
  /\ made' = [made EXCEPT ![b] = Append(@, path)]
  /\ Record(b, [store[b] EXCEPT !.files = Append(@, path)])

\* Open, write, append to generated_files, emit file_generated.
Save(b, path) ==
  /\ disk' = [disk EXCEPT ![path] = <<b, Len(made[b]) + 1>>]
  /\ nth' = [nth EXCEPT ![b] = @ + 1]
  /\ made' = [made EXCEPT ![b] = Append(@, path)]
  /\ Record(b, [store[b] EXCEPT !.files = Append(@, path)])

\* The files of the answers are written in the order of the milestones.
WriteFile(b) ==
  /\ Ready(b, "write") /\ at[b] <= Milestones
  /\ nth[b] < Len(answer[b][at[b]])
  /\ Save(b, answer[b][at[b]][nth[b] + 1])
  /\ UNCHANGED <<pc, answer, at>>

Percent(n) == (100 * n) \div Milestones

\* Mutant: the progress of the next milestone is reported.
MilestoneCompletedEarly(b) ==
  /\ Ready(b, "write") /\ at[b] <= Milestones
  /\ nth[b] = Len(answer[b][at[b]])
  /\ at' = [at EXCEPT ![b] = @ + 1] /\ nth' = [nth EXCEPT ![b] = 0]
  /\ Record(b, [store[b] EXCEPT !.progress = Percent(at[b] + 1)])
  /\ UNCHANGED <<pc, answer, made, disk>>

\* int(done / n * 100); the code's floats may round one percent further down.
MilestoneCompleted(b) ==
  /\ Ready(b, "write") /\ at[b] <= Milestones
  /\ nth[b] = Len(answer[b][at[b]])
  /\ at' = [at EXCEPT ![b] = @ + 1] /\ nth' = [nth EXCEPT ![b] = 0]
  /\ Record(b, [store[b] EXCEPT !.progress = Percent(at[b])])
  /\ UNCHANGED <<pc, answer, made, disk>>

\* Mutant: one failed call is enough for the scaffold.
SwarmDoneAnyFailed(b) ==
  /\ Ready(b, "write") /\ at[b] = Milestones + 1
  /\ pc' = [pc EXCEPT ![b] = IF \E m \in Swarm : answer[b][m] = <<>> THEN "scaffold" ELSE "close"]
  /\ UNCHANGED <<answer, at, nth, made, store, due, rec, disk, lost>>

\* Only a build without a single file falls back to the scaffold.
SwarmDone(b) ==
  /\ Ready(b, "write") /\ at[b] = Milestones + 1
  /\ pc' = [pc EXCEPT ![b] = IF made[b] = <<>> THEN "scaffold" ELSE "close"]
  /\ UNCHANGED <<answer, at, nth, made, store, due, rec, disk, lost>>

WriteScaffold(b) ==
  /\ Ready(b, "scaffold") /\ nth[b] < Len(Scaffold)
  /\ Save(b, Scaffold[nth[b] + 1])
  /\ UNCHANGED <<pc, answer, at>>

ScaffoldDone(b) ==
  /\ Ready(b, "scaffold") /\ nth[b] = Len(Scaffold)
  /\ pc' = [pc EXCEPT ![b] = "close"]
  /\ UNCHANGED <<answer, at, nth, made, store, due, rec, disk, lost>>

\* The syntax check has run; build_complete.
Close(b) ==
  /\ Ready(b, "close")
  /\ pc' = [pc EXCEPT ![b] = "final"]
  /\ Record(b, [store[b] EXCEPT !.progress = 100])
  /\ UNCHANGED <<answer, at, nth, made, disk>>

\* _run_parallel_build takes the result over; the finally block writes it.
Finish(b) ==
  /\ Ready(b, "final")
  /\ pc' = [pc EXCEPT ![b] = "over"]
  /\ Record(b, [store[b] EXCEPT !.status = "complete", !.generated = made[b]])
  /\ UNCHANGED <<answer, at, nth, made, disk>>

\* makedirs or open raises and the file is as it was; or write or close does, and
\* open has emptied it: what is left is no file of the build, version 0.
Cut(b, path) == disk' \in {disk, [disk EXCEPT ![path] = <<b, 0>>]}

\* The whole build is an error, written files stay.
Fail(b) ==
  /\ \/ Ready(b, "swarm") /\ (\A m \in Swarm : answer[b][m] = Pending) /\ UNCHANGED disk
     \/ /\ Ready(b, "write") /\ at[b] <= Milestones /\ nth[b] < Len(answer[b][at[b]])
        /\ Cut(b, answer[b][at[b]][nth[b] + 1])
     \/ Ready(b, "scaffold") /\ nth[b] < Len(Scaffold) /\ Cut(b, Scaffold[nth[b] + 1])
  /\ pc' = [pc EXCEPT ![b] = "over"]
  /\ Record(b, [store[b] EXCEPT !.status = "error"])
  /\ UNCHANGED <<answer, at, nth, made>>

Step(b) ==
  \/ Begin(b) \/ (\E m \in Swarm : Answer(b, m)) \/ Gather(b)
  \/ WriteFile(b) \/ MilestoneCompleted(b) \/ SwarmDone(b)
  \/ WriteScaffold(b) \/ ScaffoldDone(b) \/ Close(b) \/ Finish(b) \/ Fail(b)
  \/ WriteThrough(b)

SwarmNext == \E b \in Builds : Step(b)

SwarmSpec == SwarmInit /\ [][SwarmNext]_swarmVars

-----------------------------------------------------------------------------
(* Properties.                                                             *)

Answered(b) == FlattenSeq([m \in Swarm |-> answer[b][m]])

(***************************************************************************)
(* "one milestone failing must not abort the swarm": a complete record has *)
(* every file of every call that answered, in the order of the milestones  *)
(* and not of the answers, and the scaffold only when none did; the list   *)
(* of announced files agrees, however many writes of it were lost.         *)
(***************************************************************************)
SwarmDelivers ==
  \A b \in Builds : rec[b].status = "complete" =>
    /\ \A m \in Swarm : answer[b][m] # Pending
    /\ rec[b].generated = IF Answered(b) = <<>> THEN Scaffold ELSE Answered(b)
    /\ rec[b].files = rec[b].generated

(***************************************************************************)
(* The progress a watcher sees while the build runs is never more than the *)
(* share of the milestones whose model call has ended and whose files are  *)
(* in the list next to it.  (Without milestones there are no shares.)      *)
(***************************************************************************)
ProgressHonest ==
  \A b \in Builds : rec[b].status = "running" /\ rec[b].progress > 0 /\ Milestones > 0 =>
    \E k \in Swarm :
      /\ rec[b].progress <= Percent(k)
      /\ IsPrefix(FlattenSeq([m \in 1..k |-> answer[b][m]]), rec[b].files)

\* A build wrote the path, or failed while it wrote it.
Touched(b, path) ==
  path \in ToSet(made[b]) \/ (disk[path] = <<b, 0>> /\ store[b].status = "error")

(***************************************************************************)
(* The directory of a complete build (project_path) has all its files, a   *)
(* path that two milestones name in its last version.  What is not there   *)
(* was overwritten, or cut by a failing write, of another build of the     *)
(* same name; a path has never just vanished.                              *)
(***************************************************************************)
WorkspaceHoldsBuild ==
  \A b \in Builds : rec[b].status = "complete" =>
    \A n \in DOMAIN rec[b].generated :
      LET path == rec[b].generated[n] IN
        /\ disk[path] # NoFile
        /\ disk[path][1] = b =>
             disk[path][2] = SelectLastInSeq(rec[b].generated, LAMBDA p : p = path)
        /\ disk[path][1] # b => Touched(disk[path][1], path)
=============================================================================
