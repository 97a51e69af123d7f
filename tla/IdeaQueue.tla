----------------------------- MODULE IdeaQueue -----------------------------
(***************************************************************************)
(* The idea stock of the intake service (routes/ideas.py) and the project  *)
(* folders of the workspace service (routes/projects.py) that              *)
(* start-project fills.                                                    *)
(*                                                                         *)
(* A request has one database session: it reads its row without a lock,    *)
(* works on that copy, and its UPDATE names only the columns it changed in *)
(* it.  The UPDATE takes the row's lock, held until the middleware commits *)
(* (claim calls the orchestrator in between); another UPDATE waits for it  *)
(* and then writes on top (Postgres, READ COMMITTED).                      *)
(*                                                                         *)
(* Simplifications.  A row is its status and its assignee: texts, time     *)
(* stamps and the draft blueprint (best effort, never blocks a claim) are  *)
(* left out. next, list and stats only read.                               *)
(***************************************************************************)
EXTENDS Naturals, FiniteSets

CONSTANTS
  Ideas,      \* what founders may submit
  Slugs,      \* the folder names _slugify makes
  SlugOf,     \* the folder name of each idea
  Users,      \* who may call
  Writers,    \* those of them with a writer profile (whatever its status)
  PatchTo,    \* the statuses PATCH is called with, a subset of Statuses
  IdeaCalls,  \* slots for requests in flight
  Contested   \* bound: the ideas that are claimed and patched, others only start

VARIABLES
  stock,      \* the row of each idea
  rowLock,    \* the calls that hold the row's lock (at most one)
  ask,        \* the call in each slot: in flight, or a start-project answered with 2xx
  folder,     \* what a user's NEW_PROJECT_SYNCED/<slug> holds
  reopened    \* history: a PATCH set the idea pending since it was last claimed

ideaVars == <<stock, rowLock, ask, folder, reopened>>

Statuses == {"pending", "claimed", "evaluating", "blueprint_ready", "synced",
             "completed", "rejected"}
Nobody == "nobody"
NoIdea == "no folder"
HalfWritten == "half written"   \* mkdir succeeded, a write_text raised

Rows == [status : Statuses \cup {"absent"}, who : Users \cup {Nobody}]
NoRow == [status |-> "absent", who |-> Nobody]
NoAsk == [at |-> "idle"]

ASSUME IdeaAssumption ==
  /\ SlugOf \in [Ideas -> Slugs] /\ Writers \subseteq Users /\ Contested \subseteq Ideas
  /\ PatchTo \subseteq Statuses /\ NoIdea \notin Ideas

IdeaTypeOK ==
  /\ stock \in [Ideas -> Rows]
  /\ rowLock \in [Ideas -> SUBSET IdeaCalls]
  /\ \A i \in Ideas : Cardinality(rowLock[i]) <= 1
  /\ \A c \in IdeaCalls : ask[c] = NoAsk \/
       /\ ask[c].at \in {"loaded", "asked", "flushed", "done"}
       /\ ask[c].op \in {"claim", "patch", "start"}
       /\ ask[c].of \in Ideas /\ ask[c].by \in Users
       /\ DOMAIN ask[c].set \subseteq {"status", "who"} /\ ask[c].late \in BOOLEAN
  /\ folder \in [Users \X Slugs -> Ideas \cup {NoIdea, HalfWritten}]
  /\ reopened \in [Ideas -> BOOLEAN]

IdeaInit ==
  /\ stock = [i \in Ideas |-> NoRow] /\ rowLock = [i \in Ideas |-> {}]
  /\ ask = [c \in IdeaCalls |-> NoAsk]
  /\ folder = [f \in Users \X Slugs |-> NoIdea]
  /\ reopened = [i \in Ideas |-> FALSE]

-----------------------------------------------------------------------------
(* The handlers up to their first await on anything but the SELECT.        *)

SubmitIdea(i) ==
  /\ stock[i] = NoRow
  /\ stock' = [stock EXCEPT ![i].status = "pending"]
  /\ UNCHANGED <<rowLock, ask, folder, reopened>>

Idle(c) == ask[c].at \in {"idle", "done"}

\* Mutant: every column is written back.
ChangedAll(row, new) == new

\* The columns the ORM will write.
Changed(row, new) == [f \in {g \in {"status", "who"} : new[g] # row[g]} |-> new[f]]

Load(c, op, i, b, new) ==
  /\ Idle(c) /\ stock[i] # NoRow
  /\ ask' = [ask EXCEPT ![c] = [at |-> "loaded", op |-> op, of |-> i, by |-> b,
                                set |-> Changed(stock[i], new), late |-> FALSE]]
  /\ UNCHANGED <<stock, rowLock, folder, reopened>>

\* Mutant: the status is not looked at.
ClaimAnything(c, i, b) ==
  b \in Writers /\ Load(c, "claim", i, b, [status |-> "claimed", who |-> b])

\* claim_idea: builders only, pending ideas only.
ClaimIdea(c, i, b) ==
  /\ b \in Writers /\ stock[i].status = "pending"
  /\ Load(c, "claim", i, b, [status |-> "claimed", who |-> b])

\* update_status: the assignee, or anybody while there is none; any status may
\* follow any other.
PatchStatus(c, i, b, to) ==
  /\ stock[i].who \in {Nobody, b}
  /\ Load(c, "patch", i, b, [stock[i] EXCEPT !.status = to])

\* start_project: anybody, whatever the status and the assignee.
StartProject(c, i, b) == Load(c, "start", i, b, [stock[i] EXCEPT !.status = "synced"])

-----------------------------------------------------------------------------
(* POST /v1/workspace/projects, with the caller's token.  Nothing else of  *)
(* the service runs between the look for the folder and the last write.    *)

SetAt(c, where) == ask' = [ask EXCEPT ![c].at = where]
Refuse(c) == ask' = [ask EXCEPT ![c] = NoAsk]

\* Mutant: a folder that is there already is written over.
CreateFolderOver(c) ==
  LET f == <<ask[c].by, SlugOf[ask[c].of]>> IN
    \/ folder' = [folder EXCEPT ![f] = ask[c].of] /\ (SetAt(c, "asked") \/ Refuse(c))
    \/ folder' = [folder EXCEPT ![f] = HalfWritten] /\ Refuse(c)

\* 409 when the folder exists.  Otherwise mkdir and three files; the answer may
\* be lost, and a failing write leaves the folder behind.
CreateFolder(c) ==
  LET f == <<ask[c].by, SlugOf[ask[c].of]>> IN
    IF folder[f] # NoIdea THEN Refuse(c) /\ UNCHANGED folder
    ELSE \/ folder' = [folder EXCEPT ![f] = ask[c].of] /\ (SetAt(c, "asked") \/ Refuse(c))
         \/ folder' = [folder EXCEPT ![f] = HalfWritten] /\ Refuse(c)

\* _request_start_project: anything but a 2xx in time is a 503 and the end.
AskWorkspace(c) ==
  /\ ask[c].at = "loaded" /\ ask[c].op = "start"
  /\ \/ CreateFolder(c)
     \/ Refuse(c) /\ UNCHANGED folder   \* it was not reached
  /\ UNCHANGED <<stock, rowLock, reopened>>

-----------------------------------------------------------------------------
(* The database session.                                                   *)

\* The UPDATE, once the row is free; without a changed column there is none.
FlushIdea(c) ==
  /\ ask[c].at = "asked" \/ (ask[c].at = "loaded" /\ ask[c].op # "start")
  /\ IF DOMAIN ask[c].set = {} THEN UNCHANGED rowLock
     ELSE rowLock[ask[c].of] = {} /\ rowLock' = [rowLock EXCEPT ![ask[c].of] = {c}]
  /\ SetAt(c, "flushed")
  /\ UNCHANGED <<stock, folder, reopened>>

\* The middleware commits and the call is answered.
CommitIdea(c) ==
  /\ ask[c].at = "flushed"
  /\ LET i == ask[c].of
         set == ask[c].set
         over == IF ask[c].op = "start" THEN [ask[c] EXCEPT !.at = "done", !.set = <<>>]
                 ELSE NoAsk
         claims == ask[c].op = "claim"
         reopens == ask[c].op = "patch" /\ "status" \in DOMAIN set /\ set.status = "pending"
     IN
       /\ stock' = [stock EXCEPT ![i] =
            [f \in DOMAIN @ |-> IF f \in DOMAIN set THEN set[f] ELSE @[f]]]
       /\ rowLock' = [rowLock EXCEPT ![i] = @ \ {c}]
       /\ ask' = [d \in IdeaCalls |->
            IF d = c THEN over
            ELSE IF claims /\ ~Idle(d) /\ ask[d].op = "claim" /\ ask[d].of = i
            THEN [ask[d] EXCEPT !.late = TRUE] ELSE ask[d]]
       /\ reopened' = [reopened EXCEPT ![i] = ~claims /\ (@ \/ reopens)]
  /\ UNCHANGED folder

\* The instance dies or loses the database: the transaction is rolled back.
AbortIdea(c) ==
  /\ ~Idle(c)
  /\ rowLock' = [rowLock EXCEPT ![ask[c].of] = @ \ {c}]
  /\ Refuse(c)
  /\ UNCHANGED <<stock, folder, reopened>>

IdeaNext ==
  \/ \E i \in Ideas : SubmitIdea(i)
  \/ \E c \in IdeaCalls :
       \/ \E i \in Ideas, b \in Users : StartProject(c, i, b)
       \/ \E i \in Contested, b \in Users :
            ClaimIdea(c, i, b) \/ \E to \in PatchTo : PatchStatus(c, i, b, to)
       \/ AskWorkspace(c) \/ FlushIdea(c) \/ CommitIdea(c) \/ AbortIdea(c)

IdeaSpec == IdeaInit /\ [][IdeaNext]_ideaVars

-----------------------------------------------------------------------------
(* Properties.                                                             *)

(***************************************************************************)
(* A builder loses an idea only to another one's claim, and only to a      *)
(* claim that had begun when the idea was claimed, or after a PATCH had    *)
(* put it back into the queue: claim reads "pending" without a lock, but   *)
(* nothing else may move an idea from one builder to another, nor leave it *)
(* to nobody.                                                              *)
(***************************************************************************)
ClaimLostOnlyInOverlap ==
  [][\A i \in Ideas :
       stock[i].who # Nobody /\ stock'[i].who # stock[i].who =>
         \E c \in rowLock[i] :
           /\ ask[c].op = "claim" /\ stock'[i].who = ask[c].by
           /\ reopened[i] \/ ask[c].late]_ideaVars

(***************************************************************************)
(* Who got the answer that the project was started has the folder of this  *)
(* very idea, with all its files, in the own workspace: not that of        *)
(* another idea with the same slug, and not the rest of an attempt that    *)
(* failed.                                                                 *)
(***************************************************************************)
StartedHasFolder ==
  \A c \in IdeaCalls : ask[c].at = "done" =>
    folder[<<ask[c].by, SlugOf[ask[c].of]>>] = ask[c].of
=============================================================================
