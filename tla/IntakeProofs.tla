---------------------------- MODULE IntakeProofs ----------------------------
(***************************************************************************)
(* Proofs about the intake, the designations it asks for and the           *)
(* workspace: IdeaQueue, for any ideas, users, slugs and number of calls;  *)
(* Designations and Certification, for any requests and number of calls;   *)
(* WorkspaceFiles, for any files, editors and texts.                       *)
(***************************************************************************)
EXTENDS IdeaQueue, Designations, WorkspaceFiles, FiniteSetTheorems, SequenceTheorems,
        WellFoundedInduction, TLAPS

(***************************************************************************)
(* The inductive invariant.  Its parts, after the types:                   *)
(*  - a row's lock is held by one call at most, and by every call that has *)
(*    written to the row and not committed;                                *)
(*  - what a call will write follows from its operation: only a claim      *)
(*    names the assignee, and it names its caller;                         *)
(*  - a pending idea with an assignee was put back by a PATCH, and a claim *)
(*    in flight that is not late has met an idea without one, or such an   *)
(*    idea;                                                                *)
(*  - a call of start-project that got its 2xx owns the folder it made.    *)
(***************************************************************************)
Writes == UNION {[D -> Statuses \cup Users \cup {Nobody}] : D \in SUBSET {"status", "who"}}
Asks == [at : {"loaded", "asked", "flushed", "done"}, op : {"claim", "patch", "start"},
         of : Ideas, by : Users, set : Writes, late : BOOLEAN]

Typed ==
  /\ stock \in [Ideas -> Rows]
  /\ rowLock \in [Ideas -> SUBSET IdeaCalls]
  /\ ask \in [IdeaCalls -> {NoAsk} \cup Asks]
  /\ folder \in [Users \X Slugs -> Ideas \cup {NoIdea, HalfWritten}]
  /\ reopened \in [Ideas -> BOOLEAN]

LockHeld ==
  /\ \A i \in Ideas : rowLock[i] = {} \/ \E c \in IdeaCalls : rowLock[i] = {c}
  /\ \A c \in IdeaCalls : ask[c].at = "flushed" /\ DOMAIN ask[c].set # {} =>
       c \in rowLock[ask[c].of]

\* What a call that was loaded may write.
SetFits(a) ==
  /\ "status" \in DOMAIN a.set => a.set["status"] \in Statuses
  /\ "who" \in DOMAIN a.set => a.op = "claim" /\ a.set["who"] = a.by
  /\ a.op = "claim" => "status" \in DOMAIN a.set /\ a.set["status"] = "claimed"
  /\ a.op = "start" /\ "status" \in DOMAIN a.set => a.set["status"] = "synced"

SetsFit == \A c \in IdeaCalls : ~Idle(c) => SetFits(ask[c])

PendingWasReopened ==
  \A i \in Ideas : stock[i].status = "pending" /\ stock[i].who # Nobody => reopened[i]

ClaimsMet ==
  \A c \in IdeaCalls : ~Idle(c) /\ ask[c].op = "claim" /\ ~ask[c].late =>
    reopened[ask[c].of] \/ stock[ask[c].of].who = Nobody

OwnsFolder ==
  \A c \in IdeaCalls :
    \/ ask[c].at = "asked" \/ ask[c].at = "done"
    \/ ask[c].at = "flushed" /\ ask[c].op = "start"
    => folder[<<ask[c].by, SlugOf[ask[c].of]>>] = ask[c].of

IdeaInv ==
  Typed /\ LockHeld /\ SetsFit /\ PendingWasReopened /\ ClaimsMet /\ OwnsFolder

-----------------------------------------------------------------------------
(* The operators of the model.                                             *)

\* A call in flight is a record of Asks, a slot at rest holds no such record.
LEMMA InFlight ==
  ASSUME Typed, NEW c \in IdeaCalls, ask[c].at # "idle" PROVE ask[c] \in Asks
  BY DEF Typed, NoAsk

\* The columns that differ, with their new values.
LEMMA ChangedWrites ==
  ASSUME NEW old \in Rows, NEW new \in Rows, new.status \in Statuses
  PROVE  /\ Changed(old, new) \in Writes
         /\ DOMAIN Changed(old, new) = {g \in {"status", "who"} : new[g] # old[g]}
         /\ \A g \in DOMAIN Changed(old, new) : Changed(old, new)[g] = new[g]
<1> DEFINE D == {g \in {"status", "who"} : new[g] # old[g]}
<1>1. Changed(old, new) = [f \in D |-> new[f]] BY DEF Changed
<1>2. D \in SUBSET {"status", "who"} OBVIOUS
<1>3. \A f \in D : new[f] \in Statuses \cup Users \cup {Nobody} BY DEF Rows
<1>4. [f \in D |-> new[f]] \in [D -> Statuses \cup Users \cup {Nobody}] BY <1>3
<1> HIDE DEF D
<1>5. [f \in D |-> new[f]] \in Writes BY <1>2, <1>4 DEF Writes
<1>6. DOMAIN [f \in D |-> new[f]] = D OBVIOUS
<1> QED BY <1>1, <1>5, <1>6 DEF D

\* The row after a commit: a column keeps its value unless it is written.
Written(old, set) == [f \in DOMAIN old |-> IF f \in DOMAIN set THEN set[f] ELSE old[f]]

LEMMA WrittenRow ==
  ASSUME NEW old \in Rows, NEW a \in Asks, SetFits(a)
  PROVE  LET new == Written(old, a.set) IN
         /\ new \in Rows
         /\ new.status = IF "status" \in DOMAIN a.set THEN a.set["status"] ELSE old.status
         /\ new.who = IF "who" \in DOMAIN a.set THEN a.set["who"] ELSE old.who
<1> DEFINE new == Written(old, a.set)
<1>1. DOMAIN old = {"status", "who"} BY DEF Rows
<1>2. new = [f \in {"status", "who"} |-> IF f \in DOMAIN a.set THEN a.set[f] ELSE old[f]]
  BY <1>1 DEF Written
<1>3. new.status = IF "status" \in DOMAIN a.set THEN a.set["status"] ELSE old.status BY <1>2
<1>4. new.who = IF "who" \in DOMAIN a.set THEN a.set["who"] ELSE old.who BY <1>2
<1>5. new = [status |-> new.status, who |-> new.who] BY <1>2
<1>6. new.status \in Statuses \cup {"absent"} BY <1>3 DEF SetFits, Rows
<1>7. new.who \in Users \cup {Nobody} BY <1>4 DEF SetFits, Rows, Asks
<1> QED BY <1>3, <1>4, <1>5, <1>6, <1>7 DEF Rows

-----------------------------------------------------------------------------
(* One lemma per action: it preserves the inductive invariant.             *)

LEMMA SubmitKeeps == ASSUME IdeaInv, NEW i \in Ideas, SubmitIdea(i) PROVE IdeaInv'
<1> USE DEF IdeaInv
<1>1. stock[i] = NoRow /\ stock' = [stock EXCEPT ![i].status = "pending"]
  BY DEF SubmitIdea
<1>2. UNCHANGED <<rowLock, ask, folder, reopened>> BY DEF SubmitIdea
<1>3. stock'[i] = [status |-> "pending", who |-> Nobody] /\ stock' \in [Ideas -> Rows]
  BY <1>1 DEF Typed, NoRow, Rows, Statuses
<1>4. Typed' BY <1>2, <1>3 DEF Typed
<1>5. LockHeld' /\ SetsFit' /\ OwnsFolder'
  BY <1>2 DEF LockHeld, SetsFit, SetFits, OwnsFolder, Idle
<1>6. \A j \in Ideas \ {i} : stock'[j] = stock[j] BY <1>1 DEF Typed
<1>7. PendingWasReopened' BY <1>2, <1>3, <1>6 DEF PendingWasReopened
<1>8. ClaimsMet'
  <2> SUFFICES ASSUME NEW c \in IdeaCalls, ~Idle(c), ask[c].op = "claim", ~ask[c].late
               PROVE  reopened[ask[c].of] \/ stock'[ask[c].of].who = Nobody
    BY <1>2 DEF ClaimsMet, Idle
  <2>1. ask[c].of \in Ideas BY InFlight DEF Idle, Asks
  <2> QED BY <1>3, <1>6, <2>1 DEF ClaimsMet
<1> QED BY <1>4, <1>5, <1>7, <1>8

\* A call is loaded: what it will write fits its operation, and if it is a claim
\* the idea is pending.
LEMMA LoadKeeps ==
  ASSUME IdeaInv, NEW c \in IdeaCalls, NEW op \in {"claim", "patch", "start"},
         NEW i \in Ideas, NEW b \in Users, NEW new \in Rows, new.status \in Statuses,
         Load(c, op, i, b, new),
         op = "claim" => /\ new = [status |-> "claimed", who |-> b]
                         /\ stock[i].status = "pending",
         op # "claim" => new.who = stock[i].who,
         op = "start" => new.status = "synced"
  PROVE  IdeaInv'
<1> USE DEF IdeaInv
<1> DEFINE set == Changed(stock[i], new)
           a == [at |-> "loaded", op |-> op, of |-> i, by |-> b, set |-> set, late |-> FALSE]
<1>1. /\ Idle(c) /\ ask' = [ask EXCEPT ![c] = a]
      /\ UNCHANGED <<stock, rowLock, folder, reopened>>
  BY DEF Load
<1>2. stock[i] \in Rows BY DEF Typed
<1>3. /\ set \in Writes
      /\ DOMAIN set = {g \in {"status", "who"} : new[g] # stock[i][g]}
      /\ \A g \in DOMAIN set : set[g] = new[g]
  BY <1>2, ChangedWrites
<1> HIDE DEF set
<1>4. a \in Asks BY <1>3 DEF Asks
<1>5. ask' \in [IdeaCalls -> {NoAsk} \cup Asks] BY <1>1, <1>4 DEF Typed
<1>6. ask'[c] = a /\ \A d \in IdeaCalls \ {c} : ask'[d] = ask[d] BY <1>1 DEF Typed
<1>7. Typed' BY <1>1, <1>5 DEF Typed
<1>8. SetFits(a)
  <2>1. "status" \in DOMAIN set => set["status"] = new.status BY <1>3
  <2>2. "who" \in DOMAIN set => op = "claim" /\ set["who"] = b BY <1>3
  <2>3. op = "claim" => "status" \in DOMAIN set /\ new.status = "claimed" BY <1>3
  <2> QED BY <2>1, <2>2, <2>3 DEF SetFits
<1>9. LockHeld' /\ OwnsFolder' BY <1>1, <1>6 DEF LockHeld, OwnsFolder
<1>10. SetsFit' BY <1>6, <1>8 DEF SetsFit, SetFits, Idle
<1>11. PendingWasReopened' BY <1>1 DEF PendingWasReopened
<1>12. ClaimsMet' BY <1>1, <1>6 DEF ClaimsMet, PendingWasReopened, Idle
<1> QED BY <1>7, <1>9, <1>10, <1>11, <1>12

LEMMA HandlersKeep ==
  ASSUME IdeaInv, NEW c \in IdeaCalls, NEW i \in Ideas, NEW b \in Users
  PROVE  /\ StartProject(c, i, b) => IdeaInv'
         /\ ClaimIdea(c, i, b) => IdeaInv'
         /\ \A to \in PatchTo : PatchStatus(c, i, b, to) => IdeaInv'
<1>0. stock[i] \in Rows BY DEF IdeaInv, Typed
<1>1. ASSUME StartProject(c, i, b) PROVE IdeaInv'
  <2> DEFINE new == [stock[i] EXCEPT !.status = "synced"]
  <2>1. new \in Rows /\ new.status = "synced" /\ new.who = stock[i].who
    BY <1>0 DEF Rows, Statuses
  <2>2. Load(c, "start", i, b, new) BY <1>1 DEF StartProject
  <2> HIDE DEF new
  <2> QED BY <2>1, <2>2, LoadKeeps DEF Statuses
<1>2. ASSUME ClaimIdea(c, i, b) PROVE IdeaInv'
  <2> DEFINE new == [status |-> "claimed", who |-> b]
  <2>1. new \in Rows /\ new.status \in Statuses BY DEF Rows, Statuses
  <2>2. Load(c, "claim", i, b, new) /\ stock[i].status = "pending" BY <1>2 DEF ClaimIdea
  <2> QED BY <2>1, <2>2, LoadKeeps
<1>3. ASSUME NEW to \in PatchTo, PatchStatus(c, i, b, to) PROVE IdeaInv'
  <2> DEFINE new == [stock[i] EXCEPT !.status = to]
  <2>1. new \in Rows /\ new.status \in Statuses /\ new.who = stock[i].who
    BY <1>0, IdeaAssumption DEF Rows
  <2>2. Load(c, "patch", i, b, new) BY <1>3 DEF PatchStatus
  <2> HIDE DEF new
  <2> QED BY <2>1, <2>2, LoadKeeps
<1> QED BY <1>1, <1>2, <1>3

\* A call moves on or is refused; the rows, their locks and what is written stay.
LEMMA AskKeeps == ASSUME IdeaInv, NEW c \in IdeaCalls, AskWorkspace(c) PROVE IdeaInv'
<1> USE DEF IdeaInv
<1> DEFINE a == ask[c]
           f == <<a.by, SlugOf[a.of]>>
<1>1. a.at = "loaded" /\ a.op = "start" /\ UNCHANGED <<stock, rowLock, reopened>>
  BY DEF AskWorkspace
<1>2. a \in Asks BY <1>1, InFlight
<1>3. f \in Users \X Slugs /\ a.of \in Ideas BY <1>2, IdeaAssumption DEF Asks
<1>4. \/ ask' = [ask EXCEPT ![c].at = "asked"] /\ folder[f] = NoIdea
         /\ folder' = [folder EXCEPT ![f] = a.of]
      \/ /\ ask' = [ask EXCEPT ![c] = NoAsk]
         /\ \/ UNCHANGED folder
            \/ folder[f] = NoIdea /\ \E x \in {a.of, HalfWritten} : folder' = [folder EXCEPT ![f] = x]
  BY DEF AskWorkspace, CreateFolder, SetAt, Refuse
<1>5. \/ ask'[c] = [a EXCEPT !.at = "asked"] /\ folder'[f] = a.of
      \/ ask'[c] = NoAsk
  BY <1>3, <1>4 DEF Typed
<1>6. \A d \in IdeaCalls \ {c} : ask'[d] = ask[d] BY <1>4 DEF Typed
<1>7. \A g \in Users \X Slugs : folder[g] # NoIdea => folder'[g] = folder[g]
  BY <1>3, <1>4 DEF Typed
<1>8. [a EXCEPT !.at = "asked"] \in Asks BY <1>2 DEF Asks
<1> HIDE DEF a
<1>9. Typed'
  <2>1. ask' \in [IdeaCalls -> {NoAsk} \cup Asks] BY <1>4, <1>8 DEF Typed, a
  <2>2. folder' \in [Users \X Slugs -> Ideas \cup {NoIdea, HalfWritten}]
    BY <1>3, <1>4 DEF Typed
  <2> QED BY <1>1, <2>1, <2>2 DEF Typed
<1>10. /\ ask'[c].at # "flushed" /\ ask'[c].at # "loaded"
       /\ ask'[c].at # "idle" => /\ ask'[c].op = "start" /\ ask'[c].of = a.of
                                 /\ ask'[c].by = a.by /\ ask'[c].set = a.set
  BY <1>1, <1>2, <1>5 DEF Asks, NoAsk
<1>11. LockHeld' BY <1>1, <1>6, <1>10 DEF LockHeld
<1>12. SetsFit'
  <2>1. SetFits(a) BY <1>1 DEF SetsFit, Idle, a
  <2>2. ask'[c].at # "idle" => SetFits(ask'[c]) BY <1>1, <1>10, <2>1 DEF SetFits
  <2> QED BY <1>6, <2>2 DEF SetsFit, Idle, SetFits
<1>13. PendingWasReopened' BY <1>1 DEF PendingWasReopened
<1>14. ClaimsMet' BY <1>1, <1>6, <1>10 DEF ClaimsMet, Idle
<1>15. OwnsFolder'
  <2> SUFFICES ASSUME NEW d \in IdeaCalls,
                      \/ ask'[d].at \in {"asked", "done"}
                      \/ ask'[d].at = "flushed" /\ ask'[d].op = "start"
               PROVE  folder'[<<ask'[d].by, SlugOf[ask'[d].of]>>] = ask'[d].of
    BY DEF OwnsFolder
  <2>1. CASE d = c BY <1>5, <1>10, <2>1 DEF NoAsk
  <2>2. CASE d # c
    <3>1. ask'[d] = ask[d] /\ ask[d] \in Asks BY <1>6, <2>2, InFlight
    <3>2. folder[<<ask[d].by, SlugOf[ask[d].of]>>] = ask[d].of BY <3>1 DEF OwnsFolder
    <3>3. <<ask[d].by, SlugOf[ask[d].of]>> \in Users \X Slugs /\ ask[d].of \in Ideas
      BY <3>1, IdeaAssumption DEF Asks
    <3> QED BY <1>7, <3>1, <3>2, <3>3, IdeaAssumption
  <2> QED BY <2>1, <2>2
<1> QED BY <1>9, <1>11, <1>12, <1>13, <1>14, <1>15

\* The lock of a free row is taken; nothing else can have written to it.
LEMMA FlushKeeps == ASSUME IdeaInv, NEW c \in IdeaCalls, FlushIdea(c) PROVE IdeaInv'
<1> USE DEF IdeaInv
<1> DEFINE a == ask[c]
<1>1. /\ a.at = "asked" \/ (a.at = "loaded" /\ a.op # "start")
      /\ ask' = [ask EXCEPT ![c].at = "flushed"]
      /\ UNCHANGED <<stock, folder, reopened>>
      /\ IF DOMAIN a.set = {} THEN rowLock' = rowLock
         ELSE rowLock[a.of] = {} /\ rowLock' = [rowLock EXCEPT ![a.of] = {c}]
  BY DEF FlushIdea, SetAt
<1>2. a \in Asks BY <1>1, InFlight
<1>3. a.of \in Ideas BY <1>2 DEF Asks
<1>4. /\ ask'[c] = [a EXCEPT !.at = "flushed"] /\ [a EXCEPT !.at = "flushed"] \in Asks
      /\ \A d \in IdeaCalls \ {c} : ask'[d] = ask[d]
      /\ ask' \in [IdeaCalls -> {NoAsk} \cup Asks]
  BY <1>1, <1>2 DEF Typed, Asks
<1>5. /\ ask'[c].at = "flushed" /\ ask'[c].op = a.op /\ ask'[c].of = a.of
      /\ ask'[c].by = a.by /\ ask'[c].set = a.set /\ ask'[c].late = a.late
  BY <1>2, <1>4 DEF Asks
<1> HIDE DEF a
<1>6. rowLock' \in [Ideas -> SUBSET IdeaCalls] BY <1>1, <1>3 DEF Typed
<1>7. Typed' BY <1>1, <1>4, <1>6 DEF Typed
<1>8. LockHeld'
  <2>1. CASE DOMAIN a.set = {} BY <1>1, <1>4, <1>5, <2>1 DEF LockHeld
  <2>2. CASE DOMAIN a.set # {}
    <3>1. rowLock[a.of] = {} /\ rowLock'[a.of] = {c}
          /\ \A i \in Ideas \ {a.of} : rowLock'[i] = rowLock[i]
      BY <1>1, <1>3, <2>2 DEF Typed
    <3>2. \A i \in Ideas : rowLock'[i] = {} \/ \E d \in IdeaCalls : rowLock'[i] = {d}
      BY <3>1 DEF LockHeld
    <3>3. ASSUME NEW d \in IdeaCalls \ {c}, ask[d].at = "flushed", DOMAIN ask[d].set # {}
          PROVE  d \in rowLock'[ask[d].of]
      <4>1. ask[d].of \in Ideas BY <3>3, InFlight DEF Asks
      <4>2. d \in rowLock[ask[d].of] BY <3>3 DEF LockHeld
      <4> QED BY <3>1, <4>1, <4>2
    <3> QED BY <1>4, <1>5, <3>1, <3>2, <3>3, ZenonT(40) DEF LockHeld
  <2> QED BY <2>1, <2>2
<1>9. SetsFit'
  <2>1. SetFits(a) BY <1>1 DEF SetsFit, Idle, a
  <2>2. SetFits(ask'[c]) BY <1>5, <2>1 DEF SetFits
  <2>3. \A d \in IdeaCalls \ {c} : ask'[d].at \notin {"idle", "done"} => SetFits(ask'[d])
    BY <1>4 DEF SetsFit, Idle
  <2>4. \A d \in IdeaCalls : ask'[d].at \notin {"idle", "done"} => SetFits(ask'[d])
    BY <2>2, <2>3
  <2> QED BY <2>4 DEF SetsFit, Idle, SetFits
<1>10. PendingWasReopened' BY <1>1 DEF PendingWasReopened
<1>11. ClaimsMet' BY <1>1, <1>4, <1>5 DEF ClaimsMet, Idle, a
<1>12. OwnsFolder' BY <1>1, <1>4, <1>5 DEF OwnsFolder, a
<1> QED BY <1>7, <1>8, <1>9, <1>10, <1>11, <1>12

\* What a commit does, said of each part of the state.
LEMMA CommitEffect ==
  ASSUME IdeaInv, NEW c \in IdeaCalls, CommitIdea(c)
  PROVE  LET a == ask[c]
             new == Written(stock[a.of], a.set)
         IN
         /\ a \in Asks /\ a.at = "flushed" /\ a.of \in Ideas /\ SetFits(a)
         /\ new \in Rows
         /\ stock' = [stock EXCEPT ![a.of] = new]
         /\ rowLock' = [rowLock EXCEPT ![a.of] = @ \ {c}]
         /\ reopened' = [reopened EXCEPT ![a.of] = a.op # "claim" /\
              (@ \/ (a.op = "patch" /\ "status" \in DOMAIN a.set /\ a.set["status"] = "pending"))]
         /\ folder' = folder
         /\ \/ ask'[c] = NoAsk
            \/ ask'[c] = [a EXCEPT !.at = "done", !.set = <<>>] /\ a.op = "start"
         /\ \A d \in IdeaCalls \ {c} :
              ask'[d] = IF a.op = "claim" /\ ~Idle(d) /\ ask[d].op = "claim" /\ ask[d].of = a.of
                        THEN [ask[d] EXCEPT !.late = TRUE] ELSE ask[d]
         /\ ask' \in [IdeaCalls -> {NoAsk} \cup Asks]
<1> USE DEF IdeaInv
<1> DEFINE a == ask[c]
           over == IF a.op = "start" THEN [a EXCEPT !.at = "done", !.set = <<>>] ELSE NoAsk
           others(d) == IF a.op = "claim" /\ ~Idle(d) /\ ask[d].op = "claim" /\ ask[d].of = a.of
                        THEN [ask[d] EXCEPT !.late = TRUE] ELSE ask[d]
<1>1. a.at = "flushed" BY DEF CommitIdea
<1>2. a \in Asks /\ a.of \in Ideas BY <1>1, InFlight DEF Asks
<1>3. SetFits(a) BY <1>1 DEF SetsFit, Idle
<1>4. stock[a.of] \in Rows BY <1>2 DEF Typed
<1>5. Written(stock[a.of], a.set) \in Rows BY <1>2, <1>3, <1>4, WrittenRow
<1>6. stock' = [stock EXCEPT ![a.of] = Written(stock[a.of], a.set)] BY DEF CommitIdea, Written
<1>7. /\ rowLock' = [rowLock EXCEPT ![a.of] = @ \ {c}] /\ folder' = folder
      /\ reopened' = [reopened EXCEPT ![a.of] = a.op # "claim" /\
           (@ \/ (a.op = "patch" /\ "status" \in DOMAIN a.set /\ a.set["status"] = "pending"))]
  BY DEF CommitIdea
<1>8. ask' = [d \in IdeaCalls |-> IF d = c THEN over ELSE others(d)] BY DEF CommitIdea
<1>9. over \in {NoAsk} \cup Asks
  <2>1. <<>> \in [{} -> Statuses \cup Users \cup {Nobody}] OBVIOUS
  <2>2. <<>> \in Writes BY <2>1 DEF Writes
  <2> QED BY <1>2, <2>2 DEF Asks
<1>10. \A d \in IdeaCalls : others(d) \in {NoAsk} \cup Asks
  <2> SUFFICES ASSUME NEW d \in IdeaCalls PROVE others(d) \in {NoAsk} \cup Asks OBVIOUS
  <2>1. ask[d] \in {NoAsk} \cup Asks BY DEF Typed
  <2>2. ~Idle(d) => [ask[d] EXCEPT !.late = TRUE] \in Asks BY InFlight DEF Idle, Asks
  <2> QED BY <2>1, <2>2
<1>11. ask' \in [IdeaCalls -> {NoAsk} \cup Asks] BY <1>8, <1>9, <1>10
<1>12. ask'[c] = over BY <1>8
<1>13. \A d \in IdeaCalls \ {c} : ask'[d] = others(d) BY <1>8
<1> QED BY <1>1, <1>2, <1>3, <1>5, <1>6, <1>7, <1>11, <1>12, <1>13

LEMMA CommitKeeps == ASSUME IdeaInv, NEW c \in IdeaCalls, CommitIdea(c) PROVE IdeaInv'
<1> USE DEF IdeaInv
<1> DEFINE a == ask[c]
           i == a.of
           new == Written(stock[i], a.set)
           reopens == a.op = "patch" /\ "status" \in DOMAIN a.set /\ a.set["status"] = "pending"
<1>1. a \in Asks /\ a.at = "flushed" /\ i \in Ideas /\ SetFits(a) /\ new \in Rows
  BY CommitEffect, ZenonT(40)
<1>2. stock' = [stock EXCEPT ![i] = new] BY CommitEffect, ZenonT(40)
<1>3. rowLock' = [rowLock EXCEPT ![i] = @ \ {c}] BY CommitEffect, ZenonT(40)
<1>4. reopened' = [reopened EXCEPT ![i] = a.op # "claim" /\ (@ \/ reopens)] /\ folder' = folder
  BY CommitEffect, ZenonT(40)
<1>5. \/ ask'[c] = NoAsk
      \/ ask'[c] = [a EXCEPT !.at = "done", !.set = <<>>] /\ a.op = "start"
  BY CommitEffect, ZenonT(40)
<1>6. ASSUME NEW d \in IdeaCalls \ {c}
      PROVE  ask'[d] = IF a.op = "claim" /\ ~Idle(d) /\ ask[d].op = "claim" /\ ask[d].of = i
                       THEN [ask[d] EXCEPT !.late = TRUE] ELSE ask[d]
  BY CommitEffect, ZenonT(40)
<1>7. ask' \in [IdeaCalls -> {NoAsk} \cup Asks] BY CommitEffect, ZenonT(40)
<1>8. stock[i] \in Rows BY <1>1 DEF Typed
<1>9. /\ new.status = IF "status" \in DOMAIN a.set THEN a.set["status"] ELSE stock[i].status
      /\ new.who = IF "who" \in DOMAIN a.set THEN a.set["who"] ELSE stock[i].who
  BY <1>1, <1>8, WrittenRow
<1> HIDE DEF a, i, new, reopens
<1>10. /\ stock'[i] = new /\ \A j \in Ideas \ {i} : stock'[j] = stock[j]
       /\ rowLock'[i] = rowLock[i] \ {c} /\ \A j \in Ideas \ {i} : rowLock'[j] = rowLock[j]
       /\ reopened'[i] = (a.op # "claim" /\ (reopened[i] \/ reopens))
       /\ \A j \in Ideas \ {i} : reopened'[j] = reopened[j]
  BY <1>1, <1>2, <1>3, <1>4 DEF Typed
<1>11. /\ ask'[c].at \in {"idle", "done"}
       /\ ask'[c].at = "done" => /\ ask'[c].of = i /\ ask'[c].by = a.by /\ a.op = "start"
  <2>1. CASE ask'[c] = NoAsk BY <2>1 DEF NoAsk
  <2>2. CASE ask'[c] = [a EXCEPT !.at = "done", !.set = <<>>] /\ a.op = "start"
    BY <1>1, <2>2 DEF Asks, i
  <2> QED BY <1>5, <2>1, <2>2
<1>12. ASSUME NEW d \in IdeaCalls \ {c}
       PROVE  /\ ask'[d].at = ask[d].at
              /\ ask[d].at # "idle" =>
                   /\ ask'[d].op = ask[d].op /\ ask'[d].of = ask[d].of
                   /\ ask'[d].by = ask[d].by /\ ask'[d].set = ask[d].set
                   /\ ask'[d].late = (ask[d].late \/
                        (a.op = "claim" /\ ~Idle(d) /\ ask[d].op = "claim" /\ ask[d].of = i))
  <2>1. CASE ask[d].at = "idle" BY <1>6, <2>1 DEF Idle
  <2>2. CASE ask[d].at # "idle"
    <3>1. ask[d] \in Asks BY <2>2, InFlight
    <3> DEFINE late == [ask[d] EXCEPT !.late = TRUE]
    <3>2. /\ late.at = ask[d].at /\ late.op = ask[d].op /\ late.of = ask[d].of
          /\ late.by = ask[d].by /\ late.set = ask[d].set /\ late.late = TRUE
      BY <3>1 DEF Asks
    <3> HIDE DEF late
    <3>3. ask[d].late \in BOOLEAN BY <3>1 DEF Asks
    <3>4. ask'[d] = IF a.op = "claim" /\ ~Idle(d) /\ ask[d].op = "claim" /\ ask[d].of = i
                   THEN late ELSE ask[d]
      BY <1>6 DEF late
    <3> QED BY <2>2, <3>2, <3>3, <3>4
  <2> QED BY <2>1, <2>2
<1>13. Typed'
  <2>1. stock' \in [Ideas -> Rows] BY <1>1, <1>2 DEF Typed
  <2>2. rowLock' \in [Ideas -> SUBSET IdeaCalls] BY <1>1, <1>3 DEF Typed
  <2>3. reopened' \in [Ideas -> BOOLEAN]
    <3> DEFINE v == a.op # "claim" /\ (reopened[i] \/ reopens)
    <3>1. v \in BOOLEAN OBVIOUS
    <3>2. reopened' = [reopened EXCEPT ![i] = v] BY <1>4
    <3> HIDE DEF v
    <3> QED BY <3>1, <3>2 DEF Typed
  <2> QED BY <1>4, <1>7, <2>1, <2>2, <2>3 DEF Typed
<1>14. LockHeld'
  <2>1. \A j \in Ideas : rowLock'[j] = {} \/ \E d \in IdeaCalls : rowLock'[j] = {d}
    <3>1. rowLock[i] = {} \/ \E d \in IdeaCalls : rowLock[i] = {d} BY <1>1 DEF LockHeld, i
    <3> QED BY <1>10, <3>1 DEF LockHeld
  <2>2. ASSUME NEW d \in IdeaCalls, ask'[d].at = "flushed", DOMAIN ask'[d].set # {}
        PROVE  d \in rowLock'[ask'[d].of]
    <3>1. d # c BY <1>11, <2>2
    <3>2. ask[d].at = "flushed" /\ ask'[d].of = ask[d].of /\ ask'[d].set = ask[d].set
      BY <1>12, <2>2, <3>1
    <3>3. d \in rowLock[ask[d].of] /\ ask[d].of \in Ideas
      BY <2>2, <3>2, InFlight DEF LockHeld, Asks
    <3> QED BY <1>10, <3>1, <3>2, <3>3
  <2> QED BY <2>1, <2>2 DEF LockHeld
<1>15. SetsFit'
  <2> SUFFICES ASSUME NEW d \in IdeaCalls, ask'[d].at \notin {"idle", "done"}
               PROVE  SetFits(ask'[d])
    BY DEF SetsFit, Idle, SetFits
  <2>1. d # c BY <1>11
  <2>2. SetFits(ask[d]) BY <1>12, <2>1 DEF SetsFit, Idle
  <2> QED BY <1>12, <2>1, <2>2 DEF SetFits
<1>16. PendingWasReopened'
  <2> SUFFICES ASSUME NEW j \in Ideas, stock'[j].status = "pending", stock'[j].who # Nobody
               PROVE  reopened'[j]
    BY DEF PendingWasReopened
  <2>1. CASE j # i BY <1>10, <2>1 DEF PendingWasReopened
  <2>2. CASE j = i
    <3>1. a.op # "claim" BY <1>1, <1>9, <1>10, <2>2 DEF SetFits
    <3>2. CASE "status" \in DOMAIN a.set
      <4>1. a.set["status"] = "pending" BY <1>9, <1>10, <2>2, <3>2
      <4>2. a.op = "patch" BY <1>1, <3>1, <3>2, <4>1 DEF SetFits, Asks
      <4> QED BY <1>10, <2>2, <3>2, <4>1, <4>2 DEF reopens
    <3>3. CASE "status" \notin DOMAIN a.set
      <4>1. stock[i].status = "pending" /\ stock[i].who # Nobody
        BY <1>1, <1>9, <1>10, <2>2, <3>1, <3>3 DEF SetFits
      <4> QED BY <1>10, <2>2, <3>1, <4>1 DEF PendingWasReopened
    <3> QED BY <3>2, <3>3
  <2> QED BY <2>1, <2>2
<1>17. ClaimsMet'
  <2> SUFFICES ASSUME NEW d \in IdeaCalls, ask'[d].at \notin {"idle", "done"},
                      ask'[d].op = "claim", ~ask'[d].late
               PROVE  reopened'[ask'[d].of] \/ stock'[ask'[d].of].who = Nobody
    BY DEF ClaimsMet, Idle
  <2>1. d # c BY <1>11
  <2>2. /\ ask[d].at \notin {"idle", "done"} /\ ask[d].op = "claim" /\ ~ask[d].late
        /\ ask'[d].of = ask[d].of /\ ask[d].of \in Ideas
        /\ ask[d].of = i => a.op # "claim"
    BY <1>12, <2>1, InFlight DEF Idle, Asks
  <2>3. reopened[ask[d].of] \/ stock[ask[d].of].who = Nobody BY <2>2 DEF ClaimsMet, Idle
  <2>4. CASE ask[d].of # i BY <1>10, <2>2, <2>3, <2>4
  <2>5. CASE ask[d].of = i
    <3>1. new.who = stock[i].who BY <1>1, <1>9, <2>2, <2>5 DEF SetFits
    <3> QED BY <1>10, <2>2, <2>3, <2>5, <3>1
  <2> QED BY <2>4, <2>5
<1>18. OwnsFolder'
  <2> SUFFICES ASSUME NEW d \in IdeaCalls,
                      \/ ask'[d].at \in {"asked", "done"}
                      \/ ask'[d].at = "flushed" /\ ask'[d].op = "start"
               PROVE  folder[<<ask'[d].by, SlugOf[ask'[d].of]>>] = ask'[d].of
    BY <1>4 DEF OwnsFolder
  <2>1. CASE d = c BY <1>1, <1>11, <2>1 DEF OwnsFolder, a, i
  <2>2. CASE d # c BY <1>12, <2>2 DEF OwnsFolder
  <2> QED BY <2>1, <2>2
<1> QED BY <1>13, <1>14, <1>15, <1>16, <1>17, <1>18

\* A rollback gives the lock back and forgets the call.
LEMMA AbortKeeps == ASSUME IdeaInv, NEW c \in IdeaCalls, AbortIdea(c) PROVE IdeaInv'
<1> USE DEF IdeaInv
<1> DEFINE i == ask[c].of
<1>1. /\ ~Idle(c) /\ rowLock' = [rowLock EXCEPT ![i] = @ \ {c}]
      /\ ask' = [ask EXCEPT ![c] = NoAsk] /\ UNCHANGED <<stock, folder, reopened>>
  BY DEF AbortIdea, Refuse
<1>2. i \in Ideas BY <1>1, InFlight DEF Idle, Asks
<1>3. ask'[c] = NoAsk /\ \A d \in IdeaCalls \ {c} : ask'[d] = ask[d] BY <1>1 DEF Typed
<1>4. rowLock'[i] = rowLock[i] \ {c} /\ \A j \in Ideas \ {i} : rowLock'[j] = rowLock[j]
  BY <1>1, <1>2 DEF Typed
<1> HIDE DEF i
<1>5. Typed' BY <1>1, <1>2 DEF Typed
<1>6. LockHeld'
  <2>1. rowLock[i] = {} \/ \E d \in IdeaCalls : rowLock[i] = {d} BY <1>2 DEF LockHeld
  <2>2. \A j \in Ideas : rowLock'[j] = {} \/ \E d \in IdeaCalls : rowLock'[j] = {d}
    BY <1>4, <2>1 DEF LockHeld
  <2>3. ASSUME NEW d \in IdeaCalls \ {c}, ask[d].at = "flushed", DOMAIN ask[d].set # {}
        PROVE  d \in rowLock'[ask[d].of]
    <3>1. d \in rowLock[ask[d].of] /\ ask[d].of \in Ideas
      BY <2>3, InFlight DEF LockHeld, Asks
    <3> QED BY <1>4, <3>1
  <2> QED BY <1>3, <2>2, <2>3 DEF LockHeld, NoAsk
<1>7. SetsFit'
  <2> SUFFICES ASSUME NEW d \in IdeaCalls, ask'[d].at \notin {"idle", "done"}
               PROVE  SetFits(ask'[d])
    BY DEF SetsFit, Idle, SetFits
  <2> QED BY <1>3 DEF SetsFit, Idle, NoAsk
<1>8. PendingWasReopened' BY <1>1 DEF PendingWasReopened
<1>9. ClaimsMet' /\ OwnsFolder' BY <1>1, <1>3 DEF ClaimsMet, OwnsFolder, Idle, NoAsk
<1> QED BY <1>5, <1>6, <1>7, <1>8, <1>9

-----------------------------------------------------------------------------
(* The theorems.                                                           *)

LEMMA IdeaInvInit == IdeaInit => IdeaInv
<1> SUFFICES ASSUME IdeaInit PROVE IdeaInv OBVIOUS
<1>1. \A c \in IdeaCalls : ask[c] = NoAsk BY DEF IdeaInit
<1>2. Typed BY DEF IdeaInit, Typed, Rows, NoRow
<1>3. LockHeld /\ SetsFit /\ ClaimsMet /\ OwnsFolder
  BY <1>1 DEF IdeaInit, LockHeld, SetsFit, ClaimsMet, OwnsFolder, Idle, NoAsk
<1>4. PendingWasReopened BY DEF IdeaInit, PendingWasReopened, NoRow
<1> QED BY <1>2, <1>3, <1>4 DEF IdeaInv

LEMMA IdeaInvStep == IdeaInv /\ [IdeaNext]_ideaVars => IdeaInv'
<1> SUFFICES ASSUME IdeaInv, [IdeaNext]_ideaVars PROVE IdeaInv' OBVIOUS
<1>1. ASSUME NEW i \in Ideas, SubmitIdea(i) PROVE IdeaInv' BY <1>1, SubmitKeeps
<1>2. ASSUME NEW c \in IdeaCalls, NEW i \in Ideas, NEW b \in Users, StartProject(c, i, b)
      PROVE  IdeaInv'
  BY <1>2, HandlersKeep
<1>3. ASSUME NEW c \in IdeaCalls, NEW i \in Contested, NEW b \in Users,
             ClaimIdea(c, i, b) \/ \E to \in PatchTo : PatchStatus(c, i, b, to)
      PROVE  IdeaInv'
  <2>1. i \in Ideas BY IdeaAssumption
  <2> QED BY <1>3, <2>1, HandlersKeep
<1>4. ASSUME NEW c \in IdeaCalls, AskWorkspace(c) PROVE IdeaInv' BY <1>4, AskKeeps
<1>5. ASSUME NEW c \in IdeaCalls, FlushIdea(c) PROVE IdeaInv' BY <1>5, FlushKeeps
<1>6. ASSUME NEW c \in IdeaCalls, CommitIdea(c) PROVE IdeaInv' BY <1>6, CommitKeeps
<1>7. ASSUME NEW c \in IdeaCalls, AbortIdea(c) PROVE IdeaInv' BY <1>7, AbortKeeps
<1>8. CASE UNCHANGED ideaVars
  BY <1>8 DEF ideaVars, IdeaInv, Typed, LockHeld, SetsFit, SetFits, PendingWasReopened,
              ClaimsMet, OwnsFolder, Idle
<1> QED BY <1>1, <1>2, <1>3, <1>4, <1>5, <1>6, <1>7, <1>8 DEF IdeaNext

LEMMA IdeaInvAlways == IdeaSpec => []IdeaInv
  BY IdeaInvInit, IdeaInvStep, PTL DEF IdeaSpec

\* Every variable of the idea stock is of its type, and a row's lock is held once.
THEOREM IdeaTypes == IdeaSpec => []IdeaTypeOK
<1>1. IdeaInv => IdeaTypeOK
  <2> SUFFICES ASSUME IdeaInv PROVE IdeaTypeOK OBVIOUS
  <2>1. \A i \in Ideas : Cardinality(rowLock[i]) <= 1
    <3> SUFFICES ASSUME NEW i \in Ideas PROVE Cardinality(rowLock[i]) <= 1 OBVIOUS
    <3>1. CASE rowLock[i] = {} BY <3>1, FS_EmptySet
    <3>2. ASSUME NEW c \in IdeaCalls, rowLock[i] = {c} PROVE Cardinality(rowLock[i]) <= 1
      <4>1. Cardinality({c}) = 1 BY FS_Singleton
      <4> QED BY <3>2, <4>1
    <3> QED BY <3>1, <3>2 DEF IdeaInv, LockHeld
  <2>2. \A c \in IdeaCalls : ask[c] \in Asks => DOMAIN ask[c].set \subseteq {"status", "who"}
    BY DEF Asks, Writes
  <2> QED BY <2>1, <2>2 DEF IdeaInv, Typed, IdeaTypeOK, Asks
<1> QED BY <1>1, IdeaInvAlways, PTL

(***************************************************************************)
(* Whoever was told that the project was started has this idea's folder    *)
(* (routes/ideas.py, start_project; routes/projects.py of the workspace).  *)
(***************************************************************************)
THEOREM StartedFolders == IdeaSpec => []StartedHasFolder
<1>1. IdeaInv => StartedHasFolder BY DEF IdeaInv, OwnsFolder, StartedHasFolder
<1> QED BY <1>1, IdeaInvAlways, PTL

(***************************************************************************)
(* An idea leaves its builder only by another claim, which overlapped the  *)
(* first one or followed a PATCH that put the idea back (routes/ideas.py,  *)
(* claim_idea).                                                            *)
(***************************************************************************)
THEOREM ClaimsLostInOverlap == IdeaSpec => ClaimLostOnlyInOverlap
<1> DEFINE Lost(i) == stock[i].who # Nobody /\ stock'[i].who # stock[i].who
           Kept == \A i \in Ideas : Lost(i) =>
             \E c \in rowLock[i] :
               /\ ask[c].op = "claim" /\ stock'[i].who = ask[c].by
               /\ reopened[i] \/ ask[c].late
<1>1. ASSUME IdeaInv, IdeaNext PROVE Kept
  <2> SUFFICES ASSUME NEW i \in Ideas, Lost(i)
               PROVE  \E c \in rowLock[i] :
                        /\ ask[c].op = "claim" /\ stock'[i].who = ask[c].by
                        /\ reopened[i] \/ ask[c].late
    OBVIOUS
  <2>1. ASSUME NEW j \in Ideas, SubmitIdea(j) PROVE FALSE
    BY <1>1, <2>1 DEF SubmitIdea, NoRow, IdeaInv, Typed, Rows
  <2>2. stock' = stock => FALSE OBVIOUS
  <2>3. PICK c \in IdeaCalls : CommitIdea(c)
    BY <1>1, <2>1, <2>2
    DEF IdeaNext, StartProject, ClaimIdea, PatchStatus, Load, AskWorkspace, FlushIdea, AbortIdea
  <2> DEFINE a == ask[c]
             new == Written(stock[a.of], a.set)
  <2>4. /\ a \in Asks /\ a.at = "flushed" /\ a.of \in Ideas /\ SetFits(a)
        /\ stock' = [stock EXCEPT ![a.of] = new]
    BY <1>1, <2>3, CommitEffect
  <2>5. a.of = i /\ stock'[i] = new BY <1>1, <2>4 DEF IdeaInv, Typed
  <2>6. stock[i] \in Rows BY <1>1 DEF IdeaInv, Typed
  <2>7. new.who = IF "who" \in DOMAIN a.set THEN a.set["who"] ELSE stock[i].who
    BY <2>4, <2>5, <2>6, WrittenRow
  <2> HIDE DEF new
  <2>8. "who" \in DOMAIN a.set BY <2>5, <2>7
  <2>9. a.op = "claim" /\ stock'[i].who = a.by BY <2>4, <2>5, <2>7, <2>8 DEF SetFits
  <2>10. c \in rowLock[i] BY <1>1, <2>4, <2>5, <2>8 DEF IdeaInv, LockHeld
  <2>11. reopened[i] \/ a.late BY <1>1, <2>4, <2>5, <2>9 DEF IdeaInv, ClaimsMet, Idle
  <2> QED BY <2>9, <2>10, <2>11
<1>2. IdeaInv /\ [IdeaNext]_ideaVars => [Kept]_ideaVars BY <1>1
<1> QED BY <1>2, IdeaInvAlways, PTL DEF IdeaSpec, ClaimLostOnlyInOverlap

-----------------------------------------------------------------------------
(* Designations.                                                           *)

\* What designate makes: its id is the digest of the score next to it.
Digested(x) ==
  /\ x = [f \in Columns |-> x[f]]
  /\ x["cert"] = <<x["score"], ClassifyGrade(x["score"])>>

\* A designation in flight.  Past its look for the row, it has met none and brings
\* all of its columns, or it has met one and brings those that differed from it:
\* the id if and only if the score.
InFlightDes(k) ==
  /\ k = [at |-> k.at, new |-> k.new, on |-> k.on, set |-> k.set, late |-> k.late]
  /\ k.at \in {"graded", "loaded"} /\ Digested(k.new) /\ k.late \in BOOLEAN
  /\ k.at = "loaded" /\ k.on = {} => k.set = k.new /\ (Present = {} \/ k.late)
  /\ k.at = "loaded" /\ k.on # {} =>
       /\ \E r \in Present : k.on = {r}
       /\ DOMAIN k.set \subseteq Columns /\ \A f \in DOMAIN k.set : k.set[f] = k.new[f]
       /\ "cert" \in DOMAIN k.set <=> "score" \in DOMAIN k.set

\* The inductive invariant: rows are what was designated, no two have one id, and
\* who is to insert a row next to another one is late.
DesInv ==
  /\ row = [r \in RowIds |-> row[r]] /\ des = [d \in DesCalls |-> des[d]]
  /\ \A r \in Present : Digested(row[r])
  /\ \A r, q \in Present : row[r].cert = row[q].cert => r = q
  /\ \A d \in DesCalls : des[d] # NoDes => InFlightDes(des[d])

LEMMA GradedDigests ==
  ASSUME NEW criteria, NEW compliance, NEW originality
  PROVE  Digested(Graded(criteria, compliance, originality))
<1> DEFINE x == Graded(criteria, compliance, originality)
           score == WeightedScore(criteria)
           grade == ClassifyGrade(score)
<1>1. PICK award : x = [cert |-> <<score, grade>>, score |-> score, grade |-> grade,
                        award |-> award]
  BY DEF Graded
<1> HIDE DEF x, grade, score
<1>2. x = [f \in Columns |-> x[f]] BY <1>1 DEF Columns
<1>3. x["cert"] = <<score, grade>> /\ x["score"] = score BY <1>1
<1> QED BY <1>2, <1>3 DEF Digested, grade, x

\* A row is there if and only if it has its columns.
LEMMA DigestedIsThere == ASSUME NEW x, Digested(x) PROVE x # NoRecord
<1>1. DOMAIN x = Columns BY DEF Digested
<1>2. DOMAIN NoRecord = {"award"} BY DEF NoRecord
<1> QED BY <1>1, <1>2 DEF Columns

\* What the look for the row leaves to write.
LEMMA ChangedFits ==
  ASSUME NEW old, NEW new, Digested(old), Digested(new)
  PROVE  LET set == ChangedColumns(old, new) IN
         /\ DOMAIN set \subseteq Columns /\ \A f \in DOMAIN set : set[f] = new[f]
         /\ "cert" \in DOMAIN set <=> "score" \in DOMAIN set
<1> DEFINE set == ChangedColumns(old, new)
           D == {g \in Columns : old[g] # new[g]}
<1>1. set = [f \in D |-> new[f]] BY DEF ChangedColumns
<1>2. DOMAIN set = D /\ \A f \in DOMAIN set : set[f] = new[f] BY <1>1
<1>3. "cert" \in D <=> "score" \in D
  <2>1. old["cert"] = new["cert"] <=> old["score"] = new["score"] BY DEF Digested
  <2> QED BY <2>1 DEF Columns
<1> HIDE DEF set
<1>4. /\ DOMAIN set \subseteq Columns /\ \A f \in DOMAIN set : set[f] = new[f]
      /\ "cert" \in DOMAIN set <=> "score" \in DOMAIN set
  BY <1>2, <1>3
<1> QED BY <1>4 DEF set

\* Rows that stay, and designations that stay what they were or go.
LEMMA RowsStay ==
  ASSUME DesInv, UNCHANGED row, des' = [d \in DesCalls |-> des'[d]],
         \A d \in DesCalls : \/ des'[d] = NoDes \/ des'[d] = des[d]
                             \/ InFlightDes(des'[d])
  PROVE  DesInv'
<1>1. Present' = Present BY DEF Present
<1>2. \A k : InFlightDes(k)' <=> InFlightDes(k) BY <1>1 DEF InFlightDes
<1>3. \A d \in DesCalls : des'[d] # NoDes => InFlightDes(des'[d]) BY DEF DesInv
<1>4. \A d \in DesCalls : des'[d] # NoDes => InFlightDes(des[d])' BY <1>2, <1>3 DEF InFlightDes
<1> QED BY <1>1, <1>4 DEF DesInv

LEMMA GradeKeeps ==
  ASSUME DesInv, NEW d \in DesCalls,
         CertifyIdea(d) \/ DesignateDirectly(d)
  PROVE  DesInv'
<1>1. ASSUME NEW b, NEW result \in BuildDesignation(b), Grade(d, result) PROVE DesInv'
  <2> DEFINE k == [at |-> "graded", new |-> result, on |-> {}, set |-> <<>>, late |-> FALSE]
  <2>1. Digested(result) BY GradedDigests DEF BuildDesignation
  <2>2. des' = [des EXCEPT ![d] = k] /\ UNCHANGED row BY <1>1 DEF Grade
  <2>3. /\ k.at = "graded" /\ k.new = result /\ k.late = FALSE
        /\ k = [at |-> k.at, new |-> k.new, on |-> k.on, set |-> k.set, late |-> k.late]
    OBVIOUS
  <2> HIDE DEF k
  <2>4. InFlightDes(k) BY <2>1, <2>3 DEF InFlightDes
  <2>5. /\ des' = [c \in DesCalls |-> des'[c]]
        /\ \A c \in DesCalls : des'[c] = IF c = d THEN k ELSE des[c]
    BY <2>2 DEF DesInv
  <2> QED BY <2>2, <2>4, <2>5, RowsStay
<1> QED BY <1>1 DEF CertifyIdea, DesignateDirectly

LEMMA AbortDesKeeps == ASSUME DesInv, NEW d \in DesCalls, AbortDes(d) PROVE DesInv'
<1>1. des' = [des EXCEPT ![d] = NoDes] /\ UNCHANGED row BY DEF AbortDes
<1>2. /\ des' = [c \in DesCalls |-> des'[c]]
      /\ \A c \in DesCalls : des'[c] = IF c = d THEN NoDes ELSE des[c]
  BY <1>1 DEF DesInv
<1> QED BY <1>1, <1>2, RowsStay

LEMMA FindKeeps == ASSUME DesInv, NEW d \in DesCalls, FindRow(d) PROVE DesInv'
<1> DEFINE new == des[d].new
           old == row[CHOOSE r \in Present : TRUE]
           set == IF Present = {} THEN new ELSE ChangedColumns(old, new)
           k == [des[d] EXCEPT !.at = "loaded", !.on = Present, !.set = set]
<1>1. /\ des[d] # NoDes /\ des[d].at = "graded" /\ UNCHANGED row
      /\ des' = IF Cardinality(Present) > 1 THEN [des EXCEPT ![d] = NoDes]
                ELSE [des EXCEPT ![d] = k]
  BY DEF FindRow
<1>2. des[d] = [at |-> "graded", new |-> new, on |-> des[d].on, set |-> des[d].set,
                late |-> des[d].late]
      /\ Digested(new) /\ des[d].late \in BOOLEAN
  BY <1>1 DEF DesInv, InFlightDes
<1>3. k = [at |-> "loaded", new |-> new, on |-> Present, set |-> set, late |-> des[d].late]
  <2> HIDE DEF set, new
  <2>1. k = [des[d] EXCEPT !.at = "loaded", !.on = Present, !.set = set] OBVIOUS
  <2> HIDE DEF k
  <2>2. /\ k.at = "loaded" /\ k.new = new /\ k.on = Present /\ k.set = set
        /\ k.late = des[d].late
    BY <1>2, <2>1
  <2>3. DOMAIN k = {"at", "new", "on", "set", "late"} BY <1>2, <2>1
  <2>4. k = [f \in DOMAIN k |-> k[f]] BY <2>1
  <2> QED BY <2>2, <2>3, <2>4
<1>4. CASE Cardinality(Present) > 1
  BY <1>1, <1>4, RowsStay DEF DesInv
<1>5. CASE ~(Cardinality(Present) > 1)
  <2>1. IsFiniteSet(Present) BY DesAssumption, FS_Subset DEF Present
  <2>2. Cardinality(Present) \in Nat /\ (Cardinality(Present) = 0 <=> Present = {})
    BY <2>1, FS_CardinalityType, FS_EmptySet
  <2>3. Present = {} \/ \E r \in Present : Present = {r}
    <3>1. CASE Cardinality(Present) = 0 BY <2>2, <3>1
    <3>2. CASE Cardinality(Present) = 1
      <4>1. PICK r : Present = {r} BY <2>1, <3>2, FS_Singleton
      <4> QED BY <4>1
    <3> QED BY <1>5, <2>2, <3>1, <3>2
  <2>4. k.at = "loaded" /\ k.new = new /\ k.on = Present /\ k.set = set /\ k.late = des[d].late
        /\ k = [at |-> k.at, new |-> k.new, on |-> k.on, set |-> k.set, late |-> k.late]
    BY <1>3
  <2>5. Present # {} => /\ DOMAIN set \subseteq Columns /\ \A f \in DOMAIN set : set[f] = new[f]
                        /\ "cert" \in DOMAIN set <=> "score" \in DOMAIN set
    <3>1. SUFFICES ASSUME Present # {}
                   PROVE  LET s == ChangedColumns(old, new) IN
                          /\ DOMAIN s \subseteq Columns /\ \A f \in DOMAIN s : s[f] = new[f]
                          /\ "cert" \in DOMAIN s <=> "score" \in DOMAIN s
      OBVIOUS
    <3>2. Digested(old) BY <3>1 DEF DesInv
    <3> HIDE DEF old, new
    <3> QED BY <1>2, <3>2, ChangedFits
  <2>6. Present = {} => set = new OBVIOUS
  <2>7. /\ des' = [c \in DesCalls |-> des'[c]]
        /\ \A c \in DesCalls : des'[c] = IF c = d THEN k ELSE des[c]
    BY <1>1, <1>5 DEF DesInv
  <2> HIDE DEF k, set
  <2>8. InFlightDes(k) BY <1>2, <2>3, <2>4, <2>5, <2>6 DEF InFlightDes
  <2> QED BY <1>1, <2>7, <2>8, RowsStay
<1> QED BY <1>4, <1>5

\* A commit that keeps the rows there, and marks as late whoever has looked for a
\* row when it adds one.
LEMMA OthersGoOn ==
  ASSUME DesInv, NEW d \in DesCalls, Present \subseteq Present', NEW adds \in BOOLEAN,
         Present' = Present \/ adds,
         des' = [e \in DesCalls |->
           IF e = d THEN NoDes
           ELSE IF des[e] # NoDes /\ adds /\ des[e].at = "loaded"
           THEN [des[e] EXCEPT !.late = TRUE] ELSE des[e]]
  PROVE  \A e \in DesCalls : des'[e] # NoDes => InFlightDes(des[e])'
<1> SUFFICES ASSUME NEW e \in DesCalls, des'[e] # NoDes PROVE InFlightDes(des[e])'
  OBVIOUS
<1> DEFINE k == des[e]
           n == des'[e]
<1>1. e # d /\ k # NoDes /\ n = IF adds /\ k.at = "loaded" THEN [k EXCEPT !.late = TRUE] ELSE k
  OBVIOUS
<1>2. InFlightDes(k) BY <1>1 DEF DesInv
<1> HIDE DEF k, n
<1>3. /\ n = [at |-> n.at, new |-> n.new, on |-> n.on, set |-> n.set, late |-> n.late]
      /\ n.at = k.at /\ n.new = k.new /\ n.on = k.on /\ n.set = k.set
      /\ n.late = IF adds /\ k.at = "loaded" THEN TRUE ELSE k.late
  <2>1. k = [at |-> k.at, new |-> k.new, on |-> k.on, set |-> k.set, late |-> k.late]
    BY <1>2 DEF InFlightDes
  <2>2. CASE adds /\ k.at = "loaded"
    <3>1. n = [k EXCEPT !.late = TRUE] BY <1>1, <2>2
    <3>2. n.at = k.at /\ n.new = k.new /\ n.on = k.on /\ n.set = k.set /\ n.late = TRUE
      BY <2>1, <3>1
    <3>3. DOMAIN n = {"at", "new", "on", "set", "late"} BY <2>1, <3>1
    <3>4. n = [f \in DOMAIN n |-> n[f]] BY <3>1
    <3> QED BY <2>2, <3>2, <3>3, <3>4
  <2>3. CASE ~(adds /\ k.at = "loaded")
    <3>1. n = k BY <1>1, <2>3
    <3> QED BY <2>1, <2>3, <3>1
  <2> QED BY <2>2, <2>3
<1>4. n.at = "loaded" /\ n.on = {} => Present' = {} \/ n.late
  BY <1>2, <1>3 DEF InFlightDes
<1>5. n.on # {} /\ n.at = "loaded" => \E r \in Present' : n.on = {r}
  BY <1>2, <1>3 DEF InFlightDes
<1>7. /\ n.at \in {"graded", "loaded"} /\ Digested(n.new) /\ n.late \in BOOLEAN
      /\ n.at = "loaded" /\ n.on = {} => n.set = n.new
      /\ n.at = "loaded" /\ n.on # {} =>
           /\ DOMAIN n.set \subseteq Columns /\ \A f \in DOMAIN n.set : n.set[f] = n.new[f]
           /\ "cert" \in DOMAIN n.set <=> "score" \in DOMAIN n.set
  BY <1>2, <1>3 DEF InFlightDes
<1> QED BY <1>3, <1>4, <1>5, <1>7 DEF InFlightDes, n

LEMMA InsertRowKeeps ==
  ASSUME DesInv, NEW d \in DesCalls, WriteRow(d), des[d].on = {}
  PROVE  DesInv'
<1> DEFINE k == des[d]
           clash == "cert" \in DOMAIN k.set /\ TakenBy(k.set.cert) \ k.on # {}
<1>1. /\ k # NoDes /\ k.at = "loaded" /\ InFlightDes(k)
      /\ k.set = k.new /\ Digested(k.new)
  BY DEF WriteRow, DesInv, InFlightDes
<1>2. CASE clash
  <2>1. UNCHANGED row BY <1>2 DEF WriteRow
  <2>2. /\ des' = [e \in DesCalls |-> des'[e]]
        /\ \A e \in DesCalls : des'[e] = IF e = d THEN NoDes ELSE des[e]
    BY <1>2, <2>1 DEF WriteRow
  <2> QED BY <2>1, <2>2, RowsStay
<1>3. CASE ~clash
  <2>1. PICK r \in RowIds \ Present : row' = [row EXCEPT ![r] = k.new]
    BY <1>1, <1>3 DEF WriteRow
  <2>2. row[r] = NoRecord /\ k.new # NoRecord BY <1>1, <2>1, DigestedIsThere DEF Present
  <2>3. /\ row' = [q \in RowIds |-> row'[q]] /\ row'[r] = k.new
        /\ \A q \in RowIds \ {r} : row'[q] = row[q]
    BY <2>1 DEF DesInv
  <2>4. row' # row BY <2>2, <2>3
  <2>5. Present' = Present \cup {r} BY <2>1, <2>2, <2>3 DEF Present
  <2>6. \A q \in Present : row[q].cert # k.new.cert
    <3>1. "cert" \in DOMAIN k.new BY <1>1 DEF Digested, Columns
    <3> QED BY <1>1, <1>3, <3>1 DEF TakenBy
  <2>7. des' = [e \in DesCalls |->
           IF e = d THEN NoDes
           ELSE IF des[e] # NoDes /\ TRUE /\ des[e].at = "loaded"
           THEN [des[e] EXCEPT !.late = TRUE] ELSE des[e]]
    BY <2>4 DEF WriteRow
  <2>8. \A e \in DesCalls : des'[e] # NoDes => InFlightDes(des[e])'
    BY <2>5, <2>7, OthersGoOn
  <2>9. \A q \in Present' : Digested(row'[q])
    BY <1>1, <2>3, <2>5 DEF DesInv, Present
  <2>10. \A p, q \in Present' : row'[p].cert = row'[q].cert => p = q
    BY <2>3, <2>5, <2>6 DEF DesInv, Present
  <2>11. des' = [e \in DesCalls |-> des'[e]] BY <2>7
  <2> QED BY <2>3, <2>8, <2>9, <2>10, <2>11 DEF DesInv, Digested
<1> QED BY <1>2, <1>3

LEMMA UpdateRowKeeps ==
  ASSUME DesInv, NEW d \in DesCalls, WriteRow(d), des[d].on # {}
  PROVE  DesInv' /\ Present' = Present
<1> DEFINE k == des[d]
           clash == "cert" \in DOMAIN k.set /\ TakenBy(k.set.cert) \ k.on # {}
<1>1. /\ k # NoDes /\ k.at = "loaded" /\ InFlightDes(k) /\ Digested(k.new)
  BY DEF WriteRow, DesInv, InFlightDes
<1>2. /\ des' = [e \in DesCalls |-> des'[e]]
      /\ \A e \in DesCalls : des'[e] = IF e = d THEN NoDes ELSE des[e]
  BY DEF WriteRow
<1>3. CASE clash
  <2>1. UNCHANGED row BY <1>3 DEF WriteRow
  <2> QED BY <1>2, <2>1, RowsStay DEF Present
<1>4. CASE ~clash
  <2>1. PICK r \in Present : k.on = {r} BY <1>1 DEF InFlightDes
  <2> DEFINE new == [f \in Columns |-> IF f \in DOMAIN k.set THEN k.set[f] ELSE row[r][f]]
  <2>2. /\ row' = [q \in RowIds |-> row'[q]] /\ row'[r] = new
        /\ \A q \in RowIds \ {r} : row'[q] = row[q]
    BY <1>4, <2>1 DEF WriteRow, Present
  <2>3. Digested(row[r]) /\ r \in RowIds BY <2>1 DEF DesInv, Present
  <2>4. /\ \A f \in DOMAIN k.set : k.set[f] = k.new[f]
        /\ "cert" \in DOMAIN k.set <=> "score" \in DOMAIN k.set
    BY <1>1, <2>1 DEF InFlightDes
  <2>5. new["cert"] = IF "cert" \in DOMAIN k.set THEN k.new["cert"] ELSE row[r]["cert"]
    BY <2>4 DEF Columns
  <2>6. new["score"] = IF "cert" \in DOMAIN k.set THEN k.new["score"] ELSE row[r]["score"]
    BY <2>4 DEF Columns
  <2>7. new = [f \in Columns |-> new[f]] OBVIOUS
  <2> HIDE DEF new
  <2>8. Digested(new) BY <1>1, <2>3, <2>5, <2>6, <2>7 DEF Digested
  <2>9. new # NoRecord BY <2>8, DigestedIsThere
  <2>10. Present' = Present BY <2>1, <2>2, <2>3, <2>9 DEF Present
  <2>11. \A q \in Present \ {r} : row[q].cert # new.cert
    <3>1. CASE "cert" \in DOMAIN k.set
      <4>1. k.set.cert = new.cert BY <2>4, <2>5, <3>1
      <4> QED BY <1>4, <2>1, <3>1, <4>1 DEF TakenBy
    <3>2. CASE "cert" \notin DOMAIN k.set BY <2>1, <2>5, <3>2 DEF DesInv
    <3> QED BY <3>1, <3>2
  <2>12. \A q \in Present' : Digested(row'[q]) BY <2>2, <2>8, <2>10 DEF DesInv, Present
  <2>13. \A p, q \in Present' : row'[p].cert = row'[q].cert => p = q
    BY <2>1, <2>2, <2>10, <2>11 DEF DesInv, Present
  <2>14. \A e \in DesCalls : des'[e] # NoDes => InFlightDes(des[e])'
    BY <1>2, <2>10 DEF DesInv, InFlightDes
  <2> QED BY <1>2, <2>2, <2>10, <2>12, <2>13, <2>14 DEF DesInv, Digested
<1> QED BY <1>3, <1>4

LEMMA DesInvStep == DesInv /\ [DesNext]_desVars => DesInv'
<1> SUFFICES ASSUME DesInv, [DesNext]_desVars PROVE DesInv'
  OBVIOUS
<1>1. CASE UNCHANGED <<row, des>> BY <1>1, RowsStay DEF DesInv
<1>2. ASSUME NEW e \in Evaluators, RegisterEvaluator(e) \/ ApproveEvaluator(e)
      PROVE  UNCHANGED <<row, des>>
  BY <1>2 DEF RegisterEvaluator, ApproveEvaluator
<1>3. ASSUME NEW v \in VoteCalls, InsertVote(v) \/ \E e \in Evaluators : CheckVote(v, e)
      PROVE  UNCHANGED <<row, des>>
  BY <1>3 DEF InsertVote, CheckVote
<1>4. ASSUME NEW d \in DesCalls, WriteRow(d) PROVE DesInv'
  BY <1>4, InsertRowKeeps, UpdateRowKeeps
<1> QED BY <1>1, <1>2, <1>3, <1>4, GradeKeeps, FindKeeps, AbortDesKeeps DEF DesNext, desVars

LEMMA DesInvAlways == DesSpec => []DesInv
<1>1. DesInit => DesInv BY DEF DesInit, DesInv, Present
<1> QED BY <1>1, DesInvStep, PTL DEF DesSpec

(***************************************************************************)
(* However upserts mix, a certificate's id is the digest of the score next *)
(* to it, and of no other row (certify store.py, upsert_designation).      *)
(***************************************************************************)
THEOREM IdsMatchScores == DesSpec => []IdMatchesScore
<1>1. DesInv => IdMatchesScore
  <2> SUFFICES ASSUME DesInv, NEW r \in Present
               PROVE  /\ row[r].cert = <<row[r].score, ClassifyGrade(row[r].score)>>
                      /\ TakenBy(row[r].cert) = {r}
    BY DEF IdMatchesScore
  <2>1. row[r].cert = <<row[r].score, ClassifyGrade(row[r].score)>> BY DEF DesInv, Digested
  <2>2. TakenBy(row[r].cert) = {r} BY DEF DesInv, TakenBy
  <2> QED BY <2>1, <2>2
<1> QED BY <1>1, DesInvAlways, PTL

(***************************************************************************)
(* A submission gets a second row only from a call that had looked for one *)
(* before the first was there.                                             *)
(***************************************************************************)
THEOREM SecondRowsOverlap == DesSpec => SecondRowOnlyInOverlap
<1> DEFINE Overlapped ==
             \A d \in DesCalls :
               Present # {} /\ Present' # Present /\ des[d] # NoDes /\ des'[d] = NoDes
                 => des[d].late
<1>1. ASSUME DesInv, DesNext PROVE Overlapped
  <2> SUFFICES ASSUME NEW d \in DesCalls, Present # {}, Present' # Present,
                      des[d] # NoDes, des'[d] = NoDes
               PROVE  des[d].late
    OBVIOUS
  <2>1. row' # row BY DEF Present
  <2>2. PICK c \in DesCalls : WriteRow(c)
    BY <1>1, <2>1
    DEF DesNext, RegisterEvaluator, ApproveEvaluator, InsertVote, CheckVote, CertifyIdea,
        DesignateDirectly, Grade, FindRow, AbortDes
  <2>3. c = d
    <3> SUFFICES ASSUME c # d PROVE FALSE OBVIOUS
    <3>1. des'[d] = des[d] \/ des'[d] = [des[d] EXCEPT !.late = TRUE] BY <2>2 DEF WriteRow
    <3>2. des[d] = [at |-> des[d].at, new |-> des[d].new, on |-> des[d].on,
                    set |-> des[d].set, late |-> des[d].late]
      BY <1>1 DEF DesInv, InFlightDes
    <3>3. DOMAIN des'[d] = {"at", "new", "on", "set", "late"} BY <3>1, <3>2
    <3>4. DOMAIN NoDes = {"at"} BY DEF NoDes
    <3> QED BY <3>3, <3>4
  <2>4. des[d].on = {} BY <1>1, <2>2, <2>3, UpdateRowKeeps
  <2>5. des[d].at = "loaded" BY <2>2, <2>3 DEF WriteRow
  <2> QED BY <1>1, <2>4, <2>5 DEF DesInv, InFlightDes
<1>2. DesInv /\ [DesNext]_desVars => [Overlapped]_<<row, des>>
  <2>1. UNCHANGED desVars => UNCHANGED <<row, des>> BY DEF desVars
  <2> QED BY <1>1, <2>1
<1> QED BY <1>2, DesInvAlways, PTL DEF DesSpec, SecondRowOnlyInOverlap

-----------------------------------------------------------------------------
(* Sums over finite sets, which the fold of a sequence and of a set are.   *)

LEMMA NatInd ==
  ASSUME NEW I, 0 \in I, \A n \in Nat : n \in I => n + 1 \in I
  PROVE  Nat \subseteq I
<1> DEFINE R == {e \in Nat \X Nat : e[1] < e[2]}
<1> SUFFICES ASSUME Nat \ I # {} PROVE FALSE
  OBVIOUS
<1>1. R = OpToRel(<, Nat) BY DEF OpToRel
<1>2. IsWellFoundedOn(R, Nat) BY <1>1, NatLessThanWellFounded
<1>3. PICK m \in Nat \ I : \A k \in Nat \ I : <<k, m>> \notin R
  <2> HIDE DEF R
  <2> QED BY <1>2, WFMin
<1>4. m # 0 /\ m - 1 \in Nat /\ <<m - 1, m>> \in R OBVIOUS
<1>5. m - 1 \in I BY <1>3, <1>4
<1> QED BY <1>4, <1>5

Some(s) == CHOOSE x \in s : TRUE

\* t adds up the values g of each subset of S, one element after the other.
Tallies(t, S, g) == t = [s \in SUBSET S |-> IF s = {} THEN 0 ELSE g[Some(s)] + t[s \ {Some(s)}]]

\* A subset without the element chosen from it is smaller.
LEMMA Smaller ==
  ASSUME NEW S, IsFiniteSet(S), NEW s \in SUBSET S, s # {}
  PROVE  /\ Some(s) \in S /\ s \ {Some(s)} \in SUBSET S
         /\ Cardinality(s) \in Nat /\ Cardinality(s \ {Some(s)}) = Cardinality(s) - 1
         /\ Cardinality(s) <= Cardinality(S) /\ Cardinality(S) \in Nat
         /\ Cardinality(s) # 0
<1>1. Some(s) \in s BY DEF Some
<1>2. IsFiniteSet(s) /\ Cardinality(s) <= Cardinality(S) BY FS_Subset
<1>3. Cardinality(s) \in Nat /\ Cardinality(S) \in Nat BY <1>2, FS_CardinalityType
<1>4. Cardinality(s \ {Some(s)}) = Cardinality(s) - 1 BY <1>1, <1>2, FS_RemoveElement
<1>5. Cardinality(s) # 0 BY <1>2, FS_EmptySet
<1> QED BY <1>1, <1>2, <1>3, <1>4, <1>5

LEMMA TallyExists ==
  ASSUME NEW S, IsFiniteSet(S), NEW g
  PROVE  \E t : Tallies(t, S, g)
<1> DEFINE next(t, s) == IF s = {} THEN 0 ELSE g[Some(s)] + t[s \ {Some(s)}]
           I == {n \in Nat : \E t : /\ DOMAIN t = SUBSET S /\ t = [s \in SUBSET S |-> t[s]]
                                   /\ \A s \in SUBSET S : Cardinality(s) <= n => t[s] = next(t, s)}
<1>1. 0 \in I
  <2> DEFINE t == [s \in SUBSET S |-> 0]
  <2>1. ASSUME NEW s \in SUBSET S, Cardinality(s) <= 0 PROVE s = {}
    <3> SUFFICES ASSUME s # {} PROVE FALSE OBVIOUS
    <3>1. Cardinality(s) \in Nat /\ Cardinality(s) # 0 BY Smaller
    <3> QED BY <2>1, <3>1
  <2>2. \A s \in SUBSET S : Cardinality(s) <= 0 => t[s] = next(t, s) BY <2>1
  <2>3. DOMAIN t = SUBSET S /\ t = [s \in SUBSET S |-> t[s]] OBVIOUS
  <2> HIDE DEF t, next
  <2> QED BY <2>2, <2>3
<1>2. ASSUME NEW n \in Nat, n \in I PROVE n + 1 \in I
  <2>1. PICK t : /\ DOMAIN t = SUBSET S /\ t = [s \in SUBSET S |-> t[s]]
                 /\ \A s \in SUBSET S : Cardinality(s) <= n => t[s] = next(t, s)
    BY <1>2
  <2> DEFINE u == [s \in SUBSET S |-> next(t, s)]
  <2>2. \A s \in SUBSET S : u[s] = next(t, s) OBVIOUS
  <2>3. DOMAIN u = SUBSET S /\ u = [s \in SUBSET S |-> u[s]] OBVIOUS
  <2> HIDE DEF u
  <2>4. ASSUME NEW s \in SUBSET S, Cardinality(s) <= n + 1 PROVE u[s] = next(u, s)
    <3>1. CASE s = {} BY <2>2, <3>1
    <3>2. CASE s # {}
      <4> DEFINE r == s \ {Some(s)}
      <4>1. r \in SUBSET S /\ Cardinality(r) <= n BY <2>4, <3>2, Smaller
      <4> HIDE DEF r
      <4>2. t[r] = next(t, r) BY <2>1, <4>1
      <4>3. u[r] = next(t, r) BY <2>2, <4>1
      <4>4. u[r] = t[r] BY <4>2, <4>3
      <4>5. u[s] = g[Some(s)] + t[r] BY <2>2, <3>2 DEF r
      <4> QED BY <3>2, <4>4, <4>5 DEF r
    <3> QED BY <3>1, <3>2
  <2> HIDE DEF next
  <2>5. \A s \in SUBSET S : Cardinality(s) <= n + 1 => u[s] = next(u, s) BY <2>4
  <2>6. \E v : /\ DOMAIN v = SUBSET S /\ v = [s \in SUBSET S |-> v[s]]
              /\ \A s \in SUBSET S : Cardinality(s) <= n + 1 => v[s] = next(v, s)
    BY <2>3, <2>5
  <2>7. n + 1 \in Nat OBVIOUS
  <2> QED BY <2>6, <2>7, Zenon
<1>3. Nat \subseteq I
  <2> HIDE DEF I
  <2> QED BY <1>1, <1>2, NatInd
<1>4. Cardinality(S) \in I BY <1>3, FS_CardinalityType
<1>5. PICK t : /\ DOMAIN t = SUBSET S /\ t = [s \in SUBSET S |-> t[s]]
               /\ \A s \in SUBSET S : Cardinality(s) <= Cardinality(S) => t[s] = next(t, s)
  BY <1>4
<1>6. \A s \in SUBSET S : Cardinality(s) <= Cardinality(S) BY FS_Subset
<1>7. \A s \in SUBSET S : t[s] = next(t, s) BY <1>5, <1>6
<1>8. t = [s \in SUBSET S |-> next(t, s)] 
  <2> HIDE DEF next
  <2> QED BY <1>5, <1>7
<1> QED BY <1>8 DEF Tallies

LEMMA TallyIsInt ==
  ASSUME NEW S, IsFiniteSet(S), NEW g, \A x \in S : g[x] \in Int, NEW t, Tallies(t, S, g)
  PROVE  t[S] \in Int
<1> DEFINE I == {n \in Nat : \A s \in SUBSET S : Cardinality(s) <= n => t[s] \in Int}
<1>0. \A s \in SUBSET S : t[s] = IF s = {} THEN 0 ELSE g[Some(s)] + t[s \ {Some(s)}]
  BY DEF Tallies
<1>1. 0 \in I
  <2>1. ASSUME NEW s \in SUBSET S, Cardinality(s) <= 0 PROVE s = {}
    <3> SUFFICES ASSUME s # {} PROVE FALSE OBVIOUS
    <3>1. Cardinality(s) \in Nat /\ Cardinality(s) # 0 BY Smaller
    <3> QED BY <2>1, <3>1
  <2>2. \A s \in SUBSET S : Cardinality(s) <= 0 => t[s] = 0
    BY <1>0, <2>1
  <2>3. \A s \in SUBSET S : Cardinality(s) <= 0 => t[s] \in Int BY <2>2
  <2> QED BY <2>3
<1>2. ASSUME NEW n \in Nat, n \in I PROVE n + 1 \in I
  <2> SUFFICES ASSUME NEW s \in SUBSET S, Cardinality(s) <= n + 1 PROVE t[s] \in Int
    OBVIOUS
  <2>1. CASE s = {}
    <3>1. t[s] = 0 BY <1>0, <2>1
    <3> QED BY <3>1
  <2>2. CASE s # {}
    <3>1. s \ {Some(s)} \in SUBSET S /\ Cardinality(s \ {Some(s)}) <= n /\ Some(s) \in S
      BY <2>2, Smaller
    <3>2. t[s \ {Some(s)}] \in Int BY <1>2, <3>1
    <3>3. t[s] = g[Some(s)] + t[s \ {Some(s)}] BY <1>0, <2>2
    <3> QED BY <3>1, <3>2, <3>3
  <2> QED BY <2>1, <2>2
<1>3. Nat \subseteq I
  <2> HIDE DEF I
  <2> QED BY <1>1, <1>2, NatInd
<1>4. Cardinality(S) \in I BY <1>3, FS_CardinalityType
<1> QED BY <1>4, FS_CardinalityType

-----------------------------------------------------------------------------
(* The certificate.                                                        *)

\* The sums of WeightedScore and BatchVerdict, as the folds make them.
ScoreTallies(t, c) ==
  t = [s \in SUBSET DOMAIN c |->
         IF s = {} THEN 0
         ELSE LET x == CHOOSE x \in s : TRUE IN Weight[x] * Clamp(c[x]) + t[s \ {x}]]
ScoreTally(c) == CHOOSE t : ScoreTallies(t, c)

TextTallies(t, q) ==
  t = [s \in SUBSET DOMAIN q |->
         IF s = {} THEN 0
         ELSE LET x == CHOOSE x \in s : TRUE IN Originality(q[x]) + t[s \ {x}]]
TextTally(q) == CHOOSE t : TextTallies(t, q)

\* What the dimensions of s weigh together.
Together(s) ==
  (IF "problem" \in s THEN 10 ELSE 0) + (IF "solution" \in s THEN 15 ELSE 0)
  + (IF "market" \in s THEN 10 ELSE 0) + (IF "product" \in s THEN 10 ELSE 0)
  + (IF "business_model" \in s THEN 10 ELSE 0) + (IF "traction" \in s THEN 10 ELSE 0)
  + (IF "team" \in s THEN 10 ELSE 0) + (IF "competition" \in s THEN 10 ELSE 0)
  + (IF "financials" \in s THEN 10 ELSE 0) + (IF "clarity" \in s THEN 5 ELSE 0)

LEMMA WeighedOnce ==
  /\ \A s : Together(s) \in 0..100
  /\ \A s : \A d \in s \cap Dimensions :
       Weight[d] \in 0..15 /\ Together(s) = Together(s \ {d}) + Weight[d]
<1>1. \A s : Together(s) \in 0..100 BY DEF Together
<1>2. Dimensions = {"problem", "solution", "market", "product", "business_model", "traction",
                    "team", "competition", "financials", "clarity"}
  BY DEF Dimensions, Weight
<1>3. ASSUME NEW s, NEW d \in s \cap Dimensions
      PROVE  Weight[d] \in 0..15 /\ Together(s) = Together(s \ {d}) + Weight[d]
  <2>1. CASE d = "problem" BY <1>3, <2>1 DEF Together, Weight
  <2>2. CASE d = "solution" BY <1>3, <2>2 DEF Together, Weight
  <2>3. CASE d = "market" BY <1>3, <2>3 DEF Together, Weight
  <2>4. CASE d = "product" BY <1>3, <2>4 DEF Together, Weight
  <2>5. CASE d = "business_model" BY <1>3, <2>5 DEF Together, Weight
  <2>6. CASE d = "traction" BY <1>3, <2>6 DEF Together, Weight
  <2>7. CASE d = "team" BY <1>3, <2>7 DEF Together, Weight
  <2>8. CASE d = "competition" BY <1>3, <2>8 DEF Together, Weight
  <2>9. CASE d = "financials" BY <1>3, <2>9 DEF Together, Weight
  <2>10. CASE d = "clarity" BY <1>3, <2>10 DEF Together, Weight
  <2> QED BY <1>2, <1>3, <2>1, <2>2, <2>3, <2>4, <2>5, <2>6, <2>7, <2>8, <2>9, <2>10
<1> QED BY <1>1, <1>3

\* The weights add up to 100, so a score stays within its scale.
LEMMA ScoreFits ==
  ASSUME NEW c, DOMAIN c \subseteq Dimensions, \A d \in DOMAIN c : c[d] \in Int
  PROVE  WeightedScore(c) \in Scores
<1> DEFINE D == DOMAIN c
           g == [d \in D |-> Weight[d] * Clamp(c[d])]
<1>0. IsFiniteSet(D)
  <2>1. IsFiniteSet({}) /\ \A S, x : IsFiniteSet(S) => IsFiniteSet(S \cup {x})
    BY FS_EmptySet, FS_AddElement
  <2>2. IsFiniteSet((((({} \cup {"problem"}) \cup {"solution"}) \cup {"market"}) \cup {"product"})
                    \cup {"business_model"})
    BY <2>1, Zenon
  <2>3. IsFiniteSet(({"problem", "solution", "market", "product", "business_model"}
                    \cup {"traction"}) \cup {"team"})
    <3>1. (((({} \cup {"problem"}) \cup {"solution"}) \cup {"market"}) \cup {"product"})
            \cup {"business_model"}
          = {"problem", "solution", "market", "product", "business_model"}
      OBVIOUS
    <3> QED BY <2>1, <2>2, <3>1, Zenon
  <2>4. IsFiniteSet((((({"problem", "solution", "market", "product", "business_model"}
                    \cup {"traction"}) \cup {"team"}) \cup {"competition"}) \cup {"financials"})
                    \cup {"clarity"})
    BY <2>1, <2>3, Zenon
  <2>5. Dimensions = (((({"problem", "solution", "market", "product", "business_model"}
                    \cup {"traction"}) \cup {"team"}) \cup {"competition"}) \cup {"financials"})
                    \cup {"clarity"}
    BY DEF Dimensions, Weight
  <2>6. IsFiniteSet(Dimensions) BY <2>4, <2>5, Zenon
  <2> QED BY <2>6, FS_Subset
<1>1. WeightedScore(c) = ScoreTally(c)[D]
  BY DEF WeightedScore, MapThenSumSet, MapThenFoldSet, ScoreTally, ScoreTallies
<1>2. \A d \in D : g[d] = Weight[d] * Clamp(c[d]) /\ g[d] \in Int /\ 0 <= g[d] /\ g[d] <= 100 * Weight[d]
  <2> SUFFICES ASSUME NEW d \in D
               PROVE  Weight[d] * Clamp(c[d]) \in Int /\ 0 <= Weight[d] * Clamp(c[d])
                      /\ Weight[d] * Clamp(c[d]) <= 100 * Weight[d]
    OBVIOUS
  <2>1. Clamp(c[d]) \in 0..100 BY DEF Clamp
  <2>2. Weight[d] \in {5, 10, 15} BY DEF Dimensions, Weight
  <2> QED BY <2>1, <2>2
<1>3. \A t : Tallies(t, D, g) <=> ScoreTallies(t, c)
  <2>1. \A s \in SUBSET D : s # {} => Some(s) \in D /\ g[Some(s)] = Weight[Some(s)] * Clamp(c[Some(s)])
    BY <1>2 DEF Some
  <2> HIDE DEF g
  <2> QED BY <2>1 DEF Tallies, ScoreTallies, Some
<1> HIDE DEF g
<1>4. PICK t : t = ScoreTally(c) /\ Tallies(t, D, g) BY <1>0, <1>3, TallyExists DEF ScoreTally
<1>5. \A s \in SUBSET D : t[s] = IF s = {} THEN 0 ELSE g[Some(s)] + t[s \ {Some(s)}]
  BY <1>4 DEF Tallies
<1> DEFINE I == {n \in Nat : \A s \in SUBSET D :
                   Cardinality(s) <= n => t[s] \in Int /\ 0 <= t[s] /\ t[s] <= 100 * Together(s)}
<1>6. \A s : Together(s) \in 0..100 BY WeighedOnce
<1>7. t[{}] = 0 /\ 0 <= 100 * Together({})
  <2>1. {} \in SUBSET D OBVIOUS
  <2>2. t[{}] = 0 BY <1>5, <2>1, Zenon
  <2>3. Together({}) \in 0..100 BY <1>6
  <2>4. 0 <= 100 * Together({}) BY <2>3
  <2> QED BY <2>2, <2>4
<1>8. 0 \in I
  <2>1. ASSUME NEW s \in SUBSET D, Cardinality(s) <= 0 PROVE s = {}
    <3> SUFFICES ASSUME s # {} PROVE FALSE OBVIOUS
    <3>1. Cardinality(s) \in Nat /\ Cardinality(s) # 0 BY <1>0, Smaller
    <3> QED BY <2>1, <3>1
  <2>2. ASSUME NEW s \in SUBSET D, Cardinality(s) <= 0
        PROVE  t[s] \in Int /\ 0 <= t[s] /\ t[s] <= 100 * Together(s)
    <3>1. s = {} BY <2>1, <2>2
    <3> QED BY <1>7, <3>1
  <2> QED BY <2>2
<1>9. ASSUME NEW n \in Nat, n \in I PROVE n + 1 \in I
  <2> SUFFICES ASSUME NEW s \in SUBSET D, Cardinality(s) <= n + 1
               PROVE  t[s] \in Int /\ 0 <= t[s] /\ t[s] <= 100 * Together(s)
    OBVIOUS
  <2>1. CASE s = {} BY <1>7, <2>1
  <2>2. CASE s # {}
    <3> DEFINE d == Some(s)
               r == s \ {d}
    <3>1. r \in SUBSET D /\ Cardinality(r) <= n /\ d \in s /\ d \in D
      BY <1>0, <2>2, Smaller DEF Some
    <3>2. t[s] = g[d] + t[r] BY <1>5, <2>2
    <3>3. Weight[d] \in 0..15 /\ Together(s) = Together(r) + Weight[d] BY <3>1, WeighedOnce
    <3> HIDE DEF d, r
    <3>4. t[r] \in Int /\ 0 <= t[r] /\ t[r] <= 100 * Together(r) BY <1>9, <3>1
    <3> QED BY <1>2, <1>6, <3>1, <3>2, <3>3, <3>4
  <2> QED BY <2>1, <2>2
<1>10. Cardinality(D) \in I
  <2> HIDE DEF I
  <2> QED BY <1>0, <1>8, <1>9, NatInd, FS_CardinalityType
<1>11. Cardinality(D) \in Nat BY <1>0, FS_CardinalityType
<1>12. t[D] \in Int /\ 0 <= t[D] /\ t[D] <= 100 * Together(D) BY <1>10, <1>11
<1>13. Together(D) \in 0..100 BY <1>6
<1>14. WeightedScore(c) = t[D] BY <1>1, <1>4
<1> HIDE DEF D
<1>15. 0 <= t[D] /\ t[D] <= 10000 BY <1>12, <1>13
<1>16. \A x \in Int : 0 <= x /\ x <= 10000 => x \in Scores BY DEF Scores
<1>17. t[D] \in Scores
  <2> HIDE DEF I
  <2> QED BY <1>12, <1>15, <1>16
<1> QED BY <1>14, <1>17

\* The largest similarity of a text is one of them, or zero.
LEMMA OriginalityIsInt == ASSUME NEW text \in Seq(Int) PROVE Originality(text) \in Int
<1> DEFINE upTo(k) == {text[n] : n \in 1..k} \cup {0}
           I == {k \in Nat : k <= Len(text) =>
                   \E x \in upTo(k) : \A y \in upTo(k) : x >= y}
<1>0. \A n \in 1..Len(text) : text[n] \in Int OBVIOUS
<1>1. 0 \in I
  <2>1. upTo(0) = {0} OBVIOUS
  <2> HIDE DEF upTo
  <2>2. 0 \in upTo(0) /\ \A y \in upTo(0) : 0 >= y BY <2>1
  <2>3. \E x \in upTo(0) : \A y \in upTo(0) : x >= y BY <2>2, Zenon
  <2> QED BY <2>3
<1>2. ASSUME NEW k \in Nat, k \in I PROVE k + 1 \in I
  <2> SUFFICES ASSUME k + 1 <= Len(text)
               PROVE  \E x \in upTo(k + 1) : \A y \in upTo(k + 1) : x >= y
    OBVIOUS
  <2>1. upTo(k + 1) = upTo(k) \cup {text[k + 1]} OBVIOUS
  <2>2. upTo(k + 1) \subseteq Int /\ text[k + 1] \in Int BY <1>0
  <2>3. k <= Len(text) OBVIOUS
  <2>4. PICK x \in upTo(k) : \A y \in upTo(k) : x >= y BY <1>2, <2>3
  <2> HIDE DEF upTo
  <2>5. CASE x >= text[k + 1] BY <2>1, <2>2, <2>4, <2>5
  <2>6. CASE ~(x >= text[k + 1]) BY <2>1, <2>2, <2>4, <2>6
  <2> QED BY <2>5, <2>6
<1>3. Nat \subseteq I
  <2> HIDE DEF I
  <2> QED BY <1>1, <1>2, NatInd
<1>4. \E x \in upTo(Len(text)) : \A y \in upTo(Len(text)) : x >= y
  <2>1. Len(text) \in Nat /\ Len(text) <= Len(text) OBVIOUS
  <2>2. Len(text) \in I BY <1>3, <2>1
  <2> QED BY <2>1, <2>2
<1>5. upTo(Len(text)) = {text[n] : n \in DOMAIN text} \cup {0} OBVIOUS
<1>6. upTo(Len(text)) \subseteq Int BY <1>0
<1>7. Max(upTo(Len(text))) \in Int
  <2> HIDE DEF upTo
  <2> QED BY <1>4, <1>6 DEF Max
<1> HIDE DEF upTo
<1>8. Max({text[n] : n \in DOMAIN text} \cup {0}) \in Int BY <1>5, <1>7
<1> QED BY <1>8 DEF Originality

LEMMA SumIsInt == ASSUME NEW q \in Seq(Seq(Int)) PROVE TotalScore(q) \in Int
<1> DEFINE D == DOMAIN q
           g == [n \in D |-> Originality(q[n])]
<1>1. TotalScore(q) = TextTally(q)[D]
  BY DEF TotalScore, FoldSeq, FoldFunction, FoldFunctionOnSet, MapThenFoldSet, TextTally, TextTallies
<1>2. IsFiniteSet(D)
  <2>1. D = 1..Len(q) /\ Len(q) \in Nat OBVIOUS
  <2> QED BY <2>1, FS_Interval
<1>3. \A n \in D : g[n] = Originality(q[n]) /\ g[n] \in Int
  <2>1. \A n \in D : q[n] \in Seq(Int) OBVIOUS
  <2>2. \A n \in D : Originality(q[n]) \in Int BY <2>1, OriginalityIsInt
  <2> QED BY <2>2
<1>4. \A t : Tallies(t, D, g) <=> TextTallies(t, q)
  <2>1. \A s \in SUBSET D : s # {} => Some(s) \in D /\ g[Some(s)] = Originality(q[Some(s)])
    BY <1>3 DEF Some
  <2> HIDE DEF g
  <2> QED BY <2>1 DEF Tallies, TextTallies, Some
<1> HIDE DEF g
<1>5. TextTallies(TextTally(q), q) BY <1>2, <1>4, TallyExists DEF TextTally
<1>6. TextTally(q)[D] \in Int BY <1>2, <1>3, <1>4, <1>5, TallyIsInt
<1> QED BY <1>1, <1>6

\* A verdict of "passed" is one for every rule of every jurisdiction.
LEMMA PassedIsAllHold ==
  ASSUME NEW jurisdictions, NEW who
  PROVE  ComplianceVerdict({RunCertification(j, who) : j \in jurisdictions}) = "passed" <=>
           /\ jurisdictions # {}
           /\ \A j \in jurisdictions :
                RulesOf(j) # {} /\ \A r \in RulesOf(j) : Holds(r, who, j)
<1>1. ASSUME NEW j
      PROVE  RunCertification(j, who) = "passed" <=>
               RulesOf(j) # {} /\ \A r \in RulesOf(j) : Holds(r, who, j)
  <2> DEFINE statuses == {RuleStatus(r, who, j) : r \in RulesOf(j)}
  <2>1. \A r : /\ RuleStatus(r, who, j) \in {"passed", "failed", "conditional"}
               /\ RuleStatus(r, who, j) = "passed" <=> Holds(r, who, j)
    BY DEF RuleStatus
  <2>2. statuses = {} <=> RulesOf(j) = {} OBVIOUS
  <2>3. statuses = {"passed"} <=>
          RulesOf(j) # {} /\ \A r \in RulesOf(j) : Holds(r, who, j)
    BY <2>1
  <2>4. statuses \subseteq {"passed", "failed", "conditional"} BY <2>1
  <2>5. RunCertification(j, who) =
          CASE statuses = {} -> "unsupported"
            [] "failed" \in statuses -> "failed"
            [] "conditional" \in statuses /\ "failed" \notin statuses -> "conditional"
            [] statuses = {"passed"} -> "passed"
    BY DEF RunCertification
  <2> HIDE DEF statuses
  <2>6. RunCertification(j, who) = "passed" <=> statuses = {"passed"} BY <2>4, <2>5
  <2> QED BY <2>3, <2>6
<1> DEFINE results == {RunCertification(j, who) : j \in jurisdictions}
<1>2. results = {"passed"} <=>
        jurisdictions # {} /\ \A j \in jurisdictions : RunCertification(j, who) = "passed"
  OBVIOUS
<1> HIDE DEF results
<1>3. ComplianceVerdict(results) = "passed" <=> results = {"passed"} BY DEF ComplianceVerdict
<1> QED BY <1>1, <1>2, <1>3 DEF results

\* Texts pass as original only when there are some, 80% so on average, and
\* always unless floats may miss it.
LEMMA OriginalOnAverage ==
  ASSUME NEW texts \in Seq(Seq(Int)), NEW verdict \in BatchVerdict(texts)
  PROVE  LET passes == verdict \notin {"high_similarity", "flagged", "needs_review"} IN
           /\ passes => texts # <<>> /\ Reaches(texts, 80)
           /\ texts # <<>> /\ ~MayMiss(texts, 80) => passes
<1> DEFINE sum == TotalScore(texts)
           len == Len(texts)
<1>1. sum \in Int /\ len \in Nat BY SumIsInt
<1>2. /\ Reaches(texts, 80) <=> sum >= 80 * len
      /\ MayMiss(texts, 80) <=> ~(sum >= 80 * len) \/ (sum = 80 * len /\ len > 2)
      /\ MayMiss(texts, 50) <=> ~(sum >= 50 * len) \/ (sum = 50 * len /\ len > 2)
  BY DEF Reaches, MayMiss
<1> HIDE DEF sum, len
<1>3. MayMiss(texts, 50) => MayMiss(texts, 80) BY <1>1, <1>2
<1>4. CASE texts = <<>> BY <1>4 DEF BatchVerdict
<1>5. CASE texts # <<>>
  <2>1. \/ verdict = "original" /\ Reaches(texts, 80)
        \/ verdict = "needs_review" /\ MayMiss(texts, 80)
        \/ verdict = "flagged" /\ MayMiss(texts, 50)
    BY <1>5 DEF BatchVerdict
  <2> QED BY <1>3, <1>5, <2>1
<1> QED BY <1>4, <1>5

\* The grade says whether the score reaches the lowest band.
LEMMA GradeOfFloor ==
  ASSUME NEW score \in Int
  PROVE  score >= Floor <=> ClassifyGrade(score) # "Not Certified"
  BY DEF Floor, ClassifyGrade

(***************************************************************************)
(* An award is what it stands for, for any request: never less, and        *)
(* refused to more only where floats may miss an exact 80% (certify.py,    *)
(* _build_designation, with the engines it calls).                         *)
(***************************************************************************)
THEOREM AwardsAreEarned == CertSpec => []AwardIsEarned
<1> DEFINE Reported == /\ body \in Bodies
                       /\ report # NoReport => /\ report \in BuildDesignation(body)
                                               /\ DOMAIN body.criteria \subseteq Dimensions
<1>1. CertInit => Reported BY DEF CertInit
<1>2. Reported /\ [CertNext]_certVars => Reported' BY DEF CertNext, Designate, certVars
<1>3. ASSUME Reported PROVE AwardIsEarned
  <2> SUFFICES ASSUME report # NoReport
               PROVE  /\ report.award = "awarded" => Deserved
                      /\ Deserved /\ ~MayMiss(body.texts, 80) => report.award = "awarded"
    BY DEF AwardIsEarned
  <2> DEFINE score == WeightedScore(body.criteria)
             compliance == ComplianceVerdict({RunCertification(j, body.profile) :
                                                j \in body.jurisdictions})
  <2>1. score \in Int
    <3>1. score \in Scores BY <1>3, CertAssumption, ScoreFits
    <3> HIDE DEF score
    <3> QED BY <3>1 DEF Scores
  <2>2. body.texts \in Seq(Seq(Int)) BY <1>3, CertAssumption
  <2>3. PICK originality \in BatchVerdict(body.texts) :
          report = Graded(body.criteria, compliance, originality)
    BY <1>3 DEF BuildDesignation
  <2>4. report = [cert |-> <<score, ClassifyGrade(score)>>, score |-> score,
                  grade |-> ClassifyGrade(score),
                  award |-> IF /\ compliance = "passed"
                               /\ originality \notin {"high_similarity", "flagged", "needs_review"}
                               /\ score >= Floor
                            THEN "awarded" ELSE "withheld"]
    BY <2>3 DEF Graded
  <2>5. compliance = "passed" <=>
          /\ body.jurisdictions # {}
          /\ \A j \in body.jurisdictions :
               RulesOf(j) # {} /\ \A r \in RulesOf(j) : Holds(r, body.profile, j)
    BY PassedIsAllHold
  <2> DEFINE passes == originality \notin {"high_similarity", "flagged", "needs_review"}
  <2>6. /\ passes => body.texts # <<>> /\ Reaches(body.texts, 80)
        /\ body.texts # <<>> /\ ~MayMiss(body.texts, 80) => passes
    BY <2>2, OriginalOnAverage
  <2>7. report.award = "awarded" <=> compliance = "passed" /\ passes /\ score >= Floor
    BY <2>4
  <2> HIDE DEF score, compliance, passes
  <2>8. report.grade # "Not Certified" <=> score >= Floor
    BY <2>1, <2>4, GradeOfFloor
  <2> QED BY <2>5, <2>6, <2>7, <2>8 DEF Deserved
<1>4. Reported => AwardIsEarned BY <1>3
<1> QED BY <1>1, <1>2, <1>4, PTL DEF CertSpec

-----------------------------------------------------------------------------
(* The types of designations, with what a median is.                       *)

\* Of finitely many evaluations one has the highest score.
LEMMA HighestIsThere ==
  ASSUME NEW S, IsFiniteSet(S), NEW score, \A x \in S : score[x] \in Int,
         NEW s \in SUBSET S, s # {}
  PROVE  \E m \in s : \A x \in s : score[x] <= score[m]
<1> DEFINE I == {n \in Nat : \A r \in SUBSET S : r # {} /\ Cardinality(r) <= n =>
                   \E m \in r : \A x \in r : score[x] <= score[m]}
<1>1. 0 \in I
  <2>1. \A r \in SUBSET S : r # {} => Cardinality(r) \in Nat /\ Cardinality(r) # 0
    BY Smaller
  <2> QED BY <2>1
<1>2. ASSUME NEW n \in Nat, n \in I PROVE n + 1 \in I
  <2> SUFFICES ASSUME NEW r \in SUBSET S, r # {}, Cardinality(r) <= n + 1
               PROVE  \E m \in r : \A x \in r : score[x] <= score[m]
    OBVIOUS
  <2> DEFINE d == Some(r)
             q == r \ {d}
  <2>1. q \in SUBSET S /\ Cardinality(q) <= n /\ d \in r /\ d \in S BY Smaller DEF Some
  <2>2. r = q \cup {d} BY <2>1
  <2> HIDE DEF d, q
  <2>3. CASE q = {} BY <2>1, <2>2, <2>3
  <2>4. CASE q # {}
    <3>1. PICK m \in q : \A x \in q : score[x] <= score[m] BY <1>2, <2>1, <2>4
    <3>2. score[m] \in Int /\ score[d] \in Int /\ \A x \in q : score[x] \in Int BY <2>1
    <3>3. CASE score[d] <= score[m] BY <2>2, <3>1, <3>2, <3>3
    <3>4. CASE score[m] <= score[d] BY <2>1, <2>2, <3>1, <3>2, <3>4
    <3> QED BY <3>2, <3>3, <3>4
  <2> QED BY <2>3, <2>4
<1>3. Cardinality(s) \in I
  <2> HIDE DEF I
  <2> QED BY <1>1, <1>2, NatInd, FS_Subset, FS_CardinalityType
<1> QED BY <1>3, FS_Subset, FS_CardinalityType

\* So they can be put into order.
LEMMA AscendingIsThere ==
  ASSUME NEW score, IsFiniteSet(DOMAIN score), \A x \in DOMAIN score : score[x] \in Int
  PROVE  Ascending(score) \in [1..Cardinality(DOMAIN score) -> DOMAIN score]
<1> DEFINE S == DOMAIN score
           sorted(q) == \A i, j \in DOMAIN q : i < j => score[q[i]] <= score[q[j]]
           I == {n \in Nat : \A s \in SUBSET S : Cardinality(s) = n =>
                   \E q \in [1..n -> s] : IsInjective(q) /\ sorted(q)}
<1>1. 0 \in I
  <2> SUFFICES ASSUME NEW s \in SUBSET S
               PROVE  \E q \in [1..0 -> s] : IsInjective(q) /\ sorted(q)
    OBVIOUS
  <2> DEFINE q == [i \in 1..0 |-> {}]
  <2>1. q \in [1..0 -> s] OBVIOUS
  <2>2. IsInjective(q) /\ sorted(q) BY DEF IsInjective
  <2> HIDE DEF q
  <2> QED BY <2>1, <2>2
<1>2. ASSUME NEW n \in Nat, n \in I PROVE n + 1 \in I
  <2> SUFFICES ASSUME NEW s \in SUBSET S, Cardinality(s) = n + 1
               PROVE  \E q \in [1..n + 1 -> s] : IsInjective(q) /\ sorted(q)
    OBVIOUS
  <2>1. IsFiniteSet(s) BY FS_Subset
  <2>2. s # {} BY <2>1, FS_EmptySet
  <2>3. PICK m \in s : \A x \in s : score[x] <= score[m] BY <2>2, HighestIsThere
  <2>4. s \ {m} \in SUBSET S /\ Cardinality(s \ {m}) = n
    <3>1. Cardinality(s \ {m}) = Cardinality(s) - 1 BY <2>1, <2>3, FS_RemoveElement
    <3> QED BY <3>1
  <2>5. PICK p \in [1..n -> s \ {m}] : IsInjective(p) /\ sorted(p) BY <1>2, <2>4
  <2> DEFINE q == [i \in 1..n + 1 |-> IF i = n + 1 THEN m ELSE p[i]]
  <2>6. \A i \in 1..n + 1 : i # n + 1 => i \in 1..n OBVIOUS
  <2>7. q \in [1..n + 1 -> s] BY <2>6
  <2>8. DOMAIN q = 1..n + 1 /\ DOMAIN p = 1..n /\ q[n + 1] = m
        /\ \A i \in 1..n : q[i] = p[i] /\ p[i] \in s \ {m}
    OBVIOUS
  <2> HIDE DEF q
  <2>9. IsInjective(q)
    <3>1. ASSUME NEW i \in 1..n + 1, NEW j \in 1..n + 1, q[i] = q[j] PROVE i = j
      BY <2>5, <2>6, <2>8, <3>1 DEF IsInjective
    <3> QED BY <2>8, <3>1 DEF IsInjective
  <2>10. sorted(q)
    <3> SUFFICES ASSUME NEW i \in 1..n + 1, NEW j \in 1..n + 1, i < j
                 PROVE  score[q[i]] <= score[q[j]]
      BY <2>8
    <3>1. i \in 1..n OBVIOUS
    <3>2. CASE j = n + 1 BY <2>3, <2>8, <3>1, <3>2
    <3>3. CASE j \in 1..n BY <2>5, <2>8, <3>1, <3>3
    <3> QED BY <3>2, <3>3
  <2> QED BY <2>7, <2>9, <2>10
<1>3. Cardinality(S) \in I
  <2> HIDE DEF I
  <2> QED BY <1>1, <1>2, NatInd, FS_CardinalityType
<1>4. \E q \in [1..Cardinality(S) -> S] : IsInjective(q) /\ sorted(q)
  BY <1>3
<1> QED BY <1>4 DEF Ascending

LEMMA MedianIsInt ==
  ASSUME NEW score, IsFiniteSet(DOMAIN score), DOMAIN score # {},
         \A x \in DOMAIN score : score[x] \in Int
  PROVE  Median(score) \in Int
<1> DEFINE n == Cardinality(DOMAIN score)
           q == Ascending(score)
<1>1. n \in Nat /\ n # 0 BY FS_CardinalityType, FS_EmptySet
<1>2. q \in [1..n -> DOMAIN score] BY AscendingIsThere
<1> HIDE DEF q, n
<1>3. Len(q) = n BY <1>1, <1>2
<1>4. (n + 1) \div 2 \in 1..n /\ n \div 2 + 1 \in 1..n BY <1>1
<1>5. score[q[(n + 1) \div 2]] \in Int /\ score[q[n \div 2 + 1]] \in Int BY <1>2, <1>4
<1>6. Median(score) = (score[q[(n + 1) \div 2]] + score[q[n \div 2 + 1]]) \div 2
  BY <1>3 DEF Median, q
<1>7. \A a, b \in Int : (a + b) \div 2 \in Int OBVIOUS
<1> QED BY <1>5, <1>6, <1>7

\* Medians of scores are scores again.
LEMMA BreakdownFits ==
  ASSUME NEW sheets, IsFiniteSet(DOMAIN sheets), \A n \in DOMAIN sheets : sheets[n] \in Sheets
  PROVE  /\ DOMAIN RubricBreakdown(sheets) \subseteq Dimensions
         /\ \A d \in DOMAIN RubricBreakdown(sheets) : RubricBreakdown(sheets)[d] \in Int
<1> DEFINE scored(d) == {n \in DOMAIN sheets : d \in DOMAIN sheets[n]}
           points(d) == [n \in scored(d) |-> sheets[n][d]]
           D == {e \in Dimensions : scored(e) # {}}
<1>1. RubricBreakdown(sheets) = [d \in D |-> Median(points(d))] BY DEF RubricBreakdown
<1>2. ASSUME NEW d \in D PROVE Median(points(d)) \in Int
  <2>1. DOMAIN points(d) = scored(d) /\ scored(d) # {} OBVIOUS
  <2>2. IsFiniteSet(scored(d)) BY FS_Subset
  <2>3. \A n \in scored(d) : points(d)[n] \in Int BY DesAssumption
  <2> HIDE DEF points, scored
  <2> QED BY <2>1, <2>2, <2>3, MedianIsInt
<1> HIDE DEF points
<1> QED BY <1>1, <1>2

LEMMA GradedFits ==
  ASSUME NEW criteria, DOMAIN criteria \subseteq Dimensions,
         \A d \in DOMAIN criteria : criteria[d] \in Int, NEW compliance, NEW originality
  PROVE  Graded(criteria, compliance, originality) \in Records
<1> DEFINE score == WeightedScore(criteria)
           grade == ClassifyGrade(score)
<1>1. score \in Scores BY ScoreFits
<1>2. grade \in Grades BY DEF ClassifyGrade, Grades
<1>3. PICK award \in {"awarded", "withheld"} : Graded(criteria, compliance, originality) =
        [cert |-> <<score, grade>>, score |-> score, grade |-> grade, award |-> award]
  BY DEF Graded
<1> HIDE DEF score, grade
<1>4. <<score, grade>> \in Scores \X Grades BY <1>1, <1>2
<1>5. [cert |-> <<score, grade>>, score |-> score, grade |-> grade, award |-> award] \in Records
  BY <1>1, <1>2, <1>4, Zenon DEF Records
<1> QED BY <1>3, <1>5

\* A designation in flight carries a certificate, and none of its columns is said to
\* differ before the row was looked for.
Flight(k) == k.new \in Records /\ k.on \subseteq RowIds /\ (k.at = "graded" => k.set = <<>>)

DesTyped ==
  /\ profile \in [Evaluators -> {"none", "pending", "approved"}]
  /\ ballot \in Seq((Evaluators \ {Founder}) \X Sheets)
  /\ \A m, n \in DOMAIN ballot : ballot[m][1] = ballot[n][1] => m = n
  /\ vote \in [VoteCalls -> {NoVote} \cup (Evaluators \ {Founder}) \X Sheets]
  /\ \A r \in RowIds : row[r] \in Records \cup {NoRecord}
  /\ \A d \in DesCalls : des[d] # NoDes => Flight(des[d])

LEMMA VotesKeep ==
  ASSUME DesTyped, NEW v \in VoteCalls, InsertVote(v) \/ \E e \in Evaluators : CheckVote(v, e)
  PROVE  DesTyped'
<1> USE DEF DesTyped
<1>1. ASSUME NEW e \in Evaluators, CheckVote(v, e) PROVE DesTyped'
  <2>1. vote' \in [VoteCalls -> {NoVote} \cup (Evaluators \ {Founder}) \X Sheets]
    BY <1>1 DEF CheckVote
  <2> QED BY <1>1, <2>1 DEF CheckVote
<1>2. ASSUME InsertVote(v) PROVE DesTyped'
  <2> DEFINE Ballots == (Evaluators \ {Founder}) \X Sheets
  <2>1. vote[v] \in Ballots /\ vote' \in [VoteCalls -> {NoVote} \cup Ballots]
    BY <1>2 DEF InsertVote
  <2>2. CASE ballot' = ballot BY <1>2, <2>1, <2>2 DEF InsertVote
  <2>3. CASE ballot' = Append(ballot, vote[v]) /\ vote[v][1] \notin Voters
    <3>1. \A n \in DOMAIN ballot : ballot[n][1] # vote[v][1] BY <2>3 DEF Voters
    <3> HIDE DEF Ballots
    <3>2. ballot' \in Seq(Ballots) BY <2>1, <2>3 DEF Ballots
    <3>3. /\ Len(ballot) \in Nat /\ DOMAIN ballot = 1..Len(ballot)
          /\ DOMAIN ballot' = 1..Len(ballot) + 1 /\ ballot'[Len(ballot) + 1] = vote[v]
          /\ \A n \in 1..Len(ballot) : ballot'[n] = ballot[n]
      BY <2>1, <2>3 DEF Ballots
    <3>4. \A m, n \in DOMAIN ballot' : ballot'[m][1] = ballot'[n][1] => m = n
      BY <3>1, <3>3
    <3> QED BY <1>2, <2>1, <3>2, <3>4 DEF InsertVote, Ballots
  <2> QED BY <1>2, <2>2, <2>3 DEF InsertVote
<1> QED BY <1>1, <1>2

\* Rows that are certificates, and designations that stay, come too late or are new.
LEMMA FlightsStay ==
  ASSUME DesTyped, DesInv, UNCHANGED <<profile, ballot, vote>>,
         \A r \in RowIds : row'[r] \in Records \cup {NoRecord},
         \A d \in DesCalls : \/ des'[d] = NoDes \/ des'[d] = des[d] \/ Flight(des'[d])
                             \/ des[d] # NoDes /\ des'[d] = [des[d] EXCEPT !.late = TRUE]
  PROVE  DesTyped'
<1>1. ASSUME NEW d \in DesCalls, des'[d] # NoDes PROVE Flight(des'[d])
  <2>1. CASE Flight(des'[d]) BY <2>1
  <2>2. CASE des'[d] = des[d] BY <1>1, <2>2 DEF DesTyped
  <2>3. CASE des[d] # NoDes /\ des'[d] = [des[d] EXCEPT !.late = TRUE]
    <3> DEFINE k == des[d]
    <3>1. Flight(k) /\ k = [at |-> k.at, new |-> k.new, on |-> k.on, set |-> k.set, late |-> k.late]
      BY <2>3 DEF DesTyped, DesInv, InFlightDes
    <3> HIDE DEF k
    <3>2. des'[d] = [k EXCEPT !.late = TRUE] BY <2>3 DEF k
    <3> QED BY <3>1, <3>2 DEF Flight
  <2> QED BY <1>1, <2>1, <2>2, <2>3
<1> QED BY <1>1 DEF DesTyped

LEMMA GradeIsTyped ==
  ASSUME DesTyped, DesInv, NEW d \in DesCalls, CertifyIdea(d) \/ DesignateDirectly(d)
  PROVE  DesTyped'
<1>1. ASSUME NEW result \in Records, Grade(d, result) PROVE DesTyped'
  <2> DEFINE k == [at |-> "graded", new |-> result, on |-> {}, set |-> <<>>, late |-> FALSE]
  <2>1. des' = [des EXCEPT ![d] = k] /\ UNCHANGED <<profile, ballot, vote, row>>
    BY <1>1 DEF Grade
  <2>2. Flight(k) BY <1>1 DEF Flight
  <2> HIDE DEF k
  <2>3. \A c \in DesCalls : des'[c] = IF c = d THEN k ELSE des[c] BY <2>1 DEF DesInv
  <2>4. \A r \in RowIds : row'[r] \in Records \cup {NoRecord} BY <2>1 DEF DesTyped
  <2> QED BY <2>1, <2>2, <2>3, <2>4, FlightsStay
<1>2. CASE CertifyIdea(d)
  <2> DEFINE sheets == [n \in DOMAIN ballot |-> ballot[n][2]]
             b == [criteria |-> RubricBreakdown(sheets), jurisdictions |-> {}, texts |-> <<>>]
  <2>1. PICK result \in BuildDesignation(b) : Grade(d, result) BY <1>2 DEF CertifyIdea
  <2>2. IsFiniteSet(DOMAIN ballot) /\ \A n \in DOMAIN ballot : ballot[n][2] \in Sheets
    <3>1. /\ Len(ballot) \in Nat /\ DOMAIN ballot = 1..Len(ballot)
          /\ \A n \in DOMAIN ballot : ballot[n] \in (Evaluators \ {Founder}) \X Sheets
      BY DEF DesTyped
    <3>2. \A n \in DOMAIN ballot : ballot[n][2] \in Sheets BY <3>1
    <3>3. IsFiniteSet(1..Len(ballot)) BY <3>1, FS_Interval
    <3> QED BY <3>1, <3>2, <3>3
  <2>3. DOMAIN sheets = DOMAIN ballot /\ \A n \in DOMAIN sheets : sheets[n] \in Sheets
    BY <2>2
  <2> HIDE DEF sheets
  <2>4. /\ DOMAIN RubricBreakdown(sheets) \subseteq Dimensions
        /\ \A x \in DOMAIN RubricBreakdown(sheets) : RubricBreakdown(sheets)[x] \in Int
    BY <2>2, <2>3, BreakdownFits
  <2>5. BuildDesignation(b) \subseteq Records BY <2>4, GradedFits DEF BuildDesignation
  <2> QED BY <1>1, <2>1, <2>5
<1>3. CASE DesignateDirectly(d)
  <2>1. PICK b \in Decks : /\ DOMAIN b.criteria \subseteq Dimensions
                           /\ \E result \in BuildDesignation(b) : Grade(d, result)
    BY <1>3 DEF DesignateDirectly
  <2>2. BuildDesignation(b) \subseteq Records BY <2>1, DesAssumption, GradedFits DEF BuildDesignation
  <2> QED BY <1>1, <2>1, <2>2
<1> QED BY <1>2, <1>3

LEMMA FindIsTyped ==
  ASSUME DesTyped, DesInv, NEW d \in DesCalls, FindRow(d)
  PROVE  DesTyped'
<1> DEFINE k == des[d]
           set == IF Present = {} THEN k.new
                  ELSE ChangedColumns(row[CHOOSE r \in Present : TRUE], k.new)
           l == [k EXCEPT !.at = "loaded", !.on = Present, !.set = set]
<1>1. /\ k # NoDes /\ Flight(k) 
      /\ k = [at |-> k.at, new |-> k.new, on |-> k.on, set |-> k.set, late |-> k.late]
  BY DEF FindRow, DesTyped, DesInv, InFlightDes
<1>2. des' = [des EXCEPT ![d] = NoDes] \/ des' = [des EXCEPT ![d] = l]
  BY DEF FindRow
<1>3. UNCHANGED <<profile, ballot, vote, row>> BY DEF FindRow
<1> HIDE DEF set
<1>4. l.at = "loaded" /\ l.new = k.new /\ l.on = Present BY <1>1
<1> HIDE DEF l, k
<1>5. Flight(l) BY <1>1, <1>4 DEF Flight, Present
<1>6. \A c \in DesCalls : des'[c] = NoDes \/ des'[c] = des[c] \/ des'[c] = l
  BY <1>2 DEF DesInv
<1>7. \A r \in RowIds : row'[r] \in Records \cup {NoRecord} BY <1>3 DEF DesTyped
<1> QED BY <1>3, <1>5, <1>6, <1>7, FlightsStay

\* A row that takes some columns of a certificate.
LEMMA MixedFits ==
  ASSUME NEW old \in Records, NEW new \in Records, NEW D
  PROVE  [f \in Columns |-> IF f \in D THEN new[f] ELSE old[f]] \in Records
<1> DEFINE x == [f \in Columns |-> IF f \in D THEN new[f] ELSE old[f]]
<1>1. /\ old["cert"] \in Scores \X Grades /\ new["cert"] \in Scores \X Grades
      /\ old["score"] \in Scores /\ new["score"] \in Scores
      /\ old["grade"] \in Grades /\ new["grade"] \in Grades
      /\ old["award"] \in {"awarded", "withheld"} /\ new["award"] \in {"awarded", "withheld"}
  BY DEF Records
<1>2. x = [cert |-> x["cert"], score |-> x["score"], grade |-> x["grade"], award |-> x["award"]]
  BY DEF Columns
<1>3. \A f \in Columns : x[f] = new[f] \/ x[f] = old[f] OBVIOUS
<1> HIDE DEF x
<1>4. /\ x["cert"] \in Scores \X Grades /\ x["score"] \in Scores /\ x["grade"] \in Grades
      /\ x["award"] \in {"awarded", "withheld"}
  <2>1. {"cert", "score", "grade", "award"} \subseteq Columns BY DEF Columns
  <2>2. x["cert"] \in Scores \X Grades BY <1>1, <1>3, <2>1
  <2>3. x["score"] \in Scores BY <1>1, <1>3, <2>1
  <2>4. x["grade"] \in Grades BY <1>1, <1>3, <2>1
  <2>5. x["award"] \in {"awarded", "withheld"} BY <1>1, <1>3, <2>1
  <2> QED BY <2>2, <2>3, <2>4, <2>5
<1>5. x \in Records BY <1>2, <1>4, Zenon DEF Records
<1> QED BY <1>5 DEF x

LEMMA WriteIsTyped ==
  ASSUME DesTyped, DesInv, NEW d \in DesCalls, WriteRow(d)
  PROVE  DesTyped'
<1> DEFINE k == des[d]
           set == k.set
<1>1. k # NoDes /\ k.at = "loaded" /\ Flight(k) /\ InFlightDes(k)
  BY DEF WriteRow, DesTyped, DesInv
<1>2. UNCHANGED <<profile, ballot, vote>> BY DEF WriteRow
<1>3. \A e \in DesCalls : \/ des'[e] = NoDes \/ des'[e] = des[e]
                          \/ des[e] # NoDes /\ des'[e] = [des[e] EXCEPT !.late = TRUE]
  BY DEF WriteRow
<1>4. \/ UNCHANGED row
      \/ k.on = {} /\ \E r \in RowIds \ Present : row' = [row EXCEPT ![r] = set]
      \/ k.on # {} /\ row' = [r \in RowIds |-> IF r \notin k.on THEN row[r]
                        ELSE [f \in Columns |-> IF f \in DOMAIN set THEN set[f] ELSE row[r][f]]]
  BY DEF WriteRow
<1> HIDE DEF k
<1>5. \A r \in RowIds : row'[r] \in Records \cup {NoRecord}
  <2>1. CASE UNCHANGED row BY <2>1 DEF DesTyped
  <2>2. CASE k.on = {} /\ \E r \in RowIds \ Present : row' = [row EXCEPT ![r] = set]
    <3>1. set \in Records BY <1>1, <2>2 DEF Flight, InFlightDes
    <3> HIDE DEF set
    <3> QED BY <2>2, <3>1 DEF DesTyped, DesInv
  <2>3. CASE k.on # {} /\ row' = [r \in RowIds |-> IF r \notin k.on THEN row[r]
                        ELSE [f \in Columns |-> IF f \in DOMAIN set THEN set[f] ELSE row[r][f]]]
    <3> SUFFICES ASSUME NEW r \in RowIds PROVE row'[r] \in Records \cup {NoRecord}
      OBVIOUS
    <3>1. CASE r \notin k.on BY <2>3, <3>1 DEF DesTyped
    <3>2. CASE r \in k.on
      <4>1. row[r] \in Records BY <1>1, <2>3, <3>2 DEF InFlightDes, Present, DesTyped
      <4>2. k.new \in Records /\ \A f \in DOMAIN set : set[f] = k.new[f]
        BY <1>1, <2>3 DEF Flight, InFlightDes
      <4>3. row'[r] = [f \in Columns |-> IF f \in DOMAIN set THEN k.new[f] ELSE row[r][f]]
        BY <2>3, <3>2, <4>2
      <4> HIDE DEF set
      <4> DEFINE old == row[r]
                 new == k.new
                 D == DOMAIN set
      <4>4. old \in Records /\ new \in Records
            /\ row'[r] = [f \in Columns |-> IF f \in D THEN new[f] ELSE old[f]]
        BY <4>1, <4>2, <4>3
      <4> HIDE DEF old, new, D
      <4>5. row'[r] \in Records BY <4>4, MixedFits
      <4> QED BY <4>5
    <3> QED BY <3>1, <3>2
  <2> QED BY <1>4, <2>1, <2>2, <2>3
<1> QED BY <1>2, <1>3, <1>5, FlightsStay

(***************************************************************************)
(* Profiles, votes, rows and designations in flight keep their types: one  *)
(* vote per evaluator and none of the founder (evaluations.py), and scores *)
(* within the scale, whatever medians and weights make of the votes        *)
(* (scoring.py, pitch_deck.py).                                            *)
(***************************************************************************)
THEOREM DesignationTypes == DesSpec => []DesTypeOK
<1>1. DesInit => DesTyped
  BY DEF DesInit, DesTyped, Flight
<1>2. DesTyped /\ DesInv /\ [DesNext]_desVars => DesTyped'
  <2> SUFFICES ASSUME DesTyped, DesInv, [DesNext]_desVars PROVE DesTyped'
    OBVIOUS
  <2>1. ASSUME NEW e \in Evaluators, RegisterEvaluator(e) \/ ApproveEvaluator(e) PROVE DesTyped'
    BY <2>1 DEF RegisterEvaluator, ApproveEvaluator, DesTyped
  <2>2. ASSUME NEW v \in VoteCalls, InsertVote(v) \/ \E e \in Evaluators : CheckVote(v, e)
        PROVE  DesTyped'
    BY <2>2, VotesKeep
  <2>3. ASSUME NEW d \in DesCalls, AbortDes(d) PROVE DesTyped'
    <3>1. UNCHANGED <<profile, ballot, vote, row>> /\ des' = [des EXCEPT ![d] = NoDes]
      BY <2>3 DEF AbortDes
    <3>2. \A c \in DesCalls : des'[c] = NoDes \/ des'[c] = des[c] BY <3>1 DEF DesInv
    <3>3. \A r \in RowIds : row'[r] \in Records \cup {NoRecord} BY <3>1 DEF DesTyped
    <3> QED BY <3>1, <3>2, <3>3, FlightsStay
  <2>4. CASE UNCHANGED desVars BY <2>4 DEF desVars, DesTyped
  <2> QED BY <2>1, <2>2, <2>3, <2>4, GradeIsTyped, FindIsTyped, WriteIsTyped DEF DesNext
<1>3. DesTyped /\ DesInv => DesTypeOK
  <2> SUFFICES ASSUME DesTyped, DesInv PROVE DesTypeOK
    OBVIOUS
  <2>1. \A n \in DOMAIN ballot : ballot[n] \in (Evaluators \ {Founder}) \X Sheets
    BY DEF DesTyped
  <2>2. \A v \in VoteCalls : vote[v] = NoVote \/ vote[v] \in Evaluators \X Sheets
    BY DEF DesTyped
  <2>3. ASSUME NEW d \in DesCalls, des[d] # NoDes
        PROVE  /\ des[d].at \in {"graded", "loaded"} /\ des[d].new \in Records
               /\ des[d].on \subseteq RowIds /\ DOMAIN des[d].set \subseteq Columns
               /\ des[d].late \in BOOLEAN
    <3> DEFINE k == des[d]
    <3>1. Flight(k) /\ InFlightDes(k) BY <2>3 DEF DesTyped, DesInv
    <3> HIDE DEF k
    <3>2. DOMAIN k.new = Columns BY <3>1 DEF InFlightDes, Digested
    <3>3. DOMAIN k.set \subseteq Columns
      <4>1. CASE k.at = "graded" BY <3>1, <4>1 DEF Flight
      <4>2. CASE k.at = "loaded" BY <3>1, <3>2, <4>2 DEF InFlightDes
      <4> QED BY <3>1, <4>1, <4>2 DEF InFlightDes
    <3>4. /\ k.at \in {"graded", "loaded"} /\ k.new \in Records /\ k.on \subseteq RowIds
          /\ k.late \in BOOLEAN
      BY <3>1 DEF Flight, InFlightDes
    <3> QED BY <3>3, <3>4 DEF k
  <2> QED BY <2>1, <2>2, <2>3 DEF DesTyped, DesTypeOK
<1> QED BY <1>1, <1>2, <1>3, DesInvAlways, PTL DEF DesSpec

-----------------------------------------------------------------------------
(* The files of a workspace.                                               *)

FileRows == [text : Seq(Words), end : {"lf", "crlf", "none"}]

LEMMA LinesMeans ==
  ASSUME NEW c
  PROVE  Lines(c) <=> /\ c \in Seq(FileRows)
                      /\ \A n \in 1..Len(c) : c[n].end = "none" => n = Len(c)
<1>1. c \in Seq(FileRows) => DOMAIN c = 1..Len(c) OBVIOUS
<1> QED BY <1>1, Zenon DEF Lines, FileRows

LEMMA Joined ==
  ASSUME NEW S, NEW s \in Seq(S), NEW t \in Seq(S)
  PROVE  /\ s \o t \in Seq(S) /\ Len(s \o t) = Len(s) + Len(t)
         /\ \A n \in 1..Len(s) : (s \o t)[n] = s[n]
         /\ \A n \in 1..Len(t) : (s \o t)[Len(s) + n] = t[n]
<1>1. s \o t \in Seq(S) /\ Len(s \o t) = Len(s) + Len(t) OBVIOUS
<1>2. \A n \in 1..Len(s) : (s \o t)[n] = s[n] OBVIOUS
<1>3. ASSUME NEW n \in 1..Len(t) PROVE (s \o t)[Len(s) + n] = t[n]
  <2>1. Len(s) \in Nat /\ Len(t) \in Nat OBVIOUS
  <2>2. Len(s) + n \in 1..(Len(s) + Len(t)) /\ Len(s) + n > Len(s) /\ Len(s) + n - Len(s) = n
    BY <2>1
  <2> QED BY <2>2
<1> QED BY <1>1, <1>2, <1>3

LEMMA SubOf ==
  ASSUME NEW S, NEW s \in Seq(S), NEW m \in 1..(Len(s) + 1), NEW n \in (m - 1)..Len(s)
  PROVE  /\ SubSeq(s, m, n) \in Seq(S) /\ Len(SubSeq(s, m, n)) = n - m + 1
         /\ \A i \in 1..(n - m + 1) : SubSeq(s, m, n)[i] = s[m + i - 1]
<1>1. Len(s) \in Nat /\ m \in Int /\ n \in Int OBVIOUS
<1>2. \A i \in m..n : s[i] \in S BY <1>1
<1>3. /\ SubSeq(s, m, n) \in Seq(S)
      /\ Len(SubSeq(s, m, n)) = IF m <= n THEN n - m + 1 ELSE 0
      /\ \A i \in 1..(n - m + 1) : SubSeq(s, m, n)[i] = s[m + i - 1]
  <2>1. SubSeq(s, m, n) \in Seq(S)
    BY <1>1, <1>2, SubSeqProperties
  <2>2. Len(SubSeq(s, m, n)) = IF m <= n THEN n - m + 1 ELSE 0
    BY <1>1, <1>2
  <2>3. ASSUME NEW i \in 1..(n - m + 1) PROVE SubSeq(s, m, n)[i] = s[m + i - 1]
    BY <1>1, <1>2
  <2> QED BY <2>1, <2>2, <2>3
<1>4. (IF m <= n THEN n - m + 1 ELSE 0) = n - m + 1 BY <1>1
<1> QED BY <1>3, <1>4, Zenon

LEMMA FrontOf ==
  ASSUME NEW S, NEW s \in Seq(S), s # <<>>
  PROVE  /\ Len(s) \in Nat \ {0} /\ Len(s) - 1 \in Nat /\ Last(s) = s[Len(s)] /\ Last(s) \in S
         /\ Front(s) \in Seq(S) /\ Len(Front(s)) = Len(s) - 1
         /\ \A n \in 1..(Len(s) - 1) : Front(s)[n] = s[n]
<1>1. Len(s) \in Nat \ {0} /\ Len(s) - 1 \in Nat /\ Last(s) = s[Len(s)] /\ Last(s) \in S
  BY DEF Last
<1> DEFINE k == Len(s) - 1
<1>2. 1 \in 1..(Len(s) + 1) /\ k \in (1 - 1)..Len(s) /\ k - 1 + 1 = Len(s) - 1 BY <1>1
<1> HIDE DEF k
<1>3. /\ SubSeq(s, 1, k) \in Seq(S) /\ Len(SubSeq(s, 1, k)) = k - 1 + 1
      /\ \A i \in 1..(k - 1 + 1) : SubSeq(s, 1, k)[i] = s[1 + i - 1]
  BY <1>2, SubOf, Zenon
<1>4. \A i \in 1..(Len(s) - 1) : 1 + i - 1 = i BY <1>1
<1> QED BY <1>1, <1>2, <1>3, <1>4, Zenon DEF Front, k

LEMMA TailOf ==
  ASSUME NEW S, NEW s \in Seq(S), s # <<>>
  PROVE  /\ Len(s) \in Nat \ {0} /\ Len(s) - 1 \in Nat /\ Head(s) = s[1] /\ s[1] \in S
         /\ Tail(s) \in Seq(S) /\ Len(Tail(s)) = Len(s) - 1
         /\ \A n \in 1..(Len(s) - 1) : Tail(s)[n] = s[n + 1]
  OBVIOUS

\* What the lines before, in and after a range make together.
LEMMA ConcatLines ==
  ASSUME NEW a, NEW b, Lines(a), Lines(b), a = <<>> \/ b = <<>> \/ EndsLine(a)
  PROVE  Concat(a, b) = a \o b /\ Lines(a \o b)
<1>1. /\ a \in Seq(FileRows) /\ b \in Seq(FileRows)
      /\ \A n \in 1..Len(a) : a[n].end = "none" => n = Len(a)
      /\ \A n \in 1..Len(b) : b[n].end = "none" => n = Len(b)
  BY LinesMeans, Zenon
<1>2. Concat(a, b) = a \o b BY Zenon DEF Concat, EndsLine
<1>3. PICK la \in Nat, lb \in Nat : la = Len(a) /\ lb = Len(b) BY <1>1
<1>4. /\ a \o b \in Seq(FileRows) /\ Len(a \o b) = la + lb
      /\ \A n \in 1..la : (a \o b)[n] = a[n]
      /\ \A n \in 1..lb : (a \o b)[la + n] = b[n]
  <2>1. /\ a \o b \in Seq(FileRows) /\ Len(a \o b) = Len(a) + Len(b)
        /\ \A n \in 1..Len(a) : (a \o b)[n] = a[n]
        /\ \A n \in 1..Len(b) : (a \o b)[Len(a) + n] = b[n]
    BY <1>1, Joined
  <2> QED BY <1>3, <2>1, Zenon
<1>5. lb = 0 \/ la = 0 \/ a[la].end # "none"
  <2>1. a = <<>> => la = 0 BY <1>3
  <2>2. b = <<>> => lb = 0 BY <1>3
  <2> QED BY <1>3, <2>1, <2>2, Zenon DEF EndsLine, Last
<1>6. ASSUME NEW n \in 1..(la + lb), (a \o b)[n].end = "none" PROVE n = la + lb
  <2>1. CASE n <= la
    <3>1. n \in 1..la BY <1>3, <2>1
    <3>2. n = la BY <1>1, <1>3, <1>4, <1>6, <3>1, Zenon
    <3>3. a[la].end = "none" BY <1>4, <1>6, <3>1, <3>2, Zenon
    <3> QED BY <1>3, <1>5, <3>1, <3>2, <3>3
  <2>2. CASE n > la
    <3>1. n - la \in 1..lb /\ la + (n - la) = n BY <1>3, <2>2
    <3>2. n - la = lb BY <1>1, <1>3, <1>4, <1>6, <3>1, Zenon
    <3> QED BY <1>3, <3>1, <3>2
  <2> QED BY <1>3, <2>1, <2>2
<1>7. Lines(a \o b) BY <1>4, <1>6, LinesMeans, Zenon
<1> QED BY <1>2, <1>7

LEMMA MergedLines ==
  ASSUME NEW a, NEW b, Lines(a), Lines(b), a # <<>>, b # <<>>, ~EndsLine(a)
  PROVE  Lines(Concat(a, b))
<1>1. /\ a \in Seq(FileRows) /\ b \in Seq(FileRows)
      /\ \A n \in 1..Len(a) : a[n].end = "none" => n = Len(a)
      /\ \A n \in 1..Len(b) : b[n].end = "none" => n = Len(b)
  BY LinesMeans, Zenon
<1> DEFINE m == [text |-> Last(a).text \o Head(b).text, end |-> Head(b).end]
           c == Front(a) \o <<m>> \o Tail(b)
<1>2. Concat(a, b) = c BY Zenon DEF Concat, EndsLine
<1>3. m \in FileRows /\ m.end = b[1].end
  <2>1. Last(a) \in FileRows /\ Head(b) \in FileRows /\ Head(b) = b[1] BY <1>1, FrontOf, TailOf
  <2>2. Last(a).text \o Head(b).text \in Seq(Words) /\ Head(b).end \in {"lf", "crlf", "none"}
    BY <2>1 DEF FileRows
  <2> QED BY <2>1, <2>2 DEF FileRows
<1> HIDE DEF m
<1>4. PICK ka \in Nat, kb \in Nat :
        /\ Len(a) = ka + 1 /\ Len(b) = kb + 1
        /\ Front(a) \in Seq(FileRows) /\ Len(Front(a)) = ka /\ \A n \in 1..ka : Front(a)[n] = a[n]
        /\ Tail(b) \in Seq(FileRows) /\ Len(Tail(b)) = kb /\ \A n \in 1..kb : Tail(b)[n] = b[n + 1]
  <2>1. /\ Len(a) - 1 \in Nat /\ Len(b) - 1 \in Nat /\ Len(a) = Len(a) - 1 + 1 /\ Len(b) = Len(b) - 1 + 1
    BY <1>1, FrontOf, TailOf
  <2>2. /\ Front(a) \in Seq(FileRows) /\ Len(Front(a)) = Len(a) - 1
        /\ \A n \in 1..(Len(a) - 1) : Front(a)[n] = a[n]
    BY <1>1, FrontOf, Zenon
  <2>3. /\ Tail(b) \in Seq(FileRows) /\ Len(Tail(b)) = Len(b) - 1
        /\ \A n \in 1..(Len(b) - 1) : Tail(b)[n] = b[n + 1]
    BY <1>1, TailOf, Zenon
  <2> QED BY <2>1, <2>2, <2>3, Zenon
<1> DEFINE h == Front(a) \o <<m>>
<1>5. /\ <<m>> \in Seq(FileRows) /\ Len(<<m>>) = 1 /\ <<m>>[1] = m BY <1>3
<1>6. /\ h \in Seq(FileRows) /\ Len(h) = ka + 1
      /\ \A n \in 1..ka : h[n] = a[n]
      /\ h[ka + 1] = m
  <2>1. /\ h \in Seq(FileRows) /\ Len(h) = Len(Front(a)) + Len(<<m>>)
        /\ \A n \in 1..Len(Front(a)) : h[n] = Front(a)[n]
        /\ \A n \in 1..Len(<<m>>) : h[Len(Front(a)) + n] = <<m>>[n]
    BY <1>4, <1>5, Joined
  <2>2. 1 \in 1..1 OBVIOUS
  <2> HIDE DEF h
  <2> QED BY <1>4, <1>5, <2>1, <2>2, Zenon
<1> HIDE DEF h
<1>7. /\ c \in Seq(FileRows) /\ Len(c) = ka + 1 + kb
      /\ \A n \in 1..(ka + 1) : c[n] = h[n]
      /\ \A n \in 1..kb : c[ka + 1 + n] = b[n + 1]
  <2>1. c = h \o Tail(b) BY DEF h
  <2> DEFINE t == Tail(b)
  <2> HIDE DEF t
  <2>3. /\ h \o t \in Seq(FileRows) /\ Len(h \o t) = Len(h) + Len(t)
        /\ \A n \in 1..Len(h) : (h \o t)[n] = h[n]
        /\ \A n \in 1..Len(t) : (h \o t)[Len(h) + n] = t[n]
    <3>1. h \in Seq(FileRows) /\ t \in Seq(FileRows) BY <1>4, <1>6 DEF t
    <3> QED BY <3>1, Joined
  <2> HIDE DEF c
  <2>2. /\ c \in Seq(FileRows) /\ Len(c) = Len(h) + Len(Tail(b))
        /\ \A n \in 1..Len(h) : c[n] = h[n]
        /\ \A n \in 1..Len(Tail(b)) : c[Len(h) + n] = Tail(b)[n]
    BY <2>1, <2>3, Zenon DEF t
  <2> QED BY <1>4, <1>6, <2>2, Zenon
<1> HIDE DEF c
<1>8. ASSUME NEW n \in 1..(ka + 1 + kb), c[n].end = "none" PROVE n = ka + 1 + kb
  <2>1. CASE n <= ka
    <3>1. n \in 1..ka /\ n \in 1..(ka + 1) /\ n # ka + 1 BY <1>4, <2>1
    <3>2. c[n] = a[n] BY <1>6, <1>7, <3>1, Zenon
    <3> QED BY <1>1, <1>4, <1>8, <3>1, <3>2, Zenon
  <2>2. CASE n = ka + 1
    <3>1. n \in 1..(ka + 1) /\ 1 \in 1..(kb + 1) BY <1>4, <2>2
    <3>2. c[n].end = b[1].end BY <1>3, <1>6, <1>7, <2>2, <3>1, Zenon
    <3>3. kb + 1 = 1 BY <1>1, <1>4, <1>8, <3>1, <3>2, Zenon
    <3> QED BY <1>4, <2>2, <3>3
  <2>3. CASE n > ka + 1
    <3>1. /\ n - (ka + 1) \in 1..kb /\ ka + 1 + (n - (ka + 1)) = n
          /\ n - (ka + 1) + 1 \in 1..(kb + 1)
      BY <1>4, <2>3
    <3>2. c[n] = b[n - (ka + 1) + 1] BY <1>7, <3>1, Zenon
    <3>3. n - (ka + 1) + 1 = kb + 1 BY <1>1, <1>4, <1>8, <3>1, <3>2, Zenon
    <3> QED BY <1>4, <3>1, <3>3
  <2> QED BY <1>4, <2>1, <2>2, <2>3
<1>9. Lines(c) BY <1>7, <1>8, LinesMeans, Zenon
<1> QED BY <1>2, <1>9, Zenon

LEMMA FittedLines ==
  ASSUME NEW r, Lines(r), NEW slice, NEW follows
  PROVE  /\ Lines(Fitted(r, slice, follows))
         /\ follows => Fitted(r, slice, follows) = <<>> \/ EndsLine(Fitted(r, slice, follows))
<1>1. CASE r = <<>> \/ EndsLine(r) \/ ~(follows \/ EndsLine(slice))
  <2>1. Fitted(r, slice, follows) = r BY <1>1, Zenon DEF Fitted
  <2> QED BY <1>1, <2>1, Zenon
<1>2. CASE ~(r = <<>> \/ EndsLine(r) \/ ~(follows \/ EndsLine(slice)))
  <2> DEFINE m == [Last(r) EXCEPT !.end = "lf"]
             u == Front(r) \o <<m>>
  <2>1. Fitted(r, slice, follows) = u BY <1>2, Zenon DEF Fitted
  <2>2. /\ r \in Seq(FileRows) /\ r # <<>>
        /\ \A n \in 1..Len(r) : r[n].end = "none" => n = Len(r)
    BY <1>2, LinesMeans, Zenon
  <2>3. m \in FileRows /\ m.end = "lf" /\ m.end # "none"
    <3>1. Last(r) \in FileRows BY <2>2, FrontOf
    <3> QED BY <3>1 DEF FileRows
  <2> HIDE DEF m
  <2>4. PICK k \in Nat :
          /\ Len(r) = k + 1
          /\ Front(r) \in Seq(FileRows) /\ Len(Front(r)) = k /\ \A n \in 1..k : Front(r)[n] = r[n]
    <3>1. Len(r) - 1 \in Nat /\ Len(r) = Len(r) - 1 + 1 BY <2>2, FrontOf
    <3>2. /\ Front(r) \in Seq(FileRows) /\ Len(Front(r)) = Len(r) - 1
          /\ \A n \in 1..(Len(r) - 1) : Front(r)[n] = r[n]
      BY <2>2, FrontOf, Zenon
    <3> QED BY <3>1, <3>2, Zenon
  <2>5. /\ <<m>> \in Seq(FileRows) /\ Len(<<m>>) = 1 /\ <<m>>[1] = m BY <2>3
  <2>6. /\ u \in Seq(FileRows) /\ Len(u) = k + 1
        /\ \A n \in 1..k : u[n] = r[n]
        /\ u[k + 1] = m
    <3>1. /\ u \in Seq(FileRows) /\ Len(u) = Len(Front(r)) + Len(<<m>>)
          /\ \A n \in 1..Len(Front(r)) : u[n] = Front(r)[n]
          /\ \A n \in 1..Len(<<m>>) : u[Len(Front(r)) + n] = <<m>>[n]
      BY <2>4, <2>5, Joined
    <3>2. 1 \in 1..1 OBVIOUS
    <3> HIDE DEF u
    <3> QED BY <2>4, <2>5, <3>1, <3>2, Zenon
  <2> HIDE DEF u
  <2>7. ASSUME NEW n \in 1..(k + 1), u[n].end = "none" PROVE FALSE
    <3>1. CASE n <= k
      <4>1. n \in 1..k /\ n \in 1..(k + 1) /\ n # k + 1 BY <2>4, <3>1
      <4> QED BY <2>2, <2>4, <2>6, <2>7, <4>1, Zenon
    <3>2. CASE n = k + 1 BY <2>3, <2>6, <2>7, <3>2, Zenon
    <3> QED BY <2>4, <3>1, <3>2
  <2>8. Lines(u) BY <2>6, <2>7, LinesMeans, Zenon
  <2>9. EndsLine(u)
    <3>1. u # <<>> BY <2>4, <2>6
    <3> QED BY <2>3, <2>6, <3>1, Zenon DEF EndsLine, Last
  <2> QED BY <2>1, <2>8, <2>9, Zenon
<1> QED BY <1>1, <1>2, Zenon

\* A part of a file, of which only the file's last line may lack its end.
LEMMA PartLines ==
  ASSUME NEW t, Lines(t), NEW m \in 1..(Len(t) + 1), NEW n \in (m - 1)..Len(t)
  PROVE  /\ Lines(SubSeq(t, m, n)) /\ Len(SubSeq(t, m, n)) = n - m + 1
         /\ n < Len(t) => SubSeq(t, m, n) = <<>> \/ EndsLine(SubSeq(t, m, n))
<1> DEFINE s == SubSeq(t, m, n)
<1>1. /\ t \in Seq(FileRows)
      /\ \A i \in 1..Len(t) : t[i].end = "none" => i = Len(t)
  BY LinesMeans, Zenon
<1>2. /\ s \in Seq(FileRows) /\ Len(s) = n - m + 1
      /\ \A i \in 1..(n - m + 1) : s[i] = t[m + i - 1]
  BY <1>1, SubOf
<1>3. Len(t) \in Nat /\ n \in Int /\ m \in Int BY <1>1
<1> HIDE DEF s
<1>4. ASSUME NEW i \in 1..(n - m + 1), s[i].end = "none" PROVE i = n - m + 1 /\ n = Len(t)
  <2>1. m + i - 1 \in 1..Len(t) /\ m + i - 1 <= n BY <1>3
  <2>2. m + i - 1 = Len(t) BY <1>1, <1>2, <1>4, <2>1, Zenon
  <2> QED BY <1>3, <2>1, <2>2
<1>5. Lines(s) BY <1>2, <1>4, LinesMeans, Zenon
<1>6. ASSUME n < Len(t), s # <<>> PROVE EndsLine(s)
  <2>1. n - m + 1 \in 1..(n - m + 1) BY <1>2, <1>3, <1>6
  <2>2. s[n - m + 1].end # "none" BY <1>3, <1>4, <1>6, <2>1
  <2> QED BY <1>2, <1>6, <2>2, Zenon DEF EndsLine, Last
<1> QED BY <1>2, <1>5, <1>6, Zenon DEF s

LEMMA Halves ==
  ASSUME NEW S, NEW s \in Seq(S), NEW t \in Seq(S)
  PROVE  /\ SubSeq(s \o t, 1, Len(s)) = s
         /\ SubSeq(s \o t, Len(s) + 1, Len(s) + Len(t)) = t
<1> DEFINE u == s \o t
<1>1. PICK k \in Nat, l \in Nat : k = Len(s) /\ l = Len(t) OBVIOUS
<1>2. /\ u \in Seq(S) /\ Len(u) = k + l
      /\ \A n \in 1..k : u[n] = s[n]
      /\ \A n \in 1..l : u[k + n] = t[n]
  <2>1. /\ u \in Seq(S) /\ Len(u) = Len(s) + Len(t)
        /\ \A n \in 1..Len(s) : u[n] = s[n]
        /\ \A n \in 1..Len(t) : u[Len(s) + n] = t[n]
    BY Joined
  <2> HIDE DEF u
  <2> QED BY <1>1, <2>1, Zenon
<1> HIDE DEF u
<1>3. SubSeq(u, 1, k) = s
  <2>1. /\ SubSeq(u, 1, k) \in Seq(S) /\ Len(SubSeq(u, 1, k)) = k - 1 + 1
        /\ \A i \in 1..(k - 1 + 1) : SubSeq(u, 1, k)[i] = u[1 + i - 1]
    <3>1. 1 \in 1..(Len(u) + 1) /\ k \in (1 - 1)..Len(u) BY <1>1, <1>2
    <3> QED BY <1>2, <3>1, SubOf
  <2>2. k - 1 + 1 = k /\ \A i \in 1..k : 1 + i - 1 = i BY <1>1
  <2>3. Len(SubSeq(u, 1, k)) = Len(s) /\ \A i \in 1..k : SubSeq(u, 1, k)[i] = s[i]
    BY <1>1, <1>2, <2>1, <2>2, Zenon
  <2> QED BY <1>1, <2>1, <2>3, SeqEqual
<1>4. SubSeq(u, k + 1, k + l) = t
  <2> DEFINE v == SubSeq(u, k + 1, k + l)
  <2>1. /\ v \in Seq(S) /\ Len(v) = k + l - (k + 1) + 1
        /\ \A i \in 1..(k + l - (k + 1) + 1) : v[i] = u[k + 1 + i - 1]
    <3>1. k + 1 \in 1..(Len(u) + 1) /\ k + l \in (k + 1 - 1)..Len(u) BY <1>1, <1>2
    <3> QED BY <1>2, <3>1, SubOf
  <2> HIDE DEF v
  <2>2. k + l - (k + 1) + 1 = l /\ \A i \in 1..l : k + 1 + i - 1 = k + i BY <1>1
  <2>3. Len(v) = Len(t) /\ \A i \in 1..l : v[i] = t[i] BY <1>1, <1>2, <2>1, <2>2, Zenon
  <2>4. v = t BY <1>1, <2>1, <2>3, SeqEqual
  <2> QED BY <2>4 DEF v
<1> QED BY <1>1, <1>3, <1>4, Zenon DEF u

\* Concat after parts whose line ends keep them apart: what is put in place of a
\* range leaves the lines before it, unless it continues the last one, and the
\* lines after it.
Placed(t, from, to, b) ==
  Concat(Concat(SubSeq(t, 1, from - 1), b), SubSeq(t, to + 1, Len(t)))

Fits(t, from, to, b) ==
  /\ Lines(t) /\ InRange(from, to, Len(t))
  /\ Lines(b) /\ (to < Len(t) => b = <<>> \/ EndsLine(b))

OthersStay(t, from, to, new) ==
  /\ (from > Len(t) /\ ~EndsLine(t)) \/ SubSeq(new, 1, from - 1) = SubSeq(t, 1, from - 1)
  /\ SubSeq(new, Len(new) - (Len(t) - to) + 1, Len(new)) = SubSeq(t, to + 1, Len(t))

LEMMA Replaced ==
  ASSUME NEW t, NEW from, NEW to, NEW b, Fits(t, from, to, b)
  PROVE  Lines(Placed(t, from, to, b)) /\ OthersStay(t, from, to, Placed(t, from, to, b))
<1> DEFINE a == SubSeq(t, 1, from - 1)
           c == SubSeq(t, to + 1, Len(t))
           new == Concat(Concat(a, b), c)
<1>0. /\ Lines(t) /\ InRange(from, to, Len(t))
      /\ Lines(b) /\ (to < Len(t) => b = <<>> \/ EndsLine(b))
  BY Zenon DEF Fits
<1>1. t \in Seq(FileRows) BY <1>0, LinesMeans
<1>2. PICK l \in Nat : l = Len(t) BY <1>1
<1>3. /\ from \in 1..(l + 1) /\ to \in (from - 1)..l /\ from - 1 \in 0..l /\ to \in Nat
      /\ 1 \in 1..(l + 1) /\ from - 1 \in (1 - 1)..l /\ to + 1 \in 1..(l + 1)
      /\ l \in (to + 1 - 1)..l /\ from - 1 - 1 + 1 = from - 1 /\ l - (to + 1) + 1 = l - to
  BY <1>0, <1>2 DEF InRange
<1>4. /\ Lines(a) /\ Len(a) = from - 1
      /\ from - 1 < l => a = <<>> \/ EndsLine(a)
  BY <1>0, <1>2, <1>3, PartLines, Zenon
<1>5. Lines(c) /\ Len(c) = l - to
  <2>1. Lines(c) /\ Len(c) = l - (to + 1) + 1 BY <1>0, <1>2, <1>3, PartLines
  <2> QED BY <1>3, <2>1, Zenon
<1>6. from - 1 = l => a = t
  <2>1. SubSeq(t, 1, Len(t)) = t BY <1>1, SubSeqFull
  <2> QED BY <1>2, <2>1, Zenon
<1>7. c # <<>> => to < l
  <2>1. to = l => Len(c) = 0 BY <1>2, <1>3, <1>5
  <2>2. c \in Seq(FileRows) BY <1>5, LinesMeans
  <2> QED BY <1>2, <1>3, <2>1, <2>2
<1> HIDE DEF a, c
<1>8. a \in Seq(FileRows) /\ b \in Seq(FileRows) /\ c \in Seq(FileRows) BY <1>0, <1>4, <1>5, LinesMeans
<1>9. CASE a = <<>> \/ EndsLine(a)
  <2>1. Concat(a, b) = a \o b /\ Lines(a \o b) BY <1>0, <1>4, <1>9, ConcatLines, Zenon
  <2>2. c = <<>> \/ a \o b = <<>> \/ EndsLine(a \o b)
    <3>1. CASE c # <<>> /\ b = <<>>
      <4>1. a \o b = a BY <1>8, <3>1
      <4> QED BY <1>9, <4>1, Zenon
    <3>2. CASE c # <<>> /\ b # <<>>
      <4>1. EndsLine(b) BY <1>0, <1>2, <1>7, <3>2, Zenon
      <4>2. Len(b) \in Nat \ {0} /\ Len(a) \in Nat /\ Len(b) \in 1..Len(b) BY <1>8, <3>2
      <4>3. Len(a \o b) = Len(a) + Len(b) /\ (a \o b)[Len(a) + Len(b)] = b[Len(b)]
        BY <1>8, <4>2, Joined, Zenon
      <4>4. a \o b # <<>> BY <1>8, <4>2
      <4> QED BY <4>1, <4>3, <4>4, Zenon DEF EndsLine, Last
    <3> QED BY <3>1, <3>2, Zenon
  <2>3. new = (a \o b) \o c /\ Lines((a \o b) \o c) BY <1>5, <2>1, <2>2, ConcatLines, Zenon
  <2>4. SubSeq(new, 1, from - 1) = a
    <3>1. (a \o b) \o c = a \o (b \o c) /\ b \o c \in Seq(FileRows) BY <1>8, ConcatAssociative
    <3>2. SubSeq(a \o (b \o c), 1, Len(a)) = a BY <1>8, <3>1, Halves
    <3> QED BY <1>4, <2>3, <3>1, <3>2, Zenon
  <2>5. SubSeq(new, Len(new) - (l - to) + 1, Len(new)) = c
    <3> DEFINE x == a \o b
    <3>1. x \in Seq(FileRows) BY <1>8
    <3> HIDE DEF x
    <3>2. SubSeq(x \o c, Len(x) + 1, Len(x) + Len(c)) = c BY <1>8, <3>1, Halves
    <3>3. Len(x \o c) = Len(x) + Len(c) /\ Len(x) \in Nat /\ Len(c) \in Nat BY <1>8, <3>1
    <3>5. SubSeq(x \o c, Len(x \o c) - (l - to) + 1, Len(x \o c)) = c
      <4>1. Len(x \o c) - (l - to) = Len(x) BY <1>2, <1>3, <1>5, <3>3
      <4> QED BY <3>2, <3>3, <4>1, Zenon
    <3>6. new = x \o c BY <2>3 DEF x
    <3> HIDE DEF new
    <3> QED BY <3>5, <3>6, Zenon
  <2> QED BY <1>2, <2>3, <2>4, <2>5, Zenon DEF a, c, Placed, OthersStay
<1>10. CASE a # <<>> /\ ~EndsLine(a)
  <2>1. from - 1 = l /\ to = l BY <1>2, <1>3, <1>4, <1>10
  <2>2. from > l /\ ~EndsLine(t) BY <1>2, <1>3, <1>6, <1>10, <2>1
  <2>3. c = <<>> BY <1>7, <1>2, <1>3, <2>1
  <2>4. Lines(Concat(a, b))
    <3>1. CASE b = <<>> BY <1>0, <1>4, <3>1, ConcatLines, Zenon
    <3>2. CASE b # <<>> BY <1>0, <1>4, <1>10, <3>2, MergedLines, Zenon
    <3> QED BY <3>1, <3>2, Zenon
  <2>5. new = Concat(a, b) BY <2>3, <2>4, <1>5, ConcatLines, LinesMeans
  <2>6. SubSeq(new, Len(new) - (l - to) + 1, Len(new)) = c
    <3>1. new \in Seq(FileRows) BY <2>4, <2>5, LinesMeans
    <3>2. Len(new) \in Int /\ Len(new) - (l - to) + 1 \in Int /\ Len(new) < Len(new) - (l - to) + 1
      BY <1>2, <2>1, <3>1
    <3> QED BY <2>3, <3>2, SubSeqEmpty
  <2> QED BY <1>2, <2>2, <2>4, <2>5, <2>6, Zenon DEF a, c, Placed, OthersStay
<1> QED BY <1>9, <1>10, Zenon


-----------------------------------------------------------------------------

\* The inductive invariant: files and what was read of them are lines.
FileInv ==
  /\ DOMAIN disk = Files /\ \A f \in OnDisk : Lines(disk[f])
  /\ DOMAIN seen = Editors
  /\ \A x \in Editors : seen[x] # NothingSeen => seen[x].path \in Files /\ Lines(seen[x].lines)
  /\ edit # NoEdit => edit.from \in 1..MaxLines + 1 /\ edit.to \in 0..MaxLines

LEMMA DecodedIsText == ASSUME NEW text \in Seq(Words) PROVE Decoded(text) \in Seq(Words)
<1>1. DOMAIN text = 1..Len(text) /\ Len(text) \in Nat /\ \A i \in 1..Len(text) : text[i] \in Words
  OBVIOUS
<1>2. Mark \in Words BY FileAssumption
<1>3. Decoded(text) \in [1..Len(text) -> Words] BY <1>1, <1>2 DEF Decoded
<1> QED BY <1>1, <1>3

LEMMA TextLines ==
  ASSUME NEW f, Lines(disk[f])
  PROVE  Lines(ReadText(f))
<1>1. /\ disk[f] \in Seq(FileRows)
      /\ \A n \in 1..Len(disk[f]) : disk[f][n].end = "none" => n = Len(disk[f])
  BY LinesMeans, Zenon
<1> DEFINE r == ReadText(f)
<1>2. DOMAIN disk[f] = 1..Len(disk[f]) /\ Len(disk[f]) \in Nat BY <1>1
<1>3. ASSUME NEW n \in 1..Len(disk[f])
      PROVE  r[n] \in FileRows /\ (r[n].end = "none" => n = Len(disk[f]))
  <2>1. r[n] = [text |-> Decoded(disk[f][n].text),
                end |-> IF disk[f][n].end = "crlf" THEN "lf" ELSE disk[f][n].end]
    BY <1>2 DEF ReadText
  <2>2. disk[f][n].text \in Seq(Words) /\ disk[f][n].end \in {"lf", "crlf", "none"}
    <3>1. disk[f][n] \in FileRows BY <1>1
    <3> QED BY <3>1 DEF FileRows
  <2>3. Decoded(disk[f][n].text) \in Seq(Words) BY <2>2, DecodedIsText
  <2>4. r[n] \in FileRows /\ (r[n].end = "none" => disk[f][n].end = "none")
    <3> HIDE DEF r
    <3> QED BY <2>1, <2>2, <2>3 DEF FileRows
  <2> QED BY <1>1, <2>4, Zenon
<1>4. r \in [1..Len(disk[f]) -> FileRows]
  <2>1. r = [n \in 1..Len(disk[f]) |-> r[n]] BY <1>2 DEF ReadText
  <2> HIDE DEF r
  <2> QED BY <1>3, <2>1
<1> HIDE DEF r
<1>5. r \in Seq(FileRows) /\ Len(r) = Len(disk[f]) BY <1>2, <1>4
<1> QED BY <1>3, <1>5, LinesMeans, Zenon DEF r

LEMMA MissingIsNoFile == ~Lines(Missing)
<1> SUFFICES ASSUME Lines(Missing) PROVE FALSE OBVIOUS
<1>1. Missing \in Seq(FileRows) BY LinesMeans
<1>2. Missing[1] \in FileRows BY <1>1 DEF Missing
<1> QED BY <1>2 DEF FileRows, Missing

LEMMA EmptyFile == Lines(<<>>)
<1>1. <<>> \in Seq(FileRows) /\ \A n \in 1..Len(<<>>) : FALSE OBVIOUS
<1> QED BY <1>1, LinesMeans, Zenon

NewText(x, from, to, r) ==
  LET t == ReadText(seen[x].path)
  IN Placed(t, from, to, Fitted(r, SubSeq(t, from, to), to < Len(t)))

LEMMA NewLines ==
  ASSUME FileInv, NEW x \in Editors, NEW from, NEW to, NEW r \in Replacements,
         ReplaceLines(x, from, to, r)
  PROVE  /\ Lines(NewText(x, from, to, r))
         /\ OthersStay(ReadText(seen[x].path), from, to, NewText(x, from, to, r))
<1> DEFINE t == ReadText(seen[x].path)
           b == Fitted(r, SubSeq(t, from, to), to < Len(t))
<1>1. seen[x].path \in OnDisk /\ InRange(from, to, Len(t)) BY Zenon DEF ReplaceLines
<1>2. Lines(t) BY <1>1, TextLines, Zenon DEF FileInv
<1>3. Lines(b) /\ (to < Len(t) => b = <<>> \/ EndsLine(b))
  <2>1. Lines(r) BY FileAssumption
  <2> HIDE DEF t
  <2> QED BY <2>1, FittedLines, Zenon
<1>4. NewText(x, from, to, r) = Placed(t, from, to, b) BY DEF NewText
<1> HIDE DEF t, b
<1>5. Fits(t, from, to, b) BY <1>1, <1>2, <1>3, Zenon DEF Fits
<1>6. Lines(Placed(t, from, to, b)) /\ OthersStay(t, from, to, Placed(t, from, to, b))
  BY <1>5, Replaced, Zenon
<1> QED BY <1>4, <1>6, Zenon DEF t

\* What tool_replace_lines makes of lines is lines.
LEMMA FileInvStep == FileInv /\ [FileNext]_fileVars => FileInv'
<1> SUFFICES ASSUME FileInv, [FileNext]_fileVars PROVE FileInv'
  OBVIOUS
<1>1. ASSUME NEW x \in Editors, NEW f \in Files, GetFile(x, f) PROVE FileInv'
  <2>1. Lines(ReadText(f)) BY <1>1, TextLines DEF FileInv, GetFile
  <2> QED BY <1>1, <2>1 DEF FileInv, GetFile, OnDisk, NothingSeen, NoEdit
<1>2. ASSUME NEW f \in Files, NEW content \in Contents, WriteFile(f, content) PROVE FileInv'
  BY <1>2, FileAssumption DEF FileInv, WriteFile, OnDisk
<1>3. ASSUME NEW f \in Files, DeleteFile(f) PROVE FileInv'
  BY <1>3 DEF FileInv, DeleteFile, OnDisk
<1>4. ASSUME NEW d, DeleteFolder(d) PROVE FileInv'
  BY <1>4 DEF FileInv, DeleteFolder, OnDisk
<1>5. ASSUME NEW f \in Files, RunTerminal(f) PROVE FileInv'
  BY <1>5, FileAssumption, EmptyFile DEF FileInv, RunTerminal, OnDisk
<1>6. ASSUME NEW x \in Editors, NEW from \in 1..MaxLines + 1, NEW to \in 0..MaxLines,
             NEW r \in Replacements, ReplaceLines(x, from, to, r)
      PROVE  FileInv'
  <2> DEFINE f == seen[x].path
             new == NewText(x, from, to, r)
  <2>1. /\ f \in OnDisk /\ disk' = [disk EXCEPT ![f] = new] /\ UNCHANGED seen
        /\ edit' = [from |-> from, to |-> to, by |-> x]
    BY <1>6, Zenon DEF ReplaceLines, NewText, Placed
  <2>2. Lines(new) BY <1>6, NewLines, Zenon
  <2> HIDE DEF new, f
  <2> QED BY <2>1, <2>2 DEF FileInv, OnDisk
<1>7. UNCHANGED fileVars => FileInv'
  BY DEF FileInv, fileVars, OnDisk
<1> QED BY <1>1, <1>2, <1>3, <1>4, <1>5, <1>6, <1>7 DEF FileNext

LEMMA FileInvAlways == FileSpec => []FileInv
<1>1. FileInit => FileInv BY DEF FileInit, FileInv, OnDisk
<1> QED BY <1>1, FileInvStep, PTL DEF FileSpec

(***************************************************************************)
(* Files on the disk and files read are lines of which only the last may   *)
(* have no end, whatever replacements make of them (fs.py, write_text of   *)
(* what tools join).                                                       *)
(***************************************************************************)
THEOREM FileTypes == FileSpec => []FileTypeOK
<1>1. FileInv => FileTypeOK BY DEF FileInv, FileTypeOK, OnDisk
<1> QED BY <1>1, FileInvAlways, PTL

(***************************************************************************)
(* An agent's replacement touches the lines that the agent saw and no      *)
(* others, whatever happened to the file in between (fs.py,                *)
(* tool_replace_lines).                                                    *)
(***************************************************************************)
THEOREM EditsArePrecise == FileSpec => EditIsPrecise
<1> DEFINE Precise ==
      edit' # NoEdit =>
       LET f == seen[edit'.by].path
           old == ReadText(f)
           new == disk'[f]
           from == edit'.from
           to == edit'.to
           after == Len(old) - to
           appends == from > Len(old) /\ ~EndsLine(old)
       IN
         /\ SubSeq(old, from, to) = SubSeq(seen[edit'.by].lines, from, to)
         /\ appends \/ SubSeq(new, 1, from - 1) = SubSeq(old, 1, from - 1)
         /\ SubSeq(new, Len(new) - after + 1, Len(new)) = SubSeq(old, to + 1, Len(old))
<1>1. ASSUME FileInv, FileNext PROVE Precise
  <2>1. ASSUME NEW x \in Editors, NEW from \in 1..MaxLines + 1, NEW to \in 0..MaxLines,
               NEW r \in Replacements, ReplaceLines(x, from, to, r)
        PROVE  Precise
    <3> DEFINE f == seen[x].path
               t == ReadText(f)
               a == SubSeq(t, 1, from - 1)
               c == SubSeq(t, to + 1, Len(t))
               new == NewText(x, from, to, r)
    <3>1. /\ f \in OnDisk /\ disk' = [disk EXCEPT ![f] = new]
          /\ SubSeq(t, from, to) = SubSeq(seen[x].lines, from, to)
          /\ edit' = [from |-> from, to |-> to, by |-> x]
      BY <2>1, Zenon DEF ReplaceLines, NewText, Placed
    <3>2. /\ (from > Len(t) /\ ~EndsLine(t)) \/ SubSeq(new, 1, from - 1) = a
          /\ SubSeq(new, Len(new) - (Len(t) - to) + 1, Len(new)) = c
      BY <1>1, <2>1, NewLines, Zenon DEF OthersStay
    <3>3. disk'[f] = new BY <1>1, <3>1 DEF FileInv, OnDisk
    <3>4. edit'.from = from /\ edit'.to = to /\ edit'.by = x BY <3>1
    <3> HIDE DEF new, a, c
    <3>5. SubSeq(disk'[f], Len(disk'[f]) - (Len(t) - edit'.to) + 1, Len(disk'[f])) = c
      BY <3>2, <3>3, <3>4, Zenon
    <3>6. \/ edit'.from > Len(t) /\ ~EndsLine(t)
          \/ SubSeq(disk'[f], 1, edit'.from - 1) = SubSeq(t, 1, edit'.from - 1)
      BY <3>2, <3>3, <3>4, Zenon DEF a
    <3>7. c = SubSeq(t, edit'.to + 1, Len(t)) BY <3>4, Zenon DEF c
    <3>8. SubSeq(t, edit'.from, edit'.to) = SubSeq(seen[x].lines, edit'.from, edit'.to)
      BY <3>1, <3>4, Zenon
    <3>9. f = seen[edit'.by].path /\ seen[x].lines = seen[edit'.by].lines BY <3>4, Zenon
    <3> QED BY <3>5, <3>6, <3>7, <3>8, <3>9, Zenon
  <2>2. ASSUME edit' = NoEdit PROVE Precise BY <2>2
  <2> HIDE DEF Precise
  <2> QED BY <1>1, <2>1, <2>2
        DEF FileNext, GetFile, WriteFile, DeleteFile, DeleteFolder, RunTerminal
<1>2. FileInv /\ [FileNext]_fileVars => [Precise]_fileVars
  BY <1>1, Zenon
<1>3. FileSpec => [][FileNext]_fileVars BY PTL DEF FileSpec
<1> QED BY <1>2, <1>3, FileInvAlways, PTL DEF EditIsPrecise
=============================================================================
