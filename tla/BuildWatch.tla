----------------------------- MODULE BuildWatch -----------------------------
(***************************************************************************)
(* How the IDE watches one build: the record of module BuildDispatch as    *)
(* its readers see it, the server-side tail behind /ws/build/{session_id}, *)
(* the socket, and the client that streams first and fails over to         *)
(* polling.  The socket goes to the orchestrator itself or through the     *)
(* gateway's bridge.                                                       *)
(*                                                                         *)
(* Simplifications.                                                        *)
(*  - A log line is <<attempt, number>>; the cap on the log is Cap.        *)
(*  - progress moves in steps of one; only its changes matter (signature). *)
(*  - Window bounds the snapshots the client has not read yet.             *)
(*  - The sleeps of the tail and of the poller are not timed: an iteration *)
(*    may come at any moment.                                              *)
(***************************************************************************)
EXTENDS Naturals, Sequences

CONSTANTS
  Lines,     \* bound on the log lines of an attempt
  Cap,       \* _BUILD_LOG_CAP
  Attempts,  \* how often the build is run (retries after an error included)
  Files,     \* generated files the client writes to the workspace
  Window,    \* bound on the messages under way to the client
  Misses,    \* not_found iterations before the tail gives up
  Routes,    \* where WS_BASE may point: "direct", "gateway"
  Polls      \* iterations of pollBuildStatus

ASSUME WatchAssumption ==
  /\ Lines \in Nat /\ Files \in Nat /\ Misses \in Nat
  /\ Routes \subseteq {"direct", "gateway"}
  /\ Window \in Nat \ {0} /\ Cap \in Nat \ {0} /\ Attempts \in Nat \ {0} /\ Polls \in Nat \ {0}

VARIABLES
  rec,      \* the durable record
  attempt,  \* runs of the build so far
  emitted,  \* lines the current run has logged
  mine,     \* the watcher owns the record
  route,    \* where WS_BASE points
  srv,      \* the tail: "none", "tailing" or "ended"
  sig,      \* last_sig of the tail
  missing,  \* missing_ticks of the tail
  chan,     \* messages under way to the client, in order
  link,     \* the client's socket: "connecting", "open" or "closed"
  settled,  \* the promise of streamBuildStatus was settled
  poller,   \* pollBuildStatus: "off", "waiting", "applying" or "stopped"
  polls,    \* its iterations so far
  writing,  \* per handler, files still to be written of a complete snapshot
  lastLen,  \* logRef.lastLogLen
  shown,    \* lines in the terminal
  loaded,   \* times a completion was carried out to its end
  failed,   \* "Build failed" was shown
  building  \* isBuilding

recVars == <<rec, attempt, emitted, mine, route>>
srvVars == <<srv, sig, missing>>
uiVars == <<lastLen, shown, loaded, failed, building>>
vars == <<rec, attempt, emitted, mine, route, srv, sig, missing, chan, link, settled,
          poller, polls, writing, lastLen, shown, loaded, failed, building>>

Status == {"absent", "queued", "running", "complete", "error"}
Handlers == {"socket", "poll"}
NoSig == <<>>
Close == [kind |-> "close"]

Line == (1..Attempts) \X (0..Lines)
LogOf(r) == r.log \in Seq(Line) /\ Len(r.log) <= Cap + 1

TypeOK ==
  /\ rec.status \in Status /\ rec.prog \in 0..Lines /\ LogOf(rec)
  /\ attempt \in 0..Attempts /\ emitted \in 0..Lines /\ mine \in BOOLEAN /\ route \in Routes
  /\ srv \in {"none", "tailing", "ended"} /\ missing \in 0..(Misses + 1)
  /\ \A i \in DOMAIN chan : chan[i] = Close \/ LogOf(chan[i].data)
  /\ link \in {"connecting", "open", "closed"} /\ settled \in BOOLEAN
  /\ poller \in {"off", "waiting", "applying", "stopped"} /\ polls \in 0..Polls
  /\ writing \in [Handlers -> 0..Files]
  /\ lastLen \in 0..(Cap + 1) /\ shown \in Seq(Line)
  /\ loaded \in Nat /\ failed \in BOOLEAN /\ building \in BOOLEAN

Init ==
  /\ rec = [status |-> "absent", prog |-> 0, log |-> <<>>]
  /\ attempt = 0 /\ emitted = 0 /\ mine \in BOOLEAN /\ route \in Routes
  /\ srv = "none" /\ sig = NoSig /\ missing = 0 /\ chan = <<>>
  /\ link = "connecting" /\ settled = FALSE
  /\ poller = "off" /\ polls = 0 /\ writing = [h \in Handlers |-> 0]
  /\ lastLen = 0 /\ shown = <<>> /\ loaded = 0 /\ failed = FALSE /\ building = TRUE

-----------------------------------------------------------------------------
(* The record.                                                             *)

KeepTail(s) == IF Len(s) > Cap THEN SubSeq(s, Len(s) - Cap + 1, Len(s)) ELSE s

Queue ==
  /\ rec.status = "absent"
  /\ rec' = [rec EXCEPT !.status = "queued"]
  /\ UNCHANGED <<attempt, emitted, mine, route>>

\* A claim makes a new document: of the first run, of the retry of a failed one,
\* or of the redelivery after an instance died and its claim went stale.
Begin ==
  /\ rec.status \in {"queued", "running", "error"} /\ attempt < Attempts
  /\ rec' = [status |-> "running", prog |-> 0, log |-> <<>>]
  /\ attempt' = attempt + 1 /\ emitted' = 0
  /\ UNCHANGED <<mine, route>>

\* on_event: one line, perhaps more progress; the log keeps its tail.
Report ==
  /\ rec.status = "running" /\ emitted < Lines
  /\ emitted' = emitted + 1
  /\ \E p \in {rec.prog, rec.prog + 1} :
       rec' = [rec EXCEPT !.prog = p, !.log = KeepTail(Append(@, <<attempt, emitted + 1>>))]
  /\ UNCHANGED <<attempt, mine, route>>

\* A run has as many lines as its milestones and files, here up to Lines.
Finish ==
  /\ rec.status = "running"
  /\ rec' = [rec EXCEPT !.status = "complete"]
  /\ UNCHANGED <<attempt, emitted, mine, route>>

\* The except branch appends its line to the log without trimming it.
GiveUp ==
  /\ rec.status = "running"
  /\ rec' = [rec EXCEPT !.status = "error", !.log = Append(@, <<attempt, 0>>)]
  /\ UNCHANGED <<attempt, emitted, mine, route>>

RecordStep ==
  /\ Queue \/ Begin \/ Report \/ Finish \/ GiveUp
  /\ UNCHANGED <<srvVars, chan, link, settled, poller, polls, writing, uiVars>>

-----------------------------------------------------------------------------
(* build_stream_endpoint.                                                  *)

NotFound == [status |-> "not_found", prog |-> 0, log |-> <<>>]
Snapshot(d) == [kind |-> "snapshot", data |-> d]
Signature(d) == <<d.status, d.prog, Len(d.log)>>
Settles(d) == d.status \in {"complete", "error"}

\* The bridge accepts its client before it connects to the orchestrator.
Accept ==
  /\ srv = "none" /\ link \in {"connecting"} \cup (IF route = "gateway" THEN {"open"} ELSE {})
  /\ srv' = "tailing"
  /\ UNCHANGED <<recVars, sig, missing, chan, link, settled, poller, polls, writing, uiVars>>

\* Mutant: the limit on the missing iterations is never looked at.
TailWaitsForEver ==
  /\ srv = "tailing" /\ rec.status = "absent"
  /\ missing' = missing + 1
  /\ UNCHANGED <<recVars, srv, sig, chan, link, settled, poller, polls, writing, uiVars>>

\* No record yet: wait, up to the limit; then say so and close.
TailMissing ==
  /\ srv = "tailing" /\ rec.status = "absent"
  /\ missing' = missing + 1
  /\ IF missing' > Misses
     THEN srv' = "ended" /\ chan' = chan \o <<Snapshot(NotFound), Close>>
     ELSE UNCHANGED <<srv, chan>>
  /\ UNCHANGED <<recVars, sig, link, settled, poller, polls, writing, uiVars>>

\* Somebody else's record is reported as not found.
TailForeign ==
  /\ srv = "tailing" /\ rec.status # "absent" /\ ~mine
  /\ srv' = "ended"
  /\ chan' = chan \o <<Snapshot(NotFound), Close>>
  /\ UNCHANGED <<recVars, sig, missing, link, settled, poller, polls, writing, uiVars>>

\* A snapshot goes out whenever the signature moved; a final one is the last.
TailRead ==
  /\ srv = "tailing" /\ rec.status # "absent" /\ mine
  /\ Len(chan) < Window
  /\ missing' = 0
  /\ sig' = Signature(rec)
  /\ srv' = IF Settles(rec) THEN "ended" ELSE srv
  /\ chan' = chan \o (IF sig' # sig THEN <<Snapshot(rec)>> ELSE <<>>)
                  \o (IF Settles(rec) THEN <<Close>> ELSE <<>>)
  /\ UNCHANGED <<recVars, link, settled, poller, polls, writing, uiVars>>

\* A read or a send fails, or the connection is cut: what was sent may be lost.
TailBreaks ==
  /\ srv = "tailing"
  /\ srv' = "ended"
  /\ \E n \in 0..Len(chan) : chan' = Append(SubSeq(chan, 1, n), Close)
  /\ UNCHANGED <<recVars, sig, missing, link, settled, poller, polls, writing, uiVars>>

ServerStep == Accept \/ TailMissing \/ TailForeign \/ TailRead \/ TailBreaks

-----------------------------------------------------------------------------
(* applyBuildSnapshot.                                                     *)

\* Mutant: the verdict of a final snapshot is taken before its lines are shown.
ShowLinesUnlessFinal(d) ==
  IF Len(d.log) > lastLen /\ ~Settles(d)
  THEN /\ lastLen' = Len(d.log)
       /\ shown' = shown \o SubSeq(d.log, lastLen + 1, Len(d.log))
  ELSE UNCHANGED <<lastLen, shown>>

ShowLines(d) ==
  IF Len(d.log) > lastLen
  THEN /\ lastLen' = Len(d.log)
       /\ shown' = shown \o SubSeq(d.log, lastLen + 1, Len(d.log))
  ELSE UNCHANGED <<lastLen, shown>>

\* The part before the first await.  Only a complete snapshot with files has
\* more to do: it writes them one request at a time.
Apply(d, h) ==
  /\ ShowLines(d)
  /\ writing' = IF d.status = "complete" THEN [writing EXCEPT ![h] = Files] ELSE writing
  /\ loaded' = IF d.status = "complete" /\ Files = 0 THEN loaded + 1 ELSE loaded
  /\ failed' = (failed \/ d.status = "error")
  /\ building' = (building /\ d.status # "error" /\ ~(d.status = "complete" /\ Files = 0))

\* Does applyBuildSnapshot return true without waiting for anything?
DoneAtOnce(d) == d.status = "error" \/ (d.status = "complete" /\ Files = 0)

-----------------------------------------------------------------------------
(* streamBuildStatus.                                                      *)

\* finish: the promise settles and the socket is closed.
FinishStream == settled' = TRUE /\ link' = "closed"

\* failover: polling takes over, with the same logRef.
Failover == settled' = TRUE /\ link' = "closed" /\ poller' = "waiting"

OnOpen ==
  /\ link = "connecting" /\ (srv # "none" \/ route = "gateway")
  /\ link' = "open"
  /\ UNCHANGED <<recVars, srvVars, chan, settled, poller, polls, writing, uiVars>>

\* No WebSocket, an error before it opened, or the connect timer.
CannotOpen ==
  /\ link = "connecting"
  /\ Failover
  /\ UNCHANGED <<recVars, srvVars, chan, polls, writing, uiVars>>

OnMessage ==
  /\ link = "open" /\ chan # <<>> /\ Head(chan) # Close
  /\ chan' = Tail(chan)
  /\ LET d == Head(chan).data IN
       /\ Apply(d, "socket")
       /\ IF DoneAtOnce(d) THEN FinishStream ELSE UNCHANGED <<settled, link>>
  /\ UNCHANGED <<recVars, srvVars, poller, polls>>

-----------------------------------------------------------------------------
(* ws_proxy of the gateway.                                                *)

\* The orchestrator cannot be reached: the bridge closes the client's socket.
BridgeFails ==
  /\ route = "gateway" /\ link = "open" /\ srv = "none"
  /\ srv' = "ended"
  /\ Failover
  /\ UNCHANGED <<recVars, sig, missing, chan, polls, writing, uiVars>>

\* The orchestrator's end of the bridge closes.  One of the two pipes returns,
\* gather waits for the other, and that one waits for the client.
BridgeHolds ==
  /\ route = "gateway" /\ link = "open" /\ chan # <<>> /\ Head(chan) = Close
  /\ chan' = Tail(chan)
  /\ UNCHANGED <<recVars, srvVars, link, settled, poller, polls, writing, uiVars>>

-----------------------------------------------------------------------------
(* onclose.                                                                *)

\* Mutant: a socket that closes early is not replaced by polling.
OnCloseIgnored ==
  /\ route = "direct" /\ link = "open" /\ chan # <<>> /\ Head(chan) = Close
  /\ chan' = Tail(chan)
  /\ link' = "closed"
  /\ UNCHANGED <<recVars, srvVars, settled, poller, polls, writing, uiVars>>

\* Mutant: polling starts with a logRef of its own.
OnCloseForgetful ==
  /\ route = "direct" /\ link = "open" /\ chan # <<>> /\ Head(chan) = Close
  /\ chan' = Tail(chan)
  /\ Failover /\ lastLen' = 0
  /\ UNCHANGED <<recVars, srvVars, polls, writing, shown, loaded, failed, building>>

OnClose ==
  /\ route = "direct" /\ link = "open" /\ chan # <<>> /\ Head(chan) = Close
  /\ chan' = Tail(chan)
  /\ Failover
  /\ UNCHANGED <<recVars, srvVars, polls, writing, uiVars>>

\* One POST /v1/workspace/file returned (or failed: it is ignored).  After the
\* last one the completion is announced and the handler returns true.
FileWritten(h) ==
  /\ writing[h] > 0
  /\ writing' = [writing EXCEPT ![h] = @ - 1]
  /\ IF writing[h] > 1
     THEN UNCHANGED <<loaded, building, settled, link, poller>>
     ELSE /\ loaded' = loaded + 1 /\ building' = FALSE
          /\ IF h = "poll" THEN poller' = "stopped" /\ UNCHANGED <<settled, link>>
             ELSE /\ UNCHANGED poller
                  /\ IF settled THEN UNCHANGED <<settled, link>> ELSE FinishStream
  /\ UNCHANGED <<recVars, srvVars, chan, polls, lastLen, shown, failed>>

-----------------------------------------------------------------------------
(* pollBuildStatus and GET /builder/status.                                *)

Visible == IF rec.status = "absent" \/ ~mine THEN NotFound ELSE rec

PollAnswered ==
  /\ poller = "waiting" /\ polls < Polls
  /\ polls' = polls + 1
  /\ Apply(Visible, "poll")
  /\ poller' = CASE DoneAtOnce(Visible) -> "stopped"
                 [] Visible.status = "complete" /\ Files > 0 -> "applying"
                 [] OTHER -> "waiting"
  /\ UNCHANGED <<recVars, srvVars, chan, link, settled>>

PollFails ==
  /\ poller = "waiting" /\ polls < Polls
  /\ polls' = polls + 1
  /\ UNCHANGED <<recVars, srvVars, chan, link, settled, poller, writing, uiVars>>

\* "Stopped watching build after timeout".
PollsExhausted ==
  /\ poller = "waiting" /\ polls = Polls
  /\ poller' = "stopped" /\ building' = FALSE
  /\ UNCHANGED <<recVars, srvVars, chan, link, settled, polls, writing, lastLen, shown, loaded, failed>>

ClientStep ==
  \/ OnOpen \/ CannotOpen \/ OnMessage \/ OnClose \/ BridgeFails \/ BridgeHolds
  \/ \E h \in Handlers : FileWritten(h)
  \/ PollAnswered \/ PollFails \/ PollsExhausted

Next == RecordStep \/ ServerStep \/ ClientStep

Spec == Init /\ [][Next]_vars

(***************************************************************************)
(* Fairness: the build goes on (EventuallySettled of BuildDispatch), the   *)
(* tail loops, and the client's event loop handles what has arrived.       *)
(***************************************************************************)
Fairness ==
  /\ WF_vars(RecordStep)
  /\ WF_vars(TailMissing) /\ WF_vars(TailForeign) /\ WF_vars(TailRead)
  /\ WF_vars(Accept \/ BridgeFails) /\ WF_vars(BridgeHolds)
  /\ WF_vars(OnOpen \/ CannotOpen) /\ WF_vars(OnMessage) /\ WF_vars(OnClose)
  /\ \A h \in Handlers : WF_vars(FileWritten(h))
  /\ WF_vars(PollAnswered) /\ WF_vars(PollsExhausted)

FairSpec == Spec /\ Fairness

-----------------------------------------------------------------------------
(* Properties.                                                             *)

Before(l, m) == l[1] < m[1] \/ (l[1] = m[1] /\ (m[2] = 0 \/ (l[2] # 0 /\ l[2] < m[2])))

(***************************************************************************)
(* Across failover, retries and a log that was cut, no line is shown twice *)
(* and none out of order (page.tsx 1783-1784).                             *)
(***************************************************************************)
TerminalInOrder ==
  \A i, j \in DOMAIN shown : i < j => shown[i] # shown[j] /\ Before(shown[i], shown[j])

(***************************************************************************)
(* A build that needed one attempt and stayed below the cap has all of its *)
(* lines in the terminal when its files are loaded, whichever of its       *)
(* snapshots were skipped, lost with the socket or superseded.             *)
(***************************************************************************)
AllLinesShown ==
  loaded > 0 /\ attempt = 1 /\ emitted <= Cap =>
    shown = [i \in 1..emitted |-> <<1, i>>]

\* The record that is watched, as module BuildPromise has it: its events are the
\* lines, and a run may be complete after any number of them.
Watched == INSTANCE BuildPromise
  WITH status <- rec.status, done <- emitted, Steps <- Lines, Ends <- 0..Lines

(***************************************************************************)
(* The record as it is reduced here does nothing that GET /builder/status  *)
(* does not promise, which PromiseKept says of the record that the         *)
(* dispatch makes (module BuildDispatch): retries and stale claims begin a *)
(* run anew, events come one at a time, and a complete build stays         *)
(* complete.                                                               *)
(***************************************************************************)
RecordPromised == Watched!Spec

(***************************************************************************)
(* A complete build is loaded once: the socket's close after the final     *)
(* snapshot starts no second watch ("Closed before a terminal snapshot",   *)
(* page.tsx 1855).                                                         *)
(***************************************************************************)
LoadedOnce == loaded <= 1

(***************************************************************************)
(* The watch ends, whatever happens to the socket, the record or the       *)
(* polls: what the socket does not bring to an end is finished over HTTP   *)
(* (page.tsx 1855).                                                        *)
(***************************************************************************)
WatchEnds == <>[](~building /\ poller # "waiting")

(***************************************************************************)
(* The same for the route the production image is built with.              *)
(***************************************************************************)
WatchEndsDirect == route = "direct" => WatchEnds

(***************************************************************************)
(* A build that completes while it is watched has its files loaded, unless *)
(* the polls are used up, the failure of an earlier attempt is still to be *)
(* reported, the record is somebody else's, or the bridge holds a socket   *)
(* whose tail is over.                                                     *)
(***************************************************************************)
CompletionSeen ==
  rec.status = "complete" /\ building /\ mine ~>
    \/ loaded > 0 \/ failed \/ polls = Polls
    \/ route = "gateway" /\ srv = "ended" /\ chan = <<>>
=============================================================================
