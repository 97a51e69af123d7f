----------------------------- MODULE SessionHub -----------------------------
(***************************************************************************)
(* ConnectionManager of routes/ws.py for one session_id: the list of the   *)
(* session's sockets, the handlers that register and unregister them, and  *)
(* the broadcasts that walk the list and wait at every send.               *)
(*                                                                         *)
(* The list lives in a dict: when it runs empty the entry is deleted, and  *)
(* the next socket gets a new list, while a broadcast goes on walking the  *)
(* one it began with.  Lists counts the lists made so far.                 *)
(***************************************************************************)
EXTENDS Naturals, Sequences, FiniteSets, SequencesExt

CONSTANTS
  Sockets,   \* the sockets that may connect to the session, each once
  Casts,     \* the broadcasts
  Lists      \* bound on the lists made for the session

ASSUME HubAssumption == Lists \in Nat \ {0}

VARIABLES
  handler,   \* the endpoint of each socket: "none", "greeting", "serving" or "gone"
  alive,     \* sends to the socket succeed
  list,      \* the contents of every list made so far
  entry,     \* the list the session's dict entry names; 0 when there is no entry
  cast,      \* each broadcast: "new", "walking" or "over"
  walk,      \* the list it walks
  pos,       \* its position in it (the iterator of the for loop)
  dead,      \* the sockets its sends failed on
  got,       \* the broadcasts each socket received, in order
  owed       \* history: the sockets in the list when the broadcast began

hubVars == <<handler, alive, list, entry, cast, walk, pos, dead, got, owed>>
castVars == <<cast, walk, pos, dead, owed>>

Registered == IF entry = 0 THEN {} ELSE ToSet(list[entry])

HubTypeOK ==
  /\ handler \in [Sockets -> {"none", "greeting", "serving", "gone"}]
  /\ alive \in [Sockets -> BOOLEAN]
  /\ list \in Seq(Seq(Sockets))
  /\ entry \in 0..Len(list) /\ Len(list) <= Lists
  /\ cast \in [Casts -> {"new", "walking", "over"}]
  /\ walk \in [Casts -> 0..Len(list)] /\ pos \in [Casts -> Nat]
  /\ dead \in [Casts -> SUBSET Sockets] /\ owed \in [Casts -> SUBSET Sockets]
  /\ got \in [Sockets -> Seq(Casts)]

HubInit ==
  /\ handler = [s \in Sockets |-> "none"] /\ alive = [s \in Sockets |-> TRUE]
  /\ list = <<>> /\ entry = 0
  /\ cast = [b \in Casts |-> "new"] /\ walk = [b \in Casts |-> 0] /\ pos = [b \in Casts |-> 0]
  /\ dead = [b \in Casts |-> {}] /\ owed = [b \in Casts |-> {}]
  /\ got = [s \in Sockets |-> <<>>]

-----------------------------------------------------------------------------
(* connect, disconnect and the handler of /ws/{session_id}.                *)

\* Mutant: a socket is registered once more when it is greeted.
ConnectTwice(s) ==
  /\ handler[s] = "none"
  /\ handler' = [handler EXCEPT ![s] = "greeting"]
  /\ IF entry = 0
     THEN /\ Len(list) < Lists
          /\ list' = Append(list, <<s, s>>) /\ entry' = Len(list) + 1
     ELSE list' = [list EXCEPT ![entry] = @ \o <<s, s>>] /\ UNCHANGED entry
  /\ UNCHANGED <<alive, got, castVars>>

\* Append to the session's list, a new one if there is no entry.
Connect(s) ==
  /\ handler[s] = "none"
  /\ handler' = [handler EXCEPT ![s] = "greeting"]
  /\ IF entry = 0
     THEN /\ Len(list) < Lists
          /\ list' = Append(list, <<s>>) /\ entry' = Len(list) + 1
     ELSE list' = [list EXCEPT ![entry] = Append(@, s)] /\ UNCHANGED entry
  /\ UNCHANGED <<alive, got, castVars>>

\* The list once each of the sockets in gone was removed from it.
Without(s, gone) ==
  LET kept[n \in 0..Len(s)] ==
        IF n = 0 THEN <<>>
        ELSE IF s[n] \in gone THEN kept[n - 1] ELSE Append(kept[n - 1], s[n])
  IN kept[Len(s)]

\* Mutant: the number of the list to come is taken for the entry.
UnregisterEntryFirst(gone) ==
  IF entry = 0 THEN UNCHANGED <<list, entry>>
  ELSE LET rest == Without(list[entry], gone) IN
         /\ list' = [list EXCEPT ![entry] = rest]
         /\ entry' = IF rest = <<>> THEN entry + 1 ELSE entry

\* disconnect of every socket in gone, one after the other: remove it from the
\* list, and the entry when nothing is left.
Unregister(gone) ==
  IF entry = 0 THEN UNCHANGED <<list, entry>>
  ELSE LET rest == Without(list[entry], gone) IN
         /\ list' = [list EXCEPT ![entry] = rest]
         /\ entry' = IF rest = <<>> THEN 0 ELSE entry

\* connection_established was sent (outside the try of the handler).
Greet(s) ==
  /\ handler[s] = "greeting" /\ alive[s]
  /\ handler' = [handler EXCEPT ![s] = "serving"]
  /\ UNCHANGED <<alive, list, entry, got, castVars>>

\* The peer goes away: sends fail from now on.
PeerLeaves(s) ==
  /\ handler[s] \in {"greeting", "serving"} /\ alive[s]
  /\ alive' = [alive EXCEPT ![s] = FALSE]
  /\ UNCHANGED <<handler, list, entry, got, castVars>>

\* The greeting fails: the exception leaves the handler, nothing is undone.
GreetFails(s) ==
  /\ handler[s] = "greeting" /\ ~alive[s]
  /\ handler' = [handler EXCEPT ![s] = "gone"]
  /\ UNCHANGED <<alive, list, entry, got, castVars>>

\* receive_text raises WebSocketDisconnect.
Disconnect(s) ==
  /\ handler[s] = "serving" /\ ~alive[s]
  /\ handler' = [handler EXCEPT ![s] = "gone"]
  /\ Unregister({s})
  /\ UNCHANGED <<alive, got, castVars>>

\* Any other exception leaves the handler: a message that is not a JSON object,
\* or a pong that cannot be sent.  The server closes the socket, whose
\* registration stays until a broadcast finds it dead.
HandlerRaises(s) ==
  /\ handler[s] = "serving"
  /\ handler' = [handler EXCEPT ![s] = "gone"]
  /\ alive' = [alive EXCEPT ![s] = FALSE]
  /\ UNCHANGED <<list, entry, got, castVars>>

-----------------------------------------------------------------------------
(* broadcast_to_session.                                                   *)

\* The for loop takes the element at index i + 1 of the list as it is now and
\* waits in send_json; other handlers run during that wait.
Send(b, l, i) ==
  /\ pos' = [pos EXCEPT ![b] = i + 1]
  /\ LET s == list[l][i + 1] IN
       IF alive[s] THEN got' = [got EXCEPT ![s] = Append(@, b)] /\ UNCHANGED dead
       ELSE dead' = [dead EXCEPT ![b] = @ \cup {s}] /\ UNCHANGED got

Broadcast(b) ==
  /\ cast[b] = "new"
  /\ IF entry = 0
     THEN cast' = [cast EXCEPT ![b] = "over"] /\ UNCHANGED <<walk, pos, dead, got, owed>>
     ELSE /\ cast' = [cast EXCEPT ![b] = "walking"]
          /\ walk' = [walk EXCEPT ![b] = entry]
          /\ owed' = [owed EXCEPT ![b] = Registered]
          /\ Send(b, entry, 0)
  /\ UNCHANGED <<handler, alive, list, entry>>

\* Mutant: a failing send ends the broadcast.
NextSendGivesUp(b) ==
  /\ cast[b] = "walking" /\ pos[b] < Len(list[walk[b]])
  /\ Send(b, walk[b], pos[b])
  /\ cast' = IF dead' = dead THEN cast ELSE [cast EXCEPT ![b] = "over"]
  /\ UNCHANGED <<handler, alive, list, entry, walk, owed>>

NextSend(b) ==
  /\ cast[b] = "walking" /\ pos[b] < Len(list[walk[b]])
  /\ Send(b, walk[b], pos[b])
  /\ UNCHANGED <<handler, alive, list, entry, cast, walk, owed>>

\* The end of the list: the sockets found dead are unregistered.
End(b) ==
  /\ cast[b] = "walking" /\ pos[b] >= Len(list[walk[b]])
  /\ cast' = [cast EXCEPT ![b] = "over"]
  /\ Unregister(dead[b])
  /\ UNCHANGED <<handler, alive, walk, pos, dead, got, owed>>

HubNext ==
  \/ \E s \in Sockets : \/ Connect(s) \/ Greet(s) \/ PeerLeaves(s)
                        \/ GreetFails(s) \/ Disconnect(s) \/ HandlerRaises(s)
  \/ \E b \in Casts : Broadcast(b) \/ NextSend(b) \/ End(b)

HubSpec == HubInit /\ [][HubNext]_hubVars

-----------------------------------------------------------------------------
(* Properties.                                                             *)

Received(s) == ToSet(got[s])

(***************************************************************************)
(* No socket gets a broadcast twice, although the list changes under the   *)
(* loop that walks it.                                                     *)
(***************************************************************************)
AtMostOnce == \A s \in Sockets : IsInjective(got[s])

(***************************************************************************)
(* What a broadcast can miss is bounded by what left the list meanwhile:   *)
(* of the sockets registered when it began and registered still, it missed *)
(* no more than the number of those that went away.                        *)
(***************************************************************************)
MissedAtMostRemoved ==
  \A b \in Casts : cast[b] = "over" =>
    LET stayed == owed[b] \cap Registered IN
      Cardinality({s \in stayed : b \notin Received(s)})
        <= Cardinality(owed[b] \ stayed)

\* "Send a JSON payload to all clients connected to a specific session" (ws.py
\* 52): a socket connected before, during and after a broadcast received it.
ReachesAll ==
  \A b \in Casts : cast[b] = "over" =>
    \A s \in owed[b] \cap Registered : alive[s] => b \in Received(s)
=============================================================================
