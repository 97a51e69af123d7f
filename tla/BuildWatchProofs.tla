-------------------------- MODULE BuildWatchProofs --------------------------
(***************************************************************************)
(* Proofs about BuildWatch, for any logs, caps, snapshots and polls.       *)
(***************************************************************************)
EXTENDS BuildWatch, SequenceTheorems, TLAPS

(***************************************************************************)
(* The inductive invariant of the build watch.  What the client is shown   *)
(* is taken from the logs it gets to see: the snapshots that wait in the   *)
(* channel, then the record itself.                                        *)
(*  - In each log, and from an earlier log to a later one, a line at a     *)
(*    greater place was logged later (Chronicle).  Nothing else keeps the  *)
(*    terminal in order, because the client compares lengths and never     *)
(*    looks at the lines.                                                  *)
(*  - Every line was logged before the next line of the run (Passed).      *)
(*  - What the client has not been shown follows all that it has           *)
(*    (ShownFirst); once the socket is closed, that is only said of the    *)
(*    record.                                                              *)
(*  - A complete snapshot is the record, and it stays so (Completed).      *)
(*  - A first run below the cap has logged its lines 1, 2, 3... and all    *)
(*    the logs are beginnings of it (FirstRun).                            *)
(***************************************************************************)
Precedes(l, m) == l # m /\ Before(l, m)

Follows(g, h) == \A i \in DOMAIN g, j \in DOMAIN h : i < j => Precedes(g[i], h[j])

Waiting == {i \in DOMAIN chan : chan[i] # Close}

Seen == [status : Status \cup {"not_found"}, prog : 0..Lines, log : Seq(Line)]

Messages == {Close} \cup [kind : {"snapshot"}, data : Seen]

WatchTyped ==
  /\ TypeOK
  /\ rec \in [status : Status, prog : 0..emitted, log : Seq(Line)]
  /\ chan \in Seq(Messages)
  /\ rec.status = "running" => Len(rec.log) <= Cap
  /\ rec.status \in {"absent", "queued"} <=> attempt = 0
  /\ attempt = 0 => emitted = 0
  /\ srv # "ended" => missing <= Misses
  /\ poller # "off" => link = "closed"
  /\ writing["poll"] > 0 => poller # "off"

Chronicle ==
  /\ Follows(rec.log, rec.log)
  /\ \A i \in Waiting : Follows(chan[i].data.log, rec.log)
  /\ \A i, j \in Waiting : i <= j => Follows(chan[i].data.log, chan[j].data.log)

\* The line was logged before the next line of run a, which has n lines so far.
Logged(l, a, n, running) ==
  l[1] < a \/ (l[1] = a /\ l[2] <= n /\ (running => l[2] # 0))

Past(l) == Logged(l, attempt, emitted, rec.status = "running")

Passed ==
  /\ \A k \in DOMAIN rec.log : Past(rec.log[k])
  /\ \A i \in Waiting : \A k \in DOMAIN chan[i].data.log : Past(chan[i].data.log[k])
  /\ \A k \in DOMAIN shown : Past(shown[k])

\* The lines of h after the first n follow those of s.
Continues(h, s, n) == \A i \in DOMAIN s, j \in DOMAIN h : j > n => Precedes(s[i], h[j])

Unshown(h) == Continues(h, shown, lastLen)

ShownFirst ==
  /\ Unshown(rec.log)
  /\ link # "closed" => \A i \in Waiting : Unshown(chan[i].data.log)

Completed ==
  /\ \A i \in Waiting : chan[i].data.status = "complete" =>
       rec.status = "complete" /\ chan[i].data.log = rec.log
  /\ loaded > 0 \/ (\E h \in Handlers : writing[h] > 0) =>
       rec.status = "complete" /\ Len(rec.log) <= lastLen

Run(n) == [i \in 1..n |-> <<1, i>>]

FirstRun ==
  attempt <= 1 /\ emitted <= Cap /\ rec.status # "error" =>
    /\ rec.log = Run(emitted) /\ lastLen <= emitted /\ shown = Run(lastLen)
    /\ \A i \in Waiting : \E n \in 0..emitted : chan[i].data.log = Run(n)

WatchInv ==
  /\ WatchTyped /\ Chronicle /\ Passed /\ ShownFirst /\ Completed /\ FirstRun
  /\ TerminalInOrder

-----------------------------------------------------------------------------
(* The operators of BuildWatch.                                            *)

\* What Append does to a sequence.
LEMMA Appended ==
  ASSUME NEW S, NEW t \in Seq(S), NEW s \in S
  PROVE  /\ Append(t, s) \in Seq(S) /\ Append(t, s) # <<>>
         /\ Len(Append(t, s)) = Len(t) + 1 /\ Append(t, s)[Len(t) + 1] = s
         /\ \A i \in 1..Len(t) : Append(t, s)[i] = t[i]
  OBVIOUS

LEMMA Joined ==
  ASSUME NEW S, NEW s \in Seq(S), NEW t \in Seq(S)
  PROVE  /\ s \o t \in Seq(S) /\ Len(s \o t) = Len(s) + Len(t)
         /\ \A k \in 1..Len(s) : (s \o t)[k] = s[k]
         /\ \A k \in 1..Len(t) : (s \o t)[Len(s) + k] = t[k]
         /\ \A k \in 1..Len(s \o t) : k \in 1..Len(s) \/ k - Len(s) \in 1..Len(t)
<1>1. s \o t \in Seq(S) /\ Len(s \o t) = Len(s) + Len(t)
  OBVIOUS
<1>2. \A k \in 1..Len(s) : (s \o t)[k] = s[k]
  OBVIOUS
<1>3. \A k \in 1..Len(t) : (s \o t)[Len(s) + k] = t[k]
  <2> SUFFICES ASSUME NEW k \in 1..Len(t) PROVE (s \o t)[Len(s) + k] = t[k]
    OBVIOUS
  <2>1. Len(s) \in Nat /\ Len(t) \in Nat /\ Len(s) + k \in 1..(Len(s) + Len(t)) /\ Len(s) + k > Len(s)
    OBVIOUS
  <2>2. (s \o t)[Len(s) + k] = t[Len(s) + k - Len(s)]
    BY <2>1
  <2> QED
    BY <2>1, <2>2
<1>4. \A k \in 1..Len(s \o t) : k \in 1..Len(s) \/ k - Len(s) \in 1..Len(t)
  <2>1. PICK m \in Nat, n \in Nat : m = Len(s) /\ n = Len(t)
    OBVIOUS
  <2>2. \A k \in 1..(m + n) : k \in 1..m \/ k - m \in 1..n
    OBVIOUS
  <2> QED
    BY <1>1, <2>1, <2>2
<1> QED
  BY <1>1, <1>2, <1>3, <1>4

LEMMA Rest ==
  ASSUME NEW S, NEW s \in Seq(S), NEW n \in 0..Len(s)
  PROVE  /\ SubSeq(s, n + 1, Len(s)) \in Seq(S) /\ Len(SubSeq(s, n + 1, Len(s))) = Len(s) - n
         /\ \A k \in 1..(Len(s) - n) : SubSeq(s, n + 1, Len(s))[k] = s[n + k]
<1>1. Len(s) \in Nat /\ DOMAIN s = 1..Len(s)
  OBVIOUS
<1>2. \A k \in (n + 1)..Len(s) : s[k] \in S
  BY <1>1
<1>3. SubSeq(s, n + 1, Len(s)) \in Seq(S)
  BY <1>1, <1>2, SubSeqProperties
<1>4. Len(SubSeq(s, n + 1, Len(s))) = Len(s) - n
  <2>1. PICK m \in Nat : m = Len(s)
    BY <1>1
  <2>2. n <= m /\ n \in Nat /\ (n + 1 <= m => m - (n + 1) + 1 = m - n) /\ (~(n + 1 <= m) => m - n = 0)
    BY <2>1
  <2>3. Len(SubSeq(s, n + 1, m)) = IF n + 1 <= m THEN m - (n + 1) + 1 ELSE 0
    BY <2>1, <2>2
  <2> QED
    BY <2>1, <2>2, <2>3, SMTT(40)
<1>5. ASSUME NEW k \in 1..(Len(s) - n) PROVE SubSeq(s, n + 1, Len(s))[k] = s[n + k]
  <2>1. SubSeq(s, n + 1, Len(s))[k] = s[n + 1 + k - 1] /\ n + 1 + k - 1 = n + k
    BY <1>1
  <2> QED
    BY <2>1
<1> QED
  BY <1>3, <1>4, <1>5

LEMMA KeepsTail ==
  ASSUME NEW S, NEW s \in Seq(S)
  PROVE  /\ KeepTail(s) \in Seq(S) /\ Len(KeepTail(s)) <= Cap
         /\ Len(s) <= Cap => KeepTail(s) = s
         /\ \E o \in Nat : /\ Len(KeepTail(s)) + o = Len(s)
                           /\ \A k \in 1..Len(KeepTail(s)) : KeepTail(s)[k] = s[o + k]
<1>1. Len(s) \in Nat /\ Cap \in Nat
  BY WatchAssumption, SMTT(40)
<1>2. CASE Len(s) <= Cap
  <2>1. KeepTail(s) = s
    BY <1>1, <1>2 DEF KeepTail
  <2>2. Len(s) + 0 = Len(s) /\ \A k \in 1..Len(s) : s[k] = s[0 + k]
    BY <1>1
  <2> QED
    BY <1>2, <2>1, <2>2
<1>3. CASE ~(Len(s) <= Cap)
  <2>1. PICK o \in 0..Len(s) : o = Len(s) - Cap
    BY <1>1, <1>3
  <2>2. KeepTail(s) = SubSeq(s, o + 1, Len(s)) /\ Len(s) - o = Cap /\ o \in Nat
    BY <1>1, <1>3, <2>1 DEF KeepTail
  <2>3. /\ KeepTail(s) \in Seq(S) /\ Len(KeepTail(s)) = Cap
        /\ \A k \in 1..Cap : KeepTail(s)[k] = s[o + k]
    BY <2>2, Rest
  <2>4. Cap + o = Len(s)
    BY <1>1, <2>1
  <2>5. /\ Len(KeepTail(s)) + o = Len(s)
        /\ \A k \in 1..Len(KeepTail(s)) : KeepTail(s)[k] = s[o + k]
    BY <2>3, <2>4
  <2>6. KeepTail(s) \in Seq(S) /\ Len(KeepTail(s)) <= Cap
    BY <1>1, <2>3
  <2> QED
    BY <1>3, <2>2, <2>5, <2>6
<1> QED
  BY <1>2, <1>3

LEMMA RunIs ==
  ASSUME NEW n \in Nat
  PROVE  /\ Run(n) \in Seq(Nat \X Nat) /\ Len(Run(n)) = n
         /\ \A k \in 1..n : Run(n)[k] = <<1, k>>
<1>1. \A k \in 1..n : <<1, k>> \in Nat \X Nat
  OBVIOUS
<1>2. Run(n) \in [1..n -> Nat \X Nat] /\ \A k \in 1..n : Run(n)[k] = <<1, k>>
  BY <1>1 DEF Run
<1> HIDE DEF Run
<1>3. Run(n) \in Seq(Nat \X Nat)
  BY <1>2
<1>4. DOMAIN Run(n) = 1..n
  BY <1>2
<1> QED
  BY <1>2, <1>3, <1>4

\* A sequence with the length and the elements of a run is that run.
LEMMA IsRun ==
  ASSUME NEW S, NEW s \in Seq(S), NEW n \in Nat, Len(s) = n, \A k \in 1..n : s[k] = <<1, k>>
  PROVE  s = Run(n)
<1>1. DOMAIN s = 1..n /\ s = [k \in 1..n |-> s[k]]
  OBVIOUS
<1> QED
  BY <1>1 DEF Run

\* The terminal after the lines of a log were shown that follow all it has.
LEMMA Shows ==
  ASSUME NEW d, d.log \in Seq(Line), Len(d.log) <= Cap + 1, ShowLines(d),
         lastLen \in 0..(Cap + 1), shown \in Seq(Line), TerminalInOrder,
         Unshown(d.log), Follows(d.log, d.log),
         \A k \in DOMAIN shown : Past(shown[k]), \A k \in DOMAIN d.log : Past(d.log[k])
  PROVE  /\ lastLen' \in 0..(Cap + 1) /\ lastLen' >= lastLen /\ lastLen' >= Len(d.log)
         /\ shown' \in Seq(Line) /\ TerminalInOrder' /\ \A k \in DOMAIN shown' : Past(shown'[k])
         /\ \A h \in Seq(Line) : Unshown(h) /\ Follows(d.log, h) => Continues(h, shown', lastLen')
         /\ \A n \in Nat : shown = Run(lastLen) /\ d.log = Run(n) =>
              shown' = Run(lastLen') /\ (lastLen' = lastLen \/ lastLen' = n)
<1>1. PICK g \in Seq(Line), l \in Nat, m \in Nat : g = d.log /\ l = lastLen /\ m = Len(g)
  <2>1. lastLen \in Nat /\ Len(d.log) \in Nat
    BY WatchAssumption
  <2> QED
    BY <2>1
<1>2. Cap \in Nat /\ m <= Cap + 1 /\ DOMAIN g = 1..m /\ l <= Cap + 1
  BY <1>1, WatchAssumption
<1>3. CASE ~(m > l)
  <2>1. lastLen' = lastLen /\ shown' = shown
    BY <1>1, <1>3 DEF ShowLines
  <2>2. lastLen' >= m /\ lastLen' >= lastLen
    BY <1>1, <1>3, <2>1
  <2>3. TerminalInOrder'
    BY <2>1 DEF TerminalInOrder
  <2>4. \A h \in Seq(Line) : Unshown(h) => Continues(h, shown', lastLen')
    BY <2>1 DEF Unshown
  <2> QED
    BY <1>1, <2>1, <2>2, <2>3, <2>4
<1>4. CASE m > l
  <2>1. PICK r \in Seq(Line) : r = SubSeq(g, l + 1, m)
    <3>1. l \in 0..Len(g)
      BY <1>1, <1>4
    <3> QED
      BY <1>1, <3>1, Rest
  <2>2. Len(r) = m - l /\ \A k \in 1..(m - l) : r[k] = g[l + k]
    <3>1. l \in 0..Len(g)
      BY <1>1, <1>4
    <3> QED
      BY <1>1, <2>1, <3>1, Rest
  <2>3. PICK s \in Seq(Line), p \in Nat : s = shown /\ p = Len(s)
    OBVIOUS
  <2>4. lastLen' = m /\ shown' = s \o r
    BY <1>1, <1>4, <2>1, <2>3 DEF ShowLines
  <2>5. PICK t \in Seq(Line) : t = shown' /\ t = s \o r
    BY <2>4, Joined
  <2>6. /\ Len(t) = p + (m - l) /\ DOMAIN s = 1..p /\ DOMAIN t = 1..(p + (m - l))
        /\ \A k \in 1..p : t[k] = s[k]
        /\ \A k \in 1..(m - l) : t[p + k] = r[k]
    <3>1. /\ Len(t) = Len(s) + Len(r)
          /\ \A k \in 1..Len(s) : t[k] = s[k]
          /\ \A k \in 1..Len(r) : t[Len(s) + k] = r[k]
      BY <2>5, Joined
    <3>2. Len(t) = p + (m - l)
      BY <2>2, <2>3, <3>1
    <3>3. DOMAIN s = 1..p /\ DOMAIN t = 1..(p + (m - l))
      BY <2>3, <3>2
    <3> QED
      BY <2>2, <2>3, <3>1, <3>2, <3>3
  \* An element of the new terminal is one of the old, or one of the log.
  <2>7. \A k \in DOMAIN t : \/ k \in 1..p /\ t[k] = s[k]
                            \/ k - p + l \in (l + 1)..m /\ k > p /\ t[k] = g[k - p + l]
    <3> SUFFICES ASSUME NEW k \in 1..(p + (m - l)), k \notin 1..p
                 PROVE  k - p + l \in (l + 1)..m /\ k > p /\ t[k] = g[k - p + l]
      BY <2>6
    <3>1. k - p \in 1..(m - l) /\ k > p /\ p + (k - p) = k /\ l + (k - p) = k - p + l
      BY <1>4, SMTT(40)
    <3>2. t[p + (k - p)] = r[k - p] /\ r[k - p] = g[l + (k - p)]
      BY <2>2, <2>6, <3>1
    <3>3. k - p + l \in (l + 1)..m
      BY <1>4, <3>1, SMTT(40)
    <3> QED
      BY <3>1, <3>2, <3>3
  <2>8. \A k \in (l + 1)..m : k \in DOMAIN g /\ k > l
    BY <1>2
  <2>9. \A k \in DOMAIN t : Past(t[k])
    BY <1>1, <2>3, <2>6, <2>7, <2>8
  <2>10. \A i \in 1..p, j \in DOMAIN g : j > l => Precedes(s[i], g[j])
    BY <1>1, <2>3, <2>6 DEF Unshown, Continues
  <2>11. TerminalInOrder'
    <3> SUFFICES ASSUME NEW i \in DOMAIN t, NEW j \in DOMAIN t, i < j PROVE Precedes(t[i], t[j])
      BY <2>5 DEF TerminalInOrder, Precedes
    <3>1. CASE j \in 1..p
      <4>1. i \in 1..p /\ t[i] = s[i] /\ t[j] = s[j]
        BY <2>6, <3>1
      <4> QED
        BY <2>3, <2>6, <3>1, <4>1 DEF TerminalInOrder, Precedes
    <3>2. CASE j \notin 1..p
      <4>1. j - p + l \in (l + 1)..m /\ t[j] = g[j - p + l]
        BY <2>7, <3>2
      <4>2. CASE i \in 1..p
        BY <2>6, <2>8, <2>10, <4>1, <4>2
      <4>3. CASE i \notin 1..p
        <5>1. i - p + l \in (l + 1)..m /\ t[i] = g[i - p + l]
          BY <2>7, <4>3
        <5>2. i - p + l < j - p + l
          BY <2>6, SMTT(40)
        <5>3. i - p + l \in DOMAIN g /\ j - p + l \in DOMAIN g
          BY <2>8, <4>1, <5>1
        <5>4. Precedes(g[i - p + l], g[j - p + l])
          BY <1>1, <5>2, <5>3 DEF Follows
        <5> QED
          BY <4>1, <5>1, <5>4
      <4> QED
        BY <4>2, <4>3
    <3> QED
      BY <3>1, <3>2
  <2>12. ASSUME NEW h \in Seq(Line), Unshown(h), Follows(g, h)
         PROVE  Continues(h, t, m)
    <3> SUFFICES ASSUME NEW i \in DOMAIN t, NEW j \in DOMAIN h, j > m PROVE Precedes(t[i], h[j])
      BY DEF Continues
    <3>1. j > l
      BY <1>4
    <3>2. CASE i \in 1..p
      BY <1>1, <2>3, <2>6, <2>12, <3>1, <3>2 DEF Unshown, Continues
    <3>3. CASE i \notin 1..p
      <4>1. i - p + l \in (l + 1)..m /\ t[i] = g[i - p + l]
        BY <2>7, <3>3
      <4>2. i - p + l \in DOMAIN g /\ i - p + l < j
        BY <2>8, <4>1
      <4> QED
        BY <2>12, <4>1, <4>2 DEF Follows
    <3> QED
      BY <3>2, <3>3
  <2>13. ASSUME NEW n \in Nat, s = Run(l), g = Run(n)
         PROVE  t = Run(m) /\ m = n
    <3>1. p = l /\ m = n /\ \A k \in 1..l : s[k] = <<1, k>>
      BY <1>1, <2>3, <2>13, RunIs
    <3>2. \A k \in 1..m : g[k] = <<1, k>>
      BY <2>13, <3>1, RunIs
    <3>3. Len(t) = m
      BY <1>4, <2>6, <3>1
    <3>4. ASSUME NEW k \in 1..m PROVE t[k] = <<1, k>>
      <4>1. k \in DOMAIN t
        BY <1>4, <2>6, <3>1
      <4>2. CASE k \in 1..p
        BY <2>6, <3>1, <4>2
      <4>3. CASE k \notin 1..p
        <5>1. t[k] = g[k - p + l] /\ k - p + l = k
          BY <2>7, <3>1, <4>1, <4>3, SMTT(40)
        <5> QED
          BY <3>2, <5>1
      <4> QED
        BY <4>2, <4>3
    <3> QED
      BY <3>1, <3>3, <3>4, IsRun
  <2>14. lastLen' \in 0..(Cap + 1) /\ lastLen' >= lastLen /\ lastLen' >= Len(d.log)
    BY <1>1, <1>2, <1>4, <2>4
  <2>15. \A h \in Seq(Line) : Unshown(h) /\ Follows(d.log, h) => Continues(h, shown', lastLen')
    BY <1>1, <2>4, <2>5, <2>12
  <2>16. \A n \in Nat : shown = Run(lastLen) /\ d.log = Run(n) =>
           shown' = Run(lastLen') /\ lastLen' = n
    BY <1>1, <2>3, <2>4, <2>5, <2>13
  <2> QED
    BY <2>5, <2>9, <2>11, <2>14, <2>15, <2>16
<1> QED
  BY <1>3, <1>4

-----------------------------------------------------------------------------
(* The invariant of the build watch.                                       *)

LEMMA Snapshots ==
  /\ \A d : Snapshot(d) # Close /\ Snapshot(d).data = d
  /\ \A d \in Seen : Snapshot(d) \in Messages
  /\ NotFound \in Seen /\ NotFound.log = <<>> /\ NotFound.status = "not_found"
<1>1. \A d : Snapshot(d).kind = "snapshot" /\ Snapshot(d).data = d /\ Close.kind = "close"
  BY DEF Snapshot, Close
<1>2. \A d \in Seen : Snapshot(d) \in Messages
  BY DEF Snapshot, Messages
<1>3. <<>> \in Seq(Line) /\ 0 \in 0..Lines
  BY WatchAssumption
<1>4. NotFound \in Seen /\ NotFound.log = <<>> /\ NotFound.status = "not_found"
  BY <1>3 DEF NotFound, Seen
<1> QED
  BY <1>1, <1>2, <1>4

LEMMA WatchSplit ==
  ASSUME WatchTyped
  PROVE  /\ rec \in Seen /\ rec.log \in Seq(Line) /\ Len(rec.log) <= Cap + 1
         /\ chan \in Seq(Messages) /\ Waiting \subseteq 1..Len(chan) /\ Len(chan) \in Nat
         /\ \A i \in Waiting : /\ chan[i].data \in Seen /\ chan[i].data.log \in Seq(Line)
                               /\ Len(chan[i].data.log) <= Cap + 1
         /\ attempt \in Nat /\ emitted \in Nat /\ lastLen \in Nat
<1>1. /\ rec.status \in Status /\ rec.prog \in 0..Lines /\ LogOf(rec)
      /\ attempt \in 0..Attempts /\ emitted \in 0..Lines /\ lastLen \in 0..(Cap + 1)
      /\ \A i \in DOMAIN chan : chan[i] = Close \/ LogOf(chan[i].data)
      /\ rec \in [status : Status, prog : 0..emitted, log : Seq(Line)] /\ chan \in Seq(Messages)
  BY DEF WatchTyped, TypeOK
<1>2. rec \in Seen /\ rec.log \in Seq(Line) /\ Len(rec.log) <= Cap + 1
  BY <1>1 DEF Seen, LogOf
<1>3. Waiting \subseteq 1..Len(chan) /\ Len(chan) \in Nat
  BY <1>1 DEF Waiting
<1>4. ASSUME NEW i \in Waiting
      PROVE  /\ chan[i].data \in Seen /\ chan[i].data.log \in Seq(Line)
             /\ Len(chan[i].data.log) <= Cap + 1
  <2>1. i \in DOMAIN chan /\ chan[i] # Close
    BY DEF Waiting
  <2>2. chan[i] \in Messages
    BY <1>1, <2>1
  <2>3. chan[i].data \in Seen
    BY <2>1, <2>2 DEF Messages
  <2> QED
    BY <1>1, <2>1, <2>3 DEF Seen, LogOf
<1>5. attempt \in Nat /\ emitted \in Nat /\ lastLen \in Nat
  BY <1>1, WatchAssumption
<1> QED
  BY <1>1, <1>2, <1>3, <1>4, <1>5

\* The channel loses its first o messages and those after the next m, and gets
\* new ones: snapshots of the record, "not found" and the close.
Passes(o, m) ==
  /\ chan' \in Seq(Messages)
  /\ \A k \in DOMAIN chan' :
       \/ k <= m /\ k + o \in DOMAIN chan /\ chan'[k] = chan[k + o]
       \/ k > m /\ chan'[k] \in {Close, Snapshot(NotFound), Snapshot(rec)}

LEMMA PassedOn ==
  ASSUME WatchTyped, Chronicle, NEW o \in {0, 1}, NEW m \in Nat, Passes(o, m)
  PROVE  /\ \A i \in Waiting' : \/ i + o \in Waiting /\ chan'[i] = chan[i + o]
                                \/ chan'[i].data = NotFound
                                \/ chan'[i].data = rec
         /\ \A i \in Waiting' : Follows(chan'[i].data.log, rec.log)
         /\ \A i, j \in Waiting' : i <= j => Follows(chan'[i].data.log, chan'[j].data.log)
<1>1. \A i \in Waiting' : \/ i <= m /\ i + o \in Waiting /\ chan'[i] = chan[i + o]
                          \/ i > m /\ chan'[i].data = NotFound
                          \/ i > m /\ chan'[i].data = rec
  <2> SUFFICES ASSUME NEW i \in DOMAIN chan', chan'[i] # Close
               PROVE  \/ i <= m /\ i + o \in Waiting /\ chan'[i] = chan[i + o]
                      \/ i > m /\ chan'[i].data = NotFound
                      \/ i > m /\ chan'[i].data = rec
    BY DEF Waiting
  <2>1. \/ i <= m /\ i + o \in DOMAIN chan /\ chan'[i] = chan[i + o]
        \/ i > m /\ chan'[i] \in {Close, Snapshot(NotFound), Snapshot(rec)}
    BY DEF Passes
  <2> QED
    BY <2>1, Snapshots DEF Waiting
<1>2. Waiting' \subseteq Nat
  BY DEF Waiting, Passes
<1>3. \A h : Follows(NotFound.log, h) /\ Follows(h, NotFound.log)
  BY Snapshots DEF Follows
<1>4. \A i \in Waiting' : Follows(chan'[i].data.log, rec.log)
  BY <1>1, <1>3 DEF Chronicle
<1>5. ASSUME NEW i \in Waiting', NEW j \in Waiting', i <= j
      PROVE  Follows(chan'[i].data.log, chan'[j].data.log)
  <2>1. CASE j > m /\ chan'[j].data = NotFound
    BY <1>3, <2>1
  <2>2. CASE j > m /\ chan'[j].data = rec
    BY <1>4, <2>2
  <2>3. CASE j <= m /\ j + o \in Waiting /\ chan'[j] = chan[j + o]
    <3>1. i <= m /\ i + o <= j + o
      BY <1>2, <1>5, <2>3
    <3>2. i + o \in Waiting /\ chan'[i] = chan[i + o]
      BY <1>1, <1>2, <3>1
    <3> QED
      BY <2>3, <3>1, <3>2 DEF Chronicle
  <2> QED
    BY <1>1, <2>1, <2>2, <2>3
<1>6. \A i \in Waiting' : \/ i + o \in Waiting /\ chan'[i] = chan[i + o]
                          \/ chan'[i].data = NotFound
                          \/ chan'[i].data = rec
  BY <1>1
<1> QED
  BY <1>4, <1>5, <1>6

\* A step of the tail, of the bridge or of the client: the record stays.
LEMMA WatchMoves ==
  ASSUME WatchInv, UNCHANGED recVars, NEW o \in {0, 1}, NEW m \in Nat, Passes(o, m),
         srv' \in {"none", "tailing", "ended"}, missing' \in 0..(Misses + 1),
         srv' # "ended" => missing' <= Misses,
         link' \in {"connecting", "open", "closed"}, link' # "closed" => link # "closed",
         settled' \in BOOLEAN, polls' \in 0..Polls,
         poller' \in {"off", "waiting", "applying", "stopped"}, poller' # "off" => link' = "closed",
         writing'["poll"] > 0 => poller' # "off",
         writing' \in [Handlers -> 0..Files],
         loaded' \in Nat, failed' \in BOOLEAN, building' \in BOOLEAN,
         lastLen' \in 0..(Cap + 1), shown' \in Seq(Line), TerminalInOrder',
         \A k \in DOMAIN shown' : Past(shown'[k]),
         Continues(rec.log, shown', lastLen'),
         link' # "closed" =>
           \A i \in Waiting : i > o => Continues(chan[i].data.log, shown', lastLen'),
         loaded' > 0 \/ (\E h \in Handlers : writing'[h] > 0) =>
           rec.status = "complete" /\ Len(rec.log) <= lastLen',
         attempt <= 1 /\ emitted <= Cap /\ rec.status # "error" =>
           lastLen' <= emitted /\ shown' = Run(lastLen')
  PROVE  WatchInv'
<1>1. /\ WatchTyped /\ TypeOK /\ Chronicle /\ Passed /\ ShownFirst /\ Completed /\ FirstRun
      /\ rec' = rec /\ attempt' = attempt /\ emitted' = emitted /\ mine' = mine /\ route' = route
  BY DEF WatchInv, WatchTyped, recVars
<1>2. /\ rec \in Seen /\ rec.log \in Seq(Line) /\ Len(rec.log) <= Cap + 1
      /\ chan \in Seq(Messages) /\ Waiting \subseteq 1..Len(chan) /\ Len(chan) \in Nat
      /\ \A i \in Waiting : /\ chan[i].data \in Seen /\ chan[i].data.log \in Seq(Line)
                            /\ Len(chan[i].data.log) <= Cap + 1
      /\ attempt \in Nat /\ emitted \in Nat /\ lastLen \in Nat
  BY <1>1, WatchSplit
<1>3. /\ \A i \in Waiting' : \/ i + o \in Waiting /\ chan'[i] = chan[i + o]
                             \/ chan'[i].data = NotFound
                             \/ chan'[i].data = rec
      /\ \A i \in Waiting' : Follows(chan'[i].data.log, rec.log)
      /\ \A i, j \in Waiting' : i <= j => Follows(chan'[i].data.log, chan'[j].data.log)
  BY <1>1, PassedOn
<1>4. NotFound \in Seen /\ NotFound.log = <<>> /\ NotFound.status = "not_found" /\ <<>> \in Seq(Line)
      /\ Len(<<>>) = 0 /\ DOMAIN <<>> = {} /\ Cap \in Nat
  BY Snapshots, WatchAssumption
<1>5. /\ rec.status \in Status /\ rec.prog \in 0..Lines /\ LogOf(rec)
      /\ attempt \in 0..Attempts /\ emitted \in 0..Lines /\ mine \in BOOLEAN /\ route \in Routes
  BY <1>1 DEF TypeOK
<1>6. \A i \in DOMAIN chan' : chan'[i] = Close \/ LogOf(chan'[i].data)
  <2>1. \A i \in Waiting' : chan'[i].data.log \in Seq(Line) /\ Len(chan'[i].data.log) <= Cap + 1
    <3> SUFFICES ASSUME NEW i \in Waiting'
                 PROVE  chan'[i].data.log \in Seq(Line) /\ Len(chan'[i].data.log) <= Cap + 1
      OBVIOUS
    <3>1. CASE i + o \in Waiting /\ chan'[i] = chan[i + o]
      BY <1>2, <3>1
    <3>2. CASE chan'[i].data = NotFound
      <4>1. 0 <= Cap + 1
        BY <1>4
      <4> QED
        BY <1>4, <3>2, <4>1
    <3>3. CASE chan'[i].data = rec
      BY <1>2, <3>3
    <3> QED
      BY <1>3, <3>1, <3>2, <3>3
  <2> QED
    BY <2>1 DEF Waiting, LogOf
<1>7. TypeOK'
  <2>1. /\ rec'.status \in Status /\ rec'.prog \in 0..Lines /\ LogOf(rec)'
        /\ attempt' \in 0..Attempts /\ emitted' \in 0..Lines /\ mine' \in BOOLEAN /\ route' \in Routes
    BY <1>1, <1>5 DEF LogOf
  <2>2. \A i \in DOMAIN chan' : chan'[i] = Close \/ (chan'[i].data.log \in Seq(Line) /\ Len(chan'[i].data.log) <= Cap + 1)
    BY <1>6 DEF LogOf
  <2> QED
    BY <2>1, <2>2 DEF TypeOK, LogOf
<1>8. WatchTyped'
  <2>1. chan' \in Seq(Messages)
    BY DEF Passes
  <2> QED
    BY <1>1, <1>7, <2>1 DEF WatchTyped
<1>9. Chronicle'
  BY <1>1, <1>3 DEF Chronicle
<1>10. Passed'
  <2>1. \A l : Past(l)' <=> Past(l)
    BY <1>1 DEF Past, Logged
  <2>2. \A i \in Waiting' : \A k \in DOMAIN chan'[i].data.log : Past(chan'[i].data.log[k])
    BY <1>1, <1>3, <1>4 DEF Passed
  <2> QED
    BY <1>1, <2>1, <2>2 DEF Passed
<1>11. ShownFirst'
  <2>1. ASSUME link' # "closed", NEW i \in Waiting'
        PROVE  Continues(chan'[i].data.log, shown', lastLen')
    <3>1. CASE i + o \in Waiting /\ chan'[i] = chan[i + o]
      <4>1. i \in Nat /\ i > 0
        BY DEF Waiting, Passes
      <4>2. i + o > o
        BY <4>1
      <4> QED
        BY <2>1, <3>1, <4>2
    <3>2. CASE chan'[i].data = NotFound
      BY <1>4, <3>2 DEF Continues
    <3>3. CASE chan'[i].data = rec
      BY <3>3
    <3> QED
      BY <1>3, <3>1, <3>2, <3>3
  <2> QED
    BY <1>1, <2>1 DEF ShownFirst, Unshown
<1>12. Completed'
  <2>1. \A i \in Waiting' : chan'[i].data.status = "complete" =>
          rec.status = "complete" /\ chan'[i].data.log = rec.log
    BY <1>1, <1>3, <1>4 DEF Completed
  <2> QED
    BY <1>1, <2>1 DEF Completed
<1>13. FirstRun'
  <2>1. ASSUME attempt <= 1, emitted <= Cap, rec.status # "error"
        PROVE  \A i \in Waiting' : \E n \in 0..emitted : chan'[i].data.log = Run(n)
    <3>1. rec.log = Run(emitted) /\ \A i \in Waiting : \E n \in 0..emitted : chan[i].data.log = Run(n)
      BY <1>1, <2>1 DEF FirstRun
    <3>2. <<>> = Run(0) /\ 0 \in 0..emitted /\ emitted \in 0..emitted
      <4>1. 0 \in 0..emitted /\ emitted \in 0..emitted
        BY <1>2
      <4>2. <<>> = Run(0)
        BY RunIs
      <4> QED
        BY <4>1, <4>2
    <3> QED
      BY <1>3, <1>4, <3>1, <3>2
  <2> QED
    BY <1>1, <2>1 DEF FirstRun
<1> QED
  BY <1>1, <1>8, <1>9, <1>10, <1>11, <1>12, <1>13 DEF WatchInv

\* A step of the record: the lines its log keeps are no earlier than they were,
\* and a new line is later than all that were logged before.
LEMMA RecordMoves ==
  ASSUME WatchInv, UNCHANGED <<mine, route, srvVars, chan, link, settled, poller, polls, writing, uiVars>>,
         attempt' \in 0..Attempts, emitted' \in 0..Lines,
         rec' \in [status : Status, prog : 0..emitted', log : Seq(Line)],
         Len(rec'.log) <= Cap + 1, rec'.status = "running" => Len(rec'.log) <= Cap,
         rec'.status \in {"absent", "queued"} <=> attempt' = 0, attempt' = 0 => emitted' = 0,
         \A l \in Line : Past(l) => Logged(l, attempt', emitted', rec'.status = "running"),
         \A j \in DOMAIN rec'.log : Logged(rec'.log[j], attempt', emitted', rec'.status = "running"),
         \A j \in DOMAIN rec'.log :
           \/ \E k \in DOMAIN rec.log : j <= k /\ rec'.log[j] = rec.log[k]
           \/ \A l \in Line : Past(l) => Precedes(l, rec'.log[j]),
         Follows(rec'.log, rec'.log),
         rec.status # "complete",
         attempt' <= 1 /\ emitted' <= Cap /\ rec'.status # "error" =>
           /\ attempt <= 1 /\ emitted <= Cap /\ rec.status # "error" /\ emitted <= emitted'
           /\ rec'.log = Run(emitted')
  PROVE  WatchInv'
<1>1. /\ WatchTyped /\ TypeOK /\ Chronicle /\ Passed /\ ShownFirst /\ Completed /\ FirstRun
      /\ TerminalInOrder
      /\ mine' = mine /\ route' = route /\ srv' = srv /\ missing' = missing /\ chan' = chan
      /\ link' = link /\ settled' = settled /\ poller' = poller /\ polls' = polls
      /\ writing' = writing /\ lastLen' = lastLen /\ shown' = shown /\ loaded' = loaded
      /\ failed' = failed /\ building' = building
  BY DEF WatchInv, WatchTyped, srvVars, uiVars
<1>2. /\ rec \in Seen /\ rec.log \in Seq(Line) /\ Len(rec.log) <= Cap + 1
      /\ chan \in Seq(Messages) /\ Waiting \subseteq 1..Len(chan) /\ Len(chan) \in Nat
      /\ \A i \in Waiting : /\ chan[i].data \in Seen /\ chan[i].data.log \in Seq(Line)
                            /\ Len(chan[i].data.log) <= Cap + 1
      /\ attempt \in Nat /\ emitted \in Nat /\ lastLen \in Nat
  BY <1>1, WatchSplit
<1>3. Waiting' = Waiting
  BY <1>1 DEF Waiting
<1>4. rec'.log \in Seq(Line) /\ rec'.status \in Status /\ rec'.prog \in 0..Lines /\ emitted' \in Nat
  BY WatchAssumption
<1>5. WatchTyped'
  <2>1. LogOf(rec)' /\ \A i \in DOMAIN chan : chan[i] = Close \/ LogOf(chan[i].data)
    BY <1>1, <1>4 DEF LogOf, TypeOK
  <2>2. TypeOK'
    <3>1. \A i \in DOMAIN chan : chan[i] = Close \/ (chan[i].data.log \in Seq(Line) /\ Len(chan[i].data.log) <= Cap + 1)
      BY <2>1 DEF LogOf
    <3> QED
      BY <1>1, <1>4, <3>1 DEF TypeOK, LogOf
  <2> QED
    BY <1>1, <2>2 DEF WatchTyped
<1>6. ASSUME NEW g \in Seq(Line), Follows(g, rec.log), \A k \in DOMAIN g : Past(g[k])
      PROVE  Follows(g, rec'.log)
  <2> SUFFICES ASSUME NEW i \in DOMAIN g, NEW j \in DOMAIN rec'.log, i < j
               PROVE  Precedes(g[i], rec'.log[j])
    BY DEF Follows
  <2>1. CASE \E k \in DOMAIN rec.log : j <= k /\ rec'.log[j] = rec.log[k]
    <3>1. PICK k \in DOMAIN rec.log : j <= k /\ rec'.log[j] = rec.log[k]
      BY <2>1
    <3>2. i \in Nat /\ j \in Nat /\ k \in Nat
      BY <1>2, <1>4, SMTT(40)
    <3>3. i < k
      BY <3>1, <3>2
    <3> QED
      BY <1>6, <3>1, <3>3 DEF Follows
  <2>2. CASE \A l \in Line : Past(l) => Precedes(l, rec'.log[j])
    BY <1>6, <2>2
  <2> QED
    BY <2>1, <2>2
<1>7. Unshown(rec'.log)
  <2> SUFFICES ASSUME NEW i \in DOMAIN shown, NEW j \in DOMAIN rec'.log, j > lastLen
               PROVE  Precedes(shown[i], rec'.log[j])
    BY DEF Unshown, Continues
  <2>1. CASE \E k \in DOMAIN rec.log : j <= k /\ rec'.log[j] = rec.log[k]
    <3>1. PICK k \in DOMAIN rec.log : j <= k /\ rec'.log[j] = rec.log[k]
      BY <2>1
    <3>2. j \in Nat /\ k \in Nat
      BY <1>2, <1>4
    <3>3. k > lastLen
      BY <1>2, <3>1, <3>2
    <3> QED
      BY <1>1, <3>1, <3>3 DEF ShownFirst, Unshown, Continues
  <2>2. CASE \A l \in Line : Past(l) => Precedes(l, rec'.log[j])
    <3>1. shown[i] \in Line /\ Past(shown[i])
      BY <1>1 DEF Passed, TypeOK
    <3> QED
      BY <2>2, <3>1
  <2> QED
    BY <2>1, <2>2
<1>8. Chronicle'
  <2>1. \A i \in Waiting : Follows(chan[i].data.log, rec'.log)
    BY <1>1, <1>2, <1>6 DEF Chronicle, Passed
  <2> QED
    BY <1>1, <1>3, <2>1 DEF Chronicle
<1>9. Passed'
  <2>1. \A k \in DOMAIN shown : Logged(shown[k], attempt', emitted', rec'.status = "running")
    <3>1. \A k \in DOMAIN shown : shown[k] \in Line
      BY <1>1 DEF TypeOK
    <3> QED
      BY <1>1, <3>1 DEF Passed
  <2>2. \A i \in Waiting : \A k \in DOMAIN chan[i].data.log :
          Logged(chan[i].data.log[k], attempt', emitted', rec'.status = "running")
    <3>1. \A i \in Waiting : \A k \in DOMAIN chan[i].data.log : chan[i].data.log[k] \in Line
      BY <1>2
    <3> QED
      BY <1>1, <3>1 DEF Passed
  <2> QED
    BY <1>1, <1>3, <2>1, <2>2 DEF Passed, Past
<1>10. ShownFirst'
  BY <1>1, <1>3, <1>7 DEF ShownFirst, Unshown
<1>11. Completed'
  BY <1>1, <1>3 DEF Completed
<1>12. FirstRun'
  <2>1. ASSUME attempt <= 1, emitted <= Cap, rec.status # "error", emitted <= emitted'
        PROVE  /\ lastLen <= emitted' /\ shown = Run(lastLen)
               /\ \A i \in Waiting : \E n \in 0..emitted' : chan[i].data.log = Run(n)
    <3>1. /\ lastLen <= emitted /\ shown = Run(lastLen)
          /\ \A i \in Waiting : \E n \in 0..emitted : chan[i].data.log = Run(n)
      BY <1>1, <2>1 DEF FirstRun
    <3>2. lastLen <= emitted' /\ \A n \in 0..emitted : n \in 0..emitted'
      BY <1>2, <1>4, <2>1, <3>1
    <3> QED
      BY <3>1, <3>2
  <2> QED
    BY <1>1, <1>3, <2>1 DEF FirstRun
<1>13. TerminalInOrder'
  BY <1>1 DEF TerminalInOrder
<1> QED
  BY <1>5, <1>8, <1>9, <1>10, <1>11, <1>12, <1>13 DEF WatchInv

LEMMA StatusKeeps ==
  ASSUME WatchInv, NEW s \in Status, rec' = [rec EXCEPT !.status = s], rec.status # "complete",
         s = "error" \/ rec.status # "error", s # "running",
         s \in {"absent", "queued"} <=> attempt = 0, attempt' = attempt, emitted' = emitted,
         UNCHANGED <<mine, route, srvVars, chan, link, settled, poller, polls, writing, uiVars>>
  PROVE  WatchInv'
<1>1. WatchTyped /\ TypeOK /\ Chronicle /\ Passed /\ FirstRun
  BY DEF WatchInv, WatchTyped
<1>2. /\ rec \in [status : Status, prog : 0..emitted, log : Seq(Line)]
      /\ Len(rec.log) <= Cap + 1 /\ attempt \in 0..Attempts /\ emitted \in 0..Lines
      /\ attempt \in Nat /\ emitted \in Nat /\ rec.log \in Seq(Line)
      /\ (rec.status = "running" => Len(rec.log) <= Cap) /\ (attempt = 0 => emitted = 0)
  BY <1>1, WatchSplit DEF WatchTyped, TypeOK
<1>3. /\ rec' \in [status : Status, prog : 0..emitted, log : Seq(Line)]
      /\ rec'.log = rec.log /\ rec'.status = s
  BY <1>2
<1>4. \A l : Past(l) => Logged(l, attempt', emitted', rec'.status = "running")
  BY <1>3 DEF Past, Logged
<1>5. \A j \in DOMAIN rec'.log : Logged(rec'.log[j], attempt', emitted', rec'.status = "running")
  BY <1>1, <1>3, <1>4 DEF Passed
<1>6. \A j \in DOMAIN rec'.log : \E k \in DOMAIN rec.log : j <= k /\ rec'.log[j] = rec.log[k]
  <2>1. \A j \in DOMAIN rec.log : j <= j
    BY <1>2
  <2> QED
    BY <1>3, <2>1
<1>7. Follows(rec'.log, rec'.log)
  BY <1>1, <1>3 DEF Chronicle
<1>8. attempt' <= 1 /\ emitted' <= Cap /\ rec'.status # "error" =>
        /\ attempt <= 1 /\ emitted <= Cap /\ rec.status # "error" /\ emitted <= emitted'
        /\ rec'.log = Run(emitted')
  BY <1>1, <1>2, <1>3 DEF FirstRun
<1>9. /\ Len(rec'.log) <= Cap + 1 /\ (rec'.status = "running" => Len(rec'.log) <= Cap)
      /\ (rec'.status \in {"absent", "queued"} <=> attempt' = 0) /\ (attempt' = 0 => emitted' = 0)
      /\ attempt' \in 0..Attempts /\ emitted' \in 0..Lines
      /\ rec' \in [status : Status, prog : 0..emitted', log : Seq(Line)]
  BY <1>2, <1>3
<1> QED
  BY <1>4, <1>5, <1>6, <1>7, <1>8, <1>9, RecordMoves

LEMMA BeginKeeps ==
  ASSUME WatchInv, Begin,
         UNCHANGED <<srvVars, chan, link, settled, poller, polls, writing, uiVars>>
  PROVE  WatchInv'
<1>1. WatchTyped /\ TypeOK /\ FirstRun
  BY DEF WatchInv, WatchTyped
<1>2. /\ attempt \in 0..Attempts /\ attempt \in Nat /\ attempt < Attempts /\ Attempts \in Nat
      /\ rec.status \in {"queued", "running", "error"} /\ attempt' = attempt + 1 /\ emitted' = 0
      /\ mine' = mine /\ route' = route
      /\ rec' = [status |-> "running", prog |-> 0, log |-> <<>>]
      /\ (rec.status \in {"absent", "queued"} <=> attempt = 0) /\ (attempt = 0 => emitted = 0)
  BY <1>1, WatchAssumption DEF Begin, WatchTyped, TypeOK
<1>3. <<>> \in Seq(Line) /\ Len(<<>>) = 0 /\ DOMAIN <<>> = {} /\ 0 \in 0..0 /\ 0 \in 0..Lines
      /\ "running" \in Status /\ Cap \in Nat /\ 0 <= Cap
  BY WatchAssumption DEF Status
<1>4. rec'.status = "running" /\ rec'.log = <<>>
      /\ rec' \in [status : Status, prog : 0..emitted', log : Seq(Line)]
  BY <1>2, <1>3
<1>5. \A l \in Line : Past(l) => Logged(l, attempt', emitted', rec'.status = "running")
  <2>1. \A l \in Line : l[1] \in 1..Attempts
    BY DEF Line
  <2> QED
    BY <1>2, <2>1 DEF Past, Logged
<1>6. \A j \in DOMAIN rec'.log : FALSE
  BY <1>3, <1>4
<1>7. Follows(rec'.log, rec'.log)
  BY <1>6 DEF Follows
<1>8. attempt' <= 1 => attempt = 0 /\ emitted = 0 /\ rec.status # "error"
  BY <1>2
<1>9. Run(0) = <<>>
  BY RunIs
<1>10. attempt' <= 1 /\ emitted' <= Cap /\ rec'.status # "error" =>
         /\ attempt <= 1 /\ emitted <= Cap /\ rec.status # "error" /\ emitted <= emitted'
         /\ rec'.log = Run(emitted')
  BY <1>2, <1>3, <1>4, <1>8, <1>9
<1>11. /\ Len(rec'.log) <= Cap + 1 /\ Len(rec'.log) <= Cap
       /\ (rec'.status \in {"absent", "queued"} <=> attempt' = 0) /\ (attempt' = 0 => emitted' = 0)
       /\ attempt' \in 0..Attempts /\ emitted' \in 0..Lines
  BY <1>2, <1>3, <1>4
<1>12. UNCHANGED <<mine, route, srvVars, chan, link, settled, poller, polls, writing, uiVars>>
  BY <1>2
<1> QED
  BY <1>2, <1>4, <1>5, <1>6, <1>7, <1>10, <1>11, <1>12, RecordMoves

\* The end K of the log with a new last line x.
LEMMA LogGrows ==
  ASSUME WatchInv, NEW x \in Line, \A l \in Line : Past(l) => Precedes(l, x),
         NEW K \in Seq(Line), NEW o \in Nat, Len(K) + o = Len(rec.log) + 1,
         \A k \in 1..Len(K) : K[k] = Append(rec.log, x)[o + k]
  PROVE  /\ \A j \in DOMAIN K : \/ \E k \in DOMAIN rec.log : j <= k /\ K[j] = rec.log[k]
                                \/ K[j] = x
         /\ Follows(K, K)
<1>1. WatchTyped /\ Chronicle /\ Passed
  BY DEF WatchInv
<1>2. PICK g \in Seq(Line), m \in Nat, n \in Nat : g = rec.log /\ m = Len(g) /\ n = Len(K)
  <2>1. rec.log \in Seq(Line)
    BY <1>1, WatchSplit
  <2>2. Len(rec.log) \in Nat /\ Len(K) \in Nat
    BY <2>1
  <2> QED
    BY <2>1, <2>2
<1>3. n + o = m + 1 /\ DOMAIN K = 1..n /\ DOMAIN g = 1..m
  BY <1>2
<1>4. ASSUME NEW j \in 1..n
      PROVE  \/ o + j \in 1..m /\ j <= o + j /\ K[j] = g[o + j]
             \/ o + j = m + 1 /\ K[j] = x
  <2>1. K[j] = Append(g, x)[o + j] /\ o + j \in 1..(m + 1)
    BY <1>2, <1>3
  <2>2. CASE o + j = m + 1
    <3>1. Append(g, x)[m + 1] = x
      BY <1>2
    <3> QED
      BY <2>1, <2>2, <3>1
  <2>3. CASE o + j # m + 1
    <3>1. o + j \in 1..m
      BY <2>1, <2>3
    <3>2. Append(g, x)[o + j] = g[o + j]
      BY <1>2, <3>1
    <3> QED
      BY <2>1, <3>1, <3>2
  <2> QED
    BY <2>2, <2>3
<1>5. ASSUME NEW i \in 1..n, NEW j \in 1..n, i < j PROVE Precedes(K[i], K[j])
  <2>1. o + i < o + j /\ o + j \in 1..(m + 1)
    BY <1>3, <1>5
  <2>2. o + i \in 1..m /\ K[i] = g[o + i]
    BY <1>4, <2>1
  <2>3. Past(g[o + i]) /\ g[o + i] \in Line
    BY <1>1, <1>2, <1>3, <2>2 DEF Passed
  <2>4. CASE o + j \in 1..m /\ K[j] = g[o + j]
    BY <1>1, <1>2, <1>3, <2>1, <2>2, <2>4 DEF Chronicle, Follows
  <2>5. CASE K[j] = x
    BY <2>2, <2>3, <2>5
  <2> QED
    BY <1>4, <2>4, <2>5
<1>6. Follows(K, K)
  BY <1>3, <1>5 DEF Follows
<1>7. \A j \in DOMAIN K : \/ \E k \in DOMAIN rec.log : j <= k /\ K[j] = rec.log[k]
                          \/ K[j] = x
  BY <1>2, <1>3, <1>4
<1> QED
  BY <1>6, <1>7

LEMMA ReportKeeps ==
  ASSUME WatchInv, Report,
         UNCHANGED <<srvVars, chan, link, settled, poller, polls, writing, uiVars>>
  PROVE  WatchInv'
<1>1. WatchTyped /\ TypeOK /\ FirstRun /\ Passed
  BY DEF WatchInv, WatchTyped
<1>2. PICK a \in Nat, e \in Nat, g \in Seq(Line) : a = attempt /\ e = emitted /\ g = rec.log
  BY <1>1, WatchSplit
<1>3. /\ a \in 1..Attempts /\ e + 1 \in 1..Lines /\ rec.status = "running"
      /\ attempt' = attempt /\ emitted' = e + 1 /\ mine' = mine /\ route' = route
      /\ rec \in [status : Status, prog : 0..e, log : Seq(Line)] /\ Len(g) <= Cap
  <2>1. attempt \in 0..Attempts /\ attempt # 0 /\ Attempts \in Nat /\ Lines \in Nat /\ e < Lines
    BY <1>1, <1>2, WatchAssumption DEF Report, WatchTyped, TypeOK
  <2> QED
    BY <1>1, <1>2, <2>1 DEF Report, WatchTyped
<1>4. PICK x \in Line : x = <<a, e + 1>>
  <2>1. Lines \in Nat
    BY WatchAssumption
  <2>2. e + 1 \in 0..Lines
    BY <1>3, <2>1
  <2> QED
    BY <1>3, <2>2 DEF Line
<1>5. PICK p : /\ p \in {rec.prog, rec.prog + 1}
               /\ rec' = [rec EXCEPT !.prog = p, !.log = KeepTail(Append(g, x))]
  BY <1>2, <1>4 DEF Report
<1>6. p \in 0..(e + 1)
  BY <1>3, <1>5
<1>7. Append(g, x) \in Seq(Line) /\ Len(Append(g, x)) = Len(g) + 1
  OBVIOUS
<1>8. PICK K \in Seq(Line), o \in Nat :
        /\ K = KeepTail(Append(g, x)) /\ Len(K) <= Cap /\ Len(K) + o = Len(g) + 1
        /\ \A k \in 1..Len(K) : K[k] = Append(g, x)[o + k]
        /\ Len(g) + 1 <= Cap => K = Append(g, x)
  <2>1. PICK L \in Seq(Line) : L = Append(g, x)
    BY <1>7
  <2>2. /\ KeepTail(L) \in Seq(Line) /\ Len(KeepTail(L)) <= Cap
        /\ Len(L) <= Cap => KeepTail(L) = L
        /\ \E o \in Nat : /\ Len(KeepTail(L)) + o = Len(L)
                          /\ \A k \in 1..Len(KeepTail(L)) : KeepTail(L)[k] = L[o + k]
    BY KeepsTail
  <2> QED
    BY <1>7, <2>1, <2>2
<1>9. /\ rec' \in [status : Status, prog : 0..(e + 1), log : Seq(Line)]
      /\ rec'.log = K /\ rec'.status = "running"
  BY <1>3, <1>5, <1>6, <1>8
<1>10. \A l \in Line : l[1] \in Nat /\ l[2] \in Nat /\ (l = <<l[1], l[2]>>)
  BY WatchAssumption DEF Line
<1>11. \A l \in Line : Past(l) => Precedes(l, x)
  BY <1>2, <1>3, <1>4, <1>10 DEF Past, Logged, Precedes, Before
<1>12. \A l \in Line : Past(l) => Logged(l, attempt', emitted', rec'.status = "running")
  BY <1>2, <1>3, <1>9, <1>10 DEF Past, Logged
<1>13. Logged(x, attempt', emitted', rec'.status = "running")
  BY <1>2, <1>3, <1>4 DEF Logged
<1>14. /\ \A j \in DOMAIN K : \/ \E k \in DOMAIN rec.log : j <= k /\ K[j] = rec.log[k]
                              \/ K[j] = x
       /\ Follows(K, K)
  <2>1. Len(K) + o = Len(rec.log) + 1 /\ \A k \in 1..Len(K) : K[k] = Append(rec.log, x)[o + k]
    BY <1>2, <1>8
  <2> QED
    BY <1>11, <2>1, LogGrows
<1>15. \A j \in DOMAIN K : Logged(K[j], attempt', emitted', rec'.status = "running")
  <2>1. \A k \in DOMAIN g : g[k] \in Line /\ Past(g[k])
    BY <1>1, <1>2 DEF Passed
  <2> QED
    BY <1>2, <1>12, <1>13, <1>14, <2>1
<1>16. ASSUME a <= 1, e + 1 <= Cap
       PROVE  e <= Cap /\ K = Run(e + 1)
  <2>1. e <= Cap /\ a = 1 /\ Cap \in Nat
    BY <1>3, <1>16, WatchAssumption
  <2>2. g = Run(e)
    BY <1>1, <1>2, <1>3, <2>1 DEF FirstRun
  <2>3. Len(g) = e /\ \A k \in 1..e : g[k] = <<1, k>>
    BY <2>2, RunIs
  <2>4. K = Append(g, x)
    BY <1>8, <1>16, <2>3
  <2>5. Len(K) = e + 1 /\ K[e + 1] = <<1, e + 1>> /\ \A k \in 1..e : K[k] = <<1, k>>
    BY <1>4, <2>1, <2>3, <2>4
  <2>6. \A k \in 1..(e + 1) : k \in 1..e \/ k = e + 1
    OBVIOUS
  <2>7. K = Run(e + 1)
    BY <2>5, <2>6, IsRun
  <2> QED
    BY <2>1, <2>7
<1>17. attempt' <= 1 /\ emitted' <= Cap /\ rec'.status # "error" =>
         /\ attempt <= 1 /\ emitted <= Cap /\ rec.status # "error" /\ emitted <= emitted'
         /\ rec'.log = Run(emitted')
  BY <1>2, <1>3, <1>9, <1>16
<1>18. /\ Len(rec'.log) <= Cap + 1 /\ Len(rec'.log) <= Cap
       /\ (rec'.status \in {"absent", "queued"} <=> attempt' = 0) /\ (attempt' = 0 => emitted' = 0)
       /\ attempt' \in 0..Attempts /\ emitted' \in 0..Lines
       /\ rec' \in [status : Status, prog : 0..emitted', log : Seq(Line)]
  <2>1. Lines \in Nat /\ Attempts \in Nat /\ Cap \in Nat
    BY WatchAssumption
  <2>2. Len(K) <= Cap + 1
    BY <1>8, <2>1
  <2> QED
    BY <1>2, <1>3, <1>8, <1>9, <2>1, <2>2
<1>19. UNCHANGED <<mine, route, srvVars, chan, link, settled, poller, polls, writing, uiVars>>
  BY <1>3
<1>20. /\ Follows(rec'.log, rec'.log) /\ rec.status # "complete"
       /\ \A j \in DOMAIN rec'.log : Logged(rec'.log[j], attempt', emitted', rec'.status = "running")
       /\ \A j \in DOMAIN rec'.log :
            \/ \E k \in DOMAIN rec.log : j <= k /\ rec'.log[j] = rec.log[k]
            \/ \A l \in Line : Past(l) => Precedes(l, rec'.log[j])
  BY <1>3, <1>9, <1>11, <1>14, <1>15
<1> QED
  BY <1>12, <1>17, <1>18, <1>19, <1>20, RecordMoves

LEMMA GiveUpKeeps ==
  ASSUME WatchInv, GiveUp,
         UNCHANGED <<srvVars, chan, link, settled, poller, polls, writing, uiVars>>
  PROVE  WatchInv'
<1>1. WatchTyped /\ TypeOK /\ Passed
  BY DEF WatchInv, WatchTyped
<1>2. PICK a \in Nat, e \in Nat, g \in Seq(Line) : a = attempt /\ e = emitted /\ g = rec.log
  BY <1>1, WatchSplit
<1>3. /\ a \in 1..Attempts /\ e \in 0..Lines /\ rec.status = "running"
      /\ attempt' = attempt /\ emitted' = emitted /\ mine' = mine /\ route' = route
      /\ rec \in [status : Status, prog : 0..e, log : Seq(Line)] /\ Len(g) <= Cap
  <2>1. attempt \in 0..Attempts /\ attempt # 0 /\ Attempts \in Nat
    BY <1>1, <1>2, WatchAssumption DEF GiveUp, WatchTyped, TypeOK
  <2> QED
    BY <1>1, <1>2, <2>1 DEF GiveUp, WatchTyped, TypeOK
<1>4. PICK x \in Line : x = <<a, 0>>
  <2>1. 0 \in 0..Lines
    BY WatchAssumption
  <2> QED
    BY <1>3, <2>1 DEF Line
<1>5. rec' = [rec EXCEPT !.status = "error", !.log = Append(g, x)]
  BY <1>2, <1>4 DEF GiveUp
<1>6. PICK K \in Seq(Line), o \in Nat :
        /\ o = 0 /\ K = Append(g, x) /\ Len(K) = Len(g) + 1 /\ Len(K) + o = Len(g) + 1
        /\ \A k \in 1..Len(K) : K[k] = Append(g, x)[o + k]
  <2>1. PICK K \in Seq(Line) : K = Append(g, x)
    BY Appended
  <2>2. Len(K) = Len(g) + 1 /\ Len(K) + 0 = Len(g) + 1 /\ \A k \in 1..Len(K) : 0 + k = k
    BY <2>1
  <2> QED
    BY <2>1, <2>2
<1>7. "error" \in Status
  BY DEF Status
<1>8. /\ rec' \in [status : Status, prog : 0..e, log : Seq(Line)]
      /\ rec'.log = K /\ rec'.status = "error"
  BY <1>3, <1>5, <1>6, <1>7
<1>9. \A l \in Line : l[1] \in Nat /\ l[2] \in Nat
  BY WatchAssumption DEF Line
<1>10. \A l \in Line : Past(l) => Precedes(l, x)
  BY <1>2, <1>3, <1>4, <1>9 DEF Past, Logged, Precedes, Before
<1>11. \A l \in Line : Past(l) => Logged(l, attempt', emitted', rec'.status = "running")
  BY <1>2, <1>3, <1>8 DEF Past, Logged
<1>12. Logged(x, attempt', emitted', rec'.status = "running")
  BY <1>2, <1>3, <1>4, <1>8 DEF Logged
<1>13. /\ \A j \in DOMAIN K : \/ \E k \in DOMAIN rec.log : j <= k /\ K[j] = rec.log[k]
                              \/ K[j] = x
       /\ Follows(K, K)
  <2>1. Len(K) + o = Len(rec.log) + 1 /\ \A k \in 1..Len(K) : K[k] = Append(rec.log, x)[o + k]
    BY <1>2, <1>6
  <2> QED
    BY <1>10, <2>1, LogGrows
<1>14. \A j \in DOMAIN K : Logged(K[j], attempt', emitted', rec'.status = "running")
  <2>1. \A k \in DOMAIN g : g[k] \in Line /\ Past(g[k])
    BY <1>1, <1>2 DEF Passed
  <2> QED
    BY <1>2, <1>11, <1>12, <1>13, <2>1
<1>15. /\ Len(rec'.log) <= Cap + 1 /\ rec'.status # "running"
       /\ (rec'.status \in {"absent", "queued"} <=> attempt' = 0) /\ (attempt' = 0 => emitted' = 0)
       /\ attempt' \in 0..Attempts /\ emitted' \in 0..Lines
       /\ rec' \in [status : Status, prog : 0..emitted', log : Seq(Line)]
  <2>1. Lines \in Nat /\ Attempts \in Nat /\ Cap \in Nat
    BY WatchAssumption
  <2>2. Len(K) <= Cap + 1
    BY <1>3, <1>6, <2>1
  <2> QED
    BY <1>2, <1>3, <1>8, <2>1, <2>2
<1>16. UNCHANGED <<mine, route, srvVars, chan, link, settled, poller, polls, writing, uiVars>>
  BY <1>3
<1>17. /\ Follows(rec'.log, rec'.log) /\ rec.status # "complete"
       /\ \A j \in DOMAIN rec'.log : Logged(rec'.log[j], attempt', emitted', rec'.status = "running")
       /\ \A j \in DOMAIN rec'.log :
            \/ \E k \in DOMAIN rec.log : j <= k /\ rec'.log[j] = rec.log[k]
            \/ \A l \in Line : Past(l) => Precedes(l, rec'.log[j])
  BY <1>3, <1>8, <1>10, <1>13, <1>14
<1> QED
  BY <1>8, <1>11, <1>15, <1>16, <1>17, RecordMoves

LEMMA RecordStepKeeps ==
  ASSUME WatchInv, RecordStep
  PROVE  WatchInv'
<1>1. /\ Queue \/ Begin \/ Report \/ Finish \/ GiveUp
      /\ UNCHANGED <<srvVars, chan, link, settled, poller, polls, writing, uiVars>>
  BY DEF RecordStep
<1>2. WatchTyped
  BY DEF WatchInv
<1>3. CASE Queue
  <2>1. /\ rec' = [rec EXCEPT !.status = "queued"] /\ rec.status = "absent" /\ attempt = 0
        /\ UNCHANGED <<attempt, emitted, mine, route>> /\ "queued" \in Status
    BY <1>2, <1>3 DEF Queue, WatchTyped, Status
  <2>2. UNCHANGED <<mine, route, srvVars, chan, link, settled, poller, polls, writing, uiVars>>
    BY <1>1, <2>1
  <2> QED
    BY <2>1, <2>2, StatusKeeps
<1>4. CASE Finish
  <2>1. /\ rec' = [rec EXCEPT !.status = "complete"] /\ rec.status = "running" /\ attempt # 0
        /\ UNCHANGED <<attempt, emitted, mine, route>> /\ "complete" \in Status
    BY <1>2, <1>4 DEF Finish, WatchTyped, Status
  <2>2. UNCHANGED <<mine, route, srvVars, chan, link, settled, poller, polls, writing, uiVars>>
    BY <1>1, <2>1
  <2> QED
    BY <2>1, <2>2, StatusKeeps
<1> QED
  BY <1>1, <1>3, <1>4, BeginKeeps, ReportKeeps, GiveUpKeeps

\* A step of the tail, or one that only moves the sockets and the poller.
LEMMA QuietMoves ==
  ASSUME WatchInv, UNCHANGED recVars, NEW o \in {0, 1}, NEW m \in Nat, Passes(o, m),
         srv' \in {"none", "tailing", "ended"}, missing' \in 0..(Misses + 1),
         srv' # "ended" => missing' <= Misses,
         link' \in {"connecting", "open", "closed"}, link' # "closed" => link # "closed",
         settled' \in BOOLEAN, polls' \in 0..Polls,
         poller' \in {"off", "waiting", "applying", "stopped"}, poller' # "off" => link' = "closed",
         writing'["poll"] > 0 => poller' # "off",
         writing' \in [Handlers -> 0..Files],
         loaded' \in Nat, failed' \in BOOLEAN, building' \in BOOLEAN,
         loaded' > 0 \/ (\E h \in Handlers : writing'[h] > 0) =>
           loaded > 0 \/ (\E h \in Handlers : writing[h] > 0),
         UNCHANGED <<lastLen, shown>>
  PROVE  WatchInv'
<1>1. WatchTyped /\ TypeOK /\ Passed /\ ShownFirst /\ Completed /\ FirstRun /\ TerminalInOrder
  BY DEF WatchInv, WatchTyped
<1>2. lastLen' = lastLen /\ shown' = shown
  OBVIOUS
<1>3. lastLen' \in 0..(Cap + 1) /\ shown' \in Seq(Line) /\ \A k \in DOMAIN shown' : Past(shown'[k])
  BY <1>1, <1>2 DEF TypeOK, Passed
<1>4. TerminalInOrder'
  BY <1>1, <1>2 DEF TerminalInOrder
<1>5. /\ Continues(rec.log, shown', lastLen')
      /\ link' # "closed" => \A i \in Waiting : Continues(chan[i].data.log, shown', lastLen')
  BY <1>1, <1>2 DEF ShownFirst, Unshown
<1>6. loaded' > 0 \/ (\E h \in Handlers : writing'[h] > 0) =>
        rec.status = "complete" /\ Len(rec.log) <= lastLen'
  BY <1>1, <1>2 DEF Completed
<1>7. attempt <= 1 /\ emitted <= Cap /\ rec.status # "error" =>
        lastLen' <= emitted /\ shown' = Run(lastLen')
  BY <1>1, <1>2 DEF FirstRun
<1> QED
  BY <1>3, <1>4, <1>5, <1>6, <1>7, WatchMoves

LEMMA ChanStays ==
  ASSUME WatchTyped, chan' = chan
  PROVE  Passes(0, Len(chan)) /\ Len(chan) \in Nat
<1>1. chan \in Seq(Messages) /\ Len(chan) \in Nat /\ DOMAIN chan = 1..Len(chan)
  BY WatchSplit
<1>2. \A k \in 1..Len(chan) : k <= Len(chan) /\ k + 0 = k
  BY <1>1
<1> QED
  BY <1>1, <1>2 DEF Passes

LEMMA ChanGrows ==
  ASSUME WatchTyped, NEW t, chan' = chan \o t,
         \/ t = <<>> \/ t = <<Close>>
         \/ t = <<Snapshot(rec)>> \/ t = <<Snapshot(rec), Close>> \/ t = <<Snapshot(NotFound), Close>>
  PROVE  Passes(0, Len(chan)) /\ Len(chan) \in Nat
<1>1. chan \in Seq(Messages) /\ Len(chan) \in Nat /\ DOMAIN chan = 1..Len(chan) /\ rec \in Seen
  BY WatchSplit
<1>2. Snapshot(rec) \in Messages /\ Snapshot(NotFound) \in Messages /\ Close \in Messages
  BY <1>1, Snapshots DEF Messages
<1>3. /\ t \in Seq(Messages)
      /\ \A k \in 1..Len(t) : t[k] \in {Close, Snapshot(NotFound), Snapshot(rec)}
  <2>1. PICK x, y, z : x = Snapshot(rec) /\ y = Snapshot(NotFound) /\ z = Close
    OBVIOUS
  <2>2. t = <<>> \/ t = <<z>> \/ t = <<x>> \/ t = <<x, z>> \/ t = <<y, z>>
    BY <2>1
  <2>3. x \in Messages /\ y \in Messages /\ z \in Messages
    BY <1>2, <2>1
  <2>4. t \in Seq(Messages)
    <3>1. <<>> \in Seq(Messages) /\ <<z>> \in Seq(Messages) /\ <<x>> \in Seq(Messages)
      BY <2>3
    <3>2. <<x, z>> \in Seq(Messages) /\ <<y, z>> \in Seq(Messages)
      BY <2>3
    <3> QED
      BY <2>2, <3>1, <3>2
  <2>5. \A k \in 1..Len(t) : t[k] \in {z, y, x}
    BY <2>2
  <2> QED
    BY <2>1, <2>4, <2>5
<1>4. /\ chan' \in Seq(Messages)
      /\ \A k \in 1..Len(chan) : chan'[k] = chan[k]
      /\ \A k \in 1..Len(t) : chan'[Len(chan) + k] = t[k]
      /\ \A k \in 1..Len(chan') : k \in 1..Len(chan) \/ k - Len(chan) \in 1..Len(t)
  BY <1>1, <1>3, Joined
<1>5. ASSUME NEW k \in 1..Len(chan')
      PROVE  \/ k <= Len(chan) /\ k + 0 \in DOMAIN chan /\ chan'[k] = chan[k + 0]
             \/ k > Len(chan) /\ chan'[k] \in {Close, Snapshot(NotFound), Snapshot(rec)}
  <2>1. CASE k \in 1..Len(chan)
    <3>1. k + 0 = k /\ k <= Len(chan)
      BY <1>1, <2>1
    <3> QED
      BY <1>1, <1>4, <2>1, <3>1
  <2>2. CASE k \notin 1..Len(chan)
    <3>1. k - Len(chan) \in 1..Len(t) /\ k > Len(chan) /\ Len(chan) + (k - Len(chan)) = k
      BY <1>1, <1>4, <2>2
    <3>2. chan'[Len(chan) + (k - Len(chan))] = t[k - Len(chan)]
      BY <1>4, <3>1
    <3> QED
      BY <1>3, <3>1, <3>2
  <2> QED
    BY <2>1, <2>2
<1>6. DOMAIN chan' = 1..Len(chan')
  BY <1>4
<1> QED
  BY <1>1, <1>4, <1>5, <1>6 DEF Passes

LEMMA ChanBreaks ==
  ASSUME WatchTyped, NEW n \in 0..Len(chan), chan' = Append(SubSeq(chan, 1, n), Close)
  PROVE  Passes(0, n) /\ n \in Nat
<1>1. chan \in Seq(Messages) /\ Len(chan) \in Nat /\ DOMAIN chan = 1..Len(chan)
  BY WatchSplit
<1>2. Close \in Messages
  BY DEF Messages
<1>3. n \in Nat /\ \A k \in 1..n : chan[k] \in Messages
  BY <1>1
<1>4. PICK u \in Seq(Messages) : u = SubSeq(chan, 1, n) /\ Len(u) = n /\ \A k \in 1..n : u[k] = chan[k]
  <2>1. SubSeq(chan, 1, n) \in Seq(Messages)
    BY <1>3, SubSeqProperties
  <2>2. Len(SubSeq(chan, 1, n)) = n
    BY <1>1, <1>3
  <2>3. \A k \in 1..n : SubSeq(chan, 1, n)[k] = chan[k]
    BY <1>1, <1>3
  <2> QED
    BY <2>1, <2>2, <2>3
<1>5. /\ chan' \in Seq(Messages) /\ DOMAIN chan' = 1..(n + 1) /\ chan'[n + 1] = Close
      /\ \A k \in 1..n : chan'[k] = chan[k]
  BY <1>2, <1>3, <1>4, Appended
<1>6. \A k \in 1..(n + 1) : \/ k <= n /\ k + 0 \in DOMAIN chan /\ k + 0 = k /\ k \in 1..n
                            \/ k > n /\ k = n + 1
  BY <1>1, <1>3
<1> QED
  BY <1>3, <1>5, <1>6 DEF Passes

LEMMA ChanTaken ==
  ASSUME WatchTyped, chan # <<>>, chan' = Tail(chan)
  PROVE  Passes(1, Len(chan)) /\ Len(chan) \in Nat /\ 1 \in DOMAIN chan /\ Head(chan) = chan[1]
<1>1. chan \in Seq(Messages) /\ Len(chan) \in Nat /\ DOMAIN chan = 1..Len(chan) /\ Len(chan) > 0
  BY WatchSplit
<1>2. /\ chan' \in Seq(Messages) /\ Len(chan') = Len(chan) - 1
      /\ \A k \in 1..(Len(chan) - 1) : chan'[k] = chan[k + 1]
  BY <1>1
<1>3. DOMAIN chan' = 1..(Len(chan) - 1)
  BY <1>1, <1>2
<1>4. \A k \in 1..(Len(chan) - 1) : k <= Len(chan) /\ k + 1 \in 1..Len(chan)
  BY <1>1
<1> QED
  BY <1>1, <1>2, <1>3, <1>4 DEF Passes

LEMMA ServerStepKeeps ==
  ASSUME WatchInv, ServerStep
  PROVE  WatchInv'
<1>1. WatchTyped /\ TypeOK
  BY DEF WatchInv, WatchTyped
<1>2. /\ srv \in {"none", "tailing", "ended"} /\ missing \in 0..(Misses + 1)
      /\ (srv # "ended" => missing <= Misses)
      /\ link \in {"connecting", "open", "closed"} /\ settled \in BOOLEAN /\ polls \in 0..Polls
      /\ poller \in {"off", "waiting", "applying", "stopped"} /\ (poller # "off" => link = "closed")
      /\ writing \in [Handlers -> 0..Files] /\ (writing["poll"] > 0 => poller # "off")
      /\ loaded \in Nat /\ failed \in BOOLEAN /\ building \in BOOLEAN
  BY <1>1 DEF TypeOK, WatchTyped
<1>3. Misses \in Nat /\ missing \in Nat
  BY <1>2, WatchAssumption
<1>4. /\ UNCHANGED recVars
      /\ link' = link /\ settled' = settled /\ poller' = poller /\ polls' = polls /\ writing' = writing
      /\ lastLen' = lastLen /\ shown' = shown /\ loaded' = loaded
      /\ failed' = failed /\ building' = building
  BY DEF ServerStep, Accept, TailMissing, TailForeign, TailRead, TailBreaks, uiVars
<1>5. SUFFICES /\ \E m \in Nat : Passes(0, m)
               /\ srv' \in {"none", "tailing", "ended"} /\ missing' \in 0..(Misses + 1)
               /\ srv' # "ended" => missing' <= Misses
  BY <1>2, <1>4, QuietMoves
<1>6. CASE Accept
  <2>1. chan' = chan /\ srv' = "tailing" /\ missing' = missing /\ srv = "none"
    BY <1>6 DEF Accept
  <2>2. missing <= Misses
    BY <1>1, <2>1 DEF WatchTyped
  <2> QED
    BY <1>1, <1>2, <2>1, <2>2, ChanStays
<1>7. CASE TailMissing
  <2>1. srv = "tailing" /\ missing' = missing + 1 /\ missing <= Misses
    BY <1>2, <1>7 DEF TailMissing
  <2>2. missing' \in 0..(Misses + 1)
    BY <1>3, <2>1
  <2>3. CASE missing' > Misses
    <3>1. srv' = "ended" /\ chan' = chan \o <<Snapshot(NotFound), Close>>
      BY <1>7, <2>3 DEF TailMissing
    <3> QED
      BY <1>1, <2>2, <3>1, ChanGrows
  <2>4. CASE ~(missing' > Misses)
    <3>1. srv' = srv /\ chan' = chan
      BY <1>7, <2>4 DEF TailMissing
    <3>2. missing' <= Misses
      BY <1>3, <2>1, <2>4
    <3> QED
      BY <1>1, <1>2, <2>2, <3>1, <3>2, ChanStays
  <2> QED
    BY <2>3, <2>4
<1>8. CASE TailForeign
  <2>1. srv' = "ended" /\ chan' = chan \o <<Snapshot(NotFound), Close>> /\ missing' = missing
    BY <1>8 DEF TailForeign
  <2> QED
    BY <1>1, <1>2, <2>1, ChanGrows
<1>9. CASE TailRead
  <2>1. /\ missing' = 0 /\ srv' \in {"tailing", "ended"}
    BY <1>9 DEF TailRead
  <2>2. PICK A, B : /\ chan' = (chan \o A) \o B
                    /\ A = <<>> \/ A = <<Snapshot(rec)>>
                    /\ B = <<>> \/ B = <<Close>>
    BY <1>9 DEF TailRead
  <2>3. chan \in Seq(Messages) /\ Snapshot(rec) \in Messages /\ Close \in Messages
    BY <1>1, WatchSplit, Snapshots DEF Messages
  <2>4. A \in Seq(Messages) /\ B \in Seq(Messages)
    <3>1. PICK x, z : x = Snapshot(rec) /\ z = Close
      OBVIOUS
    <3>2. <<>> \in Seq(Messages) /\ <<z>> \in Seq(Messages) /\ <<x>> \in Seq(Messages)
      BY <2>3, <3>1
    <3> QED
      BY <2>2, <3>1, <3>2
  <2>5. chan' = chan \o (A \o B)
    BY <2>2, <2>3, <2>4, ConcatAssociative, SMTT(40)
  <2>6. \/ A \o B = <<>> \/ A \o B = <<Close>>
        \/ A \o B = <<Snapshot(rec)>> \/ A \o B = <<Snapshot(rec), Close>>
    <3>1. PICK x, z : x = Snapshot(rec) /\ z = Close
      OBVIOUS
    <3>2. <<>> \o <<>> = <<>> /\ <<>> \o <<z>> = <<z>> /\ <<x>> \o <<>> = <<x>>
      BY ConcatEmptySeq
    <3>3. <<x>> \o <<z>> = <<x, z>>
      <4>1. <<x>> \in Seq(Messages) /\ z \in Messages
        BY <2>3, <3>1
      <4>2. Append(<<x>>, z) = <<x>> \o <<z>>
        BY <4>1, AppendIsConcat
      <4>3. Append(<<x>>, z) = <<x, z>>
        <5>1. PICK u \in Seq(Messages) : u = Append(<<x>>, z) /\ Len(u) = 2 /\ u[1] = x /\ u[2] = z
          <6>1. PICK w \in Seq(Messages) : w = <<x>>
            BY <4>1
          <6>2. Len(w) = 1 /\ w[1] = x /\ 1 \in 1..1 /\ 1 + 1 = 2
            BY <6>1
          <6>3. /\ Append(w, z) \in Seq(Messages) /\ Len(Append(w, z)) = Len(w) + 1
                /\ Append(w, z)[Len(w) + 1] = z /\ \A i \in 1..Len(w) : Append(w, z)[i] = w[i]
            BY <4>1, Appended
          <6>4. Append(w, z)[2] = z /\ Append(w, z)[1] = x /\ Len(Append(w, z)) = 2
            BY <6>2, <6>3
          <6> QED
            BY <6>1, <6>3, <6>4
        <5>2. PICK v \in Seq(Messages) : v = <<x, z>> /\ Len(v) = 2 /\ v[1] = x /\ v[2] = z
          <6>1. x \in Messages /\ z \in Messages
            BY <2>3, <3>1
          <6>2. <<x, z>> \in Seq(Messages)
            BY <6>1
          <6>3. Len(<<x, z>>) = 2 /\ <<x, z>>[1] = x /\ <<x, z>>[2] = z
            OBVIOUS
          <6> QED
            BY <6>2, <6>3
        <5>3. \A k \in 1..2 : k = 1 \/ k = 2
          OBVIOUS
        <5>4. u = v
          BY <5>1, <5>2, <5>3, SeqEqual
        <5> QED
          BY <5>1, <5>2, <5>4
      <4> QED
        BY <4>2, <4>3
    <3> QED
      BY <2>2, <3>1, <3>2, <3>3
  <2>7. Passes(0, Len(chan)) /\ Len(chan) \in Nat
    <3>1. PICK t : t = A \o B
      OBVIOUS
    <3> QED
      BY <1>1, <2>5, <2>6, <3>1, ChanGrows
  <2> QED
    BY <1>3, <2>1, <2>7
<1>10. CASE TailBreaks
  <2>1. /\ srv' = "ended" /\ missing' = missing
        /\ \E n \in 0..Len(chan) : chan' = Append(SubSeq(chan, 1, n), Close)
    BY <1>10 DEF TailBreaks
  <2> QED
    BY <1>1, <1>2, <2>1, ChanBreaks
<1> QED
  BY <1>6, <1>7, <1>8, <1>9, <1>10 DEF ServerStep

\* A snapshot is applied: o messages have gone from the channel.
LEMMA Applies ==
  ASSUME WatchInv, UNCHANGED <<recVars, srvVars>>, NEW o \in {0, 1}, NEW m \in Nat, Passes(o, m),
         NEW h \in Handlers, NEW d \in Seen, Len(d.log) <= Cap + 1, Apply(d, h),
         link' \in {"connecting", "open", "closed"}, link' # "closed" => link # "closed",
         settled' \in BOOLEAN, polls' \in 0..Polls,
         poller' \in {"off", "waiting", "applying", "stopped"}, poller' # "off" => link' = "closed",
         poller # "off" \/ h = "poll" => poller' # "off",
         Unshown(d.log), Follows(d.log, d.log), Follows(d.log, rec.log),
         \A k \in DOMAIN d.log : Past(d.log[k]),
         link' # "closed" => \A i \in Waiting : i > o => Follows(d.log, chan[i].data.log),
         d.status = "complete" => rec.status = "complete" /\ d.log = rec.log,
         attempt <= 1 /\ emitted <= Cap /\ rec.status # "error" =>
           \E n \in 0..emitted : d.log = Run(n)
  PROVE  WatchInv'
<1>1. WatchTyped /\ TypeOK /\ Passed /\ ShownFirst /\ Completed /\ FirstRun /\ TerminalInOrder
  BY DEF WatchInv, WatchTyped
<1>2. /\ srv' \in {"none", "tailing", "ended"} /\ missing' \in 0..(Misses + 1)
      /\ srv' # "ended" => missing' <= Misses
  BY <1>1 DEF TypeOK, WatchTyped, srvVars
<1>3. /\ ShowLines(d)
      /\ writing' = IF d.status = "complete" THEN [writing EXCEPT ![h] = Files] ELSE writing
      /\ loaded' = IF d.status = "complete" /\ Files = 0 THEN loaded + 1 ELSE loaded
      /\ failed' = (failed \/ d.status = "error")
      /\ building' = (building /\ d.status # "error" /\ ~(d.status = "complete" /\ Files = 0))
  BY DEF Apply
<1>4. /\ lastLen \in 0..(Cap + 1) /\ shown \in Seq(Line) /\ d.log \in Seq(Line)
      /\ \A k \in DOMAIN shown : Past(shown[k])
  BY <1>1 DEF TypeOK, Passed, Seen
<1>5. /\ lastLen' \in 0..(Cap + 1) /\ lastLen' >= lastLen /\ lastLen' >= Len(d.log)
      /\ shown' \in Seq(Line) /\ TerminalInOrder' /\ \A k \in DOMAIN shown' : Past(shown'[k])
      /\ \A g \in Seq(Line) : Unshown(g) /\ Follows(d.log, g) => Continues(g, shown', lastLen')
      /\ \A n \in Nat : shown = Run(lastLen) /\ d.log = Run(n) =>
           shown' = Run(lastLen') /\ (lastLen' = lastLen \/ lastLen' = n)
  BY <1>1, <1>3, <1>4, Shows
<1>6. writing' \in [Handlers -> 0..Files] /\ loaded' \in Nat /\ (writing'["poll"] > 0 => poller' # "off")
  <2>1. /\ writing \in [Handlers -> 0..Files] /\ loaded \in Nat /\ Files \in 0..Files
        /\ "poll" \in Handlers /\ (writing["poll"] > 0 => poller # "off")
    BY <1>1, WatchAssumption DEF TypeOK, WatchTyped, Handlers
  <2> QED
    BY <1>3, <2>1
<1>7. failed' \in BOOLEAN /\ building' \in BOOLEAN
  BY <1>3
<1>8. Continues(rec.log, shown', lastLen')
  <2>1. rec.log \in Seq(Line) /\ Unshown(rec.log)
    BY <1>1, WatchSplit DEF ShownFirst
  <2> QED
    BY <1>5, <2>1
<1>9. link' # "closed" => \A i \in Waiting : i > o => Continues(chan[i].data.log, shown', lastLen')
  <2>1. \A i \in Waiting : chan[i].data.log \in Seq(Line) /\ (link # "closed" => Unshown(chan[i].data.log))
    BY <1>1, WatchSplit DEF ShownFirst
  <2> QED
    BY <1>5, <2>1
<1>10. loaded' > 0 \/ (\E x \in Handlers : writing'[x] > 0) =>
         rec.status = "complete" /\ Len(rec.log) <= lastLen'
  <2>1. CASE d.status = "complete"
    <3>1. Len(d.log) \in Nat /\ Len(d.log) <= lastLen'
      BY <1>4, <1>5, WatchAssumption
    <3> QED
      BY <2>1, <3>1
  <2>2. CASE d.status # "complete"
    <3>1. loaded' = loaded /\ writing' = writing
      BY <1>3, <2>2
    <3>2. rec.log \in Seq(Line) /\ lastLen \in Nat
      BY <1>1, WatchSplit
    <3>3. Len(rec.log) \in Nat /\ lastLen' \in Nat
      BY <1>5, <3>2, WatchAssumption
    <3>4. Len(rec.log) <= lastLen => Len(rec.log) <= lastLen'
      BY <1>5, <3>2, <3>3
    <3> QED
      BY <1>1, <3>1, <3>4 DEF Completed
  <2> QED
    BY <2>1, <2>2
<1>11. attempt <= 1 /\ emitted <= Cap /\ rec.status # "error" =>
         lastLen' <= emitted /\ shown' = Run(lastLen')
  <2> SUFFICES ASSUME attempt <= 1, emitted <= Cap, rec.status # "error"
               PROVE  lastLen' <= emitted /\ shown' = Run(lastLen')
    OBVIOUS
  <2>1. shown = Run(lastLen) /\ lastLen <= emitted /\ emitted \in Nat
    BY <1>1, WatchSplit DEF FirstRun
  <2>2. PICK n \in 0..emitted : d.log = Run(n)
    OBVIOUS
  <2>3. n \in Nat /\ n <= emitted
    BY <2>1
  <2> QED
    BY <1>5, <2>1, <2>2, <2>3
<1>12. UNCHANGED recVars
  OBVIOUS
<1> QED
  BY <1>2, <1>5, <1>6, <1>7, <1>8, <1>9, <1>10, <1>11, <1>12, WatchMoves

LEMMA WatchRanges ==
  ASSUME WatchInv
  PROVE  /\ WatchTyped /\ TypeOK
         /\ srv \in {"none", "tailing", "ended"} /\ missing \in 0..(Misses + 1)
         /\ (srv # "ended" => missing <= Misses)
         /\ link \in {"connecting", "open", "closed"} /\ settled \in BOOLEAN /\ polls \in 0..Polls
         /\ poller \in {"off", "waiting", "applying", "stopped"} /\ (poller # "off" => link = "closed")
         /\ writing \in [Handlers -> 0..Files] /\ (writing["poll"] > 0 => poller # "off")
         /\ loaded \in Nat /\ failed \in BOOLEAN /\ building \in BOOLEAN
         /\ polls \in Nat /\ Polls \in Nat /\ Files \in Nat
<1>1. WatchTyped /\ TypeOK
  BY DEF WatchInv, WatchTyped
<1>2. polls \in Nat /\ Polls \in Nat /\ Files \in Nat
  BY <1>1, WatchAssumption DEF TypeOK
<1> QED
  BY <1>1, <1>2 DEF TypeOK, WatchTyped

\* The sockets and the poller move, nothing is shown.
LEMMA LinkKeeps ==
  ASSUME WatchInv,
         OnOpen \/ CannotOpen \/ BridgeFails \/ BridgeHolds \/ OnClose \/ PollFails \/ PollsExhausted
  PROVE  WatchInv'
<1>1. /\ WatchTyped /\ TypeOK
      /\ srv \in {"none", "tailing", "ended"} /\ missing \in 0..(Misses + 1)
      /\ (srv # "ended" => missing <= Misses)
      /\ link \in {"connecting", "open", "closed"} /\ settled \in BOOLEAN /\ polls \in 0..Polls
      /\ poller \in {"off", "waiting", "applying", "stopped"} /\ (poller # "off" => link = "closed")
      /\ writing \in [Handlers -> 0..Files] /\ (writing["poll"] > 0 => poller # "off")
      /\ loaded \in Nat /\ failed \in BOOLEAN /\ building \in BOOLEAN
      /\ polls \in Nat /\ Polls \in Nat
  BY WatchRanges
<1>2. /\ UNCHANGED recVars
      /\ missing' = missing /\ srv' \in {srv, "ended"} /\ writing' = writing
      /\ lastLen' = lastLen /\ shown' = shown /\ loaded' = loaded
      /\ failed' = failed /\ building' \in {building, FALSE}
      /\ chan' = chan \/ (chan # <<>> /\ chan' = Tail(chan))
  BY DEF OnOpen, CannotOpen, BridgeFails, BridgeHolds, OnClose, PollFails, PollsExhausted,
         Failover, uiVars, srvVars
<1>3. /\ link' \in {"connecting", "open", "closed"} /\ (link' # "closed" => link # "closed")
      /\ settled' \in BOOLEAN
      /\ poller' \in {"off", "waiting", "applying", "stopped"} /\ (poller' # "off" => link' = "closed")
      /\ (poller # "off" => poller' # "off")
  BY <1>1 DEF OnOpen, CannotOpen, BridgeFails, BridgeHolds, OnClose, PollFails, PollsExhausted,
              Failover, uiVars, srvVars
<1>4. polls' \in 0..Polls
  <2>1. polls' = polls \/ (polls < Polls /\ polls' = polls + 1)
    BY DEF OnOpen, CannotOpen, BridgeFails, BridgeHolds, OnClose, PollFails, PollsExhausted,
           Failover, uiVars, srvVars
  <2> QED
    BY <1>1, <2>1
<1>5. \E o \in {0, 1}, m \in Nat : Passes(o, m)
  BY <1>1, <1>2, ChanStays, ChanTaken
<1>6. /\ srv' \in {"none", "tailing", "ended"} /\ missing' \in 0..(Misses + 1)
      /\ (srv' # "ended" => missing' <= Misses)
      /\ writing' \in [Handlers -> 0..Files] /\ loaded' \in Nat /\ failed' \in BOOLEAN
      /\ building' \in BOOLEAN
      /\ loaded' > 0 \/ (\E h \in Handlers : writing'[h] > 0) =>
           loaded > 0 \/ (\E h \in Handlers : writing[h] > 0)
      /\ writing'["poll"] > 0 => poller' # "off"
  BY <1>1, <1>2, <1>3
<1>7. UNCHANGED recVars /\ UNCHANGED <<lastLen, shown>>
  BY <1>2
<1> QED
  BY <1>3, <1>4, <1>5, <1>6, <1>7, QuietMoves

LEMMA FileWrittenKeeps ==
  ASSUME WatchInv, NEW h \in Handlers, FileWritten(h)
  PROVE  WatchInv'
<1>1. /\ WatchTyped /\ TypeOK
      /\ srv \in {"none", "tailing", "ended"} /\ missing \in 0..(Misses + 1)
      /\ (srv # "ended" => missing <= Misses)
      /\ link \in {"connecting", "open", "closed"} /\ settled \in BOOLEAN /\ polls \in 0..Polls
      /\ poller \in {"off", "waiting", "applying", "stopped"} /\ (poller # "off" => link = "closed")
      /\ writing \in [Handlers -> 0..Files] /\ (writing["poll"] > 0 => poller # "off")
      /\ loaded \in Nat /\ failed \in BOOLEAN /\ building \in BOOLEAN
      /\ Files \in Nat
  BY WatchRanges
<1>2. /\ UNCHANGED recVars /\ writing[h] > 0 /\ writing' = [writing EXCEPT ![h] = writing[h] - 1]
      /\ missing' = missing /\ srv' = srv /\ polls' = polls /\ chan' = chan
      /\ lastLen' = lastLen /\ shown' = shown /\ failed' = failed
      /\ loaded' \in {loaded, loaded + 1} /\ building' \in {building, FALSE}
      /\ link' \in {link, "closed"} /\ settled' \in {settled, TRUE}
  BY DEF FileWritten, FinishStream, srvVars
<1>3. /\ poller' \in {"off", "waiting", "applying", "stopped"}
      /\ (poller' # "off" => link' = "closed") /\ (poller # "off" => poller' # "off")
      /\ link' \in {"connecting", "open", "closed"} /\ (link' # "closed" => link # "closed")
  <2>1. CASE poller' = poller
    BY <1>1, <1>2, <2>1
  <2>2. CASE poller' # poller
    <3>1. h = "poll" /\ poller' = "stopped" /\ link' = link
      BY <2>2 DEF FileWritten, FinishStream
    <3>2. poller # "off"
      BY <1>1, <1>2, <3>1
    <3> QED
      BY <1>1, <3>1, <3>2
  <2> QED
    BY <2>1, <2>2
<1>4. writing' \in [Handlers -> 0..Files] /\ (writing'["poll"] > 0 => poller' # "off")
  <2>1. writing[h] \in 0..Files
    BY <1>1
  <2>2. writing[h] - 1 \in 0..Files
    BY <1>1, <1>2, <2>1
  <2>3. writing' \in [Handlers -> 0..Files] /\ \A x \in Handlers : writing'[x] > 0 => writing[x] > 0
    BY <1>1, <1>2, <2>2
  <2>4. "poll" \in Handlers
    BY DEF Handlers
  <2> QED
    BY <1>1, <1>3, <2>3, <2>4
<1>5. Passes(0, Len(chan)) /\ Len(chan) \in Nat /\ 0 \in {0, 1}
  BY <1>1, <1>2, ChanStays
<1>6. /\ srv' \in {"none", "tailing", "ended"} /\ missing' \in 0..(Misses + 1)
      /\ (srv' # "ended" => missing' <= Misses) /\ polls' \in 0..Polls /\ settled' \in BOOLEAN
      /\ loaded' \in Nat /\ failed' \in BOOLEAN /\ building' \in BOOLEAN
  <2>1. loaded' \in Nat
    BY <1>1, <1>2
  <2>2. settled' \in BOOLEAN /\ building' \in BOOLEAN
    BY <1>1, <1>2
  <2> QED
    BY <1>1, <1>2, <2>1, <2>2
<1>7. /\ loaded' > 0 \/ (\E x \in Handlers : writing'[x] > 0) =>
           loaded > 0 \/ (\E x \in Handlers : writing[x] > 0)
  BY <1>2
<1>8. UNCHANGED recVars /\ UNCHANGED <<lastLen, shown>>
  BY <1>2
<1> QED
  BY <1>3, <1>4, <1>5, <1>6, <1>7, <1>8, QuietMoves

LEMMA OnMessageKeeps ==
  ASSUME WatchInv, OnMessage
  PROVE  WatchInv'
<1>1. WatchTyped /\ TypeOK /\ Chronicle /\ Passed /\ ShownFirst /\ Completed /\ FirstRun
  BY DEF WatchInv, WatchTyped
<1>2. /\ settled \in BOOLEAN /\ polls \in 0..Polls
      /\ poller \in {"off", "waiting", "applying", "stopped"} /\ (poller # "off" => link = "closed")
  BY WatchRanges
<1>3. link = "open" /\ chan # <<>> /\ Head(chan) # Close /\ chan' = Tail(chan)
  BY DEF OnMessage
<1>4. Passes(1, Len(chan)) /\ Len(chan) \in Nat /\ 1 \in DOMAIN chan /\ Head(chan) = chan[1]
  BY <1>1, <1>3, ChanTaken
<1>5. 1 \in Waiting
  BY <1>3, <1>4 DEF Waiting
<1>6. PICK d \in Seen : d = chan[1].data
  BY <1>1, <1>5, WatchSplit
<1>7. /\ Apply(d, "socket") /\ UNCHANGED <<recVars, srvVars>> /\ poller' = poller /\ polls' = polls
      /\ \/ settled' = TRUE /\ link' = "closed"
         \/ settled' = settled /\ link' = link
  BY <1>4, <1>6 DEF OnMessage, FinishStream
<1>8. /\ link' \in {"connecting", "open", "closed"} /\ (link' # "closed" => link # "closed")
      /\ settled' \in BOOLEAN /\ polls' \in 0..Polls
      /\ poller' \in {"off", "waiting", "applying", "stopped"} /\ (poller' # "off" => link' = "closed")
      /\ (poller # "off" \/ "socket" = "poll" => poller' # "off")
  BY <1>2, <1>3, <1>7
<1>9. "socket" \in Handlers /\ Len(d.log) <= Cap + 1
  BY <1>1, <1>5, <1>6, WatchSplit DEF Handlers
<1>10. /\ Unshown(d.log) /\ Follows(d.log, rec.log) /\ \A k \in DOMAIN d.log : Past(d.log[k])
       /\ d.status = "complete" => rec.status = "complete" /\ d.log = rec.log
  BY <1>1, <1>3, <1>5, <1>6 DEF ShownFirst, Chronicle, Passed, Completed
<1>11. Follows(d.log, d.log) /\ \A i \in Waiting : i > 1 => Follows(d.log, chan[i].data.log)
  <2>1. Waiting \subseteq Nat
    BY <1>1, WatchSplit
  <2>2. \A i \in Waiting : i > 1 => 1 <= i
    BY <2>1
  <2> QED
    BY <1>1, <1>5, <1>6, <2>2 DEF Chronicle
<1>12. attempt <= 1 /\ emitted <= Cap /\ rec.status # "error" =>
         \E n \in 0..emitted : d.log = Run(n)
  BY <1>1, <1>5, <1>6 DEF FirstRun
<1> QED
  BY <1>4, <1>7, <1>8, <1>9, <1>10, <1>11, <1>12, Applies

LEMMA PollAnsweredKeeps ==
  ASSUME WatchInv, PollAnswered
  PROVE  WatchInv'
<1>1. WatchTyped /\ TypeOK /\ Chronicle /\ Passed /\ ShownFirst /\ FirstRun
  BY DEF WatchInv, WatchTyped
<1>2. /\ link \in {"connecting", "open", "closed"} /\ settled \in BOOLEAN
      /\ polls \in Nat /\ Polls \in Nat /\ polls \in 0..Polls /\ (poller # "off" => link = "closed")
  BY WatchRanges
<1>3. /\ poller = "waiting" /\ polls < Polls /\ polls' = polls + 1 /\ Apply(Visible, "poll")
      /\ poller' \in {"stopped", "applying", "waiting"}
      /\ UNCHANGED <<recVars, srvVars>> /\ chan' = chan /\ link' = link /\ settled' = settled
  BY DEF PollAnswered
<1>4. Passes(0, Len(chan)) /\ Len(chan) \in Nat
  BY <1>1, <1>3, ChanStays
<1>5. Visible = NotFound \/ Visible = rec
  BY DEF Visible
<1>6. /\ NotFound \in Seen /\ NotFound.log = <<>> /\ NotFound.status = "not_found"
      /\ Len(<<>>) = 0 /\ DOMAIN <<>> = {} /\ Cap \in Nat /\ 0 <= Cap + 1
  BY Snapshots, WatchAssumption
<1>7. PICK d \in Seen : d = Visible
  BY <1>1, <1>5, <1>6, WatchSplit
<1>8. /\ Len(d.log) <= Cap + 1
      /\ Unshown(d.log) /\ Follows(d.log, d.log) /\ Follows(d.log, rec.log)
      /\ \A k \in DOMAIN d.log : Past(d.log[k])
      /\ d.status = "complete" => rec.status = "complete" /\ d.log = rec.log
  <2>1. CASE d = rec
    BY <1>1, <2>1, WatchSplit DEF ShownFirst, Chronicle, Passed
  <2>2. CASE d = NotFound
    BY <1>6, <2>2 DEF Unshown, Continues, Follows
  <2> QED
    BY <1>5, <1>7, <2>1, <2>2
<1>9. attempt <= 1 /\ emitted <= Cap /\ rec.status # "error" =>
        \E n \in 0..emitted : d.log = Run(n)
  <2>1. emitted \in Nat /\ 0 \in 0..emitted /\ emitted \in 0..emitted
    BY <1>1, WatchSplit
  <2>2. Run(0) = <<>>
    BY RunIs
  <2> QED
    BY <1>1, <1>5, <1>6, <1>7, <2>1, <2>2 DEF FirstRun
<1>10. /\ link' \in {"connecting", "open", "closed"} /\ (link' # "closed" => link # "closed")
       /\ settled' \in BOOLEAN /\ polls' \in 0..Polls /\ link' = "closed"
       /\ poller' \in {"off", "waiting", "applying", "stopped"} /\ poller' # "off"
  BY <1>2, <1>3
<1>11. Apply(d, "poll") /\ "poll" \in Handlers
  BY <1>3, <1>7 DEF Handlers
<1>12. UNCHANGED <<recVars, srvVars>>
  BY <1>3
<1> QED
  BY <1>4, <1>8, <1>9, <1>10, <1>11, <1>12, Applies

LEMMA WatchInitInv == Init => WatchInv
<1> SUFFICES ASSUME Init PROVE WatchInv
  OBVIOUS
<1>1. <<>> \in Seq(Line) /\ <<>> \in Seq(Messages) /\ Len(<<>>) = 0 /\ DOMAIN <<>> = {}
  OBVIOUS
<1>2. /\ Lines \in Nat /\ Files \in Nat /\ Misses \in Nat /\ Cap \in Nat /\ Attempts \in Nat /\ Polls \in Nat
  BY WatchAssumption
<1>3. /\ rec = [status |-> "absent", prog |-> 0, log |-> <<>>]
      /\ attempt = 0 /\ emitted = 0 /\ srv = "none" /\ missing = 0 /\ chan = <<>>
      /\ link = "connecting" /\ poller = "off" /\ polls = 0 /\ writing = [h \in Handlers |-> 0]
      /\ lastLen = 0 /\ shown = <<>> /\ loaded = 0
  BY DEF Init
<1>4. /\ rec.status = "absent" /\ rec.prog = 0 /\ rec.log = <<>> /\ "absent" \in Status
      /\ rec \in [status : Status, prog : 0..0, log : Seq(Line)]
  BY <1>1, <1>3 DEF Status
<1>5. LogOf(rec)
  BY <1>1, <1>2, <1>4 DEF LogOf
<1>6. writing \in [Handlers -> 0..Files] /\ "poll" \in Handlers /\ \A h \in Handlers : writing[h] = 0
  BY <1>2, <1>3 DEF Handlers
<1>7. TypeOK
  <2>1. /\ lastLen \in 0..(Cap + 1) /\ missing \in 0..(Misses + 1) /\ polls \in 0..Polls
        /\ attempt \in 0..Attempts /\ emitted \in 0..Lines /\ rec.prog \in 0..Lines /\ loaded \in Nat
    BY <1>2, <1>3, <1>4
  <2>2. shown \in Seq(Line) /\ \A i \in DOMAIN chan : chan[i] = Close \/ LogOf(chan[i].data)
    BY <1>1, <1>3
  <2>3. /\ mine \in BOOLEAN /\ route \in Routes /\ settled \in BOOLEAN
        /\ failed \in BOOLEAN /\ building \in BOOLEAN
    BY DEF Init
  <2>4. /\ srv \in {"none", "tailing", "ended"} /\ link \in {"connecting", "open", "closed"}
        /\ poller \in {"off", "waiting", "applying", "stopped"} /\ rec.status \in Status
    BY <1>3, <1>4
  <2> QED
    BY <1>5, <1>6, <2>1, <2>2, <2>3, <2>4 DEF TypeOK
<1>8. WatchTyped
  BY <1>1, <1>2, <1>3, <1>4, <1>6, <1>7 DEF WatchTyped
<1>9. Waiting = {}
  BY <1>1, <1>3 DEF Waiting
<1>10. Chronicle /\ Passed /\ ShownFirst /\ TerminalInOrder
  BY <1>1, <1>3, <1>4, <1>9 DEF Chronicle, Passed, ShownFirst, TerminalInOrder, Follows, Unshown, Continues
<1>11. Completed
  BY <1>3, <1>6, <1>9 DEF Completed
<1>12. FirstRun
  <2>1. Run(0) = <<>>
    BY RunIs
  <2> QED
    BY <1>3, <1>4, <1>9, <2>1 DEF FirstRun
<1> QED
  BY <1>8, <1>10, <1>11, <1>12 DEF WatchInv

LEMMA WatchStays ==
  ASSUME WatchInv, UNCHANGED vars
  PROVE  WatchInv'
<1>1. /\ WatchTyped
      /\ srv \in {"none", "tailing", "ended"} /\ missing \in 0..(Misses + 1)
      /\ (srv # "ended" => missing <= Misses)
      /\ link \in {"connecting", "open", "closed"} /\ settled \in BOOLEAN /\ polls \in 0..Polls
      /\ poller \in {"off", "waiting", "applying", "stopped"} /\ (poller # "off" => link = "closed")
      /\ writing \in [Handlers -> 0..Files] /\ (writing["poll"] > 0 => poller # "off")
      /\ loaded \in Nat /\ failed \in BOOLEAN /\ building \in BOOLEAN
  BY WatchRanges
<1>2. /\ UNCHANGED recVars /\ UNCHANGED <<lastLen, shown>> /\ chan' = chan
      /\ srv' = srv /\ missing' = missing /\ link' = link /\ settled' = settled /\ polls' = polls
      /\ poller' = poller /\ writing' = writing /\ loaded' = loaded /\ failed' = failed
      /\ building' = building
  BY DEF vars, recVars
<1>3. Passes(0, Len(chan)) /\ Len(chan) \in Nat
  BY <1>1, <1>2, ChanStays
<1> QED
  BY <1>1, <1>2, <1>3, QuietMoves

LEMMA WatchStep == WatchInv /\ [Next]_vars => WatchInv'
<1> SUFFICES ASSUME WatchInv, [Next]_vars PROVE WatchInv'
  OBVIOUS
<1>1. CASE ClientStep
  BY <1>1, LinkKeeps, FileWrittenKeeps, OnMessageKeeps, PollAnsweredKeeps DEF ClientStep
<1> QED
  BY <1>1, RecordStepKeeps, ServerStepKeeps, WatchStays DEF Next

LEMMA LinesShown ==
  ASSUME WatchInv
  PROVE  AllLinesShown
<1>1. WatchTyped /\ TypeOK /\ Completed /\ FirstRun
  BY DEF WatchInv, WatchTyped
<1> SUFFICES ASSUME loaded > 0, attempt = 1, emitted <= Cap PROVE shown = Run(emitted)
  BY DEF AllLinesShown, Run
<1>2. emitted \in Nat /\ lastLen \in Nat
  BY <1>1, WatchSplit
<1>3. rec.status = "complete" /\ Len(rec.log) <= lastLen
  BY <1>1 DEF Completed
<1>4. rec.log = Run(emitted) /\ lastLen <= emitted /\ shown = Run(lastLen)
  BY <1>1, <1>3 DEF FirstRun
<1>5. Len(rec.log) = emitted
  BY <1>2, <1>4, RunIs
<1>6. lastLen = emitted
  BY <1>2, <1>3, <1>4, <1>5
<1> QED
  BY <1>4, <1>6

-----------------------------------------------------------------------------
(* What holds of the build watch.                                          *)

LEMMA WatchInvariant == Spec => []WatchInv
<1> QED
  BY WatchInitInv, WatchStep, PTL DEF Spec

\* The record, the tail, the channel and the client keep their types; in
\* particular the log never has more than one line beyond its cap.
THEOREM WatchTypes == Spec => []TypeOK
<1>1. WatchInv => TypeOK
  BY DEF WatchInv, WatchTyped
<1> QED
  BY <1>1, WatchInvariant, PTL

\* applyBuildSnapshot shows no line twice and none out of order, whatever the
\* socket loses, however often the build is run and however much its log is cut.
THEOREM TerminalOrdered == Spec => []TerminalInOrder
<1>1. WatchInv => TerminalInOrder
  BY DEF WatchInv
<1> QED
  BY <1>1, WatchInvariant, PTL

\* A build of one run below the cap has all its lines in the terminal when its
\* files are loaded.
THEOREM NoLineMissing == Spec => []AllLinesShown
<1> QED
  BY LinesShown, WatchInvariant, PTL
-----------------------------------------------------------------------------
(***************************************************************************)
(* The record keeps the promise that the dispatch keeps.                   *)
(***************************************************************************)
LEMMA RecordNext ==
  ASSUME WatchInv, [Next]_vars
  PROVE  [Watched!Next]_<<rec.status, emitted>>
<1> USE DEF Watched!Next, Watched!Queue, Watched!Begin, Watched!Advance, Watched!Finish,
            Watched!GiveUp
<1>0. /\ rec.status \in {"absent", "queued"} <=> attempt = 0
      /\ attempt = 0 => emitted = 0
      /\ emitted \in 0..Lines
  BY DEF WatchInv, WatchTyped, TypeOK
<1>1. CASE RecordStep
  <2>1. CASE Queue
    BY <1>0, <2>1 DEF Queue
  <2>2. CASE Begin
    BY <1>0, <2>2 DEF Begin
  <2>3. CASE Report
    BY <1>0, <2>3 DEF Report
  <2>4. CASE Finish
    BY <1>0, <2>4 DEF Finish
  <2>5. CASE GiveUp
    BY <1>0, <2>5 DEF GiveUp
  <2> QED
    BY <1>1, <2>1, <2>2, <2>3, <2>4, <2>5 DEF RecordStep
<1>2. CASE ServerStep \/ ClientStep \/ UNCHANGED vars
  <2>1. UNCHANGED recVars
    BY <1>2 DEF ServerStep, Accept, TailMissing, TailForeign, TailRead, TailBreaks, ClientStep,
                OnOpen, CannotOpen, OnMessage, OnClose, BridgeFails, BridgeHolds, FileWritten,
                PollAnswered, PollFails, PollsExhausted, vars, recVars
  <2> QED
    BY <2>1 DEF recVars
<1> QED
  BY <1>1, <1>2 DEF Next

(***************************************************************************)
(* The record of this module, reduced to what its readers tell apart,      *)
(* makes no step that BuildPromise does not allow: retries and stale       *)
(* claims begin a run anew, and nothing follows a complete build.          *)
(***************************************************************************)
THEOREM WatchedRecord == Spec => RecordPromised
<1>1. Init => Watched!Init
  BY DEF Init, Watched!Init
<1> QED
  BY <1>1, RecordNext, WatchInvariant, PTL DEF Spec, RecordPromised, Watched!Spec

-----------------------------------------------------------------------------
(***************************************************************************)
(* Progress.  What remains of a build, of its tail and of its client: a    *)
(* step makes one of these less, and leaves alone what comes before it.    *)
(***************************************************************************)
StatusLeft == [absent |-> 3, queued |-> 2, running |-> 1, complete |-> 0, error |-> 0][rec.status]
TailLeft == [none |-> 2, tailing |-> 1, ended |-> 0][srv]
Unread == IF sig = Signature(rec) THEN 0 ELSE 1
LinkLeft == [connecting |-> 2, open |-> 1, closed |-> 0][link]
PollerLeft == [off |-> 3, waiting |-> 2, applying |-> 1, stopped |-> 0][poller]
FilesLeft == writing["socket"] + writing["poll"]

RecordNearer ==
  \/ attempt' > attempt
  \/ attempt' = attempt /\ StatusLeft' < StatusLeft
  \/ attempt' = attempt /\ StatusLeft' = StatusLeft /\ emitted' > emitted

TailNearer ==
  /\ UNCHANGED recVars
  /\ \/ TailLeft' < TailLeft
     \/ srv' = srv /\ Unread' < Unread
     \/ srv' = srv /\ sig' = sig /\ missing' > missing

ClientNearer ==
  /\ UNCHANGED <<recVars, srvVars>>
  /\ \/ LinkLeft' < LinkLeft
     \/ /\ link' = link
        /\ \/ Len(chan') < Len(chan)
           \/ chan' = chan /\ polls' > polls
           \/ chan' = chan /\ polls' = polls /\ PollerLeft' < PollerLeft
           \/ chan' = chan /\ polls' = polls /\ poller' = poller /\ FilesLeft' < FilesLeft

WatchAdvances == RecordNearer \/ TailNearer \/ ClientNearer

\* All that a step can use up has an end.
WatchMeasured ==
  /\ attempt \in 0..Attempts /\ StatusLeft \in 0..3 /\ emitted \in 0..Lines
  /\ TailLeft \in 0..2 /\ Unread \in 0..1 /\ missing \in 0..(Misses + 1)
  /\ LinkLeft \in 0..2 /\ Len(chan) \in Nat /\ polls \in 0..Polls
  /\ PollerLeft \in 0..3 /\ FilesLeft \in 0..(2 * Files)

(***************************************************************************)
(* Where it ends.  No step that Fairness speaks of has anything left to    *)
(* do.                                                                     *)
(***************************************************************************)
AtRest ==
  /\ rec.status = "complete" \/ (rec.status \in {"queued", "error"} /\ attempt = Attempts)
  /\ srv = "tailing" => mine /\ Len(chan) >= Window
  /\ ~(srv = "none" /\ route = "gateway" /\ link = "open")
  /\ link # "connecting" /\ (link = "open" => chan = <<>>)
  /\ \A h \in Handlers : writing[h] = 0
  /\ poller # "waiting"

RestIsOver ==
  AtRest =>
    \/ ~building /\ (loaded > 0 \/ failed \/ polls = Polls)
    \/ route = "gateway" /\ link = "open" /\ srv = "ended"

EndsInClose(s) == s # <<>> /\ s[Len(s)] = Close

RestInv ==
  /\ sig # NoSig => missing = 0 /\ rec.status # "absent"
  /\ poller = "stopped" => ~building
  /\ poller = "applying" => writing["poll"] > 0
  /\ link = "closed" /\ poller = "off" => ~building
  /\ ~building => loaded > 0 \/ failed \/ polls = Polls
  /\ route = "direct" /\ link = "open" => srv # "none"
  /\ route = "direct" /\ srv = "ended" /\ link # "closed" => EndsInClose(chan)

LEMMA RestInit == Init => RestInv
BY DEF Init, RestInv, NoSig

LEMMA CloseAtTheEnd ==
  ASSUME NEW S, NEW s \in Seq(S), Close \in S
  PROVE  EndsInClose(Append(s, Close))
<1>1. PICK u \in Seq(S) : u = Append(s, Close) /\ u # <<>> /\ Len(u) = Len(s) + 1
                          /\ u[Len(s) + 1] = Close
  BY Appended
<1> QED
  BY <1>1 DEF EndsInClose

LEMMA EndsThere ==
  ASSUME NEW S, NEW t \in Seq(S), NEW m \in Nat, Len(t) = m, m > 0, t[m] = Close
  PROVE  EndsInClose(t)
<1>1. t # <<>>
  OBVIOUS
<1> QED
  BY <1>1 DEF EndsInClose

LEMMA CloseAfter ==
  ASSUME NEW S, NEW s \in Seq(S), NEW x \in S, Close \in S
  PROVE  /\ EndsInClose(s \o <<Close>>)
         /\ EndsInClose(s \o <<x, Close>>)
<1>0. PICK z \in S, l \in Nat : z = Close /\ l = Len(s) /\ l + 1 \in Nat /\ l + 2 \in Nat
                                /\ l + 1 > 0 /\ l + 2 > 0
  OBVIOUS
<1>1. PICK e \in Seq(S) : e = s \o <<z>> /\ Len(e) = l + 1 /\ e[l + 1] = z
  <2>1. <<z>> \in Seq(S) /\ Len(<<z>>) = 1 /\ <<z>>[1] = z /\ 1 \in 1..1
    OBVIOUS
  <2>2. s \o <<z>> \in Seq(S) /\ Len(s \o <<z>>) = Len(s) + 1 /\ (s \o <<z>>)[Len(s) + 1] = z
    BY <2>1, Joined
  <2> QED
    BY <1>0, <2>2, Zenon
<1>2. PICK w \in Seq(S) : w = s \o <<x, z>> /\ Len(w) = l + 2 /\ w[l + 2] = z
  <2>1. <<x, z>> \in Seq(S) /\ Len(<<x, z>>) = 2 /\ <<x, z>>[2] = z /\ 2 \in 1..2
    OBVIOUS
  <2>2. s \o <<x, z>> \in Seq(S) /\ Len(s \o <<x, z>>) = Len(s) + 2 /\ (s \o <<x, z>>)[Len(s) + 2] = z
    BY <2>1, Joined
  <2> QED
    BY <1>0, <2>2, Zenon
<1>3. EndsInClose(s \o <<z>>)
  <2>1. PICK t \in Seq(S) : t = s \o <<z>> /\ Len(t) = l + 1 /\ t[l + 1] = Close
    BY <1>0, <1>1
  <2>2. EndsInClose(t)
    BY <1>0, <2>1, EndsThere
  <2> QED
    BY <2>1, <2>2
<1>4. EndsInClose(s \o <<x, z>>)
  <2>1. PICK t \in Seq(S) : t = s \o <<x, z>> /\ Len(t) = l + 2 /\ t[l + 2] = Close
    BY <1>0, <1>2
  <2>2. EndsInClose(t)
    BY <1>0, <2>1, EndsThere
  <2> QED
    BY <2>1, <2>2
<1> QED
  BY <1>0, <1>3, <1>4

\* Taking a message that is not the close leaves the close at the end.
LEMMA CloseStays ==
  ASSUME NEW S, NEW s \in Seq(S), EndsInClose(s), Head(s) # Close
  PROVE  EndsInClose(Tail(s))
<1>1. s # <<>> /\ s[Len(s)] = Close /\ Len(s) \in Nat /\ Head(s) = s[1] /\ Len(s) > 0
  BY DEF EndsInClose
<1>2. Len(s) > 1
  BY <1>1
<1>3. Tail(s) \in Seq(S) /\ Len(Tail(s)) = Len(s) - 1 /\ Tail(s)[Len(s) - 1] = s[Len(s)]
  <2>1. /\ Tail(s) \in Seq(S) /\ Len(Tail(s)) = Len(s) - 1
        /\ \A k \in 1..(Len(s) - 1) : Tail(s)[k] = s[k + 1]
    BY <1>1
  <2>2. Len(s) - 1 \in 1..(Len(s) - 1) /\ (Len(s) - 1) + 1 = Len(s)
    BY <1>2
  <2> QED
    BY <2>1, <2>2
<1>4. PICK u \in Seq(S) : u = Tail(s)
  BY <1>3
<1>5. Len(u) > 0 /\ u[Len(u)] = Close
  BY <1>1, <1>2, <1>3, <1>4
<1>6. u # <<>>
  BY <1>5
<1> QED
  BY <1>4, <1>5, <1>6 DEF EndsInClose

\* What the client has to know of itself is not touched by the record or the tail.
LEMMA ClientStays ==
  ASSUME RestInv,
         UNCHANGED <<link, poller, polls, writing, loaded, failed, building, route>>
  PROVE  /\ poller' = "stopped" => ~building'
         /\ poller' = "applying" => writing'["poll"] > 0
         /\ link' = "closed" /\ poller' = "off" => ~building'
         /\ ~building' => loaded' > 0 \/ failed' \/ polls' = Polls
BY DEF RestInv

LEMMA TailRest ==
  ASSUME WatchInv, RestInv, ServerStep
  PROVE  RestInv'
<1>0. rec' = rec
  BY DEF ServerStep, Accept, TailMissing, TailForeign, TailRead, TailBreaks, recVars
<1>1. UNCHANGED <<link, poller, polls, writing, loaded, failed, building, route>>
  BY DEF ServerStep, Accept, TailMissing, TailForeign, TailRead, TailBreaks, recVars, uiVars
<1>2. chan \in Seq(Messages) /\ Snapshot(NotFound) \in Messages /\ Close \in Messages
      /\ Snapshot(rec) \in Messages /\ missing \in Nat
  BY WatchSplit, Snapshots, WatchAssumption DEF Messages, WatchInv, WatchTyped, TypeOK
<1>3. SUFFICES /\ sig' # NoSig => missing' = 0 /\ rec.status # "absent"
               /\ route = "direct" /\ link = "open" => srv' # "none"
               /\ route = "direct" /\ srv' = "ended" /\ link # "closed" => EndsInClose(chan')
  BY <1>1, <1>0, ClientStays DEF RestInv
<1>4. CASE Accept
  BY <1>4 DEF Accept, RestInv
<1>5. CASE TailMissing
  <2>1. sig' = sig /\ srv = "tailing" /\ rec.status = "absent" /\ srv' # "none"
    BY <1>5 DEF TailMissing
  <2>2. sig = NoSig
    BY <2>1 DEF RestInv
  <2>3. srv' = "ended" => chan' = chan \o <<Snapshot(NotFound), Close>>
    BY <1>5 DEF TailMissing
  <2> QED
    BY <1>2, <2>1, <2>2, <2>3, CloseAfter
<1>6. CASE TailForeign
  BY <1>2, <1>6, CloseAfter DEF TailForeign, RestInv
<1>7. CASE TailRead
  <2>1. missing' = 0 /\ rec.status # "absent" /\ srv' # "none" /\ (srv' = "ended" => Settles(rec))
    BY <1>7 DEF TailRead
  <2>2. Settles(rec) => \E A \in Seq(Messages) : chan' = A \o <<Close>>
    <3>1. PICK A : /\ chan' = (chan \o A) \o (IF Settles(rec) THEN <<Close>> ELSE <<>>)
                   /\ A = <<>> \/ A = <<Snapshot(rec)>>
      BY <1>7 DEF TailRead
    <3>2. A \in Seq(Messages)
      <4>1. PICK x \in Messages : x = Snapshot(rec)
        BY <1>2
      <4>2. <<>> \in Seq(Messages) /\ <<x>> \in Seq(Messages)
        OBVIOUS
      <4> QED
        BY <3>1, <4>1, <4>2
    <3>3. chan \o A \in Seq(Messages)
      BY <1>2, <3>2, Joined
    <3> QED
      BY <3>1, <3>3
  <2> QED
    BY <1>2, <2>1, <2>2, CloseAfter
<1>8. CASE TailBreaks
  <2>1. sig' = sig /\ missing' = missing /\ srv' = "ended"
    BY <1>8 DEF TailBreaks
  <2>2. PICK n \in 0..Len(chan) : chan' = Append(SubSeq(chan, 1, n), Close)
    BY <1>8 DEF TailBreaks
  <2>3. SubSeq(chan, 1, n) \in Seq(Messages)
    <3>1. Len(chan) \in Nat /\ \A k \in 1..n : chan[k] \in Messages
      BY <1>2
    <3> QED
      BY <3>1, SubSeqProperties
  <2> QED
    BY <1>2, <2>1, <2>2, <2>3, CloseAtTheEnd DEF RestInv
<1> QED
  BY <1>4, <1>5, <1>6, <1>7, <1>8 DEF ServerStep

LEMMA RecordRest ==
  ASSUME WatchInv, RestInv, RecordStep
  PROVE  RestInv'
<1>1. UNCHANGED <<srv, sig, missing, chan, link, poller, polls, writing, loaded, failed, building, route>>
  BY DEF RecordStep, Queue, Begin, Report, Finish, GiveUp, srvVars, uiVars
<1>2. rec.status # "absent" => rec'.status # "absent"
  <2>1. rec \in [status : Status, prog : 0..emitted, log : Seq(Line)]
    BY DEF WatchInv, WatchTyped
  <2>2. CASE Queue \/ Finish \/ GiveUp
    BY <2>1, <2>2 DEF Queue, Finish, GiveUp
  <2>3. CASE Begin
    BY <2>3 DEF Begin
  <2>4. CASE Report
    BY <2>1, <2>4 DEF Report
  <2> QED
    BY <2>2, <2>3, <2>4 DEF RecordStep
<1> QED
  BY <1>1, <1>2 DEF RestInv

\* A snapshot that stops the client says that it is over.
LEMMA AppliedRest ==
  ASSUME TypeOK, RestInv, NEW d, NEW h \in Handlers, Apply(d, h), polls' = polls \/ polls # Polls
  PROVE  /\ ~building' => loaded' > 0 \/ failed' \/ polls' = Polls
         /\ DoneAtOnce(d) => ~building'
         /\ h # "poll" => writing'["poll"] = writing["poll"]
         /\ h = "poll" /\ d.status = "complete" => writing'["poll"] = Files
         /\ ~building => ~building'
<1>1. /\ loaded \in Nat /\ failed \in BOOLEAN /\ building \in BOOLEAN
      /\ writing \in [Handlers -> 0..Files]
  BY DEF TypeOK
<1>2. /\ loaded' = IF d.status = "complete" /\ Files = 0 THEN loaded + 1 ELSE loaded
      /\ failed' = (failed \/ d.status = "error")
      /\ building' = (building /\ d.status # "error" /\ ~(d.status = "complete" /\ Files = 0))
      /\ writing' = IF d.status = "complete" THEN [writing EXCEPT ![h] = Files] ELSE writing
  BY DEF Apply
<1>3. loaded > 0 => loaded' > 0
  BY <1>1, <1>2
<1>4. d.status = "complete" /\ Files = 0 => loaded' > 0
  BY <1>1, <1>2
<1>5. ~building => loaded > 0 \/ failed \/ polls = Polls
  BY DEF RestInv
<1>6. ~building' => loaded' > 0 \/ failed' \/ polls' = Polls
  BY <1>2, <1>3, <1>4, <1>5
<1>7. DoneAtOnce(d) => ~building'
  BY <1>2 DEF DoneAtOnce
<1>8. "poll" \in Handlers
  BY DEF Handlers
<1> QED
  BY <1>1, <1>2, <1>6, <1>7, <1>8

LEMMA ClientRest ==
  ASSUME WatchInv, RestInv, ClientStep
  PROVE  RestInv'
<1>0. /\ TypeOK /\ chan \in Seq(Messages) /\ (poller # "off" => link = "closed")
      /\ (writing["poll"] > 0 => poller # "off") /\ Polls \in Nat /\ Files \in Nat
  BY WatchAssumption DEF WatchInv, WatchTyped
<1>1. /\ polls \in 0..Polls /\ loaded \in Nat /\ writing \in [Handlers -> 0..Files]
      /\ building \in BOOLEAN /\ failed \in BOOLEAN
  BY <1>0 DEF TypeOK
<1>2. UNCHANGED recVars /\ sig' = sig /\ missing' = missing
  BY DEF ClientStep, OnOpen, CannotOpen, OnMessage, OnClose, BridgeFails, BridgeHolds, FileWritten,
         PollAnswered, PollFails, PollsExhausted, srvVars
<1>3. sig' # NoSig => missing' = 0 /\ rec'.status # "absent"
  BY <1>2 DEF RestInv, recVars
<1>4. CASE OnOpen \/ CannotOpen \/ OnClose \/ BridgeFails
  BY <1>2, <1>3, <1>4 DEF OnOpen, CannotOpen, OnClose, BridgeFails, Failover, RestInv, uiVars, srvVars, recVars
<1>5. CASE BridgeHolds
  BY <1>2, <1>3, <1>5 DEF BridgeHolds, RestInv, uiVars, srvVars, recVars
<1>6. CASE OnMessage
  <2>1. PICK d : /\ Apply(d, "socket")
                 /\ IF DoneAtOnce(d) THEN FinishStream ELSE UNCHANGED <<settled, link>>
    BY <1>6 DEF OnMessage
  <2>2. /\ UNCHANGED <<srv, poller, polls, route>> /\ chan' = Tail(chan) /\ Head(chan) # Close
        /\ chan # <<>> /\ link = "open" /\ poller = "off"
    BY <1>0, <1>2, <1>6 DEF OnMessage, srvVars, recVars
  <2>3. /\ ~building' => loaded' > 0 \/ failed' \/ polls' = Polls
        /\ DoneAtOnce(d) => ~building'
    BY <1>0, <2>1, <2>2, AppliedRest DEF Handlers
  <2>4. link' = "closed" => ~building'
    BY <2>1, <2>2, <2>3
  <2>5. link' # "closed" => link' = link
    BY <2>1 DEF FinishStream
  <2>6. route = "direct" /\ srv = "ended" => EndsInClose(chan')
    BY <1>0, <2>2, CloseStays DEF RestInv
  <2> QED
    BY <1>3, <2>2, <2>3, <2>4, <2>5, <2>6 DEF RestInv
<1>7. ASSUME NEW h \in Handlers, FileWritten(h) PROVE RestInv'
  <2>1. UNCHANGED <<srv, chan, polls, failed, route>> /\ writing[h] > 0
        /\ writing' = [writing EXCEPT ![h] = @ - 1]
    BY <1>2, <1>7 DEF FileWritten, srvVars, recVars
  <2>2. CASE writing[h] > 1
    <3>1. UNCHANGED <<loaded, building, settled, link, poller>>
      BY <1>7, <2>2 DEF FileWritten
    <3>2. writing["poll"] > 0 => writing'["poll"] > 0
      BY <1>1, <2>1, <2>2 DEF Handlers
    <3> QED
      BY <1>3, <2>1, <3>1, <3>2 DEF RestInv
  <2>3. CASE ~(writing[h] > 1)
    <3>1. /\ loaded' = loaded + 1 /\ building' = FALSE
          /\ IF h = "poll" THEN poller' = "stopped" /\ UNCHANGED <<settled, link>>
             ELSE /\ UNCHANGED poller
                  /\ IF settled THEN UNCHANGED <<settled, link>> ELSE FinishStream
      BY <1>7, <2>3 DEF FileWritten
    <3>2. loaded' > 0
      BY <1>1, <3>1
    <3>3. link' # "closed" => link' = link
      BY <3>1 DEF FinishStream
    <3>4. poller' = "applying" => writing'["poll"] > 0
      <4>1. poller' = "applying" => h # "poll" /\ poller = "applying"
        BY <3>1
      <4>2. h # "poll" => writing'["poll"] = writing["poll"]
        BY <1>1, <2>1 DEF Handlers
      <4> QED
        BY <4>1, <4>2 DEF RestInv
    <3> QED
      BY <1>3, <2>1, <3>1, <3>2, <3>3, <3>4 DEF RestInv
  <2> QED
    BY <2>2, <2>3
<1>8. CASE PollAnswered
  <2>1. PICK d : /\ Apply(d, "poll")
                 /\ poller' = CASE DoneAtOnce(d) -> "stopped"
                                [] d.status = "complete" /\ Files > 0 -> "applying"
                                [] OTHER -> "waiting"
    BY <1>8 DEF PollAnswered
  <2>2. /\ UNCHANGED <<srv, chan, link, route>> /\ polls # Polls
    BY <1>0, <1>1, <1>2, <1>8 DEF PollAnswered, srvVars, recVars
  <2>3. /\ ~building' => loaded' > 0 \/ failed' \/ polls' = Polls
        /\ DoneAtOnce(d) => ~building'
        /\ d.status = "complete" => writing'["poll"] = Files
    BY <1>0, <2>1, <2>2, AppliedRest DEF Handlers
  <2>4. /\ poller' = "stopped" => ~building'
        /\ poller' = "applying" => writing'["poll"] > 0
        /\ poller' # "off"
    BY <1>0, <2>1, <2>3 DEF DoneAtOnce
  <2> QED
    BY <1>3, <2>2, <2>3, <2>4 DEF RestInv
<1>9. CASE PollFails \/ PollsExhausted
  BY <1>0, <1>1, <1>2, <1>3, <1>9 DEF PollFails, PollsExhausted, RestInv, uiVars, srvVars, recVars
<1> QED
  BY <1>4, <1>5, <1>6, <1>7, <1>8, <1>9 DEF ClientStep

LEMMA RestNext == WatchInv /\ RestInv /\ [Next]_vars => RestInv'
<1>1. CASE UNCHANGED vars
  BY <1>1 DEF RestInv, vars
<1> QED
  BY <1>1, RecordRest, TailRest, ClientRest DEF Next

\* The record: a run more, or a later status, or a line more.
LEMMA RecordAdvances ==
  ASSUME WatchInv, RecordStep
  PROVE  RecordNearer
<1>0. /\ rec \in [status : Status, prog : 0..emitted, log : Seq(Line)]
      /\ attempt \in Nat /\ emitted \in Nat
  BY WatchSplit DEF WatchInv, WatchTyped
<1> USE DEF StatusLeft
<1>1. CASE Queue
  BY <1>0, <1>1 DEF Queue, RecordNearer
<1>2. CASE Begin
  BY <1>0, <1>2 DEF Begin, RecordNearer
<1>3. CASE Report
  <2>1. emitted' = emitted + 1 /\ attempt' = attempt /\ rec'.status = rec.status
    BY <1>0, <1>3 DEF Report
  <2> QED
    BY <1>0, <2>1 DEF RecordNearer
<1>4. CASE Finish \/ GiveUp
  <2>1. attempt' = attempt /\ rec.status = "running" /\ rec'.status \in {"complete", "error"}
    BY <1>0, <1>4 DEF Finish, GiveUp
  <2> QED
    BY <2>1 DEF RecordNearer
<1> QED
  BY <1>1, <1>2, <1>3, <1>4 DEF RecordStep

\* The tail: it moves on, or reads what it has not read, or misses the record once
\* more.  A read that finds the signature as it was changes nothing.
LEMMA TailAdvances ==
  ASSUME WatchInv, RestInv, ServerStep
  PROVE  TailNearer \/ UNCHANGED vars
<1>0. srv \in {"none", "tailing", "ended"} /\ missing \in Nat /\ chan \in Seq(Messages)
  BY WatchSplit, WatchAssumption DEF WatchInv, WatchTyped, TypeOK
<1>1. UNCHANGED recVars
  BY DEF ServerStep, Accept, TailMissing, TailForeign, TailRead, TailBreaks
<1> USE DEF TailLeft
<1>2. CASE Accept \/ TailForeign \/ TailBreaks
  BY <1>0, <1>1, <1>2 DEF Accept, TailForeign, TailBreaks, TailNearer
<1>3. CASE TailMissing
  BY <1>0, <1>1, <1>3 DEF TailMissing, TailNearer
<1>4. CASE TailRead
  <2>1. /\ srv = "tailing" /\ missing' = 0 /\ sig' = Signature(rec)
        /\ srv' = IF Settles(rec) THEN "ended" ELSE srv
        /\ UNCHANGED <<link, settled, poller, polls, writing, lastLen, shown, loaded, failed, building>>
    BY <1>4 DEF TailRead, uiVars
  <2>2. Signature(rec)' = Signature(rec)
    BY <1>1 DEF recVars, Signature
  <2>3. CASE Settles(rec)
    BY <1>0, <1>1, <2>1, <2>3 DEF TailNearer
  <2>4. CASE ~Settles(rec) /\ sig # Signature(rec)
    BY <1>1, <2>1, <2>2, <2>4 DEF TailNearer, Unread
  <2>5. CASE ~Settles(rec) /\ sig = Signature(rec)
    <3>1. sig # NoSig
      BY <2>5 DEF Signature, NoSig
    <3>2. missing = 0
      BY <3>1 DEF RestInv
    <3>3. chan' = (chan \o <<>>) \o <<>>
      BY <1>4, <2>1, <2>5 DEF TailRead
    <3>4. chan' = chan
      BY <1>0, <3>3, ConcatEmptySeq
    <3> QED
      BY <1>1, <2>1, <2>5, <3>2, <3>4 DEF vars, recVars
  <2> QED
    BY <2>3, <2>4, <2>5
<1> QED
  BY <1>2, <1>3, <1>4 DEF ServerStep

\* The client: a socket less, a message less, a poll more, polling over, or a file
\* less to be written.
LEMMA ClientAdvances ==
  ASSUME WatchInv, ClientStep
  PROVE  TailNearer \/ ClientNearer
<1>0. /\ TypeOK /\ chan \in Seq(Messages) /\ (poller # "off" => link = "closed")
      /\ (writing["poll"] > 0 => poller # "off") /\ Polls \in Nat /\ Files \in Nat
  BY WatchAssumption DEF WatchInv, WatchTyped
<1>1. /\ polls \in 0..Polls /\ writing \in [Handlers -> 0..Files]
      /\ link \in {"connecting", "open", "closed"} /\ srv \in {"none", "tailing", "ended"}
      /\ poller \in {"off", "waiting", "applying", "stopped"}
  BY <1>0 DEF TypeOK
<1> USE DEF LinkLeft, PollerLeft
<1>2. CASE OnOpen \/ CannotOpen \/ OnClose
  BY <1>1, <1>2 DEF OnOpen, CannotOpen, OnClose, Failover, ClientNearer
<1>3. CASE BridgeFails
  BY <1>3 DEF BridgeFails, TailNearer, TailLeft
<1>4. chan # <<>> /\ chan' = Tail(chan) => Len(chan') < Len(chan)
  BY <1>0
<1>5. CASE BridgeHolds
  BY <1>1, <1>4, <1>5 DEF BridgeHolds, ClientNearer
<1>6. CASE OnMessage
  <2>1. /\ UNCHANGED <<recVars, srvVars>> /\ chan # <<>> /\ chan' = Tail(chan)
        /\ link = "open" /\ (link' = link \/ link' = "closed")
    BY <1>6 DEF OnMessage, FinishStream
  <2> QED
    BY <1>4, <2>1 DEF ClientNearer
<1>7. ASSUME NEW h \in Handlers, FileWritten(h) PROVE ClientNearer
  <2>1. /\ UNCHANGED <<recVars, srvVars, chan, polls>> /\ writing[h] > 0
        /\ writing' = [writing EXCEPT ![h] = @ - 1]
        /\ link' = link \/ link' = "closed"
        /\ poller' = poller \/ (h = "poll" /\ poller' = "stopped")
    BY <1>7 DEF FileWritten, FinishStream
  <2>2. FilesLeft' < FilesLeft
    <3>1. writing["socket"] \in Nat /\ writing["poll"] \in Nat /\ writing[h] - 1 < writing[h]
      BY <1>0, <1>1, <2>1 DEF Handlers
    <3>2. CASE h = "socket"
      BY <1>1, <2>1, <3>1, <3>2 DEF FilesLeft, Handlers
    <3>3. CASE h = "poll"
      BY <1>1, <2>1, <3>1, <3>3 DEF FilesLeft, Handlers
    <3> QED
      BY <3>2, <3>3 DEF Handlers
  <2>3. LinkLeft' < LinkLeft \/ link' = link
    BY <1>1, <2>1
  <2>4. PollerLeft' < PollerLeft \/ poller' = poller
    BY <1>1, <2>1
  <2> QED
    BY <2>1, <2>2, <2>3, <2>4 DEF ClientNearer
<1>8. CASE PollAnswered \/ PollFails
  BY <1>1, <1>8 DEF PollAnswered, PollFails, ClientNearer
<1>9. CASE PollsExhausted
  BY <1>9 DEF PollsExhausted, ClientNearer
<1> QED
  BY <1>2, <1>3, <1>5, <1>6, <1>7, <1>8, <1>9 DEF ClientStep

LEMMA MeasuredType == WatchInv => WatchMeasured
<1> SUFFICES ASSUME WatchInv PROVE WatchMeasured
  OBVIOUS
<1>1. /\ rec.status \in Status /\ attempt \in 0..Attempts /\ emitted \in 0..Lines
      /\ srv \in {"none", "tailing", "ended"} /\ missing \in 0..(Misses + 1)
      /\ link \in {"connecting", "open", "closed"} /\ polls \in 0..Polls
      /\ poller \in {"off", "waiting", "applying", "stopped"}
      /\ writing \in [Handlers -> 0..Files] /\ Len(chan) \in Nat
  BY WatchSplit DEF WatchInv, WatchTyped, TypeOK
<1>2. FilesLeft \in 0..(2 * Files)
  <2>1. writing["socket"] \in 0..Files /\ writing["poll"] \in 0..Files
    BY <1>1 DEF Handlers
  <2> QED
    BY <2>1, WatchAssumption DEF FilesLeft
<1>3. StatusLeft \in 0..3 /\ TailLeft \in 0..2 /\ LinkLeft \in 0..2 /\ PollerLeft \in 0..3
  BY <1>1 DEF StatusLeft, TailLeft, LinkLeft, PollerLeft, Status
<1>4. Unread \in 0..1
  BY DEF Unread
<1> QED
  BY <1>1, <1>2, <1>3, <1>4 DEF WatchMeasured

(***************************************************************************)
(* The safe half of WatchEndsDirect: whatever the socket, the record and   *)
(* the polls do, every step uses up something of which there is only so    *)
(* much, so that the watch cannot go on for ever.                          *)
(***************************************************************************)
THEOREM WatchComesToRest == Spec => []WatchMeasured /\ [][WatchAdvances]_vars
<1>1. WatchInv /\ RestInv /\ [Next]_vars => [WatchAdvances]_vars
  BY RecordAdvances, TailAdvances, ClientAdvances DEF WatchAdvances, Next
<1>2. Spec => []RestInv
  BY RestInit, RestNext, WatchInvariant, PTL DEF Spec
<1> QED
  BY <1>1, <1>2, WatchInvariant, MeasuredType, PTL DEF Spec

(***************************************************************************)
(* And where nothing is left to do, the watch is over with an outcome: the *)
(* files were loaded, a failure was shown, or the polls are used up; but   *)
(* for the socket that the bridge of the gateway holds open.               *)
(***************************************************************************)
THEOREM WatchOverAtRest == Spec => []RestIsOver
<1>1. WatchInv /\ RestInv => RestIsOver
  <2> SUFFICES ASSUME WatchInv, RestInv, AtRest
               PROVE  \/ ~building /\ (loaded > 0 \/ failed \/ polls = Polls)
                      \/ route = "gateway" /\ link = "open" /\ srv = "ended"
    BY DEF RestIsOver
  <2>1. /\ link \in {"connecting", "open", "closed"} /\ srv \in {"none", "tailing", "ended"}
        /\ poller \in {"off", "waiting", "applying", "stopped"}
        /\ writing \in [Handlers -> 0..Files] /\ route \in {"direct", "gateway"}
    BY WatchAssumption DEF WatchInv, WatchTyped, TypeOK
  <2>2. /\ srv = "tailing" => Len(chan) >= Window
        /\ ~(srv = "none" /\ route = "gateway" /\ link = "open")
        /\ link # "connecting" /\ (link = "open" => chan = <<>>)
        /\ writing["poll"] = 0 /\ poller # "waiting"
    BY DEF AtRest, Handlers
  <2>3. CASE link = "closed"
    <3>1. poller # "applying"
      BY <2>2 DEF RestInv
    <3>2. ~building
      BY <2>1, <2>2, <2>3, <3>1 DEF RestInv
    <3> QED
      BY <3>2 DEF RestInv
  <2>4. CASE link = "open"
    <3>1. chan = <<>> /\ srv # "tailing"
      BY <2>2, <2>4, WatchAssumption
    <3>2. ~EndsInClose(chan)
      BY <3>1 DEF EndsInClose
    <3>3. route # "direct"
      BY <2>1, <2>4, <3>1, <3>2 DEF RestInv
    <3> QED
      BY <2>1, <2>2, <2>4, <3>1, <3>3
  <2> QED
    BY <2>1, <2>2, <2>3, <2>4
<1>2. Spec => []RestInv
  BY RestInit, RestNext, WatchInvariant, PTL DEF Spec
<1> QED
  BY <1>1, <1>2, WatchInvariant, PTL
=============================================================================
