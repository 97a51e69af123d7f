---------------------------- MODULE RateLimiter ----------------------------
(***************************************************************************)
(* The sliding-window limiter in front of the orchestrator (shared         *)
(* rate_limit.py): per client and instance, the times of the calls it let  *)
(* through, of which those that have left the window are popped at each    *)
(* call.                                                                   *)
(*                                                                         *)
(* The deque of a client is log[k][head[k]..Len(log[k])]: what was popped  *)
(* from its left stays in log as history.                                  *)
(*                                                                         *)
(* Simplifications.  The clock ticks in whole units of which Retry-After   *)
(* is a multiple: int() cuts a wait to whole seconds, Second units each.   *)
(* The exempt paths, the choice of a client's key and the fail-open branch *)
(* are left out.                                                           *)
(***************************************************************************)
EXTENDS Integers, Sequences

CONSTANTS
  Keys,      \* clients
  Limit,
  Window,    \* in units
  Second,    \* units of a second
  MaxTime    \* bound on the clock

ASSUME LimiterAssumption == Limit \in Nat \ {0} /\ Window \in Nat /\ Second \in Nat \ {0}

VARIABLES
  now,       \* time.monotonic()
  log,       \* when each client's calls were let through
  head,      \* the leftmost entry of its deque
  retryAt    \* when a refused client was told to come back, else 0

limiterVars == <<now, log, head, retryAt>>

LimiterTypeOK ==
  /\ now \in Nat /\ log \in [Keys -> Seq(Nat)]
  /\ head \in [Keys -> Nat \ {0}] /\ retryAt \in [Keys -> Nat]

LimiterInit ==
  /\ now = 0 /\ log = [k \in Keys |-> <<>>]
  /\ head = [k \in Keys |-> 1] /\ retryAt = [k \in Keys |-> 0]

Cutoff == now - Window

\* Mutant: an entry at the cutoff is popped too.
PoppedAtCutoff(k, h) ==
  /\ h \in head[k]..Len(log[k]) + 1
  /\ \A n \in head[k]..h - 1 : log[k][n] <= Cutoff
  /\ h <= Len(log[k]) => log[k][h] > Cutoff

\* h is the head once the entries before the cutoff are popped.
Popped(k, h) ==
  /\ h \in head[k]..Len(log[k]) + 1
  /\ \A n \in head[k]..h - 1 : log[k][n] < Cutoff
  /\ h <= Len(log[k]) => log[k][h] >= Cutoff

InDeque(k, h) == Len(log[k]) + 1 - h

\* Mutant: the wait is that of the newest entry.
RetryAfterNewest(k, h) ==
  LET whole == (Window - (now - log[k][Len(log[k])])) \div Second IN
    IF whole < 1 THEN Second ELSE Second * whole

\* max(1, int(window - (now - dq[0]))), in seconds.
RetryAfter(k, h) ==
  LET whole == (Window - (now - log[k][h])) \div Second IN
    IF whole < 1 THEN Second ELSE Second * whole

\* dispatch, for one client.
Admit(k) == \E h \in 1..Len(log[k]) + 1 :
  /\ Popped(k, h) /\ InDeque(k, h) < Limit
  /\ log' = [log EXCEPT ![k] = Append(@, now)]
  /\ head' = [head EXCEPT ![k] = h]
  /\ retryAt' = [retryAt EXCEPT ![k] = 0]
  /\ UNCHANGED now

Refuse429(k) == \E h \in 1..Len(log[k]) + 1 :
  /\ Popped(k, h) /\ InDeque(k, h) >= Limit
  /\ head' = [head EXCEPT ![k] = h]
  /\ retryAt' = [retryAt EXCEPT ![k] = now + RetryAfter(k, h)]
  /\ UNCHANGED <<now, log>>

Tick ==
  /\ now < MaxTime /\ now' = now + 1
  /\ UNCHANGED <<log, head, retryAt>>

LimiterNext == Tick \/ \E k \in Keys : Admit(k) \/ Refuse429(k)

LimiterSpec == LimiterInit /\ [][LimiterNext]_limiterVars

-----------------------------------------------------------------------------
(* Properties.                                                             *)

(***************************************************************************)
(* No more than Limit calls of a client are let through in any window,     *)
(* ends included, wherever it begins: of Limit + 1 in a row the last comes *)
(* more than a window after the first.                                     *)
(***************************************************************************)
WindowRespected ==
  \A k \in Keys : \A n \in 1..Len(log[k]) - Limit : log[k][n + Limit] - log[k][n] > Window

\* Is there room for a call of the client at time t, if it made none in between?
RoomAt(k, t) ==
  Len(log[k]) < Limit \/ log[k][Len(log[k]) + 1 - Limit] < t - Window

(***************************************************************************)
(* Nor are fewer: a client is refused only while Limit of its calls are in *)
(* the window, and Retry-After is right to within the second that int()    *)
(* cuts off: a second before the time it was told it would have been       *)
(* refused, a second after that it is let through.                         *)
(***************************************************************************)
RefusedJustly ==
  \A k \in Keys : retryAt[k] # 0 =>
    ~RoomAt(k, retryAt[k] - Second) /\ RoomAt(k, retryAt[k] + Second)

(***************************************************************************)
(* The limiter lets through as many calls of a client as it should: never  *)
(* more than Limit in a window, and it turns none away that has room.      *)
(***************************************************************************)
LimitExact == WindowRespected /\ RefusedJustly
=============================================================================
