------------------------------ MODULE Billing ------------------------------
(***************************************************************************)
(* Subscriptions of one organization (platform routes/billing.py) and the  *)
(* part of Stripe that it talks to.                                        *)
(*                                                                         *)
(* A checkout looks for the organization's row, makes a customer and a row *)
(* if there is none, and a checkout session at Stripe, and commits.        *)
(* Nothing keeps an organization from having two rows.  Stripe numbers     *)
(* what happens to a subscription; its events arrive in any order and more *)
(* than once, and again after an answer that is not 2xx.  A webhook reads  *)
(* its row without a lock; the middleware commits after the handler, with  *)
(* an UPDATE of the columns that differ from what was read, so two of them *)
(* on one row may mix their columns.                                       *)
(*                                                                         *)
(* Simplifications.  The caller may administer the organization, keys and  *)
(* prices are configured, signatures hold.  Customers and period dates are *)
(* left out.                                                               *)
(***************************************************************************)
EXTENDS Naturals, FiniteSets

CONSTANTS
  Subs,        \* row ids of subscriptions
  Plans,
  Checkouts,   \* slots for checkouts, each with its session at Stripe
  Hooks,       \* slots for webhooks in flight
  MaxEvents    \* bound on the events of a Stripe subscription

VARIABLES
  org,         \* does the organization exist
  sub,         \* the rows of subscriptions
  checkout,    \* the checkouts; a paid one is the Stripe subscription
  stripe,      \* what Stripe knows of that subscription: status and events sent
  event,       \* the events on their way
  hook,        \* the webhooks: their event and the copy of the row they read
  told,        \* history: the last event handled, of each subscription
  disorder,    \* history: subscriptions with an event handled out of order
  torn         \* history: rows handled from a copy that was no longer true

billingVars == <<org, sub, checkout, stripe, event, hook, told, disorder, torn>>
hookVars == <<hook, told, disorder, torn>>

NoSub == [status |-> "absent"]
NoCheckout == [at |-> "idle"]
NoHook == [event |-> "none"]
Unpaid == [status |-> "none", sent |-> 0]
Nothing == "none"   \* no stripe_subscription_id, or the plan before a payment

ASSUME BillingAssumption == Nothing \notin Subs \cup Checkouts /\ MaxEvents \in Nat

SubRows == [status : {"incomplete", "active", "past_due", "canceled"},
            plan : Plans \cup {"free"}, of : Checkouts \cup {Nothing}]
Events == [type : {"completed", "updated", "deleted"}, of : Checkouts,
           n : 1..MaxEvents, status : {"active", "past_due", "canceled"}]
Copies == UNION {[S -> SubRows] : S \in SUBSET Subs}

BillingTypeOK ==
  /\ org \in {"here", "gone"}
  /\ sub \in [Subs -> {NoSub} \cup SubRows]
  /\ checkout \in [Checkouts -> {NoCheckout} \cup
       [at : {"found", "flushed", "open", "paid", "failed"}, plan : Plans, new : BOOLEAN,
        row : Subs \cup {Nothing}]]
  /\ stripe \in [Checkouts -> [status : {"none", "active", "past_due", "canceled"},
                               sent : 0..MaxEvents]]
  /\ event \subseteq Events
  /\ hook \in [Hooks -> {NoHook} \cup [event : Events, copy : Copies]]
  /\ told \in [Checkouts -> 0..MaxEvents] /\ disorder \subseteq Checkouts /\ torn \subseteq Subs

BillingInit ==
  /\ org = "here" /\ sub = [r \in Subs |-> NoSub]
  /\ checkout = [c \in Checkouts |-> NoCheckout]
  /\ stripe = [c \in Checkouts |-> Unpaid]
  /\ event = {} /\ hook = [h \in Hooks |-> NoHook]
  /\ told = [c \in Checkouts |-> 0] /\ disorder = {} /\ torn = {}

-----------------------------------------------------------------------------
(* Checkout.                                                               *)

Held == {r \in Subs : sub[r] # NoSub}

\* Row ids are random: a new one is nobody else's.
Reserved == {checkout[c].row : c \in {d \in Checkouts : checkout[d] # NoCheckout}}

\* _find_subscription: with two rows it raises.
FindSubscription(c, plan) ==
  /\ org = "here" /\ checkout[c] = NoCheckout /\ Cardinality(Held) <= 1
  /\ checkout' = [checkout EXCEPT ![c] =
       [at |-> "found", plan |-> plan, new |-> Held = {},
        row |-> IF Held = {} THEN Nothing ELSE CHOOSE r \in Held : TRUE]]
  /\ UNCHANGED <<org, sub, stripe, event, hookVars>>

\* Customer.create and the flush of the row, unless there was one.
FlushSubscription(c) ==
  /\ checkout[c].at = "found"
  /\ \/ /\ checkout[c].new
        /\ \E r \in Subs \ (Held \cup Reserved) :
             checkout' = [checkout EXCEPT ![c].at = "flushed", ![c].row = r]
     \/ ~checkout[c].new /\ checkout' = [checkout EXCEPT ![c].at = "flushed"]
  /\ UNCHANGED <<org, sub, stripe, event, hookVars>>

FirstRow == [status |-> "incomplete", plan |-> "free", of |-> Nothing]

\* Mutant: the answer goes out although the commit failed.
OpenUncommitted(c) ==
  /\ checkout[c].at = "flushed" /\ (checkout[c].new => org = "here")
  /\ checkout' = [checkout EXCEPT ![c].at = "open"]
  /\ UNCHANGED <<org, sub, stripe, event, hookVars>>

\* Session.create, the commit and the answer with the session's URL.
OpenSession(c) ==
  /\ checkout[c].at = "flushed" /\ (checkout[c].new => org = "here")
  /\ sub' = IF checkout[c].new THEN [sub EXCEPT ![checkout[c].row] = FirstRow] ELSE sub
  /\ checkout' = [checkout EXCEPT ![c].at = "open"]
  /\ UNCHANGED <<org, stripe, event, hookVars>>

\* Stripe or the database fails: rolled back, the customer stays at Stripe, and
\* nobody has the URL of a session.
FailCheckout(c) ==
  /\ checkout[c].at \in {"found", "flushed"}
  /\ checkout' = [checkout EXCEPT ![c].at = "failed"]
  /\ UNCHANGED <<org, sub, stripe, event, hookVars>>

\* delete_organization: its rows go with it, the subscriptions at Stripe stay.
DropOrganization ==
  /\ org = "here" /\ org' = "gone"
  /\ sub' = [r \in Subs |-> NoSub]
  /\ UNCHANGED <<checkout, stripe, event, hookVars>>

-----------------------------------------------------------------------------
(* Stripe (external).                                                      *)

Emit(c, type, status) ==
  /\ stripe[c].sent < MaxEvents
  /\ stripe' = [stripe EXCEPT ![c] = [status |-> status, sent |-> @.sent + 1]]
  /\ event' = event \cup {[type |-> type, of |-> c, n |-> stripe[c].sent + 1, status |-> status]}
  /\ UNCHANGED <<org, sub, hookVars>>

Pay(c) ==
  /\ checkout[c].at = "open"
  /\ Emit(c, "completed", "active")
  /\ checkout' = [checkout EXCEPT ![c].at = "paid"]

Renew(c, status) ==
  /\ stripe[c].status \in {"active", "past_due"} \ {status}
  /\ Emit(c, "updated", status) /\ UNCHANGED checkout

Cancel(c) ==
  /\ stripe[c].status \in {"active", "past_due"}
  /\ Emit(c, "deleted", "canceled") /\ UNCHANGED checkout

-----------------------------------------------------------------------------
(* The webhook.                                                            *)

OfStripe(c) == {r \in Held : sub[r].of = c}

\* The row a webhook is about.  A completed checkout's: by its id, else by the
\* organization.  Unknown subscriptions have none, and their events are dropped.
Targets(e) ==
  LET ref == {checkout[e.of].row} \cap Held IN
  IF e.type # "completed" THEN OfStripe(e.of) ELSE IF ref # {} THEN ref ELSE Held

\* _handle_checkout_completed
HandleCompleted(e) == [status |-> "active", plan |-> checkout[e.of].plan, of |-> e.of]

\* Mutant: an update always means a running subscription.
HandleUpdatedActive(e, row) == [row EXCEPT !.status = "active"]

\* _handle_subscription_updated
HandleUpdated(e, row) == [row EXCEPT !.status = e.status]

\* _handle_subscription_deleted
HandleDeleted(row) == [row EXCEPT !.status = "canceled"]

Handled(e, row) ==
  CASE e.type = "completed" -> HandleCompleted(e)
    [] e.type = "updated" -> HandleUpdated(e, row)
    [] e.type = "deleted" -> HandleDeleted(row)

\* What e finds now.
Found(e) == [r \in Targets(e) |-> sub[r]]

\* stripe_webhook up to the commit; with two rows to choose from it raises.
WebhookRead(h, e) ==
  /\ hook[h] = NoHook /\ Cardinality(Targets(e)) <= 1
  /\ hook' = [hook EXCEPT ![h] = [event |-> e, copy |-> Found(e)]]
  /\ UNCHANGED <<org, sub, checkout, stripe, event, told, disorder, torn>>

\* Only the columns that differ from the copy are in the UPDATE.
Merged(old, new, row) ==
  [status |-> IF new.status # old.status THEN new.status ELSE row.status,
   plan |-> IF new.plan # old.plan THEN new.plan ELSE row.plan,
   of |-> IF new.of # old.of THEN new.of ELSE row.of]

Dirty(k) == {r \in DOMAIN k.copy : Handled(k.event, k.copy[r]) # k.copy[r]}

\* The middleware's flush and commit.  A row to write that is gone raises
\* (WebhookFails).  The event may come again.
WebhookCommit(h) ==
  LET k == hook[h]
      e == k.event
  IN
    /\ k # NoHook /\ Dirty(k) \subseteq Held
    /\ sub' = [r \in Subs |-> IF r \in Dirty(k)
                              THEN Merged(k.copy[r], Handled(e, k.copy[r]), sub[r])
                              ELSE sub[r]]
    /\ hook' = [hook EXCEPT ![h] = NoHook]
    /\ event' = event \ {e} \/ event' = event
    /\ told' = [told EXCEPT ![e.of] = IF e.n > @ THEN e.n ELSE @]
    /\ disorder' = IF e.n \in {told[e.of], told[e.of] + 1} THEN disorder ELSE disorder \cup {e.of}
    /\ torn' = IF k.copy = Found(e) THEN torn ELSE torn \cup DOMAIN k.copy \cup Targets(e)
    /\ UNCHANGED <<org, checkout, stripe>>

\* The database fails, or the instance: rolled back, and the event comes again.
WebhookFails(h) ==
  /\ hook[h] # NoHook
  /\ hook' = [hook EXCEPT ![h] = NoHook]
  /\ UNCHANGED <<org, sub, checkout, stripe, event, told, disorder, torn>>

BillingNext ==
  \/ DropOrganization
  \/ \E c \in Checkouts :
       \/ FlushSubscription(c) \/ OpenSession(c) \/ FailCheckout(c) \/ Pay(c) \/ Cancel(c)
       \/ \E plan \in Plans : FindSubscription(c, plan)
       \/ \E status \in {"active", "past_due"} : Renew(c, status)
  \/ \E h \in Hooks : (\E e \in event : WebhookRead(h, e)) \/ WebhookCommit(h) \/ WebhookFails(h)

BillingSpec == BillingInit /\ [][BillingNext]_billingVars

-----------------------------------------------------------------------------
(* Properties.                                                             *)

(***************************************************************************)
(* A row says of its Stripe subscription what Stripe says, once every      *)
(* event of it was handled, in order, and none of the row's from a copy    *)
(* that was no longer true, whatever else overlaps, fails and comes again. *)
(* (An event that comes late, and two webhooks on one row that mix their   *)
(* columns, do leave a row that says something else.)                      *)
(***************************************************************************)
MirrorsStripe ==
  \A r \in Held \ torn : LET c == sub[r].of IN
    c # Nothing /\ c \notin disorder /\ told[c] = stripe[c].sent
      => sub[r].status = stripe[c].status

(***************************************************************************)
(* While the organization exists, a payment that the webhook was told of   *)
(* is on some row, even if overlapping first checkouts have made two;      *)
(* unless another payment for the same row took its place, which Stripe    *)
(* goes on charging beside it.                                             *)
(***************************************************************************)
PaidIsServed ==
  \A c \in Checkouts : org = "here" /\ told[c] > 0 /\ c \notin disorder =>
    \E r \in Held : sub[r].of = c \/
      \E d \in Checkouts \ {c} : sub[r].of = d /\ checkout[d].row = checkout[c].row
=============================================================================
