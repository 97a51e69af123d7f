----------------------------- MODULE MCOverlaps -----------------------------
(***************************************************************************)
(* Components whose handlers overlap on one thing: the sockets of a        *)
(* session on its list, builds of one project name on its directory,       *)
(* checkouts and webhooks on the rows of an organization.  The components  *)
(* share no state: a behaviour is one of the component in focus.           *)
(***************************************************************************)
EXTENDS SessionHub, ParallelBuild, Billing, TLC

CONSTANTS api, web, h1, h2   \* paths

VARIABLE focus   \* the component this behaviour is about

MCScaffold == <<api, web>>
MCAnswers == {<<>>, <<api>>, <<api, web>>, <<web, web>>}

OverlapsInit ==
  /\ focus \in {"hub", "swarm", "billing"}
  /\ HubInit /\ SwarmInit /\ BillingInit

OverlapsNext ==
  /\ UNCHANGED focus
  /\ \/ focus = "hub" /\ HubNext /\ UNCHANGED <<swarmVars, billingVars>>
     \/ focus = "swarm" /\ SwarmNext /\ UNCHANGED <<hubVars, billingVars>>
     \/ focus = "billing" /\ BillingNext /\ UNCHANGED <<hubVars, swarmVars>>

OverlapsSpec ==
  OverlapsInit /\ [][OverlapsNext]_<<focus, hubVars, swarmVars, billingVars>>

\* Type correctness of all of them.
OverlapsTyped ==
  CASE focus = "hub" -> HubTypeOK
    [] focus = "swarm" -> SwarmTypeOK
    [] focus = "billing" -> BillingTypeOK

\* Sockets (also the rows), and broadcasts (also builds and checkouts) are
\* interchangeable; safety only.
Interchangeable == Permutations(Sockets) \cup Permutations(Casts) \cup Permutations(Hooks)
=============================================================================
