--------------------------- MODULE ModelRegistry ---------------------------
(***************************************************************************)
(* The catalog of models of an orchestrator instance and how an agent's    *)
(* model is chosen (services/model_registry.py, _create_llm in             *)
(* agents/graph.py).                                                       *)
(*                                                                         *)
(* The catalog lives in memory: a model that was discovered or registered, *)
(* and the defaults that were set, are known to one instance until it      *)
(* restarts. A job goes on elsewhere, or after a restart, with the         *)
(* configuration it was started with.                                      *)
(*                                                                         *)
(* Simplifications.  A descriptor is where its model is served.  Windows   *)
(* and temperatures are left out.                                          *)
(***************************************************************************)
EXTENDS Naturals, FiniteSets

CONSTANTS
  Instances,
  Agents,      \* agents' names, those of the code's table
  Builtins,    \* ids of the seeded models
  Flash, Pro,  \* two of them: the defaults
  Others,      \* further ids that users register or Google offers
  Unlisted,    \* an id no catalog has
  ModelJobs

ASSUME ModelAssumption == {Flash, Pro} \subseteq Builtins /\ Unlisted \notin Builtins \cup Others

VARIABLES
  catalog,     \* of each instance: where each model is served, or "absent"
  default,     \* the system default
  agentDefault,
  wish,        \* what each job was started with
  lastLlm,     \* the model of the job's last call, with the agent and whether known
  forgot       \* history: jobs whose instance restarted, or that moved, since

modelVars == <<catalog, default, agentDefault, wish, lastLlm, forgot>>

ModelIds == Builtins \cup Others
Unset == "unset"
NoWish == [model |-> Unset, agents |-> <<>>, on |-> Unset]
NoCall == [agent |-> Unset, model |-> Unset, by |-> Unset]

Listed(i) == {m \in ModelIds : catalog[i][m] # "absent"}

\* The models a job may be started with, and what a call may have run on.
Wishes == [model : ModelIds \cup {Unlisted, Unset},
           agents : UNION {[A -> {Pro, Unlisted}] : A \in SUBSET Agents}, on : Instances]
Calls == [agent : Agents, model : ModelIds \cup {Unlisted}, by : {"endpoint", "google"}]

ModelTypeOK ==
  /\ catalog \in [Instances -> [ModelIds -> {"absent", "google", "custom"}]]
  /\ default \in [Instances -> ModelIds] /\ agentDefault \in [Instances -> [Agents -> ModelIds]]
  /\ \A i \in Instances : {default[i]} \cup {agentDefault[i][a] : a \in Agents} \subseteq Listed(i)
  /\ wish \in [ModelJobs -> {NoWish} \cup Wishes] /\ lastLlm \in [ModelJobs -> {NoCall} \cup Calls]
  /\ forgot \subseteq ModelJobs

-----------------------------------------------------------------------------

Seeded == [m \in ModelIds |-> IF m \in Builtins THEN "google" ELSE "absent"]
SeededAgents == [a \in Agents |-> IF a = "architect" THEN Pro ELSE Flash]

ModelInit ==
  /\ catalog = [i \in Instances |-> Seeded] /\ default = [i \in Instances |-> Flash]
  /\ agentDefault = [i \in Instances |-> SeededAgents]
  /\ wish = [j \in ModelJobs |-> NoWish] /\ lastLlm = [j \in ModelJobs |-> NoCall]
  /\ forgot = {}

\* scan_and_sync_available_models adds what it found before the list ended or
\* failed; nothing is replaced or removed.
ScanModels(i, found) ==
  /\ catalog' = [catalog EXCEPT ![i] = [m \in ModelIds |->
       IF m \in found /\ @[m] = "absent" THEN "google" ELSE @[m]]]
  /\ UNCHANGED <<default, agentDefault, wish, lastLlm, forgot>>

\* register_custom_model replaces a model of the same id.
RegisterCustom(i, m) ==
  /\ catalog' = [catalog EXCEPT ![i][m] = "custom"]
  /\ UNCHANGED <<default, agentDefault, wish, lastLlm, forgot>>

\* Mutant: the model need not be listed.
SetDefaultUnchecked(i, m) ==
  /\ default' = [default EXCEPT ![i] = m]
  /\ UNCHANGED <<catalog, agentDefault, wish, lastLlm, forgot>>

SetDefaultModel(i, m) ==
  /\ m \in Listed(i)
  /\ default' = [default EXCEPT ![i] = m]
  /\ UNCHANGED <<catalog, agentDefault, wish, lastLlm, forgot>>

SetAgentModel(i, a, m) ==
  /\ m \in Listed(i)
  /\ agentDefault' = [agentDefault EXCEPT ![i][a] = m]
  /\ UNCHANGED <<catalog, default, wish, lastLlm, forgot>>

\* Mutant: the agent's default goes before the job's model.
ResolveAgentFirst(i, a, cfg) ==
  CASE a \in DOMAIN cfg.agents -> cfg.agents[a]
    [] a \notin DOMAIN cfg.agents -> agentDefault[i][a]

\* resolve_model_id.  Every agent has a default, so that the system's is never
\* reached with an agent's name.
ResolveModelId(i, a, cfg) ==
  CASE a \in DOMAIN cfg.agents -> cfg.agents[a]   \* listed or not
    [] a \notin DOMAIN cfg.agents /\ cfg.model \in Listed(i) -> cfg.model
    [] a \notin DOMAIN cfg.agents /\ cfg.model \notin Listed(i) -> agentDefault[i][a]

\* start_generation takes any configuration.
StartJobWith(j, i, model, agents) ==
  /\ wish[j] = NoWish
  /\ wish' = [wish EXCEPT ![j] = [model |-> model, agents |-> agents, on |-> i]]
  /\ forgot' = IF model \in Listed(i) THEN forgot ELSE forgot \cup {j}
  /\ UNCHANGED <<catalog, default, agentDefault, lastLlm>>

\* _create_llm of one agent: at the endpoint it was registered with, else Google.
CallAgent(j, i, a) ==
  /\ wish[j] # NoWish
  /\ LET m == ResolveModelId(i, a, wish[j]) IN
       lastLlm' = [lastLlm EXCEPT ![j] =
         [agent |-> a, model |-> m,
          by |-> IF m \in Listed(i) /\ catalog[i][m] = "custom" THEN "endpoint" ELSE "google"]]
  /\ forgot' = IF wish[j].on # i THEN forgot \cup {j} ELSE forgot
  /\ UNCHANGED <<catalog, default, agentDefault, wish>>

RestartInstance(i) ==
  /\ catalog' = [catalog EXCEPT ![i] = Seeded]
  /\ default' = [default EXCEPT ![i] = Flash]
  /\ agentDefault' = [agentDefault EXCEPT ![i] = SeededAgents]
  /\ forgot' = forgot \cup {j \in ModelJobs : wish[j].on = i}
  /\ UNCHANGED <<wish, lastLlm>>

ModelNext ==
  \E i \in Instances :
    \/ RestartInstance(i)
    \/ \E found \in {ModelIds} \cup SUBSET Others : ScanModels(i, found)
    \/ \E m \in ModelIds :
         \/ RegisterCustom(i, m) \/ SetDefaultModel(i, m)
         \/ \E a \in Agents : SetAgentModel(i, a, m)
    \/ \E j \in ModelJobs :
         \/ \E a \in Agents : CallAgent(j, i, a)
         \/ \E m \in ModelIds \cup {Unlisted, Unset}, A \in SUBSET Agents :
              \E agents \in [A -> {Pro, Unlisted}] : StartJobWith(j, i, m, agents)

ModelSpec == ModelInit /\ [][ModelNext]_modelVars

-----------------------------------------------------------------------------
(* Properties.                                                             *)

(***************************************************************************)
(* A job that named a model its instance knew runs every agent on it, save *)
(* those it named another model for, whatever defaults are set and models  *)
(* found or registered in between; until the instance restarts or the job  *)
(* goes on at another, which silently take the agent's default if they do  *)
(* not know the model.  And a call always has some model that a catalog    *)
(* listed, unless the job itself named the agent's.                        *)
(***************************************************************************)
JobModelHonored ==
  \A j \in ModelJobs : lastLlm[j] # NoCall =>
    LET a == lastLlm[j].agent IN
      a \notin DOMAIN wish[j].agents =>
        /\ lastLlm[j].model # Unlisted
        /\ j \notin forgot => lastLlm[j].model = wish[j].model
=============================================================================
