--------------------------- MODULE InstanceProofs ---------------------------
(***************************************************************************)
(* Proofs about what an instance of the orchestrator keeps in its memory:  *)
(* ModelRegistry, for any instances, agents, models and jobs, and          *)
(* RateLimiter, for any clients, limit, window and unit of time.           *)
(***************************************************************************)
EXTENDS ModelRegistry, RateLimiter, TLAPS

(***************************************************************************)
(* The inductive invariant of the model registry.  After the types: a job  *)
(* that has made a call was started; and a job that is not among the       *)
(* forgotten named a model that the instance it was started at lists       *)
(* still.                                                                  *)
(***************************************************************************)
CallersStarted == \A j \in ModelJobs : wish[j] = NoWish => lastLlm[j] = NoCall

KnownStill ==
  \A j \in ModelJobs : wish[j] # NoWish /\ j \notin forgot =>
    wish[j].model \in Listed(wish[j].on)

ModelInv == ModelTypeOK /\ CallersStarted /\ KnownStill /\ JobModelHonored

-----------------------------------------------------------------------------
(* ModelRegistry.                                                          *)

\* A catalog only grows, but for a restart.
Grown(i) == Listed(i) \subseteq Listed(i)'

\* Catalogs of the right type in which every default is listed.
Shelves ==
  /\ catalog \in [Instances -> [ModelIds -> {"absent", "google", "custom"}]]
  /\ default \in [Instances -> ModelIds] /\ agentDefault \in [Instances -> [Agents -> ModelIds]]
  /\ \A i \in Instances : default[i] \in Listed(i) /\ \A a \in Agents : agentDefault[i][a] \in Listed(i)

Diaries ==
  /\ wish \in [ModelJobs -> {NoWish} \cup Wishes] /\ lastLlm \in [ModelJobs -> {NoCall} \cup Calls]
  /\ forgot \subseteq ModelJobs

LEMMA TypeOKSplit ==
  /\ ModelTypeOK <=> Shelves /\ Diaries
  /\ ModelTypeOK' <=> Shelves' /\ Diaries'
  BY DEF ModelTypeOK, Shelves, Diaries, Listed

LEMMA SeededTypes ==
  /\ Seeded \in [ModelIds -> {"absent", "google", "custom"}]
  /\ SeededAgents \in [Agents -> ModelIds]
  /\ {Flash, Pro} \subseteq ModelIds
  /\ \A m \in Builtins : Seeded[m] # "absent"
  /\ \A a \in Agents : SeededAgents[a] \in Builtins
  BY ModelAssumption DEF Seeded, SeededAgents, ModelIds

LEMMA ModelInitInv == ModelInit => ModelInv
<1> SUFFICES ASSUME ModelInit PROVE ModelInv
  OBVIOUS
<1>1. Shelves
  BY SeededTypes, ModelAssumption DEF ModelInit, Shelves, Listed, ModelIds
<1>2. Diaries /\ CallersStarted /\ KnownStill /\ JobModelHonored
  BY DEF ModelInit, Diaries, CallersStarted, KnownStill, JobModelHonored
<1> QED
  BY <1>1, <1>2, TypeOKSplit DEF ModelInv

\* A step that lets the catalogs only grow and leaves the jobs alone.
LEMMA GrowsOnly ==
  ASSUME ModelInv, Shelves', \A i \in Instances : Grown(i), UNCHANGED <<wish, lastLlm, forgot>>
  PROVE  ModelInv'
<1>1. Diaries'
  BY TypeOKSplit DEF ModelInv, Diaries
<1>2. CallersStarted' /\ JobModelHonored'
  BY DEF ModelInv, CallersStarted, JobModelHonored
<1>3. KnownStill'
  <2> SUFFICES ASSUME NEW j \in ModelJobs, wish[j] # NoWish, j \notin forgot
               PROVE  wish[j].model \in Listed(wish[j].on)'
    BY DEF KnownStill
  <2>1. wish[j] \in Wishes
    BY DEF ModelInv, ModelTypeOK
  <2>2. wish[j].on \in Instances
    BY <2>1 DEF Wishes
  <2>3. wish[j].model \in Listed(wish[j].on)
    BY DEF ModelInv, KnownStill
  <2> QED
    BY <2>2, <2>3 DEF Grown, Listed
<1> QED
  BY <1>1, <1>2, <1>3, TypeOKSplit DEF ModelInv

LEMMA ScanKeeps ==
  ASSUME ModelInv, NEW i \in Instances, NEW found, ScanModels(i, found)
  PROVE  ModelInv'
<1> DEFINE new == [m \in ModelIds |-> IF m \in found /\ catalog[i][m] = "absent"
                                      THEN "google" ELSE catalog[i][m]]
<1>1. Shelves
  BY TypeOKSplit DEF ModelInv
<1>2. catalog[i] \in [ModelIds -> {"absent", "google", "custom"}]
  BY <1>1 DEF Shelves
<1>3. /\ new \in [ModelIds -> {"absent", "google", "custom"}]
      /\ \A m \in ModelIds : catalog[i][m] # "absent" => new[m] # "absent"
  BY <1>2
<1>4. catalog' = [catalog EXCEPT ![i] = new] /\ UNCHANGED <<default, agentDefault, wish, lastLlm, forgot>>
  BY DEF ScanModels
<1> HIDE DEF new
<1>5. catalog'[i] = new /\ \A k \in Instances \ {i} : catalog'[k] = catalog[k]
  BY <1>1, <1>4 DEF Shelves
<1>6. \A k \in Instances : Grown(k)
  BY <1>3, <1>5 DEF Grown, Listed
<1>7. catalog' \in [Instances -> [ModelIds -> {"absent", "google", "custom"}]]
  BY <1>1, <1>3, <1>4 DEF Shelves
<1>8. Shelves'
  BY <1>1, <1>4, <1>6, <1>7 DEF Shelves, Grown
<1> QED
  BY <1>4, <1>6, <1>8, GrowsOnly

LEMMA RegisterKeeps ==
  ASSUME ModelInv, NEW i \in Instances, NEW m \in ModelIds, RegisterCustom(i, m)
  PROVE  ModelInv'
<1>1. Shelves
  BY TypeOKSplit DEF ModelInv
<1>2. catalog[i] \in [ModelIds -> {"absent", "google", "custom"}]
  BY <1>1 DEF Shelves
<1>3. catalog' = [catalog EXCEPT ![i][m] = "custom"] /\ UNCHANGED <<default, agentDefault, wish, lastLlm, forgot>>
  BY DEF RegisterCustom
<1>4. catalog'[i] = [catalog[i] EXCEPT ![m] = "custom"] /\ \A k \in Instances \ {i} : catalog'[k] = catalog[k]
  BY <1>1, <1>3 DEF Shelves
<1>5. \A k \in Instances : Grown(k)
  BY <1>2, <1>4 DEF Grown, Listed
<1>6. catalog' \in [Instances -> [ModelIds -> {"absent", "google", "custom"}]]
  BY <1>1, <1>2, <1>3, <1>4 DEF Shelves
<1>7. Shelves'
  BY <1>1, <1>3, <1>5, <1>6 DEF Shelves, Grown
<1> QED
  BY <1>3, <1>5, <1>7, GrowsOnly

LEMMA DefaultKeeps ==
  ASSUME ModelInv, NEW i \in Instances, NEW m \in ModelIds,
         SetDefaultModel(i, m) \/ \E a \in Agents : SetAgentModel(i, a, m)
  PROVE  ModelInv'
<1>1. Shelves
  BY TypeOKSplit DEF ModelInv
<1>2. UNCHANGED <<catalog, wish, lastLlm, forgot>> /\ m \in Listed(i)
  BY DEF SetDefaultModel, SetAgentModel
<1>3. \A k \in Instances : Grown(k)
  BY <1>2 DEF Grown, Listed
<1>4. Shelves'
  <2>1. CASE SetDefaultModel(i, m)
    <3>1. /\ default' \in [Instances -> ModelIds] /\ agentDefault' = agentDefault
          /\ \A k \in Instances : (default'[k] = m /\ k = i) \/ default'[k] = default[k]
      BY <1>1, <2>1 DEF SetDefaultModel, Shelves
    <3> QED
      BY <1>1, <1>2, <3>1 DEF Shelves, Listed
  <2>2. ASSUME NEW a \in Agents, SetAgentModel(i, a, m) PROVE Shelves'
    <3>1. /\ agentDefault' = [agentDefault EXCEPT ![i][a] = m] /\ default' = default
      BY <2>2 DEF SetAgentModel
    <3>2. agentDefault[i] \in [Agents -> ModelIds]
      BY <1>1 DEF Shelves
    <3>3. /\ agentDefault' \in [Instances -> [Agents -> ModelIds]]
          /\ agentDefault'[i] = [agentDefault[i] EXCEPT ![a] = m]
          /\ \A k \in Instances \ {i} : agentDefault'[k] = agentDefault[k]
      BY <1>1, <3>1, <3>2 DEF Shelves
    <3>4. \A k \in Instances, b \in Agents :
            (agentDefault'[k][b] = m /\ k = i) \/ agentDefault'[k][b] = agentDefault[k][b]
      BY <3>2, <3>3
    <3> QED
      BY <1>1, <1>2, <3>1, <3>3, <3>4 DEF Shelves, Listed
  <2> QED
    BY <2>1, <2>2
<1> QED
  BY <1>2, <1>3, <1>4, GrowsOnly

LEMMA StartKeeps ==
  ASSUME ModelInv, NEW j \in ModelJobs, NEW i \in Instances, NEW m \in ModelIds \cup {Unlisted, Unset},
         NEW A \in SUBSET Agents, NEW agents \in [A -> {Pro, Unlisted}], StartJobWith(j, i, m, agents)
  PROVE  ModelInv'
<1> DEFINE w == [model |-> m, agents |-> agents, on |-> i]
<1>1. w \in Wishes /\ w.model = m /\ w.on = i
  BY DEF Wishes
<1>2. /\ wish' = [wish EXCEPT ![j] = w] /\ wish[j] = NoWish
      /\ UNCHANGED <<catalog, default, agentDefault, lastLlm>>
      /\ forgot \subseteq forgot' /\ forgot' \subseteq forgot \cup {j}
      /\ m \in Listed(i) \/ j \in forgot'
  BY DEF StartJobWith
<1> HIDE DEF w
<1>3. Shelves /\ Diaries
  BY TypeOKSplit DEF ModelInv
<1>4. wish'[j] = w /\ \A k \in ModelJobs \ {j} : wish'[k] = wish[k]
  BY <1>2, <1>3 DEF Diaries
<1>5. \A k \in Instances : Listed(k)' = Listed(k)
  BY <1>2 DEF Listed
<1>6. Shelves'
  BY <1>2, <1>3, <1>5 DEF Shelves
<1>7. Diaries'
  BY <1>1, <1>2, <1>3 DEF Diaries
<1>8. lastLlm[j] = NoCall
  BY <1>2 DEF ModelInv, CallersStarted
<1>9. CallersStarted' /\ JobModelHonored'
  BY <1>2, <1>4, <1>8 DEF ModelInv, CallersStarted, JobModelHonored
<1>10. KnownStill'
  <2> SUFFICES ASSUME NEW k \in ModelJobs, wish'[k] # NoWish, k \notin forgot'
               PROVE  wish'[k].model \in {m1 \in ModelIds : catalog'[wish'[k].on][m1] # "absent"}
    BY DEF KnownStill, Listed
  <2>1. CASE k = j
    BY <1>1, <1>2, <1>4, <2>1 DEF ModelInv, KnownStill, Listed
  <2>2. CASE k # j
    <3>1. wish[k] \in Wishes /\ wish'[k] = wish[k] /\ k \notin forgot
      BY <1>2, <1>3, <1>4, <2>2 DEF Diaries
    <3>2. wish[k].on \in Instances
      BY <3>1 DEF Wishes
    <3>3. wish[k].model \in Listed(wish[k].on)
      BY <3>1 DEF ModelInv, KnownStill
    <3> QED
      BY <1>2, <3>1, <3>2, <3>3 DEF Listed
  <2> QED
    BY <2>1, <2>2
<1> QED
  BY <1>6, <1>7, <1>9, <1>10, TypeOKSplit DEF ModelInv

\* The model of a call is one the job named for the agent or one that is listed;
\* and the job's own, if the instance lists that and no other was named.
LEMMA Resolved ==
  ASSUME ModelInv, NEW i \in Instances, NEW a \in Agents, NEW w \in Wishes
  PROVE  /\ ResolveModelId(i, a, w) \in ModelIds \cup {Unlisted}
         /\ a \notin DOMAIN w.agents => ResolveModelId(i, a, w) \in ModelIds
         /\ a \notin DOMAIN w.agents /\ w.model \in Listed(i) => ResolveModelId(i, a, w) = w.model
<1>1. PICK A \in SUBSET Agents : w.agents \in [A -> {Pro, Unlisted}]
  BY DEF Wishes
<1>2. a \in DOMAIN w.agents => w.agents[a] \in {Pro, Unlisted}
  BY <1>1
<1>3. agentDefault[i][a] \in ModelIds /\ Pro \in ModelIds /\ Listed(i) \subseteq ModelIds
  BY ModelAssumption DEF ModelInv, ModelTypeOK, Listed, ModelIds
<1> QED
  BY <1>2, <1>3 DEF ResolveModelId

LEMMA CallKeeps ==
  ASSUME ModelInv, NEW j \in ModelJobs, NEW i \in Instances, NEW a \in Agents, CallAgent(j, i, a)
  PROVE  ModelInv'
<1>1. Shelves /\ Diaries
  BY TypeOKSplit DEF ModelInv
<1>2. wish[j] # NoWish /\ wish[j] \in Wishes
  BY <1>1 DEF CallAgent, Diaries
<1> DEFINE m == ResolveModelId(i, a, wish[j])
           by == IF m \in Listed(i) /\ catalog[i][m] = "custom" THEN "endpoint" ELSE "google"
           c == [agent |-> a, model |-> m, by |-> by]
<1>3. /\ m \in ModelIds \cup {Unlisted}
      /\ a \notin DOMAIN wish[j].agents => m \in ModelIds
      /\ a \notin DOMAIN wish[j].agents /\ wish[j].model \in Listed(i) => m = wish[j].model
  BY <1>2, Resolved
<1>4. by \in {"endpoint", "google"}
  OBVIOUS
<1>5. lastLlm' = [lastLlm EXCEPT ![j] = c] /\ UNCHANGED <<catalog, default, agentDefault, wish>>
  BY DEF CallAgent
<1>6. forgot' = (IF wish[j].on # i THEN forgot \cup {j} ELSE forgot)
  BY DEF CallAgent
<1> HIDE DEF m, by
<1>7. c \in Calls /\ c.agent = a /\ c.model = m
  BY <1>3, <1>4 DEF Calls
<1> HIDE DEF c
<1>8. lastLlm'[j] = c /\ \A k \in ModelJobs \ {j} : lastLlm'[k] = lastLlm[k]
  BY <1>1, <1>5 DEF Diaries
<1>9. Shelves'
  BY <1>1, <1>5 DEF Shelves, Listed
<1>10. forgot \subseteq forgot' /\ forgot' \subseteq ModelJobs
  BY <1>1, <1>6 DEF Diaries
<1>11. Diaries'
  BY <1>1, <1>5, <1>7, <1>10 DEF Diaries
<1>12. CallersStarted'
  BY <1>2, <1>5, <1>8 DEF ModelInv, CallersStarted
<1>13. KnownStill'
  BY <1>5, <1>10 DEF ModelInv, KnownStill, Listed
<1>14. JobModelHonored'
  <2> SUFFICES ASSUME NEW k \in ModelJobs, lastLlm'[k] # NoCall, lastLlm'[k].agent \notin DOMAIN wish[k].agents
               PROVE  /\ lastLlm'[k].model # Unlisted
                      /\ k \notin forgot' => lastLlm'[k].model = wish[k].model
    BY <1>5 DEF JobModelHonored
  <2>1. CASE k = j
    <3>1. a \notin DOMAIN wish[j].agents /\ lastLlm'[j].model = m
      BY <1>7, <1>8, <2>1
    <3>2. m # Unlisted
      BY <1>3, <3>1, ModelAssumption DEF ModelIds
    <3>3. j \notin forgot' => wish[j].model \in Listed(i)
      BY <1>2, <1>6 DEF ModelInv, KnownStill
    <3> QED
      BY <1>3, <2>1, <3>1, <3>2, <3>3
  <2>2. CASE k # j
    BY <1>8, <1>10, <2>2 DEF ModelInv, JobModelHonored
  <2> QED
    BY <2>1, <2>2
<1> QED
  BY <1>9, <1>11, <1>12, <1>13, <1>14, TypeOKSplit DEF ModelInv

LEMMA RestartKeeps ==
  ASSUME ModelInv, NEW i \in Instances, RestartInstance(i)
  PROVE  ModelInv'
<1>1. Shelves /\ Diaries
  BY TypeOKSplit DEF ModelInv
<1>2. /\ catalog' = [catalog EXCEPT ![i] = Seeded] /\ default' = [default EXCEPT ![i] = Flash]
      /\ agentDefault' = [agentDefault EXCEPT ![i] = SeededAgents]
      /\ forgot' = forgot \cup {j \in ModelJobs : wish[j].on = i} /\ UNCHANGED <<wish, lastLlm>>
  BY DEF RestartInstance
<1>3. \A k \in Instances : IF k = i
        THEN catalog'[k] = Seeded /\ default'[k] = Flash /\ agentDefault'[k] = SeededAgents
        ELSE catalog'[k] = catalog[k] /\ default'[k] = default[k] /\ agentDefault'[k] = agentDefault[k]
  BY <1>1, <1>2 DEF Shelves
<1>4. /\ catalog' \in [Instances -> [ModelIds -> {"absent", "google", "custom"}]]
      /\ default' \in [Instances -> ModelIds] /\ agentDefault' \in [Instances -> [Agents -> ModelIds]]
  BY <1>1, <1>2, SeededTypes DEF Shelves
<1>5. \A k \in Instances : k # i => Listed(k)' = Listed(k)
  BY <1>3 DEF Listed
<1>6. Builtins \subseteq Listed(i)'
  BY <1>3, SeededTypes DEF Listed, ModelIds
<1>7. Shelves'
  <2> SUFFICES ASSUME NEW k \in Instances
               PROVE  /\ default'[k] \in Listed(k)'
                      /\ \A a \in Agents : agentDefault'[k][a] \in Listed(k)'
    BY <1>4 DEF Shelves
  <2>1. CASE k = i
    BY <1>3, <1>6, <2>1, SeededTypes, ModelAssumption
  <2>2. CASE k # i
    BY <1>1, <1>3, <1>5, <2>2 DEF Shelves
  <2> QED
    BY <2>1, <2>2
<1>8. Diaries'
  BY <1>1, <1>2 DEF Diaries
<1>9. CallersStarted' /\ JobModelHonored'
  BY <1>2 DEF ModelInv, CallersStarted, JobModelHonored
<1>10. KnownStill'
  <2> SUFFICES ASSUME NEW k \in ModelJobs, wish[k] # NoWish, k \notin forgot'
               PROVE  wish[k].model \in Listed(wish[k].on)'
    BY <1>2 DEF KnownStill, Listed
  <2>1. wish[k] \in Wishes /\ wish[k].on # i /\ k \notin forgot
    BY <1>1, <1>2 DEF Diaries
  <2>2. wish[k].on \in Instances
    BY <2>1 DEF Wishes
  <2>3. wish[k].model \in Listed(wish[k].on)
    BY <2>1, <1>1 DEF ModelInv, KnownStill
  <2> QED
    BY <1>2, <1>3, <2>1, <2>2, <2>3 DEF Listed
<1> QED
  BY <1>7, <1>8, <1>9, <1>10, TypeOKSplit DEF ModelInv

LEMMA ModelNextInv == ModelInv /\ [ModelNext]_modelVars => ModelInv'
<1> SUFFICES ASSUME ModelInv, [ModelNext]_modelVars PROVE ModelInv'
  OBVIOUS
<1>1. CASE UNCHANGED modelVars
  <2>1. UNCHANGED <<catalog, default, agentDefault, wish, lastLlm, forgot>>
    BY <1>1 DEF modelVars
  <2>2. Shelves'
    BY <2>1, TypeOKSplit DEF ModelInv, Shelves, Listed
  <2> QED
    BY <2>1, <2>2, GrowsOnly DEF Grown, Listed
<1>2. CASE ModelNext
  BY <1>2, RestartKeeps, ScanKeeps, RegisterKeeps, DefaultKeeps, CallKeeps, StartKeeps DEF ModelNext
<1> QED
  BY <1>1, <1>2

LEMMA ModelAlways == ModelSpec => []ModelInv
  BY ModelInitInv, ModelNextInv, PTL DEF ModelSpec

(***************************************************************************)
(* Type correctness of the model registry; a default is always a listed    *)
(* model.                                                                  *)
(***************************************************************************)
THEOREM ModelTypes == ModelSpec => []ModelTypeOK
<1>1. ModelInv => ModelTypeOK
  BY DEF ModelInv
<1> QED
  BY <1>1, ModelAlways, PTL

(***************************************************************************)
(* A job that named a model its instance knew runs on it, whatever is      *)
(* found, registered or set in between, until a restart or another         *)
(* instance forgets it.                                                    *)
(***************************************************************************)
THEOREM JobKeepsModel == ModelSpec => []JobModelHonored
<1>1. ModelInv => JobModelHonored
  BY DEF ModelInv
<1> QED
  BY <1>1, ModelAlways, PTL

-----------------------------------------------------------------------------
(* RateLimiter.                                                            *)

(***************************************************************************)
(* What a deque has dropped stays dropped: every entry before the head has *)
(* left the window, as of now and from now on.                             *)
(***************************************************************************)
DroppedHaveLeft ==
  \A k \in Keys :
    /\ head[k] \in 1..Len(log[k]) + 1
    /\ \A n \in 1..head[k] - 1 : log[k][n] < Cutoff

LimiterInv == LimiterTypeOK /\ DroppedHaveLeft /\ WindowRespected

(***************************************************************************)
(* For what a refusal says, the deque must be known more exactly: its      *)
(* times are in order, none is in the future, and there are no more than   *)
(* Limit.                                                                  *)
(***************************************************************************)
TimesInOrder(k) ==
  /\ \A n \in 1..Len(log[k]) : log[k][n] <= now
  /\ \A m, n \in 1..Len(log[k]) : m <= n => log[k][m] <= log[k][n]

DequeFits(k) == Len(log[k]) + 1 - head[k] <= Limit

ToldJustly(k) ==
  retryAt[k] # 0 => ~RoomAt(k, retryAt[k] - Second) /\ RoomAt(k, retryAt[k] + Second)

ExactAt(k) == TimesInOrder(k) /\ DequeFits(k) /\ ToldJustly(k)

ExactInv == LimiterInv /\ \A k \in Keys : ExactAt(k)

\* Popping moves the head on, and everything before the new one has left.
LEMMA PoppedHaveLeft ==
  ASSUME LimiterTypeOK, DroppedHaveLeft, NEW k \in Keys, NEW h, Popped(k, h)
  PROVE  /\ h \in 1..Len(log[k]) + 1
         /\ \A n \in 1..h - 1 : log[k][n] < Cutoff
  BY LimiterAssumption DEF LimiterTypeOK, DroppedHaveLeft, Popped, Cutoff

\* The type invariant: one step per action.
LEMMA LimiterTypesStep == LimiterTypeOK /\ [LimiterNext]_limiterVars => LimiterTypeOK'
<1> SUFFICES ASSUME LimiterTypeOK, [LimiterNext]_limiterVars PROVE LimiterTypeOK'
  OBVIOUS
<1> USE LimiterAssumption DEF LimiterTypeOK
<1>1. CASE Tick BY <1>1 DEF Tick
<1>2. ASSUME NEW k \in Keys, Admit(k) PROVE LimiterTypeOK'
  <2>1. PICK h \in 1..Len(log[k]) + 1 :
          /\ log' = [log EXCEPT ![k] = Append(@, now)]
          /\ head' = [head EXCEPT ![k] = h]
          /\ retryAt' = [retryAt EXCEPT ![k] = 0]
          /\ now' = now
    BY <1>2 DEF Admit
  <2>2. Append(log[k], now) \in Seq(Nat) OBVIOUS
  <2> QED BY <2>1, <2>2
<1>3. ASSUME NEW k \in Keys, Refuse429(k) PROVE LimiterTypeOK'
  <2>1. PICK h \in 1..Len(log[k]) + 1 :
          /\ Len(log[k]) + 1 - h >= Limit
          /\ head' = [head EXCEPT ![k] = h]
          /\ retryAt' = [retryAt EXCEPT ![k] = now + RetryAfter(k, h)]
          /\ now' = now /\ log' = log
    BY <1>3 DEF Refuse429, InDeque
  <2>2. log[k][h] \in Nat BY <2>1
  <2> DEFINE whole == (Window - (now - log[k][h])) \div Second
  <2>3. whole \in Int BY <2>2
  <2>4. RetryAfter(k, h) = IF whole < 1 THEN Second ELSE Second * whole
    BY DEF RetryAfter
  <2> HIDE DEF whole
  <2>5. RetryAfter(k, h) \in Nat BY <2>3, <2>4
  <2> QED BY <2>1, <2>5
<1>4. CASE UNCHANGED limiterVars BY <1>4 DEF limiterVars
<1> QED BY <1>1, <1>2, <1>3, <1>4 DEF LimiterNext

\* Refuse429 lets nobody through; Tick only takes entries further back; Admit
\* appends to a deque with room, so that the Limit-th entry before was popped.
LEMMA LimiterInvStep == LimiterInv /\ [LimiterNext]_limiterVars => LimiterInv'
<1> SUFFICES ASSUME LimiterInv, [LimiterNext]_limiterVars
             PROVE  DroppedHaveLeft' /\ WindowRespected'
  BY LimiterTypesStep DEF LimiterInv
<1> USE LimiterAssumption
<1>0. LimiterTypeOK /\ DroppedHaveLeft /\ WindowRespected BY DEF LimiterInv
<1>1. CASE Tick
  BY <1>0, <1>1 DEF Tick, LimiterTypeOK, DroppedHaveLeft, WindowRespected, Cutoff
<1>2. ASSUME NEW k \in Keys, Admit(k) PROVE DroppedHaveLeft' /\ WindowRespected'
  <2>1. PICK h \in 1..Len(log[k]) + 1 :
          /\ Popped(k, h) /\ InDeque(k, h) < Limit
          /\ log' = [log EXCEPT ![k] = Append(@, now)]
          /\ head' = [head EXCEPT ![k] = h]
          /\ now' = now
    BY <1>2 DEF Admit
  <2>2. \A n \in 1..h - 1 : log[k][n] < Cutoff BY <1>0, <2>1, PoppedHaveLeft
  <2> DEFINE L == Len(log[k])
  <2>3. /\ L \in Nat /\ Len(log'[k]) = L + 1 /\ log'[k][L + 1] = now
        /\ \A n \in 1..L : log'[k][n] = log[k][n] /\ log[k][n] \in Nat
    BY <1>0, <2>1 DEF LimiterTypeOK
  <2>4. \A j \in Keys \ {k} : log'[j] = log[j] /\ head'[j] = head[j]
    BY <1>0, <2>1 DEF LimiterTypeOK
  <2>5. head'[k] = h BY <1>0, <2>1 DEF LimiterTypeOK
  <2>6. DroppedHaveLeft'
    BY <1>0, <2>1, <2>2, <2>3, <2>4, <2>5 DEF DroppedHaveLeft, Cutoff
  <2>7. ASSUME NEW n \in 1..Len(log'[k]) - Limit PROVE log'[k][n + Limit] - log'[k][n] > Window
    <3>1. n + Limit \in 1..L + 1 /\ n \in 1..L BY <2>3
    <3>2. CASE n + Limit = L + 1
      <4>1. n \in 1..h - 1 BY <2>1, <2>3, <3>2 DEF InDeque
      <4>2. log[k][n] < now - Window BY <2>2, <4>1 DEF Cutoff
      <4>3. now \in Nat BY <1>0 DEF LimiterTypeOK
      <4>4. log'[k][n + Limit] = now BY <2>3, <3>2
      <4>5. log'[k][n] = log[k][n] /\ log[k][n] \in Nat BY <2>3, <3>1
      <4>6. now - log[k][n] > Window BY <4>2, <4>3, <4>5
      <4> QED BY <4>4, <4>5, <4>6
    <3>3. CASE n + Limit # L + 1
      <4>0. L \in Nat /\ n \in Nat \ {0} /\ n + Limit <= L + 1 BY <2>3, <3>1
      <4> HIDE DEF L
      <4>1. n + Limit \in 1..L /\ n \in 1..L - Limit BY <3>3, <4>0
      <4> USE DEF L
      <4>2. log'[k][n + Limit] = log[k][n + Limit] BY <2>3, <4>1
      <4>3. log'[k][n] = log[k][n] BY <2>3, <3>1
      <4>4. log[k][n + Limit] - log[k][n] > Window BY <1>0, <4>1 DEF WindowRespected
      <4> QED BY <4>2, <4>3, <4>4
    <3> QED BY <3>2, <3>3
  <2>8. WindowRespected' BY <1>0, <2>4, <2>7 DEF WindowRespected
  <2> QED BY <2>6, <2>8
<1>3. ASSUME NEW k \in Keys, Refuse429(k) PROVE DroppedHaveLeft' /\ WindowRespected'
  <2>1. PICK h \in 1..Len(log[k]) + 1 :
          /\ Popped(k, h) /\ head' = [head EXCEPT ![k] = h] /\ now' = now /\ log' = log
    BY <1>3 DEF Refuse429
  <2>2. /\ h \in 1..Len(log[k]) + 1
        /\ \A n \in 1..h - 1 : log[k][n] < Cutoff
    BY <1>0, <2>1, PoppedHaveLeft
  <2> QED BY <1>0, <2>1, <2>2 DEF LimiterTypeOK, DroppedHaveLeft, WindowRespected, Cutoff
<1>4. CASE UNCHANGED limiterVars
  BY <1>0, <1>4 DEF limiterVars, DroppedHaveLeft, WindowRespected, Cutoff
<1> QED BY <1>1, <1>2, <1>3, <1>4 DEF LimiterNext

\* Nobody was let through yet.
LEMMA LimiterInvInit == LimiterInit => LimiterInv
  BY LimiterAssumption
  DEF LimiterInit, LimiterInv, LimiterTypeOK, DroppedHaveLeft, WindowRespected

\* The limiter's state is of its type.
THEOREM LimiterTypes == LimiterSpec => []LimiterTypeOK
<1>1. LimiterInit => LimiterTypeOK BY LimiterInvInit DEF LimiterInv
<1> QED BY <1>1, LimiterTypesStep, PTL DEF LimiterSpec

(***************************************************************************)
(* No window of the given length, wherever it begins, has more than Limit  *)
(* of a client's calls let through (rate_limit.py 44-60).                  *)
(***************************************************************************)
THEOREM WindowIsRespected == LimiterSpec => []WindowRespected
<1>1. LimiterInv => WindowRespected BY DEF LimiterInv
<1> QED BY <1>1, LimiterInvInit, LimiterInvStep, PTL DEF LimiterSpec

\* Whole units of Second in a time.
LEMMA WholeSeconds ==
  ASSUME NEW t \in Int
  PROVE  /\ t \div Second \in Int
         /\ Second * (t \div Second) <= t /\ t < Second * (t \div Second) + Second
  BY LimiterAssumption

\* The wait a refused client is told is within a second of the one it has.
LEMMA RetryAfterIsClose ==
  ASSUME NEW k \in Keys, NEW h, log[k][h] \in Nat, now \in Nat, log[k][h] >= Cutoff
  PROVE  /\ RetryAfter(k, h) \in Nat /\ RetryAfter(k, h) >= Second
         /\ log[k][h] >= now + RetryAfter(k, h) - Second - Window
         /\ log[k][h] < now + RetryAfter(k, h) + Second - Window
<1> DEFINE t == Window - (now - log[k][h])
           whole == t \div Second
<1>1. t \in Nat BY LimiterAssumption DEF Cutoff
<1>2. whole \in Int /\ Second * whole <= t /\ t < Second * whole + Second
  BY <1>1, WholeSeconds
<1>3. RetryAfter(k, h) = IF whole < 1 THEN Second ELSE Second * whole BY DEF RetryAfter
<1>4. log[k][h] = t + now - Window BY LimiterAssumption
<1> HIDE DEF t, whole
<1>5. CASE whole < 1
  <2>1. Second * whole <= 0 BY <1>2, <1>5, LimiterAssumption
  <2>2. t < Second BY <1>1, <1>2, <2>1, LimiterAssumption
  <2> QED BY <1>1, <1>3, <1>4, <1>5, <2>2, LimiterAssumption
<1>6. CASE whole >= 1
  <2>1. Second * whole \in Nat /\ Second * whole >= Second BY <1>2, <1>6, LimiterAssumption
  <2> QED BY <1>1, <1>2, <1>3, <1>4, <1>6, <2>1, LimiterAssumption
<1> QED BY <1>2, <1>5, <1>6

\* Time passes, or a call of another client is handled: nothing is said anew.
LEMMA ExactElsewhere ==
  ASSUME NEW k \in Keys, ExactAt(k), LimiterTypeOK, now' \in Nat, now' >= now,
         log'[k] = log[k], head'[k] = head[k], retryAt'[k] = retryAt[k]
  PROVE  ExactAt(k)'
<1>1. now \in Nat /\ \A n \in 1..Len(log[k]) : log[k][n] \in Nat BY DEF LimiterTypeOK
<1>2. TimesInOrder(k)' BY <1>1 DEF ExactAt, TimesInOrder
<1>3. DequeFits(k)' BY DEF ExactAt, DequeFits
<1>4. ToldJustly(k)' BY DEF ExactAt, ToldJustly, RoomAt
<1> QED BY <1>2, <1>3, <1>4 DEF ExactAt

LEMMA TimeAppended ==
  ASSUME NEW s \in Seq(Nat), NEW t \in Nat
  PROVE  /\ Len(s) \in Nat /\ Len(Append(s, t)) = Len(s) + 1 /\ Append(s, t)[Len(s) + 1] = t
         /\ \A n \in 1..Len(s) : Append(s, t)[n] = s[n]
         /\ \A n \in 1..Len(s) : s[n] \in Nat
  OBVIOUS

\* The arithmetic of a refusal: len calls, of which those from h on are in the deque.
LEMMA FullDeque ==
  ASSUME NEW len \in Nat, NEW old \in Nat, NEW h \in Nat \ {0},
         old <= h, len + 1 - old <= Limit, len + 1 - h >= Limit
  PROVE  h = len + 1 - Limit /\ h \in 1..len /\ len >= Limit /\ ~(len < Limit)
  BY LimiterAssumption

LEMMA WaitFits ==
  ASSUME NEW t \in Nat, NEW n \in Nat, NEW r \in Nat,
         t >= n + r - Second - Window, t < n + r + Second - Window
  PROVE  ~(t < (n + r - Second) - Window) /\ t < (n + r + Second) - Window
  BY LimiterAssumption

\* A call let through is the last one; it has room in the deque.
LEMMA AdmitExact ==
  ASSUME ExactInv, NEW k \in Keys, Admit(k)
  PROVE  ExactAt(k)'
<1>1. LimiterTypeOK /\ ExactAt(k) BY DEF ExactInv, LimiterInv
<1>2. PICK h \in 1..Len(log[k]) + 1 :
        /\ InDeque(k, h) < Limit
        /\ log' = [log EXCEPT ![k] = Append(@, now)] /\ head' = [head EXCEPT ![k] = h]
        /\ retryAt' = [retryAt EXCEPT ![k] = 0] /\ now' = now
  BY DEF Admit
<1>3. PICK s \in Seq(Nat) : s = log[k] BY <1>1 DEF LimiterTypeOK
<1>4. log'[k] = Append(s, now) /\ head'[k] = h /\ retryAt'[k] = 0 /\ now \in Nat
  BY <1>1, <1>2, <1>3 DEF LimiterTypeOK
<1>5. /\ Len(s) \in Nat /\ Len(Append(s, now)) = Len(s) + 1 /\ Append(s, now)[Len(s) + 1] = now
      /\ \A n \in 1..Len(s) : Append(s, now)[n] = s[n]
      /\ \A n \in 1..Len(s) : s[n] \in Nat
  BY <1>4, TimeAppended
<1>6. /\ \A n \in 1..Len(s) : s[n] <= now
      /\ \A m, n \in 1..Len(s) : m <= n => s[m] <= s[n]
  BY <1>1, <1>3 DEF ExactAt, TimesInOrder
<1>7. \A n \in 1..Len(s) + 1 : Append(s, now)[n] <= now
  BY <1>4, <1>5, <1>6
<1>8. ASSUME NEW m \in 1..Len(s) + 1, NEW n \in 1..Len(s) + 1, m <= n
      PROVE  Append(s, now)[m] <= Append(s, now)[n]
  <2>1. CASE n = Len(s) + 1 BY <1>5, <1>7, <2>1
  <2>2. CASE n # Len(s) + 1
    <3>1. m \in 1..Len(s) /\ n \in 1..Len(s) BY <1>5, <1>8, <2>2
    <3> QED BY <1>5, <1>6, <1>8, <3>1
  <2> QED BY <2>1, <2>2
<1>9. TimesInOrder(k)' BY <1>2, <1>4, <1>5, <1>7, <1>8 DEF TimesInOrder
<1>10. DequeFits(k)'
  <2>1. Len(s) + 1 - h < Limit /\ h \in Int BY <1>2, <1>3, <1>5 DEF InDeque
  <2> QED BY <1>4, <1>5, <2>1, LimiterAssumption DEF DequeFits
<1>11. ToldJustly(k)' BY <1>4 DEF ToldJustly
<1> QED BY <1>9, <1>10, <1>11 DEF ExactAt

\* A refused client has Limit entries in its deque, of which the first is the
\* Limit-th last call it had let through.
LEMMA RefuseExact ==
  ASSUME ExactInv, NEW k \in Keys, Refuse429(k)
  PROVE  ExactAt(k)'
<1>1. LimiterTypeOK /\ ExactAt(k) BY DEF ExactInv, LimiterInv
<1>2. PICK h \in 1..Len(log[k]) + 1 :
        /\ Popped(k, h) /\ InDeque(k, h) >= Limit
        /\ head' = [head EXCEPT ![k] = h]
        /\ retryAt' = [retryAt EXCEPT ![k] = now + RetryAfter(k, h)]
        /\ now' = now /\ log' = log
  BY DEF Refuse429
<1>3. PICK s \in Seq(Nat), r \in {RetryAfter(k, h)} : s = log[k] /\ r = RetryAfter(k, h)
  BY <1>1 DEF LimiterTypeOK
<1>4. /\ log'[k] = s /\ head'[k] = h /\ retryAt'[k] = now + r
      /\ now \in Nat /\ Len(s) \in Nat /\ head[k] \in Nat
  BY <1>1, <1>2, <1>3 DEF LimiterTypeOK
<1>5. h = Len(s) + 1 - Limit /\ h \in 1..Len(s) /\ Len(s) >= Limit /\ ~(Len(s) < Limit)
  <2>1. head[k] <= h /\ h \in Nat \ {0} BY <1>2, <1>3, <1>4 DEF Popped
  <2>2. Len(s) + 1 - head[k] <= Limit BY <1>1, <1>3 DEF ExactAt, DequeFits
  <2>3. Len(s) + 1 - h >= Limit BY <1>2, <1>3 DEF InDeque
  <2> QED BY <1>4, <2>1, <2>2, <2>3, FullDeque
<1>6. s[h] \in Nat /\ s[h] >= Cutoff BY <1>2, <1>3, <1>4, <1>5 DEF Popped
<1>7. r \in Nat /\ s[h] >= now + r - Second - Window /\ s[h] < now + r + Second - Window
  BY <1>3, <1>4, <1>6, RetryAfterIsClose
<1>8. ~(s[h] < (now + r - Second) - Window) /\ s[h] < (now + r + Second) - Window
  BY <1>4, <1>6, <1>7, WaitFits
<1>9. ToldJustly(k)'
  <2>1. RoomAt(k, retryAt[k] + Second)' BY <1>4, <1>5, <1>8 DEF RoomAt
  <2>2. ~RoomAt(k, retryAt[k] - Second)'
    <3> SUFFICES ~(Len(log'[k]) < Limit)
                 /\ ~(log'[k][Len(log'[k]) + 1 - Limit] < (retryAt'[k] - Second) - Window)
      BY DEF RoomAt
    <3>1. Len(log'[k]) + 1 - Limit = h /\ log'[k] = s BY <1>4, <1>5
    <3>2. (retryAt'[k] - Second) - Window = (now + r - Second) - Window
      BY <1>4, <1>7, LimiterAssumption
    <3> QED BY <1>5, <1>8, <3>1, <3>2
  <2> QED BY <2>1, <2>2 DEF ToldJustly
<1>10. TimesInOrder(k)' BY <1>1, <1>2 DEF ExactAt, TimesInOrder
<1>11. DequeFits(k)' BY <1>4, <1>5, LimiterAssumption DEF DequeFits
<1> QED BY <1>9, <1>10, <1>11 DEF ExactAt

\* Every client but the one that calls stays as it was.
LEMMA ExactStep == ExactInv /\ [LimiterNext]_limiterVars => ExactInv'
<1> SUFFICES ASSUME ExactInv, [LimiterNext]_limiterVars, NEW j \in Keys PROVE ExactAt(j)'
  BY LimiterInvStep DEF ExactInv
<1>1. LimiterTypeOK /\ ExactAt(j) /\ now \in Nat /\ now' \in Nat
  BY LimiterTypesStep DEF ExactInv, LimiterInv, LimiterTypeOK
<1>2. CASE Tick \/ UNCHANGED limiterVars
  <2>1. now' >= now /\ UNCHANGED <<log, head, retryAt>> BY <1>1, <1>2 DEF Tick, limiterVars
  <2> QED BY <1>1, <2>1, ExactElsewhere
<1>3. ASSUME NEW k \in Keys, Admit(k) \/ Refuse429(k) PROVE ExactAt(j)'
  <2>1. CASE j = k BY <1>3, <2>1, AdmitExact, RefuseExact
  <2>2. CASE j # k
    <3>1. log'[j] = log[j] /\ head'[j] = head[j] /\ retryAt'[j] = retryAt[j] /\ now' = now
      BY <1>1, <1>3, <2>2 DEF Admit, Refuse429, LimiterTypeOK
    <3> QED BY <1>1, <3>1, ExactElsewhere
  <2> QED BY <2>1, <2>2
<1> QED BY <1>2, <1>3 DEF LimiterNext

LEMMA ExactInit == LimiterInit => ExactInv
<1> SUFFICES ASSUME LimiterInit, NEW k \in Keys PROVE ExactAt(k)
  BY LimiterInvInit DEF ExactInv
<1>1. log[k] = <<>> /\ head[k] = 1 /\ retryAt[k] = 0 BY DEF LimiterInit
<1> QED BY <1>1, LimiterAssumption DEF ExactAt, TimesInOrder, DequeFits, ToldJustly

(***************************************************************************)
(* The limiter is exact: no window has more than Limit of a client's       *)
(* calls, and a client is refused only while its window is full, for the   *)
(* time it is told to within a second (rate_limit.py 55-65).               *)
(***************************************************************************)
THEOREM LimitIsExact == LimiterSpec => []LimitExact
<1>1. ExactInv => LimitExact
  BY DEF ExactInv, LimiterInv, ExactAt, ToldJustly, LimitExact, RefusedJustly
<1> QED BY <1>1, ExactInit, ExactStep, PTL DEF LimiterSpec
=============================================================================
