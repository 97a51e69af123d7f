---------------------------- MODULE MCServices -----------------------------
(***************************************************************************)
(* The services around the orchestrator's pipelines, on small instances.   *)
(* They share no state but through the calls their modules contain: a      *)
(* behaviour is one of the component in focus, while the others do not     *)
(* start.                                                                  *)
(***************************************************************************)
EXTENDS IdeaQueue, Designations, Accounts, Tenancy, ModelRegistry, RateLimiter,
        WorkspaceFiles, KycSessions, Incubation

CONSTANTS
  Focus,                   \* the components a configuration is about
  i1, i2, u1, u2, k1, k2,  \* ideas or jobs; users; calls, rows and parts
  e1, e2, e3,              \* evaluators and editors
  o1, f1,                  \* an organization, client, file or instance
  flash, pro, other, unlisted

Services == {"ideas", "designations", "certification", "accounts", "tenancy", "models",
             "limiter", "files", "kyc", "incubation"}

ASSUME FocusAssumption == Focus \subseteq Services

VARIABLE focus

MCSlugOf == [i \in Ideas |-> "slug"]

\* Criteria with the same points everywhere, and bodies around the bands.
All(points) == [d \in Dimensions |-> points]
MCSheets == {All(90), [problem |-> 100]}
GoodProfile == [registered |-> TRUE, country |-> "kenya", taxId |-> TRUE,
                technologies |-> 1, jobs |-> 5]
MCDecks == {[criteria |-> All(95), jurisdictions |-> {"kenya"}, profile |-> GoodProfile,
             texts |-> <<<<10>>>>]}
GoodBody == [criteria |-> All(95), jurisdictions |-> {}, texts |-> <<>>, profile |-> GoodProfile]
MCBodies ==
  {[criteria |-> c, jurisdictions |-> j, texts |-> t,
    profile |-> [registered |-> registered, country |-> country, taxId |-> taxId,
                 technologies |-> technologies, jobs |-> jobs]] :
     c \in {All(65), All(64), All(120), All(71), [problem |-> 100]},
     j \in SUBSET {"nigeria", "kenya", "ethiopia", "au", "mars"},
     registered \in BOOLEAN, country \in {"nigeria", "kenya", "france"}, taxId \in BOOLEAN,
     technologies \in {0, 2}, jobs \in {3, 5},
     t \in {<<>>, <<<<20>>>>, <<<<0>>, <<60, 10>>>>,
           <<<<30, 10>>, <<20>>, <<10>>>>}}

MCNames == {<<"pay">>, <<"pay", "kit">>}

Line(word, end) == [text |-> <<word>>, end |-> end]
MCFolder == [f \in {f1} |-> "docs"]
MCContents == {<<Line("a", "lf"), Line("b", "none")>>, <<Line("b", "crlf"), Line("a", "lf")>>}
MCOutputs == {<<Line("a", "lf"), Line("xff", "lf")>>}
MCReplacements == {<<>>, <<Line("a", "lf"), Line("b", "none")>>}

MCTitles == <<"t1", "t2">>
MCRegions == [t1 |-> {"kenya"}, t2 |-> {"pan-african"}]

ServicesInit ==
  /\ focus \in Focus
  /\ IdeaInit /\ DesInit /\ AccountInit /\ TenancyInit /\ ModelInit
  /\ LimiterInit /\ FileInit /\ KycInit /\ IncubationInit
  /\ report = NoReport
  /\ body \in IF focus = "certification" THEN Bodies ELSE {GoodBody}

ServicesNext ==
  /\ UNCHANGED focus
  /\ \/ focus = "ideas" /\ IdeaNext
     \/ focus # "ideas" /\ UNCHANGED ideaVars
  /\ \/ focus = "designations" /\ DesNext
     \/ focus # "designations" /\ UNCHANGED desVars
  /\ \/ focus = "certification" /\ CertNext
     \/ focus # "certification" /\ UNCHANGED certVars
  /\ \/ focus = "accounts" /\ AccountNext
     \/ focus # "accounts" /\ UNCHANGED accountVars
  /\ \/ focus = "tenancy" /\ TenancyNext
     \/ focus # "tenancy" /\ UNCHANGED tenancyVars
  /\ \/ focus = "models" /\ ModelNext
     \/ focus # "models" /\ UNCHANGED modelVars
  /\ \/ focus = "limiter" /\ LimiterNext
     \/ focus # "limiter" /\ UNCHANGED limiterVars
  /\ \/ focus = "files" /\ FileNext
     \/ focus # "files" /\ UNCHANGED fileVars
  /\ \/ focus = "kyc" /\ KycNext
     \/ focus # "kyc" /\ UNCHANGED kycVars
  /\ \/ focus = "incubation" /\ IncubationNext
     \/ focus # "incubation" /\ UNCHANGED incubationVars

servicesVars == <<focus, ideaVars, desVars, certVars, accountVars, tenancyVars,
                  modelVars, limiterVars, fileVars, kycVars, incubationVars>>

ServicesSpec == ServicesInit /\ [][ServicesNext]_servicesVars

Interchangeable == Permutations({k1, k2})

(***************************************************************************)
(* The state of the component in focus is of its type: among it, every     *)
(* evaluator has one vote and the founder none, and every default of a     *)
(* catalog is listed in it.                                                *)
(***************************************************************************)
ServicesTyped ==
  CASE focus = "ideas" -> IdeaTypeOK
    [] focus = "designations" -> DesTypeOK
    [] focus = "certification" -> report \in {NoReport} \cup Records
    [] focus = "accounts" -> AccountTypeOK
    [] focus = "tenancy" -> TenancyTypeOK
    [] focus = "models" -> ModelTypeOK
    [] focus = "limiter" -> LimiterTypeOK
    [] focus = "files" -> FileTypeOK
    [] focus = "kyc" -> KycTypeOK
    [] focus = "incubation" -> IncubationTypeOK
=============================================================================
