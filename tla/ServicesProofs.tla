--------------------------- MODULE ServicesProofs ---------------------------
(***************************************************************************)
(* Proofs about the services side by side: MCServices, for every value of  *)
(* the constants of its components.                                        *)
(***************************************************************************)
EXTENDS MCServices, IntakeProofs, PlatformProofs, AuthProofs, InstanceProofs, TLAPS

\* A step of the services is a step of the component in focus.
LEMMA ServicesStep ==
  [ServicesNext]_servicesVars =>
    /\ focus' = focus
    /\ [IdeaNext]_ideaVars
    /\ [DesNext]_desVars
    /\ [AccountNext]_accountVars
    /\ [TenancyNext]_tenancyVars
    /\ [ModelNext]_modelVars
    /\ [LimiterNext]_limiterVars
    /\ [FileNext]_fileVars
    /\ [KycNext]_kycVars
    /\ [IncubationNext]_incubationVars
    /\ [CertNext]_certVars
  BY DEF ServicesNext, servicesVars

(***************************************************************************)
(* The services share no state: a behaviour of them is one of each, and    *)
(* what is proved of a component holds of the specification that is run.   *)
(* Designations certify bodies of their own, so of Certification that is   *)
(* said in its focus.                                                      *)
(***************************************************************************)
THEOREM ServicesCompose ==
  ServicesSpec =>
    /\ IdeaSpec
    /\ DesSpec
    /\ AccountSpec
    /\ TenancySpec
    /\ ModelSpec
    /\ LimiterSpec
    /\ FileSpec
    /\ KycSpec
    /\ IncubationSpec
    /\ focus = "certification" => CertSpec
<1>1. ServicesInit =>
        /\ IdeaInit
        /\ DesInit
        /\ AccountInit
        /\ TenancyInit
        /\ ModelInit
        /\ LimiterInit
        /\ FileInit
        /\ KycInit
        /\ IncubationInit
        /\ focus = "certification" => CertInit
  BY DEF ServicesInit, CertInit
<1> QED
  BY <1>1, ServicesStep, PTL
  DEF ServicesSpec, CertSpec, IdeaSpec, DesSpec, AccountSpec, TenancySpec, ModelSpec, LimiterSpec, FileSpec, KycSpec, IncubationSpec

(***************************************************************************)
(* Whichever service is in focus, its state is of its type.                *)
(***************************************************************************)
THEOREM ServicesTypes == ServicesSpec => []ServicesTyped
<1> DEFINE Certified == focus = "certification" => body \in Bodies /\ report \in {NoReport} \cup Records
<1>1. ServicesInit => focus \in Services /\ Certified
  BY FocusAssumption DEF ServicesInit
<1>2. focus \in Services /\ [ServicesNext]_servicesVars => (focus \in Services)'
  BY ServicesStep
<1>3. Certified /\ [ServicesNext]_servicesVars => Certified'
  <2> SUFFICES ASSUME body \in Bodies, report \in {NoReport} \cup Records, [CertNext]_certVars
               PROVE  body' \in Bodies /\ report' \in {NoReport} \cup Records
    BY ServicesStep
  <2>1. CASE Designate
    <3>1. DOMAIN body.criteria \subseteq Dimensions /\ report' \in BuildDesignation(body) /\ body' = body
      BY <2>1 DEF Designate
    <3>2. \A d \in DOMAIN body.criteria : body.criteria[d] \in Int
      BY CertAssumption
    <3>3. BuildDesignation(body) \subseteq Records
      BY <3>1, <3>2, GradedFits DEF BuildDesignation
    <3> QED
      BY <3>1, <3>3
  <2> QED
    BY <2>1 DEF CertNext, certVars
<1>4. /\ focus \in Services /\ Certified
      /\ IdeaTypeOK
      /\ DesTypeOK
      /\ AccountTypeOK
      /\ TenancyTypeOK
      /\ ModelTypeOK
      /\ LimiterTypeOK
      /\ FileTypeOK
      /\ KycTypeOK
      /\ IncubationTypeOK
      => ServicesTyped
  BY DEF ServicesTyped, Services
<1> HIDE DEF Certified
<1>5. ServicesSpec => [](focus \in Services /\ Certified)
  BY <1>1, <1>2, <1>3, PTL DEF ServicesSpec
<1> QED
  BY <1>4, <1>5, ServicesCompose, IdeaTypes, DesignationTypes, AccountTypes, TenancyTypes, ModelTypes, LimiterTypes, FileTypes, KycTypes, IncubationTypes, PTL
=============================================================================
