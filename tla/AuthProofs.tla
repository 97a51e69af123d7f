---------------------------- MODULE AuthProofs -----------------------------
(***************************************************************************)
(* Proofs about the auth service and the browser it serves: the sessions   *)
(* of an identity verification, and the tokens that parts of the web       *)
(* application share.                                                      *)
(***************************************************************************)
EXTENDS KycSessions, Accounts, TLAPS

(* Identity verification.                                                  *)

\* Clicks that did not overlap: a simulation is of the session that the panel
\* shows, and none is asked for, or shown verified, while an id is still to come.
ClicksApart ==
  ~crossed =>
    /\ Out({"simulate", "simulated"}) # {} \/ panel.status = "verified"
         => Out({"create", "created"}) = {}
    /\ \A c \in Out({"simulate", "simulated"}) : click[c].id = panel.id

\* The service did what it has answered, as long as it remembers.
SimulatedHere ==
  ~forgotten => \A c \in Out({"simulated"}) :
    \E i \in KycInstances : cache[i][click[c].id] = "verified"

KycInv == KycTypeOK /\ ClicksApart /\ SimulatedHere /\ VerifiedAtService

ClickCalls == [at : {"create", "created", "simulate", "simulated"}, id : KycIds]

\* What a step does with one click, and what that makes of those that are out.
LEMMA OneClick ==
  ASSUME KycTypeOK, NEW c \in Clicks, NEW k \in {NoClick} \cup ClickCalls,
         click' = [click EXCEPT ![c] = k]
  PROVE  /\ click' \in [Clicks -> {NoClick} \cup ClickCalls] /\ click'[c] = k
         /\ \A d \in Clicks \ {c} : click'[d] = click[d]
         /\ \A kinds : Out(kinds)' = (Out(kinds) \ {c}) \cup (IF k.at \in kinds THEN {c} ELSE {})
<1>1. click \in [Clicks -> {NoClick} \cup ClickCalls] BY DEF KycTypeOK, ClickCalls
<1>2. click'[c] = k /\ \A d \in Clicks \ {c} : click'[d] = click[d] BY <1>1
<1>3. ASSUME NEW kinds
      PROVE  Out(kinds)' = (Out(kinds) \ {c}) \cup (IF k.at \in kinds THEN {c} ELSE {})
  BY <1>2 DEF Out
<1> QED BY <1>1, <1>2, <1>3

LEMMA KycInvStep == KycInv /\ [KycNext]_kycVars => KycInv'
<1> SUFFICES ASSUME KycInv, [KycNext]_kycVars PROVE KycInv'
  OBVIOUS
<1>0. /\ KycTypeOK /\ click \in [Clicks -> {NoClick} \cup ClickCalls]
      /\ \A d \in Clicks : click[d] # NoClick => click[d] \in ClickCalls
      /\ NoClick.at = "idle" /\ \A i \in KycInstances : cache[i] \in [KycIds -> KycStatuses \cup {"absent"}]
  BY DEF KycInv, KycTypeOK, ClickCalls, NoClick
<1>1. ASSUME NEW c \in Clicks, NEW s \in KycIds, ClickCreate(c, s) PROVE KycInv'
  <2> DEFINE k == [at |-> "create", id |-> s]
  <2>1. k \in ClickCalls /\ k.at = "create" BY DEF ClickCalls
  <2>2. /\ click[c] = NoClick /\ UNCHANGED <<cache, forgotten>>
        /\ panel' = [id |-> s, status |-> "pending_scan", proof |-> "none"]
        /\ crossed' = (Out({"simulate", "simulated"}) # {})
        /\ click' = [click EXCEPT ![c] = k]
    BY <1>1 DEF ClickCreate
  <2> HIDE DEF k
  <2>3. /\ click'[c] = k /\ click' \in [Clicks -> {NoClick} \cup ClickCalls]
        /\ \A d \in Clicks \ {c} : click'[d] = click[d]
        /\ \A kinds : Out(kinds)' = (Out(kinds) \ {c}) \cup (IF k.at \in kinds THEN {c} ELSE {})
    BY <1>0, <2>1, <2>2, OneClick
  <2>3a. Out({"simulate", "simulated"})' = Out({"simulate", "simulated"}) \ {c} BY <2>1, <2>3
  <2>3b. Out({"simulated"})' = Out({"simulated"}) \ {c} BY <2>1, <2>3
  <2>4. KycTypeOK' BY <2>2, <2>3 DEF KycInv, KycTypeOK, ClickCalls, KycStatuses
  <2>5. panel'.status = "pending_scan" BY <2>2
  <2>6. ClicksApart' BY <2>2, <2>3a, <2>5 DEF ClicksApart
  <2>7. SimulatedHere' BY <2>2, <2>3, <2>3b DEF KycInv, SimulatedHere, Out
  <2> QED BY <2>4, <2>5, <2>6, <2>7 DEF KycInv, VerifiedAtService
<1>2. ASSUME NEW c \in Clicks, CreateAnswered(c) PROVE KycInv'
  <2>1. /\ c \in Out({"create", "created"}) /\ c \notin Out({"simulate", "simulated"})
        /\ click' = [click EXCEPT ![c] = NoClick] /\ UNCHANGED <<cache, crossed, forgotten>>
    BY <1>2 DEF CreateAnswered, Out
  <2>2. /\ click' \in [Clicks -> {NoClick} \cup ClickCalls]
        /\ \A d \in Clicks \ {c} : click'[d] = click[d]
        /\ \A kinds : Out(kinds)' = (Out(kinds) \ {c}) \cup (IF NoClick.at \in kinds THEN {c} ELSE {})
    BY <1>0, <2>1, OneClick
  <2>3. Out({"simulate", "simulated"})' = Out({"simulate", "simulated"}) \ {c}
    BY <1>0, <2>2
  <2>4. Out({"simulated"})' = Out({"simulated"}) \ {c} BY <1>0, <2>2
  <2>5. Out({"create", "created"})' = Out({"create", "created"}) \ {c} BY <1>0, <2>2
  <2>6. PICK s \in KycIds \cup {NoId} : panel' = [panel EXCEPT !.id = s]
    <3>1. panel = [panel EXCEPT !.id = panel.id] /\ panel.id \in KycIds \cup {NoId}
      BY <1>0 DEF KycTypeOK
    <3>2. click[c].id \in KycIds BY <1>0, <1>2 DEF CreateAnswered, ClickCalls
    <3> QED BY <1>2, <3>1, <3>2 DEF CreateAnswered
  <2>7. panel'.status = panel.status /\ panel'.proof = panel.proof BY <1>0, <2>6 DEF KycTypeOK
  <2>8. KycTypeOK' BY <2>1, <2>2, <2>6 DEF KycInv, KycTypeOK, ClickCalls, KycStatuses
  <2>9. ~crossed => panel.status # "verified" /\ Out({"simulate", "simulated"}) = {}
    BY <2>1 DEF KycInv, ClicksApart
  <2>10. ClicksApart' BY <2>1, <2>3, <2>7, <2>9 DEF ClicksApart
  <2>11. SimulatedHere' BY <2>1, <2>2, <2>4 DEF KycInv, SimulatedHere
  <2>12. VerifiedAtService' BY <2>1, <2>7, <2>9 DEF VerifiedAtService
  <2> QED BY <2>8, <2>10, <2>11, <2>12 DEF KycInv
<1>3. ASSUME NEW c \in Clicks, ClickSimulate(c) PROVE KycInv'
  <2> DEFINE k == [at |-> "simulate", id |-> panel.id]
  <2>1. /\ click[c] = NoClick /\ panel.id \in KycIds /\ panel.status # "verified"
        /\ panel' = [panel EXCEPT !.status = "scanned"] /\ click' = [click EXCEPT ![c] = k]
        /\ crossed' = (crossed \/ Out({"create", "created"}) # {})
        /\ UNCHANGED <<cache, forgotten>>
    BY <1>0, <1>3 DEF ClickSimulate, KycTypeOK
  <2>2. k \in ClickCalls /\ k.at = "simulate" /\ k.id = panel.id BY <2>1 DEF ClickCalls
  <2> HIDE DEF k
  <2>3. /\ click' \in [Clicks -> {NoClick} \cup ClickCalls] /\ click'[c] = k
        /\ \A d \in Clicks \ {c} : click'[d] = click[d]
        /\ \A kinds : Out(kinds)' = (Out(kinds) \ {c}) \cup (IF k.at \in kinds THEN {c} ELSE {})
    BY <1>0, <2>1, <2>2, OneClick
  <2>4. Out({"simulate", "simulated"})' = Out({"simulate", "simulated"}) \cup {c} BY <2>2, <2>3
  <2>5. Out({"simulated"})' = Out({"simulated"}) \ {c} BY <2>2, <2>3
  <2>6. Out({"create", "created"})' = Out({"create", "created"}) \ {c} BY <2>2, <2>3
  <2>7. panel'.status = "scanned" /\ panel'.id = panel.id BY <1>0, <2>1 DEF KycTypeOK
  <2>8. KycTypeOK' BY <2>1, <2>3 DEF KycInv, KycTypeOK, ClickCalls, KycStatuses
  <2>9. ClicksApart'
    <3>2. ~crossed' => ~crossed /\ Out({"create", "created"}) = {} BY <2>1
    <3>3. \A d \in Out({"simulate", "simulated"}) \ {c} : ~crossed => click'[d].id = panel.id
      <4>1. Out({"simulate", "simulated"}) \subseteq Clicks BY DEF Out
      <4> QED BY <2>3, <4>1 DEF KycInv, ClicksApart
    <3>4. \A d \in Out({"simulate", "simulated"})' : ~crossed' => click'[d].id = panel'.id
      BY <2>2, <2>3, <2>4, <2>7, <3>2, <3>3
    <3> QED BY <2>6, <3>2, <3>4 DEF ClicksApart
  <2>10. SimulatedHere' BY <2>1, <2>3, <2>5 DEF KycInv, SimulatedHere, Out
  <2> QED BY <2>7, <2>8, <2>9, <2>10 DEF KycInv, VerifiedAtService
<1>4. ASSUME NEW c \in Clicks, SimulateAnswered(c) PROVE KycInv'
  <2>1. /\ c \in Out({"simulate", "simulated"})
        /\ click' = [click EXCEPT ![c] = NoClick] /\ UNCHANGED <<cache, crossed, forgotten>>
    BY <1>4 DEF SimulateAnswered, Out
  <2>2. /\ click' \in [Clicks -> {NoClick} \cup ClickCalls]
        /\ \A d \in Clicks \ {c} : click'[d] = click[d]
        /\ \A kinds : Out(kinds)' = (Out(kinds) \ {c}) \cup (IF NoClick.at \in kinds THEN {c} ELSE {})
    BY <1>0, <2>1, OneClick
  <2>3. Out({"simulate", "simulated"})' = Out({"simulate", "simulated"}) \ {c}
    BY <1>0, <2>2
  <2>4. Out({"simulated"})' = Out({"simulated"}) \ {c} BY <1>0, <2>2
  <2>5. Out({"create", "created"})' = Out({"create", "created"}) \ {c} BY <1>0, <2>2
  <2>6. PICK proof \in {"service", "made up"} :
          /\ panel' = [panel EXCEPT !.status = "verified", !.proof = proof]
          /\ proof = "service" => click[c].at = "simulated"
    BY <1>4 DEF SimulateAnswered
  <2>7. panel'.status = "verified" /\ panel'.proof = proof /\ panel'.id = panel.id
    BY <1>0, <2>6 DEF KycTypeOK
  <2>8. KycTypeOK' BY <2>1, <2>2, <2>6 DEF KycInv, KycTypeOK, ClickCalls, KycStatuses
  <2>9. ~crossed => Out({"create", "created"}) = {} /\ click[c].id = panel.id
    BY <2>1 DEF KycInv, ClicksApart
  <2>10. ClicksApart'
    <3>1. Out({"simulate", "simulated"}) \subseteq Clicks BY DEF Out
    <3>2. \A d \in Out({"simulate", "simulated"})' : ~crossed => click'[d].id = panel'.id
      BY <2>2, <2>3, <2>7, <3>1 DEF KycInv, ClicksApart
    <3> QED BY <2>1, <2>5, <2>9, <3>2 DEF ClicksApart
  <2>11. SimulatedHere'
    <3>1. Out({"simulated"}) \subseteq Clicks BY DEF Out
    <3> QED BY <2>1, <2>2, <2>4, <3>1 DEF KycInv, SimulatedHere
  <2>12. VerifiedAtService'
    <3>1. ASSUME proof = "service", ~crossed, ~forgotten
          PROVE  \E i \in KycInstances : cache[i][panel.id] = "verified"
      <4>1. c \in Out({"simulated"}) BY <2>6, <3>1 DEF Out
      <4> QED BY <2>9, <3>1, <4>1 DEF KycInv, SimulatedHere
    <3> QED BY <2>1, <2>7, <3>1 DEF VerifiedAtService, Polled
  <2> QED BY <2>8, <2>10, <2>11, <2>12 DEF KycInv
<1>5. ASSUME NEW c \in Clicks, NEW i \in KycInstances, NEW s \in KycIds, ServeCreate(i, c, s)
      PROVE  KycInv'
  <2> DEFINE k == [at |-> "created", id |-> s]
  <2>1. k \in ClickCalls /\ k.at = "created" BY DEF ClickCalls
  <2>2. /\ c \in Out({"create", "created"}) /\ c \notin Out({"simulate", "simulated"})
        /\ cache[i][s] = "absent" /\ cache' = [cache EXCEPT ![i][s] = "pending_scan"]
        /\ click' = [click EXCEPT ![c] = k] /\ UNCHANGED <<panel, crossed, forgotten>>
    BY <1>5 DEF ServeCreate, NewId, Out
  <2> HIDE DEF k
  <2>3. /\ click' \in [Clicks -> {NoClick} \cup ClickCalls]
        /\ \A d \in Clicks \ {c} : click'[d] = click[d]
        /\ \A kinds : Out(kinds)' = (Out(kinds) \ {c}) \cup (IF k.at \in kinds THEN {c} ELSE {})
    BY <1>0, <2>1, <2>2, OneClick
  <2>4. Out({"simulate", "simulated"})' = Out({"simulate", "simulated"}) \ {c}
    BY <2>1, <2>3
  <2>5. Out({"simulated"})' = Out({"simulated"}) \ {c} BY <2>1, <2>3
  <2>6. KycTypeOK' BY <2>2, <2>3 DEF KycInv, KycTypeOK, ClickCalls, KycStatuses
  <2>7. \A j \in KycInstances, t \in KycIds : cache[j][t] = "verified" => cache'[j][t] = "verified"
    BY <1>0, <2>2 DEF KycTypeOK
  <2>8. ClicksApart' BY <2>2, <2>3, <2>4 DEF KycInv, ClicksApart
  <2>9. SimulatedHere'
    <3>1. \A d \in Out({"simulated"}) : click[d].id \in KycIds BY <1>0 DEF Out, ClickCalls
    <3> QED BY <2>2, <2>3, <2>5, <2>7, <3>1 DEF KycInv, SimulatedHere
  <2>10. VerifiedAtService'
    <3>1. ~crossed => panel.status # "verified" BY <2>2 DEF KycInv, ClicksApart
    <3> QED BY <2>2, <3>1 DEF VerifiedAtService
  <2> QED BY <2>6, <2>8, <2>9, <2>10 DEF KycInv
<1>6. ASSUME NEW c \in Clicks, NEW i \in KycInstances, ServeSimulate(i, c) PROVE KycInv'
  <2>1. /\ click[c].at = "simulate" /\ click' = [click EXCEPT ![c].at = "simulated"]
        /\ cache' = [cache EXCEPT ![i][click[c].id] = "verified"]
        /\ UNCHANGED <<panel, crossed, forgotten>>
    BY <1>6 DEF ServeSimulate
  <2>2. click[c] \in ClickCalls /\ click[c].id \in KycIds BY <1>0, <2>1 DEF ClickCalls
  <2> DEFINE k == [click[c] EXCEPT !.at = "simulated"]
  <2>3. k \in ClickCalls /\ k.at = "simulated" /\ k.id = click[c].id BY <2>2 DEF ClickCalls
  <2>4. click' = [click EXCEPT ![c] = k] BY <2>1
  <2> HIDE DEF k
  <2>5. /\ click' \in [Clicks -> {NoClick} \cup ClickCalls] /\ click'[c] = k
        /\ \A d \in Clicks \ {c} : click'[d] = click[d]
        /\ \A kinds : Out(kinds)' = (Out(kinds) \ {c}) \cup (IF k.at \in kinds THEN {c} ELSE {})
    BY <1>0, <2>3, <2>4, OneClick
  <2>6. Out({"simulate", "simulated"})' = Out({"simulate", "simulated"})
    <3>1. c \in Out({"simulate", "simulated"}) BY <2>1 DEF Out
    <3> QED BY <2>3, <2>5, <3>1
  <2>7. Out({"simulated"})' = Out({"simulated"}) \cup {c} BY <2>3, <2>5
  <2>8. Out({"create", "created"})' = Out({"create", "created"}) \ {c} BY <2>3, <2>5
  <2>9. KycTypeOK' BY <2>1, <2>2, <2>5 DEF KycInv, KycTypeOK, ClickCalls, KycStatuses
  <2>10. /\ \A j \in KycInstances, t \in KycIds : cache[j][t] = "verified" => cache'[j][t] = "verified"
         /\ cache'[i][click[c].id] = "verified"
    BY <1>0, <2>1, <2>2 DEF KycTypeOK
  <2>11. \A d \in Clicks : click'[d].id = click[d].id BY <2>3, <2>5
  <2>12. ClicksApart'
    <3>1. Out({"simulate", "simulated"}) \subseteq Clicks BY DEF Out
    <3> QED BY <2>1, <2>6, <2>8, <2>11, <3>1 DEF KycInv, ClicksApart
  <2>13. SimulatedHere'
    <3>1. \A d \in Out({"simulated"}) : d \in Clicks /\ click[d].id \in KycIds
      BY <1>0 DEF Out, ClickCalls
    <3> QED BY <2>1, <2>7, <2>10, <2>11, <3>1 DEF KycInv, SimulatedHere
  <2>14. VerifiedAtService'
    <3>1. panel.id = NoId \/ panel.id \in KycIds BY <1>0 DEF KycTypeOK
    <3> QED BY <2>1, <2>10, <3>1 DEF KycInv, VerifiedAtService, Polled
  <2> QED BY <2>9, <2>12, <2>13, <2>14 DEF KycInv
<1>7. ASSUME NEW i \in KycInstances, MobileVerify(i) PROVE KycInv'
  <2>1. /\ panel.id \in KycIds /\ cache' = [cache EXCEPT ![i][panel.id] = "verified"]
        /\ UNCHANGED <<panel, click, crossed, forgotten>>
    BY <1>0, <1>7 DEF MobileVerify, KycTypeOK
  <2>2. KycTypeOK' BY <2>1 DEF KycInv, KycTypeOK, KycStatuses
  <2>3. \A j \in KycInstances, t \in KycIds : cache[j][t] = "verified" => cache'[j][t] = "verified"
    BY <1>0, <2>1 DEF KycTypeOK
  <2>4. \A kinds : Out(kinds)' = Out(kinds) BY <2>1 DEF Out
  <2>5. ClicksApart' BY <2>1, <2>4 DEF KycInv, ClicksApart
  <2>6. SimulatedHere'
    <3>1. \A d \in Out({"simulated"}) : click[d].id \in KycIds BY <1>0 DEF Out, ClickCalls
    <3> QED BY <2>1, <2>3, <2>4, <3>1 DEF KycInv, SimulatedHere
  <2>7. VerifiedAtService' BY <2>1, <2>3 DEF KycInv, VerifiedAtService, Polled
  <2> QED BY <2>2, <2>5, <2>6, <2>7 DEF KycInv
<1>8. ASSUME NEW i \in KycInstances, RestartKyc(i) PROVE KycInv'
  <2>1. forgotten' = TRUE /\ UNCHANGED <<panel, click, crossed>> BY <1>8 DEF RestartKyc
  <2>2. KycTypeOK' BY <1>8 DEF KycInv, KycTypeOK, KycStatuses, RestartKyc
  <2>3. \A kinds : Out(kinds)' = Out(kinds) BY <2>1 DEF Out
  <2> QED BY <2>1, <2>2, <2>3 DEF KycInv, ClicksApart, SimulatedHere, VerifiedAtService
<1>9. CASE UNCHANGED kycVars
  BY <1>9 DEF kycVars, KycInv, KycTypeOK, ClicksApart, SimulatedHere, VerifiedAtService, Out, Polled
<1> QED BY <1>1, <1>2, <1>3, <1>4, <1>5, <1>6, <1>7, <1>8, <1>9 DEF KycNext

LEMMA KycInvAlways == KycSpec => []KycInv
<1>1. KycInit => KycInv
  <2> SUFFICES ASSUME KycInit PROVE KycInv
    OBVIOUS
  <2>1. \A kinds : "idle" \notin kinds => Out(kinds) = {} BY DEF KycInit, Out, NoClick
  <2>2. Out({"simulate", "simulated"}) = {} /\ Out({"simulated"}) = {} BY <2>1
  <2>3. panel.status = "idle" BY DEF KycInit
  <2> QED BY <2>2, <2>3 DEF KycInit, KycInv, KycTypeOK, KycStatuses, ClicksApart, SimulatedHere,
                           VerifiedAtService
<1> QED BY <1>1, KycInvStep, PTL DEF KycSpec

\* Sessions, the panel and its clicks are of their types.
THEOREM KycTypes == KycSpec => []KycTypeOK
<1>1. KycInv => KycTypeOK BY DEF KycInv
<1> QED BY <1>1, KycInvAlways, PTL

(***************************************************************************)
(* What the panel shows as verified with the service's proof is verified   *)
(* at some instance, as long as none restarted and the clicks did not      *)
(* overlap (routes/kyc.py, page.tsx handleSimulateKyc).                    *)
(***************************************************************************)
THEOREM PanelIsTrue == KycSpec => []VerifiedAtService
<1>1. KycInv => VerifiedAtService BY DEF KycInv
<1> QED BY <1>1, KycInvAlways, PTL

-----------------------------------------------------------------------------
(* Tokens.                                                                 *)

OutStates == {"refresh", "read", "answer", "logout", "out"}

\* Nobody holds a token that was not made; a request that needs one has one, and
\* only an answer has a reason.
TokensMade ==
  /\ store.refresh # NoToken => token[store.refresh] # "unmade"
  /\ \A x \in Parts :
       /\ part[x].with.refresh # NoToken => token[part[x].with.refresh] # "unmade"
       /\ part[x].at \in OutStates => part[x].with.refresh # NoToken
       /\ part[x].why # "none" => part[x].at = "answer"

\* A pair that was made and not stored yet is live, and nobody else has it.
GotIsNew ==
  \A x \in Parts : part[x].got # NoToken =>
    /\ part[x].at \in {"answer", "signed"}
    /\ token[part[x].got] = "live" /\ store.refresh # part[x].got
    /\ \A y \in Parts : /\ part[y].with.refresh # part[x].got
                        /\ y # x => part[y].got # part[x].got

\* A used token is no longer live, and who still comes with it was there before.
UsedIsGone ==
  /\ \A t \in used : token[t] \in {"exchanged", "revoked"}
  /\ \A x \in Parts : part[x].at = "read" /\ part[x].with.refresh \in used => part[x].met = "read"
  /\ \A x \in Parts : /\ part[x].at = "refresh"
                      /\ token[part[x].with.refresh] \in {"exchanged", "revoked"}
                      => part[x].met # "nobody"

\* A stored token that is gone was taken by a refresh or logout that is still out.
TakerIsOut ==
  store.refresh # NoToken /\ token[store.refresh] \in {"exchanged", "revoked"} =>
    \E y \in Parts : part[y].at \in OutStates /\ part[y].with.refresh = store.refresh

\* Only an old token is purged, and none is read that is old.
PurgedIsOld ==
  /\ \A t \in Pairs : token[t] = "purged" => age[t] = "old"
  /\ \A x \in Parts : part[x].at = "read" => age[part[x].with.refresh] # "old"

AccountInv ==
  /\ AccountTypeOK /\ TokensMade /\ GotIsNew /\ UsedIsGone /\ TakerIsOut /\ PurgedIsOld
  /\ UnknownOnlyToRival

Tokens == Pairs \cup {NoToken}
PartRows ==
  [at : {"rest", "me", "me2", "refresh", "read", "answer", "signIn", "signed", "logout", "out"},
   with : [access : Tokens, refresh : Tokens], got : Tokens,
   why : {"none", "unknown", "expired", "inactive", "lost"},
   met : {"nobody", "at once", "on the way", "read"}]

LEMMA AccountShapes ==
  ASSUME AccountTypeOK
  PROVE  /\ part \in [Parts -> PartRows] /\ \A x \in Parts : part[x] \in PartRows
         /\ \A x \in Parts : part[x].with.refresh \in Tokens /\ part[x].got \in Tokens
         /\ store \in [access : Tokens, refresh : Tokens] /\ store.refresh \in Tokens
         /\ NoToken \notin Pairs /\ Empty \in [access : Tokens, refresh : Tokens]
<1>1. part \in [Parts -> PartRows] BY DEF AccountTypeOK, PartRows, Tokens
<1>2. \A x \in Parts : part[x].with.refresh \in Tokens /\ part[x].got \in Tokens
  BY <1>1 DEF PartRows
<1>3. store \in [access : Tokens, refresh : Tokens] BY DEF AccountTypeOK, Tokens
<1>4. NoToken \notin Pairs BY AccountAssumption DEF NoToken, Pairs
<1>5. Empty \in [access : Tokens, refresh : Tokens] BY DEF Empty, Tokens
<1> QED BY <1>1, <1>2, <1>3, <1>4, <1>5

(***************************************************************************)
(* What the browser does: a part ends or begins a request, with what the   *)
(* store has, and the store keeps its tokens, takes those of the part, or  *)
(* drops them.                                                             *)
(***************************************************************************)
LEMMA BrowserKeeps ==
  ASSUME AccountInv, NEW x \in Parts, NEW k \in PartRows, part' = [part EXCEPT ![x] = k],
         UNCHANGED <<account, token, age, used>>, k.got = NoToken, k.why = "none",
         k.at \in {"rest", "me", "me2", "signIn", "refresh", "logout"},
         k.at \in {"refresh", "logout"} =>
           /\ k.with.refresh = store.refresh /\ store.refresh # NoToken /\ UNCHANGED store
           /\ \A y \in Parts \ {x} : part[y].at \in OutStates /\ part[y].with.refresh = store.refresh
                                       => k.met # "nobody",
         k.at \notin {"refresh", "logout"} => k.with.refresh = NoToken,
         \/ UNCHANGED store /\ part[x].at \notin OutStates
         \/ store' = Empty
         \/ /\ part[x].got # NoToken
            /\ store' = [access |-> part[x].got, refresh |-> part[x].got]
  PROVE  AccountInv'
<1>1. part'[x] = k /\ \A y \in Parts \ {x} : part'[y] = part[y]
  BY DEF AccountInv, AccountTypeOK
<1>2. /\ \A y \in Parts : part[y].with.refresh \in Tokens /\ part[y].got \in Tokens
      /\ NoToken \notin Pairs /\ store.refresh \in Tokens
  BY AccountShapes DEF AccountInv
<1>3. \/ store'.refresh = store.refresh /\ part[x].at \notin OutStates
      \/ store'.refresh = NoToken
      \/ part[x].got # NoToken /\ store'.refresh = part[x].got
  <2>1. CASE UNCHANGED store /\ part[x].at \notin OutStates BY <2>1
  <2>2. CASE store' = Empty BY <2>2 DEF Empty
  <2>3. CASE /\ part[x].got # NoToken
             /\ store' = [access |-> part[x].got, refresh |-> part[x].got]
    BY <2>3
  <2> QED BY <2>1, <2>2, <2>3
<1>4. AccountTypeOK'
  <2>1. part' \in [Parts -> PartRows] BY AccountShapes DEF AccountInv
  <2>2. store' \in [access : Tokens, refresh : Tokens]
    <3>1. CASE UNCHANGED store BY <3>1, AccountShapes DEF AccountInv
    <3>2. CASE store' = Empty BY <3>2, AccountShapes DEF AccountInv
    <3>3. CASE store' = [access |-> part[x].got, refresh |-> part[x].got] BY <1>2, <3>3
    <3> QED BY <3>1, <3>2, <3>3
  <2> QED BY <2>1, <2>2 DEF AccountInv, AccountTypeOK, PartRows, Tokens
<1>5. TokensMade'
  <2>1. store'.refresh # NoToken => token[store'.refresh] # "unmade"
    BY <1>3 DEF AccountInv, TokensMade, GotIsNew
  <2>2. \A y \in Parts : /\ part'[y].with.refresh # NoToken => token[part'[y].with.refresh] # "unmade"
                         /\ part'[y].at \in OutStates => part'[y].with.refresh # NoToken
                         /\ part'[y].why # "none" => part'[y].at = "answer"
    <3>1. /\ k.with.refresh # NoToken => token[k.with.refresh] # "unmade"
          /\ k.at \in OutStates => k.with.refresh # NoToken
      <4>1. CASE k.at \in {"refresh", "logout"} BY <4>1 DEF AccountInv, TokensMade
      <4>2. CASE k.at \notin {"refresh", "logout"} BY <4>2 DEF OutStates
      <4> QED BY <4>1, <4>2
    <3> QED BY <1>1, <3>1 DEF AccountInv, TokensMade
  <2> QED BY <2>1, <2>2 DEF TokensMade
<1>6. GotIsNew'
  <2> SUFFICES ASSUME NEW y \in Parts, part'[y].got # NoToken
               PROVE  /\ part'[y].at \in {"answer", "signed"}
                      /\ token[part'[y].got] = "live" /\ store'.refresh # part'[y].got
                      /\ \A z \in Parts : /\ part'[z].with.refresh # part'[y].got
                                          /\ z # y => part'[z].got # part'[y].got
    BY DEF GotIsNew
  <2>1. y # x /\ part'[y] = part[y] BY <1>1
  <2>2. /\ part[y].at \in {"answer", "signed"} /\ token[part[y].got] = "live"
        /\ store.refresh # part[y].got
        /\ \A z \in Parts : /\ part[z].with.refresh # part[y].got
                            /\ z # y => part[z].got # part[y].got
    BY <2>1 DEF AccountInv, GotIsNew
  <2>3. store'.refresh # part[y].got BY <1>3, <2>1, <2>2
  <2>4. k.with.refresh # part[y].got BY <2>1, <2>2
  <2> QED BY <1>1, <2>1, <2>2, <2>3, <2>4
<1>7. UsedIsGone'
  <2>1. ASSUME k.at = "refresh", token[k.with.refresh] \in {"exchanged", "revoked"}
        PROVE  k.met # "nobody"
    <3>1. /\ k.with.refresh = store.refresh /\ store.refresh # NoToken /\ UNCHANGED store
          /\ \A y \in Parts \ {x} : part[y].at \in OutStates /\ part[y].with.refresh = store.refresh
                                      => k.met # "nobody"
      BY <2>1
    <3>2. part[x].at \notin OutStates
      <4>1. part[x].got # store.refresh \/ part[x].got = NoToken BY DEF AccountInv, GotIsNew
      <4>2. store'.refresh = store.refresh BY <3>1
      <4> QED BY <1>3, <3>1, <4>1, <4>2
    <3>3. PICK y \in Parts : part[y].at \in OutStates /\ part[y].with.refresh = store.refresh
      BY <2>1, <3>1 DEF AccountInv, TakerIsOut
    <3> QED BY <3>1, <3>2, <3>3
  <2>2. \A y \in Parts : part'[y].at = "read" /\ part'[y].with.refresh \in used
                           => part'[y].met = "read"
    BY <1>1 DEF AccountInv, UsedIsGone
  <2>3. \A y \in Parts : /\ part'[y].at = "refresh"
                         /\ token[part'[y].with.refresh] \in {"exchanged", "revoked"}
                         => part'[y].met # "nobody"
    <3> SUFFICES ASSUME NEW y \in Parts, part'[y].at = "refresh",
                        token[part'[y].with.refresh] \in {"exchanged", "revoked"}
                 PROVE  part'[y].met # "nobody"
      OBVIOUS
    <3>1. CASE y = x BY <1>1, <2>1, <3>1
    <3>2. CASE y # x BY <1>1, <3>2 DEF AccountInv, UsedIsGone
    <3> QED BY <3>1, <3>2
  <2>4. \A t \in used : token[t] \in {"exchanged", "revoked"} BY DEF AccountInv, UsedIsGone
  <2> QED BY <2>2, <2>3, <2>4 DEF UsedIsGone
<1>8. TakerIsOut'
  <2>1. CASE store'.refresh = store.refresh /\ part[x].at \notin OutStates
    BY <1>1, <2>1 DEF AccountInv, TakerIsOut
  <2>2. CASE store'.refresh = NoToken BY <2>2 DEF TakerIsOut
  <2>3. CASE part[x].got # NoToken /\ store'.refresh = part[x].got
    BY <2>3 DEF AccountInv, GotIsNew, TakerIsOut
  <2> QED BY <1>3, <2>1, <2>2, <2>3
<1>9. PurgedIsOld' BY <1>1 DEF AccountInv, PurgedIsOld
<1>10. UnknownOnlyToRival' BY <1>1 DEF AccountInv, UnknownOnlyToRival
<1> QED BY <1>4, <1>5, <1>6, <1>7, <1>8, <1>9, <1>10 DEF AccountInv

\* What Send puts into a part's place.
Sent(x, at, with) ==
  [Resting EXCEPT !.at = at, !.with = with,
    !.met = IF \E y \in Parts \ {x} : /\ RefreshOut(y) \/ part[y].at \in {"logout", "out"}
                                      /\ part[y].with.refresh = with.refresh
            THEN "at once" ELSE "nobody"]

LEMMA SendShape ==
  ASSUME NEW x \in Parts, NEW with \in [access : Tokens, refresh : Tokens],
         NEW at \in {"me", "me2", "refresh", "signIn", "logout"}
  PROVE  /\ Sent(x, at, with) \in PartRows
         /\ Sent(x, at, with).at = at /\ Sent(x, at, with).with = with
         /\ Sent(x, at, with).got = NoToken /\ Sent(x, at, with).why = "none"
         /\ \A y \in Parts \ {x} : part[y].at \in OutStates /\ part[y].with.refresh = with.refresh
                                     => Sent(x, at, with).met # "nobody"
<1> DEFINE others == \E y \in Parts \ {x} : /\ RefreshOut(y) \/ part[y].at \in {"logout", "out"}
                                            /\ part[y].with.refresh = with.refresh
           met == IF others THEN "at once" ELSE "nobody"
<1>1. Sent(x, at, with) = [Resting EXCEPT !.at = at, !.with = with, !.met = met] BY DEF Sent
<1>2. met \in {"nobody", "at once"} OBVIOUS
<1>3. \A y \in Parts \ {x} : part[y].at \in OutStates /\ part[y].with.refresh = with.refresh
                               => met # "nobody"
  BY DEF OutStates, RefreshOut
<1> HIDE DEF met
<1>4. /\ Sent(x, at, with).at = at /\ Sent(x, at, with).with = with
      /\ Sent(x, at, with).got = NoToken /\ Sent(x, at, with).why = "none"
      /\ Sent(x, at, with).met = met /\ Sent(x, at, with) \in PartRows
  BY <1>1, <1>2 DEF Resting, PartRows, Tokens, NoToken
<1> QED BY <1>3, <1>4

(***************************************************************************)
(* A refresh that ends without a pair, whatever the reason; an expired     *)
(* token is purged on the way.                                             *)
(***************************************************************************)
LEMMA RefusedKeeps ==
  ASSUME AccountInv, NEW x \in Parts, NEW why \in {"unknown", "expired", "inactive", "lost"},
         part[x].at \in {"refresh", "read", "answer"}, part' = Refused(x, why),
         UNCHANGED <<account, age, store, used>>,
         \/ UNCHANGED token
         \/ /\ token[part[x].with.refresh] = "live" /\ age[part[x].with.refresh] = "old"
            /\ token' = [token EXCEPT ![part[x].with.refresh] = "purged"],
         why = "unknown" => part[x].met # "nobody" \/ token[part[x].with.refresh] = "purged"
  PROVE  AccountInv'
<1> DEFINE t == part[x].with.refresh
<1>1. part[x] \in PartRows /\ t \in Pairs
  BY AccountShapes DEF AccountInv, TokensMade, OutStates, Tokens
<1>2. /\ part'[x].at = "answer" /\ part'[x].got = NoToken /\ part'[x].why = why
      /\ part'[x].with = part[x].with /\ part'[x].met = part[x].met
      /\ part'[x] \in PartRows
      /\ \A y \in Parts \ {x} : part'[y] = part[y]
  BY <1>1 DEF Refused, AccountInv, AccountTypeOK, PartRows, Tokens
<1> HIDE DEF t
<1>3. \A s \in Pairs : \/ token'[s] = token[s]
                       \/ s = t /\ token[s] = "live" /\ token'[s] = "purged" /\ age[s] = "old"
  BY <1>1 DEF AccountInv, AccountTypeOK, t
<1>4. \A y \in Parts : part[y].with.refresh \in Tokens /\ part[y].got \in Tokens
  BY AccountShapes DEF AccountInv
<1>5. NoToken \notin Pairs /\ store.refresh \in Tokens BY AccountShapes DEF AccountInv
<1>6. AccountTypeOK'
  <2>1. DOMAIN part' = Parts BY DEF Refused, AccountInv, AccountTypeOK
  <2>2. part' \in [Parts -> PartRows]
    <3>1. \A y \in Parts : part'[y] \in PartRows BY <1>2, AccountShapes DEF AccountInv
    <3> QED BY <2>1, <3>1 DEF Refused
  <2>3. token' \in [Pairs -> {"unmade", "live", "exchanged", "revoked", "purged"}]
    BY <1>1 DEF AccountInv, AccountTypeOK, t
  <2> QED BY <2>2, <2>3 DEF AccountInv, AccountTypeOK, PartRows, Tokens
<1>7. \A y \in Parts : part'[y].with = part[y].with BY <1>2
<1>8. TokensMade'
  <2>1. \A s \in Pairs : token[s] # "unmade" => token'[s] # "unmade" BY <1>3
  <2>2. store.refresh # NoToken => token'[store.refresh] # "unmade"
    BY <1>5, <2>1 DEF AccountInv, TokensMade, Tokens
  <2>3. \A y \in Parts : part'[y].with.refresh # NoToken => token'[part'[y].with.refresh] # "unmade"
    BY <1>4, <1>7, <2>1 DEF AccountInv, TokensMade, Tokens
  <2>4. \A y \in Parts : part'[y].at \in OutStates => part'[y].with.refresh # NoToken
    <3>1. part'[x].with.refresh # NoToken BY <1>1, <1>5, <1>7 DEF t
    <3>2. \A y \in Parts \ {x} : part'[y].at = part[y].at BY <1>2
    <3> QED BY <1>7, <3>1, <3>2 DEF AccountInv, TokensMade
  <2>5. \A y \in Parts : part'[y].why # "none" => part'[y].at = "answer"
    BY <1>2 DEF AccountInv, TokensMade
  <2> QED BY <2>2, <2>3, <2>4, <2>5 DEF TokensMade
<1>9. GotIsNew'
  <2> SUFFICES ASSUME NEW y \in Parts, part'[y].got # NoToken
               PROVE  /\ part'[y].at \in {"answer", "signed"}
                      /\ token'[part'[y].got] = "live" /\ store'.refresh # part'[y].got
                      /\ \A z \in Parts : /\ part'[z].with.refresh # part'[y].got
                                          /\ z # y => part'[z].got # part'[y].got
    BY DEF GotIsNew
  <2>1. y # x /\ part'[y] = part[y] BY <1>2
  <2>2. /\ part[y].at \in {"answer", "signed"} /\ token[part[y].got] = "live"
        /\ store.refresh # part[y].got
        /\ \A z \in Parts : /\ part[z].with.refresh # part[y].got
                            /\ z # y => part[z].got # part[y].got
    BY <2>1 DEF AccountInv, GotIsNew
  <2>3. token'[part[y].got] = "live" BY <1>3, <1>4, <2>1, <2>2 DEF Tokens, t
  <2> QED BY <1>2, <1>7, <2>1, <2>2, <2>3
<1>10. UsedIsGone'
  <2>1. \A s \in used : token'[s] \in {"exchanged", "revoked"}
    BY <1>3 DEF AccountInv, UsedIsGone, AccountTypeOK
  <2>2. \A y \in Parts : part'[y].at \in {"refresh", "read"} => part'[y] = part[y] BY <1>2
  <2>3. \A y \in Parts : part'[y].at = "refresh"
          => (token'[part'[y].with.refresh] \in {"exchanged", "revoked"}
                => token[part[y].with.refresh] \in {"exchanged", "revoked"})
    BY <1>3, <1>4, <2>2 DEF AccountInv, TokensMade, OutStates, Tokens
  <2> QED BY <2>1, <2>2, <2>3 DEF AccountInv, UsedIsGone
<1>11. TakerIsOut'
  <2> SUFFICES ASSUME store.refresh # NoToken, token'[store.refresh] \in {"exchanged", "revoked"}
               PROVE  \E y \in Parts : part'[y].at \in OutStates /\ part'[y].with.refresh = store.refresh
    BY DEF TakerIsOut
  <2>1. token[store.refresh] \in {"exchanged", "revoked"} BY <1>3, <1>5 DEF Tokens
  <2>2. PICK y \in Parts : part[y].at \in OutStates /\ part[y].with.refresh = store.refresh
    BY <2>1 DEF AccountInv, TakerIsOut
  <2>3. part'[y].at \in OutStates BY <1>2, <2>2 DEF OutStates
  <2> QED BY <1>7, <2>2, <2>3
<1>12. PurgedIsOld'
  <2>1. \A y \in Parts : part'[y].at = "read" => part'[y] = part[y] BY <1>2
  <2> QED BY <1>3, <2>1 DEF AccountInv, PurgedIsOld
<1>13. UnknownOnlyToRival'
  <2>1. \A s \in Pairs : token[s] = "purged" => token'[s] = "purged" BY <1>3
  <2>2. ASSUME NEW y \in Parts, y # x, part[y].why = "unknown"
        PROVE  part[y].met # "nobody" \/ token'[part[y].with.refresh] = "purged"
    <3>1. part[y].met # "nobody" \/ token[part[y].with.refresh] = "purged"
      BY <2>2 DEF AccountInv, UnknownOnlyToRival
    <3>2. part[y].with.refresh \in Pairs
      BY <1>4, <2>2 DEF AccountInv, TokensMade, OutStates, Tokens
    <3> QED BY <2>1, <3>1, <3>2
  <2> QED BY <1>1, <1>2, <2>1, <2>2 DEF UnknownOnlyToRival, t
<1> QED BY <1>6, <1>8, <1>9, <1>10, <1>11, <1>12, <1>13 DEF AccountInv

\* A refresh that finds its token's row, and its user's.
LEMMA ReadKeeps ==
  ASSUME AccountInv, NEW x \in Parts, part[x].at = "refresh",
         token[part[x].with.refresh] = "live", age[part[x].with.refresh] # "old",
         part' = [part EXCEPT ![x].at = "read"], UNCHANGED <<account, token, age, store, used>>
  PROVE  AccountInv'
<1>1. part[x] \in PartRows BY AccountShapes DEF AccountInv
<1>2. /\ part'[x].at = "read" /\ part'[x].got = part[x].got /\ part'[x].why = part[x].why
      /\ part'[x].with = part[x].with /\ part'[x].met = part[x].met
      /\ part'[x] \in PartRows
      /\ \A y \in Parts \ {x} : part'[y] = part[y]
  BY <1>1 DEF AccountInv, AccountTypeOK, PartRows, Tokens
<1>3. \A y \in Parts : /\ part'[y].with = part[y].with /\ part'[y].got = part[y].got
                       /\ part'[y].met = part[y].met /\ part'[y].why = part[y].why
                       /\ part'[y].at = part[y].at \/ y = x
  BY <1>2
<1>4. AccountTypeOK'
  <2>1. \A y \in Parts : part'[y] \in PartRows BY <1>2, AccountShapes DEF AccountInv
  <2>2. part' \in [Parts -> PartRows] BY <2>1 DEF AccountInv, AccountTypeOK
  <2> QED BY <2>2 DEF AccountInv, AccountTypeOK, PartRows, Tokens
<1>5. TokensMade'
  <2>1. part[x].why = "none" BY DEF AccountInv, TokensMade
  <2>2. part'[x].with.refresh # NoToken BY <1>2 DEF AccountInv, TokensMade, OutStates
  <2>3. \A y \in Parts : /\ part'[y].at \in OutStates => part'[y].with.refresh # NoToken
                         /\ part'[y].why # "none" => part'[y].at = "answer"
    BY <1>3, <2>1, <2>2 DEF AccountInv, TokensMade
  <2>4. \A y \in Parts : part'[y].with.refresh # NoToken => token[part'[y].with.refresh] # "unmade"
    BY <1>3 DEF AccountInv, TokensMade
  <2> QED BY <2>3, <2>4 DEF AccountInv, TokensMade
<1>6. GotIsNew' BY <1>2, <1>3 DEF AccountInv, GotIsNew
<1>7. UsedIsGone'
  <2>1. part[x].with.refresh \notin used BY DEF AccountInv, UsedIsGone
  <2> QED BY <1>2, <1>3, <2>1 DEF AccountInv, UsedIsGone
<1>8. TakerIsOut' BY <1>2, <1>3 DEF AccountInv, TakerIsOut, OutStates
<1>9. PurgedIsOld' BY <1>2, <1>3 DEF AccountInv, PurgedIsOld
<1>10. UnknownOnlyToRival' BY <1>3 DEF AccountInv, UnknownOnlyToRival
<1> QED BY <1>4, <1>5, <1>6, <1>7, <1>8, <1>9, <1>10 DEF AccountInv

\* What an exchange or a revocation means to the other requests with the token.
LEMMA MeetShape ==
  ASSUME AccountInv, NEW x \in Parts, NEW t
  PROVE  /\ Meet(x, t) \in [Parts -> PartRows] /\ Meet(x, t)[x] = part[x]
         /\ \A y \in Parts \ {x} : LET m == Meet(x, t)[y] IN
              /\ m.at = part[y].at /\ m.with = part[y].with /\ m.got = part[y].got
              /\ m.why = part[y].why
              /\ part[y].met # "nobody" => m.met # "nobody"
              /\ part[y].at = "read" /\ part[y].met = "read" => m.met = "read"
              /\ part[y].with.refresh = t =>
                   /\ part[y].at = "read" => m.met = "read"
                   /\ part[y].at = "refresh" => m.met # "nobody"
<1>1. \A y \in Parts : part[y] \in PartRows BY AccountShapes DEF AccountInv
<1> DEFINE touched(y) == y # x /\ part[y].with.refresh = t /\ part[y].at \in {"refresh", "read"}
           met(y) == IF part[y].at = "read" THEN "read" ELSE "on the way"
           new(y) == [part[y] EXCEPT !.met = met(y)]
<1>2. Meet(x, t) = [y \in Parts |-> IF touched(y) THEN new(y) ELSE part[y]] BY DEF Meet
<1>3. \A y \in Parts : /\ new(y) \in PartRows /\ new(y).at = part[y].at /\ new(y).with = part[y].with
                       /\ new(y).got = part[y].got /\ new(y).why = part[y].why
                       /\ new(y).met = met(y)
  <2> SUFFICES ASSUME NEW y \in Parts
               PROVE  /\ new(y) \in PartRows /\ new(y).at = part[y].at /\ new(y).with = part[y].with
                      /\ new(y).got = part[y].got /\ new(y).why = part[y].why
                      /\ new(y).met = met(y)
    OBVIOUS
  <2>1. met(y) \in {"read", "on the way"} OBVIOUS
  <2> HIDE DEF met
  <2> QED BY <1>1, <2>1 DEF PartRows
<1>4. \A y \in Parts : met(y) # "nobody" /\ (part[y].at = "read" => met(y) = "read") OBVIOUS
<1> HIDE DEF new, met
<1>5. Meet(x, t) \in [Parts -> PartRows] BY <1>1, <1>2, <1>3
<1>6. Meet(x, t)[x] = part[x] BY <1>2
<1>7. ASSUME NEW y \in Parts \ {x}
      PROVE  LET m == Meet(x, t)[y] IN
               /\ m.at = part[y].at /\ m.with = part[y].with /\ m.got = part[y].got
               /\ m.why = part[y].why
               /\ part[y].met # "nobody" => m.met # "nobody"
               /\ part[y].at = "read" /\ part[y].met = "read" => m.met = "read"
               /\ part[y].with.refresh = t =>
                    /\ part[y].at = "read" => m.met = "read"
                    /\ part[y].at = "refresh" => m.met # "nobody"
  <2>1. CASE touched(y)
    <3>1. Meet(x, t)[y] = new(y) BY <1>2, <2>1
    <3> QED BY <1>3, <1>4, <3>1
  <2>2. CASE ~touched(y)
    <3>1. Meet(x, t)[y] = part[y] BY <1>2, <2>2
    <3> QED BY <2>2, <3>1
  <2> QED BY <2>1, <2>2
<1> QED BY <1>5, <1>6, <1>7

(***************************************************************************)
(* A token is taken from the database, by an exchange for a new pair p or  *)
(* by a logout (then p is no token).                                       *)
(***************************************************************************)
LEMMA TakenKeeps ==
  ASSUME AccountInv, NEW x \in Parts, NEW t, t = part[x].with.refresh, NEW p \in Tokens,
         NEW gone \in {"exchanged", "revoked"},
         part[x].at \in {"read", "logout"}, p # NoToken => part[x].at = "read" /\ p \in Unmade,
         token' \in [Pairs -> {"unmade", "live", "exchanged", "revoked", "purged"}],
         token'[t] = gone, p # NoToken => token'[p] = "live",
         \A s \in Pairs \ {t, p} : token'[s] = token[s],
         token[t] # "purged",
         part' \in [Parts -> PartRows],
         part'[x].at = IF part[x].at = "read" THEN "answer" ELSE "out",
         part'[x].with = part[x].with, part'[x].got = p, part'[x].why = part[x].why,
         \A y \in Parts \ {x} : part'[y] = Meet(x, t)[y],
         used' = used \cup {t}, UNCHANGED <<account, age, store>>
  PROVE  AccountInv'
<1>1. /\ \A y \in Parts : part[y].with.refresh \in Tokens /\ part[y].got \in Tokens
      /\ NoToken \notin Pairs /\ store.refresh \in Tokens
  BY AccountShapes DEF AccountInv
<1>2. t \in Pairs /\ token[t] # "unmade"
  BY <1>1 DEF AccountInv, TokensMade, OutStates, Tokens
<1>3. p # NoToken => p \in Pairs /\ token[p] = "unmade" /\ p # t BY <1>2 DEF Unmade
<1>4. \A y \in Parts : part'[y].with = part[y].with BY MeetShape
<1>5. \A y \in Parts \ {x} : /\ part'[y].at = part[y].at /\ part'[y].got = part[y].got
                             /\ part'[y].why = part[y].why
  BY MeetShape
<1>6. /\ \A s \in Pairs : token[s] # "unmade" => token'[s] # "unmade"
      /\ \A s \in Pairs : s # t /\ token[s] # "unmade" => token'[s] = token[s]
  <2>1. \A s \in Pairs : token[s] # "unmade" => s # p BY <1>1, <1>3
  <2> QED BY <2>1
<1>7. /\ part[x].why = "none"
      /\ \A y \in Parts : /\ part[y].with.refresh # NoToken =>
                              /\ part[y].with.refresh \in Pairs
                              /\ token[part[y].with.refresh] # "unmade"
                          /\ part[y].at \in OutStates => part[y].with.refresh # NoToken
  <2>1. TokensMade BY DEF AccountInv
  <2>2. part[x].why = "none" BY <2>1 DEF TokensMade
  <2>3. \A y \in Parts : part[y].with.refresh # NoToken =>
          part[y].with.refresh \in Pairs /\ token[part[y].with.refresh] # "unmade"
    BY <1>1, <2>1 DEF TokensMade, Tokens
  <2> QED BY <2>1, <2>2, <2>3 DEF TokensMade
<1>8. AccountTypeOK' BY <1>2 DEF AccountInv, AccountTypeOK, PartRows, Tokens
<1>9. TokensMade'
  <2>1. store.refresh # NoToken => token'[store.refresh] # "unmade"
    BY <1>1, <1>6 DEF AccountInv, TokensMade, Tokens
  <2>2. ASSUME NEW y \in Parts, part'[y].with.refresh # NoToken
        PROVE  token'[part'[y].with.refresh] # "unmade"
    <3>1. part[y].with.refresh \in Pairs /\ token[part[y].with.refresh] # "unmade"
      BY <1>4, <1>7, <2>2
    <3> QED BY <1>4, <1>6, <3>1
  <2>3. ASSUME NEW y \in Parts, part'[y].at \in OutStates PROVE part'[y].with.refresh # NoToken
    <3>1. CASE y = x BY <1>1, <1>2, <1>4, <3>1
    <3>2. CASE y # x
      <4>1. part[y].at \in OutStates BY <1>5, <2>3, <3>2
      <4>2. part[y].with.refresh # NoToken BY <1>7, <4>1
      <4> QED BY <1>4, <4>2
    <3> QED BY <3>1, <3>2
  <2>4. \A y \in Parts : part'[y].why # "none" => part'[y].at = "answer"
    BY <1>5, <1>7 DEF AccountInv, TokensMade
  <2> QED BY <2>1, <2>2, <2>3, <2>4 DEF TokensMade
<1>10. GotIsNew'
  <2> SUFFICES ASSUME NEW y \in Parts, part'[y].got # NoToken
               PROVE  /\ part'[y].at \in {"answer", "signed"}
                      /\ token'[part'[y].got] = "live" /\ store'.refresh # part'[y].got
                      /\ \A z \in Parts : /\ part'[z].with.refresh # part'[y].got
                                          /\ z # y => part'[z].got # part'[y].got
    BY DEF GotIsNew
  <2>1. \A z \in Parts : part[z].got # NoToken =>
          /\ part[z].at \in {"answer", "signed"} /\ token[part[z].got] = "live"
          /\ store.refresh # part[z].got
          /\ \A w \in Parts : /\ part[w].with.refresh # part[z].got
                              /\ w # z => part[w].got # part[z].got
    BY DEF AccountInv, GotIsNew
  <2>2. CASE y = x
    <3>1. p # NoToken /\ part'[x].got = p /\ part'[x].at = "answer" BY <2>2
    <3>2. store.refresh # p BY <1>3, <3>1 DEF AccountInv, TokensMade
    <3>3. \A z \in Parts : part[z].with.refresh # p BY <1>3, <3>1 DEF AccountInv, TokensMade
    <3>4. \A z \in Parts \ {x} : part[z].got # p BY <1>3, <2>1, <3>1
    <3> QED BY <1>4, <1>5, <2>2, <3>1, <3>2, <3>3, <3>4
  <2>3. CASE y # x
    <3>1. part'[y].got = part[y].got /\ part'[y].at = part[y].at BY <1>5, <2>3
    <3>2. token[part[y].got] = "live" /\ part[y].got # t BY <2>1, <3>1
    <3>3. token'[part[y].got] = "live" BY <1>1, <1>6, <3>1, <3>2 DEF Tokens
    <3>4. part[y].got # p BY <1>3, <3>1, <3>2
    <3> QED BY <1>4, <1>5, <2>1, <2>3, <3>1, <3>3, <3>4
  <2> QED BY <2>2, <2>3
<1>11. UsedIsGone'
  <2>1. \A s \in used' : token'[s] \in {"exchanged", "revoked"}
    <3>1. \A s \in used : s \in Pairs /\ token[s] \in {"exchanged", "revoked"}
      BY DEF AccountInv, UsedIsGone, AccountTypeOK
    <3> QED BY <1>6, <3>1
  <2>2. ASSUME NEW y \in Parts, part'[y].at = "read", part'[y].with.refresh \in used'
        PROVE  part'[y].met = "read"
    <3>1. y # x /\ part[y].at = "read" BY <1>5, <2>2
    <3>2. CASE part[y].with.refresh = t BY <3>1, <3>2, MeetShape
    <3>3. CASE part[y].with.refresh \in used
      <4>1. part[y].met = "read" BY <3>1, <3>3 DEF AccountInv, UsedIsGone
      <4> QED BY <3>1, <4>1, MeetShape
    <3> QED BY <1>4, <2>2, <3>2, <3>3
  <2>3. ASSUME NEW y \in Parts, part'[y].at = "refresh",
               token'[part'[y].with.refresh] \in {"exchanged", "revoked"}
        PROVE  part'[y].met # "nobody"
    <3>1. y # x /\ part[y].at = "refresh" BY <1>5, <2>3
    <3>2. CASE part[y].with.refresh = t BY <3>1, <3>2, MeetShape
    <3>3. CASE part[y].with.refresh # t
      <4>1. part[y].with.refresh \in Pairs /\ token[part[y].with.refresh] # "unmade"
        BY <1>1, <3>1 DEF AccountInv, TokensMade, OutStates, Tokens
      <4>2. token[part[y].with.refresh] \in {"exchanged", "revoked"}
        BY <1>4, <1>6, <2>3, <3>3, <4>1
      <4>3. part[y].met # "nobody" BY <3>1, <4>2 DEF AccountInv, UsedIsGone
      <4> QED BY <3>1, <4>3, MeetShape
    <3> QED BY <3>2, <3>3
  <2> QED BY <2>1, <2>2, <2>3 DEF UsedIsGone
<1>12. TakerIsOut'
  <2> SUFFICES ASSUME store.refresh # NoToken, token'[store.refresh] \in {"exchanged", "revoked"}
               PROVE  \E y \in Parts : part'[y].at \in OutStates /\ part'[y].with.refresh = store.refresh
    BY DEF TakerIsOut
  <2>1. part'[x].at \in OutStates BY DEF OutStates
  <2>2. CASE store.refresh = t BY <1>4, <2>1, <2>2
  <2>3. CASE store.refresh # t
    <3>1. store.refresh \in Pairs /\ token[store.refresh] # "unmade"
      BY <1>1 DEF AccountInv, TokensMade, Tokens
    <3>2. token[store.refresh] \in {"exchanged", "revoked"} BY <1>6, <2>3, <3>1
    <3>3. PICK y \in Parts : part[y].at \in OutStates /\ part[y].with.refresh = store.refresh
      BY <3>2 DEF AccountInv, TakerIsOut
    <3> QED BY <1>4, <1>5, <2>1, <3>3
  <2> QED BY <2>2, <2>3
<1>13. PurgedIsOld'
  <2>1. ASSUME NEW s \in Pairs, token'[s] = "purged" PROVE token[s] = "purged"
    <3>1. s # t /\ s # p BY <1>1, <2>1
    <3> QED BY <2>1, <3>1
  <2>2. \A y \in Parts : part'[y].at = "read" => part[y].at = "read" BY <1>5
  <2> QED BY <1>4, <2>1, <2>2 DEF AccountInv, PurgedIsOld
<1>14. UnknownOnlyToRival'
  <2> SUFFICES ASSUME NEW y \in Parts, part'[y].why = "unknown"
               PROVE  part'[y].met # "nobody" \/ token'[part'[y].with.refresh] = "purged"
    BY DEF UnknownOnlyToRival
  <2>1. y # x /\ part[y].why = "unknown" BY <1>5, <1>7
  <2>2. part[y].met # "nobody" \/ token[part[y].with.refresh] = "purged"
    BY <2>1 DEF AccountInv, UnknownOnlyToRival
  <2>3. CASE part[y].met # "nobody" BY <2>1, <2>3, MeetShape
  <2>4. CASE token[part[y].with.refresh] = "purged"
    <3>1. part[y].at \in OutStates BY <2>1 DEF AccountInv, TokensMade, OutStates
    <3>2. part[y].with.refresh \in Pairs BY <1>1, <3>1 DEF AccountInv, TokensMade, Tokens
    <3> QED BY <1>4, <1>6, <2>4, <3>2
  <2> QED BY <2>2, <2>3, <2>4
<1> QED BY <1>8, <1>9, <1>10, <1>11, <1>12, <1>13, <1>14 DEF AccountInv

LEMMA SignInKeeps ==
  ASSUME AccountInv, NEW x \in Parts, ServeSignIn(x)
  PROVE  AccountInv'
<1>1. part[x] \in PartRows BY AccountShapes DEF AccountInv
<1>2. PICK p \in Unmade : /\ token' = [token EXCEPT ![p] = "live"]
                          /\ part' = [part EXCEPT ![x].at = "signed", ![x].got = p]
  BY DEF ServeSignIn
<1>3. /\ part[x].at = "signIn" /\ UNCHANGED <<age, store, used>>
      /\ account' \in {"absent", "active", "inactive"}
  BY DEF ServeSignIn, AccountInv, AccountTypeOK
<1>4. p \in Pairs /\ token[p] = "unmade" BY DEF Unmade
<1>5. /\ token'[p] = "live" /\ \A s \in Pairs \ {p} : token'[s] = token[s]
      /\ token' \in [Pairs -> {"unmade", "live", "exchanged", "revoked", "purged"}]
  BY <1>2, <1>4 DEF AccountInv, AccountTypeOK
<1>6. /\ part'[x].at = "signed" /\ part'[x].got = p /\ part'[x].why = part[x].why
      /\ part'[x].with = part[x].with /\ part'[x].met = part[x].met
      /\ part'[x] \in PartRows
      /\ \A y \in Parts \ {x} : part'[y] = part[y]
  BY <1>1, <1>2, <1>4 DEF AccountInv, AccountTypeOK, PartRows, Tokens
<1>7. part' \in [Parts -> PartRows]
  <2>1. DOMAIN part' = Parts BY <1>2 DEF AccountInv, AccountTypeOK
  <2>2. \A y \in Parts : part'[y] \in PartRows BY <1>6, AccountShapes DEF AccountInv
  <2> QED BY <1>2, <2>1, <2>2
<1>8. /\ \A y \in Parts : part[y].with.refresh \in Tokens /\ part[y].got \in Tokens
      /\ NoToken \notin Pairs /\ store.refresh \in Tokens
  BY AccountShapes DEF AccountInv
<1>9. /\ store.refresh # NoToken => token[store.refresh] # "unmade" /\ store.refresh \in Pairs
      /\ \A y \in Parts : /\ part[y].with.refresh # NoToken =>
                               /\ part[y].with.refresh \in Pairs
                               /\ token[part[y].with.refresh] # "unmade"
                          /\ part[y].at \in OutStates => part[y].with.refresh # NoToken
      /\ part[x].why = "none"
  <2>1. TokensMade BY DEF AccountInv
  <2> QED BY <1>3, <1>8, <2>1 DEF TokensMade, Tokens
<1>10. AccountTypeOK' BY <1>3, <1>5, <1>7 DEF AccountInv, AccountTypeOK, PartRows, Tokens
<1>11. \A y \in Parts : /\ part'[y].with = part[y].with /\ part'[y].met = part[y].met
                        /\ part'[y].why = part[y].why
                        /\ part'[y].at \in OutStates <=> part[y].at \in OutStates
                        /\ part'[y].at \in {"refresh", "read"} => part'[y].at = part[y].at
  BY <1>3, <1>6 DEF OutStates
<1>12. \A s \in Pairs : token[s] # "unmade" => token'[s] = token[s] BY <1>4, <1>5
<1>13. TokensMade'
  <2>1. \A y \in Parts : part'[y].why # "none" => part'[y].at = "answer"
    BY <1>6, <1>9 DEF AccountInv, TokensMade
  <2>2. \A y \in Parts : part'[y].with.refresh # NoToken => token'[part'[y].with.refresh] # "unmade"
    BY <1>9, <1>11, <1>12
  <2> QED BY <1>3, <1>9, <1>11, <1>12, <2>1, <2>2 DEF TokensMade
<1>14. GotIsNew'
  <2> SUFFICES ASSUME NEW y \in Parts, part'[y].got # NoToken
               PROVE  /\ part'[y].at \in {"answer", "signed"}
                      /\ token'[part'[y].got] = "live" /\ store'.refresh # part'[y].got
                      /\ \A z \in Parts : /\ part'[z].with.refresh # part'[y].got
                                          /\ z # y => part'[z].got # part'[y].got
    BY DEF GotIsNew
  <2>1. \A z \in Parts : part[z].got # NoToken =>
          /\ part[z].at \in {"answer", "signed"} /\ token[part[z].got] = "live"
          /\ store.refresh # part[z].got
          /\ \A w \in Parts : /\ part[w].with.refresh # part[z].got
                              /\ w # z => part[w].got # part[z].got
    BY DEF AccountInv, GotIsNew
  <2>2. CASE y = x
    <3>1. store.refresh # p /\ \A z \in Parts : part[z].with.refresh # p BY <1>4, <1>8, <1>9
    <3>2. \A z \in Parts \ {x} : part[z].got # p BY <1>4, <1>8, <2>1
    <3> QED BY <1>3, <1>5, <1>6, <1>11, <2>2, <3>1, <3>2
  <2>3. CASE y # x
    <3>1. part'[y] = part[y] /\ token[part[y].got] = "live" BY <1>6, <2>1, <2>3
    <3>2. token'[part[y].got] = "live" /\ part[y].got # p BY <1>4, <1>8, <1>12, <3>1 DEF Tokens
    <3> QED BY <1>3, <1>6, <1>11, <2>1, <2>3, <3>1, <3>2
  <2> QED BY <2>2, <2>3
<1>15. UsedIsGone'
  <2>1. \A s \in used : token'[s] \in {"exchanged", "revoked"}
    BY <1>12 DEF AccountInv, UsedIsGone, AccountTypeOK
  <2>2. ASSUME NEW y \in Parts, part'[y].at = "refresh",
               token'[part'[y].with.refresh] \in {"exchanged", "revoked"}
        PROVE  part'[y].met # "nobody"
    <3>1. part[y].at = "refresh" /\ part[y].at \in OutStates BY <1>11, <2>2 DEF OutStates
    <3>2. token[part[y].with.refresh] \in {"exchanged", "revoked"} BY <1>9, <1>11, <1>12, <2>2, <3>1
    <3> QED BY <1>11, <3>1, <3>2 DEF AccountInv, UsedIsGone
  <2> QED BY <1>3, <1>11, <2>1, <2>2 DEF AccountInv, UsedIsGone
<1>16. TakerIsOut' BY <1>3, <1>9, <1>11, <1>12 DEF AccountInv, TakerIsOut
<1>17. PurgedIsOld'
  <2>1. \A s \in Pairs : token'[s] = "purged" => token[s] = "purged" BY <1>5
  <2> QED BY <1>3, <1>11, <2>1 DEF AccountInv, PurgedIsOld
<1>18. UnknownOnlyToRival'
  <2> SUFFICES ASSUME NEW y \in Parts, part[y].why = "unknown"
               PROVE  part[y].met # "nobody" \/ token'[part[y].with.refresh] = "purged"
    BY <1>11 DEF UnknownOnlyToRival
  <2>1. part[y].at \in OutStates BY DEF AccountInv, TokensMade, OutStates
  <2> QED BY <1>9, <1>12, <2>1 DEF AccountInv, UnknownOnlyToRival
<1> QED BY <1>10, <1>13, <1>14, <1>15, <1>16, <1>17, <1>18 DEF AccountInv

LEMMA GrowKeeps ==
  ASSUME AccountInv, NEW p \in Pairs, GrowOld(p)
  PROVE  AccountInv'
<1>1. /\ UNCHANGED <<account, token, store, part, used>>
      /\ \/ age[p] = "fresh" /\ age' = [age EXCEPT ![p] = "stale"]
         \/ /\ age[p] = "stale" /\ \A x \in Parts : part[x] = Resting
            /\ age' = [age EXCEPT ![p] = "old"]
  BY DEF GrowOld
<1>2. AccountTypeOK' BY <1>1 DEF AccountInv, AccountTypeOK
<1>3. PurgedIsOld'
  <2>1. \A t \in Pairs : age[t] = "old" => age'[t] = "old" BY <1>1 DEF AccountInv, AccountTypeOK
  <2>2. ASSUME NEW x \in Parts, part[x].at = "read" PROVE age'[part[x].with.refresh] # "old"
    <3>1. part[x] # Resting
      <4>1. Resting.at = "rest" BY DEF Resting
      <4> QED BY <2>2, <4>1
    <3>2. part[x].with.refresh \in Pairs
      BY <2>2, AccountShapes DEF AccountInv, TokensMade, OutStates, Tokens
    <3>3. age[part[x].with.refresh] # "old" BY <2>2 DEF AccountInv, PurgedIsOld
    <3> QED BY <1>1, <3>1, <3>2, <3>3 DEF AccountInv, AccountTypeOK
  <2> QED BY <1>1, <2>1, <2>2 DEF AccountInv, PurgedIsOld
<1>4. TokensMade' /\ UsedIsGone' /\ UnknownOnlyToRival'
  BY <1>1 DEF AccountInv, TokensMade, UsedIsGone, UnknownOnlyToRival
<1>5. GotIsNew' BY <1>1 DEF AccountInv, GotIsNew
<1>6. TakerIsOut' BY <1>1 DEF AccountInv, TakerIsOut
<1> QED BY <1>2, <1>3, <1>4, <1>5, <1>6 DEF AccountInv

LEMMA ReadTokenKeeps ==
  ASSUME AccountInv, NEW x \in Parts, ReadToken(x)
  PROVE  AccountInv'
<1> DEFINE t == part[x].with.refresh
<1>1. part[x].at = "refresh" /\ UNCHANGED <<account, age, store, used>> BY DEF ReadToken
<1>2. CASE token[t] # "live"
  <2>1. part' = Refused(x, "unknown") /\ UNCHANGED token BY <1>2 DEF ReadToken
  <2>2. part[x].met # "nobody" \/ token[t] = "purged"
    <3>1. t \in Pairs /\ token[t] # "unmade"
      BY <1>1, AccountShapes DEF AccountInv, TokensMade, OutStates, Tokens
    <3>2. token[t] \in {"exchanged", "revoked", "purged"} BY <1>2, <3>1 DEF AccountInv, AccountTypeOK
    <3> QED BY <1>1, <3>2 DEF AccountInv, UsedIsGone
  <2> QED BY <1>1, <2>1, <2>2, RefusedKeeps
<1>3. CASE token[t] = "live" /\ age[t] = "old"
  <2>1. part' = Refused(x, "expired") /\ token' = [token EXCEPT ![t] = "purged"]
    BY <1>3 DEF ReadToken
  <2> QED BY <1>1, <1>3, <2>1, RefusedKeeps
<1>4. CASE token[t] = "live" /\ age[t] # "old" /\ account # "active"
  <2>1. part' = Refused(x, "inactive") /\ UNCHANGED token BY <1>4 DEF ReadToken
  <2> QED BY <1>1, <2>1, RefusedKeeps
<1>5. CASE token[t] = "live" /\ age[t] # "old" /\ account = "active"
  <2>1. part' = [part EXCEPT ![x].at = "read"] /\ UNCHANGED token BY <1>5 DEF ReadToken
  <2> QED BY <1>1, <1>5, <2>1, ReadKeeps
<1> QED BY <1>2, <1>3, <1>4, <1>5

LEMMA ExchangeKeepsInv ==
  ASSUME AccountInv, NEW x \in Parts, ExchangeToken(x)
  PROVE  AccountInv'
<1> DEFINE t == part[x].with.refresh
<1>1. part[x].at = "read" /\ UNCHANGED <<account, age, store>> /\ used' = used \cup {t}
  BY DEF ExchangeToken
<1>2. PICK p \in Unmade :
        /\ token' = [token EXCEPT ![p] = "live", ![t] = "exchanged"]
        /\ part' = [Meet(x, t) EXCEPT ![x] = [part[x] EXCEPT !.at = "answer", !.got = p]]
  BY DEF ExchangeToken
<1>3. t \in Pairs /\ token[t] # "unmade" /\ token[t] # "purged"
  <2>1. t \in Pairs /\ token[t] # "unmade"
    BY <1>1, AccountShapes DEF AccountInv, TokensMade, OutStates, Tokens
  <2>2. token[t] # "purged" BY <1>1, <2>1 DEF AccountInv, PurgedIsOld
  <2> QED BY <2>1, <2>2
<1>4. p \in Pairs /\ p # t /\ p \in Tokens BY <1>3 DEF Unmade, Tokens
<1>5. /\ token' \in [Pairs -> {"unmade", "live", "exchanged", "revoked", "purged"}]
      /\ token'[t] = "exchanged" /\ token'[p] = "live"
      /\ \A s \in Pairs \ {t, p} : token'[s] = token[s]
  BY <1>2, <1>3, <1>4 DEF AccountInv, AccountTypeOK
<1>6. Meet(x, t) \in [Parts -> PartRows] BY MeetShape
<1> DEFINE k == [part[x] EXCEPT !.at = "answer", !.got = p]
<1>7. /\ k \in PartRows /\ k.at = "answer" /\ k.got = p /\ k.with = part[x].with
      /\ k.why = part[x].why
  <2>1. part[x] \in PartRows BY AccountShapes DEF AccountInv
  <2> QED BY <1>4, <2>1 DEF PartRows
<1>8. part' = [Meet(x, t) EXCEPT ![x] = k] BY <1>2
<1> HIDE DEF k
<1>9. /\ part' \in [Parts -> PartRows] /\ part'[x] = k
      /\ \A y \in Parts \ {x} : part'[y] = Meet(x, t)[y]
  BY <1>6, <1>7, <1>8
<1> HIDE DEF t
<1>10. t = part[x].with.refresh BY DEF t
<1> QED BY <1>1, <1>3, <1>4, <1>5, <1>7, <1>9, <1>10, TakenKeeps

LEMMA LogoutKeepsInv ==
  ASSUME AccountInv, NEW x \in Parts, ServeLogout(x)
  PROVE  AccountInv'
<1> DEFINE t == part[x].with.refresh
           k == [part[x] EXCEPT !.at = "out"]
<1>1. part[x].at = "logout" /\ UNCHANGED <<account, age, store>> BY DEF ServeLogout
<1>2. t \in Pairs /\ NoToken \in Tokens /\ NoToken \notin Pairs
  BY <1>1, AccountShapes DEF AccountInv, TokensMade, OutStates, Tokens
<1>3. part[x].got = NoToken BY <1>1 DEF AccountInv, GotIsNew
<1>4. /\ k \in PartRows /\ k.at = "out" /\ k.got = NoToken /\ k.with = part[x].with
      /\ k.why = part[x].why /\ k.met = part[x].met
  <2>1. part[x] \in PartRows BY AccountShapes DEF AccountInv
  <2> QED BY <1>3, <2>1 DEF PartRows
<1>5. CASE Admitted(part[x].with.access) /\ token[t] = "live"
  <2>1. /\ token' = [token EXCEPT ![t] = "revoked"] /\ part' = [Meet(x, t) EXCEPT ![x] = k]
        /\ used' = used \cup {t}
    BY <1>5 DEF ServeLogout
  <2> HIDE DEF k
  <2>2. /\ token' \in [Pairs -> {"unmade", "live", "exchanged", "revoked", "purged"}]
        /\ token'[t] = "revoked" /\ \A s \in Pairs \ {t, NoToken} : token'[s] = token[s]
    BY <1>2, <2>1 DEF AccountInv, AccountTypeOK
  <2>3. /\ part' \in [Parts -> PartRows] /\ part'[x] = k
        /\ \A y \in Parts \ {x} : part'[y] = Meet(x, t)[y]
    BY <1>4, <2>1, MeetShape
  <2>4. token[t] # "purged" BY <1>5
  <2> HIDE DEF t
  <2>5. t = part[x].with.refresh BY DEF t
  <2> QED BY <1>1, <1>2, <1>4, <2>1, <2>2, <2>3, <2>4, <2>5, TakenKeeps
<1>6. CASE ~(Admitted(part[x].with.access) /\ token[t] = "live")
  <2>1. part' = [part EXCEPT ![x] = k] /\ UNCHANGED <<token, used>> BY <1>6 DEF ServeLogout
  <2> HIDE DEF k
  <2>2. /\ part' \in [Parts -> PartRows] /\ part'[x] = k
        /\ \A y \in Parts \ {x} : part'[y] = part[y]
    BY <1>4, <2>1, AccountShapes DEF AccountInv
  <2>3. \A y \in Parts : /\ part'[y].with = part[y].with /\ part'[y].got = part[y].got
                         /\ part'[y].met = part[y].met /\ part'[y].why = part[y].why
    BY <1>3, <1>4, <2>2
  <2>4. \A y \in Parts : /\ part'[y].at \in OutStates <=> part[y].at \in OutStates
                         /\ part'[y].at \notin {"out"} => part'[y].at = part[y].at
    BY <1>1, <1>4, <2>2 DEF OutStates
  <2>5. AccountTypeOK' BY <1>1, <2>1, <2>2 DEF AccountInv, AccountTypeOK, PartRows, Tokens
  <2>6. TokensMade'
    <3>1. part[x].why = "none" BY <1>1 DEF AccountInv, TokensMade
    <3>2. \A y \in Parts : part'[y].why # "none" => part'[y].at = "answer"
      BY <1>4, <2>2, <3>1 DEF AccountInv, TokensMade
    <3>3. \A y \in Parts : part'[y].at \in OutStates => part'[y].with.refresh # NoToken
      BY <2>3, <2>4 DEF AccountInv, TokensMade
    <3> QED BY <1>1, <2>1, <2>3, <3>2, <3>3 DEF AccountInv, TokensMade
  <2>7. GotIsNew'
    <3>1. \A y \in Parts : part'[y].got # NoToken => part'[y].at = part[y].at BY <1>3, <2>2, <2>3
    <3> QED BY <1>1, <2>1, <2>3, <3>1 DEF AccountInv, GotIsNew
  <2>8. UsedIsGone' BY <1>1, <2>1, <2>3, <2>4 DEF AccountInv, UsedIsGone
  <2>9. TakerIsOut' BY <1>1, <2>1, <2>3, <2>4 DEF AccountInv, TakerIsOut
  <2>10. PurgedIsOld' BY <1>1, <2>1, <2>3, <2>4 DEF AccountInv, PurgedIsOld
  <2>11. UnknownOnlyToRival' BY <2>1, <2>3 DEF AccountInv, UnknownOnlyToRival
  <2> QED BY <2>5, <2>6, <2>7, <2>8, <2>9, <2>10, <2>11 DEF AccountInv
<1> QED BY <1>5, <1>6

\* The browser's actions are those of BrowserKeeps.
LEMMA RestShape ==
  /\ Resting \in PartRows /\ Resting.at = "rest" /\ Resting.got = NoToken /\ Resting.why = "none"
  /\ Resting.with = Empty /\ Empty.refresh = NoToken /\ Empty \in [access : Tokens, refresh : Tokens]
  BY DEF Resting, Empty, PartRows, Tokens

LEMMA SendKeeps ==
  ASSUME AccountInv, NEW x \in Parts, part[x].at \in {"rest", "me"}, UNCHANGED store,
         UNCHANGED <<account, token, age, used>>,
         \/ Send(x, "me", AccessOnly) \/ Send(x, "me2", AccessOnly) \/ Send(x, "signIn", Empty)
         \/ /\ store.refresh # NoToken
            /\ \/ Send(x, "refresh", [Empty EXCEPT !.refresh = store.refresh])
               \/ Send(x, "logout", store)
  PROVE  AccountInv'
<1>1. /\ store \in [access : Tokens, refresh : Tokens]
      /\ AccessOnly \in [access : Tokens, refresh : Tokens] /\ AccessOnly.refresh = NoToken
      /\ [Empty EXCEPT !.refresh = store.refresh] \in [access : Tokens, refresh : Tokens]
      /\ [Empty EXCEPT !.refresh = store.refresh].refresh = store.refresh
      /\ part[x].at \notin OutStates
  <2>1. store \in [access : Tokens, refresh : Tokens] BY AccountShapes DEF AccountInv
  <2>2. NoToken \in Tokens BY DEF Tokens
  <2> QED BY <2>1, <2>2 DEF AccessOnly, Empty, OutStates
<1>2. CASE Send(x, "me", AccessOnly)
  <2>1. PICK w \in [access : Tokens, refresh : Tokens] : w = AccessOnly BY <1>1, RestShape
  <2>2. PICK k : k = Sent(x, "me", w) OBVIOUS
  <2>3. part' = [part EXCEPT ![x] = k] BY <1>2, <2>1, <2>2 DEF Send, Sent
  <2>4. /\ k \in PartRows /\ k.at = "me" /\ k.with = w /\ k.got = NoToken /\ k.why = "none"
        /\ \A y \in Parts \ {x} : part[y].at \in OutStates /\ part[y].with.refresh = w.refresh
                                    => k.met # "nobody"
    BY <2>2, SendShape
  <2> QED BY <1>1, <1>2, <2>1, <2>3, <2>4, RestShape, BrowserKeeps
<1>3. CASE Send(x, "me2", AccessOnly)
  <2>1. PICK w \in [access : Tokens, refresh : Tokens] : w = AccessOnly BY <1>1, RestShape
  <2>2. PICK k : k = Sent(x, "me2", w) OBVIOUS
  <2>3. part' = [part EXCEPT ![x] = k] BY <1>3, <2>1, <2>2 DEF Send, Sent
  <2>4. /\ k \in PartRows /\ k.at = "me2" /\ k.with = w /\ k.got = NoToken /\ k.why = "none"
        /\ \A y \in Parts \ {x} : part[y].at \in OutStates /\ part[y].with.refresh = w.refresh
                                    => k.met # "nobody"
    BY <2>2, SendShape
  <2> QED BY <1>1, <1>3, <2>1, <2>3, <2>4, RestShape, BrowserKeeps
<1>4. CASE Send(x, "signIn", Empty)
  <2>1. PICK w \in [access : Tokens, refresh : Tokens] : w = Empty BY <1>1, RestShape
  <2>2. PICK k : k = Sent(x, "signIn", w) OBVIOUS
  <2>3. part' = [part EXCEPT ![x] = k] BY <1>4, <2>1, <2>2 DEF Send, Sent
  <2>4. /\ k \in PartRows /\ k.at = "signIn" /\ k.with = w /\ k.got = NoToken /\ k.why = "none"
        /\ \A y \in Parts \ {x} : part[y].at \in OutStates /\ part[y].with.refresh = w.refresh
                                    => k.met # "nobody"
    BY <2>2, SendShape
  <2> QED BY <1>1, <1>4, <2>1, <2>3, <2>4, RestShape, BrowserKeeps
<1>5. CASE store.refresh # NoToken /\ Send(x, "refresh", [Empty EXCEPT !.refresh = store.refresh])
  <2>1. PICK w \in [access : Tokens, refresh : Tokens] : w = [Empty EXCEPT !.refresh = store.refresh] BY <1>1, RestShape
  <2>2. PICK k : k = Sent(x, "refresh", w) OBVIOUS
  <2>3. part' = [part EXCEPT ![x] = k] BY <1>5, <2>1, <2>2 DEF Send, Sent
  <2>4. /\ k \in PartRows /\ k.at = "refresh" /\ k.with = w /\ k.got = NoToken /\ k.why = "none"
        /\ \A y \in Parts \ {x} : part[y].at \in OutStates /\ part[y].with.refresh = w.refresh
                                    => k.met # "nobody"
    BY <2>2, SendShape
  <2>5. k.with.refresh = store.refresh BY <1>1, <2>1, <2>4
  <2>6. \A y \in Parts \ {x} : part[y].at \in OutStates /\ part[y].with.refresh = store.refresh
                              => k.met # "nobody"
    BY <2>4, <2>5
  <2>7. store.refresh # NoToken BY <1>5
  <2> QED BY <1>1, <2>3, <2>4, <2>5, <2>6, <2>7, BrowserKeeps
<1>6. CASE store.refresh # NoToken /\ Send(x, "logout", store)
  <2>1. PICK w \in [access : Tokens, refresh : Tokens] : w = store BY <1>1, RestShape
  <2>2. PICK k : k = Sent(x, "logout", w) OBVIOUS
  <2>3. part' = [part EXCEPT ![x] = k] BY <1>6, <2>1, <2>2 DEF Send, Sent
  <2>4. /\ k \in PartRows /\ k.at = "logout" /\ k.with = w /\ k.got = NoToken /\ k.why = "none"
        /\ \A y \in Parts \ {x} : part[y].at \in OutStates /\ part[y].with.refresh = w.refresh
                                    => k.met # "nobody"
    BY <2>2, SendShape
  <2> QED BY <1>1, <1>6, <2>1, <2>3, <2>4, RestShape, BrowserKeeps
<1> QED BY <1>2, <1>3, <1>4, <1>5, <1>6

LEMMA RestKeeps ==
  ASSUME AccountInv, NEW x \in Parts, Rest(x), UNCHANGED <<account, token, age, used>>,
         \/ UNCHANGED store /\ part[x].at \notin OutStates
         \/ store' = Empty
         \/ StoreTokens(part[x].got)
  PROVE  AccountInv'
<1>1. part' = [part EXCEPT ![x] = Resting] BY DEF Rest
<1>2. \/ UNCHANGED store /\ part[x].at \notin OutStates
      \/ store' = Empty
      \/ /\ part[x].got # NoToken
         /\ store' = [access |-> part[x].got, refresh |-> part[x].got]
  BY DEF StoreTokens, Empty
<1> QED BY <1>1, <1>2, RestShape, BrowserKeeps

LEMMA HandleRefreshKeeps ==
  ASSUME AccountInv, NEW x \in Parts, HandleRefresh(x)
  PROVE  AccountInv'
<1> DEFINE k == [Resting EXCEPT !.at = "me2", !.with.access = store'.access]
<1>1. /\ part[x].at = "answer" /\ UNCHANGED <<account, token, age, used>>
      /\ part' = [part EXCEPT ![x] = k]
  BY DEF HandleRefresh
<1>2. \/ store' = Empty
      \/ /\ part[x].got # NoToken
         /\ store' = [access |-> part[x].got, refresh |-> part[x].got]
  BY DEF HandleRefresh, StoreTokens, ClearTokens
<1>3. store'.access \in Tokens
  <2>1. part[x].got \in Tokens BY AccountShapes DEF AccountInv
  <2> QED BY <1>2, <2>1 DEF Empty, Tokens
<1>4. /\ k \in PartRows /\ k.at = "me2" /\ k.got = NoToken /\ k.why = "none"
      /\ k.with.refresh = NoToken
  BY <1>3 DEF Resting, Empty, PartRows, Tokens
<1> HIDE DEF k
<1> QED BY <1>1, <1>2, <1>4, BrowserKeeps

LEMMA AccountOnlyKeeps ==
  ASSUME AccountInv, account' \in {"absent", "active", "inactive"},
         UNCHANGED <<token, age, store, part, used>>
  PROVE  AccountInv'
<1>1. AccountTypeOK' BY DEF AccountInv, AccountTypeOK
<1>2. TokensMade' /\ UsedIsGone' /\ UnknownOnlyToRival'
  BY DEF AccountInv, TokensMade, UsedIsGone, UnknownOnlyToRival
<1>3. GotIsNew' BY DEF AccountInv, GotIsNew
<1>4. TakerIsOut' BY DEF AccountInv, TakerIsOut
<1>5. PurgedIsOld' BY DEF AccountInv, PurgedIsOld
<1> QED BY <1>1, <1>2, <1>3, <1>4, <1>5 DEF AccountInv

LEMMA AccountInvStep == AccountInv /\ [AccountNext]_accountVars => AccountInv'
<1> SUFFICES ASSUME AccountInv, [AccountNext]_accountVars PROVE AccountInv'
  OBVIOUS
<1>1. CASE Deactivate
  BY <1>1, AccountOnlyKeeps DEF Deactivate
<1>2. CASE \E p \in Pairs : GrowOld(p) BY <1>2, GrowKeeps
<1>3. ASSUME NEW x \in Parts, ReadToken(x) \/ ExchangeToken(x) \/ ServeSignIn(x) \/ ServeLogout(x)
      PROVE  AccountInv'
  BY <1>3, ReadTokenKeeps, ExchangeKeepsInv, SignInKeeps, LogoutKeepsInv
<1>4. ASSUME NEW x \in Parts, LoadUser(x) \/ SignIn(x) PROVE AccountInv'
  BY <1>4, SendKeeps DEF LoadUser, SignIn
<1>5. ASSUME NEW x \in Parts, AnswerMe(x) PROVE AccountInv'
  <2>1. part[x].at = "me" /\ part[x].at \notin OutStates /\ UNCHANGED <<account, token, age, store, used>>
    BY <1>5 DEF AnswerMe, OutStates
  <2>2. CASE Rest(x) BY <2>1, <2>2, RestKeeps
  <2>3. CASE \/ store.refresh # NoToken /\ Send(x, "refresh", [Empty EXCEPT !.refresh = store.refresh])
             \/ Send(x, "me2", AccessOnly)
    BY <2>1, <2>3, SendKeeps
  <2> QED BY <1>5, <2>2, <2>3 DEF AnswerMe
<1>6. ASSUME NEW x \in Parts, HandleRefresh(x) PROVE AccountInv' BY <1>6, HandleRefreshKeeps
<1>7. ASSUME NEW x \in Parts, AnswerMe2(x) PROVE AccountInv'
  <2>1. part[x].at \notin OutStates BY <1>7 DEF AnswerMe2, OutStates
  <2> QED BY <1>7, <2>1, RestKeeps DEF AnswerMe2, ClearTokens
<1>8. ASSUME NEW x \in Parts, HandleSignIn(x) PROVE AccountInv'
  <2>1. part[x].at \notin OutStates BY <1>8 DEF HandleSignIn, OutStates
  <2> QED BY <1>8, <2>1, RestKeeps DEF HandleSignIn
<1>9. ASSUME NEW x \in Parts, Logout(x) PROVE AccountInv'
  <2>1. part[x].at = "rest" /\ UNCHANGED <<account, token, age, used>> BY <1>9 DEF Logout
  <2>2. CASE store.refresh = NoToken
    <3>1. store' = Empty /\ UNCHANGED part BY <1>9, <2>2 DEF Logout, ClearTokens
    <3>2. Empty.refresh = NoToken /\ Empty \in [access : Tokens, refresh : Tokens] BY RestShape
    <3>3. AccountTypeOK' BY <2>1, <3>1, <3>2 DEF AccountInv, AccountTypeOK, Tokens
    <3>4. TokensMade' /\ GotIsNew' /\ TakerIsOut'
      <4>1. TokensMade' BY <2>1, <3>1, <3>2 DEF AccountInv, TokensMade
      <4>2. GotIsNew' BY <2>1, <3>1, <3>2 DEF AccountInv, GotIsNew
      <4>3. TakerIsOut' BY <3>1, <3>2 DEF TakerIsOut
      <4> QED BY <4>1, <4>2, <4>3
    <3>5. UsedIsGone' /\ PurgedIsOld' /\ UnknownOnlyToRival'
      BY <2>1, <3>1 DEF AccountInv, UsedIsGone, PurgedIsOld, UnknownOnlyToRival
    <3> QED BY <3>3, <3>4, <3>5 DEF AccountInv
  <2>3. CASE store.refresh # NoToken
    <3>1. Send(x, "logout", store) /\ UNCHANGED store BY <1>9, <2>3 DEF Logout
    <3> QED BY <2>1, <2>3, <3>1, SendKeeps
  <2> QED BY <2>2, <2>3
<1>10. ASSUME NEW x \in Parts, HandleLogout(x) PROVE AccountInv'
  BY <1>10, RestKeeps DEF HandleLogout, ClearTokens
<1>11. ASSUME NEW x \in Parts, LoseRefresh(x) PROVE AccountInv'
  <2>1. /\ part[x].at \in {"refresh", "read", "answer"} /\ part' = Refused(x, "lost")
        /\ UNCHANGED <<account, token, age, store, used>>
    BY <1>11 DEF LoseRefresh, RefreshOut
  <2> QED BY <2>1, RefusedKeeps
<1>12. CASE UNCHANGED accountVars
  BY <1>12, AccountOnlyKeeps DEF accountVars, AccountInv, AccountTypeOK
<1> QED BY <1>1, <1>2, <1>3, <1>4, <1>5, <1>6, <1>7, <1>8, <1>9, <1>10, <1>11, <1>12 DEF AccountNext

LEMMA AccountInvAlways == AccountSpec => []AccountInv
<1>1. AccountInit => AccountInv
  <2> SUFFICES ASSUME AccountInit PROVE AccountInv
    OBVIOUS
  <2>1. /\ \A x \in Parts : part[x] = Resting /\ part[x].with.refresh = NoToken
      /\ store.refresh = NoToken
    BY RestShape DEF AccountInit
  <2>2. \A x \in Parts : /\ part[x].at = "rest" /\ part[x].got = NoToken /\ part[x].why = "none"
    BY <2>1, RestShape
  <2>3. AccountTypeOK
    <3>1. part \in [Parts -> PartRows] BY RestShape DEF AccountInit
    <3> QED BY <3>1, RestShape DEF AccountInit, AccountTypeOK, PartRows, Tokens
  <2>4. TokensMade BY <2>1, <2>2 DEF TokensMade, OutStates
  <2>5. GotIsNew BY <2>2 DEF GotIsNew
  <2>6. UsedIsGone BY <2>2 DEF AccountInit, UsedIsGone
  <2>7. TakerIsOut BY <2>1 DEF TakerIsOut
  <2>8. PurgedIsOld BY <2>2 DEF AccountInit, PurgedIsOld
  <2>9. UnknownOnlyToRival BY <2>2 DEF UnknownOnlyToRival
  <2> QED BY <2>3, <2>4, <2>5, <2>6, <2>7, <2>8, <2>9 DEF AccountInv
<1> QED BY <1>1, AccountInvStep, PTL DEF AccountSpec

\* Tokens, the store and the parts' requests are of their types.
THEOREM AccountTypes == AccountSpec => []AccountTypeOK
<1>1. AccountInv => AccountTypeOK BY DEF AccountInv
<1> QED BY <1>1, AccountInvAlways, PTL

(***************************************************************************)
(* A refresh whose token is good for its age is refused as unknown only    *)
(* beside another request with the same token (authStore.ts, services/auth *)
(* refresh).                                                               *)
(***************************************************************************)
THEOREM SessionLostToRival == AccountSpec => []UnknownOnlyToRival
<1>1. AccountInv => UnknownOnlyToRival BY DEF AccountInv
<1> QED BY <1>1, AccountInvAlways, PTL

(***************************************************************************)
(* A token that was exchanged or revoked yields another pair only to a     *)
(* refresh that had read its row before (services/auth, refresh_tokens).   *)
(***************************************************************************)
THEOREM RotationHolds == AccountSpec => ReuseOnlyAfterRead
<1>1. AccountInv /\ [AccountNext]_accountVars =>
        [\A x \in Parts :
           part[x].at = "read" /\ part'[x].got # NoToken /\ part[x].with.refresh \in used
             => part[x].met = "read"]_<<part, used>>
  BY DEF AccountInv, UsedIsGone
<1> QED BY <1>1, AccountInvAlways, PTL DEF AccountSpec, ReuseOnlyAfterRead
=============================================================================
