---------------------------- MODULE KycSessions ----------------------------
(***************************************************************************)
(* Identity verification: the sessions that instances of the auth service  *)
(* keep in memory (routes/kyc.py), and the panel of the IDE (page.tsx),    *)
(* which makes a session and simulates the scan of its code.               *)
(*                                                                         *)
(* The panel invents an id, shows it at once, and takes the service's id   *)
(* when it comes.  A simulation goes on, after a delay, with the id that   *)
(* was shown when it was asked for, and then marks whatever session is     *)
(* shown.                                                                  *)
(*                                                                         *)
(* Simplifications.  A proof (audit_hash) is where it comes from; name,    *)
(* country and scores are left out.  The table kyc_verifications is        *)
(* written by nobody, expires_at is read by nobody, and nothing in the     *)
(* panel polls.                                                            *)
(***************************************************************************)
EXTENDS FiniteSets

CONSTANTS
  KycInstances,
  KycIds,       \* session ids, whoever makes them
  Clicks        \* slots for the panel's requests in flight

VARIABLES
  cache,        \* _SESSIONS_CACHE of each instance
  panel,        \* kycSessionId, kycStatus and where kycAuditHash comes from
  click,        \* what became of each click
  crossed,      \* history: clicks overlapped since a session was asked for
  forgotten     \* history: an instance restarted

kycVars == <<cache, panel, click, crossed, forgotten>>

NoId == "no session"
NoClick == [at |-> "idle"]
KycStatuses == {"pending_scan", "verified"}

ASSUME KycAssumption == NoId \notin KycIds

KycTypeOK ==
  /\ cache \in [KycInstances -> [KycIds -> KycStatuses \cup {"absent"}]]
  /\ panel \in [id : KycIds \cup {NoId}, status : KycStatuses \cup {"idle", "scanned"},
                proof : {"none", "service", "made up"}]
  /\ click \in [Clicks -> {NoClick} \cup
       [at : {"create", "created", "simulate", "simulated"}, id : KycIds]]
  /\ crossed \in BOOLEAN /\ forgotten \in BOOLEAN

KycInit ==
  /\ cache = [i \in KycInstances |-> [s \in KycIds |-> "absent"]]
  /\ panel = [id |-> NoId, status |-> "idle", proof |-> "none"]
  /\ click = [c \in Clicks |-> NoClick] /\ crossed = FALSE /\ forgotten = FALSE

Out(kinds) == {c \in Clicks : click[c].at \in kinds}

\* An id that nobody has used yet.
NewId(s) ==
  /\ s # panel.id /\ \A i \in KycInstances : cache[i][s] = "absent"
  /\ \A c \in Clicks : click[c] # NoClick => click[c].id # s

-----------------------------------------------------------------------------
(* The panel.                                                              *)

\* handleCreateKycSession up to its fetch.
ClickCreate(c, local) ==
  /\ click[c] = NoClick /\ NewId(local)
  /\ panel' = [id |-> local, status |-> "pending_scan", proof |-> "none"]
  /\ click' = [click EXCEPT ![c] = [at |-> "create", id |-> local]]
  /\ crossed' = (Out({"simulate", "simulated"}) # {})
  /\ UNCHANGED <<cache, forgotten>>

\* Its answer.  A failure is an "offline fallback": the local id stays.
CreateAnswered(c) ==
  /\ click[c].at \in {"create", "created"}
  /\ \/ click[c].at = "created" /\ panel' = [panel EXCEPT !.id = click[c].id]
     \/ UNCHANGED panel
  /\ click' = [click EXCEPT ![c] = NoClick]
  /\ UNCHANGED <<cache, crossed, forgotten>>

\* handleSimulateKyc: the button is disabled for a verified session.
ClickSimulate(c) ==
  /\ click[c] = NoClick /\ panel.id # NoId /\ panel.status # "verified"
  /\ panel' = [panel EXCEPT !.status = "scanned"]
  /\ click' = [click EXCEPT ![c] = [at |-> "simulate", id |-> panel.id]]
  /\ crossed' = (crossed \/ Out({"create", "created"}) # {})
  /\ UNCHANGED <<cache, forgotten>>

\* Mutant: a failure is taken for an answer.
SimulateAnsweredAnyhow(c) ==
  /\ click[c].at \in {"simulate", "simulated"}
  /\ panel' = [panel EXCEPT !.status = "verified", !.proof = "service"]
  /\ click' = [click EXCEPT ![c] = NoClick]
  /\ UNCHANGED <<cache, crossed, forgotten>>

\* Its answer, or a failure, for which a proof is made up.
SimulateAnswered(c) ==
  /\ click[c].at \in {"simulate", "simulated"}
  /\ \/ /\ click[c].at = "simulated"
        /\ panel' = [panel EXCEPT !.status = "verified", !.proof = "service"]
     \/ panel' = [panel EXCEPT !.status = "verified", !.proof = "made up"]
  /\ click' = [click EXCEPT ![c] = NoClick]
  /\ UNCHANGED <<cache, crossed, forgotten>>

-----------------------------------------------------------------------------
(* The service.                                                            *)

\* create_kyc_session: an id of its own.
ServeCreate(i, c, s) ==
  /\ click[c].at = "create" /\ NewId(s)
  /\ cache' = [cache EXCEPT ![i][s] = "pending_scan"]
  /\ click' = [click EXCEPT ![c] = [at |-> "created", id |-> s]]
  /\ UNCHANGED <<panel, crossed, forgotten>>

\* simulate_kyc_flow: any id will do.
ServeSimulate(i, c) ==
  /\ click[c].at = "simulate"
  /\ cache' = [cache EXCEPT ![i][click[c].id] = "verified"]
  /\ click' = [click EXCEPT ![c].at = "simulated"]
  /\ UNCHANGED <<panel, crossed, forgotten>>

\* submit_mobile_kyc, with the id on the panel: the panel does not learn of it.
MobileVerify(i) ==
  /\ panel.id # NoId
  /\ cache' = [cache EXCEPT ![i][panel.id] = "verified"]
  /\ UNCHANGED <<panel, click, crossed, forgotten>>

\* get_kyc_session_status, from what this instance remembers.
Polled(i, s) == IF cache[i][s] = "absent" THEN "pending_scan" ELSE cache[i][s]

RestartKyc(i) ==
  /\ cache' = [cache EXCEPT ![i] = [s \in KycIds |-> "absent"]]
  /\ forgotten' = TRUE
  /\ UNCHANGED <<panel, click, crossed>>

KycNext ==
  \/ \E c \in Clicks :
       \/ CreateAnswered(c) \/ ClickSimulate(c) \/ SimulateAnswered(c)
       \/ \E s \in KycIds : ClickCreate(c, s)
       \/ \E i \in KycInstances : ServeSimulate(i, c) \/ \E s \in KycIds : ServeCreate(i, c, s)
  \/ \E i \in KycInstances : MobileVerify(i) \/ RestartKyc(i)

KycSpec == KycInit /\ [][KycNext]_kycVars

-----------------------------------------------------------------------------
(* Properties.                                                             *)

(***************************************************************************)
(* A session that the panel shows as verified with the service's proof is  *)
(* one that some instance reports verified, as long as none has restarted  *)
(* and the clicks did not overlap: a simulation asked for while the id was *)
(* still to come, or answered after another session was asked for, marks   *)
(* the wrong one.                                                          *)
(***************************************************************************)
VerifiedAtService ==
  panel.status = "verified" /\ panel.proof = "service" /\ ~crossed /\ ~forgotten
    => \E i \in KycInstances : Polled(i, panel.id) = "verified"
=============================================================================
