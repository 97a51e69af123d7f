----------------------------- MODULE Accounts ------------------------------
(***************************************************************************)
(* One user's sessions: the auth service (routes/auth.py, shared           *)
(* auth_middleware.py) and the browser's auth store (auth-store.ts), whose *)
(* tokens lie in localStorage.                                             *)
(*                                                                         *)
(* The parts of the web application that use the store run at once: the    *)
(* dashboard's page and its layout both call loadUser when they are        *)
(* mounted, and another tab has the same localStorage.  A refresh reads    *)
(* its token's row without a lock; deleting a row that is gone already     *)
(* changes nothing.                                                        *)
(*                                                                         *)
(* Simplifications.  A pair of tokens is a number, in the order they are   *)
(* made. Passwords are right, Google vouches for the user.  A request that *)
(* was lost on its way has been committed or rolled back by then.          *)
(* forgot-password changes nothing, and what the page shows of the user    *)
(* follows the tokens: both are left out.                                  *)
(***************************************************************************)
EXTENDS Naturals, FiniteSets

CONSTANTS
  Parts,     \* parts of the web application that use the store
  MaxPairs   \* bound: pairs of tokens that can be made

VARIABLES
  account,   \* the row of users
  token,     \* what became of each pair's refresh token
  age,       \* "fresh", then "stale" (access expired), then "old" (refresh too)
  store,     \* localStorage
  part,      \* what each part waits for
  used       \* history: the refresh tokens that were revoked or yielded a pair

accountVars == <<account, token, age, store, part, used>>

Pairs == 1..MaxPairs
NoToken == 0

ASSUME AccountAssumption == MaxPairs \in Nat

Empty == [access |-> NoToken, refresh |-> NoToken]
Resting == [at |-> "rest", with |-> Empty, got |-> NoToken, why |-> "none",
             met |-> "nobody"]

\* A refresh that is out: on its way, past its SELECT, or answered.
RefreshOut(x) == part[x].at \in {"refresh", "read", "answer"}

AccountTypeOK ==
  /\ account \in {"absent", "active", "inactive"}
  /\ token \in [Pairs -> {"unmade", "live", "exchanged", "revoked", "purged"}]
  /\ age \in [Pairs -> {"fresh", "stale", "old"}]
  /\ store \in [access : Pairs \cup {NoToken}, refresh : Pairs \cup {NoToken}]
  /\ used \subseteq Pairs
  /\ part \in [Parts ->
       [at : {"rest", "me", "me2", "refresh", "read", "answer", "signIn", "signed", "logout",
              "out"},
        with : [access : Pairs \cup {NoToken}, refresh : Pairs \cup {NoToken}],
        got : Pairs \cup {NoToken}, why : {"none", "unknown", "expired", "inactive", "lost"},
        met : {"nobody", "at once", "on the way", "read"}]]

AccountInit ==
  /\ account = "absent" /\ token = [p \in Pairs |-> "unmade"]
  /\ age = [p \in Pairs |-> "fresh"] /\ store = Empty /\ used = {}
  /\ part = [x \in Parts |-> Resting]

-----------------------------------------------------------------------------
(* The service.                                                            *)

\* get_current_user.
Admitted(access) == access # NoToken /\ age[access] = "fresh" /\ account = "active"

\* The others whose refresh carries t learn nothing of it, but the model does.
Meet(x, t) == [y \in Parts |->
  IF y # x /\ part[y].with.refresh = t /\ part[y].at \in {"refresh", "read"}
  THEN [part[y] EXCEPT !.met = IF part[y].at = "read" THEN "read" ELSE "on the way"]
  ELSE part[y]]

Refused(x, why) ==
  [part EXCEPT ![x].at = "answer", ![x].got = NoToken, ![x].why = why]

\* refresh_tokens up to its answer, or to the row and the user it goes on with.
ReadToken(x) ==
  LET t == part[x].with.refresh IN
    /\ part[x].at = "refresh"
    /\ CASE token[t] # "live" -> part' = Refused(x, "unknown") /\ UNCHANGED token
         [] token[t] = "live" /\ age[t] = "old" ->
              /\ part' = Refused(x, "expired")
              /\ token' = [token EXCEPT ![t] = "purged"]
         [] token[t] = "live" /\ age[t] # "old" /\ account # "active" ->
              part' = Refused(x, "inactive") /\ UNCHANGED token
         [] OTHER -> part' = [part EXCEPT ![x].at = "read"] /\ UNCHANGED token
    /\ UNCHANGED <<account, age, store, used>>

\* The next pair (or none, at the bound).
Unmade == {p \in Pairs : token[p] = "unmade" /\ \A q \in 1..p - 1 : token[q] # "unmade"}

\* Mutant: the old token is not deleted.
ExchangeKeeps(x) ==
  /\ part[x].at = "read"
  /\ \E p \in Unmade :
       /\ token' = [token EXCEPT ![p] = "live"]
       /\ part' = [Meet(x, part[x].with.refresh) EXCEPT ![x] =
                     [part[x] EXCEPT !.at = "answer", !.got = p]]
  /\ used' = used \cup {part[x].with.refresh}
  /\ UNCHANGED <<account, age, store>>

\* Delete old, create new, commit.
ExchangeToken(x) ==
  /\ part[x].at = "read"
  /\ \E p \in Unmade :
       /\ token' = [token EXCEPT ![p] = "live", ![part[x].with.refresh] = "exchanged"]
       /\ part' = [Meet(x, part[x].with.refresh) EXCEPT ![x] =
                     [part[x] EXCEPT !.at = "answer", !.got = p]]
  /\ used' = used \cup {part[x].with.refresh}
  /\ UNCHANGED <<account, age, store>>

\* register (409 if the account exists), login, and google_login (which takes an
\* inactive account too).
ServeSignIn(x) ==
  /\ part[x].at = "signIn"
  /\ account' \in CASE account = "absent" -> {"active"}     \* register, google_login
                   [] account = "active" -> {"active"}     \* login, google_login
                   [] account = "inactive" -> {"inactive"} \* google_login
  /\ \E p \in Unmade :
       /\ token' = [token EXCEPT ![p] = "live"]
       /\ part' = [part EXCEPT ![x].at = "signed", ![x].got = p]
  /\ UNCHANGED <<age, store, used>>

\* logout needs an access token that is still good.
ServeLogout(x) ==
  LET t == part[x].with.refresh IN
    /\ part[x].at = "logout"
    /\ IF Admitted(part[x].with.access) /\ token[t] = "live"
       THEN /\ token' = [token EXCEPT ![t] = "revoked"]
            /\ part' = [Meet(x, t) EXCEPT ![x] = [part[x] EXCEPT !.at = "out"]]
            /\ used' = used \cup {t}
       ELSE part' = [part EXCEPT ![x].at = "out"] /\ UNCHANGED <<token, used>>
    /\ UNCHANGED <<account, age, store>>

-----------------------------------------------------------------------------
(* The browser.                                                            *)

\* Mutant: a refresh token that is there stays.
StoreAccessOnly(p) ==
  store' = [access |-> p, refresh |-> IF store.refresh = NoToken THEN p ELSE store.refresh]

StoreTokens(p) == store' = [access |-> p, refresh |-> p]

ClearTokens == store' = Empty

\* A request leaves with tokens of this moment; met says who is out with its own.
Send(x, at, with) ==
  part' = [part EXCEPT ![x] = [Resting EXCEPT !.at = at, !.with = with,
    !.met = IF \E y \in Parts \ {x} : /\ RefreshOut(y) \/ part[y].at \in {"logout", "out"}
                                      /\ part[y].with.refresh = with.refresh
            THEN "at once" ELSE "nobody"]]

AccessOnly == [Empty EXCEPT !.access = store.access]

Rest(x) == part' = [part EXCEPT ![x] = Resting]

LoadUser(x) ==
  /\ part[x].at = "rest" /\ store.access # NoToken
  /\ Send(x, "me", AccessOnly)
  /\ UNCHANGED <<account, token, age, store, used>>

\* The first getMe: on any failure refreshTokens, without a refresh token the
\* second getMe at once.
AnswerMe(x) ==
  /\ part[x].at = "me"
  /\ \/ Admitted(part[x].with.access) /\ Rest(x)
     \/ store.refresh # NoToken /\ Send(x, "refresh", [Empty EXCEPT !.refresh = store.refresh])
     \/ store.refresh = NoToken /\ Send(x, "me2", AccessOnly)
  /\ UNCHANGED <<account, token, age, store, used>>

\* refreshTokens' answer: whatever went wrong, the tokens are dropped.
HandleRefresh(x) ==
  /\ part[x].at = "answer"
  /\ IF part[x].got # NoToken THEN StoreTokens(part[x].got)
     ELSE ClearTokens
  /\ part' = [part EXCEPT ![x] = [Resting EXCEPT !.at = "me2", !.with.access = store'.access]]
  /\ UNCHANGED <<account, token, age, used>>

AnswerMe2(x) ==
  /\ part[x].at = "me2"
  /\ \/ Admitted(part[x].with.access) /\ UNCHANGED store
     \/ ClearTokens
  /\ Rest(x)
  /\ UNCHANGED <<account, token, age, used>>

SignIn(x) ==
  /\ part[x].at = "rest"
  /\ Send(x, "signIn", Empty)
  /\ UNCHANGED <<account, token, age, store, used>>

\* A failed sign-in leaves everything as it is.
HandleSignIn(x) ==
  /\ \/ part[x].at = "signed" /\ StoreTokens(part[x].got)
     \/ part[x].at \in {"signIn", "signed"} /\ UNCHANGED store
  /\ Rest(x)
  /\ UNCHANGED <<account, token, age, used>>

Logout(x) ==
  /\ part[x].at = "rest"
  /\ IF store.refresh = NoToken THEN ClearTokens /\ UNCHANGED part
     ELSE Send(x, "logout", store) /\ UNCHANGED store
  /\ UNCHANGED <<account, token, age, used>>

\* "Logout should succeed even if revocation fails".
HandleLogout(x) ==
  /\ part[x].at \in {"logout", "out"}
  /\ ClearTokens /\ Rest(x)
  /\ UNCHANGED <<account, token, age, used>>

-----------------------------------------------------------------------------
(* The environment.                                                        *)

\* A refresh's request or answer is lost, or the service fails.
LoseRefresh(x) ==
  /\ RefreshOut(x)
  /\ part' = Refused(x, "lost")
  /\ UNCHANGED <<account, token, age, store, used>>

\* A pair nobody holds need not age, and no request is out for a month.
GrowOld(p) ==
  /\ \/ age[p] = "fresh" /\ age' = [age EXCEPT ![p] = "stale"]
     \/ /\ age[p] = "stale" /\ \A x \in Parts : part[x] = Resting
        /\ age' = [age EXCEPT ![p] = "old"]
  /\ \/ p = store.refresh
     \/ \E x \in Parts : p \in {part[x].got, part[x].with.access, part[x].with.refresh}
  /\ UNCHANGED <<account, token, store, part, used>>

Deactivate ==
  /\ account = "active" /\ account' = "inactive"
  /\ UNCHANGED <<token, age, store, part, used>>

AccountNext ==
  \/ Deactivate
  \/ \E p \in Pairs : GrowOld(p)
  \/ \E x \in Parts :
       \/ ReadToken(x) \/ ExchangeToken(x) \/ ServeSignIn(x) \/ ServeLogout(x)
       \/ LoadUser(x) \/ AnswerMe(x) \/ HandleRefresh(x) \/ AnswerMe2(x)
       \/ HandleSignIn(x) \/ Logout(x) \/ HandleLogout(x) \/ LoseRefresh(x) \/ SignIn(x)

AccountSpec == AccountInit /\ [][AccountNext]_accountVars

-----------------------------------------------------------------------------
(* Properties.                                                             *)

(***************************************************************************)
(* The service tells the browser that it does not know a refresh token     *)
(* that is good for its age only when another part's refresh or logout was *)
(* out with the same token: one at a time, the parts never lose the        *)
(* session.  (Two at once do: the second is refused, and clears what the   *)
(* first has stored.)                                                      *)
(***************************************************************************)
UnknownOnlyToRival ==
  \A x \in Parts : part[x].why = "unknown" =>
    part[x].met # "nobody" \/ token[part[x].with.refresh] = "purged"

(***************************************************************************)
(* "Implements token rotation": a refresh token that was exchanged or      *)
(* revoked yields another pair only to a refresh that had read its row     *)
(* before.                                                                 *)
(***************************************************************************)
ReuseOnlyAfterRead ==
  [][\A x \in Parts :
       part[x].at = "read" /\ part'[x].got # NoToken /\ part[x].with.refresh \in used
         => part[x].met = "read"]_<<part, used>>
=============================================================================
