------------------------------ MODULE Session ------------------------------
(***************************************************************************)
(* The login session of the dashboard.  The tabs of a browser share one    *)
(* record in localStorage.  A call to the accounts service takes the token *)
(* that is stored when it is sent and changes whatever is stored when it   *)
(* is answered.  The pages are left out: some tab may send any call at any *)
(* time (a button disabled in one tab is enabled in another), and a page   *)
(* that is left behind is a call whose answer is lost.                     *)
(***************************************************************************)
EXTENDS Naturals

CONSTANTS
  Users,   \* accounts
  Tokens,  \* the JWTs the service can issue: a bound on the sign-ins
  Owner,   \* Owner[k]: the account token k is issued to
  Hooks,   \* mounted components that call useAuth
  Slots,   \* 1 .. Slots: calls in flight at once: a bound of the model
  None

ASSUME NamesOK ==
  /\ Owner \in [Tokens -> Users]
  /\ None \notin Users \union Tokens \union Hooks
  /\ Slots \in Nat

VARIABLES
  keyed,   \* server: the accounts with an API key
  token,   \* server: token[k] is unissued, live or dead (expired, disabled)
  store,   \* browser: localStorage's qcaas.session
  hook,    \* hook[h]: the token useAuth has checked; did a check go unanswered
  call     \* call[c]: a request, who sent it and with what, its answer

vars == <<keyed, token, store, hook, call>>

Calls == 1 .. Slots

NoSession == [token |-> None, user |-> None, hasKey |-> FALSE]
NoAnswer  == [status |-> "none", token |-> None, key |-> FALSE]
Idle      == [kind |-> "none", from |-> None, token |-> None, at |-> "idle",
              answer |-> NoAnswer]
FreshHook == [checked |-> None, kept |-> FALSE]

Init ==
  /\ keyed = {}
  /\ token = [k \in Tokens |-> "unissued"]
  /\ store = NoSession
  /\ hook  = [h \in Hooks |-> FreshHook]
  /\ call  = [c \in Calls |-> Idle]

-----------------------------------------------------------------------------
(* localStorage: store.ts *)

SetSession(k, u, h) == store' = [token |-> k, user |-> u, hasKey |-> h]
ClearSession == store' = NoSession

PatchAlways(u, h) == store' = [store EXCEPT !.user = u, !.hasKey = h]

PatchSession(u, h) ==
  store' = IF store = NoSession THEN store
           ELSE [store EXCEPT !.user = u, !.hasKey = h]

-----------------------------------------------------------------------------
(* Sending: the calls of lib/auth/client.ts and lib/api/client.ts *)

Request(kind, h, k) ==
  [Idle EXCEPT !.kind = kind, !.from = h, !.token = k, !.at = "sent"]

Send(c, kind, h, k) ==
  /\ call[c].at = "idle"
  /\ \A d \in Calls : d < c => call[d].at # "idle"
  /\ call' = [call EXCEPT ![c] = Request(kind, h, k)]

\* Password sign-in or registration: no token is sent with it.
SubmitLogin(c) ==
  /\ Send(c, "login", None, None)
  /\ UNCHANGED <<keyed, token, store, hook>>

Issue(k) == token[k] = "unissued" /\ token' = [token EXCEPT ![k] = "live"]

\* The provider has sent the browser back to /auth/callback with a token in the
\* fragment; the page asks /me with that token.
Callback(c) ==
  /\ \E k \in Tokens : Issue(k) /\ Send(c, "callback", None, k)
  /\ UNCHANGED <<keyed, store, hook>>

SaveProfile(c) ==
  /\ store # NoSession
  /\ Send(c, "rename", None, store.token)
  /\ UNCHANGED <<keyed, token, store, hook>>

\* The API key card shows one of its two buttons, by has_api_key.
UseKeyCard(c) ==
  /\ store # NoSession
  /\ Send(c, IF store.hasKey THEN "read" ELSE "provision", None, store.token)
  /\ UNCHANGED <<keyed, token, store, hook>>

\* A /v2 call: through the proxy with the token if the session has a key, else
\* straight to the API with the pasted key and no token.
ModeToken == IF store # NoSession /\ store.hasKey THEN store.token ELSE None

CallApi(c) ==
  /\ Send(c, "read", None, ModeToken)
  /\ UNCHANGED <<keyed, token, store, hook>>

\* useAuth validates the stored session once per token and mounted component.
Refresh(h, c) ==
  /\ store # NoSession
  /\ hook[h].checked # store.token
  /\ Send(c, "me", h, store.token)
  /\ hook' = [hook EXCEPT ![h] = [checked |-> store.token, kept |-> FALSE]]
  /\ UNCHANGED <<keyed, token, store>>

-----------------------------------------------------------------------------
(* The service *)

Sent(c, kinds) == call[c].at = "sent" /\ call[c].kind \in kinds

Answers(c, s, k, h) ==
  call' = [call EXCEPT ![c].at = "answered",
                       ![c].answer = [status |-> s, token |-> k, key |-> h]]
Says(c, s) == Answers(c, s, None, FALSE)

\* requireAuth; a direct /v2 call carries no token.
Accepts(c) == call[c].token # None => token[call[c].token] = "live"

ServeLogin(c) ==
  /\ Sent(c, {"login"})
  /\ \/ \E k \in Tokens : Issue(k) /\ Answers(c, "ok", k, Owner[k] \in keyed)
     \/ Says(c, "401") /\ UNCHANGED token     \* wrong password
  /\ UNCHANGED <<keyed, store, hook>>

\* A token that expired or whose account is disabled is refused; and the proxy
\* passes on the 401 of an API that refuses the key behind the call.
Rejects(c) ==
  /\ Sent(c, {"callback", "me", "rename", "provision", "read"})
  /\ call[c].kind = "read" \/ ~Accepts(c)
  /\ Says(c, "401")
  /\ UNCHANGED <<keyed, token, store, hook>>

ServeMe(c) ==
  /\ Sent(c, {"me", "callback"}) /\ Accepts(c)
  /\ Answers(c, "ok", None, Owner[call[c].token] \in keyed)
  /\ UNCHANGED <<keyed, token, store, hook>>

ServeRename(c) ==
  /\ Sent(c, {"rename"}) /\ Accepts(c)
  /\ Says(c, "ok")
  /\ UNCHANGED <<keyed, token, store, hook>>

Provision(c) ==
  /\ Sent(c, {"provision"}) /\ Accepts(c)
  /\ keyed' = keyed \union {Owner[call[c].token]}
  /\ Says(c, "ok")
  /\ UNCHANGED <<token, store, hook>>

\* A token expires, or an admin disables its account.
Expire(k) ==
  /\ token[k] = "live"
  /\ token' = [token EXCEPT ![k] = "dead"]
  /\ UNCHANGED <<keyed, store, hook, call>>

Serve(c) == ServeLogin(c) \/ Rejects(c) \/ ServeMe(c) \/ ServeRename(c) \/ Provision(c)

-----------------------------------------------------------------------------
(* Answers *)

Gets(c, kind, s) ==
  /\ call[c].at = "answered" /\ call[c].kind = kind /\ call[c].answer.status = s

Becomes(c, r) == call' = [call EXCEPT ![c] = r]

LoginDone(c) ==
  /\ Gets(c, "login", "ok")
  /\ LET a == call[c].answer IN SetSession(a.token, Owner[a.token], a.key)
  /\ Becomes(c, Idle) /\ UNCHANGED <<keyed, token, hook>>

\* completeOAuth: the session is stored only once /me has answered.
CallbackDone(c) ==
  /\ Gets(c, "callback", "ok")
  /\ SetSession(call[c].token, Owner[call[c].token], call[c].answer.key)
  /\ Becomes(c, Idle) /\ UNCHANGED <<keyed, token, hook>>

MeStoresCall(c) ==
  /\ Gets(c, "me", "ok")
  /\ SetSession(call[c].token, Owner[call[c].token], call[c].answer.key)
  /\ Becomes(c, Idle) /\ UNCHANGED <<keyed, token, hook>>

MeDone(c) ==
  /\ Gets(c, "me", "ok")
  /\ PatchSession(Owner[call[c].token], call[c].answer.key)
  /\ Becomes(c, Idle) /\ UNCHANGED <<keyed, token, hook>>

\* PATCH /me answers {user, has_api_key}; updateMe stores all of it as the
\* session's user, which then has no id, email or role.
RenameDone(c) ==
  /\ Gets(c, "rename", "ok")
  /\ PatchSession(None, store.hasKey)
  /\ Becomes(c, Idle) /\ UNCHANGED <<keyed, token, hook>>

ProvisionDoneAnyway(c) ==
  /\ Gets(c, "provision", "ok") \/ Gets(c, "provision", "401")
  /\ PatchSession(store.user, TRUE)
  /\ Becomes(c, Idle)
  /\ UNCHANGED <<keyed, token, hook>>

\* The key is there: the card patches the session and calls refresh(), which
\* asks /me with the token stored now.
ProvisionDone(c) ==
  /\ Gets(c, "provision", "ok")
  /\ PatchSession(store.user, TRUE)
  /\ Becomes(c, IF store = NoSession THEN Idle ELSE Request("me", None, store.token))
  /\ UNCHANGED <<keyed, token, hook>>

\* Served and read in one step: this answer changes nothing here.
ReadDone(c) ==
  /\ Sent(c, {"read"}) /\ Accepts(c)
  /\ Becomes(c, Idle) /\ UNCHANGED <<keyed, token, store, hook>>

LogsOutAlways(c) == TRUE
LogsOutProxied(c) == call[c].kind = "read" /\ call[c].token # None

\* A 401 to a call that carried a token logs out whoever is logged in by now.
LogsOut(c) == call[c].token # None

Refused(c) ==
  /\ call[c].at = "answered" /\ call[c].answer.status = "401"
  /\ IF LogsOut(c) THEN ClearSession ELSE UNCHANGED store
  /\ Becomes(c, Idle) /\ UNCHANGED <<keyed, token, hook>>

\* Any other failure, of the network or a status, or a page left behind, before
\* or after the service did its work.  The session and its cached user stay.
Failed(c) ==
  /\ call[c].at # "idle"
  /\ hook' = [h \in Hooks |-> [hook[h] EXCEPT !.kept = @ \/ call[c].from = h]]
  /\ Becomes(c, Idle) /\ UNCHANGED <<keyed, token, store>>

Deliver(c) == \/ LoginDone(c) \/ CallbackDone(c) \/ MeDone(c) \/ RenameDone(c)
              \/ ProvisionDone(c) \/ ReadDone(c) \/ Refused(c)

-----------------------------------------------------------------------------
Logout ==
  /\ store # NoSession /\ ClearSession
  /\ UNCHANGED <<keyed, token, hook, call>>

\* A page with a component that uses useAuth is mounted in place of another.
Mount(h) ==
  /\ hook[h] # FreshHook
  /\ hook' = [hook EXCEPT ![h] = FreshHook]
  /\ UNCHANGED <<keyed, token, store, call>>

Next ==
  \/ \E c \in Calls :
       \/ SubmitLogin(c) \/ Callback(c) \/ SaveProfile(c) \/ UseKeyCard(c)
       \/ CallApi(c) \/ Serve(c) \/ Failed(c) \/ Deliver(c)
       \/ \E h \in Hooks : Refresh(h, c)
  \/ \E k \in Tokens : Expire(k)
  \/ \E h \in Hooks : Mount(h)
  \/ Logout

Spec == Init /\ [][Next]_vars

\* Every call is answered or fails, its answer is read, and React runs the
\* effects of a mounted page.  SF because the slots for calls are the model's.
Fairness ==
  /\ \A c \in Calls : WF_vars(Serve(c)) /\ WF_vars(Deliver(c))
  /\ \A h \in Hooks : SF_vars(\E c \in Calls : Refresh(h, c))

FairSpec == Spec /\ Fairness

-----------------------------------------------------------------------------
(* Properties *)

\* Every variable has its type; a session always has a token.
TypeOK ==
  /\ keyed \subseteq Users
  /\ token \in [Tokens -> {"unissued", "live", "dead"}]
  /\ store \in [token: Tokens, user: Users \union {None}, hasKey: BOOLEAN]
               \union {NoSession}
  /\ hook \in [Hooks -> [checked: Tokens \union {None}, kept: BOOLEAN]]
  /\ call \in [Calls ->
       [kind: {"none", "login", "callback", "me", "rename", "provision", "read"},
        from: Hooks \union {None}, token: Tokens \union {None},
        at: {"idle", "sent", "answered"},
        answer: [status: {"none", "ok", "401"}, token: Tokens \union {None},
                 key: BOOLEAN]]]

\* A stored session disappears only by Log out or by a 401 to a call that
\* carried a token.  A refused password never touches it, nor does a pasted API
\* key that the API refuses; a single sign-on whose /me is refused does, since
\* that call carries its token.
LogoutNeedsToken ==
  [][store # NoSession /\ store' = NoSession
       => \/ call' = call
          \/ \E c \in Calls : call[c].answer.status = "401" /\ call[c].token # None]_vars

\* The session says that there is an API key, which sends every /v2 call
\* through the proxy, only if an account that signed in here has one: a failed
\* provisioning, or a /me answered before it, never sets the flag.
KeyFlagHonest ==
  store.hasKey => \E k \in Tokens : token[k] # "unissued" /\ Owner[k] \in keyed

\* A stored session whose token has died is dropped by the next page that uses
\* useAuth, unless its check of the session fails without a verdict.
StaleSessionDropped ==
  \A k \in Tokens, h \in Hooks :
    (store.token = k /\ token[k] = "dead" /\ hook[h].checked # k)
      ~> (store.token # k \/ hook[h].kept)

-----------------------------------------------------------------------------
(* The refinement of Login *)

\* Call c brings token k to the browser.
Brings(c, k) == \/ Gets(c, "login", "ok") /\ call[c].answer.token = k
                \/ call[c].at # "idle" /\ call[c].kind = "callback" /\ call[c].token = k

Place == [k \in Tokens |-> IF token[k] = "unissued" THEN "unissued"
                          ELSE IF store.token = k THEN "stored"
                          ELSE IF \E c \in Calls : Brings(c, k) THEN "coming" ELSE "spent"]

SignIns == INSTANCE Login WITH place <- Place

\* Whatever the tabs send and in whatever order it is answered, a token is
\* stored once, by its own sign-in: no late answer of /me or of a saved form
\* brings back a session that was logged out, replaced or refused.
ImplementsLogin == SignIns!LSpec

-----------------------------------------------------------------------------
(* What the README says and the code does not do *)

\* web/README.md: "the header shows the user email + Log out when signed in".
HeaderShowsEmail == store # NoSession => store.user # None
=============================================================================
