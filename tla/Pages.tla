------------------------------- MODULE Pages -------------------------------
(***************************************************************************)
(* The pages of the dashboard in one tab: the route guard, the sign-in     *)
(* routes, the keyed queries, the lists, the admin table, the forms and    *)
(* the settings tests.  One view is mounted at a time; leaving it drops    *)
(* its local state and aborts its queries.  The cards of the dashboard and *)
(* the sections of the admin page share no state, so each is a view of its *)
(* own; the header's probe of the credential is followed on the home page. *)
(* What other tabs, refused calls and /me do to the session is module      *)
(* Session's matter: here it changes at any time.                          *)
(***************************************************************************)
EXTENDS Integers, Sequences, Forms

CONSTANTS
  Users,         \* accounts
  Role,          \* Role[u]: "customer" or "admin"
  Sessions,      \* the sessions that may be stored: [user, id, hasKey] records
  Keys,          \* the API keys that may be pasted on the settings page
  Kinds,         \* the kinds of a job list; AllKinds is no filter
  AllKinds,
  Total,         \* Total[a][k]: the jobs of kind k that a is shown
  PageSizes,     \* the page sizes of the job list, of which
  DefaultLimit,  \*   this one is chosen first, and the admin page's only one
  EnteredSet,    \* what may be entered in the number fields of a form
  WhileLate,     \* bound: the views opened while a sign-in is in flight
  MaxRetry,      \* bound: retries of one query
  MaxTests,      \* bound: runs of the settings tests in flight
  None

\* What the id of a user reads that is not a proper one.
Undefined == "undefined"

\* user is the account that the token is of, id what the stored user says.
NoSession == [user |-> None, id |-> Undefined, hasKey |-> FALSE]

ASSUME PagesAssumption ==
  /\ Role \in [Users -> {"customer", "admin"}]
  /\ None \notin Users \union Keys \union {"dashboard", "admin", "sso_error", Undefined}
  /\ Undefined \notin Users \union Keys /\ Users \intersect Keys = {}
  /\ NoSession \in Sessions
  /\ Sessions \subseteq [user: Users, id: Users \union {Undefined}, hasKey: BOOLEAN]
                       \union {NoSession}
  /\ AllKinds \in Kinds
  /\ Total \in [Users \union Keys \union {"admin"} -> [Kinds -> Nat]]
  /\ PageSizes \subseteq Nat \ {0} /\ DefaultLimit \in PageSizes
  /\ EnteredSet \subseteq Limits
  /\ MaxRetry \in Nat /\ MaxTests \in Nat

AdminSections == {"stats", "users", "adminjobs", "audit"}
FormViews     == {"quote", "optimize", "interpret"}
Views == {"home", "login", "callback", "settings", "usage", "jobs", "job", "away"}
           \union AdminSections \union FormViews

VARIABLES
  session,  \* qcaas.session of localStorage, as the page last rendered it
  pasted,   \* qcaas.apiKey of this tab's sessionStorage
  view,     \* what is mounted; "away" is the sign-in provider's site
  search,   \* the login page's query: a next route, "sso_error" or None
  saved,    \* qcaas.postLogin of this tab's sessionStorage
  late,     \* a sign-in whose continuation will still navigate
  query,    \* useApiQuery: nonce, the request in flight, the snapshot
  list,     \* filter, page size and offset of a job list
  table,    \* UsersTable: the dialog's pending change, the PATCH in flight
  form,     \* values, busy and error flags, requests in flight
  tests     \* the settings tests

vars == <<session, pasted, view, search, saved, late, query, list, table, form, tests>>

-----------------------------------------------------------------------------
(* Routes and guards *)

Route(v) == IF v \in AdminSections THEN "admin" ELSE IF v = "usage" THEN "dashboard" ELSE v

Guarded == Route(view) \in {"dashboard", "admin"}

\* RequireAuth renders its children for a user, of the right role (else a 403).
\* The role is of the stored user, who need not be the token's and may have none.
Mounted ==
  /\ Guarded => session.user # None
  /\ Route(view) = "admin" /\ session.user # None
       => session.id \in Users /\ Role[session.id] = "admin"

Home(u) == IF Role[u] = "admin" THEN "admin" ELSE "dashboard"

\* next, if the login page was given one, else by role.
postAuthPath(u, next) == IF next \in {"dashboard", "admin"} THEN next ELSE Home(u)

-----------------------------------------------------------------------------
(* Keyed queries *)

\* Who a /v2 call is sent as: the session with a key, else the pasted key.
Sender == IF session.hasKey THEN session.user ELSE pasted

\* What the keys call that: `session:${session.user.id}`, else the pasted key.
Credential == IF session.hasKey THEN session.id ELSE pasted

JobsKeyNoCredential ==
  IF Credential = None THEN <<>> ELSE <<"jobs", list.kind, list.limit, list.offset>>

JobsKey == IF Credential = None THEN <<>>
           ELSE <<"jobs", Credential, list.kind, list.limit, list.offset>>
DetailKey == IF Credential = None THEN <<>> ELSE <<"job", Credential>>
UsageKey  == IF session.hasKey THEN <<"dash", session.id>> ELSE <<>>
StatsKey  == <<"admin-stats">>
UsersKey  == <<"admin-users">>
AdminJobsKey == <<"admin-jobs", list.kind, list.offset>>
AuditKey  == <<"admin-audit">>
ProbeKey  == IF Credential = None THEN <<>> ELSE <<"probe", Credential>>

\* The key of the mounted query, <<>> when there is none or it is disabled.
QueryKey ==
  CASE ~Mounted           -> <<>>
    [] view = "jobs"      -> JobsKey
    [] view = "job"       -> DetailKey
    [] view = "usage"     -> UsageKey
    [] view = "stats"     -> StatsKey
    [] view = "users"     -> UsersKey
    [] view = "adminjobs" -> AdminJobsKey
    [] view = "audit"     -> AuditKey
    [] view = "home"      -> ProbeKey
    [] OTHER              -> <<>>

\* What the fetcher asks for, by whom and, to the page, as whom: every
\* administrator gets the same answers.
Asked == [view |-> view, list |-> list,
          by |-> IF view \in AdminSections THEN "admin" ELSE Sender,
          as |-> IF view \in AdminSections THEN "admin" ELSE Credential]

FullKey == <<QueryKey, query.nonce>>
Current == query.snap.key = FullKey
Loading == QueryKey # <<>> /\ ~Current
HasData == query.snap.ok

NoSnap == [key |-> <<>>, ask |-> <<>>, ok |-> FALSE]
FreshQuery == [nonce |-> 0, sent |-> {}, snap |-> NoSnap]

\* The answer of an aborted request is dropped: the request is as good as gone.
AbortNothing(requests) == requests
Abort(requests) == {}

Start(n) == IF QueryKey' = <<>> THEN {}
            ELSE {[key |-> <<QueryKey', n>>, ask |-> Asked']}

\* Rendering with another full key runs the effect again.
Rekey(n) ==
  query' = IF QueryKey' = QueryKey /\ n = query.nonce THEN query
           ELSE [query EXCEPT !.nonce = n, !.sent = Abort(@) \union Start(n)]

-----------------------------------------------------------------------------
(* Mounting *)

FreshList  == [kind |-> AllKinds, limit |-> DefaultLimit, offset |-> 0]
FreshTable == [pending |-> <<>>, busy |-> FALSE, sent |-> <<>>]
\* The interpret page starts with a JSON format and has no number fields.
FreshValues(v) ==
  IF v = "interpret" THEN [DEFAULT_FORM_VALUES EXCEPT !.format = "json"]
  ELSE DEFAULT_FORM_VALUES
FreshForm(v, w) == [values |-> FreshValues(v), file |-> <<>>, loading |-> FALSE,
                    error |-> w = "sso_error", result |-> FALSE, sent |-> <<>>]
FreshTests == [health |-> "idle", jobs |-> "idle", inHealth |-> 0, inJobs |-> 0]

Remount(w) ==
  /\ list' = FreshList /\ table' = FreshTable /\ form' = FreshForm(view', w)
  /\ tests' = FreshTests
  /\ query' = [FreshQuery EXCEPT !.sent = Start(0)]

Init ==
  /\ session = NoSession /\ pasted = None /\ saved = None /\ late = None
  /\ view = "home" /\ search = None
  /\ list = FreshList /\ table = FreshTable /\ form = FreshForm(view, None)
  /\ tests = FreshTests /\ query = FreshQuery

Mount(v, w) == view' = v /\ search' = w /\ Remount(w)

MountRoute(r) == \E v \in Views : Route(v) = r /\ Mount(v, None)

\* A link of the header or of a page, or an address typed.
Go(v) ==
  /\ v \in Views \ {"callback", "away", view}
  /\ late # None => v \in WhileLate
  /\ UNCHANGED <<session, pasted, saved, late>>
  /\ Mount(v, None)

RedirectAdmin ==
  /\ Route(view) = "admin" /\ session.user = None
  /\ UNCHANGED <<session, pasted, saved, late>>
  /\ Mount("login", Route(view))

Redirect ==
  /\ Guarded /\ session.user = None
  /\ UNCHANGED <<session, pasted, saved, late>>
  /\ Mount("login", Route(view))

\* The stored session changes: the page renders again, behind its guard.
SessionBecomes(s) ==
  /\ s # session /\ session' = s
  /\ UNCHANGED <<pasted, view, search, saved, late>>
  /\ IF Mounted' = Mounted
       THEN UNCHANGED <<list, table, form, tests>> /\ Rekey(query.nonce)
       ELSE Remount(None)

Logout ==
  /\ session # NoSession /\ session' = NoSession
  /\ UNCHANGED <<pasted, saved, late>>
  /\ Mount("home", None)

-----------------------------------------------------------------------------
(* Sign-in: AuthForm, the callback page, and the provider in between *)

\* The continuation of an AuthForm that is left goes on, so one at a time is a
\* bound of the model.
SubmitLogin ==
  /\ view = "login" /\ ~form.loading
  /\ \/ late = None /\ late' = "login"
        /\ form' = [form EXCEPT !.loading = TRUE, !.error = FALSE]
     \/ UNCHANGED late /\ form' = [form EXCEPT !.error = TRUE]  \* short password
  /\ UNCHANGED <<session, pasted, view, search, saved, query, list, table, tests>>

\* A sign-in stores the user that its token is of.
Fresh(s) == s # NoSession /\ s.id = s.user

\* router.replace, wherever the tab is by now.
LoginOk(s) ==
  /\ late = "login" /\ Fresh(s)
  /\ session' = s /\ late' = None
  /\ UNCHANGED <<pasted, saved>>
  /\ MountRoute(postAuthPath(s.user, search))

LoginFailed ==
  /\ late = "login" /\ late' = None
  /\ form' = IF view = "login" /\ form.loading
                THEN [form EXCEPT !.loading = FALSE, !.error = TRUE] ELSE form
  /\ UNCHANGED <<session, pasted, view, search, saved, query, list, table, tests>>

StartSSOKeeps ==
  /\ view = "login"
  /\ saved' = IF search = None THEN saved ELSE search
  /\ late' = None
  /\ UNCHANGED <<session, pasted>>
  /\ Mount("away", None)

\* The link to the provider saves next, but of ?sso_error= only that there is none.
\* Leaving the site kills every continuation.
StartSSO ==
  /\ view = "login"
  /\ saved' = CASE search = None        -> saved
               [] search = "sso_error" -> None
               [] OTHER                -> search
  /\ late' = None
  /\ UNCHANGED <<session, pasted>>
  /\ Mount("away", None)

\* The accounts service redirects here with a token, or to /login?sso_error=.
SsoReturns ==
  /\ view = "away"
  /\ \/ late' = "callback" /\ Mount("callback", None)
     \/ UNCHANGED late /\ Mount("login", "sso_error")
  /\ UNCHANGED <<session, pasted, saved>>

CallbackOk(s) ==
  /\ late = "callback" /\ Fresh(s)
  /\ session' = s /\ late' = None /\ saved' = None
  /\ UNCHANGED pasted
  /\ MountRoute(postAuthPath(s.user, saved))

CallbackStays ==
  /\ late = "callback" /\ late' = None
  /\ UNCHANGED <<session, pasted, view, search, saved, query, list, table, form, tests>>

CallbackFailed ==
  /\ late = "callback" /\ late' = "giveUp"
  /\ UNCHANGED <<session, pasted, view, search, saved, query, list, table, form, tests>>

\* 1.2 s later.
GiveUp ==
  /\ late = "giveUp" /\ late' = None
  /\ UNCHANGED <<session, pasted, saved>>
  /\ Mount("login", "sso_error")

-----------------------------------------------------------------------------
(* Queries and lists *)

Answer(r, ok) ==
  /\ r \in query.sent
  /\ query' = [query EXCEPT !.sent = @ \ {r},
                            !.snap = [key |-> r.key, ask |-> r.ask, ok |-> ok]]
  /\ UNCHANGED <<session, pasted, view, search, saved, late, list, table, form, tests>>

\* The banner of a query's error has a button; the probe has no banner.
Retry ==
  /\ QueryKey # <<>> /\ Current /\ ~query.snap.ok
  /\ view # "home" /\ query.nonce < MaxRetry
  /\ UNCHANGED <<session, pasted, view, search, saved, late, list, table, form, tests>>
  /\ Rekey(query.nonce + 1)

ListBecomes(l) ==
  /\ view \in {"jobs", "adminjobs"} /\ QueryKey # <<>>
  /\ l # list /\ list' = l
  /\ UNCHANGED <<session, pasted, view, search, saved, late, table, form, tests>>
  /\ Rekey(query.nonce)

SetKindOnly(k) == ListBecomes([list EXCEPT !.kind = k])
SetKind(k) == ListBecomes([list EXCEPT !.kind = k, !.offset = 0])

\* The admin page has one page size.
SetLimit(n) == view = "jobs" /\ ListBecomes([list EXCEPT !.limit = n, !.offset = 0])

\* Both pager buttons need the rows they page through, and none in flight.
PrevPage ==
  /\ HasData /\ ~Loading /\ list.offset # 0
  /\ ListBecomes([list EXCEPT !.offset = IF @ < list.limit THEN 0 ELSE @ - list.limit])

NextPage ==
  /\ HasData /\ ~Loading
  /\ LET a == query.snap.ask IN list.offset + list.limit < Total[a.by][a.list.kind]
  /\ ListBecomes([list EXCEPT !.offset = @ + list.limit])

-----------------------------------------------------------------------------
(* The users table of the admin page and its confirm dialog *)

TableStep(t) ==
  /\ view = "users" /\ Mounted /\ HasData
  /\ table' = t
  /\ UNCHANGED <<session, pasted, view, search, saved, late, query, list, form, tests>>

\* The buttons of the administrator's own row are disabled.
AskPatch(u, field) ==
  /\ u # session.id /\ ~table.busy
  /\ TableStep([table EXCEPT !.pending = <<u, field>>])

CancelAlways == TableStep([table EXCEPT !.pending = <<>>])
Cancel ==
  /\ table.pending # <<>> /\ ~table.busy
  /\ TableStep([table EXCEPT !.pending = <<>>])

Confirm ==
  /\ table.pending # <<>> /\ ~table.busy
  /\ TableStep([table EXCEPT !.busy = TRUE, !.sent = Append(@, table.pending)])

\* A failed PATCH leaves the dialog open.
Patched(ok) ==
  /\ table.sent # <<>>
  /\ TableStep([pending |-> IF ok THEN <<>> ELSE table.pending,
                busy |-> FALSE, sent |-> Tail(table.sent)])

-----------------------------------------------------------------------------
(* The quote, optimize and interpret pages *)

FormStep(f) ==
  /\ view \in FormViews
  /\ form' = f
  /\ UNCHANGED <<session, pasted, view, search, saved, late, query, list, table, tests>>

Edit(v) ==
  /\ v # form.values /\ (view = "interpret" => v.limits = NoLimits)
  /\ FormStep([form EXCEPT !.values = v])

Reset ==
  /\ view # "interpret" /\ ~form.loading
  /\ FormStep([form EXCEPT !.values = DEFAULT_FORM_VALUES])

\* The circuit form reads a file with the values of the render it was chosen in.
ChooseFile ==
  /\ view # "interpret" /\ form.file = <<>>
  /\ FormStep([form EXCEPT !.file = <<form.values.limits>>])

FileRead(v) ==
  /\ form.file # <<>>
  /\ v.limits = form.file[1]
  /\ FormStep([form EXCEPT !.values = v, !.file = <<>>])

SubmitsKeepError(v, body) ==
  /\ view = v
  /\ ~form.loading \/ form.error
  /\ FormStep([form EXCEPT !.loading = TRUE, !.sent = Append(@, body)])

Submits(v, body) ==
  /\ view = v
  /\ ~form.loading \/ form.error      \* the submit button, the banner's Retry
  /\ FormStep(IF Throws(form.values)
                THEN [form EXCEPT !.error = TRUE]
                ELSE [form EXCEPT !.error = FALSE, !.loading = TRUE,
                                  !.sent = Append(@, body)])

SubmitQuote     == Submits("quote", BuildQuoteRequest(form.values))
SubmitOptimize  == Submits("optimize", BuildOptimizeRequest(form.values))
SubmitInterpret == Submits("interpret", BuildInterpretRequest(form.values))

FormAnsweredThen(ok) ==
  /\ form.sent # <<>>
  /\ FormStep([form EXCEPT !.loading = ~ok, !.error = ~ok, !.sent = Tail(@),
                           !.result = @ \/ ok])

\* A failure keeps the result shown before it.
FormAnswered(ok) ==
  /\ form.sent # <<>>
  /\ FormStep([form EXCEPT !.loading = FALSE, !.error = ~ok, !.sent = Tail(@),
                           !.result = @ \/ ok])

-----------------------------------------------------------------------------
(* The settings page *)

\* sessionStorage of this tab: a blank key is removed.
SetCredentials(k) == pasted' = k
ClearCredentials  == pasted' = None

TestsStep(t) ==
  /\ tests' = t
  /\ UNCHANGED <<session, view, search, saved, late, query, list, table, form>>

\* Saving stores the key and tests the connection, runs still in flight or not.
Save(k) ==
  /\ view = "settings" /\ tests.inHealth + tests.inJobs < MaxTests
  /\ SetCredentials(k)
  /\ TestsStep([tests EXCEPT !.health = "running", !.jobs = "running", !.inHealth = @ + 1])

Clear ==
  /\ view = "settings" /\ ClearCredentials
  /\ TestsStep([tests EXCEPT !.health = "idle", !.jobs = "idle"])

Verdict(ok) == IF ok THEN "ok" ELSE "failed"

HealthAnswersOnce(ok) ==
  /\ tests.inHealth > 0 /\ UNCHANGED pasted
  /\ TestsStep([tests EXCEPT !.health = Verdict(ok), !.inHealth = @ - 1,
                             !.inJobs = IF ok THEN @ + 1 ELSE @])

\* The jobs test follows the health test, whatever its verdict.
HealthAnswers(ok) ==
  /\ tests.inHealth > 0 /\ UNCHANGED pasted
  /\ TestsStep([tests EXCEPT !.health = Verdict(ok), !.inHealth = @ - 1, !.inJobs = @ + 1])

JobsAnswers(ok) ==
  /\ tests.inJobs > 0 /\ UNCHANGED pasted
  /\ TestsStep([tests EXCEPT !.jobs = Verdict(ok), !.inJobs = @ - 1])

-----------------------------------------------------------------------------
SignIn == \/ SubmitLogin \/ LoginFailed \/ StartSSO \/ SsoReturns \/ CallbackFailed \/ GiveUp
          \/ \E s \in Sessions : LoginOk(s) \/ CallbackOk(s)

Answers == \E r \in query.sent, ok \in BOOLEAN : Answer(r, ok)

Listing == \/ Retry \/ PrevPage \/ NextPage
           \/ \E k \in Kinds : SetKind(k)
           \/ \E n \in PageSizes : SetLimit(n)

Table == \/ Cancel \/ Confirm
         \/ \E u \in Users, field \in {"role", "active"} : AskPatch(u, field)

Patches == \E ok \in BOOLEAN : Patched(ok)

FormValues == {[format |-> f, source |-> s, limits |-> EnteredLimits(l)] :
                 f \in Formats, s \in Sources, l \in EnteredSet}

Form == \/ Reset \/ ChooseFile \/ SubmitQuote \/ SubmitOptimize \/ SubmitInterpret
        \/ \E v \in FormValues : Edit(v) \/ FileRead(v)

FormAnswers == \E ok \in BOOLEAN : FormAnswered(ok)

Settings == Clear \/ \E k \in Keys \union {None} : Save(k)
Health == \E ok \in BOOLEAN : HealthAnswers(ok)
JobsTest == \E ok \in BOOLEAN : JobsAnswers(ok)

Next ==
  \/ \E v \in Views : Go(v)
  \/ \E s \in Sessions : SessionBecomes(s)
  \/ Redirect \/ Logout \/ SignIn \/ Answers \/ Listing \/ Table \/ Patches
  \/ Form \/ FormAnswers \/ Settings \/ Health \/ JobsTest

Spec == Init /\ [][Next]_vars

\* React runs effects, timers fire, and every request is answered or fails.
Fairness ==
  /\ WF_vars(Redirect) /\ WF_vars(GiveUp)
  /\ WF_vars(LoginFailed \/ \E s \in Sessions : LoginOk(s))
  /\ WF_vars(CallbackFailed \/ \E s \in Sessions : CallbackOk(s))
  /\ WF_vars(Answers) /\ WF_vars(Patches) /\ WF_vars(FormAnswers)
  /\ WF_vars(Health) /\ WF_vars(JobsTest)

FairSpec == Spec /\ Fairness

-----------------------------------------------------------------------------
(* Properties *)

Body == [format: Formats, payload: Sources, limits: Limits]
Check == {"idle", "running", "ok", "failed"}

\* Every variable has its type.
TypeOK ==
  /\ session \in Sessions
  /\ pasted \in Keys \union {None}
  /\ view \in Views
  /\ search \in {None, "dashboard", "admin", "sso_error"}
  /\ saved \in {None, "dashboard", "admin"}
  /\ late \in {None, "login", "callback", "giveUp"}
  /\ query.nonce \in 0 .. MaxRetry
  /\ list \in [kind: Kinds, limit: PageSizes, offset: Nat]
  /\ table.busy \in BOOLEAN
  /\ form.values \in Values
  /\ \A i \in DOMAIN form.sent : form.sent[i] \in Body
  /\ tests \in [health: Check, jobs: Check, inHealth: Nat, inJobs: Nat]

\* Asked as who it was by.  Not so with a session whose stored user a saved name
\* has replaced by one without id, or a late /me by another account's.
Own(a) == a.by = a.as

\* Rows that are shown without a spinner answer the question the page asks now:
\* this filter, this page, this credential.  No answer that comes late, to a
\* question of another account or of another page, is shown as current.  Whose
\* they are is only as sure as the id in the keys: of two sessions that have the
\* same id or none, the rows of one are shown as current to the other.
CurrentIsAsked ==
  QueryKey # <<>> /\ ~Loading /\ HasData =>
    LET a == query.snap.ask
    IN  /\ a.view = view /\ a.list = list
        /\ Own(a) /\ Own(Asked) => a = Asked

\* The account, or pasted key, whose jobs a list pages through: the page's own,
\* except where CurrentIsAsked leaves that open.
Paged == LET a == query.snap.ask IN IF Own(a) /\ Own(Asked) THEN Asked.by ELSE a.by

\* No click on a filter, a page size or the pager leaves a list between two
\* pages, or takes it past the last page of what this credential is shown, also
\* when the answer it goes by is to an earlier filter or of another account.
PageInRange ==
  [][list' # list
       => /\ list'.offset % list'.limit = 0
          /\ \/ list'.offset = 0 \/ list'.offset < list.offset
             \/ list'.offset < Total[Paged][list'.kind]]_vars

\* A mounted form has at most one request in flight: the submit button and the
\* banner's Retry never send a second, billed one beside it.
OneSubmission == Len(form.sent) <= 1

\* Whatever integers are entered in the number fields, restored by a file that is read
\* late or reset, the numbers of a request are in the ranges of the schema.
SentInRange == \A i \in DOMAIN form.sent : LimitsAccepted(form.sent[i].limits)

\* The change in flight to an account is the one the dialog shows, until it is
\* answered: it cannot be cancelled, replaced or sent twice meanwhile.
ConfirmedOnly == table.sent # <<>> => table.busy /\ table.sent = <<table.pending>>

\* A query does not load for ever, unless its question changes for ever: the
\* answer to an earlier question never takes the place of the awaited one.
QuerySettles == (Loading ~> ~Loading) \/ []<><<FullKey' # FullKey>>_vars

\* A busy form or dialog is usable again, or is left.
BusySettles == (form.loading ~> ~form.loading) /\ (table.busy ~> ~table.busy)

\* The settings tests come to a verdict, whichever of their calls fails and
\* however their runs overlap.
TestsSettle == /\ tests.health = "running" ~> tests.health # "running"
               /\ tests.jobs = "running" ~> tests.jobs # "running"

\* Nobody is left on the spinner of a guarded page without a session, nor on
\* the page that completes a sign-in.
GuardSettles == (Guarded /\ session.user = None) ~> (~Guarded \/ session.user # None)
CallbackSettles == view = "callback" ~> view # "callback"
=============================================================================
