# A formal model of QCaaS

TLA+ modules that model QCaaS as it is written, TLC configurations that check
them on small instances, and proofs, checked by TLAPS, of the properties that
hold. Paths are relative to the repository. Every definition that models code
is listed with its lines in `PROJECT.json` under `map`.

## 1. The system

QCaaS takes a quantum circuit, lets one or two optimization engines transpile
it, estimates what it costs on an IBM QPU, runs it there if asked, and explains
its counts. It has three programs: the API (`qcaas/`, FastAPI), the accounts
service in front of it (`accounts/`, Go), and the dashboard (`web/`, Next.js).

| Component | State it keeps | Operations | What is hard |
|---|---|---|---|
| Router (`core/backends/router.py`) | per request: table of outcomes; shared: the event loop's thread pool | `route` in single, fallback, parallel mode | an engine may hang; timers race late results; abandoned calls keep threads; a table entry is overwritten |
| Engines (`ibm.py`, `classiq.py`) | none | `optimize` | remote calls, errors, inputs they cannot read |
| Authentication, rate limit (`auth/`) | one limiter, a token bucket per customer | `get_current_customer`, `check` | worker threads; a lazy global; a clock read before the lock |
| Job services (`services/`) | one open transaction per request | optimize, quote, interpret | the row is committed after the response; errors roll it back; a paid run started before it is recorded |
| QPU and polling (`services/qpu.py`, `api/jobs.py`) | `jobs.status` | submit, `GET /v2/jobs/{id}` | concurrent polls around a slow call; the purge between read and write |
| Storage (`storage/`) | tables, pool | sessions, `purge_expired` | rollback, late commit, five connections |
| Cost, interpretation, metrics, circuits (`core/`) | none | pure functions | rounding, boundaries, thresholds |
| Accounts service (`accounts/internal/`) | users, audit log | register, login, SSO, provision, admin changes, proxy | statements without a transaction; rows read once and used later; calls to the API that are lost |
| Internal API (`api/internal.py`) | customers | create, patch, list | check-then-insert, a late commit |
| Dashboard: session (`web/src/lib/auth`, `lib/api`) | one record of localStorage for all tabs | sign-in, log out, provisioning, `/me`, calls through the proxy | answers to requests of an earlier session; a 401 logs out whoever is logged in by then |
| Dashboard: pages (`web/src/app`, `components`) | per mounted page: queries, filters, forms, dialogs, tests; per tab: the pasted key, the next route | guard, sign-in and callback, lists, submissions, admin changes, settings tests | late answers to earlier questions, retries, clicks while something is in flight, continuations of pages left behind |

The dashboard calls the accounts service with a bearer token, or the API with a
key. The accounts service calls the internal API with an admin token and
forwards `/proxy/v2/*` with the caller's key. In the API, a request goes
through authentication and the rate limit, to a service, to the router, which
runs the engines in threads, and to the database; a submitted run lives on at
IBM and is seen again only by polls.

What makes each part correct:

- *Router*: a reply is prompt whatever an engine does; it carries the best of
  the results gathered; no success is lost; what is said of the engines is true.
- *Rate limiter*: in no window does a customer get more than a bucket and its
  refill, and a client that waits as long as it was told is admitted.
- *Jobs*: what a row says of a run is true and is never taken back; what a
  client was told is found in its history.
- *Accounts*: accounts, customers and keys stay one to one; an admin's change
  reaches the API; no admin locks themselves out.
- *Pure functions*: they agree with their tables and definitions at every boundary.
- *Dashboard*: a token is stored only by its own sign-in, an answer is shown only
  for the list and page it answers, a form sends once and within range, and nothing
  waits for ever. (Two things one would expect are not so. An answer need not
  change only its own session: a late 401 logs out whoever is logged in, and a
  late `/me` is patched into any session. And an answer need not be shown only to
  the account it is for: the keys of queries hold the id of the stored user, which
  a saved name makes `undefined` and a late `/me` another account's; see
  `CurrentIsAsked` in section 3.)

`PROJECT.json` lists the hazards line by line, with the properties aimed at
each, or why none is yet.

## 2. The modules

| Module | Models | Checked by | Proved in |
|---|---|---|---|
| `Redundancy` | the promise of two engines, abstractly: results arrive in any order, the reply is one of the best of them | `router`, as a property | `RouterProofs` |
| `JobHistory` | the promise about a job: one answer, true of its run, and a history that repeats it | `jobs`, as a property | `JobsProofs` |
| `Provisioning` | the promise about keys: one attempt at a time holds an account's customer, no working key replaces another | `accounts`, as a property | `AccountsProofs` |
| `Login` | the promise about sign-ins: a token is stored once, by its own sign-in, and then is spent | `session`, as a property | `SessionProofs` |
| `Router` | `router.py`, line by line at its awaits; `Returns` is what the engines do | `router` | `RouterProofs` |
| `RateLimiter` | `auth/deps.py` | `rate_limiter`, `two_limiters` | `RateLimiterProofs` |
| `Jobs` | job handlers, sessions, polls, purge, IBM, crashes | `jobs`, `jobs_lost`, `jobs_billing` | `JobsProofs` |
| `Accounts` | sign-up, provisioning, admin changes, and the internal API | `accounts`, `accounts_key`, `accounts_mirror` | `AccountsProofs` |
| `Session` | the dashboard's session and the calls that use and change it | `session`, `session_profile` | `SessionProofs` |
| `Pages` | the dashboard's pages in one tab | `pages` | `PagesProofs` |
| `Forms` | what the forms send, and the ranges the API accepts; extended by `Pages` | `pages` | `PagesProofs` |

`MC*` modules give the constants their values.

### Router

One coroutine per request stands at one `await` (`phase`); the calls of
`asyncio.to_thread` are jobs of the loop's thread pool (`job`, `queue`,
`returned`) that `Workers` threads take in order. `Answered`, `Cancel` and
`TimedOut` are the three ends of the `wait_for` in `_run_one`: a job that nobody
waits for any more leaves the queue if it has not started, and keeps its thread
if it has. `SingleReturns`, `FallbackPrimaryReturns`, `FallbackSecondaryReturns`,
`ParallelReturns` and `DerivedReturns` are the code after each await, with all
the assignments before the next one, as asyncio runs it. Outcomes are abstracted
to a status, the metric that the ranking sorts by, and the depth. `Router`
implements `Redundancy`: the table of outcomes is mapped to the set of results
gathered, and the overwriting of IBM's entry by its pass over Classiq's output
to the arrival of one more result.
`StepsToAnswer` counts, in `Left`, the timers and continuations that a request
may still need: seven when it is received, none when it is answered.

### RateLimiter

FastAPI runs `get_current_customer` in worker threads. `TestLimiter`,
`MakeLimiter` and `ReturnLimiter` are the three accesses of `get_rate_limiter`
to the global, `ReadClock` the argument of `check`, and `Check` its body, which
the lock makes one step. Time is an integer, tokens are counted in units of
1/`Minute` token, so the refill is exact; the code's floats are not modelled.
`opened`, `admitted` and `decided` are history: a window of time opened at any
instant and what was admitted since. `Settled` is what the first requests
leave behind: a limiter that no request is about to replace, and no request
with another one in hand.

### Jobs

`handler[j]` is where a request's handler stands. `pending` is the row flushed
in its transaction and `row` the committed one. `get_session` commits after its
`yield`, which FastAPI runs after the response was sent, so `Respond` and
`Commit` are two steps; an exception rolls back (`Raise`). A poll reads the
row, asks IBM, and writes the one column it changed when its own session
commits; other polls and the purge come between. Encryption is left out: a poll
refreshes an encrypted payload too, because `_load` gives a dictionary for it.
Retention is abstracted to "some rows expire now". `Crash` kills all handlers
and polls. Billing is abstracted to whether the QPU charge is an estimate.

`Jobs` implements `JobHistory`: the run at IBM is mapped to none, going or
ended, the history's entry to the status of the committed row. What is only
pending does not show, so a rollback or a crash is a stutter; a poll shows only
if it completes the job. That a run submitted at IBM may be answered by an
error, or recorded nowhere after its answer, is part of the promise because it
is what the code does (`jobs_lost` is the sentence it breaks by that).

### Accounts

`request[r]` is a handler: where it stands, its caller, its input, and the row
it read. Each statement on the database is a step, since none is in a
transaction with another. `customer[r]` is both the call that a provisioning
makes to the API and the row this call inserts: selected, flushed, replied (the
answer is on its way), and committed or gone. An insert waits for another with
the same `external_id` and is refused once that is committed, which is what the
unique index does. `GiveUp` is any error, a timeout, a browser that goes away
and with it the request's context, or a crash of the accounts service;
`LoseCustomer` the same for the API. Tokens are taken as valid; names, plans,
passwords and the audit log are left out.

`Accounts` implements `Provisioning`: an attempt is a provisioning request, its
fate the state of the row that its call inserts (flushed and replied are both
an offer, since only the commit tells), and the key of an account is the
attempt whose key its row stores. `Void` is a rollback, a refusal, or a call
that never arrived; a key stored for a customer that was then rolled back is
what `Keep` lets another replace.

### Session

`store` is the record `qcaas.session` of localStorage, `hook[h]` what one
mounted `useAuth` remembers of its check, `call[c]` a request in flight:
`keyed` and `token` are the accounts service's side. A call takes the token
that is stored when it is sent and changes whatever is stored when it is
answered, which is where the late answers come from. `Send` and its users are
the functions of the two clients up to their `await fetch`; `Serve` is the
service; `LoginDone` to `Refused` are the code after the await. The pages are
left out: any tab may send any call at any time. `Failed` is a network error,
another status, or a page left behind, before or after the service did its
work. `patchSession` reads, merges and writes the record in one step, as one
tab's JavaScript does; two tabs writing in the same instant are not modelled.

`Session` implements `Login`: a token is unissued, coming (an answer with it is
on its way, or a callback page waits for its `/me`), stored, or spent. Patches,
checks and calls of the API are stutters: were one to write the token that its
call carried, a spent token would be stored again.

### Pages and Forms

One view is mounted at a time; `Mount` replaces it, which drops its local state
and aborts its queries (the clean-up of the effect in `useApiQuery`). The cards
of the dashboard and the sections of the admin page share no state, so each is
a view of its own. `Session` says what happens to the stored session; here
`SessionBecomes` changes it at any time, to any session, whatever `Session`
would do. A session has the account that its token is of (`user`), as which the
proxy answers, and the id that the stored user has (`id`), by which the page keys
its queries, looks up the role and disables an administrator's own row. The two
agree after a sign-in (`Fresh`); a saved name leaves `Undefined` (the finding
`session_profile`), and a late `/me` the id of another account.

`query` is `useApiQuery`: `QueryKey` is the key of the mounted hook, `nonce`
counts refetches, `sent` holds the requests not aborted, `snap` the last answer
with the key it was asked under and what was asked, by whom and, to the page, as
whom. `Rekey` is the effect, run
again when the full key changes. `list`, `table`, `form` and `tests` are the
states of the job lists, `UsersTable` with its confirm dialog, the three forms,
and the settings page. `late` is a sign-in whose continuation will navigate,
from wherever the tab is by then. `AuthForm`, the callback page, `RequireAuth`
and `postAuthPath` are the actions from `Redirect` to `GiveUp`. What is shown,
and in which language, is left out.

`Forms` has the numbers of a request (an error bound in hundredths), the
dropping and clamping of `CircuitForm` and `buildQuoteRequest`, and the ranges
of the API's schema. The text of a circuit is abstracted to blank, a JSON
object, or anything else, which is what `buildQuoteRequest` tells apart.

## 3. The runs

| Run | Bounds | Properties |
|---|---|---|
| `router` | 2 requests, 1 thread, 3 qualities; one request takes every input and mode, the other one engine | `TypeOK`, `SelectedIsBest`, `NoSuccessDiscarded`, `FallbackIsJustified`, `EnginesReported`, `NoAbandonedStart`, `StepsToAnswer`, `Responds`, `ImplementsRedundancy` |
| `rate_limiter` | 2 threads, 1 customer, limit 2, a minute of 3 ticks, clock to 4 | `TypeOK`, `LimitHolds`, `RetryAfterHonoured`, `OneLimiterOnceSettled` |
| `jobs` | 2 requests, 2 polls, execution allowed | `TypeOK`, `StatusTruthful`, `FailureRecorded`, `RecordKept`, `ImplementsHistory` |
| `accounts` | 2 accounts, 4 requests, no listed admins | `TypeOK`, `OneCustomer`, `KeyIsOwn`, `WorkingKeyKept`, `LastAdminKept`, `ImplementsProvisioning` |
| `session` | 2 accounts, one token each, 1 mounted hook, 2 calls in flight | `TypeOK`, `KeyFlagHonest`, `ImplementsLogin`, `LogoutNeedsToken`, `StaleSessionDropped` |
| `pages` | 6 sessions of a customer and an admin, 1 pasted key, 2 kinds of jobs of which one has 2 rows and the other 1, page sizes 1 and 2, 2 records of entered numbers, 1 retry, 2 runs of the tests | `TypeOK`, `CurrentIsAsked`, `OneSubmission`, `SentInRange`, `ConfirmedOnly`, `PageInRange`, `QuerySettles`, `BusySettles`, `TestsSettle`, `GuardSettles`, `CallbackSettles` |

Why the bounds are enough: one thread and two requests make a call wait behind
a hung one, time out before it starts, and leave the queue; the three qualities
make results that differ by metric only, by depth only, and tie. Two
threads are what a race on the limiter and a stale clock need; with a
minute of three ticks and a limit of two, a bucket holds fractions of a token,
and four ticks are more than a minute. Two polls race each other and the purge on one row, while
another job shares the database. Four requests are two sign-ups and two
overlapping admin changes, or a sign-up and three overlapping provisionings.
Requests, polls, engines' qualities and customers have no order, so symmetry is
used where a run has no liveness property.

Two accounts with a token each and two calls are what an answer to an earlier
session needs: one is sent, its session ends, another account signs in, the
answer comes. On the pages, the totals 2 and 1 with page sizes 1 and 2 give
lists with a second page, with a single page, and a filter whose last page is
before that of another; the entered numbers are the defaults, and one value
beyond each range. The six sessions are none, a customer before and after
provisioning, an admin, so that every guard is met from both sides, and the
customer's and the admin's after a saved name, so that two accounts have the same
key (and the admin meets the 403). A session that stores the user of another
account is left to the proof.

`CurrentIsAsked` is as strong as the code allows. The view, the filter and the
page of an answer shown as current are always those asked for. Whose answer it is
is certain only if the session it was asked by and the present one each store the
user of their own token (`Own`), or the keys are pasted ones. Without this
condition TLC refutes it in four states: a renamed customer's query is in flight
under `session:undefined`, the session of another renamed account takes its place
(another tab signed it in), the key stays the same, so nothing is asked again, and
the answer is shown as the second account's. If the sessions between the two are
seen as well, the answer is asked for again, but until it comes the first
account's is shown without a spinner.
The comment on `credential` (`web/src/lib/useCredentials.ts:18-20`) says that
queries keyed by it "re-run when the credential changes"; here they do not.

The bounds in guards are `MaxClock` (`RateLimiter`), `Slots` and the number of
tokens (`Session`), and in `Pages` `MaxRetry`, `MaxTests`, one sign-in in flight
at a time, and `WhileLate`, the views opened while it is: a continuation
navigates the same way from all of them, and three stand for a page with a
form, a guarded one and a public one.
Deadlock is not checked where a finite set of requests simply ends.

Six runs state a sentence of the documentation that the code does not keep:

- `two_limiters`: "Per-customer token bucket": two first requests may make two
  limiters, each with a bucket of the same customer.
- `jobs_lost`: "submitted; poll GET /v2/jobs/{job_id}": the row is committed
  after this is said, so a poll may not find it, and a crash or a failed commit
  loses it for good.
- `jobs_billing`: "the actual usage override the estimate": usage is known
  only to polls, and these change no billing record.
- `accounts_key`: "idempotent: returns the existing key": once the answer of a
  provisioning is lost, the API answers 409 for ever and nobody has the key.
- `accounts_mirror`: "so a disabled account's key stops working too": the
  mirrored flag is lost with a failed call, or with a key still being made.
- `session_profile`: "the header shows the user email + Log out when signed in":
  `PATCH /me` answers `{user, has_api_key}`, which `updateMe` stores whole as the
  session's user, so after a saved name there is no email to show.

## 4. Fairness and liveness

`Responds` (`router`): every request that was received is answered. It is
checked under weak fairness of each request's own steps in the event loop:
asyncio fires a timer that is due and runs a callback that is ready, and all
calls have a timeout (`mode.timeout_sec` must be positive, the fallback call has
30 s and the rest the request's own). Nothing is assumed of the threads or
engines, which may hang for ever. The safety half of the argument is
`StepsToAnswer`, which is proved: each of those steps lowers `Left`, and no
other step raises it.

`StaleSessionDropped` (`session`): a stored session whose token has died is
dropped by the next page that uses `useAuth`, unless its check of the session
fails without a verdict, after which the code keeps the session and does not
ask again (`kept`). Weak fairness says that each call in flight is served, and
its answer read; strong fairness of `Refresh`, which is a React effect, is
needed only because the slots for calls are the model's, not the browser's.

`QuerySettles`, `BusySettles`, `TestsSettle`, `GuardSettles`, `CallbackSettles`
(`pages`): weak fairness of the redirect (an effect that React runs), of
the timer of the callback page, and of the answers: `fetch` ends by an answer
or an error, and a failure counts as an answer. Users owe nothing: no click,
retry or navigation is fair. `QuerySettles` excuses a query whose question
changes again and again.

`jobs` and `accounts` state safety only: the code has no retry, and whether a
client polls again is its own affair.

## 5. The proofs

For each model the proof has the same shape: an inductive invariant `IInv`, one
lemma that the initial states satisfy it, one step per action that it is kept,
and the properties from it. They hold for any sets of requests, threads,
polls, accounts, customers, tokens and hooks, any limits, page sizes and totals,
and any length of a minute. A refinement is proved by a lemma for the initial
states and one per kind of step, which is a step of the abstract module or
leaves its variables alone.

- `RouterProofs`: `IInv` ties each phase to the calls whose answers are in, the
  table to those answers, and the queue to the jobs in it. The interesting part
  is what a result's absence from the table means when an entry was
  overwritten. From it follow the five invariants, `NoAbandonedStart`, and
  `Refinement`: every step of the router is a step of `Redundancy` or none.
  `AnswerNears` needs no more than the types, but the cardinality of the calls
  waited for: bounds of `Waits` at each await (`LeftAtAwaits`) put the awaits in
  order, and an answer takes one call from the set.
- `RateLimiterProofs`: `LimitHolds` is not inductive. `IInv` bounds, for every
  bucket, its tokens with what was admitted since the window was opened by a
  full bucket and the refill up to the bucket's own last time, and says that
  refilled to the present a bucket would not be in debt; this survives readings
  of the clock that run backwards. Two lemmas do the non-linear arithmetic.
  `OneLimiter` says that a settled state stays settled (`SettledStep`).
  `OneBucketOnceSettled` draws the limit of the finding `two_limiters`: in a
  window opened once the limiter is settled, only one bucket of a customer ever
  admits (`OneAdmits`), so that the violation is confined to the requests that
  met before the first limiter was there.
- `JobsProofs`: `IInv` says what a handler's place implies of its transaction,
  its run and the committed row (a handler that is open has committed nothing),
  and that a poll about to write has seen its run end. `HistoryImplemented` adds
  two invariants on top of it: nobody was told anything before the answer, and
  the answer is the status of the row to be committed (`AllTold`), without which
  that row could differ from what was told; and that row has its payload
  (`PayloadOK`).
- `AccountsProofs`: `IInv` adds to the properties that of the calls for one
  `external_id` at most one is flushed, replied or committed, that only a
  handler that was answered writes a key, and that no handler past admission is
  about to lock its caller out. `ProvisioningImplemented` is a step simulation
  from this invariant: that a key is stored only by an answered call gives
  `Keep` its guard, and the one holder per `external_id` gives `Offer` its own.
  `KeyLostWithAnswer` draws the limit of the finding `accounts_key`: when
  nothing is in flight, a committed customer whose account has no key belongs
  to a handler that failed; it needs `KeyHeld`, that a handler which asked for a
  key and is done has left one in its account's row, and that no step takes a
  key away.
- `SessionProofs`: `IInv` adds what the kind and the answer of a call imply: a
  call that can patch the session carries an issued token, and an answer that
  says "has a key", or a provisioning that succeeded, is about an account that
  has one. From it follow `KeyFlagHonest` and `LogoutNeedsToken`, and, as an
  action property of its own, that only a sign-in stores a token
  (`SignInStores`). `LoginImplemented` adds `BringersOK`: a token on its way is
  brought by one call only and is not stored, so that what was stored once is
  never coming again.
- `PagesProofs`: `IInv` says that every request in flight and every snapshot was
  asked as its key tells, and that the flags of a form or dialog agree with what
  is in flight. The lemma
  `KeyTellsAsk` is the heart of `CurrentIsAsked`: two equal keys ask for the same
  list and page and as the same id, so a snapshot under the present key answers
  the present question (it fails for a key that leaves out the credential). The
  sessions include those without an id and those with another account's: equal
  keys of different accounts are not ruled out, and only where both go by their
  own id does the lemma conclude that the account is the same. The limits of a form are in range
  also while a file is being read, which is what `SentInRange` needs.
  `PagesInRange` bounds a list by the total of whoever's rows are shown
  (`Paged`), which is the page's own account where `CurrentIsAsked` says so. It
  needs, besides, that a list is always on a whole number of pages, by an
  arithmetic lemma on remainders.

The assumptions are the named ones on constants: inputs are inputs, qualities
are pairs of naturals, there is a thread, limits and a minute are positive,
`None` and `Undefined` are not elements of the sets they are added to, an account
is not a pasted key, roles and totals have their
types, and page sizes are positive.

The type invariants of `Jobs` and `Accounts` are theorems too (`TypeCorrect`).

Only model-checked: the liveness properties, which are out of the prover's
reach (`Responds`, `StaleSessionDropped`, `QuerySettles`, `BusySettles`,
`TestsSettle`, `GuardSettles`, `CallbackSettles`), and the violations, each a
counterexample on a small instance.

## 6. Not modelled, and what could follow

1. `Pricing`: billing and estimates in exact arithmetic against their
   definition, for every plan, with boundaries; `Rules`: the interpretation
   over small distributions, and the retention of 0 days. Functions without
   RECURSIVE, so that lemmas about them can be proved.
2. `Executor`: the optimize handler composed with `Router`'s thread pool and the
   connection pool: simulation and submission have no timeout and wait for
   threads that hung engines keep, while the request holds its connection.
3. Bootstrap of admins as a run of its own; the proxy and rate limit composed
   with the late commit of a new customer; composition of `Accounts` and
   `RateLimiter` on a disabled customer.

Of the dashboard, left out are: the step between a write to localStorage and
the render that follows it, and two tabs that patch it in the same instant; the
state of the API key card and the profile form; the hint on a file
of another format; the flags, bit strings and texts of an optimize request,
which have no range, and fractions typed as shots, which the API refuses; the
contents of rows, so also a patched row that overrides a refetched one; totals
that change on the server while a list is paged; the display components and
the texts. The state cookie of single sign-on, which two sign-ins of one
browser share, is seen only as the sign-in that comes back refused.

Left out for good: transpilation, synthesis, simulation and metrics (Qiskit and
Classiq), cryptography, rendering, translations, the command line, deployment.
