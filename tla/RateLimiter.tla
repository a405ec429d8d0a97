---------------------------- MODULE RateLimiter ----------------------------
(***************************************************************************)
(* Authentication and rate limiting of the API (qcaas/auth/deps.py).  The  *)
(* dependencies of a request run in worker threads: they find the process- *)
(* wide limiter, or make it, look the customer up, read the clock and only *)
(* then take the limiter's lock.  Tokens are counted in fractions of 1 /   *)
(* Minute, so that one tick of the clock refills Limit(k) of them.         *)
(***************************************************************************)
EXTENDS Integers

CONSTANTS Threads,      \* worker threads, each runs one request at a time
          Customers,    \* the customers that have an active key
          PerMinute,    \* a customer's own limit, 0 if it has none
          Default,      \* settings.rate_limit_per_minute
          Minute,       \* ticks of the monotonic clock in a minute
          MaxClock      \* bound on the clock, for TLC

ASSUME PerMinuteAssumption == PerMinute \in [Customers -> Nat]
ASSUME DefaultAssumption   == Default \in Nat \ {0}
ASSUME MinuteAssumption    == Minute \in Nat \ {0}
ASSUME MaxClockAssumption  == MaxClock \in Nat

Limit(k)    == IF PerMinute[k] = 0 THEN Default ELSE PerMinute[k]
Capacity(k) == Limit(k) * Minute

None     == "none"      \* no limiter yet
Never    == -1          \* no clock reading yet
NoBucket == [tokens |-> 0, updated |-> Never]
ASSUME NoneAssumption == None \notin Threads

\* Limiters are named after the thread that made them: it makes one at most.
VARIABLES
  clock,      \* time.monotonic
  limiter,    \* the module's _limiter
  pc,         \* pc[t]: where thread t's request stands
  mine,       \* mine[t]: the limiter that get_rate_limiter gave t's request
  customer,   \* customer[t]: whom t's request was found to come from
  now,        \* now[t]: the clock as t's request read it
  bucket,     \* bucket[l][k]: customer k's bucket in limiter l
  \* History, read by the properties only:
  opened,     \* when the window of the properties was opened
  admitted,   \* admitted[l][k]: admissions of requests that read the clock since
  decided     \* decided[l][k]: when l last decided on a request of k

request == <<mine, customer, now>>
history == <<opened, admitted, decided>>
vars    == <<clock, limiter, pc, request, bucket, history>>

Init ==
  /\ clock    = 0
  /\ limiter  = None
  /\ pc       = [t \in Threads |-> "idle"]
  /\ mine     = [t \in Threads |-> None]
  /\ customer = [t \in Threads |-> None]
  /\ now      = [t \in Threads |-> Never]
  /\ bucket   = [l \in Threads |-> [k \in Customers |-> NoBucket]]
  /\ opened   = Never
  /\ admitted = [l \in Threads |-> [k \in Customers |-> 0]]
  /\ decided  = [l \in Threads |-> [k \in Customers |-> Never]]

-----------------------------------------------------------------------------
Goto(t, from, to) == pc[t] = from /\ pc' = [pc EXCEPT ![t] = to]

\* Mutant: every request makes a limiter of its own.
TestNothing(t) ==
  /\ pc[t] \in {"idle", "admitted", "refused"}
  /\ pc' = [pc EXCEPT ![t] = "missing"]
  /\ UNCHANGED <<clock, limiter, request, bucket, history>>

\* A thread without a request takes one: get_rate_limiter tests _limiter ...
TestLimiter(t) ==
  /\ pc[t] \in {"idle", "admitted", "refused"}
  /\ pc' = [pc EXCEPT ![t] = IF limiter = None THEN "missing" ELSE "found"]
  /\ UNCHANGED <<clock, limiter, request, bucket, history>>

\* ... makes it if there was none, even if there is one by now ...
MakeLimiter(t) ==
  /\ Goto(t, "missing", "found")
  /\ limiter' = t
  /\ UNCHANGED <<clock, request, bucket, history>>

\* ... and returns what _limiter is by then.
ReturnLimiter(t) ==
  /\ Goto(t, "found", "limited")
  /\ mine' = [mine EXCEPT ![t] = limiter]
  /\ UNCHANGED <<clock, limiter, customer, now, bucket, history>>

\* The request ends, and its local variables with it.
Forget(t) == /\ mine' = [mine EXCEPT ![t] = None]
             /\ customer' = [customer EXCEPT ![t] = None]
             /\ now' = [now EXCEPT ![t] = Never]

\* No key, or none of an active customer: 401.
Unauthorized(t) ==
  /\ Goto(t, "limited", "idle") /\ Forget(t)
  /\ UNCHANGED <<clock, limiter, bucket, history>>

\* find_customer_by_key, then check reads the clock, before it takes the lock.
ReadClock(t, k) ==
  /\ Goto(t, "limited", "timed")
  /\ customer' = [customer EXCEPT ![t] = k]
  /\ now' = [now EXCEPT ![t] = clock]
  /\ UNCHANGED <<clock, limiter, mine, bucket, history>>

Least(a, b) == IF a <= b THEN a ELSE b

\* Mutant: the bucket may hold more than one minute's tokens.
RefillWithoutCap(b, k, at) == b.tokens + (at - b.updated) * Limit(k)

Refill(b, k, at) == Least(Capacity(k), b.tokens + (at - b.updated) * Limit(k))

\* Mutants: only an admission moves the time of the last refill; a refused
\* request is charged too.
ChargeForgetsTime(b, k, at) ==
  IF Refill(b, k, at) >= Minute THEN [tokens |-> Refill(b, k, at) - Minute, updated |-> at]
  ELSE [tokens |-> Refill(b, k, at), updated |-> b.updated]
ChargeRefused(b, k, at) == [tokens |-> Refill(b, k, at) - Minute, updated |-> at]

\* The bucket after a request that read the clock at "at".
Charge(b, k, at) ==
  [tokens |-> Refill(b, k, at) - (IF Refill(b, k, at) >= Minute THEN Minute ELSE 0),
   updated |-> at]

\* A customer's first request finds no bucket and gets a full one.
Found(l, k, at) ==
  IF bucket[l][k] = NoBucket THEN [tokens |-> Capacity(k), updated |-> at] ELSE bucket[l][k]

\* RateLimiter.check under the lock: the request is admitted or answered 429.
Check(t) ==
  LET l  == mine[t]
      k  == customer[t]
      b  == Found(l, k, now[t])
      ok == Refill(b, k, now[t]) >= Minute
  IN  /\ Goto(t, "timed", IF ok THEN "admitted" ELSE "refused")
      /\ bucket' = [bucket EXCEPT ![l][k] = Charge(b, k, now[t])]
      /\ admitted' = [admitted EXCEPT ![l][k] =
                        IF ok /\ opened # Never /\ now[t] >= opened THEN @ + 1 ELSE @]
      /\ decided' = [decided EXCEPT ![l][k] = clock]
      /\ Forget(t)
      /\ UNCHANGED <<clock, limiter, opened>>

\* Time passes, whatever the threads are doing.
Tick ==
  /\ clock < MaxClock
  /\ clock' = clock + 1
  /\ UNCHANGED <<limiter, pc, request, bucket, history>>

\* The properties start to count at an arbitrary moment.
OpenWindow ==
  /\ opened = Never
  /\ opened' = clock
  /\ UNCHANGED <<clock, limiter, pc, request, bucket, admitted, decided>>

Next == \/ \E t \in Threads : \/ TestLimiter(t) \/ MakeLimiter(t) \/ ReturnLimiter(t)
                              \/ Unauthorized(t) \/ Check(t)
                              \/ \E k \in Customers : ReadClock(t, k)
        \/ Tick \/ OpenWindow

Spec == Init /\ [][Next]_vars

-----------------------------------------------------------------------------
(* Properties *)

\* Every variable keeps its type; a bucket never holds more than a minute's
\* tokens.  It may hold less than none, after a stale reading of the clock.
TypeOK ==
  /\ clock \in Nat /\ limiter \in Threads \union {None}
  /\ pc \in [Threads -> {"idle", "missing", "found", "limited", "timed",
                         "admitted", "refused"}]
  /\ mine \in [Threads -> Threads \union {None}]
  /\ customer \in [Threads -> Customers \union {None}]
  /\ now \in [Threads -> Nat \union {Never}]
  /\ bucket \in [Threads -> [Customers -> [tokens : Int, updated : Nat \union {Never}]]]
  /\ \A l \in Threads, k \in Customers : bucket[l][k].tokens <= Capacity(k)
  /\ opened \in Nat \union {Never}
  /\ admitted \in [Threads -> [Customers -> Nat]]
  /\ decided \in [Threads -> [Customers -> Nat \union {Never}]]

\* Of a customer's requests that read the clock in any window of time, a
\* limiter admits no more than a full bucket and what the window refills,
\* although requests take the lock in another order than they read the clock,
\* so that time goes backwards for the bucket.
WindowBound(l, k) ==
  opened # Never =>
    Minute * admitted[l][k] <= Capacity(k) + Limit(k) * (clock - opened)
LimitHolds == \A l \in Threads, k \in Customers : WindowBound(l, k)

\* The 429 says "Retry-After: 60": a request that reads the clock a minute or
\* more after the last decision on its customer is admitted, and so is the
\* first request of a customer, whatever stale requests came before.
RetryAfterHonoured ==
  [][\A t \in Threads :
       pc[t] = "timed" /\ pc'[t] = "refused"
       => /\ bucket[mine[t]][customer[t]] # NoBucket
          /\ now[t] < decided[mine[t]][customer[t]] + Minute]_vars

\* The limiters that were made at once are a matter of the first requests:
\* once a limiter is there, and no request is about to replace it or holds an
\* earlier one, that stays so, and the other limiters decide on nothing more.
Settled == /\ limiter # None
           /\ \A t \in Threads : pc[t] # "missing" /\ mine[t] \in {None, limiter}
OneLimiterOnceSettled ==
  [][Settled => /\ Settled'
                /\ \A l \in Threads \ {limiter} :
                     bucket'[l] = bucket[l] /\ admitted'[l] = admitted[l]]_vars

\* What "per-customer token bucket" promises: the bound of LimitHolds on the
\* admissions of a customer by the service, by two limiters together.
OneBucketPerCustomer ==
  \A l, m \in Threads, k \in Customers :
    l # m /\ opened # Never =>
      Minute * (admitted[l][k] + admitted[m][k]) <= Capacity(k) + Limit(k) * (clock - opened)

=============================================================================
