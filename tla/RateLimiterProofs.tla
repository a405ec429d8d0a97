------------------------- MODULE RateLimiterProofs -------------------------
(***************************************************************************)
(* Proofs about RateLimiter, for any number of threads and customers, any  *)
(* limits and any length of a minute.  The inductive invariant says of each*)
(* bucket b of customer k that, refilled to the present, it would not be in *)
(* debt, and that what was admitted since the window was opened, with what *)
(* is left, is within a full bucket and the refill up to b.updated.        *)
(***************************************************************************)
EXTENDS RateLimiter, TLAPS

\* The limits are positive whole numbers.
LEMMA LimitType ==
  ASSUME NEW k \in Customers
  PROVE  /\ Limit(k) \in Nat \ {0} /\ Minute \in Nat \ {0}
         /\ Capacity(k) \in Nat /\ Capacity(k) = Limit(k) * Minute /\ Minute <= Capacity(k)
<1>1. Limit(k) \in Nat \ {0} /\ Minute \in Nat \ {0}
  BY PerMinuteAssumption, DefaultAssumption, MinuteAssumption DEF Limit
<1>2. \A a, b \in Nat \ {0} : a * b \in Nat /\ b <= a * b
  OBVIOUS
<1> QED
  BY <1>1, <1>2 DEF Capacity

Buckets == [tokens : Int, updated : Nat \union {Never}]

\* Every variable keeps its type, and what a thread holds fits where it stands.
Typed ==
  /\ clock \in Nat /\ limiter \in Threads \union {None}
  /\ pc \in [Threads -> {"idle", "missing", "found", "limited", "timed",
                         "admitted", "refused"}]
  /\ mine \in [Threads -> Threads \union {None}]
  /\ customer \in [Threads -> Customers \union {None}]
  /\ now \in [Threads -> Nat \union {Never}]
  /\ bucket \in [Threads -> [Customers -> Buckets]]
  /\ opened \in Nat \union {Never}
  /\ admitted \in [Threads -> [Customers -> Nat]]
  /\ decided \in [Threads -> [Customers -> Nat \union {Never}]]

\* A thread past get_rate_limiter has a limiter, and one about to check its
\* request a customer and a reading of the clock that is not in the future.
Holds(t) ==
  /\ pc[t] = "found" => limiter # None
  /\ pc[t] \in {"limited", "timed"} => mine[t] \in Threads
  /\ pc[t] = "timed" => customer[t] \in Customers /\ now[t] \in Nat /\ now[t] <= clock

\* No bucket was used before its first decision.
Fresh(l, k) == bucket[l][k] = NoBucket => admitted[l][k] = 0

\* A bucket in use: its tokens, its debt and what it has granted.
Sound(l, k) ==
  LET b == bucket[l][k] IN
  b # NoBucket =>
    /\ b.updated \in Nat /\ b.updated <= clock
    /\ b.tokens <= Capacity(k)
    /\ decided[l][k] \in Nat /\ decided[l][k] <= clock
    /\ b.tokens + Limit(k) * (decided[l][k] - b.updated) >= 0
    /\ opened = Never => admitted[l][k] = 0
    /\ opened # Never /\ admitted[l][k] > 0 =>
         b.tokens + Minute * admitted[l][k] <= Capacity(k) + Limit(k) * (b.updated - opened)

IInv == /\ Typed
        /\ opened # Never => opened <= clock
        /\ \A t \in Threads : Holds(t)
        /\ \A l \in Threads, k \in Customers : Fresh(l, k) /\ Sound(l, k)

-----------------------------------------------------------------------------
\* Arithmetic of a refill: with r = b + (at - u) * L capped at C, a bucket
\* that was never in debt is not in debt, and the potential b - L * u of a
\* bucket does not grow.
LEMMA RefillArithmetic ==
  ASSUME NEW L \in Nat, NEW C \in Nat, NEW b \in Int, NEW u \in Nat, NEW at \in Nat,
         NEW d \in Nat, NEW c \in Nat,
         b + L * (d - u) >= 0, at <= c, d <= c
  PROVE  LET r == Least(C, b + (at - u) * L) IN
         /\ r \in Int /\ r <= C
         /\ r + L * (c - at) >= 0
         /\ r - L * at <= b - L * u
<1> DEFINE r == Least(C, b + (at - u) * L)
<1>1. (at - u) * L = L * at - L * u /\ L * (d - u) = L * d - L * u
      /\ L * (c - at) = L * c - L * at
  OBVIOUS
<1>2. L * at \in Int /\ L * u \in Int /\ L * d \in Int /\ L * c \in Int
  OBVIOUS
<1>3. L * d <= L * c /\ L * at <= L * c
  OBVIOUS
<1>4. r = C \/ r = b + L * at - L * u
  BY <1>1, <1>2 DEF Least
<1>5. r <= C /\ r <= b + L * at - L * u /\ r \in Int
  BY <1>1, <1>2 DEF Least
<1>6. r + L * (c - at) >= 0
  BY <1>1, <1>2, <1>3, <1>4
<1> QED
  BY <1>2, <1>5, <1>6

\* Arithmetic of a decision: the window's account of a bucket after it.
LEMMA ChargeArithmetic ==
  ASSUME NEW L \in Nat, NEW C \in Nat, NEW M \in Nat, NEW b \in Int, NEW u \in Nat,
         NEW at \in Nat, NEW r \in Int, NEW w \in Nat, NEW n \in Nat,
         r <= C, r - L * at <= b - L * u,
         n > 0 => b + M * n <= C + L * (u - w)
  PROVE  /\ n > 0 => r + M * n <= C + L * (at - w)
         /\ n > 0 => (r - M) + M * n <= C + L * (at - w)
         /\ n > 0 => (r - M) + M * (n + 1) <= C + L * (at - w)
         /\ n = 0 /\ at >= w => (r - M) + M * (n + 1) <= C + L * (at - w)
<1>1. /\ L * (u - w) = L * u - L * w
      /\ L * (at - w) = L * at - L * w
      /\ M * (n + 1) = M * n + M
  OBVIOUS
<1>2. /\ L * u \in Int /\ L * at \in Int /\ L * w \in Int /\ M * n \in Int
  OBVIOUS
<1>3. n > 0 => r + M * n <= C + L * (at - w)
  BY <1>1, <1>2
<1>4. n = 0 /\ at >= w => M * n = 0 /\ L * (at - w) >= 0
  OBVIOUS
<1> QED
  BY <1>1, <1>2, <1>3, <1>4

-----------------------------------------------------------------------------
\* Facts about the bucket a decision starts from, and what it refills to.
LEMMA FoundSound ==
  ASSUME IInv, NEW t \in Threads, pc[t] = "timed"
  PROVE  LET l == mine[t]
             k == customer[t]
             b == Found(l, k, now[t])
             r == Refill(b, k, now[t])
         IN  /\ l \in Threads /\ k \in Customers /\ now[t] \in Nat /\ now[t] <= clock
             /\ b \in Buckets /\ b.updated \in Nat
             /\ r \in Int /\ r <= Capacity(k)
             /\ r + Limit(k) * (clock - now[t]) >= 0
             /\ r - Limit(k) * now[t] <= b.tokens - Limit(k) * b.updated
<1> DEFINE l == mine[t]
           k == customer[t]
           at == now[t]
           b == Found(l, k, at)
<1>1. l \in Threads /\ k \in Customers /\ at \in Nat /\ at <= clock /\ clock \in Nat
  BY DEF IInv, Holds, Typed
<1>2. Limit(k) \in Nat /\ Capacity(k) \in Nat
  BY <1>1, LimitType
<1>3. Sound(l, k) /\ bucket[l][k] \in Buckets
  BY <1>1 DEF IInv, Typed
<1>4. PICK d \in Nat : d <= clock /\ b \in Buckets /\ b.updated \in Nat
                       /\ b.tokens + Limit(k) * (d - b.updated) >= 0
  <2>1. CASE bucket[l][k] = NoBucket
    <3>1. b = [tokens |-> Capacity(k), updated |-> at]
      BY <2>1 DEF Found
    <3>2. Limit(k) * (at - at) = 0
      BY <1>1, <1>2
    <3> QED
      BY <1>1, <1>2, <3>1, <3>2 DEF Buckets
  <2>2. CASE bucket[l][k] # NoBucket
    <3>1. b = bucket[l][k]
      BY <2>2 DEF Found
    <3> QED
      BY <1>3, <2>2, <3>1 DEF Sound
  <2> QED
    BY <2>1, <2>2
<1>5. b.tokens \in Int
  BY <1>4 DEF Buckets
<1> HIDE DEF b, k, l, at
<1>6. LET r == Least(Capacity(k), b.tokens + (at - b.updated) * Limit(k)) IN
      /\ r \in Int /\ r <= Capacity(k)
      /\ r + Limit(k) * (clock - at) >= 0
      /\ r - Limit(k) * at <= b.tokens - Limit(k) * b.updated
  BY <1>1, <1>2, <1>4, <1>5, RefillArithmetic
<1>7. /\ l \in Threads /\ k \in Customers /\ at \in Nat /\ at <= clock
      /\ b \in Buckets /\ b.updated \in Nat
      /\ Refill(b, k, at) \in Int /\ Refill(b, k, at) <= Capacity(k)
      /\ Refill(b, k, at) + Limit(k) * (clock - at) >= 0
      /\ Refill(b, k, at) - Limit(k) * at <= b.tokens - Limit(k) * b.updated
  BY <1>1, <1>4, <1>6 DEF Refill
<1> QED
  BY <1>7 DEF b, k, l, at

\* The bucket that a decision leaves is sound.
LEMMA CheckSound ==
  ASSUME IInv, NEW t \in Threads, Check(t), NEW l \in Threads, NEW k \in Customers,
         l = mine[t], k = customer[t]
  PROVE  Sound(l, k)' /\ Fresh(l, k)'
<1> DEFINE at == now[t]
           b  == Found(l, k, at)
           r  == Refill(b, k, at)
           ok == r >= Minute
           n  == admitted[l][k]
           L  == Limit(k)
           C  == Capacity(k)
<1>1. pc[t] = "timed"
  BY DEF Check, Goto
<1>2. /\ at \in Nat /\ at <= clock /\ b \in Buckets /\ b.updated \in Nat
      /\ r \in Int /\ r <= C
      /\ r + L * (clock - at) >= 0
      /\ r - L * at <= b.tokens - L * b.updated
  BY <1>1, FoundSound
<1>3. /\ L \in Nat /\ C \in Nat /\ Minute \in Nat /\ b.tokens \in Int
      /\ clock \in Nat /\ n \in Nat /\ opened \in Nat \union {Never}
  BY <1>2, LimitType DEF IInv, Typed, Buckets
<1>4. /\ bucket'[l][k] = [tokens |-> IF ok THEN r - Minute ELSE r, updated |-> at]
      /\ admitted'[l][k] = IF ok /\ opened # Never /\ at >= opened THEN n + 1 ELSE n
      /\ decided'[l][k] = clock /\ clock' = clock /\ opened' = opened
  <2>1. /\ bucket \in [Threads -> [Customers -> Buckets]]
        /\ admitted \in [Threads -> [Customers -> Nat]]
        /\ decided \in [Threads -> [Customers -> Nat \union {Never}]]
    BY DEF IInv, Typed
  <2>2. bucket' = [bucket EXCEPT ![l][k] = Charge(b, k, at)]
    BY DEF Check
  <2>3. Charge(b, k, at) = [tokens |-> IF ok THEN r - Minute ELSE r, updated |-> at]
    <3> HIDE DEF at, b
    <3> QED
      BY <1>2, <1>3 DEF Charge
  <2>4. bucket'[l][k] = Charge(b, k, at)
    BY <2>1, <2>2
  <2>5. admitted'[l][k] = IF ok /\ opened # Never /\ at >= opened THEN n + 1 ELSE n
    BY <2>1 DEF Check
  <2>6. decided'[l][k] = clock /\ clock' = clock /\ opened' = opened
    BY <2>1 DEF Check
  <2> QED
    BY <2>3, <2>4, <2>5, <2>6
<1>5. Sound(l, k) /\ Fresh(l, k)
  BY DEF IInv
<1>6. /\ opened = Never => n = 0
      /\ opened # Never /\ n > 0 => b.tokens + Minute * n <= C + L * (b.updated - opened)
  <2>1. CASE bucket[l][k] = NoBucket
    BY <1>5, <2>1 DEF Fresh
  <2>2. CASE bucket[l][k] # NoBucket
    <3>1. b = bucket[l][k]
      BY <2>2 DEF Found
    <3> QED
      BY <1>3, <1>5, <2>2, <3>1 DEF Sound
  <2> QED
    BY <2>1, <2>2
<1> HIDE DEF at, b, r, n, L, C
<1>7. L * (clock - at) >= 0 /\ L * (clock - at) \in Int
  BY <1>2, <1>3
<1>8. opened' # Never /\ admitted'[l][k] > 0 =>
        bucket'[l][k].tokens + Minute * admitted'[l][k]
          <= C + L * (bucket'[l][k].updated - opened')
  <2> SUFFICES ASSUME opened \in Nat, admitted'[l][k] > 0
               PROVE  (IF ok THEN r - Minute ELSE r) + Minute * admitted'[l][k]
                        <= C + L * (at - opened)
    BY <1>3, <1>4
  <2>1. /\ n > 0 => r + Minute * n <= C + L * (at - opened)
        /\ n > 0 => (r - Minute) + Minute * n <= C + L * (at - opened)
        /\ n > 0 => (r - Minute) + Minute * (n + 1) <= C + L * (at - opened)
        /\ n = 0 /\ at >= opened =>
             (r - Minute) + Minute * (n + 1) <= C + L * (at - opened)
    <3>1. n > 0 => b.tokens + Minute * n <= C + L * (b.updated - opened)
      BY <1>3, <1>6
    <3> QED
      BY <1>2, <1>3, <3>1, ChargeArithmetic
  <2>2. n = 0 \/ n > 0
    BY <1>3
  <2> QED
    BY <1>3, <1>4, <2>1, <2>2
<1>9. Sound(l, k)'
  <2>1. /\ bucket'[l][k].updated = at
        /\ bucket'[l][k].tokens = IF ok THEN r - Minute ELSE r
    BY <1>4
  <2>2. bucket'[l][k].tokens <= C
    BY <1>2, <1>3, <2>1
  <2>3. bucket'[l][k].tokens + L * (clock - at) >= 0
    BY <1>2, <1>3, <1>7, <2>1
  <2>4. opened' = Never => admitted'[l][k] = 0
    BY <1>4, <1>6
  <2> QED
    BY <1>2, <1>3, <1>4, <1>8, <2>1, <2>2, <2>3, <2>4 DEF Sound, L, C
<1>10. Fresh(l, k)'
  <2>1. bucket'[l][k].updated = at /\ at # Never
    BY <1>2, <1>4 DEF Never
  <2>2. bucket'[l][k] # NoBucket
    BY <2>1 DEF NoBucket
  <2> QED
    BY <2>2 DEF Fresh
<1> QED
  BY <1>9, <1>10

-----------------------------------------------------------------------------
\* Steps that leave the buckets alone keep them sound while time passes, and
\* the window may open, at the present moment.
LEMMA BucketsKept ==
  ASSUME IInv, UNCHANGED <<bucket, admitted, decided>>,
         clock' \in Nat, clock <= clock',
         opened' = opened \/ opened = Never,
         NEW l \in Threads, NEW k \in Customers
  PROVE  Fresh(l, k)' /\ Sound(l, k)'
<1>1. Fresh(l, k) /\ Sound(l, k) /\ clock \in Nat
  BY DEF IInv, Typed
<1>2. Fresh(l, k)'
  BY <1>1 DEF Fresh
<1>3. Sound(l, k)'
  BY <1>1 DEF Sound
<1> QED
  BY <1>2, <1>3

\* Where a thread goes, the others stay.
LEMMA GotoTyped ==
  ASSUME Typed, NEW t \in Threads, NEW from,
         NEW to \in {"idle", "missing", "found", "limited", "timed", "admitted", "refused"},
         Goto(t, from, to)
  PROVE  /\ pc' \in [Threads -> {"idle", "missing", "found", "limited", "timed",
                                 "admitted", "refused"}]
         /\ pc[t] = from /\ pc'[t] = to
         /\ \A s \in Threads \ {t} : pc'[s] = pc[s]
BY DEF Typed, Goto

\* The invariant holds at the start.
LEMMA InitIInv == Init => IInv
<1> SUFFICES ASSUME Init PROVE IInv
  OBVIOUS
<1>1. NoBucket \in Buckets
  BY DEF NoBucket, Buckets, Never
<1>2. Typed
  BY <1>1 DEF Init, Typed
<1>3. \A t \in Threads : Holds(t)
  BY DEF Init, Holds
<1>4. \A l \in Threads, k \in Customers : Fresh(l, k) /\ Sound(l, k)
  BY DEF Init, Fresh, Sound
<1> QED
  BY <1>2, <1>3, <1>4 DEF IInv, Init

\* Every step keeps it.
LEMMA NextIInv == IInv /\ [Next]_vars => IInv'
<1> SUFFICES ASSUME IInv, [Next]_vars PROVE IInv'
  OBVIOUS
<1>0. Typed /\ \A t \in Threads : Holds(t)
  BY DEF IInv
<1>1. ASSUME NEW t \in Threads, TestLimiter(t) PROVE IInv'
  <2>1. Typed'
    BY <1>0, <1>1 DEF Typed, TestLimiter, request, history
  <2>2. \A s \in Threads : Holds(s)'
    BY <1>0, <1>1 DEF Typed, Holds, TestLimiter, request
  <2>3. \A l \in Threads, k \in Customers : Fresh(l, k)' /\ Sound(l, k)'
    BY <1>0, <1>1, BucketsKept DEF TestLimiter, history, Typed
  <2> QED
    BY <1>1, <2>1, <2>2, <2>3 DEF IInv, TestLimiter, history
<1>2. ASSUME NEW t \in Threads, MakeLimiter(t) PROVE IInv'
  <2>0. Goto(t, "missing", "found")
    BY <1>2 DEF MakeLimiter
  <2>1. Typed'
    BY <1>0, <1>2, <2>0, GotoTyped DEF Typed, MakeLimiter, request, history
  <2>2. \A s \in Threads : Holds(s)'
    BY <1>0, <1>2, <2>0, GotoTyped, NoneAssumption DEF Holds, MakeLimiter, request
  <2>3. \A l \in Threads, k \in Customers : Fresh(l, k)' /\ Sound(l, k)'
    BY <1>0, <1>2, BucketsKept DEF MakeLimiter, history, Typed
  <2> QED
    BY <1>2, <2>1, <2>2, <2>3 DEF IInv, MakeLimiter, history
<1>3. ASSUME NEW t \in Threads, ReturnLimiter(t) PROVE IInv'
  <2>0. Goto(t, "found", "limited")
    BY <1>3 DEF ReturnLimiter
  <2>1. Typed'
    BY <1>0, <1>3, <2>0, GotoTyped DEF Typed, ReturnLimiter, history
  <2>2. limiter \in Threads
    BY <1>0, <2>0 DEF Holds, Typed, Goto
  <2>3. mine'[t] = limiter /\ \A s \in Threads \ {t} : mine'[s] = mine[s]
    BY <1>0, <1>3 DEF Typed, ReturnLimiter
  <2>4. \A s \in Threads : Holds(s)'
    BY <1>0, <1>3, <2>0, <2>2, <2>3, GotoTyped DEF Holds, ReturnLimiter
  <2>5. \A l \in Threads, k \in Customers : Fresh(l, k)' /\ Sound(l, k)'
    BY <1>0, <1>3, BucketsKept DEF ReturnLimiter, history, Typed
  <2> QED
    BY <1>3, <2>1, <2>4, <2>5 DEF IInv, ReturnLimiter, history
<1>4. ASSUME NEW t \in Threads, Unauthorized(t) PROVE IInv'
  <2>0. Goto(t, "limited", "idle")
    BY <1>4 DEF Unauthorized
  <2>1. Typed'
    BY <1>0, <1>4, <2>0, GotoTyped DEF Typed, Unauthorized, Forget, history
  <2>2. \A s \in Threads : Holds(s)'
    BY <1>0, <1>4, <2>0, GotoTyped DEF Typed, Holds, Unauthorized, Forget
  <2>3. \A l \in Threads, k \in Customers : Fresh(l, k)' /\ Sound(l, k)'
    BY <1>0, <1>4, BucketsKept DEF Unauthorized, history, Typed
  <2> QED
    BY <1>4, <2>1, <2>2, <2>3 DEF IInv, Unauthorized, history
<1>5. ASSUME NEW t \in Threads, NEW c \in Customers, ReadClock(t, c) PROVE IInv'
  <2>0. Goto(t, "limited", "timed")
    BY <1>5 DEF ReadClock
  <2>1. Typed'
    BY <1>0, <1>5, <2>0, GotoTyped DEF Typed, ReadClock, history
  <2>2. \A s \in Threads : Holds(s)'
    BY <1>0, <1>5, <2>0, GotoTyped DEF Typed, Holds, ReadClock
  <2>3. \A l \in Threads, k \in Customers : Fresh(l, k)' /\ Sound(l, k)'
    BY <1>0, <1>5, BucketsKept DEF ReadClock, history, Typed
  <2> QED
    BY <1>5, <2>1, <2>2, <2>3 DEF IInv, ReadClock, history
<1>6. ASSUME NEW t \in Threads, Check(t) PROVE IInv'
  <2> DEFINE to == IF Refill(Found(mine[t], customer[t], now[t]), customer[t], now[t]) >= Minute
                   THEN "admitted" ELSE "refused"
             new == Charge(Found(mine[t], customer[t], now[t]), customer[t], now[t])
  <2>0. Goto(t, "timed", to) /\ to \in {"admitted", "refused"}
    BY <1>6 DEF Check
  <2>1. mine[t] \in Threads /\ customer[t] \in Customers /\ now[t] \in Nat
    BY <1>0, <2>0 DEF Holds, Goto
  <2>2. new \in Buckets
    <3>1. Refill(Found(mine[t], customer[t], now[t]), customer[t], now[t]) \in Int
      BY <2>0, FoundSound DEF Goto
    <3> QED
      BY <2>1, <3>1, MinuteAssumption DEF Charge, Buckets
  <2>3. /\ bucket' = [bucket EXCEPT ![mine[t]][customer[t]] = new]
        /\ \E x \in Nat :
             admitted' = [admitted EXCEPT ![mine[t]][customer[t]] = x]
        /\ decided' = [decided EXCEPT ![mine[t]][customer[t]] = clock]
    <3> DEFINE n == admitted[mine[t]][customer[t]]
               x == IF to = "admitted" /\ opened # Never /\ now[t] >= opened
                    THEN n + 1 ELSE n
    <3>1. n \in Nat
      BY <1>0, <2>1 DEF Typed
    <3>2. admitted' = [admitted EXCEPT ![mine[t]][customer[t]] = x]
      BY <1>6 DEF Check
    <3>3. x \in Nat
      BY <3>1
    <3>4. bucket' = [bucket EXCEPT ![mine[t]][customer[t]] = new]
          /\ decided' = [decided EXCEPT ![mine[t]][customer[t]] = clock]
      BY <1>6 DEF Check
    <3> HIDE DEF x
    <3> QED
      BY <3>2, <3>3, <3>4
  <2>4. Typed'
    <3>1. bucket' \in [Threads -> [Customers -> Buckets]]
      BY <1>0, <2>1, <2>2, <2>3 DEF Typed
    <3>2. admitted' \in [Threads -> [Customers -> Nat]]
      BY <1>0, <2>1, <2>3 DEF Typed
    <3>3. decided' \in [Threads -> [Customers -> Nat \union {Never}]]
      BY <1>0, <2>1, <2>3 DEF Typed
    <3> QED
      BY <1>0, <1>6, <2>0, <3>1, <3>2, <3>3, GotoTyped DEF Typed, Check, Forget
  <2>5. \A s \in Threads : Holds(s)'
    BY <1>0, <1>6, <2>0, GotoTyped DEF Typed, Holds, Check, Forget
  <2>6. ASSUME NEW l \in Threads, NEW k \in Customers
        PROVE  Fresh(l, k)' /\ Sound(l, k)'
    <3>1. CASE l = mine[t] /\ k = customer[t]
      BY <1>6, <3>1, CheckSound
    <3>2. CASE l # mine[t] \/ k # customer[t]
      <4>1. bucket'[l][k] = bucket[l][k]
        BY <1>0, <2>1, <2>3, <3>2 DEF Typed
      <4>2. admitted'[l][k] = admitted[l][k]
        BY <1>0, <2>1, <2>3, <3>2 DEF Typed
      <4>3. decided'[l][k] = decided[l][k]
        BY <1>0, <2>1, <2>3, <3>2 DEF Typed
      <4>4. clock' = clock /\ opened' = opened
        BY <1>6 DEF Check
      <4>5. Fresh(l, k) /\ Sound(l, k)
        BY DEF IInv
      <4> QED
        BY <4>1, <4>2, <4>3, <4>4, <4>5 DEF Fresh, Sound
    <3> QED
      BY <3>1, <3>2
  <2> QED
    BY <1>6, <2>4, <2>5, <2>6 DEF IInv, Check
<1>7. CASE Tick
  <2>1. Typed' /\ clock <= clock' /\ clock' \in Nat
    BY <1>0, <1>7 DEF Typed, Tick, request, history
  <2>2. \A s \in Threads : Holds(s)'
    BY <1>0, <1>7 DEF Typed, Holds, Tick, request
  <2>3. \A l \in Threads, k \in Customers : Fresh(l, k)' /\ Sound(l, k)'
    BY <1>7, <2>1, BucketsKept DEF Tick, history
  <2> QED
    BY <1>7, <2>1, <2>2, <2>3 DEF IInv, Tick, history, Typed
<1>8. CASE OpenWindow
  <2>1. Typed' /\ clock' = clock
    BY <1>0, <1>8 DEF Typed, OpenWindow, request
  <2>2. \A s \in Threads : Holds(s)'
    BY <1>0, <1>8 DEF Holds, OpenWindow, request
  <2>3. ASSUME NEW l \in Threads, NEW k \in Customers
        PROVE  Fresh(l, k)' /\ Sound(l, k)'
    <3>1. Fresh(l, k) /\ Sound(l, k)
      BY DEF IInv
    <3> QED
      BY <1>8, <3>1 DEF Fresh, Sound, OpenWindow
  <2> QED
    BY <1>0, <1>8, <2>1, <2>2, <2>3 DEF IInv, OpenWindow, Typed
<1>9. CASE UNCHANGED vars
  BY <1>9 DEF vars, request, history, IInv, Typed, Holds, Fresh, Sound
<1> QED
  BY <1>1, <1>2, <1>3, <1>4, <1>5, <1>6, <1>7, <1>8, <1>9 DEF Next

THEOREM Invariance == Spec => []IInv
<1>1. Init => IInv
  BY InitIInv
<1>2. IInv /\ [Next]_vars => IInv'
  BY NextIInv
<1> QED
  BY <1>1, <1>2, PTL DEF Spec

-----------------------------------------------------------------------------
\* The variables of RateLimiter keep their types and no bucket overflows.
THEOREM TypeCorrect == Spec => []TypeOK
<1>1. IInv => TypeOK
  <2> SUFFICES ASSUME IInv PROVE TypeOK
    OBVIOUS
  <2>1. ASSUME NEW l \in Threads, NEW k \in Customers
        PROVE  bucket[l][k].tokens <= Capacity(k)
    <3>1. Sound(l, k) /\ Capacity(k) \in Nat
      BY LimitType DEF IInv
    <3> QED
      BY <3>1 DEF Sound, NoBucket
  <2> QED
    BY <2>1 DEF IInv, Typed, TypeOK, Buckets
<1> QED
  BY <1>1, Invariance, PTL

\* A sound bucket bounds what was admitted since the window was opened.
LEMMA SoundBounds ==
  ASSUME IInv, NEW l \in Threads, NEW k \in Customers
  PROVE  WindowBound(l, k)
<1> DEFINE b == bucket[l][k]
           n == admitted[l][k]
           d == decided[l][k]
           L == Limit(k)
           C == Capacity(k)
<1> SUFFICES ASSUME opened # Never
             PROVE  Minute * n <= C + L * (clock - opened)
  BY DEF WindowBound
<1>1. /\ L \in Nat /\ C \in Nat /\ Minute \in Nat /\ n \in Nat
      /\ clock \in Nat /\ opened \in Nat /\ opened <= clock
  BY LimitType DEF IInv, Typed
<1>2. CASE n = 0
  <2>1. L * (clock - opened) >= 0 /\ Minute * n = 0
    BY <1>1, <1>2
  <2> QED
    BY <1>1, <2>1
<1>3. CASE n > 0
  <2>1. b # NoBucket
    BY <1>3 DEF IInv, Fresh
  <2>2. /\ b.updated \in Nat /\ d \in Nat /\ d <= clock /\ b.tokens \in Int
        /\ b.tokens + L * (d - b.updated) >= 0
        /\ b.tokens + Minute * n <= C + L * (b.updated - opened)
    BY <1>1, <1>3, <2>1 DEF IInv, Sound, Typed, Buckets
  <2> DEFINE u == b.updated
             x == b.tokens
  <2> HIDE DEF n, d, L, C, u, x
  <2>3. /\ u \in Nat /\ x \in Int
        /\ x + L * (d - u) >= 0
        /\ x + Minute * n <= C + L * (u - opened)
    BY <2>2 DEF u, x
  <2>4. /\ L * (d - u) = L * d - L * u
        /\ L * (u - opened) = L * u - L * opened
        /\ L * (clock - opened) = L * clock - L * opened
        /\ L * d <= L * clock
    BY <1>1, <2>2, <2>3
  <2>5. /\ L * u \in Int /\ L * d \in Int /\ L * opened \in Int /\ L * clock \in Int
        /\ Minute * n \in Int
    BY <1>1, <2>2, <2>3
  <2> QED
    BY <1>1, <2>3, <2>4, <2>5
<1> QED
  BY <1>1, <1>2, <1>3

\* In any window of time a limiter admits, of the requests that read the clock
\* in it, no more than a full bucket and the refill of the window.
THEOREM LimitHeld == Spec => []LimitHolds
<1>1. IInv => LimitHolds
  BY SoundBounds DEF LimitHolds
<1> QED
  BY <1>1, Invariance, PTL

\* A request that is refused came within a minute of a decision.
LEMMA RefusedRecently ==
  ASSUME IInv, NEW t \in Threads, Check(t), pc'[t] = "refused"
  PROVE  /\ bucket[mine[t]][customer[t]] # NoBucket
         /\ now[t] < decided[mine[t]][customer[t]] + Minute
<1> DEFINE l  == mine[t]
           k  == customer[t]
           at == now[t]
           b  == Found(l, k, at)
           r  == Refill(b, k, at)
           d  == decided[l][k]
           L  == Limit(k)
           C  == Capacity(k)
<1>1. pc[t] = "timed"
  BY DEF Check, Goto
<1>2. ~ (r >= Minute)
  BY DEF Check, Goto, IInv, Typed
<1>3. /\ l \in Threads /\ k \in Customers /\ at \in Nat
      /\ b \in Buckets /\ b.updated \in Nat /\ r \in Int
  BY <1>1, FoundSound
<1>4. L \in Nat /\ Minute \in Nat /\ C \in Nat /\ C = L * Minute /\ Minute <= C
  BY <1>3, LimitType
<1>5. b.tokens \in Int
  BY <1>3 DEF Buckets
<1>6. r = C \/ r = b.tokens + (at - b.updated) * L
  BY DEF Refill, Least
<1>7. r # C
  BY <1>2, <1>4
<1>8. bucket[l][k] # NoBucket
  <2> SUFFICES ASSUME bucket[l][k] = NoBucket PROVE FALSE
    OBVIOUS
  <2>1. b.tokens = C /\ b.updated = at
    BY DEF Found
  <2>2. (at - b.updated) * L = 0
    BY <1>3, <1>4, <2>1
  <2> QED
    BY <1>4, <1>6, <1>7, <2>1, <2>2
<1>9. at < d + Minute
  <2> SUFFICES ASSUME ~ (at < d + Minute) PROVE FALSE
    OBVIOUS
  <2>1. b = bucket[l][k]
    BY <1>8 DEF Found
  <2>2. d \in Nat /\ b.tokens + L * (d - b.updated) >= 0
    BY <1>3, <1>8, <2>1 DEF IInv, Sound
  <2> DEFINE u == b.updated
             x == b.tokens
  <2>3. /\ u \in Nat /\ x \in Int /\ x + L * (d - u) >= 0
        /\ r = x + (at - u) * L
    BY <1>3, <1>5, <1>6, <1>7, <2>2
  <2> HIDE DEF u, x, r, L, C, d, at
  <2>4. /\ L * (d - u) = L * d - L * u /\ (at - u) * L = L * at - L * u
        /\ L * (d + Minute) = L * d + L * Minute /\ L * (d + Minute) <= L * at
    BY <1>3, <1>4, <2>2, <2>3
  <2>5. /\ L * u \in Int /\ L * d \in Int /\ L * at \in Int /\ L * Minute \in Int
    BY <1>3, <1>4, <2>2, <2>3
  <2>6. r >= L * Minute
    BY <2>3, <2>4, <2>5
  <2> QED
    BY <1>2, <1>3, <1>4, <2>6
<1> QED
  BY <1>8, <1>9

\* Waiting for the minute that the 429 asks for is enough.
THEOREM RetryAfter == Spec => RetryAfterHonoured
<1> DEFINE Recent ==
      \A t \in Threads :
        pc[t] = "timed" /\ pc'[t] = "refused"
        => /\ bucket[mine[t]][customer[t]] # NoBucket
           /\ now[t] < decided[mine[t]][customer[t]] + Minute
<1>1. IInv /\ [Next]_vars => Recent
  <2> SUFFICES ASSUME IInv, Next, NEW t \in Threads,
                      pc[t] = "timed", pc'[t] = "refused"
               PROVE  /\ bucket[mine[t]][customer[t]] # NoBucket
                      /\ now[t] < decided[mine[t]][customer[t]] + Minute
    BY DEF vars
  <2>1. pc \in [Threads -> {"idle", "missing", "found", "limited", "timed",
                            "admitted", "refused"}]
    BY DEF IInv, Typed
  <2>2. Check(t)
    BY <2>1 DEF Next, TestLimiter, MakeLimiter, ReturnLimiter, Unauthorized, ReadClock,
                Check, Tick, OpenWindow, Goto
  <2> QED
    BY <2>2, RefusedRecently
<1> QED
  BY <1>1, Invariance, PTL DEF Spec, RetryAfterHonoured

-----------------------------------------------------------------------------
(* One limiter, once it is settled *)

\* What a step does to the other limiters' buckets.
OthersIdle == \A l \in Threads \ {limiter} : bucket'[l] = bucket[l] /\ admitted'[l] = admitted[l]

LEMMA SettledStep ==
  ASSUME IInv, Settled, [Next]_vars
  PROVE  Settled' /\ limiter' = limiter /\ OthersIdle
<1>0. Typed
  BY DEF IInv
<1>1. limiter # None /\ \A t \in Threads : pc[t] # "missing" /\ mine[t] \in {None, limiter}
  BY DEF Settled
<1>2. ASSUME NEW t \in Threads, Check(t) PROVE Settled' /\ limiter' = limiter /\ OthersIdle
  <2>1. mine[t] = limiter
    BY <1>1, <1>2, NoneAssumption DEF IInv, Holds, Check, Goto
  <2>2. \E to \in {"admitted", "refused"} : pc' = [pc EXCEPT ![t] = to]
    BY <1>2 DEF Check, Goto
  <2>3. limiter' = limiter /\ mine' = [mine EXCEPT ![t] = None]
    BY <1>2 DEF Check, Forget
  <2>4. /\ \E x : bucket' = [bucket EXCEPT ![limiter] = x]
        /\ \E x : admitted' = [admitted EXCEPT ![limiter] = x]
    BY <1>2, <2>1 DEF Check
  <2>5. OthersIdle
    BY <1>0, <2>4 DEF OthersIdle, Typed
  <2>6. Settled'
    BY <1>0, <1>1, <2>2, <2>3 DEF Settled, Typed
  <2> QED
    BY <2>3, <2>5, <2>6
<1>3. ASSUME UNCHANGED <<bucket, admitted>>,
             \/ UNCHANGED vars \/ Tick \/ OpenWindow
             \/ \E t \in Threads : \/ TestLimiter(t) \/ MakeLimiter(t) \/ ReturnLimiter(t)
                                   \/ Unauthorized(t) \/ \E k \in Customers : ReadClock(t, k)
      PROVE  Settled' /\ limiter' = limiter /\ OthersIdle
  <2>1. limiter' = limiter
    BY <1>1, <1>3 DEF vars, Tick, OpenWindow, TestLimiter, MakeLimiter, ReturnLimiter,
       Unauthorized, ReadClock, Goto
  <2>2. \A t \in Threads : pc'[t] # "missing"
    BY <1>0, <1>1, <1>3 DEF vars, Tick, OpenWindow, TestLimiter, MakeLimiter, ReturnLimiter,
       Unauthorized, ReadClock, Goto, Typed
  <2>3. \A t \in Threads : mine'[t] \in {None, limiter}
    BY <1>0, <1>1, <1>3 DEF vars, request, Tick, OpenWindow, TestLimiter, MakeLimiter,
       ReturnLimiter, Unauthorized, ReadClock, Forget, Typed
  <2> QED
    BY <1>1, <1>3, <2>1, <2>2, <2>3 DEF Settled, OthersIdle
<1> QED
  BY <1>2, <1>3 DEF Next, vars, history, Tick, OpenWindow, TestLimiter, MakeLimiter,
     ReturnLimiter, Unauthorized, ReadClock

\* Once the first requests are over, the service has one limiter for good.
THEOREM OneLimiter == Spec => OneLimiterOnceSettled
<1> DEFINE A == Settled => /\ Settled'
                           /\ \A l \in Threads \ {limiter} :
                                bucket'[l] = bucket[l] /\ admitted'[l] = admitted[l]
<1>1. IInv /\ [Next]_vars => A
  BY SettledStep DEF OthersIdle
<1> QED
  BY <1>1, Invariance, PTL DEF Spec, OneLimiterOnceSettled

\* In a window opened since, only the one limiter has admitted anything.
OneAdmits == Settled /\ \A l \in Threads \ {limiter}, k \in Customers : admitted[l][k] = 0

\* Where OneBucketPerCustomer fails, two first requests made limiters at once:
\* in every window that is opened when the limiter is settled, a customer has
\* one bucket, whatever the threads do.
THEOREM OneBucketOnceSettled == Spec => [](Settled /\ opened = Never => []OneBucketPerCustomer)
<1>1. IInv /\ Settled /\ opened = Never => OneAdmits
  <2> SUFFICES ASSUME IInv, opened = Never, NEW l \in Threads, NEW k \in Customers
               PROVE  admitted[l][k] = 0
    BY DEF OneAdmits
  <2>1. Fresh(l, k) /\ Sound(l, k)
    BY DEF IInv
  <2> QED
    BY <2>1 DEF Fresh, Sound
<1>2. IInv /\ OneAdmits /\ [Next]_vars => OneAdmits'
  BY SettledStep DEF OneAdmits, OthersIdle
<1>3. IInv /\ LimitHolds /\ OneAdmits => OneBucketPerCustomer
  <2> SUFFICES ASSUME IInv, LimitHolds, OneAdmits, NEW l \in Threads, NEW m \in Threads,
                      NEW k \in Customers, l # m, opened # Never
               PROVE  Minute * (admitted[l][k] + admitted[m][k])
                        <= Capacity(k) + Limit(k) * (clock - opened)
    BY DEF OneBucketPerCustomer
  <2>1. admitted[l][k] \in Nat /\ admitted[m][k] \in Nat
    BY DEF IInv, Typed
  <2>2. PICK n \in {l, m} : admitted[l][k] + admitted[m][k] = admitted[n][k]
    BY <2>1 DEF OneAdmits
  <2>3. WindowBound(n, k)
    BY DEF LimitHolds
  <2> QED
    BY <2>2, <2>3 DEF WindowBound
<1> QED
  BY <1>1, <1>2, <1>3, Invariance, LimitHeld, PTL DEF Spec

=============================================================================
