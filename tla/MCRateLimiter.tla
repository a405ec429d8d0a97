--------------------------- MODULE MCRateLimiter ---------------------------
(* RateLimiter with two threads, one customer and a minute of three ticks: *)
(* customers share nothing but the limiter itself.                         *)
EXTENDS RateLimiter, TLC

CONSTANTS t1, t2, k1

MCThreads   == {t1, t2}
MCCustomers == {k1}
MCPerMinute == k1 :> 0
Symmetry    == Permutations(MCThreads)

=============================================================================
