------------------------------ MODULE MCRouter ------------------------------
(* Router with small sets of requests, inputs and qualities for TLC. *)
EXTENDS Router, TLC

CONSTANTS r1, r2

MCRequests == {r1, r2}
MCWorkers  == 1
MCMetrics  == {[score |-> 1, depth |-> 2], [score |-> 2, depth |-> 1], [score |-> 2, depth |-> 2]}

In(req, m, p, q, l) == [requested |-> req, mode |-> m, primary |-> p, qmod |-> q, large |-> l]

\* One request takes every way through the router, on any input; the other
\* runs one engine and competes with it for the only thread.
MCInputs ==
  (r1 :> Input) @@
  (r2 :> {In(CLASSIQ, "single", IBM, FALSE, FALSE)})

=============================================================================
