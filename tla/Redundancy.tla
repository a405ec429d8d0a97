----------------------------- MODULE Redundancy -----------------------------
(***************************************************************************)
(* What the router promises its caller, whatever the redundancy mode: the  *)
(* reply to a request is one of the best successful results that were      *)
(* gathered for it, and there is no result in the reply only when there    *)
(* was none to gather (README "Redundancy modes"; RoutedResult, router.py).*)
(***************************************************************************)
EXTENDS Integers

CONSTANTS Requests,     \* the optimization requests
          Engines,      \* the optimization engines
          Scores        \* the values of the selection metric and of the depth

VARIABLES stage,        \* stage[r]: how far request r has come
          gathered,     \* gathered[r]: the successful results in hand for r
          reply         \* reply[r]: the result the caller gets, or none

avars == <<stage, gathered, reply>>

Result == [engine : Engines, score : Scores, depth : Scores]
NoResult == [engine |-> "none", score |-> 0, depth |-> 0]

\* The router's order on results: the selection metric, then the depth.
Beats(a, b) == \/ a.score < b.score
               \/ a.score = b.score /\ a.depth < b.depth

BestOf(S) == {a \in S : \A b \in S : ~ Beats(b, a)}

AInit == /\ stage    = [r \in Requests |-> "idle"]
         /\ gathered = [r \in Requests |-> {}]
         /\ reply    = [r \in Requests |-> NoResult]

Receive(r) == /\ stage[r] = "idle"
              /\ stage' = [stage EXCEPT ![r] = "working"]
              /\ UNCHANGED <<gathered, reply>>

\* The request names an engine the router does not have.
Refuse(r) == /\ stage[r] = "idle"
             /\ stage' = [stage EXCEPT ![r] = "refused"]
             /\ UNCHANGED <<gathered, reply>>

Gather(r) == /\ stage[r] = "working"
             /\ \E a \in Result : gathered' = [gathered EXCEPT ![r] = @ \union {a}]
             /\ UNCHANGED <<stage, reply>>

Reply(r) == /\ stage[r] = "working"
            /\ stage' = [stage EXCEPT ![r] = "replied"]
            /\ \/ /\ gathered[r] = {}
                  /\ UNCHANGED reply
               \/ \E a \in BestOf(gathered[r]) : reply' = [reply EXCEPT ![r] = a]
            /\ UNCHANGED gathered

ANext == \E r \in Requests : Receive(r) \/ Refuse(r) \/ Gather(r) \/ Reply(r)

ASpec == AInit /\ [][ANext]_avars
=============================================================================
