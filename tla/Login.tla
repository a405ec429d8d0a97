------------------------------- MODULE Login -------------------------------
(***************************************************************************)
(* What the dashboard promises about sign-ins: a token that is issued is   *)
(* on its way to the browser, then it is the stored session or is spent,   *)
(* and a token that was replaced, logged out or lost never comes back.     *)
(* Tabs, calls, answers and accounts do not show.                          *)
(***************************************************************************)
CONSTANT Tokens

VARIABLE place      \* place[k]: unissued, coming, stored or spent

LInit == place = [k \in Tokens |-> "unissued"]

SignIn(k) == /\ place[k] = "unissued"
             /\ place' = [place EXCEPT ![k] = "coming"]

\* The session that was stored, if any, is replaced.
Arrive(k) == /\ place[k] = "coming"
             /\ place' = [l \in Tokens |-> IF l = k THEN "stored"
                                           ELSE IF place[l] = "stored" THEN "spent" ELSE place[l]]

\* A log-out, a refusal or a failure; one answer may end a session and a sign-in.
Drop(S) == /\ \A k \in S : place[k] \in {"coming", "stored"}
           /\ place' = [k \in Tokens |-> IF k \in S THEN "spent" ELSE place[k]]

LNext == \/ \E k \in Tokens : SignIn(k) \/ Arrive(k)
         \/ \E S \in SUBSET Tokens : Drop(S)

LSpec == LInit /\ [][LNext]_place
=============================================================================
