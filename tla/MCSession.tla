----------------------------- MODULE MCSession -----------------------------
(* Two accounts, one sign-in each, two calls in flight. *)
EXTENDS Session
CONSTANTS ann, bob, k1, k2
MCUsers == {ann, bob}
MCOwner == [k \in Tokens |-> IF k = k1 THEN ann ELSE bob]
=============================================================================
