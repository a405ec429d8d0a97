----------------------------- MODULE MCAccounts -----------------------------
(* Accounts with two accounts, neither of them listed as an admin's. *)
EXTENDS Accounts, TLC

CONSTANTS u1, u2, r1, r2, r3, r4

MCUsers    == {u1, u2}
MCRequests == {r1, r2, r3, r4}
MCAdmins   == {}
Symmetry   == Permutations(MCUsers) \union Permutations(MCRequests)

=============================================================================
