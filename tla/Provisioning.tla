---------------------------- MODULE Provisioning ----------------------------
(***************************************************************************)
(* What accounts and API promise each other about keys: an attempt to      *)
(* provision an account offers a key for a customer that the API then      *)
(* makes or gives up; of one account, only one attempt at a time holds the *)
(* customer, and the account keeps a key only of its own attempts and      *)
(* never one that works in the place of another that does.  Requests,      *)
(* statements, answers and their losses do not show.                       *)
(***************************************************************************)

CONSTANTS Users,        \* the accounts
          Requests,     \* the attempts; each one's key is its own
          None

VARIABLES owner,    \* owner[r]: the account that attempt r is for
          fate,     \* fate[r]: what became of its customer
          key       \* key[u]: the attempt whose key the account keeps

pvars == <<owner, fate, key>>

PInit == /\ owner = [r \in Requests |-> None]
         /\ fate  = [r \in Requests |-> "none"]
         /\ key   = [u \in Users |-> None]

\* The customer's transaction holds the account's place at the API, or has it.
Holds(r) == fate[r] \in {"offered", "made"}

Becomes(r, f) == /\ fate' = [fate EXCEPT ![r] = f]
                 /\ UNCHANGED <<owner, key>>

Ask(r) == /\ owner[r] = None
          /\ \E u \in Users : owner' = [owner EXCEPT ![r] = u]
          /\ UNCHANGED <<fate, key>>

Offer(r) == /\ owner[r] # None /\ fate[r] = "none"
            /\ \A s \in Requests : s # r /\ Holds(s) => owner[s] # owner[r]
            /\ Becomes(r, "offered")

Make(r) == fate[r] = "offered" /\ Becomes(r, "made")

Void(r) == owner[r] # None /\ fate[r] \in {"none", "offered"} /\ Becomes(r, "void")

\* A key in hand gives way only if it, or the new one, has come to nothing.
Keep(r) == LET old == key[owner[r]] IN
           /\ owner[r] # None /\ fate[r] # "none"
           /\ old = None \/ "void" \in {fate[r], fate[old]}
           /\ key' = [key EXCEPT ![owner[r]] = r]
           /\ UNCHANGED <<owner, fate>>

PNext == \E r \in Requests : Ask(r) \/ Offer(r) \/ Make(r) \/ Void(r) \/ Keep(r)

PSpec == PInit /\ [][PNext]_pvars
=============================================================================
