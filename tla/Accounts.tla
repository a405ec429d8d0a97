------------------------------ MODULE Accounts ------------------------------
(***************************************************************************)
(* The accounts service (accounts/internal/httpapi, store) and the internal *)
(* API it provisions QCaaS customers with (qcaas/api/internal.py): sign-up, *)
(* API keys, and the changes admins make to accounts.  Handlers run        *)
(* concurrently, each of their database statements is a step, no statement *)
(* is in a transaction with another; a handler may be given up and a call  *)
(* or its answer lost at every step, because the browser went away, a      *)
(* service died or 30 seconds have passed.                                 *)
(***************************************************************************)

CONSTANTS Users,        \* accounts, by their e-mail address
          Requests,     \* HTTP requests; a provisioning r may create customer r
          AdminEmails,  \* cfg.AdminEmails
          None

ASSUME AdminEmailsAssumption == AdminEmails \subseteq Users
ASSUME NoneAssumption == None \notin Users \union Requests

VARIABLES
  user,      \* user[u]: the account's row in the accounts database
  request,   \* request[r]: the handler of r, its caller, its input, what it read
  customer   \* customer[r]: the API's call that r made, and the customer's row

vars == <<user, request, customer>>

NoUser    == [role |-> "none", active |-> FALSE, key |-> None]
NoRequest == [at |-> "new", user |-> None, target |-> None,
              role |-> "same", active |-> "same", seen |-> None]

Init ==
  /\ user     = [u \in Users |-> NoUser]
  /\ request  = [r \in Requests |-> NoRequest]
  /\ customer = [r \in Requests |-> [state |-> "none", active |-> TRUE]]

Registered(u) == user[u].role # "none"
IsAdmin(u)    == user[u].role = "admin" /\ user[u].active

At(r, place)   == request[r].at = place
Goto(r, place) == request' = [request EXCEPT ![r].at = place]

\* A handler that waits for something gets an error, or is given up.
GiveUp(r) ==
  /\ request[r].at \notin {"new", "done", "failed"}
  /\ Goto(r, "failed")
  /\ UNCHANGED <<user, customer>>

-----------------------------------------------------------------------------
(* Sign-up, by password or by an identity provider *)

\* The role a new account is to have; an error counting makes it a customer.
CountAdmins(r, u) ==
  /\ At(r, "new")
  /\ \E role \in IF u \in AdminEmails THEN {"admin"}
                 ELSE IF AdminEmails = {} /\ ~ \E a \in Users : IsAdmin(a)
                 THEN {"admin", "customer"} ELSE {"customer"} :
       request' = [request EXCEPT ![r] =
         [NoRequest EXCEPT !.at = "counted", !.user = u, !.role = role]]
  /\ UNCHANGED <<user, customer>>

\* The address is unique: a second registration of it is refused.
CreateUser(r) ==
  /\ At(r, "counted") /\ ~ Registered(request[r].user)
  /\ user' = [user EXCEPT ![request[r].user] =
       [NoUser EXCEPT !.role = request[r].role, !.active = TRUE]]
  /\ Goto(r, "done")
  /\ UNCHANGED customer

-----------------------------------------------------------------------------
(* POST /me/api-key *)

\* The caller's row is read once, by authenticate; with a key, it is revealed
\* and nothing changes.
ProvisionKey(r, u) ==
  /\ At(r, "new") /\ Registered(u) /\ user[u].active /\ user[u].key = None
  /\ request' = [request EXCEPT ![r] = [NoRequest EXCEPT !.at = "asked", !.user = u]]
  /\ customer' = [customer EXCEPT ![r].state = "asked"]
  /\ UNCHANGED user

\* The states of the other calls for the same external_id.
OthersOf(r) == {customer[s].state : s \in {s \in Requests \ {r} : request[s].user = request[r].user}}

\* external_id is not in the API's customers, as this transaction sees them;
\* otherwise it answers 409.
FindExternalId(r) ==
  /\ customer[r].state = "asked"
  /\ customer' = [customer EXCEPT ![r].state =
       IF "committed" \in OthersOf(r) THEN "gone" ELSE "selected"]
  /\ UNCHANGED <<user, request>>

\* Mutant: external_id has no unique index.
FlushAlways(r) ==
  /\ customer[r].state = "selected"
  /\ customer' = [customer EXCEPT ![r].state = "flushed"]
  /\ UNCHANGED <<user, request>>

\* Mutant: ON CONFLICT DO NOTHING, and the answer has a key all the same.
FlushIgnoring(r) ==
  /\ customer[r].state = "selected"
  /\ OthersOf(r) \intersect {"flushed", "replied"} = {}
  /\ customer' = [customer EXCEPT ![r].state = "flushed"]
  /\ UNCHANGED <<user, request>>

\* The insert waits for one with the same external_id that is not committed
\* yet, and is refused if one is.
FlushCustomer(r) ==
  /\ customer[r].state = "selected"
  /\ OthersOf(r) \intersect {"flushed", "replied"} = {}
  /\ customer' = [customer EXCEPT ![r].state =
       IF "committed" \in OthersOf(r) THEN "gone" ELSE "flushed"]
  /\ UNCHANGED <<user, request>>

\* The answer is sent before the transaction is committed; it finds the
\* handler that asked, unless that was given up.
ReplyCustomer(r) ==
  /\ customer[r].state = "flushed"
  /\ customer' = [customer EXCEPT ![r].state = "replied"]
  /\ \/ At(r, "asked") /\ Goto(r, "answered")
     \/ UNCHANGED request
  /\ UNCHANGED user

CommitCustomer(r) ==
  /\ customer[r].state = "replied"
  /\ customer' = [customer EXCEPT ![r].state = "committed"]
  /\ UNCHANGED <<user, request>>

\* The call does not arrive, fails, or its transaction is rolled back.
LoseCustomer(r) ==
  /\ customer[r].state \in {"asked", "selected", "flushed", "replied"}
  /\ customer' = [customer EXCEPT ![r].state = "gone"]
  /\ UNCHANGED <<user, request>>

\* Mutant: the UPDATE has no WHERE clause.
SetEveryAPIKey(r) ==
  /\ At(r, "answered")
  /\ user' = [u \in Users |-> [user[u] EXCEPT !.key = r]]
  /\ Goto(r, "done")
  /\ UNCHANGED customer

\* The key is written whatever the row has by now.
SetAPIKey(r) ==
  /\ At(r, "answered")
  /\ user' = [user EXCEPT ![request[r].user].key = r]
  /\ Goto(r, "done")
  /\ UNCHANGED customer

-----------------------------------------------------------------------------
(* PATCH /admin/users/{id} *)

\* Mutant: the role is not validated.
AnyRole == {"same", "customer", "admin", "owner"}

RoleInputs   == {"same", "customer", "admin"}
ActiveInputs == {"same", "yes", "no"}

\* Mutant: only disabling is guarded.
SelfDisabled(u, target, role, active) == target = u /\ active = "no"

SelfLockout(u, target, role, active) ==
  target = u /\ (active = "no" \/ role = "customer")

\* requireRole reads the caller's row once, and the input is checked.
AdmitAdmin(r, u) ==
  /\ At(r, "new") /\ IsAdmin(u)
  /\ \E target \in Users, role \in RoleInputs, active \in ActiveInputs :
       /\ ~ SelfLockout(u, target, role, active)
       /\ request' = [request EXCEPT ![r] =
            [at |-> "admitted", user |-> u, target |-> target,
             role |-> role, active |-> active, seen |-> None]]
  /\ UNCHANGED <<user, customer>>

ReadTarget(r) ==
  /\ At(r, "admitted") /\ Registered(request[r].target)
  /\ request' = [request EXCEPT ![r].at = "found",
                                ![r].seen = user[request[r].target].key]
  /\ UNCHANGED <<user, customer>>

\* UpdateUser: each column that is given is written by a statement of its own.
WriteRole(r) ==
  /\ At(r, "found")
  /\ user' = IF request[r].role = "same" THEN user
             ELSE [user EXCEPT ![request[r].target].role = request[r].role]
  /\ Goto(r, "ranked")
  /\ UNCHANGED customer

WriteActive(r) ==
  /\ At(r, "ranked")
  /\ user' = IF request[r].active = "same" THEN user
             ELSE [user EXCEPT ![request[r].target].active = (request[r].active = "yes")]
  /\ Goto(r, "written")
  /\ UNCHANGED customer

\* The customer's row follows, if the account had one when it was read.  A
\* customer that is not committed is not found; an error is only logged.
MirrorActive(r) ==
  /\ At(r, "written")
  /\ LET k == request[r].seen IN
     customer' = IF k # None /\ request[r].active # "same" /\ customer[k].state = "committed"
                 THEN [customer EXCEPT ![k].active = (request[r].active = "yes")]
                 ELSE customer
  /\ Goto(r, "done")
  /\ UNCHANGED user

-----------------------------------------------------------------------------
Next ==
  \E r \in Requests :
    \/ GiveUp(r) \/ CreateUser(r)
    \/ FindExternalId(r) \/ FlushCustomer(r) \/ ReplyCustomer(r)
    \/ CommitCustomer(r) \/ LoseCustomer(r) \/ SetAPIKey(r)
    \/ ReadTarget(r) \/ WriteRole(r) \/ WriteActive(r) \/ MirrorActive(r)
    \/ \E u \in Users : CountAdmins(r, u) \/ ProvisionKey(r, u) \/ AdmitAdmin(r, u)

Spec == Init /\ [][Next]_vars

-----------------------------------------------------------------------------
(* Properties *)

Places == {"new", "counted", "asked", "answered", "admitted", "found", "ranked",
           "written", "done", "failed"}
States == {"none", "asked", "selected", "flushed", "replied", "committed", "gone"}

\* Every variable keeps its type; a role is one that the handlers know.
TypeOK ==
  /\ user \in [Users -> [role : {"none", "customer", "admin"}, active : BOOLEAN,
                         key : Requests \union {None}]]
  /\ request \in [Requests -> [at : Places, user : Users \union {None},
                               target : Users \union {None},
                               role : {"same", "customer", "admin"},
                               active : {"same", "yes", "no"},
                               seen : Requests \union {None}]]
  /\ customer \in [Requests -> [state : States, active : BOOLEAN]]

\* However many times an account asks for a key at once, and whatever of it is
\* lost, the API holds one customer for it.
OneCustomer ==
  \A r, s \in Requests :
    /\ customer[r].state = "committed" /\ customer[s].state = "committed"
    /\ request[r].user = request[s].user
    => r = s

\* The key in an account's row is the key of a customer that the API answered
\* with and created for this account: the proxy never calls it as another.
KeyIsOwn ==
  \A u \in Users : user[u].key # None =>
    /\ request[user[u].key].user = u
    /\ customer[user[u].key].state \in {"replied", "committed", "gone"}

\* Provisionings of one account that overlap may each write its key, but one
\* never replaces the key of another unless the transaction behind one of the
\* two keys was rolled back: of two keys that work, none is forgotten.
WorkingKeyKept ==
  [][\A u \in Users : user[u].key # None /\ user'[u].key # user[u].key =>
       \E r \in Requests : r \in {user[u].key, user'[u].key} /\ customer[r].state = "gone"]_vars

\* "An admin cannot disable or demote their own account": the last admin goes
\* only by the request of someone who, meanwhile, no longer is one.  The guard
\* does not exclude that: admins who demote each other at once leave none.
LastAdminKept ==
  [][(\E a \in Users : IsAdmin(a)) /\ ~ (\E a \in Users : IsAdmin(a))' =>
       \E r \in Requests : request'[r] # request[r] /\ ~ IsAdmin(request[r].user)]_vars

-----------------------------------------------------------------------------
(* The refinement of Provisioning *)

AskedFor == [r \in Requests |-> IF customer[r].state = "none" THEN None ELSE request[r].user]
Fate     == [r \in Requests |-> IF customer[r].state \in {"flushed", "replied"} THEN "offered"
                               ELSE IF customer[r].state = "committed" THEN "made"
                               ELSE IF customer[r].state = "gone" THEN "void" ELSE "none"]
KeptKey  == [u \in Users |-> user[u].key]

Provisions == INSTANCE Provisioning WITH owner <- AskedFor, fate <- Fate, key <- KeptKey

\* Sign-ups, keys and changes by admins, with every call and answer lost at
\* will, come to the provisioning of keys that the two services promise: one
\* holder of an account's place, one working key, and the account's own.
ImplementsProvisioning == Provisions!PSpec

-----------------------------------------------------------------------------
(* What the code's comments say and the code does not do *)

\* No handler and no call to the API is in flight.
Quiet == \A r \in Requests :
           /\ request[r].at \in {"new", "done", "failed"}
           /\ customer[r].state \in {"none", "committed", "gone"}

\* "Idempotent: returns the existing key": once nothing is in flight, an
\* account that has a customer has a key to be returned.
ExistingKeyReturned ==
  Quiet => \A r \in Requests :
    customer[r].state = "committed" => user[request[r].user].key # None

\* "So a disabled account's key stops working too": once nothing is in flight,
\* the customer of a disabled account is not active.
DisabledIsMirrored ==
  Quiet => \A u \in Users : Registered(u) /\ ~ user[u].active /\ user[u].key # None =>
    LET c == customer[user[u].key] IN c.state = "committed" => ~ c.active

=============================================================================
