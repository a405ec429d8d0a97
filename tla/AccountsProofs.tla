--------------------------- MODULE AccountsProofs ---------------------------
(***************************************************************************)
(* Proofs about Accounts, for any sets of accounts, requests and listed    *)
(* admins.  The inductive invariant says what a handler knows where it     *)
(* stands, and that of the calls for one external_id at most one has an    *)
(* insert that is waiting to be committed or is committed.                 *)
(***************************************************************************)
EXTENDS Accounts, TLAPS

Changing == {"admitted", "found", "ranked", "written"}
Answered == {"replied", "committed", "gone"}
Live     == {"flushed", "replied", "committed"}

\* What the handler of r holds, where it stands.
HandlerOK(r) ==
  /\ At(r, "new") <=> request[r].user = None
  /\ At(r, "counted") => request[r].role \in {"customer", "admin"}
  /\ request[r].at \in {"asked", "answered"} => Registered(request[r].user)
  /\ At(r, "answered") => customer[r].state \in Answered
  /\ request[r].at \in Changing =>
       /\ request[r].target \in Users
       /\ ~ SelfLockout(request[r].user, request[r].target, request[r].role, request[r].active)

\* Only a handler that has asked has a call at the API.
CallOK(r) == customer[r].state # "none" => request[r].user \in Users

\* One insert of an external_id at a time.
OneLive ==
  \A r, s \in Requests :
    /\ customer[r].state \in Live /\ customer[s].state \in Live
    /\ request[r].user = request[s].user
    => r = s

\* Only an account that exists has a key.
KeyOfAccount == \A u \in Users : user[u].key # None => Registered(u)

IInv == /\ TypeOK
        /\ \A r \in Requests : HandlerOK(r) /\ CallOK(r)
        /\ OneLive
        /\ KeyIsOwn
        /\ KeyOfAccount

-----------------------------------------------------------------------------
\* The initial state satisfies the invariant.
LEMMA InitInvariant == Init => IInv
<1> SUFFICES ASSUME Init PROVE IInv
  OBVIOUS
<1>1. TypeOK
  BY DEF Init, TypeOK, NoUser, NoRequest, Places, States
<1>2. ASSUME NEW r \in Requests PROVE HandlerOK(r) /\ CallOK(r)
  BY DEF Init, HandlerOK, CallOK, NoRequest, At, Changing
<1>3. OneLive /\ KeyIsOwn /\ KeyOfAccount
  BY DEF Init, OneLive, KeyIsOwn, KeyOfAccount, NoUser, Live
<1> QED
  BY <1>1, <1>2, <1>3 DEF IInv

\* The record of a handler that only changes its place.
LEMMA PlaceType ==
  ASSUME TypeOK, NEW r \in Requests, NEW place \in Places, NEW q,
         q = [request[r] EXCEPT !.at = place]
  PROVE  /\ q \in [at : Places, user : Users \union {None}, target : Users \union {None},
                   role : {"same", "customer", "admin"}, active : {"same", "yes", "no"},
                   seen : Requests \union {None}]
         /\ request[r].user \in Users =>
              q \in [at : Places, user : Users, target : Users \union {None},
                     role : {"same", "customer", "admin"}, active : {"same", "yes", "no"},
                     seen : Requests \union {None}]
         /\ q.at = place /\ q.user = request[r].user
<1>1. request[r] \in [at : Places, user : Users \union {None}, target : Users \union {None},
                     role : {"same", "customer", "admin"}, active : {"same", "yes", "no"},
                     seen : Requests \union {None}]
  BY DEF TypeOK
<1> HIDE DEF Places
<1> QED
  BY <1>1

\* A step that moves one handler on, with the accounts and calls unchanged.
LEMMA MoveInvariant ==
  ASSUME IInv, NEW r \in Requests, NEW q \in [at : Places, user : Users,
           target : Users \union {None}, role : {"same", "customer", "admin"},
           active : {"same", "yes", "no"}, seen : Requests \union {None}],
         request' = [request EXCEPT ![r] = q], UNCHANGED <<user, customer>>,
         q.at \notin {"new", "asked", "answered"},
         request[r].at # "new" => q.user = request[r].user,
         q.at = "counted" => q.role \in {"customer", "admin"},
         q.at \in Changing => q.target \in Users /\ ~ SelfLockout(q.user, q.target, q.role, q.active)
  PROVE  IInv'
<1>0. /\ TypeOK /\ OneLive /\ KeyIsOwn /\ KeyOfAccount
      /\ \A s \in Requests : HandlerOK(s) /\ CallOK(s)
  BY DEF IInv
<1>1. TypeOK'
  BY <1>0 DEF TypeOK
<1>2. /\ request'[r] = q
      /\ \A s \in Requests : s # r => request'[s] = request[s]
      /\ user' = user /\ customer' = customer
  BY <1>0 DEF TypeOK
<1>3. customer[r].state # "none" => request'[r].user = request[r].user
  BY <1>0, <1>2, NoneAssumption DEF HandlerOK, CallOK, At
<1>4. ASSUME NEW s \in Requests PROVE HandlerOK(s)' /\ CallOK(s)'
  <2>1. CASE s = r
    <3>1. q.user # None
      BY NoneAssumption
    <3> QED
      BY <1>2, <2>1, <3>1 DEF HandlerOK, CallOK, At, Registered
  <2>2. CASE s # r
    BY <1>0, <1>2, <2>2 DEF HandlerOK, CallOK, At, Registered
  <2> QED
    BY <2>1, <2>2
<1>5. \A s \in Requests : customer[s].state # "none" => request'[s].user = request[s].user
  BY <1>2, <1>3
<1>6. OneLive'
  BY <1>0, <1>2, <1>5 DEF OneLive, Live
<1>7. KeyIsOwn' /\ KeyOfAccount'
  BY <1>0, <1>2, <1>5 DEF KeyIsOwn, KeyOfAccount, Registered, TypeOK
<1> QED
  BY <1>1, <1>4, <1>6, <1>7 DEF IInv

\* A step of the API's call of r to another state, with all else unchanged.
LEMMA CallInvariant ==
  ASSUME IInv, NEW r \in Requests, NEW state \in States \ {"none"},
         customer' = [customer EXCEPT ![r].state = state], UNCHANGED <<user, request>>,
         customer[r].state \notin {"none"},
         customer[r].state \in Answered => state \in Answered,
         state \in Live => customer[r].state \in Live \/ OthersOf(r) \intersect Live = {}
  PROVE  IInv'
<1>0. /\ TypeOK /\ OneLive /\ KeyIsOwn /\ KeyOfAccount
      /\ \A s \in Requests : HandlerOK(s) /\ CallOK(s)
  BY DEF IInv
<1>1. /\ customer'[r].state = state
      /\ \A s \in Requests : s # r => customer'[s] = customer[s]
      /\ user' = user /\ request' = request
  BY <1>0 DEF TypeOK
<1>2. TypeOK'
  BY <1>0 DEF TypeOK
<1>3. ASSUME NEW s \in Requests PROVE HandlerOK(s)' /\ CallOK(s)'
  BY <1>0, <1>1 DEF HandlerOK, CallOK, At, Registered
<1>4. OneLive'
  <2> SUFFICES ASSUME NEW s \in Requests, s # r, state \in Live, customer[s].state \in Live,
                      request[s].user = request[r].user
               PROVE  FALSE
    BY <1>0, <1>1 DEF OneLive
  <2>1. customer[s].state \in OthersOf(r)
    BY DEF OthersOf
  <2> QED
    BY <1>0, <2>1 DEF OneLive
<1>5. KeyIsOwn' /\ KeyOfAccount'
  BY <1>0, <1>1 DEF KeyIsOwn, KeyOfAccount, Registered, Answered, TypeOK
<1> QED
  BY <1>2, <1>3, <1>4, <1>5 DEF IInv

\* A step of a handler that writes accounts: none goes, and a key that it
\* writes is that of its own answered call.
LEMMA RowInvariant ==
  ASSUME IInv, NEW r \in Requests, NEW place \in {"ranked", "written", "done"},
         request' = [request EXCEPT ![r].at = place], UNCHANGED customer,
         request[r].at \notin {"new"},
         place \in Changing => request[r].at \in Changing,
         user' \in [Users -> [role : {"none", "customer", "admin"}, active : BOOLEAN,
                              key : Requests \union {None}]],
         \A u \in Users : Registered(u) => user'[u].role # "none",
         \A u \in Users : user'[u].key # user[u].key =>
           u = request[r].user /\ user'[u].key = r /\ At(r, "answered")
  PROVE  IInv'
<1>0. /\ TypeOK /\ OneLive /\ KeyIsOwn /\ KeyOfAccount
      /\ \A s \in Requests : HandlerOK(s) /\ CallOK(s)
  BY DEF IInv
<1>1. /\ \A s \in Requests : request'[s].user = request[s].user
                             /\ request'[s].target = request[s].target
                             /\ request'[s].role = request[s].role
                             /\ request'[s].active = request[s].active
      /\ \A s \in Requests : s # r => request'[s] = request[s]
      /\ request'[r].at = place
      /\ customer' = customer
  BY <1>0 DEF TypeOK
<1>2. TypeOK'
  <2>1. [request[r] EXCEPT !.at = place] \in [at : Places, user : Users \union {None},
          target : Users \union {None}, role : {"same", "customer", "admin"},
          active : {"same", "yes", "no"}, seen : Requests \union {None}]
    BY <1>0 DEF TypeOK, Places
  <2>2. request' \in [Requests -> [at : Places, user : Users \union {None},
          target : Users \union {None}, role : {"same", "customer", "admin"},
          active : {"same", "yes", "no"}, seen : Requests \union {None}]]
    BY <1>0, <2>1 DEF TypeOK
  <2> QED
    BY <1>0, <2>2 DEF TypeOK
<1>3. ASSUME NEW s \in Requests PROVE HandlerOK(s)' /\ CallOK(s)'
  <2>1. request[s].at \in {"asked", "answered"} => request[s].user \in Users
    BY <1>0 DEF HandlerOK, At, TypeOK
  <2> QED
    BY <1>0, <1>1, <2>1 DEF HandlerOK, CallOK, At, Registered, Changing
<1>4. OneLive'
  BY <1>0, <1>1 DEF OneLive
<1>5. ASSUME NEW u \in Users, user'[u].key # None
      PROVE  /\ user'[u].role # "none"
             /\ request[user'[u].key].user = u
             /\ customer[user'[u].key].state \in Answered
  <2>1. CASE user'[u].key = user[u].key
    BY <1>0, <1>5, <2>1 DEF KeyIsOwn, KeyOfAccount, Answered
  <2>2. CASE user'[u].key # user[u].key
    BY <1>0, <2>2 DEF HandlerOK, At
  <2> QED
    BY <2>1, <2>2
<1>6. KeyIsOwn' /\ KeyOfAccount'
  BY <1>0, <1>1, <1>2, <1>5 DEF KeyIsOwn, KeyOfAccount, Answered, Registered, TypeOK
<1> QED
  BY <1>2, <1>3, <1>4, <1>6 DEF IInv

\* Every step keeps the invariant.
LEMMA NextInvariant == IInv /\ [Next]_vars => IInv'
<1> SUFFICES ASSUME IInv, [Next]_vars PROVE IInv'
  OBVIOUS
<1>0. /\ TypeOK /\ OneLive /\ KeyIsOwn /\ KeyOfAccount
      /\ \A s \in Requests : HandlerOK(s) /\ CallOK(s)
  BY DEF IInv
<1>1. CASE UNCHANGED vars
  BY <1>0, <1>1 DEF vars, IInv, TypeOK, OneLive, KeyIsOwn, KeyOfAccount, HandlerOK, CallOK,
     At, Registered
<1>2. ASSUME NEW r \in Requests, GiveUp(r) PROVE IInv'
  <2> DEFINE q == [request[r] EXCEPT !.at = "failed"]
  <2>1. request[r].user \in Users
    BY <1>0, <1>2 DEF GiveUp, HandlerOK, At, TypeOK
  <2>2. q \in [at : Places, user : Users, target : Users \union {None},
               role : {"same", "customer", "admin"}, active : {"same", "yes", "no"},
               seen : Requests \union {None}]
    BY <1>0, <2>1, PlaceType DEF Places
  <2>3. q.at = "failed" /\ q.user = request[r].user
    BY <1>0, PlaceType DEF Places
  <2>4. request' = [request EXCEPT ![r] = q]
    BY <1>2 DEF GiveUp, Goto
  <2> HIDE DEF q
  <2> QED
    BY <1>2, <2>2, <2>3, <2>4, MoveInvariant DEF GiveUp, Changing
<1>3. ASSUME NEW r \in Requests, NEW u \in Users, CountAdmins(r, u) PROVE IInv'
  <2>1. PICK role \in {"admin", "customer"} :
          request' = [request EXCEPT ![r] =
            [NoRequest EXCEPT !.at = "counted", !.user = u, !.role = role]]
    BY <1>3 DEF CountAdmins
  <2> DEFINE q == [NoRequest EXCEPT !.at = "counted", !.user = u, !.role = role]
  <2>2. q \in [at : Places, user : Users, target : Users \union {None},
               role : {"same", "customer", "admin"}, active : {"same", "yes", "no"},
               seen : Requests \union {None}]
    BY DEF NoRequest, Places
  <2> QED
    BY <1>3, <2>1, <2>2, MoveInvariant DEF CountAdmins, At, NoRequest, Changing
<1>4. ASSUME NEW r \in Requests, NEW u \in Users, AdmitAdmin(r, u) PROVE IInv'
  <2>1. PICK target \in Users, role \in RoleInputs, active \in ActiveInputs :
          /\ ~ SelfLockout(u, target, role, active)
          /\ request' = [request EXCEPT ![r] = [at |-> "admitted", user |-> u,
               target |-> target, role |-> role, active |-> active, seen |-> None]]
    BY <1>4 DEF AdmitAdmin
  <2> DEFINE q == [at |-> "admitted", user |-> u, target |-> target,
                   role |-> role, active |-> active, seen |-> None]
  <2> QED
    BY <1>4, <2>1, MoveInvariant DEF AdmitAdmin, At, Places, Changing, RoleInputs, ActiveInputs
<1>5. ASSUME NEW r \in Requests, ReadTarget(r) PROVE IInv'
  <2> DEFINE k == user[request[r].target].key
             q == [request[r] EXCEPT !.at = "found", !.seen = k]
  <2>1. /\ request[r].user \in Users /\ request[r].target \in Users
        /\ ~ SelfLockout(request[r].user, request[r].target, request[r].role, request[r].active)
    BY <1>0, <1>5 DEF ReadTarget, HandlerOK, At, TypeOK, Changing
  <2>2. k \in Requests \union {None}
    BY <1>0, <2>1 DEF TypeOK
  <2>3. request' = [request EXCEPT ![r] = q]
    BY <1>0, <1>5 DEF ReadTarget, TypeOK
  <2> HIDE DEF k
  <2>4. q \in [at : Places, user : Users, target : Users \union {None},
               role : {"same", "customer", "admin"}, active : {"same", "yes", "no"},
               seen : Requests \union {None}]
    <3>1. request[r] \in [at : Places, user : Users \union {None},
            target : Users \union {None}, role : {"same", "customer", "admin"},
            active : {"same", "yes", "no"}, seen : Requests \union {None}]
      BY <1>0 DEF TypeOK
    <3>2. "found" \in Places
      BY DEF Places
    <3> HIDE <1>0
    <3> QED
      BY <2>1, <2>2, <3>1, <3>2
  <2>5. /\ q.at = "found" /\ q.user = request[r].user /\ q.target = request[r].target
        /\ q.role = request[r].role /\ q.active = request[r].active
    BY <1>0 DEF TypeOK
  <2> HIDE DEF q
  <2> QED
    BY <1>5, <2>1, <2>3, <2>4, <2>5, MoveInvariant DEF ReadTarget
<1>6. ASSUME NEW r \in Requests, FindExternalId(r) PROVE IInv'
  BY <1>6, CallInvariant DEF FindExternalId, States, Answered, Live
<1>7. ASSUME NEW r \in Requests, FlushCustomer(r) PROVE IInv'
  BY <1>7, CallInvariant DEF FlushCustomer, States, Answered, Live
<1>8. ASSUME NEW r \in Requests, CommitCustomer(r) PROVE IInv'
  BY <1>8, CallInvariant DEF CommitCustomer, States, Answered, Live
<1>9. ASSUME NEW r \in Requests, LoseCustomer(r) PROVE IInv'
  BY <1>9, CallInvariant DEF LoseCustomer, States, Answered, Live
<1>10. ASSUME NEW r \in Requests, ReplyCustomer(r), UNCHANGED request PROVE IInv'
  BY <1>10, CallInvariant DEF ReplyCustomer, States, Answered, Live
<1>11. ASSUME NEW r \in Requests, ReplyCustomer(r), At(r, "asked"), Goto(r, "answered")
       PROVE  IInv'
  <2>1. /\ \A s \in Requests : s # r => request'[s] = request[s] /\ customer'[s] = customer[s]
        /\ request'[r] = [request[r] EXCEPT !.at = "answered"]
        /\ customer'[r] = [customer[r] EXCEPT !.state = "replied"]
        /\ user' = user
    BY <1>0, <1>11 DEF ReplyCustomer, Goto, TypeOK
  <2>2. /\ request'[r].at = "answered" /\ customer'[r].state = "replied"
        /\ \A s \in Requests : request'[s].user = request[s].user
        /\ request[r].user \in Users /\ request[r].at = "asked"
        /\ customer[r].state = "flushed"
    BY <1>0, <1>11, <2>1 DEF ReplyCustomer, TypeOK, HandlerOK, At
  <2>3. TypeOK'
    <3>1. /\ [request[r] EXCEPT !.at = "answered"] \in [at : Places, user : Users \union {None},
               target : Users \union {None}, role : {"same", "customer", "admin"},
               active : {"same", "yes", "no"}, seen : Requests \union {None}]
          /\ [customer[r] EXCEPT !.state = "replied"] \in [state : States, active : BOOLEAN]
      <4>1. [customer[r] EXCEPT !.state = "replied"] \in [state : States, active : BOOLEAN]
        BY <1>0 DEF TypeOK, States
      <4>2. "answered" \in Places
        BY DEF Places
      <4> QED
        BY <1>0, <4>1, <4>2, PlaceType
    <3>2. request' \in [Requests -> [at : Places, user : Users \union {None},
               target : Users \union {None}, role : {"same", "customer", "admin"},
               active : {"same", "yes", "no"}, seen : Requests \union {None}]]
      BY <1>0, <1>11, <3>1 DEF Goto, TypeOK
    <3>3. customer' \in [Requests -> [state : States, active : BOOLEAN]]
      <4>1. customer' = [customer EXCEPT ![r] = [customer[r] EXCEPT !.state = "replied"]]
        BY <1>11 DEF ReplyCustomer
      <4> QED
        BY <1>0, <3>1, <4>1 DEF TypeOK
    <3> QED
      BY <1>0, <2>1, <3>2, <3>3 DEF TypeOK
  <2>4. ASSUME NEW s \in Requests PROVE HandlerOK(s)' /\ CallOK(s)'
    <3>1. CASE s = r
      <4>1. user[request[r].user].role # "none" /\ request[r].user # None
        BY <1>0, <2>2, NoneAssumption DEF HandlerOK, Registered
      <4>2. request'[r].user = request[r].user /\ user' = user
        BY <2>1, <2>2
      <4> QED
        BY <2>2, <3>1, <4>1, <4>2 DEF HandlerOK, CallOK, At, Registered, Changing, Answered
    <3>2. CASE s # r
      BY <1>0, <2>1, <3>2 DEF HandlerOK, CallOK, At, Registered
    <3> QED
      BY <3>1, <3>2
  <2>5. OneLive'
    BY <1>0, <2>1, <2>2 DEF OneLive, Live
  <2>6. KeyIsOwn' /\ KeyOfAccount'
    BY <1>0, <2>1, <2>2 DEF KeyIsOwn, KeyOfAccount, Registered, TypeOK
  <2> QED
    BY <2>3, <2>4, <2>5, <2>6 DEF IInv
<1>12. ASSUME NEW r \in Requests, NEW u \in Users, ProvisionKey(r, u) PROVE IInv'
  <2> DEFINE q == [NoRequest EXCEPT !.at = "asked", !.user = u]
  <2>1. /\ q \in [at : Places, user : Users, target : Users \union {None},
                  role : {"same", "customer", "admin"}, active : {"same", "yes", "no"},
                  seen : Requests \union {None}]
        /\ q.at = "asked" /\ q.user = u
    BY DEF NoRequest, Places
  <2>2. request' = [request EXCEPT ![r] = q]
    BY <1>12 DEF ProvisionKey
  <2> HIDE DEF q
  <2>3. /\ \A s \in Requests : s # r => request'[s] = request[s] /\ customer'[s] = customer[s]
        /\ request'[r] = q
        /\ customer'[r] = [customer[r] EXCEPT !.state = "asked"]
        /\ user' = user
    BY <1>0, <1>12, <2>2 DEF ProvisionKey, TypeOK
  <2>4. /\ customer'[r].state = "asked" /\ customer[r].state = "none"
        /\ Registered(u)
    BY <1>0, <1>12, <2>3, NoneAssumption DEF ProvisionKey, HandlerOK, CallOK, At, TypeOK
  <2>5. TypeOK'
    <3>1. [customer[r] EXCEPT !.state = "asked"] \in [state : States, active : BOOLEAN]
      BY <1>0 DEF TypeOK, States
    <3>2. request' \in [Requests -> [at : Places, user : Users \union {None},
               target : Users \union {None}, role : {"same", "customer", "admin"},
               active : {"same", "yes", "no"}, seen : Requests \union {None}]]
      BY <1>0, <2>1, <2>2 DEF TypeOK
    <3>3. customer' \in [Requests -> [state : States, active : BOOLEAN]]
      BY <1>0, <1>12, <3>1 DEF ProvisionKey, TypeOK
    <3> QED
      BY <1>0, <2>3, <3>2, <3>3 DEF TypeOK
  <2>6. ASSUME NEW s \in Requests PROVE HandlerOK(s)' /\ CallOK(s)'
    <3>1. CASE s = r
      BY <2>1, <2>3, <2>4, <3>1, NoneAssumption DEF HandlerOK, CallOK, At, Registered, Changing
    <3>2. CASE s # r
      BY <1>0, <2>3, <3>2 DEF HandlerOK, CallOK, At, Registered
    <3> QED
      BY <3>1, <3>2
  <2>7. OneLive'
    <3>1. \A s \in Requests : customer'[s].state \in Live =>
            request'[s] = request[s] /\ customer'[s] = customer[s]
      BY <2>3, <2>4 DEF Live
    <3> QED
      BY <1>0, <3>1 DEF OneLive
  <2>8. KeyIsOwn' /\ KeyOfAccount'
    BY <1>0, <2>3, <2>4 DEF KeyIsOwn, KeyOfAccount, Registered, TypeOK
  <2> QED
    BY <2>5, <2>6, <2>7, <2>8 DEF IInv
<1>13. ASSUME NEW r \in Requests, CreateUser(r) PROVE IInv'
  <2> DEFINE v == request[r].user
             row == [NoUser EXCEPT !.role = request[r].role, !.active = TRUE]
  <2>1. v \in Users /\ request[r].role \in {"customer", "admin"} /\ ~ Registered(v)
    BY <1>0, <1>13 DEF CreateUser, HandlerOK, At, TypeOK
  <2>2. /\ row.role = request[r].role /\ row.key = None
        /\ row \in [role : {"none", "customer", "admin"}, active : BOOLEAN,
                   key : Requests \union {None}]
    BY <2>1 DEF NoUser
  <2>3. user[v].key = None
    BY <1>0, <2>1 DEF KeyOfAccount
  <2>4. user' = [user EXCEPT ![v] = row]
    BY <1>13 DEF CreateUser
  <2>5. request' = [request EXCEPT ![r].at = "done"] /\ customer' = customer
        /\ request[r].at = "counted"
    BY <1>13 DEF CreateUser, Goto, At
  <2> HIDE DEF v, row
  <2>6. /\ user' \in [Users -> [role : {"none", "customer", "admin"}, active : BOOLEAN,
                                key : Requests \union {None}]]
        /\ \A u \in Users : Registered(u) => user'[u].role # "none"
        /\ \A u \in Users : user'[u].key = user[u].key
    BY <1>0, <2>1, <2>2, <2>3, <2>4 DEF TypeOK, Registered
  <2> QED
    BY <2>5, <2>6, RowInvariant DEF Changing
<1>14. ASSUME NEW r \in Requests, SetAPIKey(r) PROVE IInv'
  <2> DEFINE v == request[r].user
  <2>1. v \in Users
    BY <1>0, <1>14 DEF SetAPIKey, HandlerOK, At, TypeOK
  <2>2. /\ user' = [user EXCEPT ![v].key = r]
        /\ request' = [request EXCEPT ![r].at = "done"] /\ customer' = customer
        /\ At(r, "answered")
    BY <1>14 DEF SetAPIKey, Goto
  <2> HIDE DEF v
  <2>3. /\ user' \in [Users -> [role : {"none", "customer", "admin"}, active : BOOLEAN,
                                key : Requests \union {None}]]
        /\ \A u \in Users : Registered(u) => user'[u].role # "none"
        /\ \A u \in Users : user'[u].key # user[u].key => u = v /\ user'[u].key = r
    <3>1. [user[v] EXCEPT !.key = r] \in [role : {"none", "customer", "admin"},
            active : BOOLEAN, key : Requests \union {None}]
      BY <1>0, <2>1 DEF TypeOK
    <3> QED
      BY <1>0, <2>1, <2>2, <3>1 DEF TypeOK, Registered
  <2> QED
    BY <2>2, <2>3, RowInvariant DEF Changing, At, v
<1>15. ASSUME NEW r \in Requests, WriteRole(r) PROVE IInv'
  <2> DEFINE v == request[r].target
             role == request[r].role
  <2>1. v \in Users /\ role \in {"same", "customer", "admin"}
    BY <1>0, <1>15 DEF WriteRole, HandlerOK, At, TypeOK, Changing
  <2>2. /\ user' = IF role = "same" THEN user ELSE [user EXCEPT ![v].role = role]
        /\ request' = [request EXCEPT ![r].at = "ranked"] /\ customer' = customer
        /\ request[r].at = "found"
    BY <1>15 DEF WriteRole, Goto, At
  <2> HIDE DEF v, role
  <2>3. CASE role = "same"
    BY <1>0, <2>2, <2>3, RowInvariant DEF Changing, TypeOK, Registered
  <2>4. CASE role # "same"
    <3>1. /\ [user[v] EXCEPT !.role = role] \in [role : {"none", "customer", "admin"},
                active : BOOLEAN, key : Requests \union {None}]
          /\ role # "none"
      BY <1>0, <2>1, <2>4 DEF TypeOK
    <3>2. /\ user' \in [Users -> [role : {"none", "customer", "admin"}, active : BOOLEAN,
                                  key : Requests \union {None}]]
          /\ \A u \in Users : Registered(u) => user'[u].role # "none"
          /\ \A u \in Users : user'[u].key = user[u].key
      BY <1>0, <2>1, <2>2, <2>4, <3>1 DEF TypeOK, Registered
    <3> QED
      BY <2>2, <3>2, RowInvariant DEF Changing
  <2> QED
    BY <2>3, <2>4
<1>16. ASSUME NEW r \in Requests, WriteActive(r) PROVE IInv'
  <2> DEFINE v == request[r].target
             on == request[r].active = "yes"
  <2>1. v \in Users /\ on \in BOOLEAN
    BY <1>0, <1>16 DEF WriteActive, HandlerOK, At, TypeOK, Changing
  <2>2. /\ user' \in {user, [user EXCEPT ![v].active = on]}
        /\ request' = [request EXCEPT ![r].at = "written"] /\ customer' = customer
        /\ request[r].at = "ranked"
    BY <1>16 DEF WriteActive, Goto, At
  <2> HIDE DEF v, on
  <2>3. /\ user' \in [Users -> [role : {"none", "customer", "admin"}, active : BOOLEAN,
                                key : Requests \union {None}]]
        /\ \A u \in Users : Registered(u) => user'[u].role # "none"
        /\ \A u \in Users : user'[u].key = user[u].key
    <3>1. [user[v] EXCEPT !.active = on] \in [role : {"none", "customer", "admin"},
            active : BOOLEAN, key : Requests \union {None}]
      <4>1. user[v] \in [role : {"none", "customer", "admin"},
              active : BOOLEAN, key : Requests \union {None}]
        BY <1>0, <2>1 DEF TypeOK
      <4> QED
        BY <2>1, <4>1
    <3>2. CASE user' = user
      BY <1>0, <3>2 DEF TypeOK, Registered
    <3>3. CASE user' = [user EXCEPT ![v].active = on]
      BY <1>0, <2>1, <3>1, <3>3 DEF TypeOK, Registered
    <3> QED
      BY <2>2, <3>2, <3>3
  <2> QED
    BY <2>2, <2>3, RowInvariant DEF Changing
<1>17. ASSUME NEW r \in Requests, MirrorActive(r) PROVE IInv'
  <2> DEFINE k == request[r].seen
             on == request[r].active = "yes"
             q == [request[r] EXCEPT !.at = "done"]
  <2>1. request[r].user \in Users /\ request[r].at = "written"
        /\ k \in Requests \union {None} /\ on \in BOOLEAN
    BY <1>0, <1>17 DEF MirrorActive, HandlerOK, At, TypeOK
  <2>2. customer' \in {customer, [customer EXCEPT ![k].active = on]}
        /\ (customer' # customer => k # None)
        /\ request' = [request EXCEPT ![r] = q] /\ user' = user
    BY <1>17 DEF MirrorActive, Goto
  <2>3. /\ q \in [at : Places, user : Users, target : Users \union {None},
                  role : {"same", "customer", "admin"}, active : {"same", "yes", "no"},
                  seen : Requests \union {None}]
        /\ q.at = "done" /\ q.user = request[r].user
    BY <1>0, <2>1, PlaceType DEF Places
  <2> HIDE DEF k, on, q
  <2>4. CASE customer' = customer
    BY <2>1, <2>2, <2>3, <2>4, MoveInvariant DEF Changing
  <2>5. CASE customer' # customer
    <3>1. customer' = [customer EXCEPT ![k].active = on] /\ k \in Requests
      BY <2>1, <2>2, <2>5
    <3>2. customer' \in [Requests -> [state : States, active : BOOLEAN]]
      <4>1. [customer[k] EXCEPT !.active = on] \in [state : States, active : BOOLEAN]
        BY <1>0, <2>1, <3>1 DEF TypeOK
      <4> QED
        BY <1>0, <3>1, <4>1 DEF TypeOK
    <3>3. \A s \in Requests : customer'[s].state = customer[s].state
      BY <1>0, <3>1 DEF TypeOK
    <3>4. /\ request'[r] = q
          /\ \A s \in Requests : s # r => request'[s] = request[s]
          /\ \A s \in Requests : request'[s].user = request[s].user
          /\ request' \in [Requests -> [at : Places, user : Users \union {None},
               target : Users \union {None}, role : {"same", "customer", "admin"},
               active : {"same", "yes", "no"}, seen : Requests \union {None}]]
      BY <1>0, <2>2, <2>3 DEF TypeOK
    <3>5. TypeOK'
      BY <1>0, <2>2, <3>2, <3>4 DEF TypeOK
    <3>6. ASSUME NEW s \in Requests PROVE HandlerOK(s)' /\ CallOK(s)'
      <4>1. CASE s = r
        BY <1>0, <2>1, <2>3, <3>3, <3>4, <4>1, NoneAssumption
        DEF HandlerOK, CallOK, At, Registered, Changing
      <4>2. CASE s # r
        BY <1>0, <2>2, <3>3, <3>4, <4>2 DEF HandlerOK, CallOK, At, Registered
      <4> QED
        BY <4>1, <4>2
    <3>7. OneLive'
      BY <1>0, <3>3, <3>4 DEF OneLive
    <3>8. KeyIsOwn' /\ KeyOfAccount'
      BY <1>0, <2>2, <3>3, <3>4 DEF KeyIsOwn, KeyOfAccount, Registered, TypeOK
    <3> QED
      BY <3>5, <3>6, <3>7, <3>8 DEF IInv
  <2> QED
    BY <2>4, <2>5
<1> QED
  BY <1>1, <1>2, <1>3, <1>4, <1>5, <1>6, <1>7, <1>8, <1>9, <1>10, <1>11, <1>12, <1>13,
     <1>14, <1>15, <1>16, <1>17 DEF Next, ReplyCustomer

THEOREM Invariance == Spec => []IInv
  BY InitInvariant, NextInvariant, PTL DEF Spec

\* Every variable keeps its type.
THEOREM TypeCorrect == Spec => []TypeOK
<1>1. IInv => TypeOK
  BY DEF IInv
<1> QED
  BY <1>1, Invariance, PTL

\* The API never holds two customers for one account.
THEOREM OneCustomerEach == Spec => []OneCustomer
<1>1. IInv => OneCustomer
  BY DEF IInv, OneLive, OneCustomer, Live
<1> QED
  BY <1>1, Invariance, PTL

\* The key in an account's row is that of its own customer.
THEOREM OwnKey == Spec => []KeyIsOwn
<1>1. IInv => KeyIsOwn
  BY DEF IInv
<1> QED
  BY <1>1, Invariance, PTL

-----------------------------------------------------------------------------
\* Only SetAPIKey replaces a key.
LEMMA KeyWriter ==
  ASSUME IInv, Next, NEW u \in Users, user[u].key # None, user'[u].key # user[u].key
  PROVE  \E r \in Requests : SetAPIKey(r) /\ request[r].user = u /\ user'[u].key = r
<1>0. TypeOK /\ KeyOfAccount /\ \A r \in Requests : HandlerOK(r)
  BY DEF IInv
<1>1. user' # user
  OBVIOUS
<1>2. PICK r \in Requests : CreateUser(r) \/ SetAPIKey(r) \/ WriteRole(r) \/ WriteActive(r)
  BY <1>1 DEF Next, GiveUp, FindExternalId, FlushCustomer, ReplyCustomer, CommitCustomer,
     LoseCustomer, ReadTarget, MirrorActive, CountAdmins, ProvisionKey, AdmitAdmin
<1>3. CASE CreateUser(r)
  <2>1. request[r].user # u
    BY <1>0, <1>3 DEF CreateUser, KeyOfAccount
  <2> QED
    BY <1>0, <1>3, <2>1 DEF CreateUser, TypeOK
<1>4. CASE SetAPIKey(r)
  <2>1. request[r].user = u
    BY <1>0, <1>4 DEF SetAPIKey, TypeOK
  <2> QED
    BY <1>0, <1>4, <2>1 DEF SetAPIKey, TypeOK
<1>5. CASE WriteRole(r)
  BY <1>0, <1>5 DEF WriteRole, TypeOK
<1>6. CASE WriteActive(r)
  BY <1>0, <1>6 DEF WriteActive, TypeOK
<1> QED
  BY <1>2, <1>3, <1>4, <1>5, <1>6

\* A key is replaced only if one of the two keys is of a customer whose
\* transaction was rolled back.
THEOREM WorkingKeyStays == Spec => WorkingKeyKept
<1> DEFINE A == \A u \in Users : user[u].key # None /\ user'[u].key # user[u].key =>
       \E r \in Requests : r \in {user[u].key, user'[u].key} /\ customer[r].state = "gone"
<1>1. ASSUME IInv, [Next]_vars PROVE A
  <2> SUFFICES ASSUME NEW u \in Users, user[u].key # None, user'[u].key # user[u].key
               PROVE  \E r \in Requests : /\ r \in {user[u].key, user'[u].key}
                                          /\ customer[r].state = "gone"
    OBVIOUS
  <2>1. Next
    BY <1>1 DEF vars
  <2>2. PICK r \in Requests : SetAPIKey(r) /\ request[r].user = u /\ user'[u].key = r
    BY <1>1, <2>1, KeyWriter
  <2> DEFINE k == user[u].key
  <2>3. k \in Requests /\ k # r
    BY <1>1, <2>2 DEF IInv, TypeOK
  <2>4. request[k].user = u /\ customer[k].state \in Answered
    BY <1>1 DEF IInv, KeyIsOwn, Answered
  <2>5. customer[r].state \in Answered
    BY <1>1, <2>2 DEF IInv, HandlerOK, SetAPIKey
  <2>6. customer[k].state = "gone" \/ customer[r].state = "gone"
    BY <1>1, <2>2, <2>3, <2>4, <2>5 DEF IInv, OneLive, Live, Answered
  <2> QED
    BY <2>2, <2>3, <2>6
<1> QED
  BY <1>1, Invariance, PTL DEF Spec, WorkingKeyKept

\* The last admin goes only by the request of an account that is no admin any more.
THEOREM LastAdminStays == Spec => LastAdminKept
<1> DEFINE A == (\E a \in Users : IsAdmin(a)) /\ ~ (\E a \in Users : IsAdmin(a))' =>
       \E r \in Requests : request'[r] # request[r] /\ ~ IsAdmin(request[r].user)
<1>1. ASSUME IInv, [Next]_vars PROVE A
  <2> SUFFICES ASSUME NEW a \in Users, IsAdmin(a), \A b \in Users : ~ IsAdmin(b)'
               PROVE  \E r \in Requests : request'[r] # request[r] /\ ~ IsAdmin(request[r].user)
    BY DEF IsAdmin
  <2>0. TypeOK /\ \A r \in Requests : HandlerOK(r)
    BY <1>1 DEF IInv
  <2>1. user'[a] # user[a]
    BY DEF IsAdmin
  <2>2. PICK r \in Requests : CreateUser(r) \/ SetAPIKey(r) \/ WriteRole(r) \/ WriteActive(r)
    BY <1>1, <2>1 DEF Next, vars, GiveUp, FindExternalId, FlushCustomer, ReplyCustomer,
       CommitCustomer, LoseCustomer, ReadTarget, MirrorActive, CountAdmins, ProvisionKey,
       AdmitAdmin
  <2>3. ~ CreateUser(r)
    <3>1. ASSUME CreateUser(r) PROVE a # request[r].user
      BY <3>1 DEF CreateUser, Registered, IsAdmin
    <3> QED
      BY <2>0, <2>1, <3>1 DEF CreateUser, TypeOK
  <2>4. ~ SetAPIKey(r)
    <3>1. ASSUME SetAPIKey(r)
          PROVE  user'[a].role = user[a].role /\ user'[a].active = user[a].active
      BY <2>0, <3>1 DEF SetAPIKey, TypeOK
    <3> QED
      BY <3>1 DEF IsAdmin
  <2> DEFINE v == request[r].user
  <2>5. request[r].at \in Changing /\ v \in Users /\ request'[r] # request[r]
    BY <2>0, <2>2, <2>3, <2>4
    DEF WriteRole, WriteActive, Goto, At, Changing, HandlerOK, TypeOK
  <2>6. ~ SelfLockout(v, request[r].target, request[r].role, request[r].active)
        /\ request[r].target \in Users
    BY <2>0, <2>5 DEF HandlerOK
  <2>7. ASSUME IsAdmin(v) PROVE FALSE
    <3>1. user[v].role = "admin" /\ user[v].active = TRUE
      BY <2>7 DEF IsAdmin
    <3>2. CASE WriteRole(r)
      <4>1. user'[v].role = "admin" /\ user'[v].active = user[v].active
        BY <2>0, <2>5, <2>6, <3>1, <3>2 DEF WriteRole, TypeOK, SelfLockout
      <4> QED
        BY <2>5, <3>1, <4>1 DEF IsAdmin
    <3>3. CASE WriteActive(r)
      <4>1. user'[v].role = user[v].role
        BY <2>0, <2>5, <3>3 DEF WriteActive, TypeOK
      <4>2. user'[v].active = TRUE
        BY <2>0, <2>5, <2>6, <3>1, <3>3 DEF WriteActive, TypeOK, SelfLockout
      <4> QED
        BY <2>5, <3>1, <4>1, <4>2 DEF IsAdmin
    <3> QED
      BY <2>2, <2>3, <2>4, <3>2, <3>3
  <2> QED
    BY <2>5, <2>7
<1> QED
  BY <1>1, Invariance, PTL DEF Spec, LastAdminKept

-----------------------------------------------------------------------------
(* A key is lost only with its answer *)

\* A handler that asked for a key and is done has stored one.
KeyHeld == \A r \in Requests : customer[r].state # "none" =>
  /\ request[r].at \in {"asked", "answered", "done", "failed"}
  /\ At(r, "done") => user[request[r].user].key # None

\* No step takes an account's key away.
LEMMA KeysStay ==
  ASSUME IInv, [Next]_vars, NEW u \in Users, user[u].key # None
  PROVE  user'[u].key # None
<1>1. CASE user'[u].key = user[u].key
  BY <1>1
<1>2. CASE user'[u].key # user[u].key
  <2>1. Next
    BY <1>2 DEF vars
  <2> QED
    BY <1>2, <2>1, KeyWriter, NoneAssumption
<1> QED
  BY <1>1, <1>2

LEMMA NextKeyHeld == IInv /\ KeyHeld /\ [Next]_vars => KeyHeld'
<1> SUFFICES ASSUME IInv, KeyHeld, [Next]_vars, NEW r \in Requests, customer'[r].state # "none"
             PROVE  /\ request'[r].at \in {"asked", "answered", "done", "failed"}
                    /\ request'[r].at = "done" => user'[request'[r].user].key # None
  BY DEF KeyHeld, At
<1>0. TypeOK /\ HandlerOK(r) /\ CallOK(r)
  BY DEF IInv
<1>1. CASE customer[r].state = "none"
  <2>1. PICK u \in Users : ProvisionKey(r, u)
    <3>1. \A s \in Requests : ~ (FindExternalId(s) \/ FlushCustomer(s) \/ ReplyCustomer(s)
                                 \/ CommitCustomer(s) \/ LoseCustomer(s))
      BY <1>0, <1>1 DEF FindExternalId, FlushCustomer, ReplyCustomer, CommitCustomer,
         LoseCustomer, TypeOK
    <3>2. \A s \in Requests : ~ MirrorActive(s)
      BY <1>0, <1>1 DEF MirrorActive, TypeOK
    <3>3. customer' # customer
      BY <1>1
    <3>4. PICK s \in Requests, u \in Users : ProvisionKey(s, u)
      BY <3>1, <3>2, <3>3 DEF Next, vars, GiveUp, CreateUser, SetAPIKey, ReadTarget, WriteRole,
         WriteActive, CountAdmins, AdmitAdmin
    <3>5. s = r
      BY <1>0, <1>1, <3>4 DEF ProvisionKey, TypeOK
    <3> QED
      BY <3>4, <3>5
  <2> QED
    BY <1>0, <2>1 DEF ProvisionKey, NoRequest, TypeOK
<1>2. CASE customer[r].state # "none"
  <2>1. /\ request[r].at \in {"asked", "answered", "done", "failed"}
        /\ request[r].at = "done" => user[request[r].user].key # None
        /\ request[r].user \in Users
    BY <1>0, <1>2 DEF KeyHeld, At, CallOK
  <2>2. CASE request'[r] = request[r]
    BY <2>1, <2>2, KeysStay
  <2>3. CASE request'[r] # request[r]
    <3>1. GiveUp(r) \/ ReplyCustomer(r) \/ SetAPIKey(r)
      <4>1. request' # request
        BY <2>3
      <4>2. PICK s \in Requests :
              \/ GiveUp(s) \/ CreateUser(s) \/ ReplyCustomer(s) \/ SetAPIKey(s) \/ ReadTarget(s)
              \/ WriteRole(s) \/ WriteActive(s) \/ MirrorActive(s)
              \/ \E u \in Users : CountAdmins(s, u) \/ ProvisionKey(s, u) \/ AdmitAdmin(s, u)
        BY <4>1 DEF Next, vars, FindExternalId, FlushCustomer, CommitCustomer, LoseCustomer
      <4>3. \A t \in Requests : t # s => request'[t] = request[t]
        BY <1>0, <4>2 DEF GiveUp, CreateUser, ReplyCustomer, SetAPIKey, ReadTarget, WriteRole,
           WriteActive, MirrorActive, CountAdmins, ProvisionKey, AdmitAdmin, Goto, TypeOK
      <4>4. s = r
        BY <2>3, <4>3
      <4> QED
        BY <2>1, <4>2, <4>4 DEF CreateUser, ReadTarget, WriteRole, WriteActive, MirrorActive,
           CountAdmins, ProvisionKey, AdmitAdmin, At
    <3>2. CASE GiveUp(r)
      BY <1>0, <3>2 DEF GiveUp, Goto, TypeOK
    <3>3. CASE ReplyCustomer(r)
      BY <1>0, <2>3, <3>3 DEF ReplyCustomer, Goto, TypeOK
    <3>4. CASE SetAPIKey(r)
      <4>1. request'[r].at = "done" /\ request'[r].user = request[r].user
        BY <1>0, <3>4 DEF SetAPIKey, Goto, TypeOK
      <4>2. user'[request[r].user].key = r
        BY <1>0, <2>1, <3>4 DEF SetAPIKey, TypeOK
      <4> QED
        BY <4>1, <4>2, NoneAssumption
    <3> QED
      BY <3>1, <3>2, <3>3, <3>4
  <2> QED
    BY <2>2, <2>3
<1> QED
  BY <1>1, <1>2

\* Where ExistingKeyReturned fails, the handler that asked for the key failed:
\* once nothing is in flight, a customer whose account has no key is that of
\* a handler that was given up or answered with an error.
LostWithItsAnswer ==
  Quiet => \A r \in Requests :
    customer[r].state = "committed" /\ user[request[r].user].key = None => At(r, "failed")

\* A committed customer's key is lost only by a handler that failed.
THEOREM KeyLostWithAnswer == Spec => []LostWithItsAnswer
<1>1. Init => KeyHeld
  BY DEF Init, KeyHeld
<1>2. KeyHeld => LostWithItsAnswer
  BY DEF KeyHeld, LostWithItsAnswer, Quiet, At
<1> QED
  BY <1>1, <1>2, NextKeyHeld, Invariance, PTL DEF Spec

-----------------------------------------------------------------------------
(* The refinement of Provisioning *)

LEMMA ProvisionsInit == Init => Provisions!PInit
BY DEF Init, NoUser, Provisions!PInit, AskedFor, Fate, KeptKey

\* A step that changes neither the state of a call nor an account's key.
LEMMA ProvisionsStutter ==
  ASSUME \A r \in Requests : customer'[r].state = customer[r].state,
         \A r \in Requests : customer[r].state # "none" => request'[r].user = request[r].user,
         \A u \in Users : user'[u].key = user[u].key
  PROVE  UNCHANGED Provisions!pvars
BY DEF Provisions!pvars, AskedFor, Fate, KeptKey

\* Whose call it is does not change.
LEMMA UserStays ==
  ASSUME IInv, Next, NEW r \in Requests, customer[r].state # "none"
  PROVE  request'[r].user = request[r].user
<1>0. TypeOK /\ request[r].at # "new"
  BY NoneAssumption DEF IInv, HandlerOK, CallOK, At
<1>1. CASE \E t \in Requests, place \in Places : UNCHANGED request \/ Goto(t, place)
  BY <1>0, <1>1 DEF Goto, TypeOK
<1>2. ASSUME NEW t \in Requests, NEW u \in Users,
             CountAdmins(t, u) \/ ProvisionKey(t, u) \/ AdmitAdmin(t, u)
      PROVE  request'[r] = request[r]
  <2>1. t # r
    BY <1>0, <1>2 DEF CountAdmins, ProvisionKey, AdmitAdmin, At
  <2> QED
    BY <1>0, <1>2, <2>1 DEF CountAdmins, ProvisionKey, AdmitAdmin, TypeOK
<1>3. ASSUME NEW t \in Requests, ReadTarget(t) PROVE request'[r].user = request[r].user
  BY <1>0, <1>3 DEF ReadTarget, TypeOK
<1> QED
  BY <1>1, <1>2, <1>3 DEF Next, GiveUp, CreateUser, FindExternalId, FlushCustomer, ReplyCustomer,
     CommitCustomer, LoseCustomer, SetAPIKey, WriteRole, WriteActive, MirrorActive, Places

\* The API's call of r goes to another state.
LEMMA ProvisionsCall ==
  ASSUME IInv, Next, NEW r \in Requests, NEW state \in States \ {"none"}, user' = user,
         customer' = [customer EXCEPT ![r].state = state], customer[r].state # "none",
         \/ state = "selected" /\ customer[r].state = "asked"
         \/ state = "gone" /\ customer[r].state \in {"asked", "selected", "flushed", "replied"}
         \/ /\ state = "flushed" /\ customer[r].state = "selected"
            /\ OthersOf(r) \intersect Live = {}
         \/ state = "replied" /\ customer[r].state = "flushed"
         \/ state = "committed" /\ customer[r].state = "replied"
  PROVE  [Provisions!PNext]_(Provisions!pvars)
<1>0. TypeOK /\ request[r].user \in Users
  BY DEF IInv, CallOK
<1>1. \A s \in Requests : customer'[s].state = IF s = r THEN state ELSE customer[s].state
  BY <1>0 DEF TypeOK
<1>2. AskedFor' = AskedFor /\ KeptKey' = KeptKey
  BY <1>1, UserStays DEF AskedFor, KeptKey, States
<1>3. AskedFor[r] # None
  BY <1>0, NoneAssumption DEF AskedFor
<1>4. CASE state = "selected" \/ state = "replied"
  BY <1>1, <1>4, UserStays, ProvisionsStutter DEF AskedFor, Fate, KeptKey, Provisions!pvars
<1>5. CASE state = "gone"
  <2>1. Fate' = [Fate EXCEPT ![r] = "void"] /\ Fate[r] \in {"none", "offered"}
    BY <1>1, <1>5 DEF Fate
  <2>2. Provisions!Void(r)
    BY <1>2, <1>3, <2>1 DEF Provisions!Void, Provisions!Becomes
  <2> QED
    BY <2>2 DEF Provisions!PNext
<1>6. CASE state = "flushed"
  <2>1. Fate' = [Fate EXCEPT ![r] = "offered"] /\ Fate[r] = "none"
    BY <1>1, <1>6 DEF Fate
  <2>2. ASSUME NEW s \in Requests, s # r, Provisions!Holds(s) PROVE AskedFor[s] # AskedFor[r]
    <3>1. customer[s].state \in Live
      BY <2>2 DEF Provisions!Holds, Fate, Live
    <3>2. request[s].user # request[r].user
      BY <1>6, <2>2, <3>1 DEF OthersOf
    <3> QED
      BY <1>6, <3>1, <3>2 DEF AskedFor, Live
  <2>3. Provisions!Offer(r)
    BY <1>2, <1>3, <2>1, <2>2 DEF Provisions!Offer, Provisions!Becomes
  <2> QED
    BY <2>3 DEF Provisions!PNext
<1>7. CASE state = "committed"
  <2>1. Fate' = [Fate EXCEPT ![r] = "made"] /\ Fate[r] = "offered"
    BY <1>1, <1>7 DEF Fate
  <2>2. Provisions!Make(r)
    BY <1>2, <2>1 DEF Provisions!Make, Provisions!Becomes
  <2> QED
    BY <2>2 DEF Provisions!PNext
<1> QED
  BY <1>4, <1>5, <1>6, <1>7

LEMMA ProvisionsAsk ==
  ASSUME IInv, Next, NEW r \in Requests, NEW u \in Users, ProvisionKey(r, u)
  PROVE  Provisions!PNext
<1>0. TypeOK /\ customer[r].state = "none"
  BY NoneAssumption DEF IInv, HandlerOK, CallOK, At, ProvisionKey
<1>1. /\ \A s \in Requests : customer'[s].state = IF s = r THEN "asked" ELSE customer[s].state
      /\ \A s \in Requests : s # r => request'[s] = request[s]
      /\ request'[r].user = u
  BY <1>0 DEF ProvisionKey, NoRequest, TypeOK
<1>2. AskedFor[r] = None /\ AskedFor' = [AskedFor EXCEPT ![r] = u]
  BY <1>0, <1>1 DEF AskedFor
<1>3. UNCHANGED <<Fate, KeptKey>>
  BY <1>0, <1>1 DEF ProvisionKey, Fate, KeptKey
<1>4. Provisions!Ask(r)
  BY <1>2, <1>3 DEF Provisions!Ask
<1> QED
  BY <1>4 DEF Provisions!PNext

LEMMA ProvisionsKeep ==
  ASSUME IInv, Next, NEW r \in Requests, SetAPIKey(r)
  PROVE  [Provisions!PNext]_(Provisions!pvars)
<1> DEFINE u == request[r].user
           k == user[u].key
<1>0. TypeOK /\ u \in Users /\ customer[r].state \in Answered /\ customer' = customer
  BY DEF IInv, HandlerOK, SetAPIKey, At, TypeOK
<1>1. /\ \A v \in Users : user'[v].key = IF v = u THEN r ELSE user[v].key
      /\ \A s \in Requests : request'[s].user = request[s].user
  BY <1>0 DEF SetAPIKey, Goto, TypeOK
<1>2. AskedFor' = AskedFor /\ Fate' = Fate /\ AskedFor[r] = u
  BY <1>0, <1>1 DEF AskedFor, Fate, Answered
<1>3. KeptKey' = [KeptKey EXCEPT ![u] = r] /\ KeptKey[u] = k
  BY <1>0, <1>1 DEF KeptKey
<1>4. CASE k = r
  BY <1>0, <1>1, <1>4, ProvisionsStutter
<1>5. CASE k # r
  <2>1. k = None \/ "void" \in {Fate[r], Fate[k]}
    <3> SUFFICES ASSUME k # None PROVE customer[r].state = "gone" \/ Fate[k] = "void"
      BY DEF Fate
    <3>1. k \in Requests /\ request[k].user = u /\ customer[k].state \in Answered
      BY <1>0 DEF IInv, KeyIsOwn, Answered, TypeOK
    <3>2. customer[k].state = "gone" \/ customer[r].state = "gone"
      BY <1>0, <1>5, <3>1 DEF IInv, OneLive, Live, Answered
    <3> QED
      BY <3>1, <3>2 DEF Fate
  <2>2. u # None /\ Fate[r] # "none"
    BY <1>0, NoneAssumption DEF Fate, Answered
  <2>3. Provisions!Keep(r)
    BY <1>2, <1>3, <2>1, <2>2 DEF Provisions!Keep
  <2> QED
    BY <2>3 DEF Provisions!PNext
<1> QED
  BY <1>4, <1>5

LEMMA ProvisionsStep == ASSUME IInv, [Next]_vars PROVE [Provisions!PNext]_(Provisions!pvars)
<1>0. TypeOK
  BY DEF IInv
<1>1. CASE UNCHANGED vars
  BY <1>1, ProvisionsStutter DEF vars
<1>2. ASSUME NEW r \in Requests, FindExternalId(r) PROVE [Provisions!PNext]_(Provisions!pvars)
  BY <1>2, ProvisionsCall DEF FindExternalId, States, Next
<1>3. ASSUME NEW r \in Requests, FlushCustomer(r) PROVE [Provisions!PNext]_(Provisions!pvars)
  BY <1>3, ProvisionsCall DEF FlushCustomer, States, Next, Live
<1>4. ASSUME NEW r \in Requests, ReplyCustomer(r) PROVE [Provisions!PNext]_(Provisions!pvars)
  BY <1>4, ProvisionsCall DEF ReplyCustomer, States, Next
<1>5. ASSUME NEW r \in Requests, CommitCustomer(r) PROVE [Provisions!PNext]_(Provisions!pvars)
  BY <1>5, ProvisionsCall DEF CommitCustomer, States, Next
<1>6. ASSUME NEW r \in Requests, LoseCustomer(r) PROVE [Provisions!PNext]_(Provisions!pvars)
  BY <1>6, ProvisionsCall DEF LoseCustomer, States, Next
<1>7. CASE Next /\ customer' = customer /\ user' = user
  BY <1>7, UserStays, ProvisionsStutter
<1>8. ASSUME NEW r \in Requests, CreateUser(r) PROVE UNCHANGED Provisions!pvars
  <2>1. \A u \in Users : user'[u].key = user[u].key
    BY <1>0, <1>8 DEF CreateUser, NoUser, TypeOK, IInv, KeyOfAccount
  <2> QED
    BY <1>8, <2>1, UserStays, ProvisionsStutter DEF CreateUser, Next
<1>9. ASSUME NEW r \in Requests, WriteRole(r) \/ WriteActive(r) PROVE UNCHANGED Provisions!pvars
  <2>1. \A u \in Users : user'[u].key = user[u].key
    BY <1>0, <1>9 DEF WriteRole, WriteActive, TypeOK
  <2> QED
    BY <1>9, <2>1, UserStays, ProvisionsStutter DEF WriteRole, WriteActive, Next
<1>10. ASSUME NEW r \in Requests, MirrorActive(r) PROVE UNCHANGED Provisions!pvars
  <2>1. \A s \in Requests : customer'[s].state = customer[s].state
    BY <1>0, <1>10 DEF MirrorActive, TypeOK
  <2> QED
    BY <1>10, <2>1, UserStays, ProvisionsStutter DEF MirrorActive, Next
<1>11. ASSUME NEW r \in Requests, SetAPIKey(r) PROVE [Provisions!PNext]_(Provisions!pvars)
  BY <1>11, ProvisionsKeep DEF Next
<1>12. ASSUME NEW r \in Requests, NEW u \in Users, ProvisionKey(r, u) PROVE Provisions!PNext
  BY <1>12, ProvisionsAsk DEF Next
<1> QED
  BY <1>1, <1>2, <1>3, <1>4, <1>5, <1>6, <1>7, <1>8, <1>9, <1>10, <1>11, <1>12
  DEF Next, GiveUp, ReadTarget, CountAdmins, AdmitAdmin

\* The sign-ups, provisionings and admins' changes of any number of requests
\* implement the provisioning of keys.
THEOREM ProvisioningImplemented == Spec => ImplementsProvisioning
  BY ProvisionsInit, ProvisionsStep, Invariance, PTL
     DEF Spec, ImplementsProvisioning, Provisions!PSpec

=============================================================================
