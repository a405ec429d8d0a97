---------------------------- MODULE SessionProofs ----------------------------
(***************************************************************************)
(* Proofs about Session, for any accounts, tokens, hooks and calls.  The   *)
(* inductive invariant says what a call carries by its kind and where it   *)
(* stands, and that every flag on its way to the store is backed by an     *)
(* account that has signed in here and has a key.                          *)
(***************************************************************************)
EXTENDS Session, TLAPS

Kinds == {"none", "login", "callback", "me", "rename", "provision", "read"}

AnswerType == [status: {"none", "ok", "401"}, token: Tokens \union {None}, key: BOOLEAN]

CallType == [kind: Kinds, from: Hooks \union {None}, token: Tokens \union {None},
             at: {"idle", "sent", "answered"}, answer: AnswerType]

SessionType == [token: Tokens, user: Users \union {None}, hasKey: BOOLEAN] \union {NoSession}

\* The account of k has signed in on this browser and has an API key.
Backed(k) == k \in Tokens /\ token[k] # "unissued" /\ Owner[k] \in keyed
KeyBacked == \E k \in Tokens : Backed(k)

\* A call that can set the flag, or patch the session, is one of an account
\* that signed in; an idle call carries nothing.
CallOK(c) ==
  /\ call[c].at = "idle" => call[c].answer.status = "none"
  /\ call[c].kind \in {"callback", "me", "rename", "provision"} =>
       call[c].token \in Tokens /\ token[call[c].token] # "unissued"
  /\ Gets(c, "login", "ok") =>
       /\ call[c].answer.token \in Tokens
       /\ token[call[c].answer.token] # "unissued"
       /\ call[c].answer.key => Owner[call[c].answer.token] \in keyed
  /\ Gets(c, "me", "ok") \/ Gets(c, "callback", "ok") =>
       (call[c].answer.key => Owner[call[c].token] \in keyed)
  /\ Gets(c, "provision", "ok") => Owner[call[c].token] \in keyed

StoreOK ==
  /\ store # NoSession => token[store.token] # "unissued"
  /\ store.hasKey => KeyBacked

IInv == TypeOK /\ StoreOK /\ \A c \in Calls : CallOK(c)

-----------------------------------------------------------------------------
\* The initial state satisfies the invariant.
LEMMA InitInvariant == Init => IInv
<1> SUFFICES ASSUME Init PROVE IInv
  OBVIOUS
<1>1. TypeOK
  BY DEF Init, TypeOK, Idle, NoAnswer, FreshHook, NoSession
<1>2. StoreOK
  BY DEF Init, StoreOK, NoSession
<1>3. ASSUME NEW c \in Calls PROVE CallOK(c)
  BY <1>3 DEF Init, CallOK, Gets, Idle, NoAnswer
<1> QED
  BY <1>1, <1>2, <1>3 DEF IInv

\* What the types of the calls and of the store say of one of them.
LEMMA Typed ==
  ASSUME TypeOK
  PROVE  /\ call \in [Calls -> CallType] /\ store \in SessionType
         /\ \A c \in Calls :
              /\ call[c] \in CallType /\ call[c].answer \in AnswerType
              /\ call[c].token \in Tokens \union {None}
         /\ store # NoSession => store.token \in Tokens /\ store.hasKey \in BOOLEAN
         /\ store.user \in Users \union {None} /\ store.hasKey \in BOOLEAN
<1>1. call \in [Calls -> CallType] /\ store \in SessionType
  BY DEF TypeOK, CallType, AnswerType, SessionType, Kinds
<1>2. ASSUME NEW c \in Calls
      PROVE  /\ call[c] \in CallType /\ call[c].answer \in AnswerType
             /\ call[c].token \in Tokens \union {None}
  BY <1>1, <1>2 DEF CallType
<1>3. /\ store # NoSession => store.token \in Tokens /\ store.hasKey \in BOOLEAN
      /\ store.user \in Users \union {None} /\ store.hasKey \in BOOLEAN
  <2>1. CASE store = NoSession
    BY <2>1 DEF NoSession
  <2>2. CASE store \in [token: Tokens, user: Users \union {None}, hasKey: BOOLEAN]
    BY <2>2
  <2> QED
    BY <1>1, <2>1, <2>2 DEF SessionType
<1> QED
  BY <1>1, <1>2, <1>3

\* A step that sends a request with a token that was issued, or with none,
\* and leaves the accounts, the store and the other tokens as they are.
LEMMA SendInvariant ==
  ASSUME IInv, NEW c \in Calls, NEW h \in Hooks \union {None},
         NEW k \in Tokens \union {None},
         NEW kind \in Kinds, Send(c, kind, h, k),
         kind \in {"callback", "me", "rename", "provision"}
            => k \in Tokens /\ token'[k] # "unissued",
         token' \in [Tokens -> {"unissued", "live", "dead"}],
         \A t \in Tokens : token[t] # "unissued" => token'[t] # "unissued",
         hook' \in [Hooks -> [checked: Tokens \union {None}, kept: BOOLEAN]],
         UNCHANGED <<keyed, store>>
  PROVE  IInv'
<1>0. TypeOK /\ StoreOK /\ \A d \in Calls : CallOK(d)
  BY DEF IInv
<1>1. call \in [Calls -> CallType] /\ store \in SessionType
  BY <1>0, Typed
<1>3. NoAnswer \in AnswerType /\ NoAnswer.status = "none"
  BY DEF NoAnswer, AnswerType
<1> DEFINE q == Request(kind, h, k)
<1>4. /\ q \in CallType
      /\ q.kind = kind /\ q.token = k /\ q.at = "sent"
  BY <1>3 DEF Request, Idle, CallType, Kinds
<1>5. call' = [call EXCEPT ![c] = q]
  BY DEF Send
<1> HIDE DEF q
<1>6. call' \in [Calls -> CallType]
  BY <1>1, <1>4, <1>5
<1>7. TypeOK'
  BY <1>0, <1>6 DEF TypeOK, CallType, AnswerType, Kinds, NoSession
<1>8. StoreOK'
  BY <1>0 DEF StoreOK, KeyBacked, Backed, TypeOK, NoSession
<1>9. CallOK(c)'
  BY <1>1, <1>4, <1>5 DEF CallOK, Gets
<1>10. ASSUME NEW d \in Calls, d # c PROVE CallOK(d)'
  <2>1. call'[d] = call[d] /\ CallOK(d)
    BY <1>0, <1>1, <1>5, <1>10
  <2> QED
    BY <2>1 DEF CallOK, Gets
<1> QED
  BY <1>7, <1>8, <1>9, <1>10 DEF IInv

\* A step that answers a call, issuing a token or giving out a key by the way.
LEMMA ServeInvariant ==
  ASSUME IInv, NEW c \in Calls, NEW s \in {"ok", "401"}, NEW k \in Tokens \union {None},
         NEW f \in BOOLEAN, Answers(c, s, k, f),
         token' \in [Tokens -> {"unissued", "live", "dead"}],
         \A t \in Tokens : token[t] # "unissued" => token'[t] # "unissued",
         keyed \subseteq keyed', keyed' \subseteq Users,
         UNCHANGED <<store, hook>>,
         s = "ok" /\ call[c].kind = "login"
            => k \in Tokens /\ token'[k] # "unissued" /\ (f => Owner[k] \in keyed'),
         s = "ok" /\ call[c].kind \in {"me", "callback"}
            => (f => Owner[call[c].token] \in keyed'),
         s = "ok" /\ call[c].kind = "provision" => Owner[call[c].token] \in keyed'
  PROVE  IInv'
<1>0. TypeOK /\ StoreOK /\ \A d \in Calls : CallOK(d)
  BY DEF IInv
<1>1. call \in [Calls -> CallType] /\ call[c] \in CallType
  BY <1>0, Typed
<1> DEFINE a == [status |-> s, token |-> k, key |-> f]
           q == [call[c] EXCEPT !.at = "answered", !.answer = a]
<1>2. a \in AnswerType /\ a.status = s /\ a.token = k /\ a.key = f
  BY DEF AnswerType
<1> HIDE DEF a
<1>3. /\ q \in CallType
      /\ q.kind = call[c].kind /\ q.token = call[c].token
      /\ q.at = "answered" /\ q.answer = a
  BY <1>1, <1>2 DEF CallType
<1>4. call' = [call EXCEPT ![c] = q]
  BY <1>1 DEF Answers, a
<1> HIDE DEF q
<1>5. call' \in [Calls -> CallType] /\ call'[c] = q
  BY <1>1, <1>3, <1>4
<1>6. TypeOK'
  BY <1>0, <1>5 DEF TypeOK, CallType, AnswerType, Kinds, NoSession
<1>7. StoreOK'
  <2>1. store = NoSession \/ store.token \in Tokens
    BY <1>0, Typed
  <2> QED
    BY <1>0, <2>1 DEF StoreOK, KeyBacked, Backed, TypeOK, NoSession
<1>8. CallOK(c)'
  <2>1. CallOK(c)
    BY <1>0
  <2> QED
    BY <1>2, <1>3, <1>5, <2>1 DEF CallOK, Gets
<1>9. ASSUME NEW d \in Calls, d # c PROVE CallOK(d)'
  <2>1. call'[d] = call[d] /\ CallOK(d)
    BY <1>0, <1>1, <1>4, <1>9
  <2> QED
    BY <2>1 DEF CallOK, Gets
<1> QED
  BY <1>6, <1>7, <1>8, <1>9 DEF IInv

\* A step that ends a call, or makes of it the check of the stored session.
LEMMA EndInvariant ==
  ASSUME IInv, NEW c \in Calls, NEW q, Becomes(c, q),
         q = Idle \/ (store # NoSession /\ q = Request("me", None, store.token)),
         store' \in SessionType, StoreOK',
         hook' \in [Hooks -> [checked: Tokens \union {None}, kept: BOOLEAN]],
         UNCHANGED <<keyed, token>>
  PROVE  IInv'
<1>0. TypeOK /\ StoreOK /\ \A d \in Calls : CallOK(d)
  BY DEF IInv
<1>1. call \in [Calls -> CallType] /\ (store # NoSession => store.token \in Tokens)
  BY <1>0, Typed
<1>2. NoAnswer \in AnswerType /\ NoAnswer.status = "none"
  BY DEF NoAnswer, AnswerType
<1>3. /\ q \in CallType /\ q.at \in {"idle", "sent"}
      /\ q.at = "idle" => q.answer.status = "none"
      /\ q.kind = "none" \/ (q.kind = "me" /\ q.token \in Tokens /\ token[q.token] # "unissued")
  <2>1. CASE q = Idle
    BY <1>2, <2>1 DEF Idle, CallType, Kinds
  <2>2. CASE store # NoSession /\ q = Request("me", None, store.token)
    <3>1. q \in CallType /\ q.at = "sent" /\ q.kind = "me" /\ q.token = store.token
      BY <1>1, <1>2, <2>2 DEF Request, Idle, CallType, Kinds
    <3> QED
      BY <1>0, <1>1, <2>2, <3>1 DEF StoreOK
  <2> QED
    BY <2>1, <2>2
<1>4. call' \in [Calls -> CallType] /\ call'[c] = q
  BY <1>1, <1>3 DEF Becomes
<1>5. TypeOK'
  BY <1>0, <1>4 DEF TypeOK, CallType, AnswerType, Kinds, NoSession, SessionType
<1>6. CallOK(c)'
  BY <1>3, <1>4 DEF CallOK, Gets
<1>7. ASSUME NEW d \in Calls, d # c PROVE CallOK(d)'
  <2>1. call'[d] = call[d] /\ CallOK(d)
    BY <1>0, <1>1, <1>7 DEF Becomes
  <2> QED
    BY <2>1 DEF CallOK, Gets
<1> QED
  BY <1>5, <1>6, <1>7 DEF IInv

-----------------------------------------------------------------------------
\* Whatever a page sends.
LEMMA Sending ==
  ASSUME IInv, NEW c \in Calls,
         \/ SubmitLogin(c) \/ Callback(c) \/ SaveProfile(c) \/ UseKeyCard(c) \/ CallApi(c)
         \/ \E h \in Hooks : Refresh(h, c)
  PROVE  IInv'
<1>0. /\ token \in [Tokens -> {"unissued", "live", "dead"}]
      /\ hook \in [Hooks -> [checked: Tokens \union {None}, kept: BOOLEAN]]
      /\ store # NoSession => store.token \in Tokens /\ token[store.token] # "unissued"
  BY Typed DEF IInv, TypeOK, StoreOK
<1>1. CASE SubmitLogin(c)
  BY <1>0, <1>1, SendInvariant DEF SubmitLogin, Kinds
<1>2. CASE Callback(c)
  <2>1. PICK k \in Tokens : Issue(k) /\ Send(c, "callback", None, k)
    BY <1>2 DEF Callback
  <2>2. /\ token' \in [Tokens -> {"unissued", "live", "dead"}]
        /\ token'[k] # "unissued"
        /\ \A t \in Tokens : token[t] # "unissued" => token'[t] # "unissued"
    BY <1>0, <2>1 DEF Issue
  <2> QED
    BY <1>0, <1>2, <2>1, <2>2, SendInvariant DEF Callback, Kinds
<1>3. CASE SaveProfile(c)
  BY <1>0, <1>3, SendInvariant DEF SaveProfile, Kinds
<1>4. CASE UseKeyCard(c)
  <2> DEFINE kind == IF store.hasKey THEN "read" ELSE "provision"
  <2>1. kind \in Kinds /\ Send(c, kind, None, store.token)
    BY <1>4 DEF UseKeyCard, Kinds
  <2> HIDE DEF kind
  <2> QED
    BY <1>0, <1>4, <2>1, SendInvariant DEF UseKeyCard
<1>5. CASE CallApi(c)
  <2>1. ModeToken \in Tokens \union {None}
    BY <1>0 DEF ModeToken
  <2> QED
    BY <1>0, <1>5, <2>1, SendInvariant DEF CallApi, Kinds
<1>6. ASSUME NEW h \in Hooks, Refresh(h, c) PROVE IInv'
  <2>1. hook' \in [Hooks -> [checked: Tokens \union {None}, kept: BOOLEAN]]
    BY <1>0, <1>6 DEF Refresh
  <2> QED
    BY <1>0, <1>6, <2>1, SendInvariant DEF Refresh, Kinds
<1> QED
  BY <1>1, <1>2, <1>3, <1>4, <1>5, <1>6

\* Whatever the service answers.
LEMMA Serving ==
  ASSUME IInv, NEW c \in Calls, Serve(c)
  PROVE  IInv'
<1>0. /\ token \in [Tokens -> {"unissued", "live", "dead"}] /\ keyed \subseteq Users
      /\ Owner \in [Tokens -> Users] /\ CallOK(c)
      /\ call[c].kind \in {"me", "callback", "rename", "provision"} => call[c].token \in Tokens
  BY NamesOK DEF IInv, TypeOK, CallOK
<1>1. CASE ServeLogin(c)
  <2>1. ASSUME NEW k \in Tokens, Issue(k), Answers(c, "ok", k, Owner[k] \in keyed)
        PROVE  IInv'
    <3>1. /\ token' \in [Tokens -> {"unissued", "live", "dead"}]
          /\ token'[k] # "unissued"
          /\ \A t \in Tokens : token[t] # "unissued" => token'[t] # "unissued"
      BY <1>0, <2>1 DEF Issue
    <3> DEFINE f == Owner[k] \in keyed
    <3>2. f \in BOOLEAN /\ (f => Owner[k] \in keyed)
      OBVIOUS
    <3>3. Answers(c, "ok", k, f)
      BY <2>1
    <3> HIDE DEF f
    <3> QED
      BY <1>0, <1>1, <3>1, <3>2, <3>3, ServeInvariant DEF ServeLogin, Sent
  <2>2. ASSUME Says(c, "401"), UNCHANGED token PROVE IInv'
    BY <1>0, <1>1, <2>2, ServeInvariant DEF ServeLogin, Says
  <2> QED
    BY <1>1, <2>1, <2>2 DEF ServeLogin
<1>2. CASE Rejects(c)
  BY <1>0, <1>2, ServeInvariant DEF Rejects, Says
<1>3. CASE ServeMe(c)
  <2> DEFINE f == Owner[call[c].token] \in keyed
  <2>1. f \in BOOLEAN /\ (f => Owner[call[c].token] \in keyed)
    OBVIOUS
  <2>2. Answers(c, "ok", None, f)
    BY <1>3 DEF ServeMe
  <2> HIDE DEF f
  <2>3. call[c].kind \in {"me", "callback"}
    BY <1>3 DEF ServeMe, Sent
  <2> QED
    BY <1>0, <1>3, <2>1, <2>2, <2>3, ServeInvariant DEF ServeMe
<1>4. CASE ServeRename(c)
  BY <1>0, <1>4, ServeInvariant DEF ServeRename, Says, Sent
<1>5. CASE Provision(c)
  <2>1. Owner[call[c].token] \in Users
    BY <1>0, <1>5 DEF Provision, Sent
  <2>2. keyed \subseteq keyed' /\ keyed' \subseteq Users /\ Owner[call[c].token] \in keyed'
    BY <1>0, <1>5, <2>1 DEF Provision
  <2> QED
    BY <1>0, <1>5, <2>2, ServeInvariant DEF Provision, Says, Sent
<1> QED
  BY <1>1, <1>2, <1>3, <1>4, <1>5 DEF Serve

\* Whatever a page does with an answer, or without one.
LEMMA Ending ==
  ASSUME IInv, NEW c \in Calls, Deliver(c) \/ Failed(c)
  PROVE  IInv'
<1>0. /\ TypeOK /\ StoreOK /\ CallOK(c) /\ Owner \in [Tokens -> Users]
      /\ hook \in [Hooks -> [checked: Tokens \union {None}, kept: BOOLEAN]]
      /\ store \in SessionType /\ call[c] \in CallType
      /\ call[c].answer \in AnswerType
      /\ store # NoSession => store.token \in Tokens
      /\ store.user \in Users \union {None} /\ store.hasKey \in BOOLEAN
  BY Typed, NamesOK DEF IInv, TypeOK
<1>1. call[c].answer.token \in Tokens \union {None} /\ call[c].answer.key \in BOOLEAN
  BY <1>0 DEF AnswerType
<1>2. ASSUME NEW k \in Tokens, NEW f \in BOOLEAN, token[k] # "unissued",
             f => Owner[k] \in keyed, SetSession(k, Owner[k], f), UNCHANGED <<keyed, token>>
      PROVE  store' \in SessionType /\ StoreOK'
  <2>1. /\ store' = [token |-> k, user |-> Owner[k], hasKey |-> f] /\ Owner[k] \in Users
    BY <1>0, <1>2 DEF SetSession
  <2>2. store' \in SessionType /\ store'.token = k /\ store'.hasKey = f
    BY <2>1 DEF SessionType
  <2> QED
    BY <1>2, <2>2 DEF StoreOK, KeyBacked, Backed
<1>3. ASSUME NEW u \in Users \union {None}, NEW f \in BOOLEAN, f => KeyBacked,
             PatchSession(u, f), UNCHANGED <<keyed, token>>
      PROVE  store' \in SessionType /\ StoreOK'
  <2>1. CASE store = NoSession
    BY <1>0, <1>3, <2>1 DEF PatchSession, StoreOK, KeyBacked, Backed
  <2>2. CASE store # NoSession
    <3>1. store \in [token: Tokens, user: Users \union {None}, hasKey: BOOLEAN]
      BY <1>0, <2>2 DEF SessionType
    <3>2. store' = [store EXCEPT !.user = u, !.hasKey = f]
      BY <1>3, <2>2 DEF PatchSession
    <3>3. store' \in SessionType /\ store'.token = store.token /\ store'.hasKey = f
      BY <1>3, <3>1, <3>2 DEF SessionType
    <3> QED
      BY <1>0, <1>3, <2>2, <3>3 DEF StoreOK, KeyBacked, Backed
  <2> QED
    BY <2>1, <2>2
<1>4. ASSUME call[c].token \in Tokens, token[call[c].token] # "unissued",
             Owner[call[c].token] \in keyed
      PROVE  KeyBacked
  BY <1>4 DEF KeyBacked, Backed
<1>5. CASE LoginDone(c)
  <2>1. store' \in SessionType /\ StoreOK'
    BY <1>0, <1>1, <1>2, <1>5 DEF LoginDone, CallOK
  <2> QED
    BY <1>0, <1>5, <2>1, EndInvariant DEF LoginDone
<1>6. CASE CallbackDone(c)
  <2>1. call[c].token \in Tokens /\ token[call[c].token] # "unissued"
        /\ (call[c].answer.key => Owner[call[c].token] \in keyed)
    BY <1>0, <1>6 DEF CallbackDone, CallOK, Gets
  <2>2. store' \in SessionType /\ StoreOK'
    BY <1>1, <1>2, <1>6, <2>1 DEF CallbackDone
  <2> QED
    BY <1>0, <1>6, <2>2, EndInvariant DEF CallbackDone
<1>7. CASE MeDone(c)
  <2>1. call[c].token \in Tokens /\ token[call[c].token] # "unissued"
        /\ (call[c].answer.key => Owner[call[c].token] \in keyed)
    BY <1>0, <1>7 DEF MeDone, CallOK, Gets
  <2>2. Owner[call[c].token] \in Users
    BY <1>0, <2>1
  <2>3. store' \in SessionType /\ StoreOK'
    BY <1>1, <1>3, <1>4, <1>7, <2>1, <2>2 DEF MeDone
  <2> QED
    BY <1>0, <1>7, <2>3, EndInvariant DEF MeDone
<1>8. CASE RenameDone(c)
  <2>1. store' \in SessionType /\ StoreOK'
    BY <1>0, <1>3, <1>8 DEF RenameDone, StoreOK
  <2> QED
    BY <1>0, <1>8, <2>1, EndInvariant DEF RenameDone
<1>9. CASE ProvisionDone(c)
  <2>1. KeyBacked
    BY <1>0, <1>4, <1>9 DEF ProvisionDone, CallOK, Gets
  <2>2. store' \in SessionType /\ StoreOK'
    BY <1>0, <1>3, <1>9, <2>1 DEF ProvisionDone
  <2>3. CASE store = NoSession
    BY <1>0, <1>9, <2>2, <2>3, EndInvariant DEF ProvisionDone
  <2>4. CASE store # NoSession
    BY <1>0, <1>9, <2>2, <2>4, EndInvariant DEF ProvisionDone
  <2> QED
    BY <2>3, <2>4
<1>10. CASE ReadDone(c)
  <2>1. store' \in SessionType /\ StoreOK'
    BY <1>0, <1>10 DEF ReadDone, StoreOK, KeyBacked, Backed
  <2> QED
    BY <1>0, <1>10, <2>1, EndInvariant DEF ReadDone
<1>11. CASE Refused(c)
  <2>1. CASE LogsOut(c)
    <3>1. store' = NoSession
      BY <1>11, <2>1 DEF Refused, ClearSession
    <3>2. store' \in SessionType /\ StoreOK'
      BY <3>1 DEF SessionType, StoreOK, NoSession
    <3> QED
      BY <1>0, <1>11, <3>2, EndInvariant DEF Refused
  <2>2. CASE ~ LogsOut(c)
    <3>1. store' \in SessionType /\ StoreOK'
      BY <1>0, <1>11, <2>2 DEF Refused, StoreOK, KeyBacked, Backed
    <3> QED
      BY <1>0, <1>11, <3>1, EndInvariant DEF Refused
  <2> QED
    BY <2>1, <2>2
<1>12. CASE Failed(c)
  <2>1. hook' \in [Hooks -> [checked: Tokens \union {None}, kept: BOOLEAN]]
    <3>1. ASSUME NEW h \in Hooks
          PROVE  [hook[h] EXCEPT !.kept = @ \/ call[c].from = h]
                   \in [checked: Tokens \union {None}, kept: BOOLEAN]
      <4>1. PICK f \in BOOLEAN : f = (hook[h].kept \/ call[c].from = h)
        OBVIOUS
      <4> QED
        BY <1>0, <4>1
    <3> QED
      BY <1>12, <3>1 DEF Failed
  <2>2. store' \in SessionType /\ StoreOK'
    BY <1>0, <1>12 DEF Failed, StoreOK, KeyBacked, Backed
  <2> QED
    BY <1>12, <2>1, <2>2, EndInvariant DEF Failed
<1> QED
  BY <1>5, <1>6, <1>7, <1>8, <1>9, <1>10, <1>11, <1>12 DEF Deliver

\* Every step preserves the invariant.
LEMMA NextInvariant == IInv /\ [Next]_vars => IInv'
<1> SUFFICES ASSUME IInv, [Next]_vars PROVE IInv'
  OBVIOUS
<1>0. TypeOK /\ StoreOK /\ \A c \in Calls : CallOK(c)
  BY DEF IInv
<1>1. CASE \E k \in Tokens : Expire(k)
  <2>1. PICK k \in Tokens : Expire(k)
    BY <1>1
  <2>2. /\ token' \in [Tokens -> {"unissued", "live", "dead"}]
        /\ \A t \in Tokens : token[t] # "unissued" => token'[t] # "unissued"
    BY <1>0, <2>1 DEF Expire, TypeOK
  <2>3. TypeOK' /\ keyed' = keyed /\ store' = store /\ call' = call
    BY <1>0, <2>1, <2>2 DEF Expire, TypeOK
  <2>4. StoreOK'
    <3>1. store # NoSession => store.token \in Tokens
      BY <1>0, Typed
    <3> QED
      BY <1>0, <2>2, <2>3, <3>1 DEF StoreOK, KeyBacked, Backed
  <2>5. ASSUME NEW c \in Calls PROVE CallOK(c)'
    <3>1. CallOK(c)
      BY <1>0
    <3> QED
      BY <2>2, <2>3, <3>1 DEF CallOK, Gets
  <2> QED
    BY <2>3, <2>4, <2>5 DEF IInv
<1>2. CASE Logout
  <2>1. TypeOK' /\ StoreOK'
    BY <1>0, <1>2 DEF Logout, ClearSession, TypeOK, StoreOK, NoSession
  <2>2. ASSUME NEW c \in Calls PROVE CallOK(c)'
    BY <1>0, <1>2 DEF Logout, CallOK, Gets
  <2> QED
    BY <2>1, <2>2 DEF IInv
<1>3. CASE \E h \in Hooks : Mount(h)
  <2>1. TypeOK'
    BY <1>0, <1>3 DEF Mount, TypeOK, FreshHook
  <2>2. StoreOK'
    BY <1>0, <1>3 DEF Mount, StoreOK, KeyBacked, Backed
  <2>3. ASSUME NEW c \in Calls PROVE CallOK(c)'
    BY <1>0, <1>3 DEF Mount, CallOK, Gets
  <2> QED
    BY <2>1, <2>2, <2>3 DEF IInv
<1>4. CASE UNCHANGED vars
  <2>1. TypeOK' /\ StoreOK'
    BY <1>0, <1>4 DEF vars, TypeOK, StoreOK, KeyBacked, Backed
  <2>2. ASSUME NEW c \in Calls PROVE CallOK(c)'
    BY <1>0, <1>4 DEF vars, CallOK, Gets
  <2> QED
    BY <2>1, <2>2 DEF IInv
<1> QED
  BY <1>1, <1>2, <1>3, <1>4, Sending, Serving, Ending DEF Next

\* The invariant holds in every state.
THEOREM Invariance == Spec => []IInv
  BY InitInvariant, NextInvariant, PTL DEF Spec

\* Every variable keeps its type: no late answer leaves half a session behind.
THEOREM TypeCorrect == Spec => []TypeOK
<1>1. IInv => TypeOK
  BY DEF IInv
<1> QED
  BY <1>1, Invariance, PTL

\* The session's flag is backed by a key of an account that signed in here.
THEOREM FlagHonest == Spec => []KeyFlagHonest
<1>1. IInv => KeyFlagHonest
  BY DEF IInv, StoreOK, KeyBacked, Backed, KeyFlagHonest
<1> QED
  BY <1>1, Invariance, PTL

-----------------------------------------------------------------------------
\* Who may change the store, and with what.
LEMMA StoreWriter ==
  ASSUME Next, store' # store
  PROVE  \/ \E c \in Calls :
              \/ LoginDone(c) \/ CallbackDone(c) \/ MeDone(c) \/ RenameDone(c)
              \/ ProvisionDone(c) \/ Refused(c)
         \/ Logout
<1>1. ASSUME NEW c \in Calls,
             \/ SubmitLogin(c) \/ Callback(c) \/ SaveProfile(c) \/ UseKeyCard(c)
             \/ CallApi(c) \/ Serve(c) \/ Failed(c) \/ ReadDone(c)
             \/ \E h \in Hooks : Refresh(h, c)
      PROVE  store' = store
  BY <1>1 DEF SubmitLogin, Callback, SaveProfile, UseKeyCard, CallApi, Refresh, Serve,
     ServeLogin, Rejects, ServeMe, ServeRename, Provision, Failed, ReadDone
<1>2. (\E k \in Tokens : Expire(k)) \/ (\E h \in Hooks : Mount(h)) => store' = store
  BY DEF Expire, Mount
<1> QED
  BY <1>1, <1>2 DEF Next, Deliver

\* A patch keeps the token that is stored.
LEMMA PatchKeepsToken ==
  ASSUME TypeOK, NEW u, NEW f, PatchSession(u, f)
  PROVE  store'.token = store.token /\ (store' = NoSession => store = NoSession)
<1>1. CASE store = NoSession
  BY <1>1 DEF PatchSession
<1>2. CASE store \in [token: Tokens, user: Users \union {None}, hasKey: BOOLEAN]
  <2>1. store # NoSession
    BY <1>2, NamesOK DEF NoSession
  <2>2. store' = [store EXCEPT !.user = u, !.hasKey = f]
    BY <2>1 DEF PatchSession
  <2>3. store'.token = store.token /\ store.token # None
    BY <1>2, <2>2, NamesOK
  <2> QED
    BY <2>3 DEF NoSession
<1> QED
  BY <1>1, <1>2 DEF TypeOK

\* A token enters the store only by the answer to its own sign-in: no late
\* answer of /me or of a saved form brings back a session that was logged out,
\* or the token of an earlier one.
OnlySignInStores ==
  [][store'.token # store.token /\ store'.token # None
       => \E c \in Calls :
            \/ Gets(c, "login", "ok") /\ call[c].answer.token = store'.token
            \/ Gets(c, "callback", "ok") /\ call[c].token = store'.token]_vars

\* What Login says of tokens, said of the calls: each is stored by its sign-in.
THEOREM SignInStores == Spec => OnlySignInStores
<1> DEFINE A == store'.token # store.token /\ store'.token # None
                  => \E c \in Calls :
                       \/ Gets(c, "login", "ok") /\ call[c].answer.token = store'.token
                       \/ Gets(c, "callback", "ok") /\ call[c].token = store'.token
<1>1. ASSUME IInv, [Next]_vars PROVE A
  <2> SUFFICES ASSUME store'.token # store.token, store'.token # None
               PROVE  \E c \in Calls :
                        \/ Gets(c, "login", "ok") /\ call[c].answer.token = store'.token
                        \/ Gets(c, "callback", "ok") /\ call[c].token = store'.token
    OBVIOUS
  <2>1. store' # store
    OBVIOUS
  <2>2. ~ Logout
    BY DEF Logout, ClearSession, NoSession
  <2>3. PICK c \in Calls : \/ LoginDone(c) \/ CallbackDone(c) \/ MeDone(c) \/ RenameDone(c)
                           \/ ProvisionDone(c) \/ Refused(c)
    BY <1>1, <2>1, <2>2, StoreWriter DEF vars
  <2>4. ~ MeDone(c) /\ ~ RenameDone(c) /\ ~ ProvisionDone(c)
    BY <1>1, PatchKeepsToken DEF MeDone, RenameDone, ProvisionDone, IInv
  <2>5. ~ Refused(c)
    BY <2>1 DEF Refused, ClearSession, NoSession
  <2>6. LoginDone(c) => Gets(c, "login", "ok") /\ call[c].answer.token = store'.token
    BY DEF LoginDone, SetSession
  <2>7. CallbackDone(c) => Gets(c, "callback", "ok") /\ call[c].token = store'.token
    BY DEF CallbackDone, SetSession
  <2> QED
    BY <2>3, <2>4, <2>5, <2>6, <2>7
<1> QED
  BY <1>1, Invariance, PTL DEF Spec, OnlySignInStores

\* A stored session goes only by Log out or by a 401 to a call with a token.
THEOREM LogoutByToken == Spec => LogoutNeedsToken
<1> DEFINE A == store # NoSession /\ store' = NoSession
                  => \/ call' = call
                     \/ \E c \in Calls : call[c].answer.status = "401" /\ call[c].token # None
<1>1. ASSUME IInv, [Next]_vars PROVE A
  <2> SUFFICES ASSUME store # NoSession, store' = NoSession, call' # call
               PROVE  \E c \in Calls : call[c].answer.status = "401" /\ call[c].token # None
    OBVIOUS
  <2>1. ~ Logout
    BY DEF Logout
  <2>2. PICK c \in Calls : \/ LoginDone(c) \/ CallbackDone(c) \/ MeDone(c) \/ RenameDone(c)
                           \/ ProvisionDone(c) \/ Refused(c)
    BY <1>1, <2>1, StoreWriter DEF vars
  <2>3. ~ MeDone(c) /\ ~ RenameDone(c) /\ ~ ProvisionDone(c)
    BY <1>1, PatchKeepsToken DEF MeDone, RenameDone, ProvisionDone, IInv
  <2>4. ASSUME NEW k \in Tokens, NEW u, NEW f, SetSession(k, u, f) PROVE FALSE
    <3>1. store'.token = k
      BY <2>4 DEF SetSession
    <3> QED
      BY <3>1, NamesOK DEF NoSession
  <2>5. ~ LoginDone(c) /\ ~ CallbackDone(c)
    BY <1>1, <2>4 DEF IInv, CallOK, LoginDone, CallbackDone, Gets
  <2>6. Refused(c)
    BY <2>2, <2>3, <2>5
  <2> QED
    BY <2>6 DEF Refused, LogsOut
<1> QED
  BY <1>1, Invariance, PTL DEF Spec, LogoutNeedsToken

-----------------------------------------------------------------------------
(* The refinement of Login *)

\* A token is on its way in one call at most, and then is not the stored one.
BringersOK ==
  \A c \in Calls, k \in Tokens : Brings(c, k) =>
    /\ token[k] # "unissued" /\ store.token # k
    /\ \A d \in Calls : Brings(d, k) => d = c

Unissued(k) == token[k] = "unissued"

\* The effects that a step may have on the tokens' places.
Nothing ==
  /\ store'.token = store.token
  /\ \A k \in Tokens : Unissued(k)' <=> Unissued(k)
  /\ \A c \in Calls, k \in Tokens : Brings(c, k)' <=> Brings(c, k)

Issues(c, k) ==
  /\ Unissued(k) /\ store'.token = store.token
  /\ \A l \in Tokens : Unissued(l)' <=> Unissued(l) /\ l # k
  /\ \A d \in Calls, l \in Tokens : Brings(d, l)' <=> Brings(d, l) \/ (d = c /\ l = k)

Stores(c, k) ==
  /\ Brings(c, k) /\ store'.token = k
  /\ \A l \in Tokens : Unissued(l)' <=> Unissued(l)
  /\ \A d \in Calls, l \in Tokens : Brings(d, l)' <=> Brings(d, l) /\ d # c

Drops ==
  /\ store'.token \in {store.token, None}
  /\ \A k \in Tokens : Unissued(k)' <=> Unissued(k)
  /\ \A c \in Calls, k \in Tokens : Brings(c, k)' => Brings(c, k)

Effect == \/ Nothing \/ Drops
          \/ \E c \in Calls, k \in Tokens : Issues(c, k) \/ Stores(c, k)

\* An idle call brings nothing.
LEMMA IdleBrings ==
  ASSUME IInv, NEW c \in Calls, call[c].at = "idle", NEW k
  PROVE  ~ Brings(c, k)
BY DEF Brings, Gets

\* A call brings one token.
LEMMA OneToken ==
  ASSUME NEW c \in Calls, NEW k, NEW l, Brings(c, k), Brings(c, l)
  PROVE  k = l
BY DEF Brings, Gets

LEMMA UnissuedNotStored ==
  ASSUME IInv, NEW k \in Tokens, Unissued(k)
  PROVE  store.token # k
BY NamesOK DEF IInv, StoreOK, Unissued, NoSession

LEMMA SendEffect ==
  ASSUME IInv, NEW c \in Calls,
         \/ SubmitLogin(c) \/ Callback(c) \/ SaveProfile(c) \/ UseKeyCard(c) \/ CallApi(c)
         \/ \E h \in Hooks : Refresh(h, c)
  PROVE  Nothing \/ \E k \in Tokens : Issues(c, k)
<1>0. call \in [Calls -> CallType] /\ token \in [Tokens -> {"unissued", "live", "dead"}]
  BY Typed DEF IInv, TypeOK
<1>1. ASSUME NEW kind, NEW h, NEW k, Send(c, kind, h, k)
      PROVE  \A d \in Calls, l \in Tokens :
               Brings(d, l)' <=> Brings(d, l) \/ (d = c /\ kind = "callback" /\ l = k)
  <2> DEFINE q == Request(kind, h, k)
  <2>1. q.kind = kind /\ q.token = k /\ q.at = "sent"
    BY DEF Request, Idle
  <2>2. call' = [call EXCEPT ![c] = q] /\ call[c].at = "idle"
    BY <1>1 DEF Send
  <2> HIDE DEF q
  <2>3. call'[c] = q /\ \A d \in Calls : d # c => call'[d] = call[d]
    BY <1>0, <2>2
  <2>4. \A l \in Tokens : Brings(c, l)' <=> (kind = "callback" /\ l = k)
    BY <2>1, <2>3 DEF Brings, Gets
  <2>5. \A d \in Calls, l \in Tokens : d # c => (Brings(d, l)' <=> Brings(d, l))
    BY <2>3 DEF Brings, Gets
  <2> QED
    BY <2>2, <2>4, <2>5, IdleBrings
<1>2. CASE Callback(c)
  <2>1. PICK k \in Tokens : Issue(k) /\ Send(c, "callback", None, k)
    BY <1>2 DEF Callback
  <2>2. \A d \in Calls, l \in Tokens : Brings(d, l)' <=> Brings(d, l) \/ (d = c /\ l = k)
    BY <1>1, <2>1
  <2>3. Unissued(k) /\ \A l \in Tokens : Unissued(l)' <=> Unissued(l) /\ l # k
    BY <1>0, <2>1 DEF Issue, Unissued
  <2> QED
    BY <1>2, <2>2, <2>3 DEF Callback, Issues
<1>3. CASE \/ SubmitLogin(c) \/ SaveProfile(c) \/ UseKeyCard(c) \/ CallApi(c)
           \/ \E h \in Hooks : Refresh(h, c)
  <2>1. \E kind \in Kinds \ {"callback"}, h \in Hooks \union {None} : \E k : Send(c, kind, h, k)
    <3>1. CASE UseKeyCard(c)
      <4>1. \E kind \in {"read", "provision"} : Send(c, kind, None, store.token)
        BY <3>1 DEF UseKeyCard
      <4> QED
        BY <4>1 DEF Kinds
    <3> QED
      BY <1>3, <3>1 DEF SubmitLogin, SaveProfile, CallApi, Refresh, Kinds
  <2>2. UNCHANGED <<token, store>>
    BY <1>3 DEF SubmitLogin, SaveProfile, UseKeyCard, CallApi, Refresh
  <2>3. \A d \in Calls, l \in Tokens : Brings(d, l)' <=> Brings(d, l)
    BY <1>1, <2>1
  <2> QED
    BY <2>2, <2>3 DEF Nothing, Unissued
<1> QED
  BY <1>2, <1>3

LEMMA ServeEffect ==
  ASSUME IInv, NEW c \in Calls, Serve(c)
  PROVE  Nothing \/ \E k \in Tokens : Issues(c, k)
<1>0. /\ call \in [Calls -> CallType] /\ token \in [Tokens -> {"unissued", "live", "dead"}]
      /\ call[c] \in CallType
  BY Typed DEF IInv, TypeOK
<1>1. ASSUME NEW s, NEW k, NEW f, Answers(c, s, k, f), call[c].at = "sent"
      PROVE  \A d \in Calls, l \in Tokens :
               Brings(d, l)' <=> Brings(d, l)
                                 \/ (d = c /\ call[c].kind = "login" /\ s = "ok" /\ l = k)
  <2> DEFINE a == [status |-> s, token |-> k, key |-> f]
             q == [call[c] EXCEPT !.at = "answered", !.answer = a]
  <2>1. /\ q.kind = call[c].kind /\ q.token = call[c].token /\ q.at = "answered"
        /\ q.answer = a /\ a.status = s /\ a.token = k
    BY <1>0 DEF CallType
  <2>2. call' = [call EXCEPT ![c] = q]
    BY <1>0, <1>1 DEF Answers
  <2> HIDE DEF q, a
  <2>3. call'[c] = q /\ \A d \in Calls : d # c => call'[d] = call[d]
    BY <1>0, <2>2
  <2>4. \A l \in Tokens : Brings(c, l)' <=> Brings(c, l) \/ (call[c].kind = "login" /\ s = "ok" /\ l = k)
    BY <1>1, <2>1, <2>3 DEF Brings, Gets
  <2>5. \A d \in Calls, l \in Tokens : d # c => (Brings(d, l)' <=> Brings(d, l))
    BY <2>3 DEF Brings, Gets
  <2> QED
    BY <2>4, <2>5
<1>2. CASE ServeLogin(c) /\ \E k \in Tokens : Issue(k) /\ Answers(c, "ok", k, Owner[k] \in keyed)
  <2>1. PICK k \in Tokens : Issue(k) /\ Answers(c, "ok", k, Owner[k] \in keyed)
    BY <1>2
  <2>2. call[c].at = "sent" /\ call[c].kind = "login" /\ store' = store
    BY <1>2 DEF ServeLogin, Sent
  <2>3. \A d \in Calls, l \in Tokens : Brings(d, l)' <=> Brings(d, l) \/ (d = c /\ l = k)
    BY <1>1, <2>1, <2>2
  <2>4. Unissued(k) /\ \A l \in Tokens : Unissued(l)' <=> Unissued(l) /\ l # k
    BY <1>0, <2>1 DEF Issue, Unissued
  <2> QED
    BY <2>2, <2>3, <2>4 DEF Issues
<1>3. ASSUME Says(c, "401"), call[c].at = "sent"
      PROVE  \A d \in Calls, l \in Tokens : Brings(d, l)' <=> Brings(d, l)
  <2>1. \A d \in Calls, l \in Tokens :
          Brings(d, l)' <=> Brings(d, l)
                            \/ (d = c /\ call[c].kind = "login" /\ "401" = "ok" /\ l = None)
    BY <1>1, <1>3 DEF Says
  <2> QED
    BY <2>1
<1>4. CASE UNCHANGED <<token, store>>
  <2>1. call[c].at = "sent"
    BY DEF Serve, ServeLogin, Rejects, ServeMe, ServeRename, Provision, Sent
  <2>2. \A d \in Calls, l \in Tokens : Brings(d, l)' <=> Brings(d, l)
    <3>1. CASE ServeLogin(c)
      <4>1. \A k \in Tokens : ~ Issue(k)
        BY <1>0, <1>4 DEF Issue
      <4> QED
        BY <1>3, <2>1, <3>1, <4>1 DEF ServeLogin
    <3>2. CASE Rejects(c)
      BY <1>3, <2>1, <3>2 DEF Rejects
    <3>3. CASE ServeMe(c)
      BY <1>1, <2>1, <3>3 DEF ServeMe, Sent
    <3>4. CASE ServeRename(c) \/ Provision(c)
      BY <1>1, <2>1, <3>4 DEF ServeRename, Provision, Says, Sent
    <3> QED
      BY <3>1, <3>2, <3>3, <3>4 DEF Serve
  <2> QED
    BY <1>4, <2>2 DEF Nothing, Unissued
<1> QED
  BY <1>2, <1>4 DEF Serve, ServeLogin, Rejects, ServeMe, ServeRename, Provision

\* A call that ends, or becomes a check of the session, brings nothing.
LEMMA EndBrings ==
  ASSUME IInv, NEW c \in Calls, NEW q, Becomes(c, q),
         q = Idle \/ q = Request("me", None, store.token)
  PROVE  \A d \in Calls, l \in Tokens : Brings(d, l)' <=> Brings(d, l) /\ d # c
<1>1. call \in [Calls -> CallType]
  BY Typed DEF IInv
<1>2. q.kind \in {"none", "me"}
  <2>1. Idle.kind = "none" /\ Request("me", None, store.token).kind = "me"
    BY DEF Idle, Request
  <2> QED
    BY <2>1
<1>3. call'[c] = q /\ \A d \in Calls : d # c => call'[d] = call[d]
  BY <1>1 DEF Becomes
<1> QED
  BY <1>2, <1>3 DEF Brings, Gets

LEMMA EndEffect ==
  ASSUME IInv, NEW c \in Calls, Deliver(c) \/ Failed(c)
  PROVE  Drops \/ \E k \in Tokens : Stores(c, k)
<1>0. UNCHANGED token
  BY DEF Deliver, LoginDone, CallbackDone, MeDone, RenameDone, ProvisionDone, ReadDone,
     Refused, Failed
<1>1. \A d \in Calls, l \in Tokens : Brings(d, l)' <=> Brings(d, l) /\ d # c
  BY EndBrings DEF Deliver, LoginDone, CallbackDone, MeDone, RenameDone, ProvisionDone,
     ReadDone, Refused, Failed
<1>2. CASE LoginDone(c)
  <2> DEFINE k == call[c].answer.token
  <2>1. k \in Tokens /\ Brings(c, k) /\ store'.token = k
    BY <1>2 DEF LoginDone, SetSession, Brings, IInv, CallOK
  <2> QED
    BY <1>0, <1>1, <2>1 DEF Stores, Unissued
<1>3. CASE CallbackDone(c)
  <2> DEFINE k == call[c].token
  <2>1. k \in Tokens /\ Brings(c, k) /\ store'.token = k
    BY <1>3 DEF CallbackDone, SetSession, Brings, Gets, IInv, CallOK
  <2> QED
    BY <1>0, <1>1, <2>1 DEF Stores, Unissued
<1>4. CASE MeDone(c) \/ RenameDone(c) \/ ProvisionDone(c) \/ ReadDone(c) \/ Refused(c) \/ Failed(c)
  <2>1. store'.token \in {store.token, None}
    <3>1. CASE MeDone(c) \/ RenameDone(c) \/ ProvisionDone(c)
      BY <3>1, PatchKeepsToken DEF MeDone, RenameDone, ProvisionDone, IInv
    <3>2. CASE ReadDone(c) \/ Failed(c)
      BY <3>2 DEF ReadDone, Failed
    <3>3. CASE Refused(c)
      <4>1. store' = store \/ store' = NoSession
        BY <3>3 DEF Refused, ClearSession
      <4> QED
        BY <4>1 DEF NoSession
    <3> QED
      BY <1>4, <3>1, <3>2, <3>3
  <2> QED
    BY <1>0, <1>1, <2>1 DEF Drops, Unissued
<1> QED
  BY <1>2, <1>3, <1>4 DEF Deliver

LEMMA StepEffect == ASSUME IInv, [Next]_vars PROVE Effect
<1>1. CASE UNCHANGED vars
  BY <1>1 DEF vars, Effect, Nothing, Unissued, Brings, Gets
<1>2. ASSUME NEW k \in Tokens, Expire(k) PROVE Nothing
  <2>1. \A l \in Tokens : Unissued(l)' <=> Unissued(l)
    BY <1>2 DEF Expire, Unissued, IInv, TypeOK
  <2> QED
    BY <1>2, <2>1 DEF Expire, Nothing, Brings, Gets
<1>3. ASSUME NEW h \in Hooks, Mount(h) PROVE Nothing
  BY <1>3 DEF Mount, Nothing, Unissued, Brings, Gets
<1>4. CASE Logout
  <2>1. store'.token = None
    BY <1>4 DEF Logout, ClearSession, NoSession
  <2> QED
    <3>1. UNCHANGED <<token, call>>
      BY <1>4 DEF Logout
    <3>2. /\ \A k \in Tokens : Unissued(k)' <=> Unissued(k)
          /\ \A c \in Calls, k \in Tokens : Brings(c, k)' <=> Brings(c, k)
      BY <3>1 DEF Unissued, Brings, Gets
    <3> QED
      BY <2>1, <3>1, <3>2 DEF Drops, Effect
<1> QED
  BY <1>1, <1>2, <1>3, <1>4, SendEffect, ServeEffect, EndEffect DEF Next, Effect

LEMMA NextBringers == IInv /\ BringersOK /\ [Next]_vars => BringersOK'
<1> SUFFICES ASSUME IInv, BringersOK, Effect PROVE BringersOK'
  BY StepEffect
<1> SUFFICES ASSUME NEW c \in Calls, NEW k \in Tokens, Brings(c, k)'
             PROVE  /\ ~ Unissued(k)' /\ store'.token # k
                    /\ \A d \in Calls : Brings(d, k)' => d = c
  BY DEF BringersOK, Unissued
<1>0. \A d \in Calls, l \in Tokens : Brings(d, l) =>
        /\ ~ Unissued(l) /\ store.token # l
        /\ \A e \in Calls : Brings(e, l) => e = d
  BY DEF BringersOK, Unissued
<1>1. CASE Nothing
  BY <1>0, <1>1 DEF Nothing
<1>2. CASE Drops
  BY <1>0, <1>2, NamesOK DEF Drops
<1>3. ASSUME NEW d \in Calls, NEW l \in Tokens, Issues(d, l)
      PROVE  /\ ~ Unissued(k)' /\ store'.token # k
             /\ \A e \in Calls : Brings(e, k)' => e = c
  <2>1. store.token # l
    BY <1>3, UnissuedNotStored DEF Issues
  <2> QED
    BY <1>0, <1>3, <2>1 DEF Issues
<1>4. ASSUME NEW d \in Calls, NEW l \in Tokens, Stores(d, l)
      PROVE  /\ ~ Unissued(k)' /\ store'.token # k
             /\ \A e \in Calls : Brings(e, k)' => e = c
  BY <1>0, <1>4 DEF Stores
<1> QED
  BY <1>1, <1>2, <1>3, <1>4 DEF Effect

LEMMA BringersInvariance == Spec => []BringersOK
<1>1. Init => BringersOK
  BY DEF Init, BringersOK, Brings, Gets, Idle, NoAnswer
<1> QED
  BY <1>1, NextBringers, Invariance, PTL DEF Spec

LEMMA LoginInit == Init => SignIns!LInit
BY DEF Init, SignIns!LInit, Place

LEMMA LoginStep ==
  ASSUME IInv, BringersOK, [Next]_vars
  PROVE  [SignIns!LNext]_Place
<1> DEFINE Coming(k) == \E c \in Calls : Brings(c, k)
<1>0. /\ Effect
      /\ Place = [k \in Tokens |-> IF Unissued(k) THEN "unissued"
                                   ELSE IF store.token = k THEN "stored"
                                   ELSE IF Coming(k) THEN "coming" ELSE "spent"]
      /\ Place' = [k \in Tokens |-> IF Unissued(k)' THEN "unissued"
                                    ELSE IF store'.token = k THEN "stored"
                                    ELSE IF Coming(k)' THEN "coming" ELSE "spent"]
      /\ \A c \in Calls, k \in Tokens : Brings(c, k) =>
           ~ Unissued(k) /\ store.token # k /\ \A d \in Calls : Brings(d, k) => d = c
  BY StepEffect DEF Place, Unissued, BringersOK
<1>1. CASE Nothing
  <2>1. \A k \in Tokens : Coming(k)' <=> Coming(k)
    BY <1>1 DEF Nothing
  <2>2. Place' = Place
    BY <1>0, <1>1, <2>1 DEF Nothing
  <2> QED
    BY <2>2
<1>2. CASE Drops
  <2> DEFINE S == {k \in Tokens : Place[k] \in {"coming", "stored"} /\ Place'[k] = "spent"}
  <2>1. \A k \in Tokens : Coming(k)' => Coming(k)
    BY <1>2 DEF Drops
  <2>2. \A k \in Tokens : k \notin S => Place'[k] = Place[k]
    BY <1>0, <1>2, <2>1, NamesOK DEF Drops
  <2>3. Place' = [k \in Tokens |-> IF k \in S THEN "spent" ELSE Place[k]]
    BY <1>0, <2>2
  <2>4. SignIns!Drop(S)
    BY <2>3 DEF SignIns!Drop
  <2> QED
    BY <2>4 DEF SignIns!LNext
<1>3. ASSUME NEW c \in Calls, NEW k \in Tokens, Issues(c, k) PROVE SignIns!LNext
  <2>1. \A l \in Tokens : Coming(l)' <=> Coming(l) \/ l = k
    BY <1>3 DEF Issues
  <2>2. store.token # k
    BY <1>3, UnissuedNotStored DEF Issues
  <2>3. Place[k] = "unissued" /\ Place' = [Place EXCEPT ![k] = "coming"]
    BY <1>0, <1>3, <2>1, <2>2 DEF Issues
  <2> QED
    BY <2>3 DEF SignIns!SignIn, SignIns!LNext
<1>4. ASSUME NEW c \in Calls, NEW k \in Tokens, Stores(c, k) PROVE SignIns!LNext
  <2>1. \A l \in Tokens : Coming(l)' <=> Coming(l) /\ l # k
    BY <1>0, <1>4, OneToken DEF Stores
  <2>2. Place[k] = "coming"
    BY <1>0, <1>4 DEF Stores
  <2>3. Place' = [l \in Tokens |-> IF l = k THEN "stored"
                                   ELSE IF Place[l] = "stored" THEN "spent" ELSE Place[l]]
    BY <1>0, <1>4, <2>1 DEF Stores
  <2> QED
    BY <2>2, <2>3 DEF SignIns!Arrive, SignIns!LNext
<1> QED
  BY <1>0, <1>1, <1>2, <1>3, <1>4 DEF Effect

\* Whatever the tabs send and in whatever order it is answered: a token is
\* stored once, by its own sign-in, and never comes back.
THEOREM LoginImplemented == Spec => ImplementsLogin
  BY LoginInit, LoginStep, BringersInvariance, Invariance, PTL
     DEF Spec, ImplementsLogin, SignIns!LSpec

=============================================================================
