----------------------------- MODULE PagesProofs -----------------------------
(***************************************************************************)
(* Proofs about Pages, for any accounts, sessions, keys, lists and fields. *)
(* The inductive invariant says that the key of every request, and of the  *)
(* snapshot, tells what was asked and as whom (by whom only if the session *)
(* goes by its own id); that a form or a dialog with a request in flight   *)
(* is busy with that one; and that the limits of a form, those a file      *)
(* being read will restore included, are in range.                         *)
(***************************************************************************)
EXTENDS Pages, TLAPS

Searches == {None, "dashboard", "admin", "sso_error"}
Saves    == {None, "dashboard", "admin"}
Lates    == {None, "login", "callback", "giveUp"}

ListType == [kind: Kinds, limit: PageSizes, offset: Nat]
Asker    == Users \union Keys \union {None, Undefined, "admin"}
AskType  == [view: Views, list: ListType, by: Asker, as: Asker]

\* Only the two lists page, and the admin page has one page size.
ListFor(v, l) ==
  /\ l \in ListType
  /\ v \notin {"jobs", "adminjobs"} => l = FreshList
  /\ v = "adminjobs" => l.limit = DefaultLimit

\* The key of the query that asks a.
KeyFor(a) ==
  CASE a.view = "jobs"      -> <<"jobs", a.as, a.list.kind, a.list.limit, a.list.offset>>
    [] a.view = "job"       -> <<"job", a.as>>
    [] a.view = "usage"     -> <<"dash", a.as>>
    [] a.view = "stats"     -> StatsKey
    [] a.view = "users"     -> UsersKey
    [] a.view = "adminjobs" -> <<"admin-jobs", a.list.kind, a.list.offset>>
    [] a.view = "audit"     -> AuditKey
    [] a.view = "home"      -> <<"probe", a.as>>
    [] OTHER                -> <<>>

\* What a view asks under a key is what the key says.
AskOK(v, k, a) ==
  /\ a \in AskType /\ a.view = v
  /\ ListFor(v, a.list)
  /\ v \in AdminSections => a.by = "admin" /\ a.as = "admin"
  /\ k = KeyFor(a)

QueryOK ==
  /\ \A r \in query.sent : \E k, n : r.key = <<k, n>> /\ AskOK(view, k, r.ask)
  /\ query.snap = NoSnap
     \/ \E k, n : query.snap.key = <<k, n>> /\ AskOK(view, k, query.snap.ask)

InRange(l) == l \in Limits /\ l.shots >= 1 /\ l.shots <= 100000

FormFor(v, f) ==
  /\ f.values \in Values /\ InRange(f.values.limits)
  /\ f.file # <<>> => InRange(f.file[1])
  /\ v \notin FormViews => f.sent = <<>>
  /\ \/ f.sent = <<>>
     \/ /\ f.sent = <<f.sent[1]>> /\ f.sent[1] \in Body
        /\ LimitsAccepted(f.sent[1].limits)
        /\ f.loading /\ ~ f.error

TableOK(t) ==
  /\ t.busy \in BOOLEAN
  /\ t.sent = <<>> \/ (t.busy /\ t.sent = <<t.pending>>)

IInv ==
  /\ TypeOK
  /\ ListFor(view, list)
  /\ QueryOK
  /\ FormFor(view, form)
  /\ TableOK(table)

-----------------------------------------------------------------------------
(* Queries *)

\* A fresh list is one that every view may have.
LEMMA FreshListOK == FreshList \in ListType /\ \A v \in Views : ListFor(v, FreshList)
<1>1. AllKinds \in Kinds /\ DefaultLimit \in PageSizes
  BY PagesAssumption
<1>2. FreshList \in ListType /\ FreshList.limit = DefaultLimit
  BY <1>1 DEF FreshList, ListType
<1> QED
  BY <1>2 DEF ListFor

\* A session, as the type of Sessions gives it.
LEMMA SessionType ==
  ASSUME NEW s \in Sessions
  PROVE  s.user \in Users \union {None} /\ s.id \in Users \union {Undefined}
<1>1. CASE s = NoSession
  BY <1>1 DEF NoSession
<1>2. CASE s \in [user: Users, id: Users \union {Undefined}, hasKey: BOOLEAN]
  BY <1>2
<1> QED
  BY <1>1, <1>2, PagesAssumption

\* The mounted query's key is the key of what is asked.
LEMMA Keyed ==
  TypeOK /\ ListFor(view, list) /\ QueryKey # <<>> => AskOK(view, QueryKey, Asked)
<1> SUFFICES ASSUME TypeOK, ListFor(view, list), QueryKey # <<>>
             PROVE  AskOK(view, QueryKey, Asked)
  OBVIOUS
<1>1. Sender \in Asker /\ Credential \in Asker
  BY SessionType DEF TypeOK, Sender, Credential, Asker
<1> DEFINE b == IF view \in AdminSections THEN "admin" ELSE Sender
           c == IF view \in AdminSections THEN "admin" ELSE Credential
<1>2. /\ Asked \in AskType /\ Asked.view = view /\ Asked.list = list
      /\ Asked.by = b /\ Asked.as = c
  <2>1. b \in Asker /\ c \in Asker /\ view \in Views /\ list \in ListType
    BY <1>1 DEF Asker, TypeOK, ListType
  <2>2. Asked = [view |-> view, list |-> list, by |-> b, as |-> c]
    BY DEF Asked
  <2> HIDE DEF b, c
  <2> QED
    BY <2>1, <2>2 DEF AskType
<1>3. QueryKey = KeyFor(Asked)
  <2>1. CASE view = "jobs"
    BY <1>2, <2>1 DEF QueryKey, KeyFor, JobsKey, AdminSections
  <2>2. CASE view = "job"
    BY <1>2, <2>2 DEF QueryKey, KeyFor, DetailKey, AdminSections
  <2>3. CASE view = "usage"
    BY <1>2, <2>3 DEF QueryKey, KeyFor, UsageKey, AdminSections, Credential
  <2>4. CASE view = "home"
    BY <1>2, <2>4 DEF QueryKey, KeyFor, ProbeKey, AdminSections
  <2>5. CASE view = "stats"
    BY <1>2, <2>5 DEF QueryKey, KeyFor, StatsKey
  <2>6. CASE view = "users"
    BY <1>2, <2>6 DEF QueryKey, KeyFor, UsersKey
  <2>7. CASE view = "adminjobs"
    BY <1>2, <2>7 DEF QueryKey, KeyFor, AdminJobsKey
  <2>8. CASE view = "audit"
    BY <1>2, <2>8 DEF QueryKey, KeyFor, AuditKey
  <2> QED
    BY <2>1, <2>2, <2>3, <2>4, <2>5, <2>6, <2>7, <2>8 DEF QueryKey
<1> QED
  BY <1>2, <1>3 DEF AskOK

\* Two questions of one view with the same key are the same, of the same list
\* and as the same account; and by the same, if each is asked as who it is by.
LEMMA KeyTellsAsk ==
  ASSUME NEW v \in Views, NEW k, k # <<>>, NEW a, NEW c, AskOK(v, k, a), AskOK(v, k, c)
  PROVE  /\ a.view = c.view /\ a.list = c.list /\ a.as = c.as
         /\ Own(a) /\ Own(c) => a = c
<1>1. /\ a \in AskType /\ c \in AskType /\ a.view = v /\ c.view = v
      /\ ListFor(v, a.list) /\ ListFor(v, c.list) /\ KeyFor(a) = k /\ KeyFor(c) = k
  BY DEF AskOK
<1>2. a.list \in ListType /\ c.list \in ListType
  BY <1>1 DEF ListFor
<1>3. a.as = c.as
  <2>1. CASE v \in AdminSections
    BY <2>1 DEF AskOK
  <2>2. CASE v = "jobs"
    BY <1>1, <2>2 DEF KeyFor
  <2>3. CASE v = "job"
    BY <1>1, <2>3 DEF KeyFor
  <2>4. CASE v = "usage"
    BY <1>1, <2>4 DEF KeyFor
  <2>5. CASE v = "home"
    BY <1>1, <2>5 DEF KeyFor
  <2>6. v \in AdminSections \union {"jobs", "job", "usage", "home"}
    BY <1>1 DEF KeyFor, AdminSections
  <2> QED
    BY <2>1, <2>2, <2>3, <2>4, <2>5, <2>6
<1>4. a.list = c.list
  <2>1. CASE v = "jobs"
    <3>1. /\ a.list.kind = c.list.kind /\ a.list.limit = c.list.limit
          /\ a.list.offset = c.list.offset
      BY <1>1, <2>1 DEF KeyFor
    <3> QED
      BY <1>2, <3>1 DEF ListType
  <2>2. CASE v = "adminjobs"
    <3>1. /\ a.list.kind = c.list.kind /\ a.list.limit = c.list.limit
          /\ a.list.offset = c.list.offset
      BY <1>1, <2>2 DEF KeyFor, ListFor
    <3> QED
      BY <1>2, <3>1 DEF ListType
  <2>3. CASE v \notin {"jobs", "adminjobs"}
    BY <1>1, <2>3 DEF ListFor
  <2> QED
    BY <2>1, <2>2, <2>3
<1> QED
  BY <1>1, <1>3, <1>4 DEF AskType, Own

\* A request that is started asks what its key says.
LEMMA StartOK ==
  ASSUME TypeOK', ListFor(view', list'), NEW n, NEW r \in Start(n)
  PROVE  \E k, m : r.key = <<k, m>> /\ AskOK(view', k, r.ask)
<1>1. (TypeOK /\ ListFor(view, list) /\ QueryKey # <<>> => AskOK(view, QueryKey, Asked))'
  BY Keyed, PTL
<1>2. QueryKey' # <<>> /\ r = [key |-> <<QueryKey', n>>, ask |-> Asked']
  BY DEF Start
<1>3. AskOK(view', QueryKey', Asked')
  BY <1>1, <1>2
<1> QED
  BY <1>2, <1>3

\* Rendering again keeps the queries' invariant.
LEMMA RekeyOK ==
  ASSUME QueryOK, view' = view, TypeOK', ListFor(view', list'), NEW n, Rekey(n)
  PROVE  QueryOK'
<1>1. CASE query' = query
  BY <1>1 DEF QueryOK
<1>2. CASE query' = [query EXCEPT !.nonce = n, !.sent = Abort(@) \union Start(n)]
  <2>1. CASE query'.sent = Start(n) /\ query'.snap = query.snap
    <3>1. \A r \in query'.sent : \E k, m : r.key = <<k, m>> /\ AskOK(view', k, r.ask)
      BY <2>1, StartOK
    <3> QED
      BY <2>1, <3>1 DEF QueryOK
  <2> QED
    BY <1>2, <2>1 DEF Abort
<1> QED
  BY <1>1, <1>2 DEF Rekey

\* So does mounting.
LEMMA RemountOK ==
  ASSUME TypeOK', ListFor(view', list'), NEW w, Remount(w)
  PROVE  QueryOK'
<1>1. query'.sent = Start(0) /\ query'.snap = NoSnap
  BY DEF Remount, FreshQuery
<1>2. \A r \in query'.sent : \E k, m : r.key = <<k, m>> /\ AskOK(view', k, r.ask)
  BY <1>1, StartOK
<1> QED
  BY <1>1, <1>2 DEF QueryOK

-----------------------------------------------------------------------------
(* Forms *)

\* The limits of a request are accepted by the schema, whatever the fields hold,
\* if the shots are in range.
LEMMA BodyLimitsOK ==
  ASSUME NEW l, InRange(l)
  PROVE  BodyLimits(l) \in Limits /\ LimitsAccepted(BodyLimits(l))
<1>1. /\ l.shots \in Int /\ l.shots >= 1 /\ l.shots <= 100000 /\ l.maxDepth \in Int /\ l.errorBound \in Int
      /\ l.timeout \in Int
  BY DEF InRange, Limits
<1>2. \A n \in Int : opt(n) \in Int /\ (opt(n) = 0 \/ opt(n) >= 1)
  BY DEF opt, Absent
<1> DEFINE b == BodyLimits(l)
<1>3. /\ b.shots = l.shots
      /\ b.maxDepth \in Int /\ (b.maxDepth = 0 \/ b.maxDepth >= 1)
      /\ b.errorBound \in Int
      /\ b.errorBound = 0 \/ (b.errorBound >= 1 /\ b.errorBound <= 100)
      /\ b.timeout \in Int /\ (b.timeout = 0 \/ (b.timeout >= 1 /\ b.timeout <= 600))
  BY <1>1, <1>2 DEF BodyLimits, Absent
<1>4. b \in Limits
  BY <1>1, <1>3 DEF BodyLimits, Limits
<1> HIDE DEF b
<1>5. LimitsAccepted(b)
  BY <1>1, <1>3 DEF LimitsAccepted, Absent
<1> QED
  BY <1>4, <1>5 DEF b

\* The defaults, and whatever is entered in a clamped field, are in range.
LEMMA EnteredOK ==
  /\ InRange(NoLimits) /\ LimitsAccepted(NoLimits)
  /\ DEFAULT_FORM_VALUES \in Values /\ InRange(DEFAULT_FORM_VALUES.limits)
  /\ \A v \in FormValues : v \in Values /\ InRange(v.limits)
<1>1. NoLimits \in Limits /\ InRange(NoLimits) /\ LimitsAccepted(NoLimits)
  BY DEF NoLimits, InRange, LimitsAccepted, Limits, Absent
<1>2. DEFAULT_FORM_VALUES \in Values /\ DEFAULT_FORM_VALUES.limits = NoLimits
  BY <1>1 DEF DEFAULT_FORM_VALUES, Values, Formats, Sources
<1>3. ASSUME NEW l \in Limits PROVE InRange(EnteredLimits(l)) /\ EnteredLimits(l) \in Limits
  BY DEF EnteredLimits, ClampShots, InRange, Limits
<1>4. ASSUME NEW v \in FormValues PROVE v \in Values /\ InRange(v.limits)
  <2>1. PICK f \in Formats, s \in Sources, l \in EnteredSet :
          v = [format |-> f, source |-> s, limits |-> EnteredLimits(l)]
    BY DEF FormValues
  <2>2. l \in Limits
    BY PagesAssumption
  <2> QED
    BY <1>3, <2>1, <2>2 DEF Values
<1> QED
  BY <1>1, <1>2, <1>4

\* A request that is built has accepted limits.
LEMMA BuiltOK ==
  ASSUME NEW v \in Values, InRange(v.limits)
  PROVE  /\ BuildQuoteRequest(v) \in Body /\ LimitsAccepted(BuildQuoteRequest(v).limits)
         /\ BuildInterpretRequest(v) \in Body /\ LimitsAccepted(BuildInterpretRequest(v).limits)
<1>1. v.format \in Formats /\ v.source \in Sources
  BY DEF Values
<1>2. NoLimits \in Limits
  BY EnteredOK DEF InRange
<1> QED
  BY <1>1, <1>2, BodyLimitsOK, EnteredOK
  DEF BuildQuoteRequest, BuildInterpretRequest, Body

\* A step of a form that leaves the form as it should be.
LEMMA FormInvariant ==
  ASSUME IInv, NEW f, form' = f, FormFor(view, f), late' \in Lates,
         UNCHANGED <<session, pasted, view, search, saved, query, list, table, tests>>
  PROVE  IInv'
<1>1. \A i \in DOMAIN f.sent : f.sent[i] \in Body
  <2>1. CASE f.sent = <<>>
    BY <2>1
  <2>2. CASE f.sent = <<f.sent[1]>> /\ f.sent[1] \in Body
    BY <2>2
  <2> QED
    BY <2>1, <2>2 DEF FormFor
<1>2. TypeOK'
  BY <1>1 DEF IInv, TypeOK, FormFor, Lates
<1> QED
  BY <1>2 DEF IInv, QueryOK

\* Whatever happens on the pages with a form.
LEMMA FormActions ==
  ASSUME IInv, Form \/ FormAnswers
  PROVE  IInv'
<1>0. /\ form.values \in Values /\ InRange(form.values.limits)
      /\ form.file # <<>> => InRange(form.file[1])
      /\ FormFor(view, form) /\ late \in Lates
  BY DEF IInv, FormFor, TypeOK, Lates
<1>1. ASSUME NEW f, FormStep(f), FormFor(view, f) PROVE IInv'
  BY <1>0, <1>1, FormInvariant DEF FormStep
<1>2. ASSUME NEW v, v \in Values, InRange(v.limits), NEW z, z = <<>> \/ z = form.file
      PROVE  FormFor(view, [form EXCEPT !.values = v, !.file = z])
  BY <1>0, <1>2 DEF FormFor
<1>3. CASE Reset
  <2>1. FormFor(view, [form EXCEPT !.values = DEFAULT_FORM_VALUES])
    BY <1>0, EnteredOK DEF FormFor
  <2> QED
    BY <1>1, <1>3, <2>1 DEF Reset
<1>4. CASE ChooseFile
  <2>1. FormFor(view, [form EXCEPT !.file = <<form.values.limits>>])
    BY <1>0 DEF FormFor
  <2> QED
    BY <1>1, <1>4, <2>1 DEF ChooseFile
<1>5. ASSUME NEW v \in FormValues, Edit(v) PROVE IInv'
  <2>1. FormFor(view, [form EXCEPT !.values = v])
    BY <1>0, EnteredOK DEF FormFor
  <2> QED
    BY <1>1, <1>5, <2>1 DEF Edit
<1>6. ASSUME NEW v \in FormValues, FileRead(v) PROVE IInv'
  <2>1. FormFor(view, [form EXCEPT !.values = v, !.file = <<>>])
    BY <1>0, EnteredOK DEF FormFor
  <2> QED
    BY <1>1, <1>6, <2>1 DEF FileRead
<1>7. ASSUME NEW w \in FormViews, NEW b \in Body, LimitsAccepted(b.limits), Submits(w, b)
      PROVE  IInv'
  <2>1. form.sent = <<>>
    BY <1>0, <1>7 DEF FormFor, Submits
  <2>2. CASE Throws(form.values)
    <3>1. FormFor(view, [form EXCEPT !.error = TRUE])
      BY <1>0, <2>1 DEF FormFor
    <3> QED
      BY <1>1, <1>7, <2>2, <3>1 DEF Submits
  <2>3. CASE ~ Throws(form.values)
    <3> DEFINE f == [form EXCEPT !.error = FALSE, !.loading = TRUE, !.sent = Append(@, b)]
    <3>1. Append(<<>>, b) = <<b>> /\ <<b>>[1] = b
      OBVIOUS
    <3>2. view \in FormViews
      BY <1>7 DEF Submits
    <3>3. FormFor(view, f)
      <4>1. /\ f.sent = Append(form.sent, b) /\ f.loading = TRUE /\ f.error = FALSE
            /\ f.values = form.values /\ f.file = form.file
        OBVIOUS
      <4>2. f.sent = <<b>> /\ f.sent[1] = b
        BY <2>1, <3>1, <4>1
      <4> HIDE DEF f
      <4> QED
        BY <1>0, <1>7, <3>2, <4>1, <4>2 DEF FormFor
    <3> QED
      BY <1>1, <1>7, <2>3, <3>3 DEF Submits
  <2> QED
    BY <2>2, <2>3
<1>8. CASE SubmitQuote \/ SubmitOptimize \/ SubmitInterpret
  BY <1>0, <1>7, <1>8, BuiltOK 
  DEF SubmitQuote, SubmitOptimize, SubmitInterpret, BuildOptimizeRequest, FormViews
<1>9. ASSUME NEW ok \in BOOLEAN, FormAnswered(ok) PROVE IInv'
  <2> DEFINE f == [form EXCEPT !.loading = FALSE, !.error = ~ok, !.sent = Tail(@),
                               !.result = @ \/ ok]
  <2>1. Tail(form.sent) = <<>>
    <3>1. form.sent = <<form.sent[1]>>
      BY <1>0, <1>9 DEF FormFor, FormAnswered
    <3>2. \A x : Tail(<<x>>) = <<>>
      OBVIOUS
    <3> QED
      BY <3>1, <3>2
  <2>2. f.sent = Tail(form.sent) /\ f.values = form.values /\ f.file = form.file
    OBVIOUS
  <2> HIDE DEF f
  <2>3. FormFor(view, f)
    BY <1>0, <2>1, <2>2 DEF FormFor
  <2> QED
    BY <1>1, <1>9, <2>3 DEF FormAnswered, f
<1> QED
  BY <1>3, <1>4, <1>5, <1>6, <1>8, <1>9 DEF Form, FormAnswers

-----------------------------------------------------------------------------
(* Mounting *)

\* What is mounted is fresh, and so is as it should be.
LEMMA FreshOK ==
  /\ \A v \in Views, w \in Searches : FormFor(v, FreshForm(v, w))
  /\ TableOK(FreshTable)
  /\ FreshTests \in [health: Check, jobs: Check, inHealth: Nat, inJobs: Nat]
<1>1. ASSUME NEW v \in Views, NEW w \in Searches PROVE FormFor(v, FreshForm(v, w))
  BY EnteredOK DEF FormFor, FreshForm, FreshValues, DEFAULT_FORM_VALUES, Values, Formats
<1> QED
  BY <1>1 DEF TableOK, FreshTable, FreshTests, Check

\* Everything that is local to a page is dropped.
LEMMA RemountInvariant ==
  ASSUME IInv, NEW w \in Searches, Remount(w), view' \in Views, search' \in Searches,
         session' \in Sessions, pasted' \in Keys \union {None}, saved' \in Saves,
         late' \in Lates
  PROVE  IInv'
<1>1. /\ list' = FreshList /\ table' = FreshTable /\ form' = FreshForm(view', w)
      /\ tests' = FreshTests /\ query'.nonce = 0
  BY DEF Remount, FreshQuery
<1>2. ListFor(view', list') /\ list' \in [kind: Kinds, limit: PageSizes, offset: Nat]
  BY <1>1, FreshListOK DEF ListType
<1>3. FormFor(view', form') /\ TableOK(table')
  BY <1>1, FreshOK
<1>4. form'.sent = <<>> /\ form'.values \in Values
  BY <1>1, EnteredOK DEF FreshForm, FreshValues, DEFAULT_FORM_VALUES, Values, Formats
<1>5. TypeOK'
  BY <1>1, <1>2, <1>3, <1>4, FreshOK, PagesAssumption
  DEF TypeOK, TableOK, Searches, Saves, Lates
<1>6. QueryOK'
  BY <1>2, <1>5, RemountOK
<1> QED
  BY <1>2, <1>3, <1>5, <1>6 DEF IInv

\* A view is mounted.
LEMMA MountInvariant ==
  ASSUME IInv, NEW v \in Views, NEW w \in Searches, Mount(v, w),
         session' \in Sessions, pasted' \in Keys \union {None}, saved' \in Saves,
         late' \in Lates
  PROVE  IInv'
  BY RemountInvariant DEF Mount

\* Going to another page, by whatever way.
LEMMA Navigation ==
  ASSUME IInv,
         \/ \E v \in Views : Go(v)
         \/ Redirect \/ Logout \/ StartSSO \/ SsoReturns \/ GiveUp
         \/ \E s \in Sessions : LoginOk(s) \/ CallbackOk(s)
  PROVE  IInv'
<1>0. /\ session \in Sessions /\ pasted \in Keys \union {None} /\ view \in Views
      /\ search \in Searches /\ saved \in Saves /\ late \in Lates
      /\ NoSession \in Sessions
  BY PagesAssumption DEF IInv, TypeOK, Searches, Saves, Lates
<1>1. ASSUME NEW v \in Views, Go(v) PROVE IInv'
  BY <1>0, <1>1, MountInvariant DEF Go, Searches
<1>2. CASE Redirect
  <2>1. Route(view) \in Searches
    BY <1>2 DEF Redirect, Guarded, Searches
  <2>2. "login" \in Views
    BY DEF Views
  <2> QED
    BY <1>0, <1>2, <2>1, <2>2, MountInvariant DEF Redirect
<1>3. CASE Logout
  <2>1. "home" \in Views /\ None \in Searches
    BY DEF Views, Searches
  <2> QED
    BY <1>0, <1>3, <2>1, MountInvariant DEF Logout
<1>4. CASE StartSSO
  <2>1. "away" \in Views /\ None \in Searches /\ None \in Lates
    BY DEF Views, Searches, Lates
  <2>2. saved' \in Saves
    BY <1>0, <1>4 DEF StartSSO, Searches, Saves
  <2> QED
    BY <1>0, <1>4, <2>1, <2>2, MountInvariant DEF StartSSO
<1>5. CASE SsoReturns
  <2>1. "callback" \in Views /\ "login" \in Views /\ None \in Searches
        /\ "sso_error" \in Searches /\ "callback" \in Lates
    BY DEF Views, Searches, Lates
  <2> QED
    BY <1>0, <1>5, <2>1, MountInvariant DEF SsoReturns
<1>6. CASE GiveUp
  <2>1. "login" \in Views /\ "sso_error" \in Searches /\ None \in Lates
    BY DEF Views, Searches, Lates
  <2> QED
    BY <1>0, <1>6, <2>1, MountInvariant DEF GiveUp
<1>7. ASSUME NEW s \in Sessions, LoginOk(s) \/ CallbackOk(s) PROVE IInv'
  <2>1. None \in Searches /\ None \in Lates /\ None \in Saves
    BY DEF Searches, Lates, Saves
  <2>2. PICK v \in Views : Mount(v, None)
    BY <1>7 DEF LoginOk, CallbackOk, MountRoute
  <2>3. /\ session' \in Sessions /\ pasted' \in Keys \union {None} /\ saved' \in Saves
        /\ late' \in Lates
    BY <1>0, <1>7, <2>1 DEF LoginOk, CallbackOk
  <2> QED
    BY <2>1, <2>2, <2>3, MountInvariant
<1> QED
  BY <1>1, <1>2, <1>3, <1>4, <1>5, <1>6, <1>7

-----------------------------------------------------------------------------
(* The other steps *)

\* A rendering with another session, list or nonce.
LEMMA RekeyInvariant ==
  ASSUME IInv, NEW n \in 0 .. MaxRetry, Rekey(n), session' \in Sessions,
         ListFor(view, list'),
         UNCHANGED <<pasted, view, search, saved, late, table, form, tests>>
  PROVE  IInv'
<1>1. query'.nonce \in 0 .. MaxRetry
  <2>1. query.nonce \in 0 .. MaxRetry
    BY DEF IInv, TypeOK
  <2>2. CASE query' = query
    BY <2>1, <2>2
  <2>3. CASE query' = [query EXCEPT !.nonce = n, !.sent = Abort(@) \union Start(n)]
    <3>1. query'.nonce = n \/ query'.nonce = query.nonce
      BY <2>3
    <3> QED
      BY <2>1, <3>1
  <2> QED
    BY <2>2, <2>3 DEF Rekey
<1>2. TypeOK'
  BY <1>1 DEF IInv, TypeOK, ListFor, ListType
<1>3. QueryOK'
  BY <1>2, RekeyOK DEF IInv
<1> QED
  BY <1>2, <1>3 DEF IInv

\* The session changes.
LEMMA SessionInvariant ==
  ASSUME IInv, NEW s \in Sessions, SessionBecomes(s)
  PROVE  IInv'
<1>0. /\ pasted \in Keys \union {None} /\ view \in Views /\ search \in Searches
      /\ saved \in Saves /\ late \in Lates /\ query.nonce \in 0 .. MaxRetry
      /\ ListFor(view, list) /\ None \in Searches
  BY DEF IInv, TypeOK, Searches, Saves, Lates
<1>1. CASE UNCHANGED <<list, table, form, tests>> /\ Rekey(query.nonce)
  BY <1>0, <1>1, RekeyInvariant DEF SessionBecomes
<1>2. CASE Remount(None)
  BY <1>0, <1>2, RemountInvariant DEF SessionBecomes
<1> QED
  BY <1>1, <1>2 DEF SessionBecomes

\* A query is retried or a list is paged or filtered.
LEMMA ListInvariant ==
  ASSUME IInv, Listing
  PROVE  IInv'
<1>0. /\ list \in ListType /\ query.nonce \in 0 .. MaxRetry /\ session \in Sessions
      /\ ListFor(view, list) /\ query.nonce \in Nat /\ MaxRetry \in Nat
      /\ \A n \in PageSizes : n \in Nat /\ n > 0
  BY PagesAssumption DEF IInv, TypeOK, ListType
<1>1. CASE Retry
  <2>1. query.nonce + 1 \in 0 .. MaxRetry
    BY <1>0, <1>1 DEF Retry
  <2> QED
    BY <1>0, <1>1, <2>1, RekeyInvariant DEF Retry
<1>2. ASSUME NEW l \in ListType, view = "adminjobs" => l.limit = DefaultLimit, ListBecomes(l)
      PROVE  IInv'
  <2>1. ListFor(view, l)
    BY <1>2 DEF ListFor, ListBecomes
  <2> QED
    BY <1>0, <1>2, <2>1, RekeyInvariant DEF ListBecomes
<1>3. view = "adminjobs" => list.limit = DefaultLimit
  BY <1>0 DEF ListFor
<1>4. ASSUME NEW k \in Kinds, SetKind(k) PROVE IInv'
  <2>1. [list EXCEPT !.kind = k, !.offset = 0] \in ListType
    BY <1>0 DEF ListType
  <2> QED
    BY <1>0, <1>2, <1>3, <1>4, <2>1 DEF SetKind, ListType
<1>5. ASSUME NEW n \in PageSizes, SetLimit(n) PROVE IInv'
  <2>1. [list EXCEPT !.limit = n, !.offset = 0] \in ListType
    BY <1>0 DEF ListType
  <2> QED
    BY <1>2, <1>5, <2>1 DEF SetLimit
<1>6. list.offset \in Nat /\ list.limit \in Nat
  BY <1>0 DEF ListType
<1>7. CASE PrevPage
  <2> DEFINE o == IF list.offset < list.limit THEN 0 ELSE list.offset - list.limit
  <2>1. o \in Nat
    BY <1>6
  <2> HIDE DEF o
  <2>2. [list EXCEPT !.offset = o] \in ListType
    BY <1>0, <2>1 DEF ListType
  <2>3. ListBecomes([list EXCEPT !.offset = o])
    BY <1>7 DEF PrevPage, o
  <2> QED
    BY <1>0, <1>2, <1>3, <2>2, <2>3 DEF ListType
<1>8. CASE NextPage
  <2>1. list.offset + list.limit \in Nat
    BY <1>6
  <2>2. [list EXCEPT !.offset = list.offset + list.limit] \in ListType
    BY <1>0, <2>1 DEF ListType
  <2>3. ListBecomes([list EXCEPT !.offset = list.offset + list.limit])
    BY <1>8 DEF NextPage
  <2> QED
    BY <1>0, <1>2, <1>3, <2>2, <2>3 DEF ListType
<1> QED
  BY <1>1, <1>4, <1>5, <1>7, <1>8 DEF Listing

\* A request of a query is answered: its key still tells what was asked.
LEMMA AnswerInvariant ==
  ASSUME IInv, NEW r \in query.sent, NEW ok \in BOOLEAN, Answer(r, ok)
  PROVE  IInv'
<1> DEFINE p == [key |-> r.key, ask |-> r.ask, ok |-> ok]
<1>1. query' = [query EXCEPT !.sent = @ \ {r}, !.snap = p]
  BY DEF Answer
<1>2. query'.nonce \in 0 .. MaxRetry
  <2>1. query'.nonce = query.nonce
    BY <1>1
  <2> QED
    BY <2>1 DEF IInv, TypeOK
<1>3. QueryOK'
  <2>1. query'.sent \subseteq query.sent /\ query'.snap.key = r.key /\ query'.snap.ask = r.ask
    <3>1. query.sent \ {r} \subseteq query.sent /\ p.key = r.key /\ p.ask = r.ask
      OBVIOUS
    <3>2. query'.sent = query.sent \ {r} \/ query'.sent = query.sent
      BY <1>1
    <3>3. query'.snap = p
      BY <1>1
    <3> QED
      BY <3>1, <3>2, <3>3
  <2>2. \E k, n : r.key = <<k, n>> /\ AskOK(view, k, r.ask)
    BY DEF IInv, QueryOK
  <2> QED
    BY <2>1, <2>2 DEF IInv, QueryOK, Answer
<1>4. TypeOK'
  BY <1>2 DEF IInv, TypeOK, Answer
<1> QED
  BY <1>3, <1>4 DEF IInv, Answer

\* The users table and its dialog.
LEMMA TableInvariant ==
  ASSUME IInv, Table \/ Patches
  PROVE  IInv'
<1>0. TableOK(table)
  BY DEF IInv
<1>1. ASSUME NEW t, TableStep(t), TableOK(t) PROVE IInv'
  <2>1. TypeOK'
    BY <1>1 DEF IInv, TypeOK, TableStep, TableOK
  <2> QED
    BY <1>1, <2>1 DEF IInv, TableStep, QueryOK
<1>2. CASE Cancel
  <2>1. TableOK([table EXCEPT !.pending = <<>>])
    BY <1>0, <1>2 DEF Cancel, TableOK
  <2> QED
    BY <1>1, <1>2, <2>1 DEF Cancel
<1>3. CASE Confirm
  <2> DEFINE t == [table EXCEPT !.busy = TRUE, !.sent = Append(@, table.pending)]
  <2>1. table.sent = <<>>
    BY <1>0, <1>3 DEF Confirm, TableOK
  <2>2. Append(<<>>, table.pending) = <<table.pending>>
    OBVIOUS
  <2>3. /\ t.sent = Append(table.sent, table.pending) /\ t.busy = TRUE
        /\ t.pending = table.pending
    OBVIOUS
  <2> HIDE DEF t
  <2>4. TableOK(t)
    BY <2>1, <2>2, <2>3 DEF TableOK
  <2> QED
    BY <1>1, <1>3, <2>4 DEF Confirm, t
<1>4. ASSUME NEW u \in Users, NEW field \in {"role", "active"}, AskPatch(u, field) PROVE IInv'
  <2>1. TableOK([table EXCEPT !.pending = <<u, field>>])
    BY <1>0, <1>4 DEF AskPatch, TableOK
  <2> QED
    BY <1>1, <1>4, <2>1 DEF AskPatch
<1>5. ASSUME NEW ok \in BOOLEAN, Patched(ok) PROVE IInv'
  <2> DEFINE t == [pending |-> IF ok THEN <<>> ELSE table.pending,
                   busy |-> FALSE, sent |-> Tail(table.sent)]
  <2>1. Tail(table.sent) = <<>>
    <3>1. table.sent = <<table.pending>>
      BY <1>0, <1>5 DEF TableOK, Patched
    <3>2. \A x : Tail(<<x>>) = <<>>
      OBVIOUS
    <3> QED
      BY <3>1, <3>2
  <2>2. t.sent = Tail(table.sent) /\ t.busy = FALSE
    OBVIOUS
  <2> HIDE DEF t
  <2>3. TableOK(t)
    BY <2>1, <2>2 DEF TableOK
  <2> QED
    BY <1>1, <1>5, <2>3 DEF Patched, t
<1> QED
  BY <1>2, <1>3, <1>4, <1>5 DEF Table, Patches

\* The settings page.
LEMMA SettingsInvariant ==
  ASSUME IInv, Settings \/ Health \/ JobsTest
  PROVE  IInv'
<1> DEFINE T == [health: Check, jobs: Check, inHealth: Nat, inJobs: Nat]
<1>0. tests \in T /\ pasted \in Keys \union {None}
  BY DEF IInv, TypeOK
<1>1. ASSUME NEW t \in T, TestsStep(t), pasted' \in Keys \union {None}
      PROVE  IInv'
  <2>1. TypeOK'
    BY <1>1 DEF IInv, TypeOK, TestsStep
  <2> QED
    BY <1>1, <2>1 DEF IInv, TestsStep, QueryOK
<1>2. ASSUME NEW k \in Keys \union {None}, Save(k) PROVE IInv'
  <2>1. tests.inHealth + 1 \in Nat
    BY <1>0
  <2>2. \A n \in Nat :
          [tests EXCEPT !.health = "running", !.jobs = "running", !.inHealth = n] \in T
    BY <1>0 DEF Check
  <2> QED
    BY <1>1, <1>2, <2>1, <2>2 DEF Save, SetCredentials
<1>3. CASE Clear
  <2>1. [tests EXCEPT !.health = "idle", !.jobs = "idle"] \in T
    BY <1>0 DEF Check
  <2> QED
    BY <1>1, <1>3, <2>1 DEF Clear, ClearCredentials
<1>4. ASSUME NEW ok \in BOOLEAN, HealthAnswers(ok) PROVE IInv'
  <2>1. tests.inHealth - 1 \in Nat /\ tests.inJobs + 1 \in Nat /\ Verdict(ok) \in Check
    BY <1>0, <1>4 DEF HealthAnswers, Verdict, Check
  <2>2. \A x \in Check, m, n \in Nat :
          [tests EXCEPT !.health = x, !.inHealth = m, !.inJobs = n] \in T
    BY <1>0
  <2> DEFINE t == [tests EXCEPT !.health = Verdict(ok), !.inHealth = tests.inHealth - 1,
                                !.inJobs = tests.inJobs + 1]
  <2>3. t \in T
    BY <2>1, <2>2
  <2>4. TestsStep(t) /\ pasted' = pasted
    BY <1>4 DEF HealthAnswers
  <2> HIDE DEF t
  <2> QED
    BY <1>0, <1>1, <2>3, <2>4
<1>5. ASSUME NEW ok \in BOOLEAN, JobsAnswers(ok) PROVE IInv'
  <2>1. tests.inJobs - 1 \in Nat /\ Verdict(ok) \in Check
    BY <1>0, <1>5 DEF JobsAnswers, Verdict, Check
  <2>2. \A x \in Check, n \in Nat : [tests EXCEPT !.jobs = x, !.inJobs = n] \in T
    BY <1>0
  <2> QED
    BY <1>0, <1>1, <1>5, <2>1, <2>2 DEF JobsAnswers
<1> QED
  BY <1>2, <1>3, <1>4, <1>5 DEF Settings, Health, JobsTest

\* A sign-in that starts or fails on its page.
LEMMA SignInInvariant ==
  ASSUME IInv, SubmitLogin \/ LoginFailed \/ CallbackFailed
  PROVE  IInv'
<1>0. /\ FormFor(view, form) /\ late \in Lates
      /\ \A x \in {None, "login", "callback", "giveUp"} : x \in Lates
  BY DEF IInv, TypeOK, Lates
<1>1. CASE SubmitLogin
  <2>1. view \notin FormViews
    BY <1>1 DEF SubmitLogin, FormViews
  <2>2. /\ FormFor(view, [form EXCEPT !.loading = TRUE, !.error = FALSE])
        /\ FormFor(view, [form EXCEPT !.error = TRUE])
    BY <1>0, <2>1 DEF FormFor
  <2> QED
    BY <1>0, <1>1, <2>2, FormInvariant DEF SubmitLogin
<1>2. CASE LoginFailed
  <2>1. CASE view = "login"
    <3>1. view \notin FormViews
      BY <2>1 DEF FormViews
    <3>2. FormFor(view, [form EXCEPT !.loading = FALSE, !.error = TRUE])
      BY <1>0, <3>1 DEF FormFor
    <3>3. FormFor(view, form')
      BY <1>0, <1>2, <3>2 DEF LoginFailed
    <3> QED
      BY <1>0, <1>2, <3>3, FormInvariant DEF LoginFailed
  <2>2. CASE view # "login"
    BY <1>0, <1>2, <2>2, FormInvariant DEF LoginFailed
  <2> QED
    BY <2>1, <2>2
<1>3. CASE CallbackFailed
  BY <1>0, <1>3, FormInvariant DEF CallbackFailed
<1> QED
  BY <1>1, <1>2, <1>3

-----------------------------------------------------------------------------
\* The initial state satisfies the invariant.
LEMMA InitInvariant == Init => IInv
<1> SUFFICES ASSUME Init PROVE IInv
  OBVIOUS
<1>1. view \in Views /\ list = FreshList /\ form = FreshForm(view, None) /\ table = FreshTable
  BY DEF Init, Views
<1>2. ListFor(view, list) /\ FormFor(view, form) /\ TableOK(table) /\ QueryOK
  <2>1. None \in Searches
    BY DEF Searches
  <2> QED
    BY <1>1, <2>1, FreshListOK, FreshOK DEF Init, QueryOK, FreshQuery
<1>3. form.sent = <<>> /\ form.values \in Values
  BY <1>1, EnteredOK DEF FreshForm, FreshValues, DEFAULT_FORM_VALUES, Values, Formats
<1>4. TypeOK
  BY <1>1, <1>2, <1>3, FreshListOK, FreshOK, PagesAssumption
  DEF Init, TypeOK, FreshQuery, TableOK, ListType
<1> QED
  BY <1>2, <1>4 DEF IInv

\* Every step preserves the invariant.
LEMMA NextInvariant == IInv /\ [Next]_vars => IInv'
<1> SUFFICES ASSUME IInv, [Next]_vars PROVE IInv'
  OBVIOUS
<1>1. CASE UNCHANGED vars
  BY <1>1 DEF vars, IInv, TypeOK, QueryOK
<1>2. CASE SignIn
  BY <1>2, SignInInvariant, Navigation DEF SignIn
<1>3. CASE Answers
  BY <1>3, AnswerInvariant DEF Answers
<1> QED
  BY <1>1, <1>2, <1>3, Navigation, SessionInvariant, ListInvariant, FormActions,
     TableInvariant, SettingsInvariant DEF Next

\* The invariant holds in every state.
THEOREM Invariance == Spec => []IInv
  BY InitInvariant, NextInvariant, PTL DEF Spec

\* Every variable keeps its type, whatever pages are visited in what order.
THEOREM TypeCorrect == Spec => []TypeOK
<1>1. IInv => TypeOK
  BY DEF IInv
<1> QED
  BY <1>1, Invariance, PTL

\* An answer shown as current is one to a question with the page's own key.
LEMMA SnapshotIsAnswer ==
  ASSUME IInv, QueryKey # <<>>, ~ Loading, HasData
  PROVE  LET a == query.snap.ask
         IN  /\ a.view = view /\ a.list = list /\ a.as = Asked.as
             /\ Own(a) /\ Own(Asked) => a = Asked
<1>1. query.snap.key = <<QueryKey, query.nonce>>
  BY DEF Loading, Current, FullKey
<1>2. query.snap # NoSnap
  BY DEF HasData, NoSnap
<1>3. AskOK(view, QueryKey, query.snap.ask)
  BY <1>1, <1>2 DEF IInv, QueryOK
<1>4. AskOK(view, QueryKey, Asked)
  BY Keyed DEF IInv
<1>5. Asked.view = view /\ Asked.list = list
  BY DEF Asked
<1> QED
  BY <1>3, <1>4, <1>5, KeyTellsAsk DEF IInv, TypeOK

\* Rows shown without a spinner answer the page's question, and are those of its
\* account or key if that, and the one they were asked by, go by their own id.
THEOREM AnswersCurrent == Spec => []CurrentIsAsked
<1>1. IInv => CurrentIsAsked
  BY SnapshotIsAnswer DEF CurrentIsAsked
<1> QED
  BY <1>1, Invariance, PTL

\* A mounted form never has two requests in flight.
THEOREM SubmittedOnce == Spec => []OneSubmission
<1>1. ASSUME IInv PROVE OneSubmission
  <2>1. Len(<<>>) = 0 /\ \A x : Len(<<x>>) = 1
    OBVIOUS
  <2>2. CASE form.sent = <<>>
    BY <2>1, <2>2 DEF OneSubmission
  <2>3. CASE form.sent = <<form.sent[1]>>
    <3>1. Len(form.sent) = 1
      BY <2>1, <2>3
    <3> QED
      BY <3>1 DEF OneSubmission
  <2> QED
    BY <1>1, <2>2, <2>3 DEF IInv, FormFor
<1> QED
  BY <1>1, Invariance, PTL

\* The numbers of every request are in the ranges of the schema.
THEOREM LimitsInRange == Spec => []SentInRange
<1>1. ASSUME IInv, NEW i \in DOMAIN form.sent PROVE LimitsAccepted(form.sent[i].limits)
  <2>1. form.sent = <<form.sent[1]>> /\ LimitsAccepted(form.sent[1].limits)
    BY <1>1 DEF IInv, FormFor
  <2>2. i = 1
    BY <1>1, <2>1
  <2> QED
    BY <2>1, <2>2
<1>2. IInv => SentInRange
  BY <1>1 DEF SentInRange
<1> QED
  BY <1>2, Invariance, PTL

\* The change in flight is the one the dialog shows.
THEOREM DialogTrue == Spec => []ConfirmedOnly
<1>1. IInv => ConfirmedOnly
  BY DEF IInv, TableOK, ConfirmedOnly
<1> QED
  BY <1>1, Invariance, PTL

-----------------------------------------------------------------------------
(* Paging *)

\* One page more or less than a whole number of pages is a whole number.
LEMMA WholePages ==
  ASSUME NEW m \in Nat, NEW n \in Nat, n > 0, m % n = 0
  PROVE  /\ (m + n) % n = 0
         /\ m >= n => (m - n) % n = 0
         /\ m < n => m = 0
<1>1. m = (m \div n) * n
  OBVIOUS
<1>2. PICK q \in Nat : m = q * n
  BY <1>1
<1>3. ASSUME NEW o \in Nat, NEW p \in Nat, o = p * n PROVE o % n = 0
  BY <1>3
<1>4. (m + n) % n = 0
  <2>1. m + n = (q + 1) * n /\ q + 1 \in Nat /\ m + n \in Nat
    BY <1>2
  <2> QED
    BY <1>3, <2>1
<1>5. ASSUME m >= n PROVE (m - n) % n = 0
  <2>1. q >= 1
    BY <1>2, <1>5
  <2>2. m - n = (q - 1) * n /\ q - 1 \in Nat /\ m - n \in Nat
    BY <1>2, <1>5, <2>1
  <2> QED
    BY <1>3, <2>2
<1>6. m < n => m = 0
  OBVIOUS
<1> QED
  BY <1>4, <1>5, <1>6

\* A list is on a whole number of pages.
Whole(l) == l.offset % l.limit = 0

LEMMA WholeFirstPage ==
  ASSUME NEW l \in ListType, l.offset = 0
  PROVE  Whole(l)
<1>1. l.limit \in Nat /\ l.limit > 0
  <2>1. l.limit \in PageSizes
    BY DEF ListType
  <2>2. \A n \in PageSizes : n \in Nat /\ n > 0
    BY PagesAssumption
  <2> QED
    BY <2>1, <2>2
<1>2. 0 % l.limit = 0
  BY <1>1
<1> QED
  BY <1>2 DEF Whole

\* Where a click on a filter, a page size or the pager may take a list.
Lands ==
  /\ Whole(list')
  /\ list'.offset = 0 \/ list'.offset < list.offset \/ list'.offset < Total[Paged][list'.kind]

LEMMA PagerStep ==
  ASSUME IInv, Whole(list), Listing, list' # list
  PROVE  Lands
<1>0. /\ list \in ListType /\ list.offset \in Nat /\ list.limit \in Nat /\ list.limit > 0
      /\ list.offset % list.limit = 0
  <2>1. list.limit \in PageSizes /\ list.offset \in Nat /\ list \in ListType
    BY DEF IInv, TypeOK, ListType
  <2>2. \A n \in PageSizes : n \in Nat /\ n > 0
    BY PagesAssumption
  <2> QED
    BY <2>1, <2>2 DEF Whole
<1>1. /\ (list.offset + list.limit) % list.limit = 0
      /\ list.offset >= list.limit => (list.offset - list.limit) % list.limit = 0
      /\ 0 % list.limit = 0
  <2>1. 0 % list.limit = 0
    BY <1>0
  <2>2. /\ (list.offset + list.limit) % list.limit = 0
        /\ list.offset >= list.limit => (list.offset - list.limit) % list.limit = 0
    BY <1>0, WholePages, Zenon
  <2> QED
    BY <2>1, <2>2
<1>2. ~ Retry
  BY DEF Retry
<1>3. ASSUME list' \in ListType, list'.offset = 0 PROVE Lands
  BY <1>3, WholeFirstPage DEF Lands
<1>4. ASSUME NEW k \in Kinds, SetKind(k) PROVE Lands
  <2>1. list' = [list EXCEPT !.kind = k, !.offset = 0]
    BY <1>4 DEF SetKind, ListBecomes
  <2> QED
    BY <1>0, <1>3, <2>1 DEF ListType
<1>5. ASSUME NEW n \in PageSizes, SetLimit(n) PROVE Lands
  <2>1. list' = [list EXCEPT !.limit = n, !.offset = 0]
    BY <1>5 DEF SetLimit, ListBecomes
  <2> QED
    BY <1>0, <1>3, <2>1 DEF ListType
<1>6. ASSUME NEW o \in Nat, list' = [list EXCEPT !.offset = o], o % list.limit = 0,
             o = 0 \/ o < list.offset \/ o < Total[Paged][list.kind]
      PROVE  Lands
  <2>1. list'.offset = o /\ list'.limit = list.limit /\ list'.kind = list.kind
    BY <1>0, <1>6 DEF ListType
  <2> QED
    BY <1>6, <2>1 DEF Lands, Whole
<1>7. CASE PrevPage
  <2> DEFINE o == IF list.offset < list.limit THEN 0 ELSE list.offset - list.limit
  <2>1. o \in Nat /\ (o = 0 \/ o < list.offset)
    BY <1>0
  <2>2. o % list.limit = 0
    <3>1. CASE list.offset < list.limit
      BY <1>1, <3>1
    <3>2. CASE list.offset >= list.limit
      <4>1. o = list.offset - list.limit
        BY <1>0, <3>2
      <4> QED
        BY <1>1, <3>2, <4>1
    <3> QED
      BY <1>0, <3>1, <3>2
  <2>3. list' = [list EXCEPT !.offset = o]
    BY <1>7 DEF PrevPage, ListBecomes
  <2> HIDE DEF o
  <2> QED
    BY <1>6, <2>1, <2>2, <2>3
<1>8. CASE NextPage
  <2> DEFINE o == list.offset + list.limit
  <2>1. o \in Nat /\ o % list.limit = 0
    BY <1>0, <1>1
  <2>2. query.snap.ask.list = list
    BY <1>8, SnapshotIsAnswer DEF NextPage, ListBecomes
  <2>3. query.snap.ask.by = Paged
    BY <1>8, SnapshotIsAnswer DEF NextPage, ListBecomes, Paged
  <2>4. o < Total[Paged][list.kind]
    BY <1>8, <2>2, <2>3 DEF NextPage
  <2>5. list' = [list EXCEPT !.offset = o]
    BY <1>8 DEF NextPage, ListBecomes
  <2> HIDE DEF o
  <2> QED
    BY <1>6, <2>1, <2>4, <2>5
<1> QED
  BY <1>2, <1>4, <1>5, <1>7, <1>8 DEF Listing

\* No other step moves a list, except that mounting starts a fresh one.
LEMMA ListKept ==
  ASSUME Next, ~ Listing
  PROVE  list' = list \/ list' = FreshList
<1>1. ASSUME SignIn PROVE list' = list \/ list' = FreshList
  BY <1>1 DEF SignIn, SubmitLogin, LoginFailed, StartSSO, SsoReturns, CallbackFailed, GiveUp,
     LoginOk, CallbackOk, MountRoute, Mount, Remount
<1>2. ASSUME \/ \E v \in Views : Go(v)
             \/ Redirect \/ Logout \/ \E s \in Sessions : SessionBecomes(s)
      PROVE  list' = list \/ list' = FreshList
  BY <1>2 DEF Go, Redirect, Logout, SessionBecomes, Mount, Remount
<1>3. ASSUME Answers \/ Table \/ Patches PROVE list' = list
  BY <1>3 DEF Answers, Answer, Table, Patches, Cancel, Confirm, AskPatch, Patched, TableStep
<1>4. ASSUME Form \/ FormAnswers PROVE list' = list
  <2>1. \A f : FormStep(f) => list' = list
    BY DEF FormStep
  <2> QED
    BY <1>4, <2>1 DEF Form, FormAnswers, Reset, ChooseFile, SubmitQuote, SubmitOptimize,
       SubmitInterpret, Submits, Edit, FileRead, FormAnswered
<1>5. ASSUME Settings \/ Health \/ JobsTest PROVE list' = list
  BY <1>5 DEF Settings, Health, JobsTest, Save, Clear, HealthAnswers, JobsAnswers, TestsStep
<1> QED
  BY <1>1, <1>2, <1>3, <1>4, <1>5 DEF Next

\* Every step of a list that is on a whole number of pages lands on one.
LEMMA ListStep ==
  ASSUME IInv, Whole(list), [Next]_vars
  PROVE  list' = list \/ Lands
<1>1. CASE Listing
  BY <1>1, PagerStep
<1>2. CASE list' = FreshList
  <2>1. list'.offset = 0 /\ Whole(list')
    BY <1>2, FreshListOK, WholeFirstPage DEF FreshList
  <2> QED
    BY <2>1 DEF Lands
<1>3. CASE UNCHANGED vars
  BY <1>3 DEF vars
<1> QED
  BY <1>1, <1>2, <1>3, ListKept

\* Paging stays within the pages there are.
THEOREM PagesInRange == Spec => PageInRange
<1>1. Init => Whole(list)
  BY FreshListOK, WholeFirstPage DEF Init, FreshList
<1>2. IInv /\ Whole(list) /\ [Next]_vars => Whole(list)'
  BY ListStep DEF Lands, Whole
<1> DEFINE A == list' # list
                  => /\ list'.offset % list'.limit = 0
                     /\ \/ list'.offset = 0 \/ list'.offset < list.offset
                        \/ list'.offset < Total[Paged][list'.kind]
<1>3. IInv /\ Whole(list) /\ [Next]_vars => A
  BY ListStep DEF Lands, Whole
<1> QED
  BY <1>1, <1>2, <1>3, Invariance, PTL DEF Spec, PageInRange

=============================================================================
