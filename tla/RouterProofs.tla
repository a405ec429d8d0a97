---------------------------- MODULE RouterProofs ----------------------------
(***************************************************************************)
(* Proofs about Router, for any requests, inputs, qualities and number of  *)
(* threads: type correctness, and that the selection is the best result    *)
(* and loses none.                                                         *)
(***************************************************************************)
EXTENDS Router, FiniteSetTheorems, TLAPS

-----------------------------------------------------------------------------
(* The inductive invariant *)

Failed(o) == o # Missing /\ ~ Ok(o)

\* What plan says at each await of the coroutine.
PlanOK(r) ==
  /\ phase[r] \in {"primary", "secondary"} => plan[r].primary \in Engines
  /\ phase[r] = "primary" => plan[r].mode \in {"single", "fallback"}
  /\ phase[r] = "secondary" => plan[r].mode = "fallback"
  /\ phase[r] = "both" => plan[r].mode = "parallel"
  /\ phase[r] \in {"derived", "done"} => First(r) \in Engines
  /\ phase[r] = "derived" => plan[r].qmod

\* A job in the queue or a result not yet taken is one the coroutine waits
\* for; a running job is or was one.
JobsOK(r) ==
  \A c \in Calls :
    /\ job[r][c] = "queued" => Waiting(r, c)
    /\ job[r][c] = "running" => c \in Asked(r) \/ answer[r][c] # Missing
    /\ returned[r][c] # Missing => Waiting(r, c) /\ job[r][c] = "idle"

\* The answers the coroutine has had at each await.
AnswersOK(r) ==
  /\ phase[r] \in {"new", "raised"} => \A c \in Calls : answer[r][c] = Missing
  /\ phase[r] = "primary" =>
       \A c \in Calls : c # plan[r].primary => answer[r][c] = Missing
  /\ phase[r] = "secondary" => Failed(answer[r][plan[r].primary])
  /\ phase[r] \notin {"derived", "done"} => answer[r][Derived] = Missing
  /\ phase[r] = "derived" =>
       /\ Ok(answer[r][CLASSIQ])
       /\ plan[r].mode = "fallback" => plan[r].primary = IBM /\ Failed(answer[r][IBM])
  /\ plan[r].qmod => ~ Ok(answer[r][IBM]) /\ ~ Ok(returned[r][IBM])

\* What route has recorded at each await.
OutcomesOK(r) ==
  /\ phase[r] \in {"new", "raised", "primary", "both"} =>
       \A e \in Engines : outcomes[r][e] = Missing
  /\ phase[r] = "secondary" =>
       /\ outcomes[r][plan[r].primary] = answer[r][plan[r].primary]
       /\ outcomes[r][Other(plan[r].primary)] = Missing
  /\ phase[r] = "derived" => \A e \in Engines : outcomes[r][e] = answer[r][e]
  /\ phase[r] # "done" => selected[r] = NoSelection
  /\ phase[r] \notin {"derived", "done"} \/ plan[r].mode # "fallback" => why[r] = "none"
  /\ phase[r] = "derived" /\ plan[r].mode = "fallback" =>
       why[r] = answer[r][plan[r].primary].status

\* The successes in the final dict are the successes among the answers.
MergedOK(r) ==
  phase[r] = "done" =>
    /\ \A c \in Calls : Ok(answer[r][c]) => outcomes[r][EngineOf(c)] = answer[r][c]
    /\ \A e \in Engines : Ok(outcomes[r][e]) =>
         \E c \in Calls : EngineOf(c) = e /\ answer[r][c] = outcomes[r][e]

RouteOK(r) ==
  /\ PlanOK(r) /\ JobsOK(r) /\ AnswersOK(r) /\ OutcomesOK(r) /\ MergedOK(r)
  /\ BestSelected(r) /\ NoneDiscarded(r) /\ Justified(r) /\ Reported(r)

IInv == TypeOK /\ \A r \in Requests : RouteOK(r)

-----------------------------------------------------------------------------
(* Facts about the data *)

LEMMA OutcomeFacts ==
  /\ Failure("timeout") \in Outcome
  /\ \A o \in Outcome : o # Missing /\ o.status \in {"success", "error", "not_applicable", "timeout"}
  /\ ~ Ok(Missing)
  /\ \A c \in Calls, q \in BOOLEAN : Returns(c, q) \subseteq Outcome
BY DEF Outcome, Success, Failure, Missing, Ok, Returns, IBM, Derived

LEMMA OutcomeScores == \A o \in Outcome \union {Missing} : o.score \in Int /\ o.depth \in Int
BY MetricsAssumption DEF Outcome, Missing, Failure, Success

LEMMA PlanType ==
  ASSUME NEW in \in Input
  PROVE  /\ Plan(in) \in [mode : Modes, primary : Engines \union {"auto"}, qmod : BOOLEAN]
         /\ Plan(in).mode = "single" => Plan(in).primary \in Engines
BY DEF Plan, DecideAuto, Input, Modes, Engines, IBM, CLASSIQ

LEMMA OtherType == \A e : Other(e) \in Engines
BY DEF Other, Engines, IBM, CLASSIQ

LEMMA SelectType ==
  ASSUME NEW res \in [Engines -> Outcome \union {Missing}], NEW first \in Engines
  PROVE  Select(res, first) \in [engine : Engines \union {"none"},
                                 outcome : Outcome \union {Missing}]
BY OtherType, OutcomeFacts DEF Select, Chosen, NoSelection

-----------------------------------------------------------------------------
(* Initial states, and what a step leaves alone *)

LEMMA InitIInv == Init => IInv
<1> SUFFICES ASSUME Init PROVE IInv
  OBVIOUS
<1>1. TypeOK
  BY OutcomeFacts DEF Init, TypeOK, NoPlan, NoSelection, Modes, Engines
<1>2. ASSUME NEW r \in Requests PROVE RouteOK(r)
  BY OutcomeFacts, OtherType
     DEF Init, RouteOK, PlanOK, JobsOK, AnswersOK, OutcomesOK, MergedOK, BestSelected,
         NoneDiscarded, Justified, Reported, NoPlan, Calls, Engines
<1> QED
  BY <1>1, <1>2 DEF IInv

\* What a request's part of the state says depends on that part alone.
Same(s) ==
  /\ phase'[s] = phase[s] /\ plan'[s] = plan[s] /\ job'[s] = job[s]
  /\ returned'[s] = returned[s] /\ answer'[s] = answer[s] /\ outcomes'[s] = outcomes[s]
  /\ selected'[s] = selected[s] /\ why'[s] = why[s]

LEMMA Frame ==
  ASSUME NEW s \in Requests, RouteOK(s), Same(s)
  PROVE  RouteOK(s)'
BY DEF Same, RouteOK, PlanOK, JobsOK, AnswersOK, OutcomesOK, MergedOK, BestSelected,
       NoneDiscarded, Justified, Reported, First, Asked, Waiting

\* A step that concerns request r only.
LEMMA OneRequest ==
  ASSUME IInv, NEW r \in Requests, TypeOK', RouteOK(r)',
         \A s \in Requests : s # r => Same(s)
  PROVE  IInv'
<1>1. ASSUME NEW s \in Requests PROVE RouteOK(s)'
  BY Frame DEF IInv
<1> QED
  BY <1>1 DEF IInv

LEMMA SubmitType ==
  ASSUME TypeOK, NEW r \in Requests, NEW calls \in Seq(Calls), Submit(r, calls)
  PROVE  /\ job' \in [Requests -> [Calls -> {"idle", "queued", "running"}]]
         /\ queue' \in Seq(Requests \X Calls)
         /\ returned' = returned
         /\ \A s \in Requests : s # r => job'[s] = job[s]
<1>1. [i \in DOMAIN calls |-> <<r, calls[i]>>] \in Seq(Requests \X Calls)
  OBVIOUS
<1>2. queue' \in Seq(Requests \X Calls)
  BY <1>1 DEF TypeOK, Submit
<1> QED
  BY <1>2 DEF TypeOK, Submit

\* The jobs of r after it submitted one call.
LEMMA SubmitOne ==
  ASSUME TypeOK, NEW r \in Requests, NEW c \in Calls, Submit(r, <<c>>)
  PROVE  \A d \in Calls : job'[r][d] = IF d = c THEN "queued" ELSE job[r][d]
BY DEF Submit, TypeOK

LEMMA SubmitTwo ==
  ASSUME TypeOK, NEW r \in Requests, NEW c \in Calls, NEW d \in Calls, Submit(r, <<c, d>>)
  PROVE  \A x \in Calls : job'[r][x] = IF x \in {c, d} THEN "queued" ELSE job[r][x]
<1>1. \A x : (\E i \in DOMAIN <<c, d>> : <<c, d>>[i] = x) <=> x \in {c, d}
  OBVIOUS
<1> QED
  BY <1>1 DEF Submit, TypeOK

-----------------------------------------------------------------------------
(* The steps that preserve the invariant *)

LEMMA StartIInv ==
  ASSUME IInv, NEW r \in Requests, Start(r)
  PROVE  IInv'
<1> USE DEF IInv
<1>1. PICK in \in Inputs[r] :
        /\ plan' = [plan EXCEPT ![r] = Plan(in)]
        /\ \/ /\ Plan(in).mode = "parallel"
              /\ phase' = [phase EXCEPT ![r] = "both"]
              /\ Submit(r, <<IBM, CLASSIQ>>)
           \/ /\ Plan(in).mode # "parallel" /\ Plan(in).primary \in Engines
              /\ phase' = [phase EXCEPT ![r] = "primary"]
              /\ Submit(r, <<Plan(in).primary>>)
           \/ /\ Plan(in).mode # "parallel" /\ Plan(in).primary = "auto"
              /\ phase' = [phase EXCEPT ![r] = "raised"]
              /\ UNCHANGED pool
  BY DEF Start
<1>2. in \in Input
  BY InputsAssumption
<1>3. Plan(in) \in [mode : Modes, primary : Engines \union {"auto"}, qmod : BOOLEAN]
  BY <1>2, PlanType
<1>4. /\ job' \in [Requests -> [Calls -> {"idle", "queued", "running"}]]
      /\ queue' \in Seq(Requests \X Calls)
      /\ returned' = returned
      /\ \A s \in Requests : s # r => job'[s] = job[s]
  <2>1. <<IBM, CLASSIQ>> \in Seq(Calls)
    BY DEF Calls, Engines
  <2>2. Plan(in).primary \in Engines => <<Plan(in).primary>> \in Seq(Calls)
    BY DEF Calls
  <2> QED
    BY <1>1, <2>1, <2>2, SubmitType DEF TypeOK, pool
<1>5. TypeOK'
  BY <1>1, <1>3, <1>4 DEF Start, TypeOK
<1>6. /\ phase[r] = "new" /\ plan'[r] = Plan(in)
      /\ phase'[r] \in {"both", "primary", "raised"}
      /\ phase'[r] = "both" => Plan(in).mode = "parallel"
      /\ phase'[r] = "primary" => Plan(in).mode # "parallel" /\ Plan(in).primary \in Engines
      /\ answer' = answer /\ outcomes' = outcomes /\ selected' = selected /\ why' = why
  BY <1>1 DEF Start, TypeOK
<1>7. \A c \in Calls : answer[r][c] = Missing /\ returned[r][c] = Missing /\ job[r][c] = "idle"
  <2>1. \A c : c \notin Asked(r)
    BY <1>6 DEF Asked
  <2>2. ASSUME NEW c \in Calls PROVE job[r][c] \in {"idle", "queued", "running"}
    BY DEF TypeOK
  <2> QED
    BY <1>6, <2>1, <2>2 DEF RouteOK, JobsOK, AnswersOK, Waiting
<1>8. \A c \in Calls :
        /\ job'[r][c] \in {"idle", "queued"}
        /\ job'[r][c] = "queued" =>
             \/ phase'[r] = "both" /\ c \in Engines
             \/ phase'[r] = "primary" /\ c = Plan(in).primary
  <2>1. CASE phase'[r] = "both"
    <3>1. Submit(r, <<IBM, CLASSIQ>>)
      BY <1>1, <2>1 DEF TypeOK
    <3>2. IBM \in Calls /\ CLASSIQ \in Calls
      BY DEF Calls, Engines
    <3>3. \A x \in Calls : job'[r][x] = IF x \in {IBM, CLASSIQ} THEN "queued" ELSE job[r][x]
      BY <3>1, <3>2, SubmitTwo
    <3> QED
      BY <3>3, <1>7, <2>1 DEF Engines
  <2>2. CASE phase'[r] = "primary"
    <3>1. Submit(r, <<Plan(in).primary>>) /\ Plan(in).primary \in Calls
      BY <1>1, <2>2 DEF TypeOK, Calls
    <3> QED
      BY <3>1, <1>7, <2>2, SubmitOne
  <2>3. CASE phase'[r] = "raised"
    BY <1>1, <1>7, <2>3 DEF TypeOK, pool
  <2> QED
    BY <1>6, <2>1, <2>2, <2>3
<1>9. RouteOK(r)'
  <2>1. PlanOK(r)'
    BY <1>3, <1>6 DEF PlanOK, Modes
  <2>2. JobsOK(r)'
    BY <1>4, <1>6, <1>7, <1>8 DEF JobsOK, Waiting, Asked
  <2>3. AnswersOK(r)'
    BY <1>4, <1>6, <1>7, OutcomeFacts DEF AnswersOK, Calls, Engines
  <2>4. OutcomesOK(r)'
    BY <1>6 DEF RouteOK, OutcomesOK
  <2>5. Justified(r)'
    BY <1>6, <1>7, <1>8, OtherType DEF Justified, Calls, Other, Engines, IBM, CLASSIQ
  <2> QED
    BY <1>6, <2>1, <2>2, <2>3, <2>4, <2>5
       DEF RouteOK, MergedOK, BestSelected, NoneDiscarded, Reported
<1>10. \A s \in Requests : s # r => Same(s)
  BY <1>1, <1>4, <1>6 DEF Same, TypeOK
<1> QED
  BY <1>5, <1>9, <1>10, OneRequest

\* The wait for one call ends, or its job does.
LEMMA CallIInv ==
  ASSUME IInv, NEW r \in Requests, NEW c \in Calls,
         Answered(r, c) \/ TimedOut(r, c) \/ ThreadReturns(r, c)
  PROVE  IInv'
<1> USE DEF IInv
<1>1. TypeOK'
  <2>1. CASE Answered(r, c)
    BY <2>1 DEF Answered, TypeOK
  <2>2. CASE TimedOut(r, c)
    BY <2>2, OutcomeFacts DEF TimedOut, Cancel, TypeOK
  <2>3. CASE ThreadReturns(r, c)
    <3>1. plan[r].qmod \in BOOLEAN
      BY DEF TypeOK
    <3>2. Returns(c, plan[r].qmod) \subseteq Outcome
      BY <3>1, OutcomeFacts
    <3>3. returned' \in [Requests -> [Calls -> Outcome \union {Missing}]]
      <4>1. CASE Waiting(r, c)
        <5>1. PICK o \in Returns(c, plan[r].qmod) : returned' = [returned EXCEPT ![r][c] = o]
          BY <2>3, <4>1 DEF ThreadReturns
        <5> QED
          BY <3>2, <5>1 DEF TypeOK
      <4>2. CASE ~ Waiting(r, c)
        BY <2>3, <4>2 DEF ThreadReturns, TypeOK
      <4> QED
        BY <4>1, <4>2
    <3> QED
      BY <2>3, <3>3 DEF ThreadReturns, TypeOK
  <2> QED
    BY <2>1, <2>2, <2>3
<1>2. /\ UNCHANGED <<phase, plan, outcomes, selected, why>>
      /\ \A s \in Requests : s # r => Same(s)
      /\ First(r)' = First(r) /\ Asked(r)' = Asked(r)
      /\ \A d \in Calls : d # c => /\ job'[r][d] = job[r][d] /\ returned'[r][d] = returned[r][d]
                                   /\ answer'[r][d] = answer[r][d]
  BY DEF Answered, TimedOut, ThreadReturns, Cancel, Same, TypeOK, First, Asked
<1>3. CASE Answered(r, c) \/ TimedOut(r, c)
  <2>1. /\ Waiting(r, c) /\ answer[r][c] = Missing /\ c \in Asked(r)
        /\ answer'[r][c] # Missing
        /\ returned'[r][c] = Missing
        /\ job'[r][c] = IF job[r][c] = "queued" THEN "idle" ELSE job[r][c]
        /\ answer'[r][c] = returned[r][c] \/ ~ Ok(answer'[r][c])
    <3>1. CASE Answered(r, c)
      BY <3>1 DEF Answered, Waiting, TypeOK, RouteOK, JobsOK
    <3>2. CASE TimedOut(r, c)
      <4>1. Failure("timeout") # Missing /\ ~ Ok(Failure("timeout"))
        BY DEF Failure, Missing, Ok
      <4> QED
        BY <3>2, <4>1 DEF TimedOut, Waiting, Cancel, TypeOK
    <3> QED
      BY <1>3, <3>1, <3>2
  <2>2. PlanOK(r)' /\ JobsOK(r)'
    BY <1>2, <2>1 DEF RouteOK, PlanOK, JobsOK, Waiting
  <2>3. phase[r] \in {"primary", "secondary", "derived", "both"}
    BY <2>1 DEF Asked
  <2>4. AnswersOK(r)'
    <3>1. IBM \in Calls /\ CLASSIQ \in Calls /\ Derived \in Calls
          /\ Derived \notin Engines /\ Derived # IBM /\ Derived # CLASSIQ
      BY DEF Calls, Engines, Derived, IBM, CLASSIQ
    <3>2. Asked(r) \subseteq Calls /\ plan[r].primary # Other(plan[r].primary)
      BY DEF Asked, Other, IBM, CLASSIQ
    <3>3. phase[r] = "primary" => c = plan[r].primary
      BY <2>1 DEF Asked
    <3>4. phase[r] = "secondary" => c # plan[r].primary
      BY <2>1, <3>2 DEF Asked
    <3>5. phase[r] = "derived" => c = Derived
      BY <2>1 DEF Asked
    <3>6. c = Derived => phase[r] = "derived"
      BY <2>1, <3>1, OtherType DEF Asked, RouteOK, PlanOK
    <3>7. c = IBM /\ plan[r].qmod => ~ Ok(answer'[r][IBM]) /\ ~ Ok(returned'[r][IBM])
      BY <2>1, OutcomeFacts DEF RouteOK, AnswersOK
    <3>8. phase[r] = "secondary" => plan[r].primary \in Calls
      BY DEF RouteOK, PlanOK, Calls
    <3>9. phase[r] = "derived" =>
             answer'[r][CLASSIQ] = answer[r][CLASSIQ] /\ answer'[r][IBM] = answer[r][IBM]
      BY <1>2, <3>1, <3>5
    <3>10. phase[r] = "secondary" => answer'[r][plan[r].primary] = answer[r][plan[r].primary]
      BY <1>2, <3>4, <3>8
    <3>11. phase[r] # "derived" => answer'[r][Derived] = answer[r][Derived]
      BY <1>2, <3>1, <3>6
    <3>12. plan[r].qmod => ~ Ok(answer'[r][IBM]) /\ ~ Ok(returned'[r][IBM])
      <4>1. c # IBM => answer'[r][IBM] = answer[r][IBM] /\ returned'[r][IBM] = returned[r][IBM]
        BY <1>2, <3>1
      <4> QED
        BY <3>7, <4>1 DEF RouteOK, AnswersOK
    <3>13. phase[r] = "primary" =>
             \A d \in Calls : d # plan[r].primary => answer'[r][d] = answer[r][d]
      BY <1>2, <3>3
    <3> QED
      BY <1>2, <2>3, <3>9, <3>10, <3>11, <3>12, <3>13 DEF RouteOK, AnswersOK
  <2>5. OutcomesOK(r)'
    <3>1. phase[r] = "secondary" => answer'[r][plan[r].primary] = answer[r][plan[r].primary]
      BY <1>2, <2>1 DEF Asked, RouteOK, PlanOK, Calls, Other, IBM, CLASSIQ
    <3>2. phase[r] = "derived" => \A e \in Engines : answer'[r][e] = answer[r][e]
      BY <1>2, <2>1 DEF Asked, Calls, Engines, Derived, IBM, CLASSIQ
    <3>3. phase[r] = "derived" /\ plan[r].mode = "fallback" => plan[r].primary \in Engines
      BY DEF RouteOK, AnswersOK, Engines
    <3> QED
      BY <1>2, <2>3, <3>1, <3>2, <3>3 DEF RouteOK, OutcomesOK
  <2>6. Justified(r)'
    <3>1. SUFFICES ASSUME plan[r].mode = "fallback", plan[r].primary \in Engines,
                          \/ job'[r][Other(plan[r].primary)] # "idle"
                          \/ answer'[r][Other(plan[r].primary)] # Missing
                   PROVE  Failed(answer'[r][plan[r].primary])
      BY <1>2, <2>3 DEF Justified, Failed
    <3>2. plan[r].primary \in Calls /\ Other(plan[r].primary) \in Calls
          /\ plan[r].primary # Other(plan[r].primary)
      BY <3>1, OtherType DEF Calls, Other, IBM, CLASSIQ
    <3>3. CASE c = Other(plan[r].primary)
      <4>1. phase[r] = "secondary"
        BY <2>1, <2>3, <3>1, <3>2, <3>3, OtherType
           DEF Asked, RouteOK, PlanOK, Derived, Engines, IBM, CLASSIQ
      <4> QED
        BY <1>2, <4>1, <3>2, <3>3 DEF RouteOK, AnswersOK
    <3>4. CASE c # Other(plan[r].primary)
      <4>1. Failed(answer[r][plan[r].primary])
        BY <1>2, <3>1, <3>2, <3>4 DEF RouteOK, Justified, Failed
      <4> QED
        BY <1>2, <2>1, <3>2, <4>1 DEF Failed
    <3> QED
      BY <3>3, <3>4
  <2> QED
    BY <1>1, <1>2, <2>2, <2>3, <2>4, <2>5, <2>6, OneRequest
       DEF RouteOK, MergedOK, BestSelected, NoneDiscarded, Reported
<1>4. CASE ThreadReturns(r, c)
  <2>1. answer' = answer
    BY <1>4 DEF ThreadReturns
  <2>2. /\ job[r][c] = "running" /\ job'[r][c] = "idle"
        /\ \/ returned'[r][c] = returned[r][c]
           \/ Waiting(r, c) /\ returned'[r][c] \in Returns(c, plan[r].qmod)
    BY <1>4 DEF ThreadReturns, TypeOK
  <2>3. JobsOK(r)'
    BY <1>2, <2>1, <2>2 DEF RouteOK, JobsOK, Waiting
  <2>4. AnswersOK(r)'
    <3>1. plan[r].qmod /\ c = IBM => ~ Ok(returned'[r][IBM])
      BY <2>2 DEF Returns, RouteOK, AnswersOK, Ok, Failure
    <3>2. IBM \in Calls /\ CLASSIQ \in Calls /\ Derived \in Calls
      BY DEF Calls, Engines
    <3> QED
      BY <1>2, <2>1, <3>1, <3>2 DEF RouteOK, AnswersOK
  <2>5. Justified(r)'
    BY <1>2, <2>1, <2>2, OtherType DEF RouteOK, Justified, Calls
  <2>6. PlanOK(r)' /\ OutcomesOK(r)' /\ MergedOK(r)' /\ BestSelected(r)' /\ NoneDiscarded(r)'
        /\ Reported(r)'
    BY <1>2, <2>1 DEF RouteOK, PlanOK, OutcomesOK, MergedOK, BestSelected, NoneDiscarded, Reported
  <2> QED
    BY <1>1, <1>2, <2>3, <2>4, <2>5, <2>6, OneRequest DEF RouteOK
<1> QED
  BY <1>3, <1>4

LEMMA ThreadTakesIInv ==
  ASSUME IInv, ThreadTakes
  PROVE  IInv'
<1> USE DEF IInv
<1>a. Head(queue) \in Requests \X Calls
  BY DEF TypeOK, ThreadTakes
<1>1. PICK r \in Requests, c \in Calls : Head(queue) = <<r, c>>
  BY <1>a
<1>b. Head(queue)[1] = r /\ Head(queue)[2] = c
  BY <1>1
<1>2. job' = [job EXCEPT ![r][c] = IF @ = "queued" THEN "running" ELSE @]
  BY <1>b DEF ThreadTakes
<1>3. TypeOK'
  <2>1. Tail(queue) \in Seq(Requests \X Calls)
    BY DEF TypeOK, ThreadTakes
  <2> QED
    BY <1>2, <2>1 DEF TypeOK, ThreadTakes
<1>4. /\ UNCHANGED <<phase, plan, returned, answer, outcomes, selected, why>>
      /\ First(r)' = First(r) /\ Asked(r)' = Asked(r)
      /\ \A d \in Calls : d # c => job'[r][d] = job[r][d]
      /\ job'[r][c] = IF job[r][c] = "queued" THEN "running" ELSE job[r][c]
      /\ \A s \in Requests : s # r => Same(s)
  BY <1>2 DEF ThreadTakes, TypeOK, Same, First, Asked
<1>5. JobsOK(r)'
  BY <1>4 DEF RouteOK, JobsOK, Waiting
<1>6. Justified(r)'
  <2>1. job'[r][Other(plan[r].primary)] # "idle" => job[r][Other(plan[r].primary)] # "idle"
    BY <1>4, OtherType DEF Calls
  <2> QED
    BY <1>4, <2>1 DEF RouteOK, Justified
<1>7. PlanOK(r)' /\ AnswersOK(r)' /\ OutcomesOK(r)' /\ MergedOK(r)' /\ BestSelected(r)'
      /\ NoneDiscarded(r)' /\ Reported(r)'
  BY <1>4 DEF RouteOK, PlanOK, AnswersOK, OutcomesOK, MergedOK, BestSelected, NoneDiscarded,
     Reported
<1> QED
  BY <1>3, <1>4, <1>5, <1>6, <1>7, OneRequest DEF RouteOK

-----------------------------------------------------------------------------
(* The coroutine's own steps *)

Table     == [Engines -> Outcome \union {Missing}]
Selection == [engine : Engines \union {"none"}, outcome : Outcome \union {Missing}]

\* The ranking is antisymmetric, so what Select returns beats or equals the rest.
LEMMA SelectFacts ==
  ASSUME NEW res \in Table, NEW first \in Engines
  PROVE  LET s == Select(res, first)
             f == Other(s.engine)
         IN  /\ s \in Selection
             /\ s.engine = "none" => \A e \in Engines : ~ Ok(res[e])
             /\ s.engine # "none" =>
                  /\ s.engine \in Engines /\ s.outcome = res[s.engine] /\ Ok(res[s.engine])
                  /\ Ok(res[f]) => /\ ~ Better(res[f], res[s.engine])
                                   /\ f = first => Better(res[s.engine], res[f])
<1>2. \A o, p \in Outcome \union {Missing} : Better(o, p) => ~ Better(p, o)
  BY OutcomeScores DEF Better
<1>3. /\ Other(first) \in Engines /\ Other(Other(first)) = first
      /\ Engines = {first, Other(first)} /\ "none" \notin Engines
  BY DEF Other, Engines, IBM, CLASSIQ
<1>4. res[first] \in Outcome \union {Missing} /\ res[Other(first)] \in Outcome \union {Missing}
  BY <1>3 DEF Table
<1>5. /\ Chosen(res, first) \in Selection /\ Chosen(res, Other(first)) \in Selection
      /\ NoSelection \in Selection
  BY <1>3, <1>4 DEF Chosen, NoSelection, Selection
<1>6. CASE Ok(res[first]) /\ ~ (Ok(res[Other(first)]) /\ Better(res[Other(first)], res[first]))
  <2>1. Select(res, first) = Chosen(res, first)
    BY <1>6 DEF Select
  <2> QED
    BY <1>3, <1>5, <1>6, <2>1 DEF Chosen, Other, IBM, CLASSIQ
<1>7. CASE /\ ~ (Ok(res[first]) /\ ~ (Ok(res[Other(first)]) /\ Better(res[Other(first)], res[first])))
           /\ Ok(res[Other(first)])
  <2>1. Select(res, first) = Chosen(res, Other(first))
    BY <1>7 DEF Select
  <2> QED
    BY <1>2, <1>3, <1>4, <1>5, <1>7, <2>1 DEF Chosen
<1>8. CASE ~ Ok(res[first]) /\ ~ Ok(res[Other(first)])
  <2>1. Select(res, first) = NoSelection
    BY <1>8 DEF Select
  <2> QED
    BY <1>3, <1>5, <1>8, <2>1 DEF NoSelection
<1> QED
  BY <1>6, <1>7, <1>8

\* A request that finishes with the selection from its merged dict.
LEMMA FinishFacts ==
  ASSUME NEW r \in Requests, phase'[r] = "done", UNCHANGED <<answer, plan>>,
         First(r) \in Engines, outcomes'[r] \in Table,
         selected'[r] = Select(outcomes'[r], First(r)), MergedOK(r)'
  PROVE  BestSelected(r)' /\ NoneDiscarded(r)'
<1>1. First(r)' = First(r)
  BY DEF First
<1>2. BestSelected(r)'
  BY <1>1, SelectFacts DEF BestSelected
<1>3. NoneDiscarded(r)'
  <2>1. \A e \in Engines : e \in Calls /\ EngineOf(e) = e
    BY DEF Calls, EngineOf, Engines, Derived, IBM, CLASSIQ
  <2>2. \A c \in Calls : EngineOf(c) \in Engines
    BY DEF Calls, EngineOf, Engines
  <2>3. selected'[r].engine = "none" => \A e \in Engines : ~ Ok(outcomes'[r][e])
    BY SelectFacts
  <2> QED
    BY <2>1, <2>2, <2>3 DEF NoneDiscarded, MergedOK
<1> QED
  BY <1>2, <1>3

\* Type correctness of a step that moves request r on.
LEMMA MoveType ==
  ASSUME TypeOK, NEW r \in Requests, NEW ph \in {"secondary", "derived", "done"},
         phase' = [phase EXCEPT ![r] = ph],
         \/ UNCHANGED selected
         \/ \E sel \in Selection : selected' = [selected EXCEPT ![r] = sel],
         \/ UNCHANGED outcomes
         \/ \E res \in Table : outcomes' = [outcomes EXCEPT ![r] = res],
         \/ UNCHANGED why
         \/ \E w \in {"none", "error", "not_applicable", "timeout"} : why' = [why EXCEPT ![r] = w],
         UNCHANGED <<plan, answer>>,
         \/ UNCHANGED pool
         \/ \E c \in Calls : Submit(r, <<c>>)
  PROVE  TypeOK' /\ \A s \in Requests : s # r => Same(s)
<1>1. /\ job' \in [Requests -> [Calls -> {"idle", "queued", "running"}]]
      /\ queue' \in Seq(Requests \X Calls)
      /\ returned' = returned
      /\ \A s \in Requests : s # r => job'[s] = job[s]
  <2>1. \A c \in Calls : <<c>> \in Seq(Calls)
    OBVIOUS
  <2> QED
    BY <2>1, SubmitType DEF TypeOK, pool
<1>2. selected' \in [Requests -> Selection] /\ \A s \in Requests : s # r => selected'[s] = selected[s]
  <2>1. selected \in [Requests -> Selection]
    BY DEF TypeOK, Selection
  <2>2. CASE UNCHANGED selected
    BY <2>1, <2>2
  <2>3. CASE \E sel \in Selection : selected' = [selected EXCEPT ![r] = sel]
    BY <2>1, <2>3
  <2> QED
    BY <2>2, <2>3
<1>3. outcomes' \in [Requests -> Table] /\ \A s \in Requests : s # r => outcomes'[s] = outcomes[s]
  <2>1. outcomes \in [Requests -> Table]
    BY DEF TypeOK, Table
  <2>2. CASE UNCHANGED outcomes
    BY <2>1, <2>2
  <2>3. CASE \E res \in Table : outcomes' = [outcomes EXCEPT ![r] = res]
    BY <2>1, <2>3
  <2> QED
    BY <2>2, <2>3
<1>4. /\ why' \in [Requests -> {"none", "error", "not_applicable", "timeout"}]
      /\ \A s \in Requests : s # r => why'[s] = why[s]
  <2>1. why \in [Requests -> {"none", "error", "not_applicable", "timeout"}]
    BY DEF TypeOK
  <2>2. CASE UNCHANGED why
    BY <2>1, <2>2
  <2>3. CASE \E w \in {"none", "error", "not_applicable", "timeout"} : why' = [why EXCEPT ![r] = w]
    BY <2>1, <2>3
  <2> QED
    BY <2>2, <2>3
<1>5. phase' \in [Requests -> {"new", "primary", "secondary", "derived", "both", "done", "raised"}]
      /\ \A s \in Requests : s # r => phase'[s] = phase[s]
  BY DEF TypeOK
<1>6. TypeOK'
  BY <1>1, <1>2, <1>3, <1>4, <1>5 DEF TypeOK, Selection, Table
<1>7. \A s \in Requests : s # r => Same(s)
  BY <1>1, <1>2, <1>3, <1>4, <1>5 DEF Same
<1> QED
  BY <1>6, <1>7

\* When route goes on, nothing is left in the pool that it waits for.
LEMMA Awaited ==
  ASSUME IInv, NEW r \in Requests, NEW ph, Resumes(r, ph)
  PROVE  \A c \in Calls : /\ ~ Waiting(r, c) /\ returned[r][c] = Missing
                          /\ job[r][c] \in {"idle", "running"}
                          /\ job[r][c] = "running" => answer[r][c] # Missing
<1>1. \A c \in Calls : ~ Waiting(r, c)
  BY DEF Resumes, Waiting
<1>2. \A c \in Calls : job[r][c] \in {"idle", "queued", "running"}
  BY DEF IInv, TypeOK
<1> QED
  BY <1>1, <1>2 DEF IInv, RouteOK, JobsOK, Resumes

LEMMA FinishJobs ==
  ASSUME IInv, NEW r \in Requests, NEW ph, Resumes(r, ph), UNCHANGED pool, answer' = answer
  PROVE  JobsOK(r)'
BY Awaited DEF JobsOK, pool

LEMMA SubmitJobs ==
  ASSUME IInv, NEW r \in Requests, NEW ph, Resumes(r, ph), NEW c \in Calls, Submit(r, <<c>>),
         c \in Asked(r)', answer[r][c] = Missing, answer' = answer
  PROVE  JobsOK(r)'
<1>1. returned' = returned
  BY DEF Submit
<1>2. \A d \in Calls : job'[r][d] = IF d = c THEN "queued" ELSE job[r][d]
  BY SubmitOne DEF IInv
<1> QED
  BY <1>1, <1>2, Awaited DEF JobsOK, Waiting

LEMMA CallNames ==
  /\ IBM \in Engines /\ CLASSIQ \in Engines /\ IBM # CLASSIQ /\ Engines = {IBM, CLASSIQ}
  /\ Derived \in Calls /\ Derived \notin Engines /\ Engines \subseteq Calls
  /\ \A c \in Calls : c \in Engines \/ c = Derived
  /\ "auto" \notin Engines
  /\ \A e \in Engines : Other(e) \in Engines /\ Other(e) # e /\ Engines = {e, Other(e)}
                        /\ Other(Other(e)) = e /\ EngineOf(e) = e
  /\ Other(IBM) = CLASSIQ /\ Other(CLASSIQ) = IBM
  /\ EngineOf(Derived) = IBM
BY DEF Calls, Engines, IBM, CLASSIQ, Derived, Other, EngineOf

\* The dict's entry for an engine the answers of which are typed.
LEMMA EntryType ==
  ASSUME TypeOK, NEW r \in Requests
  PROVE  /\ outcomes[r] \in Table
         /\ \A c \in Calls : answer[r][c] \in Outcome \union {Missing}
         /\ \A e \in Engines, c \in Calls : [outcomes[r] EXCEPT ![e] = answer[r][c]] \in Table
         /\ \A e \in Engines, c \in Calls : [engine |-> e, outcome |-> answer[r][c]] \in Selection
         /\ [e \in Engines |-> answer[r][e]] \in Table
<1>1. outcomes[r] \in Table
  BY DEF TypeOK, Table
<1>2. \A c \in Calls : answer[r][c] \in Outcome \union {Missing}
  BY DEF TypeOK
<1>3. \A e \in Engines, c \in Calls : [outcomes[r] EXCEPT ![e] = answer[r][c]] \in Table
  BY <1>1, <1>2 DEF Table
<1>4. \A e \in Engines, c \in Calls : [engine |-> e, outcome |-> answer[r][c]] \in Selection
  BY <1>2 DEF Selection
<1>5. [e \in Engines |-> answer[r][e]] \in Table
  BY <1>2, CallNames DEF Table
<1> QED
  BY <1>1, <1>2, <1>3, <1>4, <1>5

LEMMA SingleIInv ==
  ASSUME IInv, NEW r \in Requests, SingleReturns(r)
  PROVE  IInv'
<1> DEFINE e == plan[r].primary
           o == answer[r][e]
           res == [outcomes[r] EXCEPT ![e] = o]
<1> USE CallNames
<1>1. /\ phase[r] = "primary" /\ plan[r].mode = "single" /\ e \in Engines /\ o # Missing
      /\ Resumes(r, "primary")
  BY DEF SingleReturns, Resumes, IInv, RouteOK, PlanOK, Asked
<1>2. First(r) = e
  BY <1>1 DEF First
<1>3. /\ \A c \in Calls : c # e => answer[r][c] = Missing
      /\ \A f \in Engines : outcomes[r][f] = Missing
      /\ why[r] = "none" /\ selected[r] = NoSelection
  BY <1>1 DEF IInv, RouteOK, AnswersOK, OutcomesOK
<1>4. /\ res \in Table /\ o \in Outcome \union {Missing}
      /\ outcomes' = [outcomes EXCEPT ![r] = res]
      /\ outcomes'[r] = res /\ res[e] = o /\ res[Other(e)] = Missing
      /\ UNCHANGED <<plan, answer, why>>
  BY <1>1, <1>3, EntryType DEF SingleReturns, Record, IInv, TypeOK, Table
<1>5. CASE e = CLASSIQ /\ Ok(o) /\ plan[r].qmod
  <2>1. /\ phase' = [phase EXCEPT ![r] = "derived"] /\ Submit(r, <<Derived>>) /\ UNCHANGED selected
    BY <1>5 DEF SingleReturns, RunDerived
  <2>2. TypeOK' /\ \A s \in Requests : s # r => Same(s)
    BY <1>4, <2>1, MoveType DEF IInv
  <2>3. phase'[r] = "derived"
    BY <2>1 DEF IInv, TypeOK
  <2>4. JobsOK(r)'
    BY <1>1, <1>3, <1>4, <2>1, <2>3, SubmitJobs DEF Asked
  <2>5. PlanOK(r)' /\ AnswersOK(r)' /\ OutcomesOK(r)'
    <3>1. PlanOK(r)'
      BY <1>1, <1>2, <1>4, <1>5, <2>3 DEF PlanOK, First
    <3>2. AnswersOK(r)'
      BY <1>1, <1>3, <1>4, <1>5, <2>1, <2>3 DEF AnswersOK, IInv, RouteOK, Submit
    <3>3. OutcomesOK(r)'
      BY <1>1, <1>3, <1>4, <1>5, <2>1, <2>3, Awaited DEF OutcomesOK, IInv, RouteOK
    <3> QED
      BY <3>1, <3>2, <3>3
  <2>6. MergedOK(r)' /\ BestSelected(r)' /\ NoneDiscarded(r)' /\ Justified(r)' /\ Reported(r)'
    BY <1>1, <1>4, <2>3 DEF MergedOK, BestSelected, NoneDiscarded, Justified, Reported
  <2> QED
    BY <2>2, <2>4, <2>5, <2>6, OneRequest DEF RouteOK
<1>6. CASE ~ (e = CLASSIQ /\ Ok(o) /\ plan[r].qmod)
  <2>1. /\ phase' = [phase EXCEPT ![r] = "done"] /\ UNCHANGED pool
        /\ selected' = [selected EXCEPT ![r] = Select(res, e)]
    BY <1>6 DEF SingleReturns, Finish
  <2>2. TypeOK' /\ \A s \in Requests : s # r => Same(s)
    BY <1>1, <1>4, <2>1, MoveType, SelectFacts DEF IInv
  <2>3. phase'[r] = "done" /\ selected'[r] = Select(res, e)
    BY <2>1 DEF IInv, TypeOK
  <2>4. JobsOK(r)'
    BY <1>1, <1>4, <2>1, FinishJobs
  <2>5. PlanOK(r)' /\ AnswersOK(r)' /\ OutcomesOK(r)'
    BY <1>1, <1>2, <1>3, <1>4, <2>1, <2>3
       DEF PlanOK, AnswersOK, OutcomesOK, First, IInv, RouteOK, pool
  <2>6. MergedOK(r)'
    BY <1>1, <1>3, <1>4, <2>3, OutcomeFacts DEF MergedOK
  <2>7. BestSelected(r)' /\ NoneDiscarded(r)'
    BY <1>1, <1>2, <1>4, <2>3, <2>6, FinishFacts
  <2>8. Justified(r)' /\ Reported(r)'
    BY <1>1, <1>3, <1>4, <2>3 DEF Justified, Reported
  <2> QED
    BY <2>2, <2>4, <2>5, <2>6, <2>7, <2>8, OneRequest DEF RouteOK
<1> QED
  BY <1>5, <1>6

LEMMA FallbackPrimaryIInv ==
  ASSUME IInv, NEW r \in Requests, FallbackPrimaryReturns(r)
  PROVE  IInv'
<1> DEFINE e == plan[r].primary
           o == answer[r][e]
           res == [outcomes[r] EXCEPT ![e] = o]
<1> USE CallNames
<1>1. /\ phase[r] = "primary" /\ plan[r].mode = "fallback" /\ e \in Engines /\ o # Missing
      /\ Resumes(r, "primary")
  BY DEF FallbackPrimaryReturns, Resumes, IInv, RouteOK, PlanOK, Asked
<1>2. First(r) = e
  BY <1>1 DEF First
<1>3. /\ \A c \in Calls : c # e => answer[r][c] = Missing
      /\ \A f \in Engines : outcomes[r][f] = Missing
      /\ why[r] = "none" /\ selected[r] = NoSelection
  BY <1>1 DEF IInv, RouteOK, AnswersOK, OutcomesOK
<1>4. /\ res \in Table /\ o \in Outcome \union {Missing}
      /\ outcomes' = [outcomes EXCEPT ![r] = res]
      /\ outcomes'[r] = res /\ res[e] = o /\ res[Other(e)] = Missing
      /\ UNCHANGED <<plan, answer, why>>
  BY <1>1, <1>3, EntryType DEF FallbackPrimaryReturns, Record, IInv, TypeOK, Table
<1>5. CASE ~ Ok(o)
  <2>1. /\ phase' = [phase EXCEPT ![r] = "secondary"] /\ Submit(r, <<Other(e)>>)
        /\ UNCHANGED selected
    BY <1>5 DEF FallbackPrimaryReturns
  <2>2. TypeOK' /\ \A s \in Requests : s # r => Same(s)
    BY <1>1, <1>4, <2>1, MoveType DEF IInv
  <2>3. phase'[r] = "secondary"
    BY <2>1 DEF IInv, TypeOK
  <2>4. JobsOK(r)'
    <3>1. Other(e) \in Asked(r)'
      BY <1>1, <1>4, <2>3 DEF Asked
    <3> QED
      BY <1>1, <1>3, <1>4, <2>1, <3>1, SubmitJobs
  <2>5. PlanOK(r)' /\ AnswersOK(r)' /\ OutcomesOK(r)'
    BY <1>1, <1>2, <1>3, <1>4, <1>5, <2>1, <2>3
       DEF PlanOK, AnswersOK, OutcomesOK, First, IInv, RouteOK, Submit, Failed
  <2>6. MergedOK(r)' /\ BestSelected(r)' /\ NoneDiscarded(r)' /\ Justified(r)' /\ Reported(r)'
    BY <1>1, <1>4, <1>5, <2>3 DEF MergedOK, BestSelected, NoneDiscarded, Justified, Reported
  <2> QED
    BY <2>2, <2>4, <2>5, <2>6, OneRequest DEF RouteOK
<1>6. CASE Ok(o)
  <2>1. /\ phase' = [phase EXCEPT ![r] = "done"] /\ UNCHANGED pool
        /\ selected' = [selected EXCEPT ![r] = [engine |-> e, outcome |-> o]]
    BY <1>6 DEF FallbackPrimaryReturns, Finish
  <2>2. TypeOK' /\ \A s \in Requests : s # r => Same(s)
    BY <1>1, <1>4, <2>1, MoveType, EntryType DEF IInv
  <2>3. phase'[r] = "done" /\ selected'[r] = Select(res, e)
    BY <1>1, <1>4, <1>6, <2>1, OutcomeFacts DEF IInv, TypeOK, Select, Chosen
  <2>4. JobsOK(r)'
    BY <1>1, <1>4, <2>1, FinishJobs
  <2>5. PlanOK(r)' /\ AnswersOK(r)' /\ OutcomesOK(r)'
    BY <1>1, <1>2, <1>3, <1>4, <2>1, <2>3
       DEF PlanOK, AnswersOK, OutcomesOK, First, IInv, RouteOK, pool
  <2>6. MergedOK(r)'
    BY <1>1, <1>3, <1>4, <2>3, OutcomeFacts DEF MergedOK
  <2>7. BestSelected(r)' /\ NoneDiscarded(r)'
    BY <1>1, <1>2, <1>4, <2>3, <2>6, FinishFacts
  <2>8. Reported(r)'
    BY <1>1, <1>3, <1>4, <2>3 DEF Reported
  <2>9. Justified(r)'
    <3>1. job[r][Other(e)] = "idle"
      BY <1>1, <1>3, Awaited
    <3> QED
      BY <1>1, <1>3, <1>4, <2>1, <2>3, <3>1, OutcomeFacts DEF Justified, pool
  <2> QED
    BY <2>2, <2>4, <2>5, <2>6, <2>7, <2>8, <2>9, OneRequest DEF RouteOK
<1> QED
  BY <1>5, <1>6

LEMMA FallbackSecondaryIInv ==
  ASSUME IInv, NEW r \in Requests, FallbackSecondaryReturns(r)
  PROVE  IInv'
<1> DEFINE p == plan[r].primary
           e == Other(p)
           o == answer[r][e]
           res == [outcomes[r] EXCEPT ![e] = o]
<1> USE CallNames
<1>1. /\ phase[r] = "secondary" /\ plan[r].mode = "fallback" /\ p \in Engines /\ o # Missing
      /\ e \in Engines /\ e # p /\ Other(e) = p /\ Engines = {p, e}
      /\ Resumes(r, "secondary")
  BY DEF FallbackSecondaryReturns, Resumes, IInv, RouteOK, PlanOK, Asked
<1>2. First(r) = p
  BY <1>1 DEF First
<1>3. /\ Failed(answer[r][p]) /\ outcomes[r][p] = answer[r][p] /\ outcomes[r][e] = Missing
      /\ answer[r][Derived] = Missing
      /\ why[r] = "none" /\ selected[r] = NoSelection
  BY <1>1 DEF IInv, RouteOK, AnswersOK, OutcomesOK
<1>4. /\ res \in Table /\ o \in Outcome \union {Missing}
      /\ outcomes' = [outcomes EXCEPT ![r] = res]
      /\ outcomes'[r] = res /\ res[e] = o /\ res[p] = answer[r][p]
      /\ UNCHANGED <<plan, answer>>
  BY <1>1, <1>3, EntryType DEF FallbackSecondaryReturns, Record, IInv, TypeOK, Table
<1>5. /\ why'[r] = IF Ok(o) THEN answer[r][p].status ELSE "none"
      /\ UNCHANGED why
           \/ \E w \in {"none", "error", "not_applicable", "timeout"} : why' = [why EXCEPT ![r] = w]
  <2>1. why' = [why EXCEPT ![r] = IF Ok(o) THEN answer[r][p].status ELSE "none"]
    BY <1>3 DEF FallbackSecondaryReturns, FallbackReason
  <2>2. answer[r][p].status \in {"none", "error", "not_applicable", "timeout"}
    <3>1. answer[r][p] \in Outcome
      <4>1. p \in Calls
        BY <1>1
      <4>2. answer[r][p] \in Outcome \union {Missing}
        BY <4>1 DEF IInv, TypeOK
      <4> QED
        BY <1>3, <4>2 DEF Failed
    <3> QED
      BY <1>3, <3>1, OutcomeFacts DEF Failed, Ok
  <2>3. (IF Ok(o) THEN answer[r][p].status ELSE "none")
          \in {"none", "error", "not_applicable", "timeout"}
    BY <2>2
  <2>4. why'[r] = IF Ok(o) THEN answer[r][p].status ELSE "none"
    BY <2>1 DEF IInv, TypeOK
  <2> QED
    BY <2>1, <2>3, <2>4
<1>6. CASE Ok(o) /\ e = CLASSIQ /\ plan[r].qmod
  <2>1. /\ phase' = [phase EXCEPT ![r] = "derived"] /\ Submit(r, <<Derived>>) /\ UNCHANGED selected
    BY <1>6 DEF FallbackSecondaryReturns, RunDerived
  <2>2. TypeOK' /\ \A s \in Requests : s # r => Same(s)
    BY <1>4, <1>5, <2>1, MoveType DEF IInv
  <2>3. phase'[r] = "derived"
    BY <2>1 DEF IInv, TypeOK
  <2>4. JobsOK(r)'
    BY <1>1, <1>3, <1>4, <2>1, <2>3, SubmitJobs DEF Asked
  <2>5. PlanOK(r)' /\ AnswersOK(r)' /\ OutcomesOK(r)'
    BY <1>1, <1>2, <1>3, <1>4, <1>5, <1>6, <2>1, <2>3
       DEF PlanOK, AnswersOK, OutcomesOK, First, IInv, RouteOK, Submit
  <2>6. MergedOK(r)' /\ BestSelected(r)' /\ NoneDiscarded(r)' /\ Justified(r)' /\ Reported(r)'
    BY <1>1, <1>3, <1>4, <2>3
       DEF MergedOK, BestSelected, NoneDiscarded, Justified, Reported, Failed
  <2> QED
    BY <2>2, <2>4, <2>5, <2>6, OneRequest DEF RouteOK
<1>7. CASE ~ (Ok(o) /\ e = CLASSIQ /\ plan[r].qmod)
  <2>1. /\ phase' = [phase EXCEPT ![r] = "done"] /\ UNCHANGED pool
        /\ selected' = [selected EXCEPT ![r] = IF Ok(o) THEN [engine |-> e, outcome |-> o]
                                                       ELSE NoSelection]
    BY <1>7 DEF FallbackSecondaryReturns, Finish
  <2>a. Select(res, p) = IF Ok(o) THEN [engine |-> e, outcome |-> o] ELSE NoSelection
    BY <1>1, <1>3, <1>4 DEF Select, Chosen, Failed
  <2>2. TypeOK' /\ \A s \in Requests : s # r => Same(s)
    <3>1. Select(res, p) \in Selection
      BY <1>1, <1>4, SelectFacts
    <3>2. selected' = [selected EXCEPT ![r] = Select(res, p)]
      BY <2>1, <2>a
    <3>3. \E sel \in Selection : selected' = [selected EXCEPT ![r] = sel]
      BY <3>1, <3>2
    <3>4. \E t \in Table : outcomes' = [outcomes EXCEPT ![r] = t]
      BY <1>4
    <3>5. UNCHANGED <<plan, answer>> /\ TypeOK
      BY <1>4 DEF IInv
    <3> HIDE DEF p, e, o, res
    <3> QED
      BY <1>5, <2>1, <3>3, <3>4, <3>5, MoveType
  <2>3. phase'[r] = "done" /\ selected'[r] = Select(res, p)
    BY <2>1, <2>a DEF IInv, TypeOK
  <2>4. JobsOK(r)'
    BY <1>1, <1>4, <2>1, FinishJobs
  <2>5. PlanOK(r)' /\ AnswersOK(r)' /\ OutcomesOK(r)'
    <3>1. PlanOK(r)'
      BY <1>1, <1>2, <1>4, <2>3 DEF PlanOK, First
    <3>2. AnswersOK(r)'
      <4>1. plan[r].qmod => ~ Ok(answer[r][IBM]) /\ ~ Ok(returned[r][IBM])
        BY DEF AnswersOK, IInv, RouteOK
      <4>2. returned'[r] = returned[r] /\ answer'[r] = answer[r] /\ plan'[r] = plan[r]
        BY <1>4, <2>1 DEF pool
      <4> QED
        BY <2>3, <4>1, <4>2 DEF AnswersOK
    <3>3. OutcomesOK(r)'
      BY <1>1, <1>4, <2>3 DEF OutcomesOK
    <3> QED
      BY <3>1, <3>2, <3>3
  <2>6. MergedOK(r)'
    <3>1. answer'[r] = answer[r] /\ outcomes'[r][e] = answer[r][e] /\ outcomes'[r][p] = answer[r][p]
          /\ ~ Ok(answer[r][Derived])
      BY <1>3, <1>4, OutcomeFacts
    <3>2. EngineOf(e) = e /\ EngineOf(p) = p /\ Calls = {e, p, Derived} /\ Engines = {e, p}
      BY <1>1 DEF Calls
    <3> HIDE DEF e, p
    <3> QED
      BY <3>1, <3>2 DEF MergedOK
  <2>7. BestSelected(r)' /\ NoneDiscarded(r)'
    BY <1>1, <1>2, <1>4, <2>3, <2>6, FinishFacts
  <2>8. Justified(r)' /\ Reported(r)'
    BY <1>1, <1>3, <1>4, <1>5, <2>3 DEF Justified, Reported, Failed
  <2> QED
    BY <2>2, <2>4, <2>5, <2>6, <2>7, <2>8, OneRequest DEF RouteOK
<1> QED
  BY <1>6, <1>7

LEMMA ParallelIInv ==
  ASSUME IInv, NEW r \in Requests, ParallelReturns(r)
  PROVE  IInv'
<1> DEFINE res == [e \in Engines |-> answer[r][e]]
<1> USE CallNames
<1>1. /\ phase[r] = "both" /\ plan[r].mode = "parallel" /\ Resumes(r, "both")
      /\ \A e \in Engines : answer[r][e] # Missing
      /\ First(r) = IBM
  BY DEF ParallelReturns, Resumes, IInv, RouteOK, PlanOK, Asked, First
<1>2. /\ answer[r][Derived] = Missing
      /\ why[r] = "none" /\ selected[r] = NoSelection
      /\ plan[r].qmod => ~ Ok(answer[r][IBM]) /\ ~ Ok(returned[r][IBM])
  BY <1>1 DEF IInv, RouteOK, AnswersOK, OutcomesOK
<1>3. /\ res \in Table
      /\ outcomes' = [outcomes EXCEPT ![r] = res]
      /\ outcomes'[r] = res /\ \A e \in Engines : res[e] = answer[r][e]
      /\ UNCHANGED <<plan, answer, why>>
  <2>1. res \in Table
    BY EntryType DEF IInv
  <2>2. outcomes' = [outcomes EXCEPT ![r] = res]
    BY DEF ParallelReturns
  <2> QED
    BY <2>1, <2>2 DEF ParallelReturns, IInv, TypeOK
<1>4. CASE plan[r].qmod /\ Ok(res[CLASSIQ])
  <2>1. /\ phase' = [phase EXCEPT ![r] = "derived"] /\ Submit(r, <<Derived>>) /\ UNCHANGED selected
    BY <1>4 DEF ParallelReturns, RunDerived
  <2>2. TypeOK' /\ \A s \in Requests : s # r => Same(s)
    BY <1>3, <2>1, MoveType DEF IInv
  <2>3. phase'[r] = "derived"
    BY <2>1 DEF IInv, TypeOK
  <2>4. JobsOK(r)'
    BY <1>1, <1>2, <1>3, <2>1, <2>3, SubmitJobs DEF Asked
  <2>5. PlanOK(r)' /\ AnswersOK(r)' /\ OutcomesOK(r)'
    BY <1>1, <1>2, <1>3, <1>4, <2>1, <2>3 DEF PlanOK, AnswersOK, OutcomesOK, First, Submit
  <2>6. MergedOK(r)' /\ BestSelected(r)' /\ NoneDiscarded(r)' /\ Justified(r)' /\ Reported(r)'
    BY <1>1, <1>3, <2>3 DEF MergedOK, BestSelected, NoneDiscarded, Justified, Reported
  <2> QED
    BY <2>2, <2>4, <2>5, <2>6, OneRequest DEF RouteOK
<1>5. CASE ~ (plan[r].qmod /\ Ok(res[CLASSIQ]))
  <2>1. /\ phase' = [phase EXCEPT ![r] = "done"] /\ UNCHANGED pool
        /\ selected' = [selected EXCEPT ![r] = Select(res, IBM)]
    BY <1>5 DEF ParallelReturns, Finish
  <2>2. TypeOK' /\ \A s \in Requests : s # r => Same(s)
    <3>1. Select(res, IBM) \in Selection
      BY <1>3, SelectFacts
    <3> QED
      BY <1>3, <2>1, <3>1, MoveType DEF IInv
  <2>3. phase'[r] = "done" /\ selected'[r] = Select(res, IBM)
    BY <2>1 DEF IInv, TypeOK
  <2>4. JobsOK(r)'
    BY <1>1, <1>3, <2>1, FinishJobs
  <2>5. PlanOK(r)' /\ AnswersOK(r)' /\ OutcomesOK(r)'
    BY <1>1, <1>2, <1>3, <2>1, <2>3 DEF PlanOK, AnswersOK, OutcomesOK, First, pool
  <2>6. MergedOK(r)'
    BY <1>2, <1>3, <2>3, OutcomeFacts DEF MergedOK
  <2>7. BestSelected(r)' /\ NoneDiscarded(r)'
    BY <1>1, <1>3, <2>3, <2>6, FinishFacts
  <2>8. Justified(r)' /\ Reported(r)'
    BY <1>1, <1>2, <1>3, <2>3 DEF Justified, Reported
  <2> QED
    BY <2>2, <2>4, <2>5, <2>6, <2>7, <2>8, OneRequest DEF RouteOK
<1> QED
  BY <1>4, <1>5

LEMMA DerivedIInv ==
  ASSUME IInv, NEW r \in Requests, DerivedReturns(r)
  PROVE  IInv'
<1> DEFINE o   == answer[r][Derived]
           res == IF KeepsClassiq(r, o) THEN outcomes[r] ELSE [outcomes[r] EXCEPT ![IBM] = o]
<1> USE CallNames
<1>1. /\ phase[r] = "derived" /\ plan[r].qmod /\ o # Missing /\ First(r) \in Engines
      /\ Resumes(r, "derived")
  BY DEF DerivedReturns, Resumes, IInv, RouteOK, PlanOK, Asked
<1>2. /\ Ok(answer[r][CLASSIQ]) /\ ~ Ok(answer[r][IBM]) /\ ~ Ok(returned[r][IBM])
      /\ \A e \in Engines : outcomes[r][e] = answer[r][e]
      /\ plan[r].mode = "fallback" =>
           /\ plan[r].primary = IBM /\ Failed(answer[r][IBM])
           /\ why[r] = answer[r][IBM].status
      /\ plan[r].mode # "fallback" => why[r] = "none"
  BY <1>1 DEF IInv, RouteOK, AnswersOK, OutcomesOK
<1>3. /\ res \in Table /\ UNCHANGED <<plan, answer, why>>
      /\ outcomes'[r] = res /\ res[CLASSIQ] = answer[r][CLASSIQ]
      /\ res[IBM] = IF KeepsClassiq(r, o) THEN answer[r][IBM] ELSE o
      /\ UNCHANGED outcomes \/ outcomes' = [outcomes EXCEPT ![r] = res]
  <2>1. CASE KeepsClassiq(r, o)
    BY <1>2, <2>1, EntryType DEF DerivedReturns, IInv
  <2>2. CASE ~ KeepsClassiq(r, o)
    <3>1. res = [outcomes[r] EXCEPT ![IBM] = o] /\ outcomes' = [outcomes EXCEPT ![r] = res]
      BY <2>2 DEF DerivedReturns
    <3>2. res \in Table
      BY <3>1, EntryType DEF IInv
    <3>3. outcomes[r] \in Table
      BY EntryType DEF IInv
    <3> QED
      BY <1>2, <2>2, <3>1, <3>2, <3>3 DEF DerivedReturns, IInv, TypeOK, Table
  <2> QED
    BY <2>1, <2>2
<1>4. Select(res, First(r)) = IF KeepsClassiq(r, o) THEN Chosen(outcomes[r], CLASSIQ)
                                                   ELSE Select(res, First(r))
  BY <1>1, <1>2, <1>3 DEF Select, KeepsClassiq, First, Chosen
<1>5. /\ phase' = [phase EXCEPT ![r] = "done"] /\ UNCHANGED pool
      /\ selected' = [selected EXCEPT ![r] = Select(res, First(r))]
  BY <1>4 DEF DerivedReturns, Finish
<1>6. TypeOK' /\ \A s \in Requests : s # r => Same(s)
  <2>1. Select(res, First(r)) \in Selection
    BY <1>1, <1>3, SelectFacts
  <2>2. \E sel \in Selection : selected' = [selected EXCEPT ![r] = sel]
    BY <1>5, <2>1
  <2>3. UNCHANGED outcomes \/ \E t \in Table : outcomes' = [outcomes EXCEPT ![r] = t]
    BY <1>3
  <2>4. UNCHANGED <<plan, answer>> /\ UNCHANGED why
    BY <1>3
  <2> HIDE DEF res
  <2> QED
    BY <1>5, <2>2, <2>3, <2>4, MoveType DEF IInv
<1>7. phase'[r] = "done" /\ selected'[r] = Select(res, First(r))
  BY <1>5 DEF IInv, TypeOK
<1>8. JobsOK(r)'
  BY <1>1, <1>3, <1>5, FinishJobs
<1>9. PlanOK(r)' /\ AnswersOK(r)' /\ OutcomesOK(r)'
  BY <1>1, <1>2, <1>3, <1>5, <1>7 DEF PlanOK, AnswersOK, OutcomesOK, First, pool
<1>10. MergedOK(r)'
  BY <1>2, <1>3, <1>7, OutcomeFacts DEF MergedOK, KeepsClassiq
<1>11. BestSelected(r)' /\ NoneDiscarded(r)'
  BY <1>1, <1>3, <1>7, <1>10, FinishFacts
<1>12. Justified(r)' /\ Reported(r)'
  BY <1>1, <1>2, <1>3, <1>7, OutcomeFacts DEF Justified, Reported, Failed, KeepsClassiq
<1> QED
  BY <1>6, <1>8, <1>9, <1>10, <1>11, <1>12, OneRequest DEF RouteOK

-----------------------------------------------------------------------------
(* The theorems *)

LEMMA StutterIInv == IInv /\ UNCHANGED vars => IInv'
<1> SUFFICES ASSUME IInv, UNCHANGED vars PROVE IInv'
  OBVIOUS
<1>1. TypeOK'
  BY DEF IInv, TypeOK, vars
<1>2. ASSUME NEW s \in Requests PROVE RouteOK(s)'
  BY Frame DEF IInv, Same, vars
<1> QED
  BY <1>1, <1>2 DEF IInv

\* The inductive invariant holds in every reachable state.
THEOREM Invariance == Spec => []IInv
<1>1. IInv /\ [Next]_vars => IInv'
  <2> SUFFICES ASSUME IInv, [Next]_vars PROVE IInv'
    OBVIOUS
  <2>1. ASSUME NEW r \in Requests, Start(r) \/ Resume(r) PROVE IInv'
    BY <2>1, StartIInv, SingleIInv, FallbackPrimaryIInv, FallbackSecondaryIInv, ParallelIInv,
       DerivedIInv DEF Resume
  <2>2. ASSUME NEW r \in Requests, NEW c \in Calls,
               Answered(r, c) \/ TimedOut(r, c) \/ ThreadReturns(r, c)
        PROVE IInv'
    BY <2>2, CallIInv
  <2> QED
    BY <2>1, <2>2, ThreadTakesIInv, StutterIInv DEF Next
<1> QED
  BY <1>1, InitIInv, PTL DEF Spec

\* Every variable of the router keeps its type.
THEOREM TypeCorrect == Spec => []TypeOK
<1>1. IInv => TypeOK
  BY DEF IInv
<1> QED
  BY <1>1, Invariance, PTL

\* The reply is the best of the results in the request's table of results.
THEOREM SelectionBest == Spec => []SelectedIsBest
<1>1. IInv => SelectedIsBest
  BY DEF IInv, RouteOK, SelectedIsBest
<1> QED
  BY <1>1, Invariance, PTL

\* A request whose engines gave a result in time does not fail.
THEOREM SuccessKept == Spec => []NoSuccessDiscarded
<1>1. IInv => NoSuccessDiscarded
  BY DEF IInv, RouteOK, NoSuccessDiscarded
<1> QED
  BY <1>1, Invariance, PTL

\* The second engine is called, and its result explained, by the primary's failure.
THEOREM FallbackReasoned == Spec => []FallbackIsJustified
<1>1. IInv => FallbackIsJustified
  BY DEF IInv, RouteOK, FallbackIsJustified
<1> QED
  BY <1>1, Invariance, PTL

\* The table of results has an entry for exactly the engines that were called.
THEOREM EnginesAccounted == Spec => []EnginesReported
<1>1. IInv => EnginesReported
  BY DEF IInv, RouteOK, EnginesReported
<1> QED
  BY <1>1, Invariance, PTL

\* A job whose caller gave up before a thread took it never runs.
THEOREM AbandonedNeverStart == Spec => NoAbandonedStart
<1> DEFINE A == \A r \in Requests, c \in Calls :
                  job[r][c] # "running" /\ job'[r][c] = "running" => Waiting(r, c)
<1>1. IInv /\ [Next]_vars => A
  <2> SUFFICES ASSUME IInv, Next, NEW r \in Requests, NEW c \in Calls,
                      job[r][c] # "running", job'[r][c] = "running"
               PROVE  Waiting(r, c)
    BY DEF vars
  <2>1. job \in [Requests -> [Calls -> {"idle", "queued", "running"}]]
    BY DEF IInv, TypeOK
  <2>2. job[r][c] = "queued" => Waiting(r, c)
    BY DEF IInv, RouteOK, JobsOK
  <2>3. \A s \in Requests : \A calls : Submit(s, calls) => job'[r][c] \in {"queued", job[r][c]}
    BY <2>1 DEF Submit
  <2>4. ASSUME NEW s \in Requests, Start(s) \/ Resume(s) PROVE job'[r][c] \in {"queued", job[r][c]}
    BY <2>3, <2>4 DEF Start, Resume, SingleReturns, FallbackPrimaryReturns,
       FallbackSecondaryReturns, ParallelReturns, DerivedReturns, Finish, RunDerived, pool
  <2>5. ASSUME NEW s \in Requests, NEW d \in Calls,
               Answered(s, d) \/ TimedOut(s, d) \/ ThreadReturns(s, d)
        PROVE  job'[r][c] \in {"idle", job[r][c]}
    BY <2>1, <2>5 DEF Answered, TimedOut, ThreadReturns, Cancel
  <2>6. CASE ThreadTakes
    <3>1. PICK k \in Requests \X Calls : Head(queue) = k
      BY <2>6 DEF ThreadTakes, IInv, TypeOK
    <3>2. job' = [job EXCEPT ![k[1]][k[2]] = IF @ = "queued" THEN "running" ELSE @]
      BY <2>6, <3>1 DEF ThreadTakes
    <3> QED
      BY <2>1, <2>2, <3>2
  <2> QED
    BY <2>4, <2>5, <2>6 DEF Next
<1> QED
  BY <1>1, Invariance, PTL DEF Spec, NoAbandonedStart

-----------------------------------------------------------------------------
(* The steps that a request has left *)

LEMMA CallSets ==
  ASSUME NEW S \in SUBSET Calls
  PROVE  /\ Cardinality(S) \in Nat
         /\ S = {} => Cardinality(S) = 0
         /\ \A x : S \subseteq {x} => Cardinality(S) <= 1
         /\ S \subseteq Engines => Cardinality(S) <= 2
         /\ \A c \in S : Cardinality(S \ {c}) < Cardinality(S)
<1>1. \A x : IsFiniteSet({x}) /\ Cardinality({x}) = 1
  BY FS_Singleton
<1>2. IsFiniteSet(Engines) /\ Cardinality(Engines) = 2
  <2>1. Engines = {IBM} \union {CLASSIQ} /\ CLASSIQ \notin {IBM}
    BY DEF Engines, IBM, CLASSIQ
  <2>2. IsFiniteSet({IBM}) /\ Cardinality({IBM}) = 1
    BY <1>1
  <2>3. /\ IsFiniteSet({IBM} \union {CLASSIQ})
        /\ Cardinality({IBM} \union {CLASSIQ})
             = IF CLASSIQ \in {IBM} THEN Cardinality({IBM}) ELSE Cardinality({IBM}) + 1
    BY <2>2, FS_AddElement, Zenon
  <2> QED
    BY <2>1, <2>2, <2>3
<1>3. IsFiniteSet(Calls)
  <2>1. IsFiniteSet(Engines \union {Derived})
    BY <1>2, FS_AddElement
  <2> QED
    BY <2>1 DEF Calls
<1>4. IsFiniteSet(S)
  BY <1>3, FS_Subset
<1>5. S = {} => Cardinality(S) = 0
  BY FS_EmptySet
<1>6. ASSUME NEW c \in S PROVE Cardinality(S \ {c}) = Cardinality(S) - 1
  BY <1>4, FS_RemoveElement
<1>7. Cardinality(S) \in Nat
  BY <1>4, FS_CardinalityType
<1>8. ASSUME NEW x, S \subseteq {x} PROVE Cardinality(S) <= 1
  <2>1. S \in SUBSET {x} /\ IsFiniteSet({x}) /\ Cardinality({x}) = 1
    BY <1>1, <1>8
  <2>2. Cardinality(S) <= Cardinality({x})
    BY <2>1, FS_Subset
  <2> QED
    BY <2>1, <2>2
<1>9. S \subseteq Engines => Cardinality(S) <= 2
  BY <1>2, FS_Subset
<1> QED
  BY <1>5, <1>6, <1>7, <1>8, <1>9

\* What is left to a request at each of its awaits.
LeftAt(r) ==
  /\ Waits(r) \in Nat
  /\ phase[r] \in {"primary", "secondary", "derived"} => Waits(r) <= 1
  /\ phase[r] = "both" => Waits(r) <= 2

LEMMA LeftAtAwaits == ASSUME NEW r PROVE LeftAt(r) /\ LeftAt(r)'
<1> DEFINE S == {c \in Calls : Waiting(r, c)}
<1>1. /\ phase[r] \in {"primary", "secondary", "derived"} => \E x : S \subseteq {x}
      /\ phase[r] = "both" => S \subseteq Engines
  BY DEF Waiting, Asked
<1>2. /\ phase'[r] \in {"primary", "secondary", "derived"} => \E x : S' \subseteq {x}
      /\ phase'[r] = "both" => S' \subseteq Engines
  BY DEF Waiting, Asked
<1>3. S \in SUBSET Calls /\ S' \in SUBSET Calls
  OBVIOUS
<1>4. Waits(r) = Cardinality(S) /\ Waits(r)' = Cardinality(S')
  BY DEF Waits
<1> HIDE DEF S
<1>5. LeftAt(r)
  BY <1>1, <1>3, <1>4, CallSets DEF LeftAt
<1>6. LeftAt(r)'
  BY <1>2, <1>3, <1>4, CallSets DEF LeftAt
<1> QED
  BY <1>5, <1>6

\* The code that follows an await leads to a later one, or to the end.
LEMMA ResumeNearer ==
  ASSUME IInv, NEW r \in Requests, Start(r) \/ Resume(r)
  PROVE  Left(r)' < Left(r)
<1>1. LeftAt(r) /\ LeftAt(r)'
  BY LeftAtAwaits
<1>2. phase \in [Requests -> {"new", "primary", "secondary", "derived", "both", "done", "raised"}]
  BY DEF IInv, TypeOK
<1>3. CASE Start(r)
  <2>1. phase[r] = "new" /\ phase'[r] \in {"both", "primary", "raised"}
    BY <1>2, <1>3 DEF Start
  <2> QED
    BY <1>1, <2>1 DEF Left, LeftAt
<1>4. CASE SingleReturns(r)
  <2>1. /\ phase[r] = "primary" /\ plan[r].mode = "single"
        /\ phase'[r] \in {"derived", "done"}
    BY <1>2, <1>4 DEF SingleReturns, Resumes, RunDerived, Finish
  <2> QED
    BY <1>1, <2>1 DEF Left, LeftAt
<1>5. CASE FallbackPrimaryReturns(r)
  <2>1. /\ phase[r] = "primary" /\ plan[r].mode = "fallback"
        /\ phase'[r] \in {"secondary", "done"}
    BY <1>2, <1>5 DEF FallbackPrimaryReturns, Resumes, Finish
  <2> QED
    BY <1>1, <2>1 DEF Left, LeftAt
<1>6. CASE FallbackSecondaryReturns(r)
  <2>1. phase[r] = "secondary" /\ phase'[r] \in {"derived", "done"}
    BY <1>2, <1>6 DEF FallbackSecondaryReturns, Resumes, RunDerived, Finish
  <2> QED
    BY <1>1, <2>1 DEF Left, LeftAt
<1>7. CASE ParallelReturns(r)
  <2>1. phase[r] = "both" /\ phase'[r] \in {"derived", "done"}
    BY <1>2, <1>7 DEF ParallelReturns, Resumes, RunDerived, Finish
  <2> QED
    BY <1>1, <2>1 DEF Left, LeftAt
<1>8. CASE DerivedReturns(r)
  <2>1. phase[r] = "derived" /\ phase'[r] = "done"
    BY <1>2, <1>8 DEF DerivedReturns, Resumes, Finish
  <2> QED
    BY <1>1, <2>1 DEF Left, LeftAt
<1> QED
  BY <1>3, <1>4, <1>5, <1>6, <1>7, <1>8 DEF Resume

\* An answer or a timeout ends one of the waits.
LEMMA AnswerNearer ==
  ASSUME IInv, NEW r \in Requests, NEW c \in Calls, Answered(r, c) \/ TimedOut(r, c)
  PROVE  Left(r)' < Left(r)
<1> DEFINE S == {d \in Calls : Waiting(r, d)}
<1>1. /\ UNCHANGED <<phase, plan>> /\ Waiting(r, c)
      /\ answer'[r][c] # Missing
      /\ \A d \in Calls : d # c => answer'[r][d] = answer[r][d]
  <2>1. CASE Answered(r, c)
    BY <2>1 DEF Answered, IInv, TypeOK
  <2>2. CASE TimedOut(r, c)
    BY <2>2, OutcomeFacts DEF TimedOut, IInv, TypeOK
  <2> QED
    BY <2>1, <2>2
<1>2. S' = S \ {c} /\ c \in S /\ S \in SUBSET Calls
  BY <1>1 DEF Waiting, Asked
<1>3. Waits(r) = Cardinality(S) /\ Waits(r)' = Cardinality(S')
  BY DEF Waits
<1> HIDE DEF S
<1>4. Waits(r)' < Waits(r)
  BY <1>2, <1>3, CallSets
<1>5. Waits(r) \in Nat /\ Waits(r)' \in Nat
  BY LeftAtAwaits DEF LeftAt
<1>6. phase[r] \in {"primary", "secondary", "both", "derived"}
  BY <1>1 DEF Waiting, Asked
<1> QED
  BY <1>1, <1>4, <1>5, <1>6 DEF Left

\* What is left to a request depends on its own part of the state.
LEMMA SameLeft ==
  ASSUME NEW s, phase'[s] = phase[s], plan'[s] = plan[s], answer'[s] = answer[s]
  PROVE  Left(s)' = Left(s)
BY DEF Left, Waits, Waiting, Asked

LEMMA LeftNat == ASSUME NEW r \in Requests PROVE Left(r) \in Nat
BY LeftAtAwaits DEF LeftAt, Left

\* Every step of a request brings its answer nearer, and no step of another
\* request or of a thread takes it further away.
THEOREM AnswerNears == Spec => StepsToAnswer
<1> DEFINE Nearer(r) == /\ phase'[r] # phase[r] \/ answer'[r] # answer[r] => Left(r)' < Left(r)
                        /\ Left(r)' <= Left(r)
<1>1. IInv /\ [Next]_vars => (\A r \in Requests : Nearer(r)) \/ UNCHANGED vars
  <2> SUFFICES ASSUME IInv, Next, NEW r \in Requests PROVE Nearer(r)
    OBVIOUS
  <2>1. Left(r) \in Nat
    BY LeftNat
  <2>2. CASE \E s \in Requests : Start(s) \/ Resume(s)
    <3>1. PICK s \in Requests : Start(s) \/ Resume(s)
      BY <2>2
    <3>2. CASE s = r
      <4>1. Left(r)' < Left(r) /\ Left(r)' \in Nat
        BY <3>1, <3>2, ResumeNearer, LeftAtAwaits DEF LeftAt, Left
      <4> QED
        BY <2>1, <4>1
    <3>3. CASE s # r
      <4>1. phase'[r] = phase[r] /\ plan'[r] = plan[r] /\ answer'[r] = answer[r]
        BY <3>1, <3>3 DEF Start, Resume, SingleReturns, FallbackPrimaryReturns,
           FallbackSecondaryReturns, ParallelReturns, DerivedReturns, Finish, RunDerived,
           IInv, TypeOK
      <4> QED
        BY <2>1, <4>1, SameLeft
    <3> QED
      BY <3>2, <3>3
  <2>3. CASE \E s \in Requests, c \in Calls : Answered(s, c) \/ TimedOut(s, c)
    <3>1. PICK s \in Requests, c \in Calls : Answered(s, c) \/ TimedOut(s, c)
      BY <2>3
    <3>2. CASE s = r
      <4>1. Left(r)' < Left(r) /\ Left(r)' \in Nat
        BY <3>1, <3>2, AnswerNearer, LeftAtAwaits DEF LeftAt, Left
      <4> QED
        BY <2>1, <4>1
    <3>3. CASE s # r
      <4>1. phase'[r] = phase[r] /\ plan'[r] = plan[r] /\ answer'[r] = answer[r]
        BY <3>1, <3>3 DEF Answered, TimedOut, IInv, TypeOK
      <4> QED
        BY <2>1, <4>1, SameLeft
    <3> QED
      BY <3>2, <3>3
  <2>4. CASE ThreadTakes \/ \E s \in Requests, c \in Calls : ThreadReturns(s, c)
    <3>1. phase'[r] = phase[r] /\ plan'[r] = plan[r] /\ answer'[r] = answer[r]
      BY <2>4 DEF ThreadTakes, ThreadReturns
    <3> QED
      BY <2>1, <3>1, SameLeft
  <2> QED
    BY <2>2, <2>3, <2>4 DEF Next
<1> QED
  BY <1>1, Invariance, PTL DEF Spec, StepsToAnswer

-----------------------------------------------------------------------------
(* The refinement *)

LEMMA AbstractInit == Init => Abstract!AInit
<1> SUFFICES ASSUME Init PROVE Abstract!AInit
  OBVIOUS
<1>1. \A r \in Requests : AStage(r) = "idle" /\ AGathered(r) = {} /\ AReply(r) = Abstract!NoResult
  BY OutcomeFacts DEF Init, AStage, AGathered, AReply, Stage, NoSelection, Abstract!NoResult
<1> QED
  BY <1>1 DEF Abstract!AInit

\* A step that changes neither the stage, the successes nor the reply stutters.
LEMMA AbstractStutter ==
  ASSUME \A r \in Requests : AStage(r)' = AStage(r) /\ AGathered(r)' = AGathered(r)
                             /\ AReply(r)' = AReply(r)
  PROVE  UNCHANGED Abstract!avars
BY DEF Abstract!avars

\* The part of the abstract state that belongs to the requests not concerned.
Others(r) == \A s \in Requests : s # r =>
  AStage(s)' = AStage(s) /\ AGathered(s)' = AGathered(s) /\ AReply(s)' = AReply(s)

LEMMA AbstractStart ==
  ASSUME IInv, NEW r \in Requests, Start(r)
  PROVE  Abstract!ANext
<1>1. /\ UNCHANGED <<answer, selected>>
      /\ phase[r] = "new"
      /\ \E ph \in {"both", "primary", "raised"} : phase' = [phase EXCEPT ![r] = ph]
  BY DEF Start
<1>2. Others(r) /\ AGathered(r)' = AGathered(r) /\ AReply(r)' = AReply(r)
  BY <1>1 DEF Others, AStage, AGathered, AReply, IInv, TypeOK
<1>3. AStage(r) = "idle" /\ AStage(r)' \in {"working", "refused"}
  BY <1>1 DEF AStage, Stage, IInv, TypeOK
<1>4. Abstract!Receive(r) \/ Abstract!Refuse(r)
  BY <1>2, <1>3 DEF Others, Abstract!Receive, Abstract!Refuse
<1> QED
  BY <1>4 DEF Abstract!ANext

LEMMA AbstractAnswered ==
  ASSUME IInv, NEW r \in Requests, NEW c \in Calls, Answered(r, c) \/ TimedOut(r, c)
  PROVE  [Abstract!ANext]_(Abstract!avars)
<1>1. /\ UNCHANGED <<phase, selected>> /\ c \in Asked(r) /\ answer[r][c] = Missing
      /\ \E o \in Outcome \union {Missing} : answer' = [answer EXCEPT ![r][c] = o]
  BY OutcomeFacts DEF Answered, TimedOut, Waiting, IInv, TypeOK
<1>2. PICK o \in Outcome \union {Missing} : answer' = [answer EXCEPT ![r][c] = o]
  BY <1>1
<1>3. Others(r) /\ AStage(r)' = AStage(r) /\ AReply(r)' = AReply(r)
  BY <1>1, <1>2 DEF Others, AStage, AGathered, AReply, IInv, TypeOK
<1>4. AStage(r) = "working"
  BY <1>1 DEF AStage, Stage, Asked
<1>5. \A d \in Calls : answer'[r][d] = IF d = c THEN o ELSE answer[r][d]
  BY <1>2 DEF IInv, TypeOK
<1>6. CASE Ok(o)
  <2>1. AGathered(r)' = AGathered(r) \union {AsResult(c, o)}
    BY <1>1, <1>5, <1>6, OutcomeFacts DEF AGathered
  <2>2. AsResult(c, o) \in Abstract!Result
    <3>1. PICK m \in Metrics : o = Success(m)
      BY <1>6, OutcomeFacts DEF Outcome, Ok, Failure
    <3> QED
      BY <3>1, CallNames, MetricsAssumption DEF AsResult, Success, Abstract!Result
  <2>3. Abstract!Gather(r)
    BY <1>3, <1>4, <2>1, <2>2 DEF Others, Abstract!Gather
  <2> QED
    BY <2>3 DEF Abstract!ANext
<1>7. CASE ~ Ok(o)
  <2>1. AGathered(r)' = AGathered(r)
    BY <1>1, <1>5, <1>7, OutcomeFacts DEF AGathered
  <2> QED
    BY <1>3, <2>1, AbstractStutter DEF Others
<1> QED
  BY <1>6, <1>7

\* What a step of route does to its request: it goes on waiting, or is done.
LEMMA ResumeEffect ==
  ASSUME IInv, NEW r \in Requests, Resume(r)
  PROVE  /\ UNCHANGED answer /\ Others(r)
         /\ phase[r] \in {"primary", "secondary", "both", "derived"}
         /\ \/ phase'[r] \in {"secondary", "derived"} /\ selected'[r] = selected[r]
            \/ phase'[r] = "done"
<1>1. /\ UNCHANGED answer
      /\ \E ph \in {"secondary", "derived", "done"} : phase' = [phase EXCEPT ![r] = ph]
      /\ UNCHANGED selected \/ \E sel : selected' = [selected EXCEPT ![r] = sel]
  BY DEF Resume, SingleReturns, FallbackPrimaryReturns, FallbackSecondaryReturns,
         ParallelReturns, DerivedReturns, Finish, RunDerived
<1>2. phase'[r] \in {"secondary", "derived"} => selected' = selected
  BY DEF Resume, SingleReturns, FallbackPrimaryReturns, FallbackSecondaryReturns,
         ParallelReturns, DerivedReturns, Finish, RunDerived, IInv, TypeOK
<1>3. phase[r] \in {"primary", "secondary", "both", "derived"}
  BY DEF Resume, SingleReturns, FallbackPrimaryReturns, FallbackSecondaryReturns,
         ParallelReturns, DerivedReturns, Resumes
<1>4. \A s \in Requests : s # r => phase'[s] = phase[s] /\ selected'[s] = selected[s]
  BY <1>1 DEF IInv, TypeOK
<1>5. phase'[r] \in {"secondary", "derived", "done"}
  BY <1>1 DEF IInv, TypeOK
<1>6. Others(r)
  BY <1>1, <1>4 DEF Others, AStage, AGathered, AReply
<1> QED
  BY <1>1, <1>2, <1>3, <1>5, <1>6

\* The result chosen is one of the best of those gathered.
LEMMA ChosenIsBest ==
  ASSUME IInv, NEW r \in Requests, phase[r] = "done", selected[r].engine # "none"
  PROVE  AReply(r) \in Abstract!BestOf(AGathered(r))
<1> DEFINE e == selected[r].engine
           a == AReply(r)
<1>1. /\ e \in Engines /\ Ok(outcomes[r][e]) /\ selected[r].outcome = outcomes[r][e]
      /\ Ok(outcomes[r][Other(e)]) => ~ Better(outcomes[r][Other(e)], outcomes[r][e])
  BY DEF IInv, TypeOK, RouteOK, BestSelected
<1>2. a = AsResult(e, outcomes[r][e])
  BY <1>1 DEF AReply
<1>3. PICK c \in Calls : EngineOf(c) = e /\ answer[r][c] = outcomes[r][e]
  BY <1>1 DEF IInv, RouteOK, MergedOK
<1>4. a \in AGathered(r)
  <2>1. AsResult(c, answer[r][c]) = a
    BY <1>1, <1>2, <1>3, CallNames DEF AsResult
  <2> QED
    BY <1>1, <1>3, <2>1 DEF AGathered
<1>5. ASSUME NEW b \in AGathered(r) PROVE ~ Abstract!Beats(b, a)
  <2>1. PICK d \in Calls : Ok(answer[r][d]) /\ b = AsResult(d, answer[r][d])
    BY DEF AGathered
  <2>2. outcomes[r][EngineOf(d)] = answer[r][d]
    BY <2>1 DEF IInv, RouteOK, MergedOK
  <2>3. EngineOf(d) = e \/ EngineOf(d) = Other(e)
    BY <1>1, CallNames
  <2>4. outcomes[r][e].score \in Int /\ outcomes[r][e].depth \in Int
    <3>1. outcomes[r] \in [Engines -> Outcome \union {Missing}]
      BY DEF IInv, TypeOK
    <3>2. outcomes[r][e] \in Outcome \union {Missing}
      BY <1>1, <3>1
    <3> QED
      BY <3>2, OutcomeScores
  <2>5. CASE EngineOf(d) = e
    BY <1>2, <2>1, <2>2, <2>4, <2>5 DEF AsResult, Abstract!Beats
  <2>6. CASE EngineOf(d) = Other(e)
    BY <1>1, <1>2, <2>1, <2>2, <2>6 DEF AsResult, Abstract!Beats, Better
  <2> QED
    BY <2>3, <2>5, <2>6
<1> QED
  BY <1>4, <1>5 DEF Abstract!BestOf

RepliesBest == \A r \in Requests :
  phase[r] = "done" /\ selected[r].engine # "none" => AReply(r) \in Abstract!BestOf(AGathered(r))

LEMMA AbstractResume ==
  ASSUME IInv, IInv', RepliesBest', NEW r \in Requests, Resume(r)
  PROVE  [Abstract!ANext]_(Abstract!avars)
<1>1. AGathered(r)' = AGathered(r) /\ AStage(r) = "working"
  BY ResumeEffect DEF AGathered, AStage, Stage
<1>2. selected[r] = NoSelection
  BY ResumeEffect DEF IInv, RouteOK, OutcomesOK
<1>3. CASE phase'[r] \in {"secondary", "derived"}
  <2>1. AStage(r)' = AStage(r) /\ AReply(r)' = AReply(r)
    BY <1>1, <1>3, ResumeEffect DEF AStage, AReply, Stage
  <2> QED
    BY <1>1, <2>1, ResumeEffect, AbstractStutter DEF Others
<1>4. CASE phase'[r] = "done"
  <2>1. AStage(r)' = "replied"
    BY <1>4 DEF AStage, Stage
  <2>2. CASE selected'[r].engine = "none"
    <3>1. AReply(r)' = AReply(r)
      BY <1>2, <2>2 DEF AReply, NoSelection
    <3>2. AGathered(r) = {}
      BY <1>1, <1>4, <2>2 DEF IInv, RouteOK, NoneDiscarded, AGathered
    <3>3. Abstract!Reply(r)
      BY <1>1, <2>1, <3>1, <3>2, ResumeEffect DEF Others, Abstract!Reply
    <3> QED
      BY <3>3 DEF Abstract!ANext
  <2>3. CASE selected'[r].engine # "none"
    <3>1. AReply(r)' \in Abstract!BestOf(AGathered(r)')
      BY <1>4, <2>3 DEF RepliesBest, Abstract!BestOf, Abstract!Beats
    <3>2. AReply(r)' \in Abstract!BestOf(AGathered(r))
      BY <1>1, <3>1
    <3>3. Abstract!Reply(r)
      BY <1>1, <2>1, <3>2, ResumeEffect DEF Others, Abstract!Reply
    <3> QED
      BY <3>3 DEF Abstract!ANext
  <2> QED
    BY <2>2, <2>3
<1> QED
  BY <1>3, <1>4, ResumeEffect

\* The router implements Redundancy.
THEOREM Refinement == Spec => ImplementsRedundancy
<1>1. IInv => RepliesBest
  BY ChosenIsBest DEF RepliesBest
<1>2. IInv /\ IInv' /\ RepliesBest' /\ [Next]_vars => [Abstract!ANext]_(Abstract!avars)
  <2> SUFFICES ASSUME IInv, IInv', RepliesBest', [Next]_vars
               PROVE  [Abstract!ANext]_(Abstract!avars)
    OBVIOUS
  <2>1. ASSUME NEW r \in Requests, Start(r) PROVE [Abstract!ANext]_(Abstract!avars)
    BY <2>1, AbstractStart
  <2>2. ASSUME NEW r \in Requests, Resume(r) PROVE [Abstract!ANext]_(Abstract!avars)
    BY <2>2, AbstractResume
  <2>3. ASSUME NEW r \in Requests, NEW c \in Calls, Answered(r, c) \/ TimedOut(r, c)
        PROVE [Abstract!ANext]_(Abstract!avars)
    BY <2>3, AbstractAnswered
  <2>4. CASE ThreadTakes \/ (\E r \in Requests, c \in Calls : ThreadReturns(r, c)) \/ UNCHANGED vars
    <3>1. UNCHANGED <<phase, answer, selected>>
      BY <2>4 DEF ThreadTakes, ThreadReturns, vars
    <3> QED
      BY <3>1, AbstractStutter DEF AStage, AGathered, AReply
  <2> QED
    BY <2>1, <2>2, <2>3, <2>4 DEF Next
<1> QED
  BY <1>1, <1>2, AbstractInit, Invariance, PTL DEF Spec, ImplementsRedundancy, Abstract!ASpec

=============================================================================
