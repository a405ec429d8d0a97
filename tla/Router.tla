------------------------------- MODULE Router -------------------------------
(***************************************************************************)
(* The optimization router (qcaas/core/backends/router.py): one coroutine  *)
(* per request, which runs the engines' blocking code in the event loop's  *)
(* thread pool and stops waiting for it after a timeout.  The pool's jobs  *)
(* and the coroutines interleave; a job nobody waits for keeps its thread  *)
(* until it returns.                                                       *)
(***************************************************************************)
EXTENDS Integers, Sequences, FiniteSets

CONSTANTS Requests,   \* the requests the service receives
          Inputs,     \* Inputs[r]: what request r may ask for
          Metrics,    \* the quality of a successful result
          Workers     \* threads of the event loop's default executor

IBM     == "ibm_composer"
CLASSIQ == "classiq"
Engines == {IBM, CLASSIQ}

\* A call of an engine's optimize: on the customer's circuit, or of IBM on
\* the circuit that Classiq produced.
Derived == "derived"
Calls   == Engines \union {Derived}

Modes == {"single", "fallback", "parallel"}
Input == [requested : Engines \union {"auto"}, mode : Modes,
          primary : Engines \union {"auto"}, qmod : BOOLEAN, large : BOOLEAN]

ASSUME InputsAssumption  == Inputs \in [Requests -> SUBSET Input]
ASSUME MetricsAssumption == Metrics \subseteq [score : Nat, depth : Nat]
ASSUME WorkersAssumption == Workers \in Nat \ {0}

-----------------------------------------------------------------------------
(* Outcomes *)

Success(m) == [status |-> "success", score |-> m.score, depth |-> m.depth]
Failure(s) == [status |-> s, score |-> 0, depth |-> 0]
Missing    == Failure("missing")           \* no outcome yet
Outcome    == {Success(m) : m \in Metrics}
                \union {Failure(s) : s \in {"error", "not_applicable", "timeout"}}

Ok(o) == o.status = "success"

Other(e) == IF e = IBM THEN CLASSIQ ELSE IBM

\* The key the ranking sorts by: the metric asked for, then the depth.
Better(o, p) == \/ o.score < p.score
                \/ o.score = p.score /\ o.depth < p.depth

NoSelection == [engine |-> "none", outcome |-> Missing]
Chosen(res, e) == [engine |-> e, outcome |-> res[e]]

\* Mutant: the ranking compares the metric only.
SelectByScoreOnly(res, first) ==
  LET second == Other(first)
  IN  IF Ok(res[first]) /\ ~ (Ok(res[second]) /\ res[second].score < res[first].score)
      THEN Chosen(res, first)
      ELSE IF Ok(res[second]) THEN Chosen(res, second) ELSE NoSelection

\* The least successful outcome; the sort is stable, so among equals it is
\* the one whose engine entered the dict first.
Select(res, first) ==
  LET second == Other(first)
  IN  IF Ok(res[first]) /\ ~ (Ok(res[second]) /\ Better(res[second], res[first]))
      THEN Chosen(res, first)
      ELSE IF Ok(res[second]) THEN Chosen(res, second) ELSE NoSelection

\* Mutant: the IBM path no longer refuses Qmod models.
ReturnsForAnyInput(c, qmod) ==
  {Success(m) : m \in Metrics}
    \union {Failure("error"), Failure("timeout"), Failure("not_applicable")}

\* What the engines' optimize may do: return a result, or raise, a
\* TimeoutError of the network included.  The IBM path cannot read a Qmod
\* model; on Classiq's output, which is already laid out for the target, it
\* can no longer be inapplicable.
Returns(c, qmod) ==
  IF c = IBM /\ qmod
  THEN {Failure("not_applicable")}
  ELSE {Success(m) : m \in Metrics} \union {Failure("error"), Failure("timeout")}
         \union (IF c = Derived THEN {} ELSE {Failure("not_applicable")})

-----------------------------------------------------------------------------
(* What a request asks for, after the "auto" heuristic. *)

NoPlan == [mode |-> "single", primary |-> IBM, qmod |-> FALSE]

DecideAuto(in) ==
  [mode    |-> IF in.qmod THEN "parallel" ELSE IF in.large THEN "fallback" ELSE "single",
   primary |-> IF in.qmod THEN CLASSIQ ELSE IBM,
   qmod    |-> in.qmod]

Plan(in) ==
  IF in.requested = "auto" THEN DecideAuto(in)
  ELSE [mode |-> in.mode, qmod |-> in.qmod,
        primary |-> IF in.mode = "single" THEN in.requested ELSE in.primary]

-----------------------------------------------------------------------------
VARIABLES
  phase,      \* phase[r]: the await at which r's coroutine stands
  plan,       \* plan[r]: mode, primary and kind of input of r
  job,        \* job[r][c]: the executor's job for call c of r
  returned,   \* returned[r][c]: what that job returned, not yet taken
  queue,      \* the executor's work queue, cancelled jobs included
  answer,     \* answer[r][c]: the outcome _run_one gave for call c
  outcomes,   \* outcomes[r]: the dict of outcomes route builds
  selected,   \* selected[r]: the outcome chosen for the reply
  why         \* why[r]: the failure that the fallback reason quotes

vars == <<phase, plan, job, returned, queue, answer, outcomes, selected, why>>
pool == <<job, returned, queue>>

Init ==
  /\ phase    = [r \in Requests |-> "new"]
  /\ plan     = [r \in Requests |-> NoPlan]
  /\ job      = [r \in Requests |-> [c \in Calls |-> "idle"]]
  /\ returned = [r \in Requests |-> [c \in Calls |-> Missing]]
  /\ queue    = <<>>
  /\ answer   = [r \in Requests |-> [c \in Calls |-> Missing]]
  /\ outcomes = [r \in Requests |-> [e \in Engines |-> Missing]]
  /\ selected = [r \in Requests |-> NoSelection]
  /\ why      = [r \in Requests |-> "none"]

\* The engine whose key is the oldest in outcomes[r].
First(r) == IF plan[r].mode = "parallel" THEN IBM ELSE plan[r].primary

\* The calls whose outcome r's coroutine is waiting for.
Asked(r) == {c \in Calls : \/ phase[r] = "primary" /\ c = plan[r].primary
                           \/ phase[r] = "secondary" /\ c = Other(plan[r].primary)
                           \/ phase[r] = "derived" /\ c = Derived
                           \/ phase[r] = "both" /\ c \in Engines}
Waiting(r, c) == c \in Asked(r) /\ answer[r][c] = Missing

Running == {k \in Requests \X Calls : job[k[1]][k[2]] = "running"}

\* asyncio.to_thread for each of the calls, in this order.
Submit(r, calls) ==
  /\ job' = [job EXCEPT ![r] = [c \in Calls |->
               IF \E i \in DOMAIN calls : calls[i] = c THEN "queued" ELSE @[c]]]
  /\ queue' = queue \o [i \in DOMAIN calls |-> <<r, calls[i]>>]
  /\ UNCHANGED returned

Finish(r, sel) == /\ phase' = [phase EXCEPT ![r] = "done"]
                  /\ selected' = [selected EXCEPT ![r] = sel]
                  /\ UNCHANGED pool

\* Mutant: only successes are recorded.
RecordSuccess(r, e, o) ==
  outcomes' = IF Ok(o) THEN [outcomes EXCEPT ![r][e] = o] ELSE outcomes

Record(r, e, o) == outcomes' = [outcomes EXCEPT ![r][e] = o]

-----------------------------------------------------------------------------
(* The coroutine of a request: route *)

\* A primary engine called "auto" is no key of self.backends: KeyError.
Start(r) ==
  /\ phase[r] = "new"
  /\ \E in \in Inputs[r] :
       LET p == Plan(in) IN
       /\ plan' = [plan EXCEPT ![r] = p]
       /\ \/ /\ p.mode = "parallel"
             /\ phase' = [phase EXCEPT ![r] = "both"]
             /\ Submit(r, <<IBM, CLASSIQ>>)
          \/ /\ p.mode # "parallel" /\ p.primary \in Engines
             /\ phase' = [phase EXCEPT ![r] = "primary"]
             /\ Submit(r, <<p.primary>>)
          \/ /\ p.mode # "parallel" /\ p.primary = "auto"
             /\ phase' = [phase EXCEPT ![r] = "raised"]
             /\ UNCHANGED pool
  /\ UNCHANGED <<answer, outcomes, selected, why>>

\* _run_one: the job's result or exception reaches the coroutine in time ...
Answered(r, c) ==
  /\ Waiting(r, c) /\ returned[r][c] # Missing
  /\ answer' = [answer EXCEPT ![r][c] = returned[r][c]]
  /\ returned' = [returned EXCEPT ![r][c] = Missing]
  /\ UNCHANGED <<phase, plan, job, queue, outcomes, selected, why>>

\* Mutant: the job stays in the queue for a thread to run.
CancelNothing(r, c) == UNCHANGED job

\* Cancelling a job reaches it only before a thread takes it.
Cancel(r, c) == job' = [job EXCEPT ![r][c] = IF @ = "queued" THEN "idle" ELSE @]

\* Mutant: IBM's pass over Classiq's output is awaited without a timeout.
TimedOutExceptDerived(r, c) ==
  /\ Waiting(r, c) /\ c # Derived
  /\ answer' = [answer EXCEPT ![r][c] = Failure("timeout")]
  /\ returned' = [returned EXCEPT ![r][c] = Missing]
  /\ Cancel(r, c)
  /\ UNCHANGED <<phase, plan, queue, outcomes, selected, why>>

\* ... or the timer is first: wait_for cancels the job.  A job no thread has
\* taken will not run, a running one goes on, a returned result is dropped.
TimedOut(r, c) ==
  /\ Waiting(r, c)
  /\ answer' = [answer EXCEPT ![r][c] = Failure("timeout")]
  /\ returned' = [returned EXCEPT ![r][c] = Missing]
  /\ Cancel(r, c)
  /\ UNCHANGED <<phase, plan, queue, outcomes, selected, why>>

\* Every call r waits for has its answer: route goes on in one step.
Resumes(r, ph) == /\ phase[r] = ph
                  /\ \A c \in Asked(r) : answer[r][c] # Missing

\* _run_ibm_on_classiq_output: IBM on the circuit Classiq synthesised.
RunDerived(r) == /\ phase' = [phase EXCEPT ![r] = "derived"]
                 /\ Submit(r, <<Derived>>)
                 /\ UNCHANGED selected

SingleReturns(r) ==
  LET e == plan[r].primary
      o == answer[r][e]
  IN  /\ plan[r].mode = "single" /\ Resumes(r, "primary")
      /\ Record(r, e, o)
      /\ IF e = CLASSIQ /\ Ok(o) /\ plan[r].qmod
         THEN RunDerived(r)
         ELSE Finish(r, Select([outcomes[r] EXCEPT ![e] = o], e))
      /\ UNCHANGED <<plan, answer, why>>

FallbackPrimaryReturns(r) ==
  LET e == plan[r].primary
      o == answer[r][e]
  IN  /\ plan[r].mode = "fallback" /\ Resumes(r, "primary")
      /\ Record(r, e, o)
      /\ IF Ok(o)
         THEN Finish(r, [engine |-> e, outcome |-> o])
         ELSE /\ phase' = [phase EXCEPT ![r] = "secondary"]
              /\ Submit(r, <<Other(e)>>)
              /\ UNCHANGED selected
      /\ UNCHANGED <<plan, answer, why>>

\* Mutants: the reason quotes the engine that succeeded; it is set although
\* the second engine failed too.
ReasonOfSecondary(r, o) == IF Ok(o) THEN o.status ELSE why[r]
ReasonAnyway(r, o)      == answer[r][plan[r].primary].status

\* "fallback due to ...": the status of the primary's failure.
FallbackReason(r, o) == IF Ok(o) THEN answer[r][plan[r].primary].status ELSE why[r]

FallbackSecondaryReturns(r) ==
  LET e == Other(plan[r].primary)
      o == answer[r][e]
  IN  /\ Resumes(r, "secondary")
      /\ Record(r, e, o)
      /\ why' = [why EXCEPT ![r] = FallbackReason(r, o)]
      /\ IF Ok(o)
         THEN IF e = CLASSIQ /\ plan[r].qmod
              THEN RunDerived(r)
              ELSE Finish(r, [engine |-> e, outcome |-> o])
         ELSE Finish(r, NoSelection)
      /\ UNCHANGED <<plan, answer>>

ParallelReturns(r) ==
  LET res == [e \in Engines |-> answer[r][e]]
  IN  /\ Resumes(r, "both")
      /\ outcomes' = [outcomes EXCEPT ![r] = res]
      /\ IF plan[r].qmod /\ Ok(res[CLASSIQ])
         THEN RunDerived(r)
         ELSE Finish(r, Select(res, IBM))
      /\ UNCHANGED <<plan, answer, why>>

\* Mutant: IBM's pass over Classiq's output is ignored in fallback mode.
IgnoresDerived(r, o) == plan[r].mode = "fallback"

\* In fallback mode Classiq's own result stands when IBM's pass over it fails.
KeepsClassiq(r, o) == plan[r].mode = "fallback" /\ ~ Ok(o)

\* Mutant: IBM's pass over Classiq's output is tried again when it fails.
RetryDerived(r) ==
  LET o   == answer[r][Derived]
      res == [outcomes[r] EXCEPT ![IBM] = o]
  IN  /\ Resumes(r, "derived")
      /\ IF ~ Ok(o)
         THEN /\ RunDerived(r)
              /\ answer' = [answer EXCEPT ![r][Derived] = Missing]
              /\ UNCHANGED outcomes
         ELSE /\ outcomes' = [outcomes EXCEPT ![r] = res]
              /\ Finish(r, Select(res, First(r)))
              /\ UNCHANGED answer
      /\ UNCHANGED <<plan, why>>

DerivedReturns(r) ==
  LET o   == answer[r][Derived]
      res == [outcomes[r] EXCEPT ![IBM] = o]
  IN  /\ Resumes(r, "derived")
      /\ IF KeepsClassiq(r, o)
         THEN /\ UNCHANGED outcomes
              /\ Finish(r, Chosen(outcomes[r], CLASSIQ))
         ELSE /\ outcomes' = [outcomes EXCEPT ![r] = res]
              /\ Finish(r, Select(res, First(r)))
      /\ UNCHANGED <<plan, answer, why>>

Resume(r) == \/ SingleReturns(r) \/ FallbackPrimaryReturns(r)
             \/ FallbackSecondaryReturns(r) \/ ParallelReturns(r)
             \/ DerivedReturns(r)

-----------------------------------------------------------------------------
(* The threads of the default executor *)

\* A free thread takes the oldest job and runs it, unless it was cancelled.
ThreadTakes ==
  /\ queue # <<>> /\ Cardinality(Running) < Workers
  /\ LET r == Head(queue)[1]
         c == Head(queue)[2]
     IN  job' = [job EXCEPT ![r][c] = IF @ = "queued" THEN "running" ELSE @]
  /\ queue' = Tail(queue)
  /\ UNCHANGED <<phase, plan, returned, answer, outcomes, selected, why>>

\* The engine's optimize returns or raises; if nobody waits, to nobody.
ThreadReturns(r, c) ==
  /\ job[r][c] = "running"
  /\ job' = [job EXCEPT ![r][c] = "idle"]
  /\ IF Waiting(r, c)
     THEN \E o \in Returns(c, plan[r].qmod) : returned' = [returned EXCEPT ![r][c] = o]
     ELSE UNCHANGED returned
  /\ UNCHANGED <<phase, plan, queue, answer, outcomes, selected, why>>

Next == \/ \E r \in Requests : Start(r) \/ Resume(r)
        \/ \E r \in Requests, c \in Calls :
              Answered(r, c) \/ TimedOut(r, c) \/ ThreadReturns(r, c)
        \/ ThreadTakes

Spec == Init /\ [][Next]_vars

\* The event loop runs every callback that is ready and fires every timer;
\* nothing is assumed of the engines' code, which may never return.
Fairness == \A r \in Requests : WF_vars(Resume(r) \/ \E c \in Calls : TimedOut(r, c))
FairSpec == Spec /\ Fairness

-----------------------------------------------------------------------------
(* Properties *)

\* Every variable keeps the type of the router's data.
TypeOK ==
  /\ phase \in [Requests -> {"new", "primary", "secondary", "derived", "both",
                             "done", "raised"}]
  /\ plan \in [Requests -> [mode : Modes, primary : Engines \union {"auto"}, qmod : BOOLEAN]]
  /\ job \in [Requests -> [Calls -> {"idle", "queued", "running"}]]
  /\ returned \in [Requests -> [Calls -> Outcome \union {Missing}]]
  /\ queue \in Seq(Requests \X Calls)
  /\ answer \in [Requests -> [Calls -> Outcome \union {Missing}]]
  /\ outcomes \in [Requests -> [Engines -> Outcome \union {Missing}]]
  /\ selected \in [Requests -> [engine : Engines \union {"none"},
                                outcome : Outcome \union {Missing}]]
  /\ why \in [Requests -> {"none", "error", "not_applicable", "timeout"}]

\* The result route replies with is the one the job's table of results shows
\* for its engine, and no successful result of that table beats it, nor ties
\* with it and entered the dict earlier.
BestSelected(r) ==
  phase[r] = "done" /\ selected[r].engine # "none" =>
    LET e == selected[r].engine
        f == Other(e)
    IN  /\ outcomes[r][e] = selected[r].outcome
        /\ Ok(outcomes[r][e])
        /\ Ok(outcomes[r][f]) =>
             /\ ~ Better(outcomes[r][f], outcomes[r][e])
             /\ f = First(r) => Better(outcomes[r][e], outcomes[r][f])
SelectedIsBest == \A r \in Requests : BestSelected(r)

\* A request fails only if no engine gave a result in time: overwriting IBM's
\* entry by its pass over Classiq's output never loses a success.
NoneDiscarded(r) ==
  phase[r] = "done" =>
    /\ selected[r].engine = "none" => \A c \in Calls : ~ Ok(answer[r][c])
    /\ \A e \in Engines : Ok(answer[r][e]) => Ok(outcomes[r][e])
NoSuccessDiscarded == \A r \in Requests : NoneDiscarded(r)

\* In fallback mode the other engine is called only after the primary failed,
\* and the reason given names the primary's failure, whatever has since been
\* written over its entry; there is one exactly if the other engine succeeded.
Justified(r) ==
  LET primary   == plan[r].primary
      secondary == Other(primary)
  IN  plan[r].mode = "fallback" /\ primary \in Engines =>
        /\ job[r][secondary] # "idle" \/ answer[r][secondary] # Missing
             => answer[r][primary] # Missing /\ ~ Ok(answer[r][primary])
        /\ phase[r] = "done" =>
             why[r] = IF Ok(answer[r][secondary]) THEN answer[r][primary].status ELSE "none"
FallbackIsJustified == \A r \in Requests : Justified(r)

\* A finished request reports exactly the engines it called: each of them has
\* an entry in the dict, and no other engine has one.
Reported(r) ==
  phase[r] = "done" =>
    \A e \in Engines :
      outcomes[r][e] # Missing
        <=> answer[r][e] # Missing \/ (e = IBM /\ answer[r][Derived] # Missing)
EnginesReported == \A r \in Requests : Reported(r)

\* A job that was given up before a thread took it never runs, so that a
\* backlog of abandoned calls does not occupy the pool.
NoAbandonedStart ==
  [][\A r \in Requests, c \in Calls :
       job[r][c] # "running" /\ job'[r][c] = "running" => Waiting(r, c)]_vars

\* The timers and continuations that r's coroutine may still need.
Waits(r) == Cardinality({c \in Calls : Waiting(r, c)})
Left(r)  ==
  IF phase[r] \in {"done", "raised"} THEN 0
  ELSE IF phase[r] = "new" THEN 7
  ELSE IF phase[r] = "derived" THEN 1 + Waits(r)
  ELSE IF phase[r] = "primary" /\ plan[r].mode = "fallback" THEN 5 + Waits(r)
  ELSE 3 + Waits(r)

\* Whatever happens to a coroutine, an answer, a timeout or the code after an
\* await, leaves it less to wait for, and nothing that engines, threads and
\* other requests do adds to it: route calls no engine a second time and comes
\* back to no earlier await, so that a request ends within seven steps of its own.
StepsToAnswer ==
  [][\A r \in Requests :
       /\ phase'[r] # phase[r] \/ answer'[r] # answer[r] => Left(r)' < Left(r)
       /\ Left(r)' <= Left(r)]_vars

\* Every request is answered, even when the engines hang: no code of an
\* engine can keep the coroutine waiting, because every await has a timer.
Responds ==
  \A r \in Requests : phase[r] # "new" ~> phase[r] \in {"done", "raised"}

\* The router implements the promise of Redundancy: the result replied is
\* one of the best among those gathered in time, from whichever engines.
Stage(ph) == IF ph = "new" THEN "idle" ELSE IF ph = "raised" THEN "refused"
             ELSE IF ph = "done" THEN "replied" ELSE "working"
EngineOf(c) == IF c = Derived THEN IBM ELSE c
AsResult(c, o) == [engine |-> EngineOf(c), score |-> o.score, depth |-> o.depth]
AStage(r)    == Stage(phase[r])
AGathered(r) == {AsResult(c, answer[r][c]) : c \in {d \in Calls : Ok(answer[r][d])}}
AReply(r)    == IF selected[r].engine = "none"
                THEN [engine |-> "none", score |-> 0, depth |-> 0]
                ELSE AsResult(selected[r].engine, selected[r].outcome)

Abstract == INSTANCE Redundancy WITH
  Scores   <- {m.score : m \in Metrics} \union {m.depth : m \in Metrics},
  stage    <- [r \in Requests |-> AStage(r)],
  gathered <- [r \in Requests |-> AGathered(r)],
  reply    <- [r \in Requests |-> AReply(r)]
ImplementsRedundancy == Abstract!ASpec

=============================================================================
