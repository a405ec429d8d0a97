-------------------------------- MODULE Jobs --------------------------------
(***************************************************************************)
(* The life of a job: the handlers of POST /v2/optimize, /v2/quote and     *)
(* /v2/interpret (qcaas/services), a run on IBM's QPU (services/qpu.py),   *)
(* the job's row in the database (services/persist.py, storage), the polls *)
(* of GET /v2/jobs/{id} (api/jobs.py) and the retention purge.  A handler's *)
(* transaction is committed by get_session after its response is sent; the *)
(* process may crash, and the database and IBM may fail, at every step.    *)
(***************************************************************************)
EXTENDS Integers

CONSTANTS Jobs,             \* requests; each one's job has the id new_id gave it
          Polls,            \* GET requests that may be in flight at once
          ExecutionAllowed  \* settings.allow_qpu_execution, with IBM credentials

ASSUME ExecutionAssumption == ExecutionAllowed \in BOOLEAN

Kinds == {"optimize", "quote", "interpret"}
Final == {"completed", "failed"}                \* jobs.py: no refresh any more
Ended == {"done", "cancelled", "error"}         \* qpu.py: FINAL_STATES

\* A job's row: its status, whether it has IBM's job id, what its billing
\* record charges for the QPU, and its payload.
Row    == [status : {"absent", "completed", "failed", "qpu_submitted"}, ibm : BOOLEAN,
           charge : {"none", "estimate", "actual"}, payload : {"none", "stored", "purged"}]
Absent == [status |-> "absent", ibm |-> FALSE, charge |-> "none", payload |-> "none"]
NoPoll == [at |-> "idle", job |-> "none", read |-> Absent]

VARIABLES
  handler,    \* handler[j]: where the request's handler stands
  kind,       \* kind[j]: the endpoint of request j
  execute,    \* execute[j]: the result has a circuit, and it is to be run on the QPU
  told,       \* told[j]: the status of the response the client got
  pending,    \* pending[j]: the row flushed in the handler's transaction
  row,        \* row[j]: the committed row
  ibm,        \* ibm[j]: the run at IBM, with all it costs
  poll        \* poll[p]: a GET in flight and the row it has read

vars    == <<handler, kind, execute, told, pending, row, ibm, poll>>
request == <<kind, execute>>

Init ==
  /\ handler = [j \in Jobs |-> "new"]
  /\ kind    = [j \in Jobs |-> "optimize"]
  /\ execute = [j \in Jobs |-> FALSE]
  /\ told    = [j \in Jobs |-> "nothing"]
  /\ pending = [j \in Jobs |-> Absent]
  /\ row     = [j \in Jobs |-> Absent]
  /\ ibm     = [j \in Jobs |-> "none"]
  /\ poll    = [p \in Polls |-> NoPoll]

-----------------------------------------------------------------------------
(* The handler of a request *)

Goto(j, from, to) == handler[j] = from /\ handler' = [handler EXCEPT ![j] = to]
Answer(j, status) == told' = [told EXCEPT ![j] = status]

Receive(j) ==
  /\ Goto(j, "new", "working")
  /\ \E k \in Kinds, x \in BOOLEAN :
       /\ x => k = "optimize"
       /\ kind' = [kind EXCEPT ![j] = k]
       /\ execute' = [execute EXCEPT ![j] = x]
  /\ UNCHANGED <<told, pending, row, ibm, poll>>

\* An exception leaves the handler: get_session rolls its transaction back.
Raise(j, status) ==
  /\ handler' = [handler EXCEPT ![j] = "raised"]
  /\ Answer(j, status)
  /\ pending' = [pending EXCEPT ![j] = Absent]
  /\ UNCHANGED <<request, row, poll>>

\* An unknown backend, a circuit or counts that cannot be read, a database
\* that fails; a quote that finds no estimate on the IBM target.
Refuse(j) ==
  /\ handler[j] = "working"
  /\ Raise(j, "error")
  /\ UNCHANGED ibm

FailedRow == [status |-> "failed", ibm |-> FALSE, charge |-> "none", payload |-> "stored"]

\* Mutant: the failed job is left to the handler's transaction.
KeepInTransaction(j) == UNCHANGED row

\* session.commit() before the error response is raised.
KeepFailed(j) == row' = [row EXCEPT ![j] = FailedRow]

\* No engine produced a result for /v2/optimize: the failed job is persisted
\* and committed, and only then the error is raised.
RouteFails(j) ==
  /\ handler[j] = "working" /\ kind[j] = "optimize"
  /\ KeepFailed(j)
  /\ handler' = [handler EXCEPT ![j] = "raised"]
  /\ Answer(j, "unavailable")
  /\ UNCHANGED <<request, pending, ibm, poll>>

Executes(j) == execute[j] /\ ExecutionAllowed

\* submit_to_qpu, in a worker thread: IBM takes the job; afterwards its id or
\* status cannot be read, or the answer is lost, and the handler raises.
Submit(j) ==
  /\ handler[j] = "working" /\ Executes(j)
  /\ ibm' = [ibm EXCEPT ![j] = "queued"]
  /\ \/ /\ Goto(j, "working", "submitted")
        /\ UNCHANGED <<request, told, pending, row, poll>>
     \/ Raise(j, "error")

\* Mutant: the row does not say that the job was submitted.
NewRowCompleted(j) == [status |-> "completed", ibm |-> handler[j] = "submitted",
                       charge |-> "estimate", payload |-> "stored"]

NewRow(j) ==
  LET submitted == handler[j] = "submitted"
  IN  [status  |-> IF submitted THEN "qpu_submitted" ELSE "completed",
       ibm     |-> submitted,
       charge  |-> IF kind[j] = "interpret" THEN "none" ELSE "estimate",
       payload |-> "stored"]

\* persist_job: the row is flushed, or the database refuses and the handler raises.
Persist(j) ==
  /\ handler[j] \in {"working", "submitted"}
  /\ handler[j] = "working" => ~ Executes(j)
  /\ \/ /\ handler' = [handler EXCEPT ![j] = "persisted"]
        /\ pending' = [pending EXCEPT ![j] = NewRow(j)]
        /\ UNCHANGED <<request, told, row, poll>>
     \/ Raise(j, "error")
  /\ UNCHANGED ibm

\* The response is sent while the transaction is still open ...
Respond(j) ==
  /\ Goto(j, "persisted", "replied")
  /\ Answer(j, pending[j].status)
  /\ UNCHANGED <<request, pending, row, ibm, poll>>

\* ... and get_session commits it, or fails to.
Commit(j) ==
  /\ Goto(j, "replied", "done")
  /\ \/ row' = [row EXCEPT ![j] = pending[j]]
     \/ UNCHANGED row
  /\ pending' = [pending EXCEPT ![j] = Absent]
  /\ UNCHANGED <<request, told, ibm, poll>>

-----------------------------------------------------------------------------
(* The polls of GET /v2/jobs/{id} *)

\* Only a payload that can be loaded, if only as "encrypted", is refreshed.
Refreshed(r) == r.ibm /\ r.status \notin Final /\ r.payload = "stored"

\* The row is read; another status is answered from it at once.
PollReads(p, j) ==
  /\ poll[p] = NoPoll /\ Refreshed(row[j])
  /\ poll' = [poll EXCEPT ![p] = [at |-> "read", job |-> j, read |-> row[j]]]
  /\ UNCHANGED <<handler, request, told, pending, row, ibm>>

\* Mutant: any status that IBM reports completes the job.
SeesAnyState(j) == TRUE

SeesEnd(j) == ibm[j] \in Ended

\* fetch_qpu_status: the status is final, so the row is to be completed; or it
\* is not, or IBM cannot be asked, and the row is left alone.
PollFetches(p) ==
  /\ poll[p].at = "read"
  /\ poll' = [poll EXCEPT ![p] = IF SeesEnd(@.job) THEN [@ EXCEPT !.at = "changed"] ELSE NoPoll]
  /\ UNCHANGED <<handler, request, told, pending, row, ibm>>

PollGivesUp(p) ==
  /\ poll[p].at # "idle"
  /\ poll' = [poll EXCEPT ![p] = NoPoll]
  /\ UNCHANGED <<handler, request, told, pending, row, ibm>>

\* Mutants: IBM's status is written as it is; the whole row is written back
\* as it was read.
WriteIbmStatus(now, read) == [now EXCEPT !.status = "done"]
WriteRow(now, read) == [read EXCEPT !.status = "completed"]

\* The session writes the one column that has changed.
WriteStatus(now, read) == [now EXCEPT !.status = "completed"]

PollCommits(p) ==
  /\ poll[p].at = "changed"
  /\ LET j == poll[p].job IN
     row' = [row EXCEPT ![j] = WriteStatus(@, poll[p].read)]
  /\ poll' = [poll EXCEPT ![p] = NoPoll]
  /\ UNCHANGED <<handler, request, told, pending, ibm>>

-----------------------------------------------------------------------------
(* The command that purges, IBM, and crashes *)

\* purge_expired blanks the payloads of the rows that have expired by now.
Purge ==
  /\ \E expired \in SUBSET {j \in Jobs : row[j].payload = "stored"} :
       /\ expired # {}
       /\ row' = [j \in Jobs |-> IF j \in expired THEN [row[j] EXCEPT !.payload = "purged"]
                                 ELSE row[j]]
  /\ UNCHANGED <<handler, request, told, pending, ibm, poll>>

IbmEnds(j) ==
  /\ ibm[j] = "queued"
  /\ \E end \in Ended : ibm' = [ibm EXCEPT ![j] = end]
  /\ UNCHANGED <<handler, request, told, pending, row, poll>>

\* The process dies and is started again: what was not committed is lost.
Crash ==
  /\ handler' = [j \in Jobs |->
       IF handler[j] \in {"working", "submitted", "persisted", "replied"} THEN "dead"
       ELSE handler[j]]
  /\ pending' = [j \in Jobs |-> Absent]
  /\ poll' = [p \in Polls |-> NoPoll]
  /\ UNCHANGED <<request, told, row, ibm>>

Next ==
  \/ \E j \in Jobs : \/ Receive(j) \/ Refuse(j) \/ RouteFails(j) \/ Submit(j)
                     \/ Persist(j) \/ Respond(j) \/ Commit(j) \/ IbmEnds(j)
  \/ \E p \in Polls : PollFetches(p) \/ PollGivesUp(p) \/ PollCommits(p)
  \/ \E p \in Polls, j \in Jobs : PollReads(p, j)
  \/ Purge \/ Crash

Spec == Init /\ [][Next]_vars

-----------------------------------------------------------------------------
(* Properties *)

\* Every variable keeps its type.
TypeOK ==
  /\ handler \in [Jobs -> {"new", "working", "submitted", "persisted", "replied",
                           "done", "raised", "dead"}]
  /\ kind \in [Jobs -> Kinds] /\ execute \in [Jobs -> BOOLEAN]
  /\ told \in [Jobs -> {"nothing", "error", "unavailable", "completed", "qpu_submitted"}]
  /\ pending \in [Jobs -> Row] /\ row \in [Jobs -> Row]
  /\ ibm \in [Jobs -> {"none", "queued"} \union Ended]
  /\ poll \in [Polls -> {NoPoll}
       \union [at : {"read", "changed"}, job : Jobs, read : Row]]

\* A row says of the run at IBM what is true of it, whenever the polls read
\* and write it: it is completed only once the run has ended, it is waiting
\* only for a run that exists, and a failed job has cost no QPU time.
StatusTruthful ==
  \A j \in Jobs :
    /\ row[j].ibm => ibm[j] # "none"
    /\ row[j].status = "completed" /\ row[j].ibm => ibm[j] \in Ended
    /\ row[j].status = "qpu_submitted" => row[j].ibm
    /\ row[j].status = "failed" => ibm[j] = "none" /\ row[j].charge = "none"

\* A client that was told that no engine gave a result finds the failed job
\* in its history, although the error response rolls the transaction back.
FailureRecorded ==
  \A j \in Jobs : told[j] = "unavailable" => row[j].status = "failed"

\* Once written, a row stays: a final status is kept, a purged payload never
\* comes back, and IBM's id is what it was.
RecordKept ==
  [][\A j \in Jobs : row[j] # Absent =>
       /\ row'[j] # Absent
       /\ row[j].status \in Final => row'[j].status = row[j].status
       /\ row[j].payload = "purged" => row'[j].payload = "purged"
       /\ row'[j].ibm = row[j].ibm]_vars

-----------------------------------------------------------------------------
(* The refinement of JobHistory *)

HRun     == [j \in Jobs |-> IF ibm[j] \in Ended THEN "ended"
                           ELSE IF ibm[j] = "queued" THEN "going" ELSE "none"]
HEntry   == [j \in Jobs |-> row[j].status]
HPayload == [j \in Jobs |-> row[j].payload]

History == INSTANCE JobHistory WITH run <- HRun, entry <- HEntry, payload <- HPayload

\* Handlers, polls, purges and crashes show the customer no more than one job
\* history: the answer is true of the run, the history first says what the
\* answer said, and then only that the run has ended.
ImplementsHistory == History!HSpec

-----------------------------------------------------------------------------
(* What a doc says and the code does not do *)

\* "submitted; poll GET /v2/jobs/{job_id}": a client that was told so finds
\* the job there.
SubmittedIsFound ==
  \A j \in Jobs : told[j] = "qpu_submitted" => row[j].status # "absent"

\* "the actual usage override the estimate": a job whose run has ended and is
\* known to have ended is billed by what it used.
ActualUsageBilled ==
  \A j \in Jobs : row[j].ibm /\ row[j].status = "completed" => row[j].charge = "actual"

=============================================================================
