----------------------------- MODULE JobHistory -----------------------------
(***************************************************************************)
(* What the API promises about a job: the customer gets one answer, which  *)
(* agrees with what has happened at IBM; the history has an entry only for *)
(* a job that was answered, it first says what the answer said, and later  *)
(* only that the run which was submitted has ended.  Handlers, polls and   *)
(* their transactions do not show.                                         *)
(***************************************************************************)
CONSTANT Jobs

VARIABLES told,     \* told[j]: the answer the customer got, or nothing
          run,      \* run[j]: the run at IBM: none, going or ended
          entry,    \* entry[j]: the status the history shows of the job
          payload   \* payload[j]: none, stored or purged

hvars == <<told, run, entry, payload>>

HInit == /\ told    = [j \in Jobs |-> "nothing"]
         /\ run     = [j \in Jobs |-> "none"]
         /\ entry   = [j \in Jobs |-> "absent"]
         /\ payload = [j \in Jobs |-> "none"]

Set(f, j, value) == [f EXCEPT ![j] = value]

\* A run is started before anyone was answered, at most once, even when the
\* answer is then an error.
StartRun(j) == /\ told[j] = "nothing" /\ run[j] = "none"
               /\ run' = Set(run, j, "going")
               /\ told' \in {told, Set(told, j, "error")}
               /\ UNCHANGED <<entry, payload>>

EndRun(j) == /\ run[j] = "going"
             /\ run' = Set(run, j, "ended")
             /\ UNCHANGED <<told, entry, payload>>

Answered(j) ==
  /\ told[j] = "nothing"
  /\ \/ told' = Set(told, j, "error")
     \/ run[j] = "none" /\ told' = Set(told, j, "completed")
     \/ run[j] # "none" /\ told' = Set(told, j, "qpu_submitted")
  /\ UNCHANGED <<run, entry, payload>>

\* The failed job is in the history when its customer hears of the failure.
AnsweredFailure(j) == /\ told[j] = "nothing" /\ run[j] = "none" /\ entry[j] = "absent"
                      /\ told' = Set(told, j, "unavailable")
                      /\ entry' = Set(entry, j, "failed")
                      /\ payload' = Set(payload, j, "stored")
                      /\ UNCHANGED run

Recorded(j) == /\ told[j] \in {"completed", "qpu_submitted"} /\ entry[j] = "absent"
               /\ entry' = Set(entry, j, told[j])
               /\ payload' = Set(payload, j, "stored")
               /\ UNCHANGED <<told, run>>

Completed(j) == /\ entry[j] = "qpu_submitted" /\ run[j] = "ended"
                /\ entry' = Set(entry, j, "completed")
                /\ UNCHANGED <<told, run, payload>>

Purged(S) == /\ \A j \in S : payload[j] = "stored"
             /\ payload' = [j \in Jobs |-> IF j \in S THEN "purged" ELSE payload[j]]
             /\ UNCHANGED <<told, run, entry>>

HNext == \/ \E j \in Jobs : \/ StartRun(j) \/ EndRun(j) \/ Answered(j) \/ AnsweredFailure(j)
                            \/ Recorded(j) \/ Completed(j)
         \/ \E S \in SUBSET Jobs : Purged(S)

HSpec == HInit /\ [][HNext]_hvars
=============================================================================
