----------------------------- MODULE JobsProofs -----------------------------
(***************************************************************************)
(* Proofs about Jobs, for any number of requests and polls.  The inductive *)
(* invariant says what each handler may have left at IBM and in its        *)
(* transaction by now, and that a poll which has read a row still finds a  *)
(* row of a submitted job when it writes.                                  *)
(***************************************************************************)
EXTENDS Jobs, TLAPS

Started  == {"new", "working"}
Open     == {"persisted", "replied"}
Waiting  == {"submitted"} \union Started \union Open

\* The transaction of a handler agrees with what happened at IBM.
PendingOK(j) ==
  /\ pending[j] # Absent => handler[j] \in Open
  /\ handler[j] \in Open => pending[j].status \in {"completed", "qpu_submitted"}
  /\ pending[j].ibm => ibm[j] # "none" /\ pending[j].status = "qpu_submitted"
  /\ pending[j].status = "qpu_submitted" => pending[j].ibm

\* Until its handler has committed, a request has no row, and until it has
\* submitted, no run at IBM.
HandlerOK(j) ==
  /\ handler[j] \in Waiting => row[j] = Absent
  /\ handler[j] \in Started => ibm[j] = "none"
  /\ handler[j] = "submitted" => ibm[j] # "none"

RowOK(j) ==
  /\ row[j].ibm => ibm[j] # "none" /\ row[j].status \in {"qpu_submitted", "completed"}
  /\ row[j].status = "completed" /\ row[j].ibm => ibm[j] \in Ended
  /\ row[j].status = "qpu_submitted" => row[j].ibm
  /\ row[j].status = "failed" =>
       ibm[j] = "none" /\ row[j].charge = "none" /\ handler[j] = "raised"
  /\ told[j] = "unavailable" => row[j].status = "failed"

PollOK(p) ==
  /\ poll[p].at # "idle" => row[poll[p].job].ibm
  /\ poll[p].at = "changed" => ibm[poll[p].job] \in Ended

IInv == /\ TypeOK
        /\ \A j \in Jobs : PendingOK(j) /\ HandlerOK(j) /\ RowOK(j)
        /\ \A p \in Polls : PollOK(p)

-----------------------------------------------------------------------------
LEMMA RowFacts == Absent \in Row /\ FailedRow \in Row /\ Absent.status = "absent"
BY DEF Absent, FailedRow, Row

LEMMA InitIInv == Init => IInv
<1> SUFFICES ASSUME Init PROVE IInv
  OBVIOUS
<1>1. TypeOK
  BY RowFacts DEF Init, TypeOK, Kinds
<1>2. \A j \in Jobs : PendingOK(j) /\ HandlerOK(j) /\ RowOK(j)
  BY DEF Init, PendingOK, HandlerOK, RowOK, Absent, Open
<1>3. \A p \in Polls : PollOK(p)
  BY DEF Init, PollOK, NoPoll
<1> QED
  BY <1>1, <1>2, <1>3 DEF IInv

LEMMA NextIInv == IInv /\ [Next]_vars => IInv'
<1> USE DEF Started, Open, Waiting, request
<1> SUFFICES ASSUME IInv, [Next]_vars PROVE IInv'
  OBVIOUS
<1>0. TypeOK /\ (\A j \in Jobs : PendingOK(j) /\ HandlerOK(j) /\ RowOK(j))
             /\ (\A p \in Polls : PollOK(p))
  BY DEF IInv
<1>1. ASSUME NEW j \in Jobs, Receive(j) PROVE IInv'
  <2>1. TypeOK'
    BY <1>0, <1>1 DEF TypeOK, Receive, Goto
  <2>2. \A i \in Jobs : PendingOK(i)' /\ HandlerOK(i)' /\ RowOK(i)'
    BY <1>0, <1>1 DEF TypeOK, Receive, Goto, PendingOK, HandlerOK, RowOK
  <2>3. \A p \in Polls : PollOK(p)'
    BY <1>0, <1>1 DEF Receive, PollOK
  <2> QED
    BY <2>1, <2>2, <2>3 DEF IInv
<1>2. ASSUME NEW j \in Jobs, handler[j] \in {"working", "submitted"}, Raise(j, "error"),
             \/ UNCHANGED ibm
             \/ handler[j] = "working" /\ ibm' = [ibm EXCEPT ![j] = "queued"]
      PROVE  IInv'
  <2>1. TypeOK'
    BY <1>0, <1>2, RowFacts DEF TypeOK, Raise, Answer
  <2>2. \A i \in Jobs : PendingOK(i)' /\ HandlerOK(i)' /\ RowOK(i)'
    BY <1>0, <1>2 DEF TypeOK, Raise, Answer, PendingOK, HandlerOK, RowOK, Absent
  <2>3. \A p \in Polls : PollOK(p)'
    BY <1>0, <1>2 DEF TypeOK, Raise, PollOK, HandlerOK, NoPoll, Absent
  <2> QED
    BY <2>1, <2>2, <2>3 DEF IInv
<1>3. ASSUME NEW j \in Jobs, Refuse(j) PROVE IInv'
  BY <1>2, <1>3 DEF Refuse
<1>4. ASSUME NEW j \in Jobs, RouteFails(j) PROVE IInv'
  <2>1. TypeOK'
    BY <1>0, <1>4, RowFacts DEF TypeOK, RouteFails, KeepFailed, Answer
  <2>2. \A i \in Jobs : PendingOK(i)' /\ HandlerOK(i)' /\ RowOK(i)'
    BY <1>0, <1>4 DEF TypeOK, RouteFails, KeepFailed, Answer, PendingOK, HandlerOK, RowOK,
                      FailedRow
  <2>3. \A p \in Polls : PollOK(p)'
    BY <1>0, <1>4 DEF TypeOK, RouteFails, KeepFailed, PollOK, HandlerOK, NoPoll, Absent
  <2> QED
    BY <2>1, <2>2, <2>3 DEF IInv
<1>5. ASSUME NEW j \in Jobs, Submit(j) PROVE IInv'
  <2>1. CASE Raise(j, "error")
    BY <1>2, <1>5, <2>1 DEF Submit
  <2>2. CASE /\ Goto(j, "working", "submitted")
             /\ UNCHANGED <<request, told, pending, row, poll>>
    <3>1. TypeOK'
      BY <1>0, <1>5, <2>2 DEF TypeOK, Submit, Goto
    <3>2. \A i \in Jobs : PendingOK(i)' /\ HandlerOK(i)' /\ RowOK(i)'
      BY <1>0, <1>5, <2>2 DEF TypeOK, Submit, Goto, PendingOK, HandlerOK, RowOK, Absent
    <3>3. \A p \in Polls : PollOK(p)'
      BY <1>0, <1>5, <2>2 DEF TypeOK, Submit, PollOK, HandlerOK, NoPoll, Absent
    <3> QED
      BY <3>1, <3>2, <3>3 DEF IInv
  <2> QED
    BY <1>5, <2>1, <2>2 DEF Submit
<1>6. ASSUME NEW j \in Jobs, Persist(j) PROVE IInv'
  <2>1. CASE Raise(j, "error")
    BY <1>2, <1>6, <2>1 DEF Persist
  <2>2. CASE /\ handler' = [handler EXCEPT ![j] = "persisted"]
             /\ pending' = [pending EXCEPT ![j] = NewRow(j)]
             /\ UNCHANGED <<request, told, row, poll>>
    <3>1. /\ NewRow(j) \in Row /\ NewRow(j).status \in {"completed", "qpu_submitted"}
          /\ NewRow(j).ibm <=> handler[j] = "submitted"
          /\ NewRow(j).status = "qpu_submitted" <=> handler[j] = "submitted"
      BY DEF NewRow, Row
    <3>2. TypeOK'
      BY <1>0, <1>6, <2>2, <3>1 DEF TypeOK, Persist
    <3>3. \A i \in Jobs : PendingOK(i)' /\ HandlerOK(i)' /\ RowOK(i)'
      BY <1>0, <1>6, <2>2, <3>1 DEF TypeOK, Persist, PendingOK, HandlerOK, RowOK
    <3>4. \A p \in Polls : PollOK(p)'
      BY <1>0, <1>6, <2>2 DEF Persist, PollOK
    <3> QED
      BY <3>2, <3>3, <3>4 DEF IInv
  <2> QED
    BY <1>6, <2>1, <2>2 DEF Persist
<1>7. ASSUME NEW j \in Jobs, Respond(j) PROVE IInv'
  <2>1. pending[j].status \in {"completed", "qpu_submitted"}
    BY <1>0, <1>7 DEF Respond, Goto, PendingOK
  <2>2. TypeOK'
    BY <1>0, <1>7, <2>1 DEF TypeOK, Respond, Goto, Answer
  <2>3. \A i \in Jobs : PendingOK(i)' /\ HandlerOK(i)' /\ RowOK(i)'
    BY <1>0, <1>7, <2>1 DEF TypeOK, Respond, Goto, Answer, PendingOK, HandlerOK, RowOK
  <2>4. \A p \in Polls : PollOK(p)'
    BY <1>0, <1>7 DEF Respond, PollOK
  <2> QED
    BY <2>2, <2>3, <2>4 DEF IInv
<1>8. ASSUME NEW j \in Jobs, Commit(j) PROVE IInv'
  <2>1. /\ handler[j] = "replied" /\ row[j] = Absent
        /\ pending[j].status \in {"completed", "qpu_submitted"} /\ pending[j] \in Row
    BY <1>0, <1>8 DEF Commit, Goto, PendingOK, HandlerOK, TypeOK
  <2>2. TypeOK'
    BY <1>0, <1>8, <2>1, RowFacts DEF TypeOK, Commit, Goto
  <2>3. told[j] # "unavailable"
    BY <1>0, <2>1, RowFacts DEF RowOK
  <2>4. \A i \in Jobs : PendingOK(i)' /\ HandlerOK(i)' /\ RowOK(i)'
    <3> TAKE i \in Jobs
    <3>1. /\ handler'[i] = IF i = j THEN "done" ELSE handler[i]
          /\ pending'[i] = IF i = j THEN Absent ELSE pending[i]
          /\ row'[i] = row[i] \/ (i = j /\ row'[i] = pending[j])
          /\ told' = told /\ ibm' = ibm
      BY <1>0, <1>8 DEF TypeOK, Commit, Goto
    <3>2. PendingOK(i)' /\ HandlerOK(i)'
      BY <1>0, <3>1 DEF PendingOK, HandlerOK, Absent
    <3>3. RowOK(i)'
      <4>1. CASE row'[i] = row[i]
        BY <1>0, <2>1, <3>1, <4>1 DEF RowOK, Absent
      <4>2. CASE i = j /\ row'[i] = pending[j]
        BY <1>0, <2>1, <2>3, <3>1, <4>2 DEF RowOK, PendingOK
      <4> QED
        BY <3>1, <4>1, <4>2
    <3> QED
      BY <3>2, <3>3
  <2>5. \A p \in Polls : PollOK(p)'
    BY <1>0, <1>8, <2>1 DEF TypeOK, Commit, PollOK, NoPoll, Absent
  <2> QED
    BY <2>2, <2>4, <2>5 DEF IInv
<1>9. ASSUME NEW j \in Jobs, IbmEnds(j) PROVE IInv'
  <2>1. TypeOK'
    BY <1>0, <1>9 DEF TypeOK, IbmEnds
  <2>2. \A i \in Jobs : PendingOK(i)' /\ HandlerOK(i)' /\ RowOK(i)'
    BY <1>0, <1>9 DEF TypeOK, IbmEnds, PendingOK, HandlerOK, RowOK, Ended
  <2>3. \A p \in Polls : PollOK(p)'
    BY <1>0, <1>9 DEF TypeOK, IbmEnds, PollOK, Ended
  <2> QED
    BY <2>1, <2>2, <2>3 DEF IInv
<1>10. ASSUME NEW p \in Polls, NEW j \in Jobs, PollReads(p, j) PROVE IInv'
  <2>1. TypeOK'
    BY <1>0, <1>10 DEF TypeOK, PollReads
  <2>2. \A i \in Jobs : PendingOK(i)' /\ HandlerOK(i)' /\ RowOK(i)'
    BY <1>0, <1>10 DEF PollReads, PendingOK, HandlerOK, RowOK
  <2>3. \A q \in Polls : PollOK(q)'
    BY <1>0, <1>10 DEF TypeOK, PollReads, PollOK, Refreshed
  <2> QED
    BY <2>1, <2>2, <2>3 DEF IInv
<1>11. ASSUME NEW p \in Polls, PollFetches(p) \/ PollGivesUp(p) PROVE IInv'
  <2>1. poll[p] \in [at : {"read", "changed"}, job : Jobs, read : Row]
    BY <1>0, <1>11 DEF TypeOK, PollFetches, PollGivesUp, NoPoll
  <2>2. TypeOK'
    BY <1>0, <1>11, <2>1 DEF TypeOK, PollFetches, PollGivesUp
  <2>3. \A i \in Jobs : PendingOK(i)' /\ HandlerOK(i)' /\ RowOK(i)'
    BY <1>0, <1>11 DEF PollFetches, PollGivesUp, PendingOK, HandlerOK, RowOK
  <2>4. \A q \in Polls : PollOK(q)'
    BY <1>0, <1>11, <2>1 DEF TypeOK, PollFetches, PollGivesUp, PollOK, SeesEnd, NoPoll
  <2> QED
    BY <2>2, <2>3, <2>4 DEF IInv
<1>12. ASSUME NEW p \in Polls, PollCommits(p) PROVE IInv'
  <2> DEFINE k == poll[p].job
  <2>1. poll[p] \in [at : {"read", "changed"}, job : Jobs, read : Row]
    BY <1>0, <1>12 DEF TypeOK, PollCommits, NoPoll
  <2>2. k \in Jobs /\ row[k].ibm /\ ibm[k] \in Ended /\ row[k] \in Row
    BY <1>0, <1>12, <2>1 DEF PollOK, PollCommits, TypeOK
  <2>3. row' = [row EXCEPT ![k] = [row[k] EXCEPT !.status = "completed"]]
    BY <1>12, <2>2 DEF PollCommits, WriteStatus
  <2>4. TypeOK'
    <3>1. [row[k] EXCEPT !.status = "completed"] \in Row
      BY <2>2 DEF Row
    <3>2. row' \in [Jobs -> Row]
      BY <1>0, <2>2, <2>3, <3>1 DEF TypeOK
    <3> QED
      BY <1>0, <1>12, <3>2 DEF TypeOK, PollCommits
  <2>5. row[k].status \in {"qpu_submitted", "completed"} /\ row[k] # Absent
    BY <1>0, <2>2 DEF RowOK, Absent
  <2>6. \A i \in Jobs : row'[i].ibm = row[i].ibm /\ row'[i].charge = row[i].charge
                        /\ (i # k => row'[i] = row[i])
                        /\ (i = k => row'[i].status = "completed")
    BY <1>0, <2>2, <2>3 DEF TypeOK, Row
  <2>7. \A i \in Jobs : PendingOK(i)' /\ HandlerOK(i)' /\ RowOK(i)'
    BY <1>0, <1>12, <2>2, <2>5, <2>6 DEF PollCommits, PendingOK, HandlerOK, RowOK
  <2>8. \A q \in Polls : PollOK(q)'
    BY <1>0, <1>12, <2>6 DEF TypeOK, PollCommits, PollOK, NoPoll
  <2> QED
    BY <2>4, <2>7, <2>8 DEF IInv
<1>13. CASE Purge
  <2>1. PICK expired \in SUBSET {j \in Jobs : row[j].payload = "stored"} :
          row' = [j \in Jobs |-> IF j \in expired THEN [row[j] EXCEPT !.payload = "purged"]
                                 ELSE row[j]]
    BY <1>13 DEF Purge
  <2>2. \A i \in Jobs : /\ row[i] \in Row /\ row'[i] \in Row
                        /\ row'[i].ibm = row[i].ibm /\ row'[i].charge = row[i].charge
                        /\ row'[i].status = row[i].status
                        /\ row[i] = Absent => row'[i] = Absent
    <3> TAKE i \in Jobs
    <3>1. row[i] \in Row /\ row'[i] = IF i \in expired THEN [row[i] EXCEPT !.payload = "purged"]
                                      ELSE row[i]
      BY <1>0, <2>1 DEF TypeOK
    <3>2. i \in expired => row[i] # Absent
      BY <2>1 DEF Absent
    <3> QED
      BY <3>1, <3>2 DEF Row
  <2>3. TypeOK'
    BY <1>0, <1>13, <2>1, <2>2 DEF TypeOK, Purge
  <2>4. \A i \in Jobs : PendingOK(i)' /\ HandlerOK(i)' /\ RowOK(i)'
    BY <1>0, <1>13, <2>2 DEF Purge, PendingOK, HandlerOK, RowOK
  <2>5. \A q \in Polls : PollOK(q)'
    BY <1>0, <1>13, <2>2 DEF TypeOK, Purge, PollOK, NoPoll
  <2> QED
    BY <2>3, <2>4, <2>5 DEF IInv
<1>14. CASE Crash
  <2>1. TypeOK'
    BY <1>0, <1>14, RowFacts DEF TypeOK, Crash
  <2>2. \A i \in Jobs : PendingOK(i)' /\ HandlerOK(i)' /\ RowOK(i)'
    BY <1>0, <1>14 DEF TypeOK, Crash, PendingOK, HandlerOK, RowOK, Absent
  <2>3. \A q \in Polls : PollOK(q)'
    BY <1>14 DEF Crash, PollOK, NoPoll
  <2> QED
    BY <2>1, <2>2, <2>3 DEF IInv
<1>15. CASE UNCHANGED vars
  BY <1>0, <1>15 DEF vars, IInv, TypeOK, PendingOK, HandlerOK, RowOK, PollOK
<1> QED
  BY <1>1, <1>3, <1>4, <1>5, <1>6, <1>7, <1>8, <1>9, <1>10, <1>11, <1>12, <1>13, <1>14,
     <1>15 DEF Next

THEOREM Invariance == Spec => []IInv
<1>1. Init => IInv
  BY InitIInv
<1>2. IInv /\ [Next]_vars => IInv'
  BY NextIInv
<1> QED
  BY <1>1, <1>2, PTL DEF Spec

\* The types of the jobs' variables.
THEOREM TypeCorrect == Spec => []TypeOK
<1>1. IInv => TypeOK
  BY DEF IInv
<1> QED
  BY <1>1, Invariance, PTL

\* Every row tells the truth about the run at IBM, however polls, purges and
\* crashes interleave.
THEOREM StatusTrue == Spec => []StatusTruthful
<1>1. IInv => StatusTruthful
  BY DEF IInv, RowOK, StatusTruthful
<1> QED
  BY <1>1, Invariance, PTL

\* Whoever was told that no engine gave a result has a failed job.
THEOREM FailureKept == Spec => []FailureRecorded
<1>1. IInv => FailureRecorded
  BY DEF IInv, RowOK, FailureRecorded
<1> QED
  BY <1>1, Invariance, PTL

\* What a step may do to a row that is there.
Kept(j) ==
  row[j] # Absent =>
    /\ row'[j] # Absent
    /\ row[j].status \in Final => row'[j].status = row[j].status
    /\ row[j].payload = "purged" => row'[j].payload = "purged"
    /\ row'[j].ibm = row[j].ibm

LEMMA NextKeeps ==
  ASSUME IInv, Next, NEW j \in Jobs, row[j] # Absent
  PROVE  Kept(j)
<1>0. /\ row \in [Jobs -> Row]
      /\ \A i \in Jobs : HandlerOK(i) /\ RowOK(i)
      /\ \A p \in Polls : PollOK(p)
  BY DEF IInv, TypeOK
<1>1. CASE row' = row
  BY <1>1 DEF Kept
<1>2. ASSUME NEW i \in Jobs, RouteFails(i) \/ Commit(i) PROVE Kept(j)
  <2>1. row[i] = Absent
    BY <1>0, <1>2 DEF HandlerOK, Waiting, Started, Open, RouteFails, Commit, Goto
  <2>2. row'[j] = row[j]
    BY <1>0, <1>2, <2>1 DEF RouteFails, KeepFailed, Commit
  <2> QED
    BY <2>2 DEF Kept
<1>3. ASSUME NEW p \in Polls, PollCommits(p) PROVE Kept(j)
  <2> DEFINE k == poll[p].job
  <2>1. k \in Jobs /\ row[k].ibm
    BY <1>0, <1>3 DEF PollCommits, PollOK, IInv, TypeOK, NoPoll
  <2>2. row' = [row EXCEPT ![k] = [row[k] EXCEPT !.status = "completed"]]
    BY <1>3, <2>1 DEF PollCommits, WriteStatus
  <2>3. CASE j # k
    BY <1>0, <2>1, <2>2, <2>3 DEF Kept
  <2>4. CASE j = k
    <3>1. row[j] \in Row /\ row'[j] = [row[j] EXCEPT !.status = "completed"]
      BY <1>0, <2>2, <2>4
    <3>2. row[j].status \in {"qpu_submitted", "completed"}
      BY <1>0, <2>1, <2>4 DEF RowOK
    <3> QED
      BY <3>1, <3>2 DEF Kept, Final, Row, Absent
  <2> QED
    BY <2>3, <2>4
<1>4. CASE Purge
  <2>1. row[j] \in Row /\ row'[j] \in {row[j], [row[j] EXCEPT !.payload = "purged"]}
    BY <1>0, <1>4 DEF Purge
  <2> QED
    BY <2>1 DEF Kept, Row, Absent
<1> QED
  BY <1>1, <1>2, <1>3, <1>4 DEF Next, Receive, Refuse, RouteFails, Submit, Persist, Respond,
     Commit, IbmEnds, PollFetches, PollGivesUp, PollCommits, PollReads, Crash, Raise

\* No step takes a written row, its final status, its purge or its run back.
THEOREM RecordsKept == Spec => RecordKept
<1> DEFINE A == \A j \in Jobs : row[j] # Absent =>
                  /\ row'[j] # Absent
                  /\ row[j].status \in Final => row'[j].status = row[j].status
                  /\ row[j].payload = "purged" => row'[j].payload = "purged"
                  /\ row'[j].ibm = row[j].ibm
<1>1. IInv /\ [Next]_vars => A
  BY NextKeeps DEF Kept, vars
<1> QED
  BY <1>1, Invariance, PTL DEF Spec, RecordKept

-----------------------------------------------------------------------------
(* The refinement of JobHistory *)

\* Until it is answered, a customer was told nothing, and the answer is the
\* status of the row that is then committed.
ToldOK(j) ==
  /\ handler[j] \in {"new", "working", "submitted", "persisted"} => told[j] = "nothing"
  /\ handler[j] = "replied" => told[j] = pending[j].status
  /\ handler[j] \in Open /\ pending[j].status = "completed" => ibm[j] = "none"

AllTold == \A j \in Jobs : ToldOK(j)

LEMMA NextTold == IInv /\ AllTold /\ [Next]_vars => AllTold'
<1> USE DEF Open, request
<1> SUFFICES ASSUME IInv, AllTold, [Next]_vars, NEW j \in Jobs PROVE ToldOK(j)'
  BY DEF AllTold
<1>0. TypeOK /\ ToldOK(j) /\ PendingOK(j) /\ HandlerOK(j)
  BY DEF IInv, AllTold
<1>1. ASSUME NEW i \in Jobs, Receive(i) \/ Refuse(i) \/ RouteFails(i) \/ Submit(i)
      PROVE  ToldOK(j)'
  BY <1>0, <1>1 DEF TypeOK, Receive, Refuse, RouteFails, Submit, Raise, Goto, Answer, ToldOK,
     PendingOK
<1>2. ASSUME NEW i \in Jobs, Persist(i) PROVE ToldOK(j)'
  <2>1. handler[i] = "submitted" <=> NewRow(i).status # "completed"
    BY DEF NewRow
  <2>2. handler[i] \in {"working", "submitted"} => ToldOK(i) /\ HandlerOK(i)
    BY DEF IInv, AllTold
  <2> QED
    BY <1>0, <1>2, <2>1, <2>2 DEF TypeOK, Persist, Raise, Answer, ToldOK, HandlerOK, Started
<1>3. ASSUME NEW i \in Jobs, Respond(i) \/ Commit(i) PROVE ToldOK(j)'
  BY <1>0, <1>3 DEF TypeOK, Respond, Commit, Goto, Answer, ToldOK
<1>4. ASSUME NEW i \in Jobs, IbmEnds(i) PROVE ToldOK(j)'
  BY <1>0, <1>4 DEF TypeOK, IbmEnds, ToldOK
<1>5. CASE Crash
  BY <1>0, <1>5 DEF TypeOK, Crash, ToldOK
<1>6. CASE UNCHANGED <<handler, told, pending, ibm>>
  BY <1>0, <1>6 DEF ToldOK
<1> QED
  BY <1>1, <1>2, <1>3, <1>4, <1>5, <1>6 DEF Next, vars, PollReads, PollFetches, PollGivesUp,
     PollCommits, Purge

LEMMA ToldInvariance == Spec => []AllTold
<1>1. Init => AllTold
  BY DEF Init, AllTold, ToldOK, Open
<1> QED
  BY <1>1, NextTold, Invariance, PTL DEF Spec

LEMMA HistoryInit == Init => History!HInit
BY RowFacts DEF Init, History!HInit, HRun, HEntry, HPayload, Absent, Ended

LEMMA HistoryStutter ==
  ASSUME told' = told, ibm' = ibm,
         \A j \in Jobs : row'[j].status = row[j].status /\ row'[j].payload = row[j].payload
  PROVE  UNCHANGED History!hvars
BY DEF History!hvars, HRun, HEntry, HPayload

LEMMA HistoryRaise ==
  ASSUME IInv, AllTold, NEW j \in Jobs, handler[j] \in {"working", "submitted"},
         Raise(j, "error"),
         \/ UNCHANGED ibm
         \/ handler[j] = "working" /\ ibm' = [ibm EXCEPT ![j] = "queued"]
  PROVE  History!HNext
<1>1. told[j] = "nothing" /\ (handler[j] = "working" => ibm[j] = "none")
  BY DEF IInv, AllTold, ToldOK, HandlerOK, Started
<1>2. told' = [told EXCEPT ![j] = "error"] /\ HEntry' = HEntry /\ HPayload' = HPayload
  BY DEF Raise, Answer, HEntry, HPayload
<1>3. CASE UNCHANGED ibm
  <2>1. HRun' = HRun
    BY <1>3 DEF HRun
  <2>2. History!Answered(j)
    BY <1>1, <1>2, <2>1 DEF History!Answered, History!Set
  <2> QED
    BY <2>2 DEF History!HNext
<1>4. CASE handler[j] = "working" /\ ibm' = [ibm EXCEPT ![j] = "queued"]
  <2>1. HRun[j] = "none" /\ HRun' = [HRun EXCEPT ![j] = "going"]
    BY <1>1, <1>4 DEF HRun, IInv, TypeOK, Ended
  <2>2. History!StartRun(j)
    BY <1>1, <1>2, <2>1 DEF History!StartRun, History!Set
  <2> QED
    BY <2>2 DEF History!HNext
<1> QED
  BY <1>3, <1>4

LEMMA HistorySubmit ==
  ASSUME IInv, AllTold, NEW j \in Jobs, Submit(j)
  PROVE  History!HNext
<1>1. CASE Raise(j, "error")
  BY <1>1, HistoryRaise DEF Submit
<1>2. CASE UNCHANGED <<told, row>>
  <2>1. told[j] = "nothing" /\ ibm[j] = "none"
    BY DEF Submit, IInv, AllTold, ToldOK, HandlerOK, Started
  <2>2. HRun[j] = "none" /\ HRun' = [HRun EXCEPT ![j] = "going"]
    BY <2>1 DEF HRun, IInv, TypeOK, Submit, Ended
  <2>3. HEntry' = HEntry /\ HPayload' = HPayload
    BY <1>2 DEF HEntry, HPayload
  <2>4. History!StartRun(j)
    BY <1>2, <2>1, <2>2, <2>3 DEF History!StartRun, History!Set
  <2> QED
    BY <2>4 DEF History!HNext
<1> QED
  BY <1>1, <1>2 DEF Submit

LEMMA HistoryRouteFails ==
  ASSUME IInv, AllTold, NEW j \in Jobs, RouteFails(j)
  PROVE  History!HNext
<1>1. told[j] = "nothing" /\ ibm[j] = "none" /\ row[j] = Absent
  BY DEF RouteFails, IInv, AllTold, ToldOK, HandlerOK, Started, Waiting
<1>2. HRun[j] = "none" /\ HRun' = HRun /\ HEntry[j] = "absent"
  BY <1>1, RowFacts DEF HRun, HEntry, RouteFails, Ended
<1>3. /\ HEntry' = [HEntry EXCEPT ![j] = "failed"]
      /\ HPayload' = [HPayload EXCEPT ![j] = "stored"]
  BY DEF RouteFails, KeepFailed, HEntry, HPayload, FailedRow, IInv, TypeOK
<1>4. History!AnsweredFailure(j)
  BY <1>1, <1>2, <1>3 DEF RouteFails, Answer, History!AnsweredFailure, History!Set
<1> QED
  BY <1>4 DEF History!HNext

LEMMA HistoryRespond ==
  ASSUME IInv, AllTold, NEW j \in Jobs, Respond(j)
  PROVE  History!HNext
<1>1. /\ told[j] = "nothing" /\ told' = [told EXCEPT ![j] = pending[j].status]
      /\ \/ pending[j].status = "completed" /\ ibm[j] = "none"
         \/ pending[j].status = "qpu_submitted" /\ ibm[j] # "none"
  BY DEF Respond, Goto, Answer, IInv, AllTold, ToldOK, PendingOK, Open
<1>2. UNCHANGED <<HRun, HEntry, HPayload>>
  BY DEF Respond, HRun, HEntry, HPayload
<1>3. HRun[j] = "none" <=> ibm[j] = "none"
  BY DEF HRun, Ended, IInv, TypeOK
<1>4. History!Answered(j)
  BY <1>1, <1>2, <1>3 DEF History!Answered, History!Set
<1> QED
  BY <1>4 DEF History!HNext

\* The row that is committed is the one that was answered, with its payload.
PayloadOK == \A j \in Jobs : handler[j] \in Open => pending[j].payload = "stored"

LEMMA NextPayload == IInv /\ PayloadOK /\ [Next]_vars => PayloadOK'
<1> USE DEF Open, request
<1> SUFFICES ASSUME IInv, PayloadOK, [Next]_vars, NEW j \in Jobs, handler'[j] \in Open
             PROVE  pending'[j].payload = "stored"
  BY DEF PayloadOK
<1>0. TypeOK /\ (handler[j] \in Open => pending[j].payload = "stored")
  BY DEF IInv, PayloadOK
<1>1. ASSUME NEW i \in Jobs, Receive(i) \/ Refuse(i) \/ RouteFails(i) \/ Submit(i)
                             \/ Respond(i) \/ Commit(i)
      PROVE  pending'[j].payload = "stored"
  BY <1>0, <1>1 DEF TypeOK, Receive, Refuse, RouteFails, Submit, Respond, Commit, Raise, Goto
<1>2. ASSUME NEW i \in Jobs, Persist(i) PROVE pending'[j].payload = "stored"
  BY <1>0, <1>2 DEF TypeOK, Persist, Raise, NewRow
<1>3. CASE UNCHANGED <<handler, pending>>
  BY <1>0, <1>3
<1>4. CASE Crash
  BY <1>0, <1>4 DEF TypeOK, Crash
<1> QED
  BY <1>1, <1>2, <1>3, <1>4 DEF Next, vars, PollReads, PollFetches, PollGivesUp,
     PollCommits, Purge, IbmEnds

LEMMA PayloadInvariance == Spec => []PayloadOK
<1>1. Init => PayloadOK
  BY DEF Init, PayloadOK, Open
<1> QED
  BY <1>1, NextPayload, Invariance, PTL DEF Spec

LEMMA HistoryCommit ==
  ASSUME IInv, AllTold, PayloadOK, NEW j \in Jobs, Commit(j)
  PROVE  [History!HNext]_(History!hvars)
<1>1. UNCHANGED <<told, ibm>>
  BY DEF Commit
<1>2. CASE UNCHANGED row
  BY <1>1, <1>2, HistoryStutter
<1>3. CASE row' = [row EXCEPT ![j] = pending[j]]
  <2>1. /\ row[j] = Absent /\ told[j] = pending[j].status
        /\ told[j] \in {"completed", "qpu_submitted"} /\ pending[j].payload = "stored"
    BY DEF Commit, Goto, IInv, AllTold, ToldOK, PendingOK, HandlerOK, PayloadOK, Waiting, Open
  <2>2. HEntry[j] = "absent" /\ HRun' = HRun
    BY <1>1, <2>1, RowFacts DEF HEntry, HRun
  <2>3. /\ HEntry' = [HEntry EXCEPT ![j] = told[j]]
        /\ HPayload' = [HPayload EXCEPT ![j] = "stored"]
    BY <1>3, <2>1 DEF HEntry, HPayload, IInv, TypeOK
  <2>4. History!Recorded(j)
    BY <1>1, <2>1, <2>2, <2>3 DEF History!Recorded, History!Set
  <2> QED
    BY <2>4 DEF History!HNext
<1> QED
  BY <1>2, <1>3 DEF Commit

LEMMA HistoryIbmEnds ==
  ASSUME IInv, NEW j \in Jobs, IbmEnds(j)
  PROVE  History!HNext
<1>1. ibm[j] = "queued" /\ ibm \in [Jobs -> {"none", "queued"} \union Ended]
  BY DEF IbmEnds, IInv, TypeOK
<1>2. PICK end \in Ended : ibm' = [ibm EXCEPT ![j] = end]
  BY DEF IbmEnds
<1>3. HRun[j] = "going" /\ HRun' = [HRun EXCEPT ![j] = "ended"]
  BY <1>1, <1>2 DEF HRun, Ended
<1>4. History!EndRun(j)
  BY <1>3 DEF IbmEnds, HEntry, HPayload, History!EndRun, History!Set
<1> QED
  BY <1>4 DEF History!HNext

\* A poll that writes completes the entry, or finds it completed by another.
LEMMA HistoryPollCommits ==
  ASSUME IInv, NEW p \in Polls, PollCommits(p)
  PROVE  [History!HNext]_(History!hvars)
<1> DEFINE j == poll[p].job
<1>1. /\ j \in Jobs /\ row[j] \in Row /\ ibm[j] \in Ended
      /\ row[j].status \in {"qpu_submitted", "completed"}
  BY DEF PollCommits, IInv, TypeOK, PollOK, RowOK, NoPoll
<1>2. row' = [row EXCEPT ![j] = [row[j] EXCEPT !.status = "completed"]]
  BY <1>1 DEF PollCommits, WriteStatus
<1>3. \A i \in Jobs : /\ row'[i].payload = row[i].payload
                      /\ row'[i].status = IF i = j THEN "completed" ELSE row[i].status
  BY <1>1, <1>2 DEF Row, IInv, TypeOK
<1>4. told' = told /\ ibm' = ibm
  BY DEF PollCommits
<1>5. CASE row[j].status = "completed"
  BY <1>3, <1>4, <1>5, HistoryStutter
<1>6. CASE row[j].status = "qpu_submitted"
  <2>1. HEntry[j] = "qpu_submitted" /\ HRun[j] = "ended"
    BY <1>1, <1>6 DEF HEntry, HRun
  <2>2. HEntry' = [HEntry EXCEPT ![j] = "completed"] /\ HPayload' = HPayload /\ HRun' = HRun
    BY <1>1, <1>3, <1>4 DEF HEntry, HPayload, HRun
  <2>3. History!Completed(j)
    BY <1>4, <2>1, <2>2 DEF History!Completed, History!Set
  <2> QED
    BY <1>1, <2>3 DEF History!HNext
<1> QED
  BY <1>1, <1>5, <1>6

LEMMA HistoryPurge == ASSUME IInv, Purge PROVE History!HNext
<1>1. PICK S \in SUBSET {j \in Jobs : row[j].payload = "stored"} :
        row' = [j \in Jobs |-> IF j \in S THEN [row[j] EXCEPT !.payload = "purged"] ELSE row[j]]
  BY DEF Purge
<1>2. \A j \in Jobs : /\ row'[j].status = row[j].status
                      /\ row'[j].payload = IF j \in S THEN "purged" ELSE row[j].payload
  BY <1>1 DEF Row, IInv, TypeOK
<1>3. /\ HEntry' = HEntry /\ HRun' = HRun
      /\ HPayload' = [j \in Jobs |-> IF j \in S THEN "purged" ELSE HPayload[j]]
      /\ \A j \in S : HPayload[j] = "stored"
  BY <1>2 DEF Purge, HEntry, HRun, HPayload
<1>4. History!Purged(S)
  BY <1>3 DEF Purge, History!Purged
<1> QED
  BY <1>4 DEF History!HNext

LEMMA HistoryStep ==
  ASSUME IInv, AllTold, PayloadOK, [Next]_vars
  PROVE  [History!HNext]_(History!hvars)
<1>1. ASSUME NEW j \in Jobs, Refuse(j) PROVE History!HNext
  BY <1>1, HistoryRaise DEF Refuse
<1>2. ASSUME NEW j \in Jobs, Persist(j) PROVE [History!HNext]_(History!hvars)
  <2>1. CASE Raise(j, "error")
    BY <1>2, <2>1, HistoryRaise DEF Persist
  <2>2. CASE UNCHANGED <<told, row>>
    BY <1>2, <2>2, HistoryStutter DEF Persist
  <2> QED
    BY <1>2, <2>1, <2>2 DEF Persist
<1>3. CASE UNCHANGED <<told, row, ibm>>
  BY <1>3, HistoryStutter
<1> QED
  BY <1>1, <1>2, <1>3, HistorySubmit, HistoryRouteFails, HistoryRespond, HistoryCommit,
     HistoryIbmEnds, HistoryPollCommits, HistoryPurge
  DEF Next, vars, Receive, PollReads, PollFetches, PollGivesUp, Crash

\* Whatever handlers, polls, purges and crashes do, the customer sees the
\* history of JobHistory: the answer is true of the run, the history repeats
\* the answer, and then it changes only when the run has ended.
THEOREM HistoryImplemented == Spec => ImplementsHistory
<1>1. IInv /\ AllTold /\ PayloadOK /\ [Next]_vars => [History!HNext]_(History!hvars)
  BY HistoryStep
<1> QED
  BY <1>1, HistoryInit, Invariance, ToldInvariance, PayloadInvariance, PTL
     DEF Spec, ImplementsHistory, History!HSpec

=============================================================================
