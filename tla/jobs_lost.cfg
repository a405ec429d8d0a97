SPECIFICATION Spec
CONSTANTS
  j1 = j1
  j2 = j2
  p1 = p1
  p2 = p2
  Jobs <- MCJobs
  Polls <- MCPolls
  ExecutionAllowed = TRUE
SYMMETRY Symmetry
INVARIANTS
  SubmittedIsFound
CHECK_DEADLOCK FALSE
