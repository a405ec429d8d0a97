------------------------------- MODULE MCJobs -------------------------------
(* Jobs with two requests and two polls in flight. *)
EXTENDS Jobs, TLC

CONSTANTS j1, j2, p1, p2

MCJobs   == {j1, j2}
MCPolls  == {p1, p2}
Symmetry == Permutations(MCJobs) \union Permutations(MCPolls)

=============================================================================
