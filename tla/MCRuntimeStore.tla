--------------------------- MODULE MCRuntimeStore ---------------------------
(* Two stable tuples around one beta, two directories, two artifacts: one    *)
(* capped at the oldest tuple, one that opts in by a prerelease floor.       *)
EXTENDS RuntimeStore

CONSTANTS user, home

Old == V(0, 266, 5, Release, 0)
Newer == V(0, 267, 0, Release, 0)
NewerBeta == V(0, 267, 0, Beta, 1)

MCTuple == {Old, NewerBeta, Newer}
MCView == {<<user>>, <<home, user>>}
MCArtifact ==
  {[NoConstraint EXCEPT !.tested = {Old}],
   [NoConstraint EXCEPT !.min = {NewerBeta}]}
=============================================================================
