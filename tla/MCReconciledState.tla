------------------------- MODULE MCReconciledState -------------------------
(* Model checking of ReconciledState on a worktree that starts clean: all   *)
(* files the index takes have the same text, the others do not exist yet.   *)
EXTENDS ReconciledState, TLC

CONSTANT Original  \* the text of every indexed file at the start

MCInit ==
  Init /\ disk = [p \in Paths |-> IF p \in Excluded THEN Absent ELSE Original]
MCSpec == MCInit /\ [][Next]_vars
MCFairSpec == MCSpec /\ Fairness

Symmetry == Permutations(Clients) \union Permutations(Paths \ Excluded)
=============================================================================
