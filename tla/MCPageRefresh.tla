--------------------------- MODULE MCPageRefresh ---------------------------
(* PageRefresh for TLC's safety runs: every task runs the same code, and so *)
(* does every page as long as Responsive, a matter of fairness, is not used. *)
EXTENDS PageRefresh, TLC

Symmetry == Permutations(Tasks) \cup Permutations(Pages)
=============================================================================
