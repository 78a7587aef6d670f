------------------------------- MODULE MCCache ------------------------------
(***************************************************************************)
(* Instances of Cache for TLC.                                             *)
(***************************************************************************)
EXTENDS Cache, TLC

\* Safety does not tell goroutines apart, nor questions.
Symmetry == Permutations(Procs) \cup Permutations(Keys)

=============================================================================
