----------------------------- MODULE MCCacheFile ----------------------------
(***************************************************************************)
(* Instances of CacheFile for TLC.                                         *)
(***************************************************************************)
EXTENDS CacheFile, TLC

\* Safety does not tell goroutines apart, nor questions.
Symmetry == Permutations(Procs) \cup Permutations(Keys)

=============================================================================
