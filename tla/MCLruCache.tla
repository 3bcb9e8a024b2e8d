----------------------------- MODULE MCLruCache -----------------------------
(***************************************************************************)
(* Small instances of LruCache for TLC.                                    *)
(***************************************************************************)
EXTENDS LruCache, TLC

\* Threads and keys are interchangeable.
Symmetry == Permutations(Threads) \cup Permutations(Keys)
=============================================================================
