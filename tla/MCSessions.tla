----------------------------- MODULE MCSessions -----------------------------
(* Interchangeable tokens and threads for TLC.                             *)
EXTENDS Sessions, TLC

Symmetry == Permutations(AccessToken) \cup Permutations(TempToken) \cup Permutations(Thread)
                \cup Permutations(Secret)
=============================================================================
