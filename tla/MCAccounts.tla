----------------------------- MODULE MCAccounts -----------------------------
(* One user and the admin for TLC; "a" and "A" are one address in lower     *)
(* case.                                                                   *)
EXTENDS Accounts, TLC

Addresses == {"a", "A", "b"}
ToLower   == [e \in Addresses |-> IF e = "A" THEN "a" ELSE e]

Symmetry == Permutations(Thread) \cup Permutations(Link)
=============================================================================
