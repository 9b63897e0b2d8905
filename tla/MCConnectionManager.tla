------------------------ MODULE MCConnectionManager ------------------------
(* A small registry for TLC: the values come from the configurations.      *)
EXTENDS ConnectionManager

Symmetry == Permutations(User) \cup Permutations(Room) \cup Permutations(Conn)
=============================================================================
