------------------------ MODULE MCMessagePersistence ------------------------
(* A small pipeline for TLC: the values come from the configurations.      *)
EXTENDS MessagePersistence

Symmetry == Permutations(Text) \cup Permutations(Partition) \cup Permutations(Consumer)
=============================================================================
