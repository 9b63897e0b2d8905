--------------------------- MODULE MCLegacyMessages ---------------------------
(* A small instance of LegacyMessages. *)
EXTENDS LegacyMessages, TLC

MCSymmetry == Permutations(Socket)

=============================================================================
