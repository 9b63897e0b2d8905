---------------------------- MODULE MCLegacyRooms ----------------------------
(* A small instance of LegacyRooms. *)
EXTENDS LegacyRooms

MCSymmetry == Permutations(User) \cup Permutations(WebSocket) \cup Permutations(Room)

=============================================================================
