------------------------- MODULE MCGroupMembership -------------------------
(* Instances of GroupMembership for TLC. *)
EXTENDS GroupMembership, TLC

CONSTANTS g1, g2, g3, g4, u1, r1, r2

GroupSymmetry == Permutations(Groups) \cup Permutations(Requests)

=============================================================================
