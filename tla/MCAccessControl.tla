--------------------------- MODULE MCAccessControl ---------------------------
(* Instance of AccessControl for TLC. *)
EXTENDS AccessControl, TLC

Symmetry == Permutations(Users) \cup Permutations(Identities) \cup Permutations(Requests)

=============================================================================
