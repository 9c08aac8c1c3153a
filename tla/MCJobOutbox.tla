---------------------------- MODULE MCJobOutbox ----------------------------
(* An instance of JobOutbox for TLC. *)
EXTENDS JobOutbox

CONSTANTS a1, a2, p1, p2

=============================================================================
