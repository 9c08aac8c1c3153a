------------------------- MODULE MCIngestionSystem -------------------------
(* Instances of IngestionSystem for TLC. *)
EXTENDS IngestionSystem, TLC

CONSTANTS w1, w2, i1, p1

MCSkew == [w \in Workers |-> 0]

=============================================================================
