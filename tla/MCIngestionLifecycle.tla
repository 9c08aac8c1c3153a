------------------------ MODULE MCIngestionLifecycle ------------------------
(* Instances of IngestionLifecycle for TLC. *)
EXTENDS IngestionLifecycle, TLC

CONSTANTS w1, w2, i1, i2

\* The clock of w1 is ahead of the database's, the one of w2 agrees with it.
MCSkew == w1 :> 1 @@ w2 :> 0

ItemSymmetry == Permutations(Items)

=============================================================================
