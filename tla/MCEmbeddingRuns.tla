-------------------------- MODULE MCEmbeddingRuns --------------------------
(* An instance of EmbeddingRuns for TLC. *)
EXTENDS EmbeddingRuns

CONSTANTS t1, t2, c1, c2, w1, w2, q1

=============================================================================
