-------------------------- MODULE MCEmbeddingBatches --------------------------
(* Instance of EmbeddingBatches for TLC. *)
EXTENDS EmbeddingBatches

Block(type, lines) == [type |-> type, lines |-> lines, markdown |-> FALSE]
Table(lines) == [type |-> "table", lines |-> lines, markdown |-> TRUE]

\* A table has a header of two lines of one token each.
Blocks == {
    Block("heading", <<1>>), Block("heading", <<>>),
    Block("paragraph", <<1>>), Block("paragraph", <<5>>), Block("code", <<2>>),
    Block("table", <<2, 2>>), Table(<<1, 1, 2, 1>>),
    Table(<<1, 1, 3, 1>>), Table(<<1, 1, 1, 3, 1>>)}

Size(doc) == FoldFunction(LAMBDA block, n : n + FoldFunction(+, 0, block.lines), 0, doc)

MCDocuments ==
    {doc \in BoundedSeq(Blocks, 3) : Size(doc) <= <<0, 7, 6, 3>>[Len(doc) + 1]}

MCConfigs == {c \in [strategy : Strategies, max_tokens : {4}, overlap_tokens : {0, 1},
                     preserve_tables : BOOLEAN] :
                c.preserve_tables \/ (c.strategy = "heading_aware_v1" /\ c.overlap_tokens = 0)}

=============================================================================
