---------------------------- MODULE DocumentChunks ----------------------------
(***************************************************************************)
(* How an extracted document becomes chunks: the whitespace tokenizer, the *)
(* two chunkers and the planner of embedding batches, as functions.        *)
(*                                                                         *)
(* A document is a sequence of blocks.  A block has a type and the numbers *)
(* of tokens of its lines, blank lines left out; a block without lines is  *)
(* blank.  What a token says does not matter: the token k of line l of     *)
(* block i is <<i, l, k>>, and a text is a sequence of tokens.  markdown   *)
(* says whether the first two lines look like the header of a table.       *)
(***************************************************************************)
EXTENDS Integers, Sequences, FiniteSets, SequencesExt, FiniteSetsExt

BlockTypes == {"heading", "paragraph", "table", "list", "code", "other"}
Strategies == {"fixed_token_v1", "heading_aware_v1"}

ExtractedBlock == [type : BlockTypes, lines : Seq(Nat \ {0}), markdown : BOOLEAN]

\* ChunkingConfig.__post_init__
ValidConfig(c) ==
    /\ c.strategy \in Strategies
    /\ c.max_tokens \in Nat \ {0}
    /\ c.overlap_tokens \in 0 .. c.max_tokens - 1
    /\ c.preserve_tables \in BOOLEAN

-----------------------------------------------------------------------------
(* Texts *)

Blank(block) == block.lines = <<>>

LineTokens(doc, i, l) == [k \in 1 .. doc[i].lines[l] |-> <<i, l, k>>]

LinesText(doc, i, ls) == FlattenSeq([n \in DOMAIN ls |-> LineTokens(doc, i, ls[n])])

BlockText(doc, i) == LinesText(doc, i, [l \in DOMAIN doc[i].lines |-> l])

\* "\n\n".join of the texts of the blocks whose numbers are in s.
JoinedText(doc, s) == FlattenSeq([n \in DOMAIN s |-> BlockText(doc, s[n])])

-----------------------------------------------------------------------------
(* WhitespaceReferenceTokenizer.split *)

\* A piece starts every max - overlap tokens, until one reaches the end.
Split(tokens, max, overlap) ==
    LET step == max - overlap
        starts == {i \in 0 .. Len(tokens) - 1 :
                        i % step = 0 /\ (i = 0 \/ i + overlap < Len(tokens))}
        upTo(i) == Min({i + max, Len(tokens)})
    IN  [n \in 1 .. Cardinality(starts) |->
            SubSeq(tokens, (n - 1) * step + 1, upTo((n - 1) * step))]

-----------------------------------------------------------------------------
(* The chunkers.  `title` is the number of the section's heading, or 0.    *)

ContentType(doc, s) ==
    LET types == {doc[s[n]].type : n \in DOMAIN s}
    IN  IF types = {"table"} THEN "table"
        ELSE IF types = {"code"} THEN "code"
        ELSE IF types \cap {"table", "code"} # {} THEN "mixed" ELSE "text"

\* _DraftBuilder.add; chunk_index is the place in the sequence.
Draft(content, title, type) == [content |-> content, title |-> title, type |-> type]

Drafts(doc, pieces, s, title) ==
    [n \in DOMAIN pieces |-> Draft(pieces[n], title, ContentType(doc, s))]

\* The members of S among the first n numbers, in their order.
InTheirOrder(S, n) == FlattenSeq([i \in 1 .. n |-> IF i \in S THEN <<i>> ELSE <<>>])

FixedTokenChunks(doc, c) ==
    LET s == InTheirOrder({i \in DOMAIN doc : ~ Blank(doc[i])}, Len(doc))
    IN  Drafts(doc, Split(JoinedText(doc, s), c.max_tokens, c.overlap_tokens), s, 0)

EmitTextBlocks(doc, c, s, title) ==
    Drafts(doc, Split(JoinedText(doc, s), c.max_tokens, c.overlap_tokens), s, title)

\* The last of the rows from l on that fit together; l itself is not asked.
LastRow(doc, c, i, l) ==
    Max({m \in l .. Len(doc[i].lines) :
            m = l \/ Len(LinesText(doc, i, <<1, 2>> \o [k \in 1 .. m - l + 1 |-> l + k - 1]))
                        <= c.max_tokens})

\* The rows come in groups, each under the header's two lines.  A row that is
\* too long alone is split, unless it is the one that made a group end: whether
\* a row fits is asked of the group it would join, not of the one it starts.
EmitTable(doc, c, i, title) ==
    LET Group(l, m) == LinesText(doc, i, <<1, 2>> \o [k \in 1 .. m - l + 1 |-> l + k - 1])
        \* From the row at[1] on; at[2] is FALSE if it made the group before end.
        rows[at \in (3 .. Len(doc[i].lines) + 1) \X BOOLEAN] ==
            LET l == at[1]
                m == LastRow(doc, c, i, l)
            IN  IF l > Len(doc[i].lines) THEN <<>>
                ELSE IF at[2] /\ Len(Group(l, l)) > c.max_tokens
                THEN Drafts(doc, Split(Group(l, l), c.max_tokens, 0), <<i>>, title)
                        \o rows[<<l + 1, TRUE>>]
                ELSE <<Draft(Group(l, m), title, "table")>> \o rows[<<m + 1, FALSE>>]
    IN  IF Len(doc[i].lines) < 3 \/ ~ doc[i].markdown
        THEN EmitTextBlocks(doc, c, <<i>>, title)
        ELSE rows[<<3, TRUE>>]

\* Mutant: the text that is pending when a table comes is not emitted before it.
EmitSectionUnflushed(doc, c, s, title) ==
    LET StandsAlone(i) == c.preserve_tables /\ doc[i].type = "table"
        table(n) == IF StandsAlone(s[n]) THEN EmitTable(doc, c, s[n], title) ELSE <<>>
        pending == SelectSeq(s, LAMBDA i : ~ StandsAlone(i))
    IN  IF s = <<>> THEN <<>>
        ELSE IF Len(JoinedText(doc, s)) <= c.max_tokens
        THEN <<Draft(JoinedText(doc, s), title, ContentType(doc, s))>>
        ELSE FlattenSeq([n \in DOMAIN s |-> table(n)]) \o EmitTextBlocks(doc, c, pending, title)

\* A section that fits is one chunk; of another the tables stand alone.
EmitSection(doc, c, s, title) ==
    LET StandsAlone(n) == c.preserve_tables /\ doc[s[n]].type = "table"
        textEnd(n) == Max({m \in n .. Len(s) : \A k \in n .. m : ~ StandsAlone(k)})
        blocks[n \in 1 .. Len(s) + 1] ==
            IF n > Len(s) THEN <<>>
            ELSE IF StandsAlone(n) THEN EmitTable(doc, c, s[n], title) \o blocks[n + 1]
            ELSE EmitTextBlocks(doc, c, SubSeq(s, n, textEnd(n)), title) \o blocks[textEnd(n) + 1]
    IN  IF s = <<>> THEN <<>>
        ELSE IF Len(JoinedText(doc, s)) <= c.max_tokens
        THEN <<Draft(JoinedText(doc, s), title, ContentType(doc, s))>>
        ELSE blocks[1]

\* A heading ends the section before it and is not in a section's blocks; the
\* blocks before the first heading are the section 0.
HeadingAwareChunks(doc, c) ==
    LET headings == {i \in DOMAIN doc : doc[i].type = "heading"}
        heads == <<0>> \o InTheirOrder(headings, Len(doc))
        InSection(i, h) == i > h /\ ~ Blank(doc[i]) /\ (h + 1 .. i) \cap headings = {}
        Blocks(h) == InTheirOrder({i \in DOMAIN doc : InSection(i, h)}, Len(doc))
        title(h) == IF h = 0 \/ Blank(doc[h]) THEN 0 ELSE h
    IN  FlattenSeq([n \in DOMAIN heads |->
            EmitSection(doc, c, Blocks(heads[n]), title(heads[n]))])

\* ChunkerResolver.resolve and Chunker.chunk
Chunk(doc, c) ==
    IF c.strategy = "fixed_token_v1" THEN FixedTokenChunks(doc, c)
    ELSE HeadingAwareChunks(doc, c)

-----------------------------------------------------------------------------
(* plan_batches: a batch is the sequence of the numbers of its chunks *)

TokenCount(chunks, n, m) ==
    Len(FlattenSeq([k \in 1 .. m - n + 1 |-> chunks[n + k - 1].content]))

\* The last chunk of a batch that begins with chunk n.
LastOfBatch(chunks, size, tokens, n) ==
    Max({m \in n .. Min({n + size - 1, Len(chunks)}) :
            m = n \/ TokenCount(chunks, n, m) <= tokens})

PlanBatches(chunks, size, tokens) ==
    LET from[n \in 1 .. Len(chunks) + 1] ==
            IF n > Len(chunks) THEN <<>>
            ELSE LET m == LastOfBatch(chunks, size, tokens, n)
                 IN  <<[k \in 1 .. m - n + 1 |-> n + k - 1]>> \o from[m + 1]
    IN  from[1]

-----------------------------------------------------------------------------
(* ordered_vectors.  An answer of the provider is a sequence of vectors    *)
(* with the index, from 0, of the input they were made of.                 *)

\* Mutant: the answer is taken in the order in which it came.
VectorsAsTheyCame(answer, n) ==
    IF Len(answer) = n /\ IsInjective(answer) /\ ToSet(answer) \subseteq 0 .. n - 1
    THEN answer ELSE <<>>

\* The vectors in the order of the inputs; <<>> for an answer that is refused
\* for its count, an unknown index or an index it has twice.
OrderedVectors(answer, n) ==
    IF Len(answer) = n /\ IsInjective(answer) /\ ToSet(answer) \subseteq 0 .. n - 1
    THEN [k \in 1 .. n |-> answer[CHOOSE j \in 1 .. n : answer[j] = k - 1]]
    ELSE <<>>

=============================================================================
