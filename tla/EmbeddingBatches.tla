--------------------------- MODULE EmbeddingBatches ---------------------------
(***************************************************************************)
(* One document on its way through a worker: extraction with its fallback, *)
(* chunking, and the embedding of the chunks in batches that run at the    *)
(* same time.                                                              *)
(*                                                                         *)
(* The jobs of a worker process share an event loop that lives as long as  *)
(* the process.  asyncio.gather raises with the first batch that fails and *)
(* does not cancel the others; they go on while the loop runs, in the rest *)
(* of the job and in the next one.  So `batches` keeps those of every      *)
(* attempt.  Claims, leases and the rows of the run are in EmbeddingRuns,  *)
(* the retry of an ingestion item in IngestionLifecycle.                   *)
(***************************************************************************)
EXTENDS DocumentChunks

CONSTANTS
    Documents,    \* what may be extracted
    Configs,      \* chunking configurations
    HasFallback,  \* GEMINI_API_KEY is set
    BatchSize, MaxBatchTokens, Concurrency, MaxProviderAttempts,  \* EmbeddingRunConfig
    MaxAttempts   \* attempts of the embedding run

ASSUME DocumentsAssumption == Documents \subseteq Seq(ExtractedBlock)
ASSUME ConfigsAssumption == \A c \in Configs : ValidConfig(c)
\* EmbeddingRunConfig refuses a number that is not positive.
ValidRunConfig ==
    {BatchSize, MaxBatchTokens, Concurrency, MaxProviderAttempts} \subseteq Nat \ {0}

ASSUME RunConfigAssumption ==
    /\ ValidRunConfig
    /\ HasFallback \in BOOLEAN
    /\ MaxAttempts \in Nat \ {0}

VARIABLES
    document,  \* what the extractors find in the file
    config,    \* the chunking configuration of its run
    stage,     \* what the worker does
    chunks,    \* the stored chunks
    batches,   \* the batch tasks, by the attempt of the run
    vectors,   \* the outcome: pairs of a chunk's number and its vector's
    error      \* why the job failed

vars == <<document, config, stage, chunks, batches, vectors, error>>

Stages == {"extract", "fall back", "chunk", "load chunks", "embedding",
           "failing", "embedded", "ended"}
Running == {"embedding", "failing"}

Init ==
    /\ document \in Documents
    /\ config \in Configs
    /\ stage = "extract"
    /\ chunks = <<>>
    /\ batches = <<>>
    /\ vectors = <<>>
    /\ error = "none"

-----------------------------------------------------------------------------
(* Ingestion *)

\* An exception of no class of its own is "transient": the job handlers catch it
\* and schedule a retry.
ErrorKinds == {"transient", "permanent"}

End(kind) ==
    /\ stage' = "ended"
    /\ error' = kind

\* ExtractionPipeline.extract: an error of the provider leads to the fallback,
\* and without one its kind decides whether the item is tried again.  Any other
\* exception passes the fallback by.
ExtractPrimary ==
    /\ stage = "extract"
    /\ \/ stage' = "chunk" /\ UNCHANGED error
       \/ HasFallback /\ stage' = "fall back" /\ UNCHANGED error
       \/ ~ HasFallback /\ End("permanent")
       \/ End("transient")
    /\ UNCHANGED <<document, config, chunks, batches, vectors>>

\* _extract_with_fallback: now it is the kind of the fallback's error.
ExtractFallback ==
    /\ stage = "fall back"
    /\ \/ stage' = "chunk" /\ UNCHANGED error
       \/ \E kind \in ErrorKinds : End(kind)
    /\ UNCHANGED <<document, config, chunks, batches, vectors>>

\* Sets of their values, so that TLC evaluates Chunk and PlanBatches once.
ChunkValues == {[of |-> d, with |-> c, chunks |-> Chunk(d, c)] : d \in Documents, c \in Configs}
PlanValues == {[of |-> v.chunks, plan |-> PlanBatches(v.chunks, BatchSize, MaxBatchTokens)] :
                    v \in ChunkValues}

\* _get_chunking_config and _chunk, and the chunks are stored; CHUNKING_FAILED
\* when there is no run, its configuration is invalid or its tokenizer is not
\* there, and another exception, of the store's too, is tried again.
ChunkDocument ==
    /\ stage = "chunk"
    /\ \/ /\ \E v \in ChunkValues : v.of = document /\ v.with = config /\ chunks' = v.chunks
          /\ stage' = "load chunks"
          /\ UNCHANGED error
       \/ (\E kind \in ErrorKinds : End(kind)) /\ UNCHANGED chunks
    /\ UNCHANGED <<document, config, batches, vectors>>

-----------------------------------------------------------------------------
(* EmbeddingBatcher *)

Tasks == UNION {{a} \X DOMAIN batches[a] : a \in DOMAIN batches}

NewTask(batch) == [chunks |-> batch, state |-> "waiting", attempts |-> 0, vectors |-> <<>>]

\* The job loads the chunks, plans the batches and starts a task for each.
StartEmbedding ==
    /\ stage = "load chunks"
    /\ IF chunks = <<>>
       THEN End("permanent") /\ UNCHANGED batches
       ELSE /\ \E v \in PlanValues :
                /\ v.of = chunks
                /\ batches' = Append(batches, [b \in DOMAIN v.plan |-> NewTask(v.plan[b])])
            /\ stage' = "embedding"
            /\ UNCHANGED error
    /\ UNCHANGED <<document, config, chunks, vectors>>

Current == Len(batches)

\* Tasks of the attempt a that hold its semaphore, calls and sleeps alike.
Holding(a) == {b \in DOMAIN batches[a] : batches[a][b].state \in {"calling", "sleeping"}}

\* The task fails; the first failure of the job's own attempt raises in gather.
FailTask(a, b, kind) ==
    /\ batches' = [batches EXCEPT ![a][b].state = "failed"]
    /\ IF a = Current /\ stage = "embedding"
       THEN stage' = "failing" /\ error' = kind
       ELSE UNCHANGED <<stage, error>>

\* Each attempt has a semaphore of its own, which serves in order.  build_inputs
\* may refuse an input that cannot fit the model.
Acquire(a, b) ==
    /\ stage \in Running
    /\ batches[a][b].state = "waiting"
    /\ \A d \in 1 .. b - 1 : batches[a][d].state # "waiting"
    /\ Cardinality(Holding(a)) < Concurrency
    /\ \/ /\ batches' = [batches EXCEPT ![a][b].state = "calling", ![a][b].attempts = 1]
          /\ UNCHANGED <<stage, error>>
       \/ FailTask(a, b, "permanent")
    /\ UNCHANGED <<document, config, chunks, vectors>>

Answers(n) == UNION {[1 .. k -> 0 .. n] : k \in {n - 1, n}}

\* The provider answers, in any order of the vectors, or malformed, or it refuses;
\* an exception of no class of the provider is not tried again here but by the job.
Answer(a, b) ==
    /\ stage \in Running
    /\ batches[a][b].state = "calling"
    /\ \/ \E answer \in Answers(Len(batches[a][b].chunks)) :
            LET got == OrderedVectors(answer, Len(batches[a][b].chunks))
            IN  IF got = <<>> THEN FailTask(a, b, "permanent")
                ELSE /\ batches' = [batches EXCEPT ![a][b].state = "done",
                            ![a][b].vectors =
                                [k \in DOMAIN got |-> batches[a][b].chunks[got[k] + 1]]]
                     /\ UNCHANGED <<stage, error>>
       \/ \E kind \in ErrorKinds : FailTask(a, b, kind)
    /\ UNCHANGED <<document, config, chunks, vectors>>

\* EmbeddingProviderTransientError: back off inside the semaphore, or give up.
TransientError(a, b) ==
    /\ stage \in Running
    /\ batches[a][b].state = "calling"
    /\ IF batches[a][b].attempts >= MaxProviderAttempts
       THEN FailTask(a, b, "transient")
       ELSE /\ batches' = [batches EXCEPT ![a][b].state = "sleeping"]
            /\ UNCHANGED <<stage, error>>
    /\ UNCHANGED <<document, config, chunks, vectors>>

\* Mutant: attempt_number is set to 0 inside the loop.
WakeUncounted(a, b) ==
    /\ stage \in Running
    /\ batches[a][b].state = "sleeping"
    /\ batches' = [batches EXCEPT ![a][b].state = "calling", ![a][b].attempts = 1]
    /\ UNCHANGED <<document, config, stage, chunks, vectors, error>>

Wake(a, b) ==
    /\ stage \in Running
    /\ batches[a][b].state = "sleeping"
    /\ batches' = [batches EXCEPT ![a][b].state = "calling", ![a][b].attempts = @ + 1]
    /\ UNCHANGED <<document, config, stage, chunks, vectors, error>>

Step(a, b) == Acquire(a, b) \/ Answer(a, b) \/ TransientError(a, b) \/ Wake(a, b)

\* gather has them all, in the order of the batches, and the job persists them.
Gather ==
    /\ stage = "embedding"
    /\ \A b \in DOMAIN batches[Current] : batches[Current][b].state = "done"
    /\ vectors' = FlattenSeq([b \in DOMAIN batches[Current] |->
            LET task == batches[Current][b]
            IN  [k \in DOMAIN task.chunks |-> <<task.chunks[k], task.vectors[k]>>]])
    /\ stage' = "embedded"
    /\ UNCHANGED <<document, config, chunks, batches, error>>

\* The job handler has written the failure and returns: a transient one is
\* tried again by another job, here of the same process.
EndJob ==
    /\ stage = "failing"
    /\ IF error = "transient" /\ Current < MaxAttempts
       THEN stage' = "load chunks" /\ error' = "none"
       ELSE End(error)
    /\ UNCHANGED <<document, config, chunks, batches, vectors>>

-----------------------------------------------------------------------------

Next ==
    \/ ExtractPrimary
    \/ ExtractFallback
    \/ ChunkDocument
    \/ StartEmbedding
    \/ \E t \in Tasks : Step(t[1], t[2])
    \/ Gather
    \/ EndJob

\* What the worker waits for comes: the clients of the providers have timeouts,
\* and a coroutine that is ready is resumed.
Spec == Init /\ [][Next]_vars /\ WF_vars(Next)

-----------------------------------------------------------------------------
(* Properties *)

Chunked == stage \notin {"extract", "fall back", "chunk"} /\ (stage = "ended" => chunks # <<>>)

HeadingsBefore(token) == {i \in DOMAIN document : document[i].type = "heading" /\ i < token[1]}

Before(s, t) ==
    \/ s[1] < t[1]
    \/ s[1] = t[1] /\ s[2] < t[2]
    \/ s[1] = t[1] /\ s[2] = t[2] /\ s[3] < t[3]

\* The chunks say what the document says.  No text is lost, except the
\* headings of heading-aware chunks, which are titles.  The text keeps its order,
\* inside a chunk and from chunk to chunk: of two tokens the one that is in the
\* earlier chunk comes first, unless both are in both chunks, in an overlap, or
\* the header of their table is said again.  A chunk never crosses a heading and
\* has the title of the last one before it; without overlap nothing is said
\* twice, except a table's header; and a chunk is longer than max_tokens only if
\* it is one row of a table under its header.
ChunksCoverDocument ==
    LET aware == config.strategy = "heading_aware_v1"
        body == {i \in DOMAIN document : aware => document[i].type # "heading"}
        InOrder(content) == \A k \in 1 .. Len(content) - 1 : Before(content[k], content[k + 1])
        Header(t) ==
            document[t[1]].type = "table" /\ document[t[1]].markdown /\ t[2] <= 2
        Follows(earlier, later) ==
            \A t \in earlier, s \in later :
                Before(s, t) => \/ {s, t} \subseteq earlier \cap later
                                \/ s[1] = t[1] /\ Header(s)
        OneRow(chunk) ==
            chunk.type = "table" /\ Cardinality({t[2] : t \in ToSet(chunk.content)}) = 3
        InSection(chunk) ==
            LET heads == HeadingsBefore(chunk.content[1])
            IN  /\ \A t \in ToSet(chunk.content) : HeadingsBefore(t) = heads
                /\ chunk.title = IF heads = {} \/ Blank(document[Max(heads)]) THEN 0
                                 ELSE Max(heads)
    IN  Chunked =>
        /\ UNION {ToSet(chunks[n].content) : n \in DOMAIN chunks}
                = UNION {ToSet(BlockText(document, i)) : i \in body}
        /\ \A n \in DOMAIN chunks :
            /\ InOrder(chunks[n].content)
            /\ Len(chunks[n].content) > config.max_tokens => OneRow(chunks[n])
            /\ aware => InSection(chunks[n])
        /\ \A m, n \in DOMAIN chunks :
            m < n => Follows(ToSet(chunks[m].content), ToSet(chunks[n].content))
        /\ config.overlap_tokens = 0 =>
            \A m, n \in DOMAIN chunks :
                m # n => \A t \in ToSet(chunks[m].content) \cap ToSet(chunks[n].content) :
                            Header(t)

\* Every vector goes to the chunk it was made of and every chunk gets one, in
\* order, whatever order the provider answers in, the batches end in, and the
\* abandoned tasks of an earlier attempt go on in.
VectorsOfTheirChunks ==
    stage = "embedded" => vectors = [n \in DOMAIN chunks |-> <<n, n>>]

\* A document is embedded or fails: batches that fail, wait or sleep never keep
\* the semaphore from the others, and attempts are counted.
DocumentEnds == <>(stage \in {"embedded", "ended"})

=============================================================================
