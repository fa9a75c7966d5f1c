---------------------------- MODULE GenerateWorker ----------------------------
(***************************************************************************)
(* One worker's generation: GenerateRecordsDoFn instances, one after the   *)
(* other, each with its own engine and its own copy of the model client.   *)
(* The DoFn sets the engine up, hands it requests with their seeds, and    *)
(* tears it down; a failed bundle drops the instance and a new one may be  *)
(* given the same request again.                                           *)
(*                                                                         *)
(* B.1 asks the LLM for the value pools of its free-text columns in        *)
(* setup(); B.2 asks when a column is first sampled, and caches the pool   *)
(* under (column, seed).  A request's rows are a function of its random    *)
(* stream and of the pools it samples from, which is all that is kept of   *)
(* them.  Reference rows are present, and similarity is fixed for the run. *)
(***************************************************************************)
EXTENDS Integers, FiniteSets

CONSTANTS
  Columns,       \* the table's FREE_TEXT columns
  BatchIds,      \* requests the worker may be handed
  BaseSeeds,     \* values PipelineConfig.seed may have, NoSeed among them
  Draws,         \* outcomes of a draw that no seed determines
  MaxInstances,  \* DoFn instances in the run (bounds it)
  NoSeed,        \* None
  NoPool,        \* a column without a pool
  Exemplars      \* the pool of observed values only

ASSUME BatchIdAssumption == BatchIds \subseteq Nat /\ IsFiniteSet(BatchIds)
ASSUME ColumnAssumption  == IsFiniteSet(Columns)
ASSUME SeedAssumption    == BaseSeeds \subseteq Nat \cup {NoSeed} /\ NoSeed \notin Nat
ASSUME DrawAssumption    == Draws \subseteq Nat /\ 0 \in Draws
ASSUME BoundAssumption   == MaxInstances \in Nat
ASSUME PoolAssumption    ==
  NoPool # Exemplars /\ {NoPool, Exemplars} \cap [seed : Nat \cup {NoSeed}, draw : Nat] = {}

VARIABLES
  engine,      \* --engine
  client_type, \* --client_type
  base_seed,   \* self.base_seed
  phase,       \* "none", then "setup", "ready", "sampling"
  todo,        \* columns the engine's loop has still to visit
  instance,    \* how many DoFn instances there have been
  model_ready, \* the client's server or model is there to answer
  pools,       \* B1: self._free_text_pools
  cache,       \* B2: FreeTextHook._cache, as a function of column and seed
  request,     \* the batch_id in process()
  rng,         \* the request's random stream
  drawn,       \* the pools the request's columns are drawn from
  calls,       \* generate_json calls of this instance
  refused,     \* history: some call raised because setup() never ran
  outputs      \* history: what requests came to

configVars == <<engine, client_type, base_seed>>
engineVars == <<pools, cache, model_ready>>
requestVars == <<request, rng, drawn>>
vars == <<configVars, phase, todo, instance, engineVars, requestVars, calls, refused, outputs>>

-----------------------------------------------------------------------------
\* The seed of a request: None, or the base seed displaced by the batch_id.
Seed(b) == IF base_seed = NoSeed THEN NoSeed ELSE base_seed + b

\* B.1 asks the LLM with a fixed seed, B.2 with the request's seed.
PoolSeedMissing == NoSeed

PoolSeed == 0

Seeds == {Seed(b) : b \in BatchIds}
LLMSeeds == Seeds \cup {0}

\* A pool the LLM contributed to: the seed of the call and the draw it made.
Answers == [seed : LLMSeeds, draw : Draws]
Pools == Answers \cup {Exemplars}

NoPools == [col \in Columns |-> NoPool]
NoCache == [key \in Columns \X Seeds |-> NoPool]

\* What a generate_json call leaves as the column's pool, by client.  The fake
\* client answers with a hash of the prompt and the seed; a served vLLM decodes
\* under the seed; MLX takes the seed and does not use it.  A call that raises
\* or answers nothing usable leaves the exemplars.
FakePools(seed) == {[seed |-> seed, draw |-> 0]}

VLLMPools(seed) ==
  {Exemplars} \cup IF model_ready THEN {[seed |-> seed, draw |-> 0]} ELSE {}

MLXPools(seed) == {[seed |-> seed, draw |-> d] : d \in Draws} \cup {Exemplars}

LLMPool(seed) ==
  CASE client_type = "fake" -> FakePools(seed)
    [] client_type = "vllm" -> VLLMPools(seed)
    [] client_type = "mlx"  -> MLXPools(seed)

\* The call's effects: vLLM refuses without setup(); MLX sets itself up.
LLMCall(pool) ==
  /\ calls' = calls + 1
  /\ refused' = (refused \/ (client_type = "vllm" /\ ~ model_ready))
  /\ \/ UNCHANGED model_ready
     \/ client_type = "mlx" /\ model_ready' = TRUE
  /\ client_type = "mlx" /\ pool # Exemplars => model_ready'

Init ==
  /\ engine \in {"b1_rag", "b2_library"}
  /\ client_type \in {"vllm", "mlx", "fake"}
  /\ base_seed \in BaseSeeds
  /\ phase = "none" /\ todo = {} /\ instance = 0
  /\ model_ready = FALSE
  /\ pools = NoPools /\ cache = NoCache
  /\ request = NoSeed /\ rng = <<>> /\ drawn = NoPools
  /\ calls = 0 /\ refused = FALSE /\ outputs = {}

-----------------------------------------------------------------------------
\* The engine's setup: B.2 profiles and fits, B.1 also infers pools.
EngineSetup ==
  /\ phase' = IF engine = "b1_rag" /\ Columns # {} THEN "setup" ELSE "ready"
  /\ todo' = IF engine = "b1_rag" THEN Columns ELSE {}

\* DoFn.setup: a new engine is set up with the client as it came.
Setup ==
  /\ phase = "none"
  /\ instance < MaxInstances
  /\ instance' = instance + 1
  /\ EngineSetup
  /\ model_ready' = (client_type = "fake")
  /\ calls' = 0
  /\ UNCHANGED <<configVars, pools, cache, requestVars, refused, outputs>>

\* B.1's setup infers the pool of one more free-text column.
InferFreeTextPool(col) ==
  /\ phase = "setup"
  /\ col \in todo
  /\ \E pool \in LLMPool(PoolSeed) :
       /\ LLMCall(pool)
       /\ pools' = [pools EXCEPT ![col] = pool]
  /\ todo' = todo \ {col}
  /\ phase' = IF todo' = {} THEN "ready" ELSE "setup"
  /\ UNCHANGED <<configVars, instance, cache, requestVars, outputs>>

\* The request's random stream.  B.1 maps a missing seed to 0; B.2 lets NumPy
\* take fresh entropy.
Streams(b) ==
  IF Seed(b) # NoSeed THEN {<<Seed(b)>>}
  ELSE IF engine = "b1_rag" THEN {<<0>>}
  ELSE {<<NoSeed, d>> : d \in Draws}

\* DoFn.process is handed a request.
StartRequest(b) ==
  /\ phase = "ready"
  /\ rng' \in Streams(b)
  /\ request' = b
  /\ drawn' = NoPools
  /\ todo' = Columns
  /\ phase' = "sampling"
  /\ UNCHANGED <<configVars, instance, engineVars, calls, refused, outputs>>

\* B.1 draws the column from the pool setup() left.
SampleFromPool(col) ==
  /\ engine = "b1_rag"
  /\ drawn' = [drawn EXCEPT ![col] = pools[col]]
  /\ UNCHANGED <<engineVars, calls, refused>>

\* B.2 draws it from the cached pool, or asks the LLM and caches the answer,
\* whatever came of the call.
KeepInCacheIfAnswered(pool) == IF pool = Exemplars THEN NoPool ELSE pool

KeepInCache(pool) == pool

CacheKeyWithoutSeed(col) == <<col, Seed(CHOOSE b \in BatchIds : TRUE)>>

CacheKey(col) == <<col, Seed(request)>>

SampleFromCache(col) ==
  /\ engine = "b2_library"
  /\ cache[CacheKey(col)] # NoPool
  /\ drawn' = [drawn EXCEPT ![col] = cache[CacheKey(col)]]
  /\ UNCHANGED <<engineVars, calls, refused>>

GeneratePool(col) ==
  /\ engine = "b2_library"
  /\ cache[CacheKey(col)] = NoPool
  /\ \E pool \in LLMPool(Seed(request)) :
       /\ LLMCall(pool)
       /\ cache' = [cache EXCEPT ![CacheKey(col)] = KeepInCache(pool)]
       /\ drawn' = [drawn EXCEPT ![col] = pool]
  /\ UNCHANGED pools

SampleFreeText(col) ==
  /\ phase = "sampling"
  /\ col \in todo
  /\ SampleFromPool(col) \/ SampleFromCache(col) \/ GeneratePool(col)
  /\ todo' = todo \ {col}
  /\ UNCHANGED <<configVars, phase, instance, request, rng, outputs>>

\* Every column is sampled: the rows are assembled and yielded.
EndRequest ==
  /\ phase = "sampling"
  /\ todo = {}
  /\ outputs' = outputs \cup {[instance |-> instance, batch_id |-> request, rng |-> rng,
                               drawn |-> drawn]}
  /\ phase' = "ready"
  /\ UNCHANGED <<configVars, todo, instance, engineVars, requestVars, calls, refused>>

\* The engine raises: process() sends a letter, the instance stays in use.
RequestFails ==
  /\ phase = "sampling"
  /\ phase' = "ready"
  /\ todo' = {}
  /\ UNCHANGED <<configVars, instance, engineVars, requestVars, calls, refused, outputs>>

\* The engine forgets its pools, and B.2 the hook with its cache.
EngineTeardown == pools' = NoPools /\ cache' = NoCache /\ todo' = {}

\* DoFn.teardown, or the runner drops the instance with a failed bundle.
Teardown ==
  /\ phase # "none"
  /\ phase' = "none"
  /\ EngineTeardown
  /\ model_ready' = FALSE
  /\ UNCHANGED <<configVars, instance, requestVars, calls, refused, outputs>>

-----------------------------------------------------------------------------
Finished == phase = "none" /\ instance = MaxInstances /\ UNCHANGED vars

Next ==
  \/ Setup
  \/ \E col \in Columns : InferFreeTextPool(col) \/ SampleFreeText(col)
  \/ \E b \in BatchIds : StartRequest(b)
  \/ EndRequest \/ RequestFails \/ Teardown
  \/ Finished

Spec == Init /\ [][Next]_vars

-----------------------------------------------------------------------------
\* Every variable has its type.
TypeOK ==
  /\ engine \in {"b1_rag", "b2_library"}
  /\ client_type \in {"vllm", "mlx", "fake"}
  /\ base_seed \in BaseSeeds
  /\ phase \in {"none", "setup", "ready", "sampling"}
  /\ todo \in SUBSET Columns
  /\ instance \in 0..MaxInstances
  /\ model_ready \in BOOLEAN /\ refused \in BOOLEAN
  /\ pools \in [Columns -> Pools \cup {NoPool}]
  /\ cache \in [Columns \X Seeds -> Pools \cup {NoPool}]
  /\ request \in BatchIds \cup {NoSeed}
  /\ drawn \in [Columns -> Pools \cup {NoPool}]
  /\ calls \in Nat

Seeded == base_seed # NoSeed

\* An instance calls the LLM at most once for each pool it can need, however
\* often a request comes again and whatever its calls came to: one pool per
\* column, but with a seeded B.2, whose cache key holds the request's seed, one
\* per column and request, which grows with the rows.
CallsBounded ==
  calls <= Cardinality(Columns)
             * (IF engine = "b2_library" /\ Seeded THEN Cardinality(BatchIds) ELSE 1)

\* Requests handed to the worker again have the same rows again when a seed
\* is set: by the same instance with any client, although its LLM calls may
\* fail at times, and by a later instance with the deterministic client.
RetriesRepeatRows ==
  Seeded => \A o, q \in outputs :
    /\ o.batch_id = q.batch_id
    /\ o.instance = q.instance \/ client_type = "fake"
    => o.rng = q.rng /\ o.drawn = q.drawn

\* Rows draw on nothing made for another request: with a seed set, two
\* requests have different streams, and B.2's pools are of their request.
RequestsDrawApart ==
  Seeded => \A o, q \in outputs : o.batch_id # q.batch_id =>
    /\ o.rng # q.rng
    /\ engine = "b2_library" =>
         \A col \in Columns : o.drawn[col] = q.drawn[col] => o.drawn[col] = Exemplars

-----------------------------------------------------------------------------
(* Statements of the repository that the code does not keep.               *)

\* generate_json's own error: "the Beam DoFn must call setup() once per
\* worker before generate_batch()".
ClientSetUpBeforeUse == ~ refused

\* freetext.py: "the LLM runs O(1), not O(N)", asked for a pool "per free-text
\* column once", the call happening "once per worker per column the first time
\* a column is sampled".
OneCallPerColumn == calls <= Cardinality(Columns)
==============================================================================
