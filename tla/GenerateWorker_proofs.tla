------------------------- MODULE GenerateWorker_proofs -------------------------
(***************************************************************************)
(* For any schema, requests, seeds and number of instances: the types of   *)
(* GenerateWorker are right; a request that is handed to the worker again  *)
(* has the same rows again, within an instance for every client and across *)
(* instances for the deterministic one; requests share no draw they should *)
(* not; and LLM calls are bounded by what there is to make pools for.      *)
(***************************************************************************)
EXTENDS GenerateWorker, FiniteSetTheorems, FunctionTheorems, TLAPS

\* The pool an instance holds for a column of request b, NoPool if none yet.
Held(b, col) == IF engine = "b1_rag" THEN pools[col] ELSE cache[<<col, Seed(b)>>]

\* The pool the deterministic client makes for it.
FakePool(b, col) ==
  [seed |-> IF engine = "b1_rag" THEN PoolSeed ELSE Seed(b), draw |-> 0]

OutputsOK ==
  \A o \in outputs :
    /\ o.instance \in 1..instance
    /\ o.batch_id \in BatchIds
    /\ o.drawn \in [Columns -> Pools \cup {NoPool}]

\* process() works on one of the requests, under that request's seed.
RequestOK ==
  /\ phase = "sampling" => request \in BatchIds /\ (Seeded => rng = <<Seed(request)>>)
  /\ Seeded => \A o \in outputs : o.rng = <<Seed(o.batch_id)>>

\* Columns already sampled hold the instance's pool for them; so do the
\* outputs of this instance for as long as it lives.
DrawnFromHeld ==
  /\ phase = "sampling" /\ Seeded =>
       \A col \in Columns \ todo :
         /\ drawn[col] = Held(request, col)
         /\ engine = "b2_library" => drawn[col] # NoPool
  /\ phase \in {"ready", "sampling"} /\ Seeded =>
       \A o \in outputs : o.instance = instance =>
         \A col \in Columns :
           /\ o.drawn[col] = Held(o.batch_id, col)
           /\ engine = "b2_library" => o.drawn[col] # NoPool
  /\ phase = "setup" => \A o \in outputs : o.instance # instance

\* With the deterministic client every pool there is, is the one expected.
FakeHeld ==
  client_type = "fake" /\ Seeded =>
    /\ \A b \in BatchIds : \A col \in Columns : Held(b, col) \in {NoPool, FakePool(b, col)}
    /\ engine = "b1_rag" /\ phase \in {"ready", "sampling"} =>
         \A col \in Columns : pools[col] # NoPool
    /\ engine = "b1_rag" /\ phase = "setup" =>
         \A col \in Columns \ todo : pools[col] # NoPool
    /\ \A o \in outputs : \A col \in Columns : o.drawn[col] = FakePool(o.batch_id, col)

\* Outputs of one request in one instance agree.
OutputsAgree ==
  Seeded => \A o, q \in outputs :
    o.batch_id = q.batch_id /\ o.instance = q.instance => o.drawn = q.drawn

\* An instance at work has been counted.
InstanceStarted == phase # "none" => instance > 0

WorkerInv ==
  TypeOK /\ InstanceStarted /\ OutputsOK /\ RequestOK /\ DrawnFromHeld /\ FakeHeld /\ OutputsAgree

-----------------------------------------------------------------------------
LEMMA SeedType == TypeOK => \A b \in BatchIds : Seed(b) \in Seeds /\ Seed(b) \in Nat \cup {NoSeed}
<1> SUFFICES ASSUME TypeOK, NEW b \in BatchIds
             PROVE  Seed(b) \in Seeds /\ Seed(b) \in Nat \cup {NoSeed}
  OBVIOUS
<1>1. b \in Nat /\ base_seed \in Nat \cup {NoSeed}
  BY BatchIdAssumption, SeedAssumption DEF TypeOK
<1>. QED  BY <1>1, SeedAssumption DEF Seed, Seeds

\* A pool an LLM call leaves is a pool; the deterministic client has one.
LEMMA LLMPoolType ==
  ASSUME TypeOK, NEW seed \in LLMSeeds, NEW pool \in LLMPool(seed)
  PROVE  /\ pool \in Pools
         /\ client_type = "fake" => pool = [seed |-> seed, draw |-> 0]
<1>1. client_type \in {"vllm", "mlx", "fake"} /\ 0 \in Draws
  BY DrawAssumption DEF TypeOK
<1>2. CASE client_type = "fake"
  BY <1>1, <1>2 DEF LLMPool, FakePools, VLLMPools, MLXPools, Pools, Answers
<1>3. CASE client_type = "vllm"
  BY <1>1, <1>3 DEF LLMPool, FakePools, VLLMPools, MLXPools, Pools, Answers
<1>4. CASE client_type = "mlx"
  BY <1>1, <1>4 DEF LLMPool, FakePools, VLLMPools, MLXPools, Pools, Answers
<1>. QED  BY <1>1, <1>2, <1>3, <1>4

LEMMA PoolIsNotNoPool == TypeOK => NoPool \notin Pools
<1> SUFFICES ASSUME TypeOK PROVE NoPool \notin Pools
  OBVIOUS
<1>1. LLMSeeds \subseteq Nat \cup {NoSeed}
  BY SeedType DEF LLMSeeds, Seeds
<1>2. Answers \subseteq [seed : Nat \cup {NoSeed}, draw : Nat]
  BY <1>1, DrawAssumption DEF Answers
<1>. QED  BY <1>2, PoolAssumption DEF Pools

\* The configuration never changes, so neither do the seeds.
LEMMA SeedsStable ==
  ASSUME UNCHANGED configVars
  PROVE  /\ Seeds' = Seeds /\ LLMSeeds' = LLMSeeds /\ Pools' = Pools
         /\ NoCache' = NoCache /\ Seeded' = Seeded
         /\ \A b : Seed(b)' = Seed(b)
         /\ \A b, col : FakePool(b, col)' = FakePool(b, col)
         /\ engine' = engine /\ client_type' = client_type /\ base_seed' = base_seed
  BY DEF configVars, Seeds, LLMSeeds, Pools, Answers, NoCache, Seeded, Seed, FakePool

LEMMA LLMCallType ==
  ASSUME TypeOK, NEW pool, LLMCall(pool)
  PROVE  model_ready' \in BOOLEAN /\ refused' \in BOOLEAN /\ calls' \in Nat
<1>1. calls' \in Nat
  BY DEF LLMCall, TypeOK
<1>2. refused' \in BOOLEAN
  BY Zenon DEF LLMCall
<1>3. model_ready' \in BOOLEAN
  BY Zenon DEF LLMCall, TypeOK
<1>. QED  BY <1>1, <1>2, <1>3

LEMMA TablesStable ==
  ASSUME TypeOK, UNCHANGED configVars
  PROVE  /\ UNCHANGED cache => (cache \in [Columns \X Seeds -> Pools \cup {NoPool}])'
         /\ UNCHANGED pools => (pools \in [Columns -> Pools \cup {NoPool}])'
         /\ UNCHANGED drawn => (drawn \in [Columns -> Pools \cup {NoPool}])'
         /\ (engine \in {"b1_rag", "b2_library"} /\ client_type \in {"vllm", "mlx", "fake"}
               /\ base_seed \in BaseSeeds)'
<1>1. Seeds' = Seeds /\ Pools' = Pools
      /\ engine' = engine /\ client_type' = client_type /\ base_seed' = base_seed
  BY SeedsStable
<1>. QED  BY <1>1, Zenon DEF TypeOK

LEMMA WorkerInvInit == Init => WorkerInv
<1> SUFFICES ASSUME Init PROVE WorkerInv
  OBVIOUS
<1>1. TypeOK
  <2>1. NoPools \in [Columns -> Pools \cup {NoPool}]
    BY DEF NoPools
  <2>2. NoCache \in [Columns \X Seeds -> Pools \cup {NoPool}]
    BY DEF NoCache
  <2>3. cache \in [Columns \X Seeds -> Pools \cup {NoPool}]
    BY <2>2, Zenon DEF Init
  <2>4. pools \in [Columns -> Pools \cup {NoPool}] /\ drawn \in [Columns -> Pools \cup {NoPool}]
    BY <2>1, Zenon DEF Init
  <2>5. instance \in 0..MaxInstances /\ calls \in Nat
    BY BoundAssumption DEF Init
  <2>. QED  BY <2>3, <2>4, <2>5, Zenon DEF Init, TypeOK
<1>2. InstanceStarted /\ OutputsOK /\ RequestOK /\ DrawnFromHeld /\ OutputsAgree
  BY DEF Init, InstanceStarted, OutputsOK, RequestOK, DrawnFromHeld, OutputsAgree
<1>3. FakeHeld
  <2>1. \A b \in BatchIds : \A col \in Columns : Held(b, col) = NoPool
    BY <1>1, SeedType DEF Init, Held, NoPools, NoCache
  <2>. QED  BY <2>1 DEF Init, FakeHeld
<1>. QED  BY <1>1, <1>2, <1>3 DEF WorkerInv



LEMMA SetupInv == WorkerInv /\ Setup => WorkerInv'
<1> SUFFICES ASSUME WorkerInv, Setup PROVE WorkerInv'
  OBVIOUS
<1>1. UNCHANGED configVars /\ UNCHANGED <<pools, cache, request, rng, drawn, refused, outputs>>
      /\ instance' = instance + 1 /\ instance \in Nat /\ calls' = 0
  BY BoundAssumption DEF WorkerInv, TypeOK, Setup, EngineSetup, requestVars
<1>2. TypeOK'
  <2>1. instance' \in 0..MaxInstances
    BY BoundAssumption DEF WorkerInv, TypeOK, Setup, EngineSetup
  <2>2. phase' \in {"ready", "setup"} /\ todo' \in SUBSET Columns /\ model_ready' \in BOOLEAN
    BY DEF Setup, EngineSetup
  <2>3. outputs' = outputs /\ request' = request /\ refused' = refused /\ calls' \in Nat
    BY <1>1
  <2>. QED  BY <1>1, <2>1, <2>2, <2>3, TablesStable, Zenon DEF WorkerInv, TypeOK
<1>3. \A o \in outputs : o.instance # instance'
  BY <1>1 DEF WorkerInv, OutputsOK
<1>4. InstanceStarted' /\ OutputsOK'
  BY <1>1, SeedsStable DEF WorkerInv, InstanceStarted, OutputsOK
<1>5. RequestOK'
  BY <1>1, SeedsStable DEF WorkerInv, RequestOK, Setup, EngineSetup
<1>6. DrawnFromHeld'
  BY <1>1, <1>3, SeedsStable DEF DrawnFromHeld, Setup, EngineSetup
<1>7. FakeHeld'
  <2>1. \A b, col : Held(b, col)' = Held(b, col)
    BY <1>1, SeedsStable DEF Held
  <2>2. engine = "b1_rag" /\ phase' = "ready" => Columns = {}
    BY DEF Setup, EngineSetup
  <2>3. engine = "b1_rag" => Columns \ todo' = {}
    BY DEF Setup, EngineSetup
  <2>4. UNCHANGED <<engine, client_type, Seeded, outputs, pools>>
        /\ \A b, col : FakePool(b, col)' = FakePool(b, col)
    BY <1>1, SeedsStable
  <2>5. phase' = "ready" \/ phase' = "setup"
    BY DEF Setup, EngineSetup
  <2>. QED  BY <2>1, <2>2, <2>3, <2>4, <2>5 DEF WorkerInv, FakeHeld
<1>8. OutputsAgree'
  BY <1>1, SeedsStable DEF WorkerInv, OutputsAgree
<1>. QED  BY <1>2, <1>4, <1>5, <1>6, <1>7, <1>8 DEF WorkerInv

LEMMA InferInv == ASSUME NEW col \in Columns PROVE WorkerInv /\ InferFreeTextPool(col) => WorkerInv'
<1> SUFFICES ASSUME WorkerInv, InferFreeTextPool(col) PROVE WorkerInv'
  OBVIOUS
<1>1. PICK pool \in LLMPool(PoolSeed) : LLMCall(pool) /\ pools' = [pools EXCEPT ![col] = pool]
  BY DEF InferFreeTextPool
<1>2. UNCHANGED configVars /\ UNCHANGED <<cache, request, rng, drawn, instance, outputs>>
      /\ phase = "setup" /\ phase' \in {"setup", "ready"} /\ todo' = todo \ {col}
      /\ (phase' = "ready" => todo' = {})
  BY DEF InferFreeTextPool, requestVars
<1>3. pool \in Pools /\ (client_type = "fake" => pool = [seed |-> PoolSeed, draw |-> 0])
  BY LLMPoolType DEF WorkerInv, LLMSeeds, PoolSeed
<1>4. pool # NoPool
  BY <1>3, PoolIsNotNoPool DEF WorkerInv
<1>5. /\ pools'[col] = pool
      /\ \A c \in Columns \ {col} : pools'[c] = pools[c]
      /\ pools' \in [Columns -> Pools \cup {NoPool}]
  BY <1>1, <1>3 DEF WorkerInv, TypeOK
<1>6. TypeOK'
  <2>1. model_ready' \in BOOLEAN /\ refused' \in BOOLEAN /\ calls' \in Nat
    BY <1>1, LLMCallType DEF WorkerInv
  <2>2. (pools \in [Columns -> Pools \cup {NoPool}])'
    BY <1>2, <1>5, SeedsStable
  <2>3. phase' \in {"none", "setup", "ready", "sampling"} /\ todo' \in SUBSET Columns
    BY <1>2 DEF WorkerInv, TypeOK
  <2>. QED  BY <1>2, <2>1, <2>2, <2>3, TablesStable, Zenon DEF WorkerInv, TypeOK
<1>7. InstanceStarted' /\ OutputsOK' /\ RequestOK' /\ OutputsAgree'
  BY <1>2, SeedsStable DEF WorkerInv, InstanceStarted, OutputsOK, RequestOK, OutputsAgree
<1>8. DrawnFromHeld'
  BY <1>2, SeedsStable DEF WorkerInv, DrawnFromHeld
<1>9. FakeHeld'
  <2> SUFFICES ASSUME client_type = "fake", Seeded PROVE FakeHeld'
    BY <1>2, SeedsStable DEF FakeHeld
  <2>1. \A b \in BatchIds : \A c \in Columns : Held(b, c)' \in {NoPool, FakePool(b, c)'}
    <3>1. CASE engine = "b1_rag"
      BY <1>2, <1>3, <1>5, <3>1, SeedsStable DEF Held, FakePool, FakeHeld, WorkerInv
    <3>2. CASE engine # "b1_rag"
      BY <1>2, <3>2, SeedsStable DEF Held, FakeHeld, WorkerInv
    <3>. QED  BY <3>1, <3>2
  <2>2. engine = "b1_rag" => \A c \in Columns \ todo' : pools'[c] # NoPool
    BY <1>2, <1>4, <1>5 DEF FakeHeld, WorkerInv
  <2>3. \A o \in outputs : \A c \in Columns : o.drawn[c] = FakePool(o.batch_id, c)'
    BY <1>2, SeedsStable DEF FakeHeld, WorkerInv
  <2>. QED  BY <1>2, <2>1, <2>2, <2>3, SeedsStable DEF FakeHeld
<1>. QED  BY <1>6, <1>7, <1>8, <1>9 DEF WorkerInv

LEMMA StartInv == ASSUME NEW b \in BatchIds PROVE WorkerInv /\ StartRequest(b) => WorkerInv'
<1> SUFFICES ASSUME WorkerInv, StartRequest(b) PROVE WorkerInv'
  OBVIOUS
<1>1. UNCHANGED configVars /\ UNCHANGED <<pools, cache, model_ready, instance, outputs, calls, refused>>
      /\ phase = "ready" /\ phase' = "sampling" /\ request' = b /\ todo' = Columns
      /\ drawn' = NoPools
  BY DEF StartRequest, engineVars
<1>2. Seeded => rng' = <<Seed(b)>>
  <2>1. Seeded => Seed(b) # NoSeed
    BY SeedAssumption, BatchIdAssumption DEF Seeded, Seed, WorkerInv, TypeOK
  <2>. QED  BY <2>1 DEF StartRequest, Streams
<1>3. TypeOK'
  <2>1. NoPools \in [Columns -> Pools \cup {NoPool}]
    BY DEF NoPools
  <2>2. (drawn \in [Columns -> Pools \cup {NoPool}])'
    BY <1>1, <2>1, SeedsStable
  <2>3. /\ phase' \in {"none", "setup", "ready", "sampling"} /\ todo' \in SUBSET Columns
        /\ request' \in BatchIds
    BY <1>1
  <2>. QED  BY <1>1, <2>2, <2>3, TablesStable, Zenon DEF WorkerInv, TypeOK
<1>4. InstanceStarted' /\ OutputsOK' /\ OutputsAgree'
  BY <1>1, SeedsStable DEF WorkerInv, InstanceStarted, OutputsOK, OutputsAgree
<1>5. RequestOK'
  BY <1>1, <1>2, SeedsStable DEF WorkerInv, RequestOK
<1>6. \A a, c : Held(a, c)' = Held(a, c)
  BY <1>1, SeedsStable DEF Held
<1>7. DrawnFromHeld'
  BY <1>1, <1>6, SeedsStable DEF WorkerInv, DrawnFromHeld
<1>8. FakeHeld'
  <2>1. UNCHANGED <<engine, client_type, Seeded>>
        /\ \A a, c : FakePool(a, c)' = FakePool(a, c)
    BY <1>1, SeedsStable
  <2>. QED  BY <1>1, <1>6, <2>1 DEF WorkerInv, FakeHeld
<1>. QED  BY <1>3, <1>4, <1>5, <1>7, <1>8 DEF WorkerInv

LEMMA SampleInv == ASSUME NEW col \in Columns PROVE WorkerInv /\ SampleFreeText(col) => WorkerInv'
<1> SUFFICES ASSUME WorkerInv, SampleFreeText(col) PROVE WorkerInv'
  OBVIOUS
<1>1. UNCHANGED configVars /\ UNCHANGED <<phase, instance, request, rng, outputs>>
      /\ phase = "sampling" /\ col \in todo /\ todo' = todo \ {col}
  BY DEF SampleFreeText
<1>2. UNCHANGED <<engine, client_type, base_seed, Seeded>> /\ Seeds' = Seeds /\ Pools' = Pools
      /\ (\A b : Seed(b)' = Seed(b)) /\ (\A b, c : FakePool(b, c)' = FakePool(b, c))
  BY <1>1, SeedsStable
<1>3. request \in BatchIds /\ Seed(request) \in Seeds
  BY <1>1, SeedType DEF WorkerInv, RequestOK
\* Whatever the column is drawn from, that is what the instance then holds.
<1>4. /\ drawn' \in [Columns -> Pools \cup {NoPool}]
      /\ drawn'[col] = Held(request, col)'
      /\ engine = "b2_library" => drawn'[col] # NoPool
      /\ \A c \in Columns \ {col} : drawn'[c] = drawn[c]
      /\ pools' = pools
      /\ cache' \in [Columns \X Seeds -> Pools \cup {NoPool}]
      /\ \A key \in Columns \X Seeds :
           \/ cache'[key] = cache[key]
           \/ engine = "b2_library" /\ cache[key] = NoPool /\ cache'[key] # NoPool
                /\ (client_type = "fake" => cache'[key] = [seed |-> key[2], draw |-> 0])
      /\ model_ready' \in BOOLEAN /\ refused' \in BOOLEAN /\ calls' \in Nat
  <2>1. CASE SampleFromPool(col)
    <3>1. drawn' = [drawn EXCEPT ![col] = pools[col]] /\ engine = "b1_rag"
          /\ UNCHANGED <<pools, cache, model_ready, calls, refused>>
      BY <2>1 DEF SampleFromPool, engineVars
    <3>2. Held(request, col)' = pools[col]
      BY <1>1, <1>2, <3>1 DEF Held
    <3>3. drawn' \in [Columns -> Pools \cup {NoPool}]
      BY <3>1 DEF WorkerInv, TypeOK
    <3>4. drawn'[col] = pools[col] /\ \A c \in Columns \ {col} : drawn'[c] = drawn[c]
      BY <3>1 DEF WorkerInv, TypeOK
    <3>. QED  BY <3>1, <3>2, <3>3, <3>4 DEF WorkerInv, TypeOK
  <2>2. CASE SampleFromCache(col)
    <3>1. drawn' = [drawn EXCEPT ![col] = cache[<<col, Seed(request)>>]] /\ engine = "b2_library"
          /\ cache[<<col, Seed(request)>>] # NoPool
          /\ UNCHANGED <<pools, cache, model_ready, calls, refused>>
      BY <2>2 DEF SampleFromCache, engineVars, CacheKey
    <3>2. Held(request, col)' = cache[<<col, Seed(request)>>]
      BY <1>1, <1>2, <3>1 DEF Held
    <3>3. cache[<<col, Seed(request)>>] \in Pools \cup {NoPool}
      BY <1>3 DEF WorkerInv, TypeOK
    <3>4. drawn' \in [Columns -> Pools \cup {NoPool}]
      BY <3>1, <3>3 DEF WorkerInv, TypeOK
    <3>5. /\ drawn'[col] = cache[<<col, Seed(request)>>]
          /\ \A c \in Columns \ {col} : drawn'[c] = drawn[c]
      BY <3>1 DEF WorkerInv, TypeOK
    <3>. QED  BY <3>1, <3>2, <3>4, <3>5 DEF WorkerInv, TypeOK
  <2>3. CASE GeneratePool(col)
    <3>0. /\ engine = "b2_library" /\ cache[<<col, Seed(request)>>] = NoPool
          /\ pools' = pools
      BY <2>3 DEF GeneratePool, CacheKey
    <3>1. PICK pool \in LLMPool(Seed(request)) :
            /\ LLMCall(pool)
            /\ cache' = [cache EXCEPT ![<<col, Seed(request)>>] = pool]
            /\ drawn' = [drawn EXCEPT ![col] = pool]
      BY <2>3 DEF GeneratePool, CacheKey, KeepInCache
    <3>2. pool \in Pools /\ (client_type = "fake" => pool = [seed |-> Seed(request), draw |-> 0])
      BY <1>3, LLMPoolType DEF WorkerInv, LLMSeeds
    <3>3. pool # NoPool
      BY <3>2, PoolIsNotNoPool DEF WorkerInv
    <3>4. <<col, Seed(request)>> \in Columns \X Seeds
      BY <1>3
    <3>5. cache'[<<col, Seed(request)>>] = pool
          /\ \A key \in (Columns \X Seeds) \ {<<col, Seed(request)>>} : cache'[key] = cache[key]
      BY <3>1, <3>4 DEF WorkerInv, TypeOK
    <3>6. cache' \in [Columns \X Seeds -> Pools \cup {NoPool}]
      BY <3>1, <3>2, <3>4 DEF WorkerInv, TypeOK
    <3>7. drawn' \in [Columns -> Pools \cup {NoPool}] /\ drawn'[col] = pool
          /\ \A c \in Columns \ {col} : drawn'[c] = drawn[c]
      BY <3>1, <3>2 DEF WorkerInv, TypeOK
    <3>8. Held(request, col)' = pool
      BY <1>1, <1>2, <3>0, <3>5 DEF Held
    <3>9. model_ready' \in BOOLEAN /\ refused' \in BOOLEAN /\ calls' \in Nat
      BY <3>1, LLMCallType DEF WorkerInv
    <3>10. \A key \in Columns \X Seeds :
             \/ cache'[key] = cache[key]
             \/ engine = "b2_library" /\ cache[key] = NoPool /\ cache'[key] # NoPool
                  /\ (client_type = "fake" => cache'[key] = [seed |-> key[2], draw |-> 0])
      <4> SUFFICES ASSUME NEW key \in Columns \X Seeds, key = <<col, Seed(request)>>
                   PROVE  /\ cache[key] = NoPool /\ cache'[key] # NoPool
                          /\ client_type = "fake" => cache'[key] = [seed |-> key[2], draw |-> 0]
        BY <3>0, <3>5
      <4>. QED  BY <3>0, <3>2, <3>3, <3>5
    <3>. QED  BY <3>0, <3>3, <3>6, <3>7, <3>8, <3>9, <3>10
  <2>. QED  BY <2>1, <2>2, <2>3 DEF SampleFreeText
<1>5. TypeOK'
  <2>1. todo' \in SUBSET Columns
    BY <1>1 DEF WorkerInv, TypeOK
  <2>2. /\ (pools \in [Columns -> Pools \cup {NoPool}])'
        /\ (cache \in [Columns \X Seeds -> Pools \cup {NoPool}])'
        /\ (drawn \in [Columns -> Pools \cup {NoPool}])'
    BY <1>2, <1>4, Zenon DEF WorkerInv, TypeOK
  <2>. QED  BY <1>1, <1>4, <2>1, <2>2, TablesStable, Zenon DEF WorkerInv, TypeOK
<1>6. InstanceStarted' /\ OutputsOK' /\ RequestOK' /\ OutputsAgree'
  BY <1>1, SeedsStable DEF WorkerInv, InstanceStarted, OutputsOK, RequestOK, OutputsAgree
\* A pool that was there is there still.
<1>7. \A b \in BatchIds : \A c \in Columns :
        Held(b, c)' = Held(b, c) \/ (engine = "b2_library" /\ Held(b, c) = NoPool)
  <2> SUFFICES ASSUME NEW b \in BatchIds, NEW c \in Columns
               PROVE Held(b, c)' = Held(b, c) \/ (engine = "b2_library" /\ Held(b, c) = NoPool)
    OBVIOUS
  <2>1. Seed(b) \in Seeds /\ <<c, Seed(b)>> \in Columns \X Seeds
    BY SeedType DEF WorkerInv
  <2>. QED  BY <1>2, <1>4, <2>1 DEF Held, WorkerInv, TypeOK
<1>8. DrawnFromHeld'
  <2>1. ASSUME Seeded, NEW c \in Columns \ todo'
        PROVE  drawn'[c] = Held(request, c)' /\ (engine = "b2_library" => drawn'[c] # NoPool)
    <3>1. CASE c = col
      BY <1>4, <3>1
    <3>2. CASE c # col
      <4>1. c \in Columns \ todo
        BY <1>1, <3>2
      <4>2. drawn[c] = Held(request, c) /\ (engine = "b2_library" => drawn[c] # NoPool)
        BY <1>1, <2>1, <4>1 DEF WorkerInv, DrawnFromHeld
      <4>3. Held(request, c)' = Held(request, c)
        BY <1>1, <1>3, <1>7, <4>1, <4>2
      <4>4. drawn'[c] = drawn[c]
        BY <1>4, <3>2, <4>1
      <4>. QED  BY <4>2, <4>3, <4>4
    <3>. QED  BY <3>1, <3>2
  <2>2. ASSUME Seeded, NEW o \in outputs, o.instance = instance, NEW c \in Columns
        PROVE  o.drawn[c] = Held(o.batch_id, c)' /\ (engine = "b2_library" => o.drawn[c] # NoPool)
    <3>1. o.batch_id \in BatchIds
      BY DEF WorkerInv, OutputsOK
    <3>2. o.drawn[c] = Held(o.batch_id, c) /\ (engine = "b2_library" => o.drawn[c] # NoPool)
      BY <1>1, <2>2 DEF WorkerInv, DrawnFromHeld
    <3>. QED  BY <1>7, <3>1, <3>2
  <2>. QED  BY <1>1, <1>2, <2>1, <2>2 DEF DrawnFromHeld
<1>9. FakeHeld'
  <2> SUFFICES ASSUME client_type = "fake", Seeded PROVE FakeHeld'
    BY <1>2 DEF FakeHeld
  <2>1. ASSUME NEW b \in BatchIds, NEW c \in Columns
        PROVE  Held(b, c)' \in {NoPool, FakePool(b, c)'}
    <3>1. Held(b, c) \in {NoPool, FakePool(b, c)}
      BY DEF WorkerInv, FakeHeld
    <3>2. CASE engine = "b1_rag"
      BY <1>2, <1>4, <3>1, <3>2 DEF Held
    <3>3. CASE engine # "b1_rag"
      <4>1. <<c, Seed(b)>> \in Columns \X Seeds
        BY SeedType DEF WorkerInv
      <4>2. \/ cache'[<<c, Seed(b)>>] = cache[<<c, Seed(b)>>]
            \/ cache'[<<c, Seed(b)>>] = [seed |-> Seed(b), draw |-> 0]
        BY <1>4, <4>1
      <4>3. Held(b, c)' = cache'[<<c, Seed(b)>>] /\ Held(b, c) = cache[<<c, Seed(b)>>]
        BY <1>2, <3>3 DEF Held
      <4>4. FakePool(b, c)' = FakePool(b, c) /\ FakePool(b, c) = [seed |-> Seed(b), draw |-> 0]
        BY <1>2, <3>3 DEF FakePool
      <4>. QED  BY <3>1, <4>2, <4>3, <4>4
    <3>. QED  BY <3>2, <3>3
  <2>. QED  BY <1>1, <1>2, <1>4, <2>1 DEF WorkerInv, FakeHeld
<1>. QED  BY <1>5, <1>6, <1>8, <1>9 DEF WorkerInv

LEMMA EndRequestInv == WorkerInv /\ EndRequest => WorkerInv'
<1> SUFFICES ASSUME WorkerInv, EndRequest PROVE WorkerInv'
  OBVIOUS
<1> DEFINE new == [instance |-> instance, batch_id |-> request, rng |-> rng, drawn |-> drawn]
<1>1. UNCHANGED configVars
      /\ UNCHANGED <<todo, instance, pools, cache, model_ready, request, rng, drawn, calls, refused>>
      /\ phase = "sampling" /\ phase' = "ready" /\ todo = {} /\ outputs' = outputs \cup {new}
  BY DEF EndRequest, engineVars, requestVars
<1>2. /\ UNCHANGED <<engine, client_type, base_seed, Seeded, Seeds, Pools>>
      /\ \A b : Seed(b)' = Seed(b)
      /\ \A b, c : FakePool(b, c)' = FakePool(b, c) /\ Held(b, c)' = Held(b, c)
  BY <1>1, SeedsStable DEF Held
<1>3. new.instance = instance /\ new.batch_id = request /\ new.rng = rng /\ new.drawn = drawn
  OBVIOUS
<1>4. /\ request \in BatchIds /\ (Seeded => rng = <<Seed(request)>>)
      /\ instance \in 0..MaxInstances /\ drawn \in [Columns -> Pools \cup {NoPool}]
  BY <1>1 DEF WorkerInv, TypeOK, RequestOK
<1>5. instance \in 1..instance
  BY <1>1, <1>4 DEF WorkerInv, InstanceStarted
<1> HIDE DEF new
<1>7. TypeOK'
  BY <1>1, <1>2, TablesStable, Zenon DEF WorkerInv, TypeOK
<1>8. InstanceStarted' /\ OutputsOK'
  BY <1>1, <1>2, <1>3, <1>4, <1>5 DEF WorkerInv, InstanceStarted, OutputsOK
<1>9. RequestOK'
  BY <1>1, <1>2, <1>3, <1>4 DEF WorkerInv, RequestOK
<1>10. Seeded => \A c \in Columns :
         drawn[c] = Held(request, c) /\ (engine = "b2_library" => drawn[c] # NoPool)
  BY <1>1 DEF WorkerInv, DrawnFromHeld
<1>11. DrawnFromHeld'
  BY <1>1, <1>2, <1>3, <1>10 DEF WorkerInv, DrawnFromHeld
<1>12. FakeHeld'
  <2> SUFFICES ASSUME client_type = "fake", Seeded PROVE FakeHeld'
    BY <1>2 DEF FakeHeld
  <2>1. ASSUME NEW c \in Columns PROVE drawn[c] = FakePool(request, c)
    <3>1. Held(request, c) \in {NoPool, FakePool(request, c)}
      BY <1>4 DEF WorkerInv, FakeHeld
    <3>2. Held(request, c) # NoPool
      BY <1>1, <1>10 DEF WorkerInv, FakeHeld, Held, TypeOK
    <3>. QED  BY <1>10, <3>1, <3>2
  <2>. QED  BY <1>1, <1>2, <1>3, <2>1 DEF WorkerInv, FakeHeld
<1>13. OutputsAgree'
  <2> SUFFICES ASSUME Seeded, NEW o \in outputs', NEW q \in outputs',
                      o.batch_id = q.batch_id, o.instance = q.instance
               PROVE  o.drawn = q.drawn
    BY <1>2 DEF OutputsAgree
  \* An earlier output of this instance and request was drawn from what it holds.
  <2>1. ASSUME NEW x \in outputs, x.batch_id = request, x.instance = instance
        PROVE  x.drawn = drawn
    <3>1. \A c \in Columns : x.drawn[c] = drawn[c]
      BY <1>1, <1>10, <2>1 DEF WorkerInv, DrawnFromHeld
    <3>. QED  BY <1>4, <3>1 DEF WorkerInv, OutputsOK
  <2>2. CASE o \in outputs /\ q \in outputs
    BY <2>2 DEF WorkerInv, OutputsAgree
  <2>. QED  BY <1>1, <1>3, <2>1, <2>2
<1>. QED  BY <1>7, <1>8, <1>9, <1>11, <1>12, <1>13 DEF WorkerInv

LEMMA RequestFailsInv == WorkerInv /\ RequestFails => WorkerInv'
<1> SUFFICES ASSUME WorkerInv, RequestFails PROVE WorkerInv'
  OBVIOUS
<1>1. UNCHANGED configVars
      /\ UNCHANGED <<instance, pools, cache, model_ready, request, rng, drawn, calls, refused, outputs>>
      /\ phase = "sampling" /\ phase' = "ready" /\ todo' = {}
  BY DEF RequestFails, engineVars, requestVars
<1>2. /\ UNCHANGED <<engine, client_type, base_seed, Seeded, Seeds, Pools>>
      /\ \A b : Seed(b)' = Seed(b)
      /\ \A b, c : FakePool(b, c)' = FakePool(b, c) /\ Held(b, c)' = Held(b, c)
  BY <1>1, SeedsStable DEF Held
<1>3. TypeOK'
  <2>1. phase' \in {"none", "setup", "ready", "sampling"} /\ todo' \in SUBSET Columns
    BY <1>1
  <2>. QED  BY <1>1, <1>2, <2>1, TablesStable, Zenon DEF WorkerInv, TypeOK
<1>4. InstanceStarted' /\ OutputsOK' /\ RequestOK' /\ OutputsAgree'
  BY <1>1, <1>2 DEF WorkerInv, InstanceStarted, OutputsOK, RequestOK, OutputsAgree
<1>5. DrawnFromHeld'
  BY <1>1, <1>2 DEF WorkerInv, DrawnFromHeld
<1>6. FakeHeld'
  BY <1>1, <1>2 DEF WorkerInv, FakeHeld
<1>. QED  BY <1>3, <1>4, <1>5, <1>6 DEF WorkerInv

LEMMA TeardownInv == WorkerInv /\ Teardown => WorkerInv'
<1> SUFFICES ASSUME WorkerInv, Teardown PROVE WorkerInv'
  OBVIOUS
<1>1. UNCHANGED configVars /\ UNCHANGED <<instance, request, rng, drawn, calls, refused, outputs>>
      /\ phase' = "none" /\ todo' = {} /\ pools' = NoPools /\ cache' = NoCache /\ model_ready' = FALSE
  BY DEF Teardown, EngineTeardown, requestVars
<1>2. /\ UNCHANGED <<engine, client_type, base_seed, Seeded, Seeds, Pools>>
      /\ \A b : Seed(b)' = Seed(b)
      /\ \A b, c : FakePool(b, c)' = FakePool(b, c)
  BY <1>1, SeedsStable
<1>3. TypeOK'
  <2>1. (pools \in [Columns -> Pools \cup {NoPool}])'
    BY <1>1, <1>2 DEF NoPools
  <2>2. NoCache \in [Columns \X Seeds -> Pools \cup {NoPool}]
    BY DEF NoCache
  <2>3. (cache \in [Columns \X Seeds -> Pools \cup {NoPool}])'
    BY <1>1, <1>2, <2>2, Zenon
  <2>4. /\ phase' \in {"none", "setup", "ready", "sampling"} /\ todo' \in SUBSET Columns
        /\ model_ready' \in BOOLEAN
    BY <1>1
  <2>. QED  BY <1>1, <2>1, <2>3, <2>4, TablesStable, Zenon DEF WorkerInv, TypeOK
<1>4. InstanceStarted' /\ OutputsOK' /\ RequestOK' /\ OutputsAgree' /\ DrawnFromHeld'
  BY <1>1, <1>2 DEF WorkerInv, InstanceStarted, OutputsOK, RequestOK, OutputsAgree, DrawnFromHeld
<1>5. FakeHeld'
  <2>1. ASSUME NEW b \in BatchIds, NEW c \in Columns PROVE Held(b, c)' = NoPool
    <3>1. Seed(b) \in Seeds
      BY SeedType DEF WorkerInv
    <3>2. NoCache[<<c, Seed(b)>>] = NoPool /\ NoPools[c] = NoPool
      BY <3>1 DEF NoCache, NoPools
    <3>. QED  BY <1>1, <1>2, <3>2 DEF Held
  <2>. QED  BY <1>1, <1>2, <2>1 DEF WorkerInv, FakeHeld
<1>. QED  BY <1>3, <1>4, <1>5 DEF WorkerInv

LEMMA WorkerInvStep == WorkerInv /\ [Next]_vars => WorkerInv'
<1>1. ASSUME WorkerInv, UNCHANGED vars PROVE WorkerInv'
  <2>1. /\ UNCHANGED configVars
        /\ UNCHANGED <<phase, todo, instance, pools, cache, model_ready, request, rng, drawn, calls,
                       refused, outputs>>
    BY <1>1 DEF vars, engineVars, requestVars
  <2>2. /\ UNCHANGED <<engine, client_type, base_seed, Seeded, Seeds, Pools>>
        /\ \A b : Seed(b)' = Seed(b)
        /\ \A b, c : FakePool(b, c)' = FakePool(b, c) /\ Held(b, c)' = Held(b, c)
    BY <2>1, SeedsStable DEF Held
  <2>3. TypeOK'
    BY <1>1, <2>1, <2>2, TablesStable, Zenon DEF WorkerInv, TypeOK
  <2>4. InstanceStarted' /\ OutputsOK' /\ RequestOK' /\ OutputsAgree'
    BY <1>1, <2>1, <2>2 DEF WorkerInv, InstanceStarted, OutputsOK, RequestOK, OutputsAgree
  <2>5. DrawnFromHeld' /\ FakeHeld'
    BY <1>1, <2>1, <2>2 DEF WorkerInv, DrawnFromHeld, FakeHeld
  <2>. QED  BY <2>3, <2>4, <2>5 DEF WorkerInv
<1>. QED
  BY <1>1, SetupInv, InferInv, StartInv, SampleInv, EndRequestInv, RequestFailsInv, TeardownInv
  DEF Next, Finished

LEMMA WorkerInvariance == Spec => []WorkerInv
<1>. QED  BY WorkerInvInit, WorkerInvStep, PTL DEF Spec

-----------------------------------------------------------------------------
(* What the pools say of the LLM calls: whose seed they were asked with,   *)
(* and how many there were.  WorkerInv alone does not carry it.            *)

\* Pools made under a seed, or of observed values only.
OwnPools(seed) == {pool \in Pools : pool = Exemplars \/ pool.seed = seed}

\* B.2's cache holds a pool under the seed it was asked with, and so the
\* outputs of a request are drawn from pools of that request.
OwnSeeds ==
  engine = "b2_library" =>
    /\ \A key \in Columns \X Seeds : cache[key] \in OwnPools(key[2]) \cup {NoPool}
    /\ Seeded => \A o \in outputs : \A col \in Columns : o.drawn[col] \in OwnPools(Seed(o.batch_id))

\* The places where the instance holds a pool.
PoolsHeld ==
  IF engine = "b1_rag" THEN {col \in Columns : pools[col] # NoPool}
                       ELSE {key \in Columns \X Seeds : cache[key] # NoPool}

\* One call stands behind each pool held, and an instance starts with none.
CallsCounted ==
  /\ phase = "none" => pools = NoPools /\ cache = NoCache
  /\ phase = "setup" => engine = "b1_rag" /\ \A col \in todo : pools[col] = NoPool
  /\ phase # "none" => calls = Cardinality(PoolsHeld)

PoolInv == OwnSeeds /\ CallsCounted /\ CallsBounded

LEMMA LLMPoolOwn ==
  ASSUME TypeOK, NEW seed \in LLMSeeds, NEW pool \in LLMPool(seed)
  PROVE  pool \in OwnPools(seed) /\ pool # NoPool
<1>1. pool \in Pools /\ pool # NoPool
  BY LLMPoolType, PoolIsNotNoPool
<1>2. pool = Exemplars \/ pool.seed = seed
  BY DEF LLMPool, FakePools, VLLMPools, MLXPools, TypeOK
<1>. QED  BY <1>1, <1>2 DEF OwnPools

\* There are no more seeds than requests, and without a base seed only one.
LEMMA SeedsCount ==
  ASSUME TypeOK
  PROVE  /\ IsFiniteSet(Seeds)
         /\ Cardinality(Seeds) <= IF Seeded THEN Cardinality(BatchIds) ELSE 1
<1>1. CASE Seeded
  <2> DEFINE f == [b \in BatchIds |-> Seed(b)]
  <2>1. f \in Surjection(BatchIds, Seeds)
    BY DEF Surjection, Seeds
  <2> HIDE DEF f
  <2>. QED  BY <1>1, <2>1, BatchIdAssumption, FS_Surjection
<1>2. CASE ~ Seeded
  <2>1. Seeds \in SUBSET {NoSeed}
    BY <1>2 DEF Seeds, Seed, Seeded
  <2>2. IsFiniteSet({NoSeed}) /\ Cardinality({NoSeed}) = 1
    BY FS_Singleton
  <2>3. IsFiniteSet(Seeds) /\ Cardinality(Seeds) <= 1
    BY <2>1, <2>2, FS_Subset
  <2>. QED  BY <1>2, <2>3
<1>. QED  BY <1>1, <1>2

\* The pools an instance can hold are as many as the calls the schema and the
\* requests allow.
LEMMA PoolsHeldCount ==
  ASSUME TypeOK
  PROVE  /\ IsFiniteSet(PoolsHeld)
         /\ Cardinality(PoolsHeld) \in Nat
         /\ Cardinality(PoolsHeld)
              <= Cardinality(Columns)
                   * (IF engine = "b2_library" /\ Seeded THEN Cardinality(BatchIds) ELSE 1)
<1>1. Cardinality(Columns) \in Nat /\ Cardinality(BatchIds) \in Nat
  BY ColumnAssumption, BatchIdAssumption, FS_CardinalityType
<1>2. CASE engine = "b1_rag"
  <2>1. PoolsHeld \in SUBSET Columns
    BY <1>2 DEF PoolsHeld
  <2>2. IsFiniteSet(PoolsHeld) /\ Cardinality(PoolsHeld) <= Cardinality(Columns)
    BY <2>1, ColumnAssumption, FS_Subset
  <2>3. Cardinality(PoolsHeld) \in Nat
    BY <2>2, FS_CardinalityType
  <2>. QED  BY <1>1, <1>2, <2>2, <2>3
<1>3. CASE engine = "b2_library"
  <2>1. PoolsHeld \in SUBSET (Columns \X Seeds)
    BY <1>3 DEF PoolsHeld
  <2>2. /\ IsFiniteSet(Columns \X Seeds)
        /\ Cardinality(Columns \X Seeds) = Cardinality(Columns) * Cardinality(Seeds)
    BY ColumnAssumption, SeedsCount, FS_Product
  <2>3. IsFiniteSet(PoolsHeld) /\ Cardinality(PoolsHeld) <= Cardinality(Columns \X Seeds)
    BY <2>1, <2>2, FS_Subset
  <2>4. Cardinality(PoolsHeld) \in Nat /\ Cardinality(Seeds) \in Nat
    BY <2>3, SeedsCount, FS_CardinalityType
  <2>5. \A i, j, k \in Nat : j <= k => i * j <= i * k
    OBVIOUS
  <2> DEFINE most == IF Seeded THEN Cardinality(BatchIds) ELSE 1
  <2>6. Cardinality(Columns) * Cardinality(Seeds) <= Cardinality(Columns) * most
    BY <1>1, <2>4, <2>5, SeedsCount
  <2>7. Cardinality(PoolsHeld) <= Cardinality(Columns) * most
    BY <1>1, <2>2, <2>3, <2>4, <2>6
  <2>. QED  BY <1>3, <2>3, <2>4, <2>7
<1>. QED  BY <1>2, <1>3 DEF TypeOK

\* An instance at work stays within its calls, because it has not more pools.
LEMMA CountedIsBounded == TypeOK /\ CallsCounted /\ phase # "none" => CallsBounded
  BY PoolsHeldCount DEF CallsCounted, CallsBounded

\* An action that makes no call and revises no pool keeps the count.
LEMMA NoCallKeepsCount ==
  ASSUME PoolInv, UNCHANGED configVars, UNCHANGED <<pools, cache, calls>>,
         phase # "none", phase' \in {"ready", "sampling"}
  PROVE  CallsCounted' /\ CallsBounded'
<1>1. PoolsHeld' = PoolsHeld
  BY SeedsStable DEF PoolsHeld
<1>2. CallsCounted'
  BY <1>1 DEF PoolInv, CallsCounted
<1>3. CallsBounded'
  BY SeedsStable DEF PoolInv, CallsBounded
<1>. QED  BY <1>2, <1>3

\* An action that leaves cache and outputs alone keeps the seeds.
LEMMA NoDrawKeepsSeeds ==
  ASSUME PoolInv, UNCHANGED configVars, UNCHANGED <<cache, outputs>>
  PROVE  OwnSeeds'
<1>1. Seeds' = Seeds /\ Seeded' = Seeded /\ engine' = engine
      /\ \A seed : OwnPools(seed)' = OwnPools(seed)
  BY SeedsStable DEF OwnPools
<1>2. \A b : Seed(b)' = Seed(b)
  BY SeedsStable
<1>. QED  BY <1>1, <1>2 DEF PoolInv, OwnSeeds

LEMMA PoolInvInit == Init => PoolInv
<1> SUFFICES ASSUME Init PROVE PoolInv
  OBVIOUS
<1>1. OwnSeeds /\ CallsCounted
  BY DEF Init, OwnSeeds, CallsCounted, NoCache
<1>2. CallsBounded
  <2>1. Cardinality(Columns) \in Nat /\ Cardinality(BatchIds) \in Nat
    BY ColumnAssumption, BatchIdAssumption, FS_CardinalityType
  <2>2. \A i, j \in Nat : 0 <= i * j /\ 0 <= i * 1
    OBVIOUS
  <2>3. calls = 0
    BY DEF Init
  <2>4. CASE engine = "b2_library" /\ Seeded
    BY <2>1, <2>2, <2>3, <2>4 DEF CallsBounded
  <2>5. CASE ~ (engine = "b2_library" /\ Seeded)
    BY <2>1, <2>2, <2>3, <2>5 DEF CallsBounded
  <2>. QED  BY <2>4, <2>5
<1>. QED  BY <1>1, <1>2 DEF PoolInv

LEMMA SetupPools == WorkerInv /\ PoolInv /\ Setup => PoolInv'
<1> SUFFICES ASSUME WorkerInv, PoolInv, Setup PROVE PoolInv'
  OBVIOUS
<1>1. /\ UNCHANGED configVars /\ UNCHANGED <<pools, cache, outputs>>
      /\ phase = "none" /\ phase' \in {"setup", "ready"} /\ calls' = 0
      /\ phase' = "setup" => engine = "b1_rag"
      /\ todo' \in SUBSET Columns
  BY DEF Setup, EngineSetup
<1>2. pools = NoPools /\ cache = NoCache
  BY <1>1 DEF PoolInv, CallsCounted
<1>3. PoolsHeld' = {}
  BY <1>1, <1>2, SeedsStable DEF PoolsHeld, NoPools, NoCache
<1>4. CallsCounted'
  <2>1. \A col \in Columns : pools'[col] = NoPool
    BY <1>1, <1>2 DEF NoPools
  <2>2. calls' = Cardinality(PoolsHeld')
    BY <1>1, <1>3, FS_EmptySet
  <2>. QED  BY <1>1, <2>1, <2>2, SeedsStable DEF CallsCounted
<1>5. CallsBounded'
  <2>1. (TypeOK /\ CallsCounted /\ phase # "none" => CallsBounded)'
    BY CountedIsBounded, PTL
  <2>. QED  BY <1>1, <1>4, <2>1, SetupInv DEF WorkerInv
<1>6. OwnSeeds'
  BY <1>1, NoDrawKeepsSeeds
<1>. QED  BY <1>4, <1>5, <1>6 DEF PoolInv

LEMMA InferPools ==
  ASSUME NEW col \in Columns
  PROVE  WorkerInv /\ PoolInv /\ InferFreeTextPool(col) => PoolInv'
<1> SUFFICES ASSUME WorkerInv, PoolInv, InferFreeTextPool(col) PROVE PoolInv'
  OBVIOUS
<1>1. PICK pool \in LLMPool(PoolSeed) : LLMCall(pool) /\ pools' = [pools EXCEPT ![col] = pool]
  BY DEF InferFreeTextPool
<1>2. /\ UNCHANGED configVars /\ UNCHANGED <<cache, outputs>>
      /\ phase = "setup" /\ phase' \in {"setup", "ready"} /\ col \in todo /\ todo' = todo \ {col}
  BY DEF InferFreeTextPool
<1>3. engine = "b1_rag" /\ engine' = engine /\ pools[col] = NoPool /\ calls = Cardinality(PoolsHeld)
  BY <1>2, SeedsStable DEF PoolInv, CallsCounted
<1>4. pool # NoPool
  BY LLMPoolOwn DEF WorkerInv, LLMSeeds, PoolSeed
<1>5. PoolsHeld' = PoolsHeld \cup {col} /\ col \notin PoolsHeld
  BY <1>1, <1>3, <1>4 DEF PoolsHeld, WorkerInv, TypeOK
<1>6. calls' = Cardinality(PoolsHeld')
  BY <1>1, <1>3, <1>5, PoolsHeldCount, FS_AddElement DEF LLMCall, WorkerInv
<1>7. CallsCounted'
  <2>1. \A c \in todo' : pools'[c] = NoPool
    BY <1>1, <1>2 DEF PoolInv, CallsCounted, WorkerInv, TypeOK
  <2>. QED  BY <1>2, <1>3, <1>6, <2>1 DEF CallsCounted
<1>8. CallsBounded'
  <2>1. (TypeOK /\ CallsCounted /\ phase # "none" => CallsBounded)'
    BY CountedIsBounded, PTL
  <2>. QED  BY <1>2, <1>7, <2>1, InferInv DEF WorkerInv
<1>9. OwnSeeds'
  BY <1>2, NoDrawKeepsSeeds
<1>. QED  BY <1>7, <1>8, <1>9 DEF PoolInv

LEMMA SamplePools ==
  ASSUME NEW col \in Columns
  PROVE  WorkerInv /\ PoolInv /\ SampleFreeText(col) => PoolInv'
<1> SUFFICES ASSUME WorkerInv, PoolInv, SampleFreeText(col) PROVE PoolInv'
  OBVIOUS
<1>1. /\ UNCHANGED configVars /\ UNCHANGED outputs /\ phase = "sampling" /\ phase' = "sampling"
  BY DEF SampleFreeText
<1>2. CASE SampleFromPool(col) \/ SampleFromCache(col)
  <2>1. UNCHANGED <<pools, cache, calls>>
    BY <1>2 DEF SampleFromPool, SampleFromCache, engineVars
  <2>. QED  BY <1>1, <2>1, NoCallKeepsCount, NoDrawKeepsSeeds DEF PoolInv
<1>3. CASE GeneratePool(col)
  <2> DEFINE key == <<col, Seed(request)>>
  <2>1. PICK pool \in LLMPool(Seed(request)) :
          LLMCall(pool) /\ cache' = [cache EXCEPT ![key] = pool]
    BY <1>3 DEF GeneratePool, CacheKey, KeepInCache
  <2>2. engine = "b2_library" /\ engine' = engine /\ cache[key] = NoPool
    BY <1>1, <1>3, SeedsStable DEF GeneratePool, CacheKey
  <2>3. Seed(request) \in Seeds /\ key \in Columns \X Seeds /\ key[2] = Seed(request)
    BY <1>1, SeedType DEF WorkerInv, RequestOK
  <2>4. pool \in OwnPools(key[2]) /\ pool # NoPool
    BY <2>3, LLMPoolOwn DEF WorkerInv, LLMSeeds
  <2> HIDE DEF key
  <2>5. cache'[key] = pool /\ \A k \in (Columns \X Seeds) \ {key} : cache'[k] = cache[k]
    BY <2>1, <2>3 DEF WorkerInv, TypeOK
  <2>6. Seeds' = Seeds /\ Seeded' = Seeded /\ (\A s : OwnPools(s)' = OwnPools(s))
        /\ \A b : Seed(b)' = Seed(b)
    BY <1>1, SeedsStable DEF OwnPools
  <2>7. PoolsHeld' = PoolsHeld \cup {key} /\ key \notin PoolsHeld
    BY <2>2, <2>3, <2>4, <2>5, <2>6 DEF PoolsHeld
  <2>8. calls = Cardinality(PoolsHeld)
    BY <1>1 DEF PoolInv, CallsCounted
  <2>9. calls' = Cardinality(PoolsHeld')
    BY <2>1, <2>7, <2>8, PoolsHeldCount, FS_AddElement DEF LLMCall, WorkerInv
  <2>10. CallsCounted'
    BY <1>1, <2>9 DEF CallsCounted
  <2>11. CallsBounded'
    <3>1. (TypeOK /\ CallsCounted /\ phase # "none" => CallsBounded)'
      BY CountedIsBounded, PTL
    <3>. QED  BY <1>1, <2>10, <3>1, SampleInv DEF WorkerInv
  <2>12. OwnSeeds'
    <3>1. \A k \in Columns \X Seeds : cache'[k] \in OwnPools(k[2]) \cup {NoPool}
      BY <2>2, <2>4, <2>5 DEF PoolInv, OwnSeeds
    <3>. QED  BY <1>1, <2>2, <2>6, <3>1 DEF PoolInv, OwnSeeds
  <2>. QED  BY <2>10, <2>11, <2>12 DEF PoolInv
<1>. QED  BY <1>2, <1>3 DEF SampleFreeText

\* The output of a request is drawn from the pools cached under its seed.
LEMMA EndRequestPools == WorkerInv /\ PoolInv /\ EndRequest => PoolInv'
<1> SUFFICES ASSUME WorkerInv, PoolInv, EndRequest PROVE PoolInv'
  OBVIOUS
<1> DEFINE new == [instance |-> instance, batch_id |-> request, rng |-> rng, drawn |-> drawn]
<1>1. /\ UNCHANGED configVars /\ UNCHANGED <<pools, cache, calls>>
      /\ phase = "sampling" /\ phase' = "ready" /\ todo = {} /\ outputs' = outputs \cup {new}
  BY DEF EndRequest, engineVars
<1>2. new.batch_id = request /\ new.drawn = drawn /\ request \in BatchIds
  BY <1>1 DEF WorkerInv, RequestOK
<1> HIDE DEF new
<1>3. /\ Seeds' = Seeds /\ Seeded' = Seeded /\ engine' = engine
      /\ \A s : OwnPools(s)' = OwnPools(s)
      /\ \A b : Seed(b)' = Seed(b)
  BY <1>1, SeedsStable DEF OwnPools
<1>4. ASSUME engine = "b2_library", Seeded, NEW col \in Columns
      PROVE  drawn[col] \in OwnPools(Seed(request))
  <2>1. drawn[col] = Held(request, col) /\ drawn[col] # NoPool
    BY <1>1, <1>4 DEF WorkerInv, DrawnFromHeld
  <2>2. <<col, Seed(request)>> \in Columns \X Seeds
    BY <1>2, SeedType DEF WorkerInv
  <2>3. cache[<<col, Seed(request)>>] \in OwnPools(Seed(request)) \cup {NoPool}
    BY <1>4, <2>2 DEF PoolInv, OwnSeeds
  <2>. QED  BY <1>4, <2>1, <2>3 DEF Held
<1>5. OwnSeeds'
  BY <1>1, <1>2, <1>3, <1>4 DEF PoolInv, OwnSeeds
<1>. QED  BY <1>1, <1>5, NoCallKeepsCount DEF PoolInv

LEMMA TeardownPools == WorkerInv /\ PoolInv /\ Teardown => PoolInv'
<1> SUFFICES ASSUME WorkerInv, PoolInv, Teardown PROVE PoolInv'
  OBVIOUS
<1>1. /\ UNCHANGED configVars /\ UNCHANGED <<calls, outputs>>
      /\ phase' = "none" /\ pools' = NoPools /\ cache' = NoCache
  BY DEF Teardown, EngineTeardown
<1>2. /\ Seeds' = Seeds /\ Seeded' = Seeded /\ engine' = engine /\ NoCache' = NoCache
      /\ NoPools' = NoPools /\ \A s : OwnPools(s)' = OwnPools(s)
      /\ \A b : Seed(b)' = Seed(b)
  BY <1>1, SeedsStable DEF OwnPools, NoPools
<1>3. CallsCounted'
  BY <1>1, <1>2 DEF CallsCounted
<1>4. CallsBounded'
  BY <1>1, <1>2 DEF PoolInv, CallsBounded
<1>5. OwnSeeds'
  BY <1>1, <1>2 DEF PoolInv, OwnSeeds, NoCache
<1>. QED  BY <1>3, <1>4, <1>5 DEF PoolInv

LEMMA PoolInvStep == WorkerInv /\ PoolInv /\ [Next]_vars => PoolInv'
<1> SUFFICES ASSUME WorkerInv, PoolInv, [Next]_vars PROVE PoolInv'
  OBVIOUS
<1>1. ASSUME UNCHANGED vars PROVE PoolInv'
  <2>1. UNCHANGED configVars /\ UNCHANGED <<phase, todo, pools, cache, calls, outputs>>
    BY <1>1 DEF vars, engineVars
  <2>2. PoolsHeld' = PoolsHeld /\ NoCache' = NoCache /\ Seeded' = Seeded /\ engine' = engine
    BY <2>1, SeedsStable DEF PoolsHeld
  <2>. QED  BY <2>1, <2>2, NoDrawKeepsSeeds DEF PoolInv, CallsCounted, CallsBounded
<1>2. ASSUME RequestFails \/ \E b \in BatchIds : StartRequest(b) PROVE PoolInv'
  <2>1. /\ UNCHANGED configVars /\ UNCHANGED <<pools, cache, calls, outputs>>
        /\ phase # "none" /\ phase' \in {"ready", "sampling"}
    BY <1>2 DEF RequestFails, StartRequest, engineVars
  <2>. QED  BY <2>1, NoCallKeepsCount, NoDrawKeepsSeeds DEF PoolInv
<1>. QED
  BY <1>1, <1>2, SetupPools, InferPools, SamplePools, EndRequestPools, TeardownPools
  DEF Next, Finished

LEMMA PoolInvariance == Spec => []PoolInv
<1>. QED  BY PoolInvInit, PoolInvStep, WorkerInvariance, PTL DEF Spec

-----------------------------------------------------------------------------
\* Type correctness of the worker, for every schema and seed.
THEOREM TypeCorrect == Spec => []TypeOK
<1>1. WorkerInv => TypeOK
  BY DEF WorkerInv
<1>. QED  BY <1>1, WorkerInvariance, PTL

\* A request handed to the worker again has the same rows again: the pools an
\* instance holds are never revised, whatever its LLM calls came to, and the
\* deterministic client gives a new instance the pools of the old one.
THEOREM RetriedRequestsRepeat == Spec => []RetriesRepeatRows
<1>1. WorkerInv => RetriesRepeatRows
  <2> SUFFICES ASSUME WorkerInv, Seeded, NEW o \in outputs, NEW q \in outputs,
                      o.batch_id = q.batch_id, o.instance = q.instance \/ client_type = "fake"
               PROVE  o.rng = q.rng /\ o.drawn = q.drawn
    BY DEF RetriesRepeatRows
  <2>1. o.rng = q.rng
    BY DEF WorkerInv, RequestOK
  <2>2. CASE o.instance = q.instance
    BY <2>1, <2>2 DEF WorkerInv, OutputsAgree
  <2>3. CASE client_type = "fake"
    <3>1. \A c \in Columns : o.drawn[c] = q.drawn[c]
      BY <2>3 DEF WorkerInv, FakeHeld
    <3>. QED  BY <2>1, <3>1 DEF WorkerInv, OutputsOK
  <2>. QED  BY <2>2, <2>3
<1>. QED  BY <1>1, WorkerInvariance, PTL
\* With a seed set, no two requests share anything that was made for one of
\* them: their streams are displaced by their batch_ids, and B.2's pools are
\* cached, and so drawn, under the seed of the request that asked for them.
THEOREM RequestsApart == Spec => []RequestsDrawApart
<1>1. WorkerInv /\ PoolInv => RequestsDrawApart
  <2> SUFFICES ASSUME WorkerInv, PoolInv, Seeded, NEW o \in outputs, NEW q \in outputs,
                      o.batch_id # q.batch_id
               PROVE  /\ o.rng # q.rng
                      /\ engine = "b2_library" =>
                           \A col \in Columns : o.drawn[col] = q.drawn[col] => o.drawn[col] = Exemplars
    BY DEF RequestsDrawApart
  <2>1. Seed(o.batch_id) # Seed(q.batch_id)
    <3>1. o.batch_id \in Nat /\ q.batch_id \in Nat /\ base_seed \in Nat
      BY BatchIdAssumption, SeedAssumption DEF WorkerInv, OutputsOK, TypeOK, Seeded
    <3>. QED  BY <3>1 DEF Seed, Seeded
  <2>2. o.rng # q.rng
    BY <2>1 DEF WorkerInv, RequestOK
  <2>3. ASSUME engine = "b2_library", NEW col \in Columns, o.drawn[col] = q.drawn[col]
        PROVE  o.drawn[col] = Exemplars
    <3>1. o.drawn[col] \in OwnPools(Seed(o.batch_id)) /\ o.drawn[col] \in OwnPools(Seed(q.batch_id))
      BY <2>3 DEF PoolInv, OwnSeeds
    <3>. QED  BY <2>1, <3>1 DEF OwnPools
  <2>. QED  BY <2>2, <2>3
<1>. QED  BY <1>1, WorkerInvariance, PoolInvariance, PTL

\* An instance makes one call for each pool it holds, and can hold one for a
\* column, or with a seeded B.2 one for a column and a request, so that there
\* its calls grow with the requests; what a call came to is kept even when it
\* is the exemplars, so none is made twice.
THEOREM LLMCallsBounded == Spec => []CallsBounded
<1>1. PoolInv => CallsBounded
  BY DEF PoolInv
<1>. QED  BY <1>1, PoolInvariance, PTL
==============================================================================
