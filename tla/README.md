# A formal model of synthetic-dataflow-bigquery

The repository generates synthetic rows for BigQuery tables: a Composer DAG (or an operator) launches
a CLI, the CLI reads a table contract and reference rows and builds an Apache Beam graph, and workers
on Dataflow run an engine (retrieval-augmented or library-based) over a language model, validate what
it yields twice, and load a landing table, a dead-letter table and a one-row run summary that gates
the run.

This directory holds TLA+ modules for the parts with state worth checking, TLC configurations for
small instances, and TLAPS proofs for every value of the constants. `PROJECT.json` maps each definition
to the lines it stands for and lists the runs, mutants, hazards, findings and theorems.

    tlc -workers 2 -config ModeAPipeline.cfg MCModeAPipeline            # any run of PROJECT.json
    tlapm ModeAPipelineInv_proofs.tla                                    # any *_proofs module

Paths below are abbreviated: *beam* is `src/packages/sdfb-beam/src/sdfb_beam`, *core* is
`src/packages/sdfb-core/src/sdfb_core`.

## 1. Inventory

| component | state it keeps | operations | talks to |
|---|---|---|---|
| Mode-A graph, *beam*/pipeline.py | the driver's `remaining`/`batch_id`; the graph's committed collections | `build_pipeline`, `_build_validation_run_row`, `_BlockerGateDoFn.process` | the runner executes it; sinks, gate |
| Generate DoFn, *beam*/dofns/generate.py | engine, model client, base seed, counters | `setup`, `process`, `teardown` | engine (iterator), runner (retries) |
| ValidateRecord, *beam*/dofns/validate_record.py | derived Pydantic model | `setup`, `process` | main and invalid outputs |
| PanderaValidate, *beam*/dofns/pandera_batch.py | derived Pandera schema | `process`, `_extract_failed_indices` | takes micro-batches from `BatchElements` |
| Summary and gate, *core*/validation/summary.py | none | `build_run_summary` | reads side inputs, feeds the gate |
| DLQ normalization, *core*/validation/dlq.py | none | `normalize_dlq_record` | the three failure tags |
| vLLM client, *beam*/handlers/vllm_client.py | `_server`, `_client`; one host:port per VM | `setup`, `_wait_until_ready`, `generate_json`, `teardown` | a subprocess, the VM's port |
| MLX and fake clients, *beam*/handlers | lazily loaded model / nothing | `setup`, `generate_json` | engines |
| B.1 engine, *core*/engines/b1_rag | context, profiles, `_free_text_pools` | `setup`, `generate_batch`, `teardown` | model client, embedder |
| B.2 engine, *core*/engines/b2_library | context, fitted backend, `FreeTextHook._cache` | `setup`, `generate_batch`, `teardown` | model client |
| Launcher and thresholds, *beam*/cli, *core*/validation/thresholds.py | one `main()` per launch: schema, reference rows, limit, job name | `main`, `resolve_thresholds`, `sanitize_job_name` | the `_ddl.json`, thresholds.yml, BigQuery, graph, runner |
| Composer DAG, src/composer | DAG runs, one of them active | a `DataflowStartFlexTemplateOperator` task that does not wait for the end of its job | launcher, Dataflow |
| Profiling and fidelity, b1_rag/profile.py, b2_library/fidelity.py | none | classify, clamp, sample | engines |
| Schema and codegen, *core*/contracts, */codegen | none | validators, three derivations | every validator |
| Sources, digest, sinks, *beam*/io | none | one query, one hash, writers | launcher |
| DDL extraction, *beam*/ddl | one table's `_ddl.json` | `main`, `extract_ddl_metadata`, the write of the file | BigQuery, the launcher that loads the file |
| Images, scripts, CI | none | build, probe | - |

What is hard in this system, and where no unit test looks:

* **Bundles are retried.** Beam discards what a failed bundle produced and processes its requests
  again, on any worker. A row position must still end in one table, once (`dofns/generate.py:75`).
* **Failure in the middle.** The engine is an iterator; it may raise after records of the same request
  are already in the fused stage downstream (`generate.py:76`).
* **Order behind the barrier.** Two table loads, the summary row and the gate are siblings: the gate can
  fail the job while loads are outstanding (`pipeline.py:183-197`).
* **Batches that exist only in the runner.** Uniqueness and schema checks are per micro-batch, whose
  extent depends on the estimator and on the flush at the end of a bundle (`pipeline.py:132`).
* **A subprocess behind one port.** Readiness and requests go to host:port, not to the process that was
  spawned; setups time out and are retried (`vllm_client.py:317-350`).
* **Three lifecycles nested in each other.** DoFn, engine and client each have a `setup`; caches and
  seeds decide whether a retried request repeats its rows (`generate.py:55-70`, `freetext.py:117-123`).
* **Repeated launches** of one run over appending sinks, by a DAG whose tasks are cleared and by operators; only
  a job's name and the DAG's one slot keep them apart (`cli/run_pipeline.py:120-160`, `composer/...:143`).
* **A file between two programs.** An extraction truncates and rewrites the contract that launches load, and
  the table it was taken from is altered meanwhile (`ddl/pipeline.py:49`).
* **Two validators derived from one schema**, one of them in pandas' types (`derive_pydantic.py`, `derive_pandera.py`).

What makes each component right: the graph loses, repeats and doubly judges no row, and its run row and
gate see what the tables hold; a client leaves no process behind and answers from its own server; an
engine asks the LLM once for a pool that it needs, and its seed determines its rows; direct jobs of one run_id never append
at the same time unless an operator names one, and what a launch's success or a green task means can be read from its row; a contract keeps the
columns of its table and loads exactly when that table can be written; a derived validator admits what the contract admits.

## 2. Modules

| module | models | state ↔ code |
|---|---|---|
| `RowLedger` | the abstract promise of a run | row positions requested, settled, accepted, rejected, blocking; one outcome |
| `ModeAPipeline` | `build_pipeline`'s graph under a Beam runner, with the three DoFns, the sinks, the row, the gate | see below |
| `ModeAPipelineInv` | the inductive invariant of the above | - |
| `ModelServer` | `VLLMModelClient` objects, their server processes, the port | `server`/`client` are `_server`/`_client`; `polls` the readiness loop; `proc`/`port` the VM |
| `GenerateWorker` | DoFn instances with their engine and client | `pools` is B.1's `_free_text_pools`, `cache` is B.2's `_cache`, `rng` the request's stream |
| `ColumnFidelity` | one column from its reference values to a cell of a validated row, in both engines | `profile` is its `ColumnProfile`; `sampled` and `value` the cell before and after `enforce_value`; `stage` where the row is |
| `DdlExtract` | extractions of one table's metadata: CLI, Beam job, file; the table they read | `extraction` is per `main()` its process, exit code and job; `ddl_file` the `_ddl.json`; `bq_table` the table now |
| `Launches` | `main()` of the launcher, the job it submits, the DAG that calls it; EXTENDS `DdlExtract` | `launch` holds `main()`'s locals and the job; `dag_run` Airflow's runs; `validation_runs` the rows |
| `JsonScan` | `_extract_first_json_object` of the MLX client | `i`, `j` the two loops' positions; `scan` is `depth`, `in_str`, `escaped` |
| `MC*` | TLC's instances | constants that a cfg cannot write, one symmetry set |
| `*_proofs` | the theorems | - |

`ModeAPipeline` composes the graph, the DoFns and the runner in one module because they meet in the
bundle; `RowLedger` is instantiated in it as its abstract specification. `ModelServer` and
`GenerateWorker` are separate: the code in src/ never calls `VLLMModelClient.setup`, so the
two do not interact (that is a finding, below), and `GenerateWorker` keeps of a client only whether
it is there to answer. `Launches` composes the launcher with the extractions, which meet in the contract file; of
the job it keeps the share of BLOCKER failures, the row and the gate, whose inside `ModeAPipeline` shows.

### ModeAPipeline

One action per operation. `CreateRequest` is one turn of the loop that cuts `num_rows` into requests
(`pipeline.py:98-106`). `StartBundle` gives a worker any non-empty set of pending requests;
`StartRequest`, `YieldRecord`, `SkipRow`, `EngineFailure` and `EndRequest` are what
`GenerateRecordsDoFn.process` does with the engine's iterator. The stages are fused, so `YieldRecord`
runs the record through `ValidateRecord`, the batcher and, when the batcher emits, `PanderaValidate`.
`FinishBundle` flushes the partial batch and commits; `CrashBundle` discards everything the bundle
made and gives its requests back; `CrashJob` is the retry that was one too many. Behind the barrier
(`StageComplete`) `WriteLanding`, `WriteDLQ`, `BuildValidationRun`, `WriteValidationRun` and
`BlockerGate` run in any order the data allows.

A record is its row position (batch_id, loop index), its primary key and what rejects it: nothing,
the Pydantic model, or a Pandera column check. Pandera reports either the failing rows or, for a
schema-level error, no rows (then the code fails them all): both are modelled. Counter ratios are exact
fractions; the code's floats agree with them at these sizes.

### ModelServer

A client's caller calls `setup`, `generate_json` and `teardown` in any order, which is what the class's
docstrings allow. Each poll, wait and probe is a step; between any two of them processes boot, bind the
port or exit. A probe is answered by whichever process listens. The weights pull, argv and JSON are left out.

### GenerateWorker

The free choice of engine, client and seed is made in `Init`. A request's rows are a function of its
random stream and of the pools it draws from (the fitted backend is deterministic under its
generator: the NumPy backend is assumed), so the model records only those two. Reference rows are
present and `similarity` is fixed for the run. The fake client is its default, echoing mode.

### ColumnFidelity

A column is one of eight types (BYTES, TIME, TIMESTAMP, DATETIME, GEOGRAPHY and BIGNUMERIC are left out) in any mode, its reference values any small set of what BigQuery returns for it. The
actions follow a row: `ProfileColumn` (or `SetupRaises`), `Sample`, `AssembleRow`, `ModelValidate` in the engine,
`PanderaValidate` behind it; `ValidateRecordDoFn` asks the same model again and adds nothing. A value
is its Python type and what tells it apart; a number counts ticks of which `Quantum` make the unit the
code rounds to (1, or 10^-scale), so both roundings, ties and negative numbers are exact. Whether the
free-text heuristics take strings for prose is free; so is every draw a sampler can make, which is why weights,
similarity and retrieval have no place in it. A fitted sdgx model may return anything. Two constants mark what a
type cannot hold: `LongTexts` exceed a declared max_length, `FarDates` lie beyond datetime64[ns]. Left out: a
NUMERIC's max_digits, NaN, floats beyond 53 bits, JSON scalars, and what is inside a struct or an array.

### DdlExtract

A table is a function on the paths of its columns, so nesting of any depth is there; `Visited` is the recursion
of `extract_ddl_metadata`, `Loads` what `TableSchema` and `FieldSchema` validate, `DeriveBqSchema` the way back. With the
DirectRunner the CLI and its job are one process, and `FileSystems.create` truncates at once; on Dataflow the bundle is retried
and the object appears when it is closed. Ctrl+C ends the CLI with 130 and no remote job. The owner alters the
table between any two steps. A description's "PRIMARY KEY:" line holds any words.

### Launches

`StartCli` and `StartDagRun` are the two ways into `main()`; `LoadDdl`, `LoadReferenceRows`, `SetThresholds` and `Submit` its
steps, each of which may end it; `WriteValidationRun`, `BlockerGate`, `JobSucceeds` and `JobBreaks` its job. A finished DAG
run may be queued again (cleared). `JobName` is whose name a job has: an operator's `--job_name` stays, else `main()`
makes one of the run_id. `MaxLaunches` is the number of slots and not of launches: one that ended is used again with its row forgotten (`Unused`),
so runs are cleared and relaunched without end, and a slot is kept for every queued run (`Room`). External facts the code relies on: Dataflow refuses a name that an active job has, and
Airflow's operator appends a fresh suffix to the DAG's `jobName`, so the lock that the name is for a direct
launch is none between launches of the DAG. Run ids are sequences of characters, and `sanitize_job_name` is modelled by what it
does to them, the cut and the lost dash included. An ended launch keeps what its row and task are compared
with and drops the rest (`Gone`), which keeps states few.

### JsonScan

One action per turn of a loop. A character is what the scan tells apart; `Loads` stands for `json.loads`, in the
instance a small grammar of objects. The reference definition finds strings by the parity of backslashes and closes by
counting braces, so it shares nothing with the loops.

## 3. Runs

| run | checks | shows |
|---|---|---|
| `pipeline` | `IndInv`, `TypeOK`, `RequestsCoverRows`, `OneOutcomePerPosition`, `TablesBoundedByRequest`, `EveryYieldAccounted`, `FailureEndsRequest`, `MicroBatchKeysUnique`, `RunRowMatchesTables`, `SuccessPassedGate`, `RefinesLedger`, `RunEnds` | no position is lost, repeated or doubly judged through crashes, retries and partial flushes; the run row and the gate see the tables; the run implements the ledger; every run succeeds or fails |
| `server` | `TypeOK`, `OnlyFailedSetupsLeak`, `ServedByCurrentServer`, `CallsReturn` | only a setup that raised can leak a process; a clean client is never answered by its own earlier server; every call returns |
| `worker_safety` | `TypeOK`, `CallsBounded`, `RetriesRepeatRows`, `RequestsDrawApart` | one LLM call per column, or per column and request in a seeded B.2; seeded retries repeat; requests share nothing they should not |
| `fidelity` | `TypeOK`, `OnlyRoundingLeavesRange`, `CategoriesAreObserved`, `ScalarsSurvive`, `OnlyConstantsLoseNulls` | through profiling, sampling, clamping and rounding, a number leaves the observed range exactly when an end of it is rounded outwards; constants and categories are observed ones; exactly B.2's constant columns lose their nulls; a scalar column costs a row only by a null key, an LLM answer over max_length, or a date Pandera cannot hold |
| `ddl_extract` | `DdlTypeOK`, `ContractMirrorsTable`, `ConsumableTablesLoad`, `ExitZeroKeepsContract` | the contract keeps every column at any depth with type, mode, length, precision and scale, but no default; it loads exactly when types are supported and keys are columns; an exit code of 0 is kept but for a later local or an earlier interrupted extraction |
| `launches` | `TypeOK`, `SuccessIsExplained`, `DirectJobsSerial`, `DagLaunchersSerial`, `GreenRunWasLaunched`, `JobsHaveContracts`, `JobNamesLegal`, `QueuedRunsEnd` | which launches can overlap; a success with too many failures can be told from its row; a green task means a job of its run was accepted; a queued run ends unless others are queued again and again |
| `json_scan` | `FirstObjectWins`, `UnclosedBraceHides`, `ScanEnds` | the object returned is the leftmost; there is none exactly when an unclosed brace stands before every object; the scan ends |

Runs that end in a violation, each a disagreement between code and text (the findings quote both):

| run | property | what happens |
|---|---|---|
| `pipeline_landing_keys` | `LandingKeysUnique` | a gated success lands two rows with one primary key, from two micro-batches |
| `server_teardown` | `TeardownStopsServer` | after a timed-out and retried setup, teardown leaves the first server alive |
| `worker_client_setup` | `ClientSetUpBeforeUse` | nobody sets the vLLM client up; every pool falls back to exemplars |
| `worker_calls` | `OneCallPerColumn` | with a seed set, B.2 asks the LLM again for each column in every request |
| `fidelity_nested` | `NestedColumnsSurvive` | B.2 cannot profile an array of numbers; both engines drop rows whose struct, array or JSON cell comes out as text |

**Bounds.** *Pipeline*: four rows in requests of three and one (a short last request), micro-batches of
two to three (so one is emitted inside a request, one spans two requests of a bundle, one is flushed
partial), two workers, two keys (so keys may repeat), one retry. Two workers show every interleaving of
a pair of bundles, and the properties relate at most two rows, two requests or two bundles. No
symmetry is used, since the run checks liveness too. *Server*: two clients, three processes, two polls. Three processes
let one client go through a failed setup and its retry while the other holds the port. *Worker*: two columns, two requests, two instances, seed present and absent, two outcomes for a
draw no seed determines; the properties compare two requests, two columns and two instances. *Fidelity*: a unit of four
ticks has a tie and points on both sides of it, twelve ticks hold three units of both signs, and three
reference values leave one strictly inside the range; values beside the range come from sdgx; of two names one is
too long and too far, so each limit is met and missed. *Extractions*: two, of a table that is altered twice, over four tables
that differ in nesting, attributes, constraint, description and support; an older and a newer extraction show every order
of reads and writes. *Launches*: two launches at a time, which every overlap property compares, one after another without end; an operator's
name that is also the one made for a run; two run ids, of which one is cut
at a dash and then has the other's name; one local extraction that succeeds, fails or tears the file; a file that
has no key, gives one half, or gives a ratio above 1, which stands for every file that does not resolve. *Scan*: answers of three pieces out of eleven, so a broken piece can
stand before, inside and behind an object. Counters are
bounded by `NumRows`, `MaxRetries`, `MaxPolls`, `MaxInstances`, `Pids`, `MaxVersion`, `Extractions` and `MaxLaunches` and by
nothing else. Deadlock is checked in every run but `ddl_extract` and `json_scan`, where extractions and a scan end and nothing
follows them: an ended job stutters, an idle caller and an ended DAG run always have a step.

**Fairness.** `ModeAPipeline`: the driver's loop is plain code, and the runner schedules each bundle and
each ready step, so these have weak fairness; crashes and load failures have none. `ModelServer`: each
wait in a call has a timeout (`vllm_client.py:174-181, 329-350`), so a thread inside a call moves on;
nothing is assumed of servers or of callers. `Launches`: `main()` is plain code whose calls have timeouts, and Airflow
polls a task, so both have weak fairness, and so has the start of some queued DAG run. Which one the scheduler takes is its choice, so nothing more is
assumed, and a run whose siblings are cleared again and again may wait for ever: `QueuedRunsEnd` excepts that, and only that. Jobs, operators and extractions owe nothing. `JsonScan`: the loop
runs. `GenerateWorker`, `ColumnFidelity` and `DdlExtract` have no liveness property.

**Mutants.** Every property of a passing run is violated by at least one plausible bug, kept as an operator
next to the definition it replaces: a crash that keeps output, a flush that is forgotten, side inputs read
before the barrier, an inverted ratio, a kill that is omitted, a cache key without its seed, a job name that is fresh each time, a contract
loaded without validation, an escape that is not tracked.

## 4. Proofs

All theorems hold for every value of the constants, under the named assumptions next to them
(a positive batch size, 1 <= min <= max of the batcher, a ratio between zero and one, a positive unit of
rounding, legal prefix of a job name; Workers, Names, Tables, run ids and options may be any set).

* `ModeAPipeline_proofs` proves `TypeCorrect`. The typing is strengthened with finiteness of every
  committed set (`TypeInv`), without which cardinalities mean nothing.
* `ModeAPipelineInv_proofs` proves that `IndInv` is inductive and derives the safety properties from it.
  None of them is inductive alone. The argument: a position is at any time in one place, and the
  invariant says which: its request is not yet created, pending, in exactly one bundle (`Exclusive`), or
  settled; committed rows belong to settled requests only (`CommittedSettled`), so a retried request
  finds no trace of its first attempt; inside a bundle output exists only up to the loop index
  (`BundleReached`), so the next record is at a fresh position and an engine failure is the last of its
  request. Behind the barrier nothing changes any more (`BarrierHolds`), so the counts taken there are
  those of the tables. Counting lemmas (`DisjointSum`, `PositionsAdd`, `SlotsOfSize`) carry this to
  cardinalities. That is `RowsInv`, one half of `IndInv`; the other, `KeysInv`, is about primary keys: a record
  leaves the batcher's buffer when its micro-batch is checked, so the positions of checked micro-batches are
  those of rows and letters already out (`BundleChecked`), no later record stands at one of them, and what the check
  said of the keys stays true while rows are added and bundles commit (`MicroBatchKeys`).
* The same module proves that the pipeline implements `RowLedger` (`ImplementsLedger`), one lemma per kind of step: a turn of the
  loop is the ledger's `Request`, because `RequestsCoverRows` keeps its count; a commit is `Settle`, because the
  bundle's positions are requested, unsettled and at none of the committed ones; an end is `Conclude`, and a success
  one over all rows and within the ratio; all other steps, crashed bundles included, leave `InFlight` alone and so stutter.
* `ModelServer_proofs` proves the types, `OnlyFailedSetupsLeak` and the action property `ServedByCurrentServer`. One
  invariant serves both: a live process that nobody's failure explains is held by its owner's `_server` or by
  its teardown; whoever has the port is alive, so what makes a client ready or answers it is its current server or
  nothing of its own. `CallsAdvance` is the variant of a call: two steps per turn of the readiness loop, two waits of a
  teardown; what `CallsReturn` adds to it is that the thread moves.
* `GenerateWorker_proofs` proves all four invariants of `worker_safety`. For `RetriesRepeatRows` the invariant ties every
  output of the current instance to the tables it came from: a cached pool is never overwritten, a B.1 pool is
  never changed after setup, and with the fake client every pool is the one its seed determines. For the other two,
  `PoolInv`: a pool in B.2's cache carries the seed of its key, and different requests have different seeds
  (`RequestsDrawApart`); and the calls of an instance are as many as the pools it holds, of which there is at most one per key (`CallsBounded`,
  counted with the library's theorems on finite sets).
* `ColumnFidelity_proofs` proves all five properties of its run. The invariant says that profile, draw and
  cell are functions of what came before them; the work is in lemmas about those functions. `Between`: a grid
  point at most half a unit from x lies between the grid points around x, so rounding after clipping keeps numbers whose range
  ends on the grid inside it; `RoundHalfEvenNear` and `RoundHalfUpNear` show that the two roundings are such
  points; `RoundedFits`, `SampleB1Fits` and `EnforceFits` carry that to cells. `OnlyRoundingLeavesRange` has two directions: by `RoundedAbove` and
  `RoundedBelow` a number between two ends that are not rounded outwards stays between them, and by `EndsAreDrawn` and `EndsEscape` an end
  that is rounded outwards is a value that may be drawn and is then outside. That a bounded set of
  integers has a least element comes from the well-foundedness of the naturals. `StringsKnown` and `OnlyFarDatesFail`
  say which rows the two validators cost.
* `DdlExtract_proofs` proves all four properties of its run. `RoundTrip` and `LoadsIffConsumable` are facts about documents, for
  tables of any columns. `ExitZeroKeepsContract` needs the order of extractions: a later one is started when the CLI of
  the earlier is back, so it reads a version at least as new (`DdlInv`), and a finished file can be replaced by no
  other than those the property names.
* `Launches_proofs` proves all seven invariants of its run. `LInv` adds to `DdlInv` what a launch at each step
  of `main()` has (`LaunchInv`), which launch a DAG run points at (`RunInv`), that the only run in the slot is the one
  whose launch is in `main()` (`Serial`), and that running jobs of one shared name are one (`NamesUnique`). Each action has a lemma
  that it keeps `LInv`. `JobNameLegal` holds for every run_id and every length of the cut: `LastPosition` finds the
  last character that is no dash, `RstripLegal` that what is left is legal.
* `JsonScan_proofs` proves both invariants of its run, for answers of any length and any `json.loads`. The reference,
  `Outside`, is a recursive function from the end of the answer; `OutsideLevel` shows that its recursion has a solution (there is
  a partial one from every position on, by a least counterexample), so it can be unfolded. `ScanOK` then says what
  `depth`, `in_str` and `escaped` mean: the difference of the braces seen, the quote at which the string opened and what is
  outside behind it, the parity of the backslashes. `ScanStep` shows that a turn keeps this and stops exactly at a balancing close.
  `TurnsAdvance` is the variant of the two loops; what `ScanEnds` adds to it is that the loop runs.

So every invariant and the refinement of the passing runs, and the safety action property, hold for every instance.

Only model-checked: liveness (`RunEnds`, `CallsReturn`, `QueuedRunsEnd`, `ScanEnds`), since its proofs need ENABLED, which the
prover does not reason about; and the five runs that end in a violation, where a counterexample is the result. Where an
induction was needed it is over a set, by its least element: the library's induction theorems take an operator and cannot be instantiated here.

## 5. Not modelled, and the plan

What is left to do, most important first:

1. **Variants** of the pipeline and of `main()`, as for the scan and the client's calls: retries and steps left bound what
   `RunEnds` and `QueuedRunsEnd` only check on an instance. The pipeline's is a sum over bundles.
2. **Digits**: `max_digits` of a NUMERIC(p) without a scale, which the code nevertheless rounds to two places; and integers
   beyond 53 bits, which both engines pass through float(). Both need a second grid in `ColumnFidelity`.
3. **The gap between a contract and the rows read later**: a table altered after its extraction. It needs the rows'
   columns in `Launches`.

Left out on purpose:

* *B.1 index, embedder and serializer; backends' floating-point sampling; blending of pools.* Arithmetic over floats without
  control state: it decides how likely a draw is, and the models let every possible draw happen.
* *The weights pull of the vLLM client.* A pull that fails raises out of `setup` before anything is spawned and leaves the
  client as it was.
* *Digest and local sinks*: one pass over one list. *Partitioning, clustering, storage figures, descriptions* of an
  extraction: copied through. *Machine types, labels, networks* of the DAG: constants. *Images, scripts, CI*: no
  state of the running system.
* BigQuery, Airflow, Dataflow, pandas and the Beam SDK beyond what this code relies on; they are external actions and constants.

Statements in the code that a passing run qualifies: its property says exactly when they do not hold, and the findings quote them.
Clipping keeps numbers in the observed support (`OnlyRoundingLeavesRange`: the rounding comes after it); the null-rate is preserved
(`OnlyConstantsLoseNulls`); no later `{` does better than an unclosed one (`UnclosedBraceHides`); an extracted document is directly
consumable (`ConsumableTablesLoad`). Also, `FieldSchema` and `derive_bq_field` carry a default_value_expression that `_field_to_dict` never
gives them (`ContractMirrorsTable`).

Two statements in the code that no run refutes, because the models show the code's side only: base.py:129-130 lets an
engine yield fewer than n records since "the caller will request more if needed", but `GenerateRecordsDoFn.process`
asks once (`SkipRow` is final, and no letter or count tells of it); derive_pandera.py:4-5 calls its failure set "a superset of the Pydantic
per-record model's", but `PanderaTakes` admits a null in a NULLABLE primary key, which `Accepts` does not.
