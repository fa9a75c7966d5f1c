---------------------------- MODULE ModeAPipeline ----------------------------
(***************************************************************************)
(* One Mode-A synthesis run: build_pipeline()'s graph executed by a Beam   *)
(* runner.  The launcher cuts num_rows into requests; workers take bundles *)
(* of requests through the fused stage Generate -> ValidateRecord -> Batch *)
(* -> PanderaValidate; what a bundle produced becomes visible only when    *)
(* the bundle commits, and a crashed bundle is retried from its requests.  *)
(* Over the committed output the run writes the landing and dead_letter    *)
(* tables, and, behind the side-input barrier, the validation_runs row and *)
(* the BLOCKER gate.                                                       *)
(*                                                                         *)
(* A row position is the pair of a batch_id and the index of the engine's  *)
(* loop.  A record is its position, its primary key, and which validator,  *)
(* if any, rejects it; a dead letter is the position of the record (or,    *)
(* for an engine failure, of the record that was not produced) and the     *)
(* rule_id.  All other payload is left out.                                *)
(***************************************************************************)
EXTENDS Integers, FiniteSets

CONSTANTS
  NumRows,       \* --num_rows
  BatchSize,     \* --batch_size, rows per request
  MinBatch,      \* BatchElements(min_batch_size)
  MaxBatch,      \* BatchElements(max_batch_size)
  Workers,       \* worker threads that run bundles
  Keys,          \* primary-key values an engine may generate
  MaxRetries,    \* bundle retries the runner grants before it fails the job
  GateNum,       \* blocker_failure_ratio is GateNum / GateDen
  GateDen,
  WithRunsSink,  \* TRUE when a validation_runs sink is supplied
  FailOnBlocker, \* config.fail_on_blocker
  NoRequest      \* a worker between two requests

ASSUME RowsAssumption   == NumRows \in Nat /\ BatchSize \in Nat \ {0}
ASSUME BatchAssumption  == MinBatch \in Nat \ {0} /\ MaxBatch \in Nat /\ MinBatch <= MaxBatch
ASSUME RetryAssumption  == MaxRetries \in Nat
ASSUME GateAssumption   == GateNum \in Nat /\ GateDen \in Nat \ {0} /\ GateNum <= GateDen
ASSUME ConfigAssumption == WithRunsSink \in BOOLEAN /\ FailOnBlocker \in BOOLEAN
ASSUME NoneAssumption   == NoRequest \notin [batch_id : Nat, n : Nat]

VARIABLES
  job,            \* "building" (driver side), "running", "succeeded", "failed"
  remaining,      \* build_pipeline's local: rows not yet in a request
  requests,       \* request_specs; batch_id is its size
  pending,        \* requests no bundle has taken, or that a crash gave back
  bundle,         \* per worker, the bundle in progress
  retries,        \* bundle retries used
  valid,          \* committed batch_validated.main
  dlq,            \* committed dlq_raw: the three failure tags, flattened
  yielded,        \* committed value of the counter generation/yielded
  checked,        \* committed micro-batches PanderaValidate saw (history)
  summary,        \* summary_rows: {} or the single validation_runs row
  done,           \* the steps after the barrier that have finished
  landing,        \* the landing table
  dead_letter,    \* the dead_letter table
  validation_runs \* the validation_runs table

stageVars == <<valid, dlq, yielded, checked>>
tableVars == <<landing, dead_letter, validation_runs>>
vars == <<job, remaining, requests, pending, bundle, retries, stageVars,
          summary, done, tableVars>>

-----------------------------------------------------------------------------
Requests == [batch_id : Nat, n : 1..BatchSize]

\* What rejects a record: nothing, the derived Pydantic model (schema.types),
\* or a column check of the derived Pandera schema (schema.batch).
Verdicts == {"clean", "types", "check"}

Records == [batch_id : Nat, i : 1..BatchSize, pk : Keys, verdict : Verdicts]

RuleIds == {"engine_failure", "schema.types", "schema.batch"}

Letters == [batch_id : Nat, i : 1..BatchSize, rule_id : RuleIds]

BLOCKER_RULE_IDS == {"schema.types", "null.required", "pk.duplicate"}

Slot(x) == <<x.batch_id, x.i>>
Slots(S) == {Slot(x) : x \in S}
SlotsOf(q) == {q.batch_id} \X (1..q.n)
Positions(Q) == UNION {SlotsOf(q) : q \in Q}

Blockers(letters) == {e \in letters : e.rule_id \in BLOCKER_RULE_IDS}

Letter(r, rule) == [batch_id |-> r.batch_id, i |-> r.i, rule_id |-> rule]

IdleBundle == [taken |-> {}, todo |-> {}, cur |-> NoRequest, made |-> 0, yielded |-> 0,
               buffer |-> {}, main |-> {}, dlq |-> {}, checked |-> {}]

Idle(w) == bundle[w].taken = {}

-----------------------------------------------------------------------------
Init ==
  /\ job = "building"
  /\ remaining = NumRows
  /\ requests = {}
  /\ pending = {}
  /\ bundle = [w \in Workers |-> IdleBundle]
  /\ retries = 0
  /\ valid = {} /\ dlq = {} /\ yielded = 0 /\ checked = {}
  /\ summary = {}
  /\ done = {}
  /\ landing = {} /\ dead_letter = {} /\ validation_runs = {}

\* One turn of the while loop that cuts num_rows into request specs.
RequestSizeUncapped == BatchSize

RequestSize == IF remaining < BatchSize THEN remaining ELSE BatchSize

NextBatchIdStuck == 0

NextBatchId == Cardinality(requests)

CreateRequest ==
  /\ job = "building"
  /\ remaining > 0
  /\ requests' = requests \cup {[batch_id |-> NextBatchId, n |-> RequestSize]}
  /\ remaining' = remaining - RequestSize
  /\ UNCHANGED <<job, pending, bundle, retries, stageVars, summary, done, tableVars>>

\* The graph is submitted; CreateRequests makes every spec an element.
Launch ==
  /\ job = "building"
  /\ remaining = 0
  /\ job' = "running"
  /\ pending' = requests
  /\ UNCHANGED <<remaining, requests, bundle, retries, stageVars, summary, done, tableVars>>

\* The runner hands a worker some of the elements as one bundle.
StartBundle(w) ==
  /\ job = "running"
  /\ Idle(w)
  /\ \E Q \in (SUBSET pending) \ {{}} :
       /\ bundle' = [bundle EXCEPT ![w] = [IdleBundle EXCEPT !.taken = Q, !.todo = Q]]
       /\ pending' = pending \ Q
  /\ UNCHANGED <<job, remaining, requests, retries, stageVars, summary, done, tableVars>>

-----------------------------------------------------------------------------
(* Inside a bundle.  Each operator below returns the bundle it leaves.     *)

\* PanderaValidate: rows that break a column check, or share a primary key
\* with another row of the micro-batch, carry an index.  A schema-level
\* failure does not, and rejects the whole batch only if no row is indexed.
PanderaFailedKeepFirst(batch, schemaLevel) ==
  {r \in batch : r.verdict = "check" \/ \E s \in batch \ {r} : s.pk = r.pk /\ s.i < r.i}

PanderaFailed(batch, schemaLevel) ==
  LET indexed == {r \in batch : \/ r.verdict = "check"
                                \/ \E s \in batch \ {r} : s.pk = r.pk}
  IN  IF indexed = {} /\ schemaLevel THEN batch ELSE indexed

PanderaValidate(b, batch, schemaLevel) ==
  LET failed == PanderaFailed(batch, schemaLevel)
  IN  [b EXCEPT !.main = @ \cup (batch \ failed),
                !.dlq = @ \cup {Letter(r, "schema.batch") : r \in failed},
                !.checked = @ \cup {batch},
                !.buffer = {}]

\* BatchElements: the target size is the estimator's, between the bounds.
MayEmit(batch) == Cardinality(batch) >= MinBatch
MustEmit(batch) == Cardinality(batch) >= MaxBatch

\* What ValidateRecord and Batch do with a record that Generate yields.
Downstream(b, r, emit, schemaLevel) ==
  IF r.verdict = "types"
    THEN [b EXCEPT !.dlq = @ \cup {Letter(r, "schema.types")}]
    ELSE IF emit
           THEN PanderaValidate(b, b.buffer \cup {r}, schemaLevel)
           ELSE [b EXCEPT !.buffer = @ \cup {r}]

\* GenerateRecordsDoFn.process is called with the next request of the bundle.
StartRequest(w) ==
  /\ job = "running"
  /\ bundle[w].cur = NoRequest
  /\ \E q \in bundle[w].todo :
       bundle' = [bundle EXCEPT ![w].cur = q, ![w].made = 0, ![w].todo = @ \ {q}]
  /\ UNCHANGED <<job, remaining, requests, pending, retries, stageVars, summary, done, tableVars>>

Generating(w) ==
  /\ job = "running"
  /\ bundle[w].cur # NoRequest
  /\ bundle[w].made < bundle[w].cur.n

\* The engine yields the record of its next loop index; the record runs
\* through the fused stage before the engine is resumed.
YieldRecord(w) ==
  /\ Generating(w)
  /\ \E pk \in Keys, verdict \in Verdicts, emit \in BOOLEAN, schemaLevel \in BOOLEAN :
       LET b == [bundle[w] EXCEPT !.made = @ + 1, !.yielded = @ + 1]
           r == [batch_id |-> b.cur.batch_id, i |-> b.made, pk |-> pk, verdict |-> verdict]
           batch == b.buffer \cup {r}
       IN  /\ emit => MayEmit(batch)
           /\ MustEmit(batch) => emit
           /\ bundle' = [bundle EXCEPT ![w] = Downstream(b, r, emit, schemaLevel)]
  /\ UNCHANGED <<job, remaining, requests, pending, retries, stageVars, summary, done, tableVars>>

\* The engine drops the row of its next index (a model_validate it swallows).
SkipRow(w) ==
  /\ Generating(w)
  /\ bundle' = [bundle EXCEPT ![w].made = @ + 1]
  /\ UNCHANGED <<job, remaining, requests, pending, retries, stageVars, summary, done, tableVars>>

\* The engine raises instead of producing its next record: one dead letter
\* stands for the rest of the request.
EngineFailureResumes(w) ==
  /\ Generating(w)
  /\ LET at == [batch_id |-> bundle[w].cur.batch_id, i |-> bundle[w].made + 1]
     IN  bundle' = [bundle EXCEPT ![w].made = @ + 1,
                                  ![w].dlq = @ \cup {Letter(at, "engine_failure")}]
  /\ UNCHANGED <<job, remaining, requests, pending, retries, stageVars, summary, done, tableVars>>

EngineFailure(w) ==
  /\ Generating(w)
  /\ LET at == [batch_id |-> bundle[w].cur.batch_id, i |-> bundle[w].made + 1]
     IN  bundle' = [bundle EXCEPT ![w].cur = NoRequest, ![w].made = 0,
                                  ![w].dlq = @ \cup {Letter(at, "engine_failure")}]
  /\ UNCHANGED <<job, remaining, requests, pending, retries, stageVars, summary, done, tableVars>>

\* The engine's iterator is exhausted.
EndRequest(w) ==
  /\ job = "running"
  /\ bundle[w].cur # NoRequest
  /\ bundle[w].made = bundle[w].cur.n
  /\ bundle' = [bundle EXCEPT ![w].cur = NoRequest, ![w].made = 0]
  /\ UNCHANGED <<job, remaining, requests, pending, retries, stageVars, summary, done, tableVars>>

\* finish_bundle flushes the partial micro-batch, then the bundle commits.
FlushedNever(b, schemaLevel) == b

Flushed(b, schemaLevel) ==
  IF b.buffer = {} THEN b ELSE PanderaValidate(b, b.buffer, schemaLevel)

FinishBundle(w) ==
  /\ job = "running"
  /\ ~ Idle(w)
  /\ bundle[w].cur = NoRequest
  /\ bundle[w].todo = {}
  /\ \E schemaLevel \in BOOLEAN :
       LET b == Flushed(bundle[w], schemaLevel)
       IN  /\ valid' = valid \cup b.main
           /\ dlq' = dlq \cup b.dlq
           /\ yielded' = yielded + b.yielded
           /\ checked' = checked \cup b.checked
  /\ bundle' = [bundle EXCEPT ![w] = IdleBundle]
  /\ UNCHANGED <<job, remaining, requests, pending, retries, summary, done, tableVars>>

\* The worker dies, or the bundle raises outside process's try: its output
\* is discarded and its requests are processed again.
CrashBundleKeepsOutput(w) ==
  /\ job = "running"
  /\ ~ Idle(w)
  /\ retries < MaxRetries
  /\ retries' = retries + 1
  /\ pending' = pending \cup bundle[w].taken
  /\ valid' = valid \cup bundle[w].main
  /\ dlq' = dlq \cup bundle[w].dlq
  /\ bundle' = [bundle EXCEPT ![w] = IdleBundle]
  /\ UNCHANGED <<job, remaining, requests, yielded, checked, summary, done, tableVars>>

CrashBundle(w) ==
  /\ job = "running"
  /\ ~ Idle(w)
  /\ retries < MaxRetries
  /\ retries' = retries + 1
  /\ pending' = pending \cup bundle[w].taken
  /\ bundle' = [bundle EXCEPT ![w] = IdleBundle]
  /\ UNCHANGED <<job, remaining, requests, stageVars, summary, done, tableVars>>

\* The retries are used up: the runner fails the job and cancels the rest.
CrashJob(w) ==
  /\ job = "running"
  /\ ~ Idle(w)
  /\ retries = MaxRetries
  /\ job' = "failed"
  /\ UNCHANGED <<remaining, requests, pending, bundle, retries, stageVars, summary, done, tableVars>>

-----------------------------------------------------------------------------
(* Behind the barrier: FILE_LOADS and singleton side inputs wait for the   *)
(* whole of the generation stage.                                          *)
StageComplete ==
  /\ job = "running"
  /\ pending = {}
  /\ \A w \in Workers : Idle(w)

Gated == WithRunsSink /\ FailOnBlocker

Steps == {"WriteLanding", "WriteDLQ"}
           \cup (IF WithRunsSink THEN {"WriteValidationRun"} ELSE {})
           \cup (IF Gated THEN {"BlockerGate"} ELSE {})

WriteLanding ==
  /\ StageComplete
  /\ "WriteLanding" \notin done
  /\ landing' = valid
  /\ done' = done \cup {"WriteLanding"}
  /\ UNCHANGED <<job, remaining, requests, pending, bundle, retries, stageVars, summary,
                 dead_letter, validation_runs>>

WriteDLQ ==
  /\ StageComplete
  /\ "WriteDLQ" \notin done
  /\ dead_letter' = dlq
  /\ done' = done \cup {"WriteDLQ"}
  /\ UNCHANGED <<job, remaining, requests, pending, bundle, retries, stageVars, summary,
                 landing, validation_runs>>

\* observed > blocker_failure_ratio, with observed = 0.0 for an empty run.
TripsGateInverted(blockers, total) == blockers * GateNum > GateDen * total

TripsGateAtRatio(blockers, total) == blockers * GateDen >= GateNum * total

TripsGate(blockers, total) == blockers * GateDen > GateNum * total

\* The rule counts of DlqRuleDict add up to these two numbers.
BuildRunSummary(valid_count, letters) ==
  LET dlq_count == Cardinality(letters)
      blocker_count == Cardinality(Blockers(letters))
  IN  [valid_count |-> valid_count,
       dlq_count |-> dlq_count,
       blocker_count |-> blocker_count,
       status |-> IF TripsGate(blocker_count, valid_count + dlq_count)
                    THEN "FAILED_BLOCKER" ELSE "PASSED"]

SideInputsEarly == job = "running"

\* AsSingleton(valid_count) and AsSingleton(dlq_by_rule) are ready.
SideInputsReady == StageComplete

BuildValidationRun ==
  /\ WithRunsSink
  /\ SideInputsReady
  /\ summary = {}
  /\ summary' = {BuildRunSummary(Cardinality(valid), dlq)}
  /\ UNCHANGED <<job, remaining, requests, pending, bundle, retries, stageVars, done, tableVars>>

WriteValidationRun ==
  /\ StageComplete
  /\ summary # {}
  /\ "WriteValidationRun" \notin done
  /\ validation_runs' = summary
  /\ done' = done \cup {"WriteValidationRun"}
  /\ UNCHANGED <<job, remaining, requests, pending, bundle, retries, stageVars, summary,
                 landing, dead_letter>>

\* _BlockerGateDoFn raises on every retry of a FAILED_BLOCKER row, which
\* fails the job; the writes that have not finished are cancelled with it.
BlockerGateRetriesForever ==
  /\ StageComplete
  /\ Gated
  /\ "BlockerGate" \notin done
  /\ \E row \in summary : row.status = "PASSED"
  /\ done' = done \cup {"BlockerGate"}
  /\ UNCHANGED <<job, remaining, requests, pending, bundle, retries, stageVars, summary, tableVars>>

BlockerGate ==
  /\ StageComplete
  /\ Gated
  /\ "BlockerGate" \notin done
  /\ \E row \in summary :
       IF row.status = "FAILED_BLOCKER"
         THEN job' = "failed" /\ UNCHANGED done
         ELSE done' = done \cup {"BlockerGate"} /\ UNCHANGED job
  /\ UNCHANGED <<remaining, requests, pending, bundle, retries, stageVars, summary, tableVars>>

\* A load job is refused for good.
LoadFailure ==
  /\ StageComplete
  /\ \E step \in Steps \ {"BlockerGate"} :
       /\ step \notin done
       /\ step = "WriteValidationRun" => summary # {}
  /\ job' = "failed"
  /\ UNCHANGED <<remaining, requests, pending, bundle, retries, stageVars, summary, done, tableVars>>

Succeed ==
  /\ StageComplete
  /\ done = Steps
  /\ job' = "succeeded"
  /\ UNCHANGED <<remaining, requests, pending, bundle, retries, stageVars, summary, done, tableVars>>

-----------------------------------------------------------------------------
Process(w) ==
  StartRequest(w) \/ YieldRecord(w) \/ SkipRow(w) \/ EngineFailure(w)
    \/ EndRequest(w) \/ FinishBundle(w)

AfterBarrier ==
  WriteLanding \/ WriteDLQ \/ BuildValidationRun \/ WriteValidationRun \/ BlockerGate \/ Succeed

Ended == job \in {"succeeded", "failed"} /\ UNCHANGED vars

Next ==
  \/ CreateRequest \/ Launch
  \/ \E w \in Workers : StartBundle(w) \/ Process(w) \/ CrashBundle(w) \/ CrashJob(w)
  \/ AfterBarrier
  \/ LoadFailure
  \/ Ended

\* The driver's loop runs; the runner schedules every bundle and step it can
\* run; an engine's iterator makes progress.  Crashes are never obliged.
Fairness ==
  /\ WF_vars(CreateRequest \/ Launch)
  /\ \A w \in Workers : WF_vars(StartBundle(w)) /\ WF_vars(Process(w))
  /\ WF_vars(AfterBarrier)

Spec == Init /\ [][Next]_vars /\ Fairness

-----------------------------------------------------------------------------
RunRows == [valid_count : Nat, dlq_count : Nat, blocker_count : Nat,
            status : {"PASSED", "FAILED_BLOCKER"}]

Bundles == [taken : SUBSET Requests, todo : SUBSET Requests, cur : Requests \cup {NoRequest},
            made : 0..BatchSize, yielded : Nat, buffer : SUBSET Records,
            main : SUBSET Records, dlq : SUBSET Letters, checked : SUBSET SUBSET Records]

\* Every variable has its type: the request sizes stay between one and
\* batch_size, and the driver's count of remaining rows never goes below zero.
TypeOK ==
  /\ job \in {"building", "running", "succeeded", "failed"}
  /\ remaining \in Nat
  /\ requests \in SUBSET Requests
  /\ pending \in SUBSET Requests
  /\ bundle \in [Workers -> Bundles]
  /\ retries \in 0..MaxRetries
  /\ valid \in SUBSET Records /\ landing \in SUBSET Records
  /\ dlq \in SUBSET Letters /\ dead_letter \in SUBSET Letters
  /\ yielded \in Nat
  /\ checked \in SUBSET SUBSET Records
  /\ summary \in SUBSET RunRows /\ validation_runs \in SUBSET RunRows
  /\ done \in SUBSET {"WriteLanding", "WriteDLQ", "WriteValidationRun", "BlockerGate"}

\* The requests cut num_rows into pieces: their positions and what remains
\* add up to num_rows at every turn of the loop, and to num_rows after it.
RequestsCoverRows ==
  /\ Cardinality(Positions(requests)) + remaining = NumRows
  /\ job # "building" => Cardinality(Positions(requests)) = NumRows

\* Whatever bundles crash, retry and race, a row position ends in at most
\* one place: one valid record or one dead letter, never both, never twice.
OneOutcomePerPosition ==
  /\ \A r, s \in valid : Slot(r) = Slot(s) => r = s
  /\ \A d, e \in dlq : Slot(d) = Slot(e) => d = e
  /\ Slots(valid) \cap Slots(dlq) = {}

\* The two data tables together never hold more rows than were asked for
\* (the end-to-end test's conservation: landing + dlq <= num_rows).
TablesBoundedByRequest ==
  Cardinality(landing) + Cardinality(dead_letter) <= NumRows

\* Conservation through the stage: every record the engine yielded in a
\* committed bundle is valid or left a schema dead letter; the flush of the
\* partial micro-batch and the retries lose and repeat none.
EveryYieldAccounted ==
  yielded = Cardinality(valid) + Cardinality({e \in dlq : e.rule_id # "engine_failure"})

\* An engine failure ends its request: nothing of that request comes from a
\* later loop index, so one dead letter stands for all that is missing.
FailureEndsRequest ==
  \A e \in dlq : e.rule_id = "engine_failure" =>
    \A x \in valid \cup dlq : x.batch_id = e.batch_id => x.i <= e.i

\* No two valid records of one micro-batch share a primary key, and a
\* record whose key was repeated there is not valid: all copies go to the DLQ.
MicroBatchKeysUnique ==
  \A batch \in checked : \A r \in batch \cap valid, s \in batch : r.pk = s.pk => r = s

\* The validation_runs row counts what the tables hold once they are loaded, and
\* says PASSED exactly when their share of BLOCKER letters is within the ratio:
\* when it equals the ratio, and when the tables are empty, too.
RunRowMatchesTables ==
  \A row \in validation_runs :
    /\ "WriteLanding" \in done => row.valid_count = Cardinality(landing)
    /\ "WriteDLQ" \in done => /\ row.dlq_count = Cardinality(dead_letter)
                              /\ row.blocker_count = Cardinality(Blockers(dead_letter))
    /\ {"WriteLanding", "WriteDLQ"} \subseteq done =>
         (row.status = "PASSED" <=>
            Cardinality(Blockers(dead_letter)) * GateDen
              <= GateNum * (Cardinality(landing) + Cardinality(dead_letter)))

\* A gated run that succeeded left tables whose share of BLOCKER dead
\* letters is within the environment's ratio.
SuccessPassedGate ==
  job = "succeeded" /\ Gated =>
    Cardinality(Blockers(dead_letter)) * GateDen
      <= GateNum * (Cardinality(landing) + Cardinality(dead_letter))

\* Every run ends, in success or in failure, whatever bundles crash.
RunEnds == <>(job \in {"succeeded", "failed"})

\* The run keeps the promise of the row ledger: a position settles when its
\* request's bundle commits, once and for all.
InFlight == pending \cup UNION {bundle[w].taken : w \in Workers}

Ledger == INSTANCE RowLedger WITH
  requested <- Positions(requests),
  settled   <- IF job = "building" THEN {} ELSE Positions(requests \ InFlight),
  accepted  <- Slots(valid),
  rejected  <- Slots(dlq),
  blocking  <- Slots(Blockers(dlq)),
  outcome   <- IF job \in {"succeeded", "failed"} THEN job ELSE "open"

RefinesLedger == Ledger!Spec

-----------------------------------------------------------------------------
(* A statement of the repository that the code does not keep.              *)

\* config/thresholds.yml makes pk.duplicate a BLOCKER with threshold 0, "0
\* duplicates on declared primary keys": a gated success has none.
LandingKeysUnique ==
  job = "succeeded" /\ Gated =>
    \A r, s \in landing : r.pk = s.pk => r = s
==============================================================================
