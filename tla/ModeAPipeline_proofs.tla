------------------------- MODULE ModeAPipeline_proofs -------------------------
(***************************************************************************)
(* Proofs about ModeAPipeline, for every number of rows, batch size,       *)
(* micro-batch bound, set of workers and keys, retry budget and gate.      *)
(***************************************************************************)
EXTENDS ModeAPipeline, FiniteSetTheorems, TLAPS

(* Everything a bundle step changes besides the bundles themselves.        *)
outsideVars == <<job, remaining, requests, pending, retries, stageVars, summary, done, tableVars>>

(* The sets the code counts are finite: a run creates finitely many        *)
(* elements.                                                               *)
FiniteBundle(b) ==
  IsFiniteSet(b.main) /\ IsFiniteSet(b.dlq) /\ IsFiniteSet(b.buffer)

Finite ==
  /\ IsFiniteSet(requests)
  /\ IsFiniteSet(valid)
  /\ IsFiniteSet(dlq)
  /\ \A w \in Workers : FiniteBundle(bundle[w])

TypeInv == TypeOK /\ Finite

-----------------------------------------------------------------------------
(* The bundle operators return bundles.                                    *)

LEMMA IdleBundleType == IdleBundle \in Bundles /\ FiniteBundle(IdleBundle)
  BY FS_EmptySet, RowsAssumption DEF IdleBundle, Bundles, FiniteBundle

(* The letters made from a finite set of records are finitely many.        *)
LEMMA LettersFinite ==
  ASSUME NEW S \in SUBSET Records, IsFiniteSet(S), NEW rule \in RuleIds
  PROVE  /\ {Letter(r, rule) : r \in S} \in SUBSET Letters
         /\ IsFiniteSet({Letter(r, rule) : r \in S})
<1>1. \A r \in S : Letter(r, rule) \in Letters
  BY DEF Records, Letters, Letter
<1>2. IsFiniteSet({Letter(r, rule) : r \in S})
  <2> DEFINE f == [r \in S |-> Letter(r, rule)]
             T == {Letter(r, rule) : r \in S}
  <2>1. f \in Surjection(S, T)
    BY DEF Surjection
  <2> HIDE DEF f, T
  <2>2. IsFiniteSet(T)
    BY <2>1, FS_Surjection
  <2> QED
    BY <2>2 DEF T
<1> QED
  BY <1>1, <1>2

(* PanderaValidate splits a micro-batch into records and letters.          *)
LEMMA PanderaValidateType ==
  ASSUME NEW b \in Bundles, FiniteBundle(b),
         NEW batch \in SUBSET Records, IsFiniteSet(batch), NEW schemaLevel \in BOOLEAN
  PROVE  /\ PanderaValidate(b, batch, schemaLevel) \in Bundles
         /\ FiniteBundle(PanderaValidate(b, batch, schemaLevel))
<1> DEFINE failed == PanderaFailed(batch, schemaLevel)
           letters == {Letter(r, "schema.batch") : r \in failed}
<1>1. failed \subseteq batch
  BY DEF PanderaFailed
<1> HIDE DEF failed
<1>2. IsFiniteSet(failed) /\ IsFiniteSet(batch \ failed)
  BY <1>1, FS_Subset
<1>3. letters \in SUBSET Letters /\ IsFiniteSet(letters)
  BY <1>1, <1>2, LettersFinite DEF RuleIds
<1> HIDE DEF letters
<1>4. PanderaValidate(b, batch, schemaLevel)
        = [b EXCEPT !.main = @ \cup (batch \ failed), !.dlq = @ \cup letters,
                    !.checked = @ \cup {batch}, !.buffer = {}]
  BY DEF PanderaValidate, failed, letters
<1>5. PanderaValidate(b, batch, schemaLevel) \in Bundles
  <2> DEFINE seen == b.checked \cup {batch}
  <2>1. seen \in SUBSET SUBSET Records
    BY DEF Bundles
  <2>2. /\ b.main \cup (batch \ failed) \in SUBSET Records
        /\ b.dlq \cup letters \in SUBSET Letters
        /\ {} \in SUBSET Records
    BY <1>1, <1>3 DEF Bundles
  <2>3. ASSUME NEW m \in SUBSET Records, NEW d \in SUBSET Letters,
               NEW c \in SUBSET SUBSET Records, NEW f \in SUBSET Records
        PROVE  [b EXCEPT !.main = m, !.dlq = d, !.checked = c, !.buffer = f] \in Bundles
    BY DEF Bundles
  <2>4. PanderaValidate(b, batch, schemaLevel)
          = [b EXCEPT !.main = b.main \cup (batch \ failed), !.dlq = b.dlq \cup letters,
                      !.checked = seen, !.buffer = {}]
    BY <1>4 DEF seen
  <2> HIDE DEF seen
  <2>5. [b EXCEPT !.main = b.main \cup (batch \ failed), !.dlq = b.dlq \cup letters,
                  !.checked = seen, !.buffer = {}] \in Bundles
    BY <2>1, <2>2, <2>3
  <2> QED
    BY <2>4, <2>5
<1>6. FiniteBundle(PanderaValidate(b, batch, schemaLevel))
  <2>1. IsFiniteSet(b.main \cup (batch \ failed))
    BY <1>2, FS_Union DEF FiniteBundle
  <2>2. IsFiniteSet(b.dlq \cup letters)
    BY <1>3, FS_Union DEF FiniteBundle
  <2>3. IsFiniteSet({})
    BY FS_EmptySet
  <2> QED
    BY <2>1, <2>2, <2>3, <1>4 DEF FiniteBundle, Bundles
<1> QED
  BY <1>5, <1>6

(* So does the fused stage downstream of Generate, and the final flush.    *)
LEMMA DownstreamType ==
  ASSUME NEW b \in Bundles, FiniteBundle(b), NEW r \in Records,
         NEW emit \in BOOLEAN, NEW schemaLevel \in BOOLEAN
  PROVE  /\ Downstream(b, r, emit, schemaLevel) \in Bundles
         /\ FiniteBundle(Downstream(b, r, emit, schemaLevel))
<1>1. b.buffer \cup {r} \in SUBSET Records /\ IsFiniteSet(b.buffer \cup {r})
  BY FS_AddElement DEF Bundles, FiniteBundle
<1>2. CASE r.verdict = "types"
  <2>1. Letter(r, "schema.types") \in Letters
    BY DEF Records, Letters, Letter, RuleIds
  <2>2. Downstream(b, r, emit, schemaLevel)
          = [b EXCEPT !.dlq = @ \cup {Letter(r, "schema.types")}]
    BY <1>2 DEF Downstream
  <2>3. IsFiniteSet(b.dlq \cup {Letter(r, "schema.types")})
    BY FS_AddElement DEF FiniteBundle
  <2> QED
    BY <2>1, <2>2, <2>3 DEF Bundles, FiniteBundle
<1>3. CASE r.verdict # "types" /\ emit
  BY <1>1, <1>3, PanderaValidateType DEF Downstream
<1>4. CASE r.verdict # "types" /\ ~ emit
  <2>1. Downstream(b, r, emit, schemaLevel) = [b EXCEPT !.buffer = @ \cup {r}]
    BY <1>4 DEF Downstream
  <2> QED
    BY <1>1, <2>1 DEF Bundles, FiniteBundle
<1> QED
  BY <1>2, <1>3, <1>4

LEMMA FlushedType ==
  ASSUME NEW b \in Bundles, FiniteBundle(b), NEW schemaLevel \in BOOLEAN
  PROVE  Flushed(b, schemaLevel) \in Bundles /\ FiniteBundle(Flushed(b, schemaLevel))
<1>1. b.buffer \in SUBSET Records /\ IsFiniteSet(b.buffer)
  BY DEF Bundles, FiniteBundle
<1> QED
  BY <1>1, PanderaValidateType DEF Flushed

-----------------------------------------------------------------------------
(* Type correctness, one step per action.                                  *)

LEMMA InitType == Init => TypeInv
<1> SUFFICES ASSUME Init PROVE TypeInv
  OBVIOUS
<1>1. IsFiniteSet({})
  BY FS_EmptySet
<1>2. TypeOK
  BY IdleBundleType, RowsAssumption, RetryAssumption DEF Init, TypeOK
<1>3. Finite
  BY <1>1, IdleBundleType DEF Init, Finite
<1> QED
  BY <1>2, <1>3 DEF TypeInv

(* A step that only puts a bundle in a worker's hands keeps the types.     *)
LEMMA BundleStepType ==
  ASSUME TypeInv, NEW w \in Workers, NEW b \in Bundles, FiniteBundle(b),
         bundle' = [bundle EXCEPT ![w] = b], UNCHANGED outsideVars
  PROVE  TypeInv'
<1>1. bundle' \in [Workers -> Bundles]
  BY DEF TypeInv, TypeOK
<1>2. \A v \in Workers : bundle'[v] = IF v = w THEN b ELSE bundle[v]
  BY DEF TypeInv, TypeOK
<1>3. TypeOK'
  BY <1>1 DEF TypeInv, TypeOK, outsideVars, stageVars, tableVars
<1>4. Finite'
  BY <1>2 DEF TypeInv, Finite, outsideVars, stageVars, tableVars
<1> QED
  BY <1>3, <1>4 DEF TypeInv

LEMMA CreateRequestType == TypeInv /\ CreateRequest => TypeInv'
<1> SUFFICES ASSUME TypeInv, CreateRequest PROVE TypeInv'
  OBVIOUS
<1> DEFINE q == [batch_id |-> NextBatchId, n |-> RequestSize]
<1>1. NextBatchId \in Nat
  BY FS_CardinalityType DEF NextBatchId, TypeInv, Finite
<1>2. RequestSize \in 1..BatchSize /\ remaining - RequestSize \in Nat
  BY RowsAssumption DEF CreateRequest, RequestSize, TypeInv, TypeOK
<1>3. q \in Requests
  BY <1>1, <1>2 DEF Requests
<1>4. IsFiniteSet(requests \cup {q})
  BY FS_AddElement DEF TypeInv, Finite
<1>5. TypeOK'
  BY <1>2, <1>3 DEF TypeInv, TypeOK, CreateRequest, stageVars, tableVars
<1>6. Finite'
  BY <1>4 DEF TypeInv, Finite, CreateRequest, stageVars, tableVars
<1> QED
  BY <1>5, <1>6 DEF TypeInv

LEMMA LaunchType == TypeInv /\ Launch => TypeInv'
  BY DEF TypeInv, TypeOK, Finite, Launch, stageVars, tableVars

LEMMA StartBundleType ==
  ASSUME TypeInv, NEW w \in Workers, StartBundle(w)
  PROVE  TypeInv'
<1>1. PICK Q \in (SUBSET pending) \ {{}} :
        /\ bundle' = [bundle EXCEPT ![w] = [IdleBundle EXCEPT !.taken = Q, !.todo = Q]]
        /\ pending' = pending \ Q
  BY DEF StartBundle
<1> DEFINE b == [IdleBundle EXCEPT !.taken = Q, !.todo = Q]
<1>2. Q \in SUBSET Requests
  BY DEF TypeInv, TypeOK
<1>3. b \in Bundles /\ FiniteBundle(b)
  BY <1>2, IdleBundleType DEF Bundles, FiniteBundle, IdleBundle
<1> HIDE DEF b
<1>4. bundle' = [bundle EXCEPT ![w] = b]
  BY <1>1 DEF b
<1>5. bundle' \in [Workers -> Bundles]
  BY <1>3, <1>4 DEF TypeInv, TypeOK
<1>6. TypeOK'
  BY <1>1, <1>5 DEF TypeInv, TypeOK, StartBundle, stageVars, tableVars
<1>7. \A v \in Workers : bundle'[v] = IF v = w THEN b ELSE bundle[v]
  BY <1>4 DEF TypeInv, TypeOK
<1>8. Finite'
  BY <1>3, <1>7 DEF TypeInv, Finite, StartBundle, stageVars, tableVars
<1> QED
  BY <1>6, <1>8 DEF TypeInv

LEMMA StartRequestType ==
  ASSUME TypeInv, NEW w \in Workers, StartRequest(w)
  PROVE  TypeInv'
<1>1. PICK q \in bundle[w].todo :
        bundle' = [bundle EXCEPT ![w].cur = q, ![w].made = 0, ![w].todo = @ \ {q}]
  BY DEF StartRequest
<1> DEFINE b == [bundle[w] EXCEPT !.cur = q, !.made = 0, !.todo = @ \ {q}]
<1>2. bundle[w] \in Bundles /\ FiniteBundle(bundle[w])
  BY DEF TypeInv, TypeOK, Finite
<1>3. b \in Bundles /\ FiniteBundle(b)
  <2> DEFINE T == bundle[w].todo \ {q}
  <2>1. q \in Requests /\ T \in SUBSET Requests /\ 0 \in 0..BatchSize
    BY <1>2, RowsAssumption DEF Bundles
  <2> HIDE DEF T
  <2>2. [bundle[w] EXCEPT !.cur = q, !.made = 0, !.todo = T] \in Bundles
    BY <1>2, <2>1 DEF Bundles
  <2> QED
    BY <1>2, <2>1, <2>2 DEF Bundles, FiniteBundle, T
<1>4. bundle' = [bundle EXCEPT ![w] = b]
  BY <1>1
<1> QED
  BY <1>3, <1>4, BundleStepType DEF StartRequest, outsideVars

(* The record the engine yields next has its index in range.               *)
LEMMA GeneratingFacts ==
  ASSUME TypeInv, NEW w \in Workers, Generating(w)
  PROVE  /\ bundle[w] \in Bundles /\ FiniteBundle(bundle[w])
         /\ bundle[w].cur \in Requests
         /\ bundle[w].made + 1 \in 1..bundle[w].cur.n
         /\ bundle[w].made + 1 \in 1..BatchSize
  BY RowsAssumption DEF TypeInv, TypeOK, Finite, Generating, Bundles, Requests

LEMMA YieldRecordType ==
  ASSUME TypeInv, NEW w \in Workers, YieldRecord(w)
  PROVE  TypeInv'
<1> DEFINE b == [bundle[w] EXCEPT !.made = @ + 1, !.yielded = @ + 1]
           r(pk, verdict) == [batch_id |-> b.cur.batch_id, i |-> b.made,
                              pk |-> pk, verdict |-> verdict]
<1>1. PICK pk \in Keys, verdict \in Verdicts, emit \in BOOLEAN, schemaLevel \in BOOLEAN :
        bundle' = [bundle EXCEPT ![w] = Downstream(b, r(pk, verdict), emit, schemaLevel)]
  BY DEF YieldRecord
<1>2. Generating(w)
  BY DEF YieldRecord
<1>3. b \in Bundles /\ FiniteBundle(b)
  <2>1. /\ bundle[w] \in Bundles /\ FiniteBundle(bundle[w])
        /\ bundle[w].made + 1 \in 0..BatchSize /\ bundle[w].yielded + 1 \in Nat
    BY <1>2, GeneratingFacts DEF Bundles
  <2>2. b \in Bundles
    BY <2>1 DEF Bundles
  <2> QED
    BY <2>1, <2>2 DEF Bundles, FiniteBundle
<1>4. r(pk, verdict) \in Records
  BY <1>2, GeneratingFacts DEF Bundles, Requests, Records
<1> HIDE DEF b, r
<1>5. /\ Downstream(b, r(pk, verdict), emit, schemaLevel) \in Bundles
      /\ FiniteBundle(Downstream(b, r(pk, verdict), emit, schemaLevel))
  BY <1>3, <1>4, DownstreamType
<1> QED
  BY <1>1, <1>5, BundleStepType DEF YieldRecord, outsideVars

LEMMA SkipRowType ==
  ASSUME TypeInv, NEW w \in Workers, SkipRow(w)
  PROVE  TypeInv'
<1> DEFINE b == [bundle[w] EXCEPT !.made = @ + 1]
<1>1. bundle' = [bundle EXCEPT ![w] = b]
  BY DEF SkipRow
<1>2. b \in Bundles /\ FiniteBundle(b)
  BY GeneratingFacts DEF SkipRow, Bundles, FiniteBundle
<1> QED
  BY <1>1, <1>2, BundleStepType DEF SkipRow, outsideVars

LEMMA EngineFailureType ==
  ASSUME TypeInv, NEW w \in Workers, EngineFailure(w)
  PROVE  TypeInv'
<1> DEFINE at == [batch_id |-> bundle[w].cur.batch_id, i |-> bundle[w].made + 1]
           e == Letter(at, "engine_failure")
           b == [bundle[w] EXCEPT !.cur = NoRequest, !.made = 0, !.dlq = @ \cup {e}]
<1>1. bundle' = [bundle EXCEPT ![w] = b]
  BY DEF EngineFailure
<1>2. e \in Letters
  BY GeneratingFacts DEF EngineFailure, Requests, Letters, Letter, RuleIds
<1> HIDE DEF e
<1>3. IsFiniteSet(bundle[w].dlq \cup {e})
  BY GeneratingFacts, FS_AddElement DEF EngineFailure, FiniteBundle
<1>4. b \in Bundles /\ FiniteBundle(b)
  <2> DEFINE L == bundle[w].dlq \cup {e}
  <2>1. /\ bundle[w] \in Bundles /\ FiniteBundle(bundle[w])
        /\ 0 \in 0..BatchSize
    BY GeneratingFacts, RowsAssumption DEF EngineFailure
  <2>2. L \in SUBSET Letters /\ IsFiniteSet(L)
    BY <1>2, <1>3, <2>1 DEF Bundles
  <2> HIDE DEF L
  <2>3. [bundle[w] EXCEPT !.cur = NoRequest, !.made = 0, !.dlq = L] \in Bundles
    BY <2>1, <2>2 DEF Bundles
  <2> QED
    BY <2>1, <2>2, <2>3 DEF Bundles, FiniteBundle, L
<1> QED
  BY <1>1, <1>4, BundleStepType DEF EngineFailure, outsideVars

LEMMA EndRequestType ==
  ASSUME TypeInv, NEW w \in Workers, EndRequest(w)
  PROVE  TypeInv'
<1> DEFINE b == [bundle[w] EXCEPT !.cur = NoRequest, !.made = 0]
<1>1. bundle' = [bundle EXCEPT ![w] = b]
  BY DEF EndRequest
<1>2. bundle[w] \in Bundles /\ FiniteBundle(bundle[w]) /\ 0 \in 0..BatchSize
  BY RowsAssumption DEF TypeInv, TypeOK, Finite
<1>3. b \in Bundles
  BY <1>2 DEF Bundles
<1>4. FiniteBundle(b)
  BY <1>2 DEF Bundles, FiniteBundle
<1> QED
  BY <1>1, <1>3, <1>4, BundleStepType DEF EndRequest, outsideVars

(* A worker that becomes idle leaves the other bundles as they are.        *)
LEMMA IdleStepType ==
  ASSUME TypeInv, NEW w \in Workers, bundle' = [bundle EXCEPT ![w] = IdleBundle]
  PROVE  /\ bundle' \in [Workers -> Bundles]
         /\ \A v \in Workers : FiniteBundle(bundle'[v])
<1>1. \A v \in Workers : bundle'[v] = IF v = w THEN IdleBundle ELSE bundle[v]
  BY DEF TypeInv, TypeOK
<1> QED
  BY <1>1, IdleBundleType DEF TypeInv, TypeOK, Finite

LEMMA FinishBundleType ==
  ASSUME TypeInv, NEW w \in Workers, FinishBundle(w)
  PROVE  TypeInv'
<1>1. PICK schemaLevel \in BOOLEAN :
        /\ valid' = valid \cup Flushed(bundle[w], schemaLevel).main
        /\ dlq' = dlq \cup Flushed(bundle[w], schemaLevel).dlq
        /\ yielded' = yielded + Flushed(bundle[w], schemaLevel).yielded
        /\ checked' = checked \cup Flushed(bundle[w], schemaLevel).checked
  BY DEF FinishBundle
<1> DEFINE b == Flushed(bundle[w], schemaLevel)
<1>2. b \in Bundles /\ FiniteBundle(b)
  BY FlushedType DEF TypeInv, TypeOK, Finite
<1>3. bundle' = [bundle EXCEPT ![w] = IdleBundle]
  BY DEF FinishBundle
<1> HIDE DEF b
<1>4. /\ valid' = valid \cup b.main /\ dlq' = dlq \cup b.dlq
      /\ yielded' = yielded + b.yielded /\ checked' = checked \cup b.checked
  BY <1>1 DEF b
<1>5. IsFiniteSet(valid') /\ IsFiniteSet(dlq')
  BY <1>2, <1>4, FS_Union DEF TypeInv, Finite, FiniteBundle
<1>6. checked' \in SUBSET SUBSET Records
  BY <1>2, <1>4 DEF TypeInv, TypeOK, Bundles
<1>7. valid' \in SUBSET Records /\ dlq' \in SUBSET Letters /\ yielded' \in Nat
  BY <1>2, <1>4 DEF TypeInv, TypeOK, Bundles
<1>8. TypeOK'
  BY <1>3, <1>6, <1>7, IdleStepType DEF TypeInv, TypeOK, FinishBundle, tableVars
<1>9. Finite'
  BY <1>3, <1>5, IdleStepType DEF TypeInv, Finite, FinishBundle
<1> QED
  BY <1>8, <1>9 DEF TypeInv

LEMMA CrashType ==
  ASSUME TypeInv, NEW w \in Workers, CrashBundle(w) \/ CrashJob(w)
  PROVE  TypeInv'
<1>1. CASE CrashBundle(w)
  <2>1. pending' \in SUBSET Requests /\ retries' \in 0..MaxRetries
    BY <1>1, RetryAssumption DEF CrashBundle, TypeInv, TypeOK, Bundles
  <2>2. bundle' = [bundle EXCEPT ![w] = IdleBundle]
    BY <1>1 DEF CrashBundle
  <2>3. TypeOK'
    BY <1>1, <2>1, <2>2, IdleStepType DEF TypeInv, TypeOK, CrashBundle, stageVars, tableVars
  <2>4. Finite'
    BY <1>1, <2>2, IdleStepType DEF TypeInv, Finite, CrashBundle, stageVars
  <2> QED
    BY <2>3, <2>4 DEF TypeInv
<1>2. CASE CrashJob(w)
  BY <1>2 DEF CrashJob, TypeInv, TypeOK, Finite, stageVars, tableVars
<1> QED
  BY <1>1, <1>2

LEMMA AfterBarrierType == TypeInv /\ (AfterBarrier \/ LoadFailure) => TypeInv'
<1> SUFFICES ASSUME TypeInv, AfterBarrier \/ LoadFailure PROVE TypeInv'
  OBVIOUS
<1> USE DEF TypeInv, TypeOK, Finite, stageVars, tableVars
<1>1. CASE WriteLanding
  BY <1>1 DEF WriteLanding
<1>2. CASE WriteDLQ
  BY <1>2 DEF WriteDLQ
<1>3. CASE BuildValidationRun
  <2> DEFINE row == BuildRunSummary(Cardinality(valid), dlq)
  <2>1. IsFiniteSet(Blockers(dlq))
    BY FS_Subset DEF Blockers
  <2>2. row \in RunRows
    BY <2>1, FS_CardinalityType DEF BuildRunSummary, RunRows
  <2> HIDE DEF row
  <2>3. summary' = {row}
    BY <1>3 DEF BuildValidationRun, row
  <2> QED
    BY <1>3, <2>2, <2>3 DEF BuildValidationRun
<1>4. CASE WriteValidationRun
  BY <1>4 DEF WriteValidationRun
<1>5. CASE BlockerGate
  BY <1>5 DEF BlockerGate
<1>6. CASE Succeed
  BY <1>6 DEF Succeed
<1>7. CASE LoadFailure
  BY <1>7 DEF LoadFailure
<1> QED
  BY <1>1, <1>2, <1>3, <1>4, <1>5, <1>6, <1>7 DEF AfterBarrier

LEMMA NextType == TypeInv /\ [Next]_vars => TypeInv'
<1> SUFFICES ASSUME TypeInv, [Next]_vars PROVE TypeInv'
  OBVIOUS
<1>1. CASE UNCHANGED vars
  BY <1>1 DEF TypeInv, TypeOK, Finite, vars, stageVars, tableVars
<1>2. ASSUME NEW w \in Workers, Process(w) PROVE TypeInv'
  BY <1>2, StartRequestType, YieldRecordType, SkipRowType, EngineFailureType,
     EndRequestType, FinishBundleType DEF Process
<1>3. QED
  BY <1>1, <1>2, CreateRequestType, LaunchType, StartBundleType, CrashType,
     AfterBarrierType DEF Next, Ended

(* Type correctness of the run, for every instance: in particular the      *)
(* requests have between one and batch_size rows, and the launcher's count *)
(* of remaining rows never goes below zero.                                *)
THEOREM TypeCorrect == Spec => []TypeOK
<1>1. Spec => []TypeInv
  BY InitType, NextType, PTL DEF Spec
<1>2. TypeInv => TypeOK
  BY DEF TypeInv
<1> QED
  BY <1>1, <1>2, PTL

THEOREM TypeInvariant == Spec => []TypeInv
  BY InitType, NextType, PTL DEF Spec

==============================================================================
