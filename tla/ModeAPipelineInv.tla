--------------------------- MODULE ModeAPipelineInv ---------------------------
(***************************************************************************)
(* The inductive invariant behind the safety properties of ModeAPipeline.  *)
(* It says where each row position of a run can be: in a request still to  *)
(* be created, in a pending request, in exactly one bundle, or settled;    *)
(* and what a bundle holds of the positions it has taken.                  *)
(***************************************************************************)
EXTENDS ModeAPipeline

Failures(letters) == {e \in letters : e.rule_id = "engine_failure"}

\* Distinct elements of S stand at distinct row positions.
DistinctSlots(S) == \A x, y \in S : Slot(x) = Slot(y) => x = y

\* What a bundle has produced, wherever in the fused stage it is.
Outputs(b) == b.main \cup b.buffer \cup b.dlq

\* The element x belongs to a request of Q.
Within(x, Q) == \E q \in Q : x.batch_id = q.batch_id /\ x.i <= q.n

\* The loop position of a bundle: its current request is one it has begun.
BundlePlace(b) ==
  /\ b.todo \subseteq b.taken
  /\ b.cur # NoRequest => b.cur \in b.taken \ b.todo /\ b.made <= b.cur.n
  /\ b.taken = {} => b = IdleBundle

\* Output comes only from requests begun, and from the current one only up
\* to the engine's loop index.
BundleReached(b) ==
  \A x \in Outputs(b) :
    /\ Within(x, b.taken \ b.todo)
    /\ b.cur # NoRequest /\ x.batch_id = b.cur.batch_id => x.i <= b.made

\* A position is in one place of the fused stage only.
BundleDistinct(b) ==
  /\ DistinctSlots(b.main \cup b.buffer)
  /\ DistinctSlots(b.dlq)
  /\ Slots(b.main \cup b.buffer) \cap Slots(b.dlq) = {}
  /\ b.main \cap b.buffer = {}

\* An engine failure is the last output of its request.
BundleFailures(b) ==
  \A e \in Failures(b.dlq) :
    /\ b.cur # NoRequest => e.batch_id # b.cur.batch_id
    /\ \A x \in Outputs(b) : x.batch_id = e.batch_id => x.i <= e.i

\* Every record yielded is in the bundle, as a record or as a letter.
BundleCount(b) ==
  b.yielded = Cardinality(b.main \cup b.buffer) + Cardinality(b.dlq \ Failures(b.dlq))

BundleInv(b) ==
  BundlePlace(b) /\ BundleReached(b) /\ BundleDistinct(b) /\ BundleFailures(b) /\ BundleCount(b)

-----------------------------------------------------------------------------
\* batch_ids count up from zero and name one request each.
RequestsNumbered ==
  /\ \A q \in requests : q.batch_id < Cardinality(requests)
  /\ \A p, q \in requests : p.batch_id = q.batch_id => p = q

\* Pending requests and bundles share no request.
Exclusive ==
  /\ pending \subseteq requests
  /\ \A w \in Workers : bundle[w].taken \subseteq requests \ pending
  /\ \A v, w \in Workers : v # w => bundle[v].taken \cap bundle[w].taken = {}

\* What is committed belongs to requests that are no longer in flight.
CommittedSettled ==
  /\ job = "building" => InFlight = {} /\ valid = {} /\ dlq = {}
  /\ \A x \in valid \cup dlq : Within(x, requests \ InFlight)

\* The steps behind the barrier run over the complete, unchanging output.
BarrierHolds ==
  /\ done # {} \/ summary # {} \/ job = "succeeded" =>
       pending = {} /\ (\A w \in Workers : Idle(w)) /\ job # "building"
  /\ landing = IF "WriteLanding" \in done THEN valid ELSE {}
  /\ dead_letter = IF "WriteDLQ" \in done THEN dlq ELSE {}
  /\ summary \subseteq {BuildRunSummary(Cardinality(valid), dlq)}
  /\ validation_runs \subseteq summary
  /\ "BlockerGate" \in done => \E row \in summary : row.status # "FAILED_BLOCKER"
  /\ job = "succeeded" => done = Steps

\* Where the rows are: every part of it is needed for a position to have one
\* outcome, and for the tables and the gate to see all of them.
RowsInv ==
  /\ RequestsNumbered
  /\ Exclusive
  /\ \A w \in Workers : BundleInv(bundle[w])
  /\ CommittedSettled
  /\ BarrierHolds
  /\ RequestsCoverRows
  /\ OneOutcomePerPosition
  /\ EveryYieldAccounted
  /\ FailureEndsRequest

\* Every record of a checked micro-batch has left the buffer, for main or for
\* the DLQ, so no later micro-batch has it; one in main was alone there with
\* its key.
BundleChecked(b) ==
  /\ \A batch \in b.checked : Slots(batch) \subseteq Slots(b.main \cup b.dlq)
  /\ \A batch \in b.checked : \A r \in batch \cap b.main, s \in batch : r.pk = s.pk => r = s

\* The same of the committed micro-batches: a later commit brings other rows.
KeysInv ==
  /\ \A w \in Workers : BundleChecked(bundle[w])
  /\ \A batch \in checked : Slots(batch) \subseteq Slots(valid \cup dlq)
  /\ MicroBatchKeysUnique

\* The inductive invariant.
IndInv == RowsInv /\ KeysInv
==============================================================================
