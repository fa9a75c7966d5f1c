----------------------- MODULE ModeAPipelineInv_proofs -----------------------
(***************************************************************************)
(* IndInv is inductive, for every instance; with it the safety properties  *)
(* of ModeAPipeline hold in every reachable state, and the run implements  *)
(* the row ledger.                                                         *)
(***************************************************************************)
EXTENDS ModeAPipelineInv, ModeAPipeline_proofs

-----------------------------------------------------------------------------
(* Finite sets, counted.                                                   *)

(* Disjoint sets add up.                                                   *)
LEMMA DisjointSum ==
  ASSUME NEW S, NEW T, IsFiniteSet(S), IsFiniteSet(T), S \cap T = {}
  PROVE  /\ IsFiniteSet(S \cup T)
         /\ Cardinality(S) \in Nat /\ Cardinality(T) \in Nat
         /\ Cardinality(S \cup T) = Cardinality(S) + Cardinality(T)
<1>1. Cardinality(S \cap T) = 0
  BY FS_EmptySet
<1>2. Cardinality(S) \in Nat /\ Cardinality(T) \in Nat
  BY FS_CardinalityType
<1>3. Cardinality(S \cup T) = Cardinality(S) + Cardinality(T) - Cardinality(S \cap T)
  BY FS_Union
<1>4. IsFiniteSet(S \cup T)
  BY FS_Union
<1> QED
  BY <1>1, <1>2, <1>3, <1>4

(* Records at distinct positions leave as many letters as there are        *)
(* records.                                                                *)
LEMMA LettersCount ==
  ASSUME NEW S \in SUBSET Records, IsFiniteSet(S), DistinctSlots(S), NEW rule \in RuleIds
  PROVE  Cardinality({Letter(r, rule) : r \in S}) = Cardinality(S)
<1> DEFINE f == [r \in S |-> Letter(r, rule)]
           T == {Letter(r, rule) : r \in S}
<1>1. f \in Surjection(S, T)
  BY DEF Surjection
<1>2. \A r, s \in S : f[r] = f[s] => r = s
  BY DEF Letter, Slot, DistinctSlots
<1>3. f \in Injection(S, T)
  BY <1>1, <1>2 DEF Surjection, Injection, IsInjective
<1> HIDE DEF f, T
<1>4. Cardinality(T) = Cardinality(S)
  BY <1>1, <1>3, FS_Surjection
<1> QED
  BY <1>4 DEF T

(* A set of positions is as large as the set of things standing there.     *)
LEMMA SlotsCount ==
  ASSUME NEW S, IsFiniteSet(S), DistinctSlots(S)
  PROVE  IsFiniteSet(Slots(S)) /\ Cardinality(Slots(S)) = Cardinality(S)
<1> DEFINE f == [x \in S |-> Slot(x)]
<1>1. f \in Surjection(S, Slots(S))
  BY DEF Surjection, Slots
<1>2. f \in Injection(S, Slots(S))
  BY <1>1 DEF Surjection, Injection, IsInjective, DistinctSlots
<1> HIDE DEF f
<1> QED
  BY <1>1, <1>2, FS_Surjection

-----------------------------------------------------------------------------
(* The fused stage, one operator at a time.                                *)

(* Letters of records are not engine failures.                             *)
LEMMA SchemaLetters ==
  ASSUME NEW S, NEW rule \in {"schema.types", "schema.batch"}
  PROVE  Failures({Letter(r, rule) : r \in S}) = {}
  BY DEF Failures, Letter

(* Validating the buffered micro-batch keeps the bundle's invariant: the   *)
(* rows are split between main and dlq, and none is lost or repeated.      *)
LEMMA PanderaKeepsInv ==
  ASSUME NEW b \in Bundles, FiniteBundle(b), BundleInv(b), b.taken # {},
         NEW schemaLevel \in BOOLEAN
  PROVE  BundleInv(PanderaValidate(b, b.buffer, schemaLevel))
<1> DEFINE failed == PanderaFailed(b.buffer, schemaLevel)
           letters == {Letter(r, "schema.batch") : r \in failed}
           c == PanderaValidate(b, b.buffer, schemaLevel)
<1>1. failed \subseteq b.buffer
  BY DEF PanderaFailed
<1> HIDE DEF failed
<1>2. /\ failed \in SUBSET Records /\ IsFiniteSet(failed)
      /\ b.buffer \in SUBSET Records /\ b.main \in SUBSET Records
      /\ b.dlq \in SUBSET Letters
      /\ IsFiniteSet(b.main) /\ IsFiniteSet(b.buffer) /\ IsFiniteSet(b.dlq)
  BY <1>1, FS_Subset DEF Bundles, FiniteBundle
<1>3. /\ \A e \in letters : \E r \in failed : e = Letter(r, "schema.batch")
      /\ \A r \in failed : Letter(r, "schema.batch") \in letters
      /\ IsFiniteSet(letters) /\ letters \in SUBSET Letters
  BY <1>2, LettersFinite DEF RuleIds
<1>4. /\ c.taken = b.taken /\ c.todo = b.todo /\ c.cur = b.cur /\ c.made = b.made
      /\ c.yielded = b.yielded /\ c.buffer = {}
      /\ c.main = b.main \cup (b.buffer \ failed)
      /\ c.dlq = b.dlq \cup letters
  BY DEF PanderaValidate, Bundles, failed
<1>5. Failures(letters) = {}
  BY SchemaLetters
<1> HIDE DEF c, letters
<1>6. \A r \in Records : Letter(r, "schema.batch").batch_id = r.batch_id
                         /\ Letter(r, "schema.batch").i = r.i
                         /\ Slot(Letter(r, "schema.batch")) = Slot(r)
  BY DEF Letter, Slot
<1>7. \A x \in Outputs(c) : \E y \in Outputs(b) : x.batch_id = y.batch_id /\ x.i = y.i
  BY <1>1, <1>2, <1>3, <1>4, <1>6 DEF Outputs
<1>8. BundlePlace(c)
  BY <1>4 DEF BundleInv, BundlePlace
<1>9. BundleReached(c)
  BY <1>4, <1>7 DEF BundleInv, BundleReached, Within
<1>10. BundleDistinct(c)
  <2>1. DistinctSlots(c.main \cup c.buffer) /\ c.main \cap c.buffer = {}
    BY <1>1, <1>4 DEF BundleInv, BundleDistinct, DistinctSlots
  <2>2. \A d, e \in letters : Slot(d) = Slot(e) => d = e
    BY <1>1, <1>2, <1>3, <1>6 DEF BundleInv, BundleDistinct, DistinctSlots
  <2>3. \A d \in letters : Slot(d) \in Slots(b.buffer)
    BY <1>1, <1>2, <1>3, <1>6 DEF Slots
  <2>4. \A d \in letters, e \in b.dlq : Slot(d) # Slot(e)
    BY <2>3 DEF BundleInv, BundleDistinct, Slots
  <2>5. DistinctSlots(c.dlq)
    BY <1>4, <2>2, <2>4 DEF BundleInv, BundleDistinct, DistinctSlots
  <2>6. \A x \in c.main, d \in letters : Slot(x) # Slot(d)
    BY <1>1, <1>2, <1>3, <1>4, <1>6 DEF BundleInv, BundleDistinct, DistinctSlots
  <2>7. \A x \in c.main, d \in b.dlq : Slot(x) # Slot(d)
    BY <1>1, <1>4 DEF BundleInv, BundleDistinct, Slots
  <2>8. Slots(c.main \cup c.buffer) \cap Slots(c.dlq) = {}
    BY <1>4, <2>6, <2>7 DEF Slots
  <2> QED
    BY <2>1, <2>5, <2>8 DEF BundleDistinct
<1>11. Failures(c.dlq) = Failures(b.dlq)
  BY <1>4, <1>5 DEF Failures
<1>12. BundleFailures(c)
  BY <1>4, <1>7, <1>11 DEF BundleInv, BundleFailures
<1>13. BundleCount(c)
  <2>1. c.main \cup c.buffer = (b.main \cup b.buffer) \ failed
    BY <1>1, <1>4 DEF BundleInv, BundleDistinct
  <2>2. c.dlq \ Failures(c.dlq) = (b.dlq \ Failures(b.dlq)) \cup letters
    BY <1>4, <1>5, <1>11 DEF Failures
  <2>3. (b.dlq \ Failures(b.dlq)) \cap letters = {}
    BY <1>1, <1>2, <1>3, <1>6 DEF BundleInv, BundleDistinct, Slots
  <2>4. Cardinality((b.main \cup b.buffer) \ failed) + Cardinality(failed)
          = Cardinality(b.main \cup b.buffer)
    <3>1. IsFiniteSet((b.main \cup b.buffer) \ failed)
      BY <1>2, FS_Union, FS_Difference
    <3>2. ((b.main \cup b.buffer) \ failed) \cup failed = b.main \cup b.buffer
      BY <1>1
    <3>3. ((b.main \cup b.buffer) \ failed) \cap failed = {}
      OBVIOUS
    <3> QED
      BY <1>2, <3>1, <3>2, <3>3, DisjointSum
  <2>5. Cardinality(letters) = Cardinality(failed)
    <3>1. DistinctSlots(failed)
      BY <1>1 DEF BundleInv, BundleDistinct, DistinctSlots
    <3> QED
      BY <1>2, <3>1, LettersCount DEF RuleIds, letters
  <2>6. Cardinality((b.dlq \ Failures(b.dlq)) \cup letters)
          = Cardinality(b.dlq \ Failures(b.dlq)) + Cardinality(letters)
    <3>1. IsFiniteSet(b.dlq \ Failures(b.dlq))
      BY <1>2, FS_Difference
    <3> QED
      BY <1>3, <2>3, <3>1, DisjointSum
  <2>7. /\ Cardinality((b.main \cup b.buffer) \ failed) \in Nat
        /\ Cardinality(failed) \in Nat
        /\ Cardinality(b.dlq \ Failures(b.dlq)) \in Nat
    BY <1>2, FS_Union, FS_Difference, FS_CardinalityType
  <2>8. c.yielded = Cardinality(b.main \cup b.buffer) + Cardinality(b.dlq \ Failures(b.dlq))
    BY <1>4 DEF BundleInv, BundleCount
  <2>9. c.yielded = Cardinality((b.main \cup b.buffer) \ failed)
                      + Cardinality((b.dlq \ Failures(b.dlq)) \cup letters)
    BY <2>4, <2>5, <2>6, <2>7, <2>8
  <2> QED
    BY <2>1, <2>2, <2>9 DEF BundleCount
<1> QED
  BY <1>8, <1>9, <1>10, <1>12, <1>13 DEF BundleInv, c

(* The position the engine produces next is nowhere in the bundle yet.     *)
LEMMA NextSlotFresh ==
  ASSUME NEW b \in Bundles, BundleInv(b), b.cur # NoRequest,
         NEW x \in Outputs(b)
  PROVE  Slot(x) # <<b.cur.batch_id, b.made + 1>>
<1>1. x.batch_id = b.cur.batch_id => x.i <= b.made
  BY DEF BundleInv, BundleReached
<1>2. b.made \in Nat
  BY RowsAssumption DEF Bundles
<1>3. x.i # b.made + 1 \/ x.batch_id # b.cur.batch_id
  BY <1>1, <1>2
<1> QED
  BY <1>3 DEF Slot

(* A record appended to the micro-batch, or rejected by ValidateRecord, is *)
(* the one output of its position.                                         *)
LEMMA AppendKeepsInv ==
  ASSUME NEW b \in Bundles, FiniteBundle(b), BundleInv(b), b.cur # NoRequest,
         b.made < b.cur.n, NEW r \in Records,
         r.batch_id = b.cur.batch_id, r.i = b.made + 1,
         NEW c \in Bundles,
         /\ c.taken = b.taken /\ c.todo = b.todo /\ c.cur = b.cur
         /\ c.made = b.made + 1 /\ c.yielded = b.yielded + 1,
         c.main = b.main,
         \/ c.buffer = b.buffer \cup {r} /\ c.dlq = b.dlq
         \/ c.buffer = b.buffer /\ c.dlq = b.dlq \cup {Letter(r, "schema.types")}
  PROVE  BundleInv(c)
<1> DEFINE e == Letter(r, "schema.types")
<1>1. e.batch_id = r.batch_id /\ e.i = r.i /\ e.rule_id = "schema.types" /\ Slot(e) = Slot(r)
  BY DEF Letter, Slot
<1>2. \A x \in Outputs(b) : Slot(x) # Slot(r)
  BY NextSlotFresh DEF Slot
<1>3. b.made \in Nat /\ b.cur.n \in Nat /\ b.cur \in b.taken \ b.todo
      /\ b.cur \in Requests
  BY RowsAssumption DEF Bundles, Requests, BundleInv, BundlePlace
<1>4. \A x \in Outputs(c) : x \in Outputs(b) \/ (x.batch_id = r.batch_id /\ x.i = r.i)
  BY <1>1 DEF Outputs
<1> HIDE DEF e
<1>5. /\ IsFiniteSet(b.main \cup b.buffer) /\ IsFiniteSet(b.dlq)
      /\ IsFiniteSet(b.dlq \ Failures(b.dlq))
  BY FS_Union, FS_Difference DEF FiniteBundle
<1>6. b.yielded = Cardinality(b.main \cup b.buffer) + Cardinality(b.dlq \ Failures(b.dlq))
      /\ Cardinality(b.main \cup b.buffer) \in Nat
      /\ Cardinality(b.dlq \ Failures(b.dlq)) \in Nat
  BY <1>5, FS_CardinalityType DEF BundleInv, BundleCount
<1>7. BundlePlace(c)
  BY <1>3 DEF BundleInv, BundlePlace
<1>8. BundleReached(c)
  <2> SUFFICES ASSUME NEW x \in Outputs(c)
               PROVE  /\ Within(x, c.taken \ c.todo)
                      /\ x.batch_id = c.cur.batch_id => x.i <= c.made
    BY DEF BundleReached
  <2>1. CASE x \in Outputs(b)
    <3>1. Within(x, b.taken \ b.todo) /\ (x.batch_id = b.cur.batch_id => x.i <= b.made)
      BY <2>1 DEF BundleInv, BundleReached
    <3>2. x.i \in Nat
      BY <2>1 DEF Outputs, Bundles, Records, Letters
    <3> QED
      BY <1>3, <3>1, <3>2
  <2>2. CASE x.batch_id = r.batch_id /\ x.i = r.i
    BY <1>3, <2>2 DEF Within
  <2> QED
    BY <1>4, <2>1, <2>2
<1>9. Failures(c.dlq) = Failures(b.dlq)
  BY <1>1 DEF Failures, e
<1>10. BundleFailures(c)
  <2> SUFFICES ASSUME NEW f \in Failures(c.dlq)
               PROVE  /\ f.batch_id # c.cur.batch_id
                      /\ \A x \in Outputs(c) : x.batch_id = f.batch_id => x.i <= f.i
    BY DEF BundleFailures
  <2>1. /\ f.batch_id # b.cur.batch_id
        /\ \A x \in Outputs(b) : x.batch_id = f.batch_id => x.i <= f.i
    BY <1>9 DEF BundleInv, BundleFailures
  <2> QED
    BY <1>4, <2>1
<1>11. CASE c.buffer = b.buffer \cup {r} /\ c.dlq = b.dlq
  <2>1. r \notin b.main \cup b.buffer
    BY <1>2 DEF Outputs
  <2>2. c.main \cup c.buffer = (b.main \cup b.buffer) \cup {r}
    BY <1>11
  <2>3. BundleDistinct(c)
    <3>1. DistinctSlots(c.main \cup c.buffer)
      BY <1>2, <2>2 DEF DistinctSlots, Outputs, BundleInv, BundleDistinct
    <3>2. DistinctSlots(c.dlq) /\ c.main \cap c.buffer = {}
      BY <1>11, <2>1 DEF BundleInv, BundleDistinct
    <3>3. Slots(c.main \cup c.buffer) \cap Slots(c.dlq) = {}
      BY <1>2, <1>11, <2>2 DEF Slots, Outputs, BundleInv, BundleDistinct
    <3> QED
      BY <3>1, <3>2, <3>3 DEF BundleDistinct
  <2>4. Cardinality(c.main \cup c.buffer) = Cardinality(b.main \cup b.buffer) + 1
    BY <1>5, <2>1, <2>2, FS_AddElement
  <2>5. BundleCount(c)
    BY <1>6, <1>9, <1>11, <2>4 DEF BundleCount
  <2> QED
    BY <1>7, <1>8, <1>10, <2>3, <2>5 DEF BundleInv
<1>12. CASE c.buffer = b.buffer /\ c.dlq = b.dlq \cup {e}
  <2>1. e \notin b.dlq
    BY <1>1, <1>2 DEF Outputs
  <2>2. c.dlq \ Failures(c.dlq) = (b.dlq \ Failures(b.dlq)) \cup {e}
    BY <1>1, <1>9, <1>12 DEF Failures
  <2>3. BundleDistinct(c)
    <3>1. DistinctSlots(c.dlq)
      BY <1>1, <1>2, <1>12 DEF DistinctSlots, Outputs, BundleInv, BundleDistinct
    <3>2. Slots(c.main \cup c.buffer) \cap Slots(c.dlq) = {}
      BY <1>1, <1>2, <1>12 DEF Slots, Outputs, BundleInv, BundleDistinct
    <3> QED
      BY <1>12, <3>1, <3>2 DEF BundleInv, BundleDistinct
  <2>4. Cardinality(c.dlq \ Failures(c.dlq)) = Cardinality(b.dlq \ Failures(b.dlq)) + 1
    BY <1>5, <2>1, <2>2, FS_AddElement
  <2>5. BundleCount(c)
    BY <1>6, <1>12, <2>4 DEF BundleCount
  <2> QED
    BY <1>7, <1>8, <1>10, <2>3, <2>5 DEF BundleInv
<1> QED
  BY <1>11, <1>12 DEF e

(* Beginning a request of the bundle: no output of it exists yet.          *)
LEMMA StartKeepsInv ==
  ASSUME NEW b \in Bundles, BundleInv(b), b.cur = NoRequest, NEW q \in b.todo,
         \A p \in b.taken : p.batch_id = q.batch_id => p = q,
         NEW c \in Bundles,
         c = [b EXCEPT !.cur = q, !.made = 0, !.todo = b.todo \ {q}]
  PROVE  BundleInv(c)
<1>1. /\ c.taken = b.taken /\ c.todo = b.todo \ {q} /\ c.cur = q /\ c.made = 0
      /\ c.main = b.main /\ c.buffer = b.buffer /\ c.dlq = b.dlq /\ c.yielded = b.yielded
  BY DEF Bundles
<1>2. q \in b.taken /\ q \in Requests /\ 0 <= q.n
  BY RowsAssumption DEF BundleInv, BundlePlace, Bundles, Requests
<1>3. \A x \in Outputs(b) : x.batch_id # q.batch_id
  BY <1>2 DEF BundleInv, BundleReached, Within
<1>4. Outputs(c) = Outputs(b)
  BY <1>1 DEF Outputs
<1>5. BundlePlace(c)
  BY <1>1, <1>2 DEF BundleInv, BundlePlace
<1>6. BundleReached(c)
  BY <1>1, <1>3, <1>4 DEF BundleInv, BundleReached, Within
<1>7. BundleDistinct(c) /\ BundleCount(c)
  BY <1>1 DEF BundleInv, BundleDistinct, BundleCount
<1>8. BundleFailures(c)
  BY <1>1, <1>3, <1>4 DEF BundleInv, BundleFailures, Failures, Outputs
<1> QED
  BY <1>5, <1>6, <1>7, <1>8 DEF BundleInv

(* The engine drops a row, or its iterator ends.                           *)
LEMMA SkipKeepsInv ==
  ASSUME NEW b \in Bundles, BundleInv(b), b.cur # NoRequest, b.made < b.cur.n,
         NEW c \in Bundles, c = [b EXCEPT !.made = b.made + 1]
  PROVE  BundleInv(c)
<1>1. /\ c.taken = b.taken /\ c.todo = b.todo /\ c.cur = b.cur /\ c.made = b.made + 1
      /\ c.main = b.main /\ c.buffer = b.buffer /\ c.dlq = b.dlq /\ c.yielded = b.yielded
  BY DEF Bundles
<1>2. Outputs(c) = Outputs(b)
  BY <1>1 DEF Outputs
<1>3. b.made \in Nat /\ b.cur.n \in Nat
  BY RowsAssumption DEF Bundles, Requests
<1>4. \A x \in Outputs(b) : x.i \in Nat
  BY DEF Outputs, Bundles, Records, Letters
<1>5. BundlePlace(c)
  BY <1>1, <1>3 DEF BundleInv, BundlePlace
<1>6. BundleReached(c)
  <2> SUFFICES ASSUME NEW x \in Outputs(b)
               PROVE  /\ Within(x, b.taken \ b.todo)
                      /\ x.batch_id = b.cur.batch_id => x.i <= b.made + 1
    BY <1>1, <1>2 DEF BundleReached
  <2>1. /\ Within(x, b.taken \ b.todo)
        /\ x.batch_id = b.cur.batch_id => x.i <= b.made
    BY DEF BundleInv, BundleReached
  <2> QED
    BY <1>3, <1>4, <2>1
<1>7. BundleDistinct(c) /\ BundleCount(c)
  BY <1>1 DEF BundleInv, BundleDistinct, BundleCount
<1>8. BundleFailures(c)
  BY <1>1, <1>2 DEF BundleInv, BundleFailures
<1> QED
  BY <1>5, <1>6, <1>7, <1>8 DEF BundleInv

LEMMA EndKeepsInv ==
  ASSUME NEW b \in Bundles, BundleInv(b), b.taken # {},
         NEW c \in Bundles, c = [b EXCEPT !.cur = NoRequest, !.made = 0]
  PROVE  BundleInv(c)
<1>1. /\ c.taken = b.taken /\ c.todo = b.todo /\ c.cur = NoRequest
      /\ c.main = b.main /\ c.buffer = b.buffer /\ c.dlq = b.dlq /\ c.yielded = b.yielded
  BY DEF Bundles
<1>2. Outputs(c) = Outputs(b)
  BY <1>1 DEF Outputs
<1> QED
  BY <1>1, <1>2 DEF BundleInv, BundlePlace, BundleReached, BundleDistinct, BundleFailures,
                    BundleCount

(* The dead letter of an engine failure takes the position of the record   *)
(* the engine did not produce, and closes the request.                     *)
LEMMA FailureKeepsInv ==
  ASSUME NEW b \in Bundles, FiniteBundle(b), BundleInv(b), b.cur # NoRequest,
         b.made < b.cur.n, NEW e \in Letters,
         e.batch_id = b.cur.batch_id, e.i = b.made + 1, e.rule_id = "engine_failure",
         NEW c \in Bundles,
         /\ c.taken = b.taken /\ c.todo = b.todo /\ c.cur = NoRequest
         /\ c.yielded = b.yielded /\ c.main = b.main /\ c.buffer = b.buffer
         /\ c.dlq = b.dlq \cup {e}
  PROVE  BundleInv(c)
<1>1. \A x \in Outputs(b) : Slot(x) # Slot(e)
  BY NextSlotFresh DEF Slot
<1>2. b.made \in Nat /\ b.cur.n \in Nat /\ b.cur \in b.taken \ b.todo
  BY RowsAssumption DEF Bundles, Requests, BundleInv, BundlePlace
<1>3. \A x \in Outputs(c) : x \in Outputs(b) \/ x = e
  BY DEF Outputs
<1>4. \A x \in Outputs(b) : x.i \in Nat
  BY DEF Outputs, Bundles, Records, Letters
<1>5. BundlePlace(c)
  BY <1>2 DEF BundleInv, BundlePlace
<1>6. BundleReached(c)
  <2>1. Within(e, b.taken \ b.todo)
    BY <1>2 DEF Within
  <2> QED
    BY <1>3, <2>1 DEF BundleInv, BundleReached
<1>7. BundleDistinct(c)
  <2>1. DistinctSlots(c.dlq)
    BY <1>1 DEF DistinctSlots, Outputs, BundleInv, BundleDistinct
  <2>2. Slots(c.main \cup c.buffer) \cap Slots(c.dlq) = {}
    BY <1>1 DEF Slots, Outputs, BundleInv, BundleDistinct
  <2> QED
    BY <2>1, <2>2 DEF BundleInv, BundleDistinct
<1>8. BundleFailures(c)
  <2> SUFFICES ASSUME NEW f \in Failures(c.dlq), NEW x \in Outputs(c), x.batch_id = f.batch_id
               PROVE  x.i <= f.i
    BY DEF BundleFailures
  <2>1. e.i \in Nat
    BY DEF Letters
  <2>2. CASE f = e
    <3>1. x \in Outputs(b) => x.i <= b.made
      BY <2>2 DEF BundleInv, BundleReached
    <3> QED
      BY <1>2, <1>3, <1>4, <2>1, <2>2, <3>1
  <2>3. CASE f \in Failures(b.dlq)
    <3>1. f.batch_id # b.cur.batch_id
      BY <2>3 DEF BundleInv, BundleFailures
    <3> QED
      BY <1>3, <2>3, <3>1 DEF BundleInv, BundleFailures
  <2> QED
    BY <2>2, <2>3 DEF Failures
<1>9. BundleCount(c)
  <2>1. c.dlq \ Failures(c.dlq) = b.dlq \ Failures(b.dlq)
    BY DEF Failures
  <2> QED
    BY <2>1 DEF BundleInv, BundleCount
<1> QED
  BY <1>5, <1>6, <1>7, <1>8, <1>9 DEF BundleInv

(* A worker that runs no bundle holds nothing.                             *)
LEMMA IdleBundleInv == BundleInv(IdleBundle)
<1>1. /\ IdleBundle.taken = {} /\ IdleBundle.todo = {} /\ IdleBundle.cur = NoRequest
      /\ IdleBundle.main = {} /\ IdleBundle.buffer = {} /\ IdleBundle.dlq = {}
      /\ IdleBundle.yielded = 0
  BY DEF IdleBundle
<1>2. Outputs(IdleBundle) = {} /\ Failures({}) = {} /\ Slots({}) = {}
  BY <1>1 DEF Outputs, Failures, Slots
<1>3. Cardinality({}) = 0
  BY FS_EmptySet
<1>4. BundlePlace(IdleBundle) /\ BundleReached(IdleBundle) /\ BundleFailures(IdleBundle)
  BY <1>1, <1>2 DEF BundlePlace, BundleReached, BundleFailures
<1>5. BundleDistinct(IdleBundle)
  BY <1>1 DEF BundleDistinct, DistinctSlots, Slots
<1>6. BundleCount(IdleBundle)
  <2>1. {} \cup {} = {} /\ {} \ Failures({}) = {}
    OBVIOUS
  <2> QED
    BY <1>1, <1>3, <2>1 DEF BundleCount
<1> QED
  BY <1>4, <1>5, <1>6 DEF BundleInv

-----------------------------------------------------------------------------
(* The steps of the run.                                                   *)

Inv == TypeInv /\ RowsInv

(* A worker's step inside its bundle disturbs nothing outside it.          *)
LEMMA BundleStepInv ==
  ASSUME Inv, NEW w \in Workers, ~ Idle(w), NEW b \in Bundles, BundleInv(b),
         b.taken = bundle[w].taken,
         bundle' = [bundle EXCEPT ![w] = b], UNCHANGED outsideVars
  PROVE  RowsInv'
<1>1. \A v \in Workers : bundle'[v] = IF v = w THEN b ELSE bundle[v]
  BY DEF Inv, TypeInv, TypeOK
<1>2. \A v \in Workers : bundle'[v].taken = bundle[v].taken
  BY <1>1
<1>3. InFlight' = InFlight
  BY <1>2 DEF InFlight, outsideVars
<1>4. RequestsNumbered' /\ RequestsCoverRows'
  BY DEF Inv, RowsInv, RequestsNumbered, RequestsCoverRows, outsideVars
<1>5. Exclusive'
  BY <1>2 DEF Inv, RowsInv, Exclusive, outsideVars
<1>6. \A v \in Workers : BundleInv(bundle[v])'
  BY <1>1 DEF Inv, RowsInv
<1>7. CommittedSettled'
  BY <1>3 DEF Inv, RowsInv, CommittedSettled, outsideVars, stageVars
<1>8. BarrierHolds'
  BY DEF Inv, RowsInv, BarrierHolds, outsideVars, stageVars, tableVars
<1>9. OneOutcomePerPosition' /\ EveryYieldAccounted' /\ FailureEndsRequest'
  BY DEF Inv, RowsInv, OneOutcomePerPosition, EveryYieldAccounted, FailureEndsRequest,
         outsideVars, stageVars
<1> QED
  BY <1>4, <1>5, <1>6, <1>7, <1>8, <1>9 DEF RowsInv

(* What a step inside a bundle may use of it.                              *)
LEMMA BundleFacts ==
  ASSUME Inv, NEW w \in Workers
  PROVE  /\ bundle[w] \in Bundles /\ FiniteBundle(bundle[w]) /\ BundleInv(bundle[w])
         /\ bundle[w].cur # NoRequest \/ bundle[w].todo # {} => ~ Idle(w)
         /\ \A p, q \in bundle[w].taken : p.batch_id = q.batch_id => p = q
  BY DEF Inv, TypeInv, TypeOK, Finite, RowsInv, BundleInv, BundlePlace, Idle, Exclusive,
         RequestsNumbered

LEMMA StartRequestInv ==
  ASSUME Inv, NEW w \in Workers, StartRequest(w)
  PROVE  RowsInv'
<1>1. PICK q \in bundle[w].todo :
        bundle' = [bundle EXCEPT ![w].cur = q, ![w].made = 0, ![w].todo = @ \ {q}]
  BY DEF StartRequest
<1> DEFINE b == bundle[w]
           c == [b EXCEPT !.cur = q, !.made = 0, !.todo = b.todo \ {q}]
<1>2. b \in Bundles /\ BundleInv(b) /\ b.cur = NoRequest /\ q \in b.todo /\ ~ Idle(w)
  BY BundleFacts DEF StartRequest
<1>3. \A p \in b.taken : p.batch_id = q.batch_id => p = q
  BY <1>2, BundleFacts DEF BundleInv, BundlePlace
<1>4. bundle' = [bundle EXCEPT ![w] = c]
  BY <1>1
<1>5. bundle' \in [Workers -> Bundles]
  BY StartRequestType DEF Inv, TypeInv, TypeOK
<1>6. c \in Bundles
  BY <1>4, <1>5 DEF Inv, TypeInv, TypeOK
<1>7. c.taken = b.taken
  BY <1>2 DEF Bundles
<1> HIDE DEF c
<1>8. c = [b EXCEPT !.cur = q, !.made = 0, !.todo = b.todo \ {q}]
  BY DEF c
<1> HIDE DEF b
<1>9. BundleInv(c)
  BY <1>2, <1>3, <1>6, <1>8, StartKeepsInv
<1>10. UNCHANGED outsideVars
  BY DEF StartRequest, outsideVars
<1> QED
  BY <1>2, <1>4, <1>6, <1>7, <1>9, <1>10, BundleStepInv DEF b

LEMMA SkipRowInv ==
  ASSUME Inv, NEW w \in Workers, SkipRow(w)
  PROVE  RowsInv'
<1> DEFINE b == bundle[w]
           c == [b EXCEPT !.made = b.made + 1]
<1>1. b \in Bundles /\ BundleInv(b) /\ b.cur # NoRequest /\ b.made < b.cur.n /\ ~ Idle(w)
  BY BundleFacts DEF SkipRow, Generating
<1>2. bundle' = [bundle EXCEPT ![w] = c]
  BY DEF SkipRow
<1>3. c \in Bundles
  BY <1>2, SkipRowType DEF Inv, TypeInv, TypeOK
<1>4. c.taken = b.taken
  BY <1>1 DEF Bundles
<1> HIDE DEF c
<1>5. BundleInv(c)
  BY <1>1, <1>3, SkipKeepsInv DEF c
<1> QED
  BY <1>1, <1>2, <1>3, <1>4, <1>5, BundleStepInv DEF SkipRow, outsideVars

LEMMA EndRequestInv ==
  ASSUME Inv, NEW w \in Workers, EndRequest(w)
  PROVE  RowsInv'
<1> DEFINE b == bundle[w]
           c == [b EXCEPT !.cur = NoRequest, !.made = 0]
<1>1. b \in Bundles /\ BundleInv(b) /\ b.taken # {} /\ ~ Idle(w)
  BY BundleFacts DEF EndRequest, Idle
<1>2. bundle' = [bundle EXCEPT ![w] = c]
  BY DEF EndRequest
<1>3. c \in Bundles
  BY <1>2, EndRequestType DEF Inv, TypeInv, TypeOK
<1>4. c.taken = b.taken
  BY <1>1 DEF Bundles
<1> HIDE DEF c
<1>5. BundleInv(c)
  BY <1>1, <1>3, EndKeepsInv DEF c
<1> QED
  BY <1>1, <1>2, <1>3, <1>4, <1>5, BundleStepInv DEF EndRequest, outsideVars

LEMMA EngineFailureInv ==
  ASSUME Inv, NEW w \in Workers, EngineFailure(w)
  PROVE  RowsInv'
<1> DEFINE b == bundle[w]
           at == [batch_id |-> b.cur.batch_id, i |-> b.made + 1]
           e == Letter(at, "engine_failure")
           c == [b EXCEPT !.cur = NoRequest, !.made = 0, !.dlq = @ \cup {e}]
<1>1. /\ b \in Bundles /\ FiniteBundle(b) /\ BundleInv(b) /\ b.cur # NoRequest
      /\ b.made < b.cur.n /\ ~ Idle(w)
  BY BundleFacts DEF EngineFailure, Generating
<1>2. bundle' = [bundle EXCEPT ![w] = c]
  BY DEF EngineFailure
<1>3. c \in Bundles
  BY <1>2, EngineFailureType DEF Inv, TypeInv, TypeOK
<1>4. e \in Letters /\ e.batch_id = b.cur.batch_id /\ e.i = b.made + 1
      /\ e.rule_id = "engine_failure"
  BY GeneratingFacts DEF Inv, EngineFailure, Requests, Letters, Letter, RuleIds
<1> HIDE DEF e
<1>5. /\ c.taken = b.taken /\ c.todo = b.todo /\ c.cur = NoRequest
      /\ c.yielded = b.yielded /\ c.main = b.main /\ c.buffer = b.buffer
      /\ c.dlq = b.dlq \cup {e}
  BY <1>1 DEF Bundles
<1> HIDE DEF c
<1>6. BundleInv(c)
  BY <1>1, <1>3, <1>4, <1>5, FailureKeepsInv
<1> QED
  BY <1>1, <1>2, <1>3, <1>5, <1>6, BundleStepInv DEF EngineFailure, outsideVars

(* A record goes through ValidateRecord and Batch, and with the micro-batch *)
(* it completes through PanderaValidate.                                   *)
LEMMA YieldRecordInv ==
  ASSUME Inv, NEW w \in Workers, YieldRecord(w)
  PROVE  RowsInv'
<1> DEFINE b == bundle[w]
           a == [b EXCEPT !.made = @ + 1, !.yielded = @ + 1]
           rec(pk, verdict) == [batch_id |-> a.cur.batch_id, i |-> a.made,
                                pk |-> pk, verdict |-> verdict]
<1>1. PICK pk \in Keys, verdict \in Verdicts, emit \in BOOLEAN, schemaLevel \in BOOLEAN :
        bundle' = [bundle EXCEPT ![w] = Downstream(a, rec(pk, verdict), emit, schemaLevel)]
  BY DEF YieldRecord
<1>2. /\ b \in Bundles /\ FiniteBundle(b) /\ BundleInv(b) /\ b.cur # NoRequest
      /\ b.made < b.cur.n /\ ~ Idle(w) /\ Generating(w)
  BY BundleFacts DEF YieldRecord, Generating
<1> DEFINE r == rec(pk, verdict)
           c == Downstream(a, r, emit, schemaLevel)
<1>3. /\ a.taken = b.taken /\ a.todo = b.todo /\ a.cur = b.cur
      /\ a.made = b.made + 1 /\ a.yielded = b.yielded + 1
      /\ a.main = b.main /\ a.buffer = b.buffer /\ a.dlq = b.dlq
  BY <1>2 DEF Bundles
<1>4. a \in Bundles /\ FiniteBundle(a)
  <2>1. b.made + 1 \in 0..BatchSize /\ b.yielded + 1 \in Nat
    BY <1>2, GeneratingFacts DEF Inv, Bundles
  <2>2. a \in Bundles
    BY <1>2, <2>1 DEF Bundles
  <2> QED
    BY <1>2, <1>3, <2>2 DEF FiniteBundle
<1>5. r \in Records /\ r.batch_id = b.cur.batch_id /\ r.i = b.made + 1
  BY <1>2, <1>3, GeneratingFacts DEF Inv, Requests, Records
<1> HIDE DEF a
<1>6. bundle' = [bundle EXCEPT ![w] = c]
  BY <1>1
<1> HIDE DEF r
<1>7. c \in Bundles
  BY <1>4, <1>5, DownstreamType
<1>8. a.taken # {}
  BY <1>2, <1>3 DEF Idle
<1>9. BundleInv(c) /\ c.taken = b.taken
  <2>1. CASE r.verdict = "types"
    <3>1. c = [a EXCEPT !.dlq = a.dlq \cup {Letter(r, "schema.types")}]
      BY <2>1 DEF Downstream
    <3>2. /\ c.taken = b.taken /\ c.todo = b.todo /\ c.cur = b.cur
          /\ c.made = b.made + 1 /\ c.yielded = b.yielded + 1
          /\ c.main = b.main /\ c.buffer = b.buffer
          /\ c.dlq = b.dlq \cup {Letter(r, "schema.types")}
      BY <1>3, <1>4, <3>1 DEF Bundles
    <3> HIDE DEF c, b
    <3> QED
      BY <1>2, <1>5, <1>7, <3>2, AppendKeepsInv
  <2> DEFINE d == [a EXCEPT !.buffer = a.buffer \cup {r}]
  <2>2. /\ d.taken = b.taken /\ d.todo = b.todo /\ d.cur = b.cur
        /\ d.made = b.made + 1 /\ d.yielded = b.yielded + 1
        /\ d.main = b.main /\ d.buffer = b.buffer \cup {r} /\ d.dlq = b.dlq
    BY <1>3, <1>4 DEF Bundles
  <2>3. d \in Bundles /\ FiniteBundle(d)
    <3>1. a.buffer \cup {r} \in SUBSET Records /\ IsFiniteSet(a.buffer \cup {r})
      BY <1>4, <1>5, FS_AddElement DEF Bundles, FiniteBundle
    <3>2. d \in Bundles
      BY <1>4, <3>1 DEF Bundles
    <3> QED
      BY <1>3, <1>4, <2>2, <3>1, <3>2 DEF FiniteBundle
  <2>4. BundleInv(d)
    <3> HIDE DEF d, b
    <3> QED
      BY <1>2, <1>5, <2>2, <2>3, AppendKeepsInv
  <2>5. CASE r.verdict # "types" /\ ~ emit
    <3>1. c = d
      BY <2>5 DEF Downstream
    <3> QED
      BY <2>2, <2>4, <3>1
  <2>6. CASE r.verdict # "types" /\ emit
    <3>1. c = PanderaValidate(a, a.buffer \cup {r}, schemaLevel)
      BY <2>6 DEF Downstream
    <3>2. PanderaValidate(a, a.buffer \cup {r}, schemaLevel)
            = PanderaValidate(d, d.buffer, schemaLevel)
      BY <1>4, <2>2 DEF PanderaValidate, Bundles
    <3>3. PanderaValidate(d, d.buffer, schemaLevel).taken = d.taken
      BY <2>3 DEF PanderaValidate, Bundles
    <3>4. d.taken # {}
      BY <1>3, <1>8, <2>2
    <3> HIDE DEF d, c
    <3> QED
      BY <2>2, <2>3, <2>4, <3>1, <3>2, <3>3, <3>4, PanderaKeepsInv
  <2> QED
    BY <2>1, <2>5, <2>6
<1> HIDE DEF c
<1> QED
  BY <1>2, <1>6, <1>7, <1>9, BundleStepInv DEF YieldRecord, outsideVars

(* The bundle that commits: everything it took is begun, nothing buffered. *)
LEMMA FlushedFacts ==
  ASSUME Inv, NEW w \in Workers, ~ Idle(w), bundle[w].cur = NoRequest, bundle[w].todo = {},
         NEW schemaLevel \in BOOLEAN
  PROVE  LET b == Flushed(bundle[w], schemaLevel)
         IN  /\ b \in Bundles /\ FiniteBundle(b) /\ BundleInv(b)
             /\ b.buffer = {} /\ b.taken = bundle[w].taken /\ b.todo = {}
<1> DEFINE b == Flushed(bundle[w], schemaLevel)
<1>1. bundle[w] \in Bundles /\ FiniteBundle(bundle[w]) /\ BundleInv(bundle[w])
      /\ bundle[w].taken # {}
  BY BundleFacts DEF Idle
<1>2. b \in Bundles /\ FiniteBundle(b)
  BY <1>1, FlushedType
<1>3. CASE bundle[w].buffer = {}
  BY <1>1, <1>2, <1>3 DEF Flushed
<1>4. CASE bundle[w].buffer # {}
  <2>1. b = PanderaValidate(bundle[w], bundle[w].buffer, schemaLevel)
    BY <1>4 DEF Flushed
  <2>2. BundleInv(PanderaValidate(bundle[w], bundle[w].buffer, schemaLevel))
    BY <1>1, PanderaKeepsInv
  <2>3. b.buffer = {} /\ b.taken = bundle[w].taken /\ b.todo = bundle[w].todo
    BY <1>1, <2>1 DEF PanderaValidate, Bundles
  <2> QED
    BY <1>2, <2>1, <2>2, <2>3
<1> QED
  BY <1>3, <1>4

(* While a bundle is in progress nothing behind the barrier has happened.  *)
LEMMA BarrierClosed ==
  ASSUME Inv, \/ \E w \in Workers : ~ Idle(w)
              \/ pending # {}
              \/ job = "building"
  PROVE  /\ done = {} /\ summary = {} /\ job # "succeeded"
         /\ landing = {} /\ dead_letter = {} /\ validation_runs = {}
  BY DEF Inv, RowsInv, BarrierHolds

(* What a bundle commits belongs to requests that had nothing committed.   *)
LEMMA CommitFresh ==
  ASSUME Inv, NEW w \in Workers, FinishBundle(w), NEW schemaLevel \in BOOLEAN
  PROVE  LET b == Flushed(bundle[w], schemaLevel)
         IN  \A x \in valid \cup dlq, y \in b.main \cup b.dlq : x.batch_id # y.batch_id
<1> DEFINE b == Flushed(bundle[w], schemaLevel)
           T == bundle[w].taken
<1>1. BundleInv(b) /\ b.taken = T
  BY FlushedFacts DEF FinishBundle
<1> HIDE DEF b
<1>2. T \subseteq requests /\ T \subseteq InFlight
  BY DEF Inv, RowsInv, Exclusive, InFlight
<1>3. \A x \in b.main \cup b.dlq : Within(x, T)
  BY <1>1 DEF BundleInv, BundleReached, Outputs, Within
<1>4. \A x \in valid \cup dlq : Within(x, requests \ InFlight)
  BY DEF Inv, RowsInv, CommittedSettled
<1>5. \A p \in requests \ InFlight, q \in T : p.batch_id # q.batch_id
  BY <1>2 DEF Inv, RowsInv, RequestsNumbered
<1> QED
  BY <1>3, <1>4, <1>5 DEF Within, b

LEMMA FinishBundleInv ==
  ASSUME Inv, NEW w \in Workers, FinishBundle(w)
  PROVE  RowsInv'
<1>1. PICK schemaLevel \in BOOLEAN :
        /\ valid' = valid \cup Flushed(bundle[w], schemaLevel).main
        /\ dlq' = dlq \cup Flushed(bundle[w], schemaLevel).dlq
        /\ yielded' = yielded + Flushed(bundle[w], schemaLevel).yielded
  BY DEF FinishBundle
<1> DEFINE b == Flushed(bundle[w], schemaLevel)
           T == bundle[w].taken
<1>2. /\ b \in Bundles /\ FiniteBundle(b) /\ BundleInv(b)
      /\ b.buffer = {} /\ b.taken = T /\ b.todo = {}
  BY FlushedFacts DEF FinishBundle
<1>3. valid' = valid \cup b.main /\ dlq' = dlq \cup b.dlq /\ yielded' = yielded + b.yielded
  BY <1>1
<1> HIDE DEF b
<1>4. bundle' = [bundle EXCEPT ![w] = IdleBundle]
  BY DEF FinishBundle
<1>5. \A v \in Workers : bundle'[v] = IF v = w THEN IdleBundle ELSE bundle[v]
  BY <1>4 DEF Inv, TypeInv, TypeOK
<1>6. /\ IdleBundle.taken = {} /\ IdleBundle.todo = {} /\ IdleBundle.cur = NoRequest
      /\ IdleBundle.main = {} /\ IdleBundle.buffer = {} /\ IdleBundle.dlq = {}
      /\ IdleBundle.yielded = 0
  BY DEF IdleBundle
<1>7. T \subseteq requests /\ T \cap pending = {}
      /\ \A v \in Workers : v # w => bundle[v].taken \cap T = {}
  BY DEF Inv, RowsInv, Exclusive
<1>8. requests \ InFlight' = (requests \ InFlight) \cup T
  BY <1>5, <1>6, <1>7 DEF InFlight, FinishBundle
<1>9. \A x \in b.main \cup b.dlq : Within(x, T)
  BY <1>2 DEF BundleInv, BundleReached, Outputs
<1>10. \A x \in valid \cup dlq : Within(x, requests \ InFlight)
  BY DEF Inv, RowsInv, CommittedSettled
<1>11. \A x \in valid \cup dlq, y \in b.main \cup b.dlq : x.batch_id # y.batch_id
  BY CommitFresh DEF b
<1>12. /\ DistinctSlots(b.main) /\ DistinctSlots(b.dlq) /\ Slots(b.main) \cap Slots(b.dlq) = {}
  BY <1>2 DEF BundleInv, BundleDistinct
<1>13. BarrierHolds'
  BY BarrierClosed DEF FinishBundle, BarrierHolds, tableVars
<1>14. RequestsNumbered' /\ RequestsCoverRows'
  BY DEF FinishBundle, Inv, RowsInv, RequestsNumbered, RequestsCoverRows
<1>15. Exclusive'
  BY <1>5, <1>6 DEF FinishBundle, Inv, RowsInv, Exclusive
<1>16. \A v \in Workers : BundleInv(bundle[v])'
  BY <1>5, IdleBundleInv DEF Inv, RowsInv
<1>17. CommittedSettled'
  <2>1. \A x \in (valid \cup dlq)' : Within(x, (requests \ InFlight)')
    BY <1>3, <1>8, <1>9, <1>10 DEF Within, FinishBundle
  <2> QED
    BY <2>1 DEF CommittedSettled, FinishBundle
<1>18. OneOutcomePerPosition'
  <2>1. /\ DistinctSlots(valid) /\ DistinctSlots(dlq) /\ Slots(valid) \cap Slots(dlq) = {}
    BY DEF Inv, RowsInv, OneOutcomePerPosition, DistinctSlots
  <2>2. \A x \in valid \cup dlq, y \in b.main \cup b.dlq : Slot(x) # Slot(y)
    BY <1>11 DEF Slot
  <2>3. DistinctSlots(valid') /\ DistinctSlots(dlq')
    BY <1>3, <1>12, <2>1, <2>2 DEF DistinctSlots
  <2>4. Slots(valid') \cap Slots(dlq') = {}
    BY <1>3, <1>12, <2>1, <2>2 DEF Slots
  <2> QED
    BY <2>3, <2>4 DEF OneOutcomePerPosition, DistinctSlots
<1>19. FailureEndsRequest'
  <2> SUFFICES ASSUME NEW e \in dlq', e.rule_id = "engine_failure",
                      NEW x \in valid' \cup dlq', x.batch_id = e.batch_id
               PROVE  x.i <= e.i
    BY DEF FailureEndsRequest
  <2>1. CASE e \in dlq /\ x \in valid \cup dlq
    BY <2>1 DEF Inv, RowsInv, FailureEndsRequest
  <2>2. CASE e \in b.dlq /\ x \in b.main \cup b.dlq
    BY <1>2, <2>2 DEF BundleInv, BundleFailures, Failures, Outputs
  <2> QED
    BY <1>3, <1>11, <2>1, <2>2
<1>20. EveryYieldAccounted'
  <2> DEFINE old == dlq \ Failures(dlq)
             new == b.dlq \ Failures(b.dlq)
  <2>1. /\ IsFiniteSet(valid) /\ IsFiniteSet(b.main) /\ IsFiniteSet(old) /\ IsFiniteSet(new)
    BY <1>2, FS_Difference DEF Inv, TypeInv, Finite, FiniteBundle
  <2>2. valid \cap b.main = {} /\ old \cap new = {}
    BY <1>11
  <2>3. yielded = Cardinality(valid) + Cardinality(old)
    <3>1. old = {e \in dlq : e.rule_id # "engine_failure"}
      BY DEF Failures
    <3> QED
      BY <3>1 DEF Inv, RowsInv, EveryYieldAccounted
  <2>4. b.yielded = Cardinality(b.main) + Cardinality(new)
    <3>1. b.main \cup b.buffer = b.main
      BY <1>2
    <3> QED
      BY <1>2, <3>1 DEF BundleInv, BundleCount
  <2>5. {e \in dlq' : e.rule_id # "engine_failure"} = old \cup new
    BY <1>3 DEF Failures
  <2> HIDE DEF old, new
  <2>6. /\ Cardinality(valid \cup b.main) = Cardinality(valid) + Cardinality(b.main)
        /\ Cardinality(old \cup new) = Cardinality(old) + Cardinality(new)
        /\ Cardinality(valid) \in Nat /\ Cardinality(b.main) \in Nat
        /\ Cardinality(old) \in Nat /\ Cardinality(new) \in Nat
    BY <2>1, <2>2, DisjointSum
  <2>7. yielded' = Cardinality(valid \cup b.main) + Cardinality(old \cup new)
    BY <1>3, <2>3, <2>4, <2>6
  <2> QED
    BY <1>3, <2>5, <2>7 DEF EveryYieldAccounted
<1> QED
  BY <1>13, <1>14, <1>15, <1>16, <1>17, <1>18, <1>19, <1>20 DEF RowsInv

-----------------------------------------------------------------------------
(* The positions of the requests, counted.                                 *)

LEMMA SlotsOfSize ==
  ASSUME NEW q \in Requests
  PROVE  IsFiniteSet(SlotsOf(q)) /\ Cardinality(SlotsOf(q)) = q.n
<1>1. q.n \in Nat /\ q.n >= 1
  BY DEF Requests
<1>2. IsFiniteSet(1..q.n) /\ Cardinality(1..q.n) = q.n
  BY <1>1, FS_Interval
<1>3. IsFiniteSet({q.batch_id}) /\ Cardinality({q.batch_id}) = 1
  BY FS_Singleton
<1>4. /\ IsFiniteSet({q.batch_id} \X (1..q.n))
      /\ Cardinality({q.batch_id} \X (1..q.n)) = 1 * q.n
  BY <1>2, <1>3, FS_Product
<1> QED
  BY <1>1, <1>4 DEF SlotsOf

LEMMA PositionsFinite ==
  ASSUME NEW Q \in SUBSET Requests, IsFiniteSet(Q)
  PROVE  IsFiniteSet(Positions(Q)) /\ Cardinality(Positions(Q)) \in Nat
<1> DEFINE f == [q \in Q |-> SlotsOf(q)]
           T == {SlotsOf(q) : q \in Q}
<1>1. f \in Surjection(Q, T)
  BY DEF Surjection
<1>2. \A S \in T : IsFiniteSet(S)
  BY SlotsOfSize
<1>3. Positions(Q) = UNION T
  BY DEF Positions
<1> HIDE DEF f, T
<1>4. IsFiniteSet(T)
  BY <1>1, FS_Surjection
<1> QED
  BY <1>2, <1>3, <1>4, FS_UNION, FS_CardinalityType

(* A request with a batch_id of its own adds its n positions.              *)
LEMMA PositionsAdd ==
  ASSUME NEW Q \in SUBSET Requests, IsFiniteSet(Q), NEW q \in Requests,
         \A p \in Q : p.batch_id # q.batch_id
  PROVE  Cardinality(Positions(Q \cup {q})) = Cardinality(Positions(Q)) + q.n
<1>1. Positions(Q \cup {q}) = Positions(Q) \cup SlotsOf(q)
  BY DEF Positions
<1>2. Positions(Q) \cap SlotsOf(q) = {}
  BY DEF Positions, SlotsOf
<1> QED
  BY <1>1, <1>2, SlotsOfSize, PositionsFinite, DisjointSum

-----------------------------------------------------------------------------
(* The driver and the runner.                                              *)

LEMMA InitInv == Init => RowsInv
<1> SUFFICES ASSUME Init PROVE RowsInv
  OBVIOUS
<1>1. IsFiniteSet({}) /\ Cardinality({}) = 0
  BY FS_EmptySet
<1>2. \A w \in Workers : bundle[w] = IdleBundle /\ bundle[w].taken = {}
  BY DEF Init, IdleBundle
<1>3. RequestsNumbered /\ Exclusive
  BY <1>2 DEF Init, RequestsNumbered, Exclusive
<1>4. \A w \in Workers : BundleInv(bundle[w])
  BY <1>2, IdleBundleInv
<1>5. CommittedSettled
  BY <1>2 DEF Init, CommittedSettled, InFlight
<1>6. BarrierHolds
  BY DEF Init, BarrierHolds
<1>7. RequestsCoverRows
  <2>1. Positions({}) = {}
    BY DEF Positions
  <2> QED
    BY <1>1, <2>1, RowsAssumption DEF Init, RequestsCoverRows
<1>8. OneOutcomePerPosition /\ FailureEndsRequest
  BY DEF Init, OneOutcomePerPosition, FailureEndsRequest, Slots
<1>9. EveryYieldAccounted
  <2>1. {e \in dlq : e.rule_id # "engine_failure"} = {}
    BY DEF Init
  <2> QED
    BY <1>1, <2>1 DEF Init, EveryYieldAccounted
<1> QED
  BY <1>3, <1>4, <1>5, <1>6, <1>7, <1>8, <1>9 DEF RowsInv

LEMMA CreateRequestInv ==
  ASSUME Inv, CreateRequest
  PROVE  RowsInv'
<1> DEFINE q == [batch_id |-> NextBatchId, n |-> RequestSize]
<1>1. /\ IsFiniteSet(requests) /\ requests \in SUBSET Requests
      /\ Cardinality(requests) \in Nat /\ remaining \in Nat
  BY FS_CardinalityType DEF Inv, TypeInv, TypeOK, Finite
<1>2. RequestSize \in 1..BatchSize /\ RequestSize <= remaining
  BY <1>1, RowsAssumption DEF CreateRequest, RequestSize
<1>3. q \in Requests /\ q.batch_id = Cardinality(requests) /\ q.n = RequestSize
  BY <1>1, <1>2 DEF Requests, NextBatchId
<1>4. requests' = requests \cup {q} /\ remaining' = remaining - q.n
  BY DEF CreateRequest
<1> HIDE DEF q
<1>5. /\ \A p \in requests : p.batch_id < Cardinality(requests)
      /\ \A o, p \in requests : o.batch_id = p.batch_id => o = p
  BY DEF Inv, RowsInv, RequestsNumbered
<1>6. \A p \in requests : p.batch_id # q.batch_id /\ p.batch_id \in Nat
  BY <1>1, <1>3, <1>5 DEF Requests
<1>7. Cardinality(requests') = Cardinality(requests) + 1
  BY <1>1, <1>4, <1>6, FS_AddElement
<1>8. RequestsNumbered'
  BY <1>1, <1>3, <1>4, <1>5, <1>6, <1>7 DEF RequestsNumbered
<1>9. RequestsCoverRows'
  <2>1. Cardinality(Positions(requests')) = Cardinality(Positions(requests)) + q.n
    BY <1>1, <1>3, <1>4, <1>6, PositionsAdd
  <2>2. Cardinality(Positions(requests)) \in Nat /\ q.n \in Nat
    BY <1>1, <1>3, PositionsFinite DEF Requests
  <2>3. Cardinality(Positions(requests)) + remaining = NumRows
    BY DEF Inv, RowsInv, RequestsCoverRows
  <2>4. Cardinality(Positions(requests')) + remaining' = NumRows
    BY <1>1, <1>4, <2>1, <2>2, <2>3
  <2> QED
    BY <2>4 DEF RequestsCoverRows, CreateRequest
<1>10. Exclusive'
  BY <1>4 DEF CreateRequest, Inv, RowsInv, Exclusive
<1>11. \A w \in Workers : BundleInv(bundle[w])'
  BY DEF CreateRequest, Inv, RowsInv
<1>12. InFlight = {} /\ valid = {} /\ dlq = {} /\ InFlight' = InFlight
  BY DEF CreateRequest, Inv, RowsInv, CommittedSettled, InFlight
<1>13. CommittedSettled'
  BY <1>12 DEF CreateRequest, CommittedSettled, stageVars
<1>14. BarrierHolds'
  BY BarrierClosed DEF CreateRequest, BarrierHolds, stageVars, tableVars
<1>15. OneOutcomePerPosition' /\ EveryYieldAccounted' /\ FailureEndsRequest'
  BY DEF CreateRequest, stageVars, Inv, RowsInv, OneOutcomePerPosition, EveryYieldAccounted,
         FailureEndsRequest
<1> QED
  BY <1>8, <1>9, <1>10, <1>11, <1>13, <1>14, <1>15 DEF RowsInv

LEMMA LaunchInv ==
  ASSUME Inv, Launch
  PROVE  RowsInv'
<1>1. InFlight = {} /\ valid = {} /\ dlq = {}
  BY DEF Launch, Inv, RowsInv, CommittedSettled
<1>2. \A w \in Workers : bundle[w].taken = {}
  BY <1>1 DEF InFlight
<1>3. Exclusive'
  BY <1>2 DEF Launch, Exclusive
<1>4. CommittedSettled'
  BY <1>1 DEF Launch, CommittedSettled, stageVars
<1>5. BarrierHolds'
  BY BarrierClosed DEF Launch, BarrierHolds, stageVars, tableVars
<1>6. RequestsCoverRows'
  <2>1. Cardinality(Positions(requests)) \in Nat
    BY PositionsFinite DEF Inv, TypeInv, TypeOK, Finite
  <2>2. Cardinality(Positions(requests)) + 0 = NumRows
    BY DEF Launch, Inv, RowsInv, RequestsCoverRows
  <2> QED
    BY <2>1, <2>2 DEF Launch, RequestsCoverRows
<1>7. RequestsNumbered' /\ (\A w \in Workers : BundleInv(bundle[w])')
  BY DEF Launch, Inv, RowsInv, RequestsNumbered
<1>8. OneOutcomePerPosition' /\ EveryYieldAccounted' /\ FailureEndsRequest'
  BY DEF Launch, stageVars, Inv, RowsInv, OneOutcomePerPosition, EveryYieldAccounted,
         FailureEndsRequest
<1> QED
  BY <1>3, <1>4, <1>5, <1>6, <1>7, <1>8 DEF RowsInv

LEMMA StartBundleInv ==
  ASSUME Inv, NEW w \in Workers, StartBundle(w)
  PROVE  RowsInv'
<1>1. PICK Q \in (SUBSET pending) \ {{}} :
        /\ bundle' = [bundle EXCEPT ![w] = [IdleBundle EXCEPT !.taken = Q, !.todo = Q]]
        /\ pending' = pending \ Q
  BY DEF StartBundle
<1> DEFINE c == [IdleBundle EXCEPT !.taken = Q, !.todo = Q]
<1>2. /\ c.taken = Q /\ c.todo = Q /\ c.cur = NoRequest
      /\ c.main = {} /\ c.buffer = {} /\ c.dlq = {} /\ c.yielded = 0
  BY DEF IdleBundle
<1>3. \A v \in Workers : bundle'[v] = IF v = w THEN c ELSE bundle[v]
  BY <1>1 DEF Inv, TypeInv, TypeOK
<1> HIDE DEF c
<1>4. BundleInv(c)
  <2>1. BundleDistinct(IdleBundle) /\ BundleCount(IdleBundle)
    BY IdleBundleInv DEF BundleInv
  <2>2. BundleDistinct(c) /\ BundleCount(c)
    BY <1>2, <2>1 DEF BundleDistinct, BundleCount, IdleBundle
  <2>3. Outputs(c) = {} /\ Failures(c.dlq) = {}
    BY <1>2 DEF Outputs, Failures
  <2>4. BundlePlace(c) /\ BundleReached(c) /\ BundleFailures(c)
    BY <1>1, <1>2, <2>3 DEF BundlePlace, BundleReached, BundleFailures
  <2> QED
    BY <2>2, <2>4 DEF BundleInv
<1>5. bundle[w].taken = {} /\ Q \subseteq pending
  BY DEF StartBundle, Idle
<1>6. InFlight' = InFlight
  BY <1>1, <1>2, <1>3, <1>5 DEF InFlight
<1>7. Exclusive'
  BY <1>1, <1>2, <1>3, <1>5 DEF StartBundle, Inv, RowsInv, Exclusive
<1>8. \A v \in Workers : BundleInv(bundle[v])'
  BY <1>3, <1>4 DEF Inv, RowsInv
<1>9. BarrierHolds'
  BY <1>1, BarrierClosed DEF StartBundle, BarrierHolds, stageVars, tableVars
<1>10. CommittedSettled'
  BY <1>6 DEF StartBundle, Inv, RowsInv, CommittedSettled, stageVars
<1>11. RequestsNumbered' /\ RequestsCoverRows'
  BY DEF StartBundle, Inv, RowsInv, RequestsNumbered, RequestsCoverRows
<1>12. OneOutcomePerPosition' /\ EveryYieldAccounted' /\ FailureEndsRequest'
  BY DEF StartBundle, stageVars, Inv, RowsInv, OneOutcomePerPosition, EveryYieldAccounted,
         FailureEndsRequest
<1> QED
  BY <1>7, <1>8, <1>9, <1>10, <1>11, <1>12 DEF RowsInv

(* A crash gives the requests back and commits nothing.                    *)
LEMMA CrashBundleInv ==
  ASSUME Inv, NEW w \in Workers, CrashBundle(w)
  PROVE  RowsInv'
<1>1. pending' = pending \cup bundle[w].taken
  BY DEF CrashBundle
<1>2. \A v \in Workers : bundle'[v] = IF v = w THEN IdleBundle ELSE bundle[v]
  BY DEF CrashBundle, Inv, TypeInv, TypeOK
<1>3. IdleBundle.taken = {}
  BY DEF IdleBundle
<1>4. InFlight' = InFlight
  BY <1>1, <1>2, <1>3 DEF InFlight
<1>5. Exclusive'
  BY <1>1, <1>2, <1>3 DEF CrashBundle, Inv, RowsInv, Exclusive
<1>6. \A v \in Workers : BundleInv(bundle[v])'
  BY <1>2, IdleBundleInv DEF Inv, RowsInv
<1>7. BarrierHolds'
  BY BarrierClosed DEF CrashBundle, BarrierHolds, stageVars, tableVars
<1>8. CommittedSettled'
  BY <1>4 DEF CrashBundle, Inv, RowsInv, CommittedSettled, stageVars
<1>9. RequestsNumbered' /\ RequestsCoverRows'
  BY DEF CrashBundle, Inv, RowsInv, RequestsNumbered, RequestsCoverRows
<1>10. OneOutcomePerPosition' /\ EveryYieldAccounted' /\ FailureEndsRequest'
  BY DEF CrashBundle, stageVars, Inv, RowsInv, OneOutcomePerPosition, EveryYieldAccounted,
         FailureEndsRequest
<1> QED
  BY <1>5, <1>6, <1>7, <1>8, <1>9, <1>10 DEF RowsInv

(* Ending the job, in any way, leaves the rows alone.                      *)
LEMMA CrashJobInv ==
  ASSUME Inv, NEW w \in Workers, CrashJob(w)
  PROVE  RowsInv'
<1>1. InFlight' = InFlight
  BY DEF CrashJob, InFlight
<1>2. BarrierHolds'
  BY BarrierClosed DEF CrashJob, BarrierHolds, stageVars, tableVars
<1>3. Exclusive' /\ CommittedSettled' /\ RequestsNumbered' /\ RequestsCoverRows'
  BY <1>1 DEF CrashJob, stageVars, Inv, RowsInv, Exclusive, CommittedSettled,
              RequestsNumbered, RequestsCoverRows
<1>4. \A v \in Workers : BundleInv(bundle[v])'
  BY DEF CrashJob, Inv, RowsInv
<1>5. OneOutcomePerPosition' /\ EveryYieldAccounted' /\ FailureEndsRequest'
  BY DEF CrashJob, stageVars, Inv, RowsInv, OneOutcomePerPosition, EveryYieldAccounted,
         FailureEndsRequest
<1> QED
  BY <1>2, <1>3, <1>4, <1>5 DEF RowsInv

(* A step behind the barrier: what is left to show is the barrier itself.  *)
LEMMA BehindBarrierInv ==
  ASSUME Inv, StageComplete, job' # "building", BarrierHolds',
         UNCHANGED <<remaining, requests, pending, bundle, valid, dlq, yielded>>
  PROVE  RowsInv'
<1>1. InFlight' = InFlight
  BY DEF InFlight
<1>2. job # "building"
  BY DEF StageComplete
<1>3. Exclusive' /\ CommittedSettled' /\ RequestsNumbered' /\ RequestsCoverRows'
  BY <1>1, <1>2 DEF Inv, RowsInv, Exclusive, CommittedSettled, RequestsNumbered,
                    RequestsCoverRows
<1>4. \A v \in Workers : BundleInv(bundle[v])'
  BY DEF Inv, RowsInv
<1>5. OneOutcomePerPosition' /\ EveryYieldAccounted' /\ FailureEndsRequest'
  BY DEF Inv, RowsInv, OneOutcomePerPosition, EveryYieldAccounted, FailureEndsRequest
<1> QED
  BY <1>3, <1>4, <1>5 DEF RowsInv

LEMMA AfterBarrierInv ==
  ASSUME Inv, AfterBarrier \/ LoadFailure
  PROVE  RowsInv'
<1>1. BarrierHolds /\ job \in {"building", "running", "succeeded", "failed"}
  BY DEF Inv, RowsInv, TypeInv, TypeOK
<1>2. CASE WriteLanding
  <2>1. BarrierHolds'
    BY <1>1, <1>2 DEF WriteLanding, StageComplete, BarrierHolds, Idle, stageVars
  <2> QED
    BY <1>2, <2>1, BehindBarrierInv DEF WriteLanding, StageComplete, stageVars
<1>3. CASE WriteDLQ
  <2>1. BarrierHolds'
    BY <1>1, <1>3 DEF WriteDLQ, StageComplete, BarrierHolds, Idle, stageVars
  <2> QED
    BY <1>3, <2>1, BehindBarrierInv DEF WriteDLQ, StageComplete, stageVars
<1>4. CASE BuildValidationRun
  <2>1. StageComplete /\ summary = {}
    BY <1>4 DEF BuildValidationRun, SideInputsReady
  <2>2. BarrierHolds'
    BY <1>1, <1>4, <2>1 DEF BuildValidationRun, StageComplete, BarrierHolds, Idle, stageVars,
                            tableVars
  <2> QED
    BY <1>4, <2>1, <2>2, BehindBarrierInv DEF BuildValidationRun, StageComplete, stageVars
<1>5. CASE WriteValidationRun
  <2>1. BarrierHolds'
    BY <1>1, <1>5 DEF WriteValidationRun, StageComplete, BarrierHolds, Idle, stageVars
  <2> QED
    BY <1>5, <2>1, BehindBarrierInv DEF WriteValidationRun, StageComplete, stageVars
<1>6. CASE BlockerGate
  <2>1. PICK row \in summary :
          IF row.status = "FAILED_BLOCKER"
            THEN job' = "failed" /\ UNCHANGED done
            ELSE done' = done \cup {"BlockerGate"} /\ UNCHANGED job
    BY <1>6 DEF BlockerGate
  <2>2. BarrierHolds'
    <3>1. /\ UNCHANGED <<pending, bundle, stageVars, summary, tableVars>>
          /\ job = "running" /\ StageComplete
      BY <1>6 DEF BlockerGate, StageComplete
    <3>2. CASE row.status = "FAILED_BLOCKER"
      BY <1>1, <2>1, <3>1, <3>2 DEF StageComplete, BarrierHolds, Idle, stageVars, tableVars
    <3>3. CASE row.status # "FAILED_BLOCKER"
      BY <1>1, <2>1, <3>1, <3>3 DEF StageComplete, BarrierHolds, Idle, stageVars, tableVars
    <3> QED
      BY <3>2, <3>3
  <2>3. job' # "building"
    BY <1>6, <2>1 DEF BlockerGate, StageComplete
  <2> QED
    BY <1>6, <2>2, <2>3, BehindBarrierInv DEF BlockerGate, stageVars
<1>7. CASE Succeed
  <2>1. BarrierHolds'
    BY <1>1, <1>7 DEF Succeed, StageComplete, BarrierHolds, Idle, stageVars, tableVars
  <2> QED
    BY <1>7, <2>1, BehindBarrierInv DEF Succeed, stageVars
<1>8. CASE LoadFailure
  <2>1. BarrierHolds'
    BY <1>1, <1>8 DEF LoadFailure, StageComplete, BarrierHolds, Idle, stageVars, tableVars
  <2> QED
    BY <1>8, <2>1, BehindBarrierInv DEF LoadFailure, stageVars
<1> QED
  BY <1>2, <1>3, <1>4, <1>5, <1>6, <1>7, <1>8 DEF AfterBarrier

-----------------------------------------------------------------------------
(* The micro-batches that were checked.                                    *)

(* Records that only go on to be rejected do not disturb a checked batch.  *)
LEMMA CheckedGrows ==
  ASSUME NEW b, NEW c, BundleChecked(b),
         c.checked = b.checked, c.main = b.main, b.dlq \subseteq c.dlq
  PROVE  BundleChecked(c)
  BY DEF BundleChecked, Slots

(* A micro-batch of rows that no earlier one had is checked like them.     *)
LEMMA PanderaChecked ==
  ASSUME NEW b \in Bundles, NEW batch \in SUBSET Records, BundleChecked(b),
         \A x \in batch, y \in b.main \cup b.dlq : Slot(x) # Slot(y),
         NEW schemaLevel \in BOOLEAN
  PROVE  BundleChecked(PanderaValidate(b, batch, schemaLevel))
<1> DEFINE failed == PanderaFailed(batch, schemaLevel)
           letters == {Letter(r, "schema.batch") : r \in failed}
           c == PanderaValidate(b, batch, schemaLevel)
<1>1. /\ c.main = b.main \cup (batch \ failed) /\ c.dlq = b.dlq \cup letters
      /\ c.checked = b.checked \cup {batch}
  BY DEF PanderaValidate, Bundles
<1>2. \A r, s \in batch : r.pk = s.pk /\ r # s => r \in failed
  BY DEF PanderaFailed
<1>3. \A r \in failed : Slot(r) = Slot(Letter(r, "schema.batch"))
  BY DEF Slot, Letter
<1> HIDE DEF failed, c
<1>4. Slots(batch) \subseteq Slots(c.main \cup c.dlq)
  BY <1>1, <1>3 DEF Slots
<1>5. Slots(b.main \cup b.dlq) \subseteq Slots(c.main \cup c.dlq)
  BY <1>1 DEF Slots
<1>6. \A B \in c.checked : Slots(B) \subseteq Slots(c.main \cup c.dlq)
  BY <1>1, <1>4, <1>5 DEF BundleChecked
<1>7. ASSUME NEW B \in c.checked, NEW r \in B \cap c.main, NEW s \in B, r.pk = s.pk
      PROVE  r = s
  <2>1. CASE B = batch
    <3>1. r \notin b.main
      BY <2>1
    <3>. QED  BY <1>1, <1>2, <1>7, <2>1, <3>1
  <2>2. CASE B \in b.checked
    <3>1. PICK y \in b.main \cup b.dlq : Slot(r) = Slot(y)
      BY <2>2 DEF BundleChecked, Slots
    <3>2. r \in b.main
      BY <1>1, <3>1
    <3>. QED  BY <1>7, <2>2, <3>2 DEF BundleChecked
  <2>. QED  BY <1>1, <2>1, <2>2
<1> QED
  BY <1>6, <1>7 DEF BundleChecked, c

(* What is buffered stands at other positions than what has left.          *)
LEMMA BufferApart ==
  ASSUME NEW b, BundleDistinct(b)
  PROVE  \A x \in b.buffer, y \in b.main \cup b.dlq : Slot(x) # Slot(y)
<1>1. \A x \in b.buffer, y \in b.main : Slot(x) # Slot(y)
  BY DEF BundleDistinct, DistinctSlots
<1>2. \A x \in b.buffer, y \in b.dlq : Slot(x) # Slot(y)
  BY DEF BundleDistinct, Slots
<1> QED
  BY <1>1, <1>2

LEMMA FlushedChecked ==
  ASSUME Inv, KeysInv, NEW w \in Workers, NEW schemaLevel \in BOOLEAN
  PROVE  BundleChecked(Flushed(bundle[w], schemaLevel))
<1>1. bundle[w] \in Bundles /\ BundleInv(bundle[w]) /\ BundleChecked(bundle[w])
  BY BundleFacts DEF KeysInv
<1>2. bundle[w].buffer \in SUBSET Records
  BY <1>1 DEF Bundles
<1>3. \A x \in bundle[w].buffer, y \in bundle[w].main \cup bundle[w].dlq : Slot(x) # Slot(y)
  BY <1>1, BufferApart DEF BundleInv
<1> QED
  BY <1>1, <1>2, <1>3, PanderaChecked DEF Flushed

(* A step inside a bundle that leaves its batches checked.                 *)
LEMMA BundleStepKeys ==
  ASSUME Inv, KeysInv, NEW w \in Workers, NEW b, BundleChecked(b),
         bundle' = [bundle EXCEPT ![w] = b], UNCHANGED <<valid, dlq, checked>>
  PROVE  KeysInv'
<1>1. \A v \in Workers : bundle'[v] = IF v = w THEN b ELSE bundle[v]
  BY DEF Inv, TypeInv, TypeOK
<1>2. \A v \in Workers : BundleChecked(bundle[v])'
  BY <1>1 DEF KeysInv
<1> QED
  BY <1>2 DEF KeysInv, MicroBatchKeysUnique

LEMMA YieldRecordKeys ==
  ASSUME Inv, KeysInv, NEW w \in Workers, YieldRecord(w)
  PROVE  KeysInv'
<1> DEFINE b == bundle[w]
           a == [b EXCEPT !.made = @ + 1, !.yielded = @ + 1]
           rec(pk, verdict) == [batch_id |-> a.cur.batch_id, i |-> a.made,
                                pk |-> pk, verdict |-> verdict]
<1>1. PICK pk \in Keys, verdict \in Verdicts, emit \in BOOLEAN, schemaLevel \in BOOLEAN :
        bundle' = [bundle EXCEPT ![w] = Downstream(a, rec(pk, verdict), emit, schemaLevel)]
  BY DEF YieldRecord
<1> DEFINE r == rec(pk, verdict)
           c == Downstream(a, r, emit, schemaLevel)
<1>2. /\ b \in Bundles /\ BundleInv(b) /\ BundleChecked(b) /\ b.cur # NoRequest
      /\ b.made < b.cur.n /\ Generating(w)
  BY BundleFacts DEF YieldRecord, Generating, KeysInv
<1>3. /\ a.cur = b.cur /\ a.made = b.made + 1 /\ a.checked = b.checked
      /\ a.main = b.main /\ a.buffer = b.buffer /\ a.dlq = b.dlq
  BY <1>2 DEF Bundles
<1>4. a \in Bundles
  <2>1. b.made + 1 \in 0..BatchSize /\ b.yielded + 1 \in Nat
    BY <1>2, GeneratingFacts DEF Inv, Bundles
  <2> QED
    BY <1>2, <2>1 DEF Bundles
<1>5. r \in Records /\ Slot(r) = <<b.cur.batch_id, b.made + 1>>
  BY <1>2, <1>3, GeneratingFacts DEF Inv, Requests, Records, Slot
<1> HIDE DEF a
<1>6. bundle' = [bundle EXCEPT ![w] = c]
  BY <1>1
<1> HIDE DEF r, b
<1>7. BundleChecked(a)
  BY <1>2, <1>3, CheckedGrows
<1>8. BundleChecked(c)
  <2>1. CASE r.verdict = "types"
    <3>1. /\ c.checked = a.checked /\ c.main = a.main
          /\ c.dlq = a.dlq \cup {Letter(r, "schema.types")}
      BY <1>4, <2>1 DEF Downstream, Bundles
    <3> HIDE DEF c
    <3> QED
      BY <1>7, <3>1, CheckedGrows
  <2>2. CASE r.verdict # "types" /\ ~ emit
    <3>1. c.checked = a.checked /\ c.main = a.main /\ c.dlq = a.dlq
      BY <1>4, <2>2 DEF Downstream, Bundles
    <3> HIDE DEF c
    <3> QED
      BY <1>7, <3>1, CheckedGrows
  <2>3. CASE r.verdict # "types" /\ emit
    <3>1. c = PanderaValidate(a, a.buffer \cup {r}, schemaLevel)
      BY <2>3 DEF Downstream
    <3>2. \A x \in b.buffer, y \in b.main \cup b.dlq : Slot(x) # Slot(y)
      BY <1>2, BufferApart DEF BundleInv
    <3>3. \A y \in b.main \cup b.dlq : Slot(r) # Slot(y)
      BY <1>2, <1>5, NextSlotFresh DEF Outputs
    <3>4. a.buffer \cup {r} \in SUBSET Records
      BY <1>4, <1>5 DEF Bundles
    <3> HIDE DEF c
    <3> QED
      BY <1>3, <1>4, <1>7, <3>1, <3>2, <3>3, <3>4, PanderaChecked
  <2> QED
    BY <2>1, <2>2, <2>3
<1> HIDE DEF c
<1> QED
  BY <1>6, <1>8, BundleStepKeys DEF YieldRecord, stageVars

(* A bundle commits batches of rows no committed batch has.                *)
LEMMA FinishBundleKeys ==
  ASSUME Inv, KeysInv, NEW w \in Workers, FinishBundle(w)
  PROVE  KeysInv'
<1>1. PICK schemaLevel \in BOOLEAN :
        /\ valid' = valid \cup Flushed(bundle[w], schemaLevel).main
        /\ dlq' = dlq \cup Flushed(bundle[w], schemaLevel).dlq
        /\ checked' = checked \cup Flushed(bundle[w], schemaLevel).checked
  BY DEF FinishBundle
<1> DEFINE b == Flushed(bundle[w], schemaLevel)
<1>2. BundleChecked(b)
  BY FlushedChecked
<1>3. \A x \in valid \cup dlq, y \in b.main \cup b.dlq : Slot(x) # Slot(y)
  BY CommitFresh DEF FinishBundle, Slot
<1>4. valid' = valid \cup b.main /\ dlq' = dlq \cup b.dlq /\ checked' = checked \cup b.checked
  BY <1>1
<1> HIDE DEF b
<1>5. \A v \in Workers : BundleChecked(bundle[v])'
  <2>1. \A v \in Workers : bundle'[v] = IF v = w THEN IdleBundle ELSE bundle[v]
    BY DEF FinishBundle, Inv, TypeInv, TypeOK
  <2>2. BundleChecked(IdleBundle)
    BY DEF IdleBundle, BundleChecked
  <2> QED
    BY <2>1, <2>2 DEF KeysInv
<1>6. /\ \A batch \in checked : Slots(batch) \subseteq Slots(valid \cup dlq)
      /\ \A batch \in b.checked : Slots(batch) \subseteq Slots(b.main \cup b.dlq)
  BY <1>2 DEF KeysInv, BundleChecked
<1>7. \A batch \in checked' : Slots(batch) \subseteq Slots(valid' \cup dlq')
  BY <1>4, <1>6 DEF Slots
<1>8. ASSUME NEW batch \in checked', NEW r \in batch \cap valid', NEW s \in batch, r.pk = s.pk
      PROVE  r = s
  <2>1. CASE batch \in checked
    <3>1. PICK y \in valid \cup dlq : Slot(r) = Slot(y)
      BY <1>6, <2>1 DEF Slots
    <3>2. r \in valid
      BY <1>3, <1>4, <3>1
    <3> QED
      BY <1>8, <2>1, <3>2 DEF KeysInv, MicroBatchKeysUnique
  <2>2. CASE batch \in b.checked
    <3>1. PICK y \in b.main \cup b.dlq : Slot(r) = Slot(y)
      BY <1>6, <2>2 DEF Slots
    <3>2. r \in b.main
      BY <1>3, <1>4, <3>1
    <3> QED
      BY <1>2, <1>8, <2>2, <3>2 DEF BundleChecked
  <2> QED
    BY <1>4, <2>1, <2>2
<1> QED
  BY <1>5, <1>7, <1>8 DEF KeysInv, MicroBatchKeysUnique

(* The other steps of a bundle check no batch.                             *)
LEMMA OtherBundleKeys ==
  ASSUME Inv, KeysInv, NEW w \in Workers,
         \/ StartBundle(w) \/ StartRequest(w) \/ SkipRow(w) \/ EngineFailure(w)
         \/ EndRequest(w) \/ CrashBundle(w)
  PROVE  KeysInv'
<1> DEFINE b == bundle[w]
<1>1. b \in Bundles /\ BundleChecked(b)
  BY BundleFacts DEF KeysInv
<1>2. UNCHANGED <<valid, dlq, checked>>
  BY DEF StartBundle, StartRequest, SkipRow, EngineFailure, EndRequest, CrashBundle, stageVars
<1>3. ASSUME NEW c, bundle' = [bundle EXCEPT ![w] = c],
             c.checked = b.checked, c.main = b.main, b.dlq \subseteq c.dlq
      PROVE  KeysInv'
  <2>1. BundleChecked(c)
    BY <1>1, <1>3, CheckedGrows
  <2> QED
    BY <1>2, <1>3, <2>1, BundleStepKeys
<1>4. CASE StartBundle(w)
  <2>1. PICK Q : bundle' = [bundle EXCEPT ![w] = [IdleBundle EXCEPT !.taken = Q, !.todo = Q]]
    BY <1>4 DEF StartBundle
  <2> DEFINE c == [IdleBundle EXCEPT !.taken = Q, !.todo = Q]
  <2>2. BundleChecked(c)
    BY DEF IdleBundle, BundleChecked
  <2>3. bundle' = [bundle EXCEPT ![w] = c]
    BY <2>1
  <2> HIDE DEF c
  <2> QED
    BY <1>2, <2>2, <2>3, BundleStepKeys
<1>5. CASE CrashBundle(w)
  <2>1. bundle' = [bundle EXCEPT ![w] = IdleBundle] /\ BundleChecked(IdleBundle)
    BY <1>5 DEF CrashBundle, IdleBundle, BundleChecked
  <2> QED
    BY <1>2, <2>1, BundleStepKeys
<1>6. CASE StartRequest(w)
  <2>1. PICK q : bundle' = [bundle EXCEPT ![w] = [b EXCEPT !.cur = q, !.made = 0, !.todo = @ \ {q}]]
    BY <1>6 DEF StartRequest
  <2> DEFINE c == [b EXCEPT !.cur = q, !.made = 0, !.todo = @ \ {q}]
  <2>2. c.checked = b.checked /\ c.main = b.main /\ c.dlq = b.dlq
    BY <1>1 DEF Bundles
  <2> QED
    BY <1>3, <2>1, <2>2
<1>7. CASE SkipRow(w)
  <2> DEFINE c == [b EXCEPT !.made = @ + 1]
  <2>1. bundle' = [bundle EXCEPT ![w] = c]
    BY <1>7 DEF SkipRow
  <2>2. c.checked = b.checked /\ c.main = b.main /\ c.dlq = b.dlq
    BY <1>1 DEF Bundles
  <2> QED
    BY <1>3, <2>1, <2>2
<1>8. CASE EngineFailure(w)
  <2> DEFINE at == [batch_id |-> b.cur.batch_id, i |-> b.made + 1]
             c == [b EXCEPT !.cur = NoRequest, !.made = 0,
                            !.dlq = @ \cup {Letter(at, "engine_failure")}]
  <2>1. bundle' = [bundle EXCEPT ![w] = c]
    BY <1>8 DEF EngineFailure
  <2>2. c.checked = b.checked /\ c.main = b.main /\ b.dlq \subseteq c.dlq
    BY <1>1 DEF Bundles
  <2> QED
    BY <1>3, <2>1, <2>2
<1>9. CASE EndRequest(w)
  <2> DEFINE c == [b EXCEPT !.cur = NoRequest, !.made = 0]
  <2>1. bundle' = [bundle EXCEPT ![w] = c]
    BY <1>9 DEF EndRequest
  <2>2. c.checked = b.checked /\ c.main = b.main /\ c.dlq = b.dlq
    BY <1>1 DEF Bundles
  <2> QED
    BY <1>3, <2>1, <2>2
<1> QED
  BY <1>4, <1>5, <1>6, <1>7, <1>8, <1>9

LEMMA InitKeys == Init => KeysInv
  BY DEF Init, KeysInv, BundleChecked, IdleBundle, MicroBatchKeysUnique

LEMMA NextKeys ==
  ASSUME Inv, KeysInv, [Next]_vars
  PROVE  KeysInv'
<1>1. ASSUME UNCHANGED <<bundle, valid, dlq, checked>> PROVE KeysInv'
  BY <1>1 DEF KeysInv, MicroBatchKeysUnique
<1>2. ASSUME NEW w \in Workers,
             StartBundle(w) \/ Process(w) \/ CrashBundle(w)
      PROVE  KeysInv'
  BY <1>2, YieldRecordKeys, FinishBundleKeys, OtherBundleKeys DEF Process
<1>3. CASE AfterBarrier
  BY <1>1, <1>3 DEF AfterBarrier, WriteLanding, WriteDLQ, BuildValidationRun, WriteValidationRun,
                    BlockerGate, Succeed, stageVars
<1>4. ASSUME CreateRequest \/ Launch \/ LoadFailure \/ Ended \/ UNCHANGED vars
             \/ \E w \in Workers : CrashJob(w)
      PROVE  KeysInv'
  BY <1>1, <1>4 DEF CreateRequest, Launch, LoadFailure, CrashJob, Ended, vars, stageVars
<1> QED
  BY <1>2, <1>3, <1>4 DEF Next

-----------------------------------------------------------------------------
(* The invariant, and what it gives.                                       *)

LEMMA StutterInv ==
  ASSUME Inv, UNCHANGED vars
  PROVE  RowsInv'
<1> USE DEF vars, stageVars, tableVars
<1>1. InFlight' = InFlight
  BY DEF InFlight
<1>2. BarrierHolds'
  BY DEF Inv, RowsInv, BarrierHolds, Idle
<1>3. Exclusive' /\ CommittedSettled' /\ RequestsNumbered' /\ RequestsCoverRows'
  BY <1>1 DEF Inv, RowsInv, Exclusive, CommittedSettled, RequestsNumbered, RequestsCoverRows
<1>4. \A v \in Workers : BundleInv(bundle[v])'
  BY DEF Inv, RowsInv
<1>5. OneOutcomePerPosition' /\ EveryYieldAccounted' /\ FailureEndsRequest'
  BY DEF Inv, RowsInv, OneOutcomePerPosition, EveryYieldAccounted, FailureEndsRequest
<1> QED
  BY <1>2, <1>3, <1>4, <1>5 DEF RowsInv

LEMMA NextInv ==
  ASSUME Inv, [Next]_vars
  PROVE  RowsInv'
<1>1. CASE CreateRequest
  BY <1>1, CreateRequestInv
<1>2. CASE Launch
  BY <1>2, LaunchInv
<1>3. ASSUME NEW w \in Workers,
             StartBundle(w) \/ Process(w) \/ CrashBundle(w) \/ CrashJob(w)
      PROVE  RowsInv'
  BY <1>3, StartBundleInv, StartRequestInv, YieldRecordInv, SkipRowInv, EngineFailureInv,
     EndRequestInv, FinishBundleInv, CrashBundleInv, CrashJobInv DEF Process
<1>4. CASE AfterBarrier \/ LoadFailure
  BY <1>4, AfterBarrierInv
<1>5. CASE Ended \/ UNCHANGED vars
  BY <1>5, StutterInv DEF Ended
<1> QED
  BY <1>1, <1>2, <1>3, <1>4, <1>5 DEF Next

(* The strengthened invariant holds throughout every run, for every number *)
(* of rows, workers and retries.                                           *)
THEOREM Invariance == Spec => []IndInv
<1>1. Init => RowsInv /\ KeysInv
  BY InitInv, InitKeys
<1>2. TypeInv /\ RowsInv /\ KeysInv /\ [Next]_vars => RowsInv' /\ KeysInv'
  BY NextInv, NextKeys DEF Inv
<1>3. Spec => []TypeInv
  BY TypeInvariant
<1>4. RowsInv /\ KeysInv => IndInv
  BY DEF IndInv
<1> QED
  BY <1>1, <1>2, <1>3, <1>4, PTL DEF Spec

(* build_pipeline's loop cuts num_rows into requests without gap or        *)
(* overlap.                                                                *)
THEOREM RequestsPartition == Spec => []RequestsCoverRows
<1>1. IndInv => RequestsCoverRows
  BY DEF IndInv, RowsInv
<1> QED
  BY <1>1, Invariance, PTL

(* A row position has at most one outcome, however bundles crash and race. *)
THEOREM UniqueOutcome == Spec => []OneOutcomePerPosition
<1>1. IndInv => OneOutcomePerPosition
  BY DEF IndInv, RowsInv
<1> QED
  BY <1>1, Invariance, PTL

(* Every committed record of the engine is valid or left a dead letter.    *)
THEOREM YieldConservation == Spec => []EveryYieldAccounted
<1>1. IndInv => EveryYieldAccounted
  BY DEF IndInv, RowsInv
<1> QED
  BY <1>1, Invariance, PTL

(* An engine failure is the last word on its request.                      *)
THEOREM FailureIsLast == Spec => []FailureEndsRequest
<1>1. IndInv => FailureEndsRequest
  BY DEF IndInv, RowsInv
<1> QED
  BY <1>1, Invariance, PTL

(* No valid record shares its primary key with another record of its       *)
(* micro-batch, in any committed bundle.                                   *)
THEOREM MicroBatchKeys == Spec => []MicroBatchKeysUnique
<1>1. IndInv => MicroBatchKeysUnique
  BY DEF IndInv, KeysInv
<1> QED
  BY <1>1, Invariance, PTL

(* The committed output stands at requested positions, one item at each.   *)
LEMMA OutputBounded ==
  ASSUME Inv
  PROVE  Cardinality(valid) + Cardinality(dlq) <= NumRows
<1>1. /\ IsFiniteSet(valid) /\ IsFiniteSet(dlq) /\ IsFiniteSet(requests)
      /\ requests \in SUBSET Requests /\ valid \in SUBSET Records /\ dlq \in SUBSET Letters
      /\ remaining \in Nat
  BY DEF Inv, TypeInv, TypeOK, Finite
<1>2. /\ DistinctSlots(valid) /\ DistinctSlots(dlq) /\ Slots(valid) \cap Slots(dlq) = {}
  BY DEF Inv, RowsInv, OneOutcomePerPosition, DistinctSlots
<1>3. /\ IsFiniteSet(Slots(valid)) /\ Cardinality(Slots(valid)) = Cardinality(valid)
      /\ IsFiniteSet(Slots(dlq)) /\ Cardinality(Slots(dlq)) = Cardinality(dlq)
  BY <1>1, <1>2, SlotsCount
<1>4. \A x \in valid \cup dlq : Slot(x) \in Positions(requests)
  <2> SUFFICES ASSUME NEW x \in valid \cup dlq
               PROVE  Slot(x) \in Positions(requests)
    OBVIOUS
  <2>1. PICK q \in requests : x.batch_id = q.batch_id /\ x.i <= q.n
    BY DEF Inv, RowsInv, CommittedSettled, Within
  <2>2. x.i \in 1..q.n
    BY <1>1, <2>1, RowsAssumption DEF Records, Letters, Requests
  <2> QED
    BY <2>1, <2>2 DEF Slot, SlotsOf, Positions
<1>5. Slots(valid) \cup Slots(dlq) \in SUBSET Positions(requests)
  BY <1>4 DEF Slots
<1>6. /\ IsFiniteSet(Positions(requests)) /\ Cardinality(Positions(requests)) \in Nat
      /\ Cardinality(Positions(requests)) <= NumRows
  BY <1>1, PositionsFinite, RowsAssumption DEF Inv, RowsInv, RequestsCoverRows
<1>7. Cardinality(Slots(valid) \cup Slots(dlq)) <= Cardinality(Positions(requests))
  BY <1>5, <1>6, FS_Subset
<1>8. /\ Cardinality(Slots(valid) \cup Slots(dlq)) = Cardinality(valid) + Cardinality(dlq)
      /\ Cardinality(valid) \in Nat /\ Cardinality(dlq) \in Nat
  BY <1>2, <1>3, DisjointSum
<1> QED
  BY <1>6, <1>7, <1>8, RowsAssumption

(* The landing and dead_letter tables never exceed num_rows together.      *)
THEOREM TablesBounded == Spec => []TablesBoundedByRequest
<1>1. TypeInv /\ IndInv => TablesBoundedByRequest
  <2> SUFFICES ASSUME Inv PROVE TablesBoundedByRequest
    BY DEF Inv, IndInv
  <2>1. /\ Cardinality(valid) \in Nat /\ Cardinality(dlq) \in Nat
        /\ Cardinality({}) = 0
        /\ Cardinality(valid) + Cardinality(dlq) <= NumRows
    BY OutputBounded, FS_CardinalityType, FS_EmptySet DEF Inv, TypeInv, Finite
  <2>2. landing \in {valid, {}} /\ dead_letter \in {dlq, {}}
    BY DEF Inv, RowsInv, BarrierHolds
  <2>3. Cardinality(landing) \in {Cardinality(valid), 0}
        /\ Cardinality(dead_letter) \in {Cardinality(dlq), 0}
    BY <2>1, <2>2
  <2>4. Cardinality(landing) + Cardinality(dead_letter) <= NumRows
    BY <2>1, <2>3, RowsAssumption
  <2> QED
    BY <2>4 DEF TablesBoundedByRequest
<1> QED
  BY <1>1, Invariance, TypeInvariant, PTL

(* The row of a run passes exactly when the committed output is within the *)
(* environment's ratio.                                                    *)
LEMMA StatusExact ==
  ASSUME Inv
  PROVE  /\ BuildRunSummary(Cardinality(valid), dlq).status = "PASSED" <=>
              Cardinality(Blockers(dlq)) * GateDen
                <= GateNum * (Cardinality(valid) + Cardinality(dlq))
         /\ BuildRunSummary(Cardinality(valid), dlq).status \in {"PASSED", "FAILED_BLOCKER"}
         /\ IsFiniteSet(Blockers(dlq)) /\ IsFiniteSet(dlq) /\ IsFiniteSet(valid)
<1> DEFINE k == Cardinality(Blockers(dlq))
           n == Cardinality(valid) + Cardinality(dlq)
           row == BuildRunSummary(Cardinality(valid), dlq)
<1>1. /\ row.status = "PASSED" <=> ~ TripsGate(k, n)
      /\ row.status \in {"PASSED", "FAILED_BLOCKER"}
  BY DEF BuildRunSummary
<1>2. IsFiniteSet(Blockers(dlq)) /\ IsFiniteSet(dlq) /\ IsFiniteSet(valid)
  BY FS_Subset DEF Blockers, Inv, TypeInv, Finite
<1>3. k \in Nat /\ n \in Nat
  <2>1. /\ Cardinality(Blockers(dlq)) \in Nat /\ Cardinality(dlq) \in Nat
        /\ Cardinality(valid) \in Nat
    BY <1>2, FS_CardinalityType
  <2> QED
    BY <2>1
<1> HIDE DEF k, n, row
<1>4. k * GateDen \in Nat /\ GateNum * n \in Nat
  BY <1>3, GateAssumption
<1>5. ~ TripsGate(k, n) <=> k * GateDen <= GateNum * n
  BY <1>4 DEF TripsGate
<1> QED
  BY <1>1, <1>2, <1>5 DEF k, n, row

(* The validation_runs row agrees with the loaded tables, counts and status. *)
THEOREM RunRowFaithful == Spec => []RunRowMatchesTables
<1>1. TypeInv /\ IndInv => RunRowMatchesTables
  <2> SUFFICES ASSUME Inv, NEW row \in validation_runs
               PROVE  /\ "WriteLanding" \in done => row.valid_count = Cardinality(landing)
                      /\ "WriteDLQ" \in done =>
                           /\ row.dlq_count = Cardinality(dead_letter)
                           /\ row.blocker_count = Cardinality(Blockers(dead_letter))
                      /\ {"WriteLanding", "WriteDLQ"} \subseteq done =>
                           (row.status = "PASSED" <=>
                              Cardinality(Blockers(dead_letter)) * GateDen
                                <= GateNum * (Cardinality(landing) + Cardinality(dead_letter)))
    BY DEF RunRowMatchesTables, Inv, IndInv
  <2>1. row = BuildRunSummary(Cardinality(valid), dlq)
    BY DEF Inv, RowsInv, BarrierHolds
  <2>2. /\ row.valid_count = Cardinality(valid) /\ row.dlq_count = Cardinality(dlq)
        /\ row.blocker_count = Cardinality(Blockers(dlq))
    BY <2>1 DEF BuildRunSummary
  <2>3. /\ "WriteLanding" \in done => landing = valid
        /\ "WriteDLQ" \in done => dead_letter = dlq
    BY DEF Inv, RowsInv, BarrierHolds
  <2>4. row.status = "PASSED" <=>
          Cardinality(Blockers(dlq)) * GateDen
            <= GateNum * (Cardinality(valid) + Cardinality(dlq))
    BY <2>1, StatusExact
  <2> QED
    BY <2>2, <2>3, <2>4
<1> QED
  BY <1>1, Invariance, TypeInvariant, PTL

(* Once the gate has let a run pass, the committed output is within the    *)
(* environment's ratio.                                                    *)
LEMMA GatePassed ==
  ASSUME Inv, "BlockerGate" \in done
  PROVE  /\ Cardinality(Blockers(dlq)) * GateDen
              <= GateNum * (Cardinality(valid) + Cardinality(dlq))
         /\ IsFiniteSet(Blockers(dlq)) /\ IsFiniteSet(dlq) /\ IsFiniteSet(valid)
<1>1. BuildRunSummary(Cardinality(valid), dlq).status # "FAILED_BLOCKER"
  BY DEF Inv, RowsInv, BarrierHolds
<1> QED
  BY <1>1, StatusExact

(* A gated run succeeds only over tables within the environment's ratio.   *)
THEOREM GateSound == Spec => []SuccessPassedGate
<1>1. TypeInv /\ IndInv => SuccessPassedGate
  <2> SUFFICES ASSUME Inv, job = "succeeded", Gated
               PROVE  Cardinality(Blockers(dead_letter)) * GateDen
                        <= GateNum * (Cardinality(landing) + Cardinality(dead_letter))
    BY DEF SuccessPassedGate, Inv, IndInv
  <2>1. done = Steps /\ "WriteLanding" \in done /\ "WriteDLQ" \in done /\ "BlockerGate" \in done
    BY DEF Inv, RowsInv, BarrierHolds, Steps
  <2>2. landing = valid /\ dead_letter = dlq
    BY <2>1 DEF Inv, RowsInv, BarrierHolds
  <2> QED
    BY <2>1, <2>2, GatePassed
<1> QED
  BY <1>1, Invariance, TypeInvariant, PTL

-----------------------------------------------------------------------------
(* The run implements RowLedger: under the mapping of ModeAPipeline's      *)
(* Ledger the driver's loop requests positions, a bundle's commit settles  *)
(* them, the end of the job concludes, and every other step is invisible.  *)

\* The mapping's two conditional parts, by name.
Settled == IF job = "building" THEN {} ELSE Positions(requests \ InFlight)
Outcome == IF job \in {"succeeded", "failed"} THEN job ELSE "open"

\* Counting is the same in the ledger as here.
LEMMA LedgerCardinality == \A S : Ledger!Cardinality(S) = Cardinality(S)
  BY DEF Ledger!Cardinality, Cardinality

\* A step that moves no position and ends nothing is invisible.
LEMMA InvisibleStep ==
  ASSUME UNCHANGED <<requests, valid, dlq>>, Settled' = Settled, Outcome' = Outcome
  PROVE  UNCHANGED Ledger!ledgerVars
  BY DEF Ledger!ledgerVars, Settled, Outcome

\* Validating rows does not change which requests the bundle has taken.
LEMMA TakenKept ==
  ASSUME NEW b \in Bundles, NEW r \in Records, NEW emit \in BOOLEAN, NEW schemaLevel \in BOOLEAN
  PROVE  Downstream(b, r, emit, schemaLevel).taken = b.taken
<1>1. PanderaValidate(b, b.buffer \cup {r}, schemaLevel).taken = b.taken
  BY DEF PanderaValidate, Bundles
<1> QED
  BY <1>1 DEF Downstream, Bundles

\* Requests stay in flight through all that happens inside a bundle: pending
\* requests move into it, and a crash moves them back.
LEMMA InFlightKept ==
  ASSUME Inv, NEW w \in Workers,
         \/ StartBundle(w) \/ StartRequest(w) \/ YieldRecord(w) \/ SkipRow(w) \/ EngineFailure(w)
         \/ EndRequest(w) \/ CrashBundle(w)
  PROVE  InFlight' = InFlight
<1> DEFINE b == bundle[w]
<1>1. b \in Bundles
  BY BundleFacts
<1>2. ASSUME NEW c, bundle' = [bundle EXCEPT ![w] = c], c.taken = b.taken, UNCHANGED pending
      PROVE  InFlight' = InFlight
  <2>1. \A v \in Workers : bundle'[v].taken = bundle[v].taken
    BY <1>2 DEF Inv, TypeInv, TypeOK
  <2> QED
    BY <1>2, <2>1 DEF InFlight
<1>3. CASE StartBundle(w)
  <2>1. PICK Q \in (SUBSET pending) \ {{}} :
          /\ bundle' = [bundle EXCEPT ![w] = [IdleBundle EXCEPT !.taken = Q, !.todo = Q]]
          /\ pending' = pending \ Q
    BY <1>3 DEF StartBundle
  <2> DEFINE c == [IdleBundle EXCEPT !.taken = Q, !.todo = Q]
  <2>2. c.taken = Q /\ bundle[w].taken = {}
    BY <1>3 DEF IdleBundle, StartBundle, Idle
  <2>3. bundle' = [bundle EXCEPT ![w] = c]
    BY <2>1
  <2> HIDE DEF c
  <2>4. \A v \in Workers : bundle'[v] = IF v = w THEN c ELSE bundle[v]
    BY <2>3 DEF Inv, TypeInv, TypeOK
  <2> QED
    BY <2>1, <2>2, <2>4 DEF InFlight
<1>4. CASE CrashBundle(w)
  <2>1. \A v \in Workers : bundle'[v] = IF v = w THEN IdleBundle ELSE bundle[v]
    BY <1>4 DEF CrashBundle, Inv, TypeInv, TypeOK
  <2>2. IdleBundle.taken = {} /\ pending' = pending \cup bundle[w].taken
    BY <1>4 DEF CrashBundle, IdleBundle
  <2> QED
    BY <2>1, <2>2 DEF InFlight
<1>5. CASE StartRequest(w)
  <2>1. PICK q : bundle' = [bundle EXCEPT ![w] = [b EXCEPT !.cur = q, !.made = 0, !.todo = @ \ {q}]]
    BY <1>5 DEF StartRequest
  <2> DEFINE c == [b EXCEPT !.cur = q, !.made = 0, !.todo = @ \ {q}]
  <2>2. c.taken = b.taken
    BY <1>1 DEF Bundles
  <2> QED
    BY <1>2, <1>5, <2>1, <2>2 DEF StartRequest
<1>6. CASE YieldRecord(w)
  <2> DEFINE a == [b EXCEPT !.made = @ + 1, !.yielded = @ + 1]
             rec(pk, verdict) == [batch_id |-> a.cur.batch_id, i |-> a.made,
                                  pk |-> pk, verdict |-> verdict]
  <2>1. PICK pk \in Keys, verdict \in Verdicts, emit \in BOOLEAN, schemaLevel \in BOOLEAN :
          bundle' = [bundle EXCEPT ![w] = Downstream(a, rec(pk, verdict), emit, schemaLevel)]
    BY <1>6 DEF YieldRecord
  <2> DEFINE r == rec(pk, verdict)
             c == Downstream(a, r, emit, schemaLevel)
  <2>2. /\ a.cur = b.cur /\ a.made = b.made + 1 /\ a.taken = b.taken
        /\ b.made + 1 \in 1..BatchSize /\ b.yielded + 1 \in Nat /\ b.cur \in Requests
    BY <1>1, <1>6, GeneratingFacts DEF YieldRecord, Inv, Bundles
  <2>3. a \in Bundles
    <3>1. b.made + 1 \in 0..BatchSize
      BY <2>2, RowsAssumption
    <3> QED
      BY <1>1, <2>2, <3>1 DEF Bundles
  <2>4. r \in Records
    BY <2>2 DEF Requests, Records
  <2> HIDE DEF a
  <2>5. bundle' = [bundle EXCEPT ![w] = c]
    BY <2>1
  <2> HIDE DEF r
  <2>6. c.taken = b.taken
    BY <2>2, <2>3, <2>4, TakenKept
  <2> HIDE DEF c
  <2> QED
    BY <1>2, <1>6, <2>5, <2>6 DEF YieldRecord
<1>7. CASE SkipRow(w)
  <2> DEFINE c == [b EXCEPT !.made = @ + 1]
  <2>1. bundle' = [bundle EXCEPT ![w] = c] /\ c.taken = b.taken
    BY <1>1, <1>7 DEF SkipRow, Bundles
  <2> QED
    BY <1>2, <1>7, <2>1 DEF SkipRow
<1>8. CASE EngineFailure(w)
  <2> DEFINE at == [batch_id |-> b.cur.batch_id, i |-> b.made + 1]
             c == [b EXCEPT !.cur = NoRequest, !.made = 0,
                            !.dlq = @ \cup {Letter(at, "engine_failure")}]
  <2>1. bundle' = [bundle EXCEPT ![w] = c]
    BY <1>8 DEF EngineFailure
  <2>2. c.taken = b.taken
    BY <1>1 DEF Bundles
  <2> QED
    BY <1>2, <1>8, <2>1, <2>2 DEF EngineFailure
<1>9. CASE EndRequest(w)
  <2> DEFINE c == [b EXCEPT !.cur = NoRequest, !.made = 0]
  <2>1. bundle' = [bundle EXCEPT ![w] = c] /\ c.taken = b.taken
    BY <1>1, <1>9 DEF EndRequest, Bundles
  <2> QED
    BY <1>2, <1>9, <2>1 DEF EndRequest
<1> QED
  BY <1>3, <1>4, <1>5, <1>6, <1>7, <1>8, <1>9

-----------------------------------------------------------------------------
LEMMA InitImplements == Init => Ledger!Init
<1> SUFFICES ASSUME Init PROVE Ledger!Init
  OBVIOUS
<1>1. Positions(requests) = {} /\ Slots(valid) = {} /\ Slots(dlq) = {} /\ Slots(Blockers(dlq)) = {}
  BY DEF Init, Positions, Slots, Blockers
<1>2. job = "building"
  BY DEF Init
<1> QED
  BY <1>1, <1>2 DEF Ledger!Init

\* A turn of the driver's loop asks for the positions of one more request.
LEMMA CreateRequestImplements ==
  ASSUME Inv, Inv', CreateRequest
  PROVE  Ledger!Request
<1>1. /\ job = "building" /\ job' = "building" /\ UNCHANGED <<valid, dlq>>
      /\ requests \subseteq requests' /\ remaining > 0 /\ remaining' = remaining - RequestSize
  BY DEF CreateRequest, stageVars
<1>2. RequestSize \in Nat /\ RequestSize > 0
  BY <1>1, RowsAssumption DEF RequestSize, Inv, TypeInv, TypeOK
<1>3. remaining \in Nat /\ remaining' \in Nat /\ NumRows \in Nat
  BY RowsAssumption DEF Inv, TypeInv, TypeOK
<1>4. /\ Cardinality(Positions(requests)) + remaining = NumRows
      /\ Cardinality(Positions(requests')) + remaining' = NumRows
  BY DEF Inv, RowsInv, RequestsCoverRows
<1>5. Cardinality(Positions(requests)) \in Nat /\ Cardinality(Positions(requests')) \in Nat
  BY PositionsFinite DEF Inv, TypeInv, TypeOK, Finite
<1>6. Positions(requests) \subseteq Positions(requests')
  BY <1>1 DEF Positions
<1>7. Positions(requests') # Positions(requests) /\ Cardinality(Positions(requests')) <= NumRows
  BY <1>1, <1>2, <1>3, <1>4, <1>5
<1> QED
  BY <1>1, <1>6, <1>7, LedgerCardinality DEF Ledger!Request

\* Submitting the graph settles nothing: every request is pending then.
LEMMA LaunchImplements ==
  ASSUME Inv, Launch
  PROVE  UNCHANGED Ledger!ledgerVars
<1>1. /\ job = "building" /\ job' = "running" /\ pending' = requests
      /\ UNCHANGED <<requests, valid, dlq>>
  BY DEF Launch, stageVars
<1>2. requests' \subseteq InFlight'
  BY <1>1 DEF InFlight
<1>3. Positions(requests' \ InFlight') = {}
  BY <1>2 DEF Positions
<1>4. Settled' = Settled /\ Outcome' = Outcome
  BY <1>1, <1>3 DEF Settled, Outcome
<1> QED
  BY <1>1, <1>4, InvisibleStep

\* So does everything inside a bundle, its start and its crash included.
LEMMA BundleImplements ==
  ASSUME Inv, NEW w \in Workers,
         \/ StartBundle(w) \/ StartRequest(w) \/ YieldRecord(w) \/ SkipRow(w) \/ EngineFailure(w)
         \/ EndRequest(w) \/ CrashBundle(w)
  PROVE  UNCHANGED Ledger!ledgerVars
<1>1. /\ job = "running" /\ job' = job /\ UNCHANGED <<requests, valid, dlq>>
  BY DEF StartBundle, StartRequest, YieldRecord, SkipRow, EngineFailure, EndRequest, CrashBundle,
         Generating, stageVars
<1>2. InFlight' = InFlight
  BY InFlightKept
<1>3. Settled' = Settled /\ Outcome' = Outcome
  BY <1>1, <1>2 DEF Settled, Outcome
<1> QED
  BY <1>1, <1>3, InvisibleStep

\* A commit settles the positions of the bundle's requests, and nothing else.
LEMMA FinishBundleImplements ==
  ASSUME Inv, Inv', NEW w \in Workers, FinishBundle(w)
  PROVE  Ledger!Settle
<1>1. PICK schemaLevel \in BOOLEAN :
        /\ valid' = valid \cup Flushed(bundle[w], schemaLevel).main
        /\ dlq' = dlq \cup Flushed(bundle[w], schemaLevel).dlq
  BY DEF FinishBundle
<1> DEFINE b == Flushed(bundle[w], schemaLevel)
           T == bundle[w].taken
<1>2. b \in Bundles /\ BundleInv(b) /\ b.taken = T
  BY FlushedFacts DEF FinishBundle
<1>3. \A x \in valid \cup dlq, y \in b.main \cup b.dlq : Slot(x) # Slot(y)
  BY CommitFresh DEF Slot
<1>4. valid' = valid \cup b.main /\ dlq' = dlq \cup b.dlq
  BY <1>1
<1> HIDE DEF b
<1>5. job = "running" /\ job' = job /\ requests' = requests /\ pending' = pending
  BY DEF FinishBundle
<1>6. T \subseteq requests /\ T \subseteq InFlight /\ T \in SUBSET Requests
  BY DEF Inv, RowsInv, Exclusive, InFlight, TypeInv, TypeOK
<1>7. requests' \ InFlight' = (requests \ InFlight) \cup T
  <2>1. \A v \in Workers : bundle'[v] = IF v = w THEN IdleBundle ELSE bundle[v]
    BY DEF FinishBundle, Inv, TypeInv, TypeOK
  <2>2. IdleBundle.taken = {}
    BY DEF IdleBundle
  <2>3. T \cap pending = {} /\ \A v \in Workers : v # w => bundle[v].taken \cap T = {}
    BY DEF Inv, RowsInv, Exclusive
  <2> QED
    BY <1>5, <1>6, <2>1, <2>2, <2>3 DEF InFlight
<1>8. /\ Settled = Positions(requests \ InFlight)
      /\ Settled' = Positions((requests \ InFlight) \cup T)
  BY <1>5, <1>7 DEF Settled
<1>9. /\ Settled \subseteq Settled' /\ Settled' \subseteq Positions(requests)
      /\ Positions(T) \subseteq Settled'
  BY <1>6, <1>8 DEF Positions
<1>10. Positions(T) \cap Settled = {}
  BY <1>6, <1>8 DEF Positions, SlotsOf, Inv, RowsInv, RequestsNumbered
<1>11. Slots(b.main) \subseteq Positions(T) /\ Slots(b.dlq) \subseteq Positions(T)
  <2> SUFFICES ASSUME NEW x \in b.main \cup b.dlq PROVE Slot(x) \in Positions(T)
    BY DEF Slots
  <2>1. PICK q \in T : x.batch_id = q.batch_id /\ x.i <= q.n
    BY <1>2 DEF BundleInv, BundleReached, Outputs, Within
  <2>2. x.i \in 1..q.n
    BY <1>2, <1>6, <2>1, RowsAssumption DEF Bundles, Records, Letters, Requests
  <2> QED
    BY <2>1, <2>2 DEF Slot, SlotsOf, Positions
<1>12. /\ Slots(valid') = Slots(valid) \cup Slots(b.main)
       /\ Slots(dlq') = Slots(dlq) \cup Slots(b.dlq)
       /\ Slots(Blockers(dlq')) = Slots(Blockers(dlq)) \cup Slots(Blockers(b.dlq))
       /\ Slots(Blockers(b.dlq)) \subseteq Slots(b.dlq)
  BY <1>4 DEF Slots, Blockers
<1>13. Slots(b.dlq) \cap Slots(dlq) = {}
  BY <1>3 DEF Slots
<1>14. Slots(valid') \cap Slots(dlq') = {}
  BY DEF Inv, RowsInv, OneOutcomePerPosition
<1>15. /\ (Slots(valid') \ Slots(valid)) \cup (Slots(dlq') \ Slots(dlq)) \subseteq Settled' \ Settled
       /\ Slots(Blockers(dlq')) \ Slots(Blockers(dlq)) \subseteq Slots(dlq') \ Slots(dlq)
  BY <1>9, <1>10, <1>11, <1>12, <1>13
<1> QED
  BY <1>5, <1>9, <1>12, <1>14, <1>15 DEF Ledger!Settle, Settled

\* Whatever ends the job in failure concludes the ledger.
LEMMA FailureImplements ==
  ASSUME job = "running", job' = "failed", UNCHANGED <<requests, pending, bundle, valid, dlq>>
  PROVE  Ledger!Conclude
<1>1. InFlight' = InFlight
  BY DEF InFlight
<1> QED
  BY <1>1 DEF Ledger!Conclude

\* The job succeeds over all rows, settled, and past the gate if there is one.
LEMMA SucceedImplements ==
  ASSUME Inv, Succeed
  PROVE  Ledger!Conclude
<1>1. /\ job = "running" /\ job' = "succeeded" /\ done = Steps
      /\ UNCHANGED <<requests, pending, bundle, valid, dlq>>
      /\ pending = {} /\ \A w \in Workers : bundle[w].taken = {}
  BY DEF Succeed, StageComplete, Idle, stageVars
<1>2. InFlight = {} /\ InFlight' = {}
  BY <1>1 DEF InFlight
<1>3. Positions(requests \ InFlight) = Positions(requests)
  <2>1. requests \ InFlight = requests
    BY <1>2
  <2> QED
    BY <2>1
<1>4. Cardinality(Positions(requests)) = NumRows
  BY <1>1 DEF Inv, RowsInv, RequestsCoverRows
<1>5. Gated => Ledger!PassesGate
  <2> SUFFICES ASSUME Gated PROVE Ledger!PassesGate
    OBVIOUS
  <2>1. "BlockerGate" \in done
    BY <1>1 DEF Steps
  <2>2. /\ Cardinality(Blockers(dlq)) * GateDen
             <= GateNum * (Cardinality(valid) + Cardinality(dlq))
        /\ IsFiniteSet(Blockers(dlq)) /\ IsFiniteSet(dlq) /\ IsFiniteSet(valid)
    BY <2>1, GatePassed
  <2>3. DistinctSlots(valid) /\ DistinctSlots(dlq) /\ DistinctSlots(Blockers(dlq))
    BY DEF Inv, RowsInv, OneOutcomePerPosition, DistinctSlots, Blockers
  <2>4. /\ Cardinality(Slots(valid)) = Cardinality(valid)
        /\ Cardinality(Slots(dlq)) = Cardinality(dlq)
        /\ Cardinality(Slots(Blockers(dlq))) = Cardinality(Blockers(dlq))
    BY <2>2, <2>3, SlotsCount
  <2> QED
    BY <2>2, <2>4, LedgerCardinality DEF Ledger!PassesGate
<1> QED
  BY <1>1, <1>2, <1>3, <1>4, <1>5, LedgerCardinality DEF Ledger!Conclude

\* Behind the barrier only the gate, a failed load and the success are seen.
LEMMA AfterBarrierImplements ==
  ASSUME Inv, AfterBarrier \/ LoadFailure
  PROVE  Ledger!Conclude \/ UNCHANGED Ledger!ledgerVars
<1>1. ASSUME job' = job, UNCHANGED <<requests, pending, bundle, valid, dlq>>
      PROVE  UNCHANGED Ledger!ledgerVars
  <2>1. InFlight' = InFlight
    BY <1>1 DEF InFlight
  <2>2. Settled' = Settled /\ Outcome' = Outcome
    BY <1>1, <2>1 DEF Settled, Outcome
  <2> QED
    BY <1>1, <2>2, InvisibleStep
<1>2. CASE WriteLanding \/ WriteDLQ \/ BuildValidationRun \/ WriteValidationRun
  BY <1>1, <1>2 DEF WriteLanding, WriteDLQ, BuildValidationRun, WriteValidationRun, stageVars
<1>3. CASE BlockerGate
  <2>1. /\ UNCHANGED <<requests, pending, bundle, valid, dlq>> /\ job = "running"
        /\ job' = job \/ job' = "failed"
    BY <1>3 DEF BlockerGate, StageComplete, stageVars
  <2> QED
    BY <1>1, <2>1, FailureImplements
<1>4. CASE LoadFailure
  BY <1>4, FailureImplements DEF LoadFailure, StageComplete, stageVars
<1>5. CASE Succeed
  BY <1>5, SucceedImplements
<1> QED
  BY <1>2, <1>3, <1>4, <1>5 DEF AfterBarrier

LEMMA NextImplements ==
  ASSUME Inv, Inv', [Next]_vars
  PROVE  [Ledger!Next]_(Ledger!ledgerVars)
<1>1. CASE CreateRequest
  BY <1>1, CreateRequestImplements DEF Ledger!Next
<1>2. CASE Launch
  BY <1>2, LaunchImplements
<1>3. ASSUME NEW w \in Workers,
             StartBundle(w) \/ Process(w) \/ CrashBundle(w) \/ CrashJob(w)
      PROVE  [Ledger!Next]_(Ledger!ledgerVars)
  <2>1. CASE FinishBundle(w)
    BY <2>1, FinishBundleImplements DEF Ledger!Next
  <2>2. CASE CrashJob(w)
    BY <2>2, FailureImplements DEF CrashJob, stageVars, Ledger!Next
  <2> QED
    BY <1>3, <2>1, <2>2, BundleImplements DEF Process
<1>4. CASE AfterBarrier \/ LoadFailure
  BY <1>4, AfterBarrierImplements DEF Ledger!Next
<1>5. CASE Ended \/ UNCHANGED vars
  <2>1. UNCHANGED <<job, requests, pending, bundle, valid, dlq>>
    BY <1>5 DEF Ended, vars, stageVars
  <2>2. InFlight' = InFlight
    BY <2>1 DEF InFlight
  <2>3. Settled' = Settled /\ Outcome' = Outcome
    BY <2>1, <2>2 DEF Settled, Outcome
  <2> QED
    BY <2>1, <2>3, InvisibleStep
<1> QED
  BY <1>1, <1>2, <1>3, <1>4, <1>5 DEF Next

\* The run keeps the promise of the row ledger: whatever bundles, workers,
\* crashes and retries there are, a position is asked for once and settled
\* once, no outcome is revised, and a success concludes over all num_rows
\* positions and within the gate's ratio.
THEOREM ImplementsLedger == Spec => RefinesLedger
<1>1. Init => Ledger!Init
  BY InitImplements
<1>2. TypeInv /\ IndInv /\ (TypeInv /\ IndInv)' /\ [Next]_vars => [Ledger!Next]_(Ledger!ledgerVars)
  BY NextImplements DEF Inv, IndInv
<1> QED
  BY <1>1, <1>2, Invariance, TypeInvariant, PTL DEF Spec, RefinesLedger, Ledger!Spec
=============================================================================
