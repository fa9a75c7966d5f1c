----------------------- MODULE ColumnFidelity_proofs -----------------------
(***************************************************************************)
(* Proofs about ColumnFidelity.  The actions only pass values on, so the   *)
(* invariant says which state functions they come from (the profile from   *)
(* the references, the draw from the profile, the cell from the draw), and *)
(* everything else is shown of those functions, not of steps.              *)
(***************************************************************************)
EXTENDS ColumnFidelity, TLAPS, FiniteSetTheorems, WellFoundedInduction

-----------------------------------------------------------------------------
(* Arithmetic on the grid.                                                 *)

\* Division with remainder by the unit of rounding.
LEMMA Parts ==
  ASSUME NEW x \in Int
  PROVE  /\ x \div Quantum \in Int
         /\ x % Quantum \in 0..(Quantum - 1)
         /\ x = Quantum * (x \div Quantum) + (x % Quantum)
BY QuantumAssumption

\* Multiples of the unit are ordered as their factors.
LEMMA Cancel ==
  ASSUME NEW a \in Int, NEW b \in Int, Quantum * a < Quantum * b
  PROVE  a < b
BY QuantumAssumption, SMTT(30)

\* Multiplication by the unit keeps the order.
LEMMA Multiply ==
  ASSUME NEW a \in Int, NEW b \in Int, a <= b
  PROVE  Quantum * a <= Quantum * b
BY QuantumAssumption, SMTT(30)

\* A multiple of the unit is on the grid.
LEMMA Multiple ==
  ASSUME NEW a \in Int
  PROVE  Quantum * a \in Int /\ (Quantum * a) % Quantum = 0
BY QuantumAssumption, SMTT(30)

\* The next point of the grid.
LEMMA NextMultiple ==
  ASSUME NEW a \in Int
  PROVE  Quantum * (a + 1) = Quantum * a + Quantum
BY QuantumAssumption, SMTT(30)

\* A multiple of the unit that is at most half a unit away from x is between
\* the grid points that x is between.
LEMMA Between ==
  ASSUME NEW x \in Int, NEW k \in Int, NEW lo \in Int, NEW hi \in Int,
         lo % Quantum = 0, hi % Quantum = 0, lo <= x, x <= hi,
         2 * x - Quantum <= 2 * (Quantum * k), 2 * (Quantum * k) <= 2 * x + Quantum
  PROVE  lo <= Quantum * k /\ Quantum * k <= hi
<1> DEFINE a == lo \div Quantum
           b == hi \div Quantum
<1>1. a \in Int /\ b \in Int /\ lo = Quantum * a /\ hi = Quantum * b
  BY Parts, QuantumAssumption
<1> HIDE DEF a, b
<1>2. Quantum \in Int /\ Quantum > 0 /\ Quantum * k \in Int
  BY QuantumAssumption
<1>3. Quantum * (k + 1) = Quantum * k + Quantum
  BY NextMultiple
<1>4. Quantum * ((k - 1) + 1) = Quantum * (k - 1) + Quantum /\ (k - 1) + 1 = k
  BY NextMultiple
<1>5. a < k + 1 
  <2>1. Quantum * a < Quantum * (k + 1)
    BY <1>1, <1>2, <1>3
  <2> QED BY <2>1, <1>1, Cancel
<1>6. k - 1 < b
  <2>1. Quantum * (k - 1) \in Int
    BY QuantumAssumption
  <2>2. Quantum * (k - 1) < Quantum * b
    BY <2>1, <1>1, <1>2, <1>4
  <2> QED BY <2>2, <1>1, Cancel
<1>7. Quantum * a <= Quantum * k /\ Quantum * k <= Quantum * b
  BY <1>5, <1>6, <1>1, Multiply
<1> QED BY <1>7, <1>1

\* round() gives a grid point at most half a unit away.
LEMMA RoundHalfEvenNear ==
  ASSUME NEW x \in Int
  PROVE  \E k \in Int : /\ RoundHalfEven(x) = Quantum * k
                        /\ 2 * x - Quantum <= 2 * (Quantum * k)
                        /\ 2 * (Quantum * k) <= 2 * x + Quantum
<1> DEFINE q == x \div Quantum
           r == x % Quantum
<1>1. q \in Int /\ r \in 0..(Quantum - 1) /\ x = Quantum * q + r
  BY Parts
<1>2. RoundHalfEven(x) = Quantum * (IF 2 * r < Quantum \/ (2 * r = Quantum /\ q % 2 = 0) THEN q ELSE q + 1)
  BY DEF RoundHalfEven
<1>3. Quantum \in Int /\ Quantum * q \in Int
  BY <1>1, QuantumAssumption
<1> HIDE DEF q, r
<1>4. CASE 2 * r < Quantum \/ (2 * r = Quantum /\ q % 2 = 0)
  <2>1. RoundHalfEven(x) = Quantum * q
    BY <1>2, <1>4
  <2>2. 2 * x - Quantum <= 2 * (Quantum * q) /\ 2 * (Quantum * q) <= 2 * x + Quantum
    BY <1>1, <1>3, <1>4
  <2> QED BY <2>1, <2>2, <1>1
<1>5. CASE ~ (2 * r < Quantum \/ (2 * r = Quantum /\ q % 2 = 0))
  <2>1. RoundHalfEven(x) = Quantum * (q + 1) /\ Quantum * (q + 1) = Quantum * q + Quantum
    BY <1>1, <1>2, <1>5, NextMultiple
  <2>2. 2 * r >= Quantum
    BY <1>1, <1>3, <1>5
  <2>3. 2 * x - Quantum <= 2 * (Quantum * (q + 1)) /\ 2 * (Quantum * (q + 1)) <= 2 * x + Quantum
    BY <1>1, <1>3, <2>1, <2>2
  <2>4. q + 1 \in Int
    BY <1>1
  <2> QED BY <2>1, <2>3, <2>4
<1> QED BY <1>4, <1>5

\* ROUND_HALF_UP does too.
LEMMA RoundHalfUpNear ==
  ASSUME NEW x \in Int
  PROVE  \E k \in Int : /\ RoundHalfUp(x) = Quantum * k
                        /\ 2 * x - Quantum <= 2 * (Quantum * k)
                        /\ 2 * (Quantum * k) <= 2 * x + Quantum
<1>1. Quantum \in Int /\ Quantum > 0
  BY QuantumAssumption
<1>2. \A y \in Int : \E d \in Int : /\ d = (2 * y + Quantum) \div (2 * Quantum)
                                    /\ Quantum * d \in Int
                                    /\ 2 * y - Quantum < 2 * (Quantum * d)
                                    /\ 2 * (Quantum * d) <= 2 * y + Quantum
  <2> SUFFICES ASSUME NEW y \in Int
               PROVE  \E d \in Int : /\ d = (2 * y + Quantum) \div (2 * Quantum)
                                    /\ Quantum * d \in Int
                                     /\ 2 * y - Quantum < 2 * (Quantum * d)
                                     /\ 2 * (Quantum * d) <= 2 * y + Quantum
    OBVIOUS
  <2> DEFINE n == 2 * y + Quantum
             m == 2 * Quantum
             d == n \div m
  <2>1. n \in Int /\ m \in Int /\ m > 0
    BY <1>1
  <2> HIDE DEF n, m
  <2>2. d \in Int /\ n % m \in 0..(m - 1) /\ n = m * d + (n % m)
    BY <2>1
  <2> HIDE DEF d
  <2>3. m * d = 2 * (Quantum * d) /\ Quantum * d \in Int
    BY <1>1, <2>2 DEF m
  <2>4. n = 2 * y + Quantum /\ m = 2 * Quantum
    BY DEF n, m
  <2>5. 2 * y - Quantum < 2 * (Quantum * d) /\ 2 * (Quantum * d) <= 2 * y + Quantum
    BY <1>1, <2>2, <2>3, <2>4
  <2>6. d = (2 * y + Quantum) \div (2 * Quantum)
    BY DEF d, n, m
  <2> QED BY <2>2, <2>3, <2>5, <2>6
<1>3. CASE x >= 0
  BY <1>1, <1>2, <1>3 DEF RoundHalfUp
<1>4. CASE x < 0
  <2>1. PICK y \in Int : y = -x
    OBVIOUS
  <2>2. PICK d \in Int : /\ d = (2 * y + Quantum) \div (2 * Quantum)
                         /\ Quantum * d \in Int
                         /\ 2 * y - Quantum < 2 * (Quantum * d)
                         /\ 2 * (Quantum * d) <= 2 * y + Quantum
    BY <1>2
  <2>3. RoundHalfUp(x) = - Quantum * d
    <3>1. Quantum - 2 * x = 2 * y + Quantum
      BY <1>1, <2>1
    <3> QED BY <1>1, <1>4, <2>2, <3>1 DEF RoundHalfUp
  <2>4. - Quantum * d = Quantum * (-d) /\ Quantum * (-d) = -(Quantum * d) /\ -d \in Int
    BY <1>1, SMTT(30)
  <2>5. RoundHalfUp(x) = Quantum * (-d)
    BY <2>3, <2>4
  <2>6. /\ 2 * x - Quantum <= 2 * (Quantum * (-d))
        /\ 2 * (Quantum * (-d)) <= 2 * x + Quantum
    BY <1>1, <2>1, <2>2, <2>4
  <2> QED BY <2>4, <2>5, <2>6
<1> QED BY <1>3, <1>4

\* A rounding that takes a number above hi takes hi itself above it, when it
\* moves no number by more than half a unit.
LEMMA RoundedAbove ==
  ASSUME NEW x \in Int, NEW k \in Int, NEW hi \in Int, NEW j \in Int,
         x < hi, Quantum * k > hi, 2 * (Quantum * k) <= 2 * x + Quantum,
         2 * hi - Quantum <= 2 * (Quantum * j)
  PROVE  Quantum * j > hi
<1>1. Quantum \in Int /\ Quantum > 0 /\ Quantum * k \in Int /\ Quantum * j \in Int
  BY QuantumAssumption
<1>2. CASE k <= j
  <2>1. Quantum * k <= Quantum * j
    BY <1>2, Multiply
  <2> QED BY <1>1, <2>1
<1>3. CASE j <= k - 1
  <2>1. Quantum * j <= Quantum * (k - 1) /\ Quantum * (k - 1) \in Int
    BY <1>1, <1>3, Multiply
  <2>2. Quantum * k = Quantum * (k - 1) + Quantum
    <3>1. (k - 1) + 1 = k
      OBVIOUS
    <3> QED BY <3>1, NextMultiple
  <2> QED BY <1>1, <2>1, <2>2
<1> QED BY <1>2, <1>3

\* The same below lo.
LEMMA RoundedBelow ==
  ASSUME NEW x \in Int, NEW k \in Int, NEW lo \in Int, NEW j \in Int,
         lo < x, Quantum * k < lo, 2 * x - Quantum <= 2 * (Quantum * k),
         2 * (Quantum * j) <= 2 * lo + Quantum
  PROVE  Quantum * j < lo
<1>1. Quantum \in Int /\ Quantum > 0 /\ Quantum * k \in Int /\ Quantum * j \in Int
  BY QuantumAssumption
<1>2. CASE j <= k
  <2>1. Quantum * j <= Quantum * k
    BY <1>2, Multiply
  <2> QED BY <1>1, <2>1
<1>3. CASE k + 1 <= j
  <2>1. Quantum * (k + 1) <= Quantum * j
    BY <1>3, Multiply
  <2>2. Quantum * (k + 1) = Quantum * k + Quantum
    BY NextMultiple
  <2> QED BY <1>1, <2>1, <2>2
<1> QED BY <1>2, <1>3

-----------------------------------------------------------------------------
(* Least and greatest of a set of numbers in sight.                        *)

\* Non-empty sets of naturals have a least element.
LEMMA LeastOfNaturals ==
  ASSUME NEW T, T \subseteq Nat, T # {}
  PROVE  \E x \in T : \A y \in T : x <= y
<1> DEFINE R == OpToRel(<, Nat)
<1>1. IsWellFoundedOn(R, Nat)
  BY NatLessThanWellFounded
<1> HIDE DEF R
<1>2. PICK x \in T : \A y \in T : ~ (<<y, x>> \in R)
  BY <1>1, WFMin
<1>3. \A y \in T : y < x => <<y, x>> \in R
  BY DEF R, OpToRel
<1>4. \A y \in T : x <= y
  <2> TAKE y \in T
  <2>1. ~ (y < x)
    BY <1>2, <1>3
  <2> QED BY <2>1
<1> QED BY <1>4

\* So do sets of numbers in sight.
LEMMA LeastInSight ==
  ASSUME NEW T, T \subseteq Ticks, T # {}
  PROVE  \E x \in T : \A y \in T : x <= y
<1> DEFINE S == {y - MinTick : y \in T}
<1>1. S \subseteq Nat /\ S # {}
  <2>1. \A y \in T : y - MinTick \in Nat
    BY TickAssumption DEF Ticks
  <2> QED BY <2>1
<1>2. PICK s \in S : \A r \in S : s <= r
  BY <1>1, LeastOfNaturals
<1>3. PICK x \in T : s = x - MinTick
  OBVIOUS
<1>4. \A y \in T : x <= y
  <2> TAKE y \in T
  <2>1. s <= y - MinTick
    BY <1>2
  <2> QED BY <2>1, <1>3, TickAssumption DEF Ticks
<1> QED BY <1>4

\* And they have a greatest one.
LEMMA GreatestInSight ==
  ASSUME NEW T, T \subseteq Ticks, T # {}
  PROVE  \E x \in T : \A y \in T : y <= x
<1> DEFINE S == {MaxTick - y : y \in T}
<1>1. S \subseteq Nat /\ S # {}
  <2>1. \A y \in T : MaxTick - y \in Nat
    BY TickAssumption DEF Ticks
  <2> QED BY <2>1
<1>2. PICK s \in S : \A r \in S : s <= r
  BY <1>1, LeastOfNaturals
<1>3. PICK x \in T : s = MaxTick - x
  OBVIOUS
<1>4. \A y \in T : y <= x
  <2> TAKE y \in T
  <2>1. s <= MaxTick - y
    BY <1>2
  <2> QED BY <2>1, <1>3, TickAssumption DEF Ticks
<1> QED BY <1>4

-----------------------------------------------------------------------------
(* The invariant.                                                          *)

\* The columns and references that Init allows.
Inputs ==
  /\ engine \in {"b1_rag", "b2_empirical", "b2_sdgx"}
  /\ col \in Fields
  /\ refs \subseteq Native(col) \cup (IF Nullable(col) THEN {None} ELSE {})
  /\ refs # {} /\ IsFiniteSet(refs)
  /\ prose \in BOOLEAN
  /\ prose => col.type \in {"STRING", "JSON"}

\* The profile is the one of the references.
Profiled ==
  LET vals == NonNull(refs)
  IN  /\ ~ ProfileRaises(vals)
      /\ \E first \in IF vals = {} THEN {None} ELSE vals :
           profile = ColumnProfile(Kind(vals), vals, first)

\* Each cell comes from where the row has come.
FidelityInv ==
  /\ Inputs
  /\ stage \in {"new", "raised", "ready", "sampled", "assembled",
                "yielded", "dropped", "valid", "invalid"}
  /\ stage \notin {"new", "raised"} => Profiled
  /\ IF stage \in {"new", "raised", "ready"} THEN sampled = None ELSE sampled \in Draws
  /\ value = IF InRow THEN Cell ELSE None
  /\ stage = "dropped" => ~ Accepts(col, value)
  /\ stage \in {"yielded", "invalid"} => Accepts(col, value)
  /\ stage = "invalid" => ~ PanderaTakes(col, value)

\* What holds of a cell: its numbers are in the observed range and on the
\* column's grid, and the record model takes it if the column is scalar.
Within(x) ==
  LET lo == Least(NonNull(refs))
      hi == Greatest(NonNull(refs))
  IN  IF OnGrid(col) \/ col.type = "FLOAT64" THEN lo <= x /\ x <= hi
      ELSE 2 * lo - Quantum <= 2 * x /\ 2 * x <= 2 * hi + Quantum

Fits(v) ==
  /\ v \in Values
  /\ col.type \in Numeric /\ v.t = "num" =>
       ~ Repeated(col) /\ Within(v.v) /\ (OnGrid(col) => v.v % Quantum = 0)
  /\ ~ Nested(col) => IF v = None THEN Nullable(col) ELSE v.t \in AcceptedTypes[col.type]

-----------------------------------------------------------------------------
(* The profile.                                                            *)

\* The references of a numeric column are numbers in sight, and the bounds
\* of its profile are among them.
LEMMA Extremes ==
  ASSUME Inputs, col.type \in Numeric, ~ Repeated(col), NonNull(refs) # {}
  PROVE  LET vals == NonNull(refs)
         IN  /\ \A w \in vals : w = Num(w.v) /\ w.v \in Ticks /\ (OnGrid(col) => w.v % Quantum = 0)
             /\ Least(vals) \in {w.v : w \in vals} /\ \A w \in vals : Least(vals) <= w.v
             /\ Greatest(vals) \in {w.v : w \in vals} /\ \A w \in vals : w.v <= Greatest(vals)
<1> DEFINE vals == NonNull(refs)
           T == {w.v : w \in vals}
<1>1. \A w \in vals : w \in Native(col)
  BY DEF Inputs, NonNull
<1>2. Native(col) = {Num(x) : x \in {y \in Ticks : OnGrid(col) => y % Quantum = 0}}
  BY DEF Native
<1>3. \A w \in vals : w = Num(w.v) /\ w.v \in Ticks /\ (OnGrid(col) => w.v % Quantum = 0)
  <2> TAKE w \in vals
  <2>1. PICK x \in Ticks : w = Num(x) /\ (OnGrid(col) => x % Quantum = 0)
    BY <1>1, <1>2
  <2>2. Num(x).v = x
    BY DEF Num
  <2> QED BY <2>1, <2>2
<1>4. T \subseteq Ticks /\ T # {}
  BY <1>3
<1>5. \E x \in T : \A y \in T : x <= y
  BY <1>4, LeastInSight
<1>6. \E x \in T : \A y \in T : y <= x
  BY <1>4, GreatestInSight
<1>7. Least(vals) \in T /\ \A w \in vals : Least(vals) <= w.v
  BY <1>5 DEF Least
<1>8. Greatest(vals) \in T /\ \A w \in vals : w.v <= Greatest(vals)
  BY <1>6 DEF Greatest
<1> QED BY <1>3, <1>7, <1>8
-----------------------------------------------------------------------------
(* Cells that fit.                                                         *)

\* What rendering does to a value.
LEMMA RenderedValue ==
  ASSUME NEW w \in Values, NEW as \in {"json", "repr"}
  PROVE  /\ Rendered(w, as) \in Values
         /\ Rendered(w, as).t = IF w.t \in {"dict", "list"} THEN as ELSE w.t
         /\ w.t \notin {"dict", "list"} => Rendered(w, as) = w
<1>1. w = [t |-> w.t, v |-> w.v] /\ w.v \in Int \cup Names
  BY DEF Values
<1>2. CASE w.t \in {"dict", "list"}
  <2>1. Rendered(w, as) = [t |-> as, v |-> w.v]
    BY <1>1, <1>2 DEF Rendered
  <2>2. [t |-> as, v |-> w.v] \in Values
    BY <1>1 DEF Values
  <2>3. Rendered(w, as) \in Values /\ Rendered(w, as).t = as
    BY <2>1, <2>2
  <2> QED BY <1>2, <2>3
<1>3. CASE w.t \notin {"dict", "list"}
  BY <1>3 DEF Rendered
<1> QED BY <1>2, <1>3

\* A null is a value of its own type.
LEMMA NoneValue == None \in Values /\ None.t = "none"
BY DEF None, Values

\* A number is a value of type num.
LEMMA NumValue == \A x \in Int : Num(x) \in Values /\ Num(x).t = "num" /\ Num(x).v = x
BY DEF Num, Values

\* The values of any other type.
LEMMA OfValue ==
  ASSUME NEW type \in {"bool", "date", "text", "json", "repr", "dict", "list"}, NEW w \in Of(type)
  PROVE  w \in Values /\ w.t = type
BY DEF Of, Values

\* A null fits where the schema allows it.
LEMMA NullFits == Nullable(col) => Fits(None)
BY NoneValue DEF Fits

\* A column without numbers or a grid takes any value of an accepted type.
LEMMA TypeFits ==
  ASSUME NEW w \in Values, w.t # "num" \/ col.type \notin Numeric,
         Nested(col) \/ w.t \in AcceptedTypes[col.type], w.t # "none"
  PROVE  Fits(w)
BY NoneValue DEF Fits

\* An observed value fits, rendered or not, and is not null.
LEMMA ObservedFits ==
  ASSUME Inputs, NEW w \in NonNull(refs)
  PROVE  /\ w # None /\ Fits(w) /\ Fits(JsonRender(w)) /\ Fits(Repr(w))
         /\ JsonRender(w) # None /\ Repr(w) # None
         /\ w.t = "num" => w.v \in Int
         /\ JsonRender(w).t = "num" \/ Repr(w).t = "num" => w.t = "num"
         /\ ~ Nested(col) => JsonRender(w) = w /\ Repr(w) = w
<1>1. w \in Native(col) /\ w # None /\ col \in Fields
  BY DEF Inputs, NonNull
<1>2. CASE Repeated(col)
  <2>1. w \in Values /\ w.t = "list"
    BY <1>1, <1>2, OfValue DEF Native
  <2>2. Nested(col)
    BY <1>2 DEF Nested
  <2>3. /\ JsonRender(w) \in Values /\ JsonRender(w).t = "json"
        /\ Repr(w) \in Values /\ Repr(w).t = "repr"
    BY <2>1, RenderedValue DEF JsonRender, Repr
  <2> QED BY <1>1, <2>1, <2>2, <2>3, TypeFits, NoneValue
<1>3. CASE ~ Repeated(col) /\ col.type \in Numeric
  <2>1. PICK x \in Ticks : w = Num(x) /\ (OnGrid(col) => x % Quantum = 0)
    BY <1>1, <1>3 DEF Native
  <2>2. x \in Int
    BY TickAssumption DEF Ticks
  <2>3. w \in Values /\ w.t = "num" /\ w.v = x
    BY <2>1, <2>2, NumValue
  <2>4. JsonRender(w) = w /\ Repr(w) = w
    BY <2>3, RenderedValue DEF JsonRender, Repr
  <2>5. NonNull(refs) # {}
    OBVIOUS
  <2>6. Within(x)
    <3> DEFINE lo == Least(NonNull(refs))
               hi == Greatest(NonNull(refs))
    <3>1. lo <= x /\ x <= hi /\ lo \in Int /\ hi \in Int
      BY <1>3, <2>3, <2>5, Extremes, TickAssumption DEF Ticks
    <3> HIDE DEF lo, hi
    <3>2. 2 * lo - Quantum <= 2 * x /\ 2 * x <= 2 * hi + Quantum
      BY <2>2, <3>1, QuantumAssumption
    <3> QED BY <3>1, <3>2 DEF Within, lo, hi
  <2>7. AcceptedTypes[col.type] = {"num"}
    BY <1>3 DEF AcceptedTypes, Numeric
  <2>8. Fits(w)
    BY <1>1, <1>3, <2>1, <2>3, <2>6, <2>7 DEF Fits
  <2> QED BY <1>1, <2>2, <2>3, <2>4, <2>8
<1>4. CASE ~ Repeated(col) /\ col.type \notin Numeric
  <2>1. w \in Of(PythonType[col.type])
    BY <1>1, <1>4 DEF Native
  <2>2. col.type \in {"BOOL", "DATE", "STRING", "JSON", "STRUCT"}
    BY <1>1, <1>4 DEF Fields, Types
  <2>3. /\ PythonType[col.type] \in {"bool", "date", "text", "dict"}
        /\ PythonType[col.type] \in AcceptedTypes[col.type]
        /\ PythonType[col.type] = "dict" <=> col.type \in {"JSON", "STRUCT"}
    BY <2>2 DEF PythonType, AcceptedTypes
  <2>4. w \in Values /\ w.t = PythonType[col.type]
    BY <2>1, <2>3, OfValue
  <2>5. Fits(w)
    BY <1>4, <2>3, <2>4, TypeFits
  <2>6. CASE col.type \in {"JSON", "STRUCT"}
    <3>1. Nested(col)
      BY <2>6 DEF Nested
    <3>2. /\ JsonRender(w) \in Values /\ JsonRender(w).t = "json"
          /\ Repr(w) \in Values /\ Repr(w).t = "repr"
      BY <2>3, <2>4, <2>6, RenderedValue DEF JsonRender, Repr
    <3> QED BY <1>1, <2>3, <2>4, <2>5, <2>6, <3>1, <3>2, TypeFits, NoneValue
  <2>7. CASE col.type \notin {"JSON", "STRUCT"}
    <3>1. JsonRender(w) = w /\ Repr(w) = w
      BY <2>3, <2>4, <2>7, RenderedValue DEF JsonRender, Repr
    <3> QED BY <1>1, <2>3, <2>4, <2>5, <3>1
  <2> QED BY <2>6, <2>7
<1> QED BY <1>2, <1>3, <1>4
-----------------------------------------------------------------------------
(* What a profile of the references holds.                                 *)

\* Without a value the references hold nulls, which the schema must allow.
LEMMA OnlyNulls ==
  ASSUME Inputs, NonNull(refs) = {}
  PROVE  Nullable(col) /\ None \in refs
<1>1. PICK w \in refs : TRUE
  BY DEF Inputs
<1>2. w = None
  BY <1>1 DEF NonNull
<1>3. w \notin Native(col)
  <2>1. \A x \in Int : Num(x) # None
    BY NumValue, NoneValue
  <2>2. \A type \in {"bool", "date", "text", "dict", "list"} : None \notin Of(type)
    BY OfValue, NoneValue
  <2>3. CASE Repeated(col)
    BY <1>2, <2>2, <2>3 DEF Native
  <2>4. CASE ~ Repeated(col) /\ col.type \in Numeric
    <3>1. Ticks \subseteq Int
      BY TickAssumption DEF Ticks
    <3> QED BY <1>2, <2>1, <2>4, <3>1 DEF Native
  <2>5. CASE ~ Repeated(col) /\ col.type \notin Numeric
    <3>1. col.type \in {"BOOL", "DATE", "STRING", "JSON", "STRUCT"}
      BY <2>5 DEF Inputs, Fields, Types
    <3>2. PythonType[col.type] \in {"bool", "date", "text", "dict"}
      BY <3>1 DEF PythonType
    <3> QED BY <1>2, <2>2, <2>5, <3>2 DEF Native
  <2> QED BY <2>3, <2>4, <2>5
<1> QED BY <1>1, <1>2, <1>3 DEF Inputs

Profiles == [kind : {"constant", "numeric", "categorical", "free_text"}, nulls : BOOLEAN,
             constant : Values, lo : Int, hi : Int, pool : SUBSET Values, first : Values]

\* The kinds, from the two classifiers.
LEMMA Kinds ==
  ASSUME Inputs, ~ ProfileRaises(NonNull(refs))
  PROVE  LET vals == NonNull(refs)
             kind == Kind(vals)
         IN  /\ kind \in {"constant", "numeric", "categorical", "free_text"}
             /\ kind = "numeric" => col.type \in Numeric /\ ~ Repeated(col) /\ vals # {}
             /\ kind = "constant" /\ engine = "b1_rag" => vals # {} /\ None \notin refs
             /\ kind # "constant" /\ engine # "b1_rag" => vals # {}
             /\ kind = "free_text" => vals # {} /\ col.type \notin Numeric
             /\ kind = "free_text" /\ ~ Nested(col) => col.type = "STRING"
             /\ kind \in {"categorical", "free_text"} /\ col.type \in Numeric =>
                  vals = {} \/ Repeated(col)
<1> DEFINE vals == NonNull(refs)
<1>1. col.type \in Types /\ (prose => col.type \in {"STRING", "JSON"})
  BY DEF Inputs, Fields
<1>2. vals = {} => Cardinality(vals) = 0
  BY FS_EmptySet
<1>3. Nested(col) <=> Repeated(col) \/ col.type \in {"JSON", "STRUCT"}
  BY DEF Nested
<1> HIDE DEF vals
<1>4. CASE engine = "b1_rag"
  BY <1>1, <1>2, <1>3, <1>4 DEF Kind, KindB1, Numeric, vals
<1>5. CASE engine # "b1_rag"
  BY <1>1, <1>2, <1>3, <1>5 DEF Kind, KindB2, ProfileRaises, Numeric, vals
<1> QED BY <1>4, <1>5

\* What profile_column and _profile_one record is drawn from the references.
LEMMA ProfileFacts ==
  ASSUME Inputs, Profiled
  PROVE  LET vals == NonNull(refs)
         IN  /\ profile \in Profiles
             /\ profile.kind = Kind(vals)
             /\ profile.nulls = (None \in refs)
             /\ profile.kind = "numeric" => profile.lo = Least(vals) /\ profile.hi = Greatest(vals)
             /\ profile.kind = "constant" =>
                  /\ Fits(profile.constant)
                  /\ profile.constant # None =>
                       \E w \in vals : profile.constant \in {w, JsonRender(w), Repr(w)}
             /\ profile.kind # "constant" => profile.constant = None
             /\ profile.kind = "numeric" => profile.pool = {}
             /\ \A u \in profile.pool :
                  /\ Fits(u) /\ u # None
                  /\ \E w \in vals : u \in {w, JsonRender(w), Repr(w)}
             /\ vals # {} => /\ Fits(profile.first) /\ profile.first # None
                             /\ \E w \in vals : profile.first = Repr(w)
             /\ profile.pool = {} => profile.kind \in {"constant", "numeric"} \/ vals = {}
<1> DEFINE vals == NonNull(refs)
           kind == Kind(vals)
<1>1. PICK first \in IF vals = {} THEN {None} ELSE vals : profile = ColumnProfile(kind, vals, first)
  BY DEF Profiled
<1>2. ~ ProfileRaises(vals)
  BY DEF Profiled
<1> DEFINE pool == IF engine = "b1_rag" /\ kind = "categorical"
                     THEN {JsonRender(w) : w \in vals} ELSE {Repr(w) : w \in vals}
<1> HIDE DEF kind
<1>3. /\ profile.kind = kind
      /\ profile.nulls = (None \in refs)
      /\ profile.constant = IF kind # "constant" THEN None
                            ELSE IF engine = "b1_rag" THEN JsonRender(first) ELSE first
      /\ profile.lo = IF kind = "numeric" THEN Least(vals) ELSE 0
      /\ profile.hi = IF kind = "numeric" THEN Greatest(vals) ELSE 0
      /\ profile.pool = IF kind \in {"categorical", "free_text"} THEN pool ELSE {}
      /\ profile.first = Repr(first)
  BY <1>1 DEF ColumnProfile
<1>4. profile = [kind |-> profile.kind, nulls |-> profile.nulls, constant |-> profile.constant,
                 lo |-> profile.lo, hi |-> profile.hi, pool |-> profile.pool, first |-> profile.first]
  BY <1>1 DEF ColumnProfile
<1>5. /\ kind \in {"constant", "numeric", "categorical", "free_text"}
      /\ kind = "numeric" => col.type \in Numeric /\ ~ Repeated(col) /\ vals # {}
      /\ kind = "constant" /\ engine = "b1_rag" => vals # {} /\ None \notin refs
  BY <1>2, Kinds DEF kind
<1>6. \A w \in vals : /\ w # None /\ Fits(w) /\ Fits(JsonRender(w)) /\ Fits(Repr(w))
                      /\ JsonRender(w) # None /\ Repr(w) # None
  BY ObservedFits
<1>7. vals # {} => first \in vals
  BY <1>1
<1>8. vals = {} => first = None /\ Repr(first) = None /\ Nullable(col) /\ Fits(first)
  <2> SUFFICES ASSUME vals = {}
               PROVE  first = None /\ Repr(first) = None /\ Nullable(col) /\ Fits(first)
    OBVIOUS
  <2>1. first = None /\ Nullable(col)
    BY <1>1, OnlyNulls
  <2>2. Repr(None) = None
    BY NoneValue, RenderedValue DEF Repr
  <2> QED BY <2>1, <2>2, NullFits
<1>9. kind = "constant" =>
        /\ Fits(profile.constant)
        /\ profile.constant # None =>
             \E w \in vals : profile.constant \in {w, JsonRender(w), Repr(w)}
  BY <1>3, <1>5, <1>6, <1>7, <1>8
<1>10. \A u \in profile.pool :
         /\ Fits(u) /\ u # None
         /\ \E w \in vals : u \in {w, JsonRender(w), Repr(w)}
  BY <1>3, <1>6
<1>11. vals # {} => /\ Fits(profile.first) /\ profile.first # None
                    /\ \E w \in vals : profile.first = Repr(w)
  BY <1>3, <1>6, <1>7
<1>12. profile.pool = {} => kind \in {"constant", "numeric"} \/ vals = {}
  BY <1>3, <1>5
<1>13. profile \in Profiles
  <2>1. profile.constant \in Values
    BY <1>3, <1>9, NoneValue DEF Fits
  <2>2. profile.lo \in Int /\ profile.hi \in Int
    <3>1. CASE kind = "numeric"
      <4>1. Least(vals) \in Ticks /\ Greatest(vals) \in Ticks
        BY <1>5, <3>1, Extremes
      <4> QED BY <1>3, <3>1, <4>1, TickAssumption DEF Ticks
    <3> QED BY <1>3, <3>1
  <2>3. profile.pool \subseteq Values
    BY <1>10 DEF Fits
  <2>4. profile.first \in Values
    BY <1>3, <1>8, <1>11, NoneValue DEF Fits
  <2>5. profile.nulls \in BOOLEAN
    BY <1>3
  <2>6. profile.kind \in {"constant", "numeric", "categorical", "free_text"}
    BY <1>3, <1>5
  <2> QED BY <1>4, <2>1, <2>2, <2>3, <2>4, <2>5, <2>6 DEF Profiles
<1> QED BY <1>3, <1>5, <1>9, <1>10, <1>11, <1>12, <1>13 DEF kind
-----------------------------------------------------------------------------
(* Rounding what is between the bounds.                                    *)

\* Both roundings leave a number that fits, although they come after the
\* clipping.
LEMMA RoundedFits ==
  ASSUME Inputs, col.type \in Numeric, ~ Repeated(col), NonNull(refs) # {},
         NEW x \in Int, Least(NonNull(refs)) <= x, x <= Greatest(NonNull(refs))
  PROVE  Fits(Num(CoerceNumeric(x))) /\ Fits(Num(Pin(x)))
<1> DEFINE lo == Least(NonNull(refs))
           hi == Greatest(NonNull(refs))
<1>1. /\ lo \in Int /\ hi \in Int
      /\ OnGrid(col) => lo % Quantum = 0 /\ hi % Quantum = 0
  BY Extremes, TickAssumption DEF Ticks
<1>2. lo <= x /\ x <= hi
  OBVIOUS
<1>3. \A r \in Int : Within(r) <=>
        IF OnGrid(col) \/ col.type = "FLOAT64" THEN lo <= r /\ r <= hi
        ELSE 2 * lo - Quantum <= 2 * r /\ 2 * r <= 2 * hi + Quantum
  BY DEF Within
<1>4. AcceptedTypes[col.type] = {"num"}
  BY DEF AcceptedTypes, Numeric
<1> HIDE DEF lo, hi
<1>5. \A r \in Int : Within(r) /\ (OnGrid(col) => r % Quantum = 0) => Fits(Num(r))
  BY <1>4, NumValue, NoneValue DEF Fits
<1>6. ASSUME NEW k \in Int, col.type # "FLOAT64",
             2 * x - Quantum <= 2 * (Quantum * k), 2 * (Quantum * k) <= 2 * x + Quantum
      PROVE  Fits(Num(Quantum * k))
  <2>1. Quantum * k \in Int /\ (Quantum * k) % Quantum = 0
    BY Multiple
  <2>2. OnGrid(col) => lo <= Quantum * k /\ Quantum * k <= hi
    BY <1>1, <1>2, <1>6, Between
  <2>3. 2 * lo - Quantum <= 2 * (Quantum * k) /\ 2 * (Quantum * k) <= 2 * hi + Quantum
    BY <1>1, <1>2, <1>6, <2>1, QuantumAssumption
  <2>4. Within(Quantum * k)
    BY <1>3, <1>6, <2>1, <2>2, <2>3
  <2> QED BY <1>5, <2>1, <2>4
<1>7. col.type = "FLOAT64" => Fits(Num(x))
  BY <1>2, <1>3, <1>5 DEF OnGrid
<1>8. col.type # "FLOAT64" => Fits(Num(RoundHalfEven(x))) /\ Fits(Num(RoundHalfUp(x)))
  BY <1>6, RoundHalfEvenNear, RoundHalfUpNear
<1>9. col.type \in {"INT64", "FLOAT64", "NUMERIC"}
  BY DEF Numeric
<1> QED BY <1>7, <1>8, <1>9 DEF CoerceNumeric, Pin, RoundInteger

\* The lower bound fits as it is, an integer one rounded.
LEMMA RepresentativeFits ==
  ASSUME Inputs, Profiled, engine # "b1_rag"
  PROVE  Fits(Representative) /\ (profile.kind # "constant" => Representative # None)
<1> DEFINE vals == NonNull(refs)
<1>1. ~ ProfileRaises(vals)
  BY DEF Profiled
<1>2. /\ profile.kind \in {"constant", "numeric", "categorical", "free_text"}
      /\ profile.kind # "constant" => vals # {}
      /\ profile.kind = "numeric" => col.type \in Numeric /\ ~ Repeated(col)
  BY <1>1, Kinds, ProfileFacts
<1>3. CASE profile.kind = "constant"
  <2>1. Fits(profile.constant)
    BY <1>3, ProfileFacts
  <2> QED BY <1>3, <2>1 DEF Representative
<1>4. CASE profile.kind = "numeric"
  <2>1. profile.lo = Least(vals) /\ vals # {} /\ col.type \in Numeric /\ ~ Repeated(col)
    BY <1>2, <1>4, ProfileFacts
  <2>2. PICK w \in vals : w = Num(profile.lo)
    BY <2>1, Extremes
  <2>3. profile.lo \in Int /\ profile.lo <= Greatest(vals)
    BY <2>1, Extremes, TickAssumption DEF Ticks
  <2>4. Fits(Num(profile.lo))
    BY <2>2, ObservedFits
  <2>5. CASE col.type = "INT64"
    <3>1. Fits(Num(CoerceNumeric(profile.lo)))
      BY <2>1, <2>3, RoundedFits
    <3>2. RoundInteger(profile.lo) = RoundHalfEven(profile.lo)
          /\ CoerceNumeric(profile.lo) = RoundHalfEven(profile.lo)
      BY <2>5 DEF RoundInteger, CoerceNumeric
    <3>3. RoundHalfEven(profile.lo) \in Int
      BY <2>3, RoundHalfEvenNear, Multiple
    <3>4. Representative = Num(RoundInteger(profile.lo))
      BY <1>4 DEF Representative
    <3> QED BY <3>1, <3>2, <3>3, <3>4, NumValue, NoneValue
  <2>6. CASE col.type # "INT64"
    <3>1. Representative = Num(profile.lo)
      BY <1>4, <2>6 DEF Representative, RoundInteger
    <3> QED BY <2>3, <2>4, <3>1, NumValue, NoneValue
  <2> QED BY <2>5, <2>6
<1>5. CASE profile.kind \in {"categorical", "free_text"}
  <2>1. Representative = profile.first
    BY <1>5 DEF Representative
  <2>2. Fits(profile.first) /\ profile.first # None
    BY <1>2, <1>5, ProfileFacts
  <2> QED BY <2>1, <2>2
<1> QED BY <1>2, <1>3, <1>4, <1>5

-----------------------------------------------------------------------------
(* Cells.                                                                  *)

\* What a categorical or constant column may hold.
Observed(v) ==
  profile.kind \in {"constant", "categorical"} /\ v # None =>
    \E w \in NonNull(refs) : v \in {w, JsonRender(w), Repr(w)}

\* A column of strings takes an answer of the LLM.
LEMMA AnswerFits ==
  ASSUME Inputs, Nested(col) \/ col.type = "STRING", col.type \notin Numeric, NEW v \in Answers
  PROVE  Fits(v) /\ v # None
<1>1. v \in Values /\ v.t \in {"text", "json"}
  BY OfValue DEF Answers
<1>2. col.type = "STRING" => v.t \in AcceptedTypes[col.type]
  BY <1>1 DEF AcceptedTypes
<1> QED BY <1>1, <1>2, TypeFits, NoneValue

\* The mask draws nulls only where the schema has them.
LEMMA MaskFits == \A v \in NullMask : v = None /\ Nullable(col) /\ Fits(v)
BY NullFits DEF NullMask

\* What B.1 samples fits.
LEMMA SampleB1Fits ==
  ASSUME Inputs, Profiled, engine = "b1_rag", NEW v \in SampleB1
  PROVE  Fits(v) /\ Observed(v)
<1> DEFINE vals == NonNull(refs)
           numbers == {CoerceNumeric(x) : x \in profile.lo..profile.hi}
<1>1. ~ ProfileRaises(vals)
  BY DEF Profiled
<1>2. profile.kind \in {"constant", "numeric", "categorical", "free_text"}
  BY <1>1, Kinds, ProfileFacts
<1>3. v \in Drawn(numbers) \/ v \in NullMask
  BY DEF SampleB1
<1> HIDE DEF numbers
<1>4. CASE v \in NullMask
  BY <1>4, MaskFits DEF Observed
<1>5. CASE v \in Drawn(numbers)
  <2>1. CASE profile.kind = "constant"
    <3>1. v = profile.constant
      BY <1>5, <2>1 DEF Drawn
    <3> QED BY <2>1, <3>1, ProfileFacts DEF Observed
  <2>2. CASE profile.kind = "numeric"
    <3>1. PICK x \in profile.lo..profile.hi : v = Num(CoerceNumeric(x))
      BY <1>5, <2>2 DEF Drawn, numbers
    <3>2. profile.lo = Least(vals) /\ profile.hi = Greatest(vals)
          /\ vals # {} /\ col.type \in Numeric /\ ~ Repeated(col)
      BY <1>1, <2>2, Kinds, ProfileFacts
    <3>3. profile.lo \in Int /\ profile.hi \in Int
      BY ProfileFacts DEF Profiles
    <3>4. x \in Int /\ Least(vals) <= x /\ x <= Greatest(vals)
      BY <3>1, <3>2, <3>3
    <3> QED BY <2>2, <3>1, <3>2, <3>4, RoundedFits DEF Observed
  <2>3. CASE profile.kind = "categorical"
    <3>1. IF profile.pool = {} THEN v = None ELSE v \in profile.pool
      BY <1>5, <2>3 DEF Drawn
    <3>2. CASE profile.pool = {}
      <4>1. vals = {}
        BY <2>3, <3>2, ProfileFacts
      <4> QED BY <3>1, <3>2, <4>1, OnlyNulls, NullFits DEF Observed
    <3>3. CASE profile.pool # {}
      BY <3>1, <3>3, ProfileFacts DEF Observed
    <3> QED BY <3>2, <3>3
  <2>4. CASE profile.kind = "free_text"
    <3>1. v \in profile.pool \/ v \in Answers
      BY <1>5, <2>4 DEF Drawn
    <3>2. col.type \notin Numeric /\ (~ Nested(col) => col.type = "STRING")
      BY <1>1, <2>4, Kinds, ProfileFacts
    <3> QED BY <2>4, <3>1, <3>2, AnswerFits, ProfileFacts DEF Observed
  <2> QED BY <1>2, <2>1, <2>2, <2>3, <2>4
<1> QED BY <1>3, <1>4, <1>5
\* What B.2 samples is a value, and a string if the column is free text.
LEMMA SampleB2Shape ==
  ASSUME Inputs, Profiled, engine # "b1_rag", NEW v \in Draws
  PROVE  /\ v \in Values
         /\ profile.kind = "numeric" /\ v.t = "num" => v.v \in Int
         /\ profile.kind = "free_text" /\ v # None => Fits(v)
<1> DEFINE vals == NonNull(refs)
           numbers == {RoundInteger(x) : x \in profile.lo..profile.hi}
<1>1. ~ ProfileRaises(vals)
  BY DEF Profiled
<1>2. profile.kind \in {"constant", "numeric", "categorical", "free_text"}
  BY <1>1, Kinds, ProfileFacts
<1>3. /\ profile.kind = "numeric" => profile.pool = {}
      /\ profile.kind # "constant" => profile.constant = None
      /\ profile.constant \in Values
      /\ profile.lo \in Int /\ profile.hi \in Int
      /\ \A u \in profile.pool : Fits(u) /\ u # None
  BY ProfileFacts DEF Profiles
<1>4. \A x \in profile.lo..profile.hi : RoundInteger(x) \in Int
  <2> TAKE x \in profile.lo..profile.hi
  <2>1. x \in Int
    BY <1>3
  <2>2. RoundHalfEven(x) \in Int
    BY <2>1, RoundHalfEvenNear, Multiple
  <2> QED BY <2>1, <2>2 DEF RoundInteger
<1>5. \A u \in Of("text") : u \in Values /\ u.t = "text"
  BY OfValue
<1>6. profile.kind = "free_text" => col.type \notin Numeric /\ (~ Nested(col) => col.type = "STRING")
  BY <1>1, Kinds, ProfileFacts
<1>7. profile.kind = "free_text" => \A u \in Answers : Fits(u) /\ u # None
  BY <1>6, AnswerFits
<1> HIDE DEF numbers
<1>8. ASSUME v \in SampleEmpirical
      PROVE  /\ v \in Values
             /\ profile.kind = "numeric" /\ v.t = "num" => v.v \in Int
             /\ profile.kind = "free_text" /\ v # None => Fits(v)
  <2>1. v \in Drawn(numbers) \/ v = None
    BY <1>8, MaskFits DEF SampleEmpirical, numbers
  <2>2. CASE v = None
    BY <2>2, NoneValue
  <2>3. CASE v \in Drawn(numbers) /\ profile.kind = "constant"
    BY <1>3, <2>3 DEF Drawn
  <2>4. CASE v \in Drawn(numbers) /\ profile.kind = "numeric"
    <3>1. PICK x \in profile.lo..profile.hi : v = Num(RoundInteger(x))
      BY <2>4 DEF Drawn, numbers
    <3> QED BY <1>4, <2>4, <3>1, NumValue
  <2>5. CASE v \in Drawn(numbers) /\ profile.kind = "categorical" /\ v # None
    <3>1. v \in profile.pool
      BY <2>5 DEF Drawn
    <3>2. Fits(v)
      BY <1>3, <3>1
    <3> QED BY <2>5, <3>2 DEF Fits
  <2>6. CASE v \in Drawn(numbers) /\ profile.kind = "free_text"
    <3>1. v \in profile.pool \/ v \in Answers
      BY <2>6 DEF Drawn
    <3>2. Fits(v)
      BY <1>3, <1>7, <2>6, <3>1
    <3> QED BY <2>6, <3>2 DEF Fits
  <2> QED BY <1>2, <2>1, <2>2, <2>3, <2>4, <2>5, <2>6
<1>9. v \in SampleEmpirical \/ (v \in SampleSdgx /\ profile.kind # "free_text")
  BY DEF Draws, SampleSdgx, Inputs
<1>10. CASE v \in SampleSdgx /\ profile.kind # "free_text"
  <2>1. \/ v \in profile.pool
        \/ v = profile.constant
        \/ v = None
        \/ \E x \in Ticks : v = Num(x)
        \/ v \in Of("text")
    BY <1>10 DEF SampleSdgx
  <2>2. Ticks \subseteq Int
    BY TickAssumption DEF Ticks
  <2>3. v \in Values
    BY <1>3, <1>5, <2>1, <2>2, NumValue, NoneValue DEF Fits
  <2>4. profile.kind = "numeric" /\ v.t = "num" => v.v \in Int
    BY <1>3, <1>5, <2>1, <2>2, NumValue, NoneValue
  <2> QED BY <1>10, <2>3, <2>4
<1> QED BY <1>8, <1>9, <1>10

\* Whatever was sampled, B.2's enforcement leaves a cell that fits.
LEMMA EnforceFits ==
  ASSUME Inputs, Profiled, engine # "b1_rag", NEW v \in Draws
  PROVE  Fits(EnforceValue(v)) /\ Observed(EnforceValue(v))
<1> DEFINE vals == NonNull(refs)
<1>1. ~ ProfileRaises(vals)
  BY DEF Profiled
<1>2. /\ profile.kind \in {"constant", "numeric", "categorical", "free_text"}
      /\ profile.kind # "constant" => vals # {}
  BY <1>1, Kinds, ProfileFacts
<1>3. Fits(Representative)
  BY RepresentativeFits
<1>4. profile.kind = "categorical" => Observed(Representative)
  BY <1>2, ProfileFacts DEF Observed, Representative
<1>5. CASE profile.kind = "constant"
  BY <1>5, ProfileFacts DEF EnforceValue, Observed
<1>6. CASE profile.kind # "constant" /\ v = None
  <2>1. EnforceValue(v) = IF Nullable(col) THEN None ELSE Representative
    BY <1>6 DEF EnforceValue
  <2>2. profile.kind # "categorical" => Observed(EnforceValue(v))
    BY <1>6 DEF Observed
  <2>3. Observed(None)
    BY DEF Observed
  <2> QED BY <1>3, <1>4, <2>1, <2>2, <2>3, NullFits
<1>7. CASE profile.kind = "numeric" /\ v # None
  <2>1. EnforceValue(v) = IF v.t = "num" THEN Num(Pin(Clip(v.v))) ELSE Representative
    BY <1>7 DEF EnforceValue, EnforceNonNull
  <2>2. /\ profile.lo = Least(vals) /\ profile.hi = Greatest(vals)
        /\ vals # {} /\ col.type \in Numeric /\ ~ Repeated(col)
        /\ profile.lo \in Int /\ profile.hi \in Int
    BY <1>1, <1>7, Kinds, ProfileFacts DEF Profiles
  <2>3. profile.lo <= profile.hi
    <3>1. PICK w \in vals : w.v = profile.lo
      BY <2>2, Extremes
    <3> QED BY <2>2, <3>1, Extremes
  <2>4. CASE v.t = "num"
    <3>1. v.v \in Int
      BY <1>7, <2>4, SampleB2Shape
    <3>2. Clip(v.v) \in Int /\ profile.lo <= Clip(v.v) /\ Clip(v.v) <= profile.hi
      BY <2>2, <2>3, <3>1 DEF Clip
    <3>3. Fits(Num(Pin(Clip(v.v))))
      BY <2>2, <3>2, RoundedFits
    <3> QED BY <1>7, <2>1, <2>4, <3>3 DEF Observed
  <2>5. CASE v.t # "num"
    BY <1>3, <1>7, <2>1, <2>5 DEF Observed
  <2> QED BY <2>4, <2>5
<1>8. CASE profile.kind = "categorical" /\ v # None
  <2>1. EnforceValue(v) = IF v \in profile.pool THEN v ELSE Representative
    BY <1>8 DEF EnforceValue, EnforceNonNull
  <2>2. v \in profile.pool => Fits(v) /\ Observed(v)
    BY ProfileFacts DEF Observed
  <2> QED BY <1>3, <1>4, <1>8, <2>1, <2>2
<1>9. CASE profile.kind = "free_text" /\ v # None
  <2>1. EnforceValue(v) = IF col.type = "JSON" THEN CoerceJson(v) ELSE v
    BY <1>9 DEF EnforceValue, EnforceNonNull
  <2>2. Fits(v) /\ v \in Values
    BY <1>9, SampleB2Shape
  <2>3. CASE col.type = "JSON"
    <3>1. CoerceJson(v) \in Values
      <4>1. \A u \in Values : [u EXCEPT !.t = "dict"] \in Values
        BY DEF Values
      <4>2. Representative \in Values
        BY <1>3 DEF Fits
      <4> QED BY <2>2, <4>1, <4>2, NoneValue DEF CoerceJson
    <3>2. Nested(col) /\ col.type \notin Numeric
      BY <2>3 DEF Nested, Numeric
    <3>3. Fits(CoerceJson(v))
      BY <3>1, <3>2 DEF Fits
    <3> QED BY <1>9, <2>1, <2>3, <3>3 DEF Observed
  <2>4. CASE col.type # "JSON"
    BY <1>9, <2>1, <2>2, <2>4 DEF Observed
  <2> QED BY <2>3, <2>4
<1> QED BY <1>2, <1>5, <1>6, <1>7, <1>8, <1>9

\* So the cell of an assembled row fits, in either engine.
LEMMA CellFits ==
  ASSUME Inputs, Profiled, sampled \in Draws
  PROVE  Fits(Cell) /\ Observed(Cell)
<1>1. CASE engine = "b1_rag"
  <2>1. sampled \in SampleB1
    BY <1>1 DEF Draws
  <2> QED BY <1>1, <2>1, SampleB1Fits DEF Cell
<1>2. CASE engine # "b1_rag"
  BY <1>2, EnforceFits DEF Cell
<1> QED BY <1>1, <1>2
-----------------------------------------------------------------------------
(* The invariant is inductive.                                             *)

\* It holds initially.
LEMMA InitFidelity == Init => FidelityInv
<1> SUFFICES ASSUME Init PROVE FidelityInv
  OBVIOUS
<1>1. refs # {} /\ IsFiniteSet(refs)
  BY FS_EmptySet DEF Init
<1>2. prose \in BOOLEAN /\ (prose => col.type \in {"STRING", "JSON"})
  BY Zenon DEF Init
<1>3. Inputs
  BY <1>1, <1>2 DEF Init, Inputs
<1> QED BY <1>3 DEF Init, FidelityInv, InRow

\* Every step keeps it: the state functions it relates do not change under
\* the steps that do not assign them.
LEMMA NextFidelity == FidelityInv /\ [Next]_vars => FidelityInv'
<1> SUFFICES ASSUME FidelityInv, [Next]_vars PROVE FidelityInv'
  OBVIOUS
<1>1. UNCHANGED inputs
  BY DEF Next, vars, inputs, ProfileColumn, SetupRaises, Sample, AssembleRow, ModelValidate,
         PanderaValidate
<1>2. Inputs'
  BY <1>1 DEF FidelityInv, Inputs, inputs
<1>3. NonNull(refs)' = NonNull(refs) /\ ProfileRaises(NonNull(refs))' = ProfileRaises(NonNull(refs))
  BY <1>1 DEF inputs, NonNull, ProfileRaises, Kind, KindB1, KindB2, Repeated
<1>4. ASSUME UNCHANGED profile
      PROVE  /\ Profiled => Profiled'
             /\ Draws' = Draws
             /\ UNCHANGED sampled => Cell' = Cell
  <2>1. Profiled => Profiled'
    BY <1>1, <1>4 DEF inputs, Profiled, NonNull, ProfileRaises, ColumnProfile, Kind, KindB1, KindB2,
                      Repeated, JsonRender, Repr
  <2>2. Draws' = Draws
    BY <1>1, <1>4 DEF inputs, Draws, SampleB1, SampleEmpirical, SampleSdgx, Drawn, NullMask, Nullable,
                      CoerceNumeric, RoundInteger
  <2>3. UNCHANGED sampled => Cell' = Cell
    BY <1>1, <1>4 DEF inputs, Cell, EnforceValue, EnforceNonNull, Representative, CoerceJson, Pin, Clip,
                      RoundInteger, Nullable
  <2> QED BY <2>1, <2>2, <2>3
<1>5. CASE ProfileColumn
  <2>1. Profiled'
    <3>1. PICK first \in IF NonNull(refs) = {} THEN {None} ELSE NonNull(refs) :
            profile' = ColumnProfile(Kind(NonNull(refs)), NonNull(refs), first)
      BY <1>5 DEF ProfileColumn
    <3>2. ~ ProfileRaises(NonNull(refs))
      BY <1>5 DEF ProfileColumn
    <3> QED BY <1>1, <1>3, <3>1, <3>2 DEF inputs, Profiled, NonNull, ColumnProfile, Kind, KindB1, KindB2,
                                          Repeated, JsonRender, Repr
  <2> QED BY <1>2, <1>5, <2>1 DEF FidelityInv, ProfileColumn, InRow
<1>6. CASE SetupRaises
  BY <1>2, <1>6 DEF FidelityInv, SetupRaises, InRow
<1>7. CASE Sample
  BY <1>2, <1>4, <1>7 DEF FidelityInv, Sample, InRow
<1>8. CASE AssembleRow
  <2>1. Cell' = Cell /\ value' = Cell /\ Profiled' /\ Draws' = Draws
    BY <1>4, <1>8 DEF AssembleRow, FidelityInv
  <2> QED BY <1>2, <1>8, <2>1 DEF FidelityInv, AssembleRow, InRow
<1>9. CASE ModelValidate
  <2>1. Cell' = Cell /\ Profiled' /\ Draws' = Draws
    BY <1>4, <1>9 DEF ModelValidate, FidelityInv
  <2>2. Accepts(col, value)' = Accepts(col, value)
    BY <1>1, <1>9 DEF inputs, ModelValidate, Accepts
  <2> QED BY <1>2, <1>9, <2>1, <2>2 DEF FidelityInv, ModelValidate, InRow
<1>10. CASE UNCHANGED vars
  <2>1. Cell' = Cell /\ (Profiled => Profiled') /\ Draws' = Draws
    BY <1>4, <1>10 DEF vars
  <2>2. /\ Accepts(col, value)' = Accepts(col, value)
        /\ PanderaTakes(col, value)' = PanderaTakes(col, value)
    BY <1>10 DEF vars, inputs, Accepts, PanderaTakes
  <2> QED BY <1>2, <1>10, <2>1, <2>2 DEF FidelityInv, vars, InRow
<1>11. CASE PanderaValidate
  <2>1. Cell' = Cell /\ Profiled' /\ Draws' = Draws
    BY <1>4, <1>11 DEF PanderaValidate, FidelityInv
  <2>2. /\ Accepts(col, value)' = Accepts(col, value)
        /\ PanderaTakes(col, value)' = PanderaTakes(col, value)
    BY <1>1, <1>11 DEF inputs, PanderaValidate, Accepts, PanderaTakes
  <2> QED BY <1>2, <1>11, <2>1, <2>2 DEF FidelityInv, PanderaValidate, InRow
<1> QED BY <1>5, <1>6, <1>7, <1>8, <1>9, <1>10, <1>11 DEF Next

\* Every cell comes from its draw, the draw from the profile, the profile
\* from the references.
THEOREM FidelityInvariant == Spec => []FidelityInv
BY InitFidelity, NextFidelity, PTL DEF Spec
\* The type invariant is an invariant.
THEOREM TypeCorrect == Spec => []TypeOK
<1>1. FidelityInv => TypeOK
  <2> SUFFICES ASSUME FidelityInv PROVE TypeOK
    OBVIOUS
  <2>1. Inputs /\ engine \in {"b1_rag", "b2_empirical", "b2_sdgx"} /\ col \in Fields
    BY DEF FidelityInv, Inputs
  <2>2. prose \in BOOLEAN
    BY DEF FidelityInv, Inputs
  <2>3. refs \in SUBSET Values
    <3>1. \A w \in NonNull(refs) : w \in Values
      BY <2>1, ObservedFits DEF Fits
    <3> QED BY <3>1, NoneValue DEF NonNull
  <2>4. stage \in {"new", "raised", "ready", "sampled", "assembled",
                   "yielded", "dropped", "valid", "invalid"}
    BY DEF FidelityInv
  <2>5. stage \notin {"new", "raised"} => profile \in Profiles
    BY <2>1, ProfileFacts DEF FidelityInv
  <2>6. sampled \in Values
    <3>1. CASE stage \in {"new", "raised", "ready"}
      BY <3>1, NoneValue DEF FidelityInv
    <3>2. CASE stage \notin {"new", "raised", "ready"}
      <4>1. Profiled /\ sampled \in Draws
        BY <3>2 DEF FidelityInv
      <4>2. engine = "b1_rag" => sampled \in SampleB1
        BY <4>1 DEF Draws
      <4> QED BY <2>1, <4>1, <4>2, SampleB1Fits, SampleB2Shape DEF Fits
    <3> QED BY <3>1, <3>2
  <2>7. value \in Values /\ (col.type = "INT64" /\ value.t = "num" => value.v % Quantum = 0)
    <3>1. CASE ~ InRow
      BY <3>1, NoneValue DEF FidelityInv
    <3>2. CASE InRow
      <4>1. Profiled /\ sampled \in Draws /\ value = Cell
        BY <3>2 DEF FidelityInv, InRow
      <4>2. Fits(value)
        BY <2>1, <4>1, CellFits
      <4> QED BY <4>2 DEF Fits, OnGrid, Numeric
    <3> QED BY <3>1, <3>2
  <2> QED BY <2>1, <2>2, <2>3, <2>4, <2>5, <2>6, <2>7 DEF TypeOK, Profiles
<1> QED BY <1>1, FidelityInvariant, PTL

\* The cell of a row under the invariant.
LEMMA RowFits ==
  ASSUME FidelityInv, InRow
  PROVE  /\ Inputs /\ Profiled /\ sampled \in Draws /\ value = Cell
         /\ Fits(value) /\ Observed(value)
<1>1. Inputs /\ Profiled /\ sampled \in Draws /\ value = Cell
  BY DEF FidelityInv, InRow
<1> QED BY <1>1, CellFits

-----------------------------------------------------------------------------
(* Numbers and the ends of their range.                                    *)

\* How the engine rounds a number of the column.
Rounding(x) == IF engine = "b1_rag" THEN CoerceNumeric(x) ELSE Pin(x)

\* Either rounding is the identity or gives a grid point half a unit away at
\* most.
LEMMA RoundingNear ==
  ASSUME Inputs, col.type \in Numeric, NEW x \in Int
  PROVE  /\ Rounding(x) \in Int
         /\ col.type = "FLOAT64" => Rounding(x) = x
         /\ col.type # "FLOAT64" =>
              \E k \in Int : /\ Rounding(x) = Quantum * k
                             /\ 2 * x - Quantum <= 2 * (Quantum * k)
                             /\ 2 * (Quantum * k) <= 2 * x + Quantum
<1>1. Rounding(x) = x \/ Rounding(x) = RoundHalfEven(x) \/ Rounding(x) = RoundHalfUp(x)
  BY DEF Rounding, CoerceNumeric, Pin, RoundInteger
<1>2. RoundHalfEven(x) \in Int /\ RoundHalfUp(x) \in Int
  BY RoundHalfEvenNear, RoundHalfUpNear, Multiple
<1>3. col.type = "FLOAT64" => Rounding(x) = x
  BY DEF Rounding, CoerceNumeric, Pin, RoundInteger
<1>4. col.type # "FLOAT64" => Rounding(x) \in {RoundHalfEven(x), RoundHalfUp(x)}
  BY DEF Numeric, Rounding, CoerceNumeric, Pin, RoundInteger
<1> QED BY <1>1, <1>2, <1>3, <1>4, RoundHalfEvenNear, RoundHalfUpNear

\* A number that rounding takes out of a range was closer to an end of it
\* than the unit, and takes that end out too.
LEMMA EndsEscape ==
  ASSUME Inputs, col.type \in Numeric, NEW lo \in Int, NEW hi \in Int,
         NEW x \in Int, lo <= x, x <= hi, Rounding(x) \notin lo..hi
  PROVE  Rounding(lo) < lo \/ Rounding(hi) > hi
<1>1. Rounding(x) \in Int /\ (Rounding(x) < lo \/ Rounding(x) > hi)
  BY RoundingNear
<1>2. col.type # "FLOAT64"
  BY RoundingNear
<1>3. PICK k \in Int : /\ Rounding(x) = Quantum * k
                       /\ 2 * x - Quantum <= 2 * (Quantum * k)
                       /\ 2 * (Quantum * k) <= 2 * x + Quantum
  BY <1>2, RoundingNear
<1>4. CASE Rounding(x) > hi
  <2>1. CASE x = hi
    BY <1>4, <2>1
  <2>2. CASE x < hi
    <3>1. PICK j \in Int : Rounding(hi) = Quantum * j /\ 2 * hi - Quantum <= 2 * (Quantum * j)
      BY <1>2, RoundingNear
    <3> QED BY <1>3, <1>4, <2>2, <3>1, RoundedAbove
  <2> QED BY <2>1, <2>2
<1>5. CASE Rounding(x) < lo
  <2>1. CASE x = lo
    BY <1>5, <2>1
  <2>2. CASE lo < x
    <3>1. PICK j \in Int : Rounding(lo) = Quantum * j /\ 2 * (Quantum * j) <= 2 * lo + Quantum
      BY <1>2, RoundingNear
    <3> QED BY <1>3, <1>5, <2>2, <3>1, RoundedBelow
  <2> QED BY <2>1, <2>2
<1> QED BY <1>1, <1>4, <1>5

\* What the profile of a numeric column says of its references.
LEMMA NumericProfile ==
  ASSUME Inputs, Profiled, profile.kind = "numeric"
  PROVE  LET vals == NonNull(refs)
         IN  /\ col.type \in Numeric /\ ~ Repeated(col) /\ vals # {}
             /\ profile.lo = Least(vals) /\ profile.hi = Greatest(vals) /\ profile.lo <= profile.hi
             /\ profile.lo \in Ticks /\ profile.hi \in Ticks
             /\ profile.lo \in Int /\ profile.hi \in Int
             /\ OnGrid(col) => profile.lo % Quantum = 0 /\ profile.hi % Quantum = 0
             /\ profile.pool = {} /\ profile.constant = None
<1> DEFINE vals == NonNull(refs)
<1>1. ~ ProfileRaises(vals)
  BY DEF Profiled
<1>2. /\ col.type \in Numeric /\ ~ Repeated(col) /\ vals # {}
      /\ profile.lo = Least(vals) /\ profile.hi = Greatest(vals)
      /\ profile.pool = {} /\ profile.constant = None
      /\ profile.lo \in Int /\ profile.hi \in Int
  BY <1>1, Kinds, ProfileFacts DEF Profiles
<1>3. PICK w \in vals : w.v = profile.lo
  BY <1>2, Extremes
<1>4. PICK u \in vals : u.v = profile.hi
  BY <1>2, Extremes
<1>5. profile.lo <= profile.hi
  BY <1>2, <1>3, Extremes
<1>6. /\ profile.lo \in Ticks /\ profile.hi \in Ticks
      /\ OnGrid(col) => profile.lo % Quantum = 0 /\ profile.hi % Quantum = 0
  BY <1>2, <1>3, <1>4, Extremes
<1> QED BY <1>2, <1>5, <1>6

\* A number in a cell is a number of the range, rounded or, as the
\* representative of B.2, not.
LEMMA CellNumbers ==
  ASSUME Inputs, Profiled, profile.kind = "numeric", NEW v \in Cells, v.t = "num"
  PROVE  \E x \in Int : profile.lo <= x /\ x <= profile.hi /\ v.v \in {x, Rounding(x)}
<1>1. /\ col.type \in Numeric /\ profile.lo <= profile.hi
      /\ profile.lo \in Int /\ profile.hi \in Int /\ profile.pool = {} /\ profile.constant = None
      /\ OnGrid(col) => profile.lo % Quantum = 0 /\ profile.hi % Quantum = 0
  BY NumericProfile
<1>2. CASE engine = "b1_rag"
  <2>1. v \in SampleB1
    BY <1>2 DEF Cells, Draws
  <2>2. v # None
    BY NoneValue
  <2>3. v \in {Num(y) : y \in {CoerceNumeric(x) : x \in profile.lo..profile.hi}}
    BY <2>1, <2>2, MaskFits DEF SampleB1, Drawn
  <2>4. PICK x \in profile.lo..profile.hi : v = Num(CoerceNumeric(x))
    BY <2>3
  <2>5. v.v = Rounding(x)
    BY <1>2, <2>4 DEF Num, Rounding
  <2> QED BY <1>1, <2>5
<1>3. CASE engine # "b1_rag"
  <2>1. PICK d \in Draws : v = EnforceValue(d)
    BY <1>3 DEF Cells
  <2>2. CASE v = Representative
    <3>1. v.v = RoundInteger(profile.lo)
      BY <2>2 DEF Representative, Num
    <3>2. RoundInteger(profile.lo) \in {profile.lo, Rounding(profile.lo)}
      BY <1>1, <1>3 DEF RoundInteger, Rounding, Pin
    <3> QED BY <1>1, <3>1, <3>2
  <2>3. CASE v # Representative
    <3>1. d # None /\ d.t = "num" /\ v = Num(Pin(Clip(d.v)))
      BY <2>1, <2>3, NoneValue DEF EnforceValue, EnforceNonNull
    <3>2. d.v \in Int
      BY <1>3, <3>1, SampleB2Shape
    <3>3. Clip(d.v) \in Int /\ profile.lo <= Clip(d.v) /\ Clip(d.v) <= profile.hi
      BY <1>1, <3>2 DEF Clip
    <3>4. v.v = Rounding(Clip(d.v))
      BY <1>3, <3>1 DEF Rounding, Num
    <3> QED BY <3>3, <3>4
  <2> QED BY <2>2, <2>3
<1> QED BY <1>2, <1>3

\* Each end of the range is drawn, and rounded, in some cell, unless the
\* column is one of integers, whose ends are on the grid.
LEMMA EndsAreDrawn ==
  ASSUME Inputs, Profiled, profile.kind = "numeric", col.type # "INT64",
         NEW x \in {profile.lo, profile.hi}
  PROVE  \E v \in Cells : v.t = "num" /\ v.v = Rounding(x)
<1>1. /\ col.type \in Numeric /\ profile.lo <= profile.hi /\ profile.lo \in Int /\ profile.hi \in Int
      /\ profile.lo \in Ticks /\ profile.hi \in Ticks
  BY NumericProfile
<1>2. x \in Int /\ x \in profile.lo..profile.hi /\ x \in Ticks
  BY <1>1
<1>3. Rounding(x) \in Int
  BY <1>1, <1>2, RoundingNear
<1>4. CASE engine = "b1_rag"
  <2>1. Num(CoerceNumeric(x)) \in SampleB1
    BY <1>2 DEF SampleB1, Drawn
  <2>2. Num(Rounding(x)) \in Cells
    BY <1>4, <2>1 DEF Cells, Draws, Rounding
  <2> QED BY <1>3, <2>2, NumValue
<1>5. CASE engine # "b1_rag"
  <2>1. Num(x) \in SampleEmpirical
    <3>1. RoundInteger(x) = x
      BY DEF RoundInteger
    <3> QED BY <1>2, <3>1 DEF SampleEmpirical, Drawn
  <2>2. Num(x) \in SampleSdgx
    BY <1>2 DEF SampleSdgx
  <2>3. Num(x) \in Draws
    BY <1>5, <2>1, <2>2 DEF Inputs, Draws
  <2>4. EnforceValue(Num(x)) = Num(Pin(Clip(x)))
    BY <1>2, NumValue, NoneValue DEF EnforceValue, EnforceNonNull
  <2>5. Clip(x) = x
    BY <1>1, <1>2 DEF Clip
  <2>6. Num(Rounding(x)) \in Cells
    BY <1>5, <2>3, <2>4, <2>5 DEF Cells, Rounding
  <2> QED BY <1>3, <2>6, NumValue
<1> QED BY <1>4, <1>5

\* Rounding keeps the ends of a range on the grid.
LEMMA GridEndsStay ==
  ASSUME Inputs, OnGrid(col) \/ col.type = "FLOAT64", col.type \in Numeric,
         NEW x \in Int, OnGrid(col) => x % Quantum = 0
  PROVE  Rounding(x) = x
<1>1. CASE col.type = "FLOAT64"
  BY <1>1, RoundingNear
<1>2. CASE col.type # "FLOAT64"
  <2>1. PICK k \in Int : /\ Rounding(x) = Quantum * k
                         /\ 2 * x - Quantum <= 2 * (Quantum * k)
                         /\ 2 * (Quantum * k) <= 2 * x + Quantum
    BY <1>2, RoundingNear
  <2>2. x % Quantum = 0 /\ x <= x
    BY <1>2
  <2>3. x <= Quantum * k /\ Quantum * k <= x
    BY <2>1, <2>2, Between
  <2> QED BY <2>1, <2>3, Multiple
<1> QED BY <1>1, <1>2

\* The next row of a numeric column can leave the observed range exactly if
\* an end of it is rounded outwards, under either engine and rounding: it is
\* then a NUMERIC without a declared scale, and leaves by half a unit.
THEOREM RangeLeftByRounding == Spec => []OnlyRoundingLeavesRange
<1>1. FidelityInv => OnlyRoundingLeavesRange
  <2> SUFFICES ASSUME FidelityInv, InRow, profile.kind = "numeric"
               PROVE  LET lo == Least(NonNull(refs))
                          hi == Greatest(NonNull(refs))
                      IN  /\ (\E v \in Cells : v.t = "num" /\ v.v \notin lo..hi)
                               <=> (Rounding(lo) < lo \/ Rounding(hi) > hi)
                          /\ value.t = "num" /\ value.v \notin lo..hi =>
                               /\ col.type = "NUMERIC" /\ ~ col.limited
                               /\ 2 * lo - Quantum <= 2 * value.v
                               /\ 2 * value.v <= 2 * hi + Quantum
    BY DEF OnlyRoundingLeavesRange, Rounding
  <2> DEFINE lo == Least(NonNull(refs))
             hi == Greatest(NonNull(refs))
  <2>1. Inputs /\ Profiled /\ Fits(value)
    BY RowFits
  <2>2. /\ col.type \in Numeric /\ lo = profile.lo /\ hi = profile.hi
        /\ lo \in Int /\ hi \in Int /\ lo <= hi
        /\ OnGrid(col) => lo % Quantum = 0 /\ hi % Quantum = 0
    BY <2>1, NumericProfile
  <2>3. value.t = "num" => value.v \in Int /\ Within(value.v)
    <3>1. value.t = "num" => value.v \in Int
      <4>1. value = Cell /\ sampled \in Draws
        BY RowFits
      <4>2. value \in Cells
        BY <4>1 DEF Cell, Cells
      <4>3. \A x \in Int : Rounding(x) \in Int
        BY <2>1, <2>2, RoundingNear
      <4> QED BY <2>1, <4>2, <4>3, CellNumbers
    <3> QED BY <2>1, <2>2, <3>1 DEF Fits
  <2>4. Within(value.v) <=> IF OnGrid(col) \/ col.type = "FLOAT64" THEN lo <= value.v /\ value.v <= hi
                            ELSE 2 * lo - Quantum <= 2 * value.v /\ 2 * value.v <= 2 * hi + Quantum
    BY DEF Within
  <2>5. OnGrid(col) \/ col.type = "FLOAT64" \/ (col.type = "NUMERIC" /\ ~ col.limited)
    BY <2>2 DEF OnGrid, Numeric
  <2>6. ASSUME NEW v \in Cells, v.t = "num", v.v \notin lo..hi
        PROVE  Rounding(lo) < lo \/ Rounding(hi) > hi
    <3>1. PICK x \in Int : lo <= x /\ x <= hi /\ v.v \in {x, Rounding(x)}
      BY <2>1, <2>2, <2>6, CellNumbers
    <3>2. Rounding(x) \notin lo..hi
      BY <2>2, <2>6, <3>1
    <3> QED BY <2>1, <2>2, <3>1, <3>2, EndsEscape
  <2>7. ASSUME Rounding(lo) < lo \/ Rounding(hi) > hi
        PROVE  \E v \in Cells : v.t = "num" /\ v.v \notin lo..hi
    <3>1. ~ (OnGrid(col) \/ col.type = "FLOAT64")
      <4>1. OnGrid(col) \/ col.type = "FLOAT64" => Rounding(lo) = lo /\ Rounding(hi) = hi
        BY <2>1, <2>2, GridEndsStay
      <4> QED BY <2>2, <2>7, <4>1
    <3>2. col.type # "INT64"
      BY <3>1 DEF OnGrid
    <3>3. PICK x \in {profile.lo, profile.hi} : Rounding(x) \notin lo..hi
      BY <2>2, <2>7
    <3> QED BY <2>1, <3>2, <3>3, EndsAreDrawn
  <2> HIDE DEF lo, hi
  <2>8. value.t = "num" /\ value.v \notin lo..hi =>
          /\ col.type = "NUMERIC" /\ ~ col.limited
          /\ 2 * lo - Quantum <= 2 * value.v /\ 2 * value.v <= 2 * hi + Quantum
    BY <2>2, <2>3, <2>4, <2>5
  <2> QED BY <2>6, <2>7, <2>8 DEF lo, hi
<1> QED BY <1>1, FidelityInvariant, PTL

\* Constant and categorical columns hold observed values only, also when a
\* fitted sdgx model returns something else.
THEOREM CategoriesKept == Spec => []CategoriesAreObserved
<1>1. FidelityInv => CategoriesAreObserved
  BY RowFits DEF CategoriesAreObserved, Observed
<1> QED BY <1>1, FidelityInvariant, PTL

\* What the record model admits and Pandera does not is a date of the
\* reference rows that is too far.
LEMMA OnlyFarDatesFail ==
  ASSUME FidelityInv, stage = "invalid"
  PROVE  col.type = "DATE" /\ value \in refs /\ value.v \in FarDates
<1>1. Inputs /\ Observed(value) /\ Accepts(col, value) /\ ~ PanderaTakes(col, value)
  BY RowFits DEF FidelityInv, InRow
<1>2. Nullable(col) => value # None
  BY <1>1 DEF PanderaTakes
<1>3. value # None
  BY <1>1, <1>2 DEF Accepts
<1>0. ~ Nested(col) /\ ~ (Coerces(col, value) /\ InLength(col, value))
  BY <1>1, <1>3 DEF PanderaTakes
<1>5. value.t \in AcceptedTypes[col.type] /\ InLength(col, value)
  BY <1>0, <1>1, <1>3 DEF Accepts, Nested
<1>4. /\ ~ Nested(col) /\ col.type \in {"INT64", "FLOAT64", "BOOL", "DATE"}
      /\ ~ (value.t \in CoercedFrom[col.type] /\ (value.t = "date" => value.v \notin FarDates))
  BY <1>0, <1>5 DEF Coerces, CoercedFrom
<1>6. col.type = "DATE" /\ value.t = "date" /\ value.v \in FarDates
  BY <1>4, <1>5 DEF AcceptedTypes, CoercedFrom
<1>7. value \in refs
  <2>1. profile.kind \in {"constant", "categorical"}
    <3>1. Profiled /\ ~ prose
      BY <1>1, <1>6, RowFits DEF Inputs, FidelityInv, InRow
    <3>2. profile.kind = Kind(NonNull(refs))
      BY <1>1, <3>1, ProfileFacts
    <3> QED BY <1>6, <3>1, <3>2 DEF Kind, KindB1, KindB2, Numeric
  <2>2. PICK w \in NonNull(refs) : value \in {w, JsonRender(w), Repr(w)}
    BY <1>1, <1>3, <2>1 DEF Observed
  <2>3. w \in refs /\ w.t \notin {"dict", "list"}
    <3>1. w \in Native(col) /\ w \in refs
      BY <1>1 DEF Inputs, NonNull
    <3>2. w \in Of("date")
      BY <3>1, <1>4, <1>6 DEF Native, Nested, Numeric, PythonType
    <3> QED BY <3>1, <3>2 DEF Of
  <2> QED BY <2>2, <2>3 DEF JsonRender, Repr, Rendered
<1> QED BY <1>6, <1>7

\* A string of a row is one of the references or an answer of the LLM.
LEMMA StringsKnown ==
  ASSUME FidelityInv, InRow, col.type = "STRING", ~ Nested(col), value # None
  PROVE  value \in refs \/ (profile.kind = "free_text" /\ value \in Answers)
<1> DEFINE vals == NonNull(refs)
<1>1. Inputs /\ Profiled /\ sampled \in Draws /\ value = Cell /\ Observed(value)
  BY RowFits
<1>2. \A w \in vals : w \in refs /\ JsonRender(w) = w /\ Repr(w) = w
  <2> TAKE w \in vals
  <2>1. w \in Native(col) /\ w \in refs
    BY <1>1 DEF Inputs, NonNull
  <2>2. w \in Of("text")
    BY <2>1 DEF Native, Nested, Numeric, PythonType
  <2> QED BY <2>1, <2>2 DEF Of, JsonRender, Repr, Rendered
<1>3. CASE profile.kind \in {"constant", "categorical"}
  BY <1>1, <1>2, <1>3 DEF Observed
<1>4. CASE profile.kind = "free_text"
  <2>1. \A u \in profile.pool : u \in refs
    BY <1>1, <1>2, ProfileFacts
  <2>2. sampled \in profile.pool \cup Answers \cup {None}
    BY <1>1, <1>4 DEF Inputs, Draws, SampleB1, SampleEmpirical, SampleSdgx, Drawn, NullMask
  <2>3. Representative \in refs
    <3>1. vals # {}
      BY <1>1, <1>4, Kinds, ProfileFacts DEF Profiled
    <3>2. Representative = profile.first
      BY <1>4 DEF Representative
    <3> QED BY <1>1, <1>2, <3>1, <3>2, ProfileFacts
  <2>4. value \in {sampled, None, Representative}
    BY <1>1, <1>4 DEF Cell, EnforceValue, EnforceNonNull
  <2> QED BY <1>4, <2>1, <2>2, <2>3, <2>4
<1>5. profile.kind # "numeric"
  BY <1>1, ProfileFacts DEF Kind, KindB1, KindB2, Numeric
<1>6. profile.kind \in {"constant", "numeric", "categorical", "free_text"}
  BY <1>1, ProfileFacts DEF Profiles
<1> QED BY <1>3, <1>4, <1>5, <1>6

\* The record model admits every cell of a scalar column but a null in a
\* primary key and an answer that is too long, and Pandera takes what it
\* admits but far dates.
THEOREM ScalarRowsSurvive == Spec => []ScalarsSurvive
<1>1. FidelityInv => ScalarsSurvive
  <2> SUFFICES ASSUME FidelityInv, stage = "dropped", ~ Nested(col)
               PROVE  \/ value = None /\ col.pk /\ Nullable(col)
                      \/ profile.kind = "free_text" /\ col.limited /\ value \in Answers \ refs
    BY OnlyFarDatesFail DEF ScalarsSurvive
  <2>1. Fits(value) /\ ~ Accepts(col, value)
    BY RowFits DEF FidelityInv, InRow
  <2>2. ~ Repeated(col)
    BY DEF Nested
  <2>3. value # None => value.t \in AcceptedTypes[col.type]
    BY <2>1 DEF Fits
  <2>4. value # None /\ OnGrid(col) => value.v % Quantum = 0
    <3>1. SUFFICES ASSUME value # None, OnGrid(col) PROVE value.v % Quantum = 0
      OBVIOUS
    <3>2. col.type \in {"INT64", "NUMERIC"}
      BY <3>1 DEF OnGrid
    <3>3. value.t = "num"
      BY <2>3, <3>1, <3>2 DEF AcceptedTypes
    <3> QED BY <2>1, <3>1, <3>2, <3>3 DEF Fits, Numeric
  <2>5. CASE value = None
    <3>1. Nullable(col)
      BY <2>1, <2>5 DEF Fits
    <3>2. col.pk
      BY <2>1, <2>5, <3>1 DEF Accepts
    <3> QED BY <2>5, <3>1, <3>2
  <2>6. CASE value # None
    <3>1. ~ InLength(col, value)
      BY <2>1, <2>2, <2>3, <2>4, <2>6 DEF Accepts
    <3>2. col.type = "STRING" /\ col.limited
      BY <3>1 DEF InLength
    <3>3. value \notin refs
      <4>1. value \in refs => value \in Native(col)
        BY <2>6 DEF FidelityInv, Inputs
      <4> QED BY <2>2, <3>1, <3>2, <4>1 DEF Native, Numeric
    <3>4. InRow
      BY DEF InRow
    <3> QED BY <2>6, <3>2, <3>3, <3>4, StringsKnown
  <2> QED BY <2>5, <2>6
<1> QED BY <1>1, FidelityInvariant, PTL

\* A sampled null is overwritten exactly by B.2 in a column with one other
\* value, and a column that may not be null has none.
THEOREM NullsLostByConstants == Spec => []OnlyConstantsLoseNulls
<1>1. FidelityInv => OnlyConstantsLoseNulls
  <2> SUFFICES ASSUME FidelityInv, InRow, ~ Nested(col)
               PROVE  /\ sampled = None /\ Nullable(col) =>
                           (value # None <=> engine # "b1_rag" /\ Cardinality(NonNull(refs)) = 1)
                      /\ ~ Nullable(col) => value # None
    BY DEF OnlyConstantsLoseNulls
  <2> DEFINE vals == NonNull(refs)
  <2>1. Inputs /\ Profiled /\ value = Cell /\ Fits(value)
    BY RowFits
  <2>2. ~ Nullable(col) => value # None
    BY <2>1 DEF Fits
  <2>3. ASSUME sampled = None, Nullable(col), value # None
        PROVE  engine # "b1_rag" /\ Cardinality(vals) = 1
    <3>1. engine # "b1_rag" /\ profile.kind = "constant" /\ profile.constant # None
      BY <2>1, <2>3 DEF Cell, EnforceValue
    <3>2. Cardinality(vals) <= 1
      BY <2>1, <3>1, ProfileFacts DEF Kind, KindB2
    <3>3. vals # {} /\ IsFiniteSet(vals)
      <4>1. IsFiniteSet(vals)
        BY <2>1, FS_Subset DEF Inputs, NonNull
      <4> QED BY <2>1, <3>1, <4>1, ProfileFacts
    <3>4. Cardinality(vals) \in Nat /\ Cardinality(vals) # 0
      BY <3>3, FS_CardinalityType, FS_EmptySet
    <3> QED BY <3>1, <3>2, <3>4
  <2>4. ASSUME sampled = None, engine # "b1_rag", Cardinality(vals) = 1
        PROVE  value # None
    <3>1. vals # {} /\ Kind(vals) = "constant"
      BY <2>4, FS_EmptySet DEF Kind, KindB2
    <3>2. PICK first \in vals : profile = ColumnProfile("constant", vals, first)
      BY <2>1, <3>1 DEF Profiled
    <3>3. profile.kind = "constant" /\ profile.constant = first
      BY <2>4, <3>2 DEF ColumnProfile
    <3> QED BY <2>1, <2>4, <3>3 DEF Cell, EnforceValue, NonNull
  <2> QED BY <2>2, <2>3, <2>4
<1> QED BY <1>1, FidelityInvariant, PTL
=============================================================================
