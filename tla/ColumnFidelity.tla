--------------------------- MODULE ColumnFidelity ---------------------------
(***************************************************************************)
(* One column of a table on its way through an engine: the reference       *)
(* values are profiled, a cell is sampled for a new row, B.2 clamps it     *)
(* back into the observed support, and the two validators derived from the *)
(* schema judge the row: the engine drops what the record model rejects    *)
(* without a trace, what Pandera rejects becomes a dead letter.            *)
(*                                                                         *)
(* A value is its Python type and what tells it apart.  Numbers count      *)
(* ticks; Quantum of them make the unit to which the code rounds: 1 for an *)
(* INT64, 10^-scale for a NUMERIC.  Weights, lengths and similarity are    *)
(* left out: a draw is any value the sampler can return.                   *)
(***************************************************************************)
EXTENDS Integers, FiniteSets

CONSTANTS
  MinTick, MaxTick,  \* the numbers in sight
  Quantum,           \* ticks in the unit of rounding
  Names,             \* what tells two values of one type apart
  FarDates,          \* the dates among them that datetime64[ns] cannot hold
  LongTexts,         \* the texts among them that exceed a max_length
  MaxRefs            \* distinct reference values (bounds the run)

ASSUME TickAssumption    == MinTick \in Int /\ MaxTick \in Int
ASSUME QuantumAssumption == Quantum \in Nat \ {0}
ASSUME LimitsAssumption  == FarDates \subseteq Names /\ LongTexts \subseteq Names

VARIABLES
  engine,   \* "b1_rag", or "b2_library" over one of its two backends
  col,      \* the FieldSchema, and whether it is in the primary key
  refs,     \* the column's reference values
  prose,    \* whether the free-text heuristics take its strings for prose
  profile,  \* ColumnProfile
  stage,    \* where the row is: see TypeOK
  sampled,  \* the cell the sampler returned
  value     \* the cell of the assembled row

inputs == <<engine, col, refs, prose>>
vars == <<inputs, profile, stage, sampled, value>>

-----------------------------------------------------------------------------
Ticks == MinTick..MaxTick

None == [t |-> "none", v |-> 0]
Num(x) == [t |-> "num", v |-> x]
Of(type) == {[t |-> type, v |-> a] : a \in Names}

Numeric == {"INT64", "FLOAT64", "NUMERIC"}
Types == Numeric \cup {"BOOL", "DATE", "STRING", "JSON", "STRUCT"}

\* limited: a NUMERIC that declares its scale, a STRING its max_length.
Fields == [type : Types, mode : {"REQUIRED", "NULLABLE", "REPEATED"}, limited : BOOLEAN, pk : BOOLEAN]

Nullable(c) == c.mode = "NULLABLE"
Repeated(c) == c.mode = "REPEATED"
Nested(c) == Repeated(c) \/ c.type \in {"JSON", "STRUCT"}

\* BigQuery keeps these columns on the grid to which the code rounds.  A
\* NUMERIC without a declared scale holds more places than the two assumed.
OnGrid(c) == c.type = "INT64" \/ (c.type = "NUMERIC" /\ c.limited)

InLength(c, v) == c.type = "STRING" /\ c.limited => v.v \notin LongTexts

\* The Python type of a value that the BigQuery client returns.
PythonType == [BOOL |-> "bool", DATE |-> "date", STRING |-> "text", JSON |-> "dict", STRUCT |-> "dict"]

Native(c) ==
  IF Repeated(c) THEN Of("list")
  ELSE IF c.type \in Numeric
         THEN {Num(x) : x \in {y \in Ticks : OnGrid(c) => y % Quantum = 0}}
  ELSE {v \in Of(PythonType[c.type]) : InLength(c, v)}

\* Dicts and lists become text: JSON in B.1's categories, a Python repr
\* everywhere else.  The repr of a non-empty dict is no JSON.
Rendered(v, as) == IF v.t \in {"dict", "list"} THEN [v EXCEPT !.t = as] ELSE v
JsonRender(v) == Rendered(v, "json")
Repr(v) == Rendered(v, "repr")

NonNull(vs) == vs \ {None}

Init ==
  /\ engine \in {"b1_rag", "b2_empirical", "b2_sdgx"}
  /\ col \in {c \in Fields : c.limited => c.type \in {"NUMERIC", "STRING"}}
  /\ refs \in {vs \in SUBSET (Native(col) \cup IF Nullable(col) THEN {None} ELSE {}) :
                  IsFiniteSet(vs) /\ Cardinality(vs) \in 1..MaxRefs}
  /\ prose \in {b \in BOOLEAN : b => col.type \in {"STRING", "JSON"}}
  /\ profile = [kind |-> "none"]
  /\ stage = "new"
  /\ sampled = None /\ value = None

-----------------------------------------------------------------------------
(* Profiling.                                                              *)

\* B.1: a column with nulls is never constant; a struct or an array is
\* categorical; an array of numbers has no number in it.
KindB1(vals) ==
  IF Cardinality(vals) = 1 /\ None \notin refs THEN "constant"
  ELSE IF col.type \in Numeric /\ ~ Repeated(col) /\ vals # {} THEN "numeric"
  ELSE IF prose /\ ~ Repeated(col) /\ vals # {} THEN "free_text"
  ELSE "categorical"

\* B.2: nulls do not count, and the mode is not looked at.
KindB2(vals) ==
  IF Cardinality(vals) <= 1 THEN "constant"
  ELSE IF col.type \in Numeric THEN "numeric"
  ELSE IF col.type = "JSON" \/ prose THEN "free_text"
  ELSE "categorical"

Kind(vals) == IF engine = "b1_rag" THEN KindB1(vals) ELSE KindB2(vals)

\* B.2 converts every value of a numeric column with float(), a list too.
ProfileRaises(vals) == engine # "b1_rag" /\ Kind(vals) = "numeric" /\ Repeated(col)

Least(vals) == CHOOSE x \in {w.v : w \in vals} : \A w \in vals : x <= w.v
Greatest(vals) == CHOOSE x \in {w.v : w \in vals} : \A w \in vals : w.v <= x

\* The first value is the one a representative is taken from; rows come in
\* any order.
ColumnProfile(kind, vals, first) ==
  LET pool == IF engine = "b1_rag" /\ kind = "categorical"
                THEN {JsonRender(w) : w \in vals} ELSE {Repr(w) : w \in vals}
  IN  [kind     |-> kind,
       nulls    |-> None \in refs,
       constant |-> IF kind # "constant" THEN None
                    ELSE IF engine = "b1_rag" THEN JsonRender(first) ELSE first,
       lo       |-> IF kind = "numeric" THEN Least(vals) ELSE 0,
       hi       |-> IF kind = "numeric" THEN Greatest(vals) ELSE 0,
       pool     |-> IF kind \in {"categorical", "free_text"} THEN pool ELSE {},
       first    |-> Repr(first)]

ProfileColumn ==
  /\ stage \in {"new", "raised"}
  /\ LET vals == NonNull(refs)
     IN  /\ ~ ProfileRaises(vals)
         /\ \E first \in IF vals = {} THEN {None} ELSE vals :
              profile' = ColumnProfile(Kind(vals), vals, first)
  /\ stage' = "ready"
  /\ UNCHANGED <<inputs, sampled, value>>

\* setup() raises, and so does every retry of it.
SetupRaises ==
  /\ stage \in {"new", "raised"}
  /\ ProfileRaises(NonNull(refs))
  /\ stage' = "raised"
  /\ UNCHANGED <<inputs, profile, sampled, value>>

-----------------------------------------------------------------------------
(* Sampling.                                                               *)

\* round() and B.1's Decimal.quantize round half to even.
RoundHalfEven(x) ==
  LET q == x \div Quantum
      r == x % Quantum
  IN  Quantum * (IF 2 * r < Quantum \/ (2 * r = Quantum /\ q % 2 = 0) THEN q ELSE q + 1)

\* ROUND_HALF_UP rounds half away from zero.
RoundHalfUp(x) ==
  IF x >= 0 THEN Quantum * ((2 * x + Quantum) \div (2 * Quantum))
            ELSE - Quantum * ((Quantum - 2 * x) \div (2 * Quantum))

CoerceNumeric(x) == IF col.type = "FLOAT64" THEN x ELSE RoundHalfEven(x)

\* Strings an LLM may answer with; some of them are JSON objects.
Answers == Of("text") \cup Of("json")

\* The mask that keeps the null rate: B.1 does not apply it to constants.
NullMask == IF Nullable(col) /\ profile.nulls THEN {None} ELSE {}

Drawn(numbers) ==
  CASE profile.kind = "constant"    -> {profile.constant}
    [] profile.kind = "numeric"     -> {Num(x) : x \in numbers}
    [] profile.kind = "categorical" -> IF profile.pool = {} THEN {None} ELSE profile.pool
    [] profile.kind = "free_text"   -> profile.pool \cup Answers

SampleB1 ==
  Drawn({CoerceNumeric(x) : x \in profile.lo..profile.hi})
    \cup IF profile.kind = "constant" THEN {} ELSE NullMask

RoundInteger(x) == IF col.type = "INT64" THEN RoundHalfEven(x) ELSE x

SampleEmpirical == Drawn({RoundInteger(x) : x \in profile.lo..profile.hi}) \cup NullMask

\* A fitted sdgx model may return what was never seen, and a column that it
\* leaves out is filled from the profile; free text is not its.
SampleSdgx ==
  IF profile.kind = "free_text" THEN SampleEmpirical
  ELSE profile.pool \cup {profile.constant, None} \cup {Num(x) : x \in Ticks} \cup Of("text")

Draws ==
  CASE engine = "b1_rag"       -> SampleB1
    [] engine = "b2_empirical" -> SampleEmpirical
    [] engine = "b2_sdgx"      -> SampleSdgx

Sample ==
  /\ stage \in {"ready", "dropped", "valid", "invalid"}
  /\ sampled' \in Draws
  /\ value' = None
  /\ stage' = "sampled"
  /\ UNCHANGED <<inputs, profile>>

-----------------------------------------------------------------------------
(* Enforcement.                                                            *)

Representative ==
  CASE profile.kind = "constant" -> profile.constant
    [] profile.kind = "numeric"  -> Num(RoundInteger(profile.lo))
    [] OTHER                     -> profile.first

ClipLowOnly(x) == IF x < profile.lo THEN profile.lo ELSE x

Clip(x) == IF x < profile.lo THEN profile.lo ELSE IF x > profile.hi THEN profile.hi ELSE x

\* An integer is rounded, a NUMERIC quantized, a float kept.
PinAsFloat(x) == x

Pin(x) == IF col.type = "NUMERIC" THEN RoundHalfUp(x) ELSE RoundInteger(x)

\* json.loads: of what is sampled, then of the first observed value.
CoerceJson(v) ==
  IF v.t \in {"dict", "list"} THEN v
  ELSE IF v.t = "json" THEN [v EXCEPT !.t = "dict"]
  ELSE IF Representative.t = "json" THEN [Representative EXCEPT !.t = "dict"]
  ELSE None

EnforceNonNull(v) ==
  CASE profile.kind = "numeric"     -> IF v.t = "num" THEN Num(Pin(Clip(v.v))) ELSE Representative
    [] profile.kind = "categorical" -> IF v \in profile.pool THEN v ELSE Representative
    [] profile.kind = "free_text"   -> IF col.type = "JSON" THEN CoerceJson(v) ELSE v

EnforceKnownOnly(v) ==
  IF profile.kind = "constant" THEN profile.constant
  ELSE IF v = None THEN (IF Nullable(col) THEN None ELSE Representative)
  ELSE IF profile.kind = "categorical" THEN v
  ELSE EnforceNonNull(v)

EnforceNoNulls(v) ==
  IF profile.kind = "constant" THEN profile.constant
  ELSE IF v = None THEN Representative
  ELSE EnforceNonNull(v)

EnforceValue(v) ==
  IF profile.kind = "constant" THEN profile.constant
  ELSE IF v = None THEN (IF Nullable(col) THEN None ELSE Representative)
  ELSE EnforceNonNull(v)

\* B.1 takes what it sampled.
Cell == IF engine = "b1_rag" THEN sampled ELSE EnforceValue(sampled)

AssembleRow ==
  /\ stage = "sampled"
  /\ value' = Cell
  /\ stage' = "assembled"
  /\ UNCHANGED <<inputs, profile, sampled>>

-----------------------------------------------------------------------------
(* The record model derived from the schema.                               *)

AcceptedTypes == [INT64 |-> {"num"}, FLOAT64 |-> {"num"}, NUMERIC |-> {"num"}, BOOL |-> {"bool"},
                  DATE |-> {"date"}, STRING |-> {"text", "json", "repr"},
                  JSON |-> {"dict"}, STRUCT |-> {"dict"}]

Accepts(c, v) ==
  IF v = None THEN Nullable(c) /\ ~ c.pk
  ELSE IF Repeated(c) THEN v.t = "list"
  ELSE v.t \in AcceptedTypes[c.type] /\ (OnGrid(c) => v.v % Quantum = 0) /\ InLength(c, v)

ModelValidate ==
  /\ stage = "assembled"
  /\ stage' = IF Accepts(col, value) THEN "yielded" ELSE "dropped"
  /\ UNCHANGED <<inputs, profile, sampled, value>>

-----------------------------------------------------------------------------
(* The Pandera schema derived from the same fields, with coerce=True.      *)

\* The cells that the dtype of a column is coerced from; a column of strings
\* or objects takes every cell.
CoercedFrom == [INT64 |-> {"num"}, FLOAT64 |-> {"num"}, BOOL |-> {"bool"}, DATE |-> {"date"}]

Coerces(c, v) ==
  c.type \in DOMAIN CoercedFrom =>
    v.t \in CoercedFrom[c.type] /\ (v.t = "date" => v.v \notin FarDates)

PanderaTakesNoNull(c, v) == v # None /\ (Nested(c) \/ (Coerces(c, v) /\ InLength(c, v)))

PanderaTakes(c, v) ==
  IF v = None THEN Nullable(c) ELSE Nested(c) \/ (Coerces(c, v) /\ InLength(c, v))

PanderaValidate ==
  /\ stage = "yielded"
  /\ stage' = IF PanderaTakes(col, value) THEN "valid" ELSE "invalid"
  /\ UNCHANGED <<inputs, profile, sampled, value>>

Next == ProfileColumn \/ SetupRaises \/ Sample \/ AssembleRow \/ ModelValidate \/ PanderaValidate

Spec == Init /\ [][Next]_vars

-----------------------------------------------------------------------------
Values == [t : {"none", "num", "bool", "date", "text", "json", "repr", "dict", "list"},
           v : Int \cup Names]

\* Every variable has its type; a cell is sampled only under a profile, and
\* the cell of an INT64 column is integral.
TypeOK ==
  /\ engine \in {"b1_rag", "b2_empirical", "b2_sdgx"}
  /\ col \in Fields
  /\ refs \in SUBSET Values
  /\ prose \in BOOLEAN
  /\ stage \in {"new", "raised", "ready", "sampled", "assembled",
                "yielded", "dropped", "valid", "invalid"}
  /\ sampled \in Values /\ value \in Values
  /\ stage \notin {"new", "raised"} =>
       profile \in [kind : {"constant", "numeric", "categorical", "free_text"}, nulls : BOOLEAN,
                    constant : Values, lo : Int, hi : Int, pool : SUBSET Values, first : Values]
  /\ col.type = "INT64" /\ value.t = "num" => value.v % Quantum = 0

InRow == stage \in {"assembled", "yielded", "dropped", "valid", "invalid"}

\* The cells that a row can be given under the profile.
Cells == IF engine = "b1_rag" THEN Draws ELSE {EnforceValue(v) : v \in Draws}

\* fidelity.py clips "to ``[min, max]``", so that a number "never escapes the
\* support" (backends.py), and B.1 draws between the two; both round
\* afterwards.  So some cell lies outside the observed range exactly if an
\* end of the range is rounded away from it.  That happens to a NUMERIC
\* without a declared scale only, and takes it out by half a unit at most.
OnlyRoundingLeavesRange ==
  InRow /\ profile.kind = "numeric" =>
    LET lo == Least(NonNull(refs))
        hi == Greatest(NonNull(refs))
        Rounding(x) == IF engine = "b1_rag" THEN CoerceNumeric(x) ELSE Pin(x)
    IN  /\ (\E v \in Cells : v.t = "num" /\ v.v \notin lo..hi)
             <=> (Rounding(lo) < lo \/ Rounding(hi) > hi)
        /\ value.t = "num" /\ value.v \notin lo..hi =>
             /\ col.type = "NUMERIC" /\ ~ col.limited
             /\ 2 * lo - Quantum <= 2 * value.v /\ 2 * value.v <= 2 * hi + Quantum

\* A value of a column that is neither numeric nor free text was observed,
\* as it is or rendered.
CategoriesAreObserved ==
  InRow /\ profile.kind \in {"constant", "categorical"} /\ value # None =>
    \E w \in NonNull(refs) : value \in {w, JsonRender(w), Repr(w)}

\* Rows survive their scalar columns: profiling, sampling, clamping and
\* rounding leave a cell that the record model admits, except a null in a
\* primary key and prose of the LLM that exceeds max_length, which nothing
\* cuts; and what it admits Pandera takes, nested cells too, except a date of
\* the reference rows that is too far for datetime64[ns].
ScalarsSurvive ==
  /\ stage = "dropped" /\ ~ Nested(col) =>
       \/ value = None /\ col.pk /\ Nullable(col)
       \/ profile.kind = "free_text" /\ col.limited /\ value \in Answers \ refs
  /\ stage = "invalid" => col.type = "DATE" /\ value \in refs /\ value.v \in FarDates

\* backends.py draws nulls "so the marginal null-rate is preserved".  In a
\* column that may be null a sampled null stays one, but under B.2 it is
\* overwritten in every row exactly if the reference rows have one other
\* value: the nulls beside it do not keep the column from being constant.  A
\* column that may not be null has none.
OnlyConstantsLoseNulls ==
  InRow /\ ~ Nested(col) =>
    /\ sampled = None /\ Nullable(col) =>
         (value # None <=> engine # "b1_rag" /\ Cardinality(NonNull(refs)) = 1)
    /\ ~ Nullable(col) => value # None

-----------------------------------------------------------------------------
(* A statement of the repository that the code does not keep.              *)

\* profile.py takes struct and array columns as "CATEGORICAL over their
\* JSON-rendered values", and fidelity.py coerces a JSON string "so it
\* validates against the JSON column's dict record-model type": a column of
\* nested values sets up, and a row with one of its values is not dropped.
NestedColumnsSurvive ==
  Nested(col) /\ ~ col.pk => stage \notin {"raised", "dropped"}
=============================================================================
