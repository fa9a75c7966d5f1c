---------------------------- MODULE JsonScan_proofs ----------------------------
(***************************************************************************)
(* The scan finds what its reference definition says, on every answer and  *)
(* whatever json.loads takes: the object returned is the leftmost one, and *)
(* exactly an unclosed brace hides one.  The reference is a recursive      *)
(* function over the answer: that it is well defined, and that the state   *)
(* of the inner loop says where in it the scan stands, is the work here.   *)
(***************************************************************************)
EXTENDS JsonScan, FiniteSetTheorems, WellFoundedInduction, TLAPS

\* Where the positions outside strings go on behind a string opened at q.
Rest(t, q) == IF StringEnds(t, q) = {} THEN {} ELSE Outside(t)[Least(StringEnds(t, q)) + 1]

\* Those before and from position p on, seen from the brace at a.
Seen(t, a, p, ch) == {n \in Outside(t)[a] : n < p /\ t[n] = ch}
Ahead(t, a, p) == {n \in Outside(t)[a] : n >= p}

\* Position p is inside the string that opened at q, escaped or not by the
\* backslashes that stand behind k.
InString(t, a, p, escaped, q) ==
  /\ t[q] = Quote
  /\ Ahead(t, a, p) = Rest(t, q)
  /\ \A e \in StringEnds(t, q) : e >= p
  /\ \E k \in q..p - 1 :
       /\ t[k] # Backslash
       /\ \A n \in k + 1..p - 1 : t[n] = Backslash
       /\ escaped <=> (p - 1 - k) % 2 = 1

\* What depth, in_str and escaped say when the scan from a is at p.
ScanOK(t, a, p, s) ==
  /\ s.depth = Cardinality(Seen(t, a, p, Open)) - Cardinality(Seen(t, a, p, Close))
  /\ s.in_str => \E q \in a..p - 1 : InString(t, a, p, s.escaped, q)
  /\ ~ s.in_str => ~ s.escaped /\ Ahead(t, a, p) = Outside(t)[p]

Scans == [depth : Int, in_str : BOOLEAN, escaped : BOOLEAN]

\* No close before j balances the brace at i.
NoneBefore == i \in Braces(text) /\ \A c \in Balances(text, i) : c >= j

\* The braces behind the outer loop were closed, around no object.
Passed == \A a \in Braces(text) : a < i => ~ Unclosed(text, a) /\ Object(text, a) = <<>>

ScanInv ==
  /\ text \in Texts
  /\ i \in 1..Len(text) + 1
  /\ scan \in Scans
  /\ pc \in {"outer", "inner", "parse", "done"}
  /\ Passed
  /\ pc # "done" => result = <<>>
  /\ pc = "inner" => NoneBefore /\ j \in i..Len(text) + 1 /\ ScanOK(text, i, j, scan)
  /\ pc = "parse" => NoneBefore /\ j \in Balances(text, i)
  /\ pc = "done" =>
       IF result = <<>> THEN i > Len(text) \/ (i \in Braces(text) /\ Unclosed(text, i))
                        ELSE i \in Braces(text) /\ result = Object(text, i)

-----------------------------------------------------------------------------
(* Least elements, and induction from the end of an answer.                *)

\* Non-empty sets of naturals have a least element, and only one.
LEMMA LeastExists ==
  ASSUME NEW T, T \subseteq Nat, T # {}
  PROVE  Least(T) \in T /\ \A y \in T : Least(T) <= y
<1> DEFINE R == OpToRel(<, Nat)
<1>1. IsWellFoundedOn(R, Nat)
  BY NatLessThanWellFounded
<1> HIDE DEF R
<1>2. PICK x \in T : \A y \in T : ~ (<<y, x>> \in R)
  BY <1>1, WFMin
<1>3. \A y \in T : y < x => <<y, x>> \in R
  BY DEF R, OpToRel
<1>4. ASSUME NEW y \in T PROVE x <= y
  <2>1. ~ (y < x)
    BY <1>2, <1>3
  <2>2. x \in Nat /\ y \in Nat
    OBVIOUS
  <2> QED
    BY <2>1, <2>2
<1>5. \E n \in T : \A m \in T : n <= m
  BY <1>4
<1> QED
  BY <1>5, Zenon DEF Least

LEMMA LeastIs ==
  ASSUME NEW T, T \subseteq Nat, NEW x \in T, \A y \in T : x <= y
  PROVE  Least(T) = x
<1>1. Least(T) \in T /\ \A y \in T : Least(T) <= y
  BY LeastExists
<1>2. Least(T) \in Nat /\ x \in Nat
  BY <1>1
<1>3. Least(T) <= x /\ x <= Least(T)
  BY <1>1
<1> QED
  BY <1>2, <1>3

\* What holds at the end, and at a position when at the next, holds at all.
LEMMA FromTheEnd ==
  ASSUME NEW S, NEW top \in Nat \ {0}, top \in S, \A m \in 1..top - 1 : m + 1 \in S => m \in S
  PROVE  \A m \in 1..top : m \in S
<1> DEFINE T == {top - m : m \in {n \in 1..top : n \notin S}}
<1>1. SUFFICES ASSUME T # {} PROVE FALSE
  OBVIOUS
<1>2. T \subseteq Nat
  OBVIOUS
<1>3. Least(T) \in T /\ \A y \in T : Least(T) <= y
  BY <1>1, <1>2, LeastExists
<1>4. PICK m \in 1..top : m \notin S /\ Least(T) = top - m
  BY <1>3
<1>5. m + 1 \in 1..top /\ m + 1 \notin S
  BY <1>4
<1>6. top - (m + 1) \in T
  BY <1>5
<1>7. top - m <= top - (m + 1)
  <2> HIDE DEF T
  <2> QED
    BY <1>3, <1>4, <1>6
<1> QED
  BY <1>7

-----------------------------------------------------------------------------
(* The reference definition.                                               *)

LEMMA EndsBehind ==
  ASSUME NEW t \in Seq(STRING), NEW q \in 1..Len(t)
  PROVE  /\ StringEnds(t, q) \subseteq q + 1..Len(t)
         /\ StringEnds(t, q) # {} =>
              Least(StringEnds(t, q)) \in StringEnds(t, q) /\ Least(StringEnds(t, q)) \in q + 1..Len(t)
<1>1. StringEnds(t, q) \subseteq q + 1..Len(t)
  BY DEF StringEnds
<1>2. StringEnds(t, q) \subseteq Nat
  BY <1>1
<1> QED
  BY <1>1, <1>2, LeastExists

\* The recursion of Outside, one level.
Level(t, f, n) ==
  IF n > Len(t) THEN {}
  ELSE IF t[n] # Quote THEN {n} \cup f[n + 1]
  ELSE IF StringEnds(t, n) = {} THEN {} ELSE f[Least(StringEnds(t, n)) + 1]

\* A level looks at later positions only.
LEMMA LevelLooksAhead ==
  ASSUME NEW t \in Seq(STRING), NEW n \in 1..Len(t) + 1, NEW f, NEW g,
         \A m \in n + 1..Len(t) + 1 : f[m] = g[m]
  PROVE  Level(t, f, n) = Level(t, g, n)
<1>1. CASE n > Len(t)
  BY <1>1 DEF Level
<1>2. CASE n \in 1..Len(t)
  <2>1. f[n + 1] = g[n + 1]
    BY <1>2
  <2>2. StringEnds(t, n) # {} => f[Least(StringEnds(t, n)) + 1] = g[Least(StringEnds(t, n)) + 1]
    BY <1>2, EndsBehind
  <2> QED
    BY <2>1, <2>2 DEF Level
<1> QED
  BY <1>1, <1>2

\* Outside is well defined: the recursion has a solution.
LEMMA OutsideLevel ==
  ASSUME NEW t \in Seq(STRING), NEW n \in 1..Len(t) + 1
  PROVE  Outside(t)[n] = Level(t, Outside(t), n)
<1> DEFINE top == Len(t) + 1
           Solves(f, m) == \A k \in m..top : f[k] = Level(t, f, k)
           S == {m \in 1..top : \E f : Solves(f, m)}
<1>1. top \in Nat \ {0}
  OBVIOUS
<1>2. top \in S
  <2> DEFINE f == [k \in 1..top |-> {}]
  <2>1. Solves(f, top)
    BY DEF Level
  <2> HIDE DEF f
  <2> QED
    BY <1>1, <2>1
<1>3. ASSUME NEW m \in 1..top - 1, m + 1 \in S
      PROVE  m \in S
  <2>1. PICK f : Solves(f, m + 1)
    BY <1>3
  <2> DEFINE g == [k \in 1..top |-> IF k = m THEN Level(t, f, m) ELSE f[k]]
  <2>2. g[m] = Level(t, f, m) /\ \A k \in m + 1..top : g[k] = f[k]
    OBVIOUS
  <2> HIDE DEF g
  <2>3. ASSUME NEW k \in m..top PROVE Level(t, g, k) = Level(t, f, k)
    <3>1. \A l \in k + 1..Len(t) + 1 : g[l] = f[l]
      BY <2>2
    <3> QED
      BY <3>1, LevelLooksAhead
  <2>4. Solves(g, m)
    BY <2>1, <2>2, <2>3
  <2> QED
    BY <2>4
<1>4. PICK f : Solves(f, 1)
  <2> HIDE DEF S
  <2>1. \A m \in 1..top : m \in S
    BY <1>1, <1>2, <1>3, FromTheEnd
  <2> QED
    BY <1>1, <2>1 DEF S
<1> DEFINE h == [k \in 1..top |-> f[k]]
<1>5. h = [k \in 1..top |-> Level(t, h, k)]
  <2>1. ASSUME NEW k \in 1..top PROVE Level(t, h, k) = Level(t, f, k)
    BY LevelLooksAhead
  <2> QED
    BY <1>4, <2>1
<1> HIDE DEF h
<1>6. Outside(t) = CHOOSE from : from = [k \in 1..Len(t) + 1 |-> Level(t, from, k)]
  BY DEF Outside, Level
<1>7. Outside(t) = [k \in 1..Len(t) + 1 |-> Level(t, Outside(t), k)]
  BY <1>5, <1>6
<1> QED
  BY <1>7

\* The positions outside strings, unfolded.
LEMMA OutsideStep ==
  ASSUME NEW t \in Seq(STRING)
  PROVE  /\ Outside(t)[Len(t) + 1] = {}
         /\ \A n \in 1..Len(t) :
              /\ t[n] # Quote => Outside(t)[n] = {n} \cup Outside(t)[n + 1]
              /\ t[n] = Quote => Outside(t)[n] = Rest(t, n)
<1>1. Outside(t)[Len(t) + 1] = {}
  <2>1. Len(t) + 1 \in 1..Len(t) + 1 /\ Len(t) + 1 > Len(t)
    OBVIOUS
  <2>2. Outside(t)[Len(t) + 1] = Level(t, Outside(t), Len(t) + 1)
    BY <2>1, OutsideLevel
  <2> QED
    BY <2>1, <2>2 DEF Level
<1>2. ASSUME NEW n \in 1..Len(t)
      PROVE  /\ t[n] # Quote => Outside(t)[n] = {n} \cup Outside(t)[n + 1]
             /\ t[n] = Quote => Outside(t)[n] = Rest(t, n)
  <2>1. Outside(t)[n] = Level(t, Outside(t), n) /\ ~ (n > Len(t))
    BY OutsideLevel
  <2> QED
    BY <2>1 DEF Level, Rest
<1> QED
  BY <1>1, <1>2

\* They lie ahead.
LEMMA OutsideAhead ==
  ASSUME NEW t \in Seq(STRING), NEW n \in 1..Len(t) + 1
  PROVE  Outside(t)[n] \subseteq n..Len(t)
<1> DEFINE top == Len(t) + 1
           S == {m \in 1..top : \A k \in m..top : Outside(t)[k] \subseteq k..Len(t)}
<1>1. top \in Nat \ {0}
  OBVIOUS
<1>2. top \in S
  BY OutsideStep
<1>3. ASSUME NEW m \in 1..top - 1, m + 1 \in S
      PROVE  m \in S
  <2>1. \A k \in m + 1..top : Outside(t)[k] \subseteq k..Len(t)
    BY <1>3
  <2>2. CASE t[m] # Quote
    <3>1. Outside(t)[m] = {m} \cup Outside(t)[m + 1]
      BY <2>2, OutsideStep
    <3>2. Outside(t)[m + 1] \subseteq m + 1..Len(t)
      BY <2>1
    <3>3. Outside(t)[m] \subseteq m..Len(t)
      BY <3>1, <3>2
    <3> QED
      BY <2>1, <3>3
  <2>3. CASE t[m] = Quote
    <3>1. Outside(t)[m] = Rest(t, m)
      BY <2>3, OutsideStep
    <3>2. CASE StringEnds(t, m) = {}
      BY <2>1, <3>1, <3>2 DEF Rest
    <3>3. CASE StringEnds(t, m) # {}
      <4>1. Least(StringEnds(t, m)) \in m + 1..Len(t)
        BY <3>3, EndsBehind
      <4>2. Outside(t)[m] \subseteq Least(StringEnds(t, m)) + 1..Len(t)
        BY <2>1, <3>1, <3>3, <4>1 DEF Rest
      <4>3. Outside(t)[m] \subseteq m..Len(t)
        BY <4>1, <4>2
      <4> QED
        BY <2>1, <4>3
    <3> QED
      BY <3>2, <3>3
  <2> QED
    BY <2>2, <2>3
<1> HIDE DEF S
<1>4. \A m \in 1..top : m \in S
  BY <1>1, <1>2, <1>3, FromTheEnd
<1>5. n \in S
  BY <1>4
<1> QED
  BY <1>5 DEF S

\* Behind a string is behind every end it may have had.
LEMMA RestBehind ==
  ASSUME NEW t \in Seq(STRING), NEW q \in 1..Len(t)
  PROVE  \A n \in Rest(t, q) :
           /\ n \in q + 1..Len(t)
           /\ StringEnds(t, q) # {} /\ n > Least(StringEnds(t, q))
<1> SUFFICES ASSUME NEW n \in Rest(t, q)
             PROVE  /\ n \in q + 1..Len(t)
                    /\ StringEnds(t, q) # {} /\ n > Least(StringEnds(t, q))
  OBVIOUS
<1> DEFINE e == Least(StringEnds(t, q))
<1>1. StringEnds(t, q) # {} /\ n \in Outside(t)[e + 1]
  BY DEF Rest
<1>2. e \in q + 1..Len(t)
  BY <1>1, EndsBehind
<1>3. n \in e + 1..Len(t)
  <2>1. e + 1 \in 1..Len(t) + 1
    BY <1>2
  <2> QED
    BY <1>1, <2>1, OutsideAhead
<1> QED
  BY <1>1, <1>2, <1>3

\* A quote behind q ends the string of q if the backslashes before it, which
\* stand behind k, are even in number.
LEMMA EndsByParity ==
  ASSUME NEW t \in Seq(STRING), NEW q \in 1..Len(t), NEW p \in q + 1..Len(t), NEW k \in q..p - 1,
         t[k] # Backslash, \A n \in k + 1..p - 1 : t[n] = Backslash
  PROVE  p \in StringEnds(t, q) <=> t[p] = Quote /\ (p - 1 - k) % 2 = 0
<1> DEFINE others == {n \in q..p - 1 : t[n] # Backslash}
           last == CHOOSE n \in others : \A m \in others : m <= n
<1>1. k \in others
  OBVIOUS
<1>2. ASSUME NEW m \in others PROVE m \in Int /\ m <= k
  <2>1. m \in q..p - 1 /\ t[m] # Backslash
    OBVIOUS
  <2>2. m \notin k + 1..p - 1
    BY <2>1
  <2> QED
    BY <2>1, <2>2
<1> HIDE DEF others
<1>3. last \in others /\ \A m \in others : m <= last
  <2>1. \E n \in others : \A m \in others : m <= n
    BY <1>1, <1>2
  <2> QED
    BY <2>1, Zenon
<1>4. last = k
  <2>1. last \in Int /\ k \in Int /\ last <= k /\ k <= last
    BY <1>1, <1>2, <1>3
  <2> QED
    BY <2>1
<1>5. p \in StringEnds(t, q) <=> t[p] = Quote /\ (p - 1 - last) % 2 = 0
  BY DEF StringEnds, others
<1> QED
  BY <1>4, <1>5

-----------------------------------------------------------------------------
(* One turn of the inner loop.                                             *)

LEMMA Parity ==
  /\ 0 % 2 = 0
  /\ \A m \in Int : (m % 2 = 0 <=> ~ (m % 2 = 1)) /\ ((m + 1) % 2 = 1 <=> m % 2 = 0)
  OBVIOUS

LEMMA Characters ==
  /\ Open # Close /\ Open # Quote /\ Close # Quote /\ Quote # Backslash
  BY DEF Open, Close, Quote, Backslash

\* Reading position p adds it to those seen if it is in no string.
LEMMA SeenGrows ==
  ASSUME NEW t \in Seq(STRING), NEW a \in 1..Len(t), NEW p \in a..Len(t), NEW ch
  PROVE  /\ Cardinality(Seen(t, a, p, ch)) \in Nat
         /\ Cardinality(Seen(t, a, p + 1, ch)) =
              Cardinality(Seen(t, a, p, ch)) + IF p \in Outside(t)[a] /\ t[p] = ch THEN 1 ELSE 0
<1>1. Outside(t)[a] \subseteq a..Len(t)
  BY OutsideAhead
<1>2. IsFiniteSet(Seen(t, a, p, ch))
  <2>1. Seen(t, a, p, ch) \subseteq a..Len(t)
    BY <1>1 DEF Seen
  <2>2. IsFiniteSet(a..Len(t))
    BY FS_Interval
  <2> QED
    BY <2>1, <2>2, FS_Subset
<1>3. \A n \in Outside(t)[a] : n < p + 1 <=> n < p \/ n = p
  BY <1>1
<1>4. CASE p \in Outside(t)[a] /\ t[p] = ch
  <2>1. Seen(t, a, p + 1, ch) = Seen(t, a, p, ch) \cup {p}
    BY <1>3, <1>4 DEF Seen
  <2>2. p \notin Seen(t, a, p, ch)
    BY DEF Seen
  <2> QED
    BY <1>2, <1>4, <2>1, <2>2, FS_AddElement, FS_CardinalityType
<1>5. CASE ~ (p \in Outside(t)[a] /\ t[p] = ch)
  <2>1. Seen(t, a, p + 1, ch) = Seen(t, a, p, ch)
    BY <1>3, <1>5 DEF Seen
  <2> QED
    BY <1>2, <1>5, <2>1, FS_CardinalityType
<1> QED
  BY <1>4, <1>5

\* A close balances when as many braces were opened as closed.
LEMMA BalanceSeen ==
  ASSUME NEW t \in Seq(STRING), NEW a \in 1..Len(t), NEW p \in a..Len(t)
  PROVE  p \in Balances(t, a) <=>
           /\ p \in Outside(t)[a] /\ t[p] = Close
           /\ Cardinality(Seen(t, a, p + 1, Open)) = Cardinality(Seen(t, a, p + 1, Close))
<1>1. Outside(t)[a] \subseteq a..Len(t)
  BY OutsideAhead
<1>2. \A n \in Outside(t)[a] : n <= p <=> n < p + 1
  BY <1>1
<1>3. \A ch : {n \in Outside(t)[a] : n <= p /\ t[n] = ch} = Seen(t, a, p + 1, ch)
  BY <1>2 DEF Seen
<1> QED
  BY <1>3 DEF Balances

\* In no string: the scan goes on, or a string opens at p.
LEMMA ReadOutside ==
  ASSUME NEW t \in Seq(STRING), NEW a \in 1..Len(t), NEW p \in a..Len(t),
         Ahead(t, a, p) = Outside(t)[p]
  PROVE  /\ p \in Outside(t)[a] <=> t[p] # Quote
         /\ t[p] # Quote => Ahead(t, a, p + 1) = Outside(t)[p + 1]
         /\ t[p] = Quote => InString(t, a, p + 1, FALSE, p)
<1>1. Outside(t)[a] \subseteq a..Len(t) /\ Outside(t)[p + 1] \subseteq p + 1..Len(t)
  BY OutsideAhead
<1>2. p \in Outside(t)[a] <=> p \in Ahead(t, a, p)
  BY DEF Ahead
<1>3. Ahead(t, a, p + 1) = Ahead(t, a, p) \ {p}
  BY <1>1 DEF Ahead
<1>4. CASE t[p] # Quote
  <2>1. Outside(t)[p] = {p} \cup Outside(t)[p + 1]
    BY <1>4, OutsideStep
  <2>2. p \notin Outside(t)[p + 1]
    BY <1>1
  <2> QED
    BY <1>2, <1>3, <1>4, <2>1, <2>2
<1>5. CASE t[p] = Quote
  <2>1. Outside(t)[p] = Rest(t, p)
    BY <1>5, OutsideStep
  <2>2. p \notin Rest(t, p)
    BY RestBehind
  <2>3. \A e \in StringEnds(t, p) : e >= p + 1
    BY EndsBehind
  <2>4. Ahead(t, a, p + 1) = Rest(t, p)
    BY <1>3, <2>1, <2>2
  <2>5. t[p] # Backslash /\ (p + 1 - 1 - p) % 2 = 0
    <3>1. p + 1 - 1 - p = 0
      OBVIOUS
    <3> QED
      BY <1>5, <3>1, Characters, Parity
  <2>6. p \in p..p + 1 - 1 /\ \A n \in p + 1..p + 1 - 1 : t[n] = Backslash
    OBVIOUS
  <2>7. InString(t, a, p + 1, FALSE, p)
    BY <1>5, <2>3, <2>4, <2>5, <2>6 DEF InString
  <2> QED
    BY <1>2, <1>5, <2>1, <2>2, <2>7
<1> QED
  BY <1>4, <1>5

\* In a string: it ends at p, or goes on with the escape that p leaves.
LEMMA ReadInside ==
  ASSUME NEW t \in Seq(STRING), NEW a \in 1..Len(t), NEW p \in a..Len(t), NEW q \in a..p - 1,
         NEW escaped \in BOOLEAN, InString(t, a, p, escaped, q)
  PROVE  /\ p \notin Outside(t)[a]
         /\ t[p] = Quote /\ ~ escaped => Ahead(t, a, p + 1) = Outside(t)[p + 1]
         /\ ~ (t[p] = Quote /\ ~ escaped) =>
              InString(t, a, p + 1, ~ escaped /\ t[p] = Backslash, q)
<1>1. Outside(t)[a] \subseteq a..Len(t) /\ Outside(t)[p + 1] \subseteq p + 1..Len(t)
  BY OutsideAhead
<1>2. Ahead(t, a, p) = Rest(t, q) /\ t[q] = Quote /\ q \in 1..Len(t) /\ p \in q + 1..Len(t)
  BY DEF InString
<1>3. \A e \in StringEnds(t, q) : e \in Nat /\ e >= p
  BY <1>2, EndsBehind DEF InString
<1>4. p \notin Rest(t, q)
  <2> SUFFICES ASSUME p \in Rest(t, q) PROVE FALSE
    OBVIOUS
  <2>1. StringEnds(t, q) # {} /\ p > Least(StringEnds(t, q))
    BY <1>2, RestBehind
  <2>2. Least(StringEnds(t, q)) \in StringEnds(t, q)
    BY <1>2, <2>1, EndsBehind
  <2> QED
    BY <1>3, <2>1, <2>2
<1>5. p \notin Outside(t)[a]
  BY <1>2, <1>4 DEF Ahead
<1>6. Ahead(t, a, p + 1) = Rest(t, q)
  BY <1>1, <1>2, <1>5 DEF Ahead
<1>7. PICK k \in q..p - 1 :
        /\ t[k] # Backslash
        /\ \A n \in k + 1..p - 1 : t[n] = Backslash
        /\ escaped <=> (p - 1 - k) % 2 = 1
  BY DEF InString
<1>8. p \in StringEnds(t, q) <=> t[p] = Quote /\ ~ escaped
  <2>1. (p - 1 - k) % 2 = 0 <=> ~ escaped
    <3>1. p - 1 - k \in Int
      OBVIOUS
    <3> QED
      BY <1>7, <3>1, Parity
  <2>2. p \in StringEnds(t, q) <=> t[p] = Quote /\ (p - 1 - k) % 2 = 0
    BY <1>2, <1>7, EndsByParity
  <2> QED
    BY <2>1, <2>2
<1>9. CASE t[p] = Quote /\ ~ escaped
  <2>1. p \in StringEnds(t, q)
    BY <1>8, <1>9
  <2>2. StringEnds(t, q) \subseteq Nat
    BY <1>3
  <2>3. Least(StringEnds(t, q)) = p
    BY <1>3, <2>1, <2>2, LeastIs
  <2>4. Rest(t, q) = Outside(t)[p + 1]
    BY <2>1, <2>3 DEF Rest
  <2> QED
    BY <1>5, <1>6, <1>9, <2>4
<1>10. CASE ~ (t[p] = Quote /\ ~ escaped)
  <2>1. \A e \in StringEnds(t, q) : e >= p + 1
    BY <1>3, <1>8, <1>10
  <2>2. \E l \in q..p + 1 - 1 :
          /\ t[l] # Backslash
          /\ \A n \in l + 1..p + 1 - 1 : t[n] = Backslash
          /\ ~ escaped /\ t[p] = Backslash <=> (p + 1 - 1 - l) % 2 = 1
    <3>1. CASE t[p] = Backslash
      <4>1. k \in q..p + 1 - 1 /\ \A n \in k + 1..p + 1 - 1 : t[n] = Backslash
        <5>1. \A n \in k + 1..p + 1 - 1 : n \in k + 1..p - 1 \/ n = p
          OBVIOUS
        <5> QED
          BY <1>7, <3>1, <5>1
      <4>2. (p + 1 - 1 - k) % 2 = 1 <=> ~ escaped
        <5>1. p - 1 - k \in Int /\ p + 1 - 1 - k = (p - 1 - k) + 1
          OBVIOUS
        <5> QED
          BY <1>7, <5>1, Parity
      <4> QED
        BY <1>7, <3>1, <4>1, <4>2
    <3>2. CASE t[p] # Backslash
      <4>1. p \in q..p + 1 - 1 /\ (p + 1 - 1 - p) % 2 = 0
        BY <1>2, Parity
      <4>2. \A n \in p + 1..p + 1 - 1 : t[n] = Backslash
        OBVIOUS
      <4> QED
        BY <3>2, <4>1, <4>2
    <3> QED
      BY <3>1, <3>2
  <2>3. InString(t, a, p + 1, ~ escaped /\ t[p] = Backslash, q)
    BY <1>2, <1>6, <2>1, <2>2 DEF InString
  <2> QED
    BY <1>5, <1>10, <2>3
<1> QED
  BY <1>9, <1>10

\* A turn keeps depth, in_str and escaped right, and stops at a balance only.
LEMMA ScanStep ==
  ASSUME NEW t \in Seq(STRING), NEW a \in 1..Len(t), NEW p \in a..Len(t), NEW s \in Scans,
         ScanOK(t, a, p, s)
  PROVE  LET r == AfterCh(s, t[p])
         IN  /\ r \in Scans
             /\ ScanOK(t, a, p + 1, r)
             /\ p \in Balances(t, a) <=> t[p] = Close /\ ~ s.in_str /\ r.depth = 0
<1> DEFINE r == AfterCh(s, t[p])
           opens(n) == Cardinality(Seen(t, a, n, Open))
           closes(n) == Cardinality(Seen(t, a, n, Close))
<1>1. /\ r.depth = s.depth + (IF s.in_str THEN 0 ELSE IF t[p] = Open THEN 1
                              ELSE IF t[p] = Close THEN -1 ELSE 0)
      /\ r.in_str = IF t[p] = Quote /\ ~ s.escaped THEN ~ s.in_str ELSE s.in_str
      /\ r.escaped = (s.in_str /\ ~ s.escaped /\ t[p] = Backslash)
      /\ r \in Scans
  <2>1. r.in_str = IF t[p] = Quote /\ ~ s.escaped THEN ~ s.in_str ELSE s.in_str
    BY DEF AfterCh
  <2>2. r.escaped = (s.in_str /\ ~ s.escaped /\ t[p] = Backslash)
    BY DEF AfterCh
  <2>3. r.depth = s.depth + (IF s.in_str THEN 0 ELSE IF t[p] = Open THEN 1
                             ELSE IF t[p] = Close THEN -1 ELSE 0)
    BY DEF AfterCh
  <2>4. r \in Scans
    <3>1. r.depth \in Int
      BY <2>3 DEF Scans
    <3>2. r.in_str \in BOOLEAN /\ r.escaped \in BOOLEAN
      BY <2>1, <2>2 DEF Scans
    <3> QED
      BY <3>1, <3>2 DEF AfterCh, Scans
  <2> QED
    BY <2>1, <2>2, <2>3, <2>4
<1>2. /\ s.depth \in Int /\ s.in_str \in BOOLEAN /\ s.escaped \in BOOLEAN
  BY DEF Scans
<1>3. Open # Close /\ Open # Quote /\ Close # Quote
  BY Characters
<1> HIDE DEF r
<1>4. /\ s.in_str => p \notin Outside(t)[a]
      /\ ~ s.in_str => (p \in Outside(t)[a] <=> t[p] # Quote)
  <2>1. CASE s.in_str
    <3>1. PICK q \in a..p - 1 : InString(t, a, p, s.escaped, q)
      BY <2>1 DEF ScanOK
    <3> QED
      BY <1>2, <2>1, <3>1, ReadInside
  <2>2. CASE ~ s.in_str
    BY <2>2, ReadOutside DEF ScanOK
  <2> QED
    BY <2>1, <2>2
<1>5. r.depth = opens(p + 1) - closes(p + 1)
  <2>1. /\ opens(p) \in Nat /\ closes(p) \in Nat
        /\ opens(p + 1) = opens(p) + IF p \in Outside(t)[a] /\ t[p] = Open THEN 1 ELSE 0
        /\ closes(p + 1) = closes(p) + IF p \in Outside(t)[a] /\ t[p] = Close THEN 1 ELSE 0
    BY SeenGrows
  <2>2. s.depth = opens(p) - closes(p)
    BY DEF ScanOK
  <2> HIDE DEF opens, closes
  <2> QED
    BY <1>1, <1>3, <1>4, <2>1, <2>2
<1>6. r.in_str => \E q \in a..p : InString(t, a, p + 1, r.escaped, q)
  <2>1. CASE s.in_str
    <3>1. PICK q \in a..p - 1 : InString(t, a, p, s.escaped, q)
      BY <2>1 DEF ScanOK
    <3>2. ~ (t[p] = Quote /\ ~ s.escaped) =>
            InString(t, a, p + 1, ~ s.escaped /\ t[p] = Backslash, q)
      BY <1>2, <3>1, ReadInside
    <3>3. r.escaped = (~ s.escaped /\ t[p] = Backslash)
      BY <1>1, <2>1
    <3>4. r.in_str => ~ (t[p] = Quote /\ ~ s.escaped)
      BY <1>1, <2>1
    <3>5. q \in a..p
      OBVIOUS
    <3> QED
      BY <3>2, <3>3, <3>4, <3>5
  <2>2. CASE ~ s.in_str
    <3>1. t[p] = Quote => InString(t, a, p + 1, FALSE, p)
      BY <2>2, ReadOutside DEF ScanOK
    <3>2. r.escaped = FALSE
      BY <1>1, <2>2
    <3>3. r.in_str => t[p] = Quote
      BY <1>1, <2>2
    <3>4. p \in a..p
      OBVIOUS
    <3> QED
      BY <3>1, <3>2, <3>3, <3>4
  <2> QED
    BY <2>1, <2>2
<1>7. ~ r.in_str => ~ r.escaped /\ Ahead(t, a, p + 1) = Outside(t)[p + 1]
  <2>1. CASE s.in_str
    <3>1. PICK q \in a..p - 1 : InString(t, a, p, s.escaped, q)
      BY <2>1 DEF ScanOK
    <3> QED
      BY <1>1, <1>2, <2>1, <3>1, Characters, ReadInside
  <2>2. CASE ~ s.in_str
    BY <1>1, <2>2, ReadOutside DEF ScanOK
  <2> QED
    BY <2>1, <2>2
<1>8. p \in Balances(t, a) <=> t[p] = Close /\ ~ s.in_str /\ r.depth = 0
  <2>1. opens(p + 1) \in Nat /\ closes(p + 1) \in Nat
    <3>1. /\ opens(p) \in Nat /\ closes(p) \in Nat
          /\ opens(p + 1) = opens(p) + IF p \in Outside(t)[a] /\ t[p] = Open THEN 1 ELSE 0
          /\ closes(p + 1) = closes(p) + IF p \in Outside(t)[a] /\ t[p] = Close THEN 1 ELSE 0
      BY SeenGrows
    <3> HIDE DEF opens, closes
    <3> QED
      BY <3>1
  <2>2. p \in Balances(t, a) <=>
          p \in Outside(t)[a] /\ t[p] = Close /\ opens(p + 1) = closes(p + 1)
    BY BalanceSeen
  <2> HIDE DEF opens, closes
  <2>3. opens(p + 1) = closes(p + 1) <=> r.depth = 0
    BY <1>5, <2>1
  <2> QED
    BY <1>3, <1>4, <2>2, <2>3
<1> QED
  BY <1>1, <1>5, <1>6, <1>7, <1>8 DEF ScanOK, r

-----------------------------------------------------------------------------
(* The search.                                                             *)

LEMMA TextFacts ==
  ASSUME ScanInv
  PROVE  /\ text \in Seq(STRING) /\ Len(text) \in Nat
         /\ \A a \in Braces(text) : a \in 1..Len(text)
         /\ \A a \in Braces(text) : Balances(text, a) \subseteq a..Len(text)
<1>1. text \in Seq(STRING)
  BY TextsAssumption DEF ScanInv
<1>2. \A a \in Braces(text) : a \in 1..Len(text)
  BY DEF Braces
<1>3. ASSUME NEW a \in Braces(text) PROVE Balances(text, a) \subseteq a..Len(text)
  BY <1>1, <1>2, OutsideAhead DEF Balances
<1> QED
  BY <1>1, <1>2, <1>3

\* The object of a brace is what its first balanced span loads as.
LEMMA ObjectIs ==
  ASSUME ScanInv, NoneBefore, NEW p \in Balances(text, i), \A c \in Balances(text, i) : c >= p
  PROVE  ~ Unclosed(text, i) /\ Object(text, i) = LoadsLenient(SubSeq(text, i, p))
<1>1. Balances(text, i) \subseteq Nat
  BY TextFacts DEF NoneBefore
<1>2. Least(Balances(text, i)) = p
  BY <1>1, LeastIs
<1> QED
  BY <1>2 DEF Unclosed, Object

LEMMA InitScan == Init => ScanInv
<1> SUFFICES ASSUME Init PROVE ScanInv
  OBVIOUS
<1>1. text \in Seq(STRING) /\ Len(text) \in Nat
  BY TextsAssumption DEF Init
<1>2. 1 \in 1..Len(text) + 1
  BY <1>1
<1>3. Passed
  BY <1>1 DEF Passed, Braces, Init
<1>4. Fresh \in Scans
  BY DEF Fresh, Scans
<1> QED
  BY <1>2, <1>3, <1>4 DEF Init, ScanInv

LEMMA SkipChKeeps ==
  ASSUME ScanInv, SkipCh
  PROVE  ScanInv'
<1>1. i + 1 \in 1..Len(text) + 1
  BY TextFacts DEF SkipCh, ScanInv
<1>2. Passed'
  <2>1. i \notin Braces(text) /\ \A a \in Braces(text) : a < i + 1 => a < i \/ a = i
    BY TextFacts DEF Braces, SkipCh, ScanInv
  <2> QED
    BY <2>1 DEF Passed, SkipCh, ScanInv
<1> QED
  BY <1>1, <1>2 DEF SkipCh, ScanInv

LEMMA FindBalancedCloseKeeps ==
  ASSUME ScanInv, FindBalancedClose
  PROVE  ScanInv'
<1>1. i \in Braces(text) /\ i \in 1..Len(text)
  BY TextFacts DEF FindBalancedClose, Braces, ScanInv
<1>2. Outside(text)[i] \subseteq i..Len(text)
  BY <1>1, TextFacts, OutsideAhead
<1>3. ScanOK(text, i, i, Fresh)
  <2>1. \A ch : Seen(text, i, i, ch) = {}
    BY <1>1, <1>2 DEF Seen
  <2>2. Ahead(text, i, i) = Outside(text)[i]
    BY <1>1, <1>2 DEF Ahead
  <2>3. Cardinality({}) = 0
    BY FS_EmptySet
  <2> QED
    BY <2>1, <2>2, <2>3 DEF ScanOK, Fresh
<1>4. NoneBefore'
  BY <1>1, TextFacts DEF NoneBefore, FindBalancedClose
<1>5. Fresh \in Scans /\ i \in i..Len(text) + 1
  BY <1>1 DEF Fresh, Scans
<1>6. Passed'
  BY DEF Passed, FindBalancedClose, ScanInv
<1> QED
  BY <1>3, <1>4, <1>5, <1>6 DEF FindBalancedClose, ScanInv

LEMMA ScanChKeeps ==
  ASSUME ScanInv, ScanCh
  PROVE  ScanInv'
<1> DEFINE r == AfterCh(scan, text[j])
<1>1. /\ i \in 1..Len(text) /\ j \in i..Len(text) /\ scan \in Scans /\ ScanOK(text, i, j, scan)
      /\ NoneBefore /\ text \in Seq(STRING) /\ result = <<>> /\ text \in Texts
  BY TextFacts DEF ScanCh, ScanInv, NoneBefore
<1>2. /\ r \in Scans
      /\ ScanOK(text, i, j + 1, r)
      /\ j \in Balances(text, i) <=> text[j] = Close /\ ~ scan.in_str /\ r.depth = 0
  BY <1>1, ScanStep
<1>3. scan' = r /\ UNCHANGED <<text, i, result>>
  BY DEF ScanCh
<1> HIDE DEF r
<1>4. Passed'
  BY <1>3 DEF Passed, ScanInv
<1>5. CASE j \in Balances(text, i)
  <2>1. pc' = "parse" /\ j' = j
    BY <1>2, <1>3, <1>5 DEF ScanCh
  <2>2. NoneBefore' /\ j' \in Balances(text', i')
    BY <1>1, <1>3, <1>5, <2>1 DEF NoneBefore
  <2> QED
    BY <1>1, <1>2, <1>3, <1>4, <2>1, <2>2 DEF ScanInv
<1>6. CASE j \notin Balances(text, i)
  <2>1. pc' = "inner" /\ j' = j + 1
    BY <1>2, <1>3, <1>6 DEF ScanCh
  <2>2. \A c \in Balances(text, i) : c >= j + 1
    BY <1>1, <1>6, TextFacts DEF NoneBefore
  <2>3. NoneBefore' /\ j + 1 \in i..Len(text) + 1
    BY <1>1, <1>3, <2>1, <2>2 DEF NoneBefore
  <2> QED
    BY <1>1, <1>2, <1>3, <1>4, <2>1, <2>3 DEF ScanInv
<1> QED
  BY <1>5, <1>6

LEMMA ParseSpanKeeps ==
  ASSUME ScanInv, ParseSpan
  PROVE  ScanInv'
<1>1. /\ i \in 1..Len(text) /\ i \in Braces(text) /\ NoneBefore /\ text \in Texts /\ Passed
  BY TextFacts DEF ParseSpan, ScanInv, NoneBefore
<1>2. ~ Unclosed(text, i) /\ Object(text, i) = LoadsLenient(SubSeq(text, i, j))
  BY <1>1, ObjectIs DEF ParseSpan, ScanInv, NoneBefore
<1>3. result' = Object(text, i) /\ UNCHANGED <<text, scan>>
  BY <1>2 DEF ParseSpan
<1>4. CASE result' # <<>>
  <2>1. pc' = "done" /\ i' = i
    BY <1>4 DEF ParseSpan
  <2>2. Passed'
    BY <1>1, <1>3, <2>1 DEF Passed
  <2> QED
    BY <1>1, <1>3, <1>4, <2>1, <2>2 DEF ScanInv
<1>5. CASE result' = <<>>
  <2>1. pc' = "outer" /\ i' = i + 1
    BY <1>5 DEF ParseSpan
  <2>2. Passed'
    <3>1. \A a \in Braces(text) : a < i + 1 => a < i \/ a = i
      BY <1>1, TextFacts
    <3> QED
      BY <1>1, <1>2, <1>3, <1>5, <2>1, <3>1 DEF Passed
  <2>3. i + 1 \in 1..Len(text) + 1
    BY <1>1
  <2> QED
    BY <1>1, <1>3, <1>5, <2>1, <2>2, <2>3 DEF ScanInv
<1> QED
  BY <1>4, <1>5

LEMMA GiveUpKeeps ==
  ASSUME ScanInv, GiveUp
  PROVE  ScanInv'
<1>1. pc' = "done" /\ UNCHANGED <<text, i, j, scan, result>>
  BY DEF GiveUp
<1>2. result = <<>>
  BY DEF GiveUp, ScanInv
<1>3. i > Len(text) \/ (i \in Braces(text) /\ Unclosed(text, i))
  <2>1. CASE pc = "outer"
    BY <2>1 DEF GiveUp
  <2>2. CASE pc = "inner"
    <3>1. j > Len(text) /\ NoneBefore /\ j \in Int
      BY <2>2, TextFacts DEF GiveUp, ScanInv
    <3>2. Balances(text, i) \subseteq i..Len(text) /\ \A c \in Balances(text, i) : c >= j
      BY <3>1, TextFacts DEF NoneBefore
    <3>3. Balances(text, i) = {}
      BY <3>1, <3>2, TextFacts DEF ScanInv
    <3> QED
      BY <3>1, <3>3 DEF NoneBefore, Unclosed
  <2> QED
    BY <2>1, <2>2 DEF GiveUp
<1>4. Passed'
  BY <1>1 DEF Passed, ScanInv
<1> QED
  BY <1>1, <1>2, <1>3, <1>4 DEF ScanInv

\* In every state of every search the scan knows where it is.
LEMMA ScanInvariance == Spec => []ScanInv
<1>1. ScanInv /\ [Next]_vars => ScanInv'
  <2> SUFFICES ASSUME ScanInv, [Next]_vars PROVE ScanInv'
    OBVIOUS
  <2>1. CASE UNCHANGED vars
    BY <2>1 DEF vars, ScanInv, Passed, NoneBefore
  <2> QED
    BY <2>1, SkipChKeeps, FindBalancedCloseKeeps, ScanChKeeps, ParseSpanKeeps, GiveUpKeeps DEF Next
<1> QED
  BY <1>1, InitScan, PTL DEF Spec

\* _extract_first_json_object returns the object of the leftmost brace that
\* has one: strings, escapes and spans that do not load mislead no search.
THEOREM LeftmostObject == Spec => []FirstObjectWins
<1>1. ScanInv => FirstObjectWins
  BY DEF ScanInv, Passed, FirstObjectWins
<1> QED
  BY <1>1, ScanInvariance, PTL

\* It returns None exactly when a brace that is never closed stands before
\* every object of the answer.
THEOREM NoneExactly == Spec => []UnclosedBraceHides
<1>1. ScanInv => UnclosedBraceHides
  <2> SUFFICES ASSUME ScanInv, pc = "done"
               PROVE  result = <<>> <=>
                        \A a \in Braces(text) :
                          Object(text, a) # <<>> =>
                            \E b \in Braces(text) : b < a /\ Unclosed(text, b)
    BY DEF UnclosedBraceHides
  <2>1. ASSUME result = <<>>, NEW a \in Braces(text), Object(text, a) # <<>>
        PROVE  \E b \in Braces(text) : b < a /\ Unclosed(text, b)
    <3>1. ~ (a < i) /\ a \in 1..Len(text) /\ i \in Int
      BY <2>1, TextFacts DEF ScanInv, Passed
    <3>2. i \in Braces(text) /\ Unclosed(text, i)
      BY <2>1, <3>1, TextFacts DEF ScanInv
    <3>3. a # i
      BY <2>1, <3>2 DEF Object
    <3> QED
      BY <3>1, <3>2, <3>3
  <2>2. ASSUME result # <<>>
        PROVE  \E a \in Braces(text) :
                 Object(text, a) # <<>> /\ \A b \in Braces(text) : b < a => ~ Unclosed(text, b)
    BY <2>2 DEF ScanInv, Passed
  <2> QED
    BY <2>1, <2>2
<1> QED
  BY <1>1, ScanInvariance, PTL

-----------------------------------------------------------------------------
(* Why the search ends, short of fairness.                                 *)

\* Turns the search can still take before its start i moves on or it is done.
TurnsLeft ==
  CASE pc = "outer" -> Len(text) + 3
    [] pc = "inner" -> Len(text) + 3 - j
    [] pc = "parse" -> 1
    [] OTHER        -> 0

\* Every turn of the two loops moves the start of the search forward, within
\* the answer, or uses up one of the finitely many turns at this start: the
\* scan neither stands still nor returns to a brace, and has turns left until
\* it is done.
THEOREM TurnsAdvance ==
  Spec => /\ [][\/ i' > i /\ i' <= Len(text) + 1
                \/ i' = i /\ TurnsLeft' \in Nat /\ TurnsLeft' < TurnsLeft]_vars
          /\ [](pc = "done" <=> TurnsLeft = 0)
<1> DEFINE Forward == \/ i' > i /\ i' <= Len(text) + 1
                      \/ i' = i /\ TurnsLeft' \in Nat /\ TurnsLeft' < TurnsLeft
<1>1. ScanInv /\ ScanInv' /\ [Next]_vars => [Forward]_vars
  <2> SUFFICES ASSUME ScanInv, ScanInv', Next PROVE Forward
    OBVIOUS
  <2>1. /\ Len(text) \in Nat /\ i \in 1..Len(text) + 1
        /\ pc = "inner" => j \in i..Len(text) + 1
    BY TextFacts DEF ScanInv
  <2>2. CASE SkipCh
    BY <2>1, <2>2 DEF SkipCh
  <2>3. CASE FindBalancedClose
    <3>1. /\ pc = "outer" /\ pc' = "inner" /\ j' = i /\ i' = i /\ text' = text
      BY <2>3 DEF FindBalancedClose
    <3>2. TurnsLeft = Len(text) + 3 /\ TurnsLeft' = Len(text) + 3 - i
      BY <3>1 DEF TurnsLeft
    <3> QED
      BY <2>1, <3>1, <3>2
  <2>4. CASE ScanCh
    <3>1. /\ pc = "inner" /\ j <= Len(text) /\ i' = i /\ text' = text
          /\ \/ pc' = "parse"
             \/ pc' = "inner" /\ j' = j + 1
      BY <2>4 DEF ScanCh
    <3>2. /\ TurnsLeft = Len(text) + 3 - j
          /\ TurnsLeft' = 1 \/ TurnsLeft' = Len(text) + 3 - (j + 1)
      BY <3>1 DEF TurnsLeft
    <3> QED
      BY <2>1, <3>1, <3>2
  <2>5. CASE ParseSpan
    <3>1. /\ pc = "parse"
          /\ \/ pc' = "done" /\ i' = i
             \/ i' = i + 1
      BY <2>5 DEF ParseSpan
    <3>2. i < Len(text) + 1
      BY <2>1, <3>1, TextFacts DEF ScanInv, NoneBefore
    <3>3. TurnsLeft = 1 /\ (pc' = "done" => TurnsLeft' = 0)
      BY <3>1 DEF TurnsLeft
    <3> QED
      BY <2>1, <3>1, <3>2, <3>3
  <2>6. CASE GiveUp
    <3>1. pc' = "done" /\ i' = i /\ pc \in {"outer", "inner"}
      BY <2>6 DEF GiveUp
    <3>2. TurnsLeft' = 0
      BY <3>1 DEF TurnsLeft
    <3>3. pc = "outer" => TurnsLeft = Len(text) + 3
      BY DEF TurnsLeft
    <3>4. pc = "inner" => TurnsLeft = Len(text) + 3 - j
      BY DEF TurnsLeft
    <3> QED
      BY <2>1, <3>1, <3>2, <3>3, <3>4
  <2> QED
    BY <2>2, <2>3, <2>4, <2>5, <2>6 DEF Next
<1>2. ScanInv => (pc = "done" <=> TurnsLeft = 0)
  <2> SUFFICES ASSUME ScanInv PROVE pc = "done" <=> TurnsLeft = 0
    OBVIOUS
  <2>1. Len(text) \in Nat /\ (pc = "inner" => j \in Int /\ j <= Len(text) + 1)
    BY TextFacts DEF ScanInv
  <2>2. pc \in {"outer", "inner", "parse", "done"}
    BY DEF ScanInv
  <2> QED
    BY <2>1, <2>2 DEF TurnsLeft
<1> QED
  BY <1>1, <1>2, ScanInvariance, PTL DEF Spec
=============================================================================
