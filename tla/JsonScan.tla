------------------------------- MODULE JsonScan -------------------------------
(***************************************************************************)
(* MLXModelClient._extract_first_json_object: the search for a JSON object *)
(* in what a model without guided decoding answers.  Positions count from  *)
(* 1; a character is what the scan tells apart, the rest is a letter.      *)
(***************************************************************************)
EXTENDS Integers, Sequences, FiniteSets

CONSTANTS
  Texts,      \* answers of the model
  Loads(_)    \* whether json.loads takes a span that starts with a brace

VARIABLES
  text,       \* the answer
  pc,         \* where the two loops are
  i, j,       \* their positions
  scan,       \* _find_balanced_close's depth, in_str and escaped
  result      \* the object's text, <<>> for None

vars == <<text, pc, i, j, scan, result>>

ASSUME TextsAssumption == Texts \subseteq Seq(STRING)

Open == "{"
Close == "}"
Quote == "\""
Backslash == "\\"
Space == " "

-----------------------------------------------------------------------------
Fresh == [depth |-> 0, in_str |-> FALSE, escaped |-> FALSE]

AfterChNoEscape(s, ch) ==
  [depth |-> s.depth + (IF s.in_str THEN 0 ELSE IF ch = Open THEN 1
                        ELSE IF ch = Close THEN -1 ELSE 0),
   in_str |-> IF ch = Quote THEN ~ s.in_str ELSE s.in_str,
   escaped |-> FALSE]

\* One turn of _find_balanced_close.
AfterCh(s, ch) ==
  [depth |-> s.depth + (IF s.in_str THEN 0 ELSE IF ch = Open THEN 1
                        ELSE IF ch = Close THEN -1 ELSE 0),
   in_str |-> IF ch = Quote /\ ~ s.escaped THEN ~ s.in_str ELSE s.in_str,
   escaped |-> s.in_str /\ ~ s.escaped /\ ch = Backslash]

\* _loads_lenient: the second try drops every comma before a close of either
\* kind, with or without space between them, in strings too.
Trailing(span, k) ==
  /\ span[k] = ","
  /\ \E c \in DOMAIN span : /\ c > k /\ span[c] \in {Close, "]"}
                           /\ \A n \in k + 1..c - 1 : span[n] = Space

Repaired(span) ==
  LET kept == SelectSeq([k \in DOMAIN span |-> k], LAMBDA k : ~ Trailing(span, k))
  IN [k \in DOMAIN kept |-> span[kept[k]]]

LoadsLenient(span) ==
  IF Loads(span) THEN span ELSE IF Loads(Repaired(span)) THEN Repaired(span) ELSE <<>>

-----------------------------------------------------------------------------
Init ==
  /\ text \in Texts
  /\ pc = "outer" /\ i = 1 /\ j = 1
  /\ scan = Fresh
  /\ result = <<>>

SkipCh ==
  /\ pc = "outer" /\ i <= Len(text) /\ text[i] # Open
  /\ i' = i + 1
  /\ UNCHANGED <<text, pc, j, scan, result>>

FindBalancedClose ==
  /\ pc = "outer" /\ i <= Len(text) /\ text[i] = Open
  /\ pc' = "inner" /\ j' = i /\ scan' = Fresh
  /\ UNCHANGED <<text, i, result>>

ScanCh ==
  /\ pc = "inner" /\ j <= Len(text)
  /\ scan' = AfterCh(scan, text[j])
  /\ IF text[j] = Close /\ ~ scan.in_str /\ scan'.depth = 0
       THEN pc' = "parse" /\ j' = j
       ELSE pc' = "inner" /\ j' = j + 1
  /\ UNCHANGED <<text, i, result>>

ParseSpanSkip ==
  /\ pc = "parse"
  /\ result' = LoadsLenient(SubSeq(text, i, j))
  /\ IF result' # <<>> THEN pc' = "done" /\ i' = i ELSE pc' = "outer" /\ i' = j + 1
  /\ UNCHANGED <<text, j, scan>>

ParseSpanStay ==
  /\ pc = "parse"
  /\ result' = LoadsLenient(SubSeq(text, i, j))
  /\ pc' = IF result' # <<>> THEN "done" ELSE "outer"
  /\ UNCHANGED <<text, i, j, scan>>

ParseSpan ==
  /\ pc = "parse"
  /\ result' = LoadsLenient(SubSeq(text, i, j))
  /\ IF result' # <<>> THEN pc' = "done" /\ i' = i ELSE pc' = "outer" /\ i' = i + 1
  /\ UNCHANGED <<text, j, scan>>

\* No close for the brace at i, or no brace left: None.
GiveUp ==
  /\ \/ pc = "inner" /\ j > Len(text)
     \/ pc = "outer" /\ i > Len(text)
  /\ pc' = "done"
  /\ UNCHANGED <<text, i, j, scan, result>>

Next == SkipCh \/ FindBalancedClose \/ ScanCh \/ ParseSpan \/ GiveUp

Spec == Init /\ [][Next]_vars /\ WF_vars(Next)

-----------------------------------------------------------------------------
(* The same search without its loops, in any answer t.  A string ends at the  *)
(* first quote that an even number of backslashes precedes.                  *)
Least(S) == CHOOSE n \in S : \A m \in S : n <= m

StringEnds(t, q) ==
  {e \in q + 1..Len(t) :
     /\ t[e] = Quote
     /\ LET others == {n \in q..e - 1 : t[n] # Backslash}
        IN (e - 1 - (CHOOSE n \in others : \A m \in others : m <= n)) % 2 = 0}

\* The positions of t from n on that are in no string, when n is in none.
Outside(t) ==
  LET from[n \in 1..Len(t) + 1] ==
        IF n > Len(t) THEN {}
        ELSE IF t[n] # Quote THEN {n} \cup from[n + 1]
        ELSE IF StringEnds(t, n) = {} THEN {} ELSE from[Least(StringEnds(t, n)) + 1]
  IN from

\* The closes that balance the brace of t at a.
Balances(t, a) ==
  LET count(ch, c) == Cardinality({n \in Outside(t)[a] : n <= c /\ t[n] = ch})
  IN {c \in Outside(t)[a] : t[c] = Close /\ count(Open, c) = count(Close, c)}

Braces(t) == {a \in 1..Len(t) : t[a] = Open}
Unclosed(t, a) == Balances(t, a) = {}
Object(t, a) ==
  IF Unclosed(t, a) THEN <<>> ELSE LoadsLenient(SubSeq(t, a, Least(Balances(t, a))))

\* An object that is returned is the leftmost one: braces in strings, escaped
\* quotes, failed spans and objects inside them mislead no part of the search.
FirstObjectWins ==
  pc = "done" /\ result # <<>> =>
    /\ i \in Braces(text) /\ result = Object(text, i)
    /\ \A a \in Braces(text) : a < i => Object(text, a) = <<>>

\* The search answers None exactly when an unclosed brace stands before every
\* object of the answer: nothing else hides one, neither strings nor spans that
\* fail, and such a brace always does, although it may be prose.
UnclosedBraceHides ==
  pc = "done" =>
    (result = <<>> <=>
       \A a \in Braces(text) :
         Object(text, a) # <<>> => \E b \in Braces(text) : b < a /\ Unclosed(text, b))

\* The search ends on every answer.
ScanEnds == <>(pc = "done")
==============================================================================
