------------------------------ MODULE RowLedger ------------------------------
(***************************************************************************)
(* What one synthesis run promises about the rows it was asked for, with   *)
(* no bundles, batches, retries or sinks in it.  A row position is         *)
(* requested once, settled once, and a settled position is accepted,       *)
(* rejected, or was never produced by the engine; nothing settled is ever  *)
(* revised.  A run concludes once, and a gated run succeeds only over rows *)
(* that pass the BLOCKER gate.                                             *)
(***************************************************************************)
EXTENDS Integers, FiniteSets

CONSTANTS
  NumRows,   \* rows asked for
  Gated,     \* TRUE when the BLOCKER gate is wired
  GateNum,   \* the gate's ratio, as the fraction GateNum / GateDen
  GateDen

VARIABLES
  requested, \* the row positions asked for so far
  settled,   \* those whose outcome is final
  accepted,  \* those whose record is valid
  rejected,  \* those that left a dead letter in place of a record
  blocking,  \* the rejected ones that count toward the gate
  outcome    \* "open", then "succeeded" or "failed"

ledgerVars == <<requested, settled, accepted, rejected, blocking, outcome>>

Init ==
  /\ requested = {}
  /\ settled = {}
  /\ accepted = {}
  /\ rejected = {}
  /\ blocking = {}
  /\ outcome = "open"

\* One more batch of positions is asked for.
Request ==
  /\ outcome = "open"
  /\ settled = {}
  /\ requested \subseteq requested'
  /\ requested' # requested
  /\ Cardinality(requested') <= NumRows
  /\ UNCHANGED <<settled, accepted, rejected, blocking, outcome>>

\* Some open positions get their one outcome.
Settle ==
  /\ outcome = "open"
  /\ settled \subseteq settled'
  /\ settled' \subseteq requested
  /\ accepted \subseteq accepted'
  /\ rejected \subseteq rejected'
  /\ blocking \subseteq blocking'
  /\ (accepted' \ accepted) \cup (rejected' \ rejected) \subseteq settled' \ settled
  /\ blocking' \ blocking \subseteq rejected' \ rejected
  /\ accepted' \cap rejected' = {}
  /\ UNCHANGED <<requested, outcome>>

PassesGate ==
  Cardinality(blocking) * GateDen
    <= GateNum * (Cardinality(accepted) + Cardinality(rejected))

\* A success covers every row asked for and, when gated, passes the gate.
Conclude ==
  /\ outcome = "open"
  /\ outcome' \in {"succeeded", "failed"}
  /\ outcome' = "succeeded" =>
       /\ Cardinality(requested) = NumRows
       /\ settled = requested
       /\ Gated => PassesGate
  /\ UNCHANGED <<requested, settled, accepted, rejected, blocking>>

Next == Request \/ Settle \/ Conclude

Spec == Init /\ [][Next]_ledgerVars
==============================================================================
