-------------------------- MODULE MCColumnFidelity --------------------------
(* Small instances of ColumnFidelity for TLC.                              *)
EXTENDS ColumnFidelity

\* Both signs, two ties, and numbers beyond the grid's ends.
MCMinTick == -6
=============================================================================
