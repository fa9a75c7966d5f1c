---------------------------- MODULE MCModelServer ----------------------------
(* Small instances of ModelServer for TLC.                                 *)
EXTENDS ModelServer, TLC

\* Processes are only ever compared for equality: sound without liveness.
PidSymmetry == Permutations(Pids)
==============================================================================
