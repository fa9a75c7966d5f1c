--------------------------- MODULE MCGenerateWorker ---------------------------
(* Small instances of GenerateWorker for TLC.                              *)
EXTENDS GenerateWorker

\* A run without a seed, and one with.
MCBaseSeeds == {NoSeed, 7}
==============================================================================
