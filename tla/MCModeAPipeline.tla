--------------------------- MODULE MCModeAPipeline ---------------------------
(* Small instances of ModeAPipeline, with the strengthened invariant, for   *)
(* TLC; the cfg files give the constants.                                   *)
EXTENDS ModeAPipelineInv
==============================================================================
