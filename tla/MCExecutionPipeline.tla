------------------------ MODULE MCExecutionPipeline -------------------------
(* Two executions and three calls: at least two calls fall on one of them. *)
EXTENDS ExecutionPipeline, TLC

CONSTANTS c1, c2, c3, e1, e2

MCCall == {c1, c2, c3}
MCExec == {e1, e2}
Symmetry == Permutations(MCCall) \cup Permutations(MCExec)
=============================================================================
