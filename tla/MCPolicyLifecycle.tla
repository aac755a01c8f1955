------------------------- MODULE MCPolicyLifecycle --------------------------
(* Three versions and two handlers: an active version, and two approved    *)
(* ones that race to replace it.                                           *)
EXTENDS PolicyLifecycle, TLC

CONSTANTS h1, h2

MCHandler == {h1, h2}
Symmetry == Permutations(MCHandler)
=============================================================================
