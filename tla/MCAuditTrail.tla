---------------------------- MODULE MCAuditTrail ----------------------------
(* Two handlers, three calls between them, of three events and of two      *)
(* attestations of one execution with different payloads.                  *)
EXTENDS AuditTrail, TLC

CONSTANTS h1, h2, e1, e2, e3, a1, a2, p1, p2

MCHandler == {h1, h2}
MCEvent == {e1, e2, e3}
MCAttestation == {a1, a2}
MCPayload == {p1, p2}
MCExecutionOf == [p \in MCPayload |-> "execution"]
Symmetric == Permutations(MCHandler) \cup Permutations(MCEvent)
             \cup Permutations(MCAttestation) \cup Permutations(MCPayload)
=============================================================================
