---------------------------- MODULE MCApprovals -----------------------------
(* Two requests, two handlers, two contexts, and four roles: the required  *)
(* one, the administrator, an approver that does not satisfy the request,  *)
(* and an auditor.                                                         *)
EXTENDS Approvals, TLC

CONSTANTS h1, h2, q1, q2, k1, k2, admin, operator, approver, auditor

MCHandler == {h1, h2}
MCRequest == {q1, q2}
MCContext == {k1, k2}
MCRole == {admin, operator, approver, auditor}
MCApprover == {admin, operator, approver}
Symmetry == Permutations(MCHandler) \cup Permutations(MCRequest)
               \cup Permutations(MCContext)
=============================================================================
