--------------------------- MODULE DecisionEngine ---------------------------
(***************************************************************************)
(* The deterministic core of an authorization: the proposal-transaction    *)
(* gate (Backend/src/execution-gate/transaction-gate.ts) and the Decision  *)
(* Engine (Backend/src/decision/engine.ts).  Both are pure.                *)
(*                                                                         *)
(* Amounts are compared as exact decimals, so an amount is its value here, *)
(* and a hash is the record of what is hashed.                             *)
(***************************************************************************)
EXTENDS Integers, Sequences

If(condition, name) == IF condition THEN {name} ELSE {}

-----------------------------------------------------------------------------
(* The transaction gate.  An analysis has, beside what it says will move,  *)
(* a status, the kind of function called, and risk flags.                  *)

(* Mutant of Mismatches: the network is not compared. *)
MismatchesAnywhere(proposal, analysis, expectedNetwork, actualNetwork) ==
    {f \in {"recipient", "amount", "asset"} : proposal[f] # analysis[f]}
       \cup If(analysis.status # "VALID", "analysis.status")

Mismatches(proposal, analysis, expectedNetwork, actualNetwork) ==
    {f \in {"recipient", "amount", "asset"} : proposal[f] # analysis[f]}
       \cup If(expectedNetwork # actualNetwork, "network")
       \cup If(analysis.status # "VALID", "analysis.status")
       \cup IF proposal.action = "PAY"
            THEN If(analysis.function \notin {"none", "transfer", "transferFrom", "pay"},
                    "function")
                    \cup If(analysis.risks # {}, "risk_flags")
            ELSE {}

(* The hash that binds a simulation, and keys an execution, to a payload.  *)
PayloadHash(transaction, network, analysis) ==
    [transaction |-> transaction, network |-> network,
     recipient |-> analysis.recipient, amount |-> analysis.amount,
     asset |-> analysis.asset, function |-> analysis.function]

Binding(simulation, transaction, simulatedHash, currentHash) ==
    CASE simulation.transaction # transaction -> "WRONG_TRANSACTION"
      [] simulation.transaction = transaction /\ simulatedHash # currentHash -> "STALE"
      [] OTHER -> "VALID"

Classify(status) ==
    CASE status = "PASS"                                -> "CONTINUE"
      [] status \in {"REVERT", "INSUFFICIENT_FUNDS"}    -> "DENY"
      [] status = "UNEXPECTED_STATE_CHANGE"             -> "REVIEW"
      [] OTHER                                          -> "FAIL_CLOSED"

-----------------------------------------------------------------------------
(* What decide is given: a record of                                       *)
(*   valid       the authorities found in order                            *)
(*   flags       of "platform_violated", "simulation_required" and         *)
(*               "context_stale", those that are set                       *)
(*   policy      the policy engine's status                                *)
(*   gate, binding, simulation    what the operators above return; "none"  *)
(*               where there is no transaction yet                         *)
(*   approval    the approval's state, or "not_required"                   *)
(*   advice      the AI layer's recommended handling                       *)
Authority == {"agent", "intent", "constitution", "capability"}
PolicyStatus == {"PASS", "REVIEW", "FAIL"}
Advice == {"none", "PROCEED_CANDIDATE", "MONITOR", "REVIEW", "DENY_RECOMMENDED"}

(* Mutants of Precedence: an escalation is returned before the denials. *)
AdviceFirst ==
    <<"ai_advisory_review", "platform_invariant", "agent_inactive", "intent_invalid",
      "constitution_incompatible", "capability_invalid", "policy_violation",
      "transaction_mismatch", "simulation_binding_invalid", "simulation_deny",
      "simulation_required", "context_stale", "approval_denied",
      "approval_expired", "approval_mismatch", "approval_required",
      "policy_review", "simulation_review">>
ReviewBeforeStale ==
    <<"platform_invariant", "agent_inactive", "intent_invalid",
      "constitution_incompatible", "capability_invalid", "policy_violation",
      "policy_review", "transaction_mismatch", "simulation_binding_invalid",
      "simulation_deny", "simulation_required", "context_stale", "approval_denied",
      "approval_expired", "approval_mismatch", "approval_required",
      "ai_advisory_review", "simulation_review">>

(* The ladder: the determinants in the order in which decide tests them.   *)
Precedence ==
    <<"platform_invariant", "agent_inactive", "intent_invalid",
      "constitution_incompatible", "capability_invalid", "policy_violation",
      "transaction_mismatch", "simulation_binding_invalid", "simulation_deny",
      "simulation_required", "context_stale", "approval_denied",
      "approval_expired", "approval_mismatch", "approval_required",
      "policy_review", "ai_advisory_review", "simulation_review">>

ReviewDeterminants ==
    {"approval_required", "policy_review", "ai_advisory_review", "simulation_review"}

(* The rungs an input does not clear. *)
Objections(i) ==
    If("platform_violated" \in i.flags, "platform_invariant")
    \cup If("agent" \notin i.valid, "agent_inactive")
    \cup If("intent" \notin i.valid, "intent_invalid")
    \cup If("constitution" \notin i.valid, "constitution_incompatible")
    \cup If("capability" \notin i.valid, "capability_invalid")
    \cup If(i.policy = "FAIL", "policy_violation")
    \cup If(i.gate = "MISMATCH", "transaction_mismatch")
    \cup If(i.binding \notin {"none", "VALID"}, "simulation_binding_invalid")
    \cup If(i.simulation = "DENY", "simulation_deny")
    \cup If("simulation_required" \in i.flags /\ i.simulation \in {"none", "FAIL_CLOSED"},
            "simulation_required")
    \cup If("context_stale" \in i.flags, "context_stale")
    \cup If(i.approval = "DENIED", "approval_denied")
    \cup If(i.approval = "EXPIRED", "approval_expired")
    \cup If(i.approval = "MISMATCH", "approval_mismatch")
    \cup If(i.approval \in {"NONE", "PENDING"}, "approval_required")
    \cup If(i.policy = "REVIEW", "policy_review")
    \cup If(i.advice \in {"REVIEW", "DENY_RECOMMENDED"}, "ai_advisory_review")
    \cup If(i.simulation = "REVIEW", "simulation_review")

(* decide stops at the first rung that is not cleared. *)
FirstStop(objections) ==
    LET stops == {n \in 1 .. Len(Precedence) : Precedence[n] \in objections} IN
    CHOOSE n \in stops : \A m \in stops : n <= m

Result(i) ==
    LET objections == Objections(i) IN
    CASE objections = {} -> "ALLOW"
      [] objections # {} /\ Precedence[FirstStop(objections)] \in ReviewDeterminants
            -> "REVIEW"
      [] OTHER -> "DENY"

-----------------------------------------------------------------------------
(* The order of the ladder does not matter to the result: it is the worst  *)
(* that any single input calls for (engine.ts:100-199).                    *)
WorstOf(i) ==
    CASE Objections(i) \ ReviewDeterminants # {} -> "DENY"
      [] Objections(i) = {} -> "ALLOW"
      [] OTHER -> "REVIEW"
=============================================================================
