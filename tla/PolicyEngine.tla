---------------------------- MODULE PolicyEngine ----------------------------
(***************************************************************************)
(* The deterministic policy engine: the rule evaluators                    *)
(* (Backend/src/policy/rules/evaluators.ts), the shape of what they are    *)
(* given (rules/types.ts) and their aggregation (engine/engine.ts).  All   *)
(* of it is pure.                                                          *)
(*                                                                         *)
(* Amounts are exact decimals, hence naturals here.  Time is counted in    *)
(* hours since a midnight UTC, and window_minutes in hours.  A rule's      *)
(* configuration is a record of the fields that are set.                   *)
(***************************************************************************)
EXTENDS Naturals, Sequences

CONSTANT Absent  \* a field of a context or a proposal that is undefined

RuleType ==
    {"AMOUNT_LIMIT", "CUMULATIVE_LIMIT", "RECIPIENT_ALLOWLIST", "RECIPIENT_BLOCKLIST",
     "NEW_RECIPIENT_APPROVAL", "CATEGORY_ALLOW", "CATEGORY_BLOCK", "ASSET_ALLOW",
     "ASSET_BLOCK", "NETWORK_ALLOW", "NETWORK_BLOCK", "TIME_WINDOW", "HUMAN_APPROVAL",
     "REQUIRED_PREDECESSOR", "NO_STRUCTURING", "CAPABILITY_EXPIRY"}

(* What the rules are evaluated over.  Fields that the assembler leaves    *)
(* undefined are Absent, or empty where the evaluators default them.       *)
Context(amount, recipient, asset, network, category) ==
    [amount |-> amount, recipient |-> recipient, asset |-> asset, network |-> network,
     category |-> category,
     spent |-> <<>>,      \* by window, or by window and key: none is zero
     known |-> {},        \* recipients paid before
     events |-> {},       \* event types of the trajectory
     recent |-> <<>>,     \* [amount, at] of other transactions
     expires |-> Absent,  \* of the capability
     now |-> 0]

Sets(rule, field) == field \in DOMAIN rule.config

-----------------------------------------------------------------------------
Limited(within) == IF within THEN "PASS" ELSE "VIOLATION"

AmountLimit(rule, ctx) ==
    IF Sets(rule, "maximum")
    THEN Limited(ctx.amount # Absent /\ ctx.amount <= rule.config.maximum)
    ELSE "SKIPPED"

(* What the context says was spent: of a window that has keys, under the   *)
(* transaction's own.                                                      *)
Spent(window, ctx) ==
    LET field == IF window \in {"recipient", "category", "asset"}
                 THEN <<window, ctx[window]>> ELSE <<window>>
    IN IF field \in DOMAIN ctx.spent THEN ctx.spent[field] ELSE 0

CumulativeLimit(rule, ctx) ==
    IF Sets(rule, "window") /\ Sets(rule, "maximum")
    THEN LET amount == IF ctx.amount = Absent THEN 0 ELSE ctx.amount
         IN Limited(Spent(rule.config.window, ctx) + amount <= rule.config.maximum)
    ELSE "SKIPPED"

(* The four allow rules and the four block rules, by the field they match. *)
Allowed(rule, value) == Limited(value # Absent /\ value \in rule.config.members)
Blocked(rule, value) == Limited(value = Absent \/ value \notin rule.config.members)

NewRecipientApproval(rule, ctx) ==
    CASE ctx.recipient = Absent     -> "SKIPPED"
      [] ctx.recipient \in ctx.known -> "PASS"
      [] OTHER                       -> "REQUIRE_APPROVAL"

(* Mutant of InWindow: every window is taken to wrap around midnight. *)
InWindowWrapped(hour, from, to) == from <= hour \/ hour < to

(* Hours of the day; a window that ends before it starts wraps midnight.   *)
InWindow(hour, from, to) ==
    IF from <= to THEN from <= hour /\ hour < to ELSE from <= hour \/ hour < to

TimeWindow(rule, ctx) ==
    IF Sets(rule, "start_hour") /\ Sets(rule, "end_hour")
    THEN Limited(InWindow(ctx.now % 24, rule.config.start_hour, rule.config.end_hour))
    ELSE "SKIPPED"

RequiredPredecessor(rule, ctx) ==
    IF Sets(rule, "predecessor")
    THEN Limited(rule.config.predecessor \in ctx.events) ELSE "SKIPPED"

(* The current transaction, if it has an amount, counts as a recent one.   *)
NoStructuring(rule, amount, recent, now) ==
    LET Default(field, value) == IF Sets(rule, field) THEN rule.config[field] ELSE value
        InTime(t) == now <= t.at + Default("window", 1)
        current == IF amount = Absent THEN <<>> ELSE <<[amount |-> amount, at |-> now]>>
        all == SelectSeq(recent, InTime) \o current
        Small(t) == t.amount <= rule.config.threshold
    IN IF Sets(rule, "threshold")
       THEN Limited(Len(SelectSeq(all, Small)) <= Default("max_count", 3)) ELSE "SKIPPED"

CapabilityExpiry(rule, ctx) ==
    IF ctx.expires = Absent THEN "SKIPPED" ELSE Limited(ctx.expires > ctx.now)

(* EVALUATORS: each type's evaluator. *)
Outcome(rule, ctx) ==
    CASE rule.type = "AMOUNT_LIMIT"           -> AmountLimit(rule, ctx)
      [] rule.type = "CUMULATIVE_LIMIT"       -> CumulativeLimit(rule, ctx)
      [] rule.type = "RECIPIENT_ALLOWLIST"    -> Allowed(rule, ctx.recipient)
      [] rule.type = "RECIPIENT_BLOCKLIST"    -> Blocked(rule, ctx.recipient)
      [] rule.type = "NEW_RECIPIENT_APPROVAL" -> NewRecipientApproval(rule, ctx)
      [] rule.type = "CATEGORY_ALLOW"         -> Allowed(rule, ctx.category)
      [] rule.type = "CATEGORY_BLOCK"         -> Blocked(rule, ctx.category)
      [] rule.type = "ASSET_ALLOW"            -> Allowed(rule, ctx.asset)
      [] rule.type = "ASSET_BLOCK"            -> Blocked(rule, ctx.asset)
      [] rule.type = "NETWORK_ALLOW"          -> Allowed(rule, ctx.network)
      [] rule.type = "NETWORK_BLOCK"          -> Blocked(rule, ctx.network)
      [] rule.type = "TIME_WINDOW"            -> TimeWindow(rule, ctx)
      [] rule.type = "HUMAN_APPROVAL"         -> "REQUIRE_APPROVAL"
      [] rule.type = "REQUIRED_PREDECESSOR"   -> RequiredPredecessor(rule, ctx)
      [] rule.type = "NO_STRUCTURING"         -> NoStructuring(rule, ctx.amount, ctx.recent, ctx.now)
      [] rule.type = "CAPABILITY_EXPIRY"      -> CapabilityExpiry(rule, ctx)

-----------------------------------------------------------------------------
(* "any VIOLATION -> FAIL, else any REQUIRE_APPROVAL or REVIEW -> REVIEW"  *)
Aggregate(results) ==
    CASE "VIOLATION" \in results -> "FAIL"
      [] "VIOLATION" \notin results /\ results \cap {"REQUIRE_APPROVAL", "REVIEW"} # {}
            -> "REVIEW"
      [] OTHER -> "PASS"

(* A policy is the set of its compiled rules: validateCompiledRules sees   *)
(* to known types and distinct ids, so that priority and id, in whose      *)
(* order the rules are evaluated, order the listing and nothing else.      *)
WellFormed(rules) ==
    /\ \A r \in rules : r.type \in RuleType
    /\ \A r, q \in rules : r.id = q.id => r = q

Evaluate(rules, ctx) == Aggregate({Outcome(r, ctx) : r \in {q \in rules : q.enabled}})
=============================================================================
