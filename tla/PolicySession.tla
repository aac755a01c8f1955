---------------------------- MODULE PolicySession ---------------------------
(***************************************************************************)
(* One agent under one policy over time: its proposals are decided         *)
(* (application/orchestrator/security-orchestrator.ts) and prepared for    *)
(* execution (execution-gate/final-revalidation.service.ts), each over a   *)
(* context that the caller assembles for the policy engine from what it    *)
(* has at hand.  The two assemble different contexts, at different times,  *)
(* and neither passes on what was spent, paid or seen before.              *)
(*                                                                         *)
(* Everything else that a decision rests on is in order here (module       *)
(* Authorization), so a PASS is all that a payment needs; a REVIEW never   *)
(* becomes an ALLOW at prepare.                                            *)
(***************************************************************************)
EXTENDS PolicyEngine, Integers, FiniteSetsExt

CONSTANTS
    Policies,     \* rule sets an agent may be given
    Proposals,    \* what it may propose
    Event,        \* event types its trajectory may show
    Step,         \* hours that pass at once
    MaxTime,      \* bound: the clock, in hours
    MaxPayments   \* bound: payments in one behaviour

ListRule ==
    {"RECIPIENT_ALLOWLIST", "RECIPIENT_BLOCKLIST", "CATEGORY_ALLOW", "CATEGORY_BLOCK",
     "ASSET_ALLOW", "ASSET_BLOCK", "NETWORK_ALLOW", "NETWORK_BLOCK"}

(* "UTC hours [0..23]" (evaluators.ts:221); lists name what there is, and  *)
(* one that is left out is an empty one (asStringArray).                   *)
Configured(rule) ==
    /\ \A hour \in {"start_hour", "end_hour"} :
          Sets(rule, hour) => rule.config[hour] \in 0 .. 23
    /\ rule.type \in ListRule => Sets(rule, "members") /\ Absent \notin rule.config.members

ASSUME PoliciesWellFormed == \A policy \in Policies : WellFormed(policy)
ASSUME PoliciesConfigured == \A policy \in Policies : \A rule \in policy : Configured(rule)
ASSUME ProposalsType == \A p \in Proposals : p.amount \in Nat \cup {Absent}
ASSUME BoundsType == {Step, MaxTime, MaxPayments} \subseteq Nat

VARIABLES
    rules,      \* the policy in force
    expires,    \* when the agent's capability expires, or Absent
    clock,
    events,     \* the event types of the trajectory the caller cites
    decision,   \* the policy status of a proposal's decision of this instant
    paid        \* the payments made

sessionVars == <<rules, expires, clock, events, decision, paid>>

SessionInit ==
    /\ rules \in Policies
    /\ expires \in {Absent, MaxTime}
    /\ clock = 0
    /\ events = {}
    /\ decision = [p \in Proposals |-> "none"]
    /\ paid = <<>>

Tick ==
    /\ clock + Step <= MaxTime
    /\ clock' = clock + Step
    /\ decision' = [p \in Proposals |-> "none"]
    /\ UNCHANGED <<rules, expires, events, paid>>

Observe(e) ==
    /\ e \notin events
    /\ events' = events \cup {e}
    /\ UNCHANGED <<rules, expires, clock, decision, paid>>

(* The orchestrator's context: no category, and of history the trajectory. *)
DecideContext(p) ==
    LET network == IF p.network = Absent THEN p.recipientNetwork ELSE p.network IN
    [Context(p.amount, p.recipient, p.asset, network, Absent) EXCEPT
        !.events = events, !.expires = expires, !.now = clock]

(* Mutant of PrepareContext: the amount is left out. *)
PrepareAmountless(p) ==
    [Context(Absent, p.recipient, p.asset, p.network, Absent) EXCEPT
        !.expires = expires, !.now = clock]

(* The final revalidation's: no trajectory, and the network as proposed.   *)
PrepareContext(p) ==
    [Context(p.amount, p.recipient, p.asset, p.network, Absent) EXCEPT
        !.expires = expires, !.now = clock]

(* A capability that has run out is not found: the call throws, or denies. *)
Capable == expires # Absent => clock < expires

Decide(p) ==
    /\ Capable
    /\ decision' = [decision EXCEPT ![p] = Evaluate(rules, DecideContext(p))]
    /\ UNCHANGED <<rules, expires, clock, events, paid>>

(* Prepare needs no earlier decision.  A proposal stands for any number of  *)
(* proposals alike; a payment is known by it and by its time.              *)
Prepare(p) ==
    /\ Capable
    /\ Len(paid) < MaxPayments
    /\ Evaluate(rules, PrepareContext(p)) = "PASS"
    /\ paid' = Append(paid, [proposal |-> p, at |-> clock, expires |-> expires])
    /\ UNCHANGED <<rules, expires, clock, events, decision>>

SessionNext ==
    \/ Tick
    \/ \E e \in Event : Observe(e)
    \/ \E p \in Proposals : Decide(p) \/ Prepare(p)

SessionSpec == SessionInit /\ [][SessionNext]_sessionVars

-----------------------------------------------------------------------------
(* The hours of a time window, counted from its start. *)
HoursOf(from, to) == {(from + k) % 24 : k \in 0 .. ((to - from) % 24) - 1}

(* What a rule promises of a payment.  Of the rules that look back it      *)
(* promises what it can on the payment alone, and of the network what the  *)
(* proposal itself names.                                                  *)
Honours(rule, payment) ==
    LET p == payment.proposal  config == rule.config IN
    CASE rule.type = "AMOUNT_LIMIT" /\ Sets(rule, "maximum") ->
            p.amount # Absent /\ p.amount <= config.maximum
      [] rule.type = "CUMULATIVE_LIMIT" /\ Sets(rule, "window") /\ Sets(rule, "maximum") ->
            p.amount # Absent => p.amount <= config.maximum
      [] rule.type = "RECIPIENT_ALLOWLIST" -> p.recipient \in config.members
      [] rule.type = "RECIPIENT_BLOCKLIST" -> p.recipient \notin config.members
      [] rule.type = "ASSET_ALLOW"         -> p.asset \in config.members
      [] rule.type = "ASSET_BLOCK"         -> p.asset \notin config.members
      [] rule.type = "NETWORK_ALLOW"       -> p.network \in config.members
      [] rule.type = "NETWORK_BLOCK"       -> p.network \notin config.members
      [] rule.type = "TIME_WINDOW" /\ Sets(rule, "start_hour") /\ Sets(rule, "end_hour") ->
            payment.at % 24 \in HoursOf(config.start_hour, config.end_hour)
      [] rule.type = "CAPABILITY_EXPIRY"   ->
            payment.expires = Absent \/ payment.at < payment.expires
      [] OTHER -> rule.type # "HUMAN_APPROVAL"

(* A payment is made only if every rule in force allows it at that moment, *)
(* a window across midnight and a field left out included                  *)
(* (evaluators.ts; engine.ts:9-13: "any VIOLATION -> FAIL (decision cannot *)
(* be ALLOW)").                                                            *)
PaidWithinRules ==
    \A n \in DOMAIN paid : \A r \in rules : r.enabled => Honours(r, paid[n])

(* A block of the recipient's network is lost on prepare, if the proposal  *)
(* itself names no network: NETWORK_BLOCK lets none pass                   *)
(* (evaluators.ts:182), and prepare does not fall back as the decision     *)
(* does.                                                                   *)
BlockIsLost(p) ==
    /\ p.network = Absent
    /\ \E r \in rules : /\ r.enabled /\ r.type = "NETWORK_BLOCK"
                        /\ p.recipientNetwork \in r.config.members

(* Two requests, two contexts, one policy: what is paid is not what a      *)
(* decision of the same instant refused or sent to review.  Of the facts   *)
(* that prepare leaves out of its context only the recipient's network     *)
(* makes a rule more lenient, a block of it                                *)
(* (final-revalidation.service.ts:159-172,                                 *)
(* security-orchestrator.ts:211-224).                                      *)
NoPaymentAgainstDecision ==
    [][\A p \in Proposals :
          paid' = Append(paid, [proposal |-> p, at |-> clock, expires |-> expires])
             /\ ~BlockIsLost(p)
          => decision[p] \in {"none", "PASS"}]_sessionVars

(* "Daily limit = $100; Payment 1 = $40, Payment 2 = $40, Payment 3 = $40; *)
(* Core sees cumulative = $120; Third payment: DENY"                       *)
(* (BACKEND_WORKFLOW.md:2012-2028).                                        *)
DailySpendWithinLimit ==
    \A r \in rules :
        r.enabled /\ r.type = "CUMULATIVE_LIMIT" /\ r.config.window = "daily" =>
            \A day \in 0 .. MaxTime \div 24 :
                MapThenSumSet(LAMBDA n : paid[n].proposal.amount,
                              {n \in DOMAIN paid : paid[n].at \div 24 = day})
                   <= r.config.maximum
=============================================================================
