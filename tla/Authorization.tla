---------------------------- MODULE Authorization ---------------------------
(***************************************************************************)
(* From a proposal to the permission to execute it: POST /decisions        *)
(* (Backend/src/api/routes/v1.ts with                                      *)
(* application/orchestrator/security-orchestrator.ts) and the checks of    *)
(* POST /executions/prepare                                                *)
(* (Backend/src/execution-gate/final-revalidation.service.ts), while the   *)
(* authorities they read change underneath.                                *)
(*                                                                         *)
(* Both read the agent, its constitution, its capabilities and its policy  *)
(* one after the other, in statements of no common transaction, and        *)
(* compare times with a clock they read once, at the start.  Every read is *)
(* a step here.  There is one agent and one proposal.  What revalidate     *)
(* does after an ALLOW is module ExecutionGate; here it is the step Mint.  *)
(***************************************************************************)
EXTENDS DecisionEngine

CONSTANTS
    Handler,     \* concurrent requests
    Decision,    \* ids of the decisions that may be recorded
    Capability,  \* ids of the capabilities that may be granted
    Backdated,   \* those whose window begins before they are granted
    MaxVersion,  \* bound: versions of the agent's policy
    MaxChange,   \* bound: changes underneath in one behaviour
    Verdict,     \* what each version's rules say of the proposal
    Proposal,    \* recipient, amount, asset and action of the proposal
    Network,     \* the network it is authorized for
    Transaction, \* the id of the candidate transaction
    Evidence,    \* what a caller may send along with the proposal
    None

ASSUME VersionsType == MaxVersion \in Nat /\ MaxChange \in Nat
ASSUME VerdictType == Verdict \in [1 .. MaxVersion -> PolicyStatus]
ASSUME EvidenceType == \A e \in Evidence : e.advice \in Advice
ASSUME DistinctIds == None \notin Decision \cup Capability

VARIABLES
    agent,         \* the agent row: whether it is ACTIVE, and has a policy
    constitution,  \* the status of its constitution
    capability,    \* the status of each capability, "none" before it exists
    version,       \* the policy's ACTIVE version, 0 if there is none
    retired,       \* its SUPERSEDED and DISABLED versions
    lapsed,        \* what the clock has run out on
    changes,       \* how often any of these has changed
    decision,      \* the decision rows
    approval,      \* the approval request of each decision
    work,          \* where each handler stands, and what it has read
    stood          \* history: what was in force since a handler started

rows == <<agent, constitution, capability, version, retired, lapsed>>
authority == <<rows, changes>>
records == <<decision, approval>>
vars == <<authority, records, work, stood>>

Clock == Capability \cup {"intent", "approval"}
Stage == {"idle", "agent", "constitution", "capability", "policy", "approval",
          "record", "request", "mint"}

(* The decision context hash: of a decision there is no transaction yet.   *)
Hash(v, transaction) == [version |-> v, transaction |-> transaction]
DecisionHash(v) == Hash(v, "null")
FreshHash(v) == Hash(v, "transaction")

(* A handler records a decision (`for' its id) or prepares an execution    *)
(* (`for' None), citing a decision's context hash, or sending "", and      *)
(* naming an approval request, or none.                                    *)
NoDecision == [result |-> "none", version |-> 0]
Idle == [at |-> "idle", for |-> None, cites |-> None, approves |-> None,
         clock |-> {}, pointed |-> {}, valid |-> {}, policy |-> "FAIL",
         version |-> 0, evidence |-> None]

Work == [at: Stage, for: Decision \cup {None}, cites: Decision \cup {None},
         approves: Decision \cup {None}, clock: SUBSET Clock,
         pointed: SUBSET {"policy"}, valid: SUBSET Authority, policy: PolicyStatus,
         version: 0 .. MaxVersion, evidence: Evidence \cup {None}]

TypeOK ==
    /\ agent \subseteq {"ACTIVE", "policy"}
    /\ constitution \in {"none", "ACTIVE"}
    /\ capability \in [Capability -> {"none", "ACTIVE", "REVOKED", "EXPIRED"}]
    /\ version \in 0 .. MaxVersion
    /\ retired \subseteq 1 .. MaxVersion
    /\ lapsed \subseteq Clock
    /\ changes \in 0 .. MaxChange
    /\ decision \in [Decision -> [result: {"none", "ALLOW", "REVIEW", "DENY"},
                                  version: 0 .. MaxVersion]]
    /\ approval \in [Decision -> {"none", "PENDING", "APPROVED", "DENIED"}]
    /\ work \in [Handler -> Work]
    /\ stood \in [Handler -> SUBSET (Authority \cup {"policy"})]

(* Operators have set up the authorities to any degree. *)
Init ==
    /\ agent \in SUBSET {"ACTIVE", "policy"}
    /\ constitution \in {"none", "ACTIVE"}
    /\ capability \in [Capability -> {"none", "ACTIVE"}]
    /\ version \in 0 .. MaxVersion
    /\ "policy" \in agent => version # 0
    /\ retired = {}
    /\ lapsed = {}
    /\ changes = 0
    /\ decision = [d \in Decision |-> NoDecision]
    /\ approval = [d \in Decision |-> "none"]
    /\ work = [h \in Handler |-> Idle]
    /\ stood = [h \in Handler |-> {}]

-----------------------------------------------------------------------------
(* What changes underneath.  An agent's status may go anywhere at any      *)
(* time; a constitution in force is only ever replaced by another.         *)
SetAgent ==
    /\ agent' = IF "ACTIVE" \in agent THEN agent \ {"ACTIVE"} ELSE agent \cup {"ACTIVE"}
    /\ UNCHANGED <<constitution, capability, version, retired, lapsed>>

ActivateConstitution ==
    /\ constitution = "none"
    /\ constitution' = "ACTIVE"
    /\ UNCHANGED <<agent, capability, version, retired, lapsed>>

Grant(c) ==
    /\ capability[c] = "none"
    /\ capability' = [capability EXCEPT ![c] = "ACTIVE"]
    /\ UNCHANGED <<agent, constitution, version, retired, lapsed>>

Revoke(c) ==
    /\ capability[c] # "none"
    /\ capability' = [capability EXCEPT ![c] = "REVOKED"]
    /\ UNCHANGED <<agent, constitution, version, retired, lapsed>>

ExpireCapabilities ==
    /\ \E c \in lapsed \cap Capability : capability[c] = "ACTIVE"
    /\ capability' = [c \in Capability |->
                         IF c \in lapsed /\ capability[c] = "ACTIVE" THEN "EXPIRED"
                         ELSE capability[c]]
    /\ UNCHANGED <<agent, constitution, version, retired, lapsed>>

ActivateVersion(v) ==
    /\ v \notin retired \cup {version}
    /\ version' = v
    /\ retired' = retired \cup ({version} \ {0})
    /\ UNCHANGED <<agent, constitution, capability, lapsed>>

DisableVersion ==
    /\ version # 0
    /\ version' = 0
    /\ retired' = retired \cup {version}
    /\ UNCHANGED <<agent, constitution, capability, lapsed>>

(* The activation endpoint's second statement: point the agent at it.      *)
PointAgent ==
    /\ retired \cup {version} # {0}
    /\ agent' = agent \cup {"policy"}
    /\ UNCHANGED <<constitution, capability, version, retired, lapsed>>

Lapse(x) ==
    /\ x \notin lapsed
    /\ x \in Capability => capability[x] # "none"
    /\ lapsed' = lapsed \cup {x}
    /\ UNCHANGED <<agent, constitution, capability, version, retired>>

(* Mutant of Now: the time window of a capability is not looked at. *)
StatusOnly == {}

(* What is outside its time window: run out, or not begun.  No capability  *)
(* is granted with a window that has run out.                              *)
Now == lapsed \cup {c \in Capability \ Backdated : capability[c] = "none"}

(* The capabilities that getActiveCapabilities returns at a given clock.   *)
Usable(clock) == {c \in Capability \ clock : capability[c] = "ACTIVE"}

InForce ==
    If("ACTIVE" \in agent, "agent")
    \cup If(constitution = "ACTIVE", "constitution")
    \cup If(Usable(lapsed) # {}, "capability")
    \cup If("intent" \notin lapsed, "intent")
    \cup IF "policy" \in agent /\ version # 0
         THEN If(Verdict[version] = "PASS", "policy") ELSE {}

Govern ==
    /\ changes < MaxChange
    /\ \/ SetAgent
       \/ ActivateConstitution
       \/ \E c \in Capability : Grant(c) \/ Revoke(c)
       \/ ExpireCapabilities
       \/ \E v \in 1 .. MaxVersion : ActivateVersion(v)
       \/ DisableVersion
       \/ PointAgent
       \/ \E x \in Clock : Lapse(x)
    /\ changes' = changes + 1
    /\ stood' = [h \in Handler |-> IF work[h] = Idle THEN {} ELSE stood[h] \cup InForce']
    /\ UNCHANGED <<records, work>>

(* An operator answers an approval request. *)
Answer(d, verdict) ==
    /\ approval[d] = "PENDING"
    /\ "approval" \notin lapsed
    /\ approval' = [approval EXCEPT ![d] = verdict]
    /\ UNCHANGED <<authority, decision, work, stood>>

-----------------------------------------------------------------------------
Begin(h, w) ==
    /\ work[h] = Idle
    /\ work' = [work EXCEPT ![h] = w]
    /\ stood' = [stood EXCEPT ![h] = InForce]
    /\ UNCHANGED <<authority, records>>

StartDecide(h, d) ==
    /\ decision[d] = NoDecision
    /\ \A g \in Handler : work[g].for # d
    /\ Begin(h, [Idle EXCEPT !.at = "agent", !.for = d, !.clock = Now])

StartPrepare(h, cites, approves) ==
    /\ approves # None => approval[approves] # "none"
    /\ cites # None => decision[cites] # NoDecision
    /\ Begin(h, [Idle EXCEPT !.at = "agent", !.cites = cites, !.approves = approves,
                            !.clock = Now, !.valid = If("intent" \notin lapsed, "intent")])

(* The handler goes on, or is done; either way no row is written.          *)
Proceed(h, w) ==
    /\ work' = [work EXCEPT ![h] = w]
    /\ stood' = [stood EXCEPT ![h] = IF w = Idle THEN {} ELSE @]
    /\ UNCHANGED authority

(* Mutant of Read: the decision endpoint goes on as well. *)
ReadGoesOn(h, stage, next, name, found) ==
    /\ work[h].at = stage
    /\ Proceed(h, [work[h] EXCEPT !.at = next, !.valid = @ \cup If(found, name),
                                 !.pointed = IF stage = "agent"
                                             THEN agent \cap {"policy"} ELSE @])
    /\ UNCHANGED records

(* One read: the decision endpoint throws on a missing authority, revalidate *)
(* goes on.                                                                *)
Read(h, stage, next, name, found) ==
    /\ work[h].at = stage
    /\ Proceed(h, IF work[h].for # None /\ ~found THEN Idle
                  ELSE [work[h] EXCEPT !.at = next, !.valid = @ \cup If(found, name),
                                       !.pointed = IF stage = "agent"
                                                   THEN agent \cap {"policy"} ELSE @])
    /\ UNCHANGED records

ReadAgent(h) == Read(h, "agent", "constitution", "agent", "ACTIVE" \in agent)
ReadConstitution(h) ==
    Read(h, "constitution", "capability", "constitution", constitution = "ACTIVE")
ReadCapability(h) ==
    Read(h, "capability", "policy", "capability", Usable(work[h].clock) # {})

(* The version in force, and what its rules say of the proposal.  Rules    *)
(* never change once their version exists, so the two reads are one.       *)
ReadPolicy(h) ==
    LET w == work[h]  there == w.pointed # {} /\ version # 0 IN
    /\ w.at = "policy"
    /\ Proceed(h, IF w.for # None /\ ~there THEN Idle
                  ELSE [w EXCEPT !.at = IF w.for = None THEN "approval" ELSE "record",
                                 !.version = IF there THEN version ELSE 0,
                                 !.policy = IF there THEN Verdict[version] ELSE "FAIL"])
    /\ UNCHANGED records

(* resolveApprovalState, for the context hash that the caller sent.        *)
ApprovalState(w) ==
    LET d == w.approves IN
    CASE d = None -> "not_required"
      [] d # None /\ approval[d] = "DENIED" -> "DENIED"
      [] d # None /\ approval[d] = "PENDING" ->
            IF "approval" \in w.clock THEN "EXPIRED" ELSE "PENDING"
      [] OTHER -> IF w.cites = d THEN "APPROVED" ELSE "MISMATCH"

HashDrift(w) ==
    w.cites # None /\ DecisionHash(decision[w.cites].version) # FreshHash(w.version)

(* What decide is called with, by revalidate and by the decision endpoint, *)
(* for the evidence that the request carries.  No evidence is looked at    *)
(* before, but that the decision endpoint throws on an assessment too old  *)
(* and, there being no simulator, on a simulation required: see End.       *)
PrepareInput(w, e) ==
    [valid |-> w.valid,
     flags |-> (e.flags \cap {"simulation_required"})
                 \cup If("assessment_old" \in e.flags \/ HashDrift(w), "context_stale"),
     policy |-> w.policy,
     gate |-> IF Mismatches(Proposal, e.analysis, Network, e.network) = {}
              THEN "MATCH" ELSE "MISMATCH",
     binding |-> Binding(e.simulation, Transaction, e.simulated,
                         PayloadHash(Transaction, e.network, e.analysis)),
     simulation |-> Classify(e.simulation.status),
     approval |-> ApprovalState(w),
     advice |-> e.advice]

DecideInput(w, e) ==
    [valid |-> Authority, flags |-> {}, policy |-> w.policy, gate |-> "none",
     binding |-> "none", simulation |-> "none", approval |-> "not_required",
     advice |-> e.advice]

(* The decision endpoint: record the decision ...                          *)
Record(h, e) ==
    LET w == work[h]  r == Result(DecideInput(w, e)) IN
    /\ w.at = "record"
    /\ decision' = [decision EXCEPT ![w.for] = [result |-> r, version |-> w.version]]
    /\ Proceed(h, IF r = "REVIEW" THEN [w EXCEPT !.at = "request"] ELSE Idle)
    /\ UNCHANGED approval

(* ... and, of a REVIEW, open an approval request bound to its hash.       *)
RequestApproval(h) ==
    /\ work[h].at = "request"
    /\ approval' = [approval EXCEPT ![work[h].for] = "PENDING"]
    /\ Proceed(h, Idle)
    /\ UNCHANGED decision

(* revalidate: the last read and the decision; anything but ALLOW ends it. *)
Revalidate(h, e) ==
    /\ work[h].at = "approval"
    /\ Proceed(h, IF Result(PrepareInput(work[h], e)) = "ALLOW"
                  THEN [work[h] EXCEPT !.at = "mint", !.evidence = e] ELSE Idle)
    /\ UNCHANGED records

(* The minting done, an exception, or the process dead: the rows stay.     *)
End(h) ==
    /\ work[h] # Idle
    /\ Proceed(h, Idle)
    /\ UNCHANGED records

Next ==
    \/ Govern
    \/ \E d \in Decision, verdict \in {"APPROVED", "DENIED"} : Answer(d, verdict)
    \/ \E h \in Handler :
          \/ \E d \in Decision : StartDecide(h, d)
          \/ \E cites, approves \in Decision \cup {None} : StartPrepare(h, cites, approves)
          \/ ReadAgent(h) \/ ReadConstitution(h) \/ ReadCapability(h) \/ ReadPolicy(h)
          \/ \E e \in Evidence : Record(h, e) \/ Revalidate(h, e)
          \/ RequestApproval(h) \/ End(h)

Spec == Init /\ [][Next]_vars

-----------------------------------------------------------------------------
(* An execution is allowed only under complete authority: each of agent,   *)
(* constitution, capability, policy and intent was in force at some moment *)
(* of the request that allowed it, whatever changed while it ran           *)
(* (final-revalidation.service.ts:4-18).  No earlier decision, approval or *)
(* advice stands in for any of them.                                       *)
AllowedUnderAuthority ==
    \A h \in Handler :
        work[h].at = "mint" => Authority \cup {"policy"} \subseteq stood[h]

(* What was proposed, what was simulated and what will be submitted are    *)
(* one transaction, and it is not known to fail.                           *)
AllowedAsProposed ==
    \A h \in Handler : work[h].at = "mint" =>
        LET e == work[h].evidence IN
        /\ <<e.analysis.recipient, e.analysis.amount, e.analysis.asset, e.network>>
             = <<Proposal.recipient, Proposal.amount, Proposal.asset, Network>>
        /\ e.simulation.transaction = Transaction
        /\ e.simulated = PayloadHash(Transaction, Network, e.analysis)
        /\ e.simulation.status \notin {"REVERT", "INSUFFICIENT_FUNDS"}
        /\ "simulation_required" \in e.flags => e.simulation.status = "PASS"

(* The same of a recorded ALLOW, but that the intent's expiry is not       *)
(* looked at (v1.ts:334-350, security-orchestrator.ts:123-221).            *)
RecordedUnderAuthority ==
    \A h \in Handler : work[h].at = "record" =>
        \A e \in Evidence : Result(DecideInput(work[h], e)) = "ALLOW" =>
            (Authority \ {"intent"}) \cup {"policy"} \subseteq stood[h]

(* The inputs of the decisions being taken. *)
Inputs ==
    LET at(stage) == {work[h] : h \in {g \in Handler : work[g].at = stage}} IN
    {PrepareInput(w, e) : w \in at("approval"), e \in Evidence}
       \cup {DecideInput(w, e) : w \in at("record"), e \in Evidence}

(* "it can raise scrutiny (REVIEW) but can NEVER produce ALLOW and can     *)
(* NEVER downgrade a DENY" (decision/engine.ts:65-69): whatever the AI     *)
(* advises, a denial stays one, and an ALLOW would be given without it.    *)
AdviceIsNotAuthority ==
    \A i \in Inputs :
        LET denied == Result(i) = "DENY"
            silent == Result([i EXCEPT !.advice = "none"])
        IN \A a \in Advice :
              LET advised == Result([i EXCEPT !.advice = a]) IN
              /\ advised = "DENY" <=> denied
              /\ advised = "ALLOW" => silent = "ALLOW"

(* The ladder gives the worst result that any one input calls for: no      *)
(* early return hides a graver objection further down                      *)
(* (decision/engine.ts:103-199).                                           *)
WorstObjectionWins == \A i \in Inputs : Result(i) = WorstOf(i)
=============================================================================
