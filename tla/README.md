# Orvex, specified

Orvex is a control plane between AI agents and money. An agent's intent is
turned into a proposal by the AI layer (`ML/`), authorized by Core
(`Backend/`), executed on chain by the executor (`Blockchain/`), verified, and
booked. Core alone holds authority: the AI layer only advises, the executor
only does what an ExecutionRequest says.

This directory is a TLA+ development of that system: modules that model it, TLC
runs over small instances, and theorems checked by TLAPS.

## 1. Inventory

| Part | State | Operations | Talks to |
|---|---|---|---|
| Financial ledger (`domain/financial/financial.service.ts`) | account totals, reservations | reserve, commit, release, reconcileRelease, markUnknown | Postgres row locks |
| Execution gate (`execution-gate/`) | execution requests, results, receipt verifications | revalidate (prepare), ingestResult, reconcile, verifyAndFinalize | ledger, executor, every authority below |
| Executor (`Blockchain/src/execution`, `receipts`) | in-memory record per idempotency key | execute, getResult, verify | the chain |
| Approvals (`approval/approval.service.ts`) | requests, result rows | create, approve, deny, cancel, expire, resolve | decision endpoint, gate |
| Policy lifecycle (`policy/policy.service.ts`) | versions of a policy, current version | createDraft, validate, simulate, approve, disable, activate | agents' active policy |
| Policy engine (`policy/engine`, `policy/rules`) | none: pure | evaluate | orchestrator, gate |
| Decision engine, transaction gate (`decision/engine.ts`, `execution-gate/transaction-gate.ts`) | none: pure | decide, compare, classify, bind | decision endpoint, gate |
| Agents, constitutions, capabilities (`domain/`) | one status each, delegation tree | create, activate, pause, revoke, expire | orchestrator, gate |
| Orchestrator, API (`application/`, `api/`) | none of its own | POST /decisions, /executions/* | all of the above |
| Transactions, receipts (`Blockchain/src/transactions`, `simulation`, `receipts`, `rpc`, `integration`) | authorized contexts, the chain id that was read | build, analyze, validate, simulate, verify | the RPC endpoint, the token |
| Smart account, x402 (`Blockchain/src/smart-account`, `x402`) | the account's nonce (on chain) | execute a user operation; a requirement as a candidate | bundler, facilitator |
| Trajectory (`trajectory/`) | hash-chained events per trace, a Redis stream | append, complete, ingest, recover | policy rules |
| Audit, attestation (`audit/`, `Blockchain/src/attestation`) | hash-chained audit events, attestation status | append, verify, attest, retry | the registry |
| Contract (`Blockchain/contracts`) | attesters, one attestation per execution | attest, setAttester | attestation |
| AI layer (`ML/`) | session state, provider router | orchestrated pipelines, Core client | Core |
| Frontend (`Frontend/`) | none that persists | pay, firewall, intent routes | Core |

What makes it hard. Core's services are request handlers over Postgres at READ
COMMITTED: nothing sets an isolation level, `findFirst` takes no lock, and an
`update` by id writes whatever the row has become. So almost every operation is
a read, a decision and a write with other handlers in between. The execution
gate is not a transaction at all but a row of statements, any of which may be
the last before a crash. The executor loses its memory on restart, its
broadcasts may succeed with the reply lost, and receipts may come after the
timeout. Results are posted by a driver that may repeat, delay and reorder them.
The trajectory worker takes messages from a stream that delivers at least once.
Rules are evaluated twice, on contexts put together in two places. The executor
asks an endpoint that may fail over, of a token that may do as it likes.

What makes it correct: budget is never overspent nor stranded (ledger); money
booked as spent was paid and money that may still move is held (payment); at
most one transaction per execution (executor); an approval is earned, for that
context, once (approvals); nothing comes into force unapproved and one version is
in force (policy); a mint happens only under authority that holds (authorization);
a capability never widens on its way down (delegation); what the rules refuse is
not paid (policy session); what moves on chain is what was authorized, and what is
reported as paid was paid (rails); a trace is one chain, each event at most once,
and no message blocks the stream (trajectory); audit and attestation say what was
so (audit).
The individual hazards are listed at their lines in `PROJECT.json`.

## 2. Modules

**Reservations** models one financial account. `reserve` locks the account row
before reading anything that matters, so it is one action. The other four
operations read the reservation's status before they lock (or without locking),
and never look at it again: each is `Begin` (the read) and `Apply` (lock to
commit), with `Abort` for a roll-back. `overlapped` is a history variable: the
reservations inside which two such transactions were open at once.

**ExecutionPipeline** models the executor. A call moves `unused` -> `checked`
(idempotency check passed) -> `sending` -> `waiting` -> `returned`, or `threw`.
A transaction is named by the call that sends it. Two history variables name the
situations in which the code cannot keep its promises: `unguarded` (a second
call passed the idempotency check before the first recorded anything, or a
restart emptied the store) and `lost` (a broadcast was accepted, its reply lost).

**ExecutionGate** models the gate over the ledger and the executor, which it
extends: their variables are the rows and the records that its steps read and
write. Each handler is a small program whose position is `work[h]`, one
statement or await per step; `Die` ends it anywhere. **Payment** composes gate,
ledger and executor with the driver: results are posted in any order, any number
of times, by any handler. The ledger's and the executor's own specifications are
`LedgerSpec` and `ExecutorSpec`; `ImplementsLedger` says that every behaviour of
the composition is one of the ledger.

**Approvals** models the approval service with the same read/write split, the
housekeeping update, and `resolveApprovalState` as the operator `ApprovalState`.

**PolicyLifecycle** models the versions of one policy. `activate` is read, find
(the rows its supersede statement will write) and commit, as READ COMMITTED
makes them visible.

**DecisionEngine** has the pure parts of an authorization as operators: the
proposal-transaction comparison, the payload hash, simulation binding and
classification, and `decide`. The ladder of `decide` is the sequence
`Precedence` and the set `Objections` of the rungs an input does not clear;
`Result` follows the first of them.

**Authorization** models the two endpoints that decide, `POST /decisions` and
the checks of `POST /executions/prepare`, over one agent and one proposal. Each
read of an authority is a step, between which `Govern` changes agent,
constitution, capabilities, policy version or the clock. A handler keeps the
clock it read at its start as `clock`, the set of what had run out or not begun
by then. `stood` is a history variable: what has been in force at any moment
since the handler started. What the rules say of the proposal is the constant
`Verdict` per version; rules that look at the trajectory or at the time of day
are not told apart. After an ALLOW the step `mint` stands for ExecutionGate.

**HashChain** is what a trajectory promises: a chain that only grows at its head,
and not at all once closed. **Trajectory** models one trace, the stream's consumer
group and its workers. `appendEvent` is read (with its checks), find the duplicate,
insert; `handleMessage` acknowledges after it, whatever came of it. `Poll` takes
new messages, `Recover` a batch of those delivered to the same consumer before.
The host that calls either is outside the code. `left` is a history variable: the
messages that wait for their consumer's next restart, because its call threw before
them or its recovery read only a batch. The trace, as `ImplementsHashChain` maps it,
is a HashChain.

**Delegation** models the constitution versions and the capabilities of one
agent. Each operation is split where another handler's write may come between:
`ReadLatest`/`InsertDraft`, `BeginActivate`/`CommitActivate`,
`ReadConstitution`/`ReadParent`/`InsertCapability`, `BeginRevoke`/`CommitRevoke`.
History: `named` has the capabilities that were revoked by a call for them (the
cascade goes no further than their children), a row's `raced` says that it was
being created while such a call for its parent ran, and `overlapped` that two
activations ran at once. It keeps the grant; Authorization keeps the use.

**PolicyEngine** has the rule evaluators and the aggregation as operators over
rules and contexts. Recipients, assets, networks and categories are matched the
same way in the code and share `Allowed` and `Blocked`. **PolicySession** puts
the two endpoints' contexts around them: what `orchestrate` and what `revalidate`
fill in, and what neither does, with a clock, a trajectory and payments. A proposal
names its network, leaves it to its recipient, or does neither.

**TransferChecks** has the pure checks of a transfer, amounts being tenths of the
token's smallest unit, so that there are amounts finer than the token.
**PaymentRails** runs them: `job[j]` is where a call of the pipeline or the smart
account stands, `Underneath` moves contexts, balances and the endpoint between
any two steps. A context is registered for a transaction id, and perhaps for an
execution, and resolved by the one or else the other; `granted` is a history
variable, what was ever registered for a call by either. The smart account sends
the `Order` it is given: nothing in the code connects it with the registry or the
checks of the pipeline. There is one call per execution; retries of one execution
are ExecutionPipeline's. A balance or receipt read while the endpoint answers for
another chain may be anything, or not there.

**AuditTrail** models the audit chain of one entity, the attestation records, and
the registry contract with what the Blockchain adapter broadcasts to it. A hash is
the sequence of what it covers. Core submits over an interface of which it has a
mock only, which submits nothing; the Blockchain adapter answers right after the
broadcast and nothing in Core calls it. So `Submit` answers whatever the interface
allows and moves nothing on chain, and `Broadcast` moves no record. `mingled` is a
history variable: appends that overlapped.

Modules named `MC...` give the constants their model values for TLC. Modules
named `..._proofs` hold theorems.

## 3. Runs

| Run | Shows |
|---|---|
| `reservations` | Two handlers, three reservations of 1 or 2 units, limit 3. Two handlers are enough for every pairwise overlap; three reservations let freed budget be taken again. `MaxDrift` bounds how far below zero the total is followed. |
| `pipeline` | Two executions, three calls, one restart: a retry before and after the restart, and a second execution to confuse it with. |
| `payment` | One execution, two handlers, two execute calls, three reservations of one unit with limit 2, one restart: two prepares may race, and every finalization may overlap every other. What is committed was paid (`CommittedIsPaid`) and only once (`BookedOnce`), what may still move is held (`LiveIsBudgeted`), what Core has on record agrees with the chain (`RecordsAreTrue`), and the composition implements the ledger's specification. |
| `approvals` | Two handlers, two requests, two contexts, four roles. |
| `policy` | Three versions, two handlers: an active version, its successor and a bystander. |
| `authorization` | One handler, one decision, two capabilities of which one is granted with an earlier `validFrom`, two policy versions (PASS, REVIEW), eleven kinds of evidence, and any setting of the authorities to begin with. `MaxChange` = 2 changes may happen underneath: enough to withdraw an authority and put another in force, or let a clock run out, between two reads. Handlers share only the rows, so one handler against `Govern` meets every order of read and change. |
| `trajectory` | Two consumers, three entries read two at a time, of four kinds: a first event, another first event, a second that claims the former as its predecessor, one with no event in it. Repetitions, gaps and wrong claims come of their order. One crash or failed acknowledgement (`MaxTrouble`), any database errors. It also checks the refinement to HashChain, and under fairness that what was delivered is settled. |
| `delegation` | Two handlers, up to three capabilities and two versions, bounded together by `MaxRows`: a line of three has a grandparent, and two handlers make each overlap. One asset, one scope and one limit stand for those compared alike. |
| `policy_session` | Eight policies, between them of every rule type, and five proposals that meet each rule on both sides, one of which leaves its network to its recipient; the clock goes in steps of five hours past midnight, and two payments are made. |
| `structured_spend` (violation) | Payments within the daily limit add up to more than it. |
| `payment_rails` | Two pipeline calls of one transaction id and a smart account call, a second id that a context may be registered under together with the second call's execution, two recipients, a right and a wrong token, two networks, an order of either token. Two changes underneath: enough to register a context anew and fail over, or to fail over and back. |
| `audit` | Two handlers, four calls: three appends give a head, a successor and a place to go wrong; attest, retry and retry again, or two commitments to one execution. |

Every property of a passing run has a mutant: an operator beside the one it
replaces, with a plausible mistake, under which TLC finds the property violated.
Type invariants are proved (section 4); the one of `payment` is checked too.

Fairness. Request handlers retry nothing on their own, and their specifications
state none. `Trajectory` has weak fairness of a consumer's handling, each of whose
awaits comes to an answer or an error, and of its recovery after a restart, which
the worker's header promises (`ingestion.worker.ts:10-13`). It has none of polling,
of recovery at any other time or of restarts, as no loop or host in the code does
them. `PaymentRails` has weak fairness of the steps of a call that was made and of
the deadlines of the two waits; it has none of the chain, the endpoint or the
receipts. `DeliveredIsSettled` and `EveryCallEnds` are checked under these. Deadlock is checked in `authorization` and `delegation`;
each of the others comes to rest when its bounded supply of reservations, calls,
requests, messages or versions is used up. Symmetry is used over model values
only, and never with a liveness property.

Reading of the results. The account row itself never exceeds its limit
(`RowWithinLimit`), but it may say less than is really held: `RowNeverOverstates`
says drift goes that way only, `LedgerExact` that it needs two handlers inside
one reservation. `AtMostOneBroadcast` holds of sequential retries in one process,
which is what the code's comment promises; `unguarded` names the rest. In the same
way `lost`, `overlapped`, `doubled`, `crossed`, `raced` and `mingled` are the
exceptions that the other properties need: dropping one makes TLC find the
interleaving that the findings in `PROJECT.json` describe. Such a property does not
say that the race is harmless; it says that nothing but the race does the harm.
`DeliveredIsSettled` is about acknowledgement: the worker acknowledges what it could
not record, so nothing stronger than at most once can be said of the events once
anything went wrong; until then `ExactlyOnceInOrder` says exactly once. It excepts
what is `left` for a restart: `processBatch` reads new messages only, whatever its
comment says of a later run, so a worker that stays up need never come back to a
message whose acknowledgement failed.
`NoPaymentAgainstDecision` is of payments that the decision refused. Most of what
preparation leaves out of its context makes it stricter, and it then refuses what
the decision allowed. The recipient's network makes it more lenient: a proposal may
leave its network to its recipient, the decision then looks there and preparation
does not, and NETWORK_BLOCK passes a network that is missing. `BlockIsLost` names
that case, the only exception the property has; without it TLC finds such a payment in
`policy_session`.
`OnlyAuthorizedMoves` is of the pipeline. Of the smart account there is nothing of
the kind to say: it sends what it is told to, and who tells it is not in the code.
`ConfirmedStays` is of records with no call on them: a retry that read the record
before another call confirmed it may write over that.

## 4. Proofs

Eight modules hold theorems, all of them for every value of the constants:
`Payment_proofs` (the ledger, the executor, their composition), `Approvals_proofs`,
`Policy_proofs` (PolicyLifecycle and PolicySession), `Authorization_proofs` (with
the decision engine), `Trajectory_proofs`, `Delegation_proofs`,
`PaymentRails_proofs` and `AuditTrail_proofs`.

They assume no more than the modules' `ASSUME`s. Amounts are natural numbers, the
limit is one or is absent, and there are finitely many reservations. `NullType`
and `UnsetType` keep the value that stands for "not set" out of the values that
are. `PoliciesConfigured` says that the hours of an ALLOWED_HOURS rule are 0 to
23, as `evaluators.ts` documents them, and that a list rule has its list, of names
that exist; `ProposalsType` that a proposal's amount is a natural number or absent.

- Ledger. `RowWithinLimit` is not inductive: `Apply` may lower the row, never
  raise the sum of its totals, and this is the argument of `RowLimitHolds`. For
  `RowNeverOverstates` the invariant relates the row to the sums over
  reservations; sums are cardinalities of sets of units, so that lemmas about
  finite sets carry the arithmetic. For `LedgerIsExact` one adds that, without
  overlap, an open transaction's reservation still has a status it accepts.
- Executor. The inductive invariant `PipelineInv` is type correctness, "what is
  sent was sent by a call that got that far", "a record's hash is a transaction
  of its own execution", and for each execution outside `unguarded` that at most
  one call is past the check and, once it has recorded, no other can be.
- Payment. `PaymentInv` says that a reservation is bound to nothing or to the
  execution it was made for, and that an operation on it is justified: a commit by
  a transaction that has succeeded, a release by a call that was answered FAILED,
  for that execution. It carries the justification along the handler's way, from
  the answer to the open transaction. It rests on the executor being called only
  for a request that was minted, and on what it answers and what the chain
  settles being final. `CommittedIsPaid` and `LiveIsBudgeted`
  follow. For `PaymentImplementsLedger` every step of the composition is shown to
  be a step of the ledger or none; a `Die` rolls back at most the one transaction
  that its handler has open. So all that is proved of the ledger holds of payments,
  its limit for one (`PaymentsStayInBudget`), and all that is proved of the
  executor, as each step is its or none (`PaymentsSentOnce`, with the exception of
  `unguarded` that `AtMostOneBroadcast` has: overlapping calls and calls after a restart).
  `BookedOnce` needs `OnceInv`: of the handlers that prepare one execution only the
  one that minted the request gets to bind, nothing is bound before it, and what is
  not bound is never committed. `RecordsAreTrue` needs `TrueInv`: every CONFIRMED
  on its way, in the store, in an answer or in a handler about to write it, has a
  successful transaction behind it, so that no order of writing makes it false.
- Approvals. The invariant says an APPROVED status has a result row for the
  request's context and that an open approval's context is the request's.
- Decisions. `ResultIsTheWorst` holds of every input, of any run: a set of rungs
  that is not empty has a first (`FirstRung`, by five steps of four rungs, as the
  library's least-element theorem takes an operator), the reviews are the last
  four rungs (`Ladder`), and so the first rung not cleared is a review exactly
  when none of them denies. `AdviceIsAdvisory` follows from it.
- Authorization. `AllowedUnderAuthority` is not inductive: the handler knows
  only what it read, at times that differ. `FoundInForce` adds that all that is
  in force now is in `stood`, that an agent never loses its policy pointer, and
  that a capability outside the handler's clock, if it is ACTIVE, was in force
  since the start. The last needs `Unlapsed`: no capability is granted with a
  window that has already run out. `AllowedAsProposed`: only `Revalidate` leads to
  `mint`; it does so on an ALLOW, an ALLOW has no objection, and so the comparison, the
  binding and the simulation had none (`AllowedEvidence`).
- Trajectory. The rows are in place under one head: row n follows row n - 1 and
  the head is the last. A head that a worker read was the head at some time, so
  the row it is about to insert follows a row that is there; the unique index
  lets it in only if its number is not taken, and then its place is the head.
  `TraceImplementsHashChain` follows, step by step: an insert is `Extend`, a
  completion `Close`, all else stutters.
  `ExactlyOnceInOrder` compares the chain with what one pass over the stream would
  make of it. `OrderInv` says how far the worker is on that pass: a delivered
  entry is acknowledged or pending with one consumer, and while nothing was
  disturbed the acknowledged ones are a run from the first, only the next is being
  handled, and the chain is that of a pass over the run. That one more entry makes
  of the chain what `Ingest` says is the step; that two passes agree, and that each
  length has one, is proved by least counterexample (`LeastNumber`, from the
  well-foundedness of the natural numbers, as the library's induction theorems
  take an operator).
- Delegation. The authority of a row never changes, so that a child is within its
  parent is for good once checked; containment composes along the line. A
  constitution that was in force never becomes a draft again, hence
  `LawfulAllAlong`. A revocation that is not raced has found every live child
  when it commits, and two activations that do not overlap see each other's row.
- Policy lifecycle. Versions are numbered without gaps, so the next number is
  the count of them. A version that two handlers work on is in `crossed`; of any
  other, what its handler found legal is legal still when it writes. While no
  activations overlap there is one at a time, and it has found all that is in
  force. An activation is of a version in `approved`, hence `ApprovedBeforeForce`.
- Policy session. A rule that lets the context of preparation pass keeps the
  promise it makes (`ClearedIsHonoured`, with `HoursInWindow` for windows that
  cross midnight), hence `PaidWithinRules`. That context shows a rule less than
  the orchestrator's: REQUIRED_PREDECESSOR and NETWORK_ALLOW then refuse, and but for
  NETWORK_BLOCK no rule passes for it (`PrepareIsNoMoreLenient`, outside
  `BlockIsLost`). So what a decision refused is refused at preparation
  for as long as nothing it looked at moves, hence `NoPaymentAgainstDecision`.
- Payment rails. What the registry resolves for a call was registered for that
  call, by one id or the other (`RegistryOK`). A pipeline call reads its context
  once and is on the network that the context names; what `Check` lets pass is what
  the context authorizes (`PassedIsAuthorized`), and nothing that moves underneath
  touches the call's own copy. `CallOK` adds that nothing is on the chain before a call is past
  its sending step, so that a transaction, once there, keeps the context it was
  checked against. A mined transaction's receipt does not change, so what was
  verified of it stays so; `VerifiedReceipt` needs that a receipt has a first
  matching transfer, and the token moves at most two.
- Audit. `AppendInv`: while no two appends overlapped, one is open at a time
  and the head that it read is the head still. The new row is stamped no earlier
  than any other, so that with distinct times the order by time is the order of
  the chain. `ConfirmedStays`: a record changes by a call on it only, and none begins
  on a record that is CONFIRMED. `RegistryIsFirst`: a transaction succeeds only
  while the registry holds nothing for its execution, and what it then holds is
  never replaced; it is an inductive invariant, proved and in no run.

Model-checked only:

- `DeliveredIsSettled` and `EveryCallEnds`: liveness under fairness is outside the
  prover's reach.
- `structured_spend`, which expects a violation.

## 5. Not modelled, and the plan

- AI layer (`ML/`): advisory only; Core's decision engine is proved to give its
  advice no authority (`AdviceIsAdvisory`). Its provider router and Core client
  would be the next components.
- Frontend: a demonstration surface that proxies to Core.
- Idempotency service: its outcome is not used by its only caller.
- The x402 facilitator's settlement, a call to a service outside; the encoding
  of calldata, gas and nonces of ordinary transactions.
- Trajectory and audit forensics only read. Request parsing, authentication,
  envelopes, logging and redaction are I/O without state of their own.
- Failures of Redis other than of an acknowledgement: a read that fails delivers nothing.
- The plan: the wiring of registry, smart account, attestation and audit into the
  endpoints, and the host of the trajectory worker, once the code has them.
