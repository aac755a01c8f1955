----------------------------- MODULE AuditTrail -----------------------------
(***************************************************************************)
(* The audit chain of one entity (Backend/src/audit/audit.service.ts) and  *)
(* the attestation records of executions (attestation.service.ts); and, on *)
(* the other side, the commitments Blockchain/src/attestation broadcasts   *)
(* to the write-once registry (contracts/src/AttestationRegistry.sol).     *)
(*                                                                         *)
(* The two sides are not connected in the code: Core submits through an    *)
(* interface of which it has a mock only, and nothing in Core calls the    *)
(* Blockchain adapter.  Neither action here lets one move the other.       *)
(*                                                                         *)
(* Handlers run side by side, one statement or await a step.  An append's  *)
(* statements are one transaction at READ COMMITTED: its row is seen when  *)
(* it commits.  An event stands for its content and its key.               *)
(***************************************************************************)
EXTENDS Naturals, Sequences

CONSTANTS
    Handler,
    Event,        \* audit events of the entity
    Attestation,  \* ids of attestation records
    Payload,      \* what may be attested
    ExecutionOf,  \* the execution each payload is of
    MaxCalls,     \* bound: calls in one behaviour
    MaxTime,      \* bound: the clock, in milliseconds
    Unset

ASSUME BoundsType == {MaxCalls, MaxTime} \subseteq Nat
ASSUME UnsetType == Unset \notin Event \cup Attestation \cup Payload

VARIABLES
    log,        \* the audit events of the entity
    clock,
    work,       \* where each handler stands
    calls,
    record,     \* the attestation records
    chain,      \* the registry transactions that were broadcast
    registry,   \* the payload committed to for each execution
    attester,   \* is the adapter's key an attester: "yes" or "no"
    mingled     \* history: have two appends overlapped: "yes" or "no"

auditVars == <<log, clock, mingled>>
attestVars == <<record, chain, registry, attester>>
vars == <<log, clock, work, calls, record, chain, registry, attester, mingled>>

Idle == [op |-> "idle", at |-> "idle", event |-> Unset, prev |-> <<>>, stamp |-> 0,
         id |-> Unset, payload |-> Unset, answer |-> Unset]
NoRecord == [status |-> "none", payload |-> Unset, submitted |-> Unset, confirmedAt |-> "null"]
Execution == {ExecutionOf[p] : p \in Payload}

Init ==
    /\ log = {}
    /\ clock = 0
    /\ work = [h \in Handler |-> Idle]
    /\ calls = 0
    /\ record = [a \in Attestation |-> NoRecord]
    /\ chain = <<>>
    /\ registry = [e \in Execution |-> Unset]
    /\ attester = "yes"
    /\ mingled = "no"

Call(h, w) ==
    /\ work[h].op = "idle" /\ calls < MaxCalls
    /\ work' = [work EXCEPT ![h] = w]
    /\ calls' = calls + 1

At(h, op, at) == work[h].op = op /\ work[h].at = at
Goto(h, w) == work' = [work EXCEPT ![h] = w]
Busy(h, op) == \E g \in Handler \ {h} : work[g].op = op

(* Time matters to appends only: it passes when one is under way. *)
Tick ==
    /\ clock < MaxTime
    /\ \E h \in Handler : work[h].op = "append"
    /\ clock' = clock + 1
    /\ UNCHANGED <<log, work, calls, mingled, attestVars>>

-----------------------------------------------------------------------------
(* A row's hash covers its event and the hash before it, hence every event *)
(* it was chained to: it is the sequence of them.                          *)
Genesis == <<>>
EventHash(prev, e) == Append(prev, e)

(* Mutant of Heads: ordered the other way around. *)
OldestHeads == {r \in log : \A q \in log : q.at >= r.at}

(* The rows that "orderBy createdAt desc" may put first: ties are open.    *)
Heads == {r \in log : \A q \in log : q.at <= r.at}

BeginAppend(h, e) ==
    /\ Call(h, [Idle EXCEPT !.op = "append", !.at = "head", !.event = e])
    /\ mingled' = IF Busy(h, "append") THEN "yes" ELSE mingled
    /\ UNCHANGED <<log, clock, attestVars>>

ReadHead(h) ==
    /\ At(h, "append", "head")
    /\ \E prev \in IF log = {} THEN {Genesis} ELSE {r.hash : r \in Heads} :
          Goto(h, [work[h] EXCEPT !.at = "dedupe", !.prev = prev])
    /\ UNCHANGED <<auditVars, calls, attestVars>>

(* Mutant of Recorded: events are told apart by their hash alone. *)
RecordedHere(h) ==
    \E r \in log : r.hash = EventHash(work[h].prev, work[h].event)

(* An event of the same fingerprint, or one of the same hash. *)
Recorded(h) ==
    \E r \in log : r.event = work[h].event \/ r.hash = EventHash(work[h].prev, work[h].event)

(* The lookups, and if they find nothing the insert, with its timestamp.   *)
Dedupe(h) ==
    /\ At(h, "append", "dedupe")
    /\ Goto(h, IF Recorded(h) THEN Idle
               ELSE [work[h] EXCEPT !.at = "commit", !.stamp = clock])
    /\ UNCHANGED <<auditVars, calls, attestVars>>

(* The unique index on the hash fails the second of two alike.             *)
CommitAppend(h) ==
    LET hash == EventHash(work[h].prev, work[h].event) IN
    /\ At(h, "append", "commit")
    /\ log' = IF \E r \in log : r.hash = hash THEN log
              ELSE log \cup {[event |-> work[h].event, prev |-> work[h].prev,
                              hash |-> hash, at |-> work[h].stamp]}
    /\ Goto(h, Idle)
    /\ UNCHANGED <<clock, calls, mingled, attestVars>>

(* verifyChain: in the order of createdAt each row follows the one before. *)
Verifies ==
    LET before(r) == {q \in log : q.at < r.at} IN
    \A r \in log :
        /\ r.hash = EventHash(r.prev, r.event)
        /\ IF before(r) = {} THEN r.prev = Genesis
           ELSE \E q \in before(r) : q.hash = r.prev /\ \A p \in before(r) : p.at <= q.at

-----------------------------------------------------------------------------
(* attest: the record is created PENDING, and then submitted. *)
Attest(h, a, p) ==
    /\ record[a].status = "none"
    /\ Call(h, [Idle EXCEPT !.op = "attest", !.at = "submit", !.id = a, !.payload = p])
    /\ record' = [record EXCEPT ![a] = [NoRecord EXCEPT !.status = "PENDING", !.payload = p]]
    /\ UNCHANGED <<auditVars, chain, registry, attester>>

(* Mutant of Retryable: a confirmed record is retried as well. *)
RetriesConfirmed(a) == record[a].status # "none"

Retryable(a) == record[a].status \notin {"none", "CONFIRMED"}

(* retry: of what the caller says the payload is. *)
Retry(h, a, p) ==
    /\ Retryable(a)
    /\ Call(h, [Idle EXCEPT !.op = "retry", !.at = "submit", !.id = a, !.payload = p])
    /\ UNCHANGED <<auditVars, attestVars>>

(* The adapter Core was given answers, as its interface allows: the mock   *)
(* CONFIRMED, or FAILED where it is configured to, without submitting      *)
(* anything; SUBMITTED is for one that is not written yet.                 *)
Submit(h) ==
    /\ work[h].at = "submit"
    /\ \E answer \in {"SUBMITTED", "CONFIRMED", "FAILED"} :
          Goto(h, [work[h] EXCEPT !.at = "write", !.answer = answer])
    /\ UNCHANGED <<auditVars, calls, attestVars>>

Updated(rec, h) ==
    IF work[h].answer = "FAILED" THEN [rec EXCEPT !.status = "FAILED"]
    ELSE [rec EXCEPT !.status = work[h].answer, !.submitted = work[h].payload,
             !.confirmedAt = IF work[h].answer = "CONFIRMED" \/ work[h].op = "retry"
                             THEN "set" ELSE "null"]

(* The record is updated by id, whatever it says by now, with the hash of  *)
(* what was submitted.  A retry sets confirmed_at also of a record that is *)
(* only SUBMITTED; FAILED leaves hash and confirmed_at as they were.       *)
WriteStatus(h) ==
    /\ work[h].at = "write"
    /\ record' = [record EXCEPT ![work[h].id] = Updated(@, h)]
    /\ Goto(h, Idle)
    /\ UNCHANGED <<auditVars, calls, chain, registry, attester>>

-----------------------------------------------------------------------------
(* The Blockchain adapter's attest broadcasts a commitment and answers at  *)
(* once; whether it says attested or, of a lost reply, failed is for its   *)
(* caller, and nothing keeps it from being sent again.                     *)
Broadcast(p) ==
    /\ calls < MaxCalls
    /\ calls' = calls + 1
    /\ chain' = Append(chain, [payload |-> p, status |-> "pending"])
    /\ UNCHANGED <<auditVars, work, record, registry, attester>>

(* The registry: attest, of an execution not yet attested, by an attester; *)
(* and its owner's setAttester, which matters to what is pending only.     *)
RegistryAttest(n) ==
    LET p == chain[n].payload
        accepts == attester = "yes" /\ registry[ExecutionOf[p]] = Unset
    IN /\ chain[n].status = "pending"
       /\ chain' = [chain EXCEPT ![n].status = IF accepts THEN "success" ELSE "reverted"]
       /\ registry' = IF accepts THEN [registry EXCEPT ![ExecutionOf[p]] = p] ELSE registry
       /\ UNCHANGED <<auditVars, work, calls, record, attester>>

SetAttester(allowed) ==
    /\ attester # allowed
    /\ \E n \in DOMAIN chain : chain[n].status = "pending"
    /\ attester' = allowed
    /\ UNCHANGED <<auditVars, work, calls, record, chain, registry>>

(* An error or a crash: a transaction rolls back, a record stays as it is. *)
Die(h) ==
    /\ work[h].op # "idle"
    /\ Goto(h, Idle)
    /\ UNCHANGED <<auditVars, calls, attestVars>>

Next ==
    \/ Tick
    \/ \E h \in Handler :
          \/ \E e \in Event : BeginAppend(h, e)
          \/ ReadHead(h) \/ Dedupe(h) \/ CommitAppend(h)
          \/ \E a \in Attestation, p \in Payload : Attest(h, a, p) \/ Retry(h, a, p)
          \/ Submit(h) \/ WriteStatus(h) \/ Die(h)
    \/ \E p \in Payload : Broadcast(p)
    \/ \E n \in DOMAIN chain : RegistryAttest(n)
    \/ \E allowed \in {"yes", "no"} : SetAttester(allowed)

Spec == Init /\ [][Next]_vars

-----------------------------------------------------------------------------
(* The chain verifies, through any crashes and repetitions, as long as no  *)
(* two appends overlapped and no two rows were written in one millisecond: *)
(* the head is found, and the chain walked, by a timestamp                 *)
(* (audit.service.ts:64-67, 128-155).                                      *)
ChainVerifies ==
    mingled = "no" /\ (\A r, q \in log : r.at = q.at => r = q) => Verifies

(* "re-appending with the same key is idempotent": an event delivered      *)
(* again, or appended again after a crash, is recorded once, unless two    *)
(* appends overlapped (audit.service.ts:30-35).                            *)
RecordedOnce ==
    mingled = "no" => \A r, q \in log : r.event = q.event => r = q

On(h, a) == work[h].op \in {"attest", "retry"} /\ work[h].id = a
Settled(a) == record[a].status = "CONFIRMED" /\ \A h \in Handler : ~On(h, a)

(* A record that is CONFIRMED once every call on it has ended is done with *)
(* for good: nothing is submitted for it any more and no field of it       *)
(* changes, however often and with whatever payload it is retried.  A call *)
(* still under way may undo it (attestation.service.ts:85-98).             *)
ConfirmedStays ==
    [][\A a \in Attestation : Settled(a) => Settled(a)' /\ record'[a] = record[a]]_vars

(* The registry holds for an execution what the one transaction it accepted *)
(* committed to, and no commitment sent again, sent late or with another   *)
(* payload, and no change of the attesters, replaces it                    *)
(* (AttestationRegistry.sol:74-75).                                        *)
RegistryIsFirst ==
    \A n \in DOMAIN chain : chain[n].status = "success" =>
        /\ registry[ExecutionOf[chain[n].payload]] = chain[n].payload
        /\ \A m \in DOMAIN chain :
              /\ chain[m].status = "success"
              /\ ExecutionOf[chain[m].payload] = ExecutionOf[chain[n].payload]
              => m = n
=============================================================================
