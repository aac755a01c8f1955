--------------------------- MODULE ExecutionGate ----------------------------
(***************************************************************************)
(* Core's execution gate: the minting end of final revalidation            *)
(* (Backend/src/execution-gate/final-revalidation.service.ts) and the      *)
(* three handlers that settle an execution                                 *)
(* (Backend/src/execution-gate/execution-result.service.ts), on top of the *)
(* ledger of module Reservations.  A Handler is a request inside Core, an  *)
(* Exec a logical execution with its one idempotency key.                  *)
(*                                                                         *)
(* None of them is one transaction: each is a row of separate database     *)
(* statements and awaits, so a handler is a small program here, `work'     *)
(* holding where it stands, and a handler may die between any two steps.   *)
(* The checks that lead to ALLOW change nothing and are left out: Prepare  *)
(* is a request that passed them.  The executor's answers are parameters   *)
(* here; module Payment fetches them.                                      *)
(***************************************************************************)
EXTENDS Reservations, ExecutionPipeline

CONSTANT None     \* a null reference

ASSUME NullType == None \notin Exec \cup Reservation

VARIABLES
    request,   \* status of each execution's ExecutionRequest, "none" before
    binding,   \* executionRequestId of each reservation
    madeFor,   \* history: the execution each reservation was made for
    work,      \* the program counter of each handler
    verdict    \* executions with a VERIFIED receipt verification record

gateVars == <<ledgerVars, request, binding, madeFor, work, verdict>>

RequestStatus == {"none", "AUTHORIZED", "SUBMITTED", "CONFIRMED", "FAILED", "UNKNOWN"}
At == {"idle", "reserve", "create", "bind",         \* revalidate
       "resolve", "verdict",                        \* reconcile, verify
       "find", "apply"}                             \* then the ledger call
Answer == {"none", "CONFIRMED", "FAILED", "VERIFIED", "MISMATCH"}

Work == [at: At, exec: Exec \cup {None}, res: Reservation \cup {None},
         answer: Answer, op: Op \cup {"none"}]
Idle == [at |-> "idle", exec |-> None, res |-> None,
         answer |-> "none", op |-> "none"]
At0(at, e) == [Idle EXCEPT !.at = at, !.exec = e]
Finding(op, e) == [Idle EXCEPT !.at = "find", !.exec = e, !.op = op]

GateTypeOK ==
    /\ LedgerTypeOK
    /\ request \in [Exec -> RequestStatus]
    /\ binding \in [Reservation -> Exec \cup {None}]
    /\ madeFor \in [Reservation -> Exec \cup {None}]
    /\ work \in [Handler -> Work]
    /\ verdict \subseteq Exec

GateInit ==
    /\ LedgerInit
    /\ request = [e \in Exec |-> "none"]
    /\ binding = [r \in Reservation |-> None]
    /\ madeFor = [r \in Reservation |-> None]
    /\ work = [h \in Handler |-> Idle]
    /\ verdict = {}

Goto(h, w) == work' = [work EXCEPT ![h] = w]

-----------------------------------------------------------------------------
(* revalidate, from the idempotency key on.  register inserts the key or   *)
(* finds it, and its outcome is not used; a request that already exists    *)
(* for the key is returned.                                                *)
Prepare(h, e) ==
    /\ work[h] = Idle
    /\ request[e] = "none"
    /\ Goto(h, At0("reserve", e))
    /\ UNCHANGED <<ledgerVars, request, binding, madeFor, verdict>>

(* Mutant of Holds: the limit is tested by the caller, not under the lock. *)
HoldsUnchecked(r) ==
    /\ status[r] = "NONE"
    /\ status' = [status EXCEPT ![r] = "RESERVED"]
    /\ account' = [account EXCEPT !.reserved = @ + Amount[r]]
    /\ UNCHANGED <<open, overlapped>>

(* financialService.reserve, from the gate's point of view. *)
Holds(r) == Reserve(r)

(* The budget is held before the request exists, and not yet bound to it.  *)
ReserveBudget(h, r) ==
    /\ work[h].at = "reserve"
    /\ Holds(r)
    /\ madeFor' = [madeFor EXCEPT ![r] = work[h].exec]
    /\ Goto(h, [work[h] EXCEPT !.at = "create", !.res = r])
    /\ UNCHANGED <<request, binding, verdict>>

(* POLICY_VIOLATION from reserve: DENY, budget_exceeded. *)
BudgetExceeded(h, r) ==
    /\ work[h].at = "reserve"
    /\ status[r] = "NONE"
    /\ ~Fits(Amount[r])
    /\ Goto(h, Idle)
    /\ UNCHANGED <<ledgerVars, request, binding, madeFor, verdict>>

(* Mutant of Unminted: the key of the request is not unique. *)
KeyNotUnique(e) == TRUE

(* The unique index on the idempotency key admits one request. *)
Unminted(e) == request[e] = "none"

CreateRequest(h) ==
    /\ work[h].at = "create"
    /\ Unminted(work[h].exec)
    /\ request' = [request EXCEPT ![work[h].exec] = "AUTHORIZED"]
    /\ Goto(h, [work[h] EXCEPT !.at = "bind"])
    /\ UNCHANGED <<ledgerVars, binding, madeFor, verdict>>

(* A second request is refused: create throws, and the reservation already *)
(* made stays as it is.                                                    *)
CreateRefused(h) ==
    /\ work[h].at = "create"
    /\ ~Unminted(work[h].exec)
    /\ Goto(h, Idle)
    /\ UNCHANGED <<ledgerVars, request, binding, madeFor, verdict>>

Bind(h) ==
    /\ work[h].at = "bind"
    /\ binding' = [binding EXCEPT ![work[h].res] = work[h].exec]
    /\ Goto(h, Idle)
    /\ UNCHANGED <<ledgerVars, request, madeFor, verdict>>

-----------------------------------------------------------------------------
(* ingestResult: record the result, mirror its status in the request       *)
(* whatever that was, then hold the reservation on UNKNOWN, release it on  *)
(* FAILED.                                                                 *)
IngestResult(h, e, s) ==
    /\ work[h] = Idle
    /\ request[e] # "none"
    /\ request' = [request EXCEPT ![e] = s]
    /\ Goto(h, CASE s = "UNKNOWN" -> Finding("markUnknown", e)
                 [] s = "FAILED"  -> Finding("release", e)
                 [] OTHER         -> Idle)
    /\ UNCHANGED <<ledgerVars, binding, madeFor, verdict>>

(* reconcile, up to the executor's answer; on any but CONFIRMED and FAILED *)
(* it ends as STILL_UNKNOWN with nothing changed.                          *)
Reconcile(h, e, answer) ==
    /\ work[h] = Idle
    /\ request[e] # "none"
    /\ answer \in {"CONFIRMED", "FAILED"}
    /\ Goto(h, [At0("resolve", e) EXCEPT !.answer = answer])
    /\ UNCHANGED <<ledgerVars, request, binding, madeFor, verdict>>

Resolve(h) ==
    /\ work[h].at = "resolve"
    /\ request' = [request EXCEPT ![work[h].exec] = work[h].answer]
    /\ Goto(h, IF work[h].answer = "FAILED"
               THEN Finding("reconcileRelease", work[h].exec) ELSE Idle)
    /\ UNCHANGED <<ledgerVars, binding, madeFor, verdict>>

(* verifyAndFinalize, up to the executor's verification. *)
Verify(h, e, answer) ==
    /\ work[h] = Idle
    /\ request[e] # "none"
    /\ Goto(h, [At0("verdict", e) EXCEPT !.answer = answer])
    /\ UNCHANGED <<ledgerVars, request, binding, madeFor, verdict>>

(* Mutant of Commits: finalize on any verification record. *)
CommitsAlways(answer) == TRUE

(* Only a verified receipt commits. *)
Commits(answer) == answer = "VERIFIED"

RecordVerdict(h) ==
    /\ work[h].at = "verdict"
    /\ verdict' = IF work[h].answer = "VERIFIED"
                  THEN verdict \cup {work[h].exec} ELSE verdict
    /\ Goto(h, IF Commits(work[h].answer) THEN Finding("commit", work[h].exec)
                                          ELSE Idle)
    /\ UNCHANGED <<ledgerVars, request, binding, madeFor>>

-----------------------------------------------------------------------------
(* The status each finder filters on: only reconcile also takes UNKNOWN.   *)
Findable(op) ==
    IF op = "reconcileRelease" THEN {"RESERVED", "UNKNOWN"} ELSE {"RESERVED"}

Found(h) ==
    {r \in Reservation : /\ binding[r] = work[h].exec
                         /\ status[r] \in Findable(work[h].op)}

(* findFirst the execution's reservation and begin the ledger operation.   *)
FindReservation(h, r) ==
    /\ work[h].at = "find"
    /\ r \in Found(h)
    /\ Begin(h, work[h].op, r)
    /\ Goto(h, [work[h] EXCEPT !.at = "apply"])
    /\ UNCHANGED <<request, binding, madeFor, verdict>>

(* No reservation of that status: the handler ends without a ledger call.  *)
FindNone(h) ==
    /\ work[h].at = "find"
    /\ Found(h) = {}
    /\ Goto(h, Idle)
    /\ UNCHANGED <<ledgerVars, request, binding, madeFor, verdict>>

ApplyToLedger(h) ==
    /\ work[h].at = "apply"
    /\ \E t \in open : t.by = h /\ Apply(t)
    /\ Goto(h, Idle)
    /\ UNCHANGED <<request, binding, madeFor, verdict>>

(* The process dies, or a statement fails and the error ends the request:  *)
(* what is written stays written, a ledger transaction is rolled back.     *)
Die(h) ==
    /\ work[h] # Idle
    /\ Goto(h, Idle)
    /\ open' = {t \in open : t.by # h}
    /\ UNCHANGED <<account, status, overlapped, request, binding, madeFor, verdict>>

(* Steps that do not involve the executor. *)
GateStep ==
    \E h \in Handler :
        \/ \E e \in Exec : Prepare(h, e)
        \/ \E r \in Reservation : \/ ReserveBudget(h, r) \/ BudgetExceeded(h, r)
                                  \/ FindReservation(h, r)
        \/ CreateRequest(h) \/ CreateRefused(h) \/ Bind(h)
        \/ Resolve(h) \/ RecordVerdict(h)
        \/ FindNone(h) \/ ApplyToLedger(h) \/ Die(h)
=============================================================================
