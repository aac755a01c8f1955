------------------------------ MODULE Payment -------------------------------
(***************************************************************************)
(* The whole life of a payment: Core's execution gate and its ledger,      *)
(* the executor, the chain, and the driver that carries requests and       *)
(* results between them (Backend/scripts/live-e2e.mjs).  Core is given the *)
(* executor's answers; a result may be posted any number of times, late    *)
(* and out of order, and an operator may reconcile or verify at any time.  *)
(***************************************************************************)
EXTENDS ExecutionGate

vars == <<gateVars, executorVars>>

TypeOK == GateTypeOK /\ ExecutorTypeOK
Init == GateInit /\ ExecutorInit

(* A call is made only for an ExecutionRequest that Core has minted. *)
ExecutorStep ==
    /\ ExecutorNext
    /\ \A c \in Call : call[c].at = "unused" /\ call'[c].at # "unused"
          => request[call[c].exec] # "none"
    /\ UNCHANGED gateVars

(* Mutant of Ingestible: a replayed PENDING is taken in as well. *)
IngestsPending(answer) == answer # "none"

(* PENDING is not a value of Core's status enum: the handler throws before *)
(* it writes.                                                              *)
Ingestible(answer) == answer \in {"CONFIRMED", "FAILED", "UNKNOWN"}

(* The driver posts what an execute call returned.                         *)
PostResult(h, c) ==
    /\ Ingestible(call[c].answer)
    /\ IngestResult(h, call[c].exec, call[c].answer)
    /\ UNCHANGED executorVars

(* Mutant of ReconcileAnswer: no record is taken for a failure. *)
MissingIsFailed(e) ==
    IF GetResult(e) = "none" THEN "FAILED" ELSE GetResult(e)

ReconcileAnswer(e) == GetResult(e)

AskResult(h, e) ==
    /\ Reconcile(h, e, ReconcileAnswer(e))
    /\ UNCHANGED executorVars

AskVerification(h, e) ==
    /\ CanVerify(e)
    /\ Verify(h, e, IF Verified(e) THEN "VERIFIED" ELSE "MISMATCH")
    /\ UNCHANGED executorVars

Next ==
    \/ GateStep /\ UNCHANGED executorVars
    \/ ExecutorStep
    \/ \E h \in Handler : \/ \E c \in Call : PostResult(h, c)
                          \/ \E e \in Exec : AskResult(h, e) \/ AskVerification(h, e)

Spec == Init /\ [][Next]_vars

-----------------------------------------------------------------------------
MadeFor(e) == {r \in Reservation : madeFor[r] = e}

(* Money is only ever booked as spent when it moved: a COMMITTED           *)
(* reservation belongs to an execution one of whose transactions           *)
(* succeeded, however handlers, retries and restarts interleave            *)
(* (financial.service.ts:17-18, execution-result.service.ts:199-209).      *)
CommittedIsPaid ==
    \A r \in Reservation : status[r] = "COMMITTED" =>
        \E c \in Sent(binding[r]) : chain[c] = "success"

(* Money that has moved, or still may, is covered by budget: while a       *)
(* transaction of the execution is pending or has succeeded, a reservation *)
(* made for it is held or committed.  Only a lost broadcast reply or a     *)
(* call that missed another's record can break it                          *)
(* (execution-result.service.ts:107-114, 119-149).                         *)
LiveIsBudgeted ==
    \A e \in Exec \ (lost \cup unguarded) :
        (\E c \in Sent(e) : chain[c] \in {"pending", "success"})
            => \E r \in MadeFor(e) : status[r] \in {"RESERVED", "UNKNOWN", "COMMITTED"}

(* A payment is booked once.  Two preparations of one execution may each   *)
(* hold budget before either mints the request; the request and the budget *)
(* that is bound to it are one, so no two of these are ever spent          *)
(* (final-revalidation.service.ts:298-346, schema.prisma:689).             *)
BookedOnce ==
    \A r, q \in Reservation :
        status[r] = "COMMITTED" /\ status[q] = "COMMITTED" /\ madeFor[r] = madeFor[q]
            => r = q

(* What Core has on record of an execution agrees with the chain, though   *)
(* each result overwrites the last in whatever order they come: CONFIRMED  *)
(* and VERIFIED only of a payment that was made, FAILED only while nothing *)
(* of it may move (execution-result.service.ts:77-114, 119-149, 153-211).  *)
RecordsAreTrue ==
    \A e \in Exec :
        /\ request[e] = "CONFIRMED" \/ e \in verdict => \E c \in Sent(e) : chain[c] = "success"
        /\ request[e] = "FAILED" /\ e \notin lost \cup unguarded
              => \A c \in Sent(e) : chain[c] = "reverted"

(* Core touches the account only through the ledger's operations: its      *)
(* behaviours, seen through the ledger's variables, are the ledger's, so   *)
(* what is proved of Reservations holds of them.                           *)
ImplementsLedger == LedgerSpec
=============================================================================
