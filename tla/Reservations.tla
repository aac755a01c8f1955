---------------------------- MODULE Reservations ----------------------------
(***************************************************************************)
(* One financial account (budget bucket) of Core and the reservations made *)
(* against it: Backend/src/domain/financial/financial.service.ts.          *)
(*                                                                         *)
(* `reserve' takes the account row's lock before it reads anything the     *)
(* outcome depends on, so it is one atomic step.  The four operations that *)
(* change an existing reservation are not: each reads the reservation's    *)
(* status first, and only then (commit, release, reconcileRelease) locks   *)
(* the account row and writes, unconditionally, what follows from the      *)
(* status it read.  Prisma's interactive transactions run at Postgres'     *)
(* default READ COMMITTED, so another handler may write in between.  Each  *)
(* of them is therefore two steps, Begin and Apply, of a request handler.  *)
(***************************************************************************)
EXTENDS Integers, FiniteSets

CONSTANTS
    Handler,      \* request handlers that may be inside the service at once
    Reservation,  \* ids of the reservations that may be created
    Amount,       \* the amount each reservation is made for, fixed at creation
    Limit,        \* financial_accounts.limit_amount, or Unlimited when NULL
    Unlimited,
    MaxDrift      \* bound: how far below zero current_reserved is followed

ASSUME FiniteReservations == IsFiniteSet(Reservation)
ASSUME AmountType == Amount \in [Reservation -> Nat]
ASSUME LimitType == Limit \in Nat \/ Limit = Unlimited
ASSUME MaxDriftType == MaxDrift \in Nat

VARIABLES
    account,    \* the row's current_reserved and current_committed
    status,     \* the status of each reservation, "NONE" before it exists
    open,       \* transactions that have read a status and not yet written
    overlapped  \* history: reservations on which two were open at once

ledgerVars == <<account, status, open, overlapped>>

Status == {"NONE", "RESERVED", "COMMITTED", "RELEASED", "UNKNOWN"}
Op == {"commit", "release", "reconcileRelease", "markUnknown"}
Txn == [by: Handler, op: Op, res: Reservation]

LedgerTypeOK ==
    /\ account \in [reserved: Int, committed: Int]
    /\ status \in [Reservation -> Status]
    /\ open \subseteq Txn
    /\ overlapped \subseteq Reservation

LedgerInit ==
    /\ account = [reserved |-> 0, committed |-> 0]
    /\ status = [r \in Reservation |-> "NONE"]
    /\ open = {}
    /\ overlapped = {}

-----------------------------------------------------------------------------
(* Mutant of Accepts: release without the refusal at 196-200. *)
AcceptsUnknownToo(op) ==
    IF op = "commit" THEN {"RESERVED"} ELSE {"RESERVED", "UNKNOWN"}

(* The statuses on which each operation goes on; on any other it returns   *)
(* the reservation as it is, or throws.                                    *)
Accepts(op) ==
    IF op \in {"commit", "release"} THEN {"RESERVED"}
                                    ELSE {"RESERVED", "UNKNOWN"}

(* The status each operation writes, whatever the status is by then. *)
Writes(op) ==
    CASE op = "commit"      -> "COMMITTED"
      [] op = "markUnknown" -> "UNKNOWN"
      [] OTHER              -> "RELEASED"

(* Mutant of Moved: commit raises committed and keeps reserved. *)
MovedTwice(op, a) ==
    [reserved  |-> account.reserved
                      - (IF op \in {"commit", "markUnknown"} THEN 0 ELSE a),
     committed |-> account.committed + (IF op = "commit" THEN a ELSE 0)]

(* The account row after an operation on the amount a, from the totals it  *)
(* re-reads under FOR UPDATE; markUnknown leaves the row alone.            *)
Moved(op, a) ==
    [reserved  |-> account.reserved - (IF op = "markUnknown" THEN 0 ELSE a),
     committed |-> account.committed + (IF op = "commit" THEN a ELSE 0)]

(* Mutant of Fits: the projection forgets what is already committed. *)
FitsReservedOnly(a) == Limit = Unlimited \/ account.reserved + a <= Limit

Fits(a) ==
    Limit = Unlimited \/ account.reserved + account.committed + a <= Limit

(* reserve: lock the row, check the remaining budget, insert the           *)
(* reservation, raise current_reserved.  Over the limit it throws and the  *)
(* transaction changes nothing.                                            *)
Reserve(r) ==
    /\ status[r] = "NONE"
    /\ Fits(Amount[r])
    /\ status' = [status EXCEPT ![r] = "RESERVED"]
    /\ account' = [account EXCEPT !.reserved = @ + Amount[r]]
    /\ UNCHANGED <<open, overlapped>>

(* The first statement of commit, release, reconcileRelease, markUnknown:  *)
(* read the reservation's status.                                          *)
Begin(h, op, r) ==
    /\ \A t \in open : t.by # h
    /\ status[r] \in Accepts(op)
    /\ open' = open \cup {[by |-> h, op |-> op, res |-> r]}
    /\ overlapped' = overlapped \cup {t.res : t \in {u \in open : u.res = r}}
    /\ UNCHANGED <<account, status>>

(* The rest of the operation, from the row lock to the transaction's end.  *)
Apply(t) ==
    /\ Moved(t.op, Amount[t.res]).reserved >= -MaxDrift
    /\ account' = Moved(t.op, Amount[t.res])
    /\ status' = [status EXCEPT ![t.res] = Writes(t.op)]
    /\ open' = open \ {t}
    /\ UNCHANGED overlapped

(* The handler's process dies or its connection drops: Postgres rolls the  *)
(* transaction back.                                                       *)
Abort(t) ==
    /\ open' = open \ {t}
    /\ UNCHANGED <<account, status, overlapped>>

LedgerNext ==
    \/ \E r \in Reservation : Reserve(r)
    \/ \E h \in Handler, op \in Op, r \in Reservation : Begin(h, op, r)
    \/ \E t \in open : Apply(t)
    \/ \E t \in open : Abort(t)

LedgerSpec == LedgerInit /\ [][LedgerNext]_ledgerVars

-----------------------------------------------------------------------------
(* Total(S) is the sum of the amounts of the reservations in S, counted as *)
(* units of money: <<r, k>> is the k-th unit that r reserves.              *)
Units(S) == UNION {{r} \X (1 .. Amount[r]) : r \in S}
Total(S) == Cardinality(Units(S))

WithStatus(Q) == {r \in Reservation : status[r] \in Q}
Held == WithStatus({"RESERVED", "UNKNOWN"})
Exposed == WithStatus({"RESERVED", "UNKNOWN", "COMMITTED"})

(* The row never goes over the limit, whatever handlers overlap: no        *)
(* interleaving of the two-step operations raises reserved + committed,    *)
(* only reserve does, under the lock (financial.service.ts:89-121).        *)
RowWithinLimit ==
    Limit # Unlimited => account.reserved + account.committed <= Limit

(* Drift is one-way.  Overlapping finalizations can make the row disagree  *)
(* with its reservations, but never so as to strand budget: the row never  *)
(* holds more than the live reservations account for                       *)
(* (financial.service.ts:169-175, 214-217, 246-249).                       *)
RowNeverOverstates ==
    /\ account.reserved <= Total(Held)
    /\ account.reserved + account.committed <= Total(Exposed)

(* The ledger is exact, both totals of the row being the sums of its       *)
(* reservations, and with it the limit holds of the money really reserved  *)
(* and spent: true for as long as no reservation has been finalized by two *)
(* handlers at once (financial.service.ts:12-18).                          *)
LedgerExact ==
    overlapped = {} =>
        /\ account.reserved = Total(Held)
        /\ account.committed = Total(WithStatus({"COMMITTED"}))
        /\ Limit # Unlimited => Total(Exposed) <= Limit

(* Without such an overlap COMMITTED and RELEASED are final, and an UNKNOWN *)
(* hold is only ever freed, by a reconciliation                            *)
(* (financial.service.ts:185-188, 226-231).                                *)
FinalityStep ==
    overlapped = {} => \A r \in Reservation :
        /\ status[r] \in {"COMMITTED", "RELEASED"} => status'[r] = status[r]
        /\ status[r] = "UNKNOWN" /\ status'[r] # "UNKNOWN" =>
              \E t \in open : t.op = "reconcileRelease" /\ t.res = r
FinalityRespected == [][FinalityStep]_ledgerVars
=============================================================================
