----------------------------- MODULE Approvals ------------------------------
(***************************************************************************)
(* Human approval requests: Backend/src/approval/approval.service.ts, with *)
(* the approval endpoints of Backend/src/api/routes/v1.ts.                 *)
(*                                                                         *)
(* approve and deny run in a transaction, cancel in none, but all three    *)
(* read the request first and then update it by its id alone: the          *)
(* transaction does not lock the row it read, so each is a read step and a *)
(* write step of a request handler, with other handlers in between.  Only  *)
(* expireStale tests the status in the statement that changes it.          *)
(* The company is one: every lookup filters on the caller's company, so a  *)
(* request of another one is never found.                                  *)
(***************************************************************************)
CONSTANTS
    Handler,   \* concurrent API requests
    Request,   \* ids of the approval requests that may be created
    Context,   \* decision context hashes
    Role,      \* roles of authenticated actors
    Approver,  \* APPROVER_ROLES
    Required,  \* the role a decision's approval request asks for
    Admin      \* the role that satisfies any requirement

ASSUME RolesType == Approver \subseteq Role /\ Required \in Role /\ Admin \in Role

VARIABLES
    status,     \* of each request; "NONE" before it is created
    bound,      \* the context hash each request was created for
    overdue,    \* requests whose expires_at has passed
    results,    \* the approval_results rows
    open,       \* handlers that have read a request and not yet written it
    overlapped  \* history: requests with two handlers between read and write

vars == <<status, bound, overdue, results, open, overlapped>>

Terminal == {"APPROVED", "DENIED", "EXPIRED", "CANCELLED"}
Op == {"approve", "deny", "cancel", "expire"}
Pending == [by: Handler, op: Op, of: Request, context: Context]
ResultRow == [by: Handler, of: Request, result: {"APPROVED", "DENIED"},
              context: Context]

TypeOK ==
    /\ status \in [Request -> Terminal \cup {"NONE", "PENDING"}]
    /\ bound \in [Request -> Context]
    /\ overdue \subseteq Request
    /\ results \subseteq ResultRow
    /\ open \subseteq Pending
    /\ overlapped \subseteq Request

Init ==
    /\ status = [r \in Request |-> "NONE"]
    /\ bound \in [Request -> Context]
    /\ overdue = {}
    /\ results = {}
    /\ open = {}
    /\ overlapped = {}

-----------------------------------------------------------------------------
(* createRequest: a REVIEW decision opens a request for its context hash.  *)
Create(r) ==
    /\ status[r] = "NONE"
    /\ status' = [status EXCEPT ![r] = "PENDING"]
    /\ UNCHANGED <<bound, overdue, results, open, overlapped>>

(* expires_at passes. *)
Lapse(r) ==
    /\ status[r] # "NONE"
    /\ r \notin overdue
    /\ overdue' = overdue \cup {r}
    /\ UNCHANGED <<status, bound, results, open, overlapped>>

Authorized(role) == role \in Approver /\ role \in {Required, Admin}

(* Mutant of Loadable: a request of any status is loaded. *)
LoadsTerminal(r) == status[r] # "NONE" /\ r \notin overdue

(* loadPendingTx lets the operation go on.  On an overdue request it       *)
(* throws inside the transaction, which takes its EXPIRED update back.     *)
Loadable(r) == status[r] = "PENDING" /\ r \notin overdue

(* Mutant of ContextMatches: approve does not compare context hashes. *)
AnyContext(r, context) == TRUE

ContextMatches(r, context) == bound[r] = context

Begin(h, op, r, context) ==
    /\ \A t \in open : t.by # h
    /\ open' = open \cup {[by |-> h, op |-> op, of |-> r, context |-> context]}
    /\ overlapped' = overlapped \cup {t.of : t \in {u \in open : u.of = r}}
    /\ UNCHANGED <<status, bound, overdue, results>>

BeginApprove(h, r, role, context) ==
    /\ Loadable(r)
    /\ Authorized(role)
    /\ ContextMatches(r, context)
    /\ Begin(h, "approve", r, context)

BeginDeny(h, r, role) ==
    /\ Loadable(r)
    /\ Authorized(role)
    /\ Begin(h, "deny", r, bound[r])

(* cancel loads outside a transaction: on an overdue request the EXPIRED   *)
(* update is kept, and the call then throws.                               *)
BeginCancel(h, r) ==
    /\ status[r] = "PENDING"
    /\ Begin(h, IF r \in overdue THEN "expire" ELSE "cancel", r, bound[r])

(* The status each operation writes. *)
Writes(op) == CASE op = "approve" -> "APPROVED" [] op = "deny" -> "DENIED"
                [] op = "cancel" -> "CANCELLED" [] op = "expire" -> "EXPIRED"

(* Mutant of Recorded: the result row always says APPROVED. *)
AlwaysApproved(t) ==
    IF t.op \in {"approve", "deny"}
    THEN {[by |-> t.by, of |-> t.of, result |-> "APPROVED", context |-> t.context]}
    ELSE {}

(* The result row that approve and deny insert beside the update. *)
Recorded(t) ==
    IF t.op \in {"approve", "deny"}
    THEN {[by |-> t.by, of |-> t.of, result |-> Writes(t.op), context |-> t.context]}
    ELSE {}

(* The update by id, whatever the status has become, and the commit. *)
Write(t) ==
    /\ status' = [status EXCEPT ![t.of] = Writes(t.op)]
    /\ results' = results \cup Recorded(t)
    /\ open' = open \ {t}
    /\ UNCHANGED <<bound, overdue, overlapped>>

(* The handler dies before its write: nothing of it remains. *)
Die(t) ==
    /\ open' = open \ {t}
    /\ UNCHANGED <<status, bound, overdue, results, overlapped>>

(* Mutant of Stale: the update does not test the status. *)
StaleInAnyStatus == overdue

Stale == {r \in overdue : status[r] = "PENDING"}

(* expireStale: one conditional update. *)
ExpireStale ==
    /\ Stale # {}
    /\ status' = [r \in Request |-> IF r \in Stale THEN "EXPIRED" ELSE status[r]]
    /\ UNCHANGED <<bound, overdue, results, open, overlapped>>

Next ==
    \/ \E r \in Request : Create(r) \/ Lapse(r)
    \/ \E h \in Handler, r \in Request :
          \/ \E role \in Role, context \in Context : BeginApprove(h, r, role, context)
          \/ \E role \in Role : BeginDeny(h, r, role)
          \/ BeginCancel(h, r)
    \/ \E t \in open : Write(t) \/ Die(t)
    \/ ExpireStale

Spec == Init /\ [][Next]_vars

-----------------------------------------------------------------------------
(* resolveApprovalState: what the Decision Engine is told of a request.    *)
ApprovalState(r, context) ==
    CASE status[r] = "NONE" -> "NONE"
      [] status[r] = "EXPIRED" -> "EXPIRED"
      [] status[r] = "PENDING" -> IF r \in overdue THEN "EXPIRED" ELSE "PENDING"
      [] status[r] \in {"DENIED", "CANCELLED"} -> "DENIED"
      [] OTHER -> IF bound[r] = context THEN "APPROVED" ELSE "MISMATCH"

ResultsOf(r) == {x \in results : x.of = r}

(* The Decision Engine is told APPROVED only of a request that somebody    *)
(* approved for the very context it is asked about: no race, expiry or     *)
(* cancellation produces an approval that no result row accounts for       *)
(* (approval.service.ts:140-166, 216-232).                                 *)
ApprovalIsEarned ==
    \A r \in Request, context \in Context :
        ApprovalState(r, context) = "APPROVED" =>
            \E x \in ResultsOf(r) : x.result = "APPROVED" /\ x.context = context

(* A request that no two handlers were inside of has one verdict: at most  *)
(* one result row, and the status that row records                         *)
(* (approval.service.ts:144-165, 176-194).                                 *)
OneVerdict ==
    \A r \in Request \ overlapped :
        /\ \A x, y \in ResultsOf(r) : x = y
        /\ \A x \in ResultsOf(r) : status[r] = x.result
        /\ status[r] \in {"APPROVED", "DENIED"} => ResultsOf(r) # {}

(* A terminal status of such a request stays, but for one case: the        *)
(* housekeeping update expires it between a handler's read and its write.  *)
(* The housekeeping itself never touches a terminal status                 *)
(* (approval.service.ts:13-14, 204-210).                                   *)
NoReopeningStep ==
    \A r \in Request \ overlapped :
        status[r] \in Terminal /\ status'[r] # status[r] =>
            status[r] = "EXPIRED" /\ \E t \in open : t.of = r
NoReopening == [][NoReopeningStep]_vars
=============================================================================
