-------------------------- MODULE Approvals_proofs --------------------------
(***************************************************************************)
(* Proofs about approval requests, for any number of requests, handlers,   *)
(* contexts and roles.                                                     *)
(***************************************************************************)
EXTENDS Approvals, TLAPS

(* An approve between its read and its write carries the request's own     *)
(* context, and an APPROVED request has the row of such an approve.        *)
OpenOnBoundContext ==
    \A t \in open : t.op = "approve" => t.context = bound[t.of]
ApprovedHasRow ==
    \A r \in Request : status[r] = "APPROVED" =>
        \E x \in results : x.of = r /\ x.result = "APPROVED" /\ x.context = bound[r]

(* On a request nobody overlapped on: one handler at a time is inside, it  *)
(* found no row, and it found a status that the housekeeping at most has   *)
(* expired since.                                                          *)
Alone(r) ==
    /\ \A t, u \in open : t.of = r /\ u.of = r => t = u
    /\ \A t \in open : t.of = r => /\ ResultsOf(r) = {}
                                   /\ status[r] \in {"PENDING", "EXPIRED"}
    /\ \A x, y \in ResultsOf(r) : x = y
    /\ \A x \in ResultsOf(r) : status[r] = x.result
    /\ status[r] \in {"NONE", "PENDING"} => ResultsOf(r) = {}
    /\ status[r] \in {"APPROVED", "DENIED"} => ResultsOf(r) # {}
AllAlone == \A r \in Request \ overlapped : Alone(r)

ApprovalInv == TypeOK /\ OpenOnBoundContext /\ ApprovedHasRow /\ AllAlone

(* The steps, with the two that lead nowhere else put together. *)
Opening(t) ==
    /\ status[t.of] = "PENDING"
    /\ t.op = "approve" => t.context = bound[t.of]
    /\ Begin(t.by, t.op, t.of, t.context)

(* Every way into a handler's middle is an Opening of a typed record.      *)
LEMMA BeginIsOpening ==
    ASSUME TypeOK, NEW h \in Handler, NEW r \in Request,
           \/ \E role \in Role, context \in Context : BeginApprove(h, r, role, context)
           \/ \E role \in Role : BeginDeny(h, r, role)
           \/ BeginCancel(h, r)
    PROVE  \E t \in Pending : Opening(t)
<1>1. ASSUME NEW role \in Role, NEW context \in Context, BeginApprove(h, r, role, context)
      PROVE  \E t \in Pending : Opening(t)
  <2> DEFINE t == [by |-> h, op |-> "approve", of |-> r, context |-> context]
  <2>1. t \in Pending /\ Opening(t)
    BY <1>1 DEF BeginApprove, Loadable, ContextMatches, Opening, Pending, Op
  <2> QED
    BY <2>1
<1>2. ASSUME NEW role \in Role, BeginDeny(h, r, role)
      PROVE  \E t \in Pending : Opening(t)
  <2> DEFINE t == [by |-> h, op |-> "deny", of |-> r, context |-> bound[r]]
  <2>1. t \in Pending /\ Opening(t)
    BY <1>2 DEF BeginDeny, Loadable, Opening, Pending, Op, TypeOK
  <2> QED
    BY <2>1
<1>3. ASSUME BeginCancel(h, r) PROVE \E t \in Pending : Opening(t)
  <2> DEFINE t == [by |-> h, op |-> IF r \in overdue THEN "expire" ELSE "cancel",
                   of |-> r, context |-> bound[r]]
  <2>1. t \in Pending /\ Opening(t)
    BY <1>3 DEF BeginCancel, Opening, Pending, Op, TypeOK
  <2> QED
    BY <2>1
<1> QED
  BY <1>1, <1>2, <1>3

(* What a write leaves in the row, and the result row beside it. *)
LEMMA WriteOutcome ==
    ASSUME NEW t \in Pending
    PROVE  /\ Writes(t.op) \in Terminal
           /\ Writes(t.op) = "APPROVED" => t.op = "approve"
           /\ Writes(t.op) \in {"APPROVED", "DENIED"} => t.op \in {"approve", "deny"}
           /\ t.op \in {"approve", "deny"} => Writes(t.op) \in {"APPROVED", "DENIED"}
<1>1. t.op \in Op
  BY DEF Pending
<1>2. /\ Writes("approve") = "APPROVED" /\ Writes("deny") = "DENIED"
      /\ Writes("cancel") = "CANCELLED" /\ Writes("expire") = "EXPIRED"
  BY DEF Writes
<1> QED
  BY <1>1, <1>2 DEF Op, Terminal

LEMMA ApprovalInit == Init => ApprovalInv
BY DEF Init, ApprovalInv, TypeOK, OpenOnBoundContext, ApprovedHasRow, AllAlone,
       Alone, ResultsOf, Terminal

LEMMA CreateStep ==
    ASSUME ApprovalInv, NEW r \in Request, Create(r) PROVE ApprovalInv'
BY DEF Create, ApprovalInv, TypeOK, OpenOnBoundContext, ApprovedHasRow, AllAlone,
       Alone, ResultsOf, Terminal

LEMMA LapseStep ==
    ASSUME ApprovalInv, NEW r \in Request, Lapse(r) PROVE ApprovalInv'
BY DEF Lapse, ApprovalInv, TypeOK, OpenOnBoundContext, ApprovedHasRow, AllAlone,
       Alone, ResultsOf

LEMMA OpeningStep ==
    ASSUME ApprovalInv, NEW t \in Pending, Opening(t) PROVE ApprovalInv'
<1> USE DEF ApprovalInv, Opening, Begin
<1> DEFINE t0 == [by |-> t.by, op |-> t.op, of |-> t.of, context |-> t.context]
<1>1. t = t0
  BY DEF Pending
<1>2. open' = open \cup {t}
  BY <1>1
<1>3. TypeOK'
  BY <1>2 DEF TypeOK, Pending
<1>4. OpenOnBoundContext'
  BY <1>2 DEF OpenOnBoundContext
<1>5. ApprovedHasRow'
  BY DEF ApprovedHasRow
<1>6. ASSUME NEW r \in Request \ overlapped' PROVE Alone(r)'
  <2>1. Alone(r) /\ r \notin overlapped
    BY <1>6 DEF AllAlone
  <2>2. t.of = r => \A u \in open : u.of # r
    BY <1>6
  <2>3. t.of = r => ResultsOf(r) = {}
    BY <2>1 DEF Alone
  <2> QED
    BY <1>2, <2>1, <2>2, <2>3 DEF Alone, ResultsOf
<1> QED
  BY <1>3, <1>4, <1>5, <1>6 DEF AllAlone

LEMMA WriteStep ==
    ASSUME ApprovalInv, NEW t \in open, Write(t) PROVE ApprovalInv'
<1> USE DEF ApprovalInv
<1>1. t \in Pending /\ t.of \in Request /\ t.op \in Op /\ t.by \in Handler /\ t.context \in Context
  BY DEF TypeOK, Pending
<1>2. Writes(t.op) \in Terminal /\ Recorded(t) \subseteq ResultRow
  BY <1>1, WriteOutcome DEF Recorded, ResultRow
<1>3. TypeOK'
  BY <1>1, <1>2 DEF Write, TypeOK
<1>4. OpenOnBoundContext'
  BY DEF Write, OpenOnBoundContext
<1>5. ASSUME NEW r \in Request, status'[r] = "APPROVED"
      PROVE  \E x \in results' : x.of = r /\ x.result = "APPROVED" /\ x.context = bound'[r]
  <2>1. CASE r # t.of
    BY <1>5, <2>1 DEF Write, TypeOK, ApprovedHasRow
  <2>2. CASE r = t.of
    <3>1. t.op = "approve" /\ Writes(t.op) = "APPROVED"
      BY <1>1, <1>5, <2>2, WriteOutcome DEF Write, TypeOK
    <3>2. Recorded(t) = {[by |-> t.by, of |-> r, result |-> "APPROVED", context |-> bound[r]]}
      BY <2>2, <3>1 DEF Recorded, OpenOnBoundContext
    <3> DEFINE x == [by |-> t.by, of |-> r, result |-> "APPROVED", context |-> bound[r]]
    <3>3. x \in results' /\ bound' = bound
      BY <3>2 DEF Write
    <3>4. x.of = r /\ x.result = "APPROVED" /\ x.context = bound[r]
      OBVIOUS
    <3> HIDE DEF x
    <3> QED
      BY <3>3, <3>4
  <2> QED
    BY <2>1, <2>2
<1>6. ASSUME NEW r \in Request \ overlapped' PROVE Alone(r)'
  <2>1. Alone(r)
    BY <1>6 DEF Write, AllAlone
  <2>2. CASE r # t.of
    <3>1. ResultsOf(r)' = ResultsOf(r)
      BY <1>1, <2>2 DEF Write, ResultsOf, Recorded
    <3>2. status'[r] = status[r] /\ open' \subseteq open
      BY <2>2 DEF Write, TypeOK
    <3> QED
      BY <2>1, <3>1, <3>2 DEF Alone
  <2>3. CASE r = t.of
    <3>1. ResultsOf(r) = {} /\ \A u \in open' : u.of # r
      BY <2>1, <2>3 DEF Alone, Write
    <3>2. ResultsOf(r)' = Recorded(t)
      BY <2>3, <3>1 DEF Write, ResultsOf, Recorded
    <3>3. status'[r] = Writes(t.op)
      BY <1>1, <2>3 DEF Write, TypeOK
    <3>4. Writes(t.op) \notin {"NONE", "PENDING"}
      BY <1>1, WriteOutcome DEF Terminal
    <3>5. CASE t.op \in {"approve", "deny"}
      <4> DEFINE x == [by |-> t.by, of |-> t.of, result |-> Writes(t.op),
                       context |-> t.context]
      <4>1. ResultsOf(r)' = {x} /\ x.result = status'[r]
        BY <3>2, <3>3, <3>5 DEF Recorded
      <4> QED
        BY <3>1, <3>3, <3>4, <4>1 DEF Alone
    <3>6. CASE t.op \notin {"approve", "deny"}
      <4>1. ResultsOf(r)' = {} /\ status'[r] \notin {"APPROVED", "DENIED"}
        BY <1>1, <3>2, <3>3, <3>6, WriteOutcome DEF Recorded
      <4> QED
        BY <3>1, <3>3, <3>4, <4>1 DEF Alone
    <3> QED
      BY <3>5, <3>6
  <2> QED
    BY <2>2, <2>3
<1> QED
  BY <1>3, <1>4, <1>5, <1>6 DEF ApprovedHasRow, AllAlone

LEMMA DieStep ==
    ASSUME ApprovalInv, NEW t \in open, Die(t) PROVE ApprovalInv'
BY DEF Die, ApprovalInv, TypeOK, OpenOnBoundContext, ApprovedHasRow, AllAlone,
       Alone, ResultsOf

LEMMA ExpireStaleStep == ASSUME ApprovalInv, ExpireStale PROVE ApprovalInv'
BY DEF ExpireStale, Stale, ApprovalInv, TypeOK, OpenOnBoundContext, ApprovedHasRow,
       AllAlone, Alone, ResultsOf, Terminal

LEMMA ApprovalInvStep == ApprovalInv /\ [Next]_vars => ApprovalInv'
<1> SUFFICES ASSUME ApprovalInv, [Next]_vars PROVE ApprovalInv'
  OBVIOUS
<1>1. CASE UNCHANGED vars
  BY <1>1 DEF vars, ApprovalInv, TypeOK, OpenOnBoundContext, ApprovedHasRow,
              AllAlone, Alone, ResultsOf
<1>2. CASE \E r \in Request : Create(r) \/ Lapse(r)
  BY <1>2, CreateStep, LapseStep
<1>3. ASSUME NEW h \in Handler, NEW r \in Request,
             \/ \E role \in Role, context \in Context : BeginApprove(h, r, role, context)
             \/ \E role \in Role : BeginDeny(h, r, role)
             \/ BeginCancel(h, r)
      PROVE  ApprovalInv'
  <2>1. PICK t \in Pending : Opening(t)
    BY <1>3, BeginIsOpening DEF ApprovalInv
  <2> QED
    BY <2>1, OpeningStep
<1>4. CASE \E t \in open : Write(t) \/ Die(t)
  BY <1>4, WriteStep, DieStep
<1>5. CASE ExpireStale
  BY <1>5, ExpireStaleStep
<1> QED
  BY <1>1, <1>2, <1>3, <1>4, <1>5 DEF Next

LEMMA ApprovalInvHolds == Spec => []ApprovalInv
<1>1. Init => ApprovalInv
  BY ApprovalInit
<1>2. ApprovalInv /\ [Next]_vars => ApprovalInv'
  BY ApprovalInvStep
<1> QED
  BY <1>1, <1>2, PTL DEF Spec

(* The requests, their rows and the handlers on the way stay within their  *)
(* types (approval.service.ts:13-14, 134-194).                             *)
THEOREM ApprovalTypes == Spec => []TypeOK
<1>1. ApprovalInv => TypeOK
  BY DEF ApprovalInv
<1> QED
  BY <1>1, ApprovalInvHolds, PTL

(* The Decision Engine is told APPROVED only of what somebody approved for *)
(* the context in question, with every race, death and expiry             *)
(* (approval.service.ts:134-167, 216-232).                                 *)
THEOREM ApprovalsAreEarned == Spec => []ApprovalIsEarned
<1>1. ApprovalInv => ApprovalIsEarned
  BY DEF ApprovalInv, ApprovedHasRow, ApprovalIsEarned, ApprovalState, ResultsOf,
         TypeOK, Terminal
<1> QED
  BY <1>1, ApprovalInvHolds, PTL

(* A request no two handlers were inside of has one verdict                *)
(* (approval.service.ts:144-165, 176-194).                                 *)
THEOREM VerdictsAreSingle == Spec => []OneVerdict
<1>1. ApprovalInv => OneVerdict
  BY DEF ApprovalInv, AllAlone, Alone, OneVerdict
<1> QED
  BY <1>1, ApprovalInvHolds, PTL

(* Terminal statuses of such a request stay                                *)
(* (approval.service.ts:13-14, 204-210).                                   *)
THEOREM NoneIsReopened == Spec => NoReopening
<1>1. ApprovalInv /\ [Next]_vars => NoReopeningStep
  <2> SUFFICES ASSUME ApprovalInv, [Next]_vars, NEW r \in Request \ overlapped,
                      status[r] \in Terminal, status'[r] # status[r]
               PROVE  status[r] = "EXPIRED" /\ \E t \in open : t.of = r
    BY DEF NoReopeningStep
  <2> USE DEF ApprovalInv, TypeOK, Terminal
  <2>1. \A q \in Request : ~Create(q) \/ q # r
    BY DEF Create
  <2>2. ~UNCHANGED status
    OBVIOUS
  <2>3. ASSUME NEW t \in open, Write(t)
        PROVE  status[r] = "EXPIRED" /\ \E u \in open : u.of = r
    <3>1. t.of = r
      BY <2>3 DEF Write
    <3> QED
      BY <3>1 DEF AllAlone, Alone
  <2>4. ~ExpireStale
    BY DEF ExpireStale, Stale
  <2> QED
    BY <2>1, <2>2, <2>3, <2>4
    DEF Next, vars, Create, Lapse, BeginApprove, BeginDeny, BeginCancel, Begin, Die
<1> QED
  BY <1>1, ApprovalInvHolds, PTL DEF Spec, NoReopening
=============================================================================
