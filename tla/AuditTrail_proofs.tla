-------------------------- MODULE AuditTrail_proofs --------------------------
(***************************************************************************)
(* Proofs about the audit chain and the attestations, for any numbers of   *)
(* handlers, events, attestations and calls: an event is recorded once,    *)
(* the chain verifies, and what is confirmed stays so.                     *)
(***************************************************************************)
EXTENDS AuditTrail, TLAPS

(* What the variables hold. *)
Row == [event: Event, prev: Seq(Event), hash: Seq(Event), at: Nat]
Position == [op: {"idle", "append", "attest", "retry"},
             at: {"idle", "head", "dedupe", "commit", "submit", "write"},
             event: Event \cup {Unset}, prev: Seq(Event), stamp: Nat,
             id: Attestation \cup {Unset}, payload: Payload \cup {Unset},
             answer: {Unset, "SUBMITTED", "CONFIRMED", "FAILED"}]
Record == [status: {"none", "PENDING", "SUBMITTED", "CONFIRMED", "FAILED"},
           payload: Payload \cup {Unset}, submitted: Payload \cup {Unset}, confirmedAt: {"null", "set"}]
Transaction == [payload: Payload, status: {"pending", "success", "reverted"}]

Answer == {"SUBMITTED", "CONFIRMED", "FAILED"}

OnCall(h) == work[h].op \in {"attest", "retry"}

(* What a handler knows depends on where it stands. *)
WellPlaced(h) ==
    /\ work[h].op = "append" => work[h].event \in Event
    /\ OnCall(h) => work[h].id \in Attestation /\ work[h].payload \in Payload
    /\ work[h].at \in {"submit", "write"} => OnCall(h)
    /\ work[h].at = "write" => work[h].answer \in Answer

AuditTypes ==
    /\ log \subseteq Row
    /\ clock \in Nat
    /\ work \in [Handler -> Position]
    /\ \A h \in Handler : WellPlaced(h)
    /\ record \in [Attestation -> Record]
    /\ chain \in Seq(Transaction)
    /\ registry \in [Execution -> Payload \cup {Unset}]

Appending(h) == work[h].op = "append"
Inserting(h) == At(h, "append", "commit")

(* The registry holds the payload for its execution. *)
Committed(p) == p \in Payload /\ registry[ExecutionOf[p]] = p

LEMMA IdleType == Idle \in Position
BY DEF Idle, Position

(* Only the handler h has moved. *)
Moved(h) ==
    /\ work' \in [Handler -> Position]
    /\ \A g \in Handler \ {h} : work'[g] = work[g]

LEMMA Moves ==
    ASSUME AuditTypes, NEW h \in Handler, NEW w \in Position,
           work' = [work EXCEPT ![h] = w]
    PROVE  Moved(h) /\ work'[h] = w
BY DEF AuditTypes, Moved

LEMMA AuditTypesInit == Init => AuditTypes
<1> SUFFICES ASSUME Init PROVE AuditTypes
  OBVIOUS
<1>1. work \in [Handler -> Position] /\ \A h \in Handler : WellPlaced(h)
  BY IdleType DEF Init, Idle, WellPlaced, OnCall
<1> QED
  BY <1>1 DEF Init, AuditTypes, NoRecord, Record, Execution

(* A position with some of its fields changed. *)
LEMMA Starting ==
    ASSUME NEW q \in Position, NEW e \in Event
    PROVE  \E w \in Position : /\ w = [q EXCEPT !.op = "append", !.at = "head", !.event = e]
                               /\ w.op = "append" /\ w.at = "head" /\ w.event = e
<1> DEFINE w == [q EXCEPT !.op = "append", !.at = "head", !.event = e]
<1>1. w \in Position
  BY DEF Position
<1>2. w.op = "append" /\ w.at = "head" /\ w.event = e
  BY DEF Position
<1> QED
  BY <1>1, <1>2

Called(q, o, a, p) == [q EXCEPT !.op = o, !.at = "submit", !.id = a, !.payload = p]

LEMMA Calling ==
    ASSUME NEW q \in Position, NEW o \in {"attest", "retry"},
           NEW a \in Attestation, NEW p \in Payload
    PROVE  \E w \in Position :
              /\ w = Called(q, o, a, p)
              /\ w.op = o /\ w.at = "submit" /\ w.id = a /\ w.payload = p
<1> DEFINE w == [q EXCEPT !.op = o, !.at = "submit", !.id = a, !.payload = p]
<1>1. w \in Position
  BY DEF Position
<1>2. w.op = o /\ w.at = "submit" /\ w.id = a /\ w.payload = p
  BY DEF Position
<1> QED
  BY <1>1, <1>2 DEF Called

LEMMA Chained ==
    ASSUME NEW p \in Position, NEW v \in Seq(Event)
    PROVE  \E w \in Position : /\ w = [p EXCEPT !.at = "dedupe", !.prev = v]
                               /\ w.op = p.op /\ w.at = "dedupe"
                               /\ w.event = p.event /\ w.prev = v
<1> DEFINE w == [p EXCEPT !.at = "dedupe", !.prev = v]
<1>1. w \in Position
  BY DEF Position
<1>2. w.op = p.op /\ w.at = "dedupe" /\ w.event = p.event /\ w.prev = v
  BY DEF Position
<1> QED
  BY <1>1, <1>2

LEMMA StampedAt ==
    ASSUME NEW p \in Position, NEW t \in Nat
    PROVE  \E w \in Position : /\ w = [p EXCEPT !.at = "commit", !.stamp = t]
                               /\ w.op = p.op /\ w.at = "commit" /\ w.event = p.event
                               /\ w.prev = p.prev /\ w.stamp = t
<1> DEFINE w == [p EXCEPT !.at = "commit", !.stamp = t]
<1>1. w \in Position
  BY DEF Position
<1>2. /\ w.op = p.op /\ w.at = "commit" /\ w.event = p.event
      /\ w.prev = p.prev /\ w.stamp = t
  BY DEF Position
<1> QED
  BY <1>1, <1>2

LEMMA Replied ==
    ASSUME NEW p \in Position, NEW x \in {"SUBMITTED", "CONFIRMED", "FAILED"}
    PROVE  \E w \in Position : /\ w = [p EXCEPT !.at = "write", !.answer = x]
                               /\ w.op = p.op /\ w.at = "write" /\ w.id = p.id
                               /\ w.payload = p.payload /\ w.event = p.event /\ w.answer = x
<1> DEFINE w == [p EXCEPT !.at = "write", !.answer = x]
<1>1. w \in Position
  BY DEF Position
<1>2. /\ w.op = p.op /\ w.at = "write" /\ w.id = p.id
      /\ w.payload = p.payload /\ w.event = p.event /\ w.answer = x
  BY DEF Position
<1> QED
  BY <1>1, <1>2

-----------------------------------------------------------------------------
(* Where each step leaves its handler.                                     *)

LEMMA BeginMoves ==
    ASSUME AuditTypes, NEW h \in Handler, NEW e \in Event, BeginAppend(h, e)
    PROVE  /\ Moved(h) /\ work[h].op = "idle"
           /\ work'[h].op = "append" /\ work'[h].at = "head" /\ work'[h].event = e
<1>1. PICK q \in Position : q = Idle
  BY IdleType
<1>2. PICK w \in Position : /\ w = [q EXCEPT !.op = "append", !.at = "head", !.event = e]
                            /\ w.op = "append" /\ w.at = "head" /\ w.event = e
  BY Starting
<1>3. work' = [work EXCEPT ![h] = w] /\ work[h].op = "idle"
  BY <1>1, <1>2 DEF BeginAppend, Call
<1> QED
  BY <1>2, <1>3, Moves

(* The head that was read, of a log that has rows. *)
LEMMA ReadMoves ==
    ASSUME AuditTypes, NEW h \in Handler, ReadHead(h)
    PROVE  /\ Moved(h) /\ At(h, "append", "head")
           /\ work'[h].op = "append" /\ work'[h].at = "dedupe"
           /\ work'[h].event = work[h].event
           /\ IF log = {} THEN work'[h].prev = Genesis
                          ELSE \E r \in Heads : r.hash = work'[h].prev
<1>1. PICK prev \in IF log = {} THEN {Genesis} ELSE {r.hash : r \in Heads} :
         Goto(h, [work[h] EXCEPT !.at = "dedupe", !.prev = prev])
  BY DEF ReadHead
<1>2. IF log = {} THEN prev = Genesis ELSE \E r \in Heads : r.hash = prev
  BY <1>1
<1>3. prev \in Seq(Event)
  <2>1. CASE log = {}
    BY <1>2, <2>1 DEF Genesis
  <2>2. CASE log # {}
    <3>1. PICK r \in Heads : r.hash = prev
      BY <1>2, <2>2
    <3>2. r \in Row
      BY <3>1 DEF Heads, AuditTypes
    <3> QED
      BY <3>1, <3>2 DEF Row
  <2> QED
    BY <2>1, <2>2
<1>4. PICK p \in Position : p = work[h]
  BY DEF AuditTypes
<1>5. PICK w \in Position : /\ w = [p EXCEPT !.at = "dedupe", !.prev = prev]
                            /\ w.op = p.op /\ w.at = "dedupe"
                            /\ w.event = p.event /\ w.prev = prev
  BY <1>3, Chained
<1>6. work' = [work EXCEPT ![h] = w]
  BY <1>1, <1>4, <1>5 DEF Goto
<1>7. At(h, "append", "head")
  BY DEF ReadHead
<1> QED
  BY <1>2, <1>4, <1>5, <1>6, <1>7, Moves, ZenonT(60) DEF At

LEMMA DedupeMoves ==
    ASSUME AuditTypes, NEW h \in Handler, Dedupe(h)
    PROVE  /\ Moved(h) /\ At(h, "append", "dedupe")
           /\ IF Recorded(h) THEN work'[h] = Idle
              ELSE /\ work'[h].op = "append" /\ work'[h].at = "commit"
                   /\ work'[h].event = work[h].event /\ work'[h].prev = work[h].prev
                   /\ work'[h].stamp = clock
<1>1. PICK p \in Position : p = work[h]
  BY DEF AuditTypes
<1>2. clock \in Nat /\ At(h, "append", "dedupe")
  BY DEF AuditTypes, Dedupe
<1>3. PICK w \in Position : /\ w = [p EXCEPT !.at = "commit", !.stamp = clock]
                            /\ w.op = p.op /\ w.at = "commit" /\ w.event = p.event
                            /\ w.prev = p.prev /\ w.stamp = clock
  BY <1>2, StampedAt
<1>4. CASE Recorded(h)
  <2>1. work' = [work EXCEPT ![h] = Idle]
    BY <1>4 DEF Dedupe, Goto
  <2> QED
    BY <1>2, <1>4, <2>1, Moves, IdleType
<1>5. CASE ~Recorded(h)
  <2>1. work' = [work EXCEPT ![h] = w]
    BY <1>1, <1>3, <1>5 DEF Dedupe, Goto
  <2> QED
    BY <1>1, <1>2, <1>3, <1>5, <2>1, Moves DEF At
<1> QED
  BY <1>4, <1>5

(* The row an append inserts. *)
NewRow(h) == [event |-> work[h].event, prev |-> work[h].prev,
              hash |-> EventHash(work[h].prev, work[h].event), at |-> work[h].stamp]

LEMMA CommitMoves ==
    ASSUME AuditTypes, NEW h \in Handler, CommitAppend(h)
    PROVE  /\ Moved(h) /\ Inserting(h) /\ work'[h] = Idle
           /\ NewRow(h) \in Row
           /\ log' = log \/ log' = log \cup {NewRow(h)}
<1>1. /\ work[h] \in Position /\ work[h].event \in Event
      /\ work' = [work EXCEPT ![h] = Idle] /\ Inserting(h)
  BY DEF AuditTypes, WellPlaced, CommitAppend, At, Goto, Inserting
<1>2. work[h].prev \in Seq(Event) /\ work[h].stamp \in Nat
  BY <1>1 DEF Position
<1>3. EventHash(work[h].prev, work[h].event) \in Seq(Event)
  BY <1>1, <1>2 DEF EventHash
<1>4. NewRow(h) \in Row
  BY <1>1, <1>2, <1>3 DEF NewRow, Row
<1>5. log' = log \/ log' = log \cup {NewRow(h)}
  BY DEF CommitAppend, NewRow
<1> QED
  BY <1>1, <1>4, <1>5, Moves, IdleType

(* A call that begins, an attestation or a retry of one. *)
LEMMA CallMoves ==
    ASSUME AuditTypes, NEW h \in Handler, NEW o \in {"attest", "retry"},
           NEW a \in Attestation, NEW p \in Payload,
           Call(h, Called(Idle, o, a, p))
    PROVE  /\ Moved(h) /\ work[h].op = "idle"
           /\ work'[h].op = o /\ work'[h].at = "submit"
           /\ work'[h].id = a /\ work'[h].payload = p
<1>1. PICK q \in Position : q = Idle
  BY IdleType
<1>2. PICK w \in Position :
         /\ w = Called(q, o, a, p)
         /\ w.op = o /\ w.at = "submit" /\ w.id = a /\ w.payload = p
  BY Calling
<1>3. work' = [work EXCEPT ![h] = w] /\ work[h].op = "idle"
  BY <1>1, <1>2 DEF Call
<1> QED
  BY <1>2, <1>3, Moves

LEMMA AttestMoves ==
    ASSUME AuditTypes, NEW h \in Handler, NEW a \in Attestation, NEW p \in Payload,
           Attest(h, a, p) \/ Retry(h, a, p)
    PROVE  /\ Moved(h) /\ work[h].op = "idle"
           /\ work'[h].op \in {"attest", "retry"} /\ work'[h].at = "submit"
           /\ work'[h].id = a /\ work'[h].payload = p
<1>1. CASE Attest(h, a, p)
  <2>1. Call(h, Called(Idle, "attest", a, p))
    BY <1>1 DEF Attest, Called
  <2> QED
    BY <2>1, CallMoves
<1>2. CASE Retry(h, a, p)
  <2>1. Call(h, Called(Idle, "retry", a, p))
    BY <1>2 DEF Retry, Called
  <2> QED
    BY <2>1, CallMoves
<1> QED
  BY <1>1, <1>2

(* What a call keeps when it goes on. *)
GoesOn(h) ==
    /\ work'[h].op = work[h].op /\ work'[h].id = work[h].id
    /\ work'[h].payload = work[h].payload /\ work'[h].event = work[h].event

LEMMA SubmitMoves ==
    ASSUME AuditTypes, NEW h \in Handler, Submit(h)
    PROVE  /\ Moved(h) /\ GoesOn(h) /\ work[h].at = "submit"
           /\ work'[h].at = "write" /\ work'[h].answer \in Answer
<1>1. PICK x \in Answer : Goto(h, [work[h] EXCEPT !.at = "write", !.answer = x])
  BY DEF Submit, Answer
<1>2. PICK p \in Position : p = work[h]
  BY DEF AuditTypes
<1>3. PICK w \in Position : /\ w = [p EXCEPT !.at = "write", !.answer = x]
                            /\ w.op = p.op /\ w.at = "write" /\ w.id = p.id
                            /\ w.payload = p.payload /\ w.event = p.event /\ w.answer = x
  BY Replied DEF Answer
<1>4. work' = [work EXCEPT ![h] = w]
  BY <1>1, <1>2, <1>3 DEF Goto
<1>5. Moved(h) /\ work'[h] = w
  BY <1>4, Moves
<1>6. GoesOn(h)
  BY <1>2, <1>3, <1>5 DEF GoesOn
<1>7. work[h].at = "submit"
  BY DEF Submit
<1> QED
  BY <1>3, <1>5, <1>6, <1>7

(* The record a handler writes, and no other. *)
LEMMA WriteMoves ==
    ASSUME AuditTypes, NEW h \in Handler, WriteStatus(h)
    PROVE  /\ Moved(h) /\ OnCall(h) /\ work[h].at = "write" /\ work'[h] = Idle
           /\ record' \in [Attestation -> Record]
           /\ \A a \in Attestation : a # work[h].id => record'[a] = record[a]
<1>1. work[h].at = "write" /\ work' = [work EXCEPT ![h] = Idle]
  BY DEF WriteStatus, Goto
<1>2. OnCall(h) /\ WellPlaced(h)
  BY <1>1 DEF AuditTypes, WellPlaced
<1>3. PICK a \in Attestation, x \in Answer, p \in Payload :
         a = work[h].id /\ x = work[h].answer /\ p = work[h].payload
  BY <1>1, <1>2 DEF WellPlaced
<1>4. PICK r \in Record : r = record[a]
  BY <1>3 DEF AuditTypes
<1>5. Updated(r, h) \in Record
  <2>1. [r EXCEPT !.status = "FAILED"] \in Record
    BY DEF Record
  <2>2. ASSUME NEW c \in {"null", "set"}
        PROVE  [r EXCEPT !.status = x, !.submitted = p, !.confirmedAt = c] \in Record
    BY DEF Record, Answer
  <2> QED
    BY <1>3, <2>1, <2>2 DEF Updated
<1>6. record' = [record EXCEPT ![a] = Updated(r, h)]
  BY <1>3, <1>4 DEF WriteStatus
<1>7. /\ record' \in [Attestation -> Record]
      /\ \A b \in Attestation : b # a => record'[b] = record[b]
  BY <1>5, <1>6 DEF AuditTypes
<1> QED
  BY <1>1, <1>2, <1>3, <1>7, Moves, IdleType

-----------------------------------------------------------------------------
(* The types.                                                              *)

(* A handler moves, and nothing else does. *)
LEMMA WorkTypes ==
    ASSUME AuditTypes, NEW h \in Handler, Moved(h), WellPlaced(h)'
    PROVE  work' \in [Handler -> Position] /\ \A g \in Handler : WellPlaced(g)'
<1>1. ASSUME NEW g \in Handler, g # h PROVE WellPlaced(g)'
  BY <1>1 DEF Moved, AuditTypes, WellPlaced, OnCall
<1> QED
  BY <1>1 DEF Moved

LEMMA IdlePlaced ==
    ASSUME NEW h \in Handler, work'[h] = Idle
    PROVE  WellPlaced(h)'
BY DEF WellPlaced, OnCall, Idle

LEMMA AppendTypes ==
    ASSUME AuditTypes, NEW h \in Handler,
           \/ \E e \in Event : BeginAppend(h, e)
           \/ ReadHead(h) \/ Dedupe(h) \/ CommitAppend(h)
    PROVE  AuditTypes'
<1>1. UNCHANGED <<record, chain, registry, clock>>
  BY DEF BeginAppend, ReadHead, Dedupe, CommitAppend, attestVars, auditVars
<1>2. ASSUME log' \subseteq Row, Moved(h), WellPlaced(h)' PROVE AuditTypes'
  BY <1>1, <1>2, WorkTypes DEF AuditTypes
<1>3. WellPlaced(h)
  BY DEF AuditTypes
<1>4. ASSUME NEW e \in Event, BeginAppend(h, e) PROVE AuditTypes'
  <2>1. WellPlaced(h)'
    BY <1>4, BeginMoves DEF WellPlaced, OnCall
  <2> QED
    BY <1>2, <1>4, <2>1, BeginMoves DEF BeginAppend, AuditTypes
<1>5. CASE ReadHead(h)
  <2>1. WellPlaced(h)'
    BY <1>3, <1>5, ReadMoves DEF WellPlaced, OnCall, At
  <2> QED
    BY <1>2, <1>5, <2>1, ReadMoves DEF ReadHead, auditVars, AuditTypes
<1>6. CASE Dedupe(h)
  <2>1. WellPlaced(h)'
    BY <1>3, <1>6, DedupeMoves, IdlePlaced DEF WellPlaced, OnCall, At
  <2>2. Moved(h)
    BY <1>6, DedupeMoves
  <2> QED
    BY <1>2, <1>6, <2>1, <2>2 DEF Dedupe, auditVars, AuditTypes
<1>7. CASE CommitAppend(h)
  <2>1. WellPlaced(h)'
    BY <1>7, CommitMoves, IdlePlaced
  <2>2. log' \subseteq Row
    BY <1>7, CommitMoves DEF AuditTypes
  <2> QED
    BY <1>2, <1>7, <2>1, <2>2, CommitMoves
<1> QED
  BY <1>4, <1>5, <1>6, <1>7

LEMMA AttestTypes ==
    ASSUME AuditTypes, NEW h \in Handler,
           \/ \E a \in Attestation, p \in Payload : Attest(h, a, p) \/ Retry(h, a, p)
           \/ Submit(h) \/ WriteStatus(h) \/ Die(h)
    PROVE  AuditTypes'
<1>1. UNCHANGED <<log, clock, chain, registry>>
  BY DEF Attest, Retry, Submit, WriteStatus, Die, attestVars, auditVars
<1>2. ASSUME record' \in [Attestation -> Record], Moved(h), WellPlaced(h)'
      PROVE  AuditTypes'
  BY <1>1, <1>2, WorkTypes DEF AuditTypes
<1>3. WellPlaced(h)
  BY DEF AuditTypes
<1>4. ASSUME NEW a \in Attestation, NEW p \in Payload, Attest(h, a, p) PROVE AuditTypes'
  <2>1. Moved(h) /\ WellPlaced(h)'
    BY <1>4, AttestMoves DEF WellPlaced, OnCall
  <2>2. [NoRecord EXCEPT !.status = "PENDING", !.payload = p] \in Record
    BY DEF Record, NoRecord
  <2>3. record' \in [Attestation -> Record]
    BY <1>4, <2>2 DEF Attest, AuditTypes
  <2> QED
    BY <1>2, <2>1, <2>3
<1>5. ASSUME NEW a \in Attestation, NEW p \in Payload, Retry(h, a, p) PROVE AuditTypes'
  <2>1. Moved(h) /\ WellPlaced(h)'
    BY <1>5, AttestMoves DEF WellPlaced, OnCall
  <2> QED
    BY <1>2, <1>5, <2>1 DEF Retry, attestVars, AuditTypes
<1>6. CASE Submit(h)
  <2>1. WellPlaced(h)'
    BY <1>3, <1>6, SubmitMoves DEF WellPlaced, OnCall, GoesOn
  <2> QED
    BY <1>2, <1>6, <2>1, SubmitMoves DEF Submit, attestVars, AuditTypes
<1>7. CASE WriteStatus(h)
  BY <1>2, <1>7, WriteMoves, IdlePlaced
<1>8. CASE Die(h)
  <2>1. Moved(h) /\ work'[h] = Idle
    BY <1>8, Moves, IdleType DEF Die, Goto
  <2> QED
    BY <1>2, <1>8, <2>1, IdlePlaced DEF Die, attestVars, AuditTypes
<1> QED
  BY <1>4, <1>5, <1>6, <1>7, <1>8

(* A broadcast adds a pending transaction at the end. *)
LEMMA BroadcastStep ==
    ASSUME AuditTypes, NEW p \in Payload, Broadcast(p)
    PROVE  /\ chain' \in Seq(Transaction) /\ registry' = registry
           /\ \A n \in DOMAIN chain' : chain'[n].status = "success" =>
                 n \in DOMAIN chain /\ chain'[n] = chain[n]
<1>1. PICK t \in Transaction : t = [payload |-> p, status |-> "pending"] /\ t.status = "pending"
  <2> DEFINE t == [payload |-> p, status |-> "pending"]
  <2>1. t \in Transaction /\ t.status = "pending"
    BY DEF Transaction
  <2> QED
    BY <2>1
<1>2. chain \in Seq(Transaction) /\ chain' = Append(chain, t) /\ registry' = registry
  BY <1>1 DEF Broadcast, AuditTypes
<1>3. ASSUME NEW n \in DOMAIN chain', chain'[n].status = "success"
      PROVE  n \in DOMAIN chain /\ chain'[n] = chain[n]
  BY <1>1, <1>2, <1>3
<1> QED
  BY <1>2, <1>3

(* What a transaction of the registry changes: what was committed to stays. *)
LEMMA RegistryStep ==
    ASSUME AuditTypes, NEW n \in DOMAIN chain, RegistryAttest(n)
    PROVE  /\ chain' \in Seq(Transaction) /\ DOMAIN chain' = DOMAIN chain
           /\ \A m \in DOMAIN chain : chain'[m].payload = chain[m].payload
           /\ \A m \in DOMAIN chain \ {n} : chain'[m] = chain[m]
           /\ registry' \in [Execution -> Payload \cup {Unset}]
           /\ \A p \in Payload : Committed(p) => Committed(p)'
           /\ chain'[n].status = "success" =>
                 /\ Committed(chain[n].payload)'
                 /\ registry[ExecutionOf[chain[n].payload]] = Unset
<1>1. PICK t \in Transaction : t = chain[n]
  BY DEF AuditTypes
<1>2. PICK p \in Payload : p = t.payload
  BY DEF Transaction
<1> DEFINE accepts == attester = "yes" /\ registry[ExecutionOf[p]] = Unset
<1>3. PICK s \in {"success", "reverted"} : s = IF accepts THEN "success" ELSE "reverted"
  OBVIOUS
<1>4. PICK v \in Transaction : /\ v = [t EXCEPT !.status = s]
                               /\ v.status = s /\ v.payload = p
  <2> DEFINE v == [t EXCEPT !.status = s]
  <2>1. v \in Transaction
    BY DEF Transaction
  <2>2. v.status = s /\ v.payload = p
    BY <1>2 DEF Transaction
  <2> QED
    BY <2>1, <2>2
<1>5. chain' = [chain EXCEPT ![n] = v]
  BY <1>1, <1>2, <1>3, <1>4 DEF RegistryAttest
<1>6. /\ chain' \in Seq(Transaction) /\ DOMAIN chain' = DOMAIN chain /\ chain'[n] = v
      /\ \A m \in DOMAIN chain \ {n} : chain'[m] = chain[m]
  BY <1>5 DEF AuditTypes
<1>7. ExecutionOf[p] \in Execution
  BY DEF Execution
<1>8. registry' = IF accepts THEN [registry EXCEPT ![ExecutionOf[p]] = p] ELSE registry
  BY <1>1, <1>2 DEF RegistryAttest
<1>9. registry' \in [Execution -> Payload \cup {Unset}]
  BY <1>7, <1>8 DEF AuditTypes
<1>10. ASSUME NEW q \in Payload, Committed(q) PROVE Committed(q)'
  <2>1. q # Unset /\ ExecutionOf[q] \in Execution
    BY UnsetType DEF Execution
  <2> QED
    BY <1>7, <1>8, <1>10, <2>1 DEF Committed, AuditTypes
<1>11. s = "success" => Committed(p)' /\ registry[ExecutionOf[p]] = Unset
  BY <1>3, <1>7, <1>8 DEF Committed, AuditTypes
<1> HIDE DEF accepts
<1> QED
  BY <1>1, <1>2, <1>4, <1>6, <1>9, <1>10, <1>11

LEMMA AuditTypesStep == AuditTypes /\ [Next]_vars => AuditTypes'
<1> SUFFICES ASSUME AuditTypes, [Next]_vars PROVE AuditTypes'
  OBVIOUS
<1>1. ASSUME UNCHANGED <<log, work, record>>, clock' \in Nat,
             chain' \in Seq(Transaction), registry' \in [Execution -> Payload \cup {Unset}]
      PROVE  AuditTypes'
  BY <1>1 DEF AuditTypes, WellPlaced, OnCall
<1>2. CASE Tick
  BY <1>1, <1>2 DEF Tick, attestVars, AuditTypes
<1>3. ASSUME NEW n \in DOMAIN chain, RegistryAttest(n) PROVE AuditTypes'
  BY <1>1, <1>3, RegistryStep DEF RegistryAttest, auditVars, AuditTypes
<1>4. ASSUME NEW allowed \in {"yes", "no"}, SetAttester(allowed) PROVE AuditTypes'
  BY <1>1, <1>4 DEF SetAttester, auditVars, AuditTypes
<1>5. CASE UNCHANGED vars
  BY <1>1, <1>5 DEF vars, AuditTypes
<1>6. ASSUME NEW p \in Payload, Broadcast(p) PROVE AuditTypes'
  BY <1>1, <1>6, BroadcastStep DEF Broadcast, auditVars, AuditTypes
<1> QED
  BY <1>2, <1>3, <1>4, <1>5, <1>6, AppendTypes, AttestTypes DEF Next

(* Rows, handlers, records, transactions and the registry stay within      *)
(* their types, whatever is appended, attested, retried or lost            *)
(* (audit.service.ts, attestation.service.ts, AttestationRegistry.sol).    *)
THEOREM AuditTypesHold == Spec => []AuditTypes
BY AuditTypesInit, AuditTypesStep, PTL DEF Spec

-----------------------------------------------------------------------------
(* The audit chain.                                                        *)

(* The hash an append found at the head is that of a row which may be put  *)
(* first, or the genesis of an empty log.                                  *)
ReadTheHead(h) ==
    IF log = {} THEN work[h].prev = Genesis
                ELSE \E r \in Heads : r.hash = work[h].prev

(* What an append that is about to insert has found still holds. *)
MayInsert(h) == ~Recorded(h) /\ \A r \in log : r.at <= work[h].stamp

(* No row and no append is stamped with a time to come. *)
Stamped ==
    /\ \A r \in log : r.at <= clock
    /\ \A h \in Handler : Inserting(h) => work[h].stamp <= clock

SoleAppend == \A g, h \in Handler : Appending(g) /\ Appending(h) => g = h
EventsOnce == \A r, q \in log : r.event = q.event => r = q
DistinctTimes == \A r, q \in log : r.at = q.at => r = q

(* What an append has read, it relies on when it inserts. *)
Relies(h) ==
    /\ At(h, "append", "dedupe") \/ Inserting(h) => ReadTheHead(h)
    /\ Inserting(h) => MayInsert(h)

(* While no two appends have overlapped, one appends at a time and nothing *)
(* is inserted behind its back.                                            *)
AppendInv ==
    /\ Stamped
    /\ mingled = "no" =>
          /\ SoleAppend
          /\ \A h \in Handler : Relies(h)
          /\ EventsOnce
          /\ DistinctTimes => Verifies

LEMMA AppendInvInit == Init => AppendInv
BY DEF Init, AppendInv, Stamped, SoleAppend, Relies, Inserting, Appending, At, Idle,
       EventsOnce, DistinctTimes, Verifies

(* Steps that insert nothing, of a handler that does not append. *)
LEMMA NoAppend ==
    ASSUME AppendInv, NEW h \in Handler, Moved(h), ~Appending(h)',
           UNCHANGED <<log, clock, mingled>>
    PROVE  AppendInv'
<1>1. ASSUME NEW g \in Handler, g # h PROVE work'[g] = work[g]
  BY <1>1 DEF Moved
<1>2. ~Inserting(h)' /\ ~At(h, "append", "dedupe")'
  BY DEF Appending, Inserting, At
<1>3. Stamped'
  BY <1>1, <1>2 DEF AppendInv, Stamped, Inserting, At
<1>4. ASSUME mingled' = "no" PROVE SoleAppend'
  BY <1>1, <1>4 DEF AppendInv, SoleAppend, Appending
<1>5. ASSUME mingled' = "no", NEW g \in Handler PROVE Relies(g)'
  <2>1. CASE g = h
    BY <1>2, <2>1 DEF Relies
  <2>2. CASE g # h
    BY <1>1, <1>5, <2>2
    DEF AppendInv, Relies, Inserting, At, ReadTheHead, Heads, MayInsert, Recorded
  <2> QED
    BY <2>1, <2>2
<1>6. (mingled = "no" /\ EventsOnce /\ (DistinctTimes => Verifies))
         => (EventsOnce /\ (DistinctTimes => Verifies))'
  BY DEF EventsOnce, DistinctTimes, Verifies
<1> QED
  BY <1>3, <1>4, <1>5, <1>6 DEF AppendInv

(* The sole append's own steps. *)
LEMMA AppendStep ==
    ASSUME AuditTypes, AppendInv, NEW h \in Handler,
           \/ \E e \in Event : BeginAppend(h, e)
           \/ ReadHead(h) \/ Dedupe(h)
    PROVE  AppendInv'
<1>1. /\ UNCHANGED <<log, clock>>
      /\ mingled' = "no" => mingled = "no"
  BY DEF BeginAppend, ReadHead, Dedupe, auditVars
<1>2. Moved(h)
  BY BeginMoves, ReadMoves, DedupeMoves
<1>3. ASSUME NEW g \in Handler, g # h PROVE work'[g] = work[g]
  BY <1>2, <1>3 DEF Moved
<1>4. (mingled = "no" /\ EventsOnce /\ (DistinctTimes => Verifies))
         => (EventsOnce /\ (DistinctTimes => Verifies))'
  BY <1>1 DEF EventsOnce, DistinctTimes, Verifies
<1>5. ASSUME mingled' = "no", Relies(h)', SoleAppend', Stamped' PROVE AppendInv'
  <2>1. ASSUME NEW g \in Handler, g # h PROVE Relies(g)'
    BY <1>1, <1>3, <1>5, <2>1
    DEF AppendInv, Relies, Inserting, At, ReadTheHead, Heads, MayInsert, Recorded
  <2> QED
    BY <1>1, <1>4, <1>5, <2>1 DEF AppendInv
<1>6. ASSUME Inserting(h)' => work'[h].stamp <= clock PROVE Stamped'
  BY <1>1, <1>3, <1>6 DEF AppendInv, Stamped, Inserting, At
<1>7. ASSUME mingled = "no", Appending(h) PROVE SoleAppend'
  BY <1>3, <1>7 DEF AppendInv, SoleAppend, Appending
<1>8. ASSUME mingled' # "no", Stamped' PROVE AppendInv'
  BY <1>8 DEF AppendInv
<1>9. ASSUME NEW e \in Event, BeginAppend(h, e) PROVE AppendInv'
  <2>1. work'[h].at = "head"
    BY <1>9, BeginMoves
  <2>2. Stamped' /\ Relies(h)'
    BY <1>6, <2>1 DEF Inserting, At, Relies
  <2>3. ASSUME mingled' = "no" PROVE SoleAppend'
    <3>1. ~Busy(h, "append")
      BY <1>9, <2>3 DEF BeginAppend
    <3>2. ASSUME NEW g \in Handler, g # h PROVE ~Appending(g)'
      BY <1>3, <3>1, <3>2 DEF Busy, Appending
    <3> QED
      BY <3>2 DEF SoleAppend
  <2> QED
    BY <1>5, <1>8, <2>2, <2>3
<1>10. CASE ReadHead(h)
  <2>1. Stamped'
    BY <1>6, <1>10, ReadMoves DEF Inserting, At
  <2>2. Relies(h)'
    BY <1>1, <1>10, ReadMoves DEF Relies, Inserting, At, ReadTheHead, Heads
  <2>3. Appending(h)
    BY <1>10, ReadMoves DEF At, Appending
  <2> QED
    BY <1>1, <1>5, <1>7, <1>8, <2>1, <2>2, <2>3
<1>11. CASE Dedupe(h)
  <2>1. CASE Recorded(h)
    <3>1. ~Appending(h)'
      BY <1>11, <2>1, DedupeMoves DEF Appending, Idle
    <3> QED
      BY <1>1, <1>2, <1>11, <3>1, NoAppend DEF Dedupe, auditVars
  <2>2. CASE ~Recorded(h)
    <3>1. /\ work'[h].prev = work[h].prev /\ work'[h].event = work[h].event
          /\ work'[h].stamp = clock /\ At(h, "append", "dedupe")
          /\ clock \in Nat
      BY <1>11, <2>2, DedupeMoves DEF AuditTypes
    <3>2. Stamped'
      BY <1>6, <3>1
    <3>3. \A r \in log' : r.at <= work'[h].stamp
      BY <1>1, <3>1 DEF AppendInv, Stamped
    <3>4. ~Recorded(h)'
      BY <1>1, <2>2, <3>1 DEF Recorded
    <3>5. mingled = "no" => ReadTheHead(h)'
      BY <1>1, <3>1 DEF AppendInv, Relies, ReadTheHead, Heads
    <3>6. mingled = "no" => Relies(h)'
      BY <3>3, <3>4, <3>5 DEF Relies, MayInsert
    <3>7. Appending(h)
      BY <3>1 DEF At, Appending
    <3> QED
      BY <1>1, <1>5, <1>7, <1>8, <3>2, <3>6, <3>7
  <2> QED
    BY <2>1, <2>2
<1> QED
  BY <1>9, <1>10, <1>11

(* The insert: the new row follows a row that may be put first, and comes  *)
(* after every other, unless two have one timestamp.                       *)
LEMMA CommitStep ==
    ASSUME AuditTypes, AppendInv, NEW h \in Handler, CommitAppend(h)
    PROVE  AppendInv'
<1>1. PICK n \in Row : n = NewRow(h)
  BY CommitMoves
<1>2. /\ n.event = work[h].event /\ n.prev = work[h].prev /\ n.at = work[h].stamp
      /\ n.hash = EventHash(n.prev, n.event)
  BY <1>1 DEF NewRow
<1>3. /\ Moved(h) /\ Inserting(h) /\ ~Appending(h)'
      /\ log' = log \/ log' = log \cup {n}
      /\ UNCHANGED <<clock, mingled>>
  BY <1>1, CommitMoves DEF CommitAppend, Appending, Idle
<1>4. CASE log' = log
  BY <1>3, <1>4, NoAppend
<1>5. CASE log' = log \cup {n}
  <2>1. ASSUME NEW g \in Handler, g # h PROVE work'[g] = work[g]
    BY <1>3, <2>1 DEF Moved
  <2>2. ~Inserting(h)'
    BY <1>3 DEF Appending, Inserting, At
  <2>3. Stamped'
    BY <1>2, <1>3, <1>5, <2>1, <2>2 DEF AppendInv, Stamped, Inserting, At
  <2>4. ASSUME mingled' = "no"
        PROVE  /\ SoleAppend' /\ \A g \in Handler : Relies(g)'
               /\ EventsOnce' /\ (DistinctTimes => Verifies)'
    <3>1. /\ SoleAppend /\ EventsOnce /\ (DistinctTimes => Verifies)
          /\ MayInsert(h) /\ ReadTheHead(h)
      BY <1>3, <2>4 DEF AppendInv, Relies
    <3>2. ASSUME NEW g \in Handler PROVE ~Appending(g)'
      BY <1>3, <2>1, <3>1 DEF SoleAppend, Appending, Inserting, At
    <3>3. ASSUME NEW r \in log PROVE r.event # n.event /\ r.at <= n.at
      BY <1>2, <3>1 DEF MayInsert, Recorded
    <3>4. EventsOnce'
      BY <1>5, <3>1, <3>3 DEF EventsOnce
    <3>5. ASSUME DistinctTimes' PROVE Verifies'
      <4>1. Verifies
        BY <1>5, <3>1, <3>5 DEF DistinctTimes
      <4>2. ASSUME NEW r \in log PROVE r.at \in Nat /\ n.at \in Nat /\ r.at < n.at
        BY <1>5, <3>3, <3>5 DEF DistinctTimes, AuditTypes, Row
      <4> DEFINE before(r) == {q \in log : q.at < r.at}
                 beforeNow(r) == {q \in log \cup {n} : q.at < r.at}
      <4>3. ASSUME NEW r \in log PROVE beforeNow(r) = before(r)
        BY <4>2
      <4>4. beforeNow(n) = log
        <5>1. n.at \in Nat
          BY DEF Row
        <5> QED
          BY <4>2, <5>1
      <4>5. IF log = {} THEN n.prev = Genesis
            ELSE \E q \in log : q.hash = n.prev /\ \A p \in log : p.at <= q.at
        BY <1>2, <3>1 DEF ReadTheHead, Heads
      <4>6. \A r \in log :
               /\ r.hash = EventHash(r.prev, r.event)
               /\ IF before(r) = {} THEN r.prev = Genesis
                  ELSE \E q \in before(r) :
                          q.hash = r.prev /\ \A p \in before(r) : p.at <= q.at
        BY <4>1 DEF Verifies
      <4>7. \A r \in log \cup {n} :
               /\ r.hash = EventHash(r.prev, r.event)
               /\ IF beforeNow(r) = {} THEN r.prev = Genesis
                  ELSE \E q \in beforeNow(r) :
                          q.hash = r.prev /\ \A p \in beforeNow(r) : p.at <= q.at
        <5> HIDE DEF before, beforeNow
        <5> QED
          BY <1>2, <4>3, <4>4, <4>5, <4>6
      <4> QED
        BY <1>5, <4>7 DEF Verifies
    <3> QED
      BY <3>2, <3>4, <3>5 DEF SoleAppend, Relies, Inserting, Appending, At
  <2> QED
    BY <2>3, <2>4 DEF AppendInv
<1> QED
  BY <1>3, <1>4, <1>5

LEMMA AppendInvStep == AuditTypes /\ AppendInv /\ [Next]_vars => AppendInv'
<1> SUFFICES ASSUME AuditTypes, AppendInv, [Next]_vars PROVE AppendInv'
  OBVIOUS
<1>1. ASSUME UNCHANGED <<log, work, mingled>>, clock' \in Nat, clock <= clock'
      PROVE  AppendInv'
  <2>1. \A r \in log : r.at \in Nat
    BY DEF AuditTypes, Row
  <2>2. \A h \in Handler : work[h].stamp \in Nat
    BY DEF AuditTypes, Position
  <2>3. Stamped'
    BY <1>1, <2>1, <2>2 DEF AuditTypes, AppendInv, Stamped, Inserting, At
  <2> QED
    BY <1>1, <2>3
    DEF AppendInv, SoleAppend, Relies, Appending, Inserting, At, ReadTheHead, Heads,
        MayInsert, Recorded, EventsOnce, DistinctTimes, Verifies
<1>2. clock \in Nat
  BY DEF AuditTypes
<1>3. CASE Tick
  BY <1>1, <1>2, <1>3 DEF Tick
<1>4. ASSUME NEW n \in DOMAIN chain, RegistryAttest(n) PROVE AppendInv'
  BY <1>1, <1>2, <1>4 DEF RegistryAttest, auditVars
<1>5. ASSUME NEW allowed \in {"yes", "no"}, SetAttester(allowed) PROVE AppendInv'
  BY <1>1, <1>2, <1>5 DEF SetAttester, auditVars
<1>6. CASE UNCHANGED vars
  BY <1>1, <1>2, <1>6 DEF vars
<1>7. ASSUME NEW h \in Handler,
             \/ \E a \in Attestation, p \in Payload : Attest(h, a, p) \/ Retry(h, a, p)
             \/ Submit(h) \/ WriteStatus(h) \/ Die(h)
      PROVE  AppendInv'
  <2>1. UNCHANGED <<log, clock, mingled>>
    BY <1>7 DEF Attest, Retry, Submit, WriteStatus, Die, auditVars
  <2>2. WellPlaced(h)
    BY DEF AuditTypes
  <2>3. CASE \E a \in Attestation, p \in Payload : Attest(h, a, p) \/ Retry(h, a, p)
    BY <2>1, <2>3, AttestMoves, NoAppend DEF Appending
  <2>4. CASE Submit(h)
    BY <2>1, <2>2, <2>4, SubmitMoves, NoAppend DEF Appending, WellPlaced, OnCall, GoesOn
  <2>5. CASE WriteStatus(h)
    BY <2>1, <2>5, WriteMoves, NoAppend DEF Appending, Idle
  <2>6. CASE Die(h)
    <3>1. Moved(h) /\ work'[h] = Idle
      BY <2>6, Moves, IdleType DEF Die, Goto
    <3> QED
      BY <2>1, <3>1, NoAppend DEF Appending, Idle
  <2> QED
    BY <1>7, <2>3, <2>4, <2>5, <2>6
<1>8. ASSUME NEW p \in Payload, Broadcast(p) PROVE AppendInv'
  BY <1>1, <1>2, <1>8 DEF Broadcast, auditVars
<1> QED
  BY <1>3, <1>4, <1>5, <1>6, <1>7, <1>8, AppendStep, CommitStep DEF Next

(* What an append read still holds when it inserts, as long as no two      *)
(* appends overlapped (audit.service.ts:30-98).                            *)
THEOREM AppendInvHolds == Spec => []AppendInv
BY AuditTypesHold, AppendInvInit, AppendInvStep, PTL DEF Spec

(* An event is recorded once, however often it is delivered or appended    *)
(* and wherever a handler dies, unless appends overlapped                  *)
(* (audit.service.ts:30-35).                                               *)
THEOREM EventsRecordedOnce == Spec => []RecordedOnce
<1>1. AppendInv => RecordedOnce
  BY DEF AppendInv, EventsOnce, RecordedOnce
<1> QED
  BY <1>1, AppendInvHolds, PTL

(* Every row of the log follows the one before it, whatever was repeated   *)
(* or lost, unless appends overlapped or two rows have one timestamp       *)
(* (audit.service.ts:64-67, 128-155).                                      *)
THEOREM AuditChainVerifies == Spec => []ChainVerifies
<1>1. AppendInv => ChainVerifies
  BY DEF AppendInv, DistinctTimes, ChainVerifies
<1> QED
  BY <1>1, AppendInvHolds, PTL

-----------------------------------------------------------------------------
(* The attestations.                                                       *)

(* A handler's step that puts it on no other call leaves a settled record  *)
(* settled, unless it writes the record.                                   *)
LEMMA SettledStays ==
    ASSUME NEW h \in Handler, NEW a \in Attestation, Settled(a), Moved(h),
           record'[a] = record[a], On(h, a)' => On(h, a)
    PROVE  Settled(a)'
<1>1. ASSUME NEW g \in Handler PROVE ~On(g, a)'
  <2>1. CASE g = h
    BY <2>1 DEF Settled
  <2>2. CASE g # h
    BY <2>2 DEF Settled, On, Moved
  <2> QED
    BY <2>1, <2>2
<1> QED
  BY <1>1 DEF Settled

LEMMA AppendsSettle ==
    ASSUME AuditTypes, NEW a \in Attestation, Settled(a), NEW h \in Handler,
           \/ \E e \in Event : BeginAppend(h, e)
           \/ ReadHead(h) \/ Dedupe(h) \/ CommitAppend(h)
    PROVE  Settled(a)' /\ record'[a] = record[a]
<1>1. record' = record
  BY DEF BeginAppend, ReadHead, Dedupe, CommitAppend, attestVars
<1>2. Moved(h) /\ work'[h].op \in {"append", "idle"}
  <2>1. CASE \E e \in Event : BeginAppend(h, e)
    BY <2>1, BeginMoves
  <2>2. CASE ReadHead(h)
    BY <2>2, ReadMoves DEF ReadHead, At
  <2>3. CASE Dedupe(h)
    <3>1. Moved(h) /\ (work'[h] = Idle \/ work'[h].op = work[h].op) /\ work[h].op = "append"
      BY <2>3, DedupeMoves DEF Dedupe, At
    <3>2. Idle.op = "idle"
      BY DEF Idle
    <3> QED
      BY <3>1, <3>2
  <2>4. CASE CommitAppend(h)
    BY <2>4, CommitMoves DEF Idle
  <2> QED
    BY <2>1, <2>2, <2>3, <2>4
<1> QED
  BY <1>1, <1>2, SettledStays DEF On

LEMMA CallsSettle ==
    ASSUME AuditTypes, NEW a \in Attestation, Settled(a), NEW h \in Handler,
           \/ \E b \in Attestation, p \in Payload : Attest(h, b, p) \/ Retry(h, b, p)
           \/ Submit(h) \/ WriteStatus(h) \/ Die(h)
    PROVE  Settled(a)' /\ record'[a] = record[a]
<1>1. ASSUME NEW b \in Attestation, NEW p \in Payload, Attest(h, b, p) \/ Retry(h, b, p)
      PROVE  Settled(a)' /\ record'[a] = record[a]
  <2>1. b # a
    BY <1>1 DEF Attest, Retry, Retryable, Settled
  <2>2. record'[a] = record[a]
    BY <1>1, <2>1 DEF Attest, Retry, attestVars, AuditTypes
  <2>3. Moved(h) /\ work'[h].id = b
    BY <1>1, AttestMoves
  <2> QED
    BY <2>1, <2>2, <2>3, SettledStays DEF On
<1>2. CASE Submit(h)
  <2>1. record' = record
    BY <1>2 DEF Submit, attestVars
  <2> QED
    BY <1>2, <2>1, SubmitMoves, SettledStays DEF On, GoesOn
<1>3. CASE WriteStatus(h)
  <2>1. Moved(h) /\ OnCall(h) /\ work'[h].op = "idle"
    BY <1>3, WriteMoves DEF Idle
  <2>2. work[h].id # a
    BY <2>1 DEF Settled, On, OnCall
  <2>3. record'[a] = record[a]
    BY <1>3, <2>2, WriteMoves
  <2> QED
    BY <2>1, <2>3, SettledStays DEF On
<1>4. CASE Die(h)
  <2>0. Moved(h) /\ work'[h] = Idle /\ record' = record
    BY <1>4, Moves, IdleType DEF Die, Goto, attestVars
  <2>1. Moved(h) /\ work'[h].op = "idle" /\ record' = record
    BY <2>0 DEF Idle
  <2> QED
    BY <2>1, SettledStays DEF On
<1> QED
  BY <1>1, <1>2, <1>3, <1>4

LEMMA ConfirmedStep ==
    ASSUME AuditTypes, Next, NEW a \in Attestation, Settled(a)
    PROVE  Settled(a)' /\ record'[a] = record[a]
<1>1. ASSUME UNCHANGED <<work, record>> PROVE Settled(a)' /\ record'[a] = record[a]
  BY <1>1 DEF Settled, On
<1>2. CASE \/ Tick
           \/ \E p \in Payload : Broadcast(p)
           \/ \E n \in DOMAIN chain : RegistryAttest(n)
           \/ \E allowed \in {"yes", "no"} : SetAttester(allowed)
  <2>1. UNCHANGED <<work, record>>
    BY <1>2 DEF Tick, Broadcast, RegistryAttest, SetAttester, attestVars
  <2> QED
    BY <1>1, <2>1
<1> QED
  BY <1>2, AppendsSettle, CallsSettle DEF Next

(* A record that is CONFIRMED when the last call on it ends stays as it    *)
(* is, and no call begins on it, for any numbers of handlers, records,     *)
(* payloads and retries (attestation.service.ts:85-98).                    *)
THEOREM ConfirmedStaysHolds == Spec => ConfirmedStays
<1>1. AuditTypes /\ [Next]_vars
         => [\A a \in Attestation : Settled(a) => Settled(a)' /\ record'[a] = record[a]]_vars
  BY ConfirmedStep
<1> QED
  BY <1>1, AuditTypesHold, PTL DEF Spec, ConfirmedStays

-----------------------------------------------------------------------------
(* The registry.                                                           *)

LEMMA FirstKept ==
    ASSUME AuditTypes, RegistryIsFirst, NEW n \in DOMAIN chain, RegistryAttest(n)
    PROVE  RegistryIsFirst'
<1>1. /\ DOMAIN chain' = DOMAIN chain
      /\ \A m \in DOMAIN chain : chain'[m].payload = chain[m].payload /\ chain[m].payload \in Payload
      /\ \A m \in DOMAIN chain \ {n} : chain'[m] = chain[m]
      /\ \A p \in Payload : Committed(p) => Committed(p)'
  <2>1. ASSUME NEW m \in DOMAIN chain PROVE chain[m].payload \in Payload
    <3>1. chain[m] \in Transaction
      BY DEF AuditTypes
    <3> QED
      BY <3>1 DEF Transaction
  <2> QED
    BY <2>1, RegistryStep
<1>2. ASSUME NEW m \in DOMAIN chain, chain'[m].status = "success"
      PROVE  Committed(chain[m].payload)'
  <2>1. CASE m = n
    BY <1>2, <2>1, RegistryStep
  <2>2. CASE m # n
    <3>1. Committed(chain[m].payload)
      BY <1>1, <1>2, <2>2 DEF RegistryIsFirst, Committed
    <3> QED
      BY <1>1, <3>1
  <2> QED
    BY <2>1, <2>2
<1>3. ASSUME NEW m \in DOMAIN chain, m # n, chain[m].status = "success",
             chain'[n].status = "success"
      PROVE  ExecutionOf[chain[m].payload] # ExecutionOf[chain[n].payload]
  <2>1. registry[ExecutionOf[chain[m].payload]] = chain[m].payload
    BY <1>3 DEF RegistryIsFirst
  <2>2. chain[m].payload # Unset
    BY <1>1, UnsetType
  <2> QED
    BY <1>3, <2>1, <2>2, RegistryStep
<1>4. ASSUME NEW k \in DOMAIN chain, NEW m \in DOMAIN chain,
             chain'[k].status = "success", chain'[m].status = "success",
             ExecutionOf[chain[m].payload] = ExecutionOf[chain[k].payload]
      PROVE  m = k
  <2>1. CASE k # n /\ m # n
    BY <1>1, <1>4, <2>1 DEF RegistryIsFirst
  <2>2. CASE k = n \/ m = n
    BY <1>1, <1>3, <1>4, <2>2
  <2> QED
    BY <2>1, <2>2
<1> QED
  BY <1>1, <1>2, <1>4 DEF RegistryIsFirst, Committed

LEMMA FirstStep == AuditTypes /\ RegistryIsFirst /\ [Next]_vars => RegistryIsFirst'
<1> SUFFICES ASSUME AuditTypes, RegistryIsFirst, [Next]_vars PROVE RegistryIsFirst'
  OBVIOUS
<1>1. ASSUME UNCHANGED <<chain, registry>> PROVE RegistryIsFirst'
  BY <1>1 DEF RegistryIsFirst
<1>2. ASSUME NEW p \in Payload, Broadcast(p) PROVE RegistryIsFirst'
  BY <1>2, BroadcastStep DEF RegistryIsFirst
<1>3. ASSUME NEW allowed \in {"yes", "no"}, SetAttester(allowed) PROVE RegistryIsFirst'
  BY <1>1, <1>3 DEF SetAttester
<1>4. CASE Tick \/ UNCHANGED vars
  BY <1>1, <1>4 DEF Tick, attestVars, vars
<1>5. ASSUME NEW h \in Handler,
             \/ \E e \in Event : BeginAppend(h, e)
             \/ ReadHead(h) \/ Dedupe(h) \/ CommitAppend(h)
             \/ \E a \in Attestation, p \in Payload : Attest(h, a, p) \/ Retry(h, a, p)
             \/ Submit(h) \/ WriteStatus(h) \/ Die(h)
      PROVE  RegistryIsFirst'
  BY <1>1, <1>5 DEF BeginAppend, ReadHead, Dedupe, CommitAppend, Attest, Retry, Submit,
     WriteStatus, Die, attestVars
<1> QED
  BY <1>2, <1>3, <1>4, <1>5, FirstKept DEF Next

(* At most one commitment of an execution is ever accepted, and it is the  *)
(* one the registry holds, however often, late or differently it is sent   *)
(* and whoever may attest (AttestationRegistry.sol:64-91).                 *)
THEOREM RegistryHoldsFirst == Spec => []RegistryIsFirst
<1>1. Init => RegistryIsFirst
  BY DEF Init, RegistryIsFirst
<1> QED
  BY <1>1, FirstStep, AuditTypesHold, PTL DEF Spec
=============================================================================
