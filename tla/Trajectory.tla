----------------------------- MODULE Trajectory -----------------------------
(***************************************************************************)
(* One trajectory trace and the stream that feeds it:                      *)
(* Backend/src/trajectory/trajectory.service.ts and ingestion.worker.ts.   *)
(*                                                                         *)
(* `appendEvent' is a READ COMMITTED transaction that reads the trace      *)
(* without locking it, looks for its event by hash, and inserts: what it   *)
(* read may be old by then, and only the unique indexes stand in its way.  *)
(* An entry's number in `stream' is its Redis id.  The consumer group      *)
(* hands each entry to one consumer and keeps it in that consumer's        *)
(* pending list until it is acknowledged.                                  *)
(*                                                                         *)
(* The host that calls processBatch and recoverPending is outside the      *)
(* code: a consumer that is up and idle may do either, and all it is held  *)
(* to is what the worker's header promises, recoverPending on a restart.   *)
(***************************************************************************)
EXTENDS Integers, Sequences, FiniteSets

CONSTANTS
    Consumer,    \* consumer names; a restarted worker keeps its name
    Content,     \* what computeEventHash covers besides number and link
    Message,     \* what producers put on the stream
    BatchSize,   \* `count' of a read
    MaxPublish,  \* bound: entries ever published
    MaxTrouble,  \* bound: crashes and failed acknowledgements
    Unclaimed    \* the producer sent no previousEventHash

Form == {"good", "empty", "unbound", "forged"}

ASSUME MessageType ==
    Message \subseteq [seq: Nat, content: Content, form: Form,
                       claim: Seq(Content) \cup {Unclaimed}]
ASSUME BoundsType ==
    BatchSize \in Nat \ {0} /\ MaxPublish \in Nat /\ MaxTrouble \in Nat

VARIABLES
    status,     \* trajectory_traces.status
    head,       \* its sequence_head and head_hash
    events,     \* rows of trajectory_events
    stream,     \* entries, oldest first
    start,      \* where the group was created; -1 before
    cursor,     \* last entry the group delivered
    pending,    \* delivered and not acknowledged, per consumer
    acked,      \* entries acknowledged
    up,         \* consumers that are running
    work,       \* what each consumer is in the middle of
    trouble,    \* crashes and failed acknowledgements so far
    left,       \* history: entries that wait for their consumer's next restart:
                \* its call threw before them, or its recovery read only a batch
    disturbed   \* history: "yes" once a database error was met, or an entry
                \* taken up before an earlier one was acknowledged

table == <<status, head, events>>
group == <<stream, start, cursor, pending, acked, up, trouble, left>>
vars == <<table, group, work, disturbed>>

Entry == 1 .. MaxPublish
Stage == {"idle", "take", "dup", "insert", "ack"}
Genesis == <<>>
Idle == [at |-> "idle", ids |-> <<>>, prev |-> Genesis]
Taking(ids) == [at |-> "take", ids |-> ids, prev |-> Genesis]

Init ==
    /\ status = "ACTIVE"
    /\ head = [seq |-> 0, hash |-> Genesis]
    /\ events = {}
    /\ stream = <<>>
    /\ start = -1
    /\ cursor = 0
    /\ pending = [c \in Consumer |-> {}]
    /\ acked = {}
    /\ up = Consumer
    /\ work = [c \in Consumer |-> Idle]
    /\ trouble = 0
    /\ left = {}
    /\ disturbed = "no"

-----------------------------------------------------------------------------
(* The trace. *)

(* computeEventHash: collision-free, over the content and the link. *)
EventHash(prev, m) == Append(prev, m.content)

(* Mutant of ActiveTrace: the status is not looked at. *)
AnyTrace == TRUE
ActiveTrace == status = "ACTIVE"

InSequence(m) == m.seq = head.seq + 1

(* Mutant of ClaimFits: a claimed predecessor is not compared. *)
ClaimIgnored(m) == TRUE
ClaimFits(m) == m.claim \in {Unclaimed, head.hash}

(* The checks of appendEvent, from the tenant's to the tamper check. *)
Appendable(m) ==
    /\ m.form # "unbound"
    /\ ActiveTrace
    /\ InSequence(m)
    /\ ClaimFits(m)
    /\ m.form # "forged"

(* Mutant of Unique: only the hash is indexed. *)
UniqueHashOnly(row) == \A r \in events : r.hash # row.hash

(* The unique indexes on (trace, sequence) and on the hash. *)
Unique(row) == \A r \in events : r.seq # row.seq /\ r.hash # row.hash

(* verifyChain: numbers contiguous from 1, each row linked to the one      *)
(* before it and its hash recomputed.                                      *)
Verifies ==
    /\ \A q, r \in events : q.seq = r.seq => q = r
    /\ \A r \in events : r.seq >= 1 /\ r.hash = EventHash(r.prev, r)
    /\ \A r \in events : r.seq = 1 => r.prev = Genesis
    /\ \A r \in events : r.seq > 1 =>
          \E q \in events : q.seq = r.seq - 1 /\ r.prev = q.hash

(* completeTrace: no condition on the status and no regard to appends. *)
CompleteTrace ==
    /\ status' = "COMPLETED"
    /\ UNCHANGED <<head, events, group, work, disturbed>>

-----------------------------------------------------------------------------
(* Producers and the group. *)

Publish(m) ==
    /\ Len(stream) < MaxPublish
    /\ stream' = Append(stream, m)
    /\ UNCHANGED <<table, start, cursor, pending, acked, up, trouble, left, work, disturbed>>

(* ensureGroup: created at "$", the end of the stream as it is now. *)
EnsureGroup ==
    /\ start = -1
    /\ start' = Len(stream)
    /\ cursor' = Len(stream)
    /\ UNCHANGED <<table, stream, pending, acked, up, trouble, left, work, disturbed>>

-----------------------------------------------------------------------------
(* A consumer. *)

Msg(c) == stream[Head(work[c].ids)]
Current(c) == Head(work[c].ids)
Goto(c, w) == work' = [work EXCEPT ![c] = w]
Free(c) == c \in up /\ work[c].at = "idle"
Least(a, b) == IF a <= b THEN a ELSE b

(* processBatch: the next entries no consumer of the group was given. *)
Poll(c) ==
    /\ Free(c)
    /\ start >= 0 /\ cursor < Len(stream)
    /\ LET upto == Least(cursor + BatchSize, Len(stream))
           got == [n \in 1 .. upto - cursor |-> cursor + n] IN
       /\ cursor' = upto
       /\ pending' = [pending EXCEPT ![c] = @ \cup (cursor + 1 .. upto)]
       /\ Goto(c, Taking(got))
    /\ UNCHANGED <<table, stream, start, acked, up, trouble, left, disturbed>>

Ids(ids) == {ids[n] : n \in DOMAIN ids}

Oldest(ids, S) ==
    /\ \A m, n \in DOMAIN ids : m < n => ids[m] < ids[n]
    /\ \A i \in S, n \in DOMAIN ids : i < ids[n] => \E m \in DOMAIN ids : ids[m] = i

(* recoverPending: the oldest entries of the consumer's own pending list,   *)
(* one batch of them; with nothing pending it does nothing.                *)
Recover(c) ==
    /\ Free(c)
    /\ pending[c] # {}
    /\ \E ids \in [1 .. Least(BatchSize, Cardinality(pending[c])) -> pending[c]] :
          /\ Oldest(ids, pending[c])
          /\ Goto(c, Taking(ids))
          /\ left' = (left \cup pending[c]) \ Ids(ids)
    /\ UNCHANGED <<table, stream, start, cursor, pending, acked, up, trouble, disturbed>>

NextMessage(c) ==
    LET rest == Tail(work[c].ids) IN
    IF rest = <<>> THEN Idle ELSE Taking(rest)

(* Mutant of AfterRejection: the entry is not acknowledged. *)
LeftPending(c) == Idle

(* What follows a rejection: the entry is acknowledged. *)
AfterRejection(c) == [work[c] EXCEPT !.at = "ack"]

Began(c) ==
    disturbed' = IF \E i \in start + 1 .. Current(c) - 1 : i \notin acked
                 THEN "yes" ELSE disturbed

(* handleMessage of a message with no event, or with one that does not parse. *)
Malformed(c) ==
    /\ work[c].at = "take"
    /\ Msg(c).form = "empty"
    /\ Goto(c, AfterRejection(c))
    /\ Began(c)
    /\ UNCHANGED <<table, group>>

(* appendEvent: the trace is read and the event checked against it. *)
ReadTrace(c) ==
    /\ work[c].at = "take"
    /\ Msg(c).form # "empty"
    /\ Goto(c, IF Appendable(Msg(c))
               THEN [work[c] EXCEPT !.at = "dup", !.prev = head.hash]
               ELSE AfterRejection(c))
    /\ Began(c)
    /\ UNCHANGED <<table, group>>

(* ... the event's hash is looked up: a row that came in between with the  *)
(* same hash is returned ...                                               *)
FindDuplicate(c) ==
    /\ work[c].at = "dup"
    /\ LET hash == EventHash(work[c].prev, Msg(c)) IN
       Goto(c, IF \E r \in events : r.hash = hash
               THEN [work[c] EXCEPT !.at = "ack"]
               ELSE [work[c] EXCEPT !.at = "insert"])
    /\ UNCHANGED <<table, group, disturbed>>

Row(c) == [seq |-> Msg(c).seq, content |-> Msg(c).content,
           prev |-> work[c].prev, hash |-> EventHash(work[c].prev, Msg(c))]

(* ... and the row goes in and becomes the head, or an index refuses it.   *)
(* Either way the message is acknowledged.                                 *)
Insert(c) ==
    /\ work[c].at = "insert"
    /\ IF Unique(Row(c))
       THEN /\ events' = events \cup {Row(c)}
            /\ head' = [seq |-> Row(c).seq, hash |-> Row(c).hash]
       ELSE UNCHANGED <<events, head>>
    /\ Goto(c, [work[c] EXCEPT !.at = "ack"])
    /\ UNCHANGED <<status, group, disturbed>>

(* The database fails or times out: the transaction is rolled back, and    *)
(* the catch acknowledges this error like any other.                       *)
DatabaseError(c) ==
    /\ work[c].at \in {"take", "dup", "insert"}
    /\ Msg(c).form # "empty"
    /\ disturbed' = "yes"
    /\ Goto(c, AfterRejection(c))
    /\ UNCHANGED <<table, group>>

Ack(c) ==
    /\ work[c].at = "ack"
    /\ acked' = acked \cup {Current(c)}
    /\ pending' = [pending EXCEPT ![c] = @ \ {Current(c)}]
    /\ Goto(c, NextMessage(c))
    /\ UNCHANGED <<table, stream, start, cursor, up, trouble, left, disturbed>>

(* Redis refuses the acknowledgement: the call throws, and the rest of its *)
(* batch stays pending with the entry.                                     *)
AckFails(c) ==
    /\ work[c].at = "ack"
    /\ trouble < MaxTrouble
    /\ trouble' = trouble + 1
    /\ left' = left \cup Ids(work[c].ids)
    /\ Goto(c, Idle)
    /\ UNCHANGED <<table, stream, start, cursor, pending, acked, up, disturbed>>

(* A crash; an open transaction is rolled back. *)
Crash(c) ==
    /\ c \in up
    /\ trouble < MaxTrouble
    /\ trouble' = trouble + 1
    /\ up' = up \ {c}
    /\ Goto(c, Idle)
    /\ UNCHANGED <<table, stream, start, cursor, pending, acked, left, disturbed>>

Restart(c) ==
    /\ c \notin up
    /\ up' = up \cup {c}
    /\ left' = left \ pending[c]
    /\ UNCHANGED <<table, stream, start, cursor, pending, acked, trouble, work, disturbed>>

Handle(c) == Malformed(c) \/ ReadTrace(c) \/ FindDuplicate(c) \/ Insert(c) \/ Ack(c)

Next ==
    \/ \E m \in Message : Publish(m)
    \/ EnsureGroup
    \/ CompleteTrace
    \/ \E c \in Consumer :
          \/ Poll(c) \/ Recover(c) \/ Handle(c)
          \/ DatabaseError(c) \/ AckFails(c) \/ Crash(c) \/ Restart(c)

(* recoverPending after a restart: of what waits with an idle consumer, all *)
(* is in `left' unless the consumer has restarted since.                   *)
RecoverAfterRestart(c) == ~(pending[c] \subseteq left) /\ Recover(c)

(* The awaits of a call settle while its process lives, which is the       *)
(* runtime's promise, and a restarted worker re-reads what it has pending, *)
(* which is the header's.  Nothing has the host poll, or recover at any    *)
(* other time, and nobody need ever publish, fail, crash or restart.       *)
Fairness ==
    \A c \in Consumer : WF_vars(Handle(c)) /\ WF_vars(RecoverAfterRestart(c))

Spec == Init /\ [][Next]_vars /\ Fairness

-----------------------------------------------------------------------------
(* Properties. *)

InFlight(c) == work[c].at \in {"dup", "insert"}

(* Types of all variables; entry numbers stay within the stream. *)
TypeOK ==
    /\ status \in {"ACTIVE", "COMPLETED"}
    /\ head \in [seq: Nat, hash: Seq(Content)]
    /\ events \subseteq [seq: Nat, content: Content, prev: Seq(Content), hash: Seq(Content)]
    /\ stream \in Seq(Message) /\ Len(stream) <= MaxPublish
    /\ start \in -1 .. Len(stream) /\ cursor \in 0 .. Len(stream)
    /\ pending \in [Consumer -> SUBSET (1 .. cursor)]
    /\ acked \subseteq 1 .. cursor
    /\ up \subseteq Consumer
    /\ work \in [Consumer -> [at: Stage, ids: Seq(Entry), prev: Seq(Content)]]
    /\ \A c \in Consumer :
          /\ \A n \in 1 .. Len(work[c].ids) : work[c].ids[n] <= cursor
          /\ work[c].at # "idle" => work[c].ids # <<>>
    /\ trouble \in 0 .. MaxTrouble
    /\ left \subseteq 1 .. cursor
    /\ disturbed \in {"no", "yes"}

(* However appends, completions, crashes and redeliveries interleave, the  *)
(* stored rows verify (verifyChain) and the trace's head is the last of    *)
(* them: appendEvent reads an unlocked head, the indexes do the rest.      *)
ChainIntact ==
    /\ Verifies
    /\ \A r \in events : r.seq <= head.seq
    /\ events # {} => \E r \in events : r.seq = head.seq /\ r.hash = head.hash
    /\ events = {} => head = [seq |-> 0, hash |-> Genesis]

Trace == INSTANCE HashChain WITH
    chain <- head.hash,
    phase <- IF status = "COMPLETED" /\ \A c \in Consumer : ~InFlight(c)
             THEN "closed" ELSE "open"

(* The trace implements an append-only chain that closes: nothing stored is *)
(* ever rewritten (the header's APPEND-ONLY), and once the trace is        *)
(* completed and the appends under way then have ended, it never grows.    *)
ImplementsHashChain == Trace!Spec

(* What one consumer would make of these entries, handling each once and   *)
(* without a failure.                                                      *)
Fits(chain, m) ==
    m.form = "good" /\ m.seq = Len(chain) + 1 /\ m.claim \in {Unclaimed, chain}
Ingest(chain, m) == IF Fits(chain, m) THEN Append(chain, m.content) ELSE chain
Ingested(entries) ==
    LET chain[n \in 0 .. Len(entries)] ==
            IF n = 0 THEN Genesis ELSE Ingest(chain[n - 1], entries[n])
    IN  chain[Len(entries)]

(* At-least-once delivery stores each event exactly once and in order:     *)
(* while no database error was met and no entry was taken up ahead of an   *)
(* unacknowledged one, the chain is what one undisturbed pass over the     *)
(* acknowledged entries makes, and perhaps over the one being handled,     *)
(* whatever duplicates, crashes, lost acknowledgements and restarts there  *)
(* have been (the delivery semantics of the worker's header).              *)
ExactlyOnceInOrder ==
    (start >= 0 /\ status = "ACTIVE" /\ disturbed = "no") =>
       LET done == Cardinality(acked)
           upto(n) == Ingested(SubSeq(stream, start + 1, start + n)) IN
       /\ acked = start + 1 .. start + done
       /\ \/ head.hash = upto(done)
          \/ done < cursor - start /\ head.hash = upto(done + 1)

(* An entry delivered to a consumer is acknowledged in the end, unless its *)
(* consumer is down or a failed acknowledgement of a consumer that stays   *)
(* up, or a backlog longer than a batch, has it wait for the next restart: *)
(* no message poisons the stream or makes a consumer go round, and what a  *)
(* crash left pending is taken up by the restarted worker (the header's    *)
(* restart recovery and the acknowledgement of rejected messages).         *)
DeliveredIsSettled ==
    \A i \in Entry, c \in Consumer :
       i \in pending[c] ~> i \in acked \/ i \in left \/ c \notin up
=============================================================================
