------------------------- MODULE Trajectory_proofs --------------------------
(***************************************************************************)
(* Proofs about a trace and its stream, for any number of consumers,       *)
(* messages, entries, crashes and any batch size.                          *)
(***************************************************************************)
EXTENDS Trajectory, FiniteSetTheorems, SequenceTheorems, WellFoundedInduction, TLAPS

(* p is an initial piece of s. *)
StartOf(p, s) ==
    /\ Len(p) <= Len(s)
    /\ \A i \in 1 .. Len(p) : p[i] = s[i]

(* Each row says of the head's hash what the chain was at its number.      *)
RowInPlace(r) ==
    /\ r.seq \in 1 .. Len(head.hash)
    /\ Len(r.prev) = r.seq - 1 /\ StartOf(r.prev, head.hash)
    /\ Len(r.hash) = r.seq /\ StartOf(r.hash, head.hash)
    /\ r.content = head.hash[r.seq]

(* The rows are those of the head's hash, one per number.                  *)
RowsInPlace ==
    /\ head.seq = Len(head.hash)
    /\ \A r \in events : RowInPlace(r)
    /\ \A k \in 1 .. Len(head.hash) : \E r \in events : r.seq = k

(* What an append under way has read was the head once.                    *)
ReadWasHead(c) ==
    InFlight(c) => /\ StartOf(work[c].prev, head.hash)
                   /\ Msg(c).seq = Len(work[c].prev) + 1

TraceInv == TypeOK /\ RowsInPlace /\ \A c \in Consumer : ReadWasHead(c)

-----------------------------------------------------------------------------
(* Types. *)

(* A consumer that is not idle is at an entry of the stream.               *)
LEMMA MsgType ==
    ASSUME TypeOK, NEW c \in Consumer, work[c].at # "idle"
    PROVE  /\ Current(c) \in 1 .. cursor /\ Current(c) \in Entry
           /\ Msg(c) \in Message /\ Msg(c).seq \in Nat /\ Msg(c).content \in Content
           /\ work[c].ids \in Seq(Entry) /\ work[c].ids # <<>>
<1>1. work[c].ids \in Seq(Entry) /\ work[c].ids # <<>>
  BY DEF TypeOK
<1>2. Len(work[c].ids) >= 1 /\ Head(work[c].ids) = work[c].ids[1] /\ work[c].ids[1] \in Entry
  BY <1>1
<1>3. work[c].ids[1] <= cursor /\ cursor \in Nat /\ cursor <= Len(stream)
  BY <1>2 DEF TypeOK
<1>4. Current(c) \in 1 .. cursor /\ Current(c) \in Entry
  BY <1>2, <1>3, BoundsType DEF Current, Entry
<1>5. Msg(c) \in Message
  BY <1>4, <1>3 DEF Msg, Current, TypeOK
<1> QED
  BY <1>1, <1>4, <1>5, MessageType

(* A consumer that goes on with entries it may have keeps the types of     *)
(* what consumers do.                                                      *)
WorkOK(w, upto) ==
    /\ w \in [at: Stage, ids: Seq(Entry), prev: Seq(Content)]
    /\ \A n \in 1 .. Len(w.ids) : w.ids[n] <= upto
    /\ w.at # "idle" => w.ids # <<>>

WorkType == work \in [Consumer -> [at: Stage, ids: Seq(Entry), prev: Seq(Content)]]

LEMMA GotoType ==
    ASSUME TypeOK, NEW c \in Consumer, NEW w, cursor' \in Nat, cursor <= cursor',
           WorkOK(w, cursor'), Goto(c, w)
    PROVE  /\ WorkType'
           /\ \A d \in Consumer : WorkOK(work[d], cursor)'
<1>1. work' = [work EXCEPT ![c] = w] /\ WorkType
  BY DEF Goto, TypeOK, WorkType
<1>2. WorkType'
  BY <1>1 DEF WorkOK, WorkType
<1>3. ASSUME NEW d \in Consumer PROVE WorkOK(work[d], cursor)'
  <2>1. CASE d = c
    BY <2>1, <1>1 DEF WorkOK, WorkType
  <2>2. CASE d # c
    <3>1. work'[d] = work[d]
      BY <2>2, <1>1 DEF WorkType
    <3>2. WorkOK(work[d], cursor)
      BY DEF TypeOK, WorkOK
    <3>0. work[d].ids \in Seq(Entry)
      BY DEF TypeOK
    <3>3. \A n \in 1 .. Len(work[d].ids) : work[d].ids[n] \in Int
      <4>1. \A n \in 1 .. Len(work[d].ids) : work[d].ids[n] \in Entry
        BY <3>0
      <4> QED
        BY <4>1, BoundsType DEF Entry
    <3> QED
      BY <3>1, <3>2, <3>3, SMTT(30) DEF WorkOK, TypeOK
  <2> QED
    BY <2>1, <2>2
<1> QED
  BY <1>2, <1>3

(* The same with the entries the consumer has, or the ones left of them.   *)
LEMMA SameEntries ==
    ASSUME TypeOK, NEW c \in Consumer, work[c].at # "idle",
           NEW at \in Stage, NEW prev \in Seq(Content)
    PROVE  WorkOK([work[c] EXCEPT !.at = at, !.prev = prev], cursor)
BY MsgType DEF WorkOK, TypeOK

LEMMA SameWork ==
    ASSUME TypeOK, NEW c \in Consumer, work[c].at # "idle", NEW at \in Stage
    PROVE  WorkOK([work[c] EXCEPT !.at = at], cursor)
BY MsgType DEF WorkOK, TypeOK

LEMMA IdleOK == ASSUME NEW n \in Nat PROVE WorkOK(Idle, n)
<1>1. <<>> \in Seq(Entry) /\ <<>> \in Seq(Content) /\ Len(<<>>) = 0
  OBVIOUS
<1> QED
  BY <1>1 DEF WorkOK, Idle, Genesis, Stage

LEMMA NextMessageOK ==
    ASSUME TypeOK, NEW c \in Consumer, work[c].at # "idle"
    PROVE  WorkOK(NextMessage(c), cursor)
<1> DEFINE ids == work[c].ids
<1>1. ids \in Seq(Entry) /\ ids # <<>> /\ cursor \in Nat
  BY MsgType DEF TypeOK
<1>2. /\ Tail(ids) \in Seq(Entry) /\ Len(Tail(ids)) = Len(ids) - 1
      /\ \A n \in 1 .. Len(Tail(ids)) : Tail(ids)[n] = ids[n + 1]
  BY <1>1
<1>3. \A n \in 1 .. Len(ids) : ids[n] <= cursor
  BY DEF TypeOK
<1>4. \A n \in 1 .. Len(Tail(ids)) : Tail(ids)[n] <= cursor
  BY <1>1, <1>2, <1>3
<1>5. CASE Tail(ids) = <<>>
  BY <1>5, <1>1, IdleOK DEF NextMessage
<1>6. CASE Tail(ids) # <<>>
  <2>1. NextMessage(c) = Taking(Tail(ids))
    BY <1>6 DEF NextMessage
  <2>2. <<>> \in Seq(Content)
    OBVIOUS
  <2> QED
    BY <2>1, <2>2, <1>2, <1>4, <1>6 DEF WorkOK, Stage, Taking, Genesis
<1> QED
  BY <1>5, <1>6

(* What the actions change besides work keeps its type as well.            *)
OtherTypes ==
    /\ status \in {"ACTIVE", "COMPLETED"}
    /\ head \in [seq: Nat, hash: Seq(Content)]
    /\ events \subseteq [seq: Nat, content: Content, prev: Seq(Content), hash: Seq(Content)]
    /\ stream \in Seq(Message) /\ Len(stream) <= MaxPublish
    /\ start \in -1 .. Len(stream) /\ cursor \in 0 .. Len(stream)
    /\ pending \in [Consumer -> SUBSET (1 .. cursor)]
    /\ acked \subseteq 1 .. cursor
    /\ up \subseteq Consumer
    /\ trouble \in 0 .. MaxTrouble
    /\ left \subseteq 1 .. cursor
    /\ disturbed \in {"no", "yes"}

LEMMA TypeParts == TypeOK <=> OtherTypes /\ WorkType /\ \A c \in Consumer : WorkOK(work[c], cursor)
BY DEF TypeOK, OtherTypes, WorkType, WorkOK

LEMMA TypePartsPrime ==
    (OtherTypes /\ WorkType /\ \A c \in Consumer : WorkOK(work[c], cursor))' => TypeOK'
BY DEF TypeOK, OtherTypes, WorkType, WorkOK

LEMMA RowType ==
    ASSUME TypeOK, NEW c \in Consumer, work[c].at # "idle"
    PROVE  Row(c) \in [seq: Nat, content: Content, prev: Seq(Content), hash: Seq(Content)]
<1>1. work[c].prev \in Seq(Content)
  BY DEF TypeOK
<1>2. Append(work[c].prev, Msg(c).content) \in Seq(Content)
  BY <1>1, MsgType
<1> QED
  BY <1>1, <1>2, MsgType DEF Row, EventHash

LEMMA PollKeepsTypes == ASSUME TypeOK, NEW c \in Consumer, Poll(c) PROVE TypeOK'
<1> DEFINE upto == Least(cursor + BatchSize, Len(stream))
           got == [n \in 1 .. upto - cursor |-> cursor + n]
           w == Taking(got)
<1>1. cursor \in Nat /\ Len(stream) \in Nat /\ cursor < Len(stream) /\ Len(stream) <= MaxPublish
  BY DEF Poll, TypeOK
<1>2. upto \in Nat /\ upto > cursor /\ upto <= Len(stream)
  BY <1>1, BoundsType DEF Least
<1> HIDE DEF upto
<1>3. /\ cursor' = upto /\ UNCHANGED <<status, head, events, stream, start, acked, up, trouble, left, disturbed>>
      /\ pending' = [pending EXCEPT ![c] = @ \cup (cursor + 1 .. upto)]
      /\ Goto(c, w)
  BY DEF Poll, table, upto
<1>4. got \in [1 .. upto - cursor -> Entry]
  BY <1>1, <1>2, BoundsType DEF Entry
<1>5. got \in Seq(Entry) /\ Len(got) = upto - cursor /\ got # <<>>
  BY <1>4, <1>2, <1>1
<1>6. \A n \in 1 .. Len(got) : got[n] <= upto
  BY <1>5, <1>2, <1>1
<1> HIDE DEF got
<1>7. <<>> \in Seq(Content)
  OBVIOUS
<1>8. WorkOK(w, cursor')
  BY <1>7, <1>5, <1>6, <1>3 DEF WorkOK, Stage, Taking, Genesis
<1> HIDE DEF w
<1>9. WorkType' /\ \A d \in Consumer : WorkOK(work[d], cursor)'
  BY <1>8, <1>3, <1>2, <1>1, GotoType
<1>10. OtherTypes'
  <2>1. pending' \in [Consumer -> SUBSET (1 .. upto)]
    BY <1>1, <1>2, <1>3 DEF TypeOK
  <2> QED
    BY <2>1, <1>1, <1>2, <1>3 DEF TypeOK, OtherTypes
<1> QED
  BY <1>9, <1>10, TypePartsPrime

LEMMA RecoverKeepsTypes == ASSUME TypeOK, NEW c \in Consumer, Recover(c) PROVE TypeOK'
<1> DEFINE n == Least(BatchSize, Cardinality(pending[c]))
<1>1. pending[c] \subseteq 1 .. cursor /\ cursor \in Nat /\ cursor <= MaxPublish /\ pending[c] # {}
  BY BoundsType DEF Recover, TypeOK
<1>2. n \in Nat /\ n >= 1
  <2>0. IsFiniteSet(1 .. cursor)
    BY <1>1, FS_Interval
  <2>1. IsFiniteSet(pending[c])
    BY <2>0, <1>1, FS_Subset
  <2>2. Cardinality(pending[c]) \in Nat /\ Cardinality(pending[c]) # 0
    BY <2>1, <1>1, FS_CardinalityType, FS_EmptySet
  <2> QED
    BY <2>2, BoundsType DEF Least
<1>3. PICK ids \in [1 .. n -> pending[c]] :
         /\ Goto(c, Taking(ids))
         /\ left' = (left \cup pending[c]) \ Ids(ids)
  BY DEF Recover
<1> HIDE DEF n
<1>4. /\ ids \in Seq(Entry) /\ Len(ids) = n /\ ids # <<>>
      /\ \A k \in 1 .. Len(ids) : ids[k] <= cursor
  <2>1. ids \in [1 .. n -> Entry]
    BY <1>1, <1>3, BoundsType DEF Entry
  <2>2. ids \in Seq(Entry) /\ Len(ids) = n
    BY <2>1, <1>2
  <2> QED
    BY <2>2, <1>1, <1>2, <1>3
<1>5. <<>> \in Seq(Content)
  OBVIOUS
<1>6. WorkOK(Taking(ids), cursor)
  BY <1>4, <1>5 DEF WorkOK, Stage, Taking, Genesis
<1>7. UNCHANGED <<status, head, events, stream, start, cursor, pending, acked, up, trouble, disturbed>>
  BY DEF Recover, table, group
<1>8. WorkType' /\ \A d \in Consumer : WorkOK(work[d], cursor)'
  BY <1>1, <1>3, <1>6, <1>7, GotoType
<1>9. left' \subseteq 1 .. cursor
  BY <1>1, <1>3 DEF TypeOK
<1>10. OtherTypes'
  BY <1>7, <1>9 DEF TypeOK, OtherTypes
<1> QED
  BY <1>8, <1>10, TypePartsPrime

(* The steps of a consumer inside handleMessage, with what follows a       *)
(* failed acknowledgement, a crash and a restart.                          *)
LEMMA HandlingKeepsTypes ==
    ASSUME TypeOK, NEW c \in Consumer,
           \/ Malformed(c) \/ ReadTrace(c) \/ FindDuplicate(c) \/ DatabaseError(c)
    PROVE  TypeOK'
<1>1. work[c].at # "idle" /\ cursor \in Nat
  BY DEF Malformed, ReadTrace, FindDuplicate, DatabaseError, TypeOK
<1>2. cursor' = cursor /\ UNCHANGED <<status, head, events, stream, start, pending, acked, up, trouble, left>>
  BY DEF Malformed, ReadTrace, FindDuplicate, DatabaseError, table, group
<1>3. \E w : WorkOK(w, cursor) /\ Goto(c, w)
  <2>1. CASE Malformed(c)
    <3>1. Goto(c, AfterRejection(c))
      BY <2>1 DEF Malformed
    <3>2. WorkOK(AfterRejection(c), cursor)
      BY <1>1, SameWork DEF AfterRejection, Stage
    <3> QED
      BY <3>1, <3>2
  <2>2. CASE ReadTrace(c)
    <3>1. WorkOK(AfterRejection(c), cursor)
      BY <1>1, SameWork DEF AfterRejection, Stage
    <3>2. WorkOK([work[c] EXCEPT !.at = "dup", !.prev = head.hash], cursor)
      BY <1>1, SameEntries DEF Stage, TypeOK
    <3> QED
      BY <2>2, <3>1, <3>2 DEF ReadTrace
  <2>3. CASE FindDuplicate(c)
    <3>1. WorkOK([work[c] EXCEPT !.at = "ack"], cursor)
      BY <1>1, SameWork DEF Stage
    <3>2. WorkOK([work[c] EXCEPT !.at = "insert"], cursor)
      BY <1>1, SameWork DEF Stage
    <3> QED
      BY <2>3, <3>1, <3>2 DEF FindDuplicate
  <2>4. CASE DatabaseError(c)
    <3>1. WorkOK(AfterRejection(c), cursor)
      BY <1>1, SameWork DEF AfterRejection, Stage
    <3> QED
      BY <2>4, <3>1 DEF DatabaseError
  <2> QED
    BY <2>1, <2>2, <2>3, <2>4
<1>4. WorkType' /\ \A d \in Consumer : WorkOK(work[d], cursor)'
  BY <1>1, <1>2, <1>3, GotoType
<1>5. disturbed' \in {"no", "yes"}
  BY DEF Malformed, ReadTrace, FindDuplicate, DatabaseError, Began, TypeOK
<1>6. OtherTypes'
  BY <1>2, <1>5 DEF TypeOK, OtherTypes
<1> QED
  BY <1>4, <1>6, TypePartsPrime

LEMMA InsertKeepsTypes == ASSUME TypeOK, NEW c \in Consumer, Insert(c) PROVE TypeOK'
<1>1. work[c].at # "idle" /\ cursor \in Nat
  BY DEF Insert, TypeOK
<1>2. cursor' = cursor /\ UNCHANGED <<status, stream, start, pending, acked, up, trouble, left, disturbed>>
  BY DEF Insert, group
<1>3. Goto(c, [work[c] EXCEPT !.at = "ack"]) /\ WorkOK([work[c] EXCEPT !.at = "ack"], cursor)
  BY <1>1, SameWork DEF Insert, Stage
<1>4. WorkType' /\ \A d \in Consumer : WorkOK(work[d], cursor)'
  BY <1>1, <1>2, <1>3, GotoType
<1>5. Row(c) \in [seq: Nat, content: Content, prev: Seq(Content), hash: Seq(Content)]
  BY <1>1, RowType
<1>6. /\ head' \in [seq: Nat, hash: Seq(Content)]
      /\ events' \subseteq [seq: Nat, content: Content, prev: Seq(Content), hash: Seq(Content)]
  <2> HIDE DEF Row
  <2>1. CASE Unique(Row(c))
    BY <2>1, <1>5 DEF Insert, TypeOK
  <2>2. CASE ~Unique(Row(c))
    BY <2>2 DEF Insert, TypeOK
  <2> QED
    BY <2>1, <2>2
<1>7. OtherTypes'
  BY <1>2, <1>6 DEF TypeOK, OtherTypes
<1> QED
  BY <1>4, <1>7, TypePartsPrime

LEMMA EndingKeepsTypes ==
    ASSUME TypeOK, NEW c \in Consumer, Ack(c) \/ AckFails(c) \/ Crash(c)
    PROVE  TypeOK'
<1>1. cursor \in Nat /\ cursor' = cursor /\ UNCHANGED <<status, head, events, stream, start, disturbed>>
  BY DEF Ack, AckFails, Crash, table, TypeOK
<1>2. \E w : WorkOK(w, cursor) /\ Goto(c, w)
  <2>1. CASE Ack(c)
    <3>1. WorkOK(NextMessage(c), cursor)
      BY <2>1, NextMessageOK DEF Ack
    <3> QED
      BY <2>1, <3>1 DEF Ack
  <2>2. CASE AckFails(c) \/ Crash(c)
    BY <2>2, <1>1, IdleOK DEF AckFails, Crash
  <2> QED
    BY <2>1, <2>2
<1>3. WorkType' /\ \A d \in Consumer : WorkOK(work[d], cursor)'
  BY <1>1, <1>2, GotoType
<1>4. pending' \in [Consumer -> SUBSET (1 .. cursor)] /\ acked' \subseteq 1 .. cursor
  <2>1. CASE Ack(c)
    BY <2>1, MsgType DEF Ack, TypeOK
  <2>2. CASE AckFails(c) \/ Crash(c)
    BY <2>2 DEF AckFails, Crash, TypeOK
  <2> QED
    BY <2>1, <2>2
<1>5. up' \subseteq Consumer /\ trouble' \in 0 .. MaxTrouble
  BY BoundsType DEF Ack, AckFails, Crash, TypeOK
<1>6. left' \subseteq 1 .. cursor
  <2>1. CASE AckFails(c)
    <3>1. /\ work[c].ids \in Seq(Entry)
          /\ \A n \in 1 .. Len(work[c].ids) : work[c].ids[n] <= cursor
      BY DEF TypeOK
    <3>2. Ids(work[c].ids) \subseteq 1 .. cursor
      <4>1. ASSUME NEW n \in DOMAIN work[c].ids PROVE work[c].ids[n] \in 1 .. cursor
        <5>1. n \in 1 .. Len(work[c].ids) /\ work[c].ids[n] \in Entry
          BY <3>1
        <5> QED
          BY <5>1, <3>1, <1>1, BoundsType DEF Entry
      <4> QED
        BY <4>1 DEF Ids
    <3> QED
      BY <2>1, <3>2 DEF AckFails, TypeOK
  <2>2. CASE Ack(c) \/ Crash(c)
    BY <2>2 DEF Ack, Crash, TypeOK
  <2> QED
    BY <2>1, <2>2
<1>7. OtherTypes'
  BY <1>1, <1>4, <1>5, <1>6 DEF TypeOK, OtherTypes
<1> QED
  BY <1>3, <1>7, TypePartsPrime

LEMMA OutsideKeepsTypes ==
    ASSUME TypeOK,
           \/ \E m \in Message : Publish(m)
           \/ EnsureGroup \/ CompleteTrace
           \/ \E c \in Consumer : Restart(c)
           \/ UNCHANGED vars
    PROVE  TypeOK'
<1>1. WorkType' /\ \A d \in Consumer : WorkOK(work[d], cursor)'
  <2>1. work' = work /\ cursor' \in Nat /\ cursor <= cursor' /\ cursor \in Nat
    BY DEF TypeOK, Publish, EnsureGroup, CompleteTrace, Restart, vars, group
  <2>2. WorkType /\ \A d \in Consumer : WorkOK(work[d], cursor)
    BY TypeParts
  <2>3. ASSUME NEW d \in Consumer PROVE WorkOK(work[d], cursor')
    <3>1. work[d].ids \in Seq(Entry) /\ \A n \in 1 .. Len(work[d].ids) : work[d].ids[n] <= cursor
      BY <2>2 DEF WorkOK
    <3>2. \A n \in 1 .. Len(work[d].ids) : work[d].ids[n] \in Entry
      BY <3>1
    <3>3. \A n \in 1 .. Len(work[d].ids) : work[d].ids[n] <= cursor'
      BY <3>1, <3>2, <2>1, BoundsType DEF Entry
    <3> QED
      BY <2>2, <3>3 DEF WorkOK
  <2> QED
    BY <2>1, <2>2, <2>3 DEF WorkType, WorkOK
<1>2. OtherTypes'
  <2>1. CASE \E m \in Message : Publish(m)
    <3>1. PICK m \in Message : Publish(m)
      BY <2>1
    <3>2. /\ Len(stream) \in Nat /\ Len(stream) < MaxPublish /\ stream' \in Seq(Message)
          /\ Len(stream') = Len(stream) + 1
      BY <3>1, BoundsType DEF Publish, TypeOK
    <3> QED
      BY <3>1, <3>2, BoundsType DEF Publish, TypeOK, OtherTypes, table
  <2>2. CASE EnsureGroup
    <3>1. start = -1 /\ cursor \in 0 .. Len(stream) /\ Len(stream) \in Nat
      BY <2>2 DEF EnsureGroup, TypeOK
    <3>2. \A i \in 1 .. cursor : i \in 1 .. Len(stream)
      BY <3>1
    <3>3. start' = Len(stream) /\ cursor' = Len(stream) /\ UNCHANGED <<pending, acked, stream>>
      BY <2>2 DEF EnsureGroup
    <3>4. pending' \in [Consumer -> SUBSET (1 .. cursor')] /\ acked' \subseteq 1 .. cursor'
      BY <3>2, <3>3 DEF TypeOK
    <3>5. start' \in -1 .. Len(stream') /\ cursor' \in 0 .. Len(stream')
      BY <3>1, <3>3
    <3> QED
      BY <2>2, <3>3, <3>4, <3>5 DEF EnsureGroup, TypeOK, OtherTypes, table
  <2>3. CASE CompleteTrace
    BY <2>3 DEF CompleteTrace, TypeOK, OtherTypes, group
  <2>4. CASE \E c \in Consumer : Restart(c)
    BY <2>4 DEF Restart, TypeOK, OtherTypes, table
  <2>5. CASE UNCHANGED vars
    BY <2>5 DEF vars, table, group, TypeOK, OtherTypes
  <2> QED
    BY <2>1, <2>2, <2>3, <2>4, <2>5
<1> QED
  BY <1>1, <1>2, TypePartsPrime

LEMMA TypesKept == ASSUME TypeOK, [Next]_vars PROVE TypeOK'
BY PollKeepsTypes, RecoverKeepsTypes, HandlingKeepsTypes, InsertKeepsTypes,
   EndingKeepsTypes, OutsideKeepsTypes DEF Next, Handle

LEMMA InitTypes == ASSUME Init PROVE TypeOK
<1>1. <<>> \in Seq(Entry) /\ <<>> \in Seq(Content) /\ <<>> \in Seq(Message) /\ Len(<<>>) = 0
  OBVIOUS
<1>2. OtherTypes
  BY <1>1, BoundsType DEF Init, OtherTypes, Genesis
<1>3. WorkType
  BY <1>1 DEF Init, WorkType, Idle, Genesis, Stage
<1>4. \A c \in Consumer : WorkOK(work[c], cursor)
  BY IdleOK DEF Init
<1> QED
  BY <1>2, <1>3, <1>4, TypeParts

(* All variables keep their types, whatever the host and the faults do.    *)
THEOREM TypesHold == Spec => []TypeOK
<1>1. Init => TypeOK
  BY InitTypes
<1>2. TypeOK /\ [Next]_vars => TypeOK'
  BY TypesKept
<1> QED
  BY <1>1, <1>2, PTL DEF Spec

-----------------------------------------------------------------------------
(* The chain. *)

(* A step that leaves the trace's rows and head alone, and in which no     *)
(* consumer is with an event and a head it was not with before.            *)
Aside ==
    /\ UNCHANGED <<head, events>>
    /\ \A c \in Consumer : InFlight(c)' =>
          /\ InFlight(c)
          /\ work'[c].prev = work[c].prev /\ Msg(c)' = Msg(c)

(* The other steps that leave them alone: the trace is read.               *)
LEMMA AsideKeepsInv ==
    ASSUME TraceInv, TypeOK', Aside
    PROVE  TraceInv'
<1>1. RowsInPlace'
  BY DEF TraceInv, RowsInPlace, RowInPlace, Aside, StartOf
<1>2. ASSUME NEW c \in Consumer PROVE ReadWasHead(c)'
  BY DEF TraceInv, ReadWasHead, Aside, StartOf
<1> QED
  BY <1>1, <1>2 DEF TraceInv

LEMMA ReadKeepsInv ==
    ASSUME TraceInv, TypeOK', NEW c \in Consumer, ReadTrace(c)
    PROVE  TraceInv'
<1>1. UNCHANGED <<head, events, stream>>
  BY DEF ReadTrace, table, group
<1>2. RowsInPlace'
  BY <1>1 DEF TraceInv, RowsInPlace, RowInPlace, StartOf
<1>3. ASSUME NEW d \in Consumer PROVE ReadWasHead(d)'
  <2>1. CASE d # c
    <3>1. work'[d] = work[d]
      BY <2>1 DEF ReadTrace, Goto, TraceInv, TypeOK
    <3> QED
      BY <3>1, <1>1 DEF TraceInv, ReadWasHead, InFlight, Msg, StartOf
  <2>2. CASE d = c /\ Appendable(Msg(c))
    <3>1. work'[c] = [work[c] EXCEPT !.at = "dup", !.prev = head.hash]
      BY <2>2 DEF ReadTrace, Goto, TraceInv, TypeOK
    <3>2. work'[c].ids = work[c].ids /\ work'[c].prev = head.hash
      BY <3>1 DEF TraceInv, TypeOK
    <3>3. Msg(c)' = Msg(c) /\ Msg(c).seq = Len(head.hash) + 1
      BY <3>2, <1>1, <2>2 DEF Msg, Appendable, InSequence, TraceInv, RowsInPlace
    <3> QED
      BY <3>2, <3>3, <1>1, <2>2 DEF ReadWasHead, StartOf, TraceInv, TypeOK
  <2>3. CASE d = c /\ ~Appendable(Msg(c))
    <3>1. work'[c].at = "ack"
      BY <2>3 DEF ReadTrace, Goto, AfterRejection, TraceInv, TypeOK
    <3> QED
      BY <3>1, <2>3 DEF ReadWasHead, InFlight
  <2> QED
    BY <2>1, <2>2, <2>3
<1> QED
  BY <1>2, <1>3 DEF TraceInv

(* A row that the indexes let in was read at the present head.             *)
LEMMA InsertAtHead ==
    ASSUME TraceInv, NEW c \in Consumer, Insert(c), Unique(Row(c))
    PROVE  work[c].prev = head.hash /\ Row(c).seq = Len(head.hash) + 1
<1> DEFINE prev == work[c].prev
<1>1. prev \in Seq(Content) /\ head.hash \in Seq(Content)
  BY DEF TraceInv, TypeOK
<1>2. StartOf(prev, head.hash) /\ Row(c).seq = Len(prev) + 1
  BY DEF Insert, TraceInv, ReadWasHead, InFlight, Row
<1>3. Row(c).seq \notin 1 .. Len(head.hash)
  BY DEF Unique, TraceInv, RowsInPlace
<1>4. Len(prev) = Len(head.hash)
  BY <1>1, <1>2, <1>3 DEF StartOf
<1>5. prev = head.hash
  BY <1>1, <1>2, <1>4, SeqEqual DEF StartOf
<1> QED
  BY <1>2, <1>4, <1>5

LEMMA InsertKeepsInv ==
    ASSUME TraceInv, TypeOK', NEW c \in Consumer, Insert(c)
    PROVE  TraceInv'
<1> DEFINE h == head.hash
<1>1. UNCHANGED stream /\ work' = [work EXCEPT ![c] = [work[c] EXCEPT !.at = "ack"]]
  BY DEF Insert, group, Goto
<1>2. ~InFlight(c)' /\ \A d \in Consumer \ {c} : work'[d] = work[d]
  BY <1>1 DEF InFlight, TraceInv, TypeOK
<1>3. CASE ~Unique(Row(c))
  <2>1. UNCHANGED <<head, events>>
    BY <1>3 DEF Insert
  <2>2. Aside
    BY <2>1, <1>1, <1>2 DEF Aside, InFlight, Msg
  <2> QED
    BY <2>2, AsideKeepsInv
<1>4. CASE Unique(Row(c))
  <2>0. PICK r : r = Row(c)
    OBVIOUS
  <2> DEFINE g == Append(h, r.content)
  <2>1. r.prev = h /\ r.seq = Len(h) + 1 /\ r.hash = Append(h, r.content)
    BY <2>0, <1>4, InsertAtHead DEF Row, EventHash
  <2>2. h \in Seq(Content) /\ r.content \in Content
    <3>1. work[c].at # "idle"
      BY DEF Insert
    <3> QED
      BY <2>0, <3>1, MsgType DEF TraceInv, TypeOK, Row
  <2>3. events' = events \cup {r} /\ head'.seq = r.seq /\ head'.hash = r.hash
    BY <2>0, <1>4 DEF Insert
  <2> HIDE DEF h
  <2>4. /\ g \in Seq(Content) /\ Len(g) = Len(h) + 1 /\ g[Len(h) + 1] = r.content
        /\ \A i \in 1 .. Len(h) : g[i] = h[i]
    BY <2>2
  <2> HIDE DEF g
  <2>5. head'.hash = g /\ Len(h) \in Nat
    BY <2>1, <2>2, <2>3 DEF g
  <2>6. \A p : StartOf(p, h) /\ Len(p) \in Nat => StartOf(p, g)
    BY <2>4, <2>5 DEF StartOf
  <2>7. StartOf(h, g) /\ StartOf(g, g)
    BY <2>4, <2>5 DEF StartOf
  <2>8. ASSUME NEW q \in events PROVE RowInPlace(q)'
    <3>1. /\ q.seq \in 1 .. Len(h) /\ q.content = h[q.seq]
          /\ Len(q.prev) = q.seq - 1 /\ StartOf(q.prev, h)
          /\ Len(q.hash) = q.seq /\ StartOf(q.hash, h)
      BY DEF TraceInv, RowsInPlace, RowInPlace, h
    <3>2. StartOf(q.prev, g) /\ StartOf(q.hash, g)
      BY <3>1, <2>6, <2>5
    <3>3. q.seq \in 1 .. Len(g) /\ q.content = g[q.seq]
      BY <3>1, <2>4, <2>5
    <3> QED
      BY <3>1, <3>2, <3>3, <2>5 DEF RowInPlace, StartOf
  <2>9. RowInPlace(r)'
    <3>2. r.seq \in 1 .. Len(g) /\ r.content = g[r.seq] /\ Len(r.prev) = r.seq - 1
      BY <2>1, <2>4, <2>5
    <3>3. Len(r.hash) = r.seq /\ r.hash = g
      BY <2>1, <2>4, <2>5 DEF g
    <3> QED
      BY <3>2, <3>3, <2>1, <2>7, <2>5 DEF RowInPlace, StartOf
  <2>10. head'.seq = Len(head'.hash)
    BY <2>1, <2>3, <2>4, <2>5
  <2>11. ASSUME NEW k \in 1 .. Len(head'.hash) PROVE \E q \in events' : q.seq = k
    <3>1. CASE k = r.seq
      BY <3>1, <2>3
    <3>2. CASE k # r.seq
      <4>1. k \in 1 .. Len(h)
        BY <3>2, <2>1, <2>4, <2>5
      <4> QED
        BY <4>1, <2>3 DEF TraceInv, RowsInPlace, h
    <3> QED
      BY <3>1, <3>2
  <2>12. ASSUME NEW d \in Consumer PROVE ReadWasHead(d)'
    <3>1. CASE d = c
      BY <3>1, <1>2 DEF ReadWasHead
    <3>2. CASE d # c
      <4>1. work'[d] = work[d]
        BY <3>2, <1>2
      <4>2. InFlight(d) => StartOf(work[d].prev, g)
        <5>0. work[d].prev \in Seq(Content)
          BY DEF TraceInv, TypeOK
        <5>1. Len(work[d].prev) \in Nat
          BY <5>0
        <5> QED
          BY <5>1, <2>6 DEF TraceInv, ReadWasHead, h
      <4> QED
        BY <4>1, <4>2, <2>5, <1>1 DEF TraceInv, ReadWasHead, InFlight, Msg, StartOf
    <3> QED
      BY <3>1, <3>2
  <2> QED
    BY <2>3, <2>8, <2>9, <2>10, <2>11, <2>12 DEF TraceInv, RowsInPlace, RowInPlace
<1> QED
  BY <1>3, <1>4

(* Every other step is an Aside. *)
LEMMA OthersAside ==
    ASSUME TraceInv, [Next]_vars,
           \A c \in Consumer : ~Insert(c) /\ ~ReadTrace(c)
    PROVE  Aside
<1> USE DEF TraceInv, TypeOK
<1>1. ASSUME NEW m \in Message, Publish(m) PROVE Aside
  <2>1. work' = work /\ UNCHANGED <<head, events>> /\ stream' = Append(stream, m)
    BY <1>1 DEF Publish, table
  <2>2. ASSUME NEW c \in Consumer, InFlight(c) PROVE Msg(c)' = Msg(c)
    <3>1. Current(c) \in 1 .. cursor /\ cursor \in 0 .. Len(stream) /\ stream \in Seq(Message)
      BY <2>2, MsgType DEF InFlight
    <3>2. Current(c) \in 1 .. Len(stream)
      BY <3>1
    <3>3. Append(stream, m)[Current(c)] = stream[Current(c)]
      BY <3>1, <3>2
    <3> QED
      BY <3>3, <2>1 DEF Msg, Current
  <2> QED
    BY <2>1, <2>2 DEF Aside, InFlight
<1>2. CASE EnsureGroup \/ CompleteTrace \/ UNCHANGED vars \/ \E c \in Consumer : Restart(c)
  <2>1. UNCHANGED <<head, events, stream, work>>
    BY <1>2 DEF EnsureGroup, CompleteTrace, vars, Restart, table, group
  <2> QED
    BY <2>1 DEF Aside, InFlight, Msg
<1>3. ASSUME NEW c \in Consumer,
             \/ Poll(c) \/ Recover(c) \/ Malformed(c) \/ FindDuplicate(c)
             \/ Ack(c) \/ DatabaseError(c) \/ AckFails(c) \/ Crash(c)
      PROVE  Aside
  <2>1. UNCHANGED <<head, events, stream>>
    BY <1>3 DEF Poll, Recover, Malformed, FindDuplicate, Ack, DatabaseError, AckFails, Crash,
                table, group
  <2>2. ASSUME NEW d \in Consumer \ {c} PROVE work'[d] = work[d]
    BY <1>3 DEF Poll, Recover, Malformed, FindDuplicate, Ack, DatabaseError, AckFails, Crash, Goto
  <2>3. \/ ~InFlight(c)'
        \/ InFlight(c) /\ work'[c].prev = work[c].prev /\ work'[c].ids = work[c].ids
    <3>1. CASE Poll(c) \/ Recover(c)
      BY <3>1 DEF Poll, Recover, Goto, Taking, InFlight
    <3>2. CASE Malformed(c) \/ DatabaseError(c)
      BY <3>2 DEF Malformed, DatabaseError, AfterRejection, Goto, InFlight
    <3>3. CASE FindDuplicate(c)
      BY <3>3 DEF FindDuplicate, Goto, InFlight
    <3>4. CASE Ack(c)
      BY <3>4 DEF Ack, NextMessage, Taking, Idle, Goto, InFlight
    <3>5. CASE AckFails(c) \/ Crash(c)
      BY <3>5 DEF AckFails, Crash, Idle, Goto, InFlight
    <3> QED
      BY <1>3, <3>1, <3>2, <3>3, <3>4, <3>5
  <2> QED
    BY <2>1, <2>2, <2>3 DEF Aside, InFlight, Msg
<1> QED
  BY <1>1, <1>2, <1>3 DEF Next, Handle

LEMMA InvKept == ASSUME TraceInv, [Next]_vars PROVE TraceInv'
<1>1. TypeOK'
  BY TypesKept DEF TraceInv
<1>2. CASE \E c \in Consumer : Insert(c)
  BY <1>1, <1>2, InsertKeepsInv
<1>3. CASE \E c \in Consumer : ReadTrace(c)
  BY <1>1, <1>3, ReadKeepsInv
<1>4. CASE \A c \in Consumer : ~Insert(c) /\ ~ReadTrace(c)
  BY <1>1, <1>4, OthersAside, AsideKeepsInv
<1> QED
  BY <1>2, <1>3, <1>4

LEMMA InitInv == ASSUME Init PROVE TraceInv
<1>1. Len(<<>>) = 0
  OBVIOUS
<1>2. RowsInPlace
  BY <1>1 DEF Init, RowsInPlace, Genesis
<1>3. \A c \in Consumer : ReadWasHead(c)
  BY DEF Init, ReadWasHead, InFlight, Idle
<1> QED
  BY <1>2, <1>3, InitTypes DEF TraceInv

THEOREM TraceInvHolds == Spec => []TraceInv
<1>1. Init => TraceInv
  BY InitInv
<1>2. TraceInv /\ [Next]_vars => TraceInv'
  BY InvKept
<1> QED
  BY <1>1, <1>2, PTL DEF Spec

(* Two beginnings of one sequence with the same length are one.            *)
LEMMA OneStart ==
    ASSUME NEW p \in Seq(Content), NEW q \in Seq(Content), NEW h,
           StartOf(p, h), StartOf(q, h), Len(p) = Len(q)
    PROVE  p = q
<1>1. \A i \in 1 .. Len(p) : p[i] = q[i]
  BY DEF StartOf
<1> QED
  BY <1>1, SeqEqual

(* Rows that are each in their place under one head verify.                *)
LEMMA InPlaceIsIntact == ASSUME TraceInv PROVE ChainIntact
<1> DEFINE h == head.hash
<1>1. h \in Seq(Content) /\ Len(h) \in Nat /\ head.seq = Len(h)
  <2>1. h \in Seq(Content)
    BY DEF TraceInv, TypeOK
  <2> QED
    BY <2>1 DEF TraceInv, RowsInPlace
<1>2. ASSUME NEW r \in events
      PROVE  /\ r.prev \in Seq(Content) /\ r.hash \in Seq(Content) /\ r.content \in Content
             /\ r.seq \in 1 .. Len(h) /\ r.content = h[r.seq]
             /\ Len(r.prev) = r.seq - 1 /\ StartOf(r.prev, h)
             /\ Len(r.hash) = r.seq /\ StartOf(r.hash, h)
             /\ r = [seq |-> r.seq, content |-> r.content, prev |-> r.prev, hash |-> r.hash]
  <2>1. r \in [seq: Nat, content: Content, prev: Seq(Content), hash: Seq(Content)]
    BY DEF TraceInv, TypeOK
  <2>2. RowInPlace(r)
    BY DEF TraceInv, RowsInPlace
  <2> QED
    BY <2>1, <2>2 DEF RowInPlace
<1> HIDE DEF h
<1>3. ASSUME NEW q \in events, NEW r \in events, q.seq = r.seq PROVE q = r
  <2>1. q.prev = r.prev
    BY <1>2, <1>3, OneStart
  <2>2. q.hash = r.hash
    BY <1>2, <1>3, OneStart
  <2>3. q.content = r.content
    BY <1>2, <1>3
  <2> QED
    BY <1>2, <1>3, <2>1, <2>2, <2>3
<1>4. ASSUME NEW r \in events PROVE r.seq >= 1 /\ r.hash = EventHash(r.prev, r)
  <2> DEFINE e == Append(r.prev, r.content)
  <2>1. /\ e \in Seq(Content) /\ Len(e) = Len(r.prev) + 1
        /\ \A i \in 1 .. Len(r.prev) : e[i] = r.prev[i]
        /\ e[Len(r.prev) + 1] = r.content
    BY <1>2
  <2> HIDE DEF e
  <2>2. StartOf(e, h)
    BY <1>1, <1>2, <2>1, SMTT(30) DEF StartOf
  <2>3. e = r.hash
    BY <1>1, <1>2, <2>1, <2>2, OneStart
  <2> QED
    BY <1>2, <2>3 DEF EventHash, e
<1>5. ASSUME NEW r \in events, r.seq = 1 PROVE r.prev = Genesis
  BY <1>2, <1>5 DEF Genesis
<1>6. ASSUME NEW r \in events, r.seq > 1
      PROVE  \E q \in events : q.seq = r.seq - 1 /\ r.prev = q.hash
  <2>1. r.seq - 1 \in 1 .. Len(h)
    BY <1>2, <1>6, <1>1
  <2>2. PICK q \in events : q.seq = r.seq - 1
    BY <2>1 DEF TraceInv, RowsInPlace, h
  <2>3. r.prev = q.hash
    BY <1>2, <2>2, OneStart
  <2> QED
    BY <2>2, <2>3
<1>7. Verifies
  BY <1>3, <1>4, <1>5, <1>6 DEF Verifies
<1>8. \A r \in events : r.seq <= head.seq
  BY <1>1, <1>2
<1>9. ASSUME events # {} PROVE \E r \in events : r.seq = head.seq /\ r.hash = head.hash
  <2>1. Len(h) \in 1 .. Len(h)
    BY <1>9, <1>1, <1>2
  <2>2. PICK r \in events : r.seq = Len(h)
    BY <2>1 DEF TraceInv, RowsInPlace, h
  <2>3. StartOf(h, h)
    BY <1>1 DEF StartOf
  <2>4. r.hash = h
    BY <1>1, <1>2, <2>2, <2>3, OneStart
  <2> QED
    BY <1>1, <2>2, <2>4 DEF h
<1>10. ASSUME events = {} PROVE head = [seq |-> 0, hash |-> Genesis]
  <2>1. 1 .. Len(h) = {}
    BY <1>10 DEF TraceInv, RowsInPlace, h
  <2>2. Len(h) = 0
    BY <2>1, <1>1
  <2>3. h = <<>>
    BY <1>1, <2>2
  <2>4. head = [seq |-> head.seq, hash |-> head.hash]
    BY DEF TraceInv, TypeOK
  <2> QED
    BY <1>1, <2>2, <2>3, <2>4 DEF h, Genesis
<1> QED
  BY <1>7, <1>8, <1>9, <1>10 DEF ChainIntact

(* The stored rows verify and end at the trace's head, however appends     *)
(* interleave: an append that lost the race meets the unique index         *)
(* (appendEvent, trajectory.service.ts:114-201; verifyChain, 227-248).     *)
THEOREM ChainIsIntact == Spec => []ChainIntact
BY TraceInvHolds, InPlaceIsIntact, PTL

-----------------------------------------------------------------------------
(* The abstract chain. *)

Phase == IF status = "COMPLETED" /\ \A c \in Consumer : ~InFlight(c)
         THEN "closed" ELSE "open"

LEMMA PhaseStep ==
    ASSUME TraceInv, [Next]_vars, Phase = "closed"
    PROVE  Phase' = "closed" /\ \A c \in Consumer : ~Insert(c)
<1>1. status = "COMPLETED" /\ \A c \in Consumer : ~InFlight(c)
  BY DEF Phase
<1>2. status' = "COMPLETED"
  BY <1>1 DEF Next, Handle, vars, table, Publish, EnsureGroup, CompleteTrace, Poll, Recover,
              Malformed, ReadTrace, FindDuplicate, Insert, Ack, DatabaseError, AckFails,
              Crash, Restart
<1>3. \A c \in Consumer : ~Insert(c) /\ ~FindDuplicate(c)
  BY <1>1 DEF Insert, FindDuplicate, InFlight
<1>4. ASSUME NEW c \in Consumer PROVE ~InFlight(c)'
  <2>1. CASE \E d \in Consumer : ReadTrace(d)
    <3>1. PICK d \in Consumer : ReadTrace(d)
      BY <2>1
    <3>2. work' = [work EXCEPT ![d] = AfterRejection(d)]
      BY <3>1, <1>1 DEF ReadTrace, Appendable, ActiveTrace, Goto
    <3> QED
      BY <3>2, <1>1 DEF InFlight, AfterRejection, TraceInv, TypeOK
  <2>2. CASE \A d \in Consumer : ~ReadTrace(d)
    BY <2>2, <1>1, <1>3, OthersAside DEF Aside
  <2> QED
    BY <2>1, <2>2
<1> QED
  BY <1>2, <1>3, <1>4 DEF Phase

(* A trace is an append-only chain that closes (HashChain): history is     *)
(* never rewritten, and after completion only appends that had already     *)
(* passed the status check still land (trajectory.service.ts:10-19,        *)
(* 130-134, 251-260).                                                      *)
THEOREM TraceImplementsHashChain == Spec => ImplementsHashChain
<1> USE DEF Trace!Init, Trace!Next, Trace!vars, Trace!Extend, Trace!Close
<1>1. Init => Trace!Init
  BY DEF Init, Genesis
<1>2. TraceInv /\ [Next]_vars => [Trace!Next]_(Trace!vars)
  <2> SUFFICES ASSUME TraceInv, [Next]_vars
               PROVE  [Trace!Next]_(Trace!vars)
    OBVIOUS
  <2> DEFINE ph == IF status = "COMPLETED" /\ \A c \in Consumer : ~InFlight(c)
                   THEN "closed" ELSE "open"
  <2>1. ph \in {"open", "closed"} /\ ph' \in {"open", "closed"} /\ ph = Phase /\ ph' = Phase'
    BY DEF Phase
  <2>2. ph = "closed" => ph' = "closed" /\ \A c \in Consumer : ~Insert(c)
    BY <2>1, PhaseStep
  <2> HIDE DEF ph
  <2>3. CASE \E c \in Consumer : Insert(c) /\ Unique(Row(c))
    <3>1. PICK c \in Consumer : Insert(c) /\ Unique(Row(c))
      BY <2>3
    <3>2. head'.hash = Append(head.hash, Msg(c).content)
      BY <3>1, InsertAtHead, SMTT(30) DEF Insert, Row, EventHash
    <3>3. Msg(c).content \in Content
      BY <3>1, MsgType DEF Insert, TraceInv
    <3>4. ph = "open"
      BY <3>1, <2>1, <2>2
    <3> QED
      BY <3>2, <3>3, <3>4, <2>1 DEF ph
  <2>4. CASE ~\E c \in Consumer : Insert(c) /\ Unique(Row(c))
    <3>1. head' = head
      BY <2>4 DEF Next, Handle, vars, table, Publish, EnsureGroup, CompleteTrace, Poll, Recover,
              Malformed, ReadTrace, FindDuplicate, Insert, Ack, DatabaseError, AckFails,
              Crash, Restart
    <3>2. ph' = ph \/ (ph = "open" /\ ph' = "closed")
      BY <2>1, <2>2
    <3> QED
      BY <3>1, <3>2 DEF ph
  <2> QED
    BY <2>3, <2>4
<1> QED
  BY <1>1, <1>2, TraceInvHolds, PTL DEF Spec, ImplementsHashChain, Trace!Spec
-----------------------------------------------------------------------------
(* One pass over the entries.                                              *)
(*                                                                         *)
(* A set of numbers that is not empty has a least one: induction over      *)
(* numbers, for the provers.                                               *)
LEMMA LeastNumber ==
    ASSUME NEW T \in SUBSET Nat, T # {}
    PROVE  \E n \in T : \A k \in T : n <= k
<1> DEFINE R == OpToRel(<, Nat)
<1>1. IsWellFoundedOn(R, Nat)
  BY NatLessThanWellFounded
<1>2. PICK n \in T : \A k \in T : ~ (<<k, n>> \in R)
  <2> HIDE DEF R
  <2> QED
    BY <1>1, WFMin
<1>3. \A k \in T : k < n => <<k, n>> \in R
  BY DEF OpToRel
<1> HIDE DEF R
<1>4. ASSUME NEW k \in T PROVE n <= k
  <2>1. ~ (k < n)
    BY <1>2, <1>3
  <2> QED
    BY <2>1
<1> QED
  BY <1>4

(* g[n] is the chain after the first n entries of s, up to m of them.      *)
After(s, m, g) ==
    g = [n \in 0 .. m |-> IF n = 0 THEN Genesis ELSE Ingest(g[n - 1], s[n])]

LEMMA PassExists ==
    ASSUME NEW s, NEW m \in Nat
    PROVE  \E g : After(s, m, g)
<1> DEFINE T == {k \in Nat : ~ \E g : After(s, k, g)}
<1>1. SUFFICES ASSUME T # {} PROVE FALSE
  OBVIOUS
<1>2. PICK k \in T : \A j \in T : k <= j
  <2> HIDE DEF T
  <2>1. T \in SUBSET Nat
    BY DEF T
  <2> QED
    BY <1>1, <2>1, LeastNumber
<1>3. CASE k = 0
  <2> DEFINE g == [n \in 0 .. 0 |-> Genesis]
  <2>1. After(s, 0, g)
    BY DEF After
  <2> QED
    BY <1>2, <1>3, <2>1
<1>4. CASE k # 0
  <2>1. k - 1 \in Nat /\ k - 1 \notin T
    BY <1>2, <1>4
  <2>2. PICK g : After(s, k - 1, g)
    BY <2>1
  <2> DEFINE next == Ingest(g[k - 1], s[k])
             h == [n \in 0 .. k |-> IF n < k THEN g[n] ELSE next]
  <2>3. ASSUME NEW n \in 0 .. k
        PROVE  h[n] = IF n = 0 THEN Genesis ELSE Ingest(h[n - 1], s[n])
    <3> HIDE DEF next
    <3>1. CASE n < k
      <4>1. n \in 0 .. k - 1 /\ h[n] = g[n]
        BY <3>1, <2>1
      <4>2. n # 0 => n - 1 \in 0 .. k /\ n - 1 < k /\ h[n - 1] = g[n - 1]
        BY <3>1, <2>1
      <4> HIDE DEF h
      <4>3. g[n] = IF n = 0 THEN Genesis ELSE Ingest(g[n - 1], s[n])
        BY <4>1, <2>2 DEF After
      <4> QED
        BY <4>1, <4>2, <4>3
    <3>2. CASE n = k
      <4>1. n - 1 \in 0 .. k /\ n - 1 < k /\ h[n - 1] = g[n - 1] /\ h[n] = next
        BY <3>2, <2>1
      <4> HIDE DEF h
      <4> QED
        BY <4>1, <3>2, <1>4 DEF next
    <3> QED
      BY <3>1, <3>2, <1>2
  <2>4. After(s, k, h)
    <3>1. h = [n \in 0 .. k |-> h[n]]
      OBVIOUS
    <3> HIDE DEF h
    <3> QED
      BY <3>1, <2>3 DEF After
  <2> QED
    BY <1>2, <2>4
<1> QED
  BY <1>3, <1>4

(* Passes agree for as long as their entries do.                           *)
LEMMA PassesAgree ==
    ASSUME NEW s, NEW t, NEW g, NEW h, NEW m \in Nat, NEW k \in Nat, m <= k,
           \A n \in 1 .. m : s[n] = t[n],
           After(s, m, g), After(t, k, h)
    PROVE  g[m] = h[m]
<1> DEFINE T == {n \in 0 .. m : g[n] # h[n]}
<1>1. SUFFICES ASSUME T # {} PROVE FALSE
  BY <1>1
<1>2. PICK n \in T : \A j \in T : n <= j
  <2>1. T \in SUBSET Nat
    OBVIOUS
  <2> HIDE DEF T
  <2> QED
    BY <1>1, <2>1, LeastNumber
<1>3. /\ g[n] = IF n = 0 THEN Genesis ELSE Ingest(g[n - 1], s[n])
      /\ h[n] = IF n = 0 THEN Genesis ELSE Ingest(h[n - 1], t[n])
  <2>1. n \in 0 .. m /\ n \in 0 .. k
    OBVIOUS
  <2> QED
    BY <2>1 DEF After
<1>4. CASE n = 0
  BY <1>2, <1>3, <1>4
<1>5. CASE n # 0
  <2>1. n - 1 \in 0 .. m /\ n - 1 \notin T /\ n \in 1 .. m
    BY <1>2, <1>5
  <2>2. g[n - 1] = h[n - 1] /\ s[n] = t[n]
    BY <2>1
  <2> QED
    BY <1>2, <1>3, <1>5, <2>2
<1> QED
  BY <1>4, <1>5

LEMMA IngestedIsAfter ==
    ASSUME NEW s, Len(s) \in Nat
    PROVE  \E g : After(s, Len(s), g) /\ Ingested(s) = g[Len(s)]
<1> DEFINE g == CHOOSE g : After(s, Len(s), g)
<1>1. After(s, Len(s), g)
  BY PassExists
<1>2. Ingested(s) = g[Len(s)]
  BY DEF Ingested, After
<1> HIDE DEF g
<1> QED
  BY <1>1, <1>2

(* One more entry is ingested by the chain of those before it.             *)
LEMMA IngestedMore ==
    ASSUME NEW s, NEW t, NEW n \in Nat, Len(s) = n + 1, Len(t) = n,
           \A i \in 1 .. n : s[i] = t[i]
    PROVE  Ingested(s) = Ingest(Ingested(t), s[n + 1])
<1>1. PICK g : After(s, n + 1, g) /\ Ingested(s) = g[n + 1]
  BY IngestedIsAfter
<1>2. PICK h : After(t, n, h) /\ Ingested(t) = h[n]
  BY IngestedIsAfter
<1>3. h[n] = g[n]
  <2>1. n + 1 \in Nat /\ n <= n + 1 /\ \A i \in 1 .. n : t[i] = s[i]
    OBVIOUS
  <2>2. After(t, n, h) /\ After(s, n + 1, g)
    BY <1>1, <1>2
  <2> QED
    BY <2>1, <2>2, PassesAgree
<1>4. g[n + 1] = Ingest(g[n], s[n + 1])
  <2>1. n + 1 \in 0 .. n + 1 /\ n + 1 # 0 /\ (n + 1) - 1 = n
    OBVIOUS
  <2> QED
    BY <1>1, <2>1 DEF After
<1> QED
  BY <1>1, <1>2, <1>3, <1>4

LEMMA IngestedNone == ASSUME NEW s, Len(s) = 0 PROVE Ingested(s) = Genesis
<1>1. PICK g : After(s, 0, g) /\ Ingested(s) = g[0]
  BY IngestedIsAfter
<1> QED
  BY <1>1 DEF After

-----------------------------------------------------------------------------
(* Delivery.                                                               *)

Done == Cardinality(acked)
Upto(n) == Ingested(SubSeq(stream, start + 1, start + n))
Past(c) == work[c].at \in {"dup", "insert", "ack"}

(* Before the group exists, nothing has been handled.                      *)
Untouched ==
    /\ acked = {} /\ events = {} /\ head.hash = Genesis
    /\ \A c \in Consumer : pending[c] = {} /\ work[c].at = "idle"

(* What was delivered is acknowledged or waits, with one consumer.         *)
Held ==
    /\ start <= cursor
    /\ acked \subseteq start + 1 .. cursor
    /\ \A c \in Consumer : pending[c] \subseteq start + 1 .. cursor
    /\ \A c \in Consumer : pending[c] \cap acked = {}
    /\ \A c, d \in Consumer : c # d => pending[c] \cap pending[d] = {}
    /\ \A i \in start + 1 .. cursor : i \in acked \/ \E c \in Consumer : i \in pending[c]

(* What a consumer works through is pending with it, the oldest first.     *)
InHand(c) ==
    /\ \A n \in 1 .. Len(work[c].ids) : work[c].ids[n] \in pending[c]
    /\ \A m, n \in 1 .. Len(work[c].ids) : m < n => work[c].ids[m] < work[c].ids[n]

Delivery ==
    /\ start = -1 => Untouched
    /\ start >= 0 => Held
    /\ \A c \in Consumer : InHand(c)

(* While nothing disturbed it, the first entries are the acknowledged ones *)
(* and the one after them is the only one being handled.                   *)
InOrder ==
    start >= 0 /\ disturbed = "no" =>
       /\ acked = start + 1 .. start + Done
       /\ \A c \in Consumer : Past(c) => Current(c) = start + Done + 1

(* While the trace is open as well, the chain is what the acknowledged     *)
(* entries make, an append under way fits it, and an entry that is about   *)
(* to be acknowledged has been ingested.                                   *)
Faithful ==
    start >= 0 /\ disturbed = "no" /\ status = "ACTIVE" =>
       /\ \/ head.hash = Upto(Done)
          \/ Done < cursor - start /\ head.hash = Upto(Done + 1)
       /\ \A c \in Consumer :
             /\ InFlight(c) => /\ head.hash = Upto(Done)
                               /\ work[c].prev = head.hash
                               /\ Fits(head.hash, Msg(c))
             /\ work[c].at = "ack" => head.hash = Upto(Done + 1)

OrderInv == TraceInv /\ Delivery /\ InOrder /\ Faithful

(* Steps that deliver and acknowledge nothing: a consumer has the entries  *)
(* it had, or none.                                                        *)
Holding ==
    /\ UNCHANGED <<start, cursor, pending, acked>>
    /\ \A c \in Consumer : work'[c].ids \in {work[c].ids, <<>>}
    /\ start = -1 => /\ UNCHANGED <<events, head>>
                     /\ \A c \in Consumer : work'[c].at = work[c].at

LEMMA HoldingKeepsDelivery == ASSUME TypeOK, Delivery, Holding PROVE Delivery'
<1>1. (start = -1 => Untouched)'
  BY DEF Delivery, Holding, Untouched
<1>2. (start >= 0 => Held)'
  BY DEF Delivery, Holding, Held
<1>3. ASSUME NEW c \in Consumer PROVE InHand(c)'
  <2>1. Len(<<>>) = 0
    OBVIOUS
  <2>2. InHand(c) /\ pending' = pending /\ work'[c].ids \in {work[c].ids, <<>>}
    BY DEF Delivery, Holding
  <2>3. CASE work'[c].ids = work[c].ids
    BY <2>2, <2>3 DEF InHand
  <2>4. CASE work'[c].ids = <<>>
    BY <2>1, <2>4 DEF InHand
  <2> QED
    BY <2>2, <2>3, <2>4
<1> QED
  BY <1>1, <1>2, <1>3 DEF Delivery

(* Before the group exists, no consumer is at anything.                    *)
LEMMA AllIdle ==
    ASSUME TypeOK, Delivery, NEW c \in Consumer, work[c].at # "idle"
    PROVE  start \in Nat
BY DEF TypeOK, Delivery, Untouched

(* A rejection or a read leaves the consumer with its entries.             *)
LEMMA SameIds ==
    ASSUME TypeOK, NEW c \in Consumer, Malformed(c) \/ ReadTrace(c) \/ DatabaseError(c)
    PROVE  /\ work'[c].ids = work[c].ids
           /\ \A d \in Consumer \ {c} : work'[d] = work[d]
<1>1. CASE ReadTrace(c) /\ Appendable(Msg(c))
  <2>1. work' = [work EXCEPT ![c] = [work[c] EXCEPT !.at = "dup", !.prev = head.hash]]
    BY <1>1 DEF ReadTrace, Goto
  <2> QED
    BY <2>1 DEF TypeOK
<1>2. CASE ~(ReadTrace(c) /\ Appendable(Msg(c)))
  <2>1. work' = [work EXCEPT ![c] = [work[c] EXCEPT !.at = "ack"]]
    BY <1>2 DEF ReadTrace, Malformed, DatabaseError, AfterRejection, Goto
  <2> QED
    BY <2>1 DEF TypeOK
<1> QED
  BY <1>1, <1>2

LEMMA OutsideHolds ==
    ASSUME TypeOK, Delivery,
           \/ \E m \in Message : Publish(m)
           \/ CompleteTrace \/ UNCHANGED vars
           \/ \E c \in Consumer : Restart(c)
    PROVE  Holding
BY DEF Holding, Publish, CompleteTrace, Restart, vars, table, group

LEMMA HandlingHolds ==
    ASSUME TypeOK, Delivery, NEW c \in Consumer,
           \/ Malformed(c) \/ ReadTrace(c) \/ FindDuplicate(c) \/ Insert(c)
           \/ DatabaseError(c) \/ AckFails(c)
    PROVE  Holding
<1>1. UNCHANGED <<start, cursor, pending, acked>>
  BY DEF Malformed, ReadTrace, FindDuplicate, Insert, DatabaseError, AckFails, table, group
<1>2. \A d \in Consumer : work'[d].ids \in {work[d].ids, <<>>}
  <2>1. \A d \in Consumer \ {c} : work'[d] = work[d]
    BY DEF Malformed, ReadTrace, FindDuplicate, Insert, DatabaseError, AckFails, Goto, TypeOK
  <2>2. CASE Malformed(c) \/ ReadTrace(c) \/ DatabaseError(c)
    BY <2>1, <2>2, SameIds
  <2>3. CASE FindDuplicate(c) \/ Insert(c)
    BY <2>1, <2>3, SMTT(30) DEF FindDuplicate, Insert, Goto, TypeOK
  <2>4. CASE AckFails(c)
    BY <2>1, <2>4 DEF AckFails, Idle, Goto, TypeOK
  <2> QED
    BY <2>2, <2>3, <2>4
<1>3. start # -1
  <2>1. work[c].at # "idle"
    BY DEF Malformed, ReadTrace, FindDuplicate, Insert, DatabaseError, AckFails
  <2> QED
    BY <2>1, AllIdle
<1> QED
  BY <1>1, <1>2, <1>3 DEF Holding

LEMMA CrashHolds ==
    ASSUME TypeOK, Delivery, NEW c \in Consumer, Crash(c)
    PROVE  Holding
<1>1. UNCHANGED <<table, start, cursor, pending, acked>> /\ work' = [work EXCEPT ![c] = Idle]
  BY DEF Crash, Goto
<1>2. \A d \in Consumer : work'[d] = work[d] \/ (d = c /\ work'[d] = Idle)
  BY <1>1 DEF TypeOK
<1> QED
  BY <1>1, <1>2 DEF Holding, Idle, Delivery, Untouched, table

LEMMA EnsureKeepsDelivery == ASSUME TypeOK, Delivery, EnsureGroup PROVE Delivery'
<1>1. Untouched /\ start' = Len(stream) /\ cursor' = Len(stream) /\ Len(stream) \in Nat
  BY DEF EnsureGroup, Delivery, TypeOK
<1>2. UNCHANGED <<pending, acked, work>>
  BY DEF EnsureGroup
<1>3. Held'
  BY <1>1, <1>2 DEF Held, Untouched
<1>4. \A c \in Consumer : InHand(c)'
  BY <1>2 DEF Delivery, InHand
<1> QED
  BY <1>1, <1>3, <1>4 DEF Delivery

LEMMA PollKeepsDelivery ==
    ASSUME TypeOK, Delivery, NEW c \in Consumer, Poll(c)
    PROVE  Delivery'
<1> DEFINE upto == Least(cursor + BatchSize, Len(stream))
           got == [n \in 1 .. upto - cursor |-> cursor + n]
<1>1. /\ start \in Nat /\ cursor \in Nat /\ upto \in Nat /\ cursor < upto
      /\ start' = start /\ acked' = acked /\ cursor' = upto
      /\ pending' = [pending EXCEPT ![c] = @ \cup (cursor + 1 .. upto)]
      /\ work' = [work EXCEPT ![c] = Taking(got)]
  BY BoundsType DEF Poll, TypeOK, Least, Goto
<1>2. Held
  BY <1>1 DEF Delivery
<1> HIDE DEF upto
<1>3. /\ pending'[c] = pending[c] \cup (cursor + 1 .. upto)
      /\ \A d \in Consumer \ {c} : pending'[d] = pending[d] /\ work'[d] = work[d]
      /\ work'[c].ids = got
  BY <1>1 DEF TypeOK, Taking
<1>4. Held'
  <2>1. start' <= cursor' /\ acked' \subseteq start' + 1 .. cursor'
    BY <1>1, <1>2 DEF Held
  <2>2. \A d \in Consumer : pending'[d] \subseteq start' + 1 .. cursor'
    BY <1>1, <1>2, <1>3 DEF Held
  <2>3. \A d \in Consumer : pending'[d] \cap acked' = {}
    BY <1>1, <1>2, <1>3 DEF Held
  <2>4. \A d, e \in Consumer : d # e => pending'[d] \cap pending'[e] = {}
    BY <1>1, <1>2, <1>3 DEF Held
  <2>5. ASSUME NEW i \in start' + 1 .. cursor'
        PROVE  i \in acked' \/ \E d \in Consumer : i \in pending'[d]
    <3>1. CASE i \in cursor + 1 .. upto
      BY <3>1, <1>3
    <3>2. CASE i \in start + 1 .. cursor
      BY <3>2, <1>1, <1>2, <1>3 DEF Held
    <3> QED
      BY <3>1, <3>2, <1>1
  <2> QED
    BY <2>1, <2>2, <2>3, <2>4, <2>5 DEF Held
<1>5. ASSUME NEW d \in Consumer PROVE InHand(d)'
  <2>1. CASE d = c
    <3>1. Len(got) = upto - cursor /\ \A n \in 1 .. Len(got) : got[n] = cursor + n
      BY <1>1
    <3>2. \A n \in 1 .. Len(got) : got[n] \in pending'[c]
      BY <3>1, <1>1, <1>3
    <3>3. \A m, n \in 1 .. Len(got) : m < n => got[m] < got[n]
      BY <3>1, <1>1
    <3> QED
      BY <2>1, <3>2, <3>3, <1>3 DEF InHand
  <2>2. CASE d # c
    BY <2>2, <1>3 DEF Delivery, InHand
  <2> QED
    BY <2>1, <2>2
<1> QED
  BY <1>1, <1>4, <1>5 DEF Delivery

LEMMA RecoverKeepsDelivery ==
    ASSUME TypeOK, Delivery, NEW c \in Consumer, Recover(c)
    PROVE  Delivery'
<1> DEFINE size == Least(BatchSize, Cardinality(pending[c]))
<1>1. PICK ids \in [1 .. size -> pending[c]] :
         Oldest(ids, pending[c]) /\ work' = [work EXCEPT ![c] = Taking(ids)]
  BY DEF Recover, Goto
<1>2. pending[c] # {} /\ UNCHANGED <<start, cursor, pending, acked>>
  BY DEF Recover, group
<1>3. start # -1
  BY <1>2 DEF Delivery, Untouched
<1>4. size \in Nat
  <2>1. IsFiniteSet(1 .. cursor) /\ pending[c] \in SUBSET (1 .. cursor)
    BY FS_Interval DEF TypeOK
  <2>2. Cardinality(pending[c]) \in Nat
    BY <2>1, FS_Subset, FS_CardinalityType
  <2> QED
    BY <2>2, BoundsType DEF Least
<1> HIDE DEF size
<1>5. ASSUME NEW d \in Consumer PROVE InHand(d)'
  <2>1. CASE d = c
    <3>1. work'[c].ids = ids
      BY <1>1 DEF TypeOK, Taking
    <3>2. Len(ids) = size /\ DOMAIN ids = 1 .. size
      BY <1>1, <1>4
    <3> QED
      BY <2>1, <3>1, <3>2, <1>1, <1>2 DEF InHand, Oldest
  <2>2. CASE d # c
    <3>1. work'[d] = work[d]
      BY <2>2, <1>1 DEF TypeOK
    <3> QED
      BY <3>1, <1>2 DEF Delivery, InHand
  <2> QED
    BY <2>1, <2>2
<1> QED
  BY <1>2, <1>3, <1>5 DEF Delivery, Held

(* The entry being acknowledged is the first of those in hand.             *)
LEMMA CurrentInHand ==
    ASSUME TypeOK, Delivery, NEW c \in Consumer, work[c].at # "idle"
    PROVE  /\ start \in Nat /\ Held
           /\ Current(c) \in pending[c] /\ Current(c) \notin acked
           /\ Current(c) \in start + 1 .. cursor
<1>1. start \in Nat /\ Held
  BY AllIdle DEF Delivery
<1>2. work[c].ids \in Seq(Entry) /\ work[c].ids # <<>>
  BY MsgType
<1>3. Current(c) = work[c].ids[1] /\ 1 \in 1 .. Len(work[c].ids)
  BY <1>2 DEF Current
<1>4. Current(c) \in pending[c]
  BY <1>3 DEF Delivery, InHand
<1> QED
  BY <1>1, <1>4 DEF Held

LEMMA AckKeepsDelivery ==
    ASSUME TypeOK, Delivery, NEW c \in Consumer, Ack(c)
    PROVE  Delivery'
<1> DEFINE i == Current(c)
           ids == work[c].ids
<1>1. /\ UNCHANGED <<start, cursor>> /\ acked' = acked \cup {i}
      /\ pending' = [pending EXCEPT ![c] = @ \ {i}]
      /\ work' = [work EXCEPT ![c] = NextMessage(c)]
  BY DEF Ack, Goto
<1>2. start \in Nat /\ Held /\ i \in pending[c] /\ i \in start + 1 .. cursor
  BY CurrentInHand DEF Ack
<1>3. ids \in Seq(Entry) /\ ids # <<>> /\ i = ids[1]
  <2>1. ids \in Seq(Entry) /\ ids # <<>>
    BY MsgType DEF Ack
  <2> QED
    BY <2>1 DEF Current
<1>4. InHand(c)
  BY DEF Delivery
<1> HIDE DEF i
<1>5. /\ pending'[c] = pending[c] \ {i}
      /\ \A d \in Consumer \ {c} : pending'[d] = pending[d] /\ work'[d] = work[d]
      /\ work'[c] = NextMessage(c)
  BY <1>1 DEF TypeOK
<1>6. Held'
  <2>1. start' <= cursor' /\ acked' \subseteq start' + 1 .. cursor'
    BY <1>1, <1>2 DEF Held
  <2>2. \A d \in Consumer : pending'[d] \subseteq start' + 1 .. cursor'
    BY <1>1, <1>2, <1>5 DEF Held
  <2>3. \A d \in Consumer : pending'[d] \cap acked' = {}
    BY <1>1, <1>2, <1>5 DEF Held
  <2>4. \A d, e \in Consumer : d # e => pending'[d] \cap pending'[e] = {}
    BY <1>2, <1>5 DEF Held
  <2>5. \A j \in start' + 1 .. cursor' : j \in acked' \/ \E d \in Consumer : j \in pending'[d]
    BY <1>1, <1>2, <1>5 DEF Held
  <2> QED
    BY <2>1, <2>2, <2>3, <2>4, <2>5 DEF Held
<1>7. ASSUME NEW d \in Consumer PROVE InHand(d)'
  <2>1. CASE d = c
    <3>1. work'[c].ids \in {<<>>, Tail(ids)}
      BY <1>5 DEF NextMessage, Taking, Idle
    <3>2. CASE work'[c].ids = <<>>
      <4>1. Len(<<>>) = 0
        OBVIOUS
      <4> QED
        BY <2>1, <3>2, <4>1 DEF InHand
    <3>3. CASE work'[c].ids = Tail(ids)
      <4>1. /\ Len(ids) \in Nat /\ Len(ids) >= 1 /\ Len(Tail(ids)) = Len(ids) - 1
            /\ \A n \in 1 .. Len(Tail(ids)) : Tail(ids)[n] = ids[n + 1]
        BY <1>3
      <4>2. ASSUME NEW n \in 1 .. Len(Tail(ids)) PROVE Tail(ids)[n] \in pending[c] \ {i}
        <5>1. n + 1 \in 1 .. Len(ids) /\ 1 \in 1 .. Len(ids) /\ 1 < n + 1
          BY <4>1
        <5>2. ids[1] < ids[n + 1] /\ ids[n + 1] \in pending[c]
          BY <5>1, <1>4 DEF InHand
        <5>3. ids[1] \in Int /\ ids[n + 1] \in Int
          <6>1. pending[c] \subseteq Int
            BY DEF TypeOK
          <6> QED
            BY <6>1, <5>2, <1>2, <1>3
        <5> QED
          BY <4>1, <5>2, <5>3, <1>3
      <4>3. ASSUME NEW m \in 1 .. Len(Tail(ids)), NEW n \in 1 .. Len(Tail(ids)), m < n
            PROVE  Tail(ids)[m] < Tail(ids)[n]
        <5>1. m + 1 \in 1 .. Len(ids) /\ n + 1 \in 1 .. Len(ids) /\ m + 1 < n + 1
          BY <4>1, <4>3
        <5> QED
          BY <5>1, <4>1, <1>4 DEF InHand
      <4> QED
        BY <2>1, <3>3, <4>2, <4>3, <1>5 DEF InHand
    <3> QED
      BY <3>1, <3>2, <3>3
  <2>2. CASE d # c
    BY <2>2, <1>5 DEF Delivery, InHand
  <2> QED
    BY <2>1, <2>2
<1> QED
  BY <1>1, <1>2, <1>6, <1>7 DEF Delivery

LEMMA DeliveryKept == ASSUME TypeOK, Delivery, [Next]_vars PROVE Delivery'
BY OutsideHolds, HandlingHolds, CrashHolds, HoldingKeepsDelivery, EnsureKeepsDelivery,
   PollKeepsDelivery, RecoverKeepsDelivery, AckKeepsDelivery DEF Next, Handle


-----------------------------------------------------------------------------
(* Order.                                                                  *)

LEMMA CountOfRun ==
    ASSUME NEW a \in Nat, NEW k \in Nat
    PROVE  Cardinality(a + 1 .. a + k) = k
BY FS_Interval

LEMMA DoneType == ASSUME TypeOK PROVE Done \in Nat
<1>1. IsFiniteSet(1 .. cursor) /\ acked \in SUBSET (1 .. cursor)
  BY FS_Interval DEF TypeOK
<1> QED
  BY <1>1, FS_Subset, FS_CardinalityType DEF Done

(* At most one consumer is past taking its entry up.                       *)
LEMMA OnlyOnePast ==
    ASSUME TypeOK, Delivery, InOrder, disturbed = "no",
           NEW c \in Consumer, NEW d \in Consumer, Past(c), Past(d)
    PROVE  c = d
<1>1. work[c].at # "idle" /\ work[d].at # "idle"
  BY DEF Past
<1>2. start \in Nat /\ Held /\ Current(c) \in pending[c] /\ Current(d) \in pending[d]
  BY <1>1, CurrentInHand
<1>3. Current(c) = Current(d)
  BY <1>2 DEF InOrder
<1> QED
  BY <1>2, <1>3 DEF Held

(* Steps after which a consumer is past taking up its entry only if it was *)
(* so before.                                                              *)
NoneTaken ==
    /\ UNCHANGED <<start, acked>>
    /\ disturbed' = "no" => disturbed = "no"
    /\ \A c \in Consumer : Past(c)' /\ disturbed' = "no" =>
          Past(c) /\ work'[c].ids = work[c].ids

LEMMA NoneTakenKeepsOrder == ASSUME InOrder, NoneTaken PROVE InOrder'
BY DEF InOrder, NoneTaken, Done, Current

LEMMA OthersTakeNone ==
    ASSUME TypeOK,
           \/ \E m \in Message : Publish(m)
           \/ CompleteTrace \/ UNCHANGED vars
           \/ \E c \in Consumer :
                 \/ Restart(c) \/ Poll(c) \/ Recover(c) \/ FindDuplicate(c) \/ Insert(c)
                 \/ DatabaseError(c) \/ AckFails(c) \/ Crash(c)
    PROVE  NoneTaken
<1>1. CASE \/ \E m \in Message : Publish(m)
           \/ CompleteTrace \/ UNCHANGED vars
           \/ \E c \in Consumer : Restart(c)
  <2>1. UNCHANGED <<start, acked, disturbed, work>>
    BY <1>1 DEF Publish, CompleteTrace, vars, Restart, group
  <2> QED
    BY <2>1 DEF NoneTaken, Past
<1>2. ASSUME NEW c \in Consumer,
             \/ Poll(c) \/ Recover(c) \/ FindDuplicate(c) \/ Insert(c)
             \/ DatabaseError(c) \/ AckFails(c) \/ Crash(c)
      PROVE  NoneTaken
  <2>1. /\ UNCHANGED <<start, acked>>
        /\ disturbed' = "no" => disturbed = "no"
    BY <1>2 DEF Poll, Recover, FindDuplicate, Insert, DatabaseError, AckFails, Crash, group
  <2>2. \A d \in Consumer \ {c} : work'[d] = work[d]
    BY <1>2 DEF Poll, Recover, FindDuplicate, Insert, DatabaseError, AckFails, Crash, Goto,
           TypeOK
  <2>3. \/ ~Past(c)' \/ disturbed' # "no"
        \/ Past(c) /\ work'[c].ids = work[c].ids
    <3>1. CASE Poll(c) \/ Recover(c)
      BY <3>1 DEF Poll, Recover, Goto, Taking, Past, TypeOK
    <3>2. CASE DatabaseError(c)
      BY <3>2 DEF DatabaseError
    <3>3. CASE FindDuplicate(c)
      BY <3>3 DEF FindDuplicate, Goto, Past, TypeOK
    <3>4. CASE Insert(c)
      BY <3>4 DEF Insert, Goto, Past, TypeOK
    <3>5. CASE AckFails(c) \/ Crash(c)
      BY <3>5 DEF AckFails, Crash, Idle, Goto, Past, TypeOK
    <3> QED
      BY <1>2, <3>1, <3>2, <3>3, <3>4, <3>5
  <2> QED
    BY <2>1, <2>2, <2>3 DEF NoneTaken, Past
<1> QED
  BY <1>1, <1>2

(* An entry that is taken up undisturbed is the next one.                  *)
LEMMA TakenIsNext ==
    ASSUME TypeOK, Delivery, InOrder, NEW c \in Consumer,
           work[c].at = "take", Began(c), disturbed' = "no"
    PROVE  disturbed = "no" /\ Current(c) = start + Done + 1
<1>1. disturbed = "no" /\ \A i \in start + 1 .. Current(c) - 1 : i \in acked
  BY DEF Began
<1>2. /\ start \in Nat /\ Current(c) \notin acked /\ Current(c) \in start + 1 .. cursor
      /\ Done \in Nat /\ cursor \in Nat
  <2>1. work[c].at # "idle"
    OBVIOUS
  <2>2. start \in Nat /\ Current(c) \notin acked /\ Current(c) \in start + 1 .. cursor
    BY <2>1, CurrentInHand
  <2>3. Done \in Nat
    BY DoneType
  <2>4. cursor \in Nat
    BY DEF TypeOK
  <2> QED
    BY <2>2, <2>3, <2>4
<1>3. acked = start + 1 .. start + Done
  BY <1>1, <1>2 DEF InOrder
<1> DEFINE i == Current(c)
<1> HIDE DEF i
<1>4. i \in Int /\ i > start + Done
  BY <1>2, <1>3 DEF i
<1>5. ~ (start + Done + 1 <= i - 1)
  BY <1>1, <1>2, <1>3, <1>4 DEF i
<1>6. i = start + Done + 1
  BY <1>2, <1>4, <1>5
<1> QED
  BY <1>1, <1>6 DEF i

LEMMA TakingKeepsOrder ==
    ASSUME TypeOK, Delivery, InOrder, NEW c \in Consumer, Malformed(c) \/ ReadTrace(c)
    PROVE  InOrder'
<1>1. UNCHANGED <<start, acked>> /\ work[c].at = "take" /\ Began(c)
  BY DEF Malformed, ReadTrace, group
<1>2. /\ \A d \in Consumer \ {c} : work'[d] = work[d]
      /\ work'[c].ids = work[c].ids
  BY SameIds
<1>3. SUFFICES ASSUME disturbed' = "no" PROVE InOrder'
  BY DEF InOrder
<1>4. start \in Nat /\ disturbed = "no" /\ Current(c) = start + Done + 1
  BY <1>1, <1>3, TakenIsNext, AllIdle
<1>5. Current(c)' = start + Done + 1
  BY <1>2, <1>4 DEF Current
<1>6. \A d \in Consumer : Past(d)' => Current(d)' = start + Done + 1
  BY <1>2, <1>4, <1>5 DEF InOrder, Past, Current
<1> QED
  BY <1>1, <1>4, <1>6 DEF InOrder, Done

LEMMA AckInOrder ==
    ASSUME TypeOK, Delivery, InOrder, NEW c \in Consumer, Ack(c), disturbed = "no"
    PROVE  /\ start \in Nat /\ UNCHANGED <<start, cursor, stream, disturbed>>
           /\ Done' = Done + 1 /\ acked' = start + 1 .. start + Done'
           /\ \A d \in Consumer : ~Past(d)'
<1> DEFINE k == Done
<1>1. start \in Nat /\ k \in Nat /\ Past(c)
  BY AllIdle, DoneType DEF Ack, Past
<1>2. acked = start + 1 .. start + k /\ Current(c) = start + k + 1
  BY <1>1 DEF InOrder
<1>3. /\ UNCHANGED <<start, cursor, stream, disturbed>> /\ acked' = acked \cup {Current(c)}
      /\ work' = [work EXCEPT ![c] = NextMessage(c)]
  BY DEF Ack, Goto
<1> HIDE DEF k
<1>4. acked' = start + 1 .. start + (k + 1)
  BY <1>1, <1>2, <1>3
<1>5. Cardinality(acked') = k + 1
  BY <1>1, <1>4, CountOfRun
<1>6. ASSUME NEW d \in Consumer PROVE ~Past(d)'
  <2>1. CASE d = c
    BY <2>1, <1>3 DEF Past, NextMessage, Idle, Taking, TypeOK
  <2>2. CASE d # c
    <3>1. ~Past(d)
      BY <2>2, <1>1, OnlyOnePast
    <3> QED
      BY <2>2, <3>1, <1>3 DEF Past, TypeOK
  <2> QED
    BY <2>1, <2>2
<1> QED
  BY <1>1, <1>3, <1>4, <1>5, <1>6 DEF Done, k

LEMMA EnsureKeepsOrder == ASSUME TypeOK, Delivery, EnsureGroup PROVE InOrder'
<1>1. /\ Untouched /\ start' = Len(stream) /\ Len(stream) \in Nat
      /\ UNCHANGED <<acked, work>>
  BY DEF EnsureGroup, Delivery, TypeOK
<1>2. acked' = {} /\ Done' = 0
  BY <1>1, FS_EmptySet DEF Untouched, Done
<1>3. start' + 1 .. start' + 0 = {}
  BY <1>1
<1> QED
  BY <1>1, <1>2, <1>3 DEF InOrder, Untouched, Past

LEMMA OrderKept == ASSUME TypeOK, Delivery, InOrder, [Next]_vars PROVE InOrder'
<1>1. ASSUME NEW c \in Consumer, Ack(c) PROVE InOrder'
  <2>1. CASE disturbed = "no"
    BY <1>1, <2>1, AckInOrder DEF InOrder
  <2>2. CASE disturbed # "no"
    BY <1>1, <2>2 DEF Ack, InOrder
  <2> QED
    BY <2>1, <2>2
<1> QED
  BY <1>1, OthersTakeNone, NoneTakenKeepsOrder, TakingKeepsOrder, EnsureKeepsOrder
     DEF Next, Handle

-----------------------------------------------------------------------------
(* Faithfulness.                                                           *)

LEMMA IngestedAtFirst ==
    ASSUME NEW s, NEW a \in Nat
    PROVE  Ingested(SubSeq(s, a + 1, a + 0)) = Genesis
<1>1. SubSeq(s, a + 1, a + 0) = <<>>
  <2>1. a + 1 \in Int /\ a + 0 \in Int /\ a + 0 < a + 1
    OBVIOUS
  <2> QED
    BY <2>1, SubSeqEmpty
<1>2. Len(<<>>) = 0
  OBVIOUS
<1> QED
  BY <1>1, <1>2, IngestedNone

(* A run of k entries after the first a. *)
LEMMA RunOf ==
    ASSUME NEW S, NEW q \in Seq(S), NEW a \in Nat, NEW k \in Nat, a + k <= Len(q)
    PROVE  /\ SubSeq(q, a + 1, a + k) \in Seq(S)
           /\ Len(SubSeq(q, a + 1, a + k)) = k
           /\ \A i \in 1 .. k : SubSeq(q, a + 1, a + k)[i] = q[a + i]
<1>1. PICK x \in Int, y \in Int : x = a + 1 /\ y = a + k
  OBVIOUS
<1>2. y - x + 1 = k /\ (x <= y <=> k # 0) /\ 1 <= x /\ y <= Len(q)
  BY <1>1
<1>3. \A i \in x .. y : q[i] \in S
  BY <1>2
<1>4. /\ SubSeq(q, x, y) \in Seq(S)
      /\ Len(SubSeq(q, x, y)) = IF x <= y THEN y - x + 1 ELSE 0
      /\ \A i \in 1 .. y - x + 1 : SubSeq(q, x, y)[i] = q[x + i - 1]
  BY ONLY <1>3, SubSeqProperties, x \in Int, y \in Int
<1>5. Len(SubSeq(q, x, y)) = k
  BY <1>2, <1>4
<1>6. \A i \in 1 .. k : x + i - 1 = a + i
  BY <1>1
<1>7. \A i \in 1 .. k : SubSeq(q, x, y)[i] = q[a + i]
  BY <1>2, <1>4, <1>6
<1> QED
  BY <1>1, <1>4, <1>5, <1>7

LEMMA UptoStep ==
    ASSUME start \in Nat, stream \in Seq(Message), NEW n \in Nat, start + n + 1 <= Len(stream)
    PROVE  Upto(n + 1) = Ingest(Upto(n), stream[start + n + 1])
<1> DEFINE s == SubSeq(stream, start + 1, start + (n + 1))
           t == SubSeq(stream, start + 1, start + n)
<1>1. n + 1 \in Nat /\ start + (n + 1) <= Len(stream) /\ start + n <= Len(stream)
      /\ start + (n + 1) = start + n + 1
  OBVIOUS
<1>2. Len(s) = n + 1 /\ \A i \in 1 .. n + 1 : s[i] = stream[start + i]
  BY <1>1, RunOf
<1>3. Len(t) = n /\ \A i \in 1 .. n : t[i] = stream[start + i]
  BY <1>1, RunOf
<1> HIDE DEF s, t
<1>4. Ingested(s) = Ingest(Ingested(t), s[n + 1])
  <2>1. \A i \in 1 .. n : s[i] = t[i]
    BY <1>2, <1>3
  <2> QED
    BY <1>2, <1>3, <2>1, IngestedMore
<1>5. s[n + 1] = stream[start + n + 1]
  BY <1>1, <1>2
<1> QED
  BY <1>4, <1>5 DEF Upto, s, t

(* Publishing adds nothing to what is there.                               *)
LEMMA UptoStays ==
    ASSUME start \in Nat, stream \in Seq(Message), NEW m \in Message, NEW n \in Nat,
           start + n <= Len(stream)
    PROVE  SubSeq(Append(stream, m), start + 1, start + n)
             = SubSeq(stream, start + 1, start + n)
<1> DEFINE s == Append(stream, m)
           a == SubSeq(s, start + 1, start + n)
           b == SubSeq(stream, start + 1, start + n)
<1>1. /\ s \in Seq(Message) /\ start + n <= Len(s)
      /\ \A i \in 1 .. n : s[start + i] = stream[start + i]
  OBVIOUS
<1> HIDE DEF s
<1>2. a \in Seq(Message) /\ Len(a) = n /\ \A i \in 1 .. n : a[i] = s[start + i]
  BY <1>1, RunOf
<1>3. b \in Seq(Message) /\ Len(b) = n /\ \A i \in 1 .. n : b[i] = stream[start + i]
  BY RunOf
<1> HIDE DEF a, b
<1>4. \A i \in 1 .. n : a[i] = b[i]
  BY <1>1, <1>2, <1>3
<1>5. a = b
  BY <1>2, <1>3, <1>4, SeqEqual
<1> QED
  BY <1>5 DEF a, b, s

(* What is acknowledged has been delivered.                                *)
LEMMA DoneDelivered ==
    ASSUME TypeOK, Delivery, InOrder, start \in Nat, disturbed = "no"
    PROVE  Done \in Nat /\ start + Done <= cursor /\ cursor \in Nat /\ cursor <= Len(stream)
<1>1. Done \in Nat /\ cursor \in Nat /\ cursor <= Len(stream)
  BY DoneType DEF TypeOK
<1>2. acked = start + 1 .. start + Done /\ acked \subseteq start + 1 .. cursor /\ start <= cursor
  BY DEF InOrder, Delivery, Held
<1> DEFINE k == Done
<1> HIDE DEF k
<1>3. start + k <= cursor
  <2>1. k = 0 \/ start + k \in start + 1 .. start + k
    BY <1>1 DEF k
  <2> QED
    BY <1>1, <1>2, <2>1 DEF k
<1> QED
  BY <1>1, <1>3 DEF k

(* What the next entry makes of the chain.                                 *)
LEMMA NextIngested ==
    ASSUME TypeOK, start \in Nat, NEW c \in Consumer, work[c].at # "idle",
           Current(c) = start + Done + 1
    PROVE  Upto(Done + 1) = Ingest(Upto(Done), Msg(c)) /\ Done < cursor - start
<1>1. Done \in Nat /\ Current(c) \in 1 .. cursor /\ cursor \in Nat /\ cursor <= Len(stream)
  <2>1. cursor \in Nat /\ cursor <= Len(stream)
    BY DEF TypeOK
  <2> QED
    BY <2>1, DoneType, MsgType
<1> DEFINE k == Done
<1> HIDE DEF k
<1>2. k \in Nat /\ start + k + 1 <= Len(stream) /\ k < cursor - start
  BY <1>1 DEF k
<1>3. Upto(k + 1) = Ingest(Upto(k), stream[start + k + 1])
  BY <1>2, UptoStep DEF TypeOK
<1> QED
  BY <1>2, <1>3 DEF k, Msg, Current

(* A step that leaves the chain, what is done and the appends under way as *)
(* they are.                                                               *)
Resting ==
    /\ UNCHANGED <<head, start, acked>>
    /\ disturbed' = "no" => disturbed = "no"
    /\ status' = "ACTIVE" => status = "ACTIVE"
    /\ cursor <= cursor'
    /\ stream' = stream \/ (cursor' = cursor /\ \E m \in Message : stream' = Append(stream, m))
    /\ \A c \in Consumer : Past(c)' =>
          /\ work'[c].at = work[c].at /\ work'[c].prev = work[c].prev
          /\ work'[c].ids = work[c].ids

LEMMA RestingStaysFaithful ==
    ASSUME OrderInv, Resting, TypeOK', start \in Nat
    PROVE  Faithful'
<1> USE DEF OrderInv, TraceInv
<1>1. SUFFICES ASSUME disturbed' = "no", status' = "ACTIVE" PROVE Faithful'
  BY DEF Faithful
<1>2. disturbed = "no" /\ status = "ACTIVE" /\ start' = start /\ Done' = Done /\ head' = head
  BY <1>1 DEF Resting, Done
<1>3. /\ Done \in Nat /\ start + Done <= cursor /\ cursor \in Nat /\ cursor <= Len(stream)
      /\ cursor' \in Nat /\ cursor <= cursor'
  BY <1>2, DoneDelivered DEF Resting, TypeOK
<1>4. \A n \in Nat : start + n <= cursor => Upto(n)' = Upto(n)
  <2>1. ASSUME NEW n \in Nat, start + n <= cursor PROVE Upto(n)' = Upto(n)
    <3>1. CASE stream' = stream
      BY <1>2, <3>1 DEF Upto
    <3>2. CASE stream' # stream
      <4>1. PICK m \in Message : stream' = Append(stream, m)
        BY <3>2 DEF Resting
      <4>2. start + n <= Len(stream)
        BY <1>3, <2>1
      <4>3. SubSeq(stream', start + 1, start + n) = SubSeq(stream, start + 1, start + n)
        BY <4>1, <4>2, UptoStays DEF TypeOK
      <4> QED
        BY <1>2, <4>3 DEF Upto
    <3> QED
      BY <3>1, <3>2
  <2> QED
    BY <2>1
<1>0. PICK k \in Nat : k = Done
  BY <1>3
<1>5. k \in Nat /\ Upto(k)' = Upto(k) /\ (k < cursor - start => Upto(k + 1)' = Upto(k + 1))
  BY <1>0, <1>3, <1>4
<1>6. k < cursor - start => k < cursor' - start
  <2>1. start \in Nat /\ cursor \in Nat /\ cursor' \in Nat /\ cursor <= cursor'
    BY <1>3
  <2>2. \A a, b, d, e \in Nat : a < b - e /\ b <= d => a < d - e
    OBVIOUS
  <2> QED
    BY <2>1, <2>2
<1>7. /\ head.hash = Upto(k) \/ (k < cursor - start /\ head.hash = Upto(k + 1))
      /\ \A c \in Consumer :
            /\ InFlight(c) => /\ head.hash = Upto(k)
                              /\ work[c].prev = head.hash
                              /\ Fits(head.hash, Msg(c))
            /\ work[c].at = "ack" => head.hash = Upto(k + 1)
  BY <1>0, <1>2 DEF Faithful
<1>8. \A c \in Consumer : work[c].at = "ack" => k < cursor - start
  <2>1. ASSUME NEW c \in Consumer, work[c].at = "ack" PROVE k < cursor - start
    <3>1. Current(c) = start + Done + 1
      BY <1>2, <2>1 DEF InOrder, Past
    <3> QED
      BY <1>0, <2>1, <3>1, NextIngested
  <2> QED
    BY <2>1
<1>9. ASSUME NEW c \in Consumer, Past(c)'
      PROVE  work'[c].at = work[c].at /\ work'[c].prev = work[c].prev /\ Msg(c)' = Msg(c)
  <2>1. work'[c].at = work[c].at /\ work'[c].prev = work[c].prev /\ work'[c].ids = work[c].ids
    BY <1>9 DEF Resting
  <2>2. Current(c)' = Current(c) /\ Current(c) \in 1 .. cursor
    BY <1>9, <2>1, MsgType DEF Past, Current
  <2>3. stream'[Current(c)] = stream[Current(c)]
    <3>1. Current(c) \in 1 .. Len(stream) /\ stream \in Seq(Message)
      BY <1>3, <2>2 DEF TypeOK
    <3>2. \A m \in Message : Append(stream, m)[Current(c)] = stream[Current(c)]
      BY <3>1
    <3>3. CASE stream' = stream
      BY <3>3
    <3>4. CASE stream' # stream
      <4>1. PICK m \in Message : stream' = Append(stream, m)
        BY <3>4 DEF Resting
      <4> QED
        BY <3>2, <4>1
    <3> QED
      BY <3>3, <3>4
  <2> QED
    BY <2>1, <2>2, <2>3 DEF Msg, Current
<1>10. ASSUME NEW c \in Consumer
       PROVE  /\ InFlight(c)' => /\ head'.hash = Upto(k)'
                                 /\ work'[c].prev = head'.hash
                                 /\ Fits(head.hash, Msg(c))'
              /\ work'[c].at = "ack" => head'.hash = Upto(k + 1)'
  <2>1. CASE InFlight(c)'
    <3>1. InFlight(c) /\ work'[c].prev = work[c].prev /\ Msg(c)' = Msg(c)
      BY <2>1, <1>9 DEF InFlight, Past
    <3>2. Fits(head.hash, Msg(c))' <=> Fits(head.hash, Msg(c))
      BY <3>1, <1>2 DEF Fits
    <3> QED
      BY <2>1, <3>1, <3>2, <1>2, <1>5, <1>7 DEF InFlight
  <2>2. CASE work'[c].at = "ack"
    <3>1. work[c].at = "ack"
      BY <2>2, <1>9 DEF Past
    <3> QED
      BY <2>2, <3>1, <1>2, <1>5, <1>7, <1>8 DEF InFlight
  <2> QED
    BY <2>1, <2>2
<1>11. Done' = k
  BY <1>0, <1>2
<1> QED
  BY <1>2, <1>5, <1>6, <1>7, <1>10, <1>11 DEF Faithful

LEMMA OthersRest ==
    ASSUME TypeOK,
           \/ \E m \in Message : Publish(m)
           \/ CompleteTrace \/ UNCHANGED vars
           \/ \E c \in Consumer : Restart(c) \/ Poll(c) \/ Recover(c) \/ AckFails(c) \/ Crash(c)
    PROVE  Resting
<1>1. CASE \/ \E m \in Message : Publish(m)
           \/ CompleteTrace \/ UNCHANGED vars
           \/ \E c \in Consumer : Restart(c)
  <2>1. UNCHANGED <<head, start, acked, disturbed, work, cursor>> /\ cursor \in Nat
    BY <1>1 DEF Publish, CompleteTrace, vars, Restart, table, group, TypeOK
  <2>2. /\ status' = "ACTIVE" => status = "ACTIVE"
        /\ stream' = stream \/ \E m \in Message : stream' = Append(stream, m)
    BY <1>1 DEF Publish, CompleteTrace, vars, Restart, table, group
  <2> QED
    BY <2>1, <2>2 DEF Resting
<1>2. ASSUME NEW c \in Consumer, Poll(c) \/ Recover(c) \/ AckFails(c) \/ Crash(c)
      PROVE  Resting
  <2>1. UNCHANGED <<head, status, start, acked, disturbed, stream>>
    BY <1>2 DEF Poll, Recover, AckFails, Crash, table, group
  <2>2. cursor <= cursor'
    <3>1. CASE Poll(c)
      BY <3>1, BoundsType DEF Poll, Least, TypeOK
    <3>2. CASE ~Poll(c)
      BY <1>2, <3>2 DEF Recover, AckFails, Crash, group, TypeOK
    <3> QED
      BY <3>1, <3>2
  <2>3. \A d \in Consumer \ {c} : work'[d] = work[d]
    BY <1>2 DEF Poll, Recover, AckFails, Crash, Goto, TypeOK
  <2>4. ~Past(c)'
    <3>1. CASE Poll(c) \/ Recover(c)
      BY <3>1 DEF Poll, Recover, Goto, Taking, Past, TypeOK
    <3>2. CASE AckFails(c) \/ Crash(c)
      BY <3>2 DEF AckFails, Crash, Idle, Goto, Past, TypeOK
    <3> QED
      BY <1>2, <3>1, <3>2
  <2> QED
    BY <2>1, <2>2, <2>3, <2>4 DEF Resting, Past
<1> QED
  BY <1>1, <1>2

LEMMA UptoType ==
    ASSUME TypeOK, start \in Nat, NEW n \in Nat, start + n <= Len(stream)
    PROVE  Upto(n) \in Seq(Content)
<1> DEFINE T == {k \in 0 .. n : Upto(k) \notin Seq(Content)}
<1>1. SUFFICES ASSUME T # {} PROVE FALSE
  OBVIOUS
<1>2. PICK k \in T : \A j \in T : k <= j
  <2>1. T \in SUBSET Nat
    OBVIOUS
  <2> HIDE DEF T
  <2> QED
    BY <1>1, <2>1, LeastNumber
<1>3. stream \in Seq(Message) /\ k \in 0 .. n /\ Upto(k) \notin Seq(Content)
  BY <1>2 DEF TypeOK
<1>4. CASE k = 0
  <2>1. Upto(0) = Genesis
    BY IngestedAtFirst DEF Upto
  <2>2. Genesis \in Seq(Content)
    BY DEF Genesis
  <2> HIDE DEF T
  <2> QED
    BY <1>3, <1>4, <2>1, <2>2
<1>5. CASE k # 0
  <2>1. PICK j \in Nat : k = j + 1
    <3>1. k - 1 \in Nat /\ k = (k - 1) + 1
      BY <1>3, <1>5
    <3> QED
      BY <3>1
  <2>2. Upto(j) \in Seq(Content)
    <3>1. j \in 0 .. n /\ ~(k <= j)
      BY <1>3, <2>1
    <3>2. j \notin T
      BY <1>2, <3>1
    <3> QED
      BY <3>1, <3>2
  <2> HIDE DEF T
  <2>3. start + j + 1 <= Len(stream) /\ start + j + 1 \in 1 .. Len(stream)
    BY <1>3, <2>1
  <2>4. Upto(k) = Ingest(Upto(j), stream[start + j + 1])
    BY <1>3, <2>1, <2>3, UptoStep
  <2>5. stream[start + j + 1].content \in Content
    <3>1. stream[start + j + 1] \in Message
      BY <1>3, <2>3
    <3> QED
      BY <3>1, MessageType
  <2> QED
    BY <1>3, <2>2, <2>4, <2>5 DEF Ingest
<1> QED
  BY <1>4, <1>5

(* The consumer at the next entry is the only one past taking one up.      *)
LEMMA AloneAtNext ==
    ASSUME TypeOK, Delivery, InOrder, disturbed = "no", NEW c \in Consumer,
           work[c].at # "idle", Current(c) = start + Done + 1
    PROVE  \A d \in Consumer \ {c} : ~Past(d)
<1>1. ASSUME NEW d \in Consumer \ {c}, Past(d) PROVE FALSE
  <2>1. work[d].at # "idle"
    BY <1>1 DEF Past
  <2>2. start \in Nat /\ Held /\ Current(c) \in pending[c] /\ Current(d) \in pending[d]
    BY <2>1, CurrentInHand
  <2>3. Current(d) = Current(c)
    BY <1>1, <2>2 DEF InOrder
  <2> QED
    BY <2>2, <2>3 DEF Held
<1> QED
  BY <1>1

(* What is known of a consumer that handles an entry of an open trace,     *)
(* undisturbed.                                                            *)
Handles(c, k) ==
    /\ start \in Nat /\ disturbed = "no" /\ status = "ACTIVE"
    /\ Done = k /\ k < cursor - start
    /\ Upto(k) \in Seq(Content) /\ Upto(k + 1) = Ingest(Upto(k), Msg(c))
    /\ head.hash \in {Upto(k), Upto(k + 1)}
    /\ head.seq = Len(head.hash) /\ head.hash \in Seq(Content)
    /\ Msg(c) \in Message
    /\ \A d \in Consumer \ {c} : ~Past(d)

LEMMA HandlesNext ==
    ASSUME OrderInv, disturbed = "no", status = "ACTIVE", NEW c \in Consumer,
           work[c].at # "idle", Current(c) = start + Done + 1
    PROVE  \E k \in Nat : Handles(c, k)
<1>0. TypeOK /\ RowsInPlace /\ Delivery /\ InOrder /\ Faithful
  BY DEF OrderInv, TraceInv
<1>1. start \in Nat
  BY <1>0, AllIdle
<1>2. PICK k \in Nat : k = Done
  BY <1>0, DoneType
<1>3. /\ Upto(k + 1) = Ingest(Upto(k), Msg(c)) /\ k < cursor - start
      /\ \A d \in Consumer \ {c} : ~Past(d)
  BY <1>0, <1>1, <1>2, NextIngested, AloneAtNext
<1>4. start + k <= Len(stream)
  <2>1. start + k <= cursor /\ cursor \in Nat /\ cursor <= Len(stream)
    BY <1>0, <1>1, <1>2, DoneDelivered
  <2>2. Len(stream) \in Nat
    BY <1>0 DEF TypeOK
  <2>3. \A a, b, d \in Nat : a + k <= b /\ b <= d => a + k <= d
    OBVIOUS
  <2> QED
    BY <1>1, <2>1, <2>2, <2>3
<1>5. Upto(k) \in Seq(Content)
  BY <1>0, <1>1, <1>4, UptoType
<1>6. head.hash \in {Upto(k), Upto(k + 1)}
  BY <1>0, <1>1, <1>2 DEF Faithful
<1>7. head.seq = Len(head.hash) /\ head.hash \in Seq(Content) /\ Msg(c) \in Message
  BY <1>0, MsgType DEF RowsInPlace, TypeOK
<1> QED
  BY <1>1, <1>2, <1>3, <1>5, <1>6, <1>7 DEF Handles

(* The same of one that has taken its entry up.                            *)
LEMMA PastHandles ==
    ASSUME OrderInv, disturbed = "no", status = "ACTIVE", NEW c \in Consumer, Past(c)
    PROVE  \E k \in Nat :
              /\ Handles(c, k)
              /\ InFlight(c) => /\ head.hash = Upto(k) /\ work[c].prev = head.hash
                                /\ Fits(head.hash, Msg(c))
              /\ work[c].at = "ack" => head.hash = Upto(k + 1)
<1>1. work[c].at # "idle"
  BY DEF Past
<1>2. start \in Nat
  BY <1>1, AllIdle DEF OrderInv, TraceInv
<1>3. Current(c) = start + Done + 1
  BY <1>2 DEF OrderInv, InOrder
<1>4. PICK k \in Nat : Handles(c, k)
  BY <1>1, <1>3, HandlesNext
<1>5. Done = k
  BY <1>4 DEF Handles
<1> QED
  BY <1>2, <1>4, <1>5 DEF OrderInv, Faithful

(* A step of the consumer that handles the next entry, as far as the       *)
(* others are concerned.                                                   *)
LEMMA HandlingFaithful ==
    ASSUME NEW c \in Consumer, NEW k \in Nat, Handles(c, k),
           UNCHANGED <<stream, start, cursor, acked>>,
           \A d \in Consumer \ {c} : work'[d] = work[d],
           \/ head'.hash = Upto(k)
           \/ head'.hash = Upto(k + 1),
           InFlight(c)' => /\ head'.hash = Upto(k) /\ work'[c].prev = head'.hash
                           /\ Fits(head'.hash, Msg(c)) /\ Msg(c)' = Msg(c),
           work'[c].at = "ack" => head'.hash = Upto(k + 1)
    PROVE  Faithful'
<1>1. Done' = k /\ Upto(k)' = Upto(k) /\ Upto(k + 1)' = Upto(k + 1)
  BY DEF Handles, Done, Upto
<1>2. k < cursor' - start'
  BY DEF Handles
<1>3. ASSUME NEW d \in Consumer, d # c PROVE ~InFlight(d)' /\ work'[d].at # "ack"
  BY <1>3 DEF Handles, Past, InFlight
<1>4. InFlight(c)' => /\ head'.hash = Upto(k)' /\ work'[c].prev = head'.hash
                      /\ Fits(head.hash, Msg(c))'
  BY <1>1 DEF Fits
<1> QED
  BY <1>1, <1>2, <1>3, <1>4 DEF Faithful

LEMMA MalformedFaithful ==
    ASSUME OrderInv, NEW c \in Consumer, Malformed(c)
    PROVE  Faithful'
<1>0. TypeOK /\ Delivery /\ InOrder
  BY DEF OrderInv, TraceInv
<1>1. SUFFICES ASSUME disturbed' = "no", status' = "ACTIVE" PROVE Faithful'
  BY DEF Faithful
<1>2. UNCHANGED <<status, head, stream, start, cursor, acked>> /\ Began(c)
      /\ work[c].at = "take" /\ Msg(c).form = "empty"
  BY DEF Malformed, table, group
<1>3. disturbed = "no" /\ Current(c) = start + Done + 1
  BY <1>0, <1>1, <1>2, TakenIsNext
<1>4. PICK k \in Nat : Handles(c, k)
  BY <1>1, <1>2, <1>3, HandlesNext
<1>5. Upto(k + 1) = Upto(k)
  BY <1>2, <1>4 DEF Handles, Ingest, Fits
<1>6. /\ work'[c].at = "ack"
      /\ \A d \in Consumer \ {c} : work'[d] = work[d]
  BY <1>0 DEF Malformed, AfterRejection, Goto, TypeOK
<1>7. head'.hash = Upto(k) /\ head'.hash = Upto(k + 1)
  BY <1>2, <1>4, <1>5 DEF Handles
<1> QED
  BY <1>2, <1>4, <1>6, <1>7, HandlingFaithful DEF InFlight

(* What the checks let pass is what the next entry adds.                   *)
LEMMA AppendableFits ==
    ASSUME NEW c \in Consumer, NEW k \in Nat, Handles(c, k), Msg(c).form # "empty"
    PROVE  /\ Appendable(Msg(c)) <=> Fits(head.hash, Msg(c))
           /\ Appendable(Msg(c)) => head.hash = Upto(k)
           /\ ~Appendable(Msg(c)) => head.hash = Upto(k + 1)
<1> DEFINE m == Msg(c)
<1>1. m.form \in Form /\ m.content \in Content
  BY MessageType DEF Handles
<1>2. Appendable(m) <=> Fits(head.hash, m)
  BY <1>1 DEF Appendable, Fits, ActiveTrace, InSequence, ClaimFits, Handles, Form
<1> HIDE DEF m
<1>3. CASE Fits(Upto(k), m)
  <2>1. /\ Upto(k + 1) = Append(Upto(k), m.content) /\ Upto(k) \in Seq(Content)
        /\ m.seq = Len(Upto(k)) + 1
    BY <1>3 DEF Handles, Ingest, Fits, m
  <2>2. Len(Upto(k + 1)) = Len(Upto(k)) + 1 /\ Len(Upto(k)) \in Nat
    BY <1>1, <2>1
  <2>3. ~Fits(Upto(k + 1), m)
    BY <2>1, <2>2 DEF Fits
  <2> QED
    BY <1>2, <1>3, <2>3 DEF Handles, m
<1>4. CASE ~Fits(Upto(k), m)
  <2>1. Upto(k + 1) = Upto(k)
    BY <1>4 DEF Handles, Ingest, m
  <2> QED
    BY <1>2, <1>4, <2>1 DEF Handles, m
<1> QED
  BY <1>3, <1>4

LEMMA ReadFaithful ==
    ASSUME OrderInv, NEW c \in Consumer, ReadTrace(c)
    PROVE  Faithful'
<1>0. TypeOK /\ Delivery /\ InOrder
  BY DEF OrderInv, TraceInv
<1>1. SUFFICES ASSUME disturbed' = "no", status' = "ACTIVE" PROVE Faithful'
  BY DEF Faithful
<1>2. UNCHANGED <<status, head, stream, start, cursor, acked>> /\ Began(c)
      /\ work[c].at = "take" /\ Msg(c).form # "empty"
  BY DEF ReadTrace, table, group
<1>3. disturbed = "no" /\ Current(c) = start + Done + 1
  BY <1>0, <1>1, <1>2, TakenIsNext
<1>4. PICK k \in Nat : Handles(c, k)
  BY <1>1, <1>2, <1>3, HandlesNext
<1>5. \A d \in Consumer \ {c} : work'[d] = work[d]
  BY <1>0, SameIds
<1>6. CASE Appendable(Msg(c))
  <2>1. work' = [work EXCEPT ![c] = [work[c] EXCEPT !.at = "dup", !.prev = head.hash]]
    BY <1>6 DEF ReadTrace, Goto
  <2>2. work'[c].at = "dup" /\ work'[c].prev = head.hash /\ work'[c].ids = work[c].ids
    BY <1>0, <2>1 DEF TypeOK
  <2>3. Msg(c)' = Msg(c)
    BY <1>2, <2>2 DEF Msg
  <2>4. head.hash = Upto(k) /\ Fits(head.hash, Msg(c))
    BY <1>2, <1>4, <1>6, AppendableFits
  <2> QED
    BY <1>2, <1>4, <1>5, <2>2, <2>3, <2>4, HandlingFaithful
<1>7. CASE ~Appendable(Msg(c))
  <2>1. work'[c].at = "ack"
    BY <1>0, <1>7 DEF ReadTrace, AfterRejection, Goto, TypeOK
  <2>2. head.hash = Upto(k + 1)
    BY <1>2, <1>4, <1>7, AppendableFits
  <2> QED
    BY <1>2, <1>4, <1>5, <2>1, <2>2, HandlingFaithful DEF InFlight
<1> QED
  BY <1>6, <1>7

(* The next row is not there yet.                                          *)
LEMMA NextRowIsNew ==
    ASSUME OrderInv, NEW c \in Consumer, work[c].at # "idle",
           work[c].prev = head.hash, Fits(head.hash, Msg(c))
    PROVE  \A r \in events : r.seq # Msg(c).seq /\ r.hash # EventHash(work[c].prev, Msg(c))
<1>1. head.hash \in Seq(Content) /\ Msg(c).content \in Content
  BY MsgType DEF OrderInv, TraceInv, TypeOK
<1>2. /\ Len(EventHash(work[c].prev, Msg(c))) = Len(head.hash) + 1
      /\ Msg(c).seq = Len(head.hash) + 1 /\ Len(head.hash) \in Nat
  BY <1>1 DEF EventHash, Fits
<1>3. \A r \in events : r.seq \in 1 .. Len(head.hash) /\ Len(r.hash) = r.seq
  BY DEF OrderInv, TraceInv, RowsInPlace, RowInPlace
<1> QED
  BY <1>2, <1>3

LEMMA FindFaithful ==
    ASSUME OrderInv, NEW c \in Consumer, FindDuplicate(c)
    PROVE  Faithful'
<1>0. TypeOK
  BY DEF OrderInv, TraceInv
<1>1. SUFFICES ASSUME disturbed' = "no", status' = "ACTIVE" PROVE Faithful'
  BY DEF Faithful
<1>2. UNCHANGED <<status, head, stream, start, cursor, acked, disturbed>>
      /\ work[c].at = "dup" /\ Past(c) /\ InFlight(c)
  BY DEF FindDuplicate, table, group, Past, InFlight
<1>3. PICK k \in Nat : /\ Handles(c, k) /\ head.hash = Upto(k)
                       /\ work[c].prev = head.hash /\ Fits(head.hash, Msg(c))
  BY <1>1, <1>2, PastHandles
<1>4. \A r \in events : r.hash # EventHash(work[c].prev, Msg(c))
  BY <1>2, <1>3, NextRowIsNew
<1>5. work' = [work EXCEPT ![c] = [work[c] EXCEPT !.at = "insert"]]
  BY <1>4 DEF FindDuplicate, Goto
<1>6. /\ work'[c].at = "insert" /\ work'[c].prev = work[c].prev /\ work'[c].ids = work[c].ids
      /\ \A d \in Consumer \ {c} : work'[d] = work[d]
  BY <1>0, <1>5 DEF TypeOK
<1>7. Msg(c)' = Msg(c)
  BY <1>2, <1>6 DEF Msg
<1> QED
  BY <1>2, <1>3, <1>6, <1>7, HandlingFaithful

LEMMA InsertFaithful ==
    ASSUME OrderInv, NEW c \in Consumer, Insert(c)
    PROVE  Faithful'
<1>0. TypeOK
  BY DEF OrderInv, TraceInv
<1>1. SUFFICES ASSUME disturbed' = "no", status' = "ACTIVE" PROVE Faithful'
  BY DEF Faithful
<1>2. UNCHANGED <<status, stream, start, cursor, acked, disturbed>>
      /\ work[c].at = "insert" /\ Past(c) /\ InFlight(c)
  BY DEF Insert, group, Past, InFlight
<1>3. PICK k \in Nat : /\ Handles(c, k) /\ head.hash = Upto(k)
                       /\ work[c].prev = head.hash /\ Fits(head.hash, Msg(c))
  BY <1>1, <1>2, PastHandles
<1>4. Unique(Row(c))
  <2>1. \A r \in events : r.seq # Msg(c).seq /\ r.hash # EventHash(work[c].prev, Msg(c))
    BY <1>2, <1>3, NextRowIsNew
  <2> QED
    BY <2>1 DEF Unique, Row
<1>5. head'.hash = Append(head.hash, Msg(c).content)
  BY <1>3, <1>4 DEF Insert, Row, EventHash
<1>6. head'.hash = Upto(k + 1)
  BY <1>3, <1>5 DEF Handles, Ingest
<1>7. /\ work'[c].at = "ack"
      /\ \A d \in Consumer \ {c} : work'[d] = work[d]
  BY <1>0 DEF Insert, Goto, TypeOK
<1> QED
  BY <1>2, <1>3, <1>6, <1>7, HandlingFaithful DEF InFlight

LEMMA AckFaithful ==
    ASSUME OrderInv, NEW c \in Consumer, Ack(c)
    PROVE  Faithful'
<1>1. SUFFICES ASSUME disturbed' = "no", status' = "ACTIVE" PROVE Faithful'
  BY DEF Faithful
<1>2. UNCHANGED <<head, status, disturbed>> /\ work[c].at = "ack" /\ Past(c)
  BY DEF Ack, table, Past
<1>3. PICK k \in Nat : Done = k /\ head.hash = Upto(k + 1)
  BY <1>1, <1>2, PastHandles DEF Handles
<1>4. /\ UNCHANGED <<start, stream>> /\ Done' = k + 1
      /\ \A d \in Consumer : ~Past(d)'
  BY <1>1, <1>2, <1>3, AckInOrder DEF OrderInv, TraceInv
<1>5. head'.hash = Upto(k + 1)'
  BY <1>2, <1>3, <1>4 DEF Upto
<1> QED
  BY <1>4, <1>5 DEF Faithful, Past, InFlight

LEMMA EnsureFaithful == ASSUME TypeOK, Delivery, EnsureGroup PROVE Faithful'
<1>1. Untouched /\ start' = Len(stream) /\ Len(stream) \in Nat /\ UNCHANGED <<head, acked, work>>
  BY DEF EnsureGroup, Delivery, TypeOK, table
<1>2. Done' = 0
  BY <1>1, FS_EmptySet DEF Untouched, Done
<1>3. Upto(0)' = Genesis
  BY <1>1, IngestedAtFirst DEF Upto
<1> QED
  BY <1>1, <1>2, <1>3 DEF Faithful, Untouched, InFlight

LEMMA FaithfulKept ==
    ASSUME OrderInv, TypeOK', Delivery', [Next]_vars
    PROVE  Faithful'
<1>0. TypeOK /\ Delivery
  BY DEF OrderInv, TraceInv
<1>1. ASSUME Resting PROVE Faithful'
  <2>1. CASE start \in Nat
    BY <1>0, <1>1, <2>1, RestingStaysFaithful
  <2>2. CASE start \notin Nat
    <3>1. start = -1 /\ start' = start
      BY <1>0, <1>1, <2>2 DEF TypeOK, Resting
    <3> QED
      BY <3>1 DEF Faithful
  <2> QED
    BY <2>1, <2>2
<1>2. ASSUME NEW c \in Consumer, DatabaseError(c) PROVE Faithful'
  BY <1>2 DEF DatabaseError, Faithful
<1>3. CASE \/ \E m \in Message : Publish(m)
           \/ CompleteTrace \/ UNCHANGED vars
           \/ \E c \in Consumer : Restart(c) \/ Poll(c) \/ Recover(c) \/ AckFails(c) \/ Crash(c)
  BY <1>0, <1>1, <1>3, OthersRest
<1> QED
  BY <1>0, <1>2, <1>3, MalformedFaithful, ReadFaithful, FindFaithful, InsertFaithful,
     AckFaithful, EnsureFaithful DEF Next, Handle

(* The entries are ingested once and in order.                             *)
THEOREM OrderInvHolds == Spec => []OrderInv
<1>1. Init => OrderInv
  <2>1. ASSUME Init PROVE Delivery /\ InOrder /\ Faithful
    <3>1. start = -1 /\ \A c \in Consumer : work[c].ids = <<>>
      BY <2>1 DEF Init, Idle
    <3>2. Len(<<>>) = 0
      OBVIOUS
    <3>3. Delivery
      BY <2>1, <3>1, <3>2 DEF Init, Delivery, Untouched, InHand, Idle
    <3> QED
      BY <3>1, <3>3 DEF InOrder, Faithful
  <2> QED
    BY <2>1, InitInv DEF OrderInv
<1>2. OrderInv /\ [Next]_vars => OrderInv'
  <2> SUFFICES ASSUME OrderInv, [Next]_vars PROVE OrderInv'
    OBVIOUS
  <2>1. TypeOK /\ TraceInv' /\ TypeOK'
    BY InvKept DEF OrderInv, TraceInv
  <2>2. Delivery'
    BY <2>1, DeliveryKept DEF OrderInv
  <2>3. InOrder'
    BY <2>1, OrderKept DEF OrderInv
  <2>4. Faithful'
    BY <2>1, <2>2, FaithfulKept
  <2> QED
    BY <2>1, <2>2, <2>3, <2>4 DEF OrderInv
<1> QED
  BY <1>1, <1>2, PTL DEF Spec

(* At-least-once delivery stores each event exactly once and in order.     *)
THEOREM EventsOnceInOrder == Spec => []ExactlyOnceInOrder
<1>1. OrderInv => ExactlyOnceInOrder
  BY DEF OrderInv, InOrder, Faithful, ExactlyOnceInOrder, Done, Upto
<1> QED
  BY <1>1, OrderInvHolds, PTL
=============================================================================
