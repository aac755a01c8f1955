--------------------------- MODULE Payment_proofs ----------------------------
EXTENDS Payment, FiniteSetTheorems, TLAPS

(* Every operation keeps the types: Core's arithmetic on the account row   *)
(* stays in the integers and only the four statuses are ever written.      *)
LEMMA TypeStep == LedgerTypeOK /\ [LedgerNext]_ledgerVars => LedgerTypeOK'
<1> SUFFICES ASSUME LedgerTypeOK, [LedgerNext]_ledgerVars PROVE LedgerTypeOK'
  OBVIOUS
<1> USE DEF LedgerTypeOK, Status
<1>1. ASSUME NEW r \in Reservation, Reserve(r) PROVE LedgerTypeOK'
  <2>1. Amount[r] \in Nat /\ account.reserved \in Int
    BY AmountType
  <2>2. account' \in [reserved: Int, committed: Int]
    BY <1>1, <2>1 DEF Reserve
  <2>3. status' \in [Reservation -> Status]
    BY <1>1 DEF Reserve
  <2> QED BY <1>1, <2>2, <2>3 DEF Reserve
<1>2. ASSUME NEW h \in Handler, NEW op \in Op, NEW r \in Reservation,
             Begin(h, op, r)
      PROVE  LedgerTypeOK'
  BY <1>2 DEF Begin, Txn
<1>3. ASSUME NEW t \in open, Apply(t) PROVE LedgerTypeOK'
  <2>1. t.res \in Reservation /\ Amount[t.res] \in Nat
    BY AmountType DEF Txn
  <2>2. account' \in [reserved: Int, committed: Int]
    BY <1>3, <2>1 DEF Apply, Moved
  <2>3. status' \in [Reservation -> Status]
    BY <1>3, <2>1 DEF Apply, Writes
  <2> QED BY <1>3, <2>2, <2>3 DEF Apply
<1>4. ASSUME NEW t \in open, Abort(t) PROVE LedgerTypeOK'
  BY <1>4 DEF Abort
<1>5. CASE UNCHANGED ledgerVars
  BY <1>5 DEF ledgerVars
<1> QED BY <1>1, <1>2, <1>3, <1>4, <1>5 DEF LedgerNext

(* Type correctness of the account row, the reservations' statuses and the *)
(* transactions in flight.                                                 *)
THEOREM TypeCorrect == LedgerSpec => []LedgerTypeOK
<1>1. LedgerInit => LedgerTypeOK
  BY DEF LedgerInit, LedgerTypeOK, Status
<1> QED BY <1>1, TypeStep, PTL DEF LedgerSpec

-----------------------------------------------------------------------------
(* Facts about the sum of amounts.                                         *)

(* The units of finitely many reservations are finitely many. *)
LEMMA UnitsFinite ==
    ASSUME NEW S \in SUBSET Reservation
    PROVE  IsFiniteSet(Units(S)) /\ Total(S) \in Nat
<1> DEFINE Of(r) == {r} \X (1 .. Amount[r])
           Parts == {Of(r) : r \in S}
           f == [r \in S |-> Of(r)]
<1>1. IsFiniteSet(S)
  BY FiniteReservations, FS_Subset
<1>2. f \in Surjection(S, Parts)
  BY DEF Surjection
<1>3. IsFiniteSet(Parts)
  BY <1>1, <1>2, FS_Surjection
<1>4. \A T \in Parts : IsFiniteSet(T)
  <2> TAKE T \in Parts
  <2>1. PICK r \in S : T = {r} \X (1 .. Amount[r])
    OBVIOUS
  <2>2. IsFiniteSet({r})
    BY FS_Singleton
  <2>3. 1 \in Int /\ Amount[r] \in Int
    BY AmountType
  <2>4. IsFiniteSet(1 .. Amount[r])
    BY <2>3, FS_Interval
  <2> QED BY <2>1, <2>2, <2>4, FS_Product
<1>5. IsFiniteSet(UNION Parts)
  <2> HIDE DEF Parts
  <2> QED BY <1>3, <1>4, FS_UNION
<1> QED BY <1>5, FS_CardinalityType DEF Units, Total

(* The sum over two disjoint sets is the sum of the sums. *)
LEMMA TotalDisjoint ==
    ASSUME NEW S \in SUBSET Reservation, NEW T \in SUBSET Reservation,
           S \cap T = {}
    PROVE  Total(S \cup T) = Total(S) + Total(T)
<1>1. Units(S \cup T) = Units(S) \cup Units(T)
  BY DEF Units
<1>2. Units(S) \cap Units(T) = {}
  <2> SUFFICES ASSUME NEW x \in Units(S), x \in Units(T) PROVE FALSE
    OBVIOUS
  <2>1. PICK r \in S : x \in {r} \X (1 .. Amount[r])
    BY DEF Units
  <2>2. PICK q \in T : x \in {q} \X (1 .. Amount[q])
    BY DEF Units
  <2>3. x[1] = r /\ x[1] = q
    BY <2>1, <2>2
  <2> QED BY <2>3
<1>3. IsFiniteSet(Units(S)) /\ IsFiniteSet(Units(T))
  BY UnitsFinite
<1>4. Total(S) \in Nat /\ Total(T) \in Nat
  BY UnitsFinite
<1>5. Cardinality(Units(S) \cap Units(T)) = 0
  BY <1>2, FS_EmptySet
<1>6. Cardinality(Units(S) \cup Units(T))
        = Cardinality(Units(S)) + Cardinality(Units(T))
            - Cardinality(Units(S) \cap Units(T))
  BY <1>3, FS_Union
<1>7. Total(S \cup T) = Cardinality(Units(S) \cup Units(T))
  BY <1>1, Zenon DEF Total
<1>8. Total(S \cup T) = Total(S) + Total(T) - 0
  BY <1>5, <1>6, <1>7, Zenon DEF Total
<1> QED BY <1>4, <1>8

(* The sum over one reservation is its amount. *)
LEMMA TotalSingle ==
    ASSUME NEW r \in Reservation
    PROVE  Total({r}) = Amount[r]
<1>1. Units({r}) = {r} \X (1 .. Amount[r])
  BY DEF Units
<1>2. /\ IsFiniteSet({r}) /\ Cardinality({r}) = 1
      /\ IsFiniteSet(1 .. Amount[r]) /\ Cardinality(1 .. Amount[r]) = Amount[r]
  <2>1. 1 \in Int /\ Amount[r] \in Nat /\ Amount[r] \in Int
    BY AmountType
  <2>2. /\ IsFiniteSet(1 .. Amount[r])
        /\ Cardinality(1 .. Amount[r])
             = IF 1 > Amount[r] THEN 0 ELSE Amount[r] - 1 + 1
    BY <2>1, FS_Interval
  <2>3. (IF 1 > Amount[r] THEN 0 ELSE Amount[r] - 1 + 1) = Amount[r]
    BY <2>1
  <2> QED BY <2>2, <2>3, FS_Singleton, Zenon
<1>3. Cardinality({r} \X (1 .. Amount[r]))
        = Cardinality({r}) * Cardinality(1 .. Amount[r])
  BY <1>2, FS_Product
<1>4. Total({r}) = 1 * Amount[r]
  BY <1>1, <1>2, <1>3, Zenon DEF Total
<1> QED BY <1>4, AmountType

(* Adding a reservation to a set adds its amount, once. *)
LEMMA TotalAdd ==
    ASSUME NEW S \in SUBSET Reservation, NEW r \in Reservation
    PROVE  /\ r \notin S => Total(S \cup {r}) = Total(S) + Amount[r]
           /\ r \in S => Total(S \cup {r}) = Total(S)
<1>1. CASE r \notin S
  BY <1>1, TotalDisjoint, TotalSingle
<1>2. CASE r \in S
  <2>1. S \cup {r} = S
    BY <1>2
  <2> QED BY <1>2, <2>1
<1> QED BY <1>1, <1>2

(* Removing a reservation from a set takes its amount off, once. *)
LEMMA TotalRemove ==
    ASSUME NEW S \in SUBSET Reservation, NEW r \in Reservation
    PROVE  /\ r \in S => Total(S \ {r}) = Total(S) - Amount[r]
           /\ r \notin S => Total(S \ {r}) = Total(S)
<1>1. CASE r \in S
  <2> DEFINE R == S \ {r}
  <2>1. R \in SUBSET Reservation /\ r \notin R /\ S = R \cup {r}
    BY <1>1
  <2>2. Total(R \cup {r}) = Total(R) + Amount[r]
    BY <2>1, TotalAdd
  <2>3. Total(S) = Total(R) + Amount[r]
    BY <2>1, <2>2, Zenon
  <2>4. Total(R) \in Nat /\ Amount[r] \in Nat
    BY <2>1, UnitsFinite, AmountType
  <2>5. Total(R) = Total(S) - Amount[r]
    BY <2>3, <2>4
  <2> QED BY <1>1, <2>5
<1>2. CASE r \notin S
  <2>1. S \ {r} = S
    BY <1>2
  <2> QED BY <1>2, <2>1
<1> QED BY <1>1, <1>2

(* A set's sum is at most its superset's. *)
LEMMA TotalMono ==
    ASSUME NEW T \in SUBSET Reservation, NEW S \in SUBSET T
    PROVE  Total(S) <= Total(T)
<1>1. Units(S) \subseteq Units(T)
  BY DEF Units
<1>2. IsFiniteSet(Units(T))
  BY UnitsFinite
<1>3. Cardinality(Units(S)) <= Cardinality(Units(T))
  BY <1>1, <1>2, FS_Subset
<1> QED BY <1>3 DEF Total

-----------------------------------------------------------------------------
(* The limit of the row.                                                   *)

(* No step takes reserved + committed over the limit: reserve checks it,   *)
(* and no other operation raises the sum.                                  *)
LEMMA RowLimitStep == LedgerTypeOK /\ RowWithinLimit /\ [LedgerNext]_ledgerVars => RowWithinLimit'
<1> SUFFICES ASSUME LedgerTypeOK, RowWithinLimit, [LedgerNext]_ledgerVars, Limit # Unlimited
             PROVE  account'.reserved + account'.committed <= Limit
  BY DEF RowWithinLimit
<1>0. /\ Limit \in Int
      /\ account.reserved \in Int /\ account.committed \in Int
      /\ account.reserved + account.committed <= Limit
  BY LimitType DEF LedgerTypeOK, RowWithinLimit
<1>1. ASSUME NEW r \in Reservation, Reserve(r)
      PROVE  account'.reserved + account'.committed <= Limit
  <2>1. account.reserved + account.committed + Amount[r] <= Limit
    BY <1>1 DEF Reserve, Fits
  <2>2. /\ account'.reserved = account.reserved + Amount[r]
        /\ account'.committed = account.committed
    BY <1>1 DEF Reserve, LedgerTypeOK
  <2> QED BY <1>0, <2>1, <2>2, AmountType
<1>2. ASSUME NEW t \in open, Apply(t)
      PROVE  account'.reserved + account'.committed <= Limit
  <2>1. Amount[t.res] \in Nat
    BY AmountType DEF LedgerTypeOK, Txn
  <2>2. /\ account'.reserved = account.reserved
               - (IF t.op = "markUnknown" THEN 0 ELSE Amount[t.res])
        /\ account'.committed = account.committed
               + (IF t.op = "commit" THEN Amount[t.res] ELSE 0)
    BY <1>2 DEF Apply, Moved
  <2> QED BY <1>0, <2>1, <2>2
<1>3. CASE UNCHANGED account
  BY <1>0, <1>3
<1> QED BY <1>1, <1>2, <1>3 DEF LedgerNext, Begin, Abort, ledgerVars

(* The account row never goes over the limit, for any number of handlers   *)
(* interleaving their operations in any way (financial.service.ts:89-121). *)
THEOREM RowLimitHolds == LedgerSpec => []RowWithinLimit
<1>1. LedgerInit => RowWithinLimit
  BY LimitType DEF LedgerInit, RowWithinLimit
<1> QED BY <1>1, TypeCorrect, RowLimitStep, PTL DEF LedgerSpec

-----------------------------------------------------------------------------
(* One-way drift.                                                          *)

(* What an Apply step does to the row and to the sets the sums are over.   *)
LEMMA ApplyEffect ==
    ASSUME LedgerTypeOK, NEW t \in open, Apply(t)
    PROVE  /\ t.res \in Reservation /\ t.op \in Op
           /\ Amount[t.res] \in Nat
           /\ account'.reserved = account.reserved
                 - (IF t.op = "markUnknown" THEN 0 ELSE Amount[t.res])
           /\ account'.committed = account.committed
                 + (IF t.op = "commit" THEN Amount[t.res] ELSE 0)
           /\ t.op = "markUnknown" =>
                 /\ Held' = Held \cup {t.res}
                 /\ Exposed' = Exposed \cup {t.res}
           /\ t.op = "commit" =>
                 /\ Held' = Held \ {t.res}
                 /\ Exposed' = Exposed \cup {t.res}
           /\ t.op \in {"release", "reconcileRelease"} =>
                 /\ Held' = Held \ {t.res}
                 /\ Exposed' = Exposed \ {t.res}
<1>1. t.res \in Reservation /\ t.op \in Op /\ Amount[t.res] \in Nat
  BY AmountType DEF LedgerTypeOK, Txn
<1>2. /\ account'.reserved = account.reserved
            - (IF t.op = "markUnknown" THEN 0 ELSE Amount[t.res])
      /\ account'.committed = account.committed
            + (IF t.op = "commit" THEN Amount[t.res] ELSE 0)
  BY DEF Apply, Moved
<1>3. /\ status' = [status EXCEPT ![t.res] = Writes(t.op)]
      /\ status \in [Reservation -> Status]
  BY DEF Apply, LedgerTypeOK
<1>4. \A r \in Reservation :
         status'[r] = IF r = t.res THEN Writes(t.op) ELSE status[r]
  BY <1>1, <1>3
<1>5. t.op = "markUnknown" =>
         /\ Held' = Held \cup {t.res}
         /\ Exposed' = Exposed \cup {t.res}
  BY <1>1, <1>4 DEF Writes, Held, Exposed, WithStatus
<1>6. t.op = "commit" =>
         /\ Held' = Held \ {t.res}
         /\ Exposed' = Exposed \cup {t.res}
  BY <1>1, <1>4 DEF Writes, Held, Exposed, WithStatus
<1>7. t.op \in {"release", "reconcileRelease"} =>
         /\ Held' = Held \ {t.res}
         /\ Exposed' = Exposed \ {t.res}
  BY <1>1, <1>4 DEF Writes, Held, Exposed, WithStatus
<1> QED BY <1>1, <1>2, <1>5, <1>6, <1>7

(* How far one reservation moves the sum over a set. *)
LEMMA TotalStep ==
    ASSUME NEW S \in SUBSET Reservation, NEW r \in Reservation
    PROVE  /\ Total(S) \in Nat /\ Total(S \cup {r}) \in Nat
           /\ Total(S \ {r}) \in Nat /\ Amount[r] \in Nat
           /\ Total(S) <= Total(S \cup {r})
           /\ Total(S) - Amount[r] <= Total(S \ {r})
<1>1. /\ Total(S) \in Nat /\ Total(S \cup {r}) \in Nat
      /\ Total(S \ {r}) \in Nat /\ Amount[r] \in Nat
  <2>1. S \cup {r} \in SUBSET Reservation /\ S \ {r} \in SUBSET Reservation
    OBVIOUS
  <2> QED BY <2>1, UnitsFinite, AmountType
<1>2. \/ Total(S \cup {r}) = Total(S) + Amount[r]
      \/ Total(S \cup {r}) = Total(S)
  BY TotalAdd
<1>3. \/ Total(S \ {r}) = Total(S) - Amount[r]
      \/ Total(S \ {r}) = Total(S)
  BY TotalRemove
<1> QED BY <1>1, <1>2, <1>3

(* No step makes the row hold more than its live reservations account for. *)
LEMMA DriftStep == LedgerTypeOK /\ RowNeverOverstates /\ [LedgerNext]_ledgerVars
                      => RowNeverOverstates'
<1> SUFFICES ASSUME LedgerTypeOK, RowNeverOverstates, [LedgerNext]_ledgerVars
             PROVE  RowNeverOverstates'
  OBVIOUS
<1>0. /\ Held \in SUBSET Reservation /\ Exposed \in SUBSET Reservation
      /\ Total(Held) \in Nat /\ Total(Exposed) \in Nat
      /\ account.reserved \in Int /\ account.committed \in Int
      /\ account.reserved <= Total(Held)
      /\ account.reserved + account.committed <= Total(Exposed)
  <2>1. Held \in SUBSET Reservation /\ Exposed \in SUBSET Reservation
    BY DEF Held, Exposed, WithStatus
  <2> QED BY <2>1, UnitsFinite DEF LedgerTypeOK, RowNeverOverstates
<1>1. ASSUME NEW r \in Reservation, Reserve(r) PROVE RowNeverOverstates'
  <2>1. \A q \in Reservation :
           status'[q] = IF q = r THEN "RESERVED" ELSE status[q]
    BY <1>1 DEF Reserve, LedgerTypeOK
  <2>2. Held' = Held \cup {r} /\ Exposed' = Exposed \cup {r}
    BY <2>1 DEF Held, Exposed, WithStatus
  <2>3. r \notin Held /\ r \notin Exposed
    BY <1>1 DEF Reserve, Held, Exposed, WithStatus
  <2>4. /\ Total(Held \cup {r}) = Total(Held) + Amount[r]
        /\ Total(Exposed \cup {r}) = Total(Exposed) + Amount[r]
    BY <1>0, <2>3, TotalAdd
  <2>5. /\ account'.reserved = account.reserved + Amount[r]
        /\ account'.committed = account.committed
    BY <1>1 DEF Reserve, LedgerTypeOK
  <2>6. Amount[r] \in Nat
    BY AmountType
  <2>7. /\ account'.reserved <= Total(Held \cup {r})
        /\ account'.reserved + account'.committed <= Total(Exposed \cup {r})
    BY <1>0, <2>4, <2>5, <2>6
  <2>8. RowNeverOverstates' = (/\ account'.reserved <= Total(Held')
                              /\ account'.reserved + account'.committed
                                    <= Total(Exposed'))
    BY DEF RowNeverOverstates, Total, Units
  <2> QED BY <2>2, <2>7, <2>8, Zenon
<1>2. ASSUME NEW t \in open, Apply(t) PROVE RowNeverOverstates'
  <2> DEFINE r == t.res
             a == Amount[t.res]
  <2>1. /\ r \in Reservation /\ t.op \in Op
        /\ account'.reserved = account.reserved
              - (IF t.op = "markUnknown" THEN 0 ELSE a)
        /\ account'.committed = account.committed
              + (IF t.op = "commit" THEN a ELSE 0)
    BY <1>2, ApplyEffect
  <2>2. /\ a \in Nat
        /\ Total(Held) <= Total(Held \cup {r})
        /\ Total(Held) - a <= Total(Held \ {r})
        /\ Total(Exposed) <= Total(Exposed \cup {r})
        /\ Total(Exposed) - a <= Total(Exposed \ {r})
        /\ Total(Held \cup {r}) \in Nat /\ Total(Held \ {r}) \in Nat
        /\ Total(Exposed \cup {r}) \in Nat /\ Total(Exposed \ {r}) \in Nat
    BY <1>0, <2>1, TotalStep
  <2>3. RowNeverOverstates' = (/\ account'.reserved <= Total(Held')
                              /\ account'.reserved + account'.committed
                                    <= Total(Exposed'))
    BY DEF RowNeverOverstates, Total, Units
  <2> HIDE DEF r, a
  <2>4. CASE t.op = "markUnknown"
    <3>1. /\ account'.reserved <= Total(Held \cup {r})
          /\ account'.reserved + account'.committed <= Total(Exposed \cup {r})
      BY <1>0, <2>1, <2>2, <2>4
    <3>2. Held' = Held \cup {r} /\ Exposed' = Exposed \cup {r}
      BY <1>2, <2>4, ApplyEffect DEF r
    <3> QED BY <2>3, <3>1, <3>2, Zenon
  <2>5. CASE t.op = "commit"
    <3>1. /\ account'.reserved <= Total(Held \ {r})
          /\ account'.reserved + account'.committed <= Total(Exposed \cup {r})
      BY <1>0, <2>1, <2>2, <2>5
    <3>2. Held' = Held \ {r} /\ Exposed' = Exposed \cup {r}
      BY <1>2, <2>5, ApplyEffect DEF r
    <3> QED BY <2>3, <3>1, <3>2, Zenon
  <2>6. CASE t.op \in {"release", "reconcileRelease"}
    <3>1. /\ account'.reserved <= Total(Held \ {r})
          /\ account'.reserved + account'.committed <= Total(Exposed \ {r})
      BY <1>0, <2>1, <2>2, <2>6
    <3>2. Held' = Held \ {r} /\ Exposed' = Exposed \ {r}
      BY <1>2, <2>6, ApplyEffect DEF r
    <3> QED BY <2>3, <3>1, <3>2, Zenon
  <2> QED BY <2>1, <2>4, <2>5, <2>6 DEF Op
<1>3. CASE UNCHANGED <<account, status>>
  <2>1. Held' = Held /\ Exposed' = Exposed
    BY <1>3 DEF Held, Exposed, WithStatus
  <2> QED BY <1>3, <2>1 DEF RowNeverOverstates, Total, Units
<1> QED BY <1>1, <1>2, <1>3 DEF LedgerNext, Begin, Abort, ledgerVars

(* Under every interleaving the row stays at or below what the live        *)
(* reservations justify: a race can free budget that is in use, and can    *)
(* never strand budget that is not (financial.service.ts:149-255).         *)
THEOREM DriftIsOneWay == LedgerSpec => []RowNeverOverstates
<1>1. LedgerInit => RowNeverOverstates
  <2> SUFFICES ASSUME LedgerInit PROVE RowNeverOverstates
    OBVIOUS
  <2>1. Held \in SUBSET Reservation /\ Exposed \in SUBSET Reservation
    BY DEF Held, Exposed, WithStatus
  <2>2. Total(Held) \in Nat /\ Total(Exposed) \in Nat
    BY <2>1, UnitsFinite
  <2> QED BY <2>2 DEF LedgerInit, RowNeverOverstates
<1> QED BY <1>1, TypeCorrect, DriftStep, PTL DEF LedgerSpec

-----------------------------------------------------------------------------
(* Exactness without overlap.                                              *)

Committed == WithStatus({"COMMITTED"})

(* What holds while no two transactions have been open on one reservation: *)
(* the sums are exact, and each open transaction's status check still      *)
(* holds, because nobody else is writing that reservation.                 *)
Exact ==
    overlapped = {} =>
        /\ account.reserved = Total(Held)
        /\ account.committed = Total(Committed)
        /\ \A t \in open : status[t.res] \in Accepts(t.op)
        /\ \A t, u \in open : t.res = u.res => t = u

(* Exact is inductive: the sums change by the amount of the one reservation *)
(* whose status changes, because it is still in the status that was read.  *)
LEMMA ExactStep == LedgerTypeOK /\ Exact /\ [LedgerNext]_ledgerVars => Exact'
<1> SUFFICES ASSUME LedgerTypeOK, Exact, [LedgerNext]_ledgerVars, overlapped' = {}
             PROVE  /\ account'.reserved = Total(Held')
                    /\ account'.committed = Total(Committed')
                    /\ \A t \in open' : status'[t.res] \in Accepts(t.op)
                    /\ \A t, u \in open' : t.res = u.res => t = u
  BY DEF Exact, Total, Units, Accepts
<1>0. /\ overlapped = {}
      /\ account.reserved = Total(Held)
      /\ account.committed = Total(Committed)
      /\ \A t \in open : status[t.res] \in Accepts(t.op)
      /\ \A t, u \in open : t.res = u.res => t = u
  <2>1. overlapped \subseteq overlapped'
    BY DEF LedgerNext, Reserve, Begin, Apply, Abort, ledgerVars
  <2>2. overlapped = {}
    BY <2>1
  <2> QED BY <2>2 DEF Exact
<1>a. /\ Held \in SUBSET Reservation /\ Committed \in SUBSET Reservation
      /\ Total(Held) \in Nat /\ Total(Committed) \in Nat
  <2>1. Held \in SUBSET Reservation /\ Committed \in SUBSET Reservation
    BY DEF Held, Committed, WithStatus
  <2> QED BY <2>1, UnitsFinite
<1>1. ASSUME NEW r \in Reservation, Reserve(r)
      PROVE  /\ account'.reserved = Total(Held')
             /\ account'.committed = Total(Committed')
             /\ \A t \in open' : status'[t.res] \in Accepts(t.op)
             /\ \A t, u \in open' : t.res = u.res => t = u
  <2>1. \A q \in Reservation :
           status'[q] = IF q = r THEN "RESERVED" ELSE status[q]
    BY <1>1 DEF Reserve, LedgerTypeOK
  <2>2. Held' = Held \cup {r} /\ Committed' = Committed /\ r \notin Held
    BY <1>1, <2>1 DEF Held, Committed, WithStatus, Reserve
  <2>3. Total(Held \cup {r}) = Total(Held) + Amount[r]
    BY <1>a, <2>2, TotalAdd
  <2>4. /\ account'.reserved = account.reserved + Amount[r]
        /\ account'.committed = account.committed
        /\ open' = open
    BY <1>1 DEF Reserve, LedgerTypeOK
  <2>5. \A t \in open : t.res \in Reservation /\ t.res # r
    BY <1>0, <1>1 DEF Reserve, Accepts, LedgerTypeOK, Txn
  <2>6. account'.reserved = Total(Held')
    BY <1>0, <2>2, <2>3, <2>4, Zenon
  <2>7. account'.committed = Total(Committed')
    BY <1>0, <2>2, <2>4, Zenon
  <2> QED BY <1>0, <2>1, <2>4, <2>5, <2>6, <2>7
<1>2. ASSUME NEW h \in Handler, NEW op \in Op, NEW r \in Reservation,
             Begin(h, op, r)
      PROVE  /\ account'.reserved = Total(Held')
             /\ account'.committed = Total(Committed')
             /\ \A t \in open' : status'[t.res] \in Accepts(t.op)
             /\ \A t, u \in open' : t.res = u.res => t = u
  <2> DEFINE new == [by |-> h, op |-> op, res |-> r]
  <2>1. /\ open' = open \cup {new} /\ status' = status /\ account' = account
        /\ status[r] \in Accepts(op)
    BY <1>2 DEF Begin
  <2>2. \A t \in open : t.res # r
    BY <1>2 DEF Begin
  <2>3. Held' = Held /\ Committed' = Committed
    BY <2>1 DEF Held, Committed, WithStatus
  <2>4. new.res = r /\ new.op = op
    OBVIOUS
  <2>5. /\ account'.reserved = Total(Held')
        /\ account'.committed = Total(Committed')
    BY <1>0, <2>1, <2>3, Zenon
  <2>6. \A t \in open' : status'[t.res] \in Accepts(t.op)
    BY <1>0, <2>1, <2>4
  <2>7. \A t, u \in open' : t.res = u.res => t = u
    BY <1>0, <2>1, <2>2, <2>4
  <2> QED BY <2>5, <2>6, <2>7
<1>3. ASSUME NEW t \in open, Apply(t)
      PROVE  /\ account'.reserved = Total(Held')
             /\ account'.committed = Total(Committed')
             /\ \A u \in open' : status'[u.res] \in Accepts(u.op)
             /\ \A u, v \in open' : u.res = v.res => u = v
  <2> DEFINE r == t.res
             a == Amount[t.res]
  <2>1. /\ r \in Reservation /\ t.op \in Op /\ a \in Nat
        /\ account'.reserved = account.reserved
              - (IF t.op = "markUnknown" THEN 0 ELSE a)
        /\ account'.committed = account.committed
              + (IF t.op = "commit" THEN a ELSE 0)
    BY <1>3, ApplyEffect
  <2>2. \A q \in Reservation :
           status'[q] = IF q = r THEN Writes(t.op) ELSE status[q]
    BY <1>3, <2>1 DEF Apply, LedgerTypeOK
  <2>3. status[r] \in Accepts(t.op)
    BY <1>0
  <2>4. r \in Held /\ r \notin Committed
    BY <2>1, <2>3 DEF Accepts, Held, Committed, WithStatus
  <2>5. open' = open \ {t}
    BY <1>3 DEF Apply
  <2>6. \A u \in open' : u \in open /\ u.res \in Reservation /\ u.res # r
    BY <1>0, <2>5 DEF LedgerTypeOK, Txn
  <2>7. \A u \in open' : status'[u.res] \in Accepts(u.op)
    BY <1>0, <2>2, <2>6
  <2>8. \A u, v \in open' : u.res = v.res => u = v
    BY <1>0, <2>6
  <2>9. /\ Total(Held \ {r}) = Total(Held) - a
        /\ Total(Committed \cup {r}) = Total(Committed) + a
    BY <1>a, <2>1, <2>4, TotalAdd, TotalRemove
  <2> HIDE DEF r, a
  <2>10. CASE t.op = "markUnknown"
    <3>1. Held' = Held /\ Committed' = Committed
      BY <2>1, <2>2, <2>4, <2>10 DEF Writes, Held, Committed, WithStatus
    <3>2. account'.reserved = Total(Held) /\ account'.committed = Total(Committed)
      BY <1>0, <1>a, <2>1, <2>10
    <3> QED BY <2>7, <2>8, <3>1, <3>2, Zenon
  <2>11. CASE t.op = "commit"
    <3>1. Held' = Held \ {r} /\ Committed' = Committed \cup {r}
      BY <2>1, <2>2, <2>11 DEF Writes, Held, Committed, WithStatus
    <3>2. /\ account'.reserved = Total(Held \ {r})
          /\ account'.committed = Total(Committed \cup {r})
      BY <1>0, <2>1, <2>9, <2>11
    <3> QED BY <2>7, <2>8, <3>1, <3>2, Zenon
  <2>12. CASE t.op \in {"release", "reconcileRelease"}
    <3>1. Held' = Held \ {r} /\ Committed' = Committed
      BY <2>1, <2>2, <2>4, <2>12 DEF Writes, Held, Committed, WithStatus
    <3>2. /\ account'.reserved = Total(Held \ {r})
          /\ account'.committed = Total(Committed)
      BY <1>0, <1>a, <2>1, <2>9, <2>12
    <3> QED BY <2>7, <2>8, <3>1, <3>2, Zenon
  <2> QED BY <2>1, <2>10, <2>11, <2>12 DEF Op
<1>4. CASE UNCHANGED <<account, status>> /\ open' \subseteq open
  <2>1. Held' = Held /\ Committed' = Committed
    BY <1>4 DEF Held, Committed, WithStatus
  <2>2. /\ account'.reserved = Total(Held')
        /\ account'.committed = Total(Committed')
    BY <1>0, <1>4, <2>1, Zenon
  <2> QED BY <1>0, <1>4, <2>2
<1> QED BY <1>1, <1>2, <1>3, <1>4 DEF LedgerNext, Abort, ledgerVars

LEMMA InitExact == LedgerInit => Exact
<1> SUFFICES ASSUME LedgerInit PROVE Exact
  OBVIOUS
<1>1. Held = {} /\ Committed = {}
  BY DEF LedgerInit, Held, Committed, WithStatus
<1>2. Units({}) = {}
  BY DEF Units
<1>3. Total({}) = 0
  BY <1>2, FS_EmptySet, Zenon DEF Total
<1>4. account.reserved = 0 /\ account.committed = 0 /\ open = {}
  BY DEF LedgerInit
<1>5. account.reserved = Total(Held) /\ account.committed = Total(Committed)
  BY <1>1, <1>3, <1>4, Zenon
<1> QED BY <1>4, <1>5 DEF Exact

LEMMA ExactHolds == LedgerSpec => []Exact
BY InitExact, TypeCorrect, ExactStep, PTL DEF LedgerSpec

(* The ledger equals its reservations, and the money really reserved and   *)
(* spent is within the limit, for as long as no reservation is finalized   *)
(* by two handlers at once (financial.service.ts:12-18).                   *)
THEOREM LedgerIsExact == LedgerSpec => []LedgerExact
<1>1. LedgerTypeOK /\ Exact /\ RowWithinLimit => LedgerExact
  <2> SUFFICES ASSUME LedgerTypeOK, Exact, RowWithinLimit, overlapped = {}
               PROVE  /\ account.reserved = Total(Held)
                      /\ account.committed = Total(WithStatus({"COMMITTED"}))
                      /\ Limit # Unlimited => Total(Exposed) <= Limit
    BY DEF LedgerExact
  <2>1. /\ account.reserved = Total(Held)
        /\ account.committed = Total(Committed)
    BY DEF Exact
  <2>2. /\ Held \in SUBSET Reservation /\ Committed \in SUBSET Reservation
        /\ Held \cap Committed = {} /\ Exposed = Held \cup Committed
    BY DEF Held, Committed, Exposed, WithStatus
  <2>3. Total(Held \cup Committed) = Total(Held) + Total(Committed)
    BY <2>2, TotalDisjoint
  <2>4. Total(Exposed) = account.reserved + account.committed
    BY <2>1, <2>2, <2>3, Zenon
  <2>5. Limit # Unlimited => Total(Exposed) <= Limit
    BY <2>4, Zenon DEF RowWithinLimit
  <2> QED BY <2>1, <2>5 DEF Committed
<1> QED BY <1>1, TypeCorrect, ExactHolds, RowLimitHolds, PTL

(* While no two finalizations overlap, committed and released reservations *)
(* stay so and an UNKNOWN hold is freed only by a reconciliation           *)
(* (financial.service.ts:185-188, 226-231).                                *)
THEOREM FinalityHolds == LedgerSpec => FinalityRespected
<1>1. LedgerTypeOK /\ Exact /\ [LedgerNext]_ledgerVars => [FinalityStep]_ledgerVars
  <2> SUFFICES ASSUME LedgerTypeOK, Exact, LedgerNext, overlapped = {},
                      NEW r \in Reservation
               PROVE  /\ status[r] \in {"COMMITTED", "RELEASED"}
                             => status'[r] = status[r]
                      /\ status[r] = "UNKNOWN" /\ status'[r] # "UNKNOWN" =>
                            \E t \in open :
                               t.op = "reconcileRelease" /\ t.res = r
    BY DEF FinalityStep
  <2>1. ASSUME NEW q \in Reservation, Reserve(q), status'[r] # status[r]
        PROVE  status[r] = "NONE"
    BY <2>1 DEF Reserve, LedgerTypeOK
  <2>2. ASSUME NEW t \in open, Apply(t), status'[r] # status[r]
        PROVE  /\ t.res = r /\ status[r] \in Accepts(t.op)
               /\ status'[r] = Writes(t.op) /\ t.op \in Op
    BY <2>2 DEF Apply, Exact, LedgerTypeOK, Txn
  <2>3. CASE status' = status
    BY <2>3
  <2> QED BY <2>1, <2>2, <2>3
          DEF LedgerNext, Begin, Abort, Accepts, Writes, Op
<1> QED BY <1>1, TypeCorrect, ExactHolds, PTL DEF LedgerSpec, FinalityRespected

-----------------------------------------------------------------------------
(* A call that has not reached the broadcast has sent nothing, one that    *)
(* awaits a receipt has, and a record's hash is of a transaction that a    *)
(* call on that execution sent.                                            *)
SentInOrder ==
    \A c \in Call : /\ call[c].at \in {"unused", "checked"} => chain[c] = "none"
                    /\ call[c].at = "waiting" => chain[c] # "none"
OwnTransaction ==
    \A e \in Exec : store[e].tx # NoTx =>
        /\ call[store[e].tx].exec = e
        /\ chain[store[e].tx] # "none"

(* What the idempotency check secures for an execution no two calls raced  *)
(* on: one call at a time is between the check and the record, whatever    *)
(* was sent before a record exists was sent by that call, and a call that  *)
(* is past that point has left a record.                                   *)
Guarded(e) ==
    /\ \A c, d \in Unrecorded(e) : c = d
    /\ store[e] # NoRecord => Unrecorded(e) = {}
    /\ store[e] = NoRecord => Sent(e) \subseteq Unrecorded(e)
    /\ \A c, d \in Sent(e) : c = d
    /\ \A c \in Call :
          call[c].exec = e /\ (call[c].at = "waiting" \/ call[c].answer # "none")
             => store[e] # NoRecord

PipelineInv ==
    /\ ExecutorTypeOK
    /\ SentInOrder
    /\ OwnTransaction
    /\ \A e \in Exec \ unguarded : Guarded(e)

LEMMA OutcomeType == ASSUME NEW c \in Call PROVE Outcome(c) \in Result
BY DEF Outcome, Result

(* Every step keeps the variables within their types.                      *)
LEMMA PipelineTypeStep == ExecutorTypeOK /\ [ExecutorNext]_executorVars => ExecutorTypeOK'
<1> SUFFICES ASSUME ExecutorTypeOK, [ExecutorNext]_executorVars PROVE ExecutorTypeOK'
  OBVIOUS
<1> USE NoTxType, RestartsType DEF ExecutorTypeOK, Result, NoRecord, Returns
<1>1. CASE UNCHANGED executorVars
  BY <1>1 DEF executorVars
<1>2. ASSUME NEW c \in Call, Replay(c) PROVE ExecutorTypeOK'
  BY <1>2, ZenonT(60) DEF Replay, HasRecord
<1>3. ASSUME NEW c \in Call, Start(c) PROVE ExecutorTypeOK'
  BY <1>3 DEF Start, HasRecord
<1>4. ASSUME NEW c \in Call, Refuse(c) PROVE ExecutorTypeOK'
  BY <1>4 DEF Refuse
<1>5. ASSUME NEW c \in Call, Send(c) PROVE ExecutorTypeOK'
  BY <1>5 DEF Send
<1>6. ASSUME NEW c \in Call, Submitted(c) PROVE ExecutorTypeOK'
  BY <1>6 DEF Submitted
<1>7. ASSUME NEW c \in Call, SubmissionFailed(c) PROVE ExecutorTypeOK'
  BY <1>7, ZenonT(60) DEF SubmissionFailed
<1>8. ASSUME NEW c \in Call, Receipt(c) PROVE ExecutorTypeOK'
  BY <1>8, OutcomeType, ZenonT(60) DEF Receipt
<1>9. ASSUME NEW c \in Call, Timeout(c) PROVE ExecutorTypeOK'
  BY <1>9, ZenonT(60) DEF Timeout, TimedOut
<1>10. ASSUME NEW c \in Call, ReceiptLookupFails(c) PROVE ExecutorTypeOK'
  BY <1>10 DEF ReceiptLookupFails
<1>11. ASSUME NEW c \in Call, Mine(c) PROVE ExecutorTypeOK'
  BY <1>11 DEF Mine
<1>12. CASE Restart
  BY <1>12, SMTT(30) DEF Restart
<1> QED
  BY <1>1, <1>2, <1>3, <1>4, <1>5, <1>6, <1>7, <1>8, <1>9, <1>10, <1>11, <1>12
  DEF ExecutorNext

(* A call never changes its execution. *)
LEMMA ExecStep ==
    ExecutorTypeOK /\ [ExecutorNext]_executorVars => \A d \in Call : call'[d].exec = call[d].exec
<1> SUFFICES ASSUME ExecutorTypeOK, [ExecutorNext]_executorVars, NEW d \in Call
             PROVE  call'[d].exec = call[d].exec
  OBVIOUS
<1> USE DEF ExecutorTypeOK, Returns
<1>1. CASE UNCHANGED executorVars
  BY <1>1 DEF executorVars
<1>2. ASSUME NEW c \in Call, Replay(c) PROVE call'[d].exec = call[d].exec
  BY <1>2 DEF Replay, HasRecord
<1>3. ASSUME NEW c \in Call, Start(c) PROVE call'[d].exec = call[d].exec
  BY <1>3 DEF Start, HasRecord
<1>4. ASSUME NEW c \in Call, Refuse(c) PROVE call'[d].exec = call[d].exec
  BY <1>4 DEF Refuse
<1>5. ASSUME NEW c \in Call, Send(c) PROVE call'[d].exec = call[d].exec
  BY <1>5 DEF Send
<1>6. ASSUME NEW c \in Call, Submitted(c) PROVE call'[d].exec = call[d].exec
  BY <1>6 DEF Submitted
<1>7. ASSUME NEW c \in Call, SubmissionFailed(c) PROVE call'[d].exec = call[d].exec
  BY <1>7 DEF SubmissionFailed
<1>8. ASSUME NEW c \in Call, Receipt(c) PROVE call'[d].exec = call[d].exec
  BY <1>8 DEF Receipt
<1>9. ASSUME NEW c \in Call, Timeout(c) PROVE call'[d].exec = call[d].exec
  BY <1>9 DEF Timeout, TimedOut
<1>10. ASSUME NEW c \in Call, ReceiptLookupFails(c) PROVE call'[d].exec = call[d].exec
  BY <1>10 DEF ReceiptLookupFails
<1>11. ASSUME NEW c \in Call, Mine(c) PROVE call'[d].exec = call[d].exec
  BY <1>11 DEF Mine
<1>12. CASE Restart
  BY <1>12 DEF Restart
<1> QED
  BY <1>1, <1>2, <1>3, <1>4, <1>5, <1>6, <1>7, <1>8, <1>9, <1>10, <1>11, <1>12
  DEF ExecutorNext

(* Sending is what leaves the checked stage. *)
LEMMA SentInOrderStep == ExecutorTypeOK /\ SentInOrder /\ [ExecutorNext]_executorVars => SentInOrder'
<1> SUFFICES ASSUME ExecutorTypeOK, SentInOrder, [ExecutorNext]_executorVars, NEW d \in Call
             PROVE  /\ call'[d].at \in {"unused", "checked"} => chain'[d] = "none"
                    /\ call'[d].at = "waiting" => chain'[d] # "none"
  BY DEF SentInOrder
<1> DEFINE Goal ==
       /\ call'[d].at \in {"unused", "checked"} => chain'[d] = "none"
       /\ call'[d].at = "waiting" => chain'[d] # "none"
<1> USE DEF ExecutorTypeOK, SentInOrder, Returns
<1>1. CASE UNCHANGED executorVars
  BY <1>1 DEF executorVars
<1>2. ASSUME NEW c \in Call, Replay(c) PROVE Goal
  BY <1>2 DEF Replay, HasRecord
<1>3. ASSUME NEW c \in Call, Start(c) PROVE Goal
  BY <1>3 DEF Start, HasRecord
<1>4. ASSUME NEW c \in Call, Refuse(c) PROVE Goal
  BY <1>4 DEF Refuse
<1>5. ASSUME NEW c \in Call, Send(c) PROVE Goal
  BY <1>5 DEF Send
<1>6. ASSUME NEW c \in Call, Submitted(c) PROVE Goal
  BY <1>6 DEF Submitted
<1>7. ASSUME NEW c \in Call, SubmissionFailed(c) PROVE Goal
  BY <1>7 DEF SubmissionFailed
<1>8. ASSUME NEW c \in Call, Receipt(c) PROVE Goal
  BY <1>8 DEF Receipt
<1>9. ASSUME NEW c \in Call, Timeout(c) PROVE Goal
  BY <1>9 DEF Timeout, TimedOut
<1>10. ASSUME NEW c \in Call, ReceiptLookupFails(c) PROVE Goal
  BY <1>10 DEF ReceiptLookupFails
<1>11. ASSUME NEW c \in Call, Mine(c) PROVE Goal
  BY <1>11 DEF Mine
<1>12. CASE Restart
  BY <1>12 DEF Restart
<1> QED
  BY <1>1, <1>2, <1>3, <1>4, <1>5, <1>6, <1>7, <1>8, <1>9, <1>10, <1>11, <1>12
  DEF ExecutorNext

(* Only the call that sent a transaction records its hash. *)
LEMMA OwnTransactionStep ==
    ExecutorTypeOK /\ SentInOrder /\ OwnTransaction /\ [ExecutorNext]_executorVars => OwnTransaction'
<1> SUFFICES ASSUME ExecutorTypeOK, SentInOrder, OwnTransaction, [ExecutorNext]_executorVars,
                    NEW e \in Exec, store'[e].tx # NoTx
             PROVE  /\ call'[store'[e].tx].exec = e
                    /\ chain'[store'[e].tx] # "none"
  BY DEF OwnTransaction
<1> DEFINE Goal == /\ call'[store'[e].tx].exec = e
                   /\ chain'[store'[e].tx] # "none"
<1> USE NoTxType DEF ExecutorTypeOK, SentInOrder, OwnTransaction, Returns
<1>1. CASE UNCHANGED executorVars
  BY <1>1 DEF executorVars
<1>2. ASSUME NEW c \in Call, Replay(c) PROVE Goal
  BY <1>2 DEF Replay, HasRecord
<1>3. ASSUME NEW c \in Call, Start(c) PROVE Goal
  BY <1>3 DEF Start, HasRecord
<1>4. ASSUME NEW c \in Call, Refuse(c) PROVE Goal
  BY <1>4 DEF Refuse
<1>5. ASSUME NEW c \in Call, Send(c) PROVE Goal
  BY <1>5 DEF Send
<1>6. ASSUME NEW c \in Call, Submitted(c) PROVE Goal
  BY <1>6 DEF Submitted
<1>7. ASSUME NEW c \in Call, SubmissionFailed(c) PROVE Goal
  BY <1>7 DEF SubmissionFailed
<1>8. ASSUME NEW c \in Call, Receipt(c) PROVE Goal
  BY <1>8 DEF Receipt
<1>9. ASSUME NEW c \in Call, Timeout(c) PROVE Goal
  BY <1>9 DEF Timeout, TimedOut
<1>10. ASSUME NEW c \in Call, ReceiptLookupFails(c) PROVE Goal
  BY <1>10 DEF ReceiptLookupFails
<1>11. ASSUME NEW c \in Call, Mine(c) PROVE Goal
  BY <1>11 DEF Mine
<1>12. CASE Restart
  BY <1>12 DEF Restart, NoRecord
<1> QED
  BY <1>1, <1>2, <1>3, <1>4, <1>5, <1>6, <1>7, <1>8, <1>9, <1>10, <1>11, <1>12
  DEF ExecutorNext

(* The race-free guarantee is kept by every step: a step on another        *)
(* execution does not touch it, and one on this execution either takes the *)
(* only call in flight or happens once a record is there.                  *)
LEMMA GuardedStep ==
    ASSUME ExecutorTypeOK, SentInOrder, [ExecutorNext]_executorVars,
           NEW e \in Exec, e \notin unguarded', e \notin unguarded => Guarded(e)
    PROVE  Guarded(e)'
<1> USE NoTxType DEF ExecutorTypeOK, SentInOrder, Guarded, Unrecorded, Sent, Returns, Result
<1>1. CASE UNCHANGED executorVars
  BY <1>1 DEF executorVars
<1>2. ASSUME NEW c \in Call, Replay(c) PROVE Guarded(e)'
  BY <1>2 DEF Replay, HasRecord, NoRecord
<1>3. ASSUME NEW c \in Call, Start(c) PROVE Guarded(e)'
  BY <1>3 DEF Start, HasRecord, NoRecord
<1>4. ASSUME NEW c \in Call, Refuse(c) PROVE Guarded(e)'
  BY <1>4 DEF Refuse, NoRecord
<1>5. ASSUME NEW c \in Call, Send(c) PROVE Guarded(e)'
  BY <1>5 DEF Send, NoRecord
<1>6. ASSUME NEW c \in Call, Submitted(c) PROVE Guarded(e)'
  BY <1>6 DEF Submitted, NoRecord
<1>7. ASSUME NEW c \in Call, SubmissionFailed(c) PROVE Guarded(e)'
  BY <1>7 DEF SubmissionFailed, NoRecord
<1>8. ASSUME NEW c \in Call, Receipt(c) PROVE Guarded(e)'
  BY <1>8 DEF Receipt, NoRecord
<1>9. ASSUME NEW c \in Call, Timeout(c) PROVE Guarded(e)'
  BY <1>9 DEF Timeout, TimedOut, NoRecord
<1>10. ASSUME NEW c \in Call, ReceiptLookupFails(c) PROVE Guarded(e)'
  BY <1>10 DEF ReceiptLookupFails, NoRecord
<1>11. ASSUME NEW c \in Call, Mine(c) PROVE Guarded(e)'
  BY <1>11 DEF Mine, NoRecord
<1>12. CASE Restart
  BY <1>12 DEF Restart, NoRecord
<1> QED
  BY <1>1, <1>2, <1>3, <1>4, <1>5, <1>6, <1>7, <1>8, <1>9, <1>10, <1>11, <1>12
  DEF ExecutorNext

LEMMA PipelineInvInit == ExecutorInit => PipelineInv
BY NoTxType, RestartsType
DEF ExecutorInit, PipelineInv, ExecutorTypeOK, SentInOrder, OwnTransaction, Guarded,
    Unrecorded, Sent, Result, NoRecord

LEMMA PipelineInvStep == PipelineInv /\ [ExecutorNext]_executorVars => PipelineInv'
<1> SUFFICES ASSUME PipelineInv, [ExecutorNext]_executorVars PROVE PipelineInv'
  OBVIOUS
<1>1. ExecutorTypeOK'
  BY PipelineTypeStep DEF PipelineInv
<1>2. SentInOrder' /\ OwnTransaction'
  BY SentInOrderStep, OwnTransactionStep DEF PipelineInv
<1>3. ASSUME NEW e \in Exec \ unguarded' PROVE Guarded(e)'
  BY <1>3, GuardedStep DEF PipelineInv
<1> QED
  BY <1>1, <1>2, <1>3 DEF PipelineInv

LEMMA PipelineInvHolds == ExecutorSpec => []PipelineInv
<1>1. ExecutorInit => PipelineInv
  BY PipelineInvInit
<1>2. PipelineInv /\ [ExecutorNext]_executorVars => PipelineInv'
  BY PipelineInvStep
<1> QED
  BY <1>1, <1>2, PTL DEF ExecutorSpec

(* The executor's variables keep their types (execution-pipeline.ts).      *)
THEOREM PipelineTypeCorrect == ExecutorSpec => []ExecutorTypeOK
<1>1. PipelineInv => ExecutorTypeOK
  BY DEF PipelineInv
<1> QED
  BY <1>1, PipelineInvHolds, PTL

(* One execution is broadcast at most once, unless two calls passed the    *)
(* idempotency check together or a restart lost its record                 *)
(* (execution-pipeline.ts:80-81, 105-122).                                 *)
THEOREM BroadcastOnce == ExecutorSpec => []AtMostOneBroadcast
<1>1. PipelineInv => AtMostOneBroadcast
  BY DEF PipelineInv, Guarded, AtMostOneBroadcast
<1> QED
  BY <1>1, PipelineInvHolds, PTL

(* A recorded outcome is written from its own transaction's receipt, and   *)
(* the chain does not take a receipt back.                                 *)
LEMMA RecordMatchesChainStep ==
    PipelineInv /\ RecordMatchesChain /\ [ExecutorNext]_executorVars => RecordMatchesChain'
<1> SUFFICES ASSUME PipelineInv, RecordMatchesChain, [ExecutorNext]_executorVars,
                    NEW e \in Exec, store'[e].tx # NoTx
             PROVE  /\ store'[e].result = "CONFIRMED" => chain'[store'[e].tx] = "success"
                    /\ store'[e].result = "FAILED" => chain'[store'[e].tx] = "reverted"
  BY DEF RecordMatchesChain
<1> DEFINE Goal ==
       /\ store'[e].result = "CONFIRMED" => chain'[store'[e].tx] = "success"
       /\ store'[e].result = "FAILED" => chain'[store'[e].tx] = "reverted"
<1> USE NoTxType DEF PipelineInv, ExecutorTypeOK, RecordMatchesChain, OwnTransaction, SentInOrder
<1>1. CASE UNCHANGED executorVars
  BY <1>1 DEF executorVars
<1>2. ASSUME NEW c \in Call, Replay(c) PROVE Goal
  BY <1>2 DEF Replay, HasRecord
<1>3. ASSUME NEW c \in Call, Start(c) PROVE Goal
  BY <1>3 DEF Start, HasRecord
<1>4. ASSUME NEW c \in Call, Refuse(c) PROVE Goal
  BY <1>4 DEF Refuse
<1>5. ASSUME NEW c \in Call, Send(c) PROVE Goal
  BY <1>5 DEF Send
<1>6. ASSUME NEW c \in Call, Submitted(c) PROVE Goal
  BY <1>6 DEF Submitted
<1>7. ASSUME NEW c \in Call, SubmissionFailed(c) PROVE Goal
  BY <1>7 DEF SubmissionFailed
<1>8. ASSUME NEW c \in Call, Receipt(c) PROVE Goal
  BY <1>8 DEF Receipt, Outcome
<1>9. ASSUME NEW c \in Call, Timeout(c) PROVE Goal
  BY <1>9 DEF Timeout, TimedOut
<1>10. ASSUME NEW c \in Call, ReceiptLookupFails(c) PROVE Goal
  BY <1>10 DEF ReceiptLookupFails
<1>11. ASSUME NEW c \in Call, Mine(c) PROVE Goal
  BY <1>11 DEF Mine
<1>12. CASE Restart
  BY <1>12 DEF Restart, NoRecord
<1> QED
  BY <1>1, <1>2, <1>3, <1>4, <1>5, <1>6, <1>7, <1>8, <1>9, <1>10, <1>11, <1>12
  DEF ExecutorNext

(* What the executor records as CONFIRMED succeeded, and what it records   *)
(* as FAILED with a hash reverted, for every interleaving of calls, mining *)
(* and restarts (execution-pipeline.ts:132-135).                           *)
THEOREM RecordsMatchChain == ExecutorSpec => []RecordMatchesChain
<1>1. ExecutorInit => RecordMatchesChain
  BY DEF ExecutorInit, RecordMatchesChain, NoRecord
<1>2. PipelineInv /\ RecordMatchesChain /\ [ExecutorNext]_executorVars => RecordMatchesChain'
  BY RecordMatchesChainStep
<1> QED
  BY <1>1, <1>2, PipelineInvHolds, PTL DEF ExecutorSpec

(* What stands behind an execution's final records and answers: everything *)
(* it sent reverted under a FAILED one, and something it sent succeeded    *)
(* under a CONFIRMED one.                                                  *)
Settled(e) ==
    /\ store[e].result = "CONFIRMED" => \E d \in Sent(e) : chain[d] = "success"
    /\ store[e].result = "FAILED" => \A d \in Sent(e) : chain[d] = "reverted"
    /\ \A c \in Call : call[c].exec = e =>
          /\ call[c].answer = "CONFIRMED" => \E d \in Sent(e) : chain[d] = "success"
          /\ call[c].answer = "FAILED" => \A d \in Sent(e) : chain[d] = "reverted"
AllSettled == \A e \in Exec : e \notin unguarded \cup lost => Settled(e)

(* A call on another execution that leaves the chain alone. *)
LEMMA SettledElsewhere ==
    ASSUME ExecutorTypeOK, NEW e \in Exec, Settled(e),
           NEW c \in Call, call[c].exec # e,
           \A d \in Call : call'[d].exec = call[d].exec,
           \A d \in Call : d # c => call'[d] = call[d],
           store'[e] = store[e], chain' = chain
    PROVE  Settled(e)'
<1>1. Sent(e)' = Sent(e)
  BY DEF Sent
<1>2. \A d \in Call : call'[d].exec = e => call'[d] = call[d]
  OBVIOUS
<1> QED
  BY <1>1, <1>2 DEF Settled

LEMMA SettledStep ==
    ASSUME PipelineInv, RecordMatchesChain, [ExecutorNext]_executorVars,
           NEW e \in Exec, e \notin unguarded' \cup lost',
           e \notin unguarded \cup lost => Settled(e)
    PROVE  Settled(e)'
<1> USE NoTxType DEF PipelineInv, ExecutorTypeOK, RecordMatchesChain, OwnTransaction,
        SentInOrder, Guarded, Unrecorded, Sent, Returns, Result, Settled
<1>1. CASE UNCHANGED executorVars
  BY <1>1 DEF executorVars
<1>2. ASSUME NEW c \in Call, Replay(c) PROVE Settled(e)'
  <2>1. CASE call[c].exec # e
    <3>1. Settled(e) /\ store'[e] = store[e] /\ chain' = chain
      BY <1>2, <2>1 DEF Replay, HasRecord
    <3>2. \A d \in Call : d # c => call'[d] = call[d]
      BY <1>2 DEF Replay, HasRecord
    <3>3. ExecutorTypeOK
      OBVIOUS
    <3> HIDE DEF Settled, ExecutorTypeOK, Sent
    <3> QED
      BY <2>1, <3>1, <3>2, <3>3, ExecStep, SettledElsewhere
  <2>2. CASE call[c].exec = e
    <3>1. Sent(e)' = Sent(e) /\ store' = store /\ chain' = chain
      BY <1>2 DEF Replay, HasRecord
    <3>2. \A d \in Call : call'[d].exec = e =>
             call'[d].answer = store[e].result \/ call'[d].answer = call[d].answer
      BY <1>2, <2>2 DEF Replay, HasRecord
    <3>3. \A d \in Call : call'[d].exec = call[d].exec
      BY ExecStep
    <3>4. Settled(e)
      BY <1>2 DEF Replay, HasRecord
    <3> HIDE DEF Sent
    <3> QED
      BY <3>1, <3>2, <3>3, <3>4
  <2> QED
    BY <2>1, <2>2
<1>3. ASSUME NEW c \in Call, Start(c) PROVE Settled(e)'
  BY <1>3 DEF Start, HasRecord, NoRecord
<1>4. ASSUME NEW c \in Call, Refuse(c) PROVE Settled(e)'
  BY <1>4 DEF Refuse, NoRecord
<1>5. ASSUME NEW c \in Call, Send(c) PROVE Settled(e)'
  BY <1>5 DEF Send, NoRecord
<1>6. ASSUME NEW c \in Call, Submitted(c) PROVE Settled(e)'
  BY <1>6 DEF Submitted, NoRecord
<1>7. ASSUME NEW c \in Call, SubmissionFailed(c) PROVE Settled(e)'
  <2>1. CASE call[c].exec # e
    <3>1. Settled(e) /\ store'[e] = store[e] /\ chain' = chain
      BY <1>7, <2>1 DEF SubmissionFailed
    <3>2. \A d \in Call : d # c => call'[d] = call[d]
      BY <1>7 DEF SubmissionFailed
    <3>3. ExecutorTypeOK
      OBVIOUS
    <3> HIDE DEF Settled, ExecutorTypeOK, Sent
    <3> QED
      BY <2>1, <3>1, <3>2, <3>3, ExecStep, SettledElsewhere
  <2>2. CASE call[c].exec = e
    <3>1. e \notin unguarded /\ e \notin lost /\ chain[c] = "none" /\ Guarded(e)
      BY <1>7, <2>2 DEF SubmissionFailed
    <3>2. c \in Unrecorded(e) /\ store[e] = NoRecord
      BY <1>7, <2>2, <3>1 DEF SubmissionFailed
    <3>3. Sent(e) = {}
      BY <3>1, <3>2
    <3>4. Sent(e)' = {}
      BY <1>7, <3>3 DEF SubmissionFailed
    <3>5. \A d \in Call : call'[d].exec = e => call'[d].answer \in {"none", "FAILED"}
      BY <1>7, <2>2, <3>1, <3>2 DEF SubmissionFailed
    <3>6. store'[e].result = "FAILED"
      BY <1>7, <2>2 DEF SubmissionFailed
    <3> HIDE DEF Sent
    <3> QED
      BY <3>4, <3>5, <3>6
  <2> QED
    BY <2>1, <2>2
<1>8. ASSUME NEW c \in Call, Receipt(c) PROVE Settled(e)'
  <2>1. CASE call[c].exec # e
    <3>1. Settled(e) /\ store'[e] = store[e] /\ chain' = chain
      BY <1>8, <2>1 DEF Receipt
    <3>2. \A d \in Call : d # c => call'[d] = call[d]
      BY <1>8 DEF Receipt
    <3>3. ExecutorTypeOK
      OBVIOUS
    <3> HIDE DEF Settled, ExecutorTypeOK, Sent
    <3> QED
      BY <2>1, <3>1, <3>2, <3>3, ExecStep, SettledElsewhere
  <2>2. CASE call[c].exec = e
    <3>1. Sent(e)' = Sent(e) /\ c \in Sent(e) /\ \A d \in Sent(e) : d = c
      BY <1>8, <2>2 DEF Receipt
    <3>2. store'[e].result = Outcome(c) /\ chain' = chain
      BY <1>8, <2>2 DEF Receipt
    <3>3. \A d \in Call : call'[d].exec = e =>
             call'[d].answer = Outcome(c) \/ call'[d].answer = call[d].answer
      BY <1>8, <2>2 DEF Receipt
    <3>4. \/ chain[c] = "success" /\ Outcome(c) = "CONFIRMED"
          \/ chain[c] = "reverted" /\ Outcome(c) = "FAILED"
      BY <1>8 DEF Receipt, Outcome
    <3>5. e \notin unguarded \cup lost
      BY <1>8 DEF Receipt
    <3>6. \A d \in Call : call'[d].exec = call[d].exec
      BY ExecStep
    <3> HIDE DEF Sent
    <3> QED
      BY <3>1, <3>2, <3>3, <3>4, <3>5, <3>6, SMTT(30)
  <2> QED
    BY <2>1, <2>2
<1>9. ASSUME NEW c \in Call, Timeout(c) PROVE Settled(e)'
  BY <1>9 DEF Timeout, TimedOut, NoRecord
<1>10. ASSUME NEW c \in Call, ReceiptLookupFails(c) PROVE Settled(e)'
  BY <1>10 DEF ReceiptLookupFails, NoRecord
<1>11. ASSUME NEW c \in Call, Mine(c) PROVE Settled(e)'
  BY <1>11 DEF Mine, NoRecord
<1>12. CASE Restart
  BY <1>12 DEF Restart, NoRecord
<1> QED
  BY <1>1, <1>2, <1>3, <1>4, <1>5, <1>6, <1>7, <1>8, <1>9, <1>10, <1>11, <1>12
  DEF ExecutorNext

(* A caller told CONFIRMED or FAILED is never contradicted by the chain    *)
(* later, unless a broadcast's reply was lost or two calls raced past the  *)
(* record (execution-pipeline.ts:105-136).                                 *)
THEOREM AnswersAreFinal == ExecutorSpec => []AnswerIsFinal
<1>1. ExecutorInit => AllSettled
  BY DEF ExecutorInit, AllSettled, Settled, Sent, NoRecord
<1>2. PipelineInv /\ RecordMatchesChain /\ AllSettled /\ [ExecutorNext]_executorVars => AllSettled'
  BY SettledStep DEF AllSettled
<1>3. ExecutorTypeOK /\ AllSettled => AnswerIsFinal
  BY DEF ExecutorTypeOK, AllSettled, Settled, AnswerIsFinal
<1>4. PipelineInv => ExecutorTypeOK
  BY DEF PipelineInv
<1> QED
  BY <1>1, <1>2, <1>3, <1>4, PipelineInvHolds, RecordsMatchChain, PTL DEF ExecutorSpec

-----------------------------------------------------------------------------
(* The composition.                                                        *)
(*                                                                         *)
(* A transaction of e has succeeded; a call on e was answered FAILED.      *)
Paid(e) == \E c \in Sent(e) : chain[c] = "success"
Failed(e) == \E c \in Call : call[c].exec = e /\ call[c].answer = "FAILED"

(* What each ledger operation is justified by. *)
Justified(op, e) ==
    /\ op = "commit" => Paid(e)
    /\ op \in {"release", "reconcileRelease"} => Failed(e)

(* Answers come last, a failure is recorded by the call that is answered,  *)
(* and nothing is called before Core has minted a request.                 *)
AnswersLast == \A c \in Call : call[c].answer # "none" => call[c].at = "returned"
FailuresAnswered == \A e \in Exec : store[e].result = "FAILED" => Failed(e)
CallsMinted ==
    \A c \in Call : call[c].at # "unused" => request[call[c].exec] # "none"

(* Where a handler stands.  One that is about to bind a reservation has    *)
(* made it, for the execution it works on, and nobody else has it.         *)
Keeps(w) == w.at \in {"create", "bind"}
WorkOK(w) ==
    /\ w.at # "idle" => w.exec \in Exec
    /\ Keeps(w) => /\ w.res \in Reservation
                    /\ madeFor[w.res] = w.exec
                    /\ binding[w.res] = None
    /\ w.at = "resolve" => /\ w.answer \in {"CONFIRMED", "FAILED"}
                           /\ request[w.exec] # "none"
                           /\ w.answer = "FAILED" => Failed(w.exec)
    /\ w.at = "verdict" /\ w.answer = "VERIFIED" => Paid(w.exec)
    /\ w.at = "find" => w.op \in Op /\ Justified(w.op, w.exec)
HeldByOne ==
    \A g, h \in Handler :
        Keeps(work[g]) /\ Keeps(work[h]) /\ work[g].res = work[h].res => g = h

(* A reservation is bound to nothing, and then only reserved, or to the    *)
(* execution it was made for; what became of it was justified.             *)
ReservationOK(r) ==
    /\ madeFor[r] = None <=> status[r] = "NONE"
    /\ binding[r] \in {None, madeFor[r]}
    /\ binding[r] = None => status[r] \in {"NONE", "RESERVED"}
    /\ status[r] = "COMMITTED" => Paid(binding[r])
    /\ status[r] = "RELEASED" => Failed(binding[r])

(* A ledger transaction is on a bound reservation and justified, and no    *)
(* handler has two.                                                        *)
OpenOK ==
    /\ \A t \in open : binding[t.res] # None /\ Justified(t.op, binding[t.res])
    /\ \A t, u \in open : t.by = u.by => t = u

RequestOK == \A e \in Exec : request[e] # "none" => MadeFor(e) # {}

PaymentInv ==
    /\ TypeOK
    /\ AnswersLast /\ FailuresAnswered /\ CallsMinted
    /\ \A h \in Handler : WorkOK(work[h])
    /\ HeldByOne
    /\ \A r \in Reservation : ReservationOK(r)
    /\ OpenOK
    /\ RequestOK

(* Each step of the composition is a step of the executor or leaves it     *)
(* alone, so all that is proved of the executor holds here.                *)
LEMMA PaymentIsExecutor == Spec => ExecutorSpec
<1>1. Init => ExecutorInit
  BY DEF Init
<1>2. [Next]_vars => [ExecutorNext]_executorVars
  BY DEF Next, ExecutorStep, PostResult, AskResult, AskVerification, executorVars,
         vars
<1> QED
  BY <1>1, <1>2, PTL DEF Spec, ExecutorSpec

-----------------------------------------------------------------------------
(* What the executor's steps keep.                                         *)

(* A transaction that succeeded has succeeded. *)
LEMMA PaidStep ==
    ASSUME PipelineInv, [ExecutorNext]_executorVars, NEW e \in Exec, Paid(e)
    PROVE  Paid(e)'
<1>1. PICK c \in Call : call[c].exec = e /\ chain[c] = "success"
  BY DEF Paid, Sent
<1>2. call'[c].exec = e
  BY <1>1, ExecStep DEF PipelineInv
<1>3. call[c].at # "checked" /\ chain \in [Call -> {"none", "pending", "success", "reverted"}]
  BY <1>1 DEF PipelineInv, SentInOrder, ExecutorTypeOK
<1>4. chain'[c] = "success"
  BY <1>1, <1>3
     DEF ExecutorNext, executorVars, Replay, Start, Refuse,
         Send, Submitted, SubmissionFailed, Receipt,
         Timeout, ReceiptLookupFails, Mine, Restart
<1> QED
  BY <1>2, <1>4 DEF Paid, Sent

(* An answer is given once, and last. *)
LEMMA AnswerStep ==
    ASSUME ExecutorTypeOK, AnswersLast, [ExecutorNext]_executorVars, NEW d \in Call
    PROVE  /\ call[d].answer # "none" => call'[d].answer = call[d].answer
           /\ call'[d].answer # "none" => call'[d].at = "returned"
<1> DEFINE Goal == /\ call[d].answer # "none" => call'[d].answer = call[d].answer
                   /\ call'[d].answer # "none" => call'[d].at = "returned"
<1> USE DEF ExecutorTypeOK, AnswersLast, Returns
<1>1. CASE UNCHANGED executorVars
  BY <1>1 DEF executorVars
<1>2. ASSUME NEW c \in Call, Replay(c) PROVE Goal
  BY <1>2 DEF Replay
<1>3. ASSUME NEW c \in Call, Start(c) PROVE Goal
  BY <1>3 DEF Start
<1>4. ASSUME NEW c \in Call, Refuse(c) PROVE Goal
  BY <1>4 DEF Refuse
<1>5. ASSUME NEW c \in Call, Send(c) PROVE Goal
  BY <1>5 DEF Send
<1>6. ASSUME NEW c \in Call, Submitted(c) PROVE Goal
  BY <1>6 DEF Submitted
<1>7. ASSUME NEW c \in Call, SubmissionFailed(c) PROVE Goal
  BY <1>7 DEF SubmissionFailed
<1>8. ASSUME NEW c \in Call, Receipt(c) PROVE Goal
  BY <1>8 DEF Receipt
<1>9. ASSUME NEW c \in Call, Timeout(c) PROVE Goal
  BY <1>9 DEF Timeout
<1>10. ASSUME NEW c \in Call, ReceiptLookupFails(c) PROVE Goal
  BY <1>10 DEF ReceiptLookupFails
<1>11. ASSUME NEW c \in Call, Mine(c) PROVE Goal
  BY <1>11 DEF Mine
<1>12. CASE Restart
  BY <1>12 DEF Restart
<1> QED
  BY <1>1, <1>2, <1>3, <1>4, <1>5, <1>6, <1>7, <1>8, <1>9, <1>10, <1>11, <1>12
  DEF ExecutorNext

(* A call that was answered FAILED stays so. *)
LEMMA FailedStep ==
    ASSUME ExecutorTypeOK, AnswersLast, [ExecutorNext]_executorVars,
           NEW e \in Exec, Failed(e)
    PROVE  Failed(e)'
<1>1. PICK c \in Call : call[c].exec = e /\ call[c].answer = "FAILED"
  BY DEF Failed
<1>2. call'[c].exec = e /\ call'[c].answer = "FAILED"
  BY <1>1, ExecStep, AnswerStep
<1> QED
  BY <1>2 DEF Failed

(* A failure is written to the record by the call that answers it. *)
LEMMA FailuresAnsweredStep ==
    ASSUME ExecutorTypeOK, AnswersLast, FailuresAnswered, [ExecutorNext]_executorVars
    PROVE  FailuresAnswered'
<1> SUFFICES ASSUME NEW e \in Exec, store'[e].result = "FAILED" PROVE Failed(e)'
  BY DEF FailuresAnswered
<1>1. CASE store[e].result = "FAILED"
  BY <1>1, FailedStep DEF FailuresAnswered
<1> SUFFICES ASSUME store[e].result # "FAILED" PROVE Failed(e)'
  BY <1>1
<1> USE DEF ExecutorTypeOK, Returns
<1>2. ASSUME NEW c \in Call, SubmissionFailed(c) PROVE Failed(e)'
  <2>1. call[c].exec = e
    BY <1>2 DEF SubmissionFailed
  <2>2. call'[c].exec = e /\ call'[c].answer = "FAILED"
    BY <1>2, <2>1 DEF SubmissionFailed
  <2> QED
    BY <2>2 DEF Failed
<1>3. ASSUME NEW c \in Call, Receipt(c) PROVE Failed(e)'
  <2>1. call[c].exec = e /\ Outcome(c) = "FAILED"
    BY <1>3 DEF Receipt
  <2>2. call'[c].exec = e /\ call'[c].answer = "FAILED"
    BY <1>3, <2>1 DEF Receipt
  <2> QED
    BY <2>2 DEF Failed
<1>4. ASSUME NEW c \in Call, Submitted(c) PROVE FALSE
  BY <1>4 DEF Submitted
<1>5. ASSUME NEW c \in Call, Timeout(c) PROVE FALSE
  BY <1>5 DEF Timeout, TimedOut
<1>6. ~Restart
  BY DEF Restart, NoRecord
<1> QED
  BY <1>2, <1>3, <1>4, <1>5, <1>6
     DEF ExecutorNext, executorVars, Replay, Start, Refuse,
         Send, ReceiptLookupFails, Mine

(* The executor and the chain move, Core stands still. *)
LEMMA ExecutorMove ==
    ASSUME PaymentInv, PipelineInv, ExecutorStep
    PROVE  PaymentInv'
<1>1. [ExecutorNext]_executorVars /\ UNCHANGED gateVars
  BY DEF ExecutorStep
<1>2. ExecutorTypeOK /\ AnswersLast /\ FailuresAnswered
  BY DEF PaymentInv, TypeOK
<1>3. TypeOK'
  BY <1>1, <1>2, PipelineTypeStep
     DEF PaymentInv, TypeOK, GateTypeOK, gateVars, ledgerVars, LedgerTypeOK
<1>4. \A d \in Call : call'[d].exec = call[d].exec
  BY <1>1, <1>2, ExecStep
<1>5. AnswersLast' /\ FailuresAnswered'
  BY <1>1, <1>2, AnswerStep, FailuresAnsweredStep DEF AnswersLast
<1>6. CallsMinted'
  BY <1>1, <1>4 DEF ExecutorStep, gateVars, PaymentInv, CallsMinted
<1>7. /\ \A e \in Exec : Paid(e) => Paid(e)'
      /\ \A e \in Exec : Failed(e) => Failed(e)'
  BY <1>1, <1>2, PaidStep, FailedStep
<1>8. /\ UNCHANGED <<account, status, open, overlapped>>
      /\ UNCHANGED <<request, binding, madeFor, work, verdict>>
  BY <1>1 DEF gateVars, ledgerVars
<1>9. \A h \in Handler : WorkOK(work[h])'
  BY <1>7, <1>8 DEF PaymentInv, WorkOK, Keeps, Justified, TypeOK, GateTypeOK, Work
<1>10. HeldByOne' /\ RequestOK'
  BY <1>8 DEF PaymentInv, HeldByOne, Keeps, RequestOK, MadeFor
<1>11. \A r \in Reservation : ReservationOK(r)'
  BY <1>7, <1>8 DEF PaymentInv, ReservationOK, TypeOK, GateTypeOK
<1>12. OpenOK'
  BY <1>7, <1>8 DEF PaymentInv, OpenOK, Justified, TypeOK, GateTypeOK, LedgerTypeOK, Txn
<1> QED
  BY <1>3, <1>5, <1>6, <1>9, <1>10, <1>11, <1>12 DEF PaymentInv

-----------------------------------------------------------------------------
(* Core's steps.                                                           *)

LEMMA WorkTypes ==
    /\ Idle \in Work
    /\ \A at \in At, e \in Exec : At0(at, e) \in Work
    /\ \A op \in Op, e \in Exec : Finding(op, e) \in Work
BY DEF Idle, At0, Finding, Work, At, Answer

(* A handler goes on, the other handlers stay where they are. *)
LEMMA GotoEffect ==
    ASSUME PaymentInv, NEW h \in Handler, NEW w \in Work, Goto(h, w)
    PROVE  /\ work' \in [Handler -> Work] /\ work'[h] = w
           /\ \A g \in Handler \ {h} : work'[g] = work[g]
BY DEF PaymentInv, TypeOK, GateTypeOK, Goto

(* While the executor stands still, what it has done stands. *)
LEMMA ExecutorStands ==
    ASSUME PaymentInv, UNCHANGED executorVars
    PROVE  /\ \A e \in Exec : Paid(e)' = Paid(e)
           /\ \A e \in Exec : Failed(e)' = Failed(e)
           /\ ExecutorTypeOK' /\ AnswersLast' /\ FailuresAnswered'
BY DEF executorVars, PaymentInv, TypeOK, ExecutorTypeOK, Paid, Failed, Sent,
       AnswersLast, FailuresAnswered

(* A handler moves on and writes neither to the ledger nor to a reservation. *)
LEMMA MoveKeeps ==
    ASSUME PaymentInv, NEW h \in Handler, UNCHANGED executorVars,
           work' \in [Handler -> Work], \A g \in Handler \ {h} : work'[g] = work[g],
           WorkOK(work[h])',
           Keeps(work'[h]) => Keeps(work[h]) /\ work'[h].res = work[h].res,
           UNCHANGED ledgerVars, UNCHANGED <<binding, madeFor>>,
           request' \in [Exec -> RequestStatus], verdict' \subseteq Exec,
           \A e \in Exec : request[e] # "none" => request'[e] # "none",
           RequestOK'
    PROVE  PaymentInv'
<1>1. /\ \A e \in Exec : Paid(e)' = Paid(e) /\ Failed(e)' = Failed(e)
      /\ ExecutorTypeOK' /\ AnswersLast' /\ FailuresAnswered'
  BY ExecutorStands
<1>2. TypeOK'
  BY <1>1 DEF PaymentInv, TypeOK, GateTypeOK, LedgerTypeOK, ledgerVars
<1>3. CallsMinted'
  BY DEF PaymentInv, TypeOK, ExecutorTypeOK, CallsMinted, executorVars
<1>4. ASSUME NEW g \in Handler PROVE WorkOK(work[g])'
  <2>1. CASE g = h
    BY <2>1
  <2>2. CASE g # h
    <3>1. WorkOK(work[g]) /\ work[g] \in Work /\ work'[g] = work[g]
      BY <2>2 DEF PaymentInv, TypeOK, GateTypeOK
    <3> QED
      BY <1>1, <3>1 DEF WorkOK, Keeps, Justified, Work
  <2> QED
    BY <2>1, <2>2
<1>5. HeldByOne'
  BY DEF PaymentInv, HeldByOne, Keeps
<1>6. \A r \in Reservation : ReservationOK(r)'
  BY <1>1 DEF PaymentInv, ReservationOK, TypeOK, GateTypeOK, ledgerVars
<1>7. OpenOK'
  BY <1>1 DEF PaymentInv, OpenOK, Justified, TypeOK, GateTypeOK, LedgerTypeOK, Txn, ledgerVars
<1> QED
  BY <1>1, <1>2, <1>3, <1>4, <1>5, <1>6, <1>7 DEF PaymentInv

(* A handler that goes to the ledger has reason to; one that is done has   *)
(* nothing more to say.                                                    *)
LEMMA FindingOK ==
    ASSUME NEW op \in Op, NEW e \in Exec, NEW w, w = Finding(op, e), Justified(op, e)'
    PROVE  WorkOK(w)' /\ ~Keeps(w)
<1>1. w.at = "find" /\ w.exec = e /\ w.op = op
  BY DEF Finding, Idle
<1> QED
  BY <1>1 DEF WorkOK, Keeps

LEMMA IdleOK == \A w : w = Idle => WorkOK(w)' /\ ~Keeps(w)
BY DEF WorkOK, Keeps, Idle

LEMMA PrepareKeeps ==
    ASSUME PaymentInv, NEW h \in Handler, NEW e \in Exec, Prepare(h, e),
           UNCHANGED executorVars
    PROVE  PaymentInv'
<1>1. At0("reserve", e) \in Work
  BY WorkTypes DEF At
<1>2. /\ work' \in [Handler -> Work] /\ work'[h] = At0("reserve", e)
      /\ \A g \in Handler \ {h} : work'[g] = work[g]
  BY <1>1, GotoEffect DEF Prepare
<1>3. WorkOK(work[h])' /\ ~Keeps(work'[h])
  BY <1>2 DEF WorkOK, Keeps, At0, Idle
<1>4. RequestOK'
  BY DEF Prepare, PaymentInv, RequestOK, MadeFor
<1> QED
  BY <1>2, <1>3, <1>4, MoveKeeps DEF Prepare, PaymentInv, TypeOK, GateTypeOK

(* The handler ends without having written anything. *)
LEMMA EndsKeep ==
    ASSUME PaymentInv, NEW h \in Handler, UNCHANGED executorVars, Goto(h, Idle),
           UNCHANGED ledgerVars, UNCHANGED <<request, binding, madeFor, verdict>>
    PROVE  PaymentInv'
<1>1. /\ work' \in [Handler -> Work] /\ work'[h] = Idle
      /\ \A g \in Handler \ {h} : work'[g] = work[g]
  BY WorkTypes, GotoEffect
<1>2. WorkOK(work[h])' /\ ~Keeps(work'[h])
  BY <1>1 DEF WorkOK, Keeps, Idle
<1>3. RequestOK'
  BY DEF PaymentInv, RequestOK, MadeFor
<1> QED
  BY <1>1, <1>2, <1>3, MoveKeeps DEF PaymentInv, TypeOK, GateTypeOK

LEMMA CreateRequestKeeps ==
    ASSUME PaymentInv, NEW h \in Handler, CreateRequest(h), UNCHANGED executorVars
    PROVE  PaymentInv'
<1>1. PICK w \in Work : w = [work[h] EXCEPT !.at = "bind"]
  BY DEF PaymentInv, TypeOK, GateTypeOK, Work, At
<1>2. /\ work' \in [Handler -> Work] /\ work'[h] = w
      /\ \A g \in Handler \ {h} : work'[g] = work[g]
  BY <1>1, GotoEffect DEF CreateRequest
<1>3. /\ w.at = "bind" /\ w.exec = work[h].exec /\ w.res = work[h].res
      /\ work[h].at = "create" /\ WorkOK(work[h])
  BY <1>1 DEF CreateRequest, PaymentInv, TypeOK, GateTypeOK, Work
<1>4. /\ work[h].exec \in Exec /\ work[h].res \in Reservation
      /\ madeFor[work[h].res] = work[h].exec /\ binding[work[h].res] = None
  BY <1>3 DEF WorkOK, Keeps
<1>5. /\ request \in [Exec -> RequestStatus]
      /\ request' = [request EXCEPT ![work[h].exec] = "AUTHORIZED"]
      /\ UNCHANGED ledgerVars /\ UNCHANGED <<binding, madeFor, verdict>>
  BY DEF CreateRequest, PaymentInv, TypeOK, GateTypeOK
<1>6. WorkOK(work[h])' /\ Keeps(work[h])
  BY <1>2, <1>3, <1>4, <1>5 DEF WorkOK, Keeps
<1>7. RequestOK'
  BY <1>4, <1>5 DEF PaymentInv, RequestOK, MadeFor
<1>8. /\ request' \in [Exec -> RequestStatus] /\ verdict' \subseteq Exec
      /\ \A e \in Exec : request[e] # "none" => request'[e] # "none"
  BY <1>4, <1>5 DEF RequestStatus, PaymentInv, TypeOK, GateTypeOK
<1> QED
  BY <1>2, <1>3, <1>5, <1>6, <1>7, <1>8, MoveKeeps

(* A result that the executor answered is taken in. *)
LEMMA PostResultKeeps ==
    ASSUME PaymentInv, NEW h \in Handler, NEW c \in Call, PostResult(h, c)
    PROVE  PaymentInv'
<1>0. PICK e \in Exec, s \in {"CONFIRMED", "FAILED", "UNKNOWN"} :
         e = call[c].exec /\ s = call[c].answer
  BY DEF PostResult, Ingestible, PaymentInv, TypeOK, ExecutorTypeOK
<1>1. e \in Exec /\ s \in {"CONFIRMED", "FAILED", "UNKNOWN"}
  OBVIOUS
<1>2. s = "FAILED" => Failed(e)
  BY <1>0 DEF Failed
<1>3. IngestResult(h, e, s) /\ UNCHANGED executorVars
  BY <1>0 DEF PostResult
<1>4. PICK w \in Work : /\ Goto(h, w)
                        /\ \/ s = "UNKNOWN" /\ w = Finding("markUnknown", e)
                           \/ s = "FAILED" /\ w = Finding("release", e)
                           \/ w = Idle
  <2>1. CASE s = "UNKNOWN"
    BY <1>1, <1>3, <2>1, WorkTypes DEF IngestResult, Op
  <2>2. CASE s = "FAILED"
    BY <1>1, <1>3, <2>2, WorkTypes DEF IngestResult, Op
  <2>3. CASE s = "CONFIRMED"
    BY <1>1, <1>3, <2>3, WorkTypes DEF IngestResult, Op
  <2> QED
    BY <1>1, <2>1, <2>2, <2>3
<1>5. /\ work' \in [Handler -> Work] /\ work'[h] = w
      /\ \A g \in Handler \ {h} : work'[g] = work[g]
  BY <1>4, GotoEffect
<1>6. WorkOK(w)' /\ ~Keeps(w)
  <2>1. Failed(e)' = Failed(e)
    BY <1>1, <1>3, ExecutorStands
  <2>2. Justified("markUnknown", e)' /\ (s = "FAILED" => Justified("release", e)')
    BY <1>2, <2>1 DEF Justified
  <2>3. "markUnknown" \in Op /\ "release" \in Op
    BY DEF Op
  <2> QED
    BY <1>4, <2>2, <2>3, FindingOK, IdleOK
<1>7. /\ request' \in [Exec -> RequestStatus] /\ verdict' \subseteq Exec
      /\ \A d \in Exec : request[d] # "none" => request'[d] # "none"
      /\ UNCHANGED ledgerVars /\ UNCHANGED <<binding, madeFor>>
  BY <1>1, <1>3 DEF IngestResult, RequestStatus, PaymentInv, TypeOK, GateTypeOK
<1>8. RequestOK'
  BY <1>1, <1>3 DEF IngestResult, PaymentInv, RequestOK, MadeFor, TypeOK, GateTypeOK
<1>9. WorkOK(work[h])' /\ ~Keeps(work'[h])
  BY <1>5, <1>6
<1> QED
  BY <1>3, <1>5, <1>7, <1>8, <1>9, MoveKeeps

(* The executor's recorded outcome is asked for and waits to be written. *)
LEMMA AskResultKeeps ==
    ASSUME PaymentInv, NEW h \in Handler, NEW e \in Exec, AskResult(h, e)
    PROVE  PaymentInv'
<1>1. PICK s \in {"CONFIRMED", "FAILED"} : s = store[e].result
  BY DEF AskResult, Reconcile, ReconcileAnswer, GetResult
<1>2. s = "FAILED" => Failed(e)
  BY <1>1 DEF PaymentInv, FailuresAnswered
<1>3. Reconcile(h, e, s) /\ UNCHANGED executorVars
  BY <1>1 DEF AskResult, ReconcileAnswer, GetResult
<1>4. PICK w \in Work : w = [At0("resolve", e) EXCEPT !.answer = s]
  BY DEF At0, Idle, Work, At, Answer
<1>5. /\ work' \in [Handler -> Work] /\ work'[h] = w
      /\ \A g \in Handler \ {h} : work'[g] = work[g]
  BY <1>3, <1>4, GotoEffect DEF Reconcile
<1>6. /\ UNCHANGED ledgerVars /\ UNCHANGED <<request, binding, madeFor, verdict>>
      /\ request[e] # "none"
  BY <1>3 DEF Reconcile
<1>7. Failed(e)' = Failed(e)
  BY <1>3, ExecutorStands
<1>8. WorkOK(work[h])' /\ ~Keeps(work'[h])
  <2>1. w.at = "resolve" /\ w.exec = e /\ w.answer = s
    BY <1>4 DEF At0, Idle
  <2> QED
    BY <1>2, <1>5, <1>6, <1>7, <2>1 DEF WorkOK, Keeps
<1>9. RequestOK'
  BY <1>6 DEF PaymentInv, RequestOK, MadeFor
<1> QED
  BY <1>3, <1>5, <1>6, <1>8, <1>9, MoveKeeps DEF PaymentInv, TypeOK, GateTypeOK

(* A recorded transaction whose receipt verifies is the execution's own,   *)
(* and has succeeded.                                                      *)
LEMMA VerifiedWasSent ==
    ASSUME PipelineInv, NEW e \in Exec, Verified(e)
    PROVE  Paid(e)
<1>1. /\ store[e].tx \in Call /\ call[store[e].tx].exec = e
      /\ chain[store[e].tx] = "success"
  BY DEF Verified, CanVerify, PipelineInv, OwnTransaction, ExecutorTypeOK
<1> QED
  BY <1>1 DEF Paid, Sent

LEMMA AskVerificationKeeps ==
    ASSUME PaymentInv, PipelineInv, NEW h \in Handler, NEW e \in Exec,
           AskVerification(h, e)
    PROVE  PaymentInv'
<1>1. PICK s \in {"VERIFIED", "MISMATCH"} : s = IF Verified(e) THEN "VERIFIED" ELSE "MISMATCH"
  OBVIOUS
<1>2. s = "VERIFIED" => Paid(e)
  BY <1>1, VerifiedWasSent
<1>3. Verify(h, e, s) /\ UNCHANGED executorVars
  BY <1>1 DEF AskVerification
<1>4. PICK w \in Work : w = [At0("verdict", e) EXCEPT !.answer = s]
  BY DEF At0, Idle, Work, At, Answer
<1>5. /\ work' \in [Handler -> Work] /\ work'[h] = w
      /\ \A g \in Handler \ {h} : work'[g] = work[g]
  BY <1>3, <1>4, GotoEffect DEF Verify
<1>6. UNCHANGED ledgerVars /\ UNCHANGED <<request, binding, madeFor, verdict>>
  BY <1>3 DEF Verify
<1>7. Paid(e)' = Paid(e)
  BY <1>3, ExecutorStands
<1>8. WorkOK(work[h])' /\ ~Keeps(work'[h])
  <2>1. w.at = "verdict" /\ w.exec = e /\ w.answer = s
    BY <1>4 DEF At0, Idle
  <2> QED
    BY <1>2, <1>5, <1>6, <1>7, <2>1 DEF WorkOK, Keeps
<1>9. RequestOK'
  BY <1>6 DEF PaymentInv, RequestOK, MadeFor
<1> QED
  BY <1>3, <1>5, <1>6, <1>8, <1>9, MoveKeeps DEF PaymentInv, TypeOK, GateTypeOK

(* The executor's outcome is written; a failure goes on to the ledger. *)
LEMMA ResolveKeeps ==
    ASSUME PaymentInv, NEW h \in Handler, Resolve(h), UNCHANGED executorVars
    PROVE  PaymentInv'
<1>1. work[h].at = "resolve" /\ WorkOK(work[h])
  BY DEF Resolve, PaymentInv
<1>2. PICK e \in Exec, s \in {"CONFIRMED", "FAILED"} :
         e = work[h].exec /\ s = work[h].answer
  BY <1>1 DEF WorkOK
<1>3. request[e] # "none" /\ (s = "FAILED" => Failed(e))
  BY <1>1, <1>2 DEF WorkOK
<1>4. PICK w \in Work : /\ Goto(h, w)
                        /\ \/ s = "FAILED" /\ w = Finding("reconcileRelease", e)
                           \/ w = Idle
  <2>1. CASE s = "FAILED"
    BY <1>2, <2>1, WorkTypes DEF Resolve, Op
  <2>2. CASE s = "CONFIRMED"
    BY <1>2, <2>2, WorkTypes DEF Resolve
  <2> QED
    BY <2>1, <2>2
<1>5. /\ work' \in [Handler -> Work] /\ work'[h] = w
      /\ \A g \in Handler \ {h} : work'[g] = work[g]
  BY <1>4, GotoEffect
<1>6. Failed(e)' = Failed(e)
  BY ExecutorStands
<1>7. WorkOK(work[h])' /\ ~Keeps(work'[h])
  <2>1. "reconcileRelease" \in Op /\ (s = "FAILED" => Justified("reconcileRelease", e)')
    BY <1>3, <1>6 DEF Justified, Op
  <2>2. WorkOK(w)' /\ ~Keeps(w)
    BY <1>4, <2>1, FindingOK, IdleOK
  <2> QED
    BY <1>5, <2>2
<1>8. /\ request' = [request EXCEPT ![e] = s]
      /\ UNCHANGED ledgerVars /\ UNCHANGED <<binding, madeFor, verdict>>
  BY <1>2 DEF Resolve
<1>9. /\ request' \in [Exec -> RequestStatus] /\ verdict' \subseteq Exec
      /\ \A d \in Exec : request[d] # "none" => request'[d] # "none"
  BY <1>8 DEF RequestStatus, PaymentInv, TypeOK, GateTypeOK
<1>10. RequestOK'
  BY <1>3, <1>8 DEF PaymentInv, RequestOK, MadeFor, TypeOK, GateTypeOK
<1> QED
  BY <1>5, <1>7, <1>8, <1>9, <1>10, MoveKeeps

(* The verdict is recorded; only a verified one goes on to the commit. *)
LEMMA RecordVerdictKeeps ==
    ASSUME PaymentInv, NEW h \in Handler, RecordVerdict(h), UNCHANGED executorVars
    PROVE  PaymentInv'
<1>1. work[h].at = "verdict" /\ WorkOK(work[h])
  BY DEF RecordVerdict, PaymentInv
<1>2. PICK e \in Exec : e = work[h].exec
  BY <1>1 DEF WorkOK
<1>3. PICK w \in Work : /\ Goto(h, w)
                        /\ \/ Paid(e) /\ w = Finding("commit", e)
                           \/ w = Idle
  <2>1. CASE work[h].answer = "VERIFIED"
    BY <1>1, <1>2, <2>1, WorkTypes DEF RecordVerdict, Commits, WorkOK, Op
  <2>2. CASE work[h].answer # "VERIFIED"
    BY <2>2, WorkTypes DEF RecordVerdict, Commits
  <2> QED
    BY <2>1, <2>2
<1>4. /\ work' \in [Handler -> Work] /\ work'[h] = w
      /\ \A g \in Handler \ {h} : work'[g] = work[g]
  BY <1>3, GotoEffect
<1>5. Paid(e)' = Paid(e)
  BY ExecutorStands
<1>6. WorkOK(work[h])' /\ ~Keeps(work'[h])
  <2>1. "commit" \in Op /\ (Paid(e) => Justified("commit", e)')
    BY <1>5 DEF Justified, Op
  <2>2. WorkOK(w)' /\ ~Keeps(w)
    BY <1>3, <2>1, FindingOK, IdleOK
  <2> QED
    BY <1>4, <2>2
<1>7. UNCHANGED ledgerVars /\ UNCHANGED <<request, binding, madeFor>>
  BY DEF RecordVerdict
<1>8. verdict' \subseteq Exec
  BY <1>2 DEF RecordVerdict, PaymentInv, TypeOK, GateTypeOK
<1>9. RequestOK'
  BY <1>7 DEF PaymentInv, RequestOK, MadeFor
<1> QED
  BY <1>4, <1>6, <1>7, <1>8, <1>9, MoveKeeps DEF PaymentInv, TypeOK, GateTypeOK

-----------------------------------------------------------------------------
(* Core's steps on the ledger and on the reservations.                     *)

(* What all of these leave alone. *)
LEMMA RestStands ==
    ASSUME PaymentInv, UNCHANGED executorVars, UNCHANGED request
    PROVE  /\ \A e \in Exec : Paid(e)' = Paid(e) /\ Failed(e)' = Failed(e)
           /\ ExecutorTypeOK' /\ AnswersLast' /\ FailuresAnswered' /\ CallsMinted'
<1>1. CallsMinted'
  BY DEF PaymentInv, CallsMinted, executorVars
<1> QED
  BY <1>1, ExecutorStands

(* A new reservation is nobody's yet. *)
LEMMA ReserveBudgetKeeps ==
    ASSUME PaymentInv, NEW h \in Handler, NEW r \in Reservation, ReserveBudget(h, r),
           UNCHANGED executorVars
    PROVE  PaymentInv'
<1>1. /\ Reserve(r) /\ work[h].at = "reserve" /\ WorkOK(work[h])
      /\ madeFor' = [madeFor EXCEPT ![r] = work[h].exec]
      /\ UNCHANGED <<request, binding, verdict>>
  BY DEF ReserveBudget, Holds, PaymentInv
<1>2. PICK e \in Exec : e = work[h].exec
  BY <1>1 DEF WorkOK
<1>3. PICK w \in Work : w = [work[h] EXCEPT !.at = "create", !.res = r]
  BY DEF PaymentInv, TypeOK, GateTypeOK, Work, At
<1>4. /\ work' \in [Handler -> Work] /\ work'[h] = w
      /\ \A g \in Handler \ {h} : work'[g] = work[g]
  BY <1>3, GotoEffect DEF ReserveBudget
<1>5. w.at = "create" /\ w.exec = e /\ w.res = r
  BY <1>2, <1>3 DEF PaymentInv, TypeOK, GateTypeOK, Work
<1>6. madeFor[r] = None /\ binding[r] = None /\ e # None
  BY <1>1, NullType DEF Reserve, PaymentInv, ReservationOK
<1>7. /\ status' = [status EXCEPT ![r] = "RESERVED"]
      /\ status \in [Reservation -> Status] /\ madeFor \in [Reservation -> Exec \cup {None}]
      /\ binding \in [Reservation -> Exec \cup {None}]
      /\ UNCHANGED <<open, overlapped>>
  BY <1>1 DEF Reserve, PaymentInv, TypeOK, GateTypeOK, LedgerTypeOK
<1>8. /\ \A d \in Exec : Paid(d)' = Paid(d) /\ Failed(d)' = Failed(d)
      /\ ExecutorTypeOK' /\ AnswersLast' /\ FailuresAnswered' /\ CallsMinted'
  BY <1>1, RestStands
<1>9. LedgerTypeOK'
  BY <1>1, TypeStep DEF LedgerNext, PaymentInv, TypeOK, GateTypeOK
<1>10. TypeOK'
  BY <1>1, <1>2, <1>4, <1>8, <1>9 DEF PaymentInv, TypeOK, GateTypeOK
<1>11. \A g \in Handler : g # h /\ Keeps(work[g]) => work[g].res # r
  BY <1>6, NullType DEF PaymentInv, WorkOK, Keeps, TypeOK, GateTypeOK
<1>12. ASSUME NEW g \in Handler PROVE WorkOK(work[g])'
  <2>1. CASE g = h
    <3>1. madeFor'[r] = e /\ binding'[r] = None
      BY <1>1, <1>2, <1>6, <1>7
    <3>2. WorkOK(w)'
      BY <1>5, <3>1 DEF WorkOK, Keeps
    <3> QED
      BY <1>4, <2>1, <3>2
  <2>2. CASE g # h
    <3>1. WorkOK(work[g]) /\ work[g] \in Work /\ work'[g] = work[g]
      BY <1>4, <2>2 DEF PaymentInv, TypeOK, GateTypeOK
    <3>2. Keeps(work[g]) => madeFor'[work[g].res] = madeFor[work[g].res]
      BY <1>1, <1>7, <1>11, <2>2, <3>1 DEF WorkOK
    <3> QED
      BY <1>1, <1>8, <3>1, <3>2 DEF WorkOK, Keeps, Justified, Work
  <2> QED
    BY <2>1, <2>2
<1>13. HeldByOne'
  BY <1>4, <1>5, <1>11 DEF PaymentInv, HeldByOne, Keeps
<1>14. ASSUME NEW q \in Reservation PROVE ReservationOK(q)'
  <2>1. CASE q = r
    BY <1>1, <1>2, <1>6, <1>7, <2>1 DEF ReservationOK
  <2>2. CASE q # r
    <3>1. /\ madeFor'[q] = madeFor[q] /\ status'[q] = status[q]
          /\ binding'[q] = binding[q] /\ ReservationOK(q)
          /\ binding[q] \in Exec \cup {None}
      BY <1>1, <1>7, <2>2 DEF PaymentInv
    <3> QED
      BY <1>8, <3>1 DEF ReservationOK
  <2> QED
    BY <2>1, <2>2
<1>15. OpenOK'
  BY <1>1, <1>7, <1>8 DEF PaymentInv, OpenOK, Justified, TypeOK, GateTypeOK, LedgerTypeOK, Txn
<1>16. RequestOK'
  <2> SUFFICES ASSUME NEW d \in Exec, request[d] # "none"
               PROVE  \E q \in Reservation : madeFor'[q] = d
    BY <1>1 DEF RequestOK, MadeFor
  <2>1. PICK q \in Reservation : madeFor[q] = d
    BY DEF PaymentInv, RequestOK, MadeFor
  <2>2. q # r
    BY <1>6, <2>1, NullType
  <2> QED
    BY <1>1, <1>7, <2>1, <2>2
<1> QED
  BY <1>8, <1>10, <1>12, <1>13, <1>14, <1>15, <1>16 DEF PaymentInv

(* The reservation a handler made is bound, and no other handler's. *)
LEMMA BindKeeps ==
    ASSUME PaymentInv, NEW h \in Handler, Bind(h), UNCHANGED executorVars
    PROVE  PaymentInv'
<1>1. /\ work[h].at = "bind" /\ WorkOK(work[h])
      /\ binding' = [binding EXCEPT ![work[h].res] = work[h].exec]
      /\ UNCHANGED ledgerVars /\ UNCHANGED <<request, madeFor, verdict>>
  BY DEF Bind, PaymentInv
<1>2. PICK e \in Exec, r \in Reservation : e = work[h].exec /\ r = work[h].res
  BY <1>1 DEF WorkOK, Keeps
<1>3. madeFor[r] = e /\ binding[r] = None /\ e # None
  BY <1>1, <1>2, NullType DEF WorkOK, Keeps
<1>4. /\ work' \in [Handler -> Work] /\ work'[h] = Idle
      /\ \A g \in Handler \ {h} : work'[g] = work[g]
  BY WorkTypes, GotoEffect DEF Bind
<1>5. /\ status \in [Reservation -> Status] /\ madeFor \in [Reservation -> Exec \cup {None}]
      /\ binding \in [Reservation -> Exec \cup {None}]
      /\ UNCHANGED <<account, status, open, overlapped>>
  BY <1>1 DEF ledgerVars, PaymentInv, TypeOK, GateTypeOK, LedgerTypeOK
<1>6. /\ \A d \in Exec : Paid(d)' = Paid(d) /\ Failed(d)' = Failed(d)
      /\ ExecutorTypeOK' /\ AnswersLast' /\ FailuresAnswered' /\ CallsMinted'
  BY <1>1, RestStands
<1>7. TypeOK'
  BY <1>1, <1>2, <1>4, <1>5, <1>6 DEF PaymentInv, TypeOK, GateTypeOK, LedgerTypeOK
<1>8. \A g \in Handler : g # h /\ Keeps(work[g]) => work[g].res # r
  BY <1>1, <1>2 DEF PaymentInv, HeldByOne, Keeps
<1>9. ASSUME NEW g \in Handler PROVE WorkOK(work[g])'
  <2>1. CASE g = h
    BY <1>4, <2>1, IdleOK
  <2>2. CASE g # h
    <3>1. WorkOK(work[g]) /\ work[g] \in Work /\ work'[g] = work[g]
      BY <1>4, <2>2 DEF PaymentInv, TypeOK, GateTypeOK
    <3>2. Keeps(work[g]) => binding'[work[g].res] = binding[work[g].res]
      BY <1>1, <1>2, <1>5, <1>8, <2>2, <3>1 DEF WorkOK
    <3> QED
      BY <1>1, <1>6, <3>1, <3>2 DEF WorkOK, Keeps, Justified, Work
  <2> QED
    BY <2>1, <2>2
<1>10. HeldByOne'
  BY <1>4, IdleOK DEF PaymentInv, HeldByOne, Keeps
<1>11. ASSUME NEW q \in Reservation PROVE ReservationOK(q)'
  <2>1. CASE q = r
    <3>1. status[r] = "RESERVED"
      BY <1>3 DEF PaymentInv, ReservationOK
    <3> QED
      BY <1>1, <1>2, <1>3, <1>5, <2>1, <3>1 DEF ReservationOK
  <2>2. CASE q # r
    <3>1. /\ madeFor'[q] = madeFor[q] /\ status'[q] = status[q]
          /\ binding'[q] = binding[q] /\ ReservationOK(q)
          /\ binding[q] \in Exec \cup {None}
      BY <1>1, <1>2, <1>5, <2>2 DEF PaymentInv
    <3> QED
      BY <1>6, <3>1 DEF ReservationOK
  <2> QED
    BY <2>1, <2>2
<1>12. OpenOK'
  <2>1. \A t \in open : /\ t.res \in Reservation /\ t.res # r
                        /\ binding'[t.res] = binding[t.res] /\ binding[t.res] \in Exec
    BY <1>1, <1>2, <1>3, <1>5 DEF PaymentInv, OpenOK, TypeOK, GateTypeOK, LedgerTypeOK, Txn
  <2> QED
    BY <1>5, <1>6, <2>1 DEF PaymentInv, OpenOK, Justified
<1>13. RequestOK'
  BY <1>1 DEF PaymentInv, RequestOK, MadeFor
<1> QED
  BY <1>6, <1>7, <1>9, <1>10, <1>11, <1>12, <1>13 DEF PaymentInv

(* A reservation that is found is bound to the handler's execution, so the *)
(* transaction on it is justified if the handler's is.                     *)
LEMMA FindReservationKeeps ==
    ASSUME PaymentInv, NEW h \in Handler, NEW r \in Reservation, FindReservation(h, r),
           UNCHANGED executorVars
    PROVE  PaymentInv'
<1>1. /\ work[h].at = "find" /\ WorkOK(work[h])
      /\ r \in Found(h) /\ Begin(h, work[h].op, r)
      /\ UNCHANGED <<request, binding, madeFor, verdict>>
  BY DEF FindReservation, PaymentInv
<1>2. PICK e \in Exec, op \in Op : e = work[h].exec /\ op = work[h].op
  BY <1>1 DEF WorkOK
<1>3. Justified(op, e) /\ binding[r] = e /\ e # None
  BY <1>1, <1>2, NullType DEF WorkOK, Found
<1>4. PICK w \in Work : w = [work[h] EXCEPT !.at = "apply"]
  BY DEF PaymentInv, TypeOK, GateTypeOK, Work, At
<1>5. /\ work' \in [Handler -> Work] /\ work'[h] = w
      /\ \A g \in Handler \ {h} : work'[g] = work[g]
  BY <1>4, GotoEffect DEF FindReservation
<1>6. w.at = "apply" /\ w.exec = e
  BY <1>2, <1>4 DEF PaymentInv, TypeOK, GateTypeOK, Work
<1>7. PICK new \in Txn : new = [by |-> h, op |-> op, res |-> r]
  BY DEF Txn
<1>8. /\ open' = open \cup {new} /\ \A t \in open : t.by # h
      /\ UNCHANGED <<account, status>>
      /\ new.by = h /\ new.op = op /\ new.res = r
  BY <1>1, <1>2, <1>7 DEF Begin
<1>9. /\ \A d \in Exec : Paid(d)' = Paid(d) /\ Failed(d)' = Failed(d)
      /\ ExecutorTypeOK' /\ AnswersLast' /\ FailuresAnswered' /\ CallsMinted'
  BY <1>1, RestStands
<1>10. LedgerTypeOK'
  BY <1>1, <1>2, TypeStep DEF LedgerNext, PaymentInv, TypeOK, GateTypeOK
<1>11. TypeOK'
  BY <1>1, <1>5, <1>9, <1>10 DEF PaymentInv, TypeOK, GateTypeOK
<1>12. ASSUME NEW g \in Handler PROVE WorkOK(work[g])'
  <2>1. CASE g = h
    BY <1>5, <1>6, <2>1 DEF WorkOK, Keeps
  <2>2. CASE g # h
    <3>1. WorkOK(work[g]) /\ work[g] \in Work /\ work'[g] = work[g]
      BY <1>5, <2>2 DEF PaymentInv, TypeOK, GateTypeOK
    <3> QED
      BY <1>1, <1>9, <3>1 DEF WorkOK, Keeps, Justified, Work
  <2> QED
    BY <2>1, <2>2
<1>13. HeldByOne'
  BY <1>5, <1>6 DEF PaymentInv, HeldByOne, Keeps
<1>14. \A q \in Reservation : ReservationOK(q)'
  BY <1>1, <1>8, <1>9 DEF PaymentInv, ReservationOK, TypeOK, GateTypeOK
<1>15. OpenOK'
  <2>1. \A t \in open : t.res \in Reservation /\ binding[t.res] \in Exec
    BY DEF PaymentInv, OpenOK, TypeOK, GateTypeOK, LedgerTypeOK, Txn
  <2>2. \A t \in open' : binding'[t.res] # None /\ Justified(t.op, binding[t.res])'
    BY <1>1, <1>3, <1>8, <1>9, <2>1 DEF PaymentInv, OpenOK, Justified
  <2>3. \A t, u \in open' : t.by = u.by => t = u
    BY <1>8 DEF PaymentInv, OpenOK
  <2> QED
    BY <1>1, <2>2, <2>3 DEF OpenOK
<1>16. RequestOK'
  BY <1>1 DEF PaymentInv, RequestOK, MadeFor
<1> QED
  BY <1>9, <1>11, <1>12, <1>13, <1>14, <1>15, <1>16 DEF PaymentInv

(* What a ledger transaction writes was justified when it began, and that  *)
(* stands.                                                                 *)
LEMMA ApplyKeeps ==
    ASSUME PaymentInv, NEW h \in Handler, ApplyToLedger(h), UNCHANGED executorVars
    PROVE  PaymentInv'
<1>1. PICK t \in open : Apply(t)
  BY DEF ApplyToLedger
<1>2. UNCHANGED <<request, binding, madeFor, verdict>>
  BY DEF ApplyToLedger
<1>3. /\ work' \in [Handler -> Work] /\ work'[h] = Idle
      /\ \A g \in Handler \ {h} : work'[g] = work[g]
  BY WorkTypes, GotoEffect DEF ApplyToLedger
<1>4. PICK r \in Reservation, op \in Op : r = t.res /\ op = t.op
  BY DEF PaymentInv, TypeOK, GateTypeOK, LedgerTypeOK, Txn
<1>5. /\ binding[r] # None /\ Justified(op, binding[r])
      /\ binding[r] = madeFor[r] /\ binding[r] \in Exec
  BY <1>4 DEF PaymentInv, OpenOK, ReservationOK, TypeOK, GateTypeOK
<1>6. /\ open' = open \ {t}
      /\ status' = [status EXCEPT ![r] = Writes(op)]
      /\ status \in [Reservation -> Status]
  BY <1>1, <1>4 DEF Apply, PaymentInv, TypeOK, GateTypeOK, LedgerTypeOK
<1>7. /\ \A d \in Exec : Paid(d)' = Paid(d) /\ Failed(d)' = Failed(d)
      /\ ExecutorTypeOK' /\ AnswersLast' /\ FailuresAnswered' /\ CallsMinted'
  BY <1>2, RestStands
<1>8. LedgerTypeOK'
  BY <1>1, TypeStep DEF LedgerNext, PaymentInv, TypeOK, GateTypeOK
<1>9. TypeOK'
  BY <1>2, <1>3, <1>7, <1>8 DEF PaymentInv, TypeOK, GateTypeOK
<1>10. ASSUME NEW g \in Handler PROVE WorkOK(work[g])'
  <2>1. CASE g = h
    BY <1>3, <2>1, IdleOK
  <2>2. CASE g # h
    <3>1. WorkOK(work[g]) /\ work[g] \in Work /\ work'[g] = work[g]
      BY <1>3, <2>2 DEF PaymentInv, TypeOK, GateTypeOK
    <3> QED
      BY <1>2, <1>7, <3>1 DEF WorkOK, Keeps, Justified, Work
  <2> QED
    BY <2>1, <2>2
<1>11. HeldByOne'
  BY <1>3, IdleOK DEF PaymentInv, HeldByOne, Keeps
<1>12. ASSUME NEW q \in Reservation PROVE ReservationOK(q)'
  <2>1. CASE q = r
    <3>1. /\ Writes(op) \in {"COMMITTED", "RELEASED", "UNKNOWN"}
          /\ Writes(op) = "COMMITTED" => Paid(binding[r])
          /\ Writes(op) = "RELEASED" => Failed(binding[r])
      BY <1>5 DEF Writes, Justified, Op
    <3>2. status'[r] = Writes(op) /\ madeFor'[r] = binding[r] /\ binding'[r] = binding[r]
      BY <1>2, <1>5, <1>6
    <3> QED
      BY <1>2, <1>5, <1>7, <2>1, <3>1, <3>2 DEF ReservationOK
  <2>2. CASE q # r
    <3>1. /\ madeFor'[q] = madeFor[q] /\ status'[q] = status[q]
          /\ binding'[q] = binding[q] /\ ReservationOK(q)
          /\ binding[q] \in Exec \cup {None}
      BY <1>2, <1>6, <2>2 DEF PaymentInv, TypeOK, GateTypeOK
    <3> QED
      BY <1>7, <3>1 DEF ReservationOK
  <2> QED
    BY <2>1, <2>2
<1>13. OpenOK'
  BY <1>2, <1>6, <1>7 DEF PaymentInv, OpenOK, Justified, TypeOK, GateTypeOK, LedgerTypeOK, Txn
<1>14. RequestOK'
  BY <1>2 DEF PaymentInv, RequestOK, MadeFor
<1> QED
  BY <1>7, <1>9, <1>10, <1>11, <1>12, <1>13, <1>14 DEF PaymentInv

(* A handler that dies leaves a reservation as it is, bound or not. *)
LEMMA DieKeeps ==
    ASSUME PaymentInv, NEW h \in Handler, Die(h), UNCHANGED executorVars
    PROVE  PaymentInv'
<1>1. /\ open' \subseteq open
      /\ UNCHANGED <<account, status, overlapped, request, binding, madeFor, verdict>>
  BY DEF Die
<1>2. /\ work' \in [Handler -> Work] /\ work'[h] = Idle
      /\ \A g \in Handler \ {h} : work'[g] = work[g]
  BY WorkTypes, GotoEffect DEF Die
<1>3. /\ \A d \in Exec : Paid(d)' = Paid(d) /\ Failed(d)' = Failed(d)
      /\ ExecutorTypeOK' /\ AnswersLast' /\ FailuresAnswered' /\ CallsMinted'
  BY <1>1, RestStands
<1>4. TypeOK'
  BY <1>1, <1>2, <1>3 DEF PaymentInv, TypeOK, GateTypeOK, LedgerTypeOK
<1>5. ASSUME NEW g \in Handler PROVE WorkOK(work[g])'
  <2>1. CASE g = h
    BY <1>2, <2>1, IdleOK
  <2>2. CASE g # h
    <3>1. WorkOK(work[g]) /\ work[g] \in Work /\ work'[g] = work[g]
      BY <1>2, <2>2 DEF PaymentInv, TypeOK, GateTypeOK
    <3> QED
      BY <1>1, <1>3, <3>1 DEF WorkOK, Keeps, Justified, Work
  <2> QED
    BY <2>1, <2>2
<1>6. HeldByOne' /\ RequestOK'
  BY <1>1, <1>2, IdleOK DEF PaymentInv, HeldByOne, Keeps, RequestOK, MadeFor
<1>7. \A q \in Reservation : ReservationOK(q)'
  BY <1>1, <1>3 DEF PaymentInv, ReservationOK, TypeOK, GateTypeOK
<1>8. OpenOK'
  BY <1>1, <1>3 DEF PaymentInv, OpenOK, Justified, TypeOK, GateTypeOK, LedgerTypeOK, Txn
<1> QED
  BY <1>3, <1>4, <1>5, <1>6, <1>7, <1>8 DEF PaymentInv

-----------------------------------------------------------------------------
LEMMA PaymentInvInit == Init => PaymentInv
<1> SUFFICES ASSUME Init PROVE PaymentInv
  OBVIOUS
<1> USE DEF Init, GateInit, LedgerInit, ExecutorInit
<1>1. LedgerTypeOK
  BY DEF LedgerTypeOK, Status
<1>2. ExecutorTypeOK
  BY PipelineInvInit DEF PipelineInv
<1>3. TypeOK
  BY <1>1, <1>2, WorkTypes DEF TypeOK, GateTypeOK, RequestStatus
<1>4. AnswersLast /\ FailuresAnswered /\ CallsMinted
  BY DEF AnswersLast, FailuresAnswered, CallsMinted, NoRecord
<1>5. (\A h \in Handler : WorkOK(work[h])) /\ HeldByOne
  BY DEF WorkOK, HeldByOne, Keeps, Idle
<1>6. \A r \in Reservation : ReservationOK(r)
  BY DEF ReservationOK
<1>7. OpenOK /\ RequestOK
  BY DEF OpenOK, RequestOK
<1> QED
  BY <1>3, <1>4, <1>5, <1>6, <1>7 DEF PaymentInv

LEMMA PaymentInvStep == PaymentInv /\ PipelineInv /\ [Next]_vars => PaymentInv'
<1> SUFFICES ASSUME PaymentInv, PipelineInv, [Next]_vars PROVE PaymentInv'
  OBVIOUS
<1>1. CASE UNCHANGED vars
  <2>1. UNCHANGED executorVars /\ UNCHANGED ledgerVars
        /\ UNCHANGED <<request, binding, madeFor, work, verdict>>
    BY <1>1 DEF vars, gateVars
  <2>2. /\ \A d \in Exec : Paid(d)' = Paid(d) /\ Failed(d)' = Failed(d)
        /\ ExecutorTypeOK' /\ AnswersLast' /\ FailuresAnswered' /\ CallsMinted'
    BY <2>1, RestStands
  <2>3. TypeOK' /\ RequestOK' /\ HeldByOne'
    BY <2>1, <2>2 DEF PaymentInv, TypeOK, GateTypeOK, LedgerTypeOK, ledgerVars, RequestOK,
                      MadeFor, HeldByOne, Keeps
  <2>4. \A h \in Handler : WorkOK(work[h])'
    BY <2>1, <2>2 DEF PaymentInv, WorkOK, Keeps, Justified, TypeOK, GateTypeOK, Work
  <2>5. \A r \in Reservation : ReservationOK(r)'
    BY <2>1, <2>2 DEF PaymentInv, ReservationOK, TypeOK, GateTypeOK, ledgerVars
  <2>6. OpenOK'
    BY <2>1, <2>2
       DEF PaymentInv, OpenOK, Justified, TypeOK, GateTypeOK, LedgerTypeOK, Txn, ledgerVars
  <2> QED
    BY <2>2, <2>3, <2>4, <2>5, <2>6 DEF PaymentInv
<1>2. CASE ExecutorStep
  BY <1>2, ExecutorMove
<1>3. ASSUME NEW h \in Handler, NEW c \in Call, PostResult(h, c) PROVE PaymentInv'
  BY <1>3, PostResultKeeps
<1>4. ASSUME NEW h \in Handler, NEW e \in Exec, AskResult(h, e) PROVE PaymentInv'
  BY <1>4, AskResultKeeps
<1>5. ASSUME NEW h \in Handler, NEW e \in Exec, AskVerification(h, e) PROVE PaymentInv'
  BY <1>5, AskVerificationKeeps
<1>6. CASE GateStep /\ UNCHANGED executorVars
  <2>1. PICK h \in Handler :
           \/ \E e \in Exec : Prepare(h, e)
           \/ \E r \in Reservation : \/ ReserveBudget(h, r) \/ BudgetExceeded(h, r)
                                     \/ FindReservation(h, r)
           \/ CreateRequest(h) \/ CreateRefused(h) \/ Bind(h)
           \/ Resolve(h) \/ RecordVerdict(h)
           \/ FindNone(h) \/ ApplyToLedger(h) \/ Die(h)
    BY <1>6 DEF GateStep
  <2>2. ASSUME NEW r \in Reservation, BudgetExceeded(h, r) PROVE PaymentInv'
    BY <1>6, <2>2, EndsKeep DEF BudgetExceeded
  <2>3. CASE CreateRefused(h)
    BY <1>6, <2>3, EndsKeep DEF CreateRefused
  <2>4. CASE FindNone(h)
    BY <1>6, <2>4, EndsKeep DEF FindNone
  <2> QED
    BY <1>6, <2>1, <2>2, <2>3, <2>4, PrepareKeeps, ReserveBudgetKeeps, FindReservationKeeps,
       CreateRequestKeeps, BindKeeps, ResolveKeeps, RecordVerdictKeeps, ApplyKeeps, DieKeeps
<1> QED
  BY <1>1, <1>2, <1>3, <1>4, <1>5, <1>6 DEF Next

(* The inductive invariant of a payment's life: who has a reservation, why *)
(* it became what it is, and what was called for.                          *)
LEMMA PaymentInvHolds == Spec => []PaymentInv
<1>1. Spec => []PipelineInv
  BY PaymentIsExecutor, PipelineInvHolds, PTL
<1> QED
  BY <1>1, PaymentInvInit, PaymentInvStep, PTL DEF Spec

(* Rows, handlers, calls and transactions stay within their types          *)
(* (final-revalidation.service.ts, execution-result.service.ts).           *)
THEOREM PaymentTypes == Spec => []TypeOK
<1>1. PaymentInv => TypeOK
  BY DEF PaymentInv
<1> QED
  BY <1>1, PaymentInvHolds, PTL

(* A committed reservation is of an execution that paid: for any number of *)
(* handlers, retries, restarts and crashes, and however results repeat and *)
(* come late (financial.service.ts:17-18,                                  *)
(* execution-result.service.ts:199-209).                                   *)
THEOREM CommittedWasPaid == Spec => []CommittedIsPaid
<1>1. PaymentInv => CommittedIsPaid
  BY DEF PaymentInv, ReservationOK, Paid, CommittedIsPaid
<1> QED
  BY <1>1, PaymentInvHolds, PTL

(* While a transaction may still pay, or has paid, its budget is held or   *)
(* committed: a call is made for a minted request, a request is minted     *)
(* after its reservation, and a reservation is released on a failure only, *)
(* which the chain does not take back (execution-result.service.ts:        *)
(* 107-114, 119-149).                                                      *)
THEOREM LiveMoneyIsBudgeted == Spec => []LiveIsBudgeted
<1>1. PaymentInv /\ PipelineInv /\ AnswerIsFinal => LiveIsBudgeted
  <2> SUFFICES ASSUME PaymentInv, PipelineInv, AnswerIsFinal,
                      NEW e \in Exec \ (lost \cup unguarded),
                      NEW c \in Sent(e), chain[c] \in {"pending", "success"}
               PROVE  \E r \in MadeFor(e) : status[r] \in {"RESERVED", "UNKNOWN", "COMMITTED"}
    BY DEF LiveIsBudgeted
  <2>1. c \in Call /\ call[c].exec = e /\ call[c].at # "unused"
    BY DEF Sent, PipelineInv, SentInOrder
  <2>2. PICK r \in MadeFor(e) : TRUE
    BY <2>1 DEF PaymentInv, CallsMinted, RequestOK
  <2>3. r \in Reservation /\ madeFor[r] = e /\ e # None /\ status[r] \in Status
    BY NullType DEF MadeFor, PaymentInv, TypeOK, GateTypeOK, LedgerTypeOK
  <2>4. status[r] # "NONE"
    BY <2>3 DEF PaymentInv, ReservationOK
  <2>5. ASSUME status[r] = "RELEASED" PROVE FALSE
    <3>1. binding[r] = e /\ Failed(e)
      BY <2>3, <2>5 DEF PaymentInv, ReservationOK
    <3>2. PICK d \in Call : call[d].exec = e /\ call[d].answer = "FAILED"
      BY <3>1 DEF Failed
    <3>3. chain[c] = "reverted"
      BY <3>2 DEF AnswerIsFinal
    <3> QED
      BY <3>3
  <2> QED
    BY <2>2, <2>3, <2>4, <2>5 DEF Status
<1>2. Spec => []PipelineInv /\ []AnswerIsFinal
  BY PaymentIsExecutor, PipelineInvHolds, AnswersAreFinal, PTL
<1> QED
  BY <1>1, <1>2, PaymentInvHolds, PTL

-----------------------------------------------------------------------------
(* One request, one bound reservation.  A handler that is to bind its      *)
(* reservation minted the request itself, so it is the only one, and       *)
(* nothing is bound to the execution yet.                                  *)
BoundToMinted == \A r \in Reservation : binding[r] # None => request[binding[r]] # "none"
BinderMinted ==
    \A h \in Handler : work[h].at = "bind" =>
        /\ request[work[h].exec] # "none"
        /\ \A r \in Reservation : binding[r] # work[h].exec
OneBinder ==
    \A g, h \in Handler :
        work[g].at = "bind" /\ work[h].at = "bind" /\ work[g].exec = work[h].exec => g = h
OneBound ==
    \A r, q \in Reservation : binding[r] # None /\ binding[r] = binding[q] => r = q
OnceInv == BoundToMinted /\ BinderMinted /\ OneBinder /\ OneBound

(* A step that binds nothing, and sends no handler to bind. *)
LEMMA OnceElsewhere ==
    ASSUME PaymentInv, OnceInv, UNCHANGED binding,
           \A e \in Exec : request[e] # "none" => request'[e] # "none",
           \A h \in Handler : work'[h].at = "bind" => work'[h] = work[h]
    PROVE  OnceInv'
<1>1. \A h \in Handler : work[h].at = "bind" => work[h].exec \in Exec
  BY DEF PaymentInv, WorkOK
<1>2. \A r \in Reservation : binding[r] # None => binding[r] \in Exec
  BY DEF PaymentInv, TypeOK, GateTypeOK
<1>3. BoundToMinted'
  BY <1>2 DEF OnceInv, BoundToMinted
<1>4. BinderMinted'
  BY <1>1 DEF OnceInv, BinderMinted
<1>5. OneBinder' /\ OneBound'
  BY DEF OnceInv, OneBinder, OneBound
<1> QED
  BY <1>3, <1>4, <1>5 DEF OnceInv

(* The request is minted: until now nobody could bind to it. *)
LEMMA OnceMinted ==
    ASSUME PaymentInv, OnceInv, NEW h \in Handler, CreateRequest(h)
    PROVE  OnceInv'
<1>1. work[h].at = "create" /\ work[h].exec \in Exec /\ request[work[h].exec] = "none"
  BY DEF CreateRequest, Unminted, PaymentInv, WorkOK
<1>2. PICK e \in Exec : e = work[h].exec
  BY <1>1
<1>3. /\ request' = [request EXCEPT ![e] = "AUTHORIZED"] /\ UNCHANGED binding
      /\ request \in [Exec -> RequestStatus]
  BY <1>2 DEF CreateRequest, PaymentInv, TypeOK, GateTypeOK
<1>4. /\ work'[h].at = "bind" /\ work'[h].exec = e
      /\ \A g \in Handler \ {h} : work'[g] = work[g]
  BY <1>2 DEF CreateRequest, Goto, PaymentInv, TypeOK, GateTypeOK, Work
<1>5. e # None /\ \A r \in Reservation : binding[r] # e
  BY <1>1, <1>2, NullType DEF OnceInv, BoundToMinted
<1>6. \A g \in Handler : work[g].at = "bind" => work[g].exec \in Exec /\ work[g].exec # e
  BY <1>1, <1>2 DEF OnceInv, BinderMinted, PaymentInv, WorkOK
<1>7. \A d \in Exec : request[d] # "none" => request'[d] # "none"
  BY <1>3
<1>8. BoundToMinted'
  <2>1. \A r \in Reservation : binding[r] # None => binding[r] \in Exec
    BY DEF PaymentInv, TypeOK, GateTypeOK
  <2> QED
    BY <1>3, <1>7, <2>1 DEF OnceInv, BoundToMinted
<1>9. BinderMinted'
  <2> SUFFICES ASSUME NEW g \in Handler, work'[g].at = "bind"
               PROVE  /\ request'[work'[g].exec] # "none"
                      /\ \A r \in Reservation : binding'[r] # work'[g].exec
    BY DEF BinderMinted
  <2>1. CASE g = h
    BY <1>3, <1>4, <1>5, <2>1
  <2>2. CASE g # h
    BY <1>3, <1>4, <1>6, <1>7, <2>2 DEF OnceInv, BinderMinted
  <2> QED
    BY <2>1, <2>2
<1>10. OneBinder'
  BY <1>4, <1>6 DEF OnceInv, OneBinder
<1>11. OneBound'
  BY <1>3 DEF OnceInv, OneBound
<1> QED
  BY <1>8, <1>9, <1>10, <1>11 DEF OnceInv

(* The one binder binds. *)
LEMMA OnceBinds ==
    ASSUME PaymentInv, OnceInv, NEW h \in Handler, Bind(h)
    PROVE  OnceInv'
<1>1. /\ work[h].at = "bind" /\ work[h].exec \in Exec /\ work[h].res \in Reservation
      /\ request[work[h].exec] # "none"
      /\ \A r \in Reservation : binding[r] # work[h].exec
  BY DEF Bind, PaymentInv, WorkOK, Keeps, OnceInv, BinderMinted
<1>2. PICK e \in Exec, q \in Reservation : e = work[h].exec /\ q = work[h].res
  BY <1>1
<1>3. /\ binding' = [binding EXCEPT ![q] = e] /\ UNCHANGED request
      /\ binding \in [Reservation -> Exec \cup {None}]
  BY <1>2 DEF Bind, PaymentInv, TypeOK, GateTypeOK
<1>4. work'[h].at # "bind" /\ \A g \in Handler \ {h} : work'[g] = work[g]
  BY DEF Bind, Goto, Idle, PaymentInv, TypeOK, GateTypeOK
<1>5. \A g \in Handler : work'[g].at = "bind" =>
         work'[g] = work[g] /\ work[g].at = "bind" /\ work[g].exec # e
  BY <1>1, <1>2, <1>4 DEF OnceInv, OneBinder
<1>6. BoundToMinted'
  BY <1>1, <1>2, <1>3 DEF OnceInv, BoundToMinted
<1>7. BinderMinted'
  <2> SUFFICES ASSUME NEW g \in Handler, work'[g].at = "bind"
               PROVE  /\ request'[work'[g].exec] # "none"
                      /\ \A r \in Reservation : binding'[r] # work'[g].exec
    BY DEF BinderMinted
  <2>1. /\ request[work[g].exec] # "none"
        /\ \A r \in Reservation : binding[r] # work[g].exec
    BY <1>5 DEF OnceInv, BinderMinted
  <2> QED
    BY <1>3, <1>5, <2>1
<1>8. OneBinder'
  BY <1>5 DEF OnceInv, OneBinder
<1>9. OneBound'
  BY <1>1, <1>2, <1>3 DEF OnceInv, OneBound
<1> QED
  BY <1>6, <1>7, <1>8, <1>9 DEF OnceInv

(* A handler that goes anywhere but to bind. *)
LEMMA GoesElsewhere ==
    ASSUME PaymentInv, NEW h \in Handler, NEW w, Goto(h, w), w.at # "bind"
    PROVE  \A g \in Handler : work'[g].at = "bind" => work'[g] = work[g]
BY DEF Goto, PaymentInv, TypeOK, GateTypeOK

LEMMA OnceStep == PaymentInv /\ OnceInv /\ [Next]_vars => OnceInv'
<1> SUFFICES ASSUME PaymentInv, OnceInv, [Next]_vars PROVE OnceInv'
  OBVIOUS
<1> USE DEF At0, Finding, Idle
<1>1. CASE UNCHANGED gateVars
  <2>1. UNCHANGED <<request, binding, work>>
    BY <1>1 DEF gateVars
  <2> QED
    BY <2>1, OnceElsewhere
<1>2. ASSUME NEW h \in Handler, NEW c \in Call, PostResult(h, c) PROVE OnceInv'
  <2>1. PICK e \in Exec, s \in {"CONFIRMED", "FAILED", "UNKNOWN"} : IngestResult(h, e, s)
    BY <1>2 DEF PostResult, Ingestible, PaymentInv, TypeOK, ExecutorTypeOK
  <2>2. /\ UNCHANGED binding /\ request' = [request EXCEPT ![e] = s]
        /\ request \in [Exec -> RequestStatus]
    BY <2>1 DEF IngestResult, PaymentInv, TypeOK, GateTypeOK
  <2>3. \A g \in Handler : work'[g].at = "bind" => work'[g] = work[g]
    BY <2>1, GoesElsewhere DEF IngestResult
  <2> QED
    BY <2>2, <2>3, OnceElsewhere
<1>3. ASSUME NEW h \in Handler, NEW e \in Exec, AskResult(h, e) PROVE OnceInv'
  <2>1. \A g \in Handler : work'[g].at = "bind" => work'[g] = work[g]
    BY <1>3, GoesElsewhere DEF AskResult, Reconcile
  <2> QED
    BY <1>3, <2>1, OnceElsewhere DEF AskResult, Reconcile
<1>4. ASSUME NEW h \in Handler, NEW e \in Exec, AskVerification(h, e) PROVE OnceInv'
  <2>1. \A g \in Handler : work'[g].at = "bind" => work'[g] = work[g]
    BY <1>4, GoesElsewhere DEF AskVerification, Verify
  <2> QED
    BY <1>4, <2>1, OnceElsewhere DEF AskVerification, Verify
<1>5. ASSUME NEW h \in Handler, Resolve(h) PROVE OnceInv'
  <2>1. PICK e \in Exec, s \in {"CONFIRMED", "FAILED"} :
           e = work[h].exec /\ s = work[h].answer
    BY <1>5 DEF Resolve, PaymentInv, WorkOK
  <2>2. /\ UNCHANGED binding /\ request' = [request EXCEPT ![e] = s]
        /\ request \in [Exec -> RequestStatus]
    BY <1>5, <2>1 DEF Resolve, PaymentInv, TypeOK, GateTypeOK
  <2>3. \A g \in Handler : work'[g].at = "bind" => work'[g] = work[g]
    BY <1>5, GoesElsewhere DEF Resolve
  <2> QED
    BY <2>2, <2>3, OnceElsewhere
<1>6. ASSUME NEW h \in Handler,
             \/ \E e \in Exec : Prepare(h, e)
             \/ \E r \in Reservation : BudgetExceeded(h, r)
             \/ CreateRefused(h) \/ RecordVerdict(h)
             \/ FindNone(h) \/ ApplyToLedger(h) \/ Die(h)
      PROVE  OnceInv'
  <2> DEFINE Elsewhere == /\ UNCHANGED <<request, binding>>
                          /\ \A g \in Handler : work'[g].at = "bind" => work'[g] = work[g]
  <2>1. ASSUME NEW e \in Exec, Prepare(h, e) PROVE Elsewhere
    BY <2>1, GoesElsewhere DEF Prepare
  <2>2. ASSUME NEW r \in Reservation, BudgetExceeded(h, r) PROVE Elsewhere
    BY <2>2, GoesElsewhere DEF BudgetExceeded
  <2>3. ASSUME CreateRefused(h) PROVE Elsewhere
    BY <2>3, GoesElsewhere DEF CreateRefused
  <2>4. ASSUME RecordVerdict(h) PROVE Elsewhere
    BY <2>4, GoesElsewhere DEF RecordVerdict
  <2>5. ASSUME FindNone(h) PROVE Elsewhere
    BY <2>5, GoesElsewhere DEF FindNone
  <2>6. ASSUME ApplyToLedger(h) PROVE Elsewhere
    BY <2>6, GoesElsewhere DEF ApplyToLedger
  <2>7. ASSUME Die(h) PROVE Elsewhere
    BY <2>7, GoesElsewhere DEF Die
  <2>8. Elsewhere
    BY <1>6, <2>1, <2>2, <2>3, <2>4, <2>5, <2>6, <2>7
  <2> QED
    BY <2>8, OnceElsewhere
<1>7. ASSUME NEW h \in Handler, NEW r \in Reservation,
             ReserveBudget(h, r) \/ FindReservation(h, r)
      PROVE  OnceInv'
  <2>1. \A g \in Handler : work'[g].at = "bind" => work'[g] = work[g]
    BY <1>7, ZenonT(60) DEF ReserveBudget, FindReservation, Goto, PaymentInv, TypeOK, GateTypeOK, Work
  <2>2. UNCHANGED <<request, binding>>
    BY <1>7 DEF ReserveBudget, FindReservation
  <2> QED
    BY <2>1, <2>2, OnceElsewhere
<1>8. CASE GateStep
  BY <1>5, <1>6, <1>7, <1>8, OnceMinted, OnceBinds DEF GateStep
<1> QED
  BY <1>1, <1>2, <1>3, <1>4, <1>8 DEF Next, ExecutorStep, vars, gateVars

(* A payment is booked as spent once: two preparations of one execution    *)
(* may each hold budget, but the request's unique key lets one of them     *)
(* mint it, the one that minted binds what it holds, and only what is      *)
(* bound is ever spent (final-revalidation.service.ts:298-346,             *)
(* schema.prisma:689).                                                     *)
THEOREM PaymentsBookedOnce == Spec => []BookedOnce
<1>1. Init => OnceInv
  BY DEF Init, GateInit, OnceInv, BoundToMinted, BinderMinted, OneBinder, OneBound, Idle
<1>2. PaymentInv /\ OnceInv => BookedOnce
  BY DEF PaymentInv, ReservationOK, OnceInv, OneBound, BookedOnce
<1> QED
  BY <1>1, <1>2, OnceStep, PaymentInvHolds, PTL DEF Spec

-----------------------------------------------------------------------------
(* What Core records is true.  Behind each CONFIRMED, the executor's or    *)
(* Core's, and each VERIFIED is a payment; behind each FAILED, an answer.  *)
ConfirmsPaid ==
    /\ \A e \in Exec : store[e].result = "CONFIRMED" => Paid(e)
    /\ \A c \in Call : call[c].answer = "CONFIRMED" => Paid(call[c].exec)
RequestTrue ==
    \A e \in Exec : /\ request[e] = "CONFIRMED" \/ e \in verdict => Paid(e)
                    /\ request[e] = "FAILED" => Failed(e)
ResolvesPaid ==
    \A h \in Handler :
        work[h].at = "resolve" /\ work[h].answer = "CONFIRMED" => Paid(work[h].exec)
TrueInv == ConfirmsPaid /\ RequestTrue /\ ResolvesPaid

(* CONFIRMED is recorded and answered on a successful receipt, or repeated *)
(* from the record.                                                        *)
LEMMA ConfirmsPaidStep ==
    ASSUME PipelineInv, ConfirmsPaid, [ExecutorNext]_executorVars
    PROVE  ConfirmsPaid'
<1> USE DEF PipelineInv, ExecutorTypeOK
<1>1. \A c \in Call : call'[c].exec = call[c].exec /\ call[c].exec \in Exec
  BY ExecStep
<1>2. \A e \in Exec : Paid(e) => Paid(e)'
  BY PaidStep
<1> DEFINE Goal ==
       /\ \A e \in Exec : store'[e].result = "CONFIRMED" => Paid(e)'
       /\ \A c \in Call : call'[c].answer = "CONFIRMED" => Paid(call[c].exec)'
<1>3. ASSUME \A e \in Exec : store'[e].result = "CONFIRMED" => store[e].result = "CONFIRMED",
             \A c \in Call : call'[c].answer = "CONFIRMED" => Paid(call[c].exec)
      PROVE  Goal
  BY <1>1, <1>2, <1>3 DEF ConfirmsPaid
<1>4. ASSUME NEW c \in Call, Receipt(c) PROVE Goal
  <2>1. CASE chain[c] = "success"
    <3>1. Paid(call[c].exec)
      BY <1>1, <2>1 DEF Paid, Sent
    <3>2. /\ \A e \in Exec : e # call[c].exec => store'[e] = store[e]
          /\ \A d \in Call : d # c => call'[d] = call[d]
      BY <1>4 DEF Receipt, Returns
    <3> QED
      BY <1>1, <1>2, <3>1, <3>2 DEF ConfirmsPaid
  <2>2. CASE chain[c] # "success"
    <3>1. /\ \A e \in Exec : store'[e].result = "CONFIRMED" => store[e].result = "CONFIRMED"
          /\ \A d \in Call : call'[d].answer = "CONFIRMED" => call[d].answer = "CONFIRMED"
      BY <1>4, <2>2 DEF Receipt, Returns, Outcome
    <3> QED
      BY <1>3, <3>1 DEF ConfirmsPaid
  <2> QED
    BY <2>1, <2>2
<1>5. ASSUME NEW c \in Call, Replay(c) PROVE Goal
  <2>1. \A d \in Call : call'[d].answer = "CONFIRMED" =>
           call[d].answer = "CONFIRMED" \/ store[call[d].exec].result = "CONFIRMED"
    BY <1>5 DEF Replay, Returns
  <2> QED
    BY <1>1, <1>3, <1>5, <2>1 DEF Replay, ConfirmsPaid
<1>6. ASSUME NEW c \in Call, Submitted(c) \/ SubmissionFailed(c) \/ Timeout(c)
      PROVE  Goal
  <2>1. /\ \A e \in Exec : store'[e].result = "CONFIRMED" => store[e].result = "CONFIRMED"
        /\ \A d \in Call : call'[d].answer = "CONFIRMED" => call[d].answer = "CONFIRMED"
    <3>1. CASE Submitted(c)
      BY <3>1 DEF Submitted
    <3>2. CASE SubmissionFailed(c)
      BY <3>2 DEF SubmissionFailed, Returns
    <3>3. CASE Timeout(c)
      BY <3>3 DEF Timeout, TimedOut, Returns
    <3> QED
      BY <1>6, <3>1, <3>2, <3>3
  <2> QED
    BY <1>3, <2>1 DEF ConfirmsPaid
<1>7. ASSUME NEW c \in Call, Start(c) \/ Refuse(c) \/ Send(c) \/ ReceiptLookupFails(c) \/ Mine(c)
      PROVE  Goal
  <2>1. /\ store' = store
        /\ \A d \in Call : call'[d].answer = call[d].answer
    BY <1>7 DEF Start, Refuse, Send, ReceiptLookupFails, Mine
  <2> QED
    BY <1>3, <2>1 DEF ConfirmsPaid
<1>8. ASSUME Restart PROVE Goal
  <2>1. /\ \A e \in Exec : store'[e].result # "CONFIRMED"
        /\ \A d \in Call : call'[d].answer = call[d].answer
    BY <1>8 DEF Restart, NoRecord
  <2> QED
    BY <1>3, <2>1 DEF ConfirmsPaid
<1>9. ASSUME UNCHANGED executorVars PROVE Goal
  BY <1>3, <1>9 DEF executorVars, ConfirmsPaid
<1>10. Goal
  BY <1>4, <1>5, <1>6, <1>7, <1>8, <1>9 DEF ExecutorNext
<1> QED
  BY <1>1, <1>10 DEF ConfirmsPaid

(* A step of Core that records nothing and asks for nothing. *)
LEMMA TrueElsewhere ==
    ASSUME PaymentInv, TrueInv, ConfirmsPaid',
           \A e \in Exec : (Paid(e) => Paid(e)') /\ (Failed(e) => Failed(e)'),
           UNCHANGED verdict,
           \A e \in Exec : request'[e] \in {request[e], "AUTHORIZED", "UNKNOWN"},
           \A h \in Handler : work'[h].at = "resolve" => work'[h] = work[h]
    PROVE  TrueInv'
<1>1. \A h \in Handler : work[h].at = "resolve" => work[h].exec \in Exec
  BY DEF PaymentInv, WorkOK
<1>2. RequestTrue'
  BY DEF TrueInv, RequestTrue
<1>3. ResolvesPaid'
  BY <1>1 DEF TrueInv, ResolvesPaid
<1> QED
  BY <1>2, <1>3 DEF TrueInv

(* A handler that goes anywhere but to write an answer down. *)
LEMMA GoesOnElsewhere ==
    ASSUME PaymentInv, NEW h \in Handler, NEW w, Goto(h, w), w.at # "resolve"
    PROVE  \A g \in Handler : work'[g].at = "resolve" => work'[g] = work[g]
BY DEF Goto, PaymentInv, TypeOK, GateTypeOK

LEMMA TrueStep == PaymentInv /\ PipelineInv /\ TrueInv /\ [Next]_vars => TrueInv'
<1> SUFFICES ASSUME PaymentInv, PipelineInv, TrueInv, [Next]_vars PROVE TrueInv'
  OBVIOUS
<1> USE DEF At0, Finding, Idle
<1>0. [ExecutorNext]_executorVars
  BY DEF Next, ExecutorStep, PostResult, AskResult, AskVerification, executorVars, vars
<1>1. ConfirmsPaid'
  BY <1>0, ConfirmsPaidStep DEF TrueInv
<1>2. \A e \in Exec : (Paid(e) => Paid(e)') /\ (Failed(e) => Failed(e)')
  BY <1>0, PaidStep, FailedStep DEF PaymentInv, TypeOK
<1>3. /\ request \in [Exec -> RequestStatus] /\ work \in [Handler -> Work]
      /\ verdict \subseteq Exec
  BY DEF PaymentInv, TypeOK, GateTypeOK
<1>4. CASE UNCHANGED gateVars
  <2>1. UNCHANGED <<request, work, verdict>>
    BY <1>4 DEF gateVars
  <2> QED
    BY <1>1, <1>2, <2>1, TrueElsewhere
<1>5. ASSUME NEW h \in Handler, NEW c \in Call, PostResult(h, c) PROVE TrueInv'
  <2>1. PICK e \in Exec, s \in {"CONFIRMED", "FAILED", "UNKNOWN"} :
           e = call[c].exec /\ s = call[c].answer
    BY <1>5 DEF PostResult, Ingestible, PaymentInv, TypeOK, ExecutorTypeOK
  <2>2. IngestResult(h, e, s)
    BY <1>5, <2>1 DEF PostResult
  <2>3. (s = "CONFIRMED" => Paid(e)) /\ (s = "FAILED" => Failed(e))
    BY <2>1 DEF TrueInv, ConfirmsPaid, Failed
  <2>4. /\ request' = [request EXCEPT ![e] = s] /\ UNCHANGED verdict
        /\ \A g \in Handler : work'[g].at = "resolve" => work'[g] = work[g]
    BY <2>2, GoesOnElsewhere DEF IngestResult
  <2>5. RequestTrue'
    BY <1>2, <1>3, <2>3, <2>4 DEF TrueInv, RequestTrue
  <2>6. ResolvesPaid'
    BY <1>2, <2>4 DEF TrueInv, ResolvesPaid, PaymentInv, WorkOK
  <2> QED
    BY <1>1, <2>5, <2>6 DEF TrueInv
<1>6. ASSUME NEW h \in Handler, NEW e \in Exec, AskResult(h, e) PROVE TrueInv'
  <2>1. PICK s \in {"CONFIRMED", "FAILED"} : s = store[e].result /\ Reconcile(h, e, s)
    BY <1>6 DEF AskResult, Reconcile, ReconcileAnswer, GetResult
  <2>2. /\ UNCHANGED <<request, verdict>>
        /\ work'[h].exec = e /\ work'[h].answer = s
        /\ \A g \in Handler \ {h} : work'[g] = work[g]
    BY <1>3, <2>1 DEF Reconcile, Goto
  <2>3. RequestTrue'
    BY <1>2, <2>2 DEF TrueInv, RequestTrue
  <2>4. s = "CONFIRMED" => Paid(e)'
    BY <1>2, <2>1 DEF TrueInv, ConfirmsPaid
  <2>5. ASSUME NEW g \in Handler, work'[g].at = "resolve", work'[g].answer = "CONFIRMED"
        PROVE  Paid(work[g].exec)'
    <3>1. CASE g = h
      <4>1. PICK d \in Exec : d = e /\ d = work'[g].exec
        BY <2>2, <3>1
      <4> QED
        BY <2>4, <2>5, <2>2, <3>1
    <3>2. CASE g # h
      <4>1. work'[g] = work[g] /\ work[g].exec \in Exec /\ Paid(work[g].exec)
        BY <2>2, <2>5, <3>2 DEF TrueInv, ResolvesPaid, PaymentInv, WorkOK
      <4> QED
        BY <1>2, <4>1
    <3> QED
      BY <3>1, <3>2
  <2>6. ResolvesPaid'
    BY <2>5 DEF ResolvesPaid
  <2> QED
    BY <1>1, <2>3, <2>6 DEF TrueInv
<1>7. ASSUME NEW h \in Handler, NEW e \in Exec, AskVerification(h, e) PROVE TrueInv'
  <2>1. UNCHANGED <<request, verdict>>
        /\ \A g \in Handler : work'[g].at = "resolve" => work'[g] = work[g]
    BY <1>7, GoesOnElsewhere DEF AskVerification, Verify
  <2> QED
    BY <1>1, <1>2, <2>1, TrueElsewhere
<1>8. ASSUME NEW h \in Handler, Resolve(h) PROVE TrueInv'
  <2>1. PICK e \in Exec, s \in {"CONFIRMED", "FAILED"} :
           e = work[h].exec /\ s = work[h].answer
    BY <1>8 DEF Resolve, PaymentInv, WorkOK
  <2>2. (s = "CONFIRMED" => Paid(e)) /\ (s = "FAILED" => Failed(e))
    BY <1>8, <2>1 DEF Resolve, TrueInv, ResolvesPaid, PaymentInv, WorkOK
  <2>3. /\ request' = [request EXCEPT ![e] = s] /\ UNCHANGED verdict
        /\ \A g \in Handler : work'[g].at = "resolve" => work'[g] = work[g]
    BY <1>8, <2>1, GoesOnElsewhere DEF Resolve
  <2>4. RequestTrue'
    BY <1>2, <1>3, <2>2, <2>3 DEF TrueInv, RequestTrue
  <2>5. ResolvesPaid'
    BY <1>2, <2>3 DEF TrueInv, ResolvesPaid, PaymentInv, WorkOK
  <2> QED
    BY <1>1, <2>4, <2>5 DEF TrueInv
<1>9. ASSUME NEW h \in Handler, RecordVerdict(h) PROVE TrueInv'
  <2>1. work[h].exec \in Exec /\ (work[h].answer = "VERIFIED" => Paid(work[h].exec))
    BY <1>9 DEF RecordVerdict, PaymentInv, WorkOK
  <2>2. /\ UNCHANGED request
        /\ \A e \in verdict' : e \in verdict \/ Paid(e)
        /\ \A g \in Handler : work'[g].at = "resolve" => work'[g] = work[g]
    BY <1>9, <2>1, GoesOnElsewhere DEF RecordVerdict
  <2>3. RequestTrue'
    BY <1>2, <2>2 DEF TrueInv, RequestTrue
  <2>4. ResolvesPaid'
    BY <1>2, <2>2 DEF TrueInv, ResolvesPaid, PaymentInv, WorkOK
  <2> QED
    BY <1>1, <2>3, <2>4 DEF TrueInv
<1>10. ASSUME NEW h \in Handler,
              \/ \E e \in Exec : Prepare(h, e)
              \/ \E r \in Reservation : BudgetExceeded(h, r)
              \/ CreateRefused(h) \/ Bind(h)
              \/ FindNone(h) \/ ApplyToLedger(h) \/ Die(h)
       PROVE  TrueInv'
  <2> DEFINE Elsewhere ==
         /\ UNCHANGED <<request, verdict>>
         /\ \A g \in Handler : work'[g].at = "resolve" => work'[g] = work[g]
  <2>1. ASSUME NEW e \in Exec, Prepare(h, e) PROVE Elsewhere
    BY <2>1, GoesOnElsewhere DEF Prepare
  <2>2. ASSUME NEW r \in Reservation, BudgetExceeded(h, r) PROVE Elsewhere
    BY <2>2, GoesOnElsewhere DEF BudgetExceeded
  <2>3. ASSUME CreateRefused(h) PROVE Elsewhere
    BY <2>3, GoesOnElsewhere DEF CreateRefused
  <2>4. ASSUME Bind(h) PROVE Elsewhere
    BY <2>4, GoesOnElsewhere DEF Bind
  <2>5. ASSUME FindNone(h) PROVE Elsewhere
    BY <2>5, GoesOnElsewhere DEF FindNone
  <2>6. ASSUME ApplyToLedger(h) PROVE Elsewhere
    BY <2>6, GoesOnElsewhere DEF ApplyToLedger
  <2>7. ASSUME Die(h) PROVE Elsewhere
    BY <2>7, GoesOnElsewhere DEF Die
  <2>8. Elsewhere
    BY <1>10, <2>1, <2>2, <2>3, <2>4, <2>5, <2>6, <2>7
  <2> QED
    BY <1>1, <1>2, <2>8, TrueElsewhere
<1>11. ASSUME NEW h \in Handler, NEW r \in Reservation,
              ReserveBudget(h, r) \/ FindReservation(h, r)
       PROVE  TrueInv'
  <2>1. \A g \in Handler : work'[g].at = "resolve" => work'[g] = work[g]
    BY <1>3, <1>11 DEF ReserveBudget, FindReservation, Goto, Work
  <2>2. UNCHANGED <<request, verdict>>
    BY <1>11 DEF ReserveBudget, FindReservation
  <2> QED
    BY <1>1, <1>2, <2>1, <2>2, TrueElsewhere
<1>12. ASSUME NEW h \in Handler, CreateRequest(h) PROVE TrueInv'
  <2>1. \A g \in Handler : work'[g].at = "resolve" => work'[g] = work[g]
    BY <1>3, <1>12 DEF CreateRequest, Goto, Work
  <2>2. UNCHANGED verdict
        /\ \A e \in Exec : request'[e] \in {request[e], "AUTHORIZED"}
    BY <1>3, <1>12 DEF CreateRequest
  <2> QED
    BY <1>1, <1>2, <2>1, <2>2, TrueElsewhere
<1>13. CASE GateStep
  BY <1>8, <1>9, <1>10, <1>11, <1>12, <1>13 DEF GateStep
<1> QED
  BY <1>4, <1>5, <1>6, <1>7, <1>13 DEF Next, ExecutorStep, vars, gateVars

(* Core's records of an execution agree with the chain in whatever order   *)
(* results, reconciliations and verifications write them: CONFIRMED and    *)
(* VERIFIED were read off a successful receipt, which stays, and FAILED is *)
(* an answer the chain does not contradict                                 *)
(* (execution-result.service.ts:77-114, 119-149, 153-211).                 *)
THEOREM CoreRecordsAreTrue == Spec => []RecordsAreTrue
<1>1. Init => TrueInv
  BY DEF Init, GateInit, ExecutorInit, TrueInv, ConfirmsPaid, RequestTrue, ResolvesPaid,
         NoRecord, Idle
<1>2. TrueInv /\ AnswerIsFinal => RecordsAreTrue
  BY DEF TrueInv, RequestTrue, Paid, Failed, AnswerIsFinal, RecordsAreTrue
<1>3. Spec => []PipelineInv /\ []AnswerIsFinal
  BY PaymentIsExecutor, PipelineInvHolds, AnswersAreFinal, PTL
<1> QED
  BY <1>1, <1>2, <1>3, TrueStep, PaymentInvHolds, PTL DEF Spec

-----------------------------------------------------------------------------
(* Each step of the composition is a step of the ledger or leaves it       *)
(* alone.  A handler that dies has at most one transaction to roll back.   *)
LEMMA LedgerStep == PaymentInv /\ [Next]_vars => [LedgerNext]_ledgerVars
<1> SUFFICES ASSUME PaymentInv, [Next]_vars PROVE LedgerNext \/ UNCHANGED ledgerVars
  OBVIOUS
<1>1. ASSUME NEW h \in Handler, NEW r \in Reservation, FindReservation(h, r)
      PROVE  LedgerNext
  <2>1. work[h].op \in Op /\ Begin(h, work[h].op, r)
    BY <1>1 DEF FindReservation, PaymentInv, WorkOK
  <2> QED
    BY <2>1 DEF LedgerNext
<1>2. ASSUME NEW h \in Handler, Die(h) PROVE LedgerNext \/ UNCHANGED ledgerVars
  <2>1. CASE \E t \in open : t.by = h
    <3>1. PICK t \in open : t.by = h
      BY <2>1
    <3>2. open' = open \ {t}
      BY <1>2, <3>1 DEF Die, PaymentInv, OpenOK
    <3> QED
      BY <1>2, <3>2 DEF Die, Abort, LedgerNext
  <2>2. CASE \A t \in open : t.by # h
    BY <1>2, <2>2 DEF Die, ledgerVars
  <2> QED
    BY <2>1, <2>2
<1>3. ASSUME NEW h \in Handler, ApplyToLedger(h) PROVE LedgerNext
  BY <1>3 DEF ApplyToLedger, LedgerNext
<1>4. ASSUME NEW h \in Handler, NEW r \in Reservation, ReserveBudget(h, r)
      PROVE  LedgerNext
  BY <1>4 DEF ReserveBudget, Holds, LedgerNext
<1>5. CASE GateStep
  BY <1>1, <1>2, <1>3, <1>4, <1>5
     DEF GateStep, Prepare, BudgetExceeded, CreateRequest, CreateRefused, Bind, Resolve,
         RecordVerdict, FindNone
<1>6. CASE ~GateStep
  BY <1>6 DEF Next, ExecutorStep, PostResult, IngestResult, AskResult, Reconcile,
              AskVerification, Verify, vars, gateVars
<1> QED
  BY <1>5, <1>6

(* The gate's handlers, whatever they do and wherever they die, use the    *)
(* account only as the ledger's own specification allows: what is proved   *)
(* of the ledger holds of a payment (financial.service.ts:74-256).         *)
THEOREM PaymentImplementsLedger == Spec => ImplementsLedger
<1>1. Init => LedgerInit
  BY DEF Init, GateInit
<1> QED
  BY <1>1, PaymentInvHolds, LedgerStep, PTL DEF Spec, ImplementsLedger, LedgerSpec

(* So no payment takes its account over the limit, whatever order handlers *)
(* run and die in (financial.service.ts:89-121).                           *)
THEOREM PaymentsStayInBudget == Spec => []RowWithinLimit
BY PaymentImplementsLedger, RowLimitHolds, PTL DEF ImplementsLedger

(* And however the driver calls, an execution's transaction is sent once,  *)
(* unless a second call could miss the record of the first                 *)
(* (execution-pipeline.ts:11, 80-81, 105-122).                             *)
THEOREM PaymentsSentOnce == Spec => []AtMostOneBroadcast
BY PaymentIsExecutor, BroadcastOnce, PTL
=============================================================================
