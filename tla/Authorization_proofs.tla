------------------------ MODULE Authorization_proofs ------------------------
(***************************************************************************)
(* Proofs about DecisionEngine and Authorization, for every number of      *)
(* handlers, decisions, capabilities and policy versions, any rules, any   *)
(* proposal and any evidence.                                              *)
(***************************************************************************)
EXTENDS Authorization, TLAPS

(* A set of rungs that is not empty has a first. *)
LEMMA FirstRung ==
    ASSUME NEW S, S \subseteq 1 .. 18, S # {}
    PROVE  \E n \in S : \A m \in S : n <= m
<1> SUFFICES ASSUME \A n \in S : \E m \in S : m < n
             PROVE  FALSE
  OBVIOUS
<1>1. \A m \in S : m > 4
  OBVIOUS
<1>2. \A m \in S : m > 8
  BY <1>1
<1>3. \A m \in S : m > 12
  BY <1>2
<1>4. \A m \in S : m > 16
  BY <1>3
<1>5. \A m \in S : m > 18
  BY <1>4
<1>6. PICK m \in S : TRUE
  OBVIOUS
<1>7. m \in 1 .. 18 /\ m > 18
  BY <1>5, <1>6
<1> QED BY <1>7

(* The reviews are the last rungs of the ladder. *)
LEMMA Ladder ==
    /\ \A n \in 1 .. 14 : Precedence[n] \notin ReviewDeterminants
    /\ \A n \in 15 .. 18 : Precedence[n] \in ReviewDeterminants
<1>1. Precedence[1] \notin ReviewDeterminants /\ Precedence[2] \notin ReviewDeterminants
      /\ Precedence[3] \notin ReviewDeterminants /\ Precedence[4] \notin ReviewDeterminants
      /\ Precedence[5] \notin ReviewDeterminants /\ Precedence[6] \notin ReviewDeterminants
      /\ Precedence[7] \notin ReviewDeterminants /\ Precedence[8] \notin ReviewDeterminants
  BY DEF Precedence, ReviewDeterminants
<1>2. Precedence[9] \notin ReviewDeterminants /\ Precedence[10] \notin ReviewDeterminants
      /\ Precedence[11] \notin ReviewDeterminants /\ Precedence[12] \notin ReviewDeterminants
      /\ Precedence[13] \notin ReviewDeterminants /\ Precedence[14] \notin ReviewDeterminants
  BY DEF Precedence, ReviewDeterminants
<1>3. Precedence[15] \in ReviewDeterminants /\ Precedence[16] \in ReviewDeterminants
      /\ Precedence[17] \in ReviewDeterminants /\ Precedence[18] \in ReviewDeterminants
  BY DEF Precedence, ReviewDeterminants
<1> QED BY <1>1, <1>2, <1>3

LEMMA LadderLength == Len(Precedence) = 18
BY DEF Precedence

(* Every objection is a rung of the ladder. *)
LEMMA ObjectionsOnLadder ==
    ASSUME NEW i
    PROVE  \A o \in Objections(i) : \E n \in 1 .. 18 : Precedence[n] = o
BY DEF Objections, If, Precedence

(* The first rung that is not cleared asks for a review exactly when no    *)
(* rung that is not cleared denies.                                        *)
LEMMA FirstStopDecides ==
    ASSUME NEW i, Objections(i) # {}
    PROVE  Precedence[FirstStop(Objections(i))] \in ReviewDeterminants
             <=> Objections(i) \ ReviewDeterminants = {}
<1> DEFINE O == Objections(i)
           stops == {n \in 1 .. 18 : Precedence[n] \in O}
           first == CHOOSE n \in stops : \A m \in stops : n <= m
<1>1. \A o \in O : \E n \in stops : Precedence[n] = o
  BY ObjectionsOnLadder
<1>2. FirstStop(O) = first
  BY LadderLength DEF FirstStop
<1> HIDE DEF O
<1>3. stops # {} /\ stops \subseteq 1 .. 18
  BY <1>1, Objections(i) # {} DEF O
<1> HIDE DEF stops
<1>4. \E n \in stops : \A m \in stops : n <= m
  BY <1>3, FirstRung
<1>5. first \in stops /\ \A m \in stops : first <= m
  BY <1>4
<1> HIDE DEF first
<1>6. first \in 1 .. 18
  BY <1>3, <1>5
<1>7. CASE first \in 1 .. 14
  <2>1. Precedence[first] \notin ReviewDeterminants
    BY <1>7, Ladder
  <2>2. Precedence[first] \in O
    BY <1>5 DEF stops
  <2> QED BY <1>2, <2>1, <2>2 DEF O
<1>8. CASE first \in 15 .. 18
  <2>1. Precedence[first] \in ReviewDeterminants
    BY <1>8, Ladder
  <2>2. \A m \in stops : m \in 15 .. 18
    BY <1>3, <1>5, <1>8
  <2>3. \A m \in stops : Precedence[m] \in ReviewDeterminants
    BY <2>2, Ladder
  <2>4. \A o \in O : o \in ReviewDeterminants
    BY <1>1, <2>3
  <2> QED BY <1>2, <2>1, <2>4 DEF O
<1> QED BY <1>6, <1>7, <1>8

(* decide gives the worst that any one of its inputs calls for, whatever   *)
(* they are (decision/engine.ts:103-199).                                  *)
THEOREM ResultIsTheWorst == \A i : Result(i) = WorstOf(i)
<1> SUFFICES ASSUME NEW i
             PROVE  Result(i) = WorstOf(i)
  OBVIOUS
<1>1. CASE Objections(i) = {}
  BY <1>1 DEF Result, WorstOf
<1>2. CASE Objections(i) # {} /\ Objections(i) \ ReviewDeterminants = {}
  BY <1>2, FirstStopDecides DEF Result, WorstOf
<1>3. CASE Objections(i) \ ReviewDeterminants # {}
  BY <1>3, FirstStopDecides DEF Result, WorstOf
<1> QED BY <1>1, <1>2, <1>3

(* So it is in every decision the system takes. *)
THEOREM WorstWins == Spec => []WorstObjectionWins
<1>1. WorstObjectionWins
  BY ResultIsTheWorst DEF WorstObjectionWins
<1> QED BY <1>1, PTL

(* Of two inputs that differ in the advice alone, the objections other     *)
(* than the advice are the same.                                           *)
LEMMA AdviceOnlyEscalates ==
    ASSUME NEW i, NEW j,
           i.valid = j.valid, i.flags = j.flags, i.policy = j.policy,
           i.gate = j.gate, i.binding = j.binding, i.simulation = j.simulation,
           i.approval = j.approval
    PROVE  /\ Objections(i) \ ReviewDeterminants = Objections(j) \ ReviewDeterminants
           /\ j.advice = "none" => Objections(j) \subseteq Objections(i)
<1>1. /\ Objections(i) = Objections(j) \/ Objections(i) \ {"ai_advisory_review"}
                                           = Objections(j) \ {"ai_advisory_review"}
      /\ j.advice = "none" => "ai_advisory_review" \notin Objections(j)
  BY DEF Objections, If
<1>2. "ai_advisory_review" \in ReviewDeterminants
  BY DEF ReviewDeterminants
<1> QED BY <1>1, <1>2

(* An AI can only raise scrutiny: no advice turns a denial into anything   *)
(* else, or anything else into an ALLOW (decision/engine.ts:65-69).        *)
THEOREM AdviceIsAdvisory == Spec => []AdviceIsNotAuthority
<1>1. ASSUME NEW i \in Inputs, NEW a \in Advice
      PROVE  LET other == [i EXCEPT !.advice = a]
                 silent == [i EXCEPT !.advice = "none"] IN
             /\ Result(other) = "DENY" <=> Result(i) = "DENY"
             /\ Result(other) = "ALLOW" => Result(silent) = "ALLOW"
  <2> DEFINE other == [i EXCEPT !.advice = a]
             silent == [i EXCEPT !.advice = "none"]
  <2>1. /\ i = [i EXCEPT !.advice = i.advice]
        /\ DOMAIN i = {"valid", "flags", "policy", "gate", "binding", "simulation",
                       "approval", "advice"}
    BY DEF Inputs, PrepareInput, DecideInput
  <2>2. /\ Objections(other) \ ReviewDeterminants = Objections(i) \ ReviewDeterminants
        /\ Objections(silent) \subseteq Objections(other)
    BY <2>1, AdviceOnlyEscalates
  <2>3. /\ Result(other) = WorstOf(other) /\ Result(i) = WorstOf(i)
        /\ Result(silent) = WorstOf(silent)
    BY ResultIsTheWorst
  <2> HIDE DEF other, silent
  <2>4. Result(other) = "DENY" <=> Result(i) = "DENY"
    BY <2>2, <2>3 DEF WorstOf
  <2>5. Result(other) = "ALLOW" => Result(silent) = "ALLOW"
    BY <2>2, <2>3 DEF WorstOf
  <2> QED BY <2>4, <2>5 DEF other, silent
<1>2. AdviceIsNotAuthority
  BY <1>1 DEF AdviceIsNotAuthority
<1> QED BY <1>2, PTL

-----------------------------------------------------------------------------
(* What a busy handler w has found in force has been in force since it     *)
(* started, which is in s, and so has whatever is in force now.  A         *)
(* capability outside the handler's clock was in force when it started, if *)
(* it still is at all, or was granted since: one that had run out before,  *)
(* or whose window began later, is inside.                                 *)
FoundInForce(w, s) ==
    /\ w.valid \subseteq s
    /\ InForce \subseteq s
    /\ w.pointed \subseteq agent
    /\ \A c \in Capability \ w.clock : capability[c] = "ACTIVE" => "capability" \in s
    /\ w.at \in {"approval", "record", "mint"} /\ w.policy = "PASS" => "policy" \in s
    /\ w.at = "mint" => w.valid = Authority /\ w.policy = "PASS"

(* The decision endpoint got past a read only with what it asked for, and  *)
(* has stages of its own.                                                  *)
Required(w) ==
    /\ w.for # None =>
          /\ w.at \in {"constitution", "capability", "policy", "record"}
                => "agent" \in w.valid
          /\ w.at \in {"capability", "policy", "record"} => "constitution" \in w.valid
          /\ w.at \in {"policy", "record"} => "capability" \in w.valid
          /\ w.at \notin {"approval", "mint"}
    /\ w.at \in {"record", "request"} => w.for # None

Sound(w, s) == w = Idle \/ (FoundInForce(w, s) /\ Required(w))

(* A capability has not run out before it is granted. *)
Unlapsed == \A c \in Capability : capability[c] = "none" => c \notin lapsed

AuthorizationInv ==
    /\ TypeOK
    /\ Unlapsed
    /\ \A h \in Handler : Sound(work[h], stood[h])

(* Rows untouched, soundness is a matter of the handler alone.             *)
LEMMA SoundUnchanged ==
    ASSUME NEW w, NEW s, UNCHANGED rows, Sound(w, s)
    PROVE  Sound(w, s)'
BY DEF Sound, FoundInForce, Required, InForce, Usable, rows

LEMMA InForceType == InForce \subseteq Authority \cup {"policy"}
BY DEF InForce, If, Authority

(* A handler that goes on with sound findings leaves the invariant.        *)
LEMMA ProceedKeepsInv ==
    ASSUME AuthorizationInv, NEW h \in Handler, NEW w \in Work, Proceed(h, w),
           work[h] # Idle, Sound(w, stood[h]),
           decision' \in [Decision -> [result: {"none", "ALLOW", "REVIEW", "DENY"},
                                       version: 0 .. MaxVersion]],
           approval' \in [Decision -> {"none", "PENDING", "APPROVED", "DENIED"}]
    PROVE  AuthorizationInv'
<1>1. TypeOK'
  BY DEF AuthorizationInv, TypeOK, Proceed, authority, rows
<1>2. UNCHANGED rows
  BY DEF Proceed, authority
<1>9. Unlapsed'
  BY <1>2 DEF AuthorizationInv, Unlapsed, rows
<1>3. ASSUME NEW g \in Handler
      PROVE  Sound(work[g], stood[g])'
  <2>1. CASE g # h
    <3>1. work'[g] = work[g] /\ stood'[g] = stood[g]
      BY <2>1 DEF AuthorizationInv, TypeOK, Proceed
    <3> QED BY <1>2, <3>1, SoundUnchanged DEF AuthorizationInv
  <2>2. CASE g = h /\ w = Idle
    BY <2>2 DEF AuthorizationInv, TypeOK, Proceed, Sound
  <2>3. CASE g = h /\ w # Idle
    <3>1. work'[g] = w /\ stood'[g] = stood[h]
      BY <2>3 DEF AuthorizationInv, TypeOK, Proceed
    <3> QED BY <1>2, <3>1, SoundUnchanged
  <2> QED BY <2>1, <2>2, <2>3
<1> QED BY <1>1, <1>9, <1>3 DEF AuthorizationInv

LEMMA IdleType == Idle \in Work
BY VersionsType DEF Idle, Work, Stage, Clock, Authority, PolicyStatus

LEMMA IdleIsSound == ASSUME NEW s PROVE Sound(Idle, s)
BY DEF Sound

(* A read of an authority that is in force is a sound finding.             *)
LEMMA ReadKeepsInv ==
    ASSUME AuthorizationInv, NEW h \in Handler, NEW stage, NEW next, NEW name, NEW found,
           found \in BOOLEAN, Read(h, stage, next, name, found),
           \/ <<stage, next, name>> = <<"agent", "constitution", "agent">>
           \/ <<stage, next, name>> = <<"constitution", "capability", "constitution">>
           \/ <<stage, next, name>> = <<"capability", "policy", "capability">>,
           found => name \in stood[h]
    PROVE  AuthorizationInv'
<1> DEFINE w == [work[h] EXCEPT !.at = next, !.valid = @ \cup If(found, name),
                                !.pointed = IF stage = "agent"
                                            THEN agent \cap {"policy"} ELSE @]
<1>1. work[h] \in Work /\ work[h] # Idle
  BY DEF AuthorizationInv, TypeOK, Read, Idle
<1>2. If(found, name) = (IF found THEN {name} ELSE {})
  BY DEF If
<1>3. UNCHANGED <<decision, approval>>
  BY DEF Read, records
<1>4. CASE work[h].for # None /\ ~found
  BY <1>1, <1>3, <1>4, IdleType, IdleIsSound, ProceedKeepsInv DEF Read, AuthorizationInv, TypeOK
<1>5. CASE ~(work[h].for # None /\ ~found)
  <2>1. Proceed(h, w)
    BY <1>5 DEF Read
  <2>2. w \in Work
    BY <1>1, <1>2, ZenonT(60) DEF Work, Stage, Authority
  <2>3. /\ w.valid = work[h].valid \cup (IF found THEN {name} ELSE {})
        /\ w.at = next /\ w.for = work[h].for /\ w.clock = work[h].clock
        /\ w.pointed \subseteq work[h].pointed \cup agent
    BY <1>1, <1>2 DEF Work
  <2>4. FoundInForce(work[h], stood[h]) /\ Required(work[h])
    BY <1>1 DEF AuthorizationInv, Sound
  <2>5. work[h].at = stage
    BY DEF Read
  <2> HIDE DEF w
  <2>6. FoundInForce(w, stood[h])
    BY <2>3, <2>4 DEF FoundInForce
  <2>7. Required(w)
    BY <1>5, <2>3, <2>4, <2>5 DEF Required
  <2>8. Sound(w, stood[h])
    BY <2>6, <2>7 DEF Sound
  <2> QED BY <1>1, <1>3, <2>1, <2>2, <2>8, ProceedKeepsInv DEF AuthorizationInv, TypeOK
<1> QED BY <1>4, <1>5

(* What is in force when a busy handler looks has been in force since it   *)
(* started: a capability that was usable by its clock, too.                *)
LEMMA BusyStood ==
    ASSUME AuthorizationInv, NEW h \in Handler, work[h] # Idle
    PROVE  /\ InForce \subseteq stood[h]
           /\ Usable(work[h].clock) # {} => "capability" \in stood[h]
BY DEF AuthorizationInv, Sound, FoundInForce, Usable

LEMMA ReadsKeepInv ==
    ASSUME AuthorizationInv, NEW h \in Handler,
           ReadAgent(h) \/ ReadConstitution(h) \/ ReadCapability(h)
    PROVE  AuthorizationInv'
<1>1. CASE ReadAgent(h)
  <2>1. "ACTIVE" \in agent => "agent" \in stood[h]
    BY <1>1, BusyStood DEF ReadAgent, Read, Idle, InForce, If
  <2>2. Read(h, "agent", "constitution", "agent", "ACTIVE" \in agent)
    BY <1>1 DEF ReadAgent
  <2>3. ("ACTIVE" \in agent) \in BOOLEAN
    OBVIOUS
  <2> QED BY <2>1, <2>2, <2>3, ReadKeepsInv
<1>2. CASE ReadConstitution(h)
  <2>1. constitution = "ACTIVE" => "constitution" \in stood[h]
    BY <1>2, BusyStood DEF ReadConstitution, Read, Idle, InForce, If
  <2> QED BY <1>2, <2>1, ReadKeepsInv DEF ReadConstitution
<1>3. CASE ReadCapability(h)
  <2>1. Usable(work[h].clock) # {} => "capability" \in stood[h]
    BY <1>3, BusyStood DEF ReadCapability, Read, Idle
  <2> QED BY <1>3, <2>1, ReadKeepsInv DEF ReadCapability
<1> QED BY <1>1, <1>2, <1>3

LEMMA ReadPolicyKeepsInv ==
    ASSUME AuthorizationInv, NEW h \in Handler, ReadPolicy(h)
    PROVE  AuthorizationInv'
<1> DEFINE there == work[h].pointed # {} /\ version # 0
           next == IF work[h].for = None THEN "approval" ELSE "record"
           v == IF there THEN version ELSE 0
           p == IF there THEN Verdict[version] ELSE "FAIL"
           w == [work[h] EXCEPT !.at = next, !.version = v, !.policy = p]
<1>1. work[h] \in Work /\ work[h] # Idle /\ work[h].at = "policy"
  BY DEF AuthorizationInv, TypeOK, ReadPolicy, Idle
<1>2. UNCHANGED <<decision, approval>>
  BY DEF ReadPolicy, records
<1>3. CASE work[h].for # None /\ ~there
  BY <1>1, <1>2, <1>3, IdleType, IdleIsSound, ProceedKeepsInv
     DEF ReadPolicy, AuthorizationInv, TypeOK
<1>4. CASE ~(work[h].for # None /\ ~there)
  <2>1. Proceed(h, w)
    BY <1>4 DEF ReadPolicy
  <2>2. version \in 0 .. MaxVersion
    BY DEF AuthorizationInv, TypeOK
  <2>3. there => Verdict[version] \in PolicyStatus
    BY <2>2, VerdictType, VersionsType
  <2>4. w \in Work
    <3>1. next \in Stage /\ v \in 0 .. MaxVersion
      BY <2>2, VersionsType DEF Stage
    <3>2. p \in PolicyStatus
      BY <2>3 DEF PolicyStatus
    <3> HIDE DEF next, v, p
    <3> QED BY <1>1, <3>1, <3>2 DEF Work
  <2>5. /\ w.valid = work[h].valid /\ w.for = work[h].for /\ w.clock = work[h].clock
        /\ w.pointed = work[h].pointed
        /\ w.at = IF work[h].for = None THEN "approval" ELSE "record"
        /\ w.policy = IF there THEN Verdict[version] ELSE "FAIL"
    BY <1>1 DEF Work
  <2>6. FoundInForce(work[h], stood[h]) /\ Required(work[h])
    BY <1>1 DEF AuthorizationInv, Sound
  <2>7. w.policy = "PASS" => "policy" \in InForce
    <3>1. work[h].pointed \subseteq {"policy"} /\ work[h].pointed \subseteq agent
      BY <1>1, <2>6 DEF Work, FoundInForce
    <3>2. there => "policy" \in agent /\ version # 0
      BY <3>1
    <3>3. there /\ Verdict[version] = "PASS" => "policy" \in InForce
      BY <3>2 DEF InForce, If
    <3> QED BY <2>5, <3>3
  <2> HIDE DEF w, there
  <2>8. FoundInForce(w, stood[h])
    BY <2>5, <2>6, <2>7 DEF FoundInForce
  <2>9. Required(w)
    BY <1>1, <2>5, <2>6 DEF Required
  <2>10. Sound(w, stood[h])
    BY <2>8, <2>9 DEF Sound
  <2> QED BY <1>1, <1>2, <2>1, <2>4, <2>10, ProceedKeepsInv DEF AuthorizationInv, TypeOK
<1> QED BY <1>3, <1>4

LEMMA ResultType == \A i : Result(i) \in {"ALLOW", "REVIEW", "DENY"}
BY ResultIsTheWorst DEF WorstOf

LEMMA RecordKeepsInv ==
    ASSUME AuthorizationInv, NEW h \in Handler, NEW e \in Evidence, Record(h, e)
    PROVE  AuthorizationInv'
<1> DEFINE r == Result(DecideInput(work[h], e))
           w == [work[h] EXCEPT !.at = "request"]
<1>1. work[h] \in Work /\ work[h] # Idle /\ work[h].at = "record"
  BY DEF AuthorizationInv, TypeOK, Record, Idle
<1>2. r \in {"ALLOW", "REVIEW", "DENY"}
  BY ResultType
<1>3. /\ decision' = [decision EXCEPT ![work[h].for] =
                        [result |-> r, version |-> work[h].version]]
      /\ UNCHANGED approval
      /\ Proceed(h, IF r = "REVIEW" THEN w ELSE Idle)
  BY DEF Record
<1> HIDE DEF r
<1>4. decision' \in [Decision -> [result: {"none", "ALLOW", "REVIEW", "DENY"},
                                  version: 0 .. MaxVersion]]
  BY <1>1, <1>2, <1>3 DEF AuthorizationInv, TypeOK, Work
<1>5. w \in Work
  BY <1>1 DEF Work, Stage
<1>6. Sound(w, stood[h])
  <2>1. FoundInForce(work[h], stood[h]) /\ Required(work[h])
    BY <1>1 DEF AuthorizationInv, Sound
  <2>2. /\ w.valid = work[h].valid /\ w.for = work[h].for /\ w.clock = work[h].clock
        /\ w.pointed = work[h].pointed /\ w.at = "request"
    BY <1>1 DEF Work
  <2> HIDE DEF w
  <2>3. FoundInForce(w, stood[h])
    BY <2>1, <2>2 DEF FoundInForce
  <2>4. Required(w)
    BY <1>1, <2>1, <2>2 DEF Required
  <2> QED BY <2>3, <2>4 DEF Sound
<1> HIDE DEF w
<1>7. approval' \in [Decision -> {"none", "PENDING", "APPROVED", "DENIED"}]
  BY <1>3 DEF AuthorizationInv, TypeOK
<1>8. CASE r = "REVIEW"
  BY <1>1, <1>3, <1>4, <1>5, <1>6, <1>7, <1>8, ProceedKeepsInv
<1>9. CASE r # "REVIEW"
  BY <1>1, <1>3, <1>4, <1>7, <1>9, IdleType, IdleIsSound, ProceedKeepsInv
<1> QED BY <1>8, <1>9

LEMMA RequestKeepsInv ==
    ASSUME AuthorizationInv, NEW h \in Handler, RequestApproval(h)
    PROVE  AuthorizationInv'
<1>1. work[h] # Idle
  BY DEF RequestApproval, Idle
<1>2. approval' \in [Decision -> {"none", "PENDING", "APPROVED", "DENIED"}]
  BY DEF RequestApproval, AuthorizationInv, TypeOK
<1>3. Proceed(h, Idle) /\ UNCHANGED decision
  BY DEF RequestApproval
<1> QED BY <1>1, <1>2, <1>3, IdleType, IdleIsSound, ProceedKeepsInv
           DEF AuthorizationInv, TypeOK

LEMMA EndKeepsInv ==
    ASSUME AuthorizationInv, NEW h \in Handler, End(h)
    PROVE  AuthorizationInv'
<1>1. work[h] # Idle /\ Proceed(h, Idle) /\ UNCHANGED <<decision, approval>>
  BY DEF End, records
<1> QED BY <1>1, IdleType, IdleIsSound, ProceedKeepsInv DEF AuthorizationInv, TypeOK

(* An ALLOW of revalidate has no objection to it. *)
LEMMA AllowIsClear ==
    ASSUME NEW i, Result(i) = "ALLOW", i.valid \subseteq Authority, i.policy \in PolicyStatus
    PROVE  /\ i.valid = Authority /\ i.policy = "PASS"
           /\ i.gate # "MISMATCH" /\ i.binding \in {"none", "VALID"} /\ i.simulation # "DENY"
           /\ "simulation_required" \in i.flags => i.simulation \notin {"none", "FAIL_CLOSED"}
           /\ i.simulation # "REVIEW"
<1>1. Objections(i) = {}
  BY ResultIsTheWorst DEF WorstOf
<1>2. /\ "agent" \in i.valid /\ "intent" \in i.valid
      /\ "constitution" \in i.valid /\ "capability" \in i.valid
      /\ i.policy # "FAIL" /\ i.policy # "REVIEW"
  BY <1>1 DEF Objections, If
<1>3. /\ i.gate # "MISMATCH" /\ i.binding \in {"none", "VALID"} /\ i.simulation # "DENY"
      /\ "simulation_required" \in i.flags => i.simulation \notin {"none", "FAIL_CLOSED"}
      /\ i.simulation # "REVIEW"
  BY <1>1 DEF Objections, If
<1> QED BY <1>2, <1>3 DEF Authority, PolicyStatus

LEMMA RevalidateKeepsInv ==
    ASSUME AuthorizationInv, NEW h \in Handler, NEW e \in Evidence, Revalidate(h, e)
    PROVE  AuthorizationInv'
<1> DEFINE r == Result(PrepareInput(work[h], e))
           w == [work[h] EXCEPT !.at = "mint", !.evidence = e]
<1>1. work[h] \in Work /\ work[h] # Idle /\ work[h].at = "approval"
  BY DEF AuthorizationInv, TypeOK, Revalidate, Idle
<1>2. UNCHANGED <<decision, approval>> /\ Proceed(h, IF r = "ALLOW" THEN w ELSE Idle)
  BY DEF Revalidate, records
<1>3. r = "ALLOW" => work[h].valid = Authority /\ work[h].policy = "PASS"
  <2> DEFINE i == PrepareInput(work[h], e)
  <2>1. i.valid = work[h].valid /\ i.policy = work[h].policy
    BY DEF PrepareInput
  <2>2. i.valid \subseteq Authority /\ i.policy \in PolicyStatus
    BY <1>1, <2>1 DEF Work
  <2> HIDE DEF i
  <2>3. Result(i) = "ALLOW" => i.valid = Authority /\ i.policy = "PASS"
    BY <2>2, AllowIsClear
  <2> QED BY <2>1, <2>3 DEF i
<1> HIDE DEF r
<1>4. CASE r = "ALLOW"
  <2>1. w \in Work
    BY <1>1 DEF Work, Stage
  <2>2. FoundInForce(work[h], stood[h]) /\ Required(work[h])
    BY <1>1 DEF AuthorizationInv, Sound
  <2>3. /\ w.valid = work[h].valid /\ w.for = work[h].for /\ w.clock = work[h].clock
        /\ w.pointed = work[h].pointed /\ w.at = "mint" /\ w.policy = work[h].policy
    BY <1>1 DEF Work
  <2> HIDE DEF w
  <2>4. FoundInForce(w, stood[h])
    BY <1>1, <1>3, <1>4, <2>2, <2>3 DEF FoundInForce
  <2>5. Required(w)
    BY <1>1, <2>2, <2>3 DEF Required
  <2>6. Sound(w, stood[h])
    BY <2>4, <2>5 DEF Sound
  <2> QED BY <1>1, <1>2, <1>4, <2>1, <2>6, ProceedKeepsInv DEF AuthorizationInv, TypeOK
<1>5. CASE r # "ALLOW"
  BY <1>1, <1>2, <1>5, IdleType, IdleIsSound, ProceedKeepsInv DEF AuthorizationInv, TypeOK
<1> QED BY <1>4, <1>5

LEMMA BeginKeepsInv ==
    ASSUME AuthorizationInv, NEW h \in Handler, NEW w \in Work, Begin(h, w),
           w.at = "agent", w.clock = Now, w.pointed = {},
           w.valid \subseteq InForce
    PROVE  AuthorizationInv'
<1>1. TypeOK'
  BY InForceType DEF AuthorizationInv, TypeOK, Begin, authority, rows, records
<1>2. UNCHANGED rows
  BY DEF Begin, authority
<1>9. Unlapsed'
  BY <1>2 DEF AuthorizationInv, Unlapsed, rows
<1>3. Sound(w, InForce)
  BY DEF Sound, FoundInForce, Required, Now, InForce, Usable, If
<1>4. ASSUME NEW g \in Handler
      PROVE  Sound(work[g], stood[g])'
  <2>1. CASE g # h
    <3>1. work'[g] = work[g] /\ stood'[g] = stood[g]
      BY <2>1 DEF AuthorizationInv, TypeOK, Begin
    <3> QED BY <1>2, <3>1, SoundUnchanged DEF AuthorizationInv
  <2>2. CASE g = h
    <3>1. work'[g] = w /\ stood'[g] = InForce
      BY <2>2 DEF AuthorizationInv, TypeOK, Begin
    <3> QED BY <1>2, <1>3, <3>1, SoundUnchanged
  <2> QED BY <2>1, <2>2
<1> QED BY <1>1, <1>9, <1>4 DEF AuthorizationInv

LEMMA NowType == Now \subseteq Clock \/ ~TypeOK
BY DEF Now, Clock, TypeOK

LEMMA StartsKeepInv ==
    ASSUME AuthorizationInv, NEW h \in Handler,
           \/ \E d \in Decision : StartDecide(h, d)
           \/ \E cites, approves \in Decision \cup {None} : StartPrepare(h, cites, approves)
    PROVE  AuthorizationInv'
<1>1. Now \subseteq Clock
  BY NowType DEF AuthorizationInv
<1>2. CASE \E d \in Decision : StartDecide(h, d)
  <2> PICK d \in Decision : StartDecide(h, d)
    BY <1>2
  <2> DEFINE w == [Idle EXCEPT !.at = "agent", !.for = d, !.clock = Now]
  <2>1. w \in Work /\ w.at = "agent" /\ w.clock = Now /\ w.pointed = {} /\ w.valid = {}
    BY <1>1, IdleType DEF Work, Stage, Idle
  <2>2. Begin(h, w)
    BY DEF StartDecide
  <2> HIDE DEF w
  <2> QED BY <2>1, <2>2, BeginKeepsInv
<1>3. CASE \E cites, approves \in Decision \cup {None} : StartPrepare(h, cites, approves)
  <2> PICK cites, approves \in Decision \cup {None} : StartPrepare(h, cites, approves)
    BY <1>3
  <2> DEFINE valid == If("intent" \notin lapsed, "intent")
             w == [Idle EXCEPT !.at = "agent", !.cites = cites, !.approves = approves,
                               !.clock = Now, !.valid = valid]
  <2>1. valid \subseteq InForce /\ valid \subseteq Authority
    BY DEF InForce, If, Authority
  <2>2. Begin(h, w)
    BY DEF StartPrepare
  <2> HIDE DEF valid
  <2>3. w \in Work /\ w.at = "agent" /\ w.clock = Now /\ w.pointed = {} /\ w.valid = valid
    BY <1>1, <2>1, IdleType DEF Work, Stage, Idle
  <2> HIDE DEF w
  <2> QED BY <2>1, <2>2, <2>3, BeginKeepsInv
<1> QED BY <1>2, <1>3

LEMMA AnswerKeepsInv ==
    ASSUME AuthorizationInv, NEW d \in Decision, NEW verdict \in {"APPROVED", "DENIED"},
           Answer(d, verdict)
    PROVE  AuthorizationInv'
<1>1. TypeOK' /\ UNCHANGED <<rows, work, stood>>
  BY DEF AuthorizationInv, TypeOK, Answer, authority, rows
<1>2. Unlapsed'
  BY <1>1 DEF AuthorizationInv, Unlapsed, rows
<1> QED BY <1>1, <1>2, SoundUnchanged DEF AuthorizationInv

(* A change underneath: the agent keeps its policy, and a capability that  *)
(* becomes ACTIVE is in force.                                             *)
LEMMA GovernChanges ==
    ASSUME TypeOK, Unlapsed, Govern
    PROVE  /\ agent' \in SUBSET {"ACTIVE", "policy"} /\ agent \cap {"policy"} \subseteq agent'
           /\ constitution' \in {"none", "ACTIVE"}
           /\ capability' \in [Capability -> {"none", "ACTIVE", "REVOKED", "EXPIRED"}]
           /\ version' \in 0 .. MaxVersion /\ retired' \subseteq 1 .. MaxVersion
           /\ lapsed' \subseteq Clock
           /\ \A c \in Capability : capability'[c] = "ACTIVE" =>
                 capability[c] = "ACTIVE" \/ c \notin lapsed'
           /\ Unlapsed'
<1> USE VersionsType DEF TypeOK, Unlapsed, Govern
<1>1. CASE SetAgent
  BY <1>1 DEF SetAgent
<1>2. CASE ActivateConstitution
  BY <1>2 DEF ActivateConstitution
<1>3. CASE \E c \in Capability : Grant(c)
  BY <1>3 DEF Grant
<1>4. CASE \E c \in Capability : Revoke(c)
  BY <1>4 DEF Revoke
<1>5. CASE ExpireCapabilities
  BY <1>5 DEF ExpireCapabilities
<1>6. CASE \E v \in 1 .. MaxVersion : ActivateVersion(v)
  BY <1>6 DEF ActivateVersion
<1>7. CASE DisableVersion
  BY <1>7 DEF DisableVersion
<1>8. CASE PointAgent
  BY <1>8 DEF PointAgent
<1>9. CASE \E x \in Clock : Lapse(x)
  BY <1>9 DEF Lapse
<1> QED BY <1>1, <1>2, <1>3, <1>4, <1>5, <1>6, <1>7, <1>8, <1>9

LEMMA GovernKeepsInv ==
    ASSUME AuthorizationInv, Govern
    PROVE  AuthorizationInv'
<1>1. TypeOK /\ Unlapsed
  BY DEF AuthorizationInv
<1>2. /\ changes' \in 0 .. MaxChange /\ UNCHANGED <<decision, approval, work>>
      /\ stood' = [h \in Handler |-> IF work[h] = Idle THEN {} ELSE stood[h] \cup InForce']
  BY <1>1, VersionsType DEF TypeOK, Govern, records
<1>3. InForce' \subseteq Authority \cup {"policy"}
  BY DEF InForce, If, Authority
<1>4. TypeOK'
  BY <1>1, <1>2, <1>3, GovernChanges DEF TypeOK
<1>5. ASSUME NEW h \in Handler
      PROVE  Sound(work[h], stood[h])'
  <2>1. CASE work[h] = Idle
    BY <1>2, <2>1 DEF Sound
  <2>2. CASE work[h] # Idle
    <3>1. stood'[h] = stood[h] \cup InForce' /\ work'[h] = work[h]
      BY <1>2, <2>2
    <3>2. FoundInForce(work[h], stood[h]) /\ Required(work[h])
      BY <2>2 DEF AuthorizationInv, Sound
    <3>3. work[h].pointed \subseteq {"policy"}
      BY <1>1 DEF TypeOK, Work
    <3>4. work[h].pointed \subseteq agent'
      BY <1>1, <3>2, <3>3, GovernChanges DEF FoundInForce
    <3>5. ASSUME NEW c \in Capability \ work[h].clock, capability'[c] = "ACTIVE"
          PROVE  "capability" \in stood'[h]
      <4>1. CASE capability[c] = "ACTIVE"
        BY <3>1, <3>2, <4>1 DEF FoundInForce
      <4>2. CASE c \notin lapsed'
        BY <3>1, <3>5, <4>2 DEF InForce, Usable, If
      <4> QED BY <1>1, <3>5, <4>1, <4>2, GovernChanges
    <3>6. FoundInForce(work[h], stood[h])'
      BY <3>1, <3>2, <3>4, <3>5 DEF FoundInForce
    <3>7. Required(work[h])'
      BY <3>1, <3>2 DEF Required
    <3> QED BY <3>6, <3>7 DEF Sound
  <2> QED BY <2>1, <2>2
<1> QED BY <1>1, <1>4, <1>5, GovernChanges DEF AuthorizationInv

LEMMA InitInv == Init => AuthorizationInv
<1> SUFFICES ASSUME Init PROVE AuthorizationInv
  OBVIOUS
<1>1. TypeOK
  BY IdleType, VersionsType DEF Init, TypeOK, NoDecision
<1>2. \A h \in Handler : work[h] = Idle
  BY DEF Init
<1> QED BY <1>1, <1>2 DEF AuthorizationInv, Unlapsed, Sound, Init

(* Every step keeps it. *)
LEMMA StepInv == AuthorizationInv /\ [Next]_vars => AuthorizationInv'
<1> SUFFICES ASSUME AuthorizationInv, [Next]_vars
             PROVE  AuthorizationInv'
  OBVIOUS
<1>1. CASE Govern
  BY <1>1, GovernKeepsInv
<1>2. CASE \E d \in Decision, verdict \in {"APPROVED", "DENIED"} : Answer(d, verdict)
  BY <1>2, AnswerKeepsInv
<1>3. ASSUME NEW h \in Handler,
             \/ \E d \in Decision : StartDecide(h, d)
             \/ \E cites, approves \in Decision \cup {None} : StartPrepare(h, cites, approves)
      PROVE  AuthorizationInv'
  BY <1>3, StartsKeepInv
<1>4. ASSUME NEW h \in Handler, ReadAgent(h) \/ ReadConstitution(h) \/ ReadCapability(h)
      PROVE  AuthorizationInv'
  BY <1>4, ReadsKeepInv
<1>5. ASSUME NEW h \in Handler, ReadPolicy(h) \/ RequestApproval(h) \/ End(h)
      PROVE  AuthorizationInv'
  BY <1>5, ReadPolicyKeepsInv, RequestKeepsInv, EndKeepsInv
<1>6. ASSUME NEW h \in Handler, NEW e \in Evidence, Record(h, e) \/ Revalidate(h, e)
      PROVE  AuthorizationInv'
  BY <1>6, RecordKeepsInv, RevalidateKeepsInv
<1>7. CASE UNCHANGED vars
  <2>1. TypeOK' /\ UNCHANGED <<rows, work, stood>>
    BY <1>7 DEF AuthorizationInv, TypeOK, vars, authority, rows, records
  <2>2. Unlapsed'
    BY <2>1 DEF AuthorizationInv, Unlapsed, rows
  <2> QED BY <2>1, <2>2, SoundUnchanged DEF AuthorizationInv
<1> QED BY <1>1, <1>2, <1>3, <1>4, <1>5, <1>6, <1>7 DEF Next

THEOREM TypeCorrect == Spec => []TypeOK
<1>1. AuthorizationInv => TypeOK
  BY DEF AuthorizationInv
<1> QED BY <1>1, InitInv, StepInv, PTL DEF Spec

(* An execution is allowed only where every authority has been in force    *)
(* while it was asked for (final-revalidation.service.ts:123-252), through *)
(* any changes between its reads.                                          *)
THEOREM AllowedOnlyUnderAuthority == Spec => []AllowedUnderAuthority
<1>1. AuthorizationInv => AllowedUnderAuthority
  <2> SUFFICES ASSUME AuthorizationInv, NEW h \in Handler, work[h].at = "mint"
               PROVE  Authority \cup {"policy"} \subseteq stood[h]
    BY DEF AllowedUnderAuthority
  <2>1. FoundInForce(work[h], stood[h])
    BY DEF AuthorizationInv, Sound, Idle
  <2> QED BY <2>1 DEF FoundInForce
<1> QED BY <1>1, InitInv, StepInv, PTL DEF Spec

(* An ALLOW is recorded only where every authority has been in force, but  *)
(* for the intent, whose expiry is not asked for                           *)
(* (v1.ts:324-375, security-orchestrator.ts:123-182).                      *)
THEOREM RecordedOnlyUnderAuthority == Spec => []RecordedUnderAuthority
<1>1. AuthorizationInv => RecordedUnderAuthority
  <2> SUFFICES ASSUME AuthorizationInv, NEW h \in Handler, work[h].at = "record",
                      NEW e \in Evidence, Result(DecideInput(work[h], e)) = "ALLOW"
               PROVE  (Authority \ {"intent"}) \cup {"policy"} \subseteq stood[h]
    BY DEF RecordedUnderAuthority
  <2>1. FoundInForce(work[h], stood[h]) /\ Required(work[h]) /\ work[h] \in Work
    BY DEF AuthorizationInv, TypeOK, Sound, Idle
  <2>2. {"agent", "constitution", "capability"} \subseteq work[h].valid
    BY <2>1 DEF Required
  <2> DEFINE i == DecideInput(work[h], e)
  <2>3. i.valid \subseteq Authority /\ i.policy = work[h].policy /\ i.policy \in PolicyStatus
    BY <2>1 DEF DecideInput, Work
  <2>4. Result(i) = "ALLOW"
    OBVIOUS
  <2> HIDE DEF i
  <2>5. work[h].policy = "PASS"
    BY <2>3, <2>4, AllowIsClear
  <2> QED BY <2>1, <2>2, <2>5 DEF FoundInForce, Authority
<1> QED BY <1>1, InitInv, StepInv, PTL DEF Spec

-----------------------------------------------------------------------------
(* What is minted. *)

(* The evidence is of the transaction proposed, and it is not known to fail. *)
AsProposed(e) ==
    /\ <<e.analysis.recipient, e.analysis.amount, e.analysis.asset, e.network>>
         = <<Proposal.recipient, Proposal.amount, Proposal.asset, Network>>
    /\ e.simulation.transaction = Transaction
    /\ e.simulated = PayloadHash(Transaction, Network, e.analysis)
    /\ e.simulation.status \notin {"REVERT", "INSUFFICIENT_FUNDS"}
    /\ "simulation_required" \in e.flags => e.simulation.status = "PASS"

MintsAsProposed(w) == w.at = "mint" => AsProposed(w.evidence)

EvidenceInv == \A h \in Handler : MintsAsProposed(work[h])

(* The gate, the binding and the simulation let only such evidence pass.   *)
LEMMA AllowedEvidence ==
    ASSUME NEW w \in Work, NEW e \in Evidence, Result(PrepareInput(w, e)) = "ALLOW"
    PROVE  AsProposed(e)
<1> DEFINE i == PrepareInput(w, e)
<1>1. i.valid \subseteq Authority /\ i.policy \in PolicyStatus
  BY DEF PrepareInput, Work
<1>2. /\ i.gate = IF Mismatches(Proposal, e.analysis, Network, e.network) = {}
                  THEN "MATCH" ELSE "MISMATCH"
      /\ i.binding = Binding(e.simulation, Transaction, e.simulated,
                             PayloadHash(Transaction, e.network, e.analysis))
      /\ i.simulation = Classify(e.simulation.status)
      /\ "simulation_required" \in e.flags => "simulation_required" \in i.flags
  BY DEF PrepareInput
<1> HIDE DEF i
<1>3. /\ i.gate # "MISMATCH" /\ i.binding \in {"none", "VALID"} /\ i.simulation # "DENY"
      /\ "simulation_required" \in i.flags => i.simulation \notin {"none", "FAIL_CLOSED"}
      /\ i.simulation # "REVIEW"
  <2>1. Result(i) = "ALLOW"
    BY DEF i
  <2> QED BY <1>1, <2>1, AllowIsClear
<1>4. Mismatches(Proposal, e.analysis, Network, e.network) = {}
  BY <1>2, <1>3
<1>5. /\ \A f \in {"recipient", "amount", "asset"} : Proposal[f] = e.analysis[f]
      /\ Network = e.network
  BY <1>4 DEF Mismatches, If
<1>6. /\ e.simulation.transaction = Transaction
      /\ e.simulated = PayloadHash(Transaction, e.network, e.analysis)
  BY <1>2, <1>3 DEF Binding
<1>7. /\ e.simulation.status \notin {"REVERT", "INSUFFICIENT_FUNDS"}
      /\ "simulation_required" \in e.flags => e.simulation.status = "PASS"
  BY <1>2, <1>3 DEF Classify
<1> QED BY <1>5, <1>6, <1>7 DEF AsProposed

(* A handler's step keeps it if what it goes on to is as proposed. *)
LEMMA MovesAsProposed ==
    ASSUME TypeOK, EvidenceInv, NEW h \in Handler, NEW w, work' = [work EXCEPT ![h] = w],
           MintsAsProposed(w)
    PROVE  EvidenceInv'
<1>1. ASSUME NEW g \in Handler PROVE MintsAsProposed(work'[g])
  <2>1. CASE g = h
    BY <2>1 DEF TypeOK
  <2>2. CASE g # h
    BY <2>2 DEF TypeOK, EvidenceInv
  <2> QED BY <2>1, <2>2
<1> QED BY <1>1 DEF EvidenceInv, MintsAsProposed

LEMMA IdleAsProposed == MintsAsProposed(Idle)
BY DEF MintsAsProposed, Idle

LEMMA EvidenceStep == AuthorizationInv /\ EvidenceInv /\ [Next]_vars => EvidenceInv'
<1> SUFFICES ASSUME AuthorizationInv, EvidenceInv, [Next]_vars PROVE EvidenceInv'
  OBVIOUS
<1>1. TypeOK /\ \A h \in Handler : work[h] \in Work
  BY DEF AuthorizationInv, TypeOK
<1>2. CASE UNCHANGED work
  BY <1>2 DEF EvidenceInv
<1>3. ASSUME NEW h \in Handler,
             \/ \E d \in Decision : StartDecide(h, d)
             \/ \E cites, approves \in Decision \cup {None} : StartPrepare(h, cites, approves)
      PROVE  EvidenceInv'
  <2>1. CASE \E d \in Decision : StartDecide(h, d)
    <3> PICK d \in Decision : StartDecide(h, d)
      BY <2>1
    <3> DEFINE w == [Idle EXCEPT !.at = "agent", !.for = d, !.clock = Now]
    <3>1. MintsAsProposed(w)
      BY DEF MintsAsProposed, Idle
    <3>2. work' = [work EXCEPT ![h] = w]
      BY DEF StartDecide, Begin
    <3> HIDE DEF w
    <3> QED BY <1>1, <3>1, <3>2, MovesAsProposed
  <2>2. CASE \E cites, approves \in Decision \cup {None} : StartPrepare(h, cites, approves)
    <3> PICK cites, approves \in Decision \cup {None} : StartPrepare(h, cites, approves)
      BY <2>2
    <3> DEFINE w == [Idle EXCEPT !.at = "agent", !.cites = cites, !.approves = approves,
                         !.clock = Now, !.valid = If("intent" \notin lapsed, "intent")]
    <3>1. MintsAsProposed(w)
      BY DEF MintsAsProposed, Idle
    <3>2. work' = [work EXCEPT ![h] = w]
      BY DEF StartPrepare, Begin
    <3> HIDE DEF w
    <3> QED BY <1>1, <3>1, <3>2, MovesAsProposed
  <2> QED BY <1>3, <2>1, <2>2
<1>4. ASSUME NEW h \in Handler, NEW stage, NEW next, NEW name, NEW found,
             next # "mint", Read(h, stage, next, name, found)
      PROVE  EvidenceInv'
  <2> DEFINE w == [work[h] EXCEPT !.at = next, !.valid = @ \cup If(found, name),
                                  !.pointed = IF stage = "agent"
                                              THEN agent \cap {"policy"} ELSE @]
  <2>1. MintsAsProposed(w)
    BY <1>1, <1>4 DEF MintsAsProposed, Work
  <2>2. work' = [work EXCEPT ![h] = Idle] \/ work' = [work EXCEPT ![h] = w]
    BY <1>4 DEF Read, Proceed
  <2> HIDE DEF w
  <2> QED BY <1>1, <2>1, <2>2, IdleAsProposed, MovesAsProposed
<1>5. ASSUME NEW h \in Handler, ReadAgent(h) \/ ReadConstitution(h) \/ ReadCapability(h)
      PROVE  EvidenceInv'
  BY <1>4, <1>5 DEF ReadAgent, ReadConstitution, ReadCapability
<1>6. ASSUME NEW h \in Handler, ReadPolicy(h) PROVE EvidenceInv'
  <2> DEFINE there == work[h].pointed # {} /\ version # 0
             w == [work[h] EXCEPT
                     !.at = IF work[h].for = None THEN "approval" ELSE "record",
                     !.version = IF there THEN version ELSE 0,
                     !.policy = IF there THEN Verdict[version] ELSE "FAIL"]
  <2>1. MintsAsProposed(w)
    BY <1>1 DEF MintsAsProposed, Work
  <2>2. work' = [work EXCEPT ![h] = Idle] \/ work' = [work EXCEPT ![h] = w]
    BY <1>6 DEF ReadPolicy, Proceed
  <2> HIDE DEF w
  <2> QED BY <1>1, <2>1, <2>2, IdleAsProposed, MovesAsProposed
<1>7. ASSUME NEW h \in Handler, NEW e \in Evidence, Record(h, e) PROVE EvidenceInv'
  <2> DEFINE w == [work[h] EXCEPT !.at = "request"]
  <2>1. MintsAsProposed(w)
    BY <1>1 DEF MintsAsProposed, Work
  <2>2. work' = [work EXCEPT ![h] = Idle] \/ work' = [work EXCEPT ![h] = w]
    BY <1>7 DEF Record, Proceed
  <2> HIDE DEF w
  <2> QED BY <1>1, <2>1, <2>2, IdleAsProposed, MovesAsProposed
<1>8. ASSUME NEW h \in Handler, NEW e \in Evidence, Revalidate(h, e) PROVE EvidenceInv'
  <2> DEFINE w == [work[h] EXCEPT !.at = "mint", !.evidence = e]
  <2>1. CASE Result(PrepareInput(work[h], e)) = "ALLOW"
    <3>1. AsProposed(e)
      BY <1>1, <2>1, AllowedEvidence
    <3>2. w.evidence = e
      BY <1>1 DEF Work
    <3>3. work' = [work EXCEPT ![h] = w]
      BY <1>8, <2>1 DEF Revalidate, Proceed
    <3> HIDE DEF w
    <3>4. MintsAsProposed(w)
      BY <3>1, <3>2 DEF MintsAsProposed
    <3> QED BY <1>1, <3>3, <3>4, MovesAsProposed
  <2>2. CASE Result(PrepareInput(work[h], e)) # "ALLOW"
    <3>1. work' = [work EXCEPT ![h] = Idle]
      BY <1>8, <2>2 DEF Revalidate, Proceed
    <3> QED BY <1>1, <3>1, IdleAsProposed, MovesAsProposed
  <2> QED BY <2>1, <2>2
<1>9. ASSUME NEW h \in Handler, RequestApproval(h) \/ End(h) PROVE EvidenceInv'
  <2>1. work' = [work EXCEPT ![h] = Idle]
    BY <1>9 DEF RequestApproval, End, Proceed
  <2> QED BY <1>1, <2>1, IdleAsProposed, MovesAsProposed
<1> QED
  BY <1>2, <1>3, <1>5, <1>6, <1>7, <1>8, <1>9 DEF Next, Govern, Answer, vars

(* An execution is allowed only of the transfer proposed, on its network,  *)
(* of the transaction that was simulated, and with no failure foretold     *)
(* (transaction-gate.ts:92-234, final-revalidation.service.ts:177-252),     *)
(* whatever evidence the callers send along.                               *)
THEOREM AllowedOnlyAsProposed == Spec => []AllowedAsProposed
<1>1. Init => EvidenceInv
  BY IdleAsProposed DEF Init, EvidenceInv
<1>2. EvidenceInv => AllowedAsProposed
  BY DEF EvidenceInv, MintsAsProposed, AsProposed, AllowedAsProposed
<1> QED BY <1>1, <1>2, InitInv, StepInv, EvidenceStep, PTL DEF Spec
=============================================================================
