------------------------- MODULE Delegation_proofs --------------------------
(***************************************************************************)
(* Proofs about an agent's constitutions and capabilities, for any number  *)
(* of calls, rows, dimensions, requests and rules.                         *)
(***************************************************************************)
EXTENDS Delegation, TLAPS

(* What a call under way relies on still holds, and a revocation has found *)
(* every child that lives and was not being created meanwhile.             *)
Granted(a, v) ==
    v # 0 => versions[v].status # "DRAFT" /\ WithinConstitution(a, versions[v].rules)

DraftOK(h) == work[h].at = "draft" => work[h].id \in Version /\ work[h].id <= Len(versions) + 1
AskOK(h) ==
    work[h].at \in {"parent", "insert"} =>
        /\ work[h].id \in 0 .. Len(caps)
        /\ work[h].under \in 0 .. Len(versions)
        /\ Granted(work[h].ask, work[h].under)
ParentOK(h) ==
    /\ work[h].at = "parent" => work[h].id # 0
    /\ work[h].at = "insert" /\ work[h].id # 0 => WithinParent(work[h].ask, caps[work[h].id].may)
RevokeOK(h) ==
    work[h].at = "revoke" =>
        /\ work[h].id \in DOMAIN caps /\ work[h].found \subseteq DOMAIN caps
        /\ \A k \in DOMAIN caps :
              caps[k].parent = work[h].id /\ Live(k) /\ caps[k].raced = "no" => k \in work[h].found
ActivateOK(h) ==
    work[h].at = "activate" =>
        work[h].id \in DOMAIN versions /\ work[h].found \subseteq DOMAIN versions
HandlerOK(h) == DraftOK(h) /\ AskOK(h) /\ ParentOK(h) /\ RevokeOK(h) /\ ActivateOK(h)

(* A row is within each of its ancestors, was granted lawfully, and does   *)
(* not live on under a parent revoked by name unless it raced with that.   *)
RowOK(c) ==
    /\ \A a \in caps[c].line :
          /\ LimitWithinParent(caps[c].may.until, caps[a].may.until)
          /\ \A use \in Sample : Permits(caps[c].may, use) => Permits(caps[a].may, use)
    /\ caps[c].under \in 0 .. Len(versions) /\ Granted(caps[c].may, caps[c].under)
    /\ Live(c) /\ caps[c].parent \in named => caps[c].raced = "yes"

(* Without overlap one activation at a time, which has found what is in    *)
(* force.                                                                  *)
Activating == {h \in Handler : work[h].at = "activate"}
InForceOK ==
    overlapped = "no" =>
        /\ \A v \in DOMAIN versions : Active(v) <=> v = current
        /\ \A g, h \in Activating : g = h
        /\ \A h \in Activating : work[h].found = {v \in DOMAIN versions : v = current}

Inv == TypeOK /\ (\A h \in Handler : HandlerOK(h)) /\ (\A c \in DOMAIN caps : RowOK(c)) /\ InForceOK

-----------------------------------------------------------------------------
(* The data. *)

(* Containment in the parent is containment of what is permitted.          *)
LEMMA WithinPermits ==
    ASSUME NEW a \in Request, NEW b \in Request, WithinParent(a, b), NEW use \in Sample,
           Permits(a, use)
    PROVE  Permits(b, use)
<1>1. /\ a \in Authority /\ b \in Authority /\ use \in Use
  BY RequestType, SampleType
<1>2. use.action = b.action
  BY DEF WithinParent, Permits
<1>3. \A p \in Pin : b.pins[p] \in {Unbound, use.pins[p]}
  <2> TAKE p \in Pin
  <2>1. use.pins[p] \in Value /\ Unbound \notin Value
    BY <1>1, KnownDimensions DEF Use
  <2>2. a.pins[p] \in {Unbound, use.pins[p]} /\ b.pins[p] \in {Unbound, a.pins[p]}
    BY DEF WithinParent, Permits
  <2> QED
    BY <2>1, <2>2
<1>4. \A s \in Scope : b.scopes[s] = {} \/ use.scopes[s] \in b.scopes[s]
  BY DEF WithinParent, Permits, ScopeWithinParent
<1>5. \A d \in Period : Within(use.amounts[d], b.limits[d])
  <2> TAKE d \in Period
  <2>1. /\ a.limits[d] \in Nat \cup {Unbound} /\ b.limits[d] \in Nat \cup {Unbound}
        /\ use.amounts[d] \in Nat /\ Unbound \notin Nat
    BY <1>1, KnownDimensions DEF Authority, Amount, Use
  <2>2. Within(use.amounts[d], a.limits[d]) /\ LimitWithinParent(a.limits[d], b.limits[d])
    BY DEF WithinParent, Permits
  <2> QED
    BY <2>1, <2>2 DEF Within, LimitWithinParent
<1>6. b.until = Unbound \/ use.time < b.until
  <2>1. /\ a.until \in Nat \cup {Unbound} /\ b.until \in Nat \cup {Unbound}
        /\ use.time \in Nat /\ Unbound \notin Nat
    BY <1>1, KnownDimensions DEF Authority, Amount, Use
  <2>2. (a.until = Unbound \/ use.time < a.until) /\ LimitWithinParent(a.until, b.until)
    BY DEF WithinParent, Permits
  <2> QED
    BY <2>1, <2>2 DEF LimitWithinParent
<1> QED
  BY <1>2, <1>3, <1>4, <1>5, <1>6 DEF Permits

(* Limits are contained transitively.                                      *)
LEMMA LimitsNest ==
    ASSUME NEW x \in Amount, NEW y \in Amount, NEW z \in Amount,
           LimitWithinParent(x, y), LimitWithinParent(y, z)
    PROVE  LimitWithinParent(x, z)
  BY KnownDimensions DEF Amount, LimitWithinParent

(* What was compared with a constitution permits what is lawful under it.  *)
LEMMA GrantedIsLawful ==
    ASSUME NEW a \in Request, NEW rules \in Config, WithinConstitution(a, rules),
           NEW use \in Sample, Permits(a, use)
    PROVE  Lawful(a, use, rules)
<1>1. /\ a \in Authority /\ use \in Use /\ rules \in Rules
  BY RequestType, SampleType, ConfigType
<1>2. use.action \in rules.allowed \ rules.blocked
  BY DEF WithinConstitution, Permits
<1>3. \A p \in Pin : a.pins[p] = Unbound \/ rules.pins[p] = {} \/ use.pins[p] \in rules.pins[p]
  <2> TAKE p \in Pin
  <2>1. a.pins[p] \in {Unbound} \cup rules.pins[p] \/ rules.pins[p] = {}
    BY DEF WithinConstitution
  <2>2. a.pins[p] \in {Unbound, use.pins[p]}
    BY DEF Permits
  <2> QED
    BY <2>1, <2>2
<1>4. \/ a.scopes[Category] = {} \/ rules.items = {} \/ use.scopes[Category] \in rules.items
  BY KnownDimensions DEF WithinConstitution, Permits
<1>5. a.limits[Single] = Unbound \/ Within(use.amounts[Single], rules.limit)
  <2>1. /\ a.limits[Single] \in Nat \cup {Unbound} /\ rules.limit \in Nat \cup {Unbound}
        /\ use.amounts[Single] \in Nat /\ Unbound \notin Nat
    BY <1>1, KnownDimensions DEF Authority, Amount, Use, Rules
  <2>2. /\ Within(use.amounts[Single], a.limits[Single])
        /\ {rules.limit, a.limits[Single]} \subseteq Nat => a.limits[Single] <= rules.limit
    BY KnownDimensions DEF WithinConstitution, Permits
  <2> QED
    BY <2>1, <2>2 DEF Within
<1> QED
  BY <1>2, <1>3, <1>4, <1>5 DEF Lawful

-----------------------------------------------------------------------------
(* Types. *)

VersionRow == [status: {"DRAFT", "ACTIVE", "SUPERSEDED"}, rules: Config]
Work == [at: Stage, id: Nat, ask: Request, under: 0 .. MaxVersion, found: SUBSET (Cap \cup Version)]

LEMMA IdleType == Idle \in Work
<1>1. (CHOOSE a \in Request : TRUE) \in Request
  BY RequestType
<1> QED
  BY <1>1, BoundsType DEF Idle, Work, Stage

LEMMA WorkType ==
    ASSUME work \in [Handler -> Work], NEW h \in Handler, NEW w \in Work, Goto(h, w)
    PROVE  /\ work' \in [Handler -> Work] /\ work'[h] = w
           /\ \A g \in Handler \ {h} : work'[g] = work[g]
  BY DEF Goto

LEMMA InitInv == Init => Inv
<1> SUFFICES ASSUME Init PROVE Inv
  OBVIOUS
<1>1. TypeOK
  <2>1. work \in [Handler -> Work]
    BY IdleType DEF Init
  <2> QED
    BY <2>1, BoundsType DEF Init, TypeOK, Work
<1>2. \A h \in Handler : work[h].at = "idle"
  BY DEF Init, Idle
<1>3. \A h \in Handler : HandlerOK(h)
  BY <1>2 DEF HandlerOK, DraftOK, AskOK, ParentOK, RevokeOK, ActivateOK
<1>4. Activating = {} /\ DOMAIN caps = {} /\ DOMAIN versions = {}
  BY <1>2 DEF Activating, Init
<1>5. InForceOK
  BY <1>4 DEF InForceOK
<1> QED
  BY <1>1, <1>3, <1>4, <1>5 DEF Inv

(* The rows that WithStatus leaves.                                        *)
LEMMA WithStatusRows ==
    ASSUME TypeOK, NEW rows, NEW s \in {"EXPIRED", "REVOKED"}, caps' = WithStatus(rows, s)
    PROVE  /\ caps' \in Seq(CapRow) /\ Len(caps') = Len(caps) /\ DOMAIN caps' = DOMAIN caps
           /\ \A k \in DOMAIN caps :
                 /\ caps'[k].parent = caps[k].parent /\ caps'[k].may = caps[k].may
                 /\ caps'[k].under = caps[k].under /\ caps'[k].line = caps[k].line
                 /\ caps'[k].raced = caps[k].raced /\ caps'[k].from = caps[k].from
                 /\ caps'[k].status = IF k \in rows THEN s ELSE caps[k].status
<1>1. caps \in Seq(CapRow) /\ DOMAIN caps = 1 .. Len(caps) /\ Len(caps) \in Nat
  BY DEF TypeOK
<1>2. ASSUME NEW k \in DOMAIN caps
      PROVE  /\ caps'[k] \in CapRow
             /\ caps'[k].parent = caps[k].parent /\ caps'[k].may = caps[k].may
             /\ caps'[k].under = caps[k].under /\ caps'[k].line = caps[k].line
             /\ caps'[k].raced = caps[k].raced /\ caps'[k].from = caps[k].from
             /\ caps'[k].status = IF k \in rows THEN s ELSE caps[k].status
  <2>1. PICK r \in CapRow : r = caps[k]
    BY <1>1
  <2>2. caps'[k] = [r EXCEPT !.status = IF k \in rows THEN s ELSE @]
    BY <1>2, <2>1 DEF WithStatus
  <2> QED
    BY <2>1, <2>2 DEF CapRow
<1>3. DOMAIN caps' = 1 .. Len(caps) /\ caps' = [k \in 1 .. Len(caps) |-> caps'[k]]
  BY <1>1 DEF WithStatus
<1>4. caps' \in [1 .. Len(caps) -> CapRow]
  BY <1>1, <1>2, <1>3
<1>5. caps' \in Seq(CapRow) /\ Len(caps') = Len(caps)
  BY <1>1, <1>4
<1> QED
  BY <1>1, <1>2, <1>3, <1>5

-----------------------------------------------------------------------------
(* Rows are only added, their authority never changes, and no status       *)
(* becomes ACTIVE or DRAFT again where that matters.                       *)
VersionsGrow ==
    /\ Len(versions) <= Len(versions')
    /\ \A v \in DOMAIN versions :
          /\ versions'[v].rules = versions[v].rules
          /\ versions[v].status # "DRAFT" => versions'[v].status # "DRAFT"

CapsGrow ==
    /\ Len(caps) <= Len(caps')
    /\ \A c \in DOMAIN caps :
          /\ caps'[c].parent = caps[c].parent /\ caps'[c].may = caps[c].may
          /\ caps'[c].under = caps[c].under /\ caps'[c].line = caps[c].line
          /\ caps'[c].raced = caps[c].raced
          /\ caps'[c].status = "ACTIVE" => caps[c].status = "ACTIVE"

(* A new row whose parent a call is revoking is marked.                    *)
NewMarked(h) ==
    \A k \in DOMAIN caps' \ DOMAIN caps :
        work[h].at = "revoke" /\ caps'[k].parent = work[h].id => caps'[k].raced = "yes"

LEMMA GrantedKeeps ==
    ASSUME TypeOK, TypeOK', VersionsGrow, NEW a, NEW v \in 0 .. Len(versions), Granted(a, v)
    PROVE  Granted(a, v)' /\ v \in 0 .. Len(versions')
<1>1. Len(versions) \in Nat /\ Len(versions') \in Nat /\ DOMAIN versions = 1 .. Len(versions)
  BY DEF TypeOK
<1>2. v \in 0 .. Len(versions')
  BY <1>1 DEF VersionsGrow
<1>3. ASSUME v # 0 PROVE versions'[v].status # "DRAFT" /\ WithinConstitution(a, versions'[v].rules)
  <2>1. v \in DOMAIN versions
    BY <1>1, <1>3
  <2>2. versions[v].status # "DRAFT" /\ WithinConstitution(a, versions[v].rules)
    BY <1>3 DEF Granted
  <2>3. versions'[v].rules = versions[v].rules /\ versions'[v].status # "DRAFT"
    BY <2>1, <2>2 DEF VersionsGrow
  <2> QED
    BY <2>2, <2>3
<1> QED
  BY <1>2, <1>3 DEF Granted

LEMMA HandlerKeeps ==
    ASSUME TypeOK, TypeOK', VersionsGrow, CapsGrow, NEW h \in Handler, NewMarked(h),
           HandlerOK(h), work'[h] = work[h]
    PROVE  HandlerOK(h)'
<1>1. /\ Len(versions) \in Nat /\ Len(versions') \in Nat /\ DOMAIN versions = 1 .. Len(versions)
      /\ DOMAIN versions' = 1 .. Len(versions')
      /\ Len(caps) \in Nat /\ Len(caps') \in Nat /\ DOMAIN caps = 1 .. Len(caps)
      /\ DOMAIN caps' = 1 .. Len(caps')
  BY DEF TypeOK
<1>2. DOMAIN versions \subseteq DOMAIN versions' /\ DOMAIN caps \subseteq DOMAIN caps'
  BY <1>1 DEF VersionsGrow, CapsGrow
<1>3. DraftOK(h)'
  <2>1. ASSUME work[h].at = "draft" PROVE work[h].id \in Version /\ work[h].id <= Len(versions') + 1
    <3>1. work[h].id \in Version /\ work[h].id <= Len(versions) + 1
      BY <2>1 DEF HandlerOK, DraftOK
    <3> QED
      BY <1>1, <3>1 DEF VersionsGrow, Version
  <2> QED
    BY <2>1 DEF DraftOK
<1>4. AskOK(h)'
  <2>1. ASSUME work[h].at \in {"parent", "insert"}
        PROVE  /\ work[h].id \in 0 .. Len(caps')
               /\ work[h].under \in 0 .. Len(versions')
               /\ Granted(work[h].ask, work[h].under)'
    <3>1. /\ work[h].id \in 0 .. Len(caps) /\ work[h].under \in 0 .. Len(versions)
          /\ Granted(work[h].ask, work[h].under)
      BY <2>1 DEF HandlerOK, AskOK
    <3>2. work[h].id \in 0 .. Len(caps')
      BY <1>1, <3>1 DEF CapsGrow
    <3>3. PICK a, v : a = work[h].ask /\ v = work[h].under
      OBVIOUS
    <3>4. Granted(a, v)' /\ v \in 0 .. Len(versions')
      BY <3>1, <3>3, GrantedKeeps
    <3> QED
      BY <3>2, <3>3, <3>4 DEF Granted
  <2> QED
    BY <2>1 DEF AskOK, Granted
<1>5. ParentOK(h)'
  <2>1. ASSUME work[h].at = "insert", work[h].id # 0
        PROVE  WithinParent(work[h].ask, caps'[work[h].id].may)
    <3>1. work[h].id \in 0 .. Len(caps) /\ WithinParent(work[h].ask, caps[work[h].id].may)
      BY <2>1 DEF HandlerOK, AskOK, ParentOK
    <3>2. work[h].id \in DOMAIN caps
      BY <1>1, <2>1, <3>1
    <3> QED
      BY <3>1, <3>2 DEF CapsGrow
  <2> QED
    BY <2>1 DEF HandlerOK, ParentOK
<1>6. RevokeOK(h)'
  <2>1. ASSUME work[h].at = "revoke"
        PROVE  /\ work[h].id \in DOMAIN caps' /\ work[h].found \subseteq DOMAIN caps'
               /\ \A k \in DOMAIN caps' :
                     caps'[k].parent = work[h].id /\ caps'[k].status = "ACTIVE"
                     /\ caps'[k].raced = "no" => k \in work[h].found
    <3>1. work[h].id \in DOMAIN caps /\ work[h].found \subseteq DOMAIN caps
      BY <2>1 DEF HandlerOK, RevokeOK
    <3>2. ASSUME NEW k \in DOMAIN caps', caps'[k].parent = work[h].id,
                 caps'[k].status = "ACTIVE", caps'[k].raced = "no"
          PROVE  k \in work[h].found
      <4>1. k \in DOMAIN caps
        BY <2>1, <3>2 DEF NewMarked
      <4>2. caps[k].parent = work[h].id /\ Live(k) /\ caps[k].raced = "no"
        BY <3>2, <4>1 DEF CapsGrow, Live
      <4> QED
        BY <2>1, <4>1, <4>2 DEF HandlerOK, RevokeOK
    <3> QED
      BY <1>2, <3>1, <3>2
  <2> QED
    BY <2>1 DEF RevokeOK, Live
<1>7. ActivateOK(h)'
  BY <1>2 DEF HandlerOK, ActivateOK
<1> QED
  BY <1>3, <1>4, <1>5, <1>6, <1>7 DEF HandlerOK

(* A row that was there keeps what is said of it, while no parent of a     *)
(* live unmarked row is newly revoked by name.                             *)
LEMMA RowKeeps ==
    ASSUME TypeOK, TypeOK', VersionsGrow, CapsGrow, NEW c \in DOMAIN caps, RowOK(c),
           caps'[c].status = "ACTIVE" /\ caps[c].parent \in named' \ named => caps[c].raced = "yes"
    PROVE  RowOK(c)'
<1>1. /\ Len(caps) \in Nat /\ DOMAIN caps = 1 .. Len(caps)
      /\ caps[c].line \subseteq 1 .. c - 1 /\ c \in Nat
  BY DEF TypeOK
<1>2. caps[c].line \subseteq DOMAIN caps
  BY <1>1
<1>3. \A a \in caps'[c].line :
          /\ LimitWithinParent(caps'[c].may.until, caps'[a].may.until)
          /\ \A use \in Sample : Permits(caps'[c].may, use) => Permits(caps'[a].may, use)
  <2> TAKE a \in caps'[c].line
  <2>1. a \in caps[c].line /\ a \in DOMAIN caps
    BY <1>2 DEF CapsGrow
  <2>2. caps'[a].may = caps[a].may /\ caps'[c].may = caps[c].may
    BY <2>1 DEF CapsGrow
  <2> QED
    BY <2>1, <2>2 DEF RowOK
<1>4. caps'[c].under \in 0 .. Len(versions') /\ Granted(caps[c].may, caps[c].under)'
  <2>1. PICK a, v : a = caps[c].may /\ v = caps[c].under
    OBVIOUS
  <2>2. Granted(a, v)' /\ v \in 0 .. Len(versions')
    BY <2>1, GrantedKeeps DEF RowOK
  <2>3. caps'[c].may = a /\ caps'[c].under = v
    BY <2>1 DEF CapsGrow
  <2> QED
    BY <2>2, <2>3 DEF Granted
<1>5. Live(c)' /\ caps'[c].parent \in named' => caps'[c].raced = "yes"
  <2>1. /\ caps'[c].parent = caps[c].parent /\ caps'[c].raced = caps[c].raced
        /\ Live(c)' => Live(c)
    BY DEF CapsGrow, Live
  <2> QED
    BY <2>1 DEF RowOK, Live
<1> QED
  BY <1>3, <1>4, <1>5 DEF RowOK, Granted

-----------------------------------------------------------------------------
(* Steps that add or change no row.                                        *)

LEMMA Aside ==
    ASSUME Inv, UNCHANGED <<caps, versions, current, now, named, overlapped>>,
           NEW h \in Handler, NEW w \in Work, Goto(h, w), HandlerOK(h)', w.at # "activate"
    PROVE  Inv'
<1>0. /\ TypeOK /\ InForceOK /\ work \in [Handler -> Work]
      /\ \A g \in Handler : HandlerOK(g)
      /\ \A c \in DOMAIN caps : RowOK(c)
  BY DEF Inv, TypeOK, Work
<1>1. /\ work' \in [Handler -> Work] /\ work'[h] = w
      /\ \A g \in Handler \ {h} : work'[g] = work[g]
  BY <1>0, WorkType
<1>2. TypeOK'
  BY <1>0, <1>1 DEF TypeOK, Work
<1>3. VersionsGrow /\ CapsGrow /\ \A g \in Handler : NewMarked(g)
  <2>1. Len(caps) \in Nat /\ Len(versions) \in Nat
    BY <1>0 DEF TypeOK
  <2> QED
    BY <2>1 DEF VersionsGrow, CapsGrow, NewMarked
<1>4. ASSUME NEW g \in Handler PROVE HandlerOK(g)'
  <2>1. CASE g = h
    BY <2>1
  <2>2. CASE g # h
    BY <2>2, <1>0, <1>1, <1>2, <1>3, HandlerKeeps
  <2> QED
    BY <2>1, <2>2
<1>5. ASSUME NEW c \in DOMAIN caps' PROVE RowOK(c)'
  BY <1>0, <1>2, <1>3, RowKeeps
<1>6. InForceOK'
  <2>1. Activating' \subseteq Activating
    BY <1>1 DEF Activating
  <2>2. \A g \in Activating' : work'[g] = work[g]
    BY <1>1 DEF Activating
  <2> QED
    BY <2>1, <2>2, <1>0 DEF InForceOK, Active
<1> QED
  BY <1>2, <1>4, <1>5, <1>6 DEF Inv

LEMMA IdleHandler ==
    ASSUME NEW h \in Handler, work'[h] = Idle
    PROVE  HandlerOK(h)'
<1>1. work'[h].at = "idle"
  BY DEF Idle
<1> QED
  BY <1>1 DEF HandlerOK, DraftOK, AskOK, ParentOK, RevokeOK, ActivateOK

LEMMA ReadLatestStep == ASSUME Inv, NEW h \in Handler, ReadLatest(h) PROVE Inv'
<1>i. PICK u \in Work : u = Idle
  BY IdleType
<1> DEFINE w == [u EXCEPT !.at = "draft", !.id = Len(versions) + 1]
<1>0. TypeOK /\ work \in [Handler -> Work] /\ Len(versions) \in Nat
  BY DEF Inv, TypeOK, Work
<1>1. w \in Work /\ w.at = "draft" /\ w.id = Len(versions) + 1
  <2>1. PICK n \in Nat : n = Len(versions) + 1
    BY <1>0
  <2>2. w = [u EXCEPT !.at = "draft", !.id = n]
    BY <2>1
  <2>3. w \in Work /\ w.at = "draft" /\ w.id = n
    BY <2>2 DEF Work, Stage
  <2> QED
    BY <2>1, <2>3
<1>2. Goto(h, w) /\ UNCHANGED <<caps, versions, current, now, named, overlapped>>
      /\ Len(versions) < MaxVersion
  BY <1>i DEF ReadLatest
<1> HIDE DEF w
<1>3. work'[h] = w
  BY <1>0, <1>1, <1>2, WorkType
<1>4. HandlerOK(h)'
  <2>1. work'[h].id \in Version /\ work'[h].id <= Len(versions') + 1
    BY <1>0, <1>1, <1>2, <1>3, BoundsType DEF Version
  <2> QED
    BY <2>1, <1>1, <1>3 DEF HandlerOK, DraftOK, AskOK, ParentOK, RevokeOK, ActivateOK
<1> QED
  BY <1>1, <1>2, <1>4, Aside

LEMMA ReadConstitutionStep ==
    ASSUME Inv, NEW h \in Handler, NEW a \in Request, NEW parent \in {0} \cup DOMAIN caps,
           ReadConstitution(h, a, parent)
    PROVE  Inv'
<1>0. /\ TypeOK /\ work \in [Handler -> Work] /\ Len(versions) \in Nat /\ Len(caps) \in Nat
      /\ DOMAIN caps = 1 .. Len(caps) /\ DOMAIN versions = 1 .. Len(versions)
      /\ Len(versions) <= MaxVersion
  BY DEF Inv, TypeOK, Work
<1>1. PICK v \in Version \cup {0} :
         /\ \/ v \in DOMAIN versions /\ Active(v) /\ WithinConstitution(a, versions[v].rules)
            \/ v = 0
         /\ Goto(h, [at |-> IF parent = 0 THEN "insert" ELSE "parent",
                     id |-> parent, ask |-> a, under |-> v, found |-> {}])
  BY DEF ReadConstitution
<1> DEFINE w == [at |-> IF parent = 0 THEN "insert" ELSE "parent",
                 id |-> parent, ask |-> a, under |-> v, found |-> {}]
<1>2. /\ w \in Work /\ w.at = (IF parent = 0 THEN "insert" ELSE "parent") /\ w.id = parent
      /\ w.ask = a /\ w.under = v
  BY <1>0, BoundsType DEF Work, Stage, Version
<1>3. Goto(h, w) /\ UNCHANGED <<caps, versions, current, now, named, overlapped>>
  BY <1>1 DEF ReadConstitution
<1> HIDE DEF w
<1>4. work'[h] = w
  BY <1>0, <1>2, <1>3, WorkType
<1>5. v \in 0 .. Len(versions) /\ Granted(a, v)
  BY <1>0, <1>1 DEF Granted, Active
<1>6. HandlerOK(h)'
  <2>1. AskOK(h)'
    BY <1>0, <1>2, <1>3, <1>4, <1>5 DEF AskOK, Granted
  <2>2. ParentOK(h)'
    BY <1>2, <1>4 DEF ParentOK
  <2> QED
    BY <2>1, <2>2, <1>2, <1>4 DEF HandlerOK, DraftOK, RevokeOK, ActivateOK
<1> QED
  BY <1>2, <1>3, <1>6, Aside

LEMMA ReadParentStep == ASSUME Inv, NEW h \in Handler, ReadParent(h) PROVE Inv'
<1>0. /\ TypeOK /\ work \in [Handler -> Work] /\ HandlerOK(h)
      /\ UNCHANGED <<caps, versions, current, now, named, overlapped>>
      /\ work[h].at = "parent"
  BY DEF Inv, TypeOK, Work, ReadParent
<1>1. CASE Goto(h, Idle)
  <2>1. work'[h] = Idle
    BY <1>0, <1>1, IdleType, WorkType
  <2>2. HandlerOK(h)'
    BY <2>1, IdleHandler
  <2>3. Idle.at # "activate"
    BY DEF Idle
  <2> QED
    BY <1>0, <1>1, <2>2, <2>3, IdleType, Aside
<1>2. CASE /\ WithinParent(work[h].ask, caps[work[h].id].may)
           /\ Goto(h, [work[h] EXCEPT !.at = "insert"])
  <2>1. PICK u \in Work : u = work[h]
    BY <1>0
  <2> DEFINE w == [u EXCEPT !.at = "insert"]
  <2>2. /\ w \in Work /\ w.at = "insert" /\ w.id = u.id /\ w.ask = u.ask /\ w.under = u.under
    BY DEF Work, Stage
  <2>3. Goto(h, w)
    BY <1>2, <2>1
  <2> HIDE DEF w
  <2>4. work'[h] = w
    BY <1>0, <2>2, <2>3, WorkType
  <2>5. AskOK(h)'
    BY <1>0, <2>1, <2>2, <2>4 DEF HandlerOK, AskOK, Granted
  <2>6. ParentOK(h)'
    BY <1>0, <1>2, <2>1, <2>2, <2>4 DEF ParentOK
  <2>7. HandlerOK(h)'
    BY <2>2, <2>4, <2>5, <2>6 DEF HandlerOK, DraftOK, RevokeOK, ActivateOK
  <2> QED
    BY <1>0, <2>2, <2>3, <2>7, Aside
<1> QED
  BY <1>1, <1>2 DEF ReadParent

LEMMA BeginRevokeStep ==
    ASSUME Inv, NEW h \in Handler, NEW c \in DOMAIN caps, BeginRevoke(h, c) PROVE Inv'
<1>0. /\ TypeOK /\ work \in [Handler -> Work] /\ Len(caps) \in Nat /\ Len(caps) <= MaxCaps
      /\ DOMAIN caps = 1 .. Len(caps)
      /\ UNCHANGED <<caps, versions, current, now, named, overlapped>>
  BY DEF Inv, TypeOK, Work, BeginRevoke
<1>i. PICK u \in Work : u = Idle
  BY IdleType
<1> DEFINE w == [u EXCEPT !.at = "revoke", !.id = c, !.found = Cascade(c)]
<1>1. Cascade(c) \subseteq DOMAIN caps /\ DOMAIN caps \subseteq Cap
  BY <1>0, BoundsType DEF Cascade, Cap
<1>2. w \in Work /\ w.at = "revoke" /\ w.id = c /\ w.found = Cascade(c)
  <2>1. Cascade(c) \in SUBSET (Cap \cup Version) /\ c \in Nat
    BY <1>0, <1>1
  <2> QED
    BY <2>1 DEF Work, Stage
<1>3. Goto(h, w)
  BY <1>i DEF BeginRevoke
<1> HIDE DEF w
<1>4. work'[h] = w
  BY <1>0, <1>2, <1>3, WorkType
<1>5. RevokeOK(h)'
  BY <1>0, <1>1, <1>2, <1>4 DEF RevokeOK, Cascade, Live
<1>6. HandlerOK(h)'
  BY <1>2, <1>4, <1>5 DEF HandlerOK, DraftOK, AskOK, ParentOK, ActivateOK
<1> QED
  BY <1>0, <1>2, <1>3, <1>6, Aside

LEMMA DieStep == ASSUME Inv, NEW h \in Handler, Die(h) PROVE Inv'
<1>0. /\ work \in [Handler -> Work] /\ Goto(h, Idle) /\ Idle.at # "activate"
      /\ UNCHANGED <<caps, versions, current, now, named, overlapped>>
  BY DEF Inv, TypeOK, Work, Die, Idle
<1>1. HandlerOK(h)'
  BY <1>0, IdleType, WorkType, IdleHandler
<1> QED
  BY <1>0, <1>1, IdleType, Aside

-----------------------------------------------------------------------------
(* Steps of the constitution. *)

LEMMA InsertDraftStep == ASSUME Inv, NEW h \in Handler, InsertDraft(h) PROVE Inv'
<1>0. /\ TypeOK /\ InForceOK /\ work \in [Handler -> Work] /\ HandlerOK(h)
      /\ \A g \in Handler : HandlerOK(g)
      /\ \A c \in DOMAIN caps : RowOK(c)
      /\ UNCHANGED <<caps, current, now, named, overlapped>>
      /\ Goto(h, Idle) /\ work[h].at = "draft" /\ Idle.at = "idle"
  BY DEF Inv, TypeOK, Work, InsertDraft, Idle
<1>1. /\ work' \in [Handler -> Work] /\ work'[h] = Idle
      /\ \A g \in Handler \ {h} : work'[g] = work[g]
  BY <1>0, IdleType, WorkType
<1>2. /\ Len(versions) \in Nat /\ DOMAIN versions = 1 .. Len(versions)
      /\ versions \in Seq(VersionRow) /\ Len(versions) <= MaxVersion
      /\ current \in 0 .. Len(versions)
  BY <1>0 DEF TypeOK, VersionRow
<1>3. CASE UNCHANGED versions
  <2>1. UNCHANGED <<caps, versions, current, now, named, overlapped>> /\ HandlerOK(h)'
    BY <1>0, <1>1, <1>3, IdleHandler
  <2> QED
    BY <1>0, <2>1, IdleType, Aside
<1>4. CASE Unique(work[h].id)
           /\ \E rules \in Config :
                 versions' = Append(versions, [status |-> "DRAFT", rules |-> rules])
  <2>1. PICK row \in VersionRow : versions' = Append(versions, row) /\ row.status = "DRAFT"
    BY <1>4 DEF VersionRow
  <2>2. work[h].id = Len(versions) + 1 /\ work[h].id \in Version
    BY <1>0, <1>2, <1>4 DEF HandlerOK, DraftOK, Unique, Version
  <2>3. /\ versions' \in Seq(VersionRow) /\ Len(versions') = Len(versions) + 1
        /\ \A v \in 1 .. Len(versions) : versions'[v] = versions[v]
        /\ versions'[Len(versions) + 1] = row
    BY <1>2, <2>1
  <2>4. /\ Len(versions') <= MaxVersion /\ current' \in 0 .. Len(versions')
        /\ DOMAIN versions' = 1 .. Len(versions')
    BY <1>0, <1>2, <2>2, <2>3, BoundsType DEF Version
  <2>5. TypeOK'
    BY <1>0, <1>1, <2>3, <2>4 DEF TypeOK, Work, VersionRow
  <2>6. VersionsGrow /\ CapsGrow /\ \A g \in Handler : NewMarked(g)
    <3>1. Len(caps) \in Nat
      BY <1>0 DEF TypeOK
    <3>2. VersionsGrow
      BY <1>2, <2>3 DEF VersionsGrow
    <3> QED
      BY <1>0, <3>1, <3>2 DEF CapsGrow, NewMarked
  <2>7. ASSUME NEW g \in Handler PROVE HandlerOK(g)'
    <3>1. CASE g = h
      BY <1>1, <3>1, IdleHandler
    <3>2. CASE g # h
      BY <3>2, <1>0, <1>1, <2>5, <2>6, HandlerKeeps
    <3> QED
      BY <3>1, <3>2
  <2>8. ASSUME NEW c \in DOMAIN caps' PROVE RowOK(c)'
    BY <1>0, <2>5, <2>6, RowKeeps
  <2>9. InForceOK'
    <3>1. \A g \in Activating' : g \in Activating /\ work'[g] = work[g]
      BY <1>0, <1>1 DEF Activating
    <3>2. ASSUME overlapped = "no" PROVE \A v \in DOMAIN versions' : Active(v)' <=> v = current
      <4> TAKE v \in DOMAIN versions'
      <4>1. CASE v \in DOMAIN versions
        BY <1>0, <1>2, <2>3, <3>2, <4>1 DEF InForceOK, Active
      <4>2. CASE v = Len(versions) + 1
        <5>1. versions'[v].status = "DRAFT" /\ v # current
          BY <1>2, <2>1, <2>3, <4>2
        <5> QED
          BY <5>1 DEF Active
      <4> QED
        BY <1>2, <2>3, <2>4, <4>1, <4>2
    <3>3. ASSUME overlapped = "no", NEW g \in Activating'
          PROVE  work'[g].found = {v \in DOMAIN versions' : v = current}
      <4>1. work'[g].found = {v \in DOMAIN versions : v = current}
        BY <1>0, <3>1, <3>3 DEF InForceOK
      <4>2. \A v : (v \in DOMAIN versions /\ v = current) <=> (v \in DOMAIN versions' /\ v = current)
        BY <1>2, <2>3, <2>4
      <4> QED
        BY <4>1, <4>2
    <3> QED
      BY <1>0, <3>1, <3>2, <3>3 DEF InForceOK
  <2> QED
    BY <2>5, <2>7, <2>8, <2>9 DEF Inv
<1> QED
  BY <1>3, <1>4 DEF InsertDraft

LEMMA BeginActivateStep ==
    ASSUME Inv, NEW h \in Handler, NEW v \in DOMAIN versions, BeginActivate(h, v) PROVE Inv'
<1>0. /\ TypeOK /\ InForceOK /\ work \in [Handler -> Work] /\ HandlerOK(h)
      /\ \A g \in Handler : HandlerOK(g)
      /\ \A c \in DOMAIN caps : RowOK(c)
      /\ UNCHANGED <<caps, versions, current, now, named>>
      /\ work[h].at = "idle"
  BY DEF Inv, TypeOK, Work, BeginActivate, Free
<1>i. PICK u \in Work : u = Idle
  BY IdleType
<1> DEFINE w == [u EXCEPT !.at = "activate", !.id = v, !.found = Superseding]
<1>1. /\ Len(versions) \in Nat /\ DOMAIN versions = 1 .. Len(versions) /\ Len(versions) <= MaxVersion
      /\ DOMAIN versions \subseteq Version /\ Superseding \subseteq DOMAIN versions /\ v \in Nat
  BY <1>0, BoundsType DEF TypeOK, Superseding, Version
<1>2. w \in Work /\ w.at = "activate" /\ w.id = v /\ w.found = Superseding
  <2>1. Superseding \in SUBSET (Cap \cup Version)
    BY <1>1
  <2> QED
    BY <1>1, <2>1 DEF Work, Stage
<1>3. Goto(h, w)
  BY <1>i DEF BeginActivate
<1>4. overlapped' = IF \E g \in Handler : work[g].at = "activate" THEN "yes" ELSE overlapped
  BY DEF BeginActivate
<1> HIDE DEF w
<1>5. /\ work' \in [Handler -> Work] /\ work'[h] = w
      /\ \A g \in Handler \ {h} : work'[g] = work[g]
  BY <1>0, <1>2, <1>3, WorkType
<1>6. TypeOK'
  BY <1>0, <1>4, <1>5 DEF TypeOK, Work
<1>7. VersionsGrow /\ CapsGrow /\ \A g \in Handler : NewMarked(g)
  <2>1. Len(caps) \in Nat
    BY <1>0 DEF TypeOK
  <2> QED
    BY <1>0, <1>1, <2>1 DEF VersionsGrow, CapsGrow, NewMarked
<1>8. ASSUME NEW g \in Handler PROVE HandlerOK(g)'
  <2>1. CASE g = h
    BY <1>0, <1>1, <1>2, <1>5, <2>1
    DEF HandlerOK, DraftOK, AskOK, ParentOK, RevokeOK, ActivateOK
  <2>2. CASE g # h
    BY <2>2, <1>0, <1>5, <1>6, <1>7, HandlerKeeps
  <2> QED
    BY <2>1, <2>2
<1>9. ASSUME NEW c \in DOMAIN caps' PROVE RowOK(c)'
  BY <1>0, <1>6, <1>7, RowKeeps
<1>10. InForceOK'
  <2>1. SUFFICES ASSUME overlapped' = "no" PROVE InForceOK'
    BY DEF InForceOK
  <2>2. Activating = {} /\ overlapped = "no"
    BY <1>4, <2>1 DEF Activating
  <2>3. \A g \in Activating' : g = h
    BY <1>5, <2>2 DEF Activating
  <2>4. \A x \in DOMAIN versions : Active(x) <=> x = current
    BY <1>0, <2>2 DEF InForceOK
  <2>5. work'[h].found = {x \in DOMAIN versions : x = current}
    BY <1>2, <1>5, <2>4 DEF Superseding
  <2> QED
    BY <1>0, <2>3, <2>4, <2>5 DEF InForceOK, Active
<1> QED
  BY <1>6, <1>8, <1>9, <1>10 DEF Inv

LEMMA CommitActivateStep == ASSUME Inv, NEW h \in Handler, CommitActivate(h) PROVE Inv'
<1>0. /\ TypeOK /\ InForceOK /\ work \in [Handler -> Work] /\ HandlerOK(h)
      /\ \A g \in Handler : HandlerOK(g)
      /\ \A c \in DOMAIN caps : RowOK(c)
      /\ UNCHANGED <<caps, now, named, overlapped>>
      /\ Goto(h, Idle) /\ work[h].at = "activate" /\ Idle.at = "idle"
      /\ current' = work[h].id
  BY DEF Inv, TypeOK, Work, CommitActivate, Idle
<1>1. /\ work' \in [Handler -> Work] /\ work'[h] = Idle
      /\ \A g \in Handler \ {h} : work'[g] = work[g]
  BY <1>0, IdleType, WorkType
<1>2. /\ Len(versions) \in Nat /\ DOMAIN versions = 1 .. Len(versions)
      /\ versions \in Seq(VersionRow) /\ Len(versions) <= MaxVersion
      /\ work[h].id \in DOMAIN versions
  BY <1>0 DEF TypeOK, VersionRow, HandlerOK, ActivateOK
<1>3. /\ DOMAIN versions' = 1 .. Len(versions)
      /\ versions' = [v \in 1 .. Len(versions) |-> versions'[v]]
      /\ \A v \in DOMAIN versions :
            /\ versions'[v].rules = versions[v].rules
            /\ versions'[v].status = IF v = work[h].id THEN "ACTIVE"
                                     ELSE IF v \in work[h].found /\ Active(v) THEN "SUPERSEDED"
                                     ELSE versions[v].status
            /\ versions'[v] = [status |-> versions'[v].status, rules |-> versions'[v].rules]
  BY <1>2 DEF CommitActivate
<1>4. \A v \in 1 .. Len(versions) : versions'[v] \in VersionRow
  <2> TAKE v \in 1 .. Len(versions)
  <2>1. versions[v] \in VersionRow
    BY <1>2
  <2>2. versions'[v].status \in {"DRAFT", "ACTIVE", "SUPERSEDED"} /\ versions'[v].rules \in Config
    BY <1>2, <1>3, <2>1 DEF VersionRow
  <2>3. versions'[v] = [status |-> versions'[v].status, rules |-> versions'[v].rules]
    BY <1>2, <1>3
  <2> QED
    BY <2>2, <2>3 DEF VersionRow
<1>5. versions' \in [1 .. Len(versions) -> VersionRow]
  BY <1>3, <1>4
<1>6. versions' \in Seq(VersionRow) /\ Len(versions') = Len(versions)
  BY <1>2, <1>5
<1>7. TypeOK'
  <2>1. current' \in 0 .. Len(versions') /\ Len(versions') <= MaxVersion
    BY <1>0, <1>2, <1>6
  <2> QED
    BY <1>0, <1>1, <1>6, <2>1 DEF TypeOK, Work, VersionRow
<1>8. VersionsGrow /\ CapsGrow /\ \A g \in Handler : NewMarked(g)
  <2>1. Len(caps) \in Nat
    BY <1>0 DEF TypeOK
  <2>2. VersionsGrow
    BY <1>2, <1>3, <1>6 DEF VersionsGrow
  <2> QED
    BY <1>0, <2>1, <2>2 DEF CapsGrow, NewMarked
<1>9. ASSUME NEW g \in Handler PROVE HandlerOK(g)'
  <2>1. CASE g = h
    BY <1>1, <2>1, IdleHandler
  <2>2. CASE g # h
    BY <2>2, <1>0, <1>1, <1>7, <1>8, HandlerKeeps
  <2> QED
    BY <2>1, <2>2
<1>10. ASSUME NEW c \in DOMAIN caps' PROVE RowOK(c)'
  BY <1>0, <1>7, <1>8, RowKeeps
<1>11. InForceOK'
  <2>1. SUFFICES ASSUME overlapped' = "no" PROVE InForceOK'
    BY DEF InForceOK
  <2>2. /\ \A g, k \in Activating : g = k
        /\ work[h].found = {v \in DOMAIN versions : v = current}
        /\ \A v \in DOMAIN versions : Active(v) <=> v = current
    BY <1>0, <2>1 DEF InForceOK, Activating
  <2>3. Activating' = {}
    BY <1>0, <1>1, <2>2 DEF Activating
  <2>4. \A v \in DOMAIN versions' : Active(v)' <=> v = current'
    <3> TAKE v \in DOMAIN versions'
    <3>1. v \in DOMAIN versions
      BY <1>2, <1>3
    <3>2. CASE v = work[h].id
      BY <1>0, <1>3, <3>1, <3>2 DEF Active
    <3>3. CASE v # work[h].id /\ v = current
      BY <1>0, <1>3, <2>2, <3>1, <3>3 DEF Active
    <3>4. CASE v # work[h].id /\ v # current
      BY <1>0, <1>3, <2>2, <3>1, <3>4 DEF Active
    <3> QED
      BY <3>2, <3>3, <3>4
  <2> QED
    BY <2>3, <2>4 DEF InForceOK
<1> QED
  BY <1>7, <1>9, <1>10, <1>11 DEF Inv

-----------------------------------------------------------------------------
(* Steps of the capabilities. *)

(* The constitution is left alone.                                         *)
LEMMA InForceKeeps ==
    ASSUME InForceOK, UNCHANGED <<versions, current, overlapped>>, NEW h \in Handler,
           \A g \in Handler \ {h} : work'[g] = work[g], work'[h].at # "activate"
    PROVE  InForceOK'
<1>1. \A g \in Activating' : g \in Activating /\ work'[g] = work[g]
  BY DEF Activating
<1> QED
  BY <1>1 DEF InForceOK, Active

LEMMA CommitRevokeStep == ASSUME Inv, NEW h \in Handler, CommitRevoke(h) PROVE Inv'
<1>0. /\ TypeOK /\ InForceOK /\ work \in [Handler -> Work] /\ HandlerOK(h)
      /\ \A g \in Handler : HandlerOK(g)
      /\ \A c \in DOMAIN caps : RowOK(c)
      /\ UNCHANGED <<versions, current, now, overlapped>>
      /\ Goto(h, Idle) /\ work[h].at = "revoke" /\ Idle.at = "idle"
      /\ caps' = WithStatus(work[h].found \cup {work[h].id}, "REVOKED")
      /\ named' = named \cup {work[h].id}
      /\ work[h].id \in DOMAIN caps
  BY DEF Inv, TypeOK, Work, CommitRevoke, Idle, HandlerOK, RevokeOK
<1>1. /\ work' \in [Handler -> Work] /\ work'[h] = Idle
      /\ \A g \in Handler \ {h} : work'[g] = work[g]
  BY <1>0, IdleType, WorkType
<1>2. PICK rows : rows = work[h].found \cup {work[h].id}
  OBVIOUS
<1>r. TypeOK /\ caps' = WithStatus(rows, "REVOKED")
  BY <1>0, <1>2
<1>3. /\ caps' \in Seq(CapRow) /\ Len(caps') = Len(caps) /\ DOMAIN caps' = DOMAIN caps
      /\ \A k \in DOMAIN caps :
            /\ caps'[k].parent = caps[k].parent /\ caps'[k].may = caps[k].may
            /\ caps'[k].under = caps[k].under /\ caps'[k].line = caps[k].line
            /\ caps'[k].raced = caps[k].raced /\ caps'[k].from = caps[k].from
            /\ caps'[k].status = IF k \in rows THEN "REVOKED" ELSE caps[k].status
  BY <1>r, WithStatusRows
<1>4. TypeOK'
  BY <1>0, <1>1, <1>3 DEF TypeOK, Work
<1>5. VersionsGrow /\ CapsGrow /\ \A g \in Handler : NewMarked(g)
  <2>1. Len(caps) \in Nat /\ Len(versions) \in Nat /\ versions' = versions
    BY <1>0 DEF TypeOK
  <2>2. CapsGrow
    BY <1>3, <2>1 DEF CapsGrow
  <2> QED
    BY <1>3, <2>1, <2>2 DEF VersionsGrow, NewMarked
<1>6. ASSUME NEW g \in Handler PROVE HandlerOK(g)'
  <2>1. CASE g = h
    BY <1>1, <2>1, IdleHandler
  <2>2. CASE g # h
    BY <2>2, <1>0, <1>1, <1>4, <1>5, HandlerKeeps
  <2> QED
    BY <2>1, <2>2
<1>7. ASSUME NEW c \in DOMAIN caps' PROVE RowOK(c)'
  <2>1. c \in DOMAIN caps
    BY <1>3
  <2>2. ASSUME caps'[c].status = "ACTIVE", caps[c].parent \in named' \ named
        PROVE  caps[c].raced = "yes"
    <3>1. caps[c].parent = work[h].id /\ c \notin rows /\ Live(c)
      BY <1>0, <1>3, <2>1, <2>2 DEF Live
    <3>2. caps[c].raced # "no"
      BY <1>0, <1>2, <2>1, <3>1 DEF HandlerOK, RevokeOK
    <3>3. caps[c] \in CapRow
      BY <1>0, <2>1 DEF TypeOK
    <3> QED
      BY <3>2, <3>3 DEF CapRow
  <2> QED
    BY <1>0, <1>4, <1>5, <2>1, <2>2, RowKeeps
<1>8. InForceOK'
  BY <1>0, <1>1, InForceKeeps
<1> QED
  BY <1>4, <1>6, <1>7, <1>8 DEF Inv

LEMMA ExpireStep == ASSUME Inv, ExpireCapabilities PROVE Inv'
<1>0. /\ TypeOK /\ InForceOK
      /\ \A g \in Handler : HandlerOK(g)
      /\ \A c \in DOMAIN caps : RowOK(c)
      /\ UNCHANGED <<versions, current, now, work, named, overlapped>>
      /\ caps' = WithStatus(Overdue, "EXPIRED")
  BY DEF Inv, ExpireCapabilities
<1>2. PICK rows : rows = Overdue
  OBVIOUS
<1>3. /\ caps' \in Seq(CapRow) /\ Len(caps') = Len(caps) /\ DOMAIN caps' = DOMAIN caps
      /\ \A k \in DOMAIN caps :
            /\ caps'[k].parent = caps[k].parent /\ caps'[k].may = caps[k].may
            /\ caps'[k].under = caps[k].under /\ caps'[k].line = caps[k].line
            /\ caps'[k].raced = caps[k].raced /\ caps'[k].from = caps[k].from
            /\ caps'[k].status = IF k \in rows THEN "EXPIRED" ELSE caps[k].status
  BY <1>0, <1>2, WithStatusRows
<1>4. TypeOK'
  BY <1>0, <1>3 DEF TypeOK
<1>5. VersionsGrow /\ CapsGrow /\ \A g \in Handler : NewMarked(g)
  <2>1. Len(caps) \in Nat /\ Len(versions) \in Nat
    BY <1>0 DEF TypeOK
  <2> QED
    BY <1>0, <1>3, <2>1 DEF VersionsGrow, CapsGrow, NewMarked
<1>6. ASSUME NEW g \in Handler PROVE HandlerOK(g)'
  BY <1>0, <1>4, <1>5, HandlerKeeps
<1>7. ASSUME NEW c \in DOMAIN caps' PROVE RowOK(c)'
  BY <1>0, <1>3, <1>4, <1>5, RowKeeps
<1>8. InForceOK'
  BY <1>0 DEF InForceOK, Activating, Active
<1> QED
  BY <1>4, <1>6, <1>7, <1>8 DEF Inv

LEMMA InsertCapabilityStep == ASSUME Inv, NEW h \in Handler, InsertCapability(h) PROVE Inv'
<1>0. /\ TypeOK /\ InForceOK /\ work \in [Handler -> Work] /\ HandlerOK(h)
      /\ \A g \in Handler : HandlerOK(g)
      /\ \A c \in DOMAIN caps : RowOK(c)
      /\ UNCHANGED <<versions, current, now, named, overlapped>>
      /\ Goto(h, Idle) /\ work[h].at = "insert" /\ Idle.at = "idle"
      /\ Len(caps) < MaxCaps
  BY DEF Inv, TypeOK, Work, InsertCapability, Idle
<1>1. /\ work' \in [Handler -> Work] /\ work'[h] = Idle
      /\ \A g \in Handler \ {h} : work'[g] = work[g]
  BY <1>0, IdleType, WorkType
<1>n. PICK n : n = Len(caps) + 1
  OBVIOUS
<1>2. /\ Len(caps) \in Nat /\ DOMAIN caps = 1 .. Len(caps) /\ caps \in Seq(CapRow)
      /\ Len(versions) \in Nat /\ now \in Nat /\ named \subseteq DOMAIN caps
      /\ Len(versions) <= MaxVersion /\ n \in Nat
  BY <1>0, <1>n, BoundsType DEF TypeOK
<1>3. PICK a, p, u : a = work[h].ask /\ p = work[h].id /\ u = work[h].under
  OBVIOUS
<1>4. /\ a \in Request /\ p \in 0 .. Len(caps) /\ u \in 0 .. Len(versions) /\ u \in 0 .. MaxVersion
      /\ Granted(a, u) /\ (p # 0 => WithinParent(a, caps[p].may))
  <2>1. a \in Request
    BY <1>0, <1>3 DEF Work
  <2>2. p \in 0 .. Len(caps) /\ u \in 0 .. Len(versions) /\ Granted(a, u)
    BY <1>0, <1>3 DEF HandlerOK, AskOK
  <2>3. u \in 0 .. MaxVersion
    BY <1>2, <2>2, BoundsType
  <2>4. p # 0 => WithinParent(a, caps[p].may)
    BY <1>0, <1>3 DEF HandlerOK, ParentOK
  <2> QED
    BY <2>1, <2>2, <2>3, <2>4
<1>5. PICK from, line, raced :
         /\ from = (IF a.from = Unbound THEN now ELSE a.from)
         /\ line = (IF p = 0 THEN {} ELSE {p} \cup caps[p].line)
         /\ raced = (IF Doomed(p) THEN "yes" ELSE "no")
  OBVIOUS
<1> DEFINE row == [parent |-> p, may |-> a, from |-> from, status |-> "ACTIVE", under |-> u,
                   line |-> line, raced |-> raced]
<1>6. caps' = Append(caps, row)
  BY <1>3, <1>5 DEF InsertCapability
<1>7. from \in Nat
  BY <1>2, <1>4, <1>5, RequestType DEF Authority, Amount
<1>8. line \subseteq 1 .. Len(caps) /\ line \subseteq Cap
  <2>1. CASE p = 0
    BY <1>5, <2>1
  <2>2. CASE p # 0
    <3>1. p \in DOMAIN caps /\ caps[p].line \subseteq 1 .. p - 1
      BY <1>0, <1>2, <1>4, <2>2 DEF TypeOK
    <3> QED
      BY <1>0, <1>2, <1>4, <1>5, <2>2, <3>1, BoundsType DEF Cap
  <2> QED
    BY <2>1, <2>2
<1>9. row \in CapRow
  <2>1. p \in 0 .. MaxCaps /\ raced \in {"no", "yes"}
    BY <1>0, <1>2, <1>4, <1>5, BoundsType
  <2>2. line \in SUBSET Cap
    BY <1>8
  <2> QED
    BY <1>4, <1>7, <2>1, <2>2 DEF CapRow
<1>10. /\ row.parent = p /\ row.may = a /\ row.under = u /\ row.line = line /\ row.raced = raced
       /\ row.status = "ACTIVE"
  OBVIOUS
<1> HIDE DEF row
<1>11. /\ caps' \in Seq(CapRow) /\ Len(caps') = n /\ caps'[n] = row
       /\ DOMAIN caps' = 1 .. n /\ \A c \in 1 .. Len(caps) : caps'[c] = caps[c]
  BY <1>2, <1>6, <1>9, <1>n
<1>12. TypeOK'
  <2>1. \A c \in DOMAIN caps' : caps'[c].parent < c /\ caps'[c].line \subseteq 1 .. c - 1
    <3> TAKE c \in DOMAIN caps'
    <3>1. CASE c \in 1 .. Len(caps)
      BY <1>0, <1>2, <1>11, <3>1 DEF TypeOK
    <3>2. CASE c = n
      <4>1. caps'[c].parent = p /\ caps'[c].line = line
        BY <1>10, <1>11, <3>2
      <4>2. c - 1 = Len(caps) /\ p < c
        BY <1>2, <1>n, <1>4, <3>2
      <4> QED
        BY <1>8, <4>1, <4>2
    <3> QED
      BY <1>2, <1>n, <1>11, <3>1, <3>2
  <2>2. named' \subseteq DOMAIN caps' /\ Len(caps') <= MaxCaps
    BY <1>0, <1>2, <1>n, <1>11, BoundsType
  <2> QED
    BY <1>0, <1>1, <1>11, <2>1, <2>2 DEF TypeOK, Work
<1>13. VersionsGrow /\ CapsGrow
  BY <1>0, <1>2, <1>n, <1>11 DEF VersionsGrow, CapsGrow
<1>14. \A g \in Handler : NewMarked(g)
  <2> SUFFICES ASSUME NEW g \in Handler, NEW k \in DOMAIN caps' \ DOMAIN caps,
                      work[g].at = "revoke", caps'[k].parent = work[g].id
               PROVE  caps'[k].raced = "yes"
    BY DEF NewMarked
  <2>1. k = n
    BY <1>2, <1>n, <1>11
  <2>2. Doomed(p)
    BY <1>10, <1>11, <2>1 DEF Doomed
  <2> QED
    BY <1>5, <1>10, <1>11, <2>1, <2>2
<1>15. ASSUME NEW g \in Handler PROVE HandlerOK(g)'
  <2>1. CASE g = h
    BY <1>1, <2>1, IdleHandler
  <2>2. CASE g # h
    BY <2>2, <1>0, <1>1, <1>12, <1>13, <1>14, HandlerKeeps
  <2> QED
    BY <2>1, <2>2
<1>16. RowOK(n)'
  <2>1. ASSUME NEW b \in line
        PROVE  /\ b \in 1 .. Len(caps) /\ LimitWithinParent(a.until, caps[b].may.until)
               /\ \A use \in Sample : Permits(a, use) => Permits(caps[b].may, use)
    <3>1. p # 0 /\ p \in DOMAIN caps /\ b \in 1 .. Len(caps)
      BY <1>2, <1>4, <1>5, <1>8, <2>1
    <3>2. caps[p].may \in Request /\ caps[b].may \in Request
      <4>1. caps[p] \in CapRow /\ caps[b] \in CapRow
        BY <1>2, <3>1
      <4> QED
        BY <4>1 DEF CapRow
    <3>3. WithinParent(a, caps[p].may)
      BY <1>4, <3>1
    <3>4. /\ LimitWithinParent(a.until, caps[p].may.until)
          /\ \A use \in Sample : Permits(a, use) => Permits(caps[p].may, use)
      BY <1>4, <3>2, <3>3, WithinPermits DEF WithinParent
    <3>5. CASE b = p
      BY <3>1, <3>4, <3>5
    <3>6. CASE b \in caps[p].line
      <4>1. /\ LimitWithinParent(caps[p].may.until, caps[b].may.until)
            /\ \A use \in Sample : Permits(caps[p].may, use) => Permits(caps[b].may, use)
        BY <1>0, <3>1, <3>6 DEF RowOK
      <4>2. a.until \in Amount /\ caps[p].may.until \in Amount /\ caps[b].may.until \in Amount
        BY <1>4, <3>2, RequestType DEF Authority
      <4>3. LimitWithinParent(a.until, caps[b].may.until)
        BY <3>4, <4>1, <4>2, LimitsNest
      <4> QED
        BY <3>1, <3>4, <4>1, <4>3
    <3> QED
      BY <1>5, <2>1, <3>1, <3>5, <3>6
  <2>2. \A b \in caps'[n].line :
           /\ LimitWithinParent(caps'[n].may.until, caps'[b].may.until)
           /\ \A use \in Sample : Permits(caps'[n].may, use) => Permits(caps'[b].may, use)
    BY <1>10, <1>11, <2>1
  <2>3. caps'[n].under \in 0 .. Len(versions') /\ Granted(caps[n].may, caps[n].under)'
    <3>1. caps'[n].under = u /\ caps'[n].may = a /\ versions' = versions
      BY <1>0, <1>10, <1>11
    <3>2. Granted(a, u)'
      BY <1>4, <3>1 DEF Granted
    <3> QED
      BY <1>4, <3>1, <3>2 DEF Granted
  <2>4. caps'[n].parent \in named' => caps'[n].raced = "yes"
    BY <1>0, <1>5, <1>10, <1>11 DEF Doomed
  <2> QED
    BY <2>2, <2>3, <2>4, <1>2, <1>11, <1>n DEF RowOK, Granted, Live
<1>17. ASSUME NEW c \in DOMAIN caps' PROVE RowOK(c)'
  <2>1. CASE c = n
    BY <1>16, <2>1
  <2>2. CASE c \in DOMAIN caps
    <3>1. named' \ named = {} /\ RowOK(c)
      BY <1>0, <2>2
    <3> QED
      BY <1>0, <1>12, <1>13, <2>2, <3>1, RowKeeps
  <2> QED
    BY <1>2, <1>n, <1>11, <2>1, <2>2
<1>18. InForceOK'
  BY <1>0, <1>1, InForceKeeps
<1> QED
  BY <1>12, <1>15, <1>17, <1>18 DEF Inv

-----------------------------------------------------------------------------
(* The theorems. *)

LEMMA TickStep == ASSUME Inv, Tick PROVE Inv'
<1>1. /\ UNCHANGED <<caps, versions, current, work, named, overlapped>>
      /\ now' \in 0 .. MaxTime
  BY BoundsType DEF Inv, TypeOK, Tick
<1>2. TypeOK'
  BY <1>1 DEF Inv, TypeOK
<1>3. \A h \in Handler : HandlerOK(h)'
  BY <1>1 DEF Inv, HandlerOK, DraftOK, AskOK, Granted, ParentOK, RevokeOK, ActivateOK, Live
<1>4. \A c \in DOMAIN caps' : RowOK(c)'
  BY <1>1 DEF Inv, RowOK, Granted, Live
<1>5. InForceOK'
  BY <1>1 DEF Inv, InForceOK, Active, Activating
<1> QED
  BY <1>2, <1>3, <1>4, <1>5 DEF Inv

LEMMA StutterStep == ASSUME Inv, UNCHANGED vars PROVE Inv'
<1>1. UNCHANGED <<caps, versions, current, now, work, named, overlapped>>
  BY DEF vars
<1>2. TypeOK'
  BY <1>1 DEF Inv, TypeOK
<1>3. \A h \in Handler : HandlerOK(h)'
  BY <1>1 DEF Inv, HandlerOK, DraftOK, AskOK, Granted, ParentOK, RevokeOK, ActivateOK, Live
<1>4. \A c \in DOMAIN caps' : RowOK(c)'
  BY <1>1 DEF Inv, RowOK, Granted, Live
<1>5. InForceOK'
  BY <1>1 DEF Inv, InForceOK, Active, Activating
<1> QED
  BY <1>2, <1>3, <1>4, <1>5 DEF Inv

(* The invariant the other theorems rest on.                               *)
THEOREM DelegationInvHolds == Spec => []Inv
<1>1. Inv /\ [Next]_vars => Inv'
  <2> SUFFICES ASSUME Inv, [Next]_vars PROVE Inv'
    OBVIOUS
  <2>1. CASE ExpireCapabilities
    BY <2>1, ExpireStep
  <2>2. CASE Tick
    BY <2>2, TickStep
  <2>3. ASSUME NEW h \in Handler, ReadLatest(h) \/ InsertDraft(h) PROVE Inv'
    BY <2>3, ReadLatestStep, InsertDraftStep
  <2>4. ASSUME NEW h \in Handler, NEW v \in DOMAIN versions, BeginActivate(h, v) PROVE Inv'
    BY <2>4, BeginActivateStep
  <2>5. ASSUME NEW h \in Handler, CommitActivate(h) PROVE Inv'
    BY <2>5, CommitActivateStep
  <2>6. ASSUME NEW h \in Handler, NEW a \in Request, NEW parent \in {0} \cup DOMAIN caps,
               ReadConstitution(h, a, parent)
        PROVE  Inv'
    BY <2>6, ReadConstitutionStep
  <2>7. ASSUME NEW h \in Handler, ReadParent(h) \/ InsertCapability(h) PROVE Inv'
    BY <2>7, ReadParentStep, InsertCapabilityStep
  <2>8. ASSUME NEW h \in Handler, NEW c \in DOMAIN caps, BeginRevoke(h, c) PROVE Inv'
    BY <2>8, BeginRevokeStep
  <2>9. ASSUME NEW h \in Handler, CommitRevoke(h) \/ Die(h) PROVE Inv'
    BY <2>9, CommitRevokeStep, DieStep
  <2>10. CASE UNCHANGED vars
    BY <2>10, StutterStep
  <2> QED
    BY <2>1, <2>2, <2>3, <2>4, <2>5, <2>6, <2>7, <2>8, <2>9, <2>10 DEF Next
<1> QED
  BY InitInv, <1>1, PTL DEF Spec

(* The tables, the calls under way and the clock stay within their types,  *)
(* and every ancestor is an older row.                                     *)
THEOREM DelegationTypes == Spec => []TypeOK
<1>1. Inv => TypeOK
  BY DEF Inv
<1> QED
  BY DelegationInvHolds, <1>1, PTL

(* Delegation never widens, however long the line (assertWithinParent).    *)
THEOREM DelegationNeverWidens == Spec => []WithinLine
<1>1. Inv => WithinLine
  BY DEF Inv, WithinLine, RowOK
<1> QED
  BY DelegationInvHolds, <1>1, PTL

(* What a capability permits was lawful under every constitution along its *)
(* line, in what the ancestor names (assertWithinConstitution).            *)
THEOREM LineIsLawful == Spec => []LawfulAllAlong
<1>1. ASSUME Inv PROVE LawfulAllAlong
  <2> SUFFICES ASSUME NEW c \in DOMAIN caps, NEW a \in caps[c].line \cup {c}, caps[a].under # 0
               PROVE  /\ versions[caps[a].under].status # "DRAFT"
                      /\ \A use \in Sample : Permits(caps[c].may, use) =>
                            Lawful(caps[a].may, use, versions[caps[a].under].rules)
    BY DEF LawfulAllAlong
  <2>1. /\ Len(caps) \in Nat /\ DOMAIN caps = 1 .. Len(caps) /\ caps \in Seq(CapRow)
        /\ caps[c].line \subseteq 1 .. c - 1
    BY <1>1 DEF Inv, TypeOK
  <2>2. a \in DOMAIN caps
    BY <2>1
  <2>3. caps[a].under \in 0 .. Len(versions) /\ Granted(caps[a].may, caps[a].under)
    BY <1>1, <2>2 DEF Inv, RowOK
  <2>4. caps[a].under \in DOMAIN versions /\ versions \in Seq(VersionRow)
    BY <1>1, <2>3 DEF Inv, TypeOK, VersionRow
  <2>5. /\ versions[caps[a].under].status # "DRAFT"
        /\ WithinConstitution(caps[a].may, versions[caps[a].under].rules)
    BY <2>3 DEF Granted
  <2>6. versions[caps[a].under].rules \in Config /\ caps[a].may \in Request
    <3>1. versions[caps[a].under] \in VersionRow /\ caps[a] \in CapRow
      BY <2>1, <2>2, <2>4
    <3> QED
      BY <3>1 DEF VersionRow, CapRow
  <2>7. ASSUME NEW use \in Sample, Permits(caps[c].may, use)
        PROVE  Lawful(caps[a].may, use, versions[caps[a].under].rules)
    <3>1. Permits(caps[a].may, use)
      BY <1>1, <2>7 DEF Inv, RowOK
    <3> QED
      BY <2>5, <2>6, <3>1, GrantedIsLawful
  <2> QED
    BY <2>5, <2>7
<1> QED
  BY DelegationInvHolds, <1>1, PTL

(* No usable capability outlives an ancestor's expiry or, unless it raced, *)
(* its parent's own revocation (revokeCapability, expireCapabilities).     *)
THEOREM UsableOutlivesNone == Spec => []OutlivesNoAncestor
<1>1. ASSUME Inv PROVE OutlivesNoAncestor
  <2> SUFFICES ASSUME NEW c \in DOMAIN caps, Usable(c) \/ Validated(c)
               PROVE  /\ \A a \in caps[c].line : caps[a].may.until = Unbound \/ now < caps[a].may.until
                      /\ caps[c].parent \in named => caps[c].raced = "yes"
    BY DEF OutlivesNoAncestor
  <2>1. /\ Len(caps) \in Nat /\ DOMAIN caps = 1 .. Len(caps) /\ caps \in Seq(CapRow)
        /\ caps[c].line \subseteq 1 .. c - 1 /\ now \in Nat
    BY <1>1 DEF Inv, TypeOK
  <2>2. caps[c] \in CapRow
    BY <2>1
  <2>3. caps[c].may.until \in Amount
    BY <2>2, RequestType DEF CapRow, Authority
  <2>4. caps[c].may.until = Unbound \/ now < caps[c].may.until
    BY <2>1, <2>3, KnownDimensions DEF Usable, Validated, Amount
  <2>5. ASSUME NEW a \in caps[c].line PROVE caps[a].may.until = Unbound \/ now < caps[a].may.until
    <3>1. a \in DOMAIN caps /\ caps[a] \in CapRow
      BY <2>1
    <3>2. caps[a].may.until \in Amount
      BY <3>1, RequestType DEF CapRow, Authority
    <3>3. LimitWithinParent(caps[c].may.until, caps[a].may.until)
      BY <1>1 DEF Inv, RowOK
    <3> QED
      BY <2>1, <2>3, <2>4, <3>2, <3>3, KnownDimensions DEF LimitWithinParent, Amount
  <2>6. Live(c)
    BY <2>2 DEF Usable, Validated, Live, CapRow
  <2> QED
    BY <1>1, <2>5, <2>6 DEF Inv, RowOK
<1> QED
  BY DelegationInvHolds, <1>1, PTL

(* Without overlapping activations exactly the version the agent points at *)
(* is in force (activateConstitution).                                     *)
THEOREM OneConstitutionInForce == Spec => []OneInForce
<1>1. ASSUME Inv PROVE OneInForce
  <2>1. current \in 0 .. Len(versions) /\ DOMAIN versions = 1 .. Len(versions) /\ Len(versions) \in Nat
    BY <1>1 DEF Inv, TypeOK
  <2>2. ASSUME overlapped = "no" PROVE {v \in DOMAIN versions : Active(v)} = {current} \ {0}
    <3>1. \A v \in DOMAIN versions : Active(v) <=> v = current
      BY <1>1, <2>2 DEF Inv, InForceOK
    <3>2. current # 0 => current \in DOMAIN versions
      BY <2>1
    <3>3. 0 \notin DOMAIN versions
      BY <2>1
    <3> QED
      BY <3>1, <3>2, <3>3
  <2> QED
    BY <2>2 DEF OneInForce
<1> QED
  BY DelegationInvHolds, <1>1, PTL
=============================================================================
