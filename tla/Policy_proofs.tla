---------------------------- MODULE Policy_proofs ---------------------------
(***************************************************************************)
(* Proofs about the versions of a policy, for any number of handlers and   *)
(* versions, and about what is paid under one, for any rules and proposals *)
(* that are as PolicySession assumes them.                                 *)
(***************************************************************************)
EXTENDS PolicyLifecycle, PolicySession, TLAPS

-----------------------------------------------------------------------------
(* The versions. *)

Work == [at: Stage, op: Op \cup {"none"}, ver: 0 .. MaxVersion, found: SUBSET Version]
Inside == {"update", "find", "commit"}  \* a version has been read

(* What a handler is about to do fits where it stands, and an activation   *)
(* is of a version that was approved.                                      *)
Fits(w) ==
    /\ w.at \in {"idle", "insert"} => w.op = "none"
    /\ w.at = "update" => w.op \in Op \ {"activate"}
    /\ w.at \in {"find", "commit"} => w.op = "activate" /\ w.ver \in approved
    /\ w.at \in Inside => w.ver \in Version /\ status[w.ver] # "NONE"
HandlerOK(h) == Fits(work[h])

(* The versions are numbered without gaps, and a draft to be inserted      *)
(* takes at most the next number.                                          *)
Numbered(n) ==
    /\ \A v \in Version : status[v] # "NONE" <=> v <= n
    /\ \A h \in Handler : work[h].at = "insert" => work[h].ver \in 1 .. n + 1
NumbersOK == \E n \in 0 .. MaxVersion : Numbered(n)

(* A version two handlers are working on is in crossed, and of any other   *)
(* what its handler found legal is so still.                               *)
AloneOK ==
    \A g, h \in Handler : g # h => Rows(work[g]) \cap Rows(work[h]) \subseteq crossed
LegalOK ==
    \A h \in Handler : work[h].at \in Inside /\ work[h].ver \notin crossed
        => Legal(status[work[h].ver], To(work[h].op))

(* As long as activations do not overlap there is one of them, and it has  *)
(* found all that is in force.                                             *)
ActiveOK ==
    doubled = {} =>
        /\ \A v \in Version : status[v] = "ACTIVE" => v = current
        /\ \A g, h \in Handler : work[g].op = "activate" /\ work[h].op = "activate" => g = h
        /\ \A h \in Handler, v \in Version :
              work[h].at = "commit" /\ status[v] = "ACTIVE" => v \in work[h].found

Inv ==
    /\ TypeOK
    /\ \A h \in Handler : HandlerOK(h)
    /\ NumbersOK
    /\ AloneOK /\ LegalOK /\ ActiveOK
    /\ InForceWasApproved

-----------------------------------------------------------------------------
LEMMA StatusSet ==
    Status = {"DRAFT", "VALIDATING", "SIMULATED", "APPROVED", "ACTIVE", "SUPERSEDED", "DISABLED"}
BY DEF Status, Transitions

LEMMA IdleType == Idle \in Work /\ Rows(Idle) = {} /\ Idle.op = "none" /\ Idle.at = "idle"
<1>1. 0 \in 0 .. MaxVersion
  BY MaxVersionType
<1> QED
  BY <1>1 DEF Idle, Work, Stage, Rows

(* What each operation writes, and from where it is legal. *)
LEMMA ToLegal ==
    ASSUME NEW op \in Op
    PROVE  /\ To(op) \in Status
           /\ op # "activate" => To(op) \in {"VALIDATING", "SIMULATED", "APPROVED", "DISABLED"}
           /\ To(op) = "APPROVED" => op = "approve"
           /\ op = "activate" =>
                 /\ To(op) = "ACTIVE"
                 /\ \A from \in Status \cup {"NONE"} : Legal(from, To(op)) => from = "APPROVED"
<1>1. /\ To("validate") = "VALIDATING" /\ To("simulate") = "SIMULATED"
      /\ To("approve") = "APPROVED" /\ To("disable") = "DISABLED" /\ To("activate") = "ACTIVE"
  BY DEF To
<1>2. \A from \in Status \cup {"NONE"} : Legal(from, "ACTIVE") => from = "APPROVED"
  BY StatusSet DEF Legal, Transitions
<1> QED
  BY <1>1, <1>2, StatusSet DEF Op

(* The effect of Goto on its own variables. *)
LEMMA GotoKeeps ==
    ASSUME Inv, NEW h \in Handler, NEW w \in Work, Goto(h, w), Fits(w)
    PROVE  /\ work' \in [Handler -> Work] /\ work'[h] = w
           /\ \A g \in Handler : g # h => work'[g] = work[g]
           /\ crossed \subseteq crossed' /\ crossed' \subseteq Version
           /\ doubled \subseteq doubled' /\ doubled' \subseteq Version
           /\ AloneOK'
           /\ doubled' = {} /\ w.op = "activate" =>
                 \A g \in Handler : g # h => work[g].op # "activate"
<1>1. work \in [Handler -> Work] /\ crossed \subseteq Version /\ doubled \subseteq Version
  BY DEF Inv, TypeOK, Work
<1>2. work' = [work EXCEPT ![h] = w]
  BY DEF Goto
<1>3. work' \in [Handler -> Work] /\ work'[h] = w /\ \A g \in Handler : g # h => work'[g] = work[g]
  BY <1>1, <1>2
<1>4. Rows(w) \subseteq Version
  <2>1. w.at \in Stage /\ w.found \subseteq Version
    BY DEF Work
  <2> QED
    BY <2>1 DEF Rows, Stage, Inside, Fits
<1>5. crossed' = crossed \cup (Rows(w) \cap UNION {Rows(work[g]) : g \in Others(h)})
  BY DEF Goto
<1>6. AloneOK'
  <2> SUFFICES ASSUME NEW g \in Handler, NEW k \in Handler, g # k,
                      NEW v \in Rows(work'[g]) \cap Rows(work'[k])
               PROVE  v \in crossed'
    BY DEF AloneOK, Rows
  <2>1. CASE g = h
    <3>1. v \in Rows(w) /\ v \in Rows(work[k]) /\ k \in Others(h)
      BY <1>3, <2>1 DEF Rows, Others
    <3> QED
      BY <1>5, <3>1
  <2>2. CASE k = h
    <3>1. v \in Rows(w) /\ v \in Rows(work[g]) /\ g \in Others(h)
      BY <1>3, <2>2 DEF Rows, Others
    <3> QED
      BY <1>5, <3>1
  <2>3. CASE g # h /\ k # h
    <3>1. v \in Rows(work[g]) \cap Rows(work[k])
      BY <1>3, <2>3 DEF Rows
    <3> QED
      BY <1>5, <3>1 DEF Inv, AloneOK
  <2> QED
    BY <2>1, <2>2, <2>3
<1>7. /\ doubled \subseteq doubled' /\ doubled' \subseteq Version
      /\ doubled' = {} /\ w.op = "activate" =>
            \A g \in Handler : g # h => work[g].op # "activate"
  <2> DEFINE activating == {g \in Others(h) : work[g].op = "activate"}
  <2>1. doubled' = IF w.op = "activate" /\ activating # {}
                   THEN doubled \cup {w.ver} \cup {work[g].ver : g \in activating}
                   ELSE doubled
    BY DEF Goto
  <2>2. \A g \in activating : work[g].ver \in Version
    <3> SUFFICES ASSUME NEW g \in activating PROVE work[g].ver \in Version
      OBVIOUS
    <3>1. work[g].at \in Stage /\ HandlerOK(g) /\ g \in Handler
      BY <1>1 DEF Inv, Others, Work
    <3> QED
      BY <3>1 DEF HandlerOK, Fits, Stage, Inside
  <2>3. w.op = "activate" => w.ver \in Version
    BY DEF Fits, Stage, Inside, Work
  <2> QED
    BY <1>1, <2>1, <2>2, <2>3 DEF Others
<1> QED
  BY <1>1, <1>3, <1>4, <1>5, <1>6, <1>7

(* A step that only moves one handler. *)
LEMMA MoveStep ==
    ASSUME Inv, NEW h \in Handler, NEW w \in Work, Goto(h, w), Fits(w),
           UNCHANGED <<status, current, approved>>,
           w.at = "insert" => \A n \in 0 .. MaxVersion : Numbered(n) => w.ver \in 1 .. n + 1,
           w.at \in Inside => w.ver \in crossed' \/ Legal(status[w.ver], To(w.op)),
           w.at = "commit" => \A v \in Version : status[v] = "ACTIVE" => v \in w.found
    PROVE  Inv'
<1>1. /\ work' \in [Handler -> Work] /\ work'[h] = w
      /\ \A g \in Handler : g # h => work'[g] = work[g]
      /\ crossed \subseteq crossed' /\ crossed' \subseteq Version
      /\ doubled \subseteq doubled' /\ doubled' \subseteq Version
      /\ AloneOK'
      /\ doubled' = {} /\ w.op = "activate" =>
            \A g \in Handler : g # h => work[g].op # "activate"
  BY GotoKeeps
<1>2. TypeOK'
  BY <1>1 DEF Inv, TypeOK, Work
<1>3. ASSUME NEW g \in Handler PROVE HandlerOK(g)'
  BY <1>1 DEF Inv, HandlerOK, Fits
<1>4. NumbersOK'
  <2>1. PICK n \in 0 .. MaxVersion : Numbered(n)
    BY DEF Inv, NumbersOK
  <2>2. Numbered(n)'
    BY <1>1, <2>1 DEF Numbered
  <2> QED
    BY <2>2 DEF NumbersOK
<1>5. LegalOK'
  BY <1>1 DEF Inv, LegalOK, Legal
<1>6. ActiveOK'
  BY <1>1 DEF Inv, ActiveOK
<1>7. InForceWasApproved'
  BY DEF Inv, InForceWasApproved
<1> QED
  BY <1>1, <1>2, <1>3, <1>4, <1>5, <1>6, <1>7 DEF Inv

LEMMA IdleFits == Fits(Idle)
BY DEF Fits, Idle, Inside

LEMMA BackToIdle ==
    ASSUME Inv, NEW h \in Handler, Goto(h, Idle), UNCHANGED <<status, current, approved>>
    PROVE  Inv'
BY MoveStep, IdleType, IdleFits DEF Inside

(* The latest version is the number of versions. *)
LEMMA LatestIsLast ==
    ASSUME NEW n \in 0 .. MaxVersion, Numbered(n) PROVE Latest = n
<1>1. /\ n = 0 \/ status[n] # "NONE"
      /\ \A v \in Version : v > n => status[v] = "NONE"
  BY MaxVersionType DEF Numbered, Version
<1>2. /\ Latest \in 0 .. MaxVersion
      /\ Latest = 0 \/ status[Latest] # "NONE"
      /\ \A v \in Version : v > Latest => status[v] = "NONE"
  BY <1>1 DEF Latest
<1> QED
  BY <1>1, <1>2, MaxVersionType DEF Numbered, Version

LEMMA ReadLatestStep ==
    ASSUME Inv, NEW h \in Handler, ReadLatest(h) PROVE Inv'
<1>1. PICK n \in 0 .. MaxVersion : Numbered(n)
  BY DEF Inv, NumbersOK
<1>2. Latest = n /\ n < MaxVersion /\ n \in Nat /\ n + 1 \in 0 .. MaxVersion
  BY <1>1, LatestIsLast, MaxVersionType DEF ReadLatest
<1>3. PICK w : w = [Idle EXCEPT !.at = "insert", !.ver = Latest + 1]
  OBVIOUS
<1>4. w.at = "insert" /\ w.op = "none" /\ w.ver = n + 1 /\ w.found = {} /\ w \in Work
  BY <1>2, <1>3 DEF Idle, Work, Stage
<1>5. Fits(w)
  BY <1>4 DEF Fits, Inside
<1>6. \A m \in 0 .. MaxVersion : Numbered(m) => w.ver \in 1 .. m + 1
  BY <1>2, <1>4, LatestIsLast
<1>7. Goto(h, w) /\ UNCHANGED <<status, current, approved>>
  BY <1>3 DEF ReadLatest
<1> QED
  BY <1>4, <1>5, <1>6, <1>7, MoveStep DEF Inside

LEMMA ReadStep ==
    ASSUME Inv, NEW h \in Handler, NEW op \in Op, NEW v \in Version, Read(h, op, v)
    PROVE  Inv'
<1>1. PICK w : w = [Idle EXCEPT !.at = IF op = "activate" THEN "find" ELSE "update",
                                !.op = op, !.ver = v]
  OBVIOUS
<1>2. /\ w.at = (IF op = "activate" THEN "find" ELSE "update")
      /\ w.op = op /\ w.ver = v /\ w \in Work
  <2>1. PICK u \in Work : u = Idle
    BY IdleType
  <2>2. v \in 0 .. MaxVersion
    BY MaxVersionType DEF Version
  <2> QED
    BY <1>1, <2>1, <2>2 DEF Work, Stage
<1>3. Legal(status[v], To(op)) /\ status[v] \in Status \cup {"NONE"}
  BY DEF Read, Inv, TypeOK
<1>4. op = "activate" => v \in approved
  BY <1>3, ToLegal DEF Inv, InForceWasApproved
<1>5. Fits(w)
  BY <1>2, <1>3, <1>4 DEF Fits, Inside, Legal
<1>6. Goto(h, w) /\ UNCHANGED <<status, current, approved>>
  BY <1>1 DEF Read
<1> QED
  BY <1>2, <1>3, <1>5, <1>6, MoveStep

LEMMA FindActiveStep ==
    ASSUME Inv, NEW h \in Handler, FindActive(h) PROVE Inv'
<1>1. PICK w : w = [work[h] EXCEPT !.at = "commit", !.found = Superseding]
  OBVIOUS
<1>2. work[h] \in Work /\ work[h].at = "find" /\ HandlerOK(h)
  BY DEF FindActive, Inv, TypeOK, Work
<1>3. Superseding \subseteq Version
  BY DEF Superseding
<1>4. /\ w.at = "commit" /\ w.op = work[h].op /\ w.ver = work[h].ver
      /\ w.found = Superseding /\ w \in Work
  BY <1>1, <1>2, <1>3 DEF Work, Stage
<1>5. Fits(w)
  BY <1>2, <1>4 DEF HandlerOK, Fits, Inside
<1>6. Goto(h, w) /\ UNCHANGED <<status, current, approved>>
  BY <1>1 DEF FindActive
<1>7. w.ver \in crossed' \/ Legal(status[w.ver], To(w.op))
  <2>1. crossed \subseteq crossed'
    BY <1>4, <1>5, <1>6, GotoKeeps
  <2> QED
    BY <1>2, <1>4, <2>1 DEF Inv, LegalOK, Inside
<1>8. \A v \in Version : status[v] = "ACTIVE" => v \in w.found
  BY <1>4 DEF Superseding
<1> QED
  BY <1>4, <1>5, <1>6, <1>7, <1>8, MoveStep

-----------------------------------------------------------------------------
(* The steps that write statuses, all of which end a handler's operation.  *)
LEMMA Ends ==
    ASSUME Inv, NEW h \in Handler, Goto(h, Idle)
    PROVE  /\ work' \in [Handler -> Work] /\ work'[h] = Idle
           /\ \A g \in Handler : g # h => work'[g] = work[g]
           /\ crossed \subseteq crossed' /\ crossed' \subseteq Version
           /\ doubled \subseteq doubled' /\ doubled' \subseteq Version
           /\ AloneOK'
BY GotoKeeps, IdleType, IdleFits

LEMMA InsertDraftStep ==
    ASSUME Inv, NEW h \in Handler, InsertDraft(h) PROVE Inv'
<1>1. PICK n \in 0 .. MaxVersion : Numbered(n)
  BY DEF Inv, NumbersOK
<1>2. PICK d : d = work[h].ver
  OBVIOUS
<1>3. /\ d \in Version /\ d = n + 1 /\ n + 1 \in 0 .. MaxVersion
      /\ status[d] = "NONE"
  <2>1. d \in 1 .. n + 1 /\ d \in 0 .. MaxVersion /\ status[d] = "NONE"
    BY <1>1, <1>2 DEF InsertDraft, Numbered, Inv, TypeOK
  <2>2. d \in Version
    BY <2>1, MaxVersionType DEF Version
  <2>3. ~(d <= n)
    BY <1>1, <2>1, <2>2 DEF Numbered
  <2> QED
    BY <2>1, <2>2, <2>3, MaxVersionType
<1>4. /\ work' \in [Handler -> Work] /\ work'[h] = Idle
      /\ \A g \in Handler : g # h => work'[g] = work[g]
      /\ crossed \subseteq crossed' /\ crossed' \subseteq Version
      /\ doubled \subseteq doubled' /\ doubled' \subseteq Version
      /\ AloneOK'
  BY Ends DEF InsertDraft
<1>5. /\ status' = [status EXCEPT ![d] = "DRAFT"] /\ current' = current /\ approved' = approved
      /\ status \in [Version -> Status \cup {"NONE"}]
  BY <1>2 DEF InsertDraft, Inv, TypeOK
<1>6. /\ status' \in [Version -> Status \cup {"NONE"}] /\ status'[d] = "DRAFT"
      /\ \A v \in Version : v # d => status'[v] = status[v]
  BY <1>3, <1>5, StatusSet
<1>7. TypeOK'
  BY <1>4, <1>5, <1>6 DEF Inv, TypeOK, Work
<1>8. ASSUME NEW g \in Handler PROVE HandlerOK(g)'
  BY <1>3, <1>4, <1>5, <1>6, IdleType DEF Inv, HandlerOK, Fits, Inside
<1>9. NumbersOK'
  <2>1. Numbered(n + 1)'
    <3>1. ASSUME NEW v \in Version PROVE status'[v] # "NONE" <=> v <= n + 1
      <4>1. status[v] # "NONE" <=> v <= n
        BY <1>1 DEF Numbered
      <4> QED
        BY <1>3, <1>6, <4>1 DEF Version
    <3>2. ASSUME NEW g \in Handler, work'[g].at = "insert"
          PROVE  work'[g].ver \in 1 .. n + 1 + 1
      <4>1. g # h /\ work[g].at = "insert" /\ work'[g].ver = work[g].ver
        BY <1>4, <3>2, IdleType
      <4> QED
        BY <1>1, <4>1 DEF Numbered
    <3> QED
      BY <3>1, <3>2 DEF Numbered
  <2> QED
    BY <1>3, <2>1 DEF NumbersOK
<1>10. LegalOK'
  <2> SUFFICES ASSUME NEW g \in Handler, work'[g].at \in Inside, work'[g].ver \notin crossed'
               PROVE  Legal(status'[work'[g].ver], To(work'[g].op))
    BY DEF LegalOK, Legal
  <2>1. g # h /\ work'[g] = work[g]
    BY <1>4, IdleType DEF Inside
  <2>2. Legal(status[work[g].ver], To(work[g].op)) /\ work[g].ver \in Version
    BY <1>4, <2>1 DEF Inv, LegalOK, HandlerOK, Fits
  <2>3. status[work[g].ver] # "NONE"
    BY <2>2 DEF Legal
  <2> QED
    BY <1>3, <1>6, <2>1, <2>2, <2>3
<1>11. ActiveOK'
  BY <1>3, <1>4, <1>5, <1>6, IdleType DEF Inv, ActiveOK
<1>12. InForceWasApproved'
  BY <1>5, <1>6 DEF Inv, InForceWasApproved
<1> QED
  BY <1>4, <1>7, <1>8, <1>9, <1>10, <1>11, <1>12 DEF Inv

(* Where nothing is created the numbers stay. *)
LEMMA NumbersStay ==
    ASSUME Inv, NEW h \in Handler, work'[h] = Idle,
           \A g \in Handler : g # h => work'[g] = work[g],
           \A v \in Version : status'[v] # "NONE" <=> status[v] # "NONE"
    PROVE  NumbersOK'
<1>1. PICK n \in 0 .. MaxVersion : Numbered(n)
  BY DEF Inv, NumbersOK
<1>2. Numbered(n)'
  BY <1>1, IdleType DEF Numbered
<1> QED
  BY <1>2 DEF NumbersOK

(* A handler that works on a version that another one changes, or changes  *)
(* alone, is not there: the two share it.                                  *)
LEMMA Shares ==
    ASSUME Inv, NEW g \in Handler, NEW h \in Handler, g # h, NEW v \in Version,
           work[g].at \in Inside, work[g].ver = v, v \in Rows(work[h])
    PROVE  v \in crossed
<1>1. v \in Rows(work[g])
  BY DEF Rows, Inside
<1> QED
  BY <1>1 DEF Inv, AloneOK

LEMMA UpdateStep ==
    ASSUME Inv, NEW h \in Handler, Update(h) PROVE Inv'
<1>1. PICK d, to : d = work[h].ver /\ to = To(work[h].op)
  OBVIOUS
<1>2. /\ work[h].at = "update" /\ work[h].op \in Op \ {"activate"} /\ d \in Version
      /\ to \in {"VALIDATING", "SIMULATED", "APPROVED", "DISABLED"}
      /\ to = "APPROVED" => work[h].op = "approve"
  BY <1>1, ToLegal DEF Update, Inv, HandlerOK, Fits, Inside
<1>3. /\ work' \in [Handler -> Work] /\ work'[h] = Idle
      /\ \A g \in Handler : g # h => work'[g] = work[g]
      /\ crossed \subseteq crossed' /\ crossed' \subseteq Version
      /\ doubled \subseteq doubled' /\ doubled' \subseteq Version
      /\ AloneOK'
  BY Ends DEF Update
<1>4. /\ status' = [status EXCEPT ![d] = to] /\ current' = current
      /\ status \in [Version -> Status \cup {"NONE"}]
  BY <1>1 DEF Update, Inv, TypeOK
<1>5. /\ approved \subseteq approved' /\ approved' \subseteq Version
      /\ work[h].op = "approve" => d \in approved'
  BY <1>1, <1>2 DEF Update, Inv, TypeOK
<1>6. /\ status' \in [Version -> Status \cup {"NONE"}] /\ status'[d] = to
      /\ \A v \in Version : v # d => status'[v] = status[v]
  BY <1>2, <1>4, StatusSet
<1>7. TypeOK'
  BY <1>3, <1>4, <1>5, <1>6 DEF Inv, TypeOK, Work
<1>8. ASSUME NEW g \in Handler PROVE HandlerOK(g)'
  BY <1>2, <1>3, <1>5, <1>6, IdleType DEF Inv, HandlerOK, Fits, Inside
<1>9. NumbersOK'
  <2>1. status[d] # "NONE"
    BY <1>1, <1>2 DEF Inv, HandlerOK, Fits, Inside
  <2> QED
    BY <1>2, <1>3, <1>6, <2>1, NumbersStay
<1>10. LegalOK'
  <2> SUFFICES ASSUME NEW g \in Handler, work'[g].at \in Inside, work'[g].ver \notin crossed'
               PROVE  Legal(status'[work'[g].ver], To(work'[g].op))
    BY DEF LegalOK, Legal
  <2>1. g # h /\ work'[g] = work[g]
    BY <1>3, IdleType DEF Inside
  <2>2. Legal(status[work[g].ver], To(work[g].op)) /\ work[g].ver \in Version
    BY <1>3, <2>1 DEF Inv, LegalOK, HandlerOK, Fits
  <2>3. work[g].ver # d
    <3>1. d \in Rows(work[h])
      BY <1>1, <1>2 DEF Rows
    <3> QED
      BY <1>2, <1>3, <2>1, <3>1, Shares
  <2> QED
    BY <1>6, <2>1, <2>2, <2>3
<1>11. ActiveOK'
  BY <1>2, <1>3, <1>4, <1>6, IdleType DEF Inv, ActiveOK
<1>12. InForceWasApproved'
  BY <1>2, <1>5, <1>6 DEF Inv, InForceWasApproved
<1> QED
  BY <1>3, <1>7, <1>8, <1>9, <1>10, <1>11, <1>12 DEF Inv

LEMMA CommitActivationStep ==
    ASSUME Inv, NEW h \in Handler, CommitActivation(h) PROVE Inv'
<1>1. PICK d : d = work[h].ver
  OBVIOUS
<1>2. /\ work[h].at = "commit" /\ work[h].op = "activate" /\ d \in Version /\ d \in approved
      /\ status[d] # "NONE" /\ approved' = approved /\ current' = d
  BY <1>1 DEF CommitActivation, Inv, HandlerOK, Fits, Inside
<1>3. /\ work' \in [Handler -> Work] /\ work'[h] = Idle
      /\ \A g \in Handler : g # h => work'[g] = work[g]
      /\ crossed \subseteq crossed' /\ crossed' \subseteq Version
      /\ doubled \subseteq doubled' /\ doubled' \subseteq Version
      /\ AloneOK'
  BY Ends DEF CommitActivation
<1>4. status \in [Version -> Status \cup {"NONE"}]
  BY DEF Inv, TypeOK
<1>5. /\ status' = [v \in Version |-> IF v = d THEN "ACTIVE"
                                     ELSE IF Superseded(h, v) THEN "SUPERSEDED" ELSE status[v]]
  BY <1>1 DEF CommitActivation
<1>6. /\ status' \in [Version -> Status \cup {"NONE"}] /\ status'[d] = "ACTIVE"
      /\ \A v \in Version : v # d =>
            \/ status'[v] = status[v] /\ ~Superseded(h, v)
            \/ status'[v] = "SUPERSEDED" /\ Superseded(h, v)
  BY <1>2, <1>4, <1>5, StatusSet
<1>7. TypeOK'
  <2>1. current' \in 0 .. MaxVersion /\ approved' \subseteq Version
    BY <1>2, MaxVersionType DEF Inv, TypeOK, Version
  <2> QED
    BY <1>3, <1>6, <2>1 DEF TypeOK, Work
<1>8. ASSUME NEW g \in Handler PROVE HandlerOK(g)'
  <2>1. \A v \in Version : status[v] # "NONE" => status'[v] # "NONE"
    BY <1>6
  <2> QED
    BY <1>2, <1>3, <2>1, IdleType DEF Inv, HandlerOK, Fits, Inside
<1>9. NumbersOK'
  <2>1. \A v \in Version : status'[v] # "NONE" <=> status[v] # "NONE"
    BY <1>2, <1>6 DEF Superseded
  <2> QED
    BY <1>3, <2>1, NumbersStay
<1>10. LegalOK'
  <2> SUFFICES ASSUME NEW g \in Handler, work'[g].at \in Inside, work'[g].ver \notin crossed'
               PROVE  Legal(status'[work'[g].ver], To(work'[g].op))
    BY DEF LegalOK, Legal
  <2>1. g # h /\ work'[g] = work[g]
    BY <1>3, IdleType DEF Inside
  <2>2. PICK v \in Version : v = work[g].ver
    BY <2>1 DEF Inv, HandlerOK, Fits
  <2>3. Legal(status[v], To(work[g].op)) /\ v \notin crossed /\ work[g].at \in Inside
    BY <1>3, <2>1, <2>2 DEF Inv, LegalOK
  <2>4. v \notin Rows(work[h])
    BY <2>1, <2>2, <2>3, Shares
  <2>5. v # d /\ ~Superseded(h, v)
    BY <1>1, <1>2, <2>4 DEF Rows, Superseded
  <2> QED
    BY <1>6, <2>1, <2>2, <2>3, <2>5
<1>11. ActiveOK'
  <2> SUFFICES ASSUME doubled' = {} PROVE ActiveOK'
    BY DEF ActiveOK
  <2>1. doubled = {}
    BY <1>3
  <2>2. ASSUME NEW g \in Handler PROVE work'[g].op # "activate"
    BY <1>2, <1>3, <2>1, IdleType DEF Inv, ActiveOK
  <2>3. ASSUME NEW v \in Version, status'[v] = "ACTIVE" PROVE v = d
    <3>1. status[v] = "ACTIVE" => v \in work[h].found
      BY <1>2, <2>1 DEF Inv, ActiveOK
    <3> QED
      BY <1>6, <2>3, <3>1 DEF Superseded
  <2>4. ASSUME NEW g \in Handler PROVE work'[g].at # "commit"
    BY <1>8, <2>2, <2>4 DEF HandlerOK, Fits
  <2> QED
    BY <1>2, <2>2, <2>3, <2>4 DEF ActiveOK
<1>12. InForceWasApproved'
  BY <1>2, <1>6 DEF Inv, InForceWasApproved, Superseded
<1> QED
  BY <1>3, <1>7, <1>8, <1>9, <1>10, <1>11, <1>12 DEF Inv

-----------------------------------------------------------------------------
LEMMA InvInit == Init => Inv
<1> SUFFICES ASSUME Init PROVE Inv
  OBVIOUS
<1>1. \A h \in Handler : work[h] = Idle
  BY DEF Init
<1>2. TypeOK
  <2>1. 0 \in 0 .. MaxVersion /\ work \in [Handler -> Work]
    BY IdleType, MaxVersionType DEF Init
  <2> QED
    BY <2>1 DEF Init, TypeOK, Work
<1>3. \A h \in Handler : HandlerOK(h)
  BY <1>1, IdleFits DEF HandlerOK
<1>4. NumbersOK
  <2>1. Numbered(0)
    BY <1>1, IdleType DEF Init, Numbered, Version
  <2> QED
    BY <2>1, MaxVersionType DEF NumbersOK
<1>5. AloneOK /\ LegalOK
  BY <1>1, IdleType DEF AloneOK, LegalOK, Inside
<1>6. ActiveOK /\ InForceWasApproved
  BY <1>1, IdleType DEF Init, ActiveOK, InForceWasApproved
<1> QED
  BY <1>2, <1>3, <1>4, <1>5, <1>6 DEF Inv

LEMMA InvStep == Inv /\ [Next]_vars => Inv'
<1> SUFFICES ASSUME Inv, [Next]_vars PROVE Inv'
  OBVIOUS
<1>1. CASE UNCHANGED vars
  BY <1>1 DEF vars, Inv, TypeOK, HandlerOK, Fits, NumbersOK, Numbered, AloneOK, LegalOK,
              Legal, ActiveOK, InForceWasApproved, Rows
<1>2. ASSUME NEW h \in Handler, ReadLatest(h) PROVE Inv'
  BY <1>2, ReadLatestStep
<1>3. ASSUME NEW h \in Handler, InsertDraft(h) PROVE Inv'
  BY <1>3, InsertDraftStep
<1>4. ASSUME NEW h \in Handler, DraftRefused(h) \/ Die(h) PROVE Inv'
  BY <1>4, BackToIdle DEF DraftRefused, Die
<1>5. ASSUME NEW h \in Handler, NEW op \in Op, NEW v \in Version, Read(h, op, v) PROVE Inv'
  BY <1>5, ReadStep
<1>6. ASSUME NEW h \in Handler, Update(h) PROVE Inv'
  BY <1>6, UpdateStep
<1>7. ASSUME NEW h \in Handler, FindActive(h) PROVE Inv'
  BY <1>7, FindActiveStep
<1>8. ASSUME NEW h \in Handler, CommitActivation(h) PROVE Inv'
  BY <1>8, CommitActivationStep
<1> QED
  BY <1>1, <1>2, <1>3, <1>4, <1>5, <1>6, <1>7, <1>8 DEF Next

LEMMA InvHolds == Spec => []Inv
<1>1. Init => Inv
  BY InvInit
<1>2. Inv /\ [Next]_vars => Inv'
  BY InvStep
<1> QED
  BY <1>1, <1>2, PTL DEF Spec

(* The state of the versions and of the handlers stays within its types    *)
(* (policy.service.ts:45-240).                                             *)
THEOREM LifecycleTypes == Spec => []TypeOK
<1>1. Inv => TypeOK
  BY DEF Inv
<1> QED
  BY <1>1, InvHolds, PTL

(* While no two activations overlap, the version in force is the one the   *)
(* policy points at (policy.service.ts:180-213).                           *)
THEOREM OneVersionInForce == Spec => []ActiveIsCurrent
<1>1. Inv => ActiveIsCurrent
  BY DEF Inv, ActiveOK, ActiveIsCurrent
<1> QED
  BY <1>1, InvHolds, PTL

(* Nothing comes into force that was not approved                          *)
(* (policy.service.ts:4-6, 160-174, 185-196).                              *)
THEOREM ApprovedBeforeForce == Spec => []InForceWasApproved
<1>1. Inv => InForceWasApproved
  BY DEF Inv
<1> QED
  BY <1>1, InvHolds, PTL

(* A version that one handler at a time works on follows                   *)
(* VERSION_TRANSITIONS (policy.service.ts:21-30, 196-201).                 *)
THEOREM LifecycleIsRespected == Spec => LifecycleRespected
<1>1. Inv /\ [Next]_vars => LifecycleStep
  <2> SUFFICES ASSUME Inv, [Next]_vars, NEW v \in Version \ crossed, status'[v] # status[v]
               PROVE  \/ status[v] = "NONE" /\ status'[v] = "DRAFT"
                      \/ status[v] # "NONE" /\ status'[v] \in Transitions[status[v]]
    BY DEF LifecycleStep
  <2>0. status \in [Version -> Status \cup {"NONE"}]
    BY DEF Inv, TypeOK
  <2>1. PICK h \in Handler : InsertDraft(h) \/ Update(h) \/ CommitActivation(h)
    BY DEF Next, vars, ReadLatest, DraftRefused, Read, FindActive, Die
  <2>2. CASE InsertDraft(h)
    BY <2>0, <2>2 DEF InsertDraft
  <2>3. CASE Update(h)
    <3>1. v = work[h].ver /\ status'[v] = To(work[h].op)
      BY <2>0, <2>3 DEF Update
    <3> QED
      BY <2>3, <3>1 DEF Update, Inv, LegalOK, Inside, Legal
  <2>4. CASE CommitActivation(h)
    <3>1. CASE v = work[h].ver
      <4>1. status'[v] = "ACTIVE" /\ work[h].op = "activate" /\ work[h].at = "commit"
        BY <2>4, <3>1 DEF CommitActivation, Inv, HandlerOK, Fits
      <4>2. Legal(status[v], To("activate"))
        BY <3>1, <4>1 DEF Inv, LegalOK, Inside
      <4> QED
        BY <4>1, <4>2 DEF Legal, To
    <3>2. CASE v # work[h].ver
      <4>1. status'[v] = "SUPERSEDED" /\ status[v] = "ACTIVE"
        BY <2>4, <3>2 DEF CommitActivation, Superseded
      <4> QED
        BY <4>1 DEF Transitions
    <3> QED
      BY <3>1, <3>2
  <2> QED
    BY <2>1, <2>2, <2>3, <2>4
<1> QED
  BY <1>1, InvHolds, PTL DEF Spec, LifecycleRespected

-----------------------------------------------------------------------------
(* What is paid under a policy.                                            *)

Payment == [proposal: Proposals, at: Nat, expires: {Absent, MaxTime}]

SessionTypes ==
    /\ rules \in Policies /\ expires \in {Absent, MaxTime} /\ clock \in Nat
    /\ decision \in [Proposals -> {"none", "PASS", "REVIEW", "FAIL"}]
    /\ paid \in Seq(Payment)

LEMMA SessionTypesInit == SessionInit => SessionTypes
BY DEF SessionInit, SessionTypes

LEMMA EvaluateType ==
    ASSUME NEW policy, NEW ctx PROVE Evaluate(policy, ctx) \in {"PASS", "REVIEW", "FAIL"}
BY DEF Evaluate, Aggregate

LEMMA SessionTypesStep == SessionTypes /\ [SessionNext]_sessionVars => SessionTypes'
<1> SUFFICES ASSUME SessionTypes, [SessionNext]_sessionVars PROVE SessionTypes'
  OBVIOUS
<1>1. CASE Tick
  BY <1>1, BoundsType DEF Tick, SessionTypes
<1>2. ASSUME NEW e \in Event, Observe(e) PROVE SessionTypes'
  BY <1>2 DEF Observe, SessionTypes
<1>3. ASSUME NEW p \in Proposals, Decide(p) PROVE SessionTypes'
  <2>1. PICK s \in {"PASS", "REVIEW", "FAIL"} : s = Evaluate(rules, DecideContext(p))
    BY EvaluateType
  <2>2. decision' = [decision EXCEPT ![p] = s]
    BY <1>3, <2>1 DEF Decide
  <2> QED
    BY <1>3, <2>2 DEF Decide, SessionTypes
<1>4. ASSUME NEW p \in Proposals, Prepare(p) PROVE SessionTypes'
  <2>1. [proposal |-> p, at |-> clock, expires |-> expires] \in Payment
    BY DEF Payment, SessionTypes
  <2> QED
    BY <1>4, <2>1 DEF Prepare, SessionTypes
<1>5. CASE UNCHANGED sessionVars
  BY <1>5 DEF sessionVars, SessionTypes
<1> QED
  BY <1>1, <1>2, <1>3, <1>4, <1>5 DEF SessionNext

(* No rule that is enabled objects. *)
Clears(rule, ctx) == Outcome(rule, ctx) \notin {"VIOLATION", "REQUIRE_APPROVAL", "REVIEW"}

LEMMA PassClearsAll ==
    ASSUME NEW policy, NEW ctx
    PROVE  Evaluate(policy, ctx) = "PASS"
              <=> \A r \in policy : r.enabled => Clears(r, ctx)
<1> DEFINE results == {Outcome(r, ctx) : r \in {q \in policy : q.enabled}}
<1>1. Evaluate(policy, ctx) = "PASS"
         <=> results \cap {"VIOLATION", "REQUIRE_APPROVAL", "REVIEW"} = {}
  BY DEF Evaluate, Aggregate
<1> QED
  BY <1>1 DEF Clears

(* The fields of the two contexts. *)
LEMMA PrepareFields ==
    ASSUME NEW p
    PROVE  LET c == PrepareContext(p) IN
           /\ c.amount = p.amount /\ c.recipient = p.recipient /\ c.asset = p.asset
           /\ c.network = p.network /\ c.category = Absent /\ c.spent = <<>>
           /\ c.known = {} /\ c.events = {} /\ c.recent = <<>>
           /\ c.expires = expires /\ c.now = clock
BY DEF PrepareContext, Context

LEMMA DecideFields ==
    ASSUME NEW p
    PROVE  LET c == DecideContext(p) IN
           /\ c.amount = p.amount /\ c.recipient = p.recipient /\ c.asset = p.asset
           /\ c.network = IF p.network = Absent THEN p.recipientNetwork ELSE p.network
           /\ c.category = Absent /\ c.spent = <<>>
           /\ c.known = {} /\ c.events = events /\ c.recent = <<>>
           /\ c.expires = expires /\ c.now = clock
BY DEF DecideContext, Context

LEMMA NothingSpent ==
    ASSUME NEW ctx, ctx.spent = <<>>, NEW window
    PROVE  Spent(window, ctx) = 0
<1>1. DOMAIN ctx.spent = {}
  OBVIOUS
<1> QED
  BY <1>1 DEF Spent

-----------------------------------------------------------------------------
(* The hours of a window, one by one. *)
LEMMA HoursInWindow ==
    ASSUME NEW hour \in 0 .. 23, NEW from \in 0 .. 23, NEW to \in 0 .. 23,
           InWindow(hour, from, to)
    PROVE  hour \in HoursOf(from, to)
<1>1. CASE from <= to
  <2>1. from <= hour /\ hour < to
    BY <1>1 DEF InWindow
  <2>2. (to - from) % 24 = to - from
    BY <1>1
  <2>3. hour - from \in 0 .. ((to - from) % 24) - 1 /\ (from + (hour - from)) % 24 = hour
    BY <2>1, <2>2
  <2> QED
    BY <2>3 DEF HoursOf
<1>2. CASE ~(from <= to)
  <2>1. (to - from) % 24 = to - from + 24
    BY <1>2
  <2>2. CASE from <= hour
    <3>1. hour - from \in 0 .. ((to - from) % 24) - 1 /\ (from + (hour - from)) % 24 = hour
      BY <2>1, <2>2
    <3> QED
      BY <3>1 DEF HoursOf
  <2>3. CASE hour < to
    <3>1. /\ hour + 24 - from \in 0 .. ((to - from) % 24) - 1
          /\ (from + (hour + 24 - from)) % 24 = hour
      BY <1>2, <2>1, <2>3
    <3> QED
      BY <3>1 DEF HoursOf
  <2> QED
    BY <1>2, <2>2, <2>3 DEF InWindow
<1> QED
  BY <1>1, <1>2

(* A rule that clears the context of prepare keeps its promise. *)
LEMMA ClearedIsHonoured ==
    ASSUME SessionTypes, NEW p \in Proposals, NEW r \in rules,
           Clears(r, PrepareContext(p))
    PROVE  Honours(r, [proposal |-> p, at |-> clock, expires |-> expires])
<1> DEFINE payment == [proposal |-> p, at |-> clock, expires |-> expires]
<1>1. PICK c : c = PrepareContext(p)
  OBVIOUS
<1>2. /\ c.amount = p.amount /\ c.recipient = p.recipient /\ c.asset = p.asset
      /\ c.network = p.network /\ c.category = Absent /\ c.spent = <<>>
      /\ c.known = {} /\ c.events = {} /\ c.recent = <<>>
      /\ c.expires = expires /\ c.now = clock
  BY <1>1, PrepareFields
<1>3. /\ r.type \in RuleType /\ Configured(r) /\ p.amount \in Nat \cup {Absent}
      /\ clock \in Nat
  BY PoliciesWellFormed, PoliciesConfigured, ProposalsType DEF SessionTypes, WellFormed
<1>4. Outcome(r, c) \notin {"VIOLATION", "REQUIRE_APPROVAL", "REVIEW"}
  BY <1>1 DEF Clears
<1>5. /\ payment.proposal = p /\ payment.at = clock /\ payment.expires = expires
  OBVIOUS
<1> HIDE DEF payment
<1>6. CASE r.type = "AMOUNT_LIMIT"
  <2>1. Outcome(r, c) = AmountLimit(r, c)
    BY <1>6 DEF Outcome
  <2> QED
    BY <1>2, <1>4, <1>5, <1>6, <2>1 DEF AmountLimit, Limited, Honours
<1>7. CASE r.type = "CUMULATIVE_LIMIT"
  <2>1. Outcome(r, c) = CumulativeLimit(r, c)
    BY <1>7 DEF Outcome
  <2>2. Spent(r.config.window, c) = 0
    BY <1>2, NothingSpent
  <2>3. ASSUME Sets(r, "window"), Sets(r, "maximum"), p.amount # Absent
        PROVE  p.amount <= r.config.maximum
    <3>1. 0 + p.amount <= r.config.maximum
      BY <1>2, <1>4, <2>1, <2>2, <2>3 DEF CumulativeLimit, Limited
    <3> QED
      BY <1>3, <2>3, <3>1
  <2> QED
    BY <1>5, <1>7, <2>3 DEF Honours
<1>8. CASE r.type = "TIME_WINDOW"
  <2>1. Outcome(r, c) = TimeWindow(r, c)
    BY <1>8 DEF Outcome
  <2>2. ASSUME Sets(r, "start_hour"), Sets(r, "end_hour")
        PROVE  clock % 24 \in HoursOf(r.config.start_hour, r.config.end_hour)
    <3>1. InWindow(clock % 24, r.config.start_hour, r.config.end_hour)
      BY <1>2, <1>4, <2>1, <2>2 DEF TimeWindow, Limited
    <3>2. r.config.start_hour \in 0 .. 23 /\ r.config.end_hour \in 0 .. 23
      <4>1. \A hour \in {"start_hour", "end_hour"} : r.config[hour] \in 0 .. 23
        BY <1>3, <2>2 DEF Configured
      <4> QED
        BY <4>1
    <3>3. clock % 24 \in 0 .. 23
      BY <1>3
    <3> QED
      BY <3>1, <3>2, <3>3, HoursInWindow
  <2> QED
    BY <1>5, <1>8, <2>2 DEF Honours
<1>9. CASE r.type \in {"RECIPIENT_ALLOWLIST", "ASSET_ALLOW", "NETWORK_ALLOW"}
  BY <1>2, <1>4, <1>5, <1>9 DEF Outcome, Allowed, Limited, Honours
<1>10. CASE r.type \in {"RECIPIENT_BLOCKLIST", "ASSET_BLOCK", "NETWORK_BLOCK"}
  <2>1. PICK v : /\ v = CASE r.type = "RECIPIENT_BLOCKLIST" -> p.recipient
                          [] r.type = "ASSET_BLOCK" -> p.asset
                          [] OTHER -> p.network
                 /\ Outcome(r, c) = Blocked(r, v)
    BY <1>2, <1>10 DEF Outcome
  <2>2. v \notin r.config.members
    BY <1>3, <1>4, <1>10, <2>1 DEF Blocked, Limited, Configured, ListRule
  <2> QED
    BY <1>5, <1>10, <2>1, <2>2 DEF Honours
<1>11. CASE r.type = "CAPABILITY_EXPIRY"
  <2>1. Outcome(r, c) = CapabilityExpiry(r, c)
    BY <1>11 DEF Outcome
  <2>2. expires = Absent \/ clock < expires
    BY <1>2, <1>4, <2>1 DEF CapabilityExpiry, Limited
  <2> QED
    BY <1>5, <1>11, <2>2 DEF Honours
<1>12. r.type # "HUMAN_APPROVAL"
  BY <1>4 DEF Outcome
<1>13. CASE r.type \in {"NEW_RECIPIENT_APPROVAL", "CATEGORY_ALLOW", "CATEGORY_BLOCK",
                        "REQUIRED_PREDECESSOR", "NO_STRUCTURING"}
  BY <1>5, <1>13 DEF Honours
<1> QED
  BY <1>3, <1>6, <1>7, <1>8, <1>9, <1>10, <1>11, <1>12, <1>13 DEF payment, RuleType

(* A rule that lets prepare pass, which shows it less, lets the decision   *)
(* pass too, unless it blocks the network that prepare is not shown.       *)
LEMMA PrepareIsNoMoreLenient ==
    ASSUME SessionTypes, NEW p \in Proposals, ~BlockIsLost(p), NEW r \in rules, r.enabled,
           Clears(r, PrepareContext(p))
    PROVE  Clears(r, DecideContext(p))
<1>1. PICK c : c = PrepareContext(p)
  OBVIOUS
<1>2. PICK d : d = DecideContext(p)
  OBVIOUS
<1>3. /\ d.amount = c.amount /\ d.recipient = c.recipient /\ d.asset = c.asset
      /\ c.network = p.network /\ d.category = c.category
      /\ d.network = IF p.network = Absent THEN p.recipientNetwork ELSE p.network
      /\ d.spent = <<>> /\ c.spent = <<>>
      /\ d.known = c.known /\ c.events = {} /\ d.recent = c.recent
      /\ d.expires = c.expires /\ d.now = c.now
  BY <1>1, <1>2, PrepareFields, DecideFields
<1>4. r.type \in RuleType
  BY PoliciesWellFormed DEF SessionTypes, WellFormed
<1>5. CASE r.type = "REQUIRED_PREDECESSOR"
  <2>1. Outcome(r, c) = RequiredPredecessor(r, c) /\ Outcome(r, d) = RequiredPredecessor(r, d)
    BY <1>5 DEF Outcome
  <2>2. ~Sets(r, "predecessor")
    BY <1>1, <1>3, <2>1 DEF Clears, RequiredPredecessor, Limited
  <2> QED
    BY <1>1, <1>2, <2>1, <2>2 DEF Clears, RequiredPredecessor
<1>6. CASE r.type = "CUMULATIVE_LIMIT"
  <2>1. Outcome(r, c) = CumulativeLimit(r, c) /\ Outcome(r, d) = CumulativeLimit(r, d)
    BY <1>6 DEF Outcome
  <2>2. Spent(r.config.window, c) = 0 /\ Spent(r.config.window, d) = 0
    BY <1>3, NothingSpent
  <2>3. Outcome(r, c) = Outcome(r, d)
    BY <1>3, <2>1, <2>2 DEF CumulativeLimit
  <2> QED
    BY <1>1, <1>2, <2>3 DEF Clears
<1>7. CASE r.type = "NETWORK_ALLOW"
  <2>1. c.network # Absent
    BY <1>1, <1>7 DEF Clears, Outcome, Allowed, Limited
  <2>2. d.network = c.network
    BY <1>3, <2>1
  <2> QED
    BY <1>1, <1>2, <1>7, <2>2 DEF Clears, Outcome
<1>8. CASE r.type = "NETWORK_BLOCK"
  <2>1. CASE p.network = Absent
    <3>1. p.recipientNetwork \notin r.config.members
      BY <1>8, <2>1 DEF BlockIsLost
    <3>2. Outcome(r, d) = "PASS"
      BY <1>3, <1>8, <2>1, <3>1 DEF Outcome, Blocked, Limited
    <3> QED
      BY <1>2, <3>2 DEF Clears
  <2>2. CASE p.network # Absent
    <3>1. d.network = c.network
      BY <1>3, <2>2
    <3> QED
      BY <1>1, <1>2, <1>8, <3>1 DEF Clears, Outcome
  <2> QED
    BY <2>1, <2>2
<1>9. CASE r.type \in RuleType \ {"REQUIRED_PREDECESSOR", "CUMULATIVE_LIMIT",
                                "NETWORK_ALLOW", "NETWORK_BLOCK"}
  <2>1. /\ AmountLimit(r, c) = AmountLimit(r, d)
        /\ TimeWindow(r, c) = TimeWindow(r, d)
        /\ NewRecipientApproval(r, c) = NewRecipientApproval(r, d)
        /\ CapabilityExpiry(r, c) = CapabilityExpiry(r, d)
    BY <1>3 DEF AmountLimit, TimeWindow, NewRecipientApproval, CapabilityExpiry
  <2>2. Outcome(r, c) = Outcome(r, d)
    BY <1>3, <1>9, <2>1 DEF Outcome, RuleType
  <2> QED
    BY <1>1, <1>2, <2>2 DEF Clears
<1> QED
  BY <1>4, <1>5, <1>6, <1>7, <1>8, <1>9

-----------------------------------------------------------------------------
(* What a decision refused or sent to review would not be paid now.        *)
RefusedIsUnpayable ==
    \A p \in Proposals : decision[p] \notin {"none", "PASS"} /\ ~BlockIsLost(p)
        => Evaluate(rules, PrepareContext(p)) # "PASS"

SessionInv == SessionTypes /\ PaidWithinRules /\ RefusedIsUnpayable

LEMMA SessionInvInit == SessionInit => SessionInv
BY SessionTypesInit DEF SessionInit, SessionInv, PaidWithinRules, RefusedIsUnpayable

LEMMA SessionInvStep == SessionInv /\ [SessionNext]_sessionVars => SessionInv'
<1> SUFFICES ASSUME SessionInv, [SessionNext]_sessionVars PROVE SessionInv'
  OBVIOUS
<1>1. SessionTypes /\ SessionTypes'
  BY SessionTypesStep DEF SessionInv
<1>2. ASSUME UNCHANGED <<rules, paid>> PROVE PaidWithinRules'
  BY <1>2 DEF SessionInv, PaidWithinRules
<1>3. ASSUME NEW p, UNCHANGED <<clock, expires>>
      PROVE  PrepareContext(p)' = PrepareContext(p)
  BY <1>3 DEF PrepareContext
<1>4. CASE Tick
  <2>1. RefusedIsUnpayable'
    BY <1>4 DEF Tick, RefusedIsUnpayable
  <2> QED
    BY <1>1, <1>2, <1>4, <2>1 DEF Tick, SessionInv
<1>5. ASSUME UNCHANGED <<rules, expires, clock, decision, paid>> PROVE SessionInv'
  BY <1>1, <1>2, <1>3, <1>5 DEF SessionInv, RefusedIsUnpayable, BlockIsLost
<1>6. ASSUME NEW p \in Proposals, Decide(p) PROVE SessionInv'
  <2>1. UNCHANGED <<rules, expires, clock, paid>>
    BY <1>6 DEF Decide
  <2>2. decision'[p] = Evaluate(rules, DecideContext(p))
    BY <1>1, <1>6 DEF Decide, SessionTypes
  <2>3. ASSUME NEW q \in Proposals, q # p PROVE decision'[q] = decision[q]
    BY <1>1, <1>6, <2>3 DEF Decide, SessionTypes
  <2>4. ASSUME decision'[p] # "PASS", ~BlockIsLost(p)
        PROVE  Evaluate(rules, PrepareContext(p)) # "PASS"
    BY <1>1, <2>2, <2>4, PassClearsAll, PrepareIsNoMoreLenient
  <2>5. RefusedIsUnpayable'
    BY <1>3, <2>1, <2>3, <2>4 DEF SessionInv, RefusedIsUnpayable, BlockIsLost
  <2> QED
    BY <1>1, <1>2, <2>1, <2>5 DEF SessionInv
<1>7. ASSUME NEW p \in Proposals, Prepare(p) PROVE SessionInv'
  <2>1. UNCHANGED <<rules, expires, clock, decision>>
    BY <1>7 DEF Prepare
  <2>2. RefusedIsUnpayable'
    BY <1>3, <2>1 DEF SessionInv, RefusedIsUnpayable, BlockIsLost
  <2>3. PICK y \in Payment : y = [proposal |-> p, at |-> clock, expires |-> expires]
    BY <1>1 DEF SessionTypes, Payment
  <2>4. \A r \in rules : r.enabled => Honours(r, y)
    BY <1>1, <1>7, <2>3, PassClearsAll, ClearedIsHonoured DEF Prepare
  <2>5. paid' = Append(paid, y)
    BY <1>7, <2>3 DEF Prepare
  <2>6. \A n \in DOMAIN paid' : paid'[n] = y \/ (n \in DOMAIN paid /\ paid'[n] = paid[n])
    BY <1>1, <2>5 DEF SessionTypes
  <2>7. PaidWithinRules'
    BY <2>1, <2>4, <2>6 DEF SessionInv, PaidWithinRules
  <2> QED
    BY <1>1, <2>2, <2>7 DEF SessionInv
<1> QED
  BY <1>4, <1>5, <1>6, <1>7 DEF SessionNext, Observe, sessionVars

(* A payment is made only if every rule in force allows it then            *)
(* (evaluators.ts, engine.ts:9-13), for any policies and proposals.        *)
THEOREM PaymentsWithinRules == SessionSpec => []PaidWithinRules
<1>1. SessionInv => PaidWithinRules
  BY DEF SessionInv
<1> QED
  BY <1>1, SessionInvInit, SessionInvStep, PTL DEF SessionSpec

(* What is paid is not what a decision of the same instant refused or sent *)
(* to review, though the two evaluate different contexts, unless a rule    *)
(* blocks a network that only the recipient names                          *)
(* (final-revalidation.service.ts:159-172,                                 *)
(* security-orchestrator.ts:211-224).                                      *)
THEOREM NothingPaidAgainstDecision == SessionSpec => NoPaymentAgainstDecision
<1>1. SessionInv /\ [SessionNext]_sessionVars
         => [\A p \in Proposals :
                paid' = Append(paid, [proposal |-> p, at |-> clock, expires |-> expires])
                   /\ ~BlockIsLost(p)
                => decision[p] \in {"none", "PASS"}]_sessionVars
  <2> SUFFICES ASSUME SessionInv, SessionNext, NEW p \in Proposals,
                      paid' = Append(paid, [proposal |-> p, at |-> clock,
                                            expires |-> expires]),
                      ~BlockIsLost(p)
               PROVE  decision[p] \in {"none", "PASS"}
    OBVIOUS
  <2>1. SessionTypes
    BY DEF SessionInv
  <2>2. PICK x \in Payment : x = [proposal |-> p, at |-> clock, expires |-> expires]
    BY <2>1 DEF SessionTypes, Payment
  <2>3. paid' = Append(paid, x) /\ x.proposal = p
    BY <2>2
  <2>4. paid' # paid
    BY <2>1, <2>3 DEF SessionTypes
  <2>5. PICK q \in Proposals : Prepare(q)
    BY <2>4 DEF SessionNext, Tick, Observe, Decide
  <2>6. PICK y \in Payment : y = [proposal |-> q, at |-> clock, expires |-> expires]
    BY <2>1 DEF SessionTypes, Payment
  <2>7. paid' = Append(paid, y) /\ y.proposal = q
    BY <2>5, <2>6 DEF Prepare
  <2>8. x = y
    <3>1. \A z \in Payment : Append(paid, z)[Len(paid) + 1] = z
      BY <2>1 DEF SessionTypes
    <3> QED
      BY <2>3, <2>7, <3>1
  <2> QED
    BY <2>3, <2>5, <2>7, <2>8 DEF Prepare, SessionInv, RefusedIsUnpayable
<1> QED
  BY <1>1, SessionInvInit, SessionInvStep, PTL DEF SessionSpec, NoPaymentAgainstDecision
=============================================================================
