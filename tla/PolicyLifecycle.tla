-------------------------- MODULE PolicyLifecycle ---------------------------
(***************************************************************************)
(* The versions of one policy: Backend/src/policy/policy.service.ts.       *)
(*                                                                         *)
(* Every operation reads the version's status and then updates the row by  *)
(* its id; none locks the row it read.  `activate' is one transaction of   *)
(* three writes, which others see together when it commits.  Its           *)
(* supersede-all is one UPDATE ... WHERE status = 'ACTIVE': at READ        *)
(* COMMITTED it finds the rows that were ACTIVE when the statement began   *)
(* and, after waiting for their locks, writes those still ACTIVE.  So an   *)
(* activation is three steps: read, find, commit.  A version is named by   *)
(* its number, which a unique index on (policy, version) protects.         *)
(***************************************************************************)
EXTENDS Integers

CONSTANTS
    Handler,    \* concurrent requests
    MaxVersion  \* bound: versions ever created

ASSUME MaxVersionType == MaxVersion \in Nat

VARIABLES
    status,    \* of each version; "NONE" before it is created
    current,   \* policies.current_version
    approved,  \* versions some handler has moved to APPROVED
    work,      \* what each handler is in the middle of
    doubled,   \* history: targets of activations that overlapped another
    crossed    \* history: versions two handlers were working on at once

vars == <<status, current, approved, work, doubled, crossed>>

Version == 1 .. MaxVersion

(* VERSION_TRANSITIONS *)
Transitions ==
    [DRAFT      |-> {"VALIDATING", "DISABLED"},
     VALIDATING |-> {"SIMULATED", "DRAFT", "DISABLED"},
     SIMULATED  |-> {"APPROVED", "DRAFT", "DISABLED"},
     APPROVED   |-> {"ACTIVE", "DISABLED"},
     ACTIVE     |-> {"SUPERSEDED", "DISABLED"},
     SUPERSEDED |-> {},
     DISABLED   |-> {}]

Status == DOMAIN Transitions
Op == {"validate", "simulate", "approve", "disable", "activate"}
Stage == {"idle", "insert", "update", "find", "commit"}
Idle == [at |-> "idle", op |-> "none", ver |-> 0, found |-> {}]

TypeOK ==
    /\ status \in [Version -> Status \cup {"NONE"}]
    /\ current \in 0 .. MaxVersion
    /\ approved \subseteq Version
    /\ work \in [Handler -> [at: Stage, op: Op \cup {"none"}, ver: 0 .. MaxVersion,
                             found: SUBSET Version]]
    /\ doubled \subseteq Version
    /\ crossed \subseteq Version

Init ==
    /\ status = [v \in Version |-> "NONE"]
    /\ current = 0
    /\ approved = {}
    /\ work = [h \in Handler |-> Idle]
    /\ doubled = {}
    /\ crossed = {}

-----------------------------------------------------------------------------
(* The status each operation moves a version to. *)
To(op) == CASE op = "validate" -> "VALIDATING" [] op = "simulate" -> "SIMULATED"
            [] op = "approve"  -> "APPROVED"   [] op = "disable"  -> "DISABLED"
            [] op = "activate" -> "ACTIVE"

(* Mutant of Legal: an activation does not look at the status. *)
ActivatesAnything(from, to) ==
    from # "NONE" /\ (to = "ACTIVE" \/ to \in Transitions[from])

(* assertTransition *)
Legal(from, to) == from # "NONE" /\ to \in Transitions[from]

(* The versions a handler is working on, and a new work item's effect on   *)
(* the two histories.                                                      *)
Rows(w) == IF w.at \in {"idle", "insert"} THEN {} ELSE {w.ver} \cup w.found
Others(h) == Handler \ {h}

Goto(h, w) ==
    /\ work' = [work EXCEPT ![h] = w]
    /\ crossed' = crossed \cup (Rows(w) \cap UNION {Rows(work[g]) : g \in Others(h)})
    /\ LET activating == {g \in Others(h) : work[g].op = "activate"} IN
       doubled' = IF w.op = "activate" /\ activating # {}
                  THEN doubled \cup {w.ver} \cup {work[g].ver : g \in activating}
                  ELSE doubled

Latest == CHOOSE n \in 0 .. MaxVersion :
             /\ n = 0 \/ status[n] # "NONE"
             /\ \A v \in Version : v > n => status[v] = "NONE"

(* createDraft: read the latest version, then insert the next number. *)
ReadLatest(h) ==
    /\ work[h] = Idle
    /\ Latest < MaxVersion
    /\ Goto(h, [Idle EXCEPT !.at = "insert", !.ver = Latest + 1])
    /\ UNCHANGED <<status, current, approved>>

InsertDraft(h) ==
    /\ work[h].at = "insert"
    /\ status[work[h].ver] = "NONE"
    /\ status' = [status EXCEPT ![work[h].ver] = "DRAFT"]
    /\ Goto(h, Idle)
    /\ UNCHANGED <<current, approved>>

(* The unique index refuses a number another handler took: it throws. *)
DraftRefused(h) ==
    /\ work[h].at = "insert"
    /\ status[work[h].ver] # "NONE"
    /\ Goto(h, Idle)
    /\ UNCHANGED <<status, current, approved>>

(* The read and the transition check of every other operation. *)
Read(h, op, v) ==
    /\ work[h] = Idle
    /\ Legal(status[v], To(op))
    /\ Goto(h, [Idle EXCEPT !.at = IF op = "activate" THEN "find" ELSE "update",
                            !.op = op, !.ver = v])
    /\ UNCHANGED <<status, current, approved>>

(* validate, simulate, approve, disable: the update by id. *)
Update(h) ==
    /\ work[h].at = "update"
    /\ status' = [status EXCEPT ![work[h].ver] = To(work[h].op)]
    /\ approved' = IF work[h].op = "approve" THEN approved \cup {work[h].ver} ELSE approved
    /\ Goto(h, Idle)
    /\ UNCHANGED current

(* Mutant of Superseding: the statement filters on the target's status. *)
SupersedesApproved == {v \in Version : status[v] = "APPROVED"}

(* activate: the rows its supersede statement finds ... *)
Superseding == {v \in Version : status[v] = "ACTIVE"}

FindActive(h) ==
    /\ work[h].at = "find"
    /\ Goto(h, [work[h] EXCEPT !.at = "commit", !.found = Superseding])
    /\ UNCHANGED <<status, current, approved>>

(* ... of which it writes those that are ACTIVE still ... *)
Superseded(h, v) == v \in work[h].found /\ status[v] = "ACTIVE"

(* ... and the commit of all three writes, the target's whatever its       *)
(* status has become.                                                      *)
CommitActivation(h) ==
    /\ work[h].at = "commit"
    /\ status' = [v \in Version |->
                    IF v = work[h].ver THEN "ACTIVE"
                    ELSE IF Superseded(h, v) THEN "SUPERSEDED" ELSE status[v]]
    /\ current' = work[h].ver
    /\ Goto(h, Idle)
    /\ UNCHANGED approved

(* The process dies or the database refuses: what is open is rolled back. *)
Die(h) ==
    /\ work[h] # Idle
    /\ Goto(h, Idle)
    /\ UNCHANGED <<status, current, approved>>

Next ==
    \E h \in Handler :
        \/ ReadLatest(h) \/ InsertDraft(h) \/ DraftRefused(h)
        \/ \E op \in Op, v \in Version : Read(h, op, v)
        \/ Update(h) \/ FindActive(h) \/ CommitActivation(h) \/ Die(h)

Spec == Init /\ [][Next]_vars

-----------------------------------------------------------------------------
(* While no two activations overlap, the version in force is the one the   *)
(* policy points at, so there is at most one: whatever drafts, approvals   *)
(* and disables run in between (policy.service.ts:180-213).                *)
ActiveIsCurrent ==
    doubled = {} => \A v \in Version : status[v] = "ACTIVE" => v = current

(* No candidate comes into force without an approval of that very version, *)
(* in any interleaving (policy.service.ts:4-6, 160-174, 185-196).          *)
InForceWasApproved ==
    \A v \in Version : status[v] \in {"APPROVED", "ACTIVE", "SUPERSEDED"} => v \in approved

(* A version that no two handlers worked on at once moves along            *)
(* VERSION_TRANSITIONS only, the supersede of another version's activation *)
(* included: a disabled or superseded version never comes back             *)
(* (policy.service.ts:21-30, 196-201).                                     *)
LifecycleStep ==
    \A v \in Version \ crossed :
        status'[v] # status[v] =>
            \/ status[v] = "NONE" /\ status'[v] = "DRAFT"
            \/ status[v] # "NONE" /\ status'[v] \in Transitions[status[v]]
LifecycleRespected == [][LifecycleStep]_vars
=============================================================================
