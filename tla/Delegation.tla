----------------------------- MODULE Delegation -----------------------------
(***************************************************************************)
(* What one agent may do and who said so: its constitution versions and    *)
(* its capabilities, Backend/src/domain/constitutions/                     *)
(* constitution.service.ts and domain/capabilities/capability.service.ts.  *)
(*                                                                         *)
(* `createCapability' is three statements without a transaction: it reads  *)
(* the constitution in force, reads the parent, inserts.  Revocation and   *)
(* activation are READ COMMITTED transactions of an UPDATE ... WHERE and   *)
(* updates by id: the first fixes the rows it finds and holds their locks, *)
(* the commit shows all of it.  A capability's id is its place in `caps',  *)
(* its parent 0 where it has none; an empty scope, an absent pin, limit or *)
(* expiry says "any", as in the code.                                      *)
(***************************************************************************)
EXTENDS Integers, Sequences, FiniteSets

CONSTANTS
    Handler,    \* concurrent calls
    Action,     \* actions
    Pin,        \* what a capability may fix to one value: asset, network
    Value,      \* values of these
    Scope,      \* what it may narrow to a set: category, recipient
    Item,       \* members of these
    Period,     \* what it may limit: single transaction, day, week, month
    Category,   \* the scope a constitution knows
    Single,     \* the period a constitution knows
    Unbound,        \* no pin, no limit, no expiry
    Request,    \* authorities that are asked for
    Config,     \* constitutions that are drafted
    Sample,     \* uses of a capability that the properties look at
    MaxCaps,    \* bound: capabilities ever created
    MaxVersion, \* bound: constitution versions ever created
    MaxRows,    \* bound: the versions and twice the capabilities
    MaxTime     \* bound: the clock

Amount == Nat \cup {Unbound}
Authority ==
    [action: Action, pins: [Pin -> Value \cup {Unbound}], scopes: [Scope -> SUBSET Item],
     limits: [Period -> Amount], from: Amount, until: Amount]
Rules ==
    [allowed: SUBSET Action, blocked: SUBSET Action, pins: [Pin -> SUBSET Value],
     items: SUBSET Item, limit: Amount]

(* A use names one value per pin, one item per scope, an amount per period. *)
Use == [action: Action, pins: [Pin -> Value], scopes: [Scope -> Item],
        amounts: [Period -> Nat], time: Nat]

ASSUME SampleType == Sample \subseteq Use
ASSUME RequestType == Request \subseteq Authority /\ Request # {}
ASSUME ConfigType == Config \subseteq Rules /\ \A r \in Config : r.allowed # {}
ASSUME KnownDimensions == Category \in Scope /\ Single \in Period /\ Unbound \notin Nat \cup Value
ASSUME BoundsType == MaxCaps \in Nat /\ MaxVersion \in Nat /\ MaxRows \in Nat /\ MaxTime \in Nat

VARIABLES
    caps,       \* rows of capabilities, in the order they were created
    versions,   \* status and rules of the constitution versions so far
    current,    \* agents.active_constitution_id; 0 while null
    now,        \* the clock
    work,       \* what each handler is in the middle of
    named,      \* history: capabilities revoked by a call for them
    overlapped  \* history: "yes" once two activations overlapped

vars == <<caps, versions, current, now, work, named, overlapped>>

Cap == 1 .. MaxCaps
Version == 1 .. MaxVersion
Stage == {"idle", "parent", "insert", "draft", "revoke", "activate"}
Idle == [at |-> "idle", id |-> 0, ask |-> CHOOSE a \in Request : TRUE, under |-> 0,
         found |-> {}]

Init ==
    /\ caps = <<>>
    /\ versions = <<>>
    /\ current = 0
    /\ now = 0
    /\ work = [h \in Handler |-> Idle]
    /\ named = {}
    /\ overlapped = "no"

Free(h) == work[h].at = "idle"
Goto(h, w) == work' = [work EXCEPT ![h] = w]

-----------------------------------------------------------------------------
(* Constitution versions. *)

Active(v) == versions[v].status = "ACTIVE"

(* createConstitution: the rules validated, the latest version read ...    *)
ReadLatest(h) ==
    /\ Free(h)
    /\ Len(versions) < MaxVersion /\ 2 * Len(caps) + Len(versions) < MaxRows
    /\ Goto(h, [Idle EXCEPT !.at = "draft", !.id = Len(versions) + 1])
    /\ UNCHANGED <<caps, versions, current, now, named, overlapped>>

Unique(v) == v \notin DOMAIN versions

(* ... and the next number inserted, which its unique index refuses to the *)
(* second of two.                                                          *)
InsertDraft(h) ==
    /\ work[h].at = "draft"
    /\ 2 * Len(caps) + Len(versions) < MaxRows
    /\ IF Unique(work[h].id)
       THEN \E rules \in Config :
               versions' = Append(versions, [status |-> "DRAFT", rules |-> rules])
       ELSE UNCHANGED versions
    /\ Goto(h, Idle)
    /\ UNCHANGED <<caps, current, now, named, overlapped>>

(* A draft, or the version in force once more. *)
Activatable(v) == versions[v].status # "SUPERSEDED"

(* Mutant of Superseding: the statement filters on drafts. *)
SupersedesDrafts == {v \in DOMAIN versions : versions[v].status = "DRAFT"}
Superseding == {v \in DOMAIN versions : Active(v)}

(* activateConstitution: the target's status checked and the supersede     *)
(* statement's rows found ...                                              *)
BeginActivate(h, v) ==
    /\ Free(h)
    /\ Activatable(v)
    /\ Goto(h, [Idle EXCEPT !.at = "activate", !.id = v, !.found = Superseding])
    /\ overlapped' = IF \E g \in Handler : work[g].at = "activate" THEN "yes" ELSE overlapped
    /\ UNCHANGED <<caps, versions, current, now, named>>

(* ... and the commit of the supersede, the activation and the pointer.    *)
CommitActivate(h) ==
    /\ work[h].at = "activate"
    /\ versions' = [v \in DOMAIN versions |->
          [status |-> IF v = work[h].id THEN "ACTIVE"
                      ELSE IF v \in work[h].found /\ Active(v) THEN "SUPERSEDED"
                      ELSE versions[v].status,
           rules |-> versions[v].rules]]
    /\ current' = work[h].id
    /\ Goto(h, Idle)
    /\ UNCHANGED <<caps, now, named, overlapped>>

-----------------------------------------------------------------------------
(* Containment. *)

(* Mutant of WithinConstitution: the limits are not compared. *)
LimitForgotten(a, rules) ==
    /\ a.action \in rules.allowed \ rules.blocked
    /\ \A p \in Pin : a.pins[p] \in {Unbound} \cup rules.pins[p] \/ rules.pins[p] = {}
    /\ rules.items = {} \/ a.scopes[Category] \subseteq rules.items

(* assertWithinConstitution.  What the authority leaves open is not        *)
(* compared with anything.                                                 *)
WithinConstitution(a, rules) ==
    /\ a.action \in rules.allowed \ rules.blocked
    /\ \A p \in Pin : a.pins[p] \in {Unbound} \cup rules.pins[p] \/ rules.pins[p] = {}
    /\ rules.items = {} \/ a.scopes[Category] \subseteq rules.items
    /\ {rules.limit, a.limits[Single]} \subseteq Nat => a.limits[Single] <= rules.limit

(* limitWithinParent, for money and for time. *)
LimitWithinParent(child, parent) ==
    parent # Unbound => child # Unbound /\ child <= parent

(* Mutant of ScopeWithinParent: an open child passes. *)
ScopeSubset(child, parent) == parent = {} \/ child \subseteq parent

(* scopeWithinParent *)
ScopeWithinParent(child, parent) ==
    parent = {} \/ (child # {} /\ child \subseteq parent)

(* assertWithinParent, the status apart.  The start is not compared.       *)
WithinParent(a, parent) ==
    /\ a.action = parent.action
    /\ \A p \in Pin : parent.pins[p] \in {Unbound, a.pins[p]}
    /\ \A s \in Scope : ScopeWithinParent(a.scopes[s], parent.scopes[s])
    /\ \A d \in Period : LimitWithinParent(a.limits[d], parent.limits[d])
    /\ LimitWithinParent(a.until, parent.until)

-----------------------------------------------------------------------------
(* Capabilities. *)

Live(c) == caps[c].status = "ACTIVE"

(* createCapability: the constitution in force, if there is one, is read   *)
(* and the request compared with it ...                                    *)
ReadConstitution(h, a, parent) ==
    /\ Free(h)
    /\ Len(caps) < MaxCaps /\ 2 * Len(caps) + Len(versions) < MaxRows - 1
    /\ \E v \in Version \cup {0} :
          /\ \/ v \in DOMAIN versions /\ Active(v) /\ WithinConstitution(a, versions[v].rules)
             \/ v = 0 /\ \A u \in DOMAIN versions : ~Active(u)
          /\ Goto(h, [at |-> IF parent = 0 THEN "insert" ELSE "parent",
                      id |-> parent, ask |-> a, under |-> v, found |-> {}])
    /\ UNCHANGED <<caps, versions, current, now, named, overlapped>>

(* ... then the parent, which is named in the request, and ...             *)
ReadParent(h) ==
    /\ work[h].at = "parent"
    /\ Goto(h, IF Live(work[h].id) /\ WithinParent(work[h].ask, caps[work[h].id].may)
               THEN [work[h] EXCEPT !.at = "insert"] ELSE Idle)
    /\ UNCHANGED <<caps, versions, current, now, named, overlapped>>

(* A parent whose revocation is under way or done. *)
Doomed(parent) ==
    \/ parent \in named
    \/ \E h \in Handler : work[h].at = "revoke" /\ work[h].id = parent

(* ... the row is inserted, starting now unless the request says when.     *)
(* `under', `line' and `raced' are history: the constitution that was      *)
(* read, all ancestors, and whether the parent was being revoked.          *)
InsertCapability(h) ==
    /\ work[h].at = "insert"
    /\ Len(caps) < MaxCaps /\ 2 * Len(caps) + Len(versions) < MaxRows - 1
    /\ LET a == work[h].ask
           parent == work[h].id IN
       caps' = Append(caps,
          [parent |-> parent, may |-> a, from |-> IF a.from = Unbound THEN now ELSE a.from,
           status |-> "ACTIVE", under |-> work[h].under,
           line |-> IF parent = 0 THEN {} ELSE {parent} \cup caps[parent].line,
           raced |-> IF Doomed(parent) THEN "yes" ELSE "no"])
    /\ Goto(h, Idle)
    /\ UNCHANGED <<versions, current, now, named, overlapped>>

(* Rows that a revocation under way has locked. *)
Locked == UNION {work[g].found : g \in {g \in Handler : work[g].at = "revoke"}}

(* Mutant of Cascade: no children are looked for. *)
NoCascade(c) == {}

(* The rows the cascade of a revocation finds: its own children, alive. *)
Cascade(c) == {k \in DOMAIN caps : caps[k].parent = c /\ Live(k)}

WithStatus(rows, status) ==
    [k \in DOMAIN caps |-> [caps[k] EXCEPT !.status = IF k \in rows THEN status ELSE @]]

(* revokeCapability: the cascade's rows are found and locked ...           *)
BeginRevoke(h, c) ==
    /\ Free(h)
    /\ Cascade(c) \cap Locked = {}
    /\ Goto(h, [Idle EXCEPT !.at = "revoke", !.id = c, !.found = Cascade(c)])
    /\ UNCHANGED <<caps, versions, current, now, named, overlapped>>

(* ... and with the capability itself, whatever its status, are REVOKED.   *)
CommitRevoke(h) ==
    /\ work[h].at = "revoke"
    /\ \A g \in Handler \ {h} : work[g].at = "revoke" => work[h].id \notin work[g].found
    /\ caps' = WithStatus(work[h].found \cup {work[h].id}, "REVOKED")
    /\ named' = named \cup {work[h].id}
    /\ Goto(h, Idle)
    /\ UNCHANGED <<versions, current, now, overlapped>>

(* expireCapabilities: one UPDATE ... WHERE, which waits for locked rows.  *)
Overdue == {c \in DOMAIN caps : Live(c) /\ caps[c].may.until # Unbound /\ caps[c].may.until <= now}

ExpireCapabilities ==
    /\ Overdue # {} /\ Overdue \cap Locked = {}
    /\ caps' = WithStatus(Overdue, "EXPIRED")
    /\ UNCHANGED <<versions, current, now, work, named, overlapped>>

Tick ==
    /\ now < MaxTime
    /\ now' = now + 1
    /\ UNCHANGED <<caps, versions, current, work, named, overlapped>>

(* The process dies, or the database refuses: what is open is rolled back. *)
Die(h) ==
    /\ ~Free(h)
    /\ Goto(h, Idle)
    /\ UNCHANGED <<caps, versions, current, now, named, overlapped>>

Next ==
    \/ ExpireCapabilities \/ Tick
    \/ \E h \in Handler :
          \/ ReadLatest(h) \/ InsertDraft(h)
          \/ \E v \in DOMAIN versions : BeginActivate(h, v)
          \/ CommitActivate(h)
          \/ \E a \in Request, parent \in {0} \cup DOMAIN caps : ReadConstitution(h, a, parent)
          \/ ReadParent(h) \/ InsertCapability(h)
          \/ \E c \in DOMAIN caps : BeginRevoke(h, c)
          \/ CommitRevoke(h) \/ Die(h)

Spec == Init /\ [][Next]_vars

-----------------------------------------------------------------------------
(* What a capability is good for. *)

(* getActiveCapabilities *)
Usable(c) ==
    /\ Live(c)
    /\ caps[c].from <= now
    /\ caps[c].may.until = Unbound \/ caps[c].may.until > now

(* validateCapability: its errors in their order. *)
Validated(c) ==
    /\ caps[c].status # "REVOKED"
    /\ ~(caps[c].status = "EXPIRED" \/ (caps[c].may.until # Unbound /\ caps[c].may.until <= now))
    /\ ~(caps[c].from > now)

-----------------------------------------------------------------------------
(* Properties. *)

CapRow == [parent: 0 .. MaxCaps, may: Request, from: Nat,
           status: {"ACTIVE", "EXPIRED", "REVOKED"}, under: 0 .. MaxVersion,
           line: SUBSET Cap, raced: {"no", "yes"}]

(* Types of all variables; parents and ancestors are older rows. *)
TypeOK ==
    /\ caps \in Seq(CapRow) /\ Len(caps) <= MaxCaps
    /\ \A c \in DOMAIN caps : caps[c].parent < c /\ caps[c].line \subseteq 1 .. c - 1
    /\ versions \in Seq([status: {"DRAFT", "ACTIVE", "SUPERSEDED"}, rules: Config])
    /\ Len(versions) <= MaxVersion
    /\ current \in 0 .. Len(versions)
    /\ now \in 0 .. MaxTime
    /\ work \in [Handler -> [at: Stage, id: Nat, ask: Request, under: 0 .. MaxVersion,
                             found: SUBSET (Cap \cup Version)]]
    /\ named \subseteq DOMAIN caps
    /\ overlapped \in {"no", "yes"}

Within(n, limit) == limit = Unbound \/ n <= limit

(* What an authority permits. *)
Permits(a, use) ==
    /\ use.action = a.action
    /\ \A p \in Pin : a.pins[p] \in {Unbound, use.pins[p]}
    /\ \A s \in Scope : a.scopes[s] = {} \/ use.scopes[s] \in a.scopes[s]
    /\ \A d \in Period : Within(use.amounts[d], a.limits[d])
    /\ a.until = Unbound \/ use.time < a.until

(* Delegation never widens: whatever a capability permits, each of its     *)
(* ancestors permits, however many delegations lie between, with all that  *)
(* empty scopes, absent pins and absent limits stand for (the header's     *)
(* "delegated capability within parent"; assertWithinParent compares with  *)
(* the parent only).                                                       *)
WithinLine ==
    \A c \in DOMAIN caps : \A a \in caps[c].line, use \in Sample :
        Permits(caps[c].may, use) => Permits(caps[a].may, use)

(* In every dimension an ancestor's authority names, what the capability   *)
(* permits was lawful under the constitution that ancestor was granted     *)
(* under, which has been in force, although a descendant may have been     *)
(* granted under another one or under none (createCapability reads the     *)
(* constitution once, assertWithinConstitution skips what is not named).   *)
Lawful(may, use, rules) ==
    /\ use.action \in rules.allowed \ rules.blocked
    /\ \A p \in Pin : may.pins[p] = Unbound \/ rules.pins[p] = {} \/ use.pins[p] \in rules.pins[p]
    /\ \/ may.scopes[Category] = {} \/ rules.items = {}
       \/ use.scopes[Category] \in rules.items
    /\ may.limits[Single] = Unbound \/ Within(use.amounts[Single], rules.limit)

LawfulAllAlong ==
    \A c \in DOMAIN caps : \A a \in caps[c].line \cup {c} :
        caps[a].under # 0 =>
            /\ versions[caps[a].under].status # "DRAFT"
            /\ \A use \in Sample : Permits(caps[c].may, use) =>
                  Lawful(caps[a].may, use, versions[caps[a].under].rules)

(* What either check calls usable has no ancestor that has run out, whether *)
(* or not the housekeeping has been round, and no parent revoked by a call  *)
(* for it, unless it was being created while that call ran                  *)
(* (revokeCapability: "a child cannot outlive revoked parent").             *)
OutlivesNoAncestor ==
    \A c \in DOMAIN caps : (Usable(c) \/ Validated(c)) =>
        /\ \A a \in caps[c].line : caps[a].may.until = Unbound \/ now < caps[a].may.until
        /\ caps[c].parent \in named => caps[c].raced = "yes"

(* While no two activations overlap, the constitution in force is the one  *)
(* the agent points at, and once there is one there always is              *)
(* (activateConstitution: "exactly one active constitution").              *)
OneInForce ==
    overlapped = "no" => {v \in DOMAIN versions : Active(v)} = {current} \ {0}
=============================================================================
