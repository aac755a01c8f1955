------------------------ MODULE PaymentRails_proofs ------------------------
(***************************************************************************)
(* Proofs about what the pipeline sends and what they report as verified, for  *)
(* any numbers of calls, contexts and networks, and however much moves     *)
(* underneath.                                                             *)
(***************************************************************************)
EXTENDS PaymentRails, TLAPS

Fields == {"at", "ctx", "tx", "nonce", "answer", "hash", "verification"}
Early == {"new", "chain", "simulate", "submit", "estimate", "send"}
Carried == {"simulate", "submit", "waiting", "estimate", "send", "sent"}

(* A transaction of what was authorized for this network.                  *)
AsAuthorized(tx, authorized, network) ==
    /\ authorized.network = network /\ network \in DOMAIN Chain
    /\ Precise(authorized.amount)
    /\ tx.call.function = "transfer" /\ tx.value = 0
    /\ tx.call.target = authorized.recipient
    /\ tx.call.units = ToBaseUnits(authorized.amount)
    /\ tx.to = Chain[network].usdc /\ tx.chain = Home

(* A resolved context was registered for the call, and it is for the       *)
(* network that was requested.                                             *)
Bound(j, ctx) ==
    ctx \in Contexts /\ ctx \in granted[j] /\ ctx.expectation.network = NetworkOf[j]

Paid(receipt, authorized) ==
    /\ receipt.status = "success"
    /\ \E n \in DOMAIN receipt.transfers :
          LET paid == receipt.transfers[n] IN
          /\ paid.token = Chain[authorized.network].usdc
          /\ paid.to = authorized.recipient
          /\ paid.units * 10 = authorized.amount

Typed(w, c) ==
    /\ DOMAIN w = Fields
    /\ DOMAIN c = {"status", "transfers"}
    /\ DOMAIN c.transfers \subseteq {1, 2}

(* A call w of j, and its transaction c on the chain: none before the call *)
(* is past sending.  Of the pipeline: what is carried towards the chain,   *)
(* or is there, is as was authorized in the context of the call; what is   *)
(* verified was paid.                                                      *)
Authorized(j, w, c) ==
    /\ w.at = "chain" => Bound(j, w.ctx)
    /\ w.at \in Carried \/ c.status # "none" =>
          Bound(j, w.ctx) /\ AsAuthorized(w.tx, w.ctx.expectation, NetworkOf[j])
    /\ w.verification = "verified" => Paid(c, w.ctx.expectation)

CallOK(j, w, c) ==
    /\ Typed(w, c)
    /\ w.at \in Early => c.status = "none"
    /\ j \in Call => Authorized(j, w, c)

(* What either lookup of the registry finds was registered for the call.   *)
RegistryOK ==
    /\ registered \in [Transaction -> Contexts \cup {Unset}]
    /\ byExecution \in [Call -> Transaction \cup {Unset}]
    /\ granted \in [Call -> SUBSET Contexts]
    /\ \A j \in Call : registered[TransactionOf[j]] \in granted[j] \cup {Unset}
    /\ \A j \in Call : byExecution[j] # Unset => registered[byExecution[j]] \in granted[j]

RailsInv ==
    /\ job = [j \in Every |-> job[j]] /\ chain = [j \in Every |-> chain[j]]
    /\ RegistryOK
    /\ \A j \in Every : CallOK(j, job[j], chain[j])

-----------------------------------------------------------------------------
LEMMA ContextAmount == \A ctx \in Contexts : ctx.expectation.amount \in Nat
<1> SUFFICES ASSUME NEW ctx \in Contexts PROVE ctx.expectation.amount \in Nat
  OBVIOUS
<1>1. CASE ctx \in Authorizable
  BY <1>1, AmountsType
<1>2. CASE ctx \notin Authorizable
  <2>1. PICK r \in Requirement : Acceptable(r, Allowed, Usdc(Configured)) /\ ctx = Candidate(r, Home)
    BY <1>2 DEF Contexts
  <2> QED
    BY <2>1 DEF Acceptable, Candidate
<1> QED
  BY <1>1, <1>2

LEMMA ToTenths ==
    ASSUME NEW amount \in Nat, Precise(amount)
    PROVE  ToBaseUnits(amount) * 10 = amount
BY DEF Precise, ToBaseUnits

(* A transaction without discrepancies is an authorized one.               *)
LEMMA PassedIsAuthorized ==
    ASSUME NEW id, NEW intent, NEW authorized, NEW network \in DOMAIN Chain,
           Buildable(intent), Passes(Build(id, intent), authorized),
           authorized.network = network, Chain[network].id = Home
    PROVE  AsAuthorized(Build(id, intent), authorized, network)
<1> DEFINE tx == Build(id, intent)
<1>1. /\ tx.chain = Chain[intent.network].id /\ tx.network = intent.network
      /\ tx.to = Usdc(intent.network) /\ tx.value = 0
      /\ tx.call = [function |-> "transfer", target |-> intent.recipient,
                    units |-> ToBaseUnits(intent.amount)]
  BY DEF Build
<1>2. /\ tx.call.function = "transfer" /\ tx.call.target = intent.recipient
      /\ tx.call.units = ToBaseUnits(intent.amount)
  BY <1>1
<1>3. Decode(tx) = tx.call
  BY <1>2 DEF Decode
<1>4. Discrepancies(tx, authorized) = {} /\ Precise(authorized.amount)
  BY DEF Passes
<1> HIDE DEF tx
<1>5. tx.network = authorized.network
  BY <1>4 DEF Discrepancies
<1>6. tx.call.target = authorized.recipient /\ tx.call.units = ToBaseUnits(authorized.amount)
  BY <1>2, <1>3, <1>4 DEF Discrepancies
<1> QED
  BY <1>1, <1>2, <1>4, <1>5, <1>6 DEF AsAuthorized, Usdc, tx

(* A receipt without discrepancies shows the payment.                      *)
LEMMA VerifiedReceipt ==
    ASSUME NEW receipt, NEW authorized, NEW network \in DOMAIN Chain,
           DOMAIN receipt.transfers \subseteq {1, 2},
           authorized.network = network, authorized.amount \in Nat, Precise(authorized.amount),
           ReceiptDiscrepancies(receipt, authorized, network) = {}
    PROVE  Paid(receipt, authorized)
<1> DEFINE matching == {n \in DOMAIN receipt.transfers :
                           Matches(receipt.transfers[n], authorized)}
           least == CHOOSE n \in matching : \A m \in matching : n <= m
<1>1. receipt.status = "success"
  BY DEF ReceiptDiscrepancies
<1>2. receipt.transfers # <<>> /\ matching # {}
  BY DEF ReceiptDiscrepancies
<1>3. \E n \in matching : \A m \in matching : n <= m
  <2>1. CASE 1 \in matching
    BY <2>1
  <2>2. CASE 1 \notin matching
    BY <2>2, <1>2
  <2> QED
    BY <2>1, <2>2
<1>4. least \in matching
  BY <1>3
<1>5. receipt.transfers[least].units = ToBaseUnits(authorized.amount)
  BY <1>2 DEF ReceiptDiscrepancies
<1>6. ToBaseUnits(authorized.amount) * 10 = authorized.amount
  BY ToTenths
<1> HIDE DEF least
<1> QED
  BY <1>1, <1>4, <1>5, <1>6 DEF Paid, Matches, Usdc
-----------------------------------------------------------------------------
LEMMA Initially == Init => RailsInv
<1> SUFFICES ASSUME Init PROVE RailsInv
  OBVIOUS
<1>1. ASSUME NEW j \in Every PROVE CallOK(j, job[j], chain[j])
  <2>1. job[j] = New /\ chain[j] = NoTransaction
    BY DEF Init
  <2> QED
    BY <2>1, NothingVerified
    DEF New, NoTransaction, CallOK, Authorized, Typed, Fields, Early, Carried
<1>2. RegistryOK
  BY CallsType DEF Init, RegistryOK
<1> QED
  BY <1>1, <1>2 DEF Init, RailsInv

(* A step of one call keeps all the others as they are.                    *)
LEMMA OneCall ==
    ASSUME RailsInv, NEW j \in Every, NEW w, NEW c,
           job' = [job EXCEPT ![j] = w], chain' = [chain EXCEPT ![j] = c],
           UNCHANGED registry, CallOK(j, w, c)
    PROVE  RailsInv'
<1>1. job' = [i \in Every |-> job'[i]] /\ chain' = [i \in Every |-> chain'[i]]
  BY DEF RailsInv
<1>2. job'[j] = w /\ chain'[j] = c
  BY DEF RailsInv
<1>3. \A i \in Every : i # j => job'[i] = job[i] /\ chain'[i] = chain[i]
  BY DEF RailsInv
<1>4. ASSUME NEW i \in Every PROVE CallOK(i, job'[i], chain'[i])
  BY <1>2, <1>3 DEF RailsInv
<1>5. \A i \in Every : CallOK(i, job[i], chain[i])'
  BY <1>4 DEF CallOK, Authorized, Bound, AsAuthorized, Paid, Typed, registry
<1>6. RegistryOK'
  BY DEF RailsInv, RegistryOK, registry
<1> QED
  BY <1>1, <1>5, <1>6 DEF RailsInv

(* The same, of a call whose transaction stays as it is.                   *)
LEMMA OnlyTheCall ==
    ASSUME RailsInv, NEW j \in Every, NEW w, job' = [job EXCEPT ![j] = w],
           UNCHANGED <<chain, registry>>, CallOK(j, w, chain[j])
    PROVE  RailsInv'
<1>1. chain' = [chain EXCEPT ![j] = chain[j]]
  BY DEF RailsInv
<1> QED
  BY <1>1, OneCall

LEMMA ThrowsKeeps ==
    ASSUME RailsInv, NEW j \in Every, Throws(j), UNCHANGED <<chain, registry>>
    PROVE  RailsInv'
<1>1. CallOK(j, job[j], chain[j])
  BY DEF RailsInv
<1>2. CASE chain[j].status = "none"
  <2>1. CallOK(j, [New EXCEPT !.at = "threw"], chain[j])
    BY <1>1, <1>2, NothingVerified DEF New, CallOK, Authorized, Typed, Fields, Early, Carried
  <2> QED
    BY <1>2, <2>1, OnlyTheCall DEF Throws
<1>3. CASE chain[j].status # "none"
  <2>1. CallOK(j, [job[j] EXCEPT !.at = "threw"], chain[j])
    BY <1>1, <1>3 DEF CallOK, Authorized, Typed, Fields, Early, Carried
  <2> QED
    BY <1>3, <2>1, OnlyTheCall DEF Throws
<1> QED
  BY <1>2, <1>3

LEMMA AnswersKeeps ==
    ASSUME RailsInv, NEW j \in Every, NEW status, Answers(j, status),
           UNCHANGED <<chain, registry>>
    PROVE  RailsInv'
<1>1. CallOK(j, job[j], chain[j])
  BY DEF RailsInv
<1>2. CallOK(j, [job[j] EXCEPT !.at = "returned", !.answer = status], chain[j])
  BY <1>1 DEF CallOK, Authorized, Typed, Fields, Early, Carried
<1> QED
  BY <1>2, OnlyTheCall DEF Answers

(* A carried call moves on, to another stage of the same kind.             *)
LEMMA GoKeeps ==
    ASSUME RailsInv, NEW j \in Every, NEW at \in {"submit", "send"},
           job[j].at \in Carried \cap Early, Go(j, at), UNCHANGED <<chain, registry>>
    PROVE  RailsInv'
<1>1. CallOK(j, job[j], chain[j])
  BY DEF RailsInv
<1>2. CallOK(j, [job[j] EXCEPT !.at = at], chain[j])
  BY <1>1 DEF CallOK, Authorized, Typed, Fields, Early, Carried
<1> QED
  BY <1>2, OnlyTheCall DEF Go

(* A carried call is sent: whatever it comes to, it is on the chain.       *)
Sent(j) == [chain[j] EXCEPT !.status = "pending"]
LEMMA SentIsOK ==
    ASSUME RailsInv, NEW j \in Every, NEW w, job[j].at \in {"submit", "send"},
           DOMAIN w = Fields, w.at \notin Early,
           w.ctx = job[j].ctx, w.tx = job[j].tx, w.verification = job[j].verification
    PROVE  CallOK(j, w, Sent(j))
<1>1. CallOK(j, job[j], chain[j])
  BY DEF RailsInv
<1> QED
  BY <1>1 DEF CallOK, Authorized, Typed, Early, Carried, Paid, Sent
-----------------------------------------------------------------------------
LEMMA RegisterKeeps ==
    ASSUME RailsInv, NEW ids \in Registration, NEW ctx \in Contexts, Register(ids[1], ids[2], ctx)
    PROVE  RegistryOK' /\ \A j \in Call : granted[j] \subseteq granted'[j]
<1> DEFINE t == ids[1]
<1>1. t \in Transaction /\ RegistryOK
  BY RegistrationType DEF RailsInv
<1>2. registered' = [registered EXCEPT ![t] = ctx]
  BY DEF Register
<1>3. byExecution' = [j \in Call |-> IF j \in ids[2] THEN t ELSE byExecution[j]]
  BY DEF Register
<1>4. granted' = [j \in Call |-> IF t \in {TransactionOf[j], byExecution'[j]}
                                  THEN granted[j] \cup {ctx} ELSE granted[j]]
  BY DEF Register
<1> HIDE DEF t
<1>5. /\ registered' \in [Transaction -> Contexts \cup {Unset}]
      /\ byExecution' \in [Call -> Transaction \cup {Unset}]
      /\ granted' \in [Call -> SUBSET Contexts]
  BY <1>1, <1>2, <1>3, <1>4 DEF RegistryOK
<1>6. \A j \in Call : granted[j] \subseteq granted'[j]
  BY <1>4
<1>7. ASSUME NEW j \in Call PROVE registered'[TransactionOf[j]] \in granted'[j] \cup {Unset}
  <2>1. CASE TransactionOf[j] = t
    BY <1>1, <1>2, <1>4, <2>1 DEF RegistryOK
  <2>2. CASE TransactionOf[j] # t
    BY <1>1, <1>2, <1>6, <2>2, CallsType DEF RegistryOK
  <2> QED
    BY <2>1, <2>2
<1>8. ASSUME NEW j \in Call, byExecution'[j] # Unset
      PROVE  registered'[byExecution'[j]] \in granted'[j]
  <2>1. CASE byExecution'[j] = t
    BY <1>1, <1>2, <1>4, <2>1 DEF RegistryOK
  <2>2. CASE byExecution'[j] # t
    <3>1. byExecution'[j] = byExecution[j] /\ byExecution[j] \in Transaction
      BY <1>1, <1>3, <1>8, <2>2 DEF RegistryOK
    <3>2. registered'[byExecution[j]] = registered[byExecution[j]]
      BY <1>1, <1>2, <2>2, <3>1 DEF RegistryOK
    <3> QED
      BY <1>1, <1>6, <1>8, <3>1, <3>2 DEF RegistryOK
  <2> QED
    BY <2>1, <2>2
<1> QED
  BY <1>5, <1>6, <1>7, <1>8 DEF RegistryOK

LEMMA UnderneathKeeps == RailsInv /\ Underneath => RailsInv'
<1> SUFFICES ASSUME RailsInv, Underneath PROVE RailsInv'
  OBVIOUS
<1>1. RegistryOK' /\ \A j \in Call : granted[j] \subseteq granted'[j]
  <2>1. CASE UNCHANGED registry
    BY <2>1 DEF RailsInv, RegistryOK, registry
  <2>2. CASE \E ids \in Registration, ctx \in Contexts : Register(ids[1], ids[2], ctx)
    BY <2>2, RegisterKeeps
  <2> QED
    BY <2>1, <2>2 DEF Underneath, Failover, Drain
<1>2. UNCHANGED <<job, chain>>
  BY DEF Underneath
<1>3. ASSUME NEW j \in Every PROVE CallOK(j, job[j], chain[j])'
  <2>1. CallOK(j, job[j], chain[j])
    BY DEF RailsInv
  <2> QED
    BY <1>1, <1>2, <2>1 DEF CallOK, Authorized, Bound, AsAuthorized, Paid, Typed
<1> QED
  BY <1>1, <1>2, <1>3 DEF RailsInv

LEMMA ResolveKeeps ==
    ASSUME RailsInv, NEW j \in Call, Resolve(j)
    PROVE  RailsInv'
<1> DEFINE ctx == Resolved(j)
           w == [job[j] EXCEPT !.at = "chain", !.ctx = ctx]
<1>1. j \in Every /\ CallOK(j, job[j], chain[j])
  BY DEF RailsInv, Every
<1>2. UNCHANGED <<chain, registry>>
  BY DEF Resolve, world
<1>3. CASE Throws(j)
  BY <1>1, <1>2, <1>3, ThrowsKeeps
<1>4. CASE ~Throws(j)
  <2>1. /\ job[j].at = "new" /\ ctx # Unset /\ ctx.expectation.network = NetworkOf[j]
        /\ job' = [job EXCEPT ![j] = w]
    BY <1>4 DEF Resolve
  <2>2. Bound(j, ctx)
    <3>1. RegistryOK /\ j \in Call
      BY DEF RailsInv
    <3>2. ctx \in granted[j]
      BY <2>1, <3>1 DEF RegistryOK, Resolved
    <3>3. granted[j] \subseteq Contexts
      BY <3>1 DEF RegistryOK
    <3> QED
      BY <2>1, <3>2, <3>3 DEF Bound
  <2>3. w.at = "chain" /\ w.ctx = ctx /\ DOMAIN w = Fields /\ w.verification = job[j].verification
    BY <1>1 DEF CallOK, Authorized, Typed, Fields
  <2> HIDE DEF w, ctx
  <2>4. CallOK(j, w, chain[j])
    BY <1>1, <2>1, <2>2, <2>3 DEF CallOK, Authorized, Typed, Early, Carried, Paid
  <2> QED
    BY <1>1, <1>2, <2>1, <2>4, OnlyTheCall
<1> QED
  BY <1>3, <1>4

LEMMA CheckKeeps ==
    ASSUME RailsInv, NEW j \in Call, Check(j)
    PROVE  RailsInv'
<1> DEFINE ctx == job[j].ctx
           tx == Build(TransactionOf[j], ctx.intent)
           w == [job[j] EXCEPT !.at = "simulate", !.tx = tx]
<1>1. j \in Every /\ CallOK(j, job[j], chain[j])
  BY DEF RailsInv, Every
<1>2. UNCHANGED <<chain, registry>>
  BY DEF Check, world
<1>3. CASE Throws(j)
  BY <1>1, <1>2, <1>3, ThrowsKeeps
<1>4. CASE ~Throws(j)
  <2>1. /\ job[j].at = "chain" /\ ChainMatches(NetworkOf[j])
        /\ Buildable(ctx.intent) /\ Passes(tx, ctx.expectation)
        /\ job' = [job EXCEPT ![j] = w]
    BY <1>4 DEF Check
  <2>2. Bound(j, ctx)
    BY <1>1, <2>1 DEF CallOK, Authorized
  <2>3. AsAuthorized(tx, ctx.expectation, NetworkOf[j])
    BY <2>1, <2>2, PassedIsAuthorized DEF ChainMatches, Bound
  <2>4. /\ w.at = "simulate" /\ w.ctx = ctx /\ w.tx = tx /\ DOMAIN w = Fields
        /\ w.verification = job[j].verification
    BY <1>1 DEF CallOK, Authorized, Typed, Fields
  <2> HIDE DEF w, tx
  <2>5. CallOK(j, w, chain[j])
    BY <1>1, <2>1, <2>2, <2>3, <2>4 DEF CallOK, Authorized, Typed, Early, Carried
  <2> QED
    BY <1>1, <1>2, <2>1, <2>5, OnlyTheCall
<1> QED
  BY <1>3, <1>4

LEMMA ReadNonceKeeps ==
    ASSUME RailsInv, NEW j \in AccountCall, ReadNonce(j)
    PROVE  RailsInv'
<1>1. j \in Every /\ j \notin Call /\ CallOK(j, job[j], chain[j])
  BY NoCallTwice DEF RailsInv, Every
<1>2. job[j].at = "new" /\ UNCHANGED <<chain, registry>>
  BY DEF ReadNonce, world
<1>3. CASE Throws(j)
  BY <1>1, <1>2, <1>3, ThrowsKeeps
<1>4. CASE ~Throws(j)
  <2>1. PICK order \in Order :
           job' = [job EXCEPT ![j] = [@ EXCEPT !.at = "estimate", !.nonce = nonce,
                                               !.tx = Operation(order)]]
    BY <1>4 DEF ReadNonce
  <2> DEFINE w == [job[j] EXCEPT !.at = "estimate", !.nonce = nonce, !.tx = Operation(order)]
  <2>2. DOMAIN w = Fields
    BY <1>1 DEF CallOK, Typed, Fields
  <2> HIDE DEF w
  <2>3. CallOK(j, w, chain[j])
    BY <1>1, <1>2, <2>2 DEF CallOK, Typed, Early
  <2> QED
    BY <1>1, <1>2, <2>1, <2>3, OnlyTheCall DEF w
<1> QED
  BY <1>3, <1>4

LEMMA SimulateKeeps == ASSUME RailsInv, NEW j \in Call, Simulate(j) PROVE RailsInv'
BY ThrowsKeeps, GoKeeps DEF Simulate, world, Carried, Early, Every

LEMMA EstimateKeeps == ASSUME RailsInv, NEW j \in AccountCall, Estimate(j) PROVE RailsInv'
BY ThrowsKeeps, GoKeeps DEF Estimate, world, Carried, Early, Every

LEMMA SubmitKeeps == ASSUME RailsInv, NEW j \in Call, Submit(j) PROVE RailsInv'
<1>1. j \in Every /\ job[j].at = "submit" /\ UNCHANGED registry /\ DOMAIN job[j] = Fields
  BY DEF Submit, world, Every, RailsInv, CallOK, Authorized, Typed
<1>2. CASE UNCHANGED chain /\ Answers(j, "FAILED")
  BY <1>1, <1>2, AnswersKeeps
<1>3. CASE Broadcast(j) /\ Answers(j, "FAILED")
  <2> DEFINE w == [job[j] EXCEPT !.at = "returned", !.answer = "FAILED"]
  <2>1. /\ w.at \notin Early /\ DOMAIN w = Fields
        /\ w.ctx = job[j].ctx /\ w.tx = job[j].tx /\ w.verification = job[j].verification
    BY <1>1 DEF Fields, Early
  <2>2. chain' = [chain EXCEPT ![j] = Sent(j)] /\ job' = [job EXCEPT ![j] = w]
    BY <1>3 DEF Answers, Broadcast, Sent
  <2> HIDE DEF w
  <2>3. CallOK(j, w, Sent(j))
    BY <1>1, <2>1, SentIsOK
  <2> QED
    BY <1>1, <2>2, <2>3, OneCall
<1>4. CASE /\ Broadcast(j)
           /\ job' = [job EXCEPT ![j] = [@ EXCEPT !.at = "waiting", !.hash = "recorded"]]
  <2> DEFINE w == [job[j] EXCEPT !.at = "waiting", !.hash = "recorded"]
  <2>1. /\ w.at \notin Early /\ DOMAIN w = Fields
        /\ w.ctx = job[j].ctx /\ w.tx = job[j].tx /\ w.verification = job[j].verification
    BY <1>1 DEF Fields, Early
  <2>2. chain' = [chain EXCEPT ![j] = Sent(j)] /\ job' = [job EXCEPT ![j] = w]
    BY <1>4 DEF Broadcast, Sent
  <2> HIDE DEF w
  <2>3. CallOK(j, w, Sent(j))
    BY <1>1, <2>1, SentIsOK
  <2> QED
    BY <1>1, <2>2, <2>3, OneCall
<1> QED
  BY <1>2, <1>3, <1>4 DEF Submit

LEMMA SendKeeps == ASSUME RailsInv, NEW j \in AccountCall, SendOperation(j) PROVE RailsInv'
<1>1. j \in Every /\ job[j].at = "send" /\ UNCHANGED registry /\ DOMAIN job[j] = Fields
  BY DEF SendOperation, world, Every, RailsInv, CallOK, Authorized, Typed
<1>2. CASE UNCHANGED chain /\ Answers(j, "UNKNOWN")
  BY <1>1, <1>2, AnswersKeeps
<1>3. CASE Broadcast(j) /\ Answers(j, "UNKNOWN")
  <2> DEFINE w == [job[j] EXCEPT !.at = "returned", !.answer = "UNKNOWN"]
  <2>1. /\ w.at \notin Early /\ DOMAIN w = Fields
        /\ w.ctx = job[j].ctx /\ w.tx = job[j].tx /\ w.verification = job[j].verification
    BY <1>1 DEF Fields, Early
  <2>2. chain' = [chain EXCEPT ![j] = Sent(j)] /\ job' = [job EXCEPT ![j] = w]
    BY <1>3 DEF Answers, Broadcast, Sent
  <2> HIDE DEF w
  <2>3. CallOK(j, w, Sent(j))
    BY <1>1, <2>1, SentIsOK
  <2> QED
    BY <1>1, <2>2, <2>3, OneCall
<1>4. CASE Broadcast(j) /\ Go(j, "sent")
  <2> DEFINE w == [job[j] EXCEPT !.at = "sent"]
  <2>1. /\ w.at \notin Early /\ DOMAIN w = Fields
        /\ w.ctx = job[j].ctx /\ w.tx = job[j].tx /\ w.verification = job[j].verification
    BY <1>1 DEF Fields, Early
  <2>2. chain' = [chain EXCEPT ![j] = Sent(j)] /\ job' = [job EXCEPT ![j] = w]
    BY <1>4 DEF Go, Broadcast, Sent
  <2> HIDE DEF w
  <2>3. CallOK(j, w, Sent(j))
    BY <1>1, <2>1, SentIsOK
  <2> QED
    BY <1>1, <2>2, <2>3, OneCall
<1> QED
  BY <1>2, <1>3, <1>4 DEF SendOperation

LEMMA VerifyKeeps == ASSUME RailsInv, NEW j \in Call, Verify(j) PROVE RailsInv'
<1> DEFINE found == ReceiptDiscrepancies(chain[j], job[j].ctx.expectation, NetworkOf[j])
           w == [job[j] EXCEPT !.verification = IF found = {} THEN "verified" ELSE "refused"]
<1>1. j \in Every /\ CallOK(j, job[j], chain[j])
  BY DEF RailsInv, Every
<1>2. /\ chain[j].status # "none" /\ job' = [job EXCEPT ![j] = w]
      /\ UNCHANGED <<chain, registry>>
  BY DEF Verify, Mined, world
<1>3. /\ w.at = job[j].at /\ w.ctx = job[j].ctx /\ w.tx = job[j].tx /\ DOMAIN w = Fields
      /\ w.verification = "verified" => found = {}
  BY <1>1 DEF CallOK, Authorized, Typed, Fields
<1>4. found = {} => Paid(chain[j], job[j].ctx.expectation)
  BY <1>1, <1>2, ContextAmount, VerifiedReceipt DEF CallOK, Authorized, Typed, Bound, AsAuthorized
<1> HIDE DEF w, found
<1>5. CallOK(j, w, chain[j])
  BY <1>1, <1>3, <1>4 DEF CallOK, Authorized, Typed
<1> QED
  BY <1>1, <1>2, <1>5, OnlyTheCall

LEMMA MineKeeps == ASSUME RailsInv, NEW j \in Every, Mine(j) PROVE RailsInv'
<1>1. CallOK(j, job[j], chain[j]) /\ chain[j].status = "pending"
  BY DEF Mine, RailsInv
<1>2. UNCHANGED registry /\ job' = [job EXCEPT ![j] = job[j]]
  BY DEF Mine, RailsInv
<1>3. PICK c : chain' = [chain EXCEPT ![j] = c] /\ c.status # "none" /\ Typed(job[j], c)
  <2>1. CASE chain' = [chain EXCEPT ![j].status = "reverted"]
    <3>1. Typed(job[j], [chain[j] EXCEPT !.status = "reverted"])
      BY <1>1 DEF CallOK, Authorized, Typed
    <3> QED
      BY <1>1, <2>1, <3>1 DEF CallOK, Authorized, Typed
  <2>2. CASE \E moved \in Moved(job[j].tx) :
                 chain' = [chain EXCEPT ![j] = [status |-> "success", transfers |-> moved]]
    <3>1. PICK moved \in Moved(job[j].tx) :
                 chain' = [chain EXCEPT ![j] = [status |-> "success", transfers |-> moved]]
      BY <2>2
    <3>2. DOMAIN moved \subseteq {1, 2}
      BY <3>1 DEF Moved
    <3>3. Typed(job[j], [status |-> "success", transfers |-> moved])
      BY <1>1, <3>2 DEF CallOK, Authorized, Typed
    <3> QED
      BY <3>1, <3>3
  <2> QED
    BY <2>1, <2>2 DEF Mine
<1>4. CallOK(j, job[j], c)
  BY <1>1, <1>3 DEF CallOK, Authorized, Paid, Early
<1> QED
  BY <1>2, <1>3, <1>4, OneCall

LEMMA RailsInvStep == RailsInv /\ [Next]_vars => RailsInv'
<1> SUFFICES ASSUME RailsInv, [Next]_vars PROVE RailsInv'
  OBVIOUS
<1>1. CASE UNCHANGED vars
  <2>1. RegistryOK'
    BY <1>1 DEF vars, RailsInv, RegistryOK, registry
  <2> QED
    BY <1>1, <2>1 DEF vars, registry, RailsInv, CallOK, Authorized, Bound, AsAuthorized, Paid, Typed
<1>2. CASE Underneath
  BY <1>2, UnderneathKeeps
<1>3. CASE \E j \in Every : Mine(j) \/ TimedOut(j) \/ PollFails(j)
  BY <1>3, MineKeeps, AnswersKeeps, ThrowsKeeps DEF TimedOut, PollFails, world
<1>4. CASE \E j \in Call : Resolve(j) \/ Check(j) \/ Simulate(j) \/ Submit(j)
  BY <1>4, ResolveKeeps, CheckKeeps, SimulateKeeps, SubmitKeeps
<1>5. CASE \E j \in Call : Receipt(j) \/ Verify(j)
  BY <1>5, AnswersKeeps, VerifyKeeps DEF Receipt, world, Every
<1>6. CASE \E j \in AccountCall : ReadNonce(j) \/ Estimate(j) \/ SendOperation(j)
  BY <1>6, ReadNonceKeeps, EstimateKeeps, SendKeeps
<1>7. CASE \E j \in AccountCall : OperationReceipt(j)
  BY <1>7, AnswersKeeps DEF OperationReceipt, world, Every
<1> QED
  BY <1>1, <1>2, <1>3, <1>4, <1>5, <1>6, <1>7 DEF Next

LEMMA RailsInvHolds == Spec => []RailsInv
BY Initially, RailsInvStep, PTL DEF Spec

(* Whatever is registered, drained or failed over meanwhile, the pipeline  *)
(* brings to the chain only what Core registered for the call              *)
(* (transaction-validator.ts:26-92, rpc-provider.ts:70-106,                *)
(* authorized-context-registry.ts:25-34).                                  *)
THEOREM OnlyAuthorizedReaches == Spec => []OnlyAuthorizedMoves
<1>1. ASSUME RailsInv, NEW j \in Call, chain[j].status # "none"
      PROVE  LET tx == job[j].tx
                 authorized == job[j].ctx.expectation
             IN /\ job[j].ctx \in granted[j]
                /\ tx.call.function = "transfer" /\ tx.value = 0
                /\ tx.call.target = authorized.recipient
                /\ tx.call.units * 10 = authorized.amount
                /\ tx.to = Chain[authorized.network].usdc
                /\ tx.chain = Home /\ authorized.network = NetworkOf[j]
  <2>1. Bound(j, job[j].ctx) /\ AsAuthorized(job[j].tx, job[j].ctx.expectation, NetworkOf[j])
    BY <1>1 DEF RailsInv, Every, CallOK, Authorized
  <2> QED
    BY <2>1, ContextAmount, ToTenths DEF Bound, AsAuthorized
<1>2. RailsInv => OnlyAuthorizedMoves
  BY <1>1 DEF OnlyAuthorizedMoves
<1> QED
  BY <1>2, RailsInvHolds, PTL

(* What the receipt verifier reports as verified was paid in full, to the  *)
(* authorized recipient and in the network's token                         *)
(* (receipt-verifier.ts).                                                  *)
THEOREM VerifiedWasPaid == Spec => []VerifiedIsPaid
<1>1. RailsInv => VerifiedIsPaid
  BY DEF RailsInv, CallOK, Authorized, Paid, VerifiedIsPaid, Every
<1> QED
  BY <1>1, RailsInvHolds, PTL
=============================================================================
