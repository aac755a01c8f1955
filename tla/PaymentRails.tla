---------------------------- MODULE PaymentRails ----------------------------
(***************************************************************************)
(* Payments over the executor's rails while what they depend on moves:     *)
(*   - the pipeline (Blockchain/src/execution/execution-pipeline.ts) with  *)
(*     the simulator (simulation/), the RPC provider (rpc/) and the        *)
(*     registry of authorized contexts (integration/);                     *)
(*   - the ERC-4337 smart account (smart-account/).                        *)
(* Several calls are under way at once.  Contexts are registered anew,     *)
(* balances are spent elsewhere, and the RPC endpoint may fail over to     *)
(* another chain.  Each call is of an execution of its own, and names it;  *)
(* that one execution is called for again and again is module              *)
(* ExecutionPipeline.                                                      *)
(*                                                                         *)
(* Nothing connects the smart account with the registry and the checks of  *)
(* the pipeline: it sends the order that it is given.                      *)
(*                                                                         *)
(* A transaction is named by the call that sent it.                        *)
(***************************************************************************)
EXTENDS TransferChecks

CONSTANTS
    Call, AccountCall,  \* calls of the pipeline and of the smart account
    Transaction,        \* transaction ids
    TransactionOf,      \* the transaction each pipeline call's request names
    NetworkOf,          \* the network it names
    Order,              \* what the smart account may be asked to transfer
    Registration,       \* by which ids Core registers a context: of the
                        \* transaction, and of an execution or of none
    Authorizable,       \* contexts that Core may authorize
    Requirement,        \* x402 requirements that a service may answer with
    Allowed,            \* the networks it may name
    Configured,         \* the network that the provider is configured for
    Account,            \* the smart account's address
    MaxBalance,         \* bound: of one account, in base units
    MaxMoves            \* bound: changes underneath in one behaviour

ASSUME NoCallTwice == Call \cap AccountCall = {}
ASSUME MovesType == MaxMoves \in Nat /\ MaxBalance \in Nat
ASSUME ConfiguredKnown == Configured \in DOMAIN Chain
ASSUME CallsType == TransactionOf \in [Call -> Transaction] /\ Unset \notin Transaction
ASSUME RegistrationType == Registration \subseteq Transaction \X SUBSET Call
ASSUME NothingVerified == Unset # "verified"
ASSUME AmountsType == \A ctx \in Authorizable : ctx.expectation.amount \in Nat

VARIABLES
    registered,  \* the context registered for each transaction id
    byExecution, \* the transaction id registered for each execution
    granted,     \* history: contexts registered for a call, by either id
    endpoint,    \* the chain id that the RPC endpoint answers for
    verified,    \* verifiedChainId: Unset until it was read once
    balance,     \* token balances of the two senders on the configured chain
    nonce,       \* the smart account's next nonce on the entry point
    moves,
    job,         \* where each call stands
    chain        \* its transaction: its status, and what its receipt shows

registry == <<registered, byExecution, granted>>
vars == <<registry, endpoint, verified, balance, nonce, moves, job, chain>>
world == <<registry, endpoint, balance, moves>>

Home == Chain[Configured].id
Every == Call \cup AccountCall

(* An accepted x402 requirement too is only a candidate for Core.          *)
Contexts ==
    Authorizable \cup {Candidate(r, Home) : r \in
        {q \in Requirement : Acceptable(q, Allowed, Usdc(Configured))}}

New == [at |-> "new", ctx |-> Unset, tx |-> Unset, nonce |-> Unset,
        answer |-> Unset, hash |-> "none", verification |-> Unset]
NoTransaction == [status |-> "none", transfers |-> <<>>]

Init ==
    /\ registered = [t \in Transaction |-> Unset]
    /\ byExecution = [j \in Call |-> Unset]
    /\ granted = [j \in Call |-> {}]
    /\ endpoint = Home
    /\ verified = Unset
    /\ balance = [a \in {Signer, Account} |-> MaxBalance]
    /\ nonce = 0
    /\ moves = 0
    /\ job = [j \in Every |-> New]
    /\ chain = [j \in Every |-> NoTransaction]

Go(j, at) == job' = [job EXCEPT ![j].at = at]
Throws(j) ==   \* what is not on its way is forgotten
    job' = [job EXCEPT ![j] =
               IF chain[j].status = "none" THEN [New EXCEPT !.at = "threw"]
               ELSE [@ EXCEPT !.at = "threw"]]
Answers(j, status) == job' = [job EXCEPT ![j] = [@ EXCEPT !.at = "returned", !.answer = status]]
Broadcast(j) == chain' = [chain EXCEPT ![j].status = "pending"]

-----------------------------------------------------------------------------
(* What moves underneath. *)
Register(t, executions, ctx) ==
    /\ registered' = [registered EXCEPT ![t] = ctx]
    /\ byExecution' = [j \in Call |-> IF j \in executions THEN t ELSE byExecution[j]]
    /\ granted' = [j \in Call |->
          IF t \in {TransactionOf[j], byExecution'[j]} THEN granted[j] \cup {ctx} ELSE granted[j]]
    /\ UNCHANGED <<endpoint, balance>>

Failover(id) ==
    /\ endpoint' = id
    /\ UNCHANGED <<registry, balance>>

Drain(a) ==
    /\ balance' = [balance EXCEPT ![a] = 0]
    /\ UNCHANGED <<registry, endpoint>>

Underneath ==
    /\ moves < MaxMoves
    /\ moves' = moves + 1
    /\ \/ \E ids \in Registration, ctx \in Contexts : Register(ids[1], ids[2], ctx)
       \/ \E n \in DOMAIN Chain : Failover(Chain[n].id)
       \/ \E a \in {Signer, Account} : Drain(a)
    /\ UNCHANGED <<verified, nonce, job, chain>>

-----------------------------------------------------------------------------
(* The pipeline.  The context is resolved by transaction id, or else by    *)
(* the one registered for the execution; its network must be the request's.*)
Resolved(j) ==
    IF registered[TransactionOf[j]] # Unset THEN registered[TransactionOf[j]]
    ELSE IF byExecution[j] # Unset THEN registered[byExecution[j]]
    ELSE Unset

Resolve(j) ==
    LET ctx == Resolved(j) IN
    /\ job[j].at = "new"
    /\ IF ctx = Unset THEN Throws(j)
       ELSE IF ctx.expectation.network # NetworkOf[j] THEN Throws(j)
       ELSE job' = [job EXCEPT ![j] = [@ EXCEPT !.at = "chain", !.ctx = ctx]]
    /\ UNCHANGED <<world, verified, nonce, chain>>

(* requested = configured = reported, the last looked at only once. *)
ChainMatches(network) ==
    /\ network \in DOMAIN Chain
    /\ Chain[network].id = Home
    /\ verified # Unset \/ endpoint = Home

(* Built, analyzed, and compared with the authorized expectation. *)
Passes(tx, authorized) ==
    /\ AnalysisStatus(tx) # "INVALID"
    /\ Precise(authorized.amount)
    /\ Discrepancies(tx, authorized) = {}

(* getChainId has answered: on to the simulator. *)
Check(j) ==
    LET ctx == job[j].ctx
        matches == ChainMatches(NetworkOf[j])
    IN /\ job[j].at = "chain"
       /\ verified' = IF matches THEN Home ELSE verified
       /\ IF matches /\ Buildable(ctx.intent)
             /\ Passes(Build(TransactionOf[j], ctx.intent), ctx.expectation)
          THEN job' = [job EXCEPT ![j] = [@ EXCEPT !.at = "simulate",
                                             !.tx = Build(TransactionOf[j], ctx.intent)]]
          ELSE Throws(j)
       /\ UNCHANGED <<world, nonce, chain>>

(* What the endpoint may say of a balance: of another chain's, anything.   *)
Reads(a) == IF endpoint = Home THEN {balance[a]} ELSE 0 .. MaxBalance

(* The simulator reads the balance, if it can, and calls the transfer. An  *)
(* error of the call, whatever it is, is a REVERT; only a PASS goes on.    *)
Simulate(j) ==
    /\ job[j].at = "simulate"
    /\ \/ /\ \E b \in Reads(Signer) : b >= job[j].tx.call.units
          /\ Go(j, "submit")
       \/ Throws(j)
    /\ UNCHANGED <<world, verified, nonce, chain>>

(* The transaction is signed for the configured chain, so another refuses. *)
(* Whatever goes wrong is SUBMISSION_FAILED, the lost answer included.     *)
Submit(j) ==
    /\ job[j].at = "submit"
    /\ \/ /\ endpoint = Home
          /\ Broadcast(j)
          /\ \/ job' = [job EXCEPT ![j] = [@ EXCEPT !.at = "waiting", !.hash = "recorded"]]
             \/ Answers(j, "FAILED")
       \/ /\ Answers(j, "FAILED")
          /\ UNCHANGED chain
    /\ UNCHANGED <<world, verified, nonce>>

Mined(j) == chain[j].status \in {"success", "reverted"}
Outcome(j) == IF chain[j].status = "success" THEN "CONFIRMED" ELSE "FAILED"

Receipt(j) ==
    /\ job[j].at = "waiting"
    /\ endpoint = Home /\ Mined(j)
    /\ Answers(j, Outcome(j))
    /\ UNCHANGED <<world, verified, nonce, chain>>

(* Mutant of TimedOut: the smart account's loop knows no deadline. *)
TimedOutAtPipeline(j) ==
    /\ job[j].at = "waiting"
    /\ Answers(j, "UNKNOWN")
    /\ UNCHANGED <<world, verified, nonce, chain>>

(* The deadline passes, of either rail's wait for a receipt. *)
TimedOut(j) ==
    /\ job[j].at \in {"waiting", "sent"}
    /\ Answers(j, "UNKNOWN")
    /\ UNCHANGED <<world, verified, nonce, chain>>

(* An error in polling, other than that there is no receipt, is thrown on. *)
PollFails(j) ==
    /\ job[j].at \in {"waiting", "sent"}
    /\ Throws(j)
    /\ UNCHANGED <<world, verified, nonce, chain>>

(* verify: of any recorded hash, at any time. *)
Verify(j) ==
    LET discrepancies == ReceiptDiscrepancies(chain[j], job[j].ctx.expectation, NetworkOf[j])
    IN /\ job[j].hash = "recorded"
       /\ endpoint = Home /\ Mined(j)
       /\ job' = [job EXCEPT ![j].verification =
                     IF discrepancies = {} THEN "verified" ELSE "refused"]
       /\ UNCHANGED <<world, verified, nonce, chain>>

-----------------------------------------------------------------------------
(* The smart account: the nonce is read, the operation built with it and   *)
(* its gas estimated, then it is signed and sent, and its receipt awaited. *)
(* Token, recipient and amount are the caller's and nothing looks at them; *)
(* the operation goes to the bundler of the configured chain.              *)
Operation(order) ==  \* UserOperationBuilder.build
    [chain |-> Home, from |-> Account, to |-> order.token, value |-> 0,
     call |-> [function |-> "transfer", target |-> order.recipient, units |-> order.units]]

ReadNonce(j) ==
    /\ job[j].at = "new"
    /\ \/ \E order \in Order :
             job' = [job EXCEPT ![j] = [@ EXCEPT !.at = "estimate", !.nonce = nonce,
                                                 !.tx = Operation(order)]]
       \/ Throws(j)
    /\ UNCHANGED <<world, verified, nonce, chain>>

(* Balances are kept of the configured network's token; of another token   *)
(* either sender may have any amount.                                      *)
Kept(tx) == tx.to = Usdc(Configured)
Affords(tx) == Kept(tx) => balance[tx.from] >= tx.call.units

(* The bundler estimates no operation that would revert as things stand,   *)
(* or whose nonce is behind the account's.                                 *)
Estimate(j) ==
    /\ job[j].at = "estimate"
    /\ \/ /\ Affords(job[j].tx)
          /\ job[j].nonce = nonce
          /\ Go(j, "send")
       \/ Throws(j)
    /\ UNCHANGED <<world, verified, nonce, chain>>

(* The send is accepted and answered; or the call throws UNKNOWN, which an *)
(* accepted one whose answer is lost also does.  (What is refused before   *)
(* sending is an operation without a signature; it has one by now.)        *)
SendOperation(j) ==
    /\ job[j].at = "send"
    /\ \/ Broadcast(j) /\ Go(j, "sent")
       \/ Broadcast(j) /\ Answers(j, "UNKNOWN")
       \/ UNCHANGED chain /\ Answers(j, "UNKNOWN")
    /\ UNCHANGED <<world, verified, nonce>>

OperationReceipt(j) ==
    /\ job[j].at = "sent"
    /\ Mined(j)
    /\ Answers(j, Outcome(j))
    /\ UNCHANGED <<world, verified, nonce, chain>>

-----------------------------------------------------------------------------
(* The configured chain mines a pending transaction, an operation only on  *)
(* the account's next nonce.  What the token moves is the token's affair:  *)
(* what was asked, or that less a fee; or it reverts.                      *)
Moved(tx) ==
    LET pays(a, units) == [token |-> tx.to, to |-> a, units |-> units] IN
    {<<pays(tx.call.target, tx.call.units)>>,
     <<pays(tx.to, 1), pays(tx.call.target, tx.call.units - 1)>>}

Mine(j) ==
    LET tx == job[j].tx IN
    /\ chain[j].status = "pending"
    /\ j \in AccountCall => job[j].nonce = nonce
    /\ nonce' = IF j \in AccountCall THEN nonce + 1 ELSE nonce
    /\ \/ \E moved \in Moved(tx) :
             /\ Affords(tx)
             /\ chain' = [chain EXCEPT ![j] = [status |-> "success", transfers |-> moved]]
             /\ balance' = IF Kept(tx) THEN [balance EXCEPT ![tx.from] = @ - tx.call.units]
                           ELSE balance
       \/ /\ chain' = [chain EXCEPT ![j].status = "reverted"]
          /\ UNCHANGED balance
    /\ UNCHANGED <<registry, endpoint, moves, verified, job>>

Next ==
    \/ Underneath
    \/ \E j \in Every : Mine(j) \/ TimedOut(j) \/ PollFails(j)
    \/ \E j \in Call :
          \/ Resolve(j) \/ Check(j) \/ Simulate(j) \/ Submit(j)
          \/ Receipt(j) \/ Verify(j)
    \/ \E j \in AccountCall :
          \/ ReadNonce(j) \/ Estimate(j) \/ SendOperation(j) \/ OperationReceipt(j)

(* A call made is carried on: each request is answered or fails, and the   *)
(* deadline of a wait passes.                                              *)
Fairness ==
    /\ \A j \in Every : WF_vars(TimedOut(j))
    /\ \A j \in Call : /\ WF_vars(Check(j)) /\ WF_vars(Simulate(j))
                       /\ WF_vars(Submit(j))
    /\ \A j \in AccountCall : WF_vars(Estimate(j)) /\ WF_vars(SendOperation(j))

Spec == Init /\ [][Next]_vars /\ Fairness

-----------------------------------------------------------------------------
(* Whatever the pipeline brings to the chain, however registrations,       *)
(* balances and the endpoint moved since, is a transfer of the configured  *)
(* network's token, of exactly the amount and to the recipient of a        *)
(* context that Core did register for that very call, by its transaction   *)
(* or its execution, and for the network that was requested (assertValid,  *)
(* and AuthorizedContextRegistry.resolve).                                 *)
OnlyAuthorizedMoves ==
    \A j \in Call : chain[j].status # "none" =>
        \E ctx \in granted[j] :
            LET tx == job[j].tx
                authorized == ctx.expectation
            IN /\ tx.call.function = "transfer" /\ tx.value = 0
               /\ tx.call.target = authorized.recipient
               /\ tx.call.units * 10 = authorized.amount
               /\ tx.to = Chain[authorized.network].usdc
               /\ tx.chain = Home /\ authorized.network = NetworkOf[j]

(* A payment is reported as verified only if the authorized recipient got  *)
(* exactly the authorized amount of the network's token, in a transaction  *)
(* that succeeded: a successful receipt is not financial success           *)
(* (receipt-verifier.ts).                                                  *)
VerifiedIsPaid ==
    \A j \in Call : job[j].verification = "verified" =>
        LET authorized == job[j].ctx.expectation IN
        /\ chain[j].status = "success"
        /\ \E n \in DOMAIN chain[j].transfers :
              LET paid == chain[j].transfers[n] IN
              /\ paid.token = Chain[authorized.network].usdc
              /\ paid.to = authorized.recipient
              /\ paid.units * 10 = authorized.amount

(* In the end no call is left under way: each that was made has come to an *)
(* answer or an error, though no receipt ever appears (the deadlines of    *)
(* waitForReceipt and of the smart account's loop).                        *)
EveryCallEnds ==
    <>[](\A j \in Every : job[j].at \in {"new", "returned", "threw"})
=============================================================================
