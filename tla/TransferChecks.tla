--------------------------- MODULE TransferChecks ---------------------------
(***************************************************************************)
(* What the executor makes of an authorized USDC transfer and how it       *)
(* checks it: builder, decoder, analyzer and validator                     *)
(* (Blockchain/src/transactions), the amounts (shared/money.ts), the       *)
(* receipt verifier (receipts/) and the x402 requirement and the candidate *)
(* it becomes (x402/).                                                     *)
(* All of it is pure; that an operator throws is that it has no value, and *)
(* its guard says when.                                                    *)
(*                                                                         *)
(* Calldata is the call it encodes.  Amounts are counted in tenths of the  *)
(* token's smallest unit, so that one may be finer than the token is.      *)
(***************************************************************************)
EXTENDS Naturals, Sequences

CONSTANTS
    Address,     \* well-formed addresses; checksums are normalized away
    Chain,       \* network name -> [id, usdc]: ChainRegistry
    Signer,      \* the address of the configured key
    Unset        \* null

Precise(amount) == amount % 10 = 0
ToBaseUnits(amount) == amount \div 10

(* The token of a network: unknown networks and unset addresses have none. *)
Usdc(network) == IF network \in DOMAIN Chain THEN Chain[network].usdc ELSE Unset

-----------------------------------------------------------------------------
Buildable(intent) ==
    /\ intent.action \in {"payment", "transfer"}
    /\ intent.asset = "USDC"
    /\ Usdc(intent.network) \in Address
    /\ intent.recipient \in Address
    /\ Precise(intent.amount)
    /\ ToBaseUnits(intent.amount) > 0

Build(id, intent) ==
    [id |-> id, chain |-> Chain[intent.network].id, network |-> intent.network,
     from |-> Signer, to |-> Usdc(intent.network), value |-> 0,
     call |-> [function |-> "transfer", target |-> intent.recipient,
               units |-> ToBaseUnits(intent.amount)],
     asset |-> "USDC", amount |-> intent.amount]

(* What a transaction really does; nothing is guessed of other calls.      *)
Decode(tx) ==
    IF tx.call.function \in {"transfer", "approve", "transferFrom"}
    THEN tx.call ELSE [function |-> Unset, target |-> Unset, units |-> Unset]

RiskFlags(tx) ==
    LET function == Decode(tx).function IN
    (CASE function = Unset          -> {"unknown_function"}
       [] function = "approve"      -> {"approval"}
       [] function = "transferFrom" -> {"transfer_from"}
       [] OTHER                     -> {})
    \cup IF tx.value # 0 THEN {"nonzero_native_value"} ELSE {}

AnalysisStatus(tx) ==
    CASE RiskFlags(tx) = {}                   -> "VALID"
      [] "unknown_function" \in RiskFlags(tx) -> "INVALID"
      [] OTHER                                -> "SUSPICIOUS"

(* Mutant of Discrepancies: the recipient is not compared. *)
DiscrepanciesBarPayee(tx, authorized) ==
    LET decoded == Decode(tx) IN
    (IF tx.chain # authorized.chain THEN {"chain"} ELSE {})
    \cup (IF tx.network # authorized.network THEN {"network"} ELSE {})
    \cup (IF decoded.units # ToBaseUnits(authorized.amount) THEN {"amount"} ELSE {})

Discrepancies(tx, authorized) ==
    LET decoded == Decode(tx)
        usdc == Usdc(authorized.network)
    IN (IF tx.chain # authorized.chain THEN {"chain"} ELSE {})
       \cup (IF tx.network # authorized.network THEN {"network"} ELSE {})
       \cup (IF tx.asset # authorized.asset THEN {"asset_symbol"} ELSE {})
       \cup (CASE usdc = Unset -> {"token_unknown"}
               [] usdc # Unset /\ tx.to \in Address /\ tx.to # usdc -> {"token_contract"}
               [] OTHER -> {})
       \cup (CASE decoded.function = Unset -> {"unknown_function"}
               [] decoded.function \in {"approve", "transferFrom"} -> {"unexpected_function"}
               [] OTHER ->
                     (IF decoded.target = authorized.recipient THEN {} ELSE {"recipient"})
                     \cup (IF decoded.units = ToBaseUnits(authorized.amount)
                           THEN {} ELSE {"amount"}))
       \cup (IF tx.value # 0 THEN {"native_value"} ELSE {})

-----------------------------------------------------------------------------
(* A receipt is a status and the Transfer events of the token contracts.   *)
Matches(transfer, authorized) ==
    /\ Usdc(authorized.network) \in Address /\ transfer.token = Usdc(authorized.network)
    /\ authorized.recipient \in Address /\ transfer.to = authorized.recipient

(* Mutant of ReceiptDiscrepancies: any transfer to the recipient will do. *)
DiscrepanciesBarAmount(receipt, authorized, network) ==
    (IF receipt.status = "success" THEN {} ELSE {"tx_reverted"})
    \cup (IF \E n \in DOMAIN receipt.transfers : Matches(receipt.transfers[n], authorized)
          THEN {} ELSE {"recipient"})
    \cup (IF authorized.network = network THEN {} ELSE {"network"})

ReceiptDiscrepancies(receipt, authorized, network) ==
    LET matching == {n \in DOMAIN receipt.transfers :
                        Matches(receipt.transfers[n], authorized)}
        first == receipt.transfers[CHOOSE n \in matching : \A m \in matching : n <= m]
    IN (IF receipt.status = "success" THEN {} ELSE {"tx_reverted"})
       \cup (CASE receipt.transfers = <<>> -> {"recipient", "no_transfer"}
               [] receipt.transfers # <<>> /\ matching = {} ->
                     {"recipient"}
                     \cup (IF receipt.transfers[1].token = Usdc(authorized.network)
                           THEN {} ELSE {"asset"})
               [] OTHER -> IF first.units = ToBaseUnits(authorized.amount)
                           THEN {} ELSE {"amount"})
       \cup (IF authorized.network = network THEN {} ELSE {"network"})

-----------------------------------------------------------------------------
(* x402: an external service's requirement, which networks it may name,    *)
(* and the candidate that it becomes, for Core to authorize.               *)
Acceptable(r, networks, usdc) ==
    /\ r.scheme = "exact"
    /\ r.network \in networks
    /\ r.payTo \in Address
    /\ r.asset = usdc
    /\ r.amount \in Nat

Candidate(r, chain) ==
    [intent |-> [action |-> "payment", network |-> r.network, asset |-> "USDC",
                 amount |-> r.amount, recipient |-> r.payTo],
     expectation |-> [network |-> r.network, chain |-> chain, recipient |-> r.payTo,
                      asset |-> "USDC", amount |-> r.amount]]
=============================================================================
