--------------------------- MODULE MCPaymentRails ---------------------------
(* Two executions of one transaction id on the pipeline and one operation  *)
(* of the smart account, each with money for one payment.  A context may   *)
(* also be registered for another transaction and the second execution.    *)
(* What may be registered: an x402 candidate, one for a chain that is not  *)
(* the provider's, a context whose intent pays another than was            *)
(* authorized, and one authorized more finely than the token counts.       *)
EXTENDS PaymentRails

CONSTANTS alice, mallory, token, other, t1, t2, c1, c2, a1

MCChain == [base |-> [id |-> 1, usdc |-> token], main |-> [id |-> 2, usdc |-> other]]

Pay(network, to, amount) ==
    [action |-> "payment", network |-> network, asset |-> "USDC",
     amount |-> amount, recipient |-> to]
Expect(network, to, amount) ==
    [network |-> network, chain |-> MCChain[network].id, recipient |-> to,
     asset |-> "USDC", amount |-> amount]

MCAuthorizable ==
    {[intent |-> Pay("base", mallory, 10), expectation |-> Expect("base", alice, 10)],
     [intent |-> Pay("base", alice, 10), expectation |-> Expect("base", alice, 15)]}

(* A service may name any allowed network with the provider's token.       *)
MCRequirement ==
    [scheme: {"exact"}, network: {"base", "main"}, payTo: {alice}, asset: {token}, amount: {10}]

MCTransactionOf == [j \in {c1, c2} |-> t1]
MCRegistration == {<<t1, {}>>, <<t2, {c2}>>}
MCNetworkOf == [j \in {c1, c2} |-> "base"]

(* Of the token whose balances are kept, and of another.                   *)
MCOrder == {[token |-> token, recipient |-> mallory, units |-> 1],
            [token |-> other, recipient |-> alice, units |-> 2]}
=============================================================================
