--------------------------- MODULE MCAuthorization --------------------------
(* One handler, one decision, two capabilities of which one is granted with *)
(* a window that began earlier, two policy versions of which the first     *)
(* passes and the second asks for review, and callers whose evidence is in *)
(* order or has one thing wrong with it.                                   *)
EXTENDS Authorization, TLC

CONSTANTS h1, d1, c1, c2

MCHandler == {h1}
MCDecision == {d1}
MCCapability == {c1, c2}
MCBackdated == {c2}
MCVerdict == <<"PASS", "REVIEW">>
MCProposal == [recipient |-> "payee", amount |-> 10, asset |-> "USDC", action |-> "PAY"]
MCNetwork == "base"
MCTransaction == "tx"

Analysis == [recipient |-> "payee", amount |-> 10, asset |-> "USDC",
             status |-> "VALID", function |-> "transfer", risks |-> {}]
Good == [analysis |-> Analysis, network |-> "base",
         simulation |-> [transaction |-> "tx", status |-> "PASS"],
         simulated |-> PayloadHash("tx", "base", Analysis),
         flags |-> {}, advice |-> "PROCEED_CANDIDATE"]
Elsewhere == [Analysis EXCEPT !.recipient = "other"]

MCEvidence ==
    {Good,
     [Good EXCEPT !.analysis = Elsewhere,
                  !.simulated = PayloadHash("tx", "base", Elsewhere)],
     [Good EXCEPT !.network = "other",
                  !.simulated = PayloadHash("tx", "other", Analysis)],
     [Good EXCEPT !.analysis.function = "approve"],
     [Good EXCEPT !.simulation.transaction = "other"],
     [Good EXCEPT !.simulated = PayloadHash("tx", "base", Elsewhere)],
     [Good EXCEPT !.simulation.status = "REVERT"],
     [Good EXCEPT !.simulation.status = "UNEXPECTED_STATE_CHANGE", !.advice = "REVIEW"],
     [Good EXCEPT !.simulation.status = "ERROR", !.flags = {"simulation_required"}],
     [Good EXCEPT !.simulation.status = "ERROR", !.advice = "none"],
     [Good EXCEPT !.flags = {"assessment_old"}, !.advice = "DENY_RECOMMENDED"]}
=============================================================================
