----------------------------- MODULE MCPayment ------------------------------
(* One execution, two Core handlers, two execute calls, three reservations *)
(* of one unit each of which a limit of 2 fits two.                        *)
EXTENDS Payment, TLC

CONSTANTS h1, h2, e1, r1, r2, r3, c1, c2

MCHandler == {h1, h2}
MCExec == {e1}
MCReservation == {r1, r2, r3}
MCAmount == [r \in MCReservation |-> 1]
MCCall == {c1, c2}
Symmetry == Permutations(MCHandler) \cup Permutations(MCReservation)
               \cup Permutations(MCCall)
=============================================================================
