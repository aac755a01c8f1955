--------------------------- MODULE MCReservations ---------------------------
(* Three reservations of 1, 2 and 2 units against a limit of 3: two of the *)
(* small and a large one fit together, the two large ones do not.          *)
EXTENDS Reservations, TLC

CONSTANTS r1, r2, r3, h1, h2

MCReservation == {r1, r2, r3}
MCAmount == r1 :> 1 @@ r2 :> 2 @@ r3 :> 2
MCHandler == {h1, h2}
Symmetry == Permutations(MCHandler)
=============================================================================
