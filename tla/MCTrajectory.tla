---------------------------- MODULE MCTrajectory ----------------------------
(* Two consumers, three entries read two at a time, and messages that are  *)
(* a first event of the trace, another one, a second event that claims the *)
(* former as its predecessor, and a message with no event in it.           *)
EXTENDS Trajectory

CONSTANTS c1, c2

MCConsumer == {c1, c2}
MCContent == {"a", "b"}

Good(n, x, prev) == [seq |-> n, content |-> x, form |-> "good", claim |-> prev]
First == Good(1, "a", Unclaimed)

MCMessage ==
    {First, Good(1, "b", Unclaimed), Good(2, "b", <<"a">>), [First EXCEPT !.form = "empty"]}
=============================================================================
