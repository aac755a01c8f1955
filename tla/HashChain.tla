----------------------------- MODULE HashChain ------------------------------
(***************************************************************************)
(* What a trajectory trace promises: its events form one chain that only   *)
(* grows at its end, and that no longer grows once it is closed.  The hash *)
(* of an event fixes its content and its predecessor's hash, so a hash     *)
(* stands for the contents up to its event, and the chain is the hash of   *)
(* its head.                                                               *)
(***************************************************************************)
EXTENDS Sequences

CONSTANT Content

VARIABLES chain, phase

vars == <<chain, phase>>

Init ==
    /\ chain = <<>>
    /\ phase = "open"

(* The append that was under way when the trace was closed may also be the *)
(* one that ends it.                                                       *)
Extend(c) ==
    /\ phase = "open"
    /\ chain' = Append(chain, c)
    /\ phase' \in {"open", "closed"}

Close ==
    /\ phase = "open"
    /\ phase' = "closed"
    /\ UNCHANGED chain

Next == (\E c \in Content : Extend(c)) \/ Close

Spec == Init /\ [][Next]_vars
=============================================================================
