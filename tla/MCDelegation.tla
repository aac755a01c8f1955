---------------------------- MODULE MCDelegation ----------------------------
(* Two calls at a time, a line of three capabilities, two constitution     *)
(* versions.  One asset, one category scope and one limit stand for the    *)
(* pins, scopes and periods, which are all compared alike.                 *)
EXTENDS Delegation, TLC

CONSTANTS h1, h2, any

MCHandler == {h1, h2}
MCAction == {"pay", "swap"}

Ask(action, scope, limit, until) ==
    [action |-> action, pins |-> [p \in {"asset"} |-> "usdc"],
     scopes |-> [s \in {"category"} |-> scope],
     limits |-> [d \in {"single"} |-> limit], from |-> any, until |-> until]

(* More money for one category, and less money for any category. *)
MCRequest == {Ask("pay", {"a"}, 2, 1), Ask("pay", {}, 1, 1)}

(* Only the second is within it. *)
MCConfig ==
    {[allowed |-> MCAction, blocked |-> {"swap"}, pins |-> [p \in {"asset"} |-> {"usdc"}],
      items |-> {"a", "b"}, limit |-> 1]}

MCSample ==
    [action: MCAction, pins: [{"asset"} -> {"usdc", "eth"}], scopes: [{"category"} -> {"a", "c"}],
     amounts: [{"single"} -> {1, 2}], time: {0, 1}]
Symmetric == Permutations(MCHandler)
=============================================================================
