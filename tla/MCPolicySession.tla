--------------------------- MODULE MCPolicySession --------------------------
(* Eight policies, between them of every rule type, and proposals that meet *)
(* each of them on both sides.  Amounts are in units of ten dollars.       *)
EXTENDS PolicySession, TLC

Rule(id, type, config) ==
    [id |-> id, type |-> type, priority |-> 100, enabled |-> TRUE, config |-> config]
Unset == [n \in {} |-> 0]
Members(s) == [members |-> s]

DailyLimit == {Rule(1, "CUMULATIVE_LIMIT", [window |-> "daily", maximum |-> 10])}

MCPolicies ==
    {{Rule(1, "AMOUNT_LIMIT", [maximum |-> 4]),
      Rule(2, "NETWORK_ALLOW", Members({"base"})),
      Rule(3, "CAPABILITY_EXPIRY", Unset)},
     {Rule(1, "TIME_WINDOW", [start_hour |-> 20, end_hour |-> 6]),
      Rule(2, "RECIPIENT_BLOCKLIST", Members({"mallory"})),
      Rule(3, "NETWORK_BLOCK", Members({"other"})),
      [Rule(4, "HUMAN_APPROVAL", Unset) EXCEPT !.enabled = FALSE]},
     {Rule(1, "TIME_WINDOW", [start_hour |-> 5, end_hour |-> 15]),
      Rule(2, "RECIPIENT_ALLOWLIST", Members({"alice"})),
      Rule(3, "ASSET_ALLOW", Members({"USDC"})),
      Rule(4, "CATEGORY_BLOCK", Members({"gambling"}))},
     {Rule(1, "NO_STRUCTURING", [threshold |-> 5, window |-> 10, max_count |-> 1]),
      Rule(2, "CUMULATIVE_LIMIT", [window |-> "recipient", maximum |-> 10]),
      Rule(3, "ASSET_BLOCK", Members({"DAI"}))},
     {Rule(1, "REQUIRED_PREDECESSOR", [predecessor |-> "invoice_verified"])},
     {Rule(1, "NEW_RECIPIENT_APPROVAL", Unset),
      Rule(2, "CATEGORY_ALLOW", Members({"api"}))},
     {Rule(1, "HUMAN_APPROVAL", Unset)},
     DailyLimit}

MCDailyLimit == {DailyLimit}

Pay == [amount |-> 4, recipient |-> "alice", asset |-> "USDC", network |-> "base",
        recipientNetwork |-> "base"]
MCProposals ==
    {Pay,
     [Pay EXCEPT !.amount = 11],
     [Pay EXCEPT !.recipient = "mallory", !.asset = "DAI"],
     [Pay EXCEPT !.network = Absent, !.recipientNetwork = "other"],
     [Pay EXCEPT !.amount = Absent, !.asset = Absent, !.recipient = Absent]}
MCPay == {Pay}
=============================================================================
