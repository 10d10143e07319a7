----------------------------- MODULE MCComposeTx -----------------------------
(* Instances of ComposeTx for TLC.                                          *)
EXTENDS ComposeTx

CONSTANTS bob

Send(asset, amount, from) ==
  [toolName |-> "send_transfer", from |-> asset, to |-> bob, amount |-> amount,
   byAmountIn |-> TRUE, route |-> Absent, inputCoinFromStep |-> from]

Swap(a, b, amount, route, from) ==
  [toolName |-> "swap_execute", from |-> a, to |-> b, amount |-> amount,
   byAmountIn |-> TRUE, route |-> route, inputCoinFromStep |-> from]

Route(amount, safe) == [amountIn |-> amount, byAmountIn |-> TRUE, safe |-> safe]

MCStep ==
  {Send("USDC", 2, Absent), Send("USDC", 2, 1), Send("SUI", 1, 2), Send("ALT", 1, Absent),
   Swap("USDC", "SUI", 2, Absent, Absent), Swap("USDC", "SUI", 2, Route(2, FALSE), Absent),
   Swap("SUI", "USDC", 1, Route(1, TRUE), Absent), Swap("SUI", "USDC", 1, Route(2, TRUE), 1)}

\* Among them plans in which two steps name one output.
MCPlan == SeqOf(MCStep, 3) \ {<<>>}

MCWallet == [CoinType -> {[objects |-> <<1, 3>>, addr |-> 1], [objects |-> <<2>>, addr |-> 0]}]
MCBalances == {[objects |-> <<1, 2, 0, 2>>, addr |-> 2], [objects |-> <<>>, addr |-> 3]}
=============================================================================
