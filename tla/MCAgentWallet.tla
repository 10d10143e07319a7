---------------------------- MODULE MCAgentWallet ----------------------------
(* Instances of AgentWallet for TLC.                                        *)
EXTENDS AgentWallet, TLC

CONSTANTS c1, c2, h1, me, seller

V(op, asset, amount, force) ==
  [op |-> op, asset |-> asset, amount |-> amount, force |-> force]

MCVerbs == {V("send", "usdc type", 2, FALSE), V("job", "USDC", 1, TRUE),
            V("pay", "USDC", 2, FALSE), V("pay", "USDC", NoPrice, FALSE)}

MCSettings == {[perTxUsd |-> 1, dailyUsd |-> None]}

Conf(perTx, daily, legacy, date, usd) ==
  [perTxUsd |-> perTx, dailyUsd |-> daily, dailySendUsd |-> legacy,
   date |-> date, usd |-> usd, others |-> TRUE]

MCFiles == {Unreadable, Conf(2, 0, 3, 0, 1)}
MCPurse == {[addr |-> 0, coins |-> 2]}

Exact(price, payTo, suimpp, escrow, network) ==
  [scheme |-> "exact", network |-> network, suimpp |-> suimpp, escrow |-> escrow,
   price |-> price, payTo |-> payTo]

Ask(entries) == [status |-> 402, header |-> FALSE, accepts |-> entries]

\* Payable, dear, with a foreign or an unpayable entry first, to oneself; then the
\* answers that are no offer.
Cheap == Exact(2, seller, TRUE, FALSE, "sui:mainnet")

MCAnswers ==
  {Ask(<<Cheap>>), Ask(<<Exact(3, seller, TRUE, FALSE, "sui:mainnet")>>),
   Ask(<<Exact(1, seller, TRUE, FALSE, "base"), Cheap>>),
   Ask(<<Exact(1, seller, TRUE, FALSE, "sui:testnet"), Cheap>>),
   Ask(<<Exact(1, seller, FALSE, FALSE, "sui:mainnet"), Cheap>>),
   Ask(<<Exact(1, seller, FALSE, TRUE, "sui:mainnet")>>),
   Ask(<<Exact(1, me, TRUE, FALSE, "sui:mainnet")>>),
   Ask(<<>>), [Ask(<<>>) EXCEPT !.header = TRUE],
   [Ask(<<>>) EXCEPT !.status = 200], [Ask(<<>>) EXCEPT !.status = 500]}

OneHost == [c \in Call |-> h1]
CallSymmetry == Permutations({c1, c2})
=============================================================================
