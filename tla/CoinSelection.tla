---------------------------- MODULE CoinSelection ----------------------------
(***************************************************************************)
(* Where a transaction's coins come from (wallet/coinSelection.ts, send.ts): *)
(* the self-funded path over the combined balance, the sponsored path over   *)
(* coin objects merged once per transaction, the gasless send's dust floor,  *)
(* and the migration of whole coin objects into the address balance.  Pure   *)
(* operators; a wallet is, per coin type, the balances of its coin objects   *)
(* in listing order and its address balance.                                 *)
(***************************************************************************)
EXTENDS Integers, Sequences, FiniteSets, FiniteSetsExt, SequencesExt

CONSTANTS All, Refused, Unmerged, GASLESS_MIN

SumOf(coins) == FoldSeq(+, 0, coins)
Total(purse) == SumOf(purse.objects) + purse.addr

Smaller(a, b) == IF a < b THEN a ELSE b

\* coinWithBalance over objects and address balance together; a request above
\* the balance is clipped to it unless allowSwapAll is off.
selectAndSplitCoin(purse, amount, allowSwapAll) ==
  LET total == Total(purse)
  IN  IF total = 0 \/ (amount # All /\ amount > total /\ ~allowSwapAll)
        THEN Refused
        ELSE [took |-> IF amount = All THEN total ELSE Smaller(amount, total)]

\* Plausible bug: every leg merges the listed objects afresh.
selectCoinObjectsOnly_uncached(purse, amount, cached) ==
  LET held == SumOf(purse.objects)
      requested == IF amount = All THEN held ELSE amount
  IN  IF held = 0 \/ requested > held
        THEN Refused
        ELSE [took |-> requested, merge |-> TRUE, whole |-> requested = held,
              cache |-> held - requested]

\* Sponsored: coin objects only.  The first leg of a type merges them all into
\* the first and caches what is left; later legs draw on the cache.  A leg that
\* takes everything takes the merged coin itself, any other a split of it.
selectCoinObjectsOnly(purse, amount, cached) ==
  LET first == cached = Unmerged
      held == IF first THEN SumOf(purse.objects) ELSE cached
      requested == IF amount = All THEN held ELSE amount
  IN  IF held = 0 \/ requested > held
        THEN Refused
        ELSE [took |-> requested, merge |-> first, whole |-> requested = held,
              cache |-> held - requested]

----------------------------------------------------------------------------
\* Some coins of a wallet, by their place in the listing: the units they hold,
\* and what they are worth together.
Units(coins, S) == UNION {{i} \X (1..coins[i]) : i \in S}
Value(coins, S) == Cardinality(Units(coins, S))

\* Largest coins first (ties in listing order), empty ones left out.
Filled(coins) == {i \in DOMAIN coins : coins[i] > 0}
Before(coins, i, j) == coins[i] > coins[j] \/ (coins[i] = coins[j] /\ i < j)
Largest(coins, n) ==
  {i \in Filled(coins) : Cardinality({j \in Filled(coins) : Before(coins, j, i)}) < n}

\* Plausible bug: in listing order.
migration_unsorted(coins, minAmount) ==
  LET Enough == {n \in 0..Len(coins) : Value(coins, 1..n) >= minAmount}
  IN  IF Enough = {} THEN Refused ELSE 1..Min(Enough)

\* The coin objects whose whole value moves: the largest, one more at a time,
\* until minAmount is reached.
buildCoinToAddressBalanceMigration(coins, minAmount) ==
  LET Enough == {n \in 0..Len(coins) : Value(coins, Largest(coins, n)) >= minAmount}
  IN  IF Enough = {} THEN Refused ELSE Largest(coins, Min(Enough))

\* Reference: every choice of coin objects that covers the amount.
Covering(coins, minAmount) == {S \in SUBSET (DOMAIN coins) : Value(coins, S) >= minAmount}
=============================================================================
