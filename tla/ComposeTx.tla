------------------------------ MODULE ComposeTx ------------------------------
(***************************************************************************)
(* composeTx: a list of send and swap steps becomes one transaction.  The   *)
(* first pass checks the references between steps; then each step's appender*)
(* reads the wallet, which other transactions change meanwhile, and appends *)
(* its commands.  A command names what it consumes: the output coin of an   *)
(* earlier swap, the merged coin objects of a type, a fresh split, or gas.  *)
(***************************************************************************)
EXTENDS CoinSelection

CONSTANTS
  CoinType,      \* holds "SUI" and the stables; anything else is an ALT
  Stables,
  Plan,          \* lists of steps a caller may ask for
  InitialWallet, \* wallets at the start
  Balances,      \* what objects and address balance may become meanwhile
  MaxChanges, sender, Absent

Holdings(b) == /\ b.objects \in Seq(Nat) /\ b.addr \in Nat
               /\ SumOf(b.objects) \in Nat

\* A plan has a step, amounts and balances are whole units of a coin.
ASSUME ComposeAssumption ==
  /\ "SUI" \in CoinType /\ Stables \subseteq CoinType /\ Unmerged \notin Int
  /\ \A p \in Plan :
       /\ Len(p) \in Nat \ {0} /\ DOMAIN p = 1..Len(p)
       /\ \A i \in DOMAIN p : /\ p[i].toolName \in {"send_transfer", "swap_execute"}
                              /\ p[i].amount \in Int
  /\ \A w \in InitialWallet : DOMAIN w = CoinType /\ \A t \in CoinType : Holdings(w[t])
  /\ \A b \in Balances : Holdings(b)

VARIABLES
  plan, sponsored, wallet, changes,
  at,      \* the step being appended; 0 before the first pass
  cmds,    \* the transaction so far
  cache,   \* coinMergeCache: what is left of the merged coin of a type
  verdict  \* "open", "built" or the code of the error thrown

composeVars == <<plan, sponsored, wallet, changes, at, cmds, cache, verdict>>

ComposeInit ==
  /\ plan \in Plan /\ sponsored \in BOOLEAN /\ wallet \in InitialWallet
  /\ changes = 0
  /\ at = 0
  /\ cmds = <<>>
  /\ cache = [t \in CoinType |-> Unmerged]
  /\ verdict = "open"

Steps == DOMAIN plan
IsConsumer(i) == plan[i].inputCoinFromStep # Absent

\* Steps are numbered from 1.  References go back, and only to a swap.
ReferenceOK(i) ==
  LET idx == plan[i].inputCoinFromStep
  IN  idx \in 1..(i - 1) /\ plan[idx].toolName = "swap_execute"

\* Plausible bug: a consumed output is not remembered as consumed.
consumedSteps_forgotten == {}

consumedSteps == {plan[i].inputCoinFromStep : i \in {j \in Steps : IsConsumer(j)}}

Validate ==
  /\ at = 0 /\ verdict = "open"
  /\ IF \A i \in Steps : IsConsumer(i) => ReferenceOK(i)
       THEN at' = 1 /\ UNCHANGED verdict
       ELSE verdict' = "CHAIN_MODE_INVALID" /\ UNCHANGED at
  /\ UNCHANGED <<plan, sponsored, wallet, changes, cmds, cache>>

----------------------------------------------------------------------------
\* outs: step outputs consumed; whole: merged coins consumed; part, merges:
\* merged coins split or made; gas: tx.gas used; to: recipients.
Cmd(op) == [op |-> op, step |-> at, outs |-> {}, whole |-> {}, part |-> {},
            merges |-> {}, gas |-> FALSE, to |-> {}, took |-> 0, safe |-> TRUE]

\* Where a step's input comes from, as the fields of the command that uses it.
Chained(c) == [c EXCEPT !.outs = {plan[at].inputCoinFromStep}]

FromObjects(c, t, got) ==
  [c EXCEPT !.took = got.took,
            !.merges = IF got.merge THEN {t} ELSE {},
            !.whole = IF got.whole THEN {t} ELSE {},
            !.part = IF got.whole THEN {} ELSE {t}]

Throw(code) == verdict' = code /\ UNCHANGED <<at, cmds, cache>>

Append1(new, caches) ==
  /\ cmds' = cmds \o new
  /\ cache' = caches
  /\ at' = at + 1
  /\ verdict' = IF at = Len(plan) THEN "built" ELSE "open"

\* Plausible bug: the route's providers are not looked at.
UsesPrecomputed_anywhere(s, effectiveRaw) ==
  /\ s.route # Absent
  /\ s.route.amountIn = effectiveRaw /\ s.route.byAmountIn = s.byAmountIn

\* A precomputed route is used as it is when amount and direction are the
\* leg's and its providers are all on the list; otherwise one is discovered,
\* which honours the list.  A sponsored leg without a list gets the safe one.
UsesPrecomputed(s, effectiveRaw) ==
  /\ s.route # Absent
  /\ s.route.amountIn = effectiveRaw /\ s.route.byAmountIn = s.byAmountIn
  /\ sponsored => s.route.safe

\* The swap and, unless a later step consumes its output, the transfer home.
SwapCommands(s, c) ==
  LET used == IF IsConsumer(at) THEN s.amount ELSE c.took
      swap == [c EXCEPT !.safe = IF UsesPrecomputed(s, used) THEN s.route.safe ELSE sponsored]
      back == [Cmd("transfer") EXCEPT !.outs = {at}, !.to = {sender}]
  IN  IF at \in consumedSteps THEN <<swap>> ELSE <<swap, back>>

\* The commands of a step over the coin it got.
Commands(s, c) == IF s.toolName = "swap_execute" THEN SwapCommands(s, c) ELSE <<c>>

\* Wallet-mode source of the step's coin.  The sponsor owns tx.gas, so a sponsored
\* SUI leg takes objects (selectSuiCoin).
Sourced(c, t, amount) ==
  IF sponsored
    THEN LET got == selectCoinObjectsOnly(wallet[t], amount, cache[t])
         IN  IF got = Refused THEN Throw("ADDRESS_BALANCE_UNSPONSORABLE")
             ELSE Append1(Commands(plan[at], FromObjects(c, t, got)),
                          [cache EXCEPT ![t] = got.cache])
    ELSE IF t = "SUI"
           THEN Append1(Commands(plan[at], [c EXCEPT !.gas = TRUE, !.took = amount]), cache)
    ELSE LET got == selectAndSplitCoin(wallet[t], amount, TRUE)
         IN  IF got = Refused THEN Throw("INSUFFICIENT_BALANCE")
             ELSE Append1(Commands(plan[at], [c EXCEPT !.took = got.took]), cache)

send_transfer ==
  LET s == plan[at]
      c == [Cmd("transfer") EXCEPT !.to = {s.to}]
  IN  IF s.from \notin Stables \union {"SUI"} THEN Throw("INVALID_ASSET")
      ELSE IF s.amount <= 0 THEN Throw("INVALID_AMOUNT")
      ELSE IF IsConsumer(at) THEN Append1(<<Chained(c)>>, cache)
      ELSE IF s.from = "SUI" THEN Sourced(c, "SUI", s.amount)
      ELSE IF s.amount < GASLESS_MIN THEN Throw("INVALID_AMOUNT")
      ELSE IF Total(wallet[s.from]) < s.amount THEN Throw("INSUFFICIENT_BALANCE")
      ELSE Append1(<<[c EXCEPT !.op = "send_funds", !.took = s.amount]>>, cache)

swap_execute ==
  LET s == plan[at]
      c == Cmd("swap")
  IN  \/ IF {s.from, s.to} \subseteq CoinType /\ s.from # s.to /\ s.amount > 0
           THEN IF IsConsumer(at)
                  THEN Append1(SwapCommands(s, Chained(c)), cache)
                  ELSE Sourced(c, s.from, s.amount)
           ELSE Throw("SWAP_FAILED")
      \/ Throw("SWAP_NO_ROUTE")

AppendStep ==
  /\ at > 0 /\ verdict = "open"
  /\ IF plan[at].toolName = "send_transfer" THEN send_transfer ELSE swap_execute
  /\ UNCHANGED <<plan, sponsored, wallet, changes>>

WalletChanges ==
  /\ verdict = "open" /\ changes < MaxChanges
  /\ changes' = changes + 1
  /\ \E t \in CoinType, b \in Balances : wallet' = [wallet EXCEPT ![t] = b]
  /\ UNCHANGED <<plan, sponsored, at, cmds, cache, verdict>>

ComposeNext == Validate \/ AppendStep \/ WalletChanges

ComposeSpec == ComposeInit /\ [][ComposeNext]_composeVars

\* The addresses the sponsor is told to allow: the recipients of top-level
\* TransferObjects and of the framework's send_funds calls.
deriveAllowedAddressesFromPtb ==
  UNION {cmds[k].to : k \in {j \in DOMAIN cmds : cmds[j].op \in {"transfer", "send_funds"}}}

----------------------------------------------------------------------------
Consumes(k, i) == i \in cmds[k].outs
Takes(k, t) == t \in cmds[k].whole \union cmds[k].part

\* In the finished transaction a swap's output coin is taken by one command of
\* each step that names it and by nothing else, and by the transfer home exactly
\* when no step names it - for every plan.  So no handle is used twice but one the
\* caller named twice, which the first pass lets through; and none is left over.
\* (composeTx on isOutputConsumed: "gets used twice (once by the consumer, once by
\* the transfer)".)
OutputsGoWhereNamed ==
  verdict = "built" =>
    \A i \in Steps : plan[i].toolName = "swap_execute" =>
      LET uses  == {k \in DOMAIN cmds : Consumes(k, i)}
          named == {j \in Steps : IsConsumer(j) /\ plan[j].inputCoinFromStep = i}
      IN  /\ {cmds[k].step : k \in uses} = IF named = {} THEN {i} ELSE named
          /\ \A j, k \in uses : cmds[j].step = cmds[k].step => j = k

\* The coin objects of a type are merged once however many sponsored legs
\* draw on them, and nothing draws on the merged coin after a leg that took
\* all of it: a second merge names objects that are gone (coinSelection.ts).
MergedCoinIsLinear ==
  \A j, k \in DOMAIN cmds : \A t \in CoinType :
    /\ t \in cmds[j].merges \intersect cmds[k].merges => j = k
    /\ j < k /\ t \in cmds[j].whole => ~Takes(k, t)

\* The sponsor's side of the bargain: a sponsored transaction never names
\* tx.gas, which is the sponsor's, neither for a SUI leg nor through a provider
\* that pays its oracle from it, not even by a route that was quoted before the
\* exclusion list applied; and the sponsor is told of every address the steps
\* pay to, and of no other.
SponsorIsNotSurprised ==
  sponsored =>
    /\ \A k \in DOMAIN cmds : ~cmds[k].gas /\ (cmds[k].op = "swap" => cmds[k].safe)
    /\ verdict = "built" =>
         deriveAllowedAddressesFromPtb =
           {plan[i].to : i \in {j \in Steps : plan[j].toolName = "send_transfer"}}
             \union {sender : i \in {j \in Steps \ consumedSteps :
                                       plan[j].toolName = "swap_execute"}}

\* The migration takes as few coin objects as any choice that covers the
\* amount, and refuses only what no choice covers.
MigrationIsLeast ==
  \A t \in CoinType : \A need \in 1..(Total(wallet[t]) + 1) :
    LET coins == wallet[t].objects
        got == buildCoinToAddressBalanceMigration(coins, need)
        covering == Covering(coins, need)
    IN  IF covering = {} THEN got = Refused
        ELSE /\ got \in covering
             /\ \A S \in covering : Cardinality(got) <= Cardinality(S)
=============================================================================
