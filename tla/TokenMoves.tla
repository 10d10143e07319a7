----------------------------- MODULE TokenMoves -----------------------------
(***************************************************************************)
(* send and swap of an agent's wallet.  Both turn a displayed amount into   *)
(* base units by decimals they may have to read, and move money some awaits *)
(* later; a swap may be bound to a quote that was taken earlier, while the  *)
(* market moves, and what it reports is pieced together from reads of the   *)
(* chain and displayed by decimals that are read, too.  (The spending gate  *)
(* around both is in AgentWallet.)                                          *)
(***************************************************************************)
EXTENDS Integers, FiniteSets, FiniteSetsExt

CONSTANTS
  Coin,
  Registered,          \* COIN_REGISTRY
  Gasless,             \* the stables sent without gas
  Decimals,            \* of each coin, as its metadata has them
  GuessedDecimals,     \* the registry's guess: a like-named coin's, or 9
  Amount,              \* displayed amounts, in halves
  GASLESS_FLOOR,         \* smallest gasless amount or remainder, in base units
  Rate,                \* base units of output per base unit of input
  Slippage, SLIPPAGE_MIN, SLIPPAGE_MAX, SLIPPAGE_UNIT,
  NEAR,                \* two displayed amounts less than 1/NEAR apart are near
  FRESH_MS, MaxNow,
  Funds,               \* wallets at the start
  MaxQuotes,           \* bound: quotes taken
  MaxMoves,            \* bound: foreign transfers and changes of the market
  NoRoute, Junk

ASSUME TokenAssumption ==
  /\ Registered \subseteq Coin /\ Gasless \subseteq Registered
  /\ {Decimals, GuessedDecimals} \subseteq [Coin -> Nat]
  /\ \A c \in Registered : GuessedDecimals[c] = Decimals[c]
  /\ {GASLESS_FLOOR, FRESH_MS, MaxNow, MaxQuotes, MaxMoves} \subseteq Nat
  /\ Amount \subseteq Nat /\ Rate \subseteq Nat \ {0} /\ Funds \subseteq [Coin -> Nat]
  /\ Slippage \subseteq Int /\ {SLIPPAGE_MIN, SLIPPAGE_MAX} \subseteq Nat
  /\ {SLIPPAGE_UNIT, NEAR} \subseteq Nat \ {0}
  /\ SLIPPAGE_MIN <= SLIPPAGE_MAX /\ SLIPPAGE_MAX <= SLIPPAGE_UNIT

VARIABLES
  now, rate,
  quotes,    \* serialized routes the agent was given
  funds,     \* base units of each coin
  moves,
  op         \* the send or swap under way, or the last one

tokenVars == <<now, rate, quotes, funds, moves, op>>

\* A displayed amount: base units over a power of ten.
Shown(raw, d) == [raw |-> raw, decimals |-> d]

SameAmount(a, b) == a.raw * 10^b.decimals = b.raw * 10^a.decimals

\* left and got, history: what the transaction took and what it brought.
\* disturbed, history: the output coin moved for another reason meanwhile.
\* toKnown and heard, history: the output's decimals were not guessed, and one
\* of the report's own two reads answered.
NoOp ==
  [pc |-> "idle", kind |-> "none", from |-> NoRoute, to |-> NoRoute, amount |-> 0,
   byAmountIn |-> TRUE, slip |-> 0, bound |-> NoRoute, raw |-> 0, route |-> NoRoute,
   toDecimals |-> 0, toKnown |-> FALSE, pre |-> 0, preRead |-> FALSE, left |-> 0, got |-> 0,
   told |-> Shown(0, 0), heard |-> FALSE, disturbed |-> FALSE]

TokenInit ==
  /\ now = 0 /\ rate \in Rate
  /\ quotes = {} /\ funds \in Funds /\ moves = 0
  /\ op = NoOp

----------------------------------------------------------------------------
\* Plausible bug: the decimals are guessed, and the metadata never read.
resolveCoinDecimals_Guessed(c, read) == GuessedDecimals[c]

\* A registered coin needs no read; a read that fails falls back to the guess.
resolveCoinDecimals(c, read) ==
  IF c \in Registered \/ read THEN Decimals[c] ELSE GuessedDecimals[c]

\* send rounds, swap and quotes cut off.
displayToRaw(amount, d) == (amount * 10^d + 1) \div 2
FloorToRaw(amount, d) == (amount * 10^d) \div 2

\* External: the aggregator's route, at the market of the moment, or none.
findRouters(raw, byAmountIn) ==
  {[amountIn |-> IF byAmountIn THEN raw ELSE (raw + rate - 1) \div rate,
    amountOut |-> IF byAmountIn THEN raw * rate ELSE raw,
    byAmountIn |-> byAmountIn, sufficient |-> ok] : ok \in BOOLEAN}

findSwapRoute(raw, byAmountIn) == {NoRoute} \cup findRouters(raw, byAmountIn)

serializeCetusRoute(route, from, to) ==
  [route |-> route, discoveredAt |-> now, fromCoinType |-> from, toCoinType |-> to]

\* The snapshot's context is dropped again, its clock with it.
deserializeCetusRoute(s) == s.route

verifyCetusRouteCoinMatch(s, from, to) == s.fromCoinType = from /\ s.toCoinType = to

isCetusRouteFresh(s) == now - s.discoveredAt < FRESH_MS

\* swapQuote reads the decimals; the standalone quote guesses them, as a read
\* that fails does.
getSwapQuote ==
  /\ op.pc = "idle" /\ Cardinality(quotes) < MaxQuotes
  /\ \E from, to \in Coin, amount \in Amount, byAmountIn, read \in BOOLEAN :
       \E route \in findRouters(FloorToRaw(amount, resolveCoinDecimals(from, read)), byAmountIn) :
         /\ from # to /\ amount > 0
         /\ route.sufficient
         /\ quotes' = quotes \cup {serializeCetusRoute(route, from, to)}
  /\ UNCHANGED <<now, rate, funds, moves, op>>

----------------------------------------------------------------------------
Move(pc) == op' = [op EXCEPT !.pc = pc]
Fails == Move("over")

\* The whole response of the quote is taken for its route once.
unwrap(given) == IF given \in quotes \cup {Junk} THEN given ELSE given.serializedRoute

preflightSwap(from, to, amount) == from # to /\ amount > 0

BeginSwap(from, to, amount, byAmountIn, slip, given) ==
  /\ op.pc = "idle"
  /\ preflightSwap(from, to, amount)
  /\ op' = [NoOp EXCEPT !.pc = "decimals", !.kind = "swap", !.from = from, !.to = to,
              !.amount = amount, !.byAmountIn = byAmountIn, !.slip = Min({slip, SLIPPAGE_MAX}),
              !.bound = IF given = NoRoute THEN NoRoute ELSE unwrap(given)]
  /\ UNCHANGED <<now, rate, quotes, funds, moves>>

\* A program's call, with or without a quote.
swap ==
  \E from, to \in Coin, amount \in Amount, byAmountIn \in BOOLEAN, slip \in Slippage,
     given \in {NoRoute, Junk} \cup quotes \cup {[serializedRoute |-> s] : s \in quotes} :
    BeginSwap(from, to, amount, byAmountIn, slip, given)

parseSwapArgs(amount) == amount > 0

\* `t2 swap`: exact input, a percentage capped at the same maximum, and no quote
\* that an earlier --quote may have printed.
swap_cmd ==
  \E from, to \in Coin, amount \in Amount, slip \in Slippage :
    /\ parseSwapArgs(amount)
    /\ BeginSwap(from, to, amount, TRUE, Min({slip, SLIPPAGE_MAX}), NoRoute)

\* Plausible bug: a stale quote is routed again without a word.
QuotedRoute_Reroutes(raw) ==
  LET s == op.bound IN
  IF /\ s # Junk
     /\ verifyCetusRouteCoinMatch(s, op.from, op.to)
     /\ s.route.byAmountIn = op.byAmountIn /\ s.route.amountIn = raw
  THEN IF isCetusRouteFresh(s) THEN {deserializeCetusRoute(s)}
                               ELSE findSwapRoute(raw, op.byAmountIn)
  ELSE {NoRoute}

\* A quote given is binding: its own route, or an error.
QuotedRoute(raw) ==
  LET s == op.bound IN
  IF /\ s # Junk
     /\ verifyCetusRouteCoinMatch(s, op.from, op.to)
     /\ s.route.byAmountIn = op.byAmountIn /\ s.route.amountIn = raw
     /\ isCetusRouteFresh(s)
  THEN {deserializeCetusRoute(s)} ELSE {NoRoute}

\* The input's decimals are known; the route is the quoted one or found now.
ChooseRoute ==
  /\ op.pc = "decimals" /\ op.kind = "swap"
  /\ \E read \in BOOLEAN :
       LET raw == FloorToRaw(op.amount, resolveCoinDecimals(op.from, read)) IN
       \E route \in IF op.bound = NoRoute THEN findSwapRoute(raw, op.byAmountIn) ELSE QuotedRoute(raw) :
         IF route = NoRoute \/ ~route.sufficient
         THEN Fails
         ELSE op' = [op EXCEPT !.pc = "pre", !.raw = raw, !.route = route]
  /\ UNCHANGED <<now, rate, quotes, funds, moves>>

\* The output's decimals (a coin's never change, so when they are read does not
\* matter), then the balance before; a read of it that fails passes for zero.
PreBalance ==
  /\ op.pc = "pre"
  /\ \E known, read \in BOOLEAN :
       op' = [op EXCEPT !.pc = "build", !.toKnown = op.to \in Registered \/ known,
                        !.toDecimals = resolveCoinDecimals(op.to, known),
                        !.preRead = read, !.disturbed = FALSE,
                        !.pre = IF read THEN funds[op.to] ELSE 0]
  /\ UNCHANGED <<now, rate, quotes, funds, moves>>

\* buildSwapTx: the least output the router will accept.
MinOut ==
  LET slip == Max({SLIPPAGE_MIN, Min({op.slip, SLIPPAGE_MAX})})
  IN  op.route.amountOut - (op.route.amountOut * slip) \div SLIPPAGE_UNIT

\* The transaction is built, signed and executed at the market of that moment.
\* It throws with nothing sent, throws after it landed, lands, or fails on the
\* chain, whose digest is returned like any other.
ExecuteSwap ==
  /\ op.pc = "build"
  /\ LET out == op.raw * rate
         landed == /\ funds[op.from] >= op.raw /\ out >= MinOut
                   /\ funds' = [funds EXCEPT ![op.from] = @ - op.raw, ![op.to] = @ + out]
     IN  \/ Fails /\ UNCHANGED funds
         \/ landed /\ Fails
         \/ /\ landed
            /\ op' = [op EXCEPT !.pc = "parse", !.left = op.raw, !.got = out]
         \/ /\ funds[op.from] >= op.raw
            /\ Move("parse") /\ UNCHANGED funds
  /\ UNCHANGED <<now, rate, quotes, moves>>

\* What the agent is told is in the output's decimals as they were resolved.
Displayed(raw) == Shown(raw, op.toDecimals)

\* The finalized transaction's own balance changes, if the read answers and finds
\* one; else the route's estimate.
ParseChanges ==
  /\ op.pc = "parse"
  /\ \E read \in BOOLEAN :
       LET received == read /\ op.got > 0 IN
       op' = [op EXCEPT !.pc = "diff", !.heard = received,
                        !.told = Displayed(IF received THEN op.got ELSE op.route.amountOut)]
  /\ UNCHANGED <<now, rate, quotes, funds, moves>>

Delta == funds[op.to] - op.pre

\* The displayed report is less than 1/NEAR from the displayed estimate.
NearEstimate ==
  LET apart == op.told.raw - op.route.amountOut
  IN  apart * NEAR < 10^op.toDecimals /\ -apart * NEAR < 10^op.toDecimals

\* While the report is near the estimate, the difference of the two balance
\* reads replaces it, if positive.
BalanceDiff ==
  /\ op.pc = "diff"
  /\ \E read \in BOOLEAN :
       LET answered == read /\ NearEstimate IN
       op' = [op EXCEPT !.pc = "done", !.heard = @ \/ answered,
                        !.told = IF answered /\ Delta > 0 THEN Displayed(Delta) ELSE @]
  /\ UNCHANGED <<now, rate, quotes, funds, moves>>

----------------------------------------------------------------------------
BeginSend(coin, amount) ==
  /\ op.pc = "idle"
  /\ amount > 0
  /\ coin \in Gasless => displayToRaw(amount, Decimals[coin]) >= GASLESS_FLOOR
  /\ op' = [NoOp EXCEPT !.pc = "decimals", !.kind = "send", !.from = coin, !.amount = amount]
  /\ UNCHANGED <<now, rate, quotes, funds, moves>>

\* A program's call, and `t2 send`; the asset names a coin, or nothing is sent.
send == \E coin \in Coin, amount \in Amount : BeginSend(coin, amount)

parseSendArgs(amount) == amount > 0

send_cmd ==
  \E coin \in Coin, amount \in Amount : parseSendArgs(amount) /\ BeginSend(coin, amount)

\* buildSendTx: a gasless send takes everything or leaves at least the floor.
CheckSend ==
  /\ op.pc = "decimals" /\ op.kind = "send"
  /\ \E read \in BOOLEAN :
       LET raw == displayToRaw(op.amount, resolveCoinDecimals(op.from, read))
           remainder == funds[op.from] - raw
       IN  IF \/ remainder < 0
              \/ op.from \in Gasless /\ remainder > 0 /\ remainder < GASLESS_FLOOR
           THEN Fails
           ELSE op' = [op EXCEPT !.pc = "submit", !.raw = raw]
  /\ UNCHANGED <<now, rate, quotes, funds, moves>>

\* The node refuses a gasless remainder below the floor, too.
ExecuteSend ==
  /\ op.pc = "submit"
  /\ \/ Fails /\ UNCHANGED funds
     \/ Move("done") /\ UNCHANGED funds
     \/ LET remainder == funds[op.from] - op.raw IN
        /\ remainder >= 0
        /\ op.from \in Gasless => remainder = 0 \/ remainder >= GASLESS_FLOOR
        /\ funds' = [funds EXCEPT ![op.from] = remainder]
        /\ op' = [op EXCEPT !.pc = "done", !.left = op.raw]
  /\ UNCHANGED <<now, rate, quotes, moves>>

----------------------------------------------------------------------------
\* Somebody else pays the wallet, or its other payments leave.
OtherTransfer ==
  /\ moves < MaxMoves
  /\ \E c \in Coin, x \in {-1, 1} :
       /\ funds[c] + x >= 0
       /\ funds' = [funds EXCEPT ![c] = @ + x]
       /\ op' = [op EXCEPT !.disturbed = @ \/ c = op.to]
  /\ moves' = moves + 1
  /\ UNCHANGED <<now, rate, quotes>>

MarketMoves ==
  /\ moves < MaxMoves
  /\ rate' \in Rate \ {rate}
  /\ moves' = moves + 1
  /\ UNCHANGED <<now, quotes, funds, op>>

Tick ==
  /\ now < MaxNow
  /\ now' = now + 1
  /\ UNCHANGED <<rate, quotes, funds, moves, op>>

TokenNext ==
  \/ getSwapQuote
  \/ swap \/ swap_cmd \/ ChooseRoute \/ PreBalance \/ ExecuteSwap \/ ParseChanges \/ BalanceDiff
  \/ send \/ send_cmd \/ CheckSend \/ ExecuteSend
  \/ OtherTransfer \/ MarketMoves \/ Tick

TokenSpec == TokenInit /\ [][TokenNext]_tokenVars

----------------------------------------------------------------------------
\* "An agent that showed the user a rate executes that rate or fails loud":
\* whatever the market does between the quote and the landing, a swap given a
\* quote takes exactly the quoted input of the quoted pair and brings the
\* quoted output less at most the largest slippage.
QuoteIsBinding ==
  op.kind = "swap" /\ op.bound # NoRoute /\ op.got > 0 =>
    LET s == op.bound IN
    /\ <<op.from, op.to, op.left>> = <<s.fromCoinType, s.toCoinType, s.route.amountIn>>
    /\ op.got >= s.route.amountOut - (s.route.amountOut * SLIPPAGE_MAX) \div SLIPPAGE_UNIT

\* What a swap that brought something reports is, in the output's true decimals,
\* what arrived as soon as one of the report's reads answered, and the route's
\* estimate if neither did - unless the output's decimals were guessed, the
\* first balance read failed, or the coin moved otherwise in the meantime, which
\* the difference of the two balances cannot tell.
ReportIsWhatArrived ==
  /\ op.kind = "swap" /\ op.pc = "done" /\ op.got > 0
  /\ op.toKnown /\ op.preRead /\ ~op.disturbed
  => SameAmount(op.told, Shown(IF op.heard THEN op.got ELSE op.route.amountOut,
                               Decimals[op.to]))

\* "Decimals resolve via the registry or on-chain coin metadata - never a
\* silent 9-default guess": a send moves the displayed amount.
SentIsWhatWasAsked ==
  op.kind = "send" /\ op.left > 0 => op.left = displayToRaw(op.amount, Decimals[op.from])
=============================================================================
