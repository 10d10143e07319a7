------------------------------ MODULE SdkProofs ------------------------------
(***************************************************************************)
(* The independent parts of the SDK: a swap against its quote and against   *)
(* the reads of its report, a transaction composed of steps, and a seller's *)
(* catalog under commands that overlap - for every coin, rate, plan, wallet *)
(* and set of commands.                                                     *)
(***************************************************************************)
EXTENDS TokenMoves, ComposeTx, ServiceCatalog, FiniteSetTheorems, TLAPS

(***************************************************************************)
(* Swaps.                                                                  *)
(***************************************************************************)

Executed == {"parse", "diff", "done"}
SwapOnly == {"pre", "build", "parse", "diff"}

\* What the fields of an operation are, and which of its states are whose.
OpInv ==
  /\ DOMAIN op = DOMAIN NoOp
  /\ op.amount \in Nat /\ op.raw \in Int /\ op.slip \in Int /\ op.got \in Int /\ op.pre \in Int
  /\ op.disturbed \in BOOLEAN /\ op.heard \in BOOLEAN
  /\ op.kind # "none" => op.from \in Coin
  /\ op.kind = "swap" => op.to \in Coin /\ op.from # op.to
  /\ op.pc \in SwapOnly => op.kind = "swap"
  /\ op.pc = "submit" => op.kind = "send"

\* An exact-output quote with something to pay brings something.
QuotesInv ==
  \A s \in quotes : /\ s.route.amountIn \in Int /\ s.route.amountOut \in Int
                    /\ s.route.amountIn > 0 => s.route.amountOut >= 0

\* A swap given a quote goes by it, once it has a route.
BoundInv ==
  /\ op.bound \in {NoRoute, Junk} \cup quotes
  /\ op.kind = "swap" /\ op.pc \in SwapOnly \cup Executed /\ op.bound # NoRoute =>
       /\ op.bound \in quotes
       /\ op.bound.fromCoinType = op.from /\ op.bound.toCoinType = op.to
       /\ op.route = op.bound.route /\ op.route.amountIn = op.raw

\* What it brought is what the router let pass.
ArrivedInv ==
  /\ op.kind # "swap" \/ op.pc \notin Executed => op.got = 0
  /\ op.got > 0 => op.left = op.raw /\ op.raw > 0 /\ op.got >= MinOut

\* Undisturbed, the balances tell what arrived, and so does the report as soon as
\* one of its reads answered; decimals that were not guessed are the coin's own.
Measured == op.kind = "swap" /\ op.preRead /\ ~op.disturbed
Truth == IF op.heard THEN op.got ELSE op.route.amountOut
ReportInv ==
  /\ op.pc = "build" /\ Measured => funds[op.to] = op.pre
  /\ op.pc \in {"parse", "diff"} /\ Measured => funds[op.to] = op.pre + op.got
  /\ op.pc \in {"diff", "done"} /\ Measured /\ op.got > 0 => op.told = Displayed(Truth)
  /\ op.kind = "swap" /\ op.toKnown => op.toDecimals = Decimals[op.to]

SwapInv ==
  /\ rate \in Nat \ {0} /\ funds \in [Coin -> Int]
  /\ OpInv /\ QuotesInv /\ BoundInv /\ ArrivedInv /\ ReportInv

LEMMA LeastOfTwo ==
  ASSUME NEW a \in Int, NEW b \in Int
  PROVE  Min({a, b}) = IF a <= b THEN a ELSE b
BY DEF Min

LEMMA LargestOfTwo ==
  ASSUME NEW a \in Int, NEW b \in Int
  PROVE  Max({a, b}) = IF a <= b THEN b ELSE a
BY DEF Max

LEMMA DivMonotone ==
  ASSUME NEW m \in Nat, NEW n \in Nat, m <= n, NEW d \in Nat \ {0}
  PROVE  m \div d \in Nat /\ n \div d \in Nat /\ m \div d <= n \div d
OBVIOUS

LEMMA RawIsInt ==
  ASSUME NEW amount \in Nat, NEW c \in Coin, NEW read \in BOOLEAN
  PROVE  /\ FloorToRaw(amount, resolveCoinDecimals(c, read)) \in Int
         /\ displayToRaw(amount, resolveCoinDecimals(c, read)) \in Int
<1> DEFINE d == resolveCoinDecimals(c, read)
<1>1. d \in Nat
  BY TokenAssumption DEF resolveCoinDecimals
<1> HIDE DEF d
<1>2. 10^d \in Int
  BY <1>1
<1>3. amount * 10^d \in Int
  BY <1>2
<1> DEFINE x == amount * 10^d
<1>4. x \in Int
  BY <1>3
<1> HIDE DEF x
<1>5. (x + 1) \div 2 \in Int /\ x \div 2 \in Int
  BY <1>4
<1>6. FloorToRaw(amount, d) \in Int /\ displayToRaw(amount, d) \in Int
  BY <1>5 DEF FloorToRaw, displayToRaw, x
<1> QED
  BY <1>6 DEF d

\* A route of the aggregator that takes something gives something.
LEMMA RouteGives ==
  ASSUME rate \in Nat \ {0}, NEW raw \in Int, NEW byAmountIn \in BOOLEAN,
         NEW route \in findRouters(raw, byAmountIn)
  PROVE  /\ route.amountIn \in Int /\ route.amountOut \in Int
         /\ route.amountIn > 0 => route.amountOut >= 0
<1>1. /\ route.amountIn = IF byAmountIn THEN raw ELSE (raw + rate - 1) \div rate
      /\ route.amountOut = IF byAmountIn THEN raw * rate ELSE raw
  BY DEF findRouters
<1>2. CASE byAmountIn
  BY <1>1, <1>2
<1>3. CASE ~byAmountIn
  <2> DEFINE n == raw + rate - 1
  <2>1. n \in Int /\ n \div rate \in Int
    OBVIOUS
  <2>2. n < rate => ~(n \div rate > 0)
    <3> HIDE DEF n
    <3> QED
      BY <2>1
  <2> QED
    BY <1>1, <1>3, <2>1, <2>2
<1> QED
  BY <1>2, <1>3

LEMMA SwapInit == TokenInit => SwapInv
BY TokenAssumption DEF TokenInit, SwapInv, OpInv, QuotesInv, BoundInv, ArrivedInv, ReportInv,
   NoOp, Executed, SwapOnly, Measured

\* The fields of an operation but how far it is.
SameBut(pc) ==
  /\ DOMAIN op' = DOMAIN NoOp /\ op'.pc = pc
  /\ op'.kind = op.kind /\ op'.amount = op.amount /\ op'.from = op.from /\ op'.to = op.to /\ op'.raw = op.raw
  /\ op'.slip = op.slip /\ op'.bound = op.bound /\ op'.route = op.route
  /\ op'.pre = op.pre /\ op'.preRead = op.preRead /\ op'.left = op.left
  /\ op'.got = op.got /\ op'.told = op.told /\ op'.disturbed = op.disturbed
  /\ op'.toDecimals = op.toDecimals /\ op'.toKnown = op.toKnown /\ op'.heard = op.heard

LEMMA MoveIsSameBut ==
  ASSUME OpInv, NEW pc, op' = [op EXCEPT !.pc = pc]
  PROVE  SameBut(pc)
BY DEF OpInv, NoOp, SameBut

\* An operation that fails, whatever it sent, and a send that is over.
LEMMA EndKeeps ==
  ASSUME SwapInv, UNCHANGED <<rate, quotes>>, funds' \in [Coin -> Int], NEW pc,
         op' = [op EXCEPT !.pc = pc],
         \/ pc = "over" /\ op.pc \notin Executed
         \/ pc = "done" /\ op.kind # "swap"
  PROVE  SwapInv'
<1>1. SameBut(pc)
  BY MoveIsSameBut DEF SwapInv
<1> QED
  BY <1>1 DEF SameBut, SwapInv, OpInv, QuotesInv, BoundInv, ArrivedInv, ReportInv, Measured,
     Executed, SwapOnly, MinOut, Truth, Displayed

\* A swap that fails on the chain.
LEMMA NothingMoved ==
  ASSUME SwapInv, UNCHANGED <<rate, quotes, funds>>, op.pc = "build",
         op' = [op EXCEPT !.pc = "parse"]
  PROVE  SwapInv'
<1>1. SameBut("parse")
  BY MoveIsSameBut DEF SwapInv
<1>2. op.kind = "swap" /\ op.got = 0 /\ op.pre \in Int
  BY DEF SwapInv, OpInv, ArrivedInv, SwapOnly, Executed
<1>3. OpInv' /\ QuotesInv'
  BY <1>1, <1>2 DEF SameBut, SwapInv, OpInv, QuotesInv, SwapOnly
<1>4. BoundInv' /\ ArrivedInv' /\ ReportInv'
  BY <1>1, <1>2 DEF SameBut, SwapInv, BoundInv, ArrivedInv, ReportInv, Measured, Executed, SwapOnly
<1> QED
  BY <1>3, <1>4 DEF SwapInv

\* A swap or a send that begins has no route and brought nothing.
LEMMA BeginKeeps ==
  ASSUME SwapInv, UNCHANGED <<rate, quotes, funds>>, DOMAIN op' = DOMAIN NoOp,
         op'.pc = "decimals", op'.raw = 0, op'.got = 0, op'.pre = 0,
         op'.disturbed \in BOOLEAN, op'.heard \in BOOLEAN, ~op'.toKnown, op'.slip \in Int, op'.amount \in Nat,
         op'.bound \in {NoRoute, Junk} \cup quotes,
         op'.from \in Coin, op'.kind = "swap" => op'.to \in Coin /\ op'.from # op'.to
  PROVE  SwapInv'
<1>1. OpInv'
  BY DEF OpInv, SwapOnly
<1>2. QuotesInv'
  BY DEF SwapInv, QuotesInv
<1>3. BoundInv' /\ ReportInv'
  BY DEF BoundInv, ReportInv, Executed, SwapOnly
<1>4. ArrivedInv'
  BY DEF ArrivedInv
<1> QED
  BY <1>1, <1>2, <1>3, <1>4 DEF SwapInv

LEMMA BeginSwapKeeps ==
  ASSUME SwapInv, NEW from \in Coin, NEW to \in Coin, NEW amount \in Nat, NEW byAmountIn,
         NEW slip \in Int,
         NEW given \in {NoRoute, Junk} \cup quotes \cup {[serializedRoute |-> s] : s \in quotes},
         BeginSwap(from, to, amount, byAmountIn, slip, given)
  PROVE  SwapInv'
<1> DEFINE b == IF given = NoRoute THEN NoRoute ELSE unwrap(given)
           l == Min({slip, SLIPPAGE_MAX})
<1>1. l \in Int
  BY LeastOfTwo, TokenAssumption
<1>2. b \in {NoRoute, Junk} \cup quotes
  <2>1. given \in quotes \cup {Junk, NoRoute} => b \in {NoRoute, Junk} \cup quotes
    BY DEF unwrap
  <2>2. ASSUME NEW s \in quotes, given = [serializedRoute |-> s]
        PROVE  b \in {NoRoute, Junk} \cup quotes
    BY <2>2 DEF unwrap
  <2> QED
    BY <2>1, <2>2
<1>3. /\ from # to /\ UNCHANGED <<rate, quotes, funds>>
      /\ op' = [NoOp EXCEPT !.pc = "decimals", !.kind = "swap", !.from = from, !.to = to,
                  !.amount = amount, !.byAmountIn = byAmountIn, !.slip = l, !.bound = b]
  BY DEF BeginSwap, preflightSwap
<1> HIDE DEF b, l
<1> QED
  BY <1>1, <1>2, <1>3, BeginKeeps DEF NoOp

LEMMA ChooseRouteKeeps ==
  ASSUME SwapInv, ChooseRoute
  PROVE  SwapInv'
<1>1. PICK read \in BOOLEAN :
        LET raw == FloorToRaw(op.amount, resolveCoinDecimals(op.from, read)) IN
        \E route \in IF op.bound = NoRoute THEN findSwapRoute(raw, op.byAmountIn) ELSE QuotedRoute(raw) :
          IF route = NoRoute \/ ~route.sufficient THEN Fails
          ELSE op' = [op EXCEPT !.pc = "pre", !.raw = raw, !.route = route]
  BY DEF ChooseRoute
<1> DEFINE raw == FloorToRaw(op.amount, resolveCoinDecimals(op.from, read))
<1>2. PICK route \in IF op.bound = NoRoute THEN findSwapRoute(raw, op.byAmountIn)
                     ELSE QuotedRoute(raw) :
        IF route = NoRoute \/ ~route.sufficient THEN Fails
        ELSE op' = [op EXCEPT !.pc = "pre", !.raw = raw, !.route = route]
  BY <1>1
<1>3. op.pc = "decimals" /\ op.kind = "swap" /\ UNCHANGED <<rate, quotes, funds>>
  BY DEF ChooseRoute
<1>4. raw \in Int
  BY <1>3, RawIsInt DEF SwapInv, OpInv
<1> HIDE DEF raw
<1>5. CASE Fails
  BY <1>3, <1>5, EndKeeps DEF Fails, Move, SwapInv, Executed
<1>6. CASE route # NoRoute /\ op' = [op EXCEPT !.pc = "pre", !.raw = raw, !.route = route]
  <2>1. /\ DOMAIN op' = DOMAIN NoOp /\ op'.pc = "pre" /\ op'.raw = raw /\ op'.route = route
        /\ op'.kind = op.kind /\ op'.amount = op.amount /\ op'.from = op.from /\ op'.to = op.to /\ op'.slip = op.slip
        /\ op'.bound = op.bound /\ op'.pre = op.pre /\ op'.preRead = op.preRead
        /\ op'.left = op.left /\ op'.got = op.got /\ op'.told = op.told
        /\ op'.toDecimals = op.toDecimals /\ op'.toKnown = op.toKnown
        /\ op'.heard = op.heard /\ op'.disturbed = op.disturbed
    BY <1>6 DEF SwapInv, OpInv, NoOp
  <2>2. op.bound # NoRoute =>
          /\ op.bound # Junk /\ route = op.bound.route /\ op.bound.route.amountIn = raw
          /\ op.bound.fromCoinType = op.from /\ op.bound.toCoinType = op.to
    BY <1>2, <1>6 DEF QuotedRoute, verifyCetusRouteCoinMatch, deserializeCetusRoute
  <2>3. op.got = 0
    BY <1>3 DEF SwapInv, ArrivedInv, Executed
  <2>4. OpInv' /\ QuotesInv'
    BY <1>3, <1>4, <2>1 DEF SwapInv, OpInv, QuotesInv
  <2>5. BoundInv'
    BY <1>3, <2>1, <2>2 DEF SwapInv, BoundInv
  <2>6. ArrivedInv' /\ ReportInv'
    BY <1>3, <2>1, <2>3 DEF SwapInv, ArrivedInv, ReportInv, Executed
  <2> QED
    BY <1>3, <2>4, <2>5, <2>6 DEF SwapInv
<1> QED
  BY <1>2, <1>5, <1>6

LEMMA PreBalanceKeeps ==
  ASSUME SwapInv, PreBalance
  PROVE  SwapInv'
<1>1. PICK known \in BOOLEAN, read \in BOOLEAN :
        op' = [op EXCEPT !.pc = "build", !.toKnown = op.to \in Registered \/ known,
                         !.toDecimals = resolveCoinDecimals(op.to, known),
                         !.preRead = read, !.disturbed = FALSE,
                         !.pre = IF read THEN funds[op.to] ELSE 0]
  BY DEF PreBalance
<1>2. /\ DOMAIN op' = DOMAIN NoOp /\ op'.pc = "build" /\ op'.preRead = read
      /\ op'.disturbed = FALSE /\ op'.pre = (IF read THEN funds[op.to] ELSE 0)
      /\ op'.kind = op.kind /\ op'.amount = op.amount /\ op'.from = op.from /\ op'.to = op.to /\ op'.slip = op.slip
      /\ op'.bound = op.bound /\ op'.raw = op.raw /\ op'.route = op.route
      /\ op'.left = op.left /\ op'.got = op.got /\ op'.told = op.told /\ op'.heard = op.heard
      /\ op'.toDecimals = resolveCoinDecimals(op.to, known)
      /\ op'.toKnown = (op.to \in Registered \/ known)
  BY <1>1 DEF SwapInv, OpInv, NoOp
<1>3. op.pc = "pre" /\ op.kind = "swap" /\ op.got = 0 /\ UNCHANGED <<rate, quotes, funds>>
  BY DEF PreBalance, SwapInv, OpInv, ArrivedInv, SwapOnly, Executed
<1>4. op'.pre \in Int
  BY <1>2, <1>3 DEF SwapInv, OpInv
<1>5. OpInv' /\ QuotesInv' /\ BoundInv'
  BY <1>2, <1>3, <1>4 DEF SwapInv, OpInv, QuotesInv, BoundInv, SwapOnly
<1>6. ArrivedInv' /\ ReportInv'
  BY <1>2, <1>3 DEF ArrivedInv, ReportInv, Executed, Measured, resolveCoinDecimals
<1> QED
  BY <1>3, <1>5, <1>6 DEF SwapInv

\* The router lets pass what is at least MinOut, and pays it all in.
LEMMA LandedKeeps ==
  ASSUME SwapInv, op.pc = "build", UNCHANGED <<rate, quotes>>,
         NEW out, out = op.raw * rate, out >= MinOut,
         funds' = [funds EXCEPT ![op.from] = @ - op.raw, ![op.to] = @ + out],
         op' = [op EXCEPT !.pc = "parse", !.left = op.raw, !.got = out]
  PROVE  SwapInv'
<1>1. /\ DOMAIN op' = DOMAIN NoOp /\ op'.pc = "parse" /\ op'.left = op.raw /\ op'.got = out
      /\ op'.kind = op.kind /\ op'.amount = op.amount /\ op'.from = op.from /\ op'.to = op.to
      /\ op'.slip = op.slip /\ op'.bound = op.bound /\ op'.raw = op.raw
      /\ op'.route = op.route /\ op'.pre = op.pre /\ op'.preRead = op.preRead
      /\ op'.told = op.told /\ op'.disturbed = op.disturbed /\ op'.heard = op.heard
      /\ op'.toDecimals = op.toDecimals /\ op'.toKnown = op.toKnown
  BY DEF SwapInv, OpInv, NoOp
<1>2. /\ op.kind = "swap" /\ op.from \in Coin /\ op.to \in Coin /\ op.from # op.to
      /\ op.raw \in Int /\ rate \in Nat \ {0}
  BY DEF SwapInv, OpInv, SwapOnly
<1>3. out \in Int /\ (out > 0 => op.raw > 0)
  BY <1>2
<1>4. funds' \in [Coin -> Int] /\ funds'[op.to] = funds[op.to] + out
  BY <1>2, <1>3 DEF SwapInv
<1>5. OpInv' /\ QuotesInv' /\ BoundInv'
  BY <1>1, <1>2, <1>3 DEF SwapInv, OpInv, QuotesInv, BoundInv, SwapOnly
<1>6. MinOut' = MinOut
  BY <1>1 DEF MinOut
<1>7. ArrivedInv'
  BY <1>1, <1>2, <1>3, <1>6 DEF ArrivedInv, Executed
<1>8. ReportInv'
  BY <1>1, <1>4 DEF SwapInv, ReportInv, Measured
<1> QED
  BY <1>4, <1>5, <1>7, <1>8 DEF SwapInv

LEMMA ExecuteSwapKeeps ==
  ASSUME SwapInv, ExecuteSwap
  PROVE  SwapInv'
<1> DEFINE out == op.raw * rate
<1>1. op.pc = "build" /\ UNCHANGED <<rate, quotes>>
  BY DEF ExecuteSwap
<1>2. out \in Int /\ op.raw \in Int /\ op.from \in Coin /\ op.to \in Coin /\ funds \in [Coin -> Int]
  BY <1>1 DEF SwapInv, OpInv, SwapOnly
<1>3. \/ Fails /\ funds' \in [Coin -> Int]
      \/ /\ out >= MinOut
         /\ funds' = [funds EXCEPT ![op.from] = @ - op.raw, ![op.to] = @ + out]
         /\ op' = [op EXCEPT !.pc = "parse", !.left = op.raw, !.got = out]
      \/ Move("parse") /\ UNCHANGED funds
  BY <1>2 DEF ExecuteSwap
<1> HIDE DEF out
<1> QED
  BY <1>1, <1>3, EndKeeps, LandedKeeps, NothingMoved DEF Fails, Move, Executed, out

LEMMA ParseChangesKeeps ==
  ASSUME SwapInv, ParseChanges
  PROVE  SwapInv'
<1>1. PICK read \in BOOLEAN :
        LET received == read /\ op.got > 0 IN
        op' = [op EXCEPT !.pc = "diff", !.heard = received,
                         !.told = Displayed(IF received THEN op.got ELSE op.route.amountOut)]
  BY DEF ParseChanges
<1> DEFINE received == read /\ op.got > 0
           told == Displayed(IF received THEN op.got ELSE op.route.amountOut)
<1>2. /\ DOMAIN op' = DOMAIN NoOp /\ op'.pc = "diff" /\ op'.told = told /\ op'.heard = received
      /\ op'.left = op.left /\ op'.got = op.got
      /\ op'.kind = op.kind /\ op'.amount = op.amount /\ op'.from = op.from /\ op'.to = op.to
      /\ op'.slip = op.slip /\ op'.bound = op.bound /\ op'.raw = op.raw
      /\ op'.route = op.route /\ op'.pre = op.pre /\ op'.preRead = op.preRead
      /\ op'.toDecimals = op.toDecimals /\ op'.toKnown = op.toKnown
      /\ op'.disturbed = op.disturbed
  BY <1>1 DEF SwapInv, OpInv, NoOp
<1>3. op.pc = "parse" /\ UNCHANGED <<rate, quotes, funds>>
  BY DEF ParseChanges
<1>4. told = Displayed(Truth)'
  BY <1>2 DEF Displayed, Truth
<1>5. received \in BOOLEAN
  OBVIOUS
<1> HIDE DEF told, received
<1>6. OpInv' /\ QuotesInv' /\ BoundInv'
  BY <1>2, <1>3, <1>5 DEF SwapInv, OpInv, QuotesInv, BoundInv, Executed, SwapOnly
<1>7. ArrivedInv' /\ ReportInv'
  BY <1>2, <1>3, <1>4 DEF SwapInv, ArrivedInv, ReportInv, Measured, MinOut, Executed
<1> QED
  BY <1>3, <1>6, <1>7 DEF SwapInv

\* The second read is asked only while the report is near the estimate; one that
\* is not asked, or does not answer, leaves the report and what was heard alone.
LEMMA BalanceDiffKeeps ==
  ASSUME SwapInv, BalanceDiff
  PROVE  SwapInv'
<1>1. PICK read \in BOOLEAN :
        LET answered == read /\ NearEstimate IN
        op' = [op EXCEPT !.pc = "done", !.heard = @ \/ answered,
                         !.told = IF answered /\ Delta > 0 THEN Displayed(Delta) ELSE @]
  BY DEF BalanceDiff
<1> DEFINE answered == read /\ NearEstimate
           told == IF answered /\ Delta > 0 THEN Displayed(Delta) ELSE op.told
<1>2. /\ DOMAIN op' = DOMAIN NoOp /\ op'.pc = "done" /\ op'.told = told
      /\ op'.heard = (op.heard \/ answered)
      /\ op'.left = op.left /\ op'.got = op.got
      /\ op'.kind = op.kind /\ op'.amount = op.amount /\ op'.from = op.from /\ op'.to = op.to
      /\ op'.slip = op.slip /\ op'.bound = op.bound /\ op'.raw = op.raw
      /\ op'.route = op.route /\ op'.pre = op.pre /\ op'.preRead = op.preRead
      /\ op'.toDecimals = op.toDecimals /\ op'.toKnown = op.toKnown
      /\ op'.disturbed = op.disturbed
  BY <1>1 DEF SwapInv, OpInv, NoOp
<1>3. op.pc = "diff" /\ UNCHANGED <<rate, quotes, funds>>
  BY DEF BalanceDiff
<1>4. Measured => Delta = op.got
  BY <1>3 DEF SwapInv, OpInv, ReportInv, Measured, Delta
<1>5. Measured /\ op.got > 0 => told = Displayed(Truth)'
  <2>1. Measured /\ op.got > 0 => op.told = Displayed(Truth)
    BY <1>3 DEF SwapInv, ReportInv
  <2>2. Displayed(Truth)' = Displayed(IF op.heard \/ answered THEN op.got ELSE op.route.amountOut)
    BY <1>2 DEF Displayed, Truth
  <2>3. CASE answered
    BY <1>4, <2>2, <2>3
  <2>4. CASE ~answered
    BY <2>1, <2>2, <2>4 DEF Truth
  <2> QED
    BY <2>3, <2>4
<1> HIDE DEF told, answered
<1>6. OpInv' /\ QuotesInv' /\ BoundInv'
  BY <1>2, <1>3 DEF SwapInv, OpInv, QuotesInv, BoundInv, Executed, SwapOnly
<1>7. ArrivedInv'
  BY <1>2, <1>3 DEF SwapInv, ArrivedInv, MinOut, Executed
<1>8. ReportInv'
  BY <1>2, <1>3, <1>5 DEF SwapInv, ReportInv, Measured
<1> QED
  BY <1>3, <1>6, <1>7, <1>8 DEF SwapInv

LEMMA SendKeeps ==
  ASSUME SwapInv, send \/ send_cmd \/ CheckSend \/ ExecuteSend
  PROVE  SwapInv'
<1>1. ASSUME NEW coin \in Coin, NEW amount \in Amount, BeginSend(coin, amount)
      PROVE  SwapInv'
  <2>1. /\ UNCHANGED <<rate, quotes, funds>>
        /\ op' = [NoOp EXCEPT !.pc = "decimals", !.kind = "send", !.from = coin, !.amount = amount]
    BY <1>1 DEF BeginSend
  <2>2. amount \in Nat
    BY TokenAssumption
  <2> QED
    BY <2>1, <2>2, BeginKeeps DEF NoOp
<1>2. CASE CheckSend
  <2>1. op.pc = "decimals" /\ op.kind = "send" /\ UNCHANGED <<rate, quotes, funds>>
    BY <1>2 DEF CheckSend
  <2>2. PICK read \in BOOLEAN :
          \/ Fails
          \/ op' = [op EXCEPT !.pc = "submit",
                              !.raw = displayToRaw(op.amount, resolveCoinDecimals(op.from, read))]
    BY <1>2 DEF CheckSend
  <2> DEFINE raw == displayToRaw(op.amount, resolveCoinDecimals(op.from, read))
  <2>3. CASE Fails
    BY <2>1, <2>3, EndKeeps DEF Fails, Move, SwapInv, Executed
  <2>4. CASE op' = [op EXCEPT !.pc = "submit", !.raw = raw]
    <3>1. raw \in Int
      BY <2>1, RawIsInt DEF SwapInv, OpInv
    <3> HIDE DEF raw
    <3>2. /\ DOMAIN op' = DOMAIN NoOp /\ op'.pc = "submit" /\ op'.raw = raw
          /\ op'.kind = op.kind /\ op'.amount = op.amount /\ op'.from = op.from
          /\ op'.to = op.to /\ op'.slip = op.slip /\ op'.bound = op.bound
          /\ op'.pre = op.pre /\ op'.got = op.got /\ op'.disturbed = op.disturbed
          /\ op'.heard = op.heard
      BY <2>4 DEF SwapInv, OpInv, NoOp
    <3>3. op.got = 0
      BY <2>1 DEF SwapInv, ArrivedInv
    <3>4. OpInv' /\ QuotesInv' /\ BoundInv'
      BY <2>1, <3>1, <3>2 DEF SwapInv, OpInv, QuotesInv, BoundInv, SwapOnly, Executed
    <3>5. ArrivedInv' /\ ReportInv'
      BY <2>1, <3>2, <3>3 DEF ArrivedInv, ReportInv, Measured
    <3> QED
      BY <2>1, <3>4, <3>5 DEF SwapInv
  <2> QED
    BY <2>2, <2>3, <2>4
<1>3. CASE ExecuteSend
  <2>1. op.pc = "submit" /\ op.kind = "send" /\ UNCHANGED <<rate, quotes>>
    BY <1>3 DEF ExecuteSend, SwapInv, OpInv
  <2>2. \/ Fails /\ UNCHANGED funds
        \/ Move("done") /\ UNCHANGED funds
        \/ /\ funds' = [funds EXCEPT ![op.from] = @ - op.raw]
           /\ op' = [op EXCEPT !.pc = "done", !.left = op.raw]
    BY <1>3 DEF ExecuteSend, SwapInv
  <2>3. CASE UNCHANGED funds /\ (Fails \/ Move("done"))
    BY <2>1, <2>3, EndKeeps DEF Fails, Move, SwapInv, Executed
  <2>4. CASE /\ funds' = [funds EXCEPT ![op.from] = @ - op.raw]
             /\ op' = [op EXCEPT !.pc = "done", !.left = op.raw]
    <3>1. /\ DOMAIN op' = DOMAIN NoOp /\ op'.pc = "done" /\ op'.raw = op.raw
          /\ op'.kind = op.kind /\ op'.amount = op.amount /\ op'.from = op.from
          /\ op'.to = op.to /\ op'.slip = op.slip /\ op'.bound = op.bound
          /\ op'.pre = op.pre /\ op'.got = op.got /\ op'.disturbed = op.disturbed
          /\ op'.heard = op.heard
      BY <2>4 DEF SwapInv, OpInv, NoOp
    <3>2. op.got = 0
      BY <2>1 DEF SwapInv, ArrivedInv
    <3>3. funds' \in [Coin -> Int]
      <4>1. op.from \in Coin /\ op.raw \in Int /\ funds \in [Coin -> Int]
        BY <2>1 DEF SwapInv, OpInv
      <4> QED
        BY <2>4, <4>1
    <3>4. OpInv' /\ QuotesInv' /\ BoundInv'
      BY <2>1, <3>1 DEF SwapInv, OpInv, QuotesInv, BoundInv, SwapOnly
    <3>5. ArrivedInv' /\ ReportInv'
      BY <2>1, <3>1, <3>2 DEF ArrivedInv, ReportInv, Measured
    <3> QED
      BY <2>1, <3>3, <3>4, <3>5 DEF SwapInv
  <2> QED
    BY <2>2, <2>3, <2>4
<1> QED
  BY <1>1, <1>2, <1>3 DEF send, send_cmd

\* Everybody else: quotes, transfers, the market, the clock.
LEMMA OthersKeep ==
  ASSUME SwapInv, getSwapQuote \/ OtherTransfer \/ MarketMoves \/ Tick \/ UNCHANGED tokenVars
  PROVE  SwapInv'
<1>1. CASE getSwapQuote
  <2>1. PICK from \in Coin, to \in Coin, amount \in Amount, byAmountIn \in BOOLEAN, read \in BOOLEAN :
          \E route \in findRouters(FloorToRaw(amount, resolveCoinDecimals(from, read)), byAmountIn) :
            quotes' = quotes \cup {serializeCetusRoute(route, from, to)}
    BY <1>1 DEF getSwapQuote
  <2> DEFINE raw == FloorToRaw(amount, resolveCoinDecimals(from, read))
  <2>3. PICK route \in findRouters(raw, byAmountIn) :
          quotes' = quotes \cup {serializeCetusRoute(route, from, to)}
    BY <2>1
  <2>4. raw \in Int
    BY RawIsInt, TokenAssumption
  <2> HIDE DEF raw
  <2>5. /\ route.amountIn \in Int /\ route.amountOut \in Int
        /\ route.amountIn > 0 => route.amountOut >= 0
    BY <2>3, <2>4, RouteGives DEF SwapInv
  <2>6. UNCHANGED <<rate, funds, op>>
    BY <1>1 DEF getSwapQuote
  <2>7. QuotesInv'
    BY <2>3, <2>5 DEF SwapInv, QuotesInv, serializeCetusRoute
  <2> QED
    BY <2>3, <2>6, <2>7 DEF SwapInv, OpInv, BoundInv, ArrivedInv, ReportInv, Measured, MinOut,
       Truth, Displayed
<1>2. CASE OtherTransfer
  <2>1. PICK c \in Coin, x \in {-1, 1} :
          /\ funds' = [funds EXCEPT ![c] = @ + x]
          /\ op' = [op EXCEPT !.disturbed = @ \/ c = op.to]
    BY <1>2 DEF OtherTransfer
  <2>2. /\ DOMAIN op' = DOMAIN NoOp /\ op'.pc = op.pc /\ op'.told = op.told
        /\ op'.left = op.left /\ op'.got = op.got
        /\ op'.kind = op.kind /\ op'.amount = op.amount /\ op'.from = op.from /\ op'.to = op.to
        /\ op'.slip = op.slip /\ op'.bound = op.bound /\ op'.raw = op.raw
        /\ op'.route = op.route /\ op'.pre = op.pre /\ op'.preRead = op.preRead
        /\ op'.toDecimals = op.toDecimals /\ op'.toKnown = op.toKnown /\ op'.heard = op.heard
    BY <2>1 DEF SwapInv, OpInv, NoOp
  <2>3. op'.disturbed \in BOOLEAN /\ (~op'.disturbed => ~op.disturbed /\ c # op.to)
    BY <2>1, Zenon DEF SwapInv, OpInv, NoOp
  <2>4. funds' \in [Coin -> Int] /\ \A k \in Coin \ {c} : funds'[k] = funds[k]
    BY <2>1 DEF SwapInv
  <2>5. UNCHANGED <<rate, quotes>>
    BY <1>2 DEF OtherTransfer
  <2>6. OpInv' /\ QuotesInv' /\ BoundInv'
    BY <2>2, <2>3, <2>5 DEF SwapInv, OpInv, QuotesInv, BoundInv
  <2>7. MinOut' = MinOut
    BY <2>2 DEF MinOut
  <2>8. ArrivedInv'
    BY <2>2, <2>7 DEF SwapInv, ArrivedInv
  <2>9. ReportInv'
    BY <2>2, <2>3, <2>4 DEF SwapInv, OpInv, ReportInv, Measured, Truth, Displayed
  <2> QED
    BY <2>4, <2>5, <2>6, <2>8, <2>9 DEF SwapInv
<1>3. CASE MarketMoves \/ Tick \/ UNCHANGED tokenVars
  <2>1. rate' \in Nat \ {0} /\ UNCHANGED <<quotes, funds, op>>
    BY <1>3, TokenAssumption DEF MarketMoves, Tick, tokenVars, SwapInv
  <2> QED
    BY <2>1 DEF SwapInv, OpInv, QuotesInv, BoundInv, ArrivedInv, ReportInv, Measured, MinOut,
       Truth, Displayed
<1> QED
  BY <1>1, <1>2, <1>3

LEMMA SwapNext == SwapInv /\ [TokenNext]_tokenVars => SwapInv'
<1> SUFFICES ASSUME SwapInv, [TokenNext]_tokenVars PROVE SwapInv'
  OBVIOUS
<1>1. CASE swap \/ swap_cmd
  <2>1. ASSUME NEW slip \in Slippage PROVE slip \in Int /\ Min({slip, SLIPPAGE_MAX}) \in Int
    <3>1. slip \in Int /\ SLIPPAGE_MAX \in Int
      BY TokenAssumption
    <3>2. Min({slip, SLIPPAGE_MAX}) = IF slip <= SLIPPAGE_MAX THEN slip ELSE SLIPPAGE_MAX
      BY <3>1, LeastOfTwo
    <3> QED
      BY <3>1, <3>2
  <2>2. Amount \subseteq Nat
    BY TokenAssumption
  <2> QED
    BY <1>1, <2>1, <2>2, BeginSwapKeeps DEF swap, swap_cmd
<1> QED
  BY <1>1, ChooseRouteKeeps, PreBalanceKeeps, ExecuteSwapKeeps, ParseChangesKeeps,
     BalanceDiffKeeps, SendKeeps, OthersKeep DEF TokenNext

THEOREM SwapInductive == TokenSpec => []SwapInv
BY SwapInit, SwapNext, PTL DEF TokenSpec

\* Whatever the market, the clock and the other transfers do between the quote
\* and the landing, a swap bound to a quote takes the quoted input of the quoted
\* pair and brings the quoted output less at most the largest slippage, for
\* every rate, amount and slippage asked for.
THEOREM QuotesBind == TokenSpec => []QuoteIsBinding
<1>1. ASSUME SwapInv, op.kind = "swap", op.bound # NoRoute, op.got > 0
      PROVE  LET s == op.bound IN
             /\ <<op.from, op.to, op.left>> = <<s.fromCoinType, s.toCoinType, s.route.amountIn>>
             /\ op.got >= s.route.amountOut - (s.route.amountOut * SLIPPAGE_MAX) \div SLIPPAGE_UNIT
  <2>1. op.pc \in Executed /\ op.left = op.raw /\ op.raw > 0 /\ op.got >= MinOut
    BY <1>1 DEF SwapInv, OpInv, ArrivedInv
  <2>2. /\ op.bound \in quotes
        /\ op.bound.fromCoinType = op.from /\ op.bound.toCoinType = op.to
        /\ op.route = op.bound.route /\ op.route.amountIn = op.raw
    BY <1>1, <2>1 DEF SwapInv, BoundInv
  <2> DEFINE out  == op.route.amountOut
             asked == Min({op.slip, SLIPPAGE_MAX})
             slip == Max({SLIPPAGE_MIN, asked})
  <2>3. out \in Nat
    BY <1>1, <2>1, <2>2 DEF SwapInv, QuotesInv
  <2>4. slip \in Nat /\ slip <= SLIPPAGE_MAX
    <3>1. /\ op.slip \in Int /\ SLIPPAGE_MIN \in Nat /\ SLIPPAGE_MAX \in Nat
          /\ SLIPPAGE_MIN <= SLIPPAGE_MAX
      BY <1>1, TokenAssumption DEF SwapInv, OpInv
    <3>2. asked \in Int /\ asked <= SLIPPAGE_MAX
      BY <3>1, LeastOfTwo
    <3> HIDE DEF asked
    <3> QED
      BY <3>1, <3>2, LargestOfTwo
  <2>5. MinOut = out - (out * slip) \div SLIPPAGE_UNIT
    BY DEF MinOut
  <2> HIDE DEF out, slip
  <2>6. (out * slip) \div SLIPPAGE_UNIT <= (out * SLIPPAGE_MAX) \div SLIPPAGE_UNIT
        /\ (out * slip) \div SLIPPAGE_UNIT \in Nat
        /\ (out * SLIPPAGE_MAX) \div SLIPPAGE_UNIT \in Nat
    <3>1. SLIPPAGE_MAX \in Nat /\ SLIPPAGE_UNIT \in Nat \ {0}
      BY TokenAssumption
    <3>2. out * slip \in Nat /\ out * SLIPPAGE_MAX \in Nat /\ out * slip <= out * SLIPPAGE_MAX
      BY <2>3, <2>4, <3>1
    <3> QED
      BY <3>1, <3>2, DivMonotone
  <2>7. op.got >= out - (out * SLIPPAGE_MAX) \div SLIPPAGE_UNIT
    <3>1. op.got \in Int
      BY <1>1 DEF SwapInv, OpInv
    <3> QED
      BY <2>1, <2>3, <2>5, <2>6, <3>1
  <2> QED
    BY <2>1, <2>2, <2>7 DEF out
<1>2. SwapInv => QuoteIsBinding
  BY <1>1 DEF QuoteIsBinding
<1> QED
  BY <1>2, SwapInductive, PTL

\* In the output's true decimals a swap's report is what arrived, or the route's
\* estimate if neither read of the report answered, however its reads and the
\* other transfers interleave: for every coin, rate, threshold and wallet, as long
\* as the decimals were not guessed and the difference of the two balances can tell.
THEOREM ReportsAreTrue == TokenSpec => []ReportIsWhatArrived
<1>1. ASSUME SwapInv, op.kind = "swap", op.pc = "done", op.got > 0,
             op.toKnown, op.preRead, ~op.disturbed
      PROVE  SameAmount(op.told, Shown(IF op.heard THEN op.got ELSE op.route.amountOut,
                                       Decimals[op.to]))
  <2>1. op.told = Displayed(Truth) /\ op.toDecimals = Decimals[op.to]
    BY <1>1 DEF SwapInv, ReportInv, Measured
  <2>2. op.told = Shown(IF op.heard THEN op.got ELSE op.route.amountOut, Decimals[op.to])
    BY <2>1 DEF Displayed, Truth
  <2> QED
    BY <2>2 DEF SameAmount
<1>2. SwapInv => ReportIsWhatArrived
  BY <1>1 DEF ReportIsWhatArrived
<1> QED
  BY <1>2, SwapInductive, PTL

-----------------------------------------------------------------------------
(***************************************************************************)
(* A seller's catalog.                                                     *)
(***************************************************************************)

\* A row that is there has its terms: no payload leaves them out.
HasTerms(row) == row # Omitted => row.terms # Omitted

MergedWrite(ask, row) == serviceUpsertPayload(mergeServiceUpsert(ask, row).payload)

PackageWrites(ask) == {planPackage(ask)[i] : i \in DOMAIN Tiers}

UpdateWrite(ask) ==
  serviceUpsertPayload(ServiceUpsert("update", ask.slug, ask.offer, ask.terms, Omitted))

\* The one post a command other than a package may have to make.
SoleWrites(r) ==
  CASE r.ask.verb = "create" -> {ProfileWrite(r.ask.category), MergedWrite(r.ask, r.seen)}
    [] r.ask.verb = "upsert" -> {UpdateWrite(r.ask)}
    [] r.ask.verb = "retire" -> {RetireWrite(r.ask.slug)}
    [] OTHER -> {ProfileWrite(r.ask.category)}

\* How far which command is, and what it is about to post.
CommandInv(r) ==
  /\ DOMAIN r = DOMAIN Fresh
  /\ r.pc # "idle" /\ r.ask.verb \in {"create", "upsert", "retire"} => r.ask.slug \in Slug
  /\ r.pc = "gate" => r.ask.verb \in {"create", "sell"}
  /\ r.pc = "read" => r.ask.verb = "create"
  /\ r.pc = "register" => r.ask.verb \in {"register", "agent create"}
  /\ r.pc = "endpoint" => r.ask.verb \in {"sell", "remove"}
  /\ HasTerms(r.seen)
  /\ r.pc \in {"challenge", "post"} =>
       /\ r.ask.verb = "package" =>
            r.writes \in Seq(PackageWrites(r.ask)) /\ r.writes # <<>>
       /\ r.ask.verb # "package" => \E w \in SoleWrites(r) : r.writes = <<w>>
  /\ r.ask.verb = "create" /\ r.pc \notin {"done", "failed"} => r.got = Omitted

\* ListingsChangeAsAsked, of one command.
AsAsked(r) ==
  r.got # Omitted =>
    /\ r.ask.verb = "package" => ~Live(r.before)
    /\ r.ask.verb = "create" /\ r.before # Omitted /\ r.before = r.seen =>
         /\ r.got.terms = IF r.ask.terms = Omitted THEN r.before.terms ELSE r.ask.terms
         /\ r.ask.category = Omitted => r.got.category = r.before.category

CatalogInv ==
  /\ DOMAIN listings = Slug /\ \A s \in Slug : HasTerms(listings[s])
  /\ DOMAIN run = Command
  /\ \A c \in Command : CommandInv(run[c]) /\ AsAsked(run[c])

LEMMA PayloadHasTerms ==
  ASSUME NEW mode, NEW slug, NEW offer, NEW terms, NEW category
  PROVE  LET w == serviceUpsertPayload(ServiceUpsert(mode, slug, offer, terms, category)) IN
         /\ w.to = "upsert" /\ w.mode = mode /\ w.slug = slug /\ w.offer = offer
         /\ w.terms = IF terms = Omitted THEN DefaultTerms ELSE terms
         /\ w.terms # Omitted /\ w.category = Omitted
BY CatalogAssumption DEF serviceUpsertPayload, ServiceUpsert

LEMMA MergedHasTerms ==
  ASSUME NEW ask, NEW row, HasTerms(row)
  PROVE  LET w == MergedWrite(ask, row) IN
         /\ w.to = "upsert" /\ w.mode = "update" /\ w.slug = ask.slug /\ w.offer = ask.offer
         /\ w.terms # Omitted /\ w.category = Omitted
         /\ row # Omitted => w.terms = IF ask.terms = Omitted THEN row.terms ELSE ask.terms
BY PayloadHasTerms, CatalogAssumption DEF MergedWrite, mergeServiceUpsert, HasTerms

\* The first post of a command, whatever command it is.
LEMMA WriteIsKnown ==
  ASSUME NEW r, CommandInv(r), r.pc \in {"challenge", "post"}
  PROVE  LET w == r.writes[1] IN
         /\ w.to \in {"upsert", "retire", "profile"}
         /\ w.to = "upsert" => w.terms # Omitted
         /\ w.to = "retire" => w.slug \in Slug
         /\ r.ask.verb = "package" =>
              /\ w.to = "upsert" /\ w.mode = "create"
              /\ Len(r.writes) \in Nat
              /\ Len(r.writes) > 1 => /\ Tail(r.writes) \in Seq(PackageWrites(r.ask))
                                      /\ Tail(r.writes) # <<>>
         /\ r.ask.verb # "package" => ~(Len(r.writes) > 1)
         /\ r.ask.verb = "create" =>
              \/ w = ProfileWrite(r.ask.category) /\ w.to = "profile"
              \/ w = MergedWrite(r.ask, r.seen)
<1>1. CASE r.ask.verb = "package"
  <2>1. r.writes \in Seq(PackageWrites(r.ask)) /\ r.writes # <<>>
    BY <1>1 DEF CommandInv
  <2>2. PICK i \in DOMAIN Tiers : r.writes[1] = planPackage(r.ask)[i]
    BY <2>1 DEF PackageWrites
  <2>3. /\ r.writes[1].to = "upsert" /\ r.writes[1].mode = "create"
        /\ r.writes[1].terms # Omitted
    BY <2>2, PayloadHasTerms DEF planPackage
  <2> DEFINE S == PackageWrites(r.ask)
  <2>4. ASSUME NEW writes \in Seq(S), writes # <<>>
        PROVE  /\ Len(writes) \in Nat
               /\ Len(writes) > 1 => Tail(writes) \in Seq(S) /\ Tail(writes) # <<>>
    <3> HIDE DEF S
    <3>1. Len(writes) \in Nat /\ Tail(writes) \in Seq(S)
      BY <2>4
    <3>2. Len(Tail(writes)) = Len(writes) - 1
      BY <2>4
    <3>3. Len(writes) > 1 => Len(Tail(writes)) # Len(<<>>)
      BY <3>1, <3>2
    <3> QED
      BY <3>1, <3>3
  <2>5. /\ Len(r.writes) \in Nat
        /\ Len(r.writes) > 1 => Tail(r.writes) \in Seq(S) /\ Tail(r.writes) # <<>>
    BY <2>1, <2>4
  <2> HIDE DEF S
  <2> QED
    BY <1>1, <2>3, <2>5 DEF S
<1>2. CASE r.ask.verb # "package"
  <2>1. PICK w \in SoleWrites(r) : r.writes = <<w>>
    BY <1>2 DEF CommandInv
  <2>2. r.writes[1] = w /\ ~(Len(r.writes) > 1)
    BY <2>1
  <2>3. CASE r.ask.verb = "create"
    BY <2>1, <2>2, <2>3, MergedHasTerms DEF SoleWrites, ProfileWrite, CommandInv
  <2>4. CASE r.ask.verb = "upsert"
    BY <2>1, <2>2, <2>4, PayloadHasTerms DEF SoleWrites, UpdateWrite
  <2>5. CASE r.ask.verb = "retire"
    BY <2>1, <2>2, <2>5 DEF SoleWrites, RetireWrite, CommandInv
  <2>6. CASE r.ask.verb \notin {"create", "upsert", "retire"}
    BY <1>2, <2>1, <2>2, <2>6 DEF SoleWrites, ProfileWrite
  <2> QED
    BY <1>2, <2>3, <2>4, <2>5, <2>6
<1> QED
  BY <1>1, <1>2

\* A command's own step; the other commands see at most another row.
LEMMA OneCommandSteps ==
  ASSUME CatalogInv, NEW c \in Command, NEW r, run' = [run EXCEPT ![c] = r],
         CommandInv(r), AsAsked(r),
         \/ UNCHANGED listings
         \/ \E slug, row : HasTerms(row) /\ listings' = [listings EXCEPT ![slug] = row]
  PROVE  CatalogInv'
<1>1. DOMAIN listings' = Slug /\ \A s \in Slug : HasTerms(listings'[s])
  BY DEF CatalogInv
<1>2. DOMAIN run' = Command /\ \A k \in Command : run'[k] = IF k = c THEN r ELSE run[k]
  BY DEF CatalogInv
<1>3. \A k \in Command : CommandInv(run'[k]) /\ AsAsked(run'[k])
  BY <1>2 DEF CatalogInv
<1>4. CatalogInv' <=>
        /\ DOMAIN listings' = Slug /\ \A s \in Slug : HasTerms(listings'[s])
        /\ DOMAIN run' = Command
        /\ \A k \in Command : CommandInv(run'[k]) /\ AsAsked(run'[k])
  BY DEF CatalogInv, HasTerms, CommandInv, AsAsked, SoleWrites
<1> QED
  BY <1>1, <1>2, <1>3, <1>4

\* A command that moves on without a row to write or answer for.
LEMMA MovesOn ==
  ASSUME CatalogInv, NEW c \in Command, NEW pc, run' = [run EXCEPT ![c].pc = pc],
         UNCHANGED listings, run[c].pc # "idle",
         \/ pc = "failed"
         \/ pc = "done" /\ run[c].ask.verb # "create"
         \/ pc = "noop" /\ run[c].pc = "read"
         \/ pc = "endpoint" /\ run[c].ask.verb = "sell"
         \/ run[c].pc = "gate" /\ run[c].ask.verb = "create" /\ pc = "read"
         \/ run[c].pc = "challenge" /\ pc = "post"
  PROVE  CatalogInv'
<1> DEFINE old == run[c]
           r   == [old EXCEPT !.pc = pc]
<1>1. run' = [run EXCEPT ![c] = r] /\ CommandInv(old) /\ AsAsked(old)
  BY DEF CatalogInv
<1>2. /\ DOMAIN r = DOMAIN Fresh /\ r.pc = pc /\ r.ask = old.ask /\ r.writes = old.writes
      /\ r.seen = old.seen /\ r.before = old.before /\ r.got = old.got
  BY <1>1 DEF CommandInv, Fresh
<1> HIDE DEF r, old
<1>3. SoleWrites(r) = SoleWrites(old)
  BY <1>2 DEF SoleWrites
<1>4. CommandInv(r)
  BY <1>1, <1>2, <1>3 DEF CommandInv, old
<1>5. AsAsked(r)
  BY <1>1, <1>2 DEF AsAsked
<1> QED
  BY <1>1, <1>4, <1>5, OneCommandSteps

LEMMA SequenceNotEmpty ==
  ASSUME NEW S, NEW s \in Seq(S), s # <<>>
  PROVE  Len(s) # 0 /\ Len(s) \in Nat /\ DOMAIN s = 1..Len(s)
<1>1. Len(s) # 0
  OBVIOUS
<1>2. Len(s) \in Nat
  OBVIOUS
<1>3. DOMAIN s = 1..Len(s)
  OBVIOUS
<1> QED
  BY <1>1, <1>2, <1>3

LEMMA FunctionIsSequence ==
  ASSUME NEW S, NEW n \in Nat, n # 0, NEW f \in [1..n -> S]
  PROVE  f \in Seq(S) /\ f # <<>>
<1>1. f \in Seq(S)
  OBVIOUS
<1>2. Len(f) = n /\ Len(<<>>) = 0
  OBVIOUS
<1> QED
  BY <1>1, <1>2

\* Every command that starts settles on the posts of its verb.
LEMMA CommandBegins ==
  ASSUME CatalogInv, NEW c \in Command, NEW verb, NEW pc, Begin(c, verb, pc),
         \/ verb = "create" /\ pc = "gate"
         \/ verb \in {"upsert", "package", "retire", "profile"} /\ pc = "challenge"
         \/ verb \in {"register", "agent create"} /\ pc = "register"
         \/ verb = "remove" /\ pc = "endpoint"
         \/ verb = "sell" /\ pc = "gate"
         \/ /\ verb = "sell" /\ pc = "challenge"
            /\ run'[c].ask.category # Omitted
  PROVE  CatalogInv'
<1>1. PICK ask \in Request :
        /\ ask.verb = verb
        /\ run' = [run EXCEPT ![c] =
             [Fresh EXCEPT !.pc = pc, !.ask = ask, !.writes = FirstWrites(ask)]]
  BY DEF Begin
<1> DEFINE r == [Fresh EXCEPT !.pc = pc, !.ask = ask, !.writes = FirstWrites(ask)]
<1>2. /\ DOMAIN r = DOMAIN Fresh /\ r.pc = pc /\ r.ask = ask /\ r.writes = FirstWrites(ask)
      /\ r.seen = Omitted /\ r.got = Omitted
  BY DEF Fresh
<1>3. run' = [run EXCEPT ![c] = r] /\ run'[c] = r
  BY <1>1 DEF CatalogInv
<1> HIDE DEF r
<1>4. pc = "challenge" =>
        /\ verb = "package" => r.writes \in Seq(PackageWrites(ask)) /\ r.writes # <<>>
        /\ verb # "package" => \E w \in SoleWrites(r) : r.writes = <<w>>
  <2>1. CASE verb = "package"
    <3>1. r.writes = planPackage(ask)
      BY <1>1, <1>2, <2>1 DEF FirstWrites
    <3>2. Tiers \in Seq(Slug) /\ Tiers # <<>>
      BY CatalogAssumption
    <3>3. /\ DOMAIN planPackage(ask) = DOMAIN Tiers
          /\ \A i \in DOMAIN Tiers : planPackage(ask)[i] \in PackageWrites(ask)
      BY DEF planPackage, PackageWrites
    <3>4. DOMAIN Tiers = 1..Len(Tiers) /\ Len(Tiers) \in Nat
      BY <3>2, SequenceNotEmpty
    <3>5. Len(Tiers) # 0
      BY <3>2, SequenceNotEmpty
    <3>6. planPackage(ask) \in [1..Len(Tiers) -> PackageWrites(ask)]
      BY <3>3, <3>4 DEF planPackage
    <3>7. planPackage(ask) \in Seq(PackageWrites(ask)) /\ planPackage(ask) # <<>>
      BY <3>4, <3>5, <3>6, FunctionIsSequence
    <3> QED
      BY <2>1, <3>1, <3>7
  <2>2. CASE verb = "upsert"
    BY <1>1, <1>2, <2>2 DEF FirstWrites, SoleWrites, UpdateWrite
  <2>3. CASE verb = "retire"
    BY <1>1, <1>2, <2>3 DEF FirstWrites, SoleWrites
  <2>4. CASE verb = "profile"
    BY <1>1, <1>2, <2>4 DEF FirstWrites, SoleWrites
  <2>5. CASE verb = "sell"
    BY <1>1, <1>2, <1>3, <2>5 DEF FirstWrites, SoleWrites
  <2> QED
    BY <2>1, <2>2, <2>3, <2>4, <2>5
<1>5. ask.verb \in {"create", "upsert", "retire"} => ask.slug \in Slug
  BY CatalogAssumption
<1>6. CommandInv(r)
  BY <1>1, <1>2, <1>4, <1>5 DEF CommandInv, HasTerms
<1>7. AsAsked(r)
  BY <1>2 DEF AsAsked
<1>8. UNCHANGED listings
  BY DEF Begin
<1> QED
  BY <1>3, <1>6, <1>7, <1>8, OneCommandSteps

LEMMA GateKeeps ==
  ASSUME CatalogInv, NEW c \in Command, ensureSellerCategory(c)
  PROVE  CatalogInv'
<1> DEFINE old  == run[c]
           next == IF old.ask.verb = "create" THEN "read" ELSE "endpoint"
           w    == ProfileWrite(old.ask.category)
           r    == [old EXCEPT !.pc = "challenge", !.writes = <<w>>]
<1>1. old.pc = "gate" /\ UNCHANGED listings /\ CommandInv(old) /\ AsAsked(old)
  BY DEF ensureSellerCategory, CatalogInv
<1>2. \/ run' = [run EXCEPT ![c].pc = next]
      \/ run' = [run EXCEPT ![c] = r]
      \/ run' = [run EXCEPT ![c].pc = "failed"]
  BY DEF ensureSellerCategory
<1>3. \/ next = "read" /\ old.ask.verb = "create"
      \/ next = "endpoint" /\ old.ask.verb = "sell"
  BY <1>1 DEF CommandInv
<1>4. /\ DOMAIN r = DOMAIN Fresh /\ r.pc = "challenge" /\ r.ask = old.ask /\ r.writes = <<w>>
      /\ r.seen = old.seen /\ r.before = old.before /\ r.got = old.got
  BY <1>1 DEF CommandInv, Fresh
<1> HIDE DEF r
<1>5. CASE run' = [run EXCEPT ![c] = r]
  <2>1. old.ask.verb \in {"create", "sell"}
    BY <1>1 DEF CommandInv
  <2>2. w \in SoleWrites(r)
    BY <1>4, <2>1 DEF SoleWrites
  <2>3. CommandInv(r)
    BY <1>1, <1>4, <2>1, <2>2 DEF CommandInv
  <2>4. AsAsked(r)
    BY <1>1, <1>4 DEF AsAsked
  <2> QED
    BY <1>1, <1>5, <2>3, <2>4, OneCommandSteps
<1>6. CASE run' = [run EXCEPT ![c].pc = next] \/ run' = [run EXCEPT ![c].pc = "failed"]
  <2> HIDE DEF next
  <2> QED
    BY <1>1, <1>3, <1>6, MovesOn
<1> QED
  BY <1>2, <1>5, <1>6

LEMMA MergeKeeps ==
  ASSUME CatalogInv, NEW c \in Command, MergeInto(c)
  PROVE  CatalogInv'
<1> DEFINE old == run[c]
           row == listings[old.ask.slug]
           w   == MergedWrite(old.ask, row)
           r   == [old EXCEPT !.pc = "challenge", !.seen = row, !.writes = <<w>>]
<1>1. old.pc = "read" /\ UNCHANGED listings /\ CommandInv(old) /\ AsAsked(old)
  BY DEF MergeInto, CatalogInv
<1>2. \/ run' = [run EXCEPT ![c].pc = "failed"]
      \/ run' = [run EXCEPT ![c].pc = "noop"]
      \/ run' = [run EXCEPT ![c] = r]
  BY DEF MergeInto, Becomes, MergedWrite
<1>3. old.ask.verb = "create" /\ old.ask.slug \in Slug
  BY <1>1 DEF CommandInv
<1>4. HasTerms(row)
  BY <1>3 DEF CatalogInv
<1>5. /\ DOMAIN r = DOMAIN Fresh /\ r.pc = "challenge" /\ r.ask = old.ask /\ r.writes = <<w>>
      /\ r.seen = row /\ r.before = old.before /\ r.got = old.got
  BY <1>1 DEF CommandInv, Fresh
<1> HIDE DEF r, row
<1>6. CASE run' = [run EXCEPT ![c] = r]
  <2>1. w \in SoleWrites(r)
    BY <1>3, <1>5 DEF SoleWrites
  <2>2. r.got = Omitted
    BY <1>1, <1>3, <1>5 DEF CommandInv
  <2> HIDE DEF w
  <2>3. CommandInv(r)
    BY <1>3, <1>4, <1>5, <2>1, <2>2 DEF CommandInv
  <2>4. AsAsked(r)
    BY <2>2 DEF AsAsked
  <2> QED
    BY <1>1, <1>6, <2>3, <2>4, OneCommandSteps
<1> QED
  BY <1>1, <1>2, <1>6, MovesOn

\* What the server stores has its terms, whatever was posted.
LEMMA StoredHasTerms ==
  ASSUME CatalogInv, NEW w, Accepts(w), w.to \in {"upsert", "retire"},
         w.to = "upsert" => w.terms # Omitted, w.to = "retire" => w.slug \in Slug
  PROVE  HasTerms(Stored(w))
<1>1. CASE w.to = "retire"
  <2> DEFINE row == listings[w.slug]
  <2>1. row # Omitted /\ row.terms # Omitted
    BY <1>1 DEF Accepts, CatalogInv, HasTerms
  <2>2. Stored(w) = [row EXCEPT !.retired = TRUE]
    BY <1>1 DEF Stored
  <2> HIDE DEF row
  <2> QED
    BY <2>1, <2>2 DEF HasTerms
<1>2. CASE w.to = "upsert"
  BY <1>2 DEF Stored, HasTerms
<1> QED
  BY <1>1, <1>2

LEMMA PostKeeps ==
  ASSUME CatalogInv, NEW c \in Command, PostSigned(c)
  PROVE  CatalogInv'
<1> DEFINE old == run[c]
           w   == old.writes[1]
           pcs == {AfterWrite(old), "failed"}
<1>1. old.pc = "post" /\ CommandInv(old) /\ AsAsked(old)
  BY DEF PostSigned, CatalogInv
<1>2. /\ w.to \in {"upsert", "retire", "profile"}
      /\ w.to = "upsert" => w.terms # Omitted
      /\ w.to = "retire" => w.slug \in Slug
      /\ old.ask.verb = "package" =>
           /\ w.to = "upsert" /\ w.mode = "create"
           /\ Len(old.writes) \in Nat
           /\ Len(old.writes) > 1 => /\ Tail(old.writes) \in Seq(PackageWrites(old.ask))
                                     /\ Tail(old.writes) # <<>>
      /\ old.ask.verb # "package" => ~(Len(old.writes) > 1)
      /\ old.ask.verb = "create" => \/ w = ProfileWrite(old.ask.category) /\ w.to = "profile"
                                    \/ w = MergedWrite(old.ask, old.seen)
  BY <1>1, WriteIsKnown
<1>3. CASE Throws(c)
  BY <1>1, <1>3, MovesOn DEF Throws, Becomes
<1> DEFINE writes == Tail(old.writes)
           before == listings[w.slug]
           got    == Stored(w)
           On(pc) == [[old EXCEPT !.pc = AfterWrite(old), !.writes = writes] EXCEPT !.pc = pc]
           Answered(pc) == [On(pc) EXCEPT !.before = before, !.got = got]
<1>4. ASSUME NEW pc
      PROVE  /\ DOMAIN On(pc) = DOMAIN Fresh /\ On(pc).pc = pc /\ On(pc).ask = old.ask
             /\ On(pc).writes = writes /\ On(pc).seen = old.seen
             /\ On(pc).before = old.before /\ On(pc).got = old.got
             /\ DOMAIN Answered(pc) = DOMAIN Fresh /\ Answered(pc).pc = pc
             /\ Answered(pc).ask = old.ask /\ Answered(pc).writes = writes
             /\ Answered(pc).seen = old.seen
             /\ Answered(pc).before = before /\ Answered(pc).got = got
  BY <1>1 DEF CommandInv, Fresh
<1>5. CASE ~Throws(c)
  <2>1. /\ Accepts(w)
        /\ \E pc \in pcs :
             \/ w.to = "profile" /\ run' = [run EXCEPT ![c] = On(pc)] /\ UNCHANGED listings
             \/ /\ w.to # "profile"
                /\ listings' = [listings EXCEPT ![w.slug] = got]
                /\ run' = [run EXCEPT ![c] = Answered(pc)]
    <3>1. On(AfterWrite(old)) = [old EXCEPT !.pc = AfterWrite(old), !.writes = Tail(@)]
      BY <1>1 DEF CommandInv, Fresh
    <3> QED
      BY <1>5, <3>1 DEF PostSigned
  <2>2. PICK pc \in pcs :
          \/ w.to = "profile" /\ run' = [run EXCEPT ![c] = On(pc)] /\ UNCHANGED listings
          \/ /\ w.to # "profile"
             /\ listings' = [listings EXCEPT ![w.slug] = got]
             /\ run' = [run EXCEPT ![c] = Answered(pc)]
    BY <2>1
  <2>3. /\ old.ask.verb = "create" => pc \in {"read", "done", "failed"}
        /\ old.ask.verb = "create" /\ w.to = "upsert" => pc \in {"done", "failed"}
        /\ old.ask.verb = "package" /\ pc = "challenge" => Len(old.writes) > 1
        /\ old.ask.verb # "package" => pc # "challenge"
        /\ pc = "endpoint" => old.ask.verb = "sell"
        /\ pc \in {"challenge", "read", "endpoint", "done", "failed"}
        /\ pc = "read" => old.ask.verb = "create"
    <3>1. AfterWrite(old) \in {"challenge", "read", "endpoint", "done"}
      BY DEF AfterWrite
    <3>2. CASE old.ask.verb = "create"
      <4>1. ~(Len(old.writes) > 1)
        BY <1>2, <3>2
      <4>2. AfterWrite(old) = IF w.to = "profile" THEN "read" ELSE "done"
        BY <3>2, <4>1 DEF AfterWrite
      <4> QED
        BY <3>2, <4>2
    <3>3. CASE old.ask.verb = "package"
      BY <1>2, <3>3 DEF AfterWrite
    <3>4. CASE old.ask.verb \notin {"create", "package"}
      <4>1. ~(Len(old.writes) > 1)
        BY <1>2, <3>4
      <4>2. AfterWrite(old) = IF old.ask.verb = "sell" THEN "endpoint" ELSE "done"
        BY <3>4, <4>1 DEF AfterWrite
      <4> QED
        BY <3>4, <4>2
    <3> QED
      BY <3>2, <3>3, <3>4
  <2> HIDE DEF On, Answered, writes, before, got, pcs
  <2>4. ASSUME NEW r, DOMAIN r = DOMAIN Fresh, r.pc = pc, r.ask = old.ask, r.writes = writes,
               r.seen = old.seen,
               old.ask.verb = "create" /\ pc \notin {"done", "failed"} => r.got = Omitted
        PROVE  CommandInv(r)
    BY <1>1, <1>2, <2>3, <2>4 DEF CommandInv, writes
  <2>5. CASE w.to = "profile" /\ run' = [run EXCEPT ![c] = On(pc)] /\ UNCHANGED listings
    <3>1. CommandInv(On(pc))
      BY <1>1, <1>4, <2>4 DEF CommandInv
    <3>2. AsAsked(On(pc))
      BY <1>1, <1>4 DEF AsAsked
    <3> QED
      BY <2>5, <3>1, <3>2, OneCommandSteps
  <2>6. CASE /\ w.to # "profile"
             /\ listings' = [listings EXCEPT ![w.slug] = got]
             /\ run' = [run EXCEPT ![c] = Answered(pc)]
    <3>1. w.to \in {"upsert", "retire"}
      BY <1>2, <2>6
    <3>2. HasTerms(got)
      BY <1>2, <2>1, <3>1, StoredHasTerms DEF got
    <3>3. old.ask.verb = "create" => w = MergedWrite(old.ask, old.seen) /\ w.to = "upsert"
      BY <1>1, <1>2, <2>6, MergedHasTerms DEF CommandInv
    <3>4. CommandInv(Answered(pc))
      BY <1>4, <2>3, <2>4, <3>3
    <3>5. old.ask.verb = "package" => ~Live(before)
      BY <1>2, <2>1 DEF Accepts, before
    <3>6. old.ask.verb = "create" /\ before # Omitted /\ before = old.seen =>
            /\ got.terms = IF old.ask.terms = Omitted THEN before.terms ELSE old.ask.terms
            /\ got.category = before.category
      <4>1. HasTerms(old.seen)
        BY <1>1 DEF CommandInv
      <4> QED
        BY <3>3, <4>1, MergedHasTerms DEF got, before, Stored
    <3>7. AsAsked(Answered(pc))
      BY <1>4, <3>5, <3>6 DEF AsAsked
    <3> QED
      BY <2>6, <3>2, <3>4, <3>7, OneCommandSteps
  <2> QED
    BY <2>2, <2>5, <2>6
<1> QED
  BY <1>3, <1>5

LEMMA RegisterKeeps ==
  ASSUME CatalogInv, NEW c \in Command, registerAgent(c)
  PROVE  CatalogInv'
<1> DEFINE old == run[c]
           w   == ProfileWrite(old.ask.category)
           r   == [old EXCEPT !.pc = "challenge", !.writes = <<w>>]
<1>1. /\ old.pc = "register" /\ UNCHANGED listings /\ CommandInv(old) /\ AsAsked(old)
      /\ old.ask.verb \in {"register", "agent create"}
  BY DEF registerAgent, CatalogInv, CommandInv, Throws
<1>2. \/ run' = [run EXCEPT ![c].pc = "failed"]
      \/ run' = [run EXCEPT ![c].pc = "done"]
      \/ run' = [run EXCEPT ![c] = r]
  BY DEF registerAgent, Throws, Becomes
<1>3. /\ DOMAIN r = DOMAIN Fresh /\ r.pc = "challenge" /\ r.ask = old.ask /\ r.writes = <<w>>
      /\ r.seen = old.seen /\ r.before = old.before /\ r.got = old.got
  BY <1>1 DEF CommandInv, Fresh
<1> HIDE DEF r
<1>4. CommandInv(r) /\ AsAsked(r)
  BY <1>1, <1>3 DEF CommandInv, AsAsked, SoleWrites
<1> QED
  BY <1>1, <1>2, <1>4, MovesOn, OneCommandSteps

LEMMA CatalogStep == CatalogInv /\ [CatalogNext]_catalogVars => CatalogInv'
<1> SUFFICES ASSUME CatalogInv, [CatalogNext]_catalogVars PROVE CatalogInv'
  OBVIOUS
<1>1. CASE UNCHANGED catalogVars
  BY <1>1 DEF catalogVars, CatalogInv, CommandInv, AsAsked, HasTerms, SoleWrites
<1>2. ASSUME NEW c \in Command,
             \/ service_create(c) \/ upsertService(c) \/ createPackage(c) \/ service_retire(c)
             \/ agent_profile(c) \/ agent_register(c) \/ agent_create(c) \/ agent_sell(c)
      PROVE  CatalogInv'
  BY <1>2, CommandBegins DEF service_create, upsertService, createPackage, service_retire,
     agent_profile, agent_register, agent_create, agent_sell
<1>3. ASSUME NEW c \in Command, signChallenge(c) \/ setEndpoint(c) PROVE CatalogInv'
  <2>1. CASE signChallenge(c)
    BY <2>1, MovesOn DEF signChallenge, Becomes
  <2>2. CASE setEndpoint(c)
    <3>1. run[c].pc = "endpoint" /\ run[c].ask.verb # "create" /\ UNCHANGED listings
      BY <2>2 DEF setEndpoint, Throws, CatalogInv, CommandInv
    <3>2. \E pc \in {"done", "failed"} : run' = [run EXCEPT ![c].pc = pc]
      BY <2>2 DEF setEndpoint, Throws, Becomes
    <3> QED
      BY <3>1, <3>2, MovesOn
  <2> QED
    BY <1>3, <2>1, <2>2
<1> QED
  BY <1>1, <1>2, <1>3, GateKeeps, MergeKeeps, PostKeeps, RegisterKeeps DEF CatalogNext

\* Whichever commands of a seller overlap and whatever fails on the way, an
\* update nothing overtook keeps what it did not name, and no package replaces
\* a live listing - for any number of commands, slugs and tiers.
THEOREM ListingsAreKept == CatalogSpec => []ListingsChangeAsAsked
<1>1. ASSUME CatalogInit PROVE CatalogInv
  <2>1. Fresh.pc = "idle" /\ Fresh.seen = Omitted /\ Fresh.got = Omitted
    BY DEF Fresh
  <2>2. CommandInv(Fresh) /\ AsAsked(Fresh)
    BY <2>1 DEF CommandInv, AsAsked, HasTerms
  <2>3. DOMAIN listings = Slug /\ \A s \in Slug : HasTerms(listings[s])
    BY <1>1, CatalogAssumption DEF CatalogInit, HasTerms
  <2>4. DOMAIN run = Command /\ \A c \in Command : run[c] = Fresh
    BY <1>1 DEF CatalogInit
  <2> QED
    BY <2>2, <2>3, <2>4 DEF CatalogInv
<1>2. CatalogInv => ListingsChangeAsAsked
  BY DEF CatalogInv, AsAsked, ListingsChangeAsAsked
<1> QED
  BY <1>1, <1>2, CatalogStep, PTL DEF CatalogSpec

-----------------------------------------------------------------------------
(***************************************************************************)
(* A composed transaction.                                                 *)
(***************************************************************************)

IsSeq(s) == \E S : s \in Seq(S)

CmdFields == {"op", "step", "outs", "whole", "part", "merges", "gas", "to", "took", "safe"}

\* A command of the step that consumes no output, and one that draws on no coin
\* object.
Outless(c) == DOMAIN c = CmdFields /\ c.outs = {} /\ c.step = at
Drawless(c) == c.merges = {} /\ c.whole = {} /\ c.part = {}

\* What a command takes of the merged coins, and what is left of them.
Draws(c) ==
  \/ Drawless(c) /\ cache' = cache
  \/ \E t \in CoinType, v \in Int :
       /\ cache[t] # 0 /\ cache' = [cache EXCEPT ![t] = v]
       /\ c.merges \cup c.whole \cup c.part \subseteq {t}
       /\ t \in c.merges => cache[t] = Unmerged
       /\ t \in c.whole => v = 0

Progress == at' = at + 1 /\ verdict' = IF at = Len(plan) THEN "built" ELSE "open"
Thrown == UNCHANGED <<at, cmds, cache>> /\ verdict' \notin {"open", "built"}

\* The wallet and the cache hold whole units.
PurseInv ==
  /\ DOMAIN wallet = CoinType /\ \A t \in CoinType : Holdings(wallet[t])
  /\ DOMAIN cache = CoinType /\ \A t \in CoinType : cache[t] \in Int \cup {Unmerged}

\* A leg that pays from the wallet: refused, or one command over what it got.
LEMMA SourceDraws ==
  ASSUME PurseInv, Unmerged \notin Int, NEW c, NEW t \in CoinType, NEW amount \in Int, amount > 0,
         Outless(c), Drawless(c), ~c.gas, Sourced(c, t, amount)
  PROVE  \/ Thrown
         \/ /\ Progress
            /\ \E d : /\ cmds' = cmds \o Commands(plan[at], d) /\ Draws(d)
                      /\ Outless(d) /\ d.op = c.op /\ d.to = c.to
                      /\ sponsored => ~d.gas
<1> DEFINE got == selectCoinObjectsOnly(wallet[t], amount, cache[t])
<1>1. CASE sponsored
  <2>1. CASE got = Refused
    BY <1>1, <2>1 DEF Sourced, Throw, Thrown
  <2>2. CASE got # Refused
    <3> DEFINE d == FromObjects(c, t, got)
               held == IF cache[t] = Unmerged THEN SumOf(wallet[t].objects) ELSE cache[t]
               requested == IF amount = All THEN held ELSE amount
    <3>1. /\ held # 0
          /\ got = [took |-> requested, merge |-> cache[t] = Unmerged, whole |-> requested = held,
                    cache |-> held - requested]
      BY <2>2 DEF selectCoinObjectsOnly
    <3>2. held \in Int /\ requested \in Int /\ cache[t] # 0
      BY <3>1 DEF PurseInv, Holdings
    <3>3. /\ got.cache \in Int /\ (got.merge <=> cache[t] = Unmerged)
          /\ got.whole => got.cache = 0
      <4> HIDE DEF held, requested, got
      <4>1. got.cache = held - requested
        BY <3>1
      <4>2. (got.merge <=> cache[t] = Unmerged) /\ (got.whole <=> requested = held)
        BY <3>1, Zenon
      <4>3. requested = held => held - requested = 0
        BY <3>2
      <4> QED
        BY <3>2, <4>1, <4>2, <4>3
    <3>4. /\ cmds' = cmds \o Commands(plan[at], d) /\ cache' = [cache EXCEPT ![t] = got.cache]
          /\ Progress
      BY <1>1, <2>2 DEF Sourced, Append1, Progress
    <3>5. /\ DOMAIN d = CmdFields /\ d.outs = {} /\ d.step = at /\ d.op = c.op /\ d.to = c.to /\ ~d.gas
          /\ d.merges = IF got.merge THEN {t} ELSE {}
          /\ d.whole = IF got.whole THEN {t} ELSE {}
          /\ d.part = IF got.whole THEN {} ELSE {t}
      BY DEF FromObjects, Outless, CmdFields
    <3> HIDE DEF d, held, requested, got
    <3>6. Draws(d)
      BY <3>2, <3>3, <3>4, <3>5 DEF Draws
    <3> QED
      BY <3>4, <3>5, <3>6 DEF Outless
  <2> QED
    BY <2>1, <2>2
<1>2. CASE ~sponsored /\ t = "SUI"
  <2> DEFINE d == [c EXCEPT !.gas = TRUE, !.took = amount]
  <2>1. cmds' = cmds \o Commands(plan[at], d) /\ cache' = cache /\ Progress
    BY <1>2 DEF Sourced, Append1, Progress
  <2>2. Outless(d) /\ Drawless(d) /\ d.op = c.op /\ d.to = c.to
    BY DEF Outless, CmdFields, Drawless
  <2> HIDE DEF d
  <2> QED
    BY <1>2, <2>1, <2>2 DEF Draws
<1>3. CASE ~sponsored /\ t # "SUI"
  <2> DEFINE bal == selectAndSplitCoin(wallet[t], amount, TRUE)
             d == [c EXCEPT !.took = bal.took]
  <2>1. CASE bal = Refused
    BY <1>3, <2>1 DEF Sourced, Throw, Thrown
  <2>2. CASE bal # Refused
    <3>1. cmds' = cmds \o Commands(plan[at], d) /\ cache' = cache /\ Progress
      BY <1>3, <2>2 DEF Sourced, Append1, Progress
    <3>2. Outless(d) /\ Drawless(d) /\ d.op = c.op /\ d.to = c.to
      BY DEF Outless, CmdFields, Drawless
    <3> HIDE DEF d
    <3> QED
      BY <1>3, <3>1, <3>2 DEF Draws
  <2> QED
    BY <2>1, <2>2
<1> QED
  BY <1>1, <1>2, <1>3

\* The command that a step comes down to: the output it consumes, whom it pays
\* and, when somebody else sponsors the gas, that it keeps off the gas coin.
Names(s) == IF s.inputCoinFromStep # Absent THEN {s.inputCoinFromStep} ELSE {}
Settles(c, s) ==
  /\ c.outs = Names(s) /\ c.step = at
  /\ s.toolName = "send_transfer" => c.op \in {"transfer", "send_funds"} /\ c.to = {s.to}
  /\ s.toolName = "swap_execute" => c.op = "swap" /\ c.to = {}
  /\ sponsored => ~c.gas
  /\ sponsored /\ c.op = "swap" => c.safe

Homeward == plan[at].toolName = "swap_execute" /\ at \notin consumedSteps
Home(c) == c.outs = {at} /\ c.step = at /\ c.to = {sender} /\ c.op = "transfer" /\ ~c.gas /\ Drawless(c)

Appended ==
  /\ Progress
  /\ \E c, d : /\ Settles(c, plan[at]) /\ Draws(c) /\ Home(d)
               /\ cmds' = cmds \o (IF Homeward THEN <<c, d>> ELSE <<c>>)

LEMMA CommandFields ==
  ASSUME NEW name
  PROVE  /\ Outless(Cmd(name)) /\ Drawless(Cmd(name)) /\ ~Cmd(name).gas
         /\ Cmd(name).op = name /\ Cmd(name).to = {}
BY DEF Cmd, Outless, CmdFields, Drawless

\* A swap and the transfer of what nobody consumes.
LEMMA SwapSettles ==
  ASSUME NEW c, DOMAIN c = CmdFields, c.step = at, plan[at].toolName = "swap_execute",
         c.outs = Names(plan[at]), c.op = "swap", c.to = {}, sponsored => ~c.gas, Draws(c)
  PROVE  \E a, d : /\ Settles(a, plan[at]) /\ Draws(a) /\ Home(d)
                   /\ SwapCommands(plan[at], c) = IF Homeward THEN <<a, d>> ELSE <<a>>
<1> DEFINE s == plan[at]
           used == IF IsConsumer(at) THEN s.amount ELSE c.took
           leg == [c EXCEPT !.safe = IF UsesPrecomputed(s, used) THEN s.route.safe ELSE sponsored]
           back == [Cmd("transfer") EXCEPT !.outs = {at}, !.to = {sender}]
<1>1. SwapCommands(s, c) = IF at \in consumedSteps THEN <<leg>> ELSE <<leg, back>>
  BY DEF SwapCommands
<1>2. Home(back)
  <2>1. back.outs = {at} /\ back.step = at /\ back.to = {sender} /\ back.op = "transfer" /\ Drawless(back)
    BY CommandFields DEF Outless, CmdFields, Drawless
  <2>2. back.gas = Cmd("transfer").gas
    BY CommandFields DEF Outless, CmdFields
  <2> HIDE DEF back
  <2> QED
    BY <2>1, <2>2, CommandFields DEF Home
<1>3. /\ leg.outs = c.outs /\ leg.step = at /\ leg.op = c.op /\ leg.to = c.to /\ leg.gas = c.gas
      /\ leg.merges = c.merges /\ leg.whole = c.whole /\ leg.part = c.part
      /\ leg.safe = IF UsesPrecomputed(s, used) THEN s.route.safe ELSE sponsored
  BY DEF CmdFields
<1>4. sponsored => leg.safe
  <2> HIDE DEF leg, used, s
  <2> QED
    BY <1>3 DEF UsesPrecomputed
<1>5. Settles(leg, s) /\ Draws(leg)
  <2> HIDE DEF leg, used
  <2> QED
    BY <1>3, <1>4 DEF Settles, Draws, Drawless
<1> HIDE DEF leg, back
<1> QED
  BY <1>1, <1>2, <1>5 DEF Homeward

\* Every step that is not refused ends in its command, and a swap whose output
\* no step names in a transfer of it home.
LEMMA StepAppends ==
  ASSUME PurseInv, ComposeAssumption, plan \in Plan, at \in Steps, AppendStep
  PROVE  Thrown \/ Appended
<1> DEFINE s == plan[at]
<1>1. s.amount \in Int /\ s.toolName \in {"send_transfer", "swap_execute"}
  BY DEF ComposeAssumption, Steps
<1>2. PICK d0 : Home(d0)
  <2> DEFINE back == [Cmd("transfer") EXCEPT !.outs = {at}, !.to = {sender}]
  <2>1. back.outs = {at} /\ back.step = at /\ back.to = {sender} /\ back.op = "transfer" /\ Drawless(back)
    BY CommandFields DEF Outless, CmdFields, Drawless
  <2>2. back.gas = Cmd("transfer").gas
    BY CommandFields DEF Outless, CmdFields
  <2> HIDE DEF back
  <2> QED
    BY <2>1, <2>2, CommandFields DEF Home
<1>3. CASE s.toolName = "send_transfer"
  <2> DEFINE c == [Cmd("transfer") EXCEPT !.to = {s.to}]
  <2>1. /\ Outless(c) /\ Drawless(c) /\ c.op = "transfer" /\ c.to = {s.to} /\ ~c.gas
    <3>1. Outless(c) /\ Drawless(c) /\ c.op = "transfer" /\ c.to = {s.to}
      BY CommandFields DEF Outless, CmdFields, Drawless
    <3>2. c.gas = Cmd("transfer").gas
      BY CommandFields DEF Outless, CmdFields
    <3> HIDE DEF c
    <3> QED
      BY <3>1, <3>2, CommandFields
  <2>2. ~Homeward
    BY <1>3 DEF Homeward
  <2>3. send_transfer
    BY <1>3 DEF AppendStep
  <2>4. CASE \/ s.from \notin Stables \union {"SUI"} \/ s.amount <= 0
             \/ /\ ~IsConsumer(at) /\ s.from # "SUI"
                /\ s.amount < GASLESS_MIN \/ Total(wallet[s.from]) < s.amount
    <3>1. Throw("INVALID_ASSET") \/ Throw("INVALID_AMOUNT") \/ Throw("INSUFFICIENT_BALANCE")
      <4> HIDE DEF c
      <4> QED BY <2>3, <2>4 DEF send_transfer
    <3> QED
      BY <3>1 DEF Throw, Thrown
  <2>5. CASE s.from \in Stables \union {"SUI"} /\ ~(s.amount <= 0) /\ IsConsumer(at)
    <3> DEFINE d == Chained(c)
    <3>1. Append1(<<d>>, cache)
      BY <2>3, <2>5 DEF send_transfer
    <3>2. /\ d.outs = Names(s) /\ d.step = at /\ d.to = {s.to} /\ d.op = "transfer" /\ Drawless(d)
      BY <2>1, <2>5 DEF Chained, Names, IsConsumer, Outless, CmdFields, Drawless
    <3>3. d.gas = c.gas
      BY <2>1 DEF Chained, Outless, CmdFields
    <3> HIDE DEF c, d
    <3>4. Settles(d, s) /\ Draws(d)
      BY <1>3, <2>1, <3>1, <3>2, <3>3 DEF Settles, Draws, Append1
    <3>5. cmds' = cmds \o <<d>> /\ Progress
      BY <3>1 DEF Append1, Progress
    <3> QED
      BY <1>2, <2>2, <3>4, <3>5 DEF Appended
  <2>6. CASE s.from = "SUI" /\ ~(s.amount <= 0) /\ ~IsConsumer(at)
    <3>1. Sourced(c, "SUI", s.amount)
      BY <2>3, <2>6 DEF send_transfer
    <3>2. "SUI" \in CoinType /\ s.amount > 0 /\ Unmerged \notin Int
      BY <1>1, <2>6 DEF ComposeAssumption
    <3> HIDE DEF c
    <3>3. CASE ~Thrown
      <4>1. PICK d : /\ cmds' = cmds \o Commands(plan[at], d) /\ Draws(d)
                     /\ Outless(d) /\ d.op = c.op /\ d.to = c.to
                     /\ sponsored => ~d.gas
        BY <1>1, <2>1, <3>1, <3>2, <3>3, SourceDraws
      <4>2. Progress
        BY <1>1, <2>1, <3>1, <3>2, <3>3, SourceDraws
      <4>3. cmds' = cmds \o <<d>>
        BY <1>3, <4>1 DEF Commands
      <4>4. Settles(d, s)
        BY <1>3, <2>1, <2>6, <4>1 DEF Settles, Outless, Names, IsConsumer
      <4> QED
        BY <1>2, <2>2, <4>1, <4>2, <4>3, <4>4 DEF Appended
    <3> QED
      BY <3>3
  <2>7. CASE /\ s.from \in Stables /\ s.from # "SUI" /\ ~(s.amount <= 0) /\ ~IsConsumer(at)
             /\ ~(s.amount < GASLESS_MIN) /\ ~(Total(wallet[s.from]) < s.amount)
    <3> DEFINE d == [c EXCEPT !.op = "send_funds", !.took = s.amount]
    <3>1. Append1(<<d>>, cache)
      BY <2>3, <2>7 DEF send_transfer
    <3>2. /\ d.outs = Names(s) /\ d.step = at /\ d.to = {s.to} /\ d.op = "send_funds" /\ Drawless(d)
      BY <2>1, <2>7 DEF Names, IsConsumer, Outless, CmdFields, Drawless
    <3>3. d.gas = c.gas
      BY <2>1 DEF Outless, CmdFields
    <3> HIDE DEF c, d
    <3>4. Settles(d, s) /\ Draws(d)
      BY <1>3, <2>1, <3>1, <3>2, <3>3 DEF Settles, Draws, Append1
    <3>5. cmds' = cmds \o <<d>> /\ Progress
      BY <3>1 DEF Append1, Progress
    <3> QED
      BY <1>2, <2>2, <3>4, <3>5 DEF Appended
  <2> QED
    BY <2>4, <2>5, <2>6, <2>7
<1>4. CASE s.toolName = "swap_execute"
  <2> DEFINE c == Cmd("swap")
  <2>1. swap_execute
    BY <1>4 DEF AppendStep
  <2>2. CASE Throw("SWAP_FAILED") \/ Throw("SWAP_NO_ROUTE")
    BY <2>2 DEF Throw, Thrown
  <2>3. CASE /\ {s.from, s.to} \subseteq CoinType /\ s.amount > 0
             /\ IsConsumer(at) /\ Append1(SwapCommands(s, Chained(c)), cache)
    <3> DEFINE d == Chained(c)
    <3>1. DOMAIN d = CmdFields /\ d.outs = Names(s) /\ d.step = at /\ d.to = {} /\ d.op = "swap" /\ Drawless(d)
      BY <2>3, CommandFields DEF Chained, Names, IsConsumer, Outless, CmdFields, Drawless
    <3>2. d.gas = c.gas
      BY CommandFields DEF Chained, Outless, CmdFields
    <3> HIDE DEF c, d
    <3>3. ~d.gas
      BY <3>2, CommandFields DEF c
    <3>4. cmds' = cmds \o SwapCommands(s, d) /\ Progress /\ cache' = cache
      BY <2>3 DEF Append1, Progress, d
    <3>5. Draws(d)
      BY <3>1, <3>4 DEF Draws
    <3> QED
      BY <1>4, <3>1, <3>3, <3>4, <3>5, SwapSettles DEF Appended
  <2>4. CASE {s.from, s.to} \subseteq CoinType /\ s.amount > 0 /\ ~IsConsumer(at) /\ Sourced(c, s.from, s.amount)
    <3>1. Outless(c) /\ Drawless(c) /\ c.op = "swap" /\ c.to = {} /\ ~c.gas
      BY CommandFields
    <3>2. s.from \in CoinType /\ Unmerged \notin Int
      BY <2>4 DEF ComposeAssumption
    <3> HIDE DEF c
    <3>3. CASE ~Thrown
      <4>1. PICK d : /\ cmds' = cmds \o Commands(plan[at], d) /\ Draws(d)
                     /\ Outless(d) /\ d.op = c.op /\ d.to = c.to
                     /\ sponsored => ~d.gas
        BY <1>1, <2>4, <3>1, <3>2, <3>3, SourceDraws
      <4>2. Progress
        BY <1>1, <2>4, <3>1, <3>2, <3>3, SourceDraws
      <4>3. cmds' = cmds \o SwapCommands(s, d)
        BY <1>4, <4>1 DEF Commands
      <4>4. d.outs = Names(s)
        BY <2>4, <4>1 DEF Outless, Names, IsConsumer
      <4> QED
        BY <1>4, <3>1, <4>1, <4>2, <4>3, <4>4, SwapSettles DEF Appended, Outless
    <3> QED
      BY <3>3
  <2> QED
    BY <2>1, <2>2, <2>3, <2>4 DEF swap_execute
<1> QED
  BY <1>1, <1>3, <1>4

-----------------------------------------------------------------------------
\* Where the composer stands.
ProgressInv ==
  /\ plan \in Plan
  /\ at \in 0..(Len(plan) + 1)
  /\ at = 0 => cmds = <<>>
  /\ at > 0 => \A i \in Steps : IsConsumer(i) => ReferenceOK(i)
  /\ verdict = "open" => at <= Len(plan)
  /\ verdict = "built" => at = Len(plan) + 1

\* A type not merged yet is untouched, and nothing is left of one taken whole.
MergeInv ==
  /\ \A t \in CoinType : cache[t] = Unmerged =>
       \A k \in DOMAIN cmds : t \notin cmds[k].merges /\ ~Takes(k, t)
  /\ \A t \in CoinType : \A k \in DOMAIN cmds : t \in cmds[k].whole => cache[t] = 0
  /\ MergedCoinIsLinear

\* The addresses that the steps up to the current one pay to.
PaidSoFar ==
  {plan[i].to : i \in {j \in Steps : j < at /\ plan[j].toolName = "send_transfer"}}
    \union {sender : i \in {j \in Steps \ consumedSteps : j < at /\ plan[j].toolName = "swap_execute"}}

SponsorInv ==
  /\ sponsored => \A k \in DOMAIN cmds : ~cmds[k].gas /\ (cmds[k].op = "swap" => cmds[k].safe)
  /\ at > 0 => deriveAllowedAddressesFromPtb = PaidSoFar

\* Step j is to take the output of step i: it names it, or is the swap itself and
\* no step names it.
Feeds(j, i) ==
  \/ IsConsumer(j) /\ plan[j].inputCoinFromStep = i
  \/ j = i /\ plan[i].toolName = "swap_execute" /\ i \notin consumedSteps

\* So far the steps that are to take an output have, in one command each.
OutputInv ==
  \A i \in Steps :
    /\ \A k \in DOMAIN cmds : Consumes(k, i) =>
         cmds[k].step \in Steps /\ cmds[k].step < at /\ Feeds(cmds[k].step, i)
    /\ \A j, k \in DOMAIN cmds :
         Consumes(j, i) /\ Consumes(k, i) /\ cmds[j].step = cmds[k].step => j = k
    /\ \A j \in Steps : j < at /\ Feeds(j, i) =>
         \E k \in DOMAIN cmds : Consumes(k, i) /\ cmds[k].step = j

ComposeInv ==
  IsSeq(cmds) /\ PurseInv /\ ProgressInv /\ MergeInv /\ SponsorInv /\ OutputInv

LEMMA PlanSteps ==
  ASSUME ComposeAssumption, plan \in Plan
  PROVE  Len(plan) \in Nat \ {0} /\ Steps = 1..Len(plan)
BY DEF ComposeAssumption, Steps

\* The commands after a step: the n before it, the step's own, and the way home.
Lengthened(c, d, n) ==
  /\ n \in Nat
  /\ IsSeq(cmds') /\ DOMAIN cmds = 1..n
  /\ DOMAIN cmds' = 1..(IF Homeward THEN n + 2 ELSE n + 1)
  /\ cmds'[n + 1] = c /\ (Homeward => cmds'[n + 2] = d)
  /\ \A k \in 1..n : cmds'[k] = cmds[k]

LEMMA CommandsAfter ==
  ASSUME IsSeq(cmds), Appended
  PROVE  \E c, d : /\ Settles(c, plan[at]) /\ Draws(c) /\ Home(d)
                   /\ Lengthened(c, d, Len(cmds))
<1>1. PICK c, d : /\ Settles(c, plan[at]) /\ Draws(c) /\ Home(d)
                  /\ cmds' = cmds \o (IF Homeward THEN <<c, d>> ELSE <<c>>)
  BY DEF Appended
<1>2. PICK S : cmds \in Seq(S)
  BY DEF IsSeq
<1> DEFINE n == Len(cmds)
<1>3. n \in Nat /\ DOMAIN cmds = 1..n
  BY <1>2
<1>4. CASE Homeward
  <2>1. cmds \in Seq(S \cup {c, d}) /\ <<c, d>> \in Seq(S \cup {c, d}) /\ cmds' = cmds \o <<c, d>>
    BY <1>1, <1>2, <1>4
  <2>2. Len(<<c, d>>) = 2 /\ cmds' \in Seq(S \cup {c, d}) /\ Len(cmds') = n + 2
    BY <2>1
  <2>3. DOMAIN cmds' = 1..(n + 2)
    BY <2>2
  <2>4. cmds'[n + 1] = c /\ cmds'[n + 2] = d
    BY <1>3, <2>1, <2>2
  <2>5. \A k \in 1..n : cmds'[k] = cmds[k]
    BY <2>1, <2>2
  <2>6. IsSeq(cmds')
    BY <2>2 DEF IsSeq
  <2> HIDE DEF n
  <2> QED
    BY <1>1, <1>3, <1>4, <2>3, <2>4, <2>5, <2>6 DEF Lengthened
<1>5. CASE ~Homeward
  <2>1. cmds \in Seq(S \cup {c}) /\ <<c>> \in Seq(S \cup {c}) /\ cmds' = cmds \o <<c>>
    BY <1>1, <1>2, <1>5
  <2>2. Len(<<c>>) = 1 /\ cmds' \in Seq(S \cup {c}) /\ Len(cmds') = n + 1
    BY <2>1
  <2>3. DOMAIN cmds' = 1..(n + 1)
    BY <2>2
  <2>4. cmds'[n + 1] = c
    BY <1>3, <2>1, <2>2
  <2>5. \A k \in 1..n : cmds'[k] = cmds[k]
    BY <2>1, <2>2
  <2>6. IsSeq(cmds')
    BY <2>2 DEF IsSeq
  <2> HIDE DEF n
  <2> QED
    BY <1>1, <1>3, <1>5, <2>3, <2>4, <2>5, <2>6 DEF Lengthened
<1> QED
  BY <1>4, <1>5

\* What a command draws keeps the books of the merged coins.
LEMMA AppendKeepsMerge ==
  ASSUME ComposeAssumption, PurseInv, IsSeq(cmds), MergeInv, Appended, plan' = plan
  PROVE  MergeInv' /\ DOMAIN cache' = CoinType /\ \A t \in CoinType : cache'[t] \in Int \cup {Unmerged}
<1> DEFINE n == Len(cmds)
<1>1. PICK c, d : Settles(c, plan[at]) /\ Draws(c) /\ Home(d) /\ Lengthened(c, d, n)
  BY CommandsAfter
<1> USE DEF Lengthened
<1> HIDE DEF n
<1>2. \A k \in DOMAIN cmds' :
         \/ k \in DOMAIN cmds /\ cmds'[k] = cmds[k]
         \/ k = n + 1 /\ cmds'[k] = c
         \/ k = n + 2 /\ k > n + 1 /\ Drawless(cmds'[k])
  BY <1>1 DEF Home
<1>3. Unmerged \notin Int
  BY DEF ComposeAssumption
<1>4. CASE Drawless(c) /\ cache' = cache
  <2>1. \A k \in DOMAIN cmds' : \/ k \in DOMAIN cmds /\ cmds'[k] = cmds[k]
                               \/ Drawless(cmds'[k])
    BY <1>2, <1>4
  <2> QED
    BY <1>4, <2>1 DEF MergeInv, MergedCoinIsLinear, Takes, Drawless, PurseInv
<1>5. ASSUME NEW t \in CoinType, NEW v \in Int,
             cache[t] # 0, cache' = [cache EXCEPT ![t] = v],
             c.merges \cup c.whole \cup c.part \subseteq {t},
             t \in c.merges => cache[t] = Unmerged,
             t \in c.whole => v = 0
      PROVE  MergeInv' /\ DOMAIN cache' = CoinType /\ \A u \in CoinType : cache'[u] \in Int \cup {Unmerged}
  <2>1. DOMAIN cache' = CoinType /\ cache'[t] = v /\ \A u \in CoinType \ {t} : cache'[u] = cache[u]
    BY <1>5 DEF PurseInv
  <2>2. \A u \in CoinType : cache'[u] = Unmerged =>
          \A k \in DOMAIN cmds' : u \notin cmds'[k].merges /\ ~Takes(k, u)'
    BY <1>2, <1>3, <1>5, <2>1 DEF MergeInv, Takes, Drawless
  <2>3. \A u \in CoinType : \A k \in DOMAIN cmds' : u \in cmds'[k].whole => cache'[u] = 0
    <3> SUFFICES ASSUME NEW u \in CoinType, NEW k \in DOMAIN cmds', u \in cmds'[k].whole
                 PROVE  cache'[u] = 0
      OBVIOUS
    <3>1. CASE k \in DOMAIN cmds /\ cmds'[k] = cmds[k]
      BY <1>5, <2>1, <3>1 DEF MergeInv
    <3>2. CASE cmds'[k] = c
      BY <1>5, <2>1, <3>2
    <3> QED
      BY <1>2, <3>1, <3>2 DEF Drawless
  <2>4. MergedCoinIsLinear'
    <3> SUFFICES ASSUME NEW j \in DOMAIN cmds', NEW k \in DOMAIN cmds', NEW u \in CoinType
                 PROVE  /\ u \in cmds'[j].merges \intersect cmds'[k].merges => j = k
                        /\ j < k /\ u \in cmds'[j].whole => ~Takes(k, u)'
      BY DEF MergedCoinIsLinear
    <3>1. CASE j \in DOMAIN cmds /\ cmds'[j] = cmds[j] /\ k \in DOMAIN cmds /\ cmds'[k] = cmds[k]
      BY <3>1 DEF MergeInv, MergedCoinIsLinear, Takes
    <3>2. CASE j \in DOMAIN cmds /\ cmds'[j] = cmds[j] /\ cmds'[k] = c
      <4>1. u \in c.merges => u \notin cmds[j].merges
        BY <1>5, <3>2 DEF MergeInv
      <4>2. u \in cmds[j].whole => u \notin c.whole \union c.part
        BY <1>5, <3>2 DEF MergeInv, Takes
      <4> QED
        BY <3>2, <4>1, <4>2 DEF Takes
    <3>3. CASE j = n + 1 /\ cmds'[j] = c /\ k \in DOMAIN cmds /\ cmds'[k] = cmds[k]
      <4>1. u \in c.merges => u \notin cmds[k].merges
        BY <1>5, <3>3 DEF MergeInv
      <4> QED
        BY <1>1, <3>3, <4>1
    <3>4. CASE j = n + 1 /\ k = n + 1
      BY <3>4, <1>1
    <3>5. CASE Drawless(cmds'[j]) \/ Drawless(cmds'[k])
      BY <3>5 DEF Drawless, Takes
    <3> QED
      BY <1>2, <3>1, <3>2, <3>3, <3>4, <3>5
  <2> QED
    BY <2>1, <2>2, <2>3, <2>4, <1>5 DEF MergeInv, PurseInv
<1> QED
  BY <1>1, <1>4, <1>5 DEF Draws

\* The gas stays the sponsor's, and the sponsor is told whom the step pays.
LEMMA AppendKeepsSponsor ==
  ASSUME ComposeAssumption, ProgressInv, IsSeq(cmds), SponsorInv, at \in Steps, Appended,
         UNCHANGED <<plan, sponsored>>
  PROVE  SponsorInv'
<1> DEFINE n == Len(cmds)
<1>1. PICK c, d : Settles(c, plan[at]) /\ Draws(c) /\ Home(d) /\ Lengthened(c, d, n)
  BY CommandsAfter
<1> USE DEF Lengthened
<1> HIDE DEF n
<1>2. at \in Nat \ {0} /\ at' = at + 1 /\ Steps = 1..Len(plan) /\ Steps' = Steps
      /\ consumedSteps' = consumedSteps
  BY PlanSteps DEF Appended, Progress, ProgressInv, Steps, consumedSteps, IsConsumer
<1>3. plan[at].toolName \in {"send_transfer", "swap_execute"}
  BY DEF ComposeAssumption, ProgressInv, Steps
<1>4. \A k \in DOMAIN cmds' :
         \/ k \in DOMAIN cmds /\ cmds'[k] = cmds[k]
         \/ k = n + 1
         \/ Homeward /\ k = n + 2
  BY <1>1
<1>5. /\ \A k \in DOMAIN cmds : k \in DOMAIN cmds' /\ cmds'[k] = cmds[k]
      /\ n + 1 \in DOMAIN cmds' /\ (Homeward => n + 2 \in DOMAIN cmds')
  BY <1>1
<1>6. ASSUME sponsored, NEW k \in DOMAIN cmds'
      PROVE  ~cmds'[k].gas /\ (cmds'[k].op = "swap" => cmds'[k].safe)
  <2>1. CASE k \in DOMAIN cmds /\ cmds'[k] = cmds[k]
    BY <1>6, <2>1 DEF SponsorInv
  <2>2. CASE k = n + 1
    BY <1>1, <1>6, <2>2 DEF Settles
  <2>3. CASE Homeward /\ k = n + 2
    BY <1>1, <2>3 DEF Home
  <2> QED
    BY <1>4, <2>1, <2>2, <2>3
<1>7. deriveAllowedAddressesFromPtb' = PaidSoFar'
  <2> DEFINE Pays(k, a) == cmds[k].op \in {"transfer", "send_funds"} /\ a \in cmds[k].to
             PaysNow(k, a) == cmds'[k].op \in {"transfer", "send_funds"} /\ a \in cmds'[k].to
             New(a) == \/ plan[at].toolName = "send_transfer" /\ a = plan[at].to
                       \/ Homeward /\ a = sender
  <2>1. \A a : a \in deriveAllowedAddressesFromPtb <=> \E k \in DOMAIN cmds : Pays(k, a)
    BY DEF deriveAllowedAddressesFromPtb
  <2>2. \A a : a \in deriveAllowedAddressesFromPtb' <=> \E k \in DOMAIN cmds' : PaysNow(k, a)
    BY DEF deriveAllowedAddressesFromPtb
  <2>3. \A k \in DOMAIN cmds : \A a : PaysNow(k, a) <=> Pays(k, a)
    BY <1>5
  <2>4. \A a : PaysNow(n + 1, a) <=> plan[at].toolName = "send_transfer" /\ a = plan[at].to
    BY <1>1, <1>3 DEF Settles
  <2>5. Homeward => \A a : PaysNow(n + 2, a) <=> a = sender
    BY <1>1 DEF Home
  <2>6. \A a : a \in PaidSoFar' <=> a \in PaidSoFar \/ New(a)
    <3> DEFINE Sends(m) == {j \in Steps : j < m /\ plan[j].toolName = "send_transfer"}
               Homes(m) == {j \in Steps \ consumedSteps : j < m /\ plan[j].toolName = "swap_execute"}
    <3>1. Sends(at + 1) = Sends(at) \cup (IF plan[at].toolName = "send_transfer" THEN {at} ELSE {})
      BY <1>2
    <3>2. Homes(at + 1) = Homes(at) \cup (IF Homeward THEN {at} ELSE {})
      BY <1>2 DEF Homeward
    <3>3. PaidSoFar = {plan[i].to : i \in Sends(at)} \union {sender : i \in Homes(at)}
      BY DEF PaidSoFar
    <3>4. PaidSoFar' = {plan[i].to : i \in Sends(at + 1)} \union {sender : i \in Homes(at + 1)}
      BY <1>2 DEF PaidSoFar
    <3> HIDE DEF Sends, Homes
    <3> QED
      BY <3>1, <3>2, <3>3, <3>4
  <2>7. \A a : a \in deriveAllowedAddressesFromPtb <=> a \in PaidSoFar
    BY <1>2 DEF SponsorInv
  <2>8. \A a : (\E k \in DOMAIN cmds' : PaysNow(k, a)) <=> (\E k \in DOMAIN cmds : Pays(k, a)) \/ New(a)
    <3> HIDE DEF Pays, PaysNow
    <3> QED
      BY <1>4, <1>5, <2>3, <2>4, <2>5
  <2> HIDE DEF Pays, PaysNow, New
  <2>9. \A a : a \in deriveAllowedAddressesFromPtb' <=> a \in PaidSoFar'
    BY <2>1, <2>2, <2>6, <2>7, <2>8
  <2> QED
    BY <2>9
<1> QED
  BY <1>6, <1>7 DEF SponsorInv

\* A step takes the output it names, and its own if nobody does; the commands
\* before it took for the steps before it.
LEMMA AppendKeepsOutput ==
  ASSUME ComposeAssumption, ProgressInv, IsSeq(cmds), OutputInv, at \in Steps, Appended,
         UNCHANGED plan
  PROVE  OutputInv'
<1> DEFINE n == Len(cmds)
<1>1. PICK c, d : Settles(c, plan[at]) /\ Draws(c) /\ Home(d) /\ Lengthened(c, d, n)
  BY CommandsAfter
<1> HIDE DEF n
<1>2. at \in Nat \ {0} /\ at' = at + 1 /\ Steps = 1..Len(plan) /\ Steps' = Steps
      /\ consumedSteps' = consumedSteps
  BY PlanSteps DEF Appended, Progress, ProgressInv, Steps, consumedSteps, IsConsumer
<1>3. IsConsumer(at) => plan[at].inputCoinFromStep < at
  BY <1>2 DEF ProgressInv, ReferenceOK
<1>4. \A i, j \in Steps : /\ Feeds(j, i)' <=> Feeds(j, i)
                         /\ j < at' <=> j < at \/ j = at
  BY <1>2 DEF Feeds, IsConsumer
<1>5. \A k \in DOMAIN cmds' :
         \/ k \in DOMAIN cmds /\ cmds'[k] = cmds[k]
         \/ k = n + 1 /\ cmds'[k] = c
         \/ Homeward /\ k = n + 2 /\ cmds'[k] = d
  BY <1>1 DEF Lengthened
<1>6. /\ \A k \in DOMAIN cmds : k \in DOMAIN cmds' /\ cmds'[k] = cmds[k]
      /\ n + 1 \in DOMAIN cmds' /\ cmds'[n + 1] = c
      /\ Homeward => n + 2 \in DOMAIN cmds' /\ cmds'[n + 2] = d
  BY <1>1 DEF Lengthened
<1>7. /\ c.step = at /\ d.step = at /\ d.outs = {at}
      /\ IsConsumer(at) => c.outs = {plan[at].inputCoinFromStep}
      /\ ~IsConsumer(at) => c.outs = {}
  BY <1>1 DEF Settles, Home, Names, IsConsumer
<1> SUFFICES ASSUME NEW i \in Steps
             PROVE  /\ \A k \in DOMAIN cmds' : Consumes(k, i)' =>
                         cmds'[k].step \in Steps /\ cmds'[k].step < at' /\ Feeds(cmds'[k].step, i)
                    /\ \A j, k \in DOMAIN cmds' :
                         Consumes(j, i)' /\ Consumes(k, i)' /\ cmds'[j].step = cmds'[k].step => j = k
                    /\ \A j \in Steps : j < at' /\ Feeds(j, i) =>
                         \E k \in DOMAIN cmds' : Consumes(k, i)' /\ cmds'[k].step = j
  BY <1>2, <1>4 DEF OutputInv
\* What consumes it now: a command that did, the step's own, or the way home.
<1>8. \A k \in DOMAIN cmds' : Consumes(k, i)' =>
         \/ /\ k \in DOMAIN cmds /\ Consumes(k, i) /\ cmds'[k].step = cmds[k].step
            /\ cmds[k].step \in Steps /\ cmds[k].step < at /\ Feeds(cmds[k].step, i)
         \/ k = n + 1 /\ cmds'[k].step = at /\ IsConsumer(at) /\ i = plan[at].inputCoinFromStep
         \/ k = n + 2 /\ cmds'[k].step = at /\ Homeward /\ i = at
  <2> SUFFICES ASSUME NEW k \in DOMAIN cmds', i \in cmds'[k].outs
               PROVE  \/ /\ k \in DOMAIN cmds /\ Consumes(k, i) /\ cmds'[k].step = cmds[k].step
                         /\ cmds[k].step \in Steps /\ cmds[k].step < at /\ Feeds(cmds[k].step, i)
                      \/ /\ k = n + 1 /\ cmds'[k].step = at
                         /\ IsConsumer(at) /\ i = plan[at].inputCoinFromStep
                      \/ k = n + 2 /\ cmds'[k].step = at /\ Homeward /\ i = at
    BY DEF Consumes
  <2>1. CASE k \in DOMAIN cmds /\ cmds'[k] = cmds[k]
    <3>1. Consumes(k, i)
      BY <2>1 DEF Consumes
    <3>2. cmds[k].step \in Steps /\ cmds[k].step < at /\ Feeds(cmds[k].step, i)
      BY <2>1, <3>1 DEF OutputInv
    <3> QED
      BY <2>1, <3>1, <3>2
  <2>2. CASE k = n + 1 /\ cmds'[k] = c
    BY <1>7, <2>2
  <2>3. CASE Homeward /\ k = n + 2 /\ cmds'[k] = d
    BY <1>7, <2>3
  <2> QED
    BY <1>5, <2>1, <2>2, <2>3
<1>9. ASSUME NEW k \in DOMAIN cmds', Consumes(k, i)'
      PROVE  cmds'[k].step \in Steps /\ cmds'[k].step < at' /\ Feeds(cmds'[k].step, i)
  BY <1>2, <1>4, <1>8, <1>9 DEF Feeds, Homeward
<1>10. ASSUME NEW j \in DOMAIN cmds', NEW k \in DOMAIN cmds',
              Consumes(j, i)', Consumes(k, i)', cmds'[j].step = cmds'[k].step
       PROVE  j = k
  <2>1. CASE cmds'[j].step = at
    <3>1. ~(cmds'[j].step < at) /\ ~(cmds'[k].step < at)
      BY <1>2, <1>10, <2>1
    <3>2. ~(i = at /\ IsConsumer(at) /\ i = plan[at].inputCoinFromStep)
      BY <1>2, <1>3
    <3> QED
      BY <1>8, <1>10, <3>1, <3>2
  <2>2. CASE cmds'[j].step # at
    BY <1>8, <1>10, <2>2 DEF OutputInv
  <2> QED
    BY <2>1, <2>2
<1>11. ASSUME NEW j \in Steps, j < at', Feeds(j, i)
       PROVE  \E k \in DOMAIN cmds' : Consumes(k, i)' /\ cmds'[k].step = j
  <2>1. CASE j < at
    <3>1. PICK k \in DOMAIN cmds : Consumes(k, i) /\ cmds[k].step = j
      BY <1>11, <2>1 DEF OutputInv
    <3> QED
      BY <1>6, <3>1 DEF Consumes
  <2>2. CASE j = at /\ IsConsumer(at) /\ i = plan[at].inputCoinFromStep
    <3>1. n + 1 \in DOMAIN cmds' /\ i \in cmds'[n + 1].outs /\ cmds'[n + 1].step = at
      BY <1>6, <1>7, <2>2
    <3> QED
      BY <2>2, <3>1 DEF Consumes
  <2>3. CASE j = at /\ Homeward /\ i = at
    <3>1. n + 2 \in DOMAIN cmds' /\ i \in cmds'[n + 2].outs /\ cmds'[n + 2].step = at
      BY <1>6, <1>7, <2>3
    <3> QED
      BY <2>3, <3>1 DEF Consumes
  <2>4. j < at \/ j = at
    BY <1>2, <1>11
  <2>5. j = at => \/ IsConsumer(at) /\ i = plan[at].inputCoinFromStep
                  \/ Homeward /\ i = at
    BY <1>11 DEF Feeds, Homeward
  <2>6. j = at => \E k \in DOMAIN cmds' : Consumes(k, i)' /\ cmds'[k].step = j
    BY <2>2, <2>3, <2>5
  <2> QED
    BY <2>1, <2>4, <2>6
<1> QED
  BY <1>9, <1>10, <1>11

\* The first pass, a refused step and the world outside leave the commands alone.
LEMMA QuietKeeps ==
  ASSUME ComposeInv, UNCHANGED <<plan, sponsored, cmds, cache>>,
         ComposeAssumption, PurseInv', ProgressInv', at' = at \/ (at = 0 /\ at' = 1)
  PROVE  ComposeInv'
<1>1. Steps' = Steps /\ consumedSteps' = consumedSteps
  BY DEF Steps, consumedSteps, IsConsumer
<1>2. MergeInv'
  BY DEF ComposeInv, MergeInv, MergedCoinIsLinear, Takes
<1>3. CASE at' = at
  <2>1. deriveAllowedAddressesFromPtb' = deriveAllowedAddressesFromPtb /\ PaidSoFar' = PaidSoFar
    BY <1>1, <1>3 DEF deriveAllowedAddressesFromPtb, PaidSoFar
  <2>2. SponsorInv'
    BY <1>3, <2>1 DEF ComposeInv, SponsorInv
  <2>3. OutputInv'
    BY <1>1, <1>3 DEF ComposeInv, OutputInv, Feeds, Consumes, IsConsumer
  <2> QED
    BY <1>2, <2>2, <2>3 DEF ComposeInv
<1>4. CASE at = 0 /\ at' = 1
  <2>1. cmds = <<>> /\ cmds' = <<>> /\ DOMAIN cmds' = {}
    BY <1>4 DEF ComposeInv, ProgressInv
  <2>2. deriveAllowedAddressesFromPtb' = {}
    BY <2>1 DEF deriveAllowedAddressesFromPtb
  <2>3. Steps' \subseteq Nat \ {0}
    BY <1>1, PlanSteps DEF ComposeInv, ProgressInv
  <2>4. PaidSoFar' = {}
    BY <1>4, <2>3 DEF PaidSoFar, Steps
  <2> QED
    <3>1. SponsorInv' /\ IsSeq(cmds')
      BY <2>1, <2>2, <2>4 DEF ComposeInv, SponsorInv
    <3>2. \A j \in Steps' : ~(j < at')
      BY <1>4, <2>3
    <3>3. OutputInv'
      BY <2>1, <3>2 DEF OutputInv
    <3> QED
      BY <1>2, <3>1, <3>3 DEF ComposeInv
<1> QED
  BY <1>3, <1>4

LEMMA ComposeInitInv ==
  ASSUME ComposeAssumption, ComposeInit
  PROVE  ComposeInv
<1>1. cmds = <<>> /\ DOMAIN cmds = {} /\ cmds \in Seq({}) /\ at = 0 /\ plan \in Plan /\ verdict = "open"
  BY DEF ComposeInit
<1>2. IsSeq(cmds)
  BY <1>1 DEF IsSeq
<1>3. PurseInv
  BY DEF ComposeInit, ComposeAssumption, PurseInv
<1>4. ProgressInv
  BY <1>1, PlanSteps DEF ProgressInv
<1>5. MergeInv /\ SponsorInv /\ OutputInv
  BY <1>1, PlanSteps DEF MergeInv, MergedCoinIsLinear, SponsorInv, OutputInv
<1> QED
  BY <1>2, <1>3, <1>4, <1>5 DEF ComposeInv

LEMMA ComposeStep ==
  ASSUME ComposeAssumption, ComposeInv, [ComposeNext]_composeVars
  PROVE  ComposeInv'
<1>1. at \in Int /\ Len(plan) \in Nat \ {0} /\ Steps = 1..Len(plan)
  BY PlanSteps DEF ComposeInv, ProgressInv
<1>2. CASE Validate
  <2>1. ProgressInv'
    BY <1>1, <1>2 DEF ComposeInv, ProgressInv, Validate, Steps, IsConsumer, ReferenceOK
  <2> QED
    BY <1>2, <2>1, QuietKeeps DEF Validate, ComposeInv, PurseInv
<1>3. CASE AppendStep
  <2>1. UNCHANGED <<plan, sponsored, wallet, changes>> /\ at > 0 /\ verdict = "open"
    BY <1>3 DEF AppendStep
  <2>2. at \in Steps
    BY <1>1, <2>1 DEF ComposeInv, ProgressInv
  <2>3. CASE Thrown
    <3>1. PurseInv' /\ ProgressInv'
      BY <2>1, <2>3 DEF Thrown, ComposeInv, PurseInv, ProgressInv, Steps, IsConsumer, ReferenceOK
    <3> QED
      BY <2>1, <2>3, <3>1, QuietKeeps DEF Thrown
  <2>4. CASE Appended
    <3>1. IsSeq(cmds')
      BY <2>4, CommandsAfter DEF ComposeInv, Lengthened
    <3>2. MergeInv' /\ PurseInv'
      BY <2>1, <2>4, AppendKeepsMerge DEF ComposeInv, PurseInv
    <3>3. ProgressInv'
      <4>1. at \in 1..Len(plan) /\ at' = at + 1 /\ verdict' = IF at = Len(plan) THEN "built" ELSE "open"
        BY <1>1, <2>2, <2>4 DEF Appended, Progress
      <4>2. /\ at' \in 0..(Len(plan) + 1) /\ at' > 0 /\ at > 0
            /\ verdict' = "open" => at' <= Len(plan)
            /\ verdict' = "built" => at' = Len(plan) + 1
        BY <1>1, <4>1
      <4>3. \A i \in Steps : IsConsumer(i) => ReferenceOK(i)
        BY <2>1 DEF ComposeInv, ProgressInv
      <4>4. (\A i \in Steps : IsConsumer(i) => ReferenceOK(i))'
        BY <2>1, <4>3 DEF Steps, IsConsumer, ReferenceOK
      <4> QED
        BY <2>1, <4>2, <4>4 DEF ComposeInv, ProgressInv
    <3>4. SponsorInv'
      BY <2>1, <2>2, <2>4, AppendKeepsSponsor DEF ComposeInv
    <3>5. OutputInv'
      BY <2>1, <2>2, <2>4, AppendKeepsOutput DEF ComposeInv
    <3> QED
      BY <3>1, <3>2, <3>3, <3>4, <3>5 DEF ComposeInv
  <2> QED
    BY <1>3, <2>2, <2>3, <2>4, StepAppends DEF ComposeInv, ProgressInv
<1>4. CASE WalletChanges
  <2>1. PICK t \in CoinType, b \in Balances : wallet' = [wallet EXCEPT ![t] = b]
    BY <1>4 DEF WalletChanges
  <2>2. PurseInv'
    BY <1>4, <2>1 DEF WalletChanges, ComposeInv, PurseInv, ComposeAssumption
  <2>3. ProgressInv'
    BY <1>4 DEF WalletChanges, ComposeInv, ProgressInv, Steps, IsConsumer, ReferenceOK
  <2> QED
    BY <1>4, <2>2, <2>3, QuietKeeps DEF WalletChanges
<1>5. CASE UNCHANGED composeVars
  <2>1. PurseInv' /\ ProgressInv'
    BY <1>5 DEF composeVars, ComposeInv, PurseInv, ProgressInv, Steps, IsConsumer, ReferenceOK
  <2> QED
    BY <1>5, <2>1, QuietKeeps DEF composeVars
<1> QED
  BY <1>2, <1>3, <1>4, <1>5 DEF ComposeNext

\* For every plan, wallet and change of it meanwhile: the composer's commands
\* keep to its cache and to the addresses of its steps.
THEOREM ComposeInductive == ComposeSpec => []ComposeInv
<1>1. ComposeInit => ComposeInv
  BY ComposeAssumption, ComposeInitInv
<1>2. ComposeInv /\ [ComposeNext]_composeVars => ComposeInv'
  BY ComposeAssumption, ComposeStep
<1> QED
  BY <1>1, <1>2, PTL DEF ComposeSpec

\* However many sponsored legs draw on a type, its coin objects are merged once
\* and nothing draws on a merged coin that was taken whole (coinMergeCache).
THEOREM MergedCoinsAreLinear == ComposeSpec => []MergedCoinIsLinear
<1>1. ComposeInv => MergedCoinIsLinear
  BY DEF ComposeInv, MergeInv
<1> QED
  BY <1>1, ComposeInductive, PTL

\* A sponsored transaction leaves tx.gas alone, and the addresses its sponsor is
\* told to allow are those its steps pay to.
THEOREM SponsorKnows == ComposeSpec => []SponsorIsNotSurprised
<1>1. ComposeInv => SponsorIsNotSurprised
  <2> SUFFICES ASSUME ComposeInv, verdict = "built"
               PROVE  deriveAllowedAddressesFromPtb =
                        {plan[i].to : i \in {j \in Steps : plan[j].toolName = "send_transfer"}}
                          \union {sender : i \in {j \in Steps \ consumedSteps :
                                                    plan[j].toolName = "swap_execute"}}
    BY DEF ComposeInv, SponsorInv, SponsorIsNotSurprised
  <2>1. at = Len(plan) + 1 /\ at > 0 /\ \A j \in Steps : j < at
    BY ComposeAssumption, PlanSteps DEF ComposeInv, ProgressInv
  <2>2. /\ {j \in Steps : j < at /\ plan[j].toolName = "send_transfer"}
             = {j \in Steps : plan[j].toolName = "send_transfer"}
        /\ {j \in Steps \ consumedSteps : j < at /\ plan[j].toolName = "swap_execute"}
             = {j \in Steps \ consumedSteps : plan[j].toolName = "swap_execute"}
    BY <2>1
  <2> QED
    BY <2>1, <2>2 DEF ComposeInv, SponsorInv, PaidSoFar
<1> QED
  BY <1>1, ComposeInductive, PTL

\* For every plan, those that name an output twice included: a swap's output goes
\* into one command of each step that names it and nowhere else, and home to the
\* sender exactly when no step names it (consumedSteps, isOutputConsumed).
THEOREM OutputsGo == ComposeSpec => []OutputsGoWhereNamed
<1>1. ASSUME ComposeInv, verdict = "built",
             NEW i \in Steps, plan[i].toolName = "swap_execute"
      PROVE  LET uses  == {k \in DOMAIN cmds : Consumes(k, i)}
                 named == {j \in Steps : IsConsumer(j) /\ plan[j].inputCoinFromStep = i}
             IN  /\ {cmds[k].step : k \in uses} = IF named = {} THEN {i} ELSE named
                 /\ \A j, k \in uses : cmds[j].step = cmds[k].step => j = k
  <2> DEFINE uses  == {k \in DOMAIN cmds : Consumes(k, i)}
             named == {j \in Steps : IsConsumer(j) /\ plan[j].inputCoinFromStep = i}
  <2>1. \A j \in Steps : j < at
    BY <1>1, ComposeAssumption, PlanSteps DEF ComposeInv, ProgressInv
  <2>2. {cmds[k].step : k \in uses} = {j \in Steps : Feeds(j, i)}
    BY <1>1, <2>1 DEF ComposeInv, OutputInv
  <2>3. i \in consumedSteps <=> named # {}
    BY DEF consumedSteps
  <2>4. {j \in Steps : Feeds(j, i)} = IF named = {} THEN {i} ELSE named
    BY <1>1, <2>3 DEF Feeds
  <2>5. \A j, k \in uses : cmds[j].step = cmds[k].step => j = k
    BY <1>1 DEF ComposeInv, OutputInv
  <2> QED
    BY <2>2, <2>4, <2>5
<1>2. ComposeInv => OutputsGoWhereNamed
  BY <1>1 DEF OutputsGoWhereNamed
<1> QED
  BY <1>2, ComposeInductive, PTL

-----------------------------------------------------------------------------
(***************************************************************************)
(* The migration of whole coin objects into the address balance.           *)
(***************************************************************************)

\* The first n naturals are n.
LEMMA FirstN ==
  ASSUME NEW n \in Nat
  PROVE  IsFiniteSet(1..n) /\ Cardinality(1..n) = n
<1>1. 1 \in Int /\ n \in Int
  OBVIOUS
<1>2. IsFiniteSet(1..n) /\ Cardinality(1..n) = IF 1 > n THEN 0 ELSE n - 1 + 1
  BY <1>1, FS_Interval, Zenon
<1> QED
  BY <1>2

\* Two sets with nothing in common.
LEMMA CountApart ==
  ASSUME NEW S, NEW T, IsFiniteSet(S), IsFiniteSet(T), S \cap T = {}
  PROVE  /\ IsFiniteSet(S \cup T)
         /\ Cardinality(S \cup T) = Cardinality(S) + Cardinality(T)
<1>1. Cardinality(S) \in Nat /\ Cardinality(T) \in Nat
  BY FS_CardinalityType
<1>2. Cardinality(S \cap T) = 0
  BY FS_EmptySet
<1>3. /\ IsFiniteSet(S \cup T)
      /\ Cardinality(S \cup T) = Cardinality(S) + Cardinality(T) - Cardinality(S \cap T)
  BY FS_Union, Zenon
<1> QED
  BY <1>1, <1>2, <1>3

\* A set of naturals that is not empty has a least member: the members below one
\* of them are finitely many, and without a least one each has more members
\* below it than there are places for.
LEMMA LeastMember ==
  ASSUME NEW T \in SUBSET Nat, T # {}
  PROVE  \E m \in T : \A t \in T : m <= t
<1> SUFFICES ASSUME \A m \in T : \E t \in T : t < m
             PROVE  FALSE
  OBVIOUS
<1>1. PICK x \in T : TRUE
  OBVIOUS
<1> DEFINE D == {t \in T : t <= x}
           Below(y) == {t \in D : t < y}
           size == [y \in D |-> Cardinality(Below(y))]
           places == 1..(Cardinality(D) - 1)
<1>2. IsFiniteSet(D) /\ Cardinality(D) \in Nat
  BY FS_BoundedSetOfNaturals, FS_CardinalityType
<1>3. ASSUME NEW y \in D
      PROVE  IsFiniteSet(Below(y)) /\ Cardinality(Below(y)) \in places
  <2>1. IsFiniteSet(Below(y)) /\ Below(y) # {} /\ Below(y) \subseteq D \ {y}
    BY <1>2, FS_Subset
  <2>2. Cardinality(Below(y)) \in Nat \ {0}
    BY <2>1, FS_CardinalityType, FS_EmptySet
  <2>3. IsFiniteSet(D \ {y}) /\ Cardinality(D \ {y}) = Cardinality(D) - 1
    BY <1>2, FS_RemoveElement
  <2>4. Cardinality(Below(y)) <= Cardinality(D \ {y})
    BY <2>1, <2>3, FS_Subset
  <2> QED
    BY <1>2, <2>1, <2>2, <2>3, <2>4
<1>4. size \in [D -> places]
  BY <1>3
<1>5. IsFiniteSet(places) /\ Cardinality(places) < Cardinality(D)
  <2>1. Cardinality(D) # 0
    BY <1>1, <1>2, FS_EmptySet
  <2> HIDE DEF D
  <2>2. Cardinality(D) - 1 \in Nat
    BY <1>2, <2>1
  <2> QED
    BY <1>2, <2>2, FirstN
<1>6. PICK y, z \in D : y # z /\ size[y] = size[z]
  <2> HIDE DEF D, places, size
  <2> QED
    BY <1>2, <1>4, <1>5, FS_PigeonHole
<1>7. ASSUME NEW a \in D, NEW b \in D, a < b
      PROVE  size[a] < size[b]
  <2>0. a \in Nat /\ b \in Nat /\ \A t \in D : t \in Nat
    OBVIOUS
  <2>1. Below(a) \subseteq Below(b) /\ a \in Below(b) /\ a \notin Below(a)
    <3> HIDE DEF D
    <3>1. a \in D /\ b \in D
      OBVIOUS
    <3>2. \A t \in D : t < a => t < b
      BY <1>7, <2>0
    <3>3. ~(a < a)
      BY <2>0
    <3> QED
      BY <1>7, <3>1, <3>2, <3>3
  <2>2. /\ Cardinality(Below(a)) <= Cardinality(Below(b))
        /\ Cardinality(Below(a)) # Cardinality(Below(b))
    BY <1>3, <2>1, FS_Subset
  <2>3. size[a] = Cardinality(Below(a)) /\ size[b] = Cardinality(Below(b))
    BY DEF size
  <2>4. Cardinality(Below(a)) \in Nat /\ Cardinality(Below(b)) \in Nat
    <3>1. Cardinality(Below(a)) \in places /\ Cardinality(Below(b)) \in places
      BY <1>3
    <3> HIDE DEF D, Below
    <3> QED
      BY <1>2, <3>1
  <2> QED
    BY <2>2, <2>3, <2>4
<1>8. size[y] < size[z] \/ size[z] < size[y]
  <2>1. y \in Nat /\ z \in Nat
    OBVIOUS
  <2> HIDE DEF D, size
  <2> QED
    BY <1>6, <1>7, <2>1
<1>9. size[y] \in Int /\ size[z] \in Int
  <2> HIDE DEF D, size
  <2> QED
    BY <1>2, <1>4
<1> HIDE DEF size
<1> QED
  BY <1>6, <1>8, <1>9

\* Min of the community modules, on naturals.
LEMMA MinIsLeast ==
  ASSUME NEW T \in SUBSET Nat, T # {}
  PROVE  Min(T) \in T /\ \A t \in T : Min(T) <= t
BY LeastMember DEF Min

\* Coins are finitely many, and so are their units.
LEMMA UnitsAreFinite ==
  ASSUME NEW coins \in Seq(Nat), NEW S \in SUBSET (DOMAIN coins)
  PROVE  /\ IsFiniteSet(S) /\ Cardinality(S) \in Nat
         /\ IsFiniteSet(Units(coins, S)) /\ Value(coins, S) \in Nat
<1>1. IsFiniteSet(S) /\ Cardinality(S) \in Nat
  <2>1. DOMAIN coins = 1..Len(coins) /\ IsFiniteSet(1..Len(coins))
    BY FirstN
  <2> QED
    BY <2>1, FS_Subset, FS_CardinalityType
<1> DEFINE purses == {{i} \X (1..coins[i]) : i \in S}
           purse == [i \in S |-> {i} \X (1..coins[i])]
<1>2. IsFiniteSet(purses)
  <2>1. purse \in Surjection(S, purses)
    BY DEF Surjection
  <2> HIDE DEF purse, purses
  <2> QED
    BY <1>1, <2>1, FS_Surjection
<1>3. ASSUME NEW i \in S PROVE IsFiniteSet({i} \X (1..coins[i]))
  <2>1. coins[i] \in Nat
    OBVIOUS
  <2>2. IsFiniteSet({i}) /\ IsFiniteSet(1..coins[i])
    BY <2>1, FirstN, FS_Singleton
  <2> QED
    BY <2>2, FS_Product
<1>4. IsFiniteSet(UNION purses)
  BY <1>2, <1>3, FS_UNION
<1> QED
  BY <1>1, <1>4, FS_CardinalityType DEF Units, Value

\* More coins are worth no less.
LEMMA MoreIsWorthMore ==
  ASSUME NEW coins \in Seq(Nat), NEW S \in SUBSET (DOMAIN coins), NEW T \in SUBSET S
  PROVE  Value(coins, T) <= Value(coins, S)
<1>1. Units(coins, T) \subseteq Units(coins, S)
  BY DEF Units
<1> QED
  BY <1>1, UnitsAreFinite, FS_Subset DEF Value

\* What is more, times over, is more.
LEMMA TimesGrows ==
  ASSUME NEW a \in Nat, NEW b \in Nat, NEW c \in Nat, a <= b
  PROVE  a * c <= b * c
OBVIOUS

\* Coins that are no fewer, each as large as any coin left out for it, are worth
\* no less.
LEMMA LargerIsWorthMore ==
  ASSUME NEW coins \in Seq(Nat), NEW S \in SUBSET (DOMAIN coins), NEW T \in SUBSET (DOMAIN coins),
         Cardinality(T) <= Cardinality(S),
         \A i \in S, j \in T \ S : coins[j] <= coins[i]
  PROVE  Value(coins, T) <= Value(coins, S)
<1> DEFINE A == T \ S
           B == S \ T
           C == S \cap T
<1>1. /\ A \in SUBSET (DOMAIN coins) /\ B \in SUBSET (DOMAIN coins) /\ C \in SUBSET (DOMAIN coins)
      /\ T = A \cup C /\ S = B \cup C /\ A \cap C = {} /\ B \cap C = {}
  OBVIOUS
<1>2. /\ Cardinality(T) = Cardinality(A) + Cardinality(C)
      /\ Cardinality(S) = Cardinality(B) + Cardinality(C)
      /\ Cardinality(A) \in Nat /\ Cardinality(B) \in Nat /\ Cardinality(C) \in Nat
  <2> HIDE DEF A, B, C
  <2>1. /\ IsFiniteSet(A) /\ Cardinality(A) \in Nat
        /\ IsFiniteSet(B) /\ Cardinality(B) \in Nat
        /\ IsFiniteSet(C) /\ Cardinality(C) \in Nat
    BY <1>1, UnitsAreFinite
  <2> QED
    BY <1>1, <2>1, CountApart
<1>3. Cardinality(A) <= Cardinality(B)
  <2> HIDE DEF A, B, C
  <2> QED
    BY <1>2
<1>4. CASE A = {}
  BY <1>4, MoreIsWorthMore
<1>5. CASE A # {}
  <2>1. B # {}
    <3> HIDE DEF A, B, C
    <3>1. IsFiniteSet(A)
      BY <1>1, UnitsAreFinite
    <3>2. Cardinality(A) # 0
      BY <1>5, <3>1, FS_EmptySet
    <3>3. Cardinality(B) # 0
      BY <1>2, <1>3, <3>2
    <3> QED
      BY <3>3, FS_EmptySet
  <2>2. PICK c \in Nat : /\ \A i \in A : coins[i] <= c
                         /\ \A i \in B : c <= coins[i]
    <3> DEFINE W == {coins[i] : i \in B}
    <3>1. W \in SUBSET Nat /\ W # {}
      BY <1>1, <2>1
    <3>2. PICK c \in W : \A w \in W : c <= w
      <4> HIDE DEF W
      <4> QED
        BY <3>1, LeastMember
    <3>3. ASSUME NEW i \in A PROVE coins[i] <= c
      BY <3>2
    <3>4. ASSUME NEW i \in B PROVE c <= coins[i]
      BY <3>2
    <3>5. c \in Nat
      BY <3>1, <3>2
    <3> HIDE DEF A, B, W
    <3> QED
      BY <3>3, <3>4, <3>5
  <2>3. Units(coins, T) = Units(coins, A) \cup Units(coins, C)
        /\ Units(coins, S) = Units(coins, B) \cup Units(coins, C)
        /\ Units(coins, A) \cap Units(coins, C) = {}
        /\ Units(coins, B) \cap Units(coins, C) = {}
    BY DEF Units
  <2>4. /\ Value(coins, T) = Value(coins, A) + Value(coins, C)
        /\ Value(coins, S) = Value(coins, B) + Value(coins, C)
        /\ Value(coins, A) \in Nat /\ Value(coins, B) \in Nat /\ Value(coins, C) \in Nat
    <3> HIDE DEF A, B, C
    <3>1. /\ IsFiniteSet(Units(coins, A)) /\ IsFiniteSet(Units(coins, B)) /\ IsFiniteSet(Units(coins, C))
          /\ Value(coins, A) \in Nat /\ Value(coins, B) \in Nat /\ Value(coins, C) \in Nat
      BY <1>1, UnitsAreFinite
    <3> QED
      BY <2>3, <3>1, CountApart DEF Value
  <2>5. /\ IsFiniteSet(A \X (1..c)) /\ Cardinality(A \X (1..c)) = Cardinality(A) * c
        /\ IsFiniteSet(B \X (1..c)) /\ Cardinality(B \X (1..c)) = Cardinality(B) * c
    <3> HIDE DEF A, B, C
    <3>1. IsFiniteSet(1..c) /\ Cardinality(1..c) = c
      BY FirstN
    <3> QED
      BY <1>1, <3>1, UnitsAreFinite, FS_Product
  <2>6. Units(coins, A) \subseteq A \X (1..c)
    <3> HIDE DEF A
    <3> QED
      BY <1>1, <2>2 DEF Units
  <2>7. B \X (1..c) \subseteq Units(coins, B)
    <3> HIDE DEF B
    <3> QED
      BY <1>1, <2>2 DEF Units
  <2>8. Value(coins, A) <= Cardinality(A) * c /\ Cardinality(B) * c <= Value(coins, B)
    <3> HIDE DEF A, B, C
    <3>1. IsFiniteSet(Units(coins, B))
      BY <1>1, UnitsAreFinite
    <3> QED
      BY <2>5, <2>6, <2>7, <3>1, FS_Subset DEF Value
  <2>9. Cardinality(A) * c <= Cardinality(B) * c
    <3> HIDE DEF A, B, C
    <3> QED
      BY <1>2, <1>3, TimesGrows
  <2>10. Cardinality(A) * c \in Nat /\ Cardinality(B) * c \in Nat
    <3> HIDE DEF A, B, C
    <3> QED
      BY <1>2
  <2> HIDE DEF A, B, C
  <2> QED
    BY <2>4, <2>8, <2>9, <2>10
<1> QED
  BY <1>4, <1>5

\* Where a coin stands among those held.
Ahead(coins, i) == {j \in Filled(coins) : Before(coins, j, i)}

\* Of the coins held, one ahead of another has fewer ahead of it.
LEMMA PlacesAreDistinct ==
  ASSUME NEW coins \in Seq(Nat), NEW i \in Filled(coins)
  PROVE  /\ IsFiniteSet(Filled(coins)) /\ Cardinality(Filled(coins)) \in Nat
         /\ Cardinality(Filled(coins)) <= Len(coins)
         /\ IsFiniteSet(Ahead(coins, i)) /\ Cardinality(Ahead(coins, i)) \in Nat
         /\ Cardinality(Ahead(coins, i)) < Cardinality(Filled(coins))
         /\ \A j \in Ahead(coins, i) : Cardinality(Ahead(coins, j)) < Cardinality(Ahead(coins, i))
<1>1. /\ Filled(coins) \subseteq 1..Len(coins) /\ DOMAIN coins = 1..Len(coins) /\ Len(coins) \in Nat
      /\ \A j \in Filled(coins) : coins[j] \in Nat /\ j \in Nat
  BY DEF Filled
<1>2. IsFiniteSet(1..Len(coins)) /\ Cardinality(1..Len(coins)) = Len(coins)
  BY <1>1, FirstN
<1>3. /\ IsFiniteSet(Filled(coins)) /\ Cardinality(Filled(coins)) \in Nat
      /\ Cardinality(Filled(coins)) <= Len(coins)
  BY <1>1, <1>2, FS_Subset, FS_CardinalityType
<1>4. ASSUME NEW j \in Filled(coins)
      PROVE  /\ IsFiniteSet(Ahead(coins, j)) /\ Cardinality(Ahead(coins, j)) \in Nat
             /\ Ahead(coins, j) \subseteq Filled(coins) /\ j \notin Ahead(coins, j)
  <2>1. Ahead(coins, j) \subseteq Filled(coins)
    BY DEF Ahead
  <2>2. j \notin Ahead(coins, j)
    BY <1>1 DEF Ahead, Before
  <2> QED
    BY <1>3, <2>1, <2>2, FS_Subset, FS_CardinalityType
<1>5. Cardinality(Ahead(coins, i)) < Cardinality(Filled(coins))
  BY <1>3, <1>4, FS_Subset
<1>6. ASSUME NEW j \in Ahead(coins, i)
      PROVE  Cardinality(Ahead(coins, j)) < Cardinality(Ahead(coins, i))
  <2>1. j \in Filled(coins) /\ Before(coins, j, i)
    BY <1>6 DEF Ahead
  <2>2. Ahead(coins, j) \subseteq Ahead(coins, i)
    BY <1>1, <2>1 DEF Ahead, Before
  <2> QED
    BY <1>4, <1>6, <2>1, <2>2, FS_Subset
<1> QED
  BY <1>3, <1>4, <1>5, <1>6

\* The largest n coins are each as large as any coin that is not among them.
LEMMA LargestFirst ==
  ASSUME NEW coins \in Seq(Nat), NEW n \in Int
  PROVE  /\ Largest(coins, n) \in SUBSET (DOMAIN coins)
         /\ \A i \in Largest(coins, n), j \in DOMAIN coins \ Largest(coins, n) : coins[j] <= coins[i]
<1>1. Largest(coins, n) \subseteq Filled(coins) /\ Filled(coins) \subseteq DOMAIN coins
  BY DEF Largest, Filled
<1>2. ASSUME NEW i \in Largest(coins, n), NEW j \in DOMAIN coins \ Largest(coins, n)
      PROVE  coins[j] <= coins[i]
  <2>1. coins[i] \in Nat /\ coins[j] \in Nat /\ i \in Nat /\ j \in Nat /\ coins[i] > 0
    BY <1>1 DEF Filled
  <2>2. CASE j \notin Filled(coins)
    BY <2>1, <2>2 DEF Filled
  <2>3. CASE j \in Filled(coins)
    <3>1. Cardinality(Ahead(coins, i)) < n /\ ~(Cardinality(Ahead(coins, j)) < n)
      BY <2>3 DEF Largest, Ahead
    <3>2. j \notin Ahead(coins, i)
      BY <1>1, <2>3, <3>1, PlacesAreDistinct
    <3> QED
      BY <2>1, <2>3, <3>2 DEF Ahead, Before
  <2> QED
    BY <2>2, <2>3
<1> QED
  BY <1>1, <1>2

\* One more place is one more coin at most.
LEMMA OneMoreAtATime ==
  ASSUME NEW coins \in Seq(Nat), NEW n \in Nat \ {0}
  PROVE  Cardinality(Largest(coins, n)) <= Cardinality(Largest(coins, n - 1)) + 1
<1> DEFINE new == Largest(coins, n) \ Largest(coins, n - 1)
<1>1. /\ Largest(coins, n) \in SUBSET (DOMAIN coins) /\ Largest(coins, n - 1) \in SUBSET (DOMAIN coins)
      /\ Largest(coins, n) \subseteq Filled(coins)
  BY LargestFirst DEF Largest
<1>2. ASSUME NEW i \in new PROVE i \in Filled(coins) /\ Cardinality(Ahead(coins, i)) = n - 1
  <2>1. i \in Filled(coins) /\ Cardinality(Ahead(coins, i)) \in Nat
    BY <1>1, PlacesAreDistinct
  <2> QED
    BY <2>1 DEF Largest, Ahead
<1>3. ASSUME NEW i \in new, NEW j \in new PROVE i = j
  <2>1. i \in Filled(coins) /\ j \in Filled(coins) /\ Cardinality(Ahead(coins, i)) = Cardinality(Ahead(coins, j))
    BY <1>2
  <2>2. i \notin Ahead(coins, j) /\ j \notin Ahead(coins, i)
    BY <2>1, PlacesAreDistinct
  <2> QED
    BY <2>1, <2>2 DEF Ahead, Before, Filled
<1>4. IsFiniteSet(Largest(coins, n - 1)) /\ Cardinality(Largest(coins, n - 1)) \in Nat
  BY <1>1, UnitsAreFinite
<1>5. CASE new = {}
  <2>1. Largest(coins, n) \subseteq Largest(coins, n - 1)
    BY <1>5
  <2>2. /\ Cardinality(Largest(coins, n)) <= Cardinality(Largest(coins, n - 1))
        /\ Cardinality(Largest(coins, n)) \in Nat
    BY <1>1, <1>4, <2>1, FS_Subset, UnitsAreFinite
  <2> QED
    BY <1>4, <2>2
<1>6. CASE new # {}
  <2>1. PICK x \in new : TRUE
    BY <1>6
  <2>2. Largest(coins, n) \subseteq Largest(coins, n - 1) \cup {x}
    BY <1>3, <2>1
  <2>3. /\ IsFiniteSet(Largest(coins, n - 1) \cup {x})
        /\ Cardinality(Largest(coins, n - 1) \cup {x}) = Cardinality(Largest(coins, n - 1)) + 1
    BY <1>4, <2>1, FS_AddElement
  <2> QED
    BY <2>2, <2>3, FS_Subset
<1> QED
  BY <1>5, <1>6

\* No choice is worth more than all that is held.
LEMMA AllThatIsHeld ==
  ASSUME NEW coins \in Seq(Nat), NEW S \in SUBSET (DOMAIN coins)
  PROVE  Value(coins, S) <= Value(coins, Largest(coins, Len(coins)))
<1>1. Largest(coins, Len(coins)) = Filled(coins)
  <2>1. ASSUME NEW i \in Filled(coins) PROVE Cardinality(Ahead(coins, i)) < Len(coins)
    BY PlacesAreDistinct
  <2> QED
    BY <2>1 DEF Largest, Ahead
<1>2. Units(coins, S) \subseteq Units(coins, Filled(coins))
  BY DEF Units, Filled
<1>3. Filled(coins) \in SUBSET (DOMAIN coins)
  BY DEF Filled
<1> QED
  BY <1>1, <1>2, <1>3, UnitsAreFinite, FS_Subset DEF Value

\* What the migration takes, for every list of coins and every amount.
LEMMA MigrationTakesFewest ==
  ASSUME NEW coins \in Seq(Nat), NEW need \in Int
  PROVE  LET got == buildCoinToAddressBalanceMigration(coins, need)
             covering == Covering(coins, need)
         IN  IF covering = {} THEN got = Refused
             ELSE /\ got \in covering
                  /\ \A S \in covering : Cardinality(got) <= Cardinality(S)
<1> DEFINE Enough == {n \in 0..Len(coins) : Value(coins, Largest(coins, n)) >= need}
           got == buildCoinToAddressBalanceMigration(coins, need)
           covering == Covering(coins, need)
<1>1. Len(coins) \in Nat /\ Enough \in SUBSET Nat
  OBVIOUS
<1>2. CASE Enough = {}
  <2>1. got = Refused
    BY <1>2 DEF buildCoinToAddressBalanceMigration
  <2>2. ~(Value(coins, Largest(coins, Len(coins))) >= need)
    BY <1>1, <1>2
  <2>3. ASSUME NEW S \in SUBSET (DOMAIN coins) PROVE ~(Value(coins, S) >= need)
    <3>1. Value(coins, S) \in Nat /\ Value(coins, Largest(coins, Len(coins))) \in Nat
      BY <1>1, UnitsAreFinite, LargestFirst
    <3> QED
      BY <2>2, <3>1, AllThatIsHeld
  <2> QED
    BY <2>1, <2>3 DEF Covering
<1>3. CASE Enough # {}
  <2> DEFINE n == Min(Enough)
  <2>1. n \in Enough /\ n \in Nat /\ \A m \in Enough : n <= m
    <3> HIDE DEF Enough
    <3> QED
      BY <1>1, <1>3, MinIsLeast
  <2>2. got = Largest(coins, n)
    BY <1>3 DEF buildCoinToAddressBalanceMigration
  <2>3. got \in covering
    <3> HIDE DEF n, got
    <3>1. /\ Largest(coins, n) \in SUBSET (DOMAIN coins)
          /\ Value(coins, Largest(coins, n)) >= need
      BY <2>1, LargestFirst
    <3> QED
      BY <2>2, <3>1 DEF Covering
  <2> HIDE DEF n
  <2>4. ASSUME NEW S \in covering PROVE Cardinality(got) <= Cardinality(S)
    <3>1. S \in SUBSET (DOMAIN coins) /\ Value(coins, S) >= need
      BY DEF Covering
    <3>2. /\ Cardinality(S) \in Nat /\ Cardinality(got) \in Nat /\ Value(coins, S) \in Nat
          /\ got \in SUBSET (DOMAIN coins)
      BY <2>1, <2>2, <3>1, UnitsAreFinite, LargestFirst
    <3>3. CASE n = 0
      <4>1. got = {}
        <5>1. ASSUME NEW i \in Filled(coins) PROVE ~(Cardinality(Ahead(coins, i)) < 0)
          BY PlacesAreDistinct
        <5> QED
          BY <2>2, <3>3, <5>1 DEF Largest, Ahead
      <4> QED
        BY <3>2, <4>1, FS_EmptySet
    <3>4. CASE n # 0
      <4> DEFINE before == Largest(coins, n - 1)
      <4>1. n \in Nat \ {0} /\ n - 1 \in 0..Len(coins) /\ n - 1 \notin Enough
        BY <1>1, <2>1, <3>4
      <4>2. /\ before \in SUBSET (DOMAIN coins)
            /\ \A i \in before, j \in DOMAIN coins \ before : coins[j] <= coins[i]
        BY <4>1, LargestFirst
      <4>3. Cardinality(before) \in Nat /\ Value(coins, before) \in Nat
        BY <4>2, UnitsAreFinite
      <4>4. Value(coins, before) < need
        BY <4>1, <4>3
      <4>5. Cardinality(got) <= Cardinality(before) + 1
        BY <2>2, <4>1, OneMoreAtATime
      <4> HIDE DEF before, Enough, got, covering
      <4>6. ~(Cardinality(S) <= Cardinality(before))
        <5> SUFFICES ASSUME Cardinality(S) <= Cardinality(before) PROVE FALSE
          OBVIOUS
        <5>1. Value(coins, S) <= Value(coins, before)
          BY <3>1, <4>2, LargerIsWorthMore
        <5> QED
          BY <3>1, <3>2, <4>3, <4>4, <5>1
      <4> QED
        BY <3>2, <4>3, <4>5, <4>6
    <3> QED
      BY <3>3, <3>4
  <2> QED
    BY <2>3, <2>4
<1> QED
  BY <1>2, <1>3

\* For every wallet and change of it: the migration takes as few coin objects as
\* any choice that covers the amount, and refuses only what no choice covers
\* (buildCoinToAddressBalanceMigration, largest first).
THEOREM MigrationsAreLeast == ComposeSpec => []MigrationIsLeast
<1>1. ComposeInv => MigrationIsLeast
  <2> SUFFICES ASSUME ComposeInv, NEW t \in CoinType, NEW need \in 1..(Total(wallet[t]) + 1)
               PROVE  LET coins == wallet[t].objects
                          got == buildCoinToAddressBalanceMigration(coins, need)
                          covering == Covering(coins, need)
                      IN  IF covering = {} THEN got = Refused
                          ELSE /\ got \in covering
                               /\ \A S \in covering : Cardinality(got) <= Cardinality(S)
    BY DEF MigrationIsLeast
  <2>1. wallet[t].objects \in Seq(Nat) /\ Total(wallet[t]) \in Nat
    BY DEF ComposeInv, PurseInv, Holdings, Total
  <2>2. need \in Int
    BY <2>1
  <2> QED
    BY <2>1, <2>2, MigrationTakesFewest
<1> QED
  BY <1>1, ComposeInductive, PTL
=============================================================================
