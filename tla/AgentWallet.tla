----------------------------- MODULE AgentWallet -----------------------------
(***************************************************************************)
(* An agent's outbound writes around its spending limits.  Each call passes *)
(* the gate, moves money across several awaits (a transaction, or the x402  *)
(* probe, balance reads, migration and paid retry), and only then is        *)
(* recorded.  Calls of one process interleave at their awaits; processes    *)
(* interleave at every access to the config file as well, because           *)
(* writeFileSync truncates before it writes.                                *)
(***************************************************************************)
EXTENDS SpendLimits, X402Buyer, FiniteSets, FiniteSetsExt

CONSTANTS
  Call,         \* writes under way at once
  Host,         \* processes sharing the config file and the wallet
  HostOf,       \* the process of a call
  Operator,     \* the process t2 limit set and reset run in
  Verb,         \* the writes a call may ask for
  Settings,     \* arguments of limit set
  Answers,      \* what an endpoint may answer to the unpaid request
  InitialFile, InitialPurse,
  MaxDeposits   \* deposits of one unit that may reach the wallet

ASSUME WalletAssumption ==
  /\ HostOf \in [Call -> Host] /\ Operator \in Host
  /\ Verb \subseteq [op: {"send", "swap", "pay", "job"}, asset: STRING,
                    amount: Nat \union {NoPrice}, force: BOOLEAN]
  /\ \A v \in Verb : v.amount = NoPrice => v.op = "pay"
  /\ Settings \subseteq LimitsConfig
  /\ \A given \in Settings : \A k \in DOMAIN given : Defined(given[k]) => given[k] > 0
  /\ Answers \subseteq Answer
  /\ InitialPurse \subseteq [addr: Nat, coins: Nat]
  \* The first day is 0, and no ledger is dated after it.
  /\ 0 \in Date
  /\ InitialFile \subseteq Config \union {Unreadable}
  /\ \A f \in InitialFile \ {Unreadable} : f.date \in {None, 0}
  /\ MaxDeposits \in Nat

VARIABLES
  day, file,
  io,        \* per process: the file write it is in the middle of
  call,      \* per call: where it is and what it has read
  purse,     \* USDC of the wallet: SIP-58 address balance and coin objects
  deposits,
  hist       \* history: USD recorded on this date, the limits last asked for,
             \* and whether config.json carried keys of other owners

walletVars == <<day, file, io, call, purse, deposits, hist>>

Idle == [at |-> "idle"]
NoVerb == [op |-> "none", asset |-> "SUI", amount |-> 0, force |-> FALSE]

\* usd: what the gate was asked for.  seen, limits: history, the day's spend
\* and the limits at the gate.  total, due: balance read and units to migrate.
\* cost: the price signed, then what is to be recorded.  moved: history, money
\* left the wallet.  disturbed: history, another call moved money meanwhile.
NewCall == [pc |-> "idle", verb |-> NoVerb, usd |-> 0, seen |-> 0,
            limits |-> NoLimits, total |-> 0, due |-> 0, cost |-> 0,
            moved |-> FALSE, disturbed |-> FALSE]

WalletInit ==
  /\ day = 0
  /\ file \in InitialFile
  /\ io = [h \in Host |-> Idle]
  /\ call = [c \in Call |-> NewCall]
  /\ purse \in InitialPurse
  /\ deposits = 0
  /\ hist = [counted |-> dailySpentToday(file, 0), wanted |-> getLimits(file),
              others |-> file # Unreadable /\ file.others]

\* A process inside a synchronous file write runs nothing else.
Free(h) == io[h].at = "idle"
Runs(c) == Free(HostOf[c])

----------------------------------------------------------------------------
\* writeLimitsFile in its file-system steps: read what is there, truncate, fill.
BeginWrite(h, new) ==
  io' = [io EXCEPT ![h] = [at |-> "read", new |-> new]]

Truncate(h) ==
  /\ io[h].at = "read"
  /\ io' = [io EXCEPT ![h] = [at |-> "open", text |-> writeLimitsFile(file, io[h].new)]]
  /\ file' = Unreadable
  /\ UNCHANGED <<day, call, purse, deposits, hist>>

Fill(h) ==
  /\ io[h].at = "open"
  /\ file' = io[h].text
  /\ io' = [io EXCEPT ![h] = Idle]
  /\ UNCHANGED <<day, call, purse, deposits, hist>>

LimitSet(given) ==
  /\ Free(Operator)
  /\ BeginWrite(Operator, setLimits(file, given))
  /\ hist' = [hist EXCEPT !.wanted = setLimits(file, given).limits]
  /\ UNCHANGED <<day, file, call, purse, deposits>>

LimitReset ==
  /\ Free(Operator)
  /\ hasLimits(file)
  /\ BeginWrite(Operator, clearLimits(file))
  /\ hist' = [hist EXCEPT !.wanted = NoLimits]
  /\ UNCHANGED <<day, file, call, purse, deposits>>

\* The date changes while no gate and no write is in the middle of its reads.
Midnight ==
  /\ day + 1 \in Date
  /\ \A h \in Host : Free(h)
  /\ day' = day + 1
  /\ hist' = [hist EXCEPT !.counted = 0]
  /\ UNCHANGED <<file, io, call, purse, deposits>>

----------------------------------------------------------------------------
\* send prices a stable named by its coin type too, swap only by its symbol,
\* pay is gated on the caller's ceiling, a job verb on its USDC amount.
classifySendAsset(asset) == IF asset = "usdc type" THEN "USDC" ELSE asset

PricedUsd(v) ==
  CASE v.op = "send" -> OrZero(approxUsdValue(classifySendAsset(v.asset), v.amount))
    [] v.op = "swap" -> OrZero(approxUsdValue(v.asset, v.amount))
    [] v.op = "pay"  -> IF v.amount = NoPrice THEN 0 ELSE v.amount
    [] v.op = "job"  -> v.amount

Goto(c, pc) == call' = [call EXCEPT ![c].pc = pc]

\* The call returned or threw: nothing of it is read again.
Over == [NewCall EXCEPT !.pc = "over"]
Return(c) == call' = [call EXCEPT ![c] = Over]

Gate(c, v) ==
  /\ Runs(c)
  /\ call[c].pc = "idle"
  /\ LET usd == PricedUsd(v)
         ok == assertLimitConfig(getLimits(file), dailySpentToday(file, day), usd, v.force)
     IN  call' = [call EXCEPT ![c] =
           IF ~ok THEN Over
           ELSE [NewCall EXCEPT !.pc = IF v.op = "pay" THEN "ask" ELSE "submit",
                                !.verb = v, !.usd = usd, !.seen = hist.counted,
                                !.limits = getLimits(file)]]
  /\ UNCHANGED <<day, file, io, purse, deposits, hist>>

\* Money leaves: k of it from coin objects, the rest from the address balance.
\* Every other payment under way has its earlier balance reads outdated.
Held == purse.addr + purse.coins

Outflow(usd, k) ==
  /\ k \in 0..purse.coins /\ usd - k \in 0..purse.addr
  /\ purse' = [addr |-> purse.addr - (usd - k), coins |-> purse.coins - k]

Disturb(c, me) ==
  call' = [x \in Call |-> IF x = c THEN me ELSE [call[x] EXCEPT !.disturbed = TRUE]]

\* executeTx, and the sponsored rail for a job verb.  It throws before anything
\* is sent, or its answer is lost after the transaction landed; it returns the
\* digest of a transaction that landed or, for send and swap, that failed.
Worth(v) == IF v.asset = "SUI" THEN 0 ELSE v.amount

Landed(c) ==
  /\ \E k \in 0..purse.coins : Outflow(Worth(call[c].verb), k)
  /\ \/ Disturb(c, [call[c] EXCEPT !.pc = "record", !.cost = call[c].usd,
                                     !.moved = TRUE])
     \/ Disturb(c, Over)

executeTx(c) ==
  /\ Runs(c)
  /\ call[c].pc = "submit"
  /\ \/ Return(c) /\ UNCHANGED purse
     \/ /\ call[c].verb.op # "job"
        /\ call' = [call EXCEPT ![c].pc = "record", ![c].cost = call[c].usd]
        /\ UNCHANGED purse
     \/ Landed(c)
  /\ UNCHANGED <<day, file, io, deposits, hist>>

----------------------------------------------------------------------------
\* pay: the unpaid request and what is made of its answer.
AskPrice(c, answer) ==
  /\ Runs(c)
  /\ call[c].pc = "ask"
  /\ LET verdict == payWithX402(answer, "mainnet", call[c].verb.amount)
     IN  IF verdict = "sign"
           THEN call' = [call EXCEPT ![c].pc = "total",
                                     ![c].cost = Requirements(answer, "mainnet").price]
           ELSE Return(c)
  /\ UNCHANGED <<day, file, io, purse, deposits, hist>>

\* ensureAddressBalanceCovers: the combined balance, then, one await later,
\* the coin objects; the address balance is the difference of the two reads.
ReadTotal(c) ==
  /\ Runs(c)
  /\ call[c].pc = "total"
  /\ IF Held < call[c].cost
       THEN Return(c)
       ELSE call' = [call EXCEPT ![c].pc = "coins", ![c].total = Held,
                                 ![c].disturbed = FALSE]
  /\ UNCHANGED <<day, file, io, purse, deposits, hist>>

\* Plausible bug: the combined balance is taken for the address balance.
ListCoins_total(c) ==
  /\ Runs(c)
  /\ call[c].pc = "coins"
  /\ LET shortfall == call[c].cost - call[c].total
     IN  call' = [call EXCEPT ![c].pc = IF shortfall <= 0 THEN "retry" ELSE "migrate",
                              ![c].due = shortfall, ![c].total = purse.coins]
  /\ UNCHANGED <<day, file, io, purse, deposits, hist>>

ListCoins(c) ==
  /\ Runs(c)
  /\ call[c].pc = "coins"
  /\ LET addressBalance == call[c].total - purse.coins
         shortfall == call[c].cost - addressBalance
     IN  call' = [call EXCEPT ![c].pc = IF shortfall <= 0 THEN "retry" ELSE "migrate",
                              ![c].due = shortfall, ![c].total = purse.coins]
  /\ UNCHANGED <<day, file, io, purse, deposits, hist>>

\* Whole coin objects worth at least the shortfall go to the address balance.
\* executeTx does not look at the status: a migration that failed on chain
\* (its coins already spent) is followed by the payment all the same.
Migrate(c) ==
  /\ Runs(c)
  /\ call[c].pc = "migrate"
  /\ \/ Return(c) /\ UNCHANGED purse
     \/ /\ call[c].due <= purse.coins
        /\ \E k \in call[c].due..purse.coins :
             purse' = [addr |-> purse.addr + k, coins |-> purse.coins - k]
        /\ Goto(c, "retry")
     \/ call[c].disturbed /\ Goto(c, "retry") /\ UNCHANGED purse
  /\ UNCHANGED <<day, file, io, deposits, hist>>

\* The signed retry.  The seller settles against the address balance or does
\* not; paid means the receipt header came back.  A settled payment whose
\* answer is lost throws, one whose answer has no receipt reads as unpaid.
PayRetry(c) ==
  /\ Runs(c)
  /\ call[c].pc = "retry"
  /\ \/ Return(c) /\ UNCHANGED purse
     \/ /\ Outflow(call[c].cost, 0)
        /\ \/ Disturb(c, [call[c] EXCEPT !.pc = "record", !.moved = TRUE])
           \/ Disturb(c, Over)
  /\ UNCHANGED <<day, file, io, deposits, hist>>

----------------------------------------------------------------------------
\* The record after the fact: nothing for an amount that is not positive.
record(c) ==
  /\ Runs(c)
  /\ call[c].pc = "record"
  /\ Return(c)
  /\ IF call[c].cost > 0
       THEN /\ BeginWrite(HostOf[c], recordDailySpend(file, call[c].cost, day))
            /\ hist' = [hist EXCEPT !.counted = @ + call[c].cost]
       ELSE UNCHANGED <<io, hist>>
  /\ UNCHANGED <<day, file, purse, deposits>>

Deposit ==
  /\ deposits < MaxDeposits
  /\ deposits' = deposits + 1
  /\ \E d \in {"addr", "coins"} : purse' = [purse EXCEPT ![d] = @ + 1]
  /\ UNCHANGED <<day, file, io, call, hist>>

WalletNext ==
  \/ \E h \in Host : Truncate(h) \/ Fill(h)
  \/ \E given \in Settings : LimitSet(given)
  \/ LimitReset
  \/ Midnight
  \/ Deposit
  \/ \E c \in Call :
       \/ \E v \in Verb : Gate(c, v)
       \/ executeTx(c)
       \/ \E a \in Answers : AskPrice(c, a)
       \/ ReadTotal(c)
       \/ ListCoins(c)
       \/ Migrate(c)
       \/ PayRetry(c)
       \/ record(c)

WalletSpec == WalletInit /\ [][WalletNext]_walletVars

----------------------------------------------------------------------------
Settled == file # Unreadable /\ \A h \in Host : Free(h)

\* Between writes, config.json is up to date whoever wrote last: the ledger
\* holds exactly what calls recorded on this UTC date (none lost to another
\* record, to limit set or reset, or to yesterday's total), the limits are the
\* ones last asked for, and the keys of other owners are still there.
NoRewriteLosesAnything ==
  Settled =>
    /\ dailySpentToday(file, day) = hist.counted
    /\ getLimits(file) = hist.wanted
    /\ hist.others => file.others

\* The only way past the daily cap is overlap: what had been recorded when a
\* call passed the gate, plus what that call may spend, is within the cap of
\* that moment; and what it spends is no more than it was gated for, a
\* payment without a ceiling excepted.
OverlapIsTheOnlyOvershoot ==
  \A c \in Call :
    LET x == call[c]
    IN  x.pc = "record" /\ ~x.verb.force /\ x.usd > 0 =>
          /\ x.cost <= x.usd
          /\ Defined(x.limits.perTxUsd) => x.cost <= x.limits.perTxUsd
          /\ Defined(x.limits.dailyUsd) => x.seen + x.cost <= x.limits.dailyUsd

\* A payment that nobody else's spending overtook is signed over an address
\* balance that covers it, although that balance is only the difference of
\* two reads made an await apart and deposits may land between them.
UndisturbedPaymentIsFunded ==
  \A c \in Call :
    call[c].pc = "retry" /\ ~call[c].disturbed => purse.addr >= call[c].cost

=============================================================================
