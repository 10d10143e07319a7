----------------------------- MODULE SpendLimits -----------------------------
(***************************************************************************)
(* The spending limits of an agent: what ~/.t2000/config.json may hold, how *)
(* it is read and rewritten, and the gate every outbound write passes.      *)
(* Pure operators on the file's contents; AgentWallet runs them.  Dollars    *)
(* are natural numbers: the floating-point rounding of sums is left out.     *)
(***************************************************************************)
EXTENDS Integers

CONSTANTS
  None,        \* undefined
  Unreadable,  \* a config.json that is absent, half-written or not JSON
  Usd,         \* amounts a limit, an old ledger or a call may name
  Date         \* UTC dates, in order

Defined(x) == x # None

LimitsConfig == [perTxUsd: Usd \union {None}, dailyUsd: Usd \union {None}]
NoLimits == [perTxUsd |-> None, dailyUsd |-> None]

DailySpend == [date: Date \union {None}, usd: Nat]
NoSpend == [date |-> None, usd |-> 0]

LimitsFile == [limits: LimitsConfig, dailySpend: DailySpend]

\* The JSON object on disk: the two keys of this module, the per-send cap of
\* version 4, and whether keys of other owners are present.
Config == [perTxUsd: Usd \union {None}, dailyUsd: Usd \union {None},
           dailySendUsd: Usd \union {None},
           date: Date \union {None}, usd: Int, others: BOOLEAN]

ASSUME SpendAssumption ==
  /\ Usd \subseteq Int /\ Date \subseteq Nat
  /\ None \notin Int /\ None # Unreadable /\ Unreadable \notin Config

Usable(x) == Defined(x) /\ x > 0

\* A legacy dailySendUsd counts only where dailyUsd is unusable.
sanitize(raw) ==
  [limits |->
     [perTxUsd |-> IF Usable(raw.perTxUsd) THEN raw.perTxUsd ELSE None,
      dailyUsd |-> IF Usable(raw.dailyUsd) THEN raw.dailyUsd
                   ELSE IF Usable(raw.dailySendUsd) THEN raw.dailySendUsd
                   ELSE None],
   dailySpend |-> IF Defined(raw.date) /\ raw.usd >= 0
                    THEN [date |-> raw.date, usd |-> raw.usd] ELSE NoSpend]

\* An unreadable file reads as one without limits and without a ledger.
readLimitsFile(raw) ==
  IF raw = Unreadable THEN [limits |-> NoLimits, dailySpend |-> NoSpend]
                      ELSE sanitize(raw)

\* What is put on disk over "existing": both keys replaced, the legacy cap
\* gone with the limits object, the keys of others kept if they could be read.
writeLimitsFile(existing, new) ==
  [perTxUsd |-> new.limits.perTxUsd, dailyUsd |-> new.limits.dailyUsd,
   dailySendUsd |-> None,
   date |-> new.dailySpend.date, usd |-> new.dailySpend.usd,
   others |-> existing # Unreadable /\ existing.others]

getLimits(raw) == readLimitsFile(raw).limits
hasLimits(raw) == getLimits(raw) # NoLimits

\* Only the limits given change; those that are not stay as they are.
setLimits(raw, given) ==
  [readLimitsFile(raw) EXCEPT !.limits =
     [k \in DOMAIN NoLimits |-> IF Defined(given[k]) THEN given[k] ELSE @[k]]]

clearLimits(raw) == [readLimitsFile(raw) EXCEPT !.limits = NoLimits]

dailySpentToday(raw, today) ==
  LET spend == readLimitsFile(raw).dailySpend
  IN  IF spend.date = today THEN spend.usd ELSE 0

\* Plausible bug: yesterday's total is carried into today's.
recordDailySpend_carries(raw, usd, today) ==
  [readLimitsFile(raw) EXCEPT !.dailySpend = [date |-> today, usd |-> @.usd + usd]]

\* The ledger starts again on a new UTC date.
recordDailySpend(raw, usd, today) ==
  [readLimitsFile(raw) EXCEPT !.dailySpend =
     [date |-> today, usd |-> dailySpentToday(raw, today) + usd]]

----------------------------------------------------------------------------
\* The gate.  Stables are priced 1:1 by symbol, everything else is not priced
\* (0, never gated).
approxUsdValue(asset, amount) ==
  IF asset \in {"USDC", "USDSUI"} THEN amount ELSE None

OrZero(x) == IF Defined(x) THEN x ELSE 0

\* Plausible bug: the day's total so far is left out of the daily check.
assertLimitConfig_PerCall(limits, spentTodayUsd, amountUsd, force) ==
  \/ force
  \/ amountUsd <= 0
  \/ /\ Defined(limits.perTxUsd) => amountUsd <= limits.perTxUsd
     /\ Defined(limits.dailyUsd) => amountUsd <= limits.dailyUsd

\* TRUE iff the write may go out.
assertLimitConfig(limits, spentTodayUsd, amountUsd, force) ==
  \/ force
  \/ amountUsd <= 0
  \/ /\ Defined(limits.perTxUsd) => amountUsd <= limits.perTxUsd
     /\ Defined(limits.dailyUsd) => spentTodayUsd + amountUsd <= limits.dailyUsd
=============================================================================
