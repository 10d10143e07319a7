---------------------------- MODULE WalletProofs ----------------------------
(***************************************************************************)
(* The spending gate of one process, for every set of calls, verbs, limits, *)
(* endpoints and wallets: the config file loses nothing, only overlapping   *)
(* calls pass the daily cap together, and an undisturbed payment is funded. *)
(***************************************************************************)
EXTENDS AgentWallet, TLAPS, WellFoundedInduction

----------------------------------------------------------------------------
\* The file's operators.

\* What readLimitsFile can return: positive limits, no spend without a date.
Positive(limits) == \A k \in DOMAIN NoLimits : Defined(limits[k]) => limits[k] > 0

Sane == {f \in LimitsFile : /\ Positive(f.limits)
                            /\ f.dailySpend.date = None => f.dailySpend.usd = 0}

OnDisk == Config \union {Unreadable}

LEMMA ReadIsSane ==
  ASSUME NEW raw \in OnDisk
  PROVE  readLimitsFile(raw) \in Sane
BY SpendAssumption
   DEF OnDisk, Config, Sane, LimitsFile, LimitsConfig, DailySpend, Positive, NoLimits, NoSpend,
       readLimitsFile, sanitize, Usable, Defined

\* What is written reads back as it was given, over any file.
LEMMA RoundTrip ==
  ASSUME NEW raw \in OnDisk, NEW f \in Sane
  PROVE  /\ writeLimitsFile(raw, f) \in Config
         /\ readLimitsFile(writeLimitsFile(raw, f)) = f
<1> DEFINE w == writeLimitsFile(raw, f)
<1>1. w \in Config
  BY SpendAssumption
     DEF OnDisk, Config, Sane, LimitsFile, LimitsConfig, DailySpend, writeLimitsFile
<1>2. w # Unreadable
  BY <1>1, SpendAssumption
<1>3. sanitize(w).limits = f.limits
  BY SpendAssumption
     DEF Sane, LimitsFile, LimitsConfig, Positive, NoLimits, Defined, Usable, sanitize, writeLimitsFile
<1>4. sanitize(w).dailySpend = f.dailySpend
  BY SpendAssumption
     DEF Sane, LimitsFile, DailySpend, NoSpend, Defined, sanitize, writeLimitsFile
<1>5. sanitize(w) = f
  BY <1>3, <1>4 DEF Sane, LimitsFile, sanitize
<1> QED
  BY <1>1, <1>2, <1>5 DEF readLimitsFile

\* The three rewrites change what they are for and nothing else.
LEMMA SetChangesLimits ==
  ASSUME NEW raw \in OnDisk, NEW given \in Settings
  PROVE  /\ setLimits(raw, given) \in Sane
         /\ setLimits(raw, given).dailySpend = readLimitsFile(raw).dailySpend
<1>1. given \in LimitsConfig /\ Positive(given)
  BY WalletAssumption DEF LimitsConfig, Positive, NoLimits
<1> QED
  BY <1>1, ReadIsSane
     DEF setLimits, Sane, LimitsFile, LimitsConfig, Positive, NoLimits, Defined

LEMMA ClearChangesLimits ==
  ASSUME NEW raw \in OnDisk
  PROVE  /\ clearLimits(raw) \in Sane
         /\ clearLimits(raw).limits = NoLimits
         /\ clearLimits(raw).dailySpend = readLimitsFile(raw).dailySpend
BY ReadIsSane, SpendAssumption
   DEF clearLimits, Sane, LimitsFile, LimitsConfig, Positive, NoLimits, Defined

LEMMA RecordAddsUp ==
  ASSUME NEW raw \in OnDisk, NEW usd \in Nat, NEW today \in Date
  PROVE  LET f == recordDailySpend(raw, usd, today)
         IN  /\ f \in Sane
             /\ f.limits = readLimitsFile(raw).limits
             /\ f.dailySpend = [date |-> today, usd |-> dailySpentToday(raw, today) + usd]
             /\ dailySpentToday(raw, today) \in Nat
BY ReadIsSane, SpendAssumption
   DEF recordDailySpend, dailySpentToday, Sane, LimitsFile, DailySpend, Positive

----------------------------------------------------------------------------
\* Types.
Verbs == Verb \union {NoVerb}

PC == {"idle", "submit", "ask", "total", "coins", "migrate", "retry", "record", "over"}

CallState == [pc: PC, verb: Verbs, usd: Nat, seen: Nat, limits: LimitsConfig,
              total: Int, due: Int, cost: Nat, moved: BOOLEAN, disturbed: BOOLEAN]

Writes == [at: {"idle"}] \union [at: {"read"}, new: Sane] \union [at: {"open"}, text: Config]

TypeInv ==
  /\ day \in Date
  /\ file \in OnDisk
  /\ io \in [Host -> Writes]
  /\ call \in [Call -> CallState]
  /\ purse \in [addr: Nat, coins: Nat]
  /\ hist \in [counted: Nat, wanted: LimitsConfig, others: BOOLEAN]

\* A ledger in step with what was recorded: no spend of today missing, and
\* none dated after today, which midnight would bring back.
InStep(f) ==
  /\ f.limits = hist.wanted
  /\ hist.counted = IF f.dailySpend.date = day THEN f.dailySpend.usd ELSE 0
  /\ f.dailySpend.date = None \/ f.dailySpend.date <= day

\* What is on disk, or will be once the write under way is over.
FileInv ==
  LET w == io[Operator] IN
  /\ w.at = "idle" => InStep(readLimitsFile(file))
  /\ w.at = "read" => InStep(w.new)
  /\ w.at = "open" => InStep(readLimitsFile(w.text)) /\ (hist.others => w.text.others)
  /\ w.at # "open" => (hist.others => file # Unreadable /\ file.others)

\* A call past the gate carries what the gate decided on, and costs no more.
GateInv ==
  \A c \in Call :
    LET x == call[c] IN
    /\ x.pc \notin {"idle", "over"} => assertLimitConfig(x.limits, x.seen, x.usd, x.verb.force)
    /\ x.pc = "ask" => /\ x.verb.amount # NoPrice => x.usd = x.verb.amount
                       /\ x.verb.amount = NoPrice => x.usd = 0
    /\ x.pc \in {"total", "coins", "migrate", "retry", "record"} => (x.usd > 0 => x.cost <= x.usd)
    /\ x.pc = "migrate" => x.due > 0

\* What the two balance reads of a payment are worth while nobody else spends.
FundsInv ==
  \A c \in Call :
    LET x == call[c] IN
    ~x.disturbed =>
      /\ x.pc = "coins" => x.total <= purse.addr + purse.coins
      /\ x.pc = "migrate" => x.cost - x.due <= purse.addr
      /\ x.pc = "retry" => x.cost <= purse.addr

WalletInv == TypeInv /\ FileInv /\ GateInv /\ FundsInv

----------------------------------------------------------------------------
\* A payment that signs is bound to an entry of the answer.
LEMMA LeastPosition ==
  ASSUME NEW S \in SUBSET Nat, S # {}
  PROVE  FirstOf(S) \in S
<1> DEFINE R == {ss \in Nat \X Nat : ss[1] < ss[2]}
<1>1. IsWellFoundedOn(R, Nat)
  BY NatLessThanWellFounded, Zenon DEF OpToRel
<1> HIDE DEF R
<1>2. PICK i \in S : \A j \in S : ~(<<j, i>> \in R)
  BY <1>1, WFMin, Zenon
<1>3. ASSUME NEW j \in S, j < i
      PROVE  FALSE
  <2>1. <<j, i>> \in R
    BY <1>3 DEF R
  <2> QED
    BY <1>2, <2>1
<1>4. \A j \in S : i <= j
  BY <1>3
<1> QED
  BY <1>4 DEF FirstOf

LEMMA SignedEntry ==
  ASSUME NEW answer \in Answer, NEW network, NEW maxPrice \in Nat \union {NoPrice},
         payWithX402(answer, network, maxPrice) = "sign"
  PROVE  /\ Requirements(answer, network).price \in Nat
         /\ maxPrice # NoPrice => Requirements(answer, network).price <= maxPrice
<1> DEFINE wanted == {i \in DOMAIN answer.accepts :
                        /\ answer.accepts[i].scheme = "exact"
                        /\ answer.accepts[i].network = ForNetwork(network)}
           e == answer.accepts[FirstOf(wanted)]
<1>1. wanted # {} /\ Requirements(answer, network) = e
  BY DEF payWithX402, UnpayableKind, pickSuiExactRequirements, Requirements
<1>2. FirstOf(wanted) \in DOMAIN answer.accepts
  <2>1. answer.accepts \in Seq(Entry)
    BY DEF Answer
  <2>2. wanted \in SUBSET Nat
    BY <2>1
  <2> QED
    BY <1>1, <2>2, LeastPosition
<1>3. e \in Entry
  BY <1>2 DEF Answer
<1>4. assertWithinMaxPrice(e, maxPrice)
  BY <1>1 DEF payWithX402, UnpayableKind, Requirements
<1> QED
  BY <1>1, <1>3, <1>4, BuyerAssumption DEF Entry, assertWithinMaxPrice

----------------------------------------------------------------------------
\* What a call can become.
LEMMA FreshCall ==
  NewCall \in CallState /\ Over \in CallState
<1>1. NoVerb \in Verbs /\ NoLimits \in LimitsConfig
  BY DEF Verbs, NoLimits, LimitsConfig
<1>2. NewCall \in CallState
  BY <1>1 DEF NewCall, CallState, PC
<1> QED
  BY <1>2 DEF Over, CallState, PC

LEMMA Priced ==
  ASSUME NEW v \in Verb
  PROVE  /\ v \in Verbs /\ PricedUsd(v) \in Nat
         /\ v.op = "pay" => /\ v.amount # NoPrice => PricedUsd(v) = v.amount
                            /\ v.amount = NoPrice => PricedUsd(v) = 0
<1>1. /\ v \in Verbs /\ v.op \in {"send", "swap", "pay", "job"}
      /\ v.amount = NoPrice => v.op = "pay"
      /\ v.amount \in Nat \union {NoPrice}
  BY WalletAssumption DEF Verbs
<1>2. CASE v.op = "send"
  BY <1>1, <1>2, SpendAssumption DEF PricedUsd, OrZero, approxUsdValue, Defined
<1>3. CASE v.op = "swap"
  BY <1>1, <1>3, SpendAssumption DEF PricedUsd, OrZero, approxUsdValue, Defined
<1>4. CASE v.op = "pay"
  BY <1>1, <1>4 DEF PricedUsd
<1>5. CASE v.op = "job"
  BY <1>1, <1>5 DEF PricedUsd
<1> QED
  BY <1>1, <1>2, <1>3, <1>4, <1>5

LEMMA DisturbTyped ==
  ASSUME TypeInv, NEW c \in Call, NEW me \in CallState, Disturb(c, me)
  PROVE  call' \in [Call -> CallState]
BY DEF TypeInv, Disturb, CallState

LEMMA TypeStep ==
  ASSUME WalletInv, WalletNext
  PROVE  TypeInv'
<1> USE DEF WalletInv
<1>1. ASSUME NEW h \in Host, Truncate(h) \/ Fill(h)
      PROVE  TypeInv'
  <2>1. io[h].at = "read" => writeLimitsFile(file, io[h].new) \in Config
    BY RoundTrip DEF TypeInv, Writes
  <2> QED
    BY <1>1, <2>1 DEF TypeInv, Truncate, Fill, OnDisk, Writes, Idle
<1>2. ASSUME NEW given \in Settings, LimitSet(given)
      PROVE  TypeInv'
  <2>1. setLimits(file, given) \in Sane
    BY SetChangesLimits DEF TypeInv
  <2> QED
    BY <1>2, <2>1 DEF TypeInv, LimitSet, BeginWrite, Writes, Sane, LimitsFile
<1>3. CASE LimitReset
  <2>1. clearLimits(file) \in Sane /\ clearLimits(file).limits = NoLimits
    BY ClearChangesLimits DEF TypeInv
  <2> QED
    BY <1>3, <2>1 DEF TypeInv, LimitReset, BeginWrite, Writes, Sane, LimitsFile
<1>4. CASE Midnight
  BY <1>4 DEF TypeInv, Midnight
<1>5. CASE Deposit
  BY <1>5 DEF TypeInv, Deposit
<1>6. ASSUME NEW c \in Call, NEW v \in Verb, Gate(c, v)
      PROVE  TypeInv'
  <2>1. getLimits(file) \in LimitsConfig
    BY ReadIsSane DEF TypeInv, getLimits, Sane, LimitsFile
  <2>2. call' \in [Call -> CallState]
    BY <1>6, <2>1, Priced, FreshCall DEF TypeInv, Gate, NewCall, CallState, PC
  <2> QED
    BY <1>6, <2>2 DEF TypeInv, Gate
<1>7. ASSUME NEW c \in Call, executeTx(c)
      PROVE  TypeInv'
  <2>1. call' \in [Call -> CallState]
    <3>1. CASE Return(c)
      BY <3>1, FreshCall DEF TypeInv, Return
    <3>2. CASE call' = [call EXCEPT ![c].pc = "record", ![c].cost = call[c].usd]
      <4> DEFINE me == [call[c] EXCEPT !.pc = "record", !.cost = call[c].usd]
      <4>1. me \in CallState
        BY DEF TypeInv, CallState, PC
      <4>2. call' = [call EXCEPT ![c] = me]
        BY <3>2 DEF TypeInv, CallState
      <4> QED
        BY <4>1, <4>2 DEF TypeInv
    <3>3. CASE Landed(c)
      <4>1. [call[c] EXCEPT !.pc = "record", !.cost = call[c].usd, !.moved = TRUE] \in CallState
        BY DEF TypeInv, CallState, PC
      <4> QED
        BY <3>3, <4>1, FreshCall, DisturbTyped DEF Landed
    <3> QED
      BY <1>7, <3>1, <3>2, <3>3 DEF executeTx
  <2>2. purse' \in [addr: Nat, coins: Nat]
    BY <1>7 DEF TypeInv, executeTx, Landed, Outflow
  <2> QED
    BY <1>7, <2>1, <2>2 DEF TypeInv, executeTx
<1>8. ASSUME NEW c \in Call, NEW a \in Answers, AskPrice(c, a)
      PROVE  TypeInv'
  <2>1. payWithX402(a, "mainnet", call[c].verb.amount) = "sign"
          => Requirements(a, "mainnet").price \in Nat
    <3>1. call[c].verb.amount \in Nat \union {NoPrice}
      BY WalletAssumption DEF TypeInv, CallState, Verbs, NoVerb
    <3> QED
      BY <3>1, SignedEntry, WalletAssumption
  <2>2. call' \in [Call -> CallState]
    BY <1>8, <2>1, FreshCall DEF TypeInv, AskPrice, Return, CallState, PC
  <2> QED
    BY <1>8, <2>2 DEF TypeInv, AskPrice
<1>9. ASSUME NEW c \in Call, ReadTotal(c) \/ ListCoins(c)
      PROVE  TypeInv'
  <2>1. call' \in [Call -> CallState]
    BY <1>9, FreshCall DEF TypeInv, ReadTotal, ListCoins, Return, Held, CallState, PC
  <2> QED
    BY <1>9, <2>1 DEF TypeInv, ReadTotal, ListCoins
<1>10. ASSUME NEW c \in Call, Migrate(c)
       PROVE  TypeInv'
  <2>1. call' \in [Call -> CallState]
    BY <1>10, FreshCall DEF TypeInv, Migrate, Return, Goto, CallState, PC
  <2>2. purse' \in [addr: Nat, coins: Nat]
    <3>1. ASSUME NEW k \in call[c].due..purse.coins, call[c].pc = "migrate",
                 purse' = [addr |-> purse.addr + k, coins |-> purse.coins - k]
          PROVE  purse' \in [addr: Nat, coins: Nat]
      <4>1. call[c].due > 0 /\ call[c].due \in Int
        BY <3>1 DEF GateInv, TypeInv, CallState
      <4> QED
        BY <3>1, <4>1 DEF TypeInv
    <3> QED
      BY <1>10, <3>1 DEF TypeInv, Migrate
  <2> QED
    BY <1>10, <2>1, <2>2 DEF TypeInv, Migrate
<1>11. ASSUME NEW c \in Call, PayRetry(c)
       PROVE  TypeInv'
  <2>1. [call[c] EXCEPT !.pc = "record", !.moved = TRUE] \in CallState
    BY DEF TypeInv, CallState, PC
  <2>2. call' \in [Call -> CallState]
    BY <1>11, <2>1, FreshCall, DisturbTyped DEF TypeInv, PayRetry, Return
  <2>3. purse' \in [addr: Nat, coins: Nat]
    BY <1>11 DEF TypeInv, PayRetry, Outflow, CallState
  <2> QED
    BY <1>11, <2>2, <2>3 DEF TypeInv, PayRetry
<1>12. ASSUME NEW c \in Call, record(c)
       PROVE  TypeInv'
  <2>1. HostOf[c] \in Host
    BY WalletAssumption
  <2>2. recordDailySpend(file, call[c].cost, day) \in Sane
    BY RecordAddsUp DEF TypeInv, CallState
  <2> QED
    BY <1>12, <2>1, <2>2, FreshCall
       DEF TypeInv, record, Return, BeginWrite, Writes, CallState
<1> QED
  BY <1>1, <1>2, <1>3, <1>4, <1>5, <1>6, <1>7, <1>8, <1>9, <1>10, <1>11, <1>12 DEF WalletNext

----------------------------------------------------------------------------
\* With one process, a write ends before anything else reads the file.
LEMMA FileStep ==
  ASSUME Host = {Operator}, WalletInv, WalletNext
  PROVE  FileInv'
<1> USE DEF WalletInv
<1>0. /\ Operator \in Host /\ io \in [Host -> Writes] /\ file \in OnDisk /\ day \in Date
      /\ \A c \in Call : HostOf[c] = Operator
  BY WalletAssumption DEF TypeInv
<1>1. ASSUME NEW h \in Host, Truncate(h)
      PROVE  FileInv'
  <2>1. h = Operator /\ io[h].at = "read" /\ io[h].new \in Sane
    BY <1>0, <1>1 DEF Truncate, Writes
  <2>2. io'[h] = [at |-> "open", text |-> writeLimitsFile(file, io[h].new)]
    BY <1>0, <1>1 DEF Truncate
  <2>3. readLimitsFile(io'[h].text) = io[h].new
    BY <1>0, <2>1, <2>2, RoundTrip
  <2>4. hist.others => io'[h].text.others
    <3>1. hist.others => file # Unreadable /\ file.others
      BY <2>1 DEF FileInv
    <3>2. io'[h].text.others = (file # Unreadable /\ file.others)
      BY <2>2 DEF writeLimitsFile
    <3> QED
      BY <3>1, <3>2
  <2> QED
    BY <1>1, <2>1, <2>2, <2>3, <2>4 DEF FileInv, InStep, Truncate
<1>2. ASSUME NEW h \in Host, Fill(h)
      PROVE  FileInv'
  <2>1. h = Operator /\ io[h].at = "open" /\ io[h].text \in Config /\ io'[h].at = "idle"
    BY <1>0, <1>2 DEF Fill, Writes, Idle
  <2>2. file' = io[h].text /\ file' # Unreadable
    BY <1>2, <2>1, SpendAssumption DEF Fill
  <2> QED
    BY <1>2, <2>1, <2>2 DEF FileInv, InStep, Fill
<1>3. ASSUME NEW given \in Settings, LimitSet(given)
      PROVE  FileInv'
  <2>1. io[Operator].at = "idle" /\ io'[Operator] = [at |-> "read", new |-> setLimits(file, given)]
    BY <1>0, <1>3 DEF LimitSet, BeginWrite, Free
  <2>2. setLimits(file, given).dailySpend = readLimitsFile(file).dailySpend
    BY <1>0, SetChangesLimits
  <2>3. /\ hist'.wanted = setLimits(file, given).limits
        /\ hist'.counted = hist.counted /\ hist'.others = hist.others
    BY <1>3 DEF LimitSet, TypeInv
  <2> QED
    BY <1>3, <2>1, <2>2, <2>3 DEF FileInv, InStep, LimitSet
<1>4. CASE LimitReset
  <2>1. io[Operator].at = "idle" /\ io'[Operator] = [at |-> "read", new |-> clearLimits(file)]
    BY <1>0, <1>4 DEF LimitReset, BeginWrite, Free
  <2>2. /\ clearLimits(file).dailySpend = readLimitsFile(file).dailySpend
        /\ clearLimits(file).limits = NoLimits
    BY <1>0, ClearChangesLimits
  <2>3. /\ hist'.wanted = NoLimits
        /\ hist'.counted = hist.counted /\ hist'.others = hist.others
    BY <1>4 DEF LimitReset, TypeInv
  <2> QED
    BY <1>4, <2>1, <2>2, <2>3 DEF FileInv, InStep, LimitReset
<1>5. CASE Midnight
  <2>1. io[Operator].at = "idle" /\ io' = io /\ file' = file
    BY <1>0, <1>5 DEF Midnight, Free
  <2>2. /\ day' = day + 1 /\ hist'.counted = 0
        /\ hist'.wanted = hist.wanted /\ hist'.others = hist.others
    BY <1>5 DEF Midnight, TypeInv
  <2>3. LET date == readLimitsFile(file).dailySpend.date
        IN  date # day + 1 /\ (date = None \/ date <= day + 1)
    BY <1>0, <2>1, ReadIsSane, SpendAssumption
       DEF FileInv, InStep, Sane, LimitsFile, DailySpend
  <2> QED
    BY <2>1, <2>2, <2>3 DEF FileInv, InStep
<1>6. ASSUME NEW c \in Call, record(c)
      PROVE  FileInv'
  <2>1. CASE call[c].cost > 0
    <3> DEFINE f == recordDailySpend(file, call[c].cost, day)
    <3>1. io[Operator].at = "idle" /\ io'[Operator] = [at |-> "read", new |-> f]
      BY <1>0, <1>6, <2>1 DEF record, BeginWrite, Runs, Free
    <3>2. /\ f.limits = readLimitsFile(file).limits
          /\ f.dailySpend = [date |-> day, usd |-> dailySpentToday(file, day) + call[c].cost]
      BY <1>0, RecordAddsUp DEF TypeInv, CallState
    <3>3. /\ hist'.counted = hist.counted + call[c].cost
          /\ hist'.wanted = hist.wanted /\ hist'.others = hist.others
      BY <1>6, <2>1 DEF record, TypeInv
    <3>4. dailySpentToday(file, day) = hist.counted
      BY <3>1 DEF FileInv, InStep, dailySpentToday
    <3>5. day' = day /\ file' = file /\ day <= day
      BY <1>0, <1>6, SpendAssumption DEF record
    <3> HIDE DEF f
    <3> QED
      BY <3>1, <3>2, <3>3, <3>4, <3>5 DEF FileInv, InStep
  <2>2. CASE ~(call[c].cost > 0)
    BY <1>6, <2>2 DEF record, FileInv, InStep
  <2> QED
    BY <2>1, <2>2
<1>7. CASE UNCHANGED <<day, file, io, hist>>
  BY <1>7 DEF FileInv, InStep
<1>8. ASSUME NEW c \in Call,
             \/ \E v \in Verb : Gate(c, v)
             \/ executeTx(c)
             \/ \E a \in Answers : AskPrice(c, a)
             \/ ReadTotal(c) \/ ListCoins(c) \/ Migrate(c) \/ PayRetry(c)
      PROVE  FileInv'
  BY <1>7, <1>8 DEF Gate, executeTx, AskPrice, ReadTotal, ListCoins, Migrate, PayRetry
<1>9. CASE Deposit
  BY <1>7, <1>9 DEF Deposit
<1> QED
  BY <1>1, <1>2, <1>3, <1>4, <1>5, <1>6, <1>8, <1>9 DEF WalletNext

----------------------------------------------------------------------------
\* The gate decides on the ledger as it was recorded, and nothing after it
\* makes a call cost more.
LEMMA GateStep ==
  ASSUME Host = {Operator}, WalletInv, WalletNext
  PROVE  GateInv'
<1> USE DEF WalletInv
<1> DEFINE Good(x) ==
      /\ x.pc \notin {"idle", "over"} => assertLimitConfig(x.limits, x.seen, x.usd, x.verb.force)
      /\ x.pc = "ask" => /\ x.verb.amount # NoPrice => x.usd = x.verb.amount
                         /\ x.verb.amount = NoPrice => x.usd = 0
      /\ x.pc \in {"total", "coins", "migrate", "retry", "record"} => (x.usd > 0 => x.cost <= x.usd)
      /\ x.pc = "migrate" => x.due > 0
<1>1. \A c \in Call : Good(call[c]) /\ call[c] \in CallState
  BY DEF GateInv, TypeInv
<1>2. Good(Over)
  BY DEF Over, NewCall
<1>3. SUFFICES \A c \in Call : Good(call'[c])
  BY DEF GateInv
<1>4. ASSUME NEW c \in Call, NEW x, Good(x), call' = [call EXCEPT ![c] = x]
      PROVE  \A d \in Call : Good(call'[d])
  BY <1>1, <1>4 DEF TypeInv
<1>5. ASSUME NEW c \in Call, NEW x, Good(x), Disturb(c, x)
      PROVE  \A d \in Call : Good(call'[d])
  <2>1. \A d \in Call \ {c} : call'[d] = [call[d] EXCEPT !.disturbed = TRUE]
    BY <1>5 DEF Disturb
  <2>2. \A d \in Call \ {c} :
          /\ call'[d].pc = call[d].pc /\ call'[d].verb = call[d].verb
          /\ call'[d].usd = call[d].usd /\ call'[d].seen = call[d].seen
          /\ call'[d].limits = call[d].limits /\ call'[d].cost = call[d].cost
          /\ call'[d].due = call[d].due
    BY <1>1, <2>1 DEF CallState
  <2>3. call'[c] = x
    BY <1>5 DEF Disturb
  <2> QED
    BY <1>1, <1>5, <2>2, <2>3
<1>16. ASSUME NEW x, x.pc \in {"ask", "submit"},
             assertLimitConfig(x.limits, x.seen, x.usd, x.verb.force),
             x.pc = "ask" => /\ x.verb.amount # NoPrice => x.usd = x.verb.amount
                             /\ x.verb.amount = NoPrice => x.usd = 0
      PROVE  Good(x)
  BY <1>16
<1> HIDE DEF Good
<1>6. ASSUME NEW c \in Call, Return(c)
      PROVE  \A d \in Call : Good(call'[d])
  BY <1>2, <1>4, <1>6 DEF Return
<1>7. ASSUME NEW c \in Call, NEW v \in Verb, Gate(c, v)
      PROVE  \A d \in Call : Good(call'[d])
  <2> DEFINE x == [NewCall EXCEPT !.pc = IF v.op = "pay" THEN "ask" ELSE "submit",
                                  !.verb = v, !.usd = PricedUsd(v), !.seen = hist.counted,
                                  !.limits = getLimits(file)]
  <2>1. dailySpentToday(file, day) = hist.counted
    BY <1>7, WalletAssumption DEF Gate, Runs, Free, FileInv, InStep, dailySpentToday
  <2>2. CASE ~assertLimitConfig(getLimits(file), dailySpentToday(file, day), PricedUsd(v), v.force)
    BY <1>2, <1>4, <1>7, <2>2 DEF Gate
  <2>3. CASE assertLimitConfig(getLimits(file), dailySpentToday(file, day), PricedUsd(v), v.force)
    <3>1. /\ x.pc = (IF v.op = "pay" THEN "ask" ELSE "submit")
          /\ x.verb = v /\ x.usd = PricedUsd(v) /\ x.seen = hist.counted
          /\ x.limits = getLimits(file)
      BY DEF NewCall
    <3> HIDE DEF x
    <3>2. assertLimitConfig(x.limits, x.seen, x.usd, x.verb.force)
      BY <2>1, <2>3, <3>1
    <3>3. x.pc = "ask" => /\ x.verb.amount # NoPrice => x.usd = x.verb.amount
                          /\ x.verb.amount = NoPrice => x.usd = 0
      <4>1. x.pc = "ask" => v.op = "pay"
        BY <3>1
      <4> QED
        BY <3>1, <4>1, Priced
    <3>4. x.pc \in {"ask", "submit"}
      BY <3>1
    <3>5. Good(x)
      BY <1>16, <3>2, <3>3, <3>4
    <3> USE DEF x
    <3>6. call' = [call EXCEPT ![c] = x]
      BY <1>7, <2>3 DEF Gate
    <3> QED
      BY <1>4, <3>5, <3>6
  <2> QED
    BY <2>2, <2>3
<1>8. ASSUME NEW c \in Call, executeTx(c)
      PROVE  \A d \in Call : Good(call'[d])
  <2> DEFINE x == [call[c] EXCEPT !.pc = "record", !.cost = call[c].usd]
             y == [call[c] EXCEPT !.pc = "record", !.cost = call[c].usd, !.moved = TRUE]
  <2>1. call[c].pc = "submit" /\ call[c].usd \in Nat
    BY <1>1, <1>8 DEF executeTx, CallState
  <2>2. Good(x) /\ Good(y)
    BY <1>1, <2>1 DEF Good, CallState
  <2>3. CASE Return(c)
    BY <1>6, <2>3
  <2>4. CASE call' = [call EXCEPT ![c].pc = "record", ![c].cost = call[c].usd]
    <3>1. call' = [call EXCEPT ![c] = x]
      BY <1>1, <2>4 DEF TypeInv, CallState
    <3> QED
      BY <1>4, <2>2, <3>1
  <2>5. CASE Disturb(c, y) \/ Disturb(c, Over)
    BY <1>2, <1>5, <2>2, <2>5
  <2> QED
    BY <1>8, <2>3, <2>4, <2>5 DEF executeTx, Landed
<1>9. ASSUME NEW c \in Call, NEW a \in Answers, AskPrice(c, a)
      PROVE  \A d \in Call : Good(call'[d])
  <2> DEFINE price == Requirements(a, "mainnet").price
             x == [call[c] EXCEPT !.pc = "total", !.cost = price]
  <2>1. CASE payWithX402(a, "mainnet", call[c].verb.amount) # "sign"
    BY <1>6, <1>9, <2>1 DEF AskPrice
  <2>2. CASE payWithX402(a, "mainnet", call[c].verb.amount) = "sign"
    <3>1. call[c].verb.amount \in Nat \union {NoPrice} /\ call[c].pc = "ask"
      BY <1>1, <1>9, WalletAssumption DEF AskPrice, CallState, Verbs, NoVerb
    <3>2. price \in Nat /\ (call[c].verb.amount # NoPrice => price <= call[c].verb.amount)
      BY <2>2, <3>1, SignedEntry, WalletAssumption
    <3>3. Good(x)
      BY <1>1, <3>1, <3>2 DEF Good, CallState
    <3>4. call' = [call EXCEPT ![c] = x]
      BY <1>1, <1>9, <2>2 DEF AskPrice, TypeInv, CallState
    <3> QED
      BY <1>4, <3>3, <3>4
  <2> QED
    BY <2>1, <2>2
<1>10. ASSUME NEW c \in Call, ReadTotal(c)
       PROVE  \A d \in Call : Good(call'[d])
  <2> DEFINE x == [call[c] EXCEPT !.pc = "coins", !.total = Held, !.disturbed = FALSE]
  <2>1. CASE Held < call[c].cost
    BY <1>6, <1>10, <2>1 DEF ReadTotal
  <2>2. CASE ~(Held < call[c].cost)
    <3>1. Good(x)
      BY <1>1, <1>10 DEF ReadTotal, Good, CallState
    <3>2. call' = [call EXCEPT ![c] = x]
      BY <1>1, <1>10, <2>2 DEF ReadTotal, TypeInv, CallState
    <3> QED
      BY <1>4, <3>1, <3>2
  <2> QED
    BY <2>1, <2>2
<1>11. ASSUME NEW c \in Call, ListCoins(c)
       PROVE  \A d \in Call : Good(call'[d])
  <2> DEFINE shortfall == call[c].cost - (call[c].total - purse.coins)
             x == [call[c] EXCEPT !.pc = IF shortfall <= 0 THEN "retry" ELSE "migrate",
                                  !.due = shortfall, !.total = purse.coins]
  <2>1. shortfall \in Int
    BY <1>1 DEF CallState, TypeInv
  <2>2. Good(x)
    BY <1>1, <1>11, <2>1 DEF ListCoins, Good, CallState
  <2>3. call' = [call EXCEPT ![c] = x]
    BY <1>1, <1>11 DEF ListCoins, TypeInv, CallState
  <2> QED
    BY <1>4, <2>2, <2>3
<1>12. ASSUME NEW c \in Call, Migrate(c)
       PROVE  \A d \in Call : Good(call'[d])
  <2> DEFINE x == [call[c] EXCEPT !.pc = "retry"]
  <2>1. Good(x)
    BY <1>1, <1>12 DEF Migrate, Good, CallState
  <2>2. ASSUME Goto(c, "retry")
        PROVE  call' = [call EXCEPT ![c] = x]
    BY <1>1, <2>2 DEF Goto, TypeInv, CallState
  <2> QED
    BY <1>4, <1>6, <1>12, <2>1, <2>2 DEF Migrate
<1>13. ASSUME NEW c \in Call, PayRetry(c)
       PROVE  \A d \in Call : Good(call'[d])
  <2> DEFINE x == [call[c] EXCEPT !.pc = "record", !.moved = TRUE]
  <2>1. Good(x)
    BY <1>1, <1>13 DEF PayRetry, Good, CallState
  <2> QED
    BY <1>2, <1>5, <1>6, <1>13, <2>1 DEF PayRetry
<1>14. ASSUME NEW c \in Call, record(c)
       PROVE  \A d \in Call : Good(call'[d])
  BY <1>6, <1>14 DEF record
<1>15. CASE call' = call
  BY <1>1, <1>15
<1> QED
  BY <1>7, <1>8, <1>9, <1>10, <1>11, <1>12, <1>13, <1>14, <1>15
     DEF WalletNext, Truncate, Fill, LimitSet, LimitReset, Midnight, Deposit

----------------------------------------------------------------------------
\* Only another call's payment takes from the address balance.
LEMMA FundsStep ==
  ASSUME WalletInv, WalletNext
  PROVE  FundsInv'
<1> USE DEF WalletInv
<1> DEFINE Good(x, p) ==
      ~x.disturbed =>
        /\ x.pc = "coins" => x.total <= p.addr + p.coins
        /\ x.pc = "migrate" => x.cost - x.due <= p.addr
        /\ x.pc = "retry" => x.cost <= p.addr
<1>1. \A c \in Call : Good(call[c], purse) /\ call[c] \in CallState
  BY DEF FundsInv, TypeInv
<1>2. purse \in [addr: Nat, coins: Nat]
  BY DEF TypeInv
<1>3. \A x : x.pc \notin {"coins", "migrate", "retry"} => Good(x, purse')
  OBVIOUS
<1>4. SUFFICES \A c \in Call : Good(call'[c], purse')
  BY DEF FundsInv
\* The other calls keep what they know: the purse only moves to their good.
<1>5. ASSUME NEW c \in Call, NEW x, call' = [call EXCEPT ![c] = x], Good(x, purse'),
             purse' \in [addr: Nat, coins: Nat], purse'.addr >= purse.addr,
             purse'.addr + purse'.coins >= purse.addr + purse.coins
      PROVE  \A d \in Call : Good(call'[d], purse')
  <2>1. call'[c] = x /\ \A d \in Call \ {c} : call'[d] = call[d]
    BY <1>5 DEF TypeInv
  <2>2. \A d \in Call \ {c} : Good(call'[d], purse')
    BY <1>1, <1>2, <1>5, <2>1 DEF CallState
  <2> HIDE DEF Good
  <2> QED
    BY <1>5, <2>1, <2>2
\* Or they are disturbed.
<1>6. ASSUME NEW c \in Call, NEW x, x.pc \in {"record", "over"}, Disturb(c, x)
      PROVE  \A d \in Call : Good(call'[d], purse')
  <2>1. \A d \in Call \ {c} : call'[d].disturbed = TRUE
    BY <1>1, <1>6 DEF Disturb, CallState
  <2>2. call'[c] = x
    BY <1>6 DEF Disturb
  <2> QED
    BY <1>3, <1>6, <2>1, <2>2
<1>7. \/ /\ purse'.addr >= purse.addr
         /\ purse'.addr + purse'.coins >= purse.addr + purse.coins
      \/ purse' # purse
  BY <1>2
<1>8. ASSUME NEW c \in Call, NEW x, call' = [call EXCEPT ![c] = x], purse' = purse,
             x.pc \notin {"coins", "migrate", "retry"}
      PROVE  \A d \in Call : Good(call'[d], purse')
  <2>1. Good(x, purse')
    BY <1>8
  <2> HIDE DEF Good
  <2> QED
    BY <1>2, <1>5, <1>7, <1>8, <2>1
<1> HIDE DEF Good
<1>9. ASSUME NEW c \in Call, Return(c), purse' = purse
      PROVE  \A d \in Call : Good(call'[d], purse')
  BY <1>8, <1>9 DEF Return, Over, NewCall
<1>10. ASSUME NEW c \in Call, NEW v \in Verb, Gate(c, v)
       PROVE  \A d \in Call : Good(call'[d], purse')
  BY <1>8, <1>10 DEF Gate, Over, NewCall
<1>11. ASSUME NEW c \in Call, executeTx(c)
       PROVE  \A d \in Call : Good(call'[d], purse')
  <2> DEFINE x == [call[c] EXCEPT !.pc = "record", !.cost = call[c].usd]
             y == [call[c] EXCEPT !.pc = "record", !.cost = call[c].usd, !.moved = TRUE]
  <2>1. x.pc = "record" /\ y.pc = "record" /\ Over.pc = "over"
    BY <1>1 DEF CallState, Over, NewCall
  <2> HIDE DEF x, y
  <2>2. CASE call' = [call EXCEPT ![c].pc = "record", ![c].cost = call[c].usd] /\ purse' = purse
    <3>1. call' = [call EXCEPT ![c] = x]
      BY <1>1, <2>2 DEF x, TypeInv, CallState
    <3> QED
      BY <1>8, <2>1, <2>2, <3>1
  <2>3. CASE Disturb(c, y) \/ Disturb(c, Over)
    BY <1>6, <2>1, <2>3
  <2> QED
    BY <1>9, <1>11, <2>2, <2>3 DEF y, executeTx, Landed
<1>12. ASSUME NEW c \in Call, NEW a \in Answers, AskPrice(c, a)
       PROVE  \A d \in Call : Good(call'[d], purse')
  <2> DEFINE x == [call[c] EXCEPT !.pc = "total", !.cost = Requirements(a, "mainnet").price]
  <2>1. x.pc = "total"
    BY <1>1 DEF CallState
  <2>2. ASSUME payWithX402(a, "mainnet", call[c].verb.amount) = "sign"
        PROVE  call' = [call EXCEPT ![c] = x]
    BY <1>1, <1>12, <2>2 DEF AskPrice, TypeInv, CallState
  <2>3. purse' = purse
    BY <1>12 DEF AskPrice
  <2> QED
    BY <1>8, <1>9, <1>12, <2>1, <2>2, <2>3 DEF AskPrice
<1>13. ASSUME NEW c \in Call, ReadTotal(c)
       PROVE  \A d \in Call : Good(call'[d], purse')
  <2> DEFINE x == [call[c] EXCEPT !.pc = "coins", !.total = Held, !.disturbed = FALSE]
  <2>1. purse' = purse
    BY <1>13 DEF ReadTotal
  <2>2. CASE Held < call[c].cost
    BY <1>9, <1>13, <2>1, <2>2 DEF ReadTotal
  <2>3. CASE ~(Held < call[c].cost)
    <3>1. call' = [call EXCEPT ![c] = x]
      BY <1>1, <1>13, <2>3 DEF ReadTotal, TypeInv, CallState
    <3>2. Good(x, purse')
      BY <1>1, <1>2, <2>1 DEF Good, Held, CallState
    <3> HIDE DEF x
    <3> QED
      BY <1>2, <1>5, <1>7, <2>1, <3>1, <3>2
  <2> QED
    BY <2>2, <2>3
<1>14. ASSUME NEW c \in Call, ListCoins(c)
       PROVE  \A d \in Call : Good(call'[d], purse')
  <2> DEFINE shortfall == call[c].cost - (call[c].total - purse.coins)
             x == [call[c] EXCEPT !.pc = IF shortfall <= 0 THEN "retry" ELSE "migrate",
                                  !.due = shortfall, !.total = purse.coins]
  <2>1. purse' = purse /\ call[c].pc = "coins"
    BY <1>14 DEF ListCoins
  <2>2. call' = [call EXCEPT ![c] = x]
    BY <1>1, <1>14 DEF ListCoins, TypeInv, CallState
  <2>3. call[c].cost \in Nat /\ call[c].total \in Int /\ purse.coins \in Nat /\ purse.addr \in Nat
    BY <1>1, <1>2 DEF CallState
  <2>4. /\ x.disturbed = call[c].disturbed /\ x.cost = call[c].cost /\ x.due = shortfall
        /\ x.pc = (IF shortfall <= 0 THEN "retry" ELSE "migrate")
    BY <1>1 DEF CallState
  <2>5. ~call[c].disturbed => call[c].total <= purse.addr + purse.coins
    BY <1>1, <2>1 DEF Good
  <2>6. Good(x, purse)
    BY <2>3, <2>4, <2>5 DEF Good
  <2> HIDE DEF x
  <2> QED
    BY <1>2, <1>5, <1>7, <2>1, <2>2, <2>3, <2>6
<1>15. ASSUME NEW c \in Call, Migrate(c)
       PROVE  \A d \in Call : Good(call'[d], purse')
  <2> DEFINE x == [call[c] EXCEPT !.pc = "retry"]
  <2>1. /\ x.pc = "retry" /\ x.disturbed = call[c].disturbed /\ x.cost = call[c].cost
        /\ call[c].cost \in Nat /\ call[c].due \in Nat /\ call[c].pc = "migrate"
    BY <1>1, <1>15 DEF Migrate, CallState, GateInv
  <2>2. ASSUME Goto(c, "retry")
        PROVE  call' = [call EXCEPT ![c] = x]
    BY <1>1, <2>2 DEF Goto, TypeInv, CallState
  <2>3. CASE Return(c) /\ purse' = purse
    BY <1>9, <2>3
  <2>4. ASSUME NEW k \in call[c].due..purse.coins, Goto(c, "retry"),
               purse' = [addr |-> purse.addr + k, coins |-> purse.coins - k]
        PROVE  \A d \in Call : Good(call'[d], purse')
    <3>1. /\ purse'.addr = purse.addr + k /\ purse'.coins = purse.coins - k
          /\ k >= call[c].due /\ k <= purse.coins /\ k \in Nat
      BY <1>2, <2>1, <2>4
    <3>2. ~call[c].disturbed => call[c].cost - call[c].due <= purse.addr
      BY <1>1, <2>1 DEF Good
    <3>3. Good(x, purse')
      BY <1>2, <2>1, <3>1, <3>2 DEF Good
    <3>4. purse' \in [addr: Nat, coins: Nat]
      BY <1>2, <2>4, <3>1
    <3>5. purse'.addr >= purse.addr /\ purse'.addr + purse'.coins >= purse.addr + purse.coins
      BY <1>2, <3>1
    <3> QED
      BY <1>5, <1>7, <2>2, <2>4, <3>3, <3>4, <3>5
  <2>5. CASE call[c].disturbed /\ Goto(c, "retry") /\ purse' = purse
    <3>1. Good(x, purse')
      BY <2>1, <2>5 DEF Good
    <3>2. purse'.addr >= purse.addr /\ purse'.addr + purse'.coins >= purse.addr + purse.coins
      BY <1>2, <2>5
    <3> QED
      BY <1>2, <1>5, <1>7, <2>2, <2>5, <3>1, <3>2
  <2> QED
    BY <1>15, <2>3, <2>4, <2>5 DEF Migrate
<1>16. ASSUME NEW c \in Call, PayRetry(c)
       PROVE  \A d \in Call : Good(call'[d], purse')
  <2> DEFINE x == [call[c] EXCEPT !.pc = "record", !.moved = TRUE]
  <2>1. x.pc = "record" /\ Over.pc = "over"
    BY <1>1 DEF CallState, Over, NewCall
  <2>2. (Return(c) /\ purse' = purse) \/ Disturb(c, x) \/ Disturb(c, Over)
    BY <1>16 DEF PayRetry
  <2> HIDE DEF x
  <2> QED
    BY <1>6, <1>9, <2>1, <2>2
<1>17. ASSUME NEW c \in Call, record(c)
       PROVE  \A d \in Call : Good(call'[d], purse')
  BY <1>9, <1>17 DEF record
<1>18. CASE call' = call /\ purse' = purse
  BY <1>1, <1>18
<1>19. CASE Deposit
  <2>1. PICK f \in {"addr", "coins"} : purse' = [purse EXCEPT ![f] = @ + 1]
    BY <1>19 DEF Deposit
  <2>2. /\ purse' \in [addr: Nat, coins: Nat] /\ purse'.addr >= purse.addr
        /\ purse'.addr + purse'.coins >= purse.addr + purse.coins
    BY <1>2, <2>1
  <2> QED
    BY <1>1, <1>2, <1>19, <2>2 DEF Good, Deposit, CallState
<1> QED
  BY <1>10, <1>11, <1>12, <1>13, <1>14, <1>15, <1>16, <1>17, <1>18, <1>19
     DEF WalletNext, Truncate, Fill, LimitSet, LimitReset, Midnight

----------------------------------------------------------------------------
LEMMA InitInv ==
  ASSUME WalletInit
  PROVE  WalletInv
<1>1. /\ file \in OnDisk /\ purse \in [addr: Nat, coins: Nat] /\ day = 0 /\ day \in Date
      /\ file # Unreadable => file.date \in {None, 0}
  BY WalletAssumption DEF WalletInit, OnDisk
<1>2. /\ readLimitsFile(file) \in Sane
      /\ readLimitsFile(file).dailySpend.date \in {None, 0}
  BY <1>1, ReadIsSane DEF readLimitsFile, sanitize, NoSpend
<1>3. /\ dailySpentToday(file, 0) \in Nat
      /\ getLimits(file) \in LimitsConfig
  BY <1>2 DEF dailySpentToday, getLimits, Sane, LimitsFile, DailySpend
<1>4. (file # Unreadable /\ file.others) \in BOOLEAN
  BY <1>1 DEF OnDisk, Config
<1>5. TypeInv
  BY <1>1, <1>3, <1>4, FreshCall DEF WalletInit, TypeInv, Writes, Idle
<1>6. FileInv
  <2>1. io[Operator] = Idle
    BY WalletAssumption DEF WalletInit
  <2>2. InStep(readLimitsFile(file))
    BY <1>1, <1>2 DEF WalletInit, InStep, dailySpentToday, getLimits
  <2>3. hist.others = (file # Unreadable /\ file.others)
    BY DEF WalletInit
  <2>4. hist.others => file # Unreadable /\ file.others
    BY <2>3
  <2> QED
    BY <2>1, <2>2, <2>4 DEF FileInv, Idle
<1>7. GateInv /\ FundsInv
  BY DEF WalletInit, GateInv, FundsInv, NewCall
<1> QED
  BY <1>5, <1>6, <1>7 DEF WalletInv

LEMMA StepInv ==
  ASSUME Host = {Operator}, WalletInv, [WalletNext]_walletVars
  PROVE  WalletInv'
<1>1. CASE WalletNext
  BY <1>1, TypeStep, FileStep, GateStep, FundsStep DEF WalletInv
<1>2. CASE UNCHANGED walletVars
  BY <1>2
     DEF walletVars, WalletInv, TypeInv, FileInv, InStep, GateInv, FundsInv
<1> QED
  BY <1>1, <1>2

\* The inductive invariant behind the other three.
THEOREM WalletInductive ==
  ASSUME Host = {Operator}
  PROVE  WalletSpec => []WalletInv
BY InitInv, StepInv, PTL DEF WalletSpec

\* In one process no rewrite of config.json loses a record, a limit or a key
\* of another owner, however calls, limit changes and midnights interleave.
THEOREM NothingIsLost ==
  ASSUME Host = {Operator}
  PROVE  WalletSpec => []NoRewriteLosesAnything
<1>1. WalletInv => NoRewriteLosesAnything
  <2> SUFFICES ASSUME WalletInv, Settled
               PROVE  /\ dailySpentToday(file, day) = hist.counted
                      /\ getLimits(file) = hist.wanted
                      /\ hist.others => file.others
    BY DEF NoRewriteLosesAnything
  <2>1. io[Operator].at = "idle"
    BY WalletAssumption DEF Settled, Free
  <2> QED
    BY <2>1 DEF WalletInv, FileInv, InStep, dailySpentToday, getLimits
<1> QED
  BY <1>1, WalletInductive, PTL

\* What had been recorded when a call passed the gate, plus what it spends,
\* is within the caps of that moment.
THEOREM OnlyOverlapOvershoots ==
  ASSUME Host = {Operator}
  PROVE  WalletSpec => []OverlapIsTheOnlyOvershoot
<1>1. WalletInv => OverlapIsTheOnlyOvershoot
  <2> SUFFICES ASSUME WalletInv, NEW c \in Call, call[c].pc = "record",
                      ~call[c].verb.force, call[c].usd > 0
               PROVE  LET x == call[c]
                      IN  /\ x.cost <= x.usd
                          /\ Defined(x.limits.perTxUsd) => x.cost <= x.limits.perTxUsd
                          /\ Defined(x.limits.dailyUsd) => x.seen + x.cost <= x.limits.dailyUsd
    BY DEF OverlapIsTheOnlyOvershoot
  <2> DEFINE x == call[c]
  <2>1. /\ x.usd \in Nat /\ x.cost \in Nat /\ x.seen \in Nat
        /\ Defined(x.limits.perTxUsd) => x.limits.perTxUsd \in Int
        /\ Defined(x.limits.dailyUsd) => x.limits.dailyUsd \in Int
    BY SpendAssumption DEF WalletInv, TypeInv, CallState, LimitsConfig, Defined
  <2>2. x.cost <= x.usd /\ assertLimitConfig(x.limits, x.seen, x.usd, x.verb.force)
    BY DEF WalletInv, GateInv
  <2>3. /\ Defined(x.limits.perTxUsd) => x.usd <= x.limits.perTxUsd
        /\ Defined(x.limits.dailyUsd) => x.seen + x.usd <= x.limits.dailyUsd
    BY <2>1, <2>2 DEF assertLimitConfig
  <2> QED
    BY <2>1, <2>2, <2>3
<1> QED
  BY <1>1, WalletInductive, PTL

\* A payment nobody else's spending overtook is signed over a balance that
\* covers it, whatever is deposited between its two reads.
THEOREM PaymentIsFunded ==
  ASSUME Host = {Operator}
  PROVE  WalletSpec => []UndisturbedPaymentIsFunded
<1>1. WalletInv => UndisturbedPaymentIsFunded
  BY DEF WalletInv, FundsInv, TypeInv, CallState, UndisturbedPaymentIsFunded
<1> QED
  BY <1>1, WalletInductive, PTL

----------------------------------------------------------------------------
\* The probe, the payment and the estimate read the same answer: what they
\* must agree on, for every answer, network and ceiling.

\* What the payment's pick can be.
LEMMA PickKind ==
  ASSUME NEW answer, NEW network
  PROVE  LET pick == pickSuiExactRequirements(answer, network)
         IN  /\ pick.kind \in {"none", "incomplete", "payable"}
             /\ pick.kind = "payable" =>
                  \/ hasCompleteSuimppChallenge(pick.requirements)
                  \/ isX402EscrowRequirements(pick.requirements)
BY DEF pickSuiExactRequirements

\* "Every branch mirrors a payWithX402 outcome so the probe can never promise
\* something the pay path then refuses": whatever the probe calls unpayable the
\* payment ends the same way, and what it calls payable is signed unless it pays
\* the payer's own wallet or asks more than the ceiling.
THEOREM ProbeMirrorsPay ==
  ASSUME NEW answer, NEW network, NEW maxPrice
  PROVE  LET probe == probeX402(answer, network)
             e     == Requirements(answer, network)
             pay   == payWithX402(answer, network, maxPrice)
         IN  /\ probe # "payable" => pay = probe
             /\ probe = "payable" =>
                  ((pay = "sign") <=> (assertNotSelfPayment(e) /\ assertWithinMaxPrice(e, maxPrice)))
BY PickKind DEF probeX402, payWithX402, Requirements, UnpayableKind

\* An endpoint that the payment would sign for is one the estimate exits 0 on.
THEOREM EstimateMissesNothing ==
  ASSUME NEW answer \in Answer, NEW network, NEW maxPrice,
         payWithX402(answer, network, maxPrice) = "sign"
  PROVE  runEstimate(answer).exit = 0
<1> DEFINE wanted == {i \in DOMAIN answer.accepts :
                        /\ answer.accepts[i].scheme = "exact"
                        /\ answer.accepts[i].network = ForNetwork(network)}
<1>1. answer.status = 402 /\ pickSuiExactRequirements(answer, network).kind = "payable"
  BY DEF payWithX402, UnpayableKind
<1>2. wanted # {}
  BY <1>1 DEF pickSuiExactRequirements
<1>3. PICK i \in DOMAIN answer.accepts :
        /\ answer.accepts[i].scheme = "exact"
        /\ answer.accepts[i].network = ForNetwork(network)
  BY <1>2
<1>4. answer.accepts[i].network \in {"sui:mainnet", "sui:testnet"}
  BY <1>3 DEF ForNetwork
<1> QED
  BY <1>1, <1>3, <1>4 DEF runEstimate
=============================================================================
