---------------------------- MODULE EscrowProofs ----------------------------
(***************************************************************************)
(* What holds of the escrow for every package limit, every set of          *)
(* accounts and Jobs and every amount.  The inductive invariant carries,   *)
(* beside the type and the money, the bounds `create` and                  *)
(* `new_claimed_job` assert on the terms: they are what makes the          *)
(* settlement arithmetic total and the timeouts reachable.                 *)
(***************************************************************************)
EXTENDS Escrow, TLAPS

\* Division by the basis-point denominator rounds down.
LEMMA DivRoundsDown ==
  ASSUME NEW n \in Nat, NEW d \in Nat \ {0}
  PROVE  n \div d \in Nat /\ d * (n \div d) <= n
OBVIOUS

\* A product is monotone in its second factor.
LEMMA TimesMonotone ==
  ASSUME NEW a \in Nat, NEW b \in Nat, NEW d \in Nat, b <= d
  PROVE  a * b \in Nat /\ a * b <= a * d
OBVIOUS

\* A positive common factor can be dropped from an inequality.
LEMMA TimesCancel ==
  ASSUME NEW a \in Nat, NEW q \in Nat, NEW d \in Nat \ {0}, d * q <= a * d
  PROVE  q <= a
OBVIOUS

\* mul_bps takes a part of the amount, and never rounds it up.
LEMMA MulBps ==
  ASSUME NEW amount \in Nat, NEW bps \in 0..BPS_DENOMINATOR
  PROVE  /\ mul_bps(amount, bps) \in 0..amount
         /\ mul_bps(amount, bps) * BPS_DENOMINATOR <= amount * bps
<1> DEFINE q == (amount * bps) \div BPS_DENOMINATOR
<1>1. BPS_DENOMINATOR \in Nat \ {0} /\ bps \in Nat /\ bps <= BPS_DENOMINATOR
  BY BpsAssumption
<1>2. amount * bps \in Nat /\ amount * bps <= amount * BPS_DENOMINATOR
  BY <1>1, TimesMonotone
<1>3. q \in Nat /\ BPS_DENOMINATOR * q <= amount * bps
  BY <1>1, <1>2, DivRoundsDown
<1> HIDE DEF q
<1>4. BPS_DENOMINATOR * q \in Nat /\ amount * BPS_DENOMINATOR \in Nat
  BY <1>1, <1>3
<1>5. BPS_DENOMINATOR * q <= amount * BPS_DENOMINATOR
  BY <1>2, <1>3, <1>4
<1>6. q <= amount
  BY <1>1, <1>3, <1>5, TimesCancel
<1>7. q * BPS_DENOMINATOR = BPS_DENOMINATOR * q
  BY <1>1, <1>3
<1>8. mul_bps(amount, bps) = q
  BY DEF mul_bps, q
<1> QED
  BY <1>3, <1>6, <1>7, <1>8

\* The fee bound of FeeWithinTerms, of one Job.
FeeLegal(amount, shares, fee_bps) ==
  shares.fee * BPS_DENOMINATOR <= (amount - shares.buyer) * fee_bps

\* A release pays out exactly the escrow.
LEMMA ReleaseShares ==
  ASSUME NEW total \in Nat, NEW fee_bps \in 0..BPS_DENOMINATOR
  PROVE  LET s == release_shares(total, fee_bps) IN
         s \in Shares /\ PaidTotal(s) = total /\ FeeLegal(total, s, fee_bps)
<1> DEFINE fee == mul_bps(total, fee_bps)
<1>1. fee \in 0..total /\ fee * BPS_DENOMINATOR <= total * fee_bps
  BY MulBps
<1> HIDE DEF fee
<1>2. release_shares(total, fee_bps) = [buyer |-> 0, seller |-> total - fee, fee |-> fee]
  BY DEF release_shares, fee
<1> QED
  BY <1>1, <1>2 DEF Shares, PaidTotal, FeeLegal

\* A reject pays out exactly the escrow.
LEMMA RejectShares ==
  ASSUME NEW total \in Nat, NEW split_bps \in 0..BPS_DENOMINATOR,
         NEW fee_bps \in 0..BPS_DENOMINATOR
  PROVE  LET s == reject_shares(total, split_bps, fee_bps) IN
         s \in Shares /\ PaidTotal(s) = total /\ FeeLegal(total, s, fee_bps)
<1> DEFINE to_buyer == mul_bps(total, split_bps)
           fee      == mul_bps(total - to_buyer, fee_bps)
<1>1. to_buyer \in 0..total
  BY MulBps
<1> HIDE DEF to_buyer
<1>2. total - to_buyer \in Nat
  BY <1>1
<1>3. fee \in 0..(total - to_buyer) /\ fee * BPS_DENOMINATOR <= (total - to_buyer) * fee_bps
  BY <1>2, MulBps
<1> HIDE DEF fee
<1>4. reject_shares(total, split_bps, fee_bps)
        = [buyer |-> to_buyer, seller |-> total - to_buyer - fee, fee |-> fee]
  BY DEF reject_shares, to_buyer, fee
<1> QED
  BY <1>1, <1>3, <1>4 DEF Shares, PaidTotal, FeeLegal

\* A decline or a deadline refund returns exactly the escrow.
LEMMA RefundShares ==
  ASSUME NEW total \in Nat, NEW fee_bps \in 0..BPS_DENOMINATOR
  PROVE  LET s == refund_shares(total) IN
         /\ s \in Shares /\ PaidTotal(s) = total /\ FeeLegal(total, s, fee_bps)
         /\ s.buyer = total
BY BpsAssumption DEF refund_shares, Shares, PaidTotal, FeeLegal
-----------------------------------------------------------------------------
(***************************************************************************)
(* The inductive invariant.                                                *)
(***************************************************************************)

\* What the asserts of `create` and `new_claimed_job` leave true of the terms.
TermsLegal(job) ==
  /\ job.fee_bps <= BPS_DENOMINATOR
  /\ job.reject_split_bps <= BPS_DENOMINATOR
  /\ job.deliver_by_ms <= MaxNow + MAX_DELIVER_HORIZON_MS
  /\ job.review_window_ms <= MAX_REVIEW_WINDOW_MS
  /\ job.delivered_at_ms <= MaxNow

\* A failed Job costs its buyer nothing.
RefundedWhole(job) == job.state = REFUNDED => job.paid.buyer = job.amount

JobInv(job) ==
  /\ job \in Job
  /\ TermsLegal(job)
  /\ JobBacked(job)
  /\ FeeLegal(job.amount, job.paid, job.fee_bps)
  /\ RefundedWhole(job)

JobsInv ==
  /\ DOMAIN jobs \subseteq JobId
  /\ jobs \in [DOMAIN jobs -> Job]
  /\ \A j \in DOMAIN jobs : JobInv(jobs[j])

ConfigInv == cfg \in Config /\ RailsHold(cfg)

IInv == now \in 1..MaxNow /\ ConfigInv /\ JobsInv

\* Replacing one Job by another good one keeps the Jobs good.
LEMMA OneJobChanges ==
  ASSUME JobsInv, NEW j \in DOMAIN jobs, NEW job, JobInv(job),
         jobs' = [jobs EXCEPT ![j] = job]
  PROVE  JobsInv'
BY DEF JobsInv, JobInv, TermsLegal, JobBacked, FeeLegal, RefundedWhole

\* A fresh good Job keeps the Jobs good.
LEMMA OneJobMore ==
  ASSUME JobsInv, NEW j \in JobId, NEW job, JobInv(job), share(j, job)
  PROVE  JobsInv'
BY DEF JobsInv, JobInv, TermsLegal, JobBacked, FeeLegal, RefundedWhole, share

\* The terms that `create` and `create_claimed` accept make a good Job.
LEMMA NewJobInv ==
  ASSUME IInv, NEW buyer \in Account, NEW seller \in Account, NEW amount \in Nat,
         amount > 0, NEW fee_bps \in Nat, fee_bps <= BPS_DENOMINATOR,
         NEW deliver_by \in Nat, NEW window \in Nat, NEW split \in Nat,
         TermsInRange(deliver_by, window, split), NEW claimed \in BOOLEAN,
         NEW origin \in BatchId \cup {NoBatch}
  PROVE  JobInv(NewJob(buyer, seller, amount, fee_bps, deliver_by, window, split,
                       claimed, origin))
<1> DEFINE job == NewJob(buyer, seller, amount, fee_bps, deliver_by, window, split,
                         claimed, origin)
<1>1. job \in Job
  BY DEF job, NewJob, Job, JobState, Event, Mark, NothingPaid, Shares,
         FUNDED, DELIVERED, RELEASED, REFUNDED, REJECTED
<1>2. TermsLegal(job)
  BY EscrowAssumption DEF job, NewJob, TermsLegal, TermsInRange, IInv
<1>3. JobBacked(job)
  BY DEF job, NewJob, JobBacked, Live, FUNDED, DELIVERED
<1>4. RefundedWhole(job)
  BY DEF job, NewJob, RefundedWhole, FUNDED, REFUNDED
<1>5. FeeLegal(job.amount, job.paid, job.fee_bps)
  <2>1. amount * fee_bps \in Nat
    BY TimesMonotone
  <2> QED
    BY <2>1, BpsAssumption DEF job, NewJob, FeeLegal, NothingPaid
<1> QED
  BY <1>1, <1>2, <1>3, <1>4, <1>5 DEF JobInv

\* Stamping markers on a good Job leaves it good.
LEMMA MarkedInv ==
  ASSUME NEW job, JobInv(job), NEW marks \in SUBSET Mark
  PROVE  JobInv([job EXCEPT !.marks = @ \cup marks])
<1> DEFINE after == [job EXCEPT !.marks = @ \cup marks]
<1>1. after \in Job
  BY DEF JobInv, Job
<1>2. \A f \in {"state", "escrow", "amount", "paid", "settled_by", "fee_bps",
                "reject_split_bps", "deliver_by_ms", "review_window_ms",
                "delivered_at_ms"} : after[f] = job[f]
  BY DEF JobInv, Job
<1> HIDE DEF after
<1>3. /\ TermsLegal(after) /\ JobBacked(after) /\ RefundedWhole(after)
      /\ FeeLegal(after.amount, after.paid, after.fee_bps)
  BY <1>2 DEF JobInv, TermsLegal, JobBacked, RefundedWhole
<1> QED
  BY <1>1, <1>3 DEF JobInv, after

\* A live Job settled by shares that add up to its escrow is a good Job.
LEMMA SettledInv ==
  ASSUME NEW job, JobInv(job), job.state \in Live,
         NEW state \in JobState \ Live, NEW event \in Event \ {"none"},
         NEW shares \in Shares, PaidTotal(shares) = job.escrow,
         FeeLegal(job.escrow, shares, job.fee_bps),
         state = REFUNDED => shares.buyer = job.escrow
  PROVE  JobInv(Settled(job, state, shares, event))
<1> DEFINE after == Settled(job, state, shares, event)
<1>1. job \in Job /\ job.escrow = job.amount
  BY DEF JobInv, JobBacked
<1>2. after = [job EXCEPT !.state = state, !.escrow = 0, !.paid = shares,
                          !.settled_by = event]
  <2>1. job.escrow - PaidTotal(shares) = 0
    BY <1>1 DEF Job
  <2> QED
    BY <2>1 DEF Settled
<1> HIDE DEF after
<1>3. after \in Job
  BY <1>1, <1>2 DEF Job
<1>4. TermsLegal(after)
  BY <1>1, <1>2 DEF JobInv, TermsLegal, Job
<1>5. JobBacked(after)
  BY <1>1, <1>2 DEF JobInv, JobBacked, Job, Live
<1>6. FeeLegal(after.amount, after.paid, after.fee_bps)
  BY <1>1, <1>2 DEF Job
<1>7. RefundedWhole(after)
  BY <1>1, <1>2 DEF Job, RefundedWhole
<1> QED
  BY <1>3, <1>4, <1>5, <1>6, <1>7 DEF JobInv, after

\* The step of every settlement: the shares settle the Job, the door stamps it.
LEMMA SettleStep ==
  ASSUME JobsInv, NEW j \in DOMAIN jobs, jobs[j].state \in Live,
         NEW state \in JobState \ Live, NEW event \in Event \ {"none"},
         NEW shares \in Shares, PaidTotal(shares) = jobs[j].escrow,
         FeeLegal(jobs[j].escrow, shares, jobs[j].fee_bps),
         state = REFUNDED => shares.buyer = jobs[j].escrow,
         NEW marks \in SUBSET Mark,
         Stamp(j, Settled(jobs[j], state, shares, event), marks)
  PROVE  JobsInv'
<1> DEFINE settled == Settled(jobs[j], state, shares, event)
           after   == [settled EXCEPT !.marks = @ \cup marks]
<1>1. JobInv(jobs[j])
  BY DEF JobsInv
<1>2. JobInv(settled)
  BY <1>1, SettledInv
<1> HIDE DEF settled
<1>3. JobInv(after)
  BY <1>2, MarkedInv
<1>4. jobs' = [jobs EXCEPT ![j] = after]
  BY DEF Stamp, settled
<1> HIDE DEF after
<1> QED
  BY <1>3, <1>4, OneJobChanges
-----------------------------------------------------------------------------
\* What callers try is a natural number.
LEMMA InputsAreNat ==
  /\ Amount \subseteq Nat /\ Duration \subseteq Nat /\ Split \subseteq Nat
  /\ FeeBps \subseteq Nat /\ AmountBound \subseteq Nat /\ TierCap \subseteq Nat
  /\ Floor \subseteq Nat /\ SlotMax \subseteq Nat /\ NextVersion \subseteq Nat
BY EscrowAssumption

LEMMA InitInv == EscrowInit => IInv
<1> SUFFICES ASSUME EscrowInit PROVE IInv
  OBVIOUS
<1>1. now \in 1..MaxNow
  BY EscrowAssumption DEF EscrowInit
<1>2. ConfigInv
  BY EscrowAssumption DEF EscrowInit, ConfigInv
<1>3. JobsInv
  BY DEF EscrowInit, JobsInv
<1> QED
  BY <1>1, <1>2, <1>3 DEF IInv

\* No setter, cutover or board record leaves the rails.
LEMMA AdminStep ==
  ASSUME IInv, Admin \/ RecordBoard
  PROVE  ConfigInv'
<1> USE InputsAreNat, EscrowAssumption DEF IInv, ConfigInv, Config, RailsHold
<1>1. ASSUME NEW bps \in FeeBps, set_fee_bps(bps) PROVE ConfigInv'
  BY <1>1 DEF set_fee_bps, SetCfg
<1>2. ASSUME NEW a \in Receiver, set_fee_receiver(a) PROVE ConfigInv'
  BY <1>2 DEF set_fee_receiver, SetCfg
<1>3. ASSUME NEW n \in AmountBound, set_min_job_amount(n) PROVE ConfigInv'
  BY <1>3 DEF set_min_job_amount, SetCfg
<1>4. ASSUME NEW n \in AmountBound, set_max_job_amount(n) PROVE ConfigInv'
  BY <1>4 DEF set_max_job_amount, SetCfg
<1>5. ASSUME NEW l \in Level, NEW cap \in TierCap, set_tier_active_cap(l, cap)
      PROVE  ConfigInv'
  <2>1. [cfg.tier_active_cap EXCEPT ![l] = cap] \in [Level -> Nat \ {0}]
    BY <1>5 DEF set_tier_active_cap
  <2> QED
    BY <1>5, <2>1 DEF set_tier_active_cap, SetCfg
<1>6. ASSUME NEW n \in Floor, set_no_delivery_regression_floor(n) PROVE ConfigInv'
  <2>1. n \in Nat \ {0}
    BY <1>6 DEF set_no_delivery_regression_floor
  <2>2. cfg' = [cfg EXCEPT !["no_delivery_floor"] = n]
    BY <1>6 DEF set_no_delivery_regression_floor, SetCfg
  <2> QED
    BY <2>1, <2>2
<1>7. ASSUME NEW n \in SlotMax, set_max_batch_slots(n) PROVE ConfigInv'
  BY <1>7 DEF set_max_batch_slots, SetCfg
<1>8. CASE migrate
  BY <1>8 DEF migrate
<1>9. ASSUME NEW v \in NextVersion, migrate_successor(v) PROVE ConfigInv'
  BY <1>9 DEF migrate_successor
<1>10. CASE RecordBoard
  BY <1>10 DEF RecordBoard, record_score_board_pkg
<1> QED
  BY <1>1, <1>2, <1>3, <1>4, <1>5, <1>6, <1>7, <1>8, <1>9, <1>10 DEF Admin

\* Every mint puts a good Job beside the others.
LEMMA MintStep ==
  ASSUME IInv, Hire \/ Mint
  PROVE  JobsInv' /\ UNCHANGED <<now, cfg>>
<1> USE InputsAreNat
<1>1. now \in Nat /\ cfg.fee_bps \in Nat /\ cfg.fee_bps <= BPS_DENOMINATOR
  BY EscrowAssumption, BpsAssumption DEF IInv, ConfigInv, Config, RailsHold
<1>2. ASSUME NEW buyer \in Account, NEW seller \in Account, NEW j \in JobId,
             NEW amount \in Amount, NEW d \in Duration, NEW w \in Duration,
             NEW s \in Split, create(buyer, seller, j, amount, now + d, w, s)
      PROVE  JobsInv' /\ UNCHANGED <<now, cfg>>
  <2> DEFINE job == NewJob(buyer, seller, amount, cfg.fee_bps, now + d, w, s,
                           FALSE, NoBatch)
  <2>1. JobInv(job)
    <3>1. amount > 0 /\ TermsInRange(now + d, w, s)
      BY <1>2 DEF create
    <3>2. amount \in Nat /\ now + d \in Nat /\ w \in Nat /\ s \in Nat
      BY <1>1
    <3> QED
      BY <1>1, <3>1, <3>2, NewJobInv
  <2>2. share(j, job) /\ UNCHANGED <<now, cfg>>
    BY <1>2 DEF create
  <2> HIDE DEF job
  <2> QED
    BY <2>1, <2>2, OneJobMore DEF IInv
<1>3. ASSUME NEW buyer \in Account, NEW seller \in Account, NEW j \in JobId,
             NEW amount \in Amount, NEW f \in FeeBps, NEW d \in Duration,
             NEW w \in Duration, NEW s \in Split, NEW b \in BatchId \cup {NoBatch},
             create_claimed(buyer, seller, j, amount, f, now + d, w, s, b)
      PROVE  JobsInv' /\ UNCHANGED <<now, cfg>>
  <2> DEFINE job == NewJob(buyer, seller, amount, f, now + d, w, s, TRUE, b)
  <2>0. f \in Nat /\ f <= BPS_DENOMINATOR
    BY <1>3, EscrowAssumption, BpsAssumption DEF create_claimed
  <2>1. JobInv(job)
    <3>1. amount > 0 /\ TermsInRange(now + d, w, s)
      BY <1>3 DEF create_claimed
    <3>2. amount \in Nat /\ now + d \in Nat /\ w \in Nat /\ s \in Nat
      BY <1>1
    <3> QED
      BY <2>0, <3>1, <3>2, NewJobInv
  <2>2. share(j, job) /\ UNCHANGED <<now, cfg>>
    BY <1>3 DEF create_claimed
  <2> HIDE DEF job
  <2> QED
    BY <2>1, <2>2, OneJobMore DEF IInv
<1> QED
  BY <1>2, <1>3 DEF Hire, Mint

\* Delivery and the four settlements leave every Job good.
LEMMA SettleKeeps ==
  ASSUME IInv, Settle
  PROVE  JobsInv' /\ UNCHANGED <<now, cfg>>
<1>1. PICK j \in DOMAIN jobs, marks \in SUBSET Mark :
        \/ \E sender \in Account : \/ deliver(sender, j, marks)
                                   \/ release_settle_pkg(sender, j, marks)
                                   \/ reject_settle_pkg(sender, j, marks)
                                   \/ decline_settle_pkg(sender, j, marks)
        \/ refund_settle_pkg(j, marks)
  BY DEF Settle
<1> DEFINE job == jobs[j]
<1>2. JobInv(job) /\ JobsInv
  BY DEF IInv, JobsInv
<1>3. job.escrow \in Nat /\ job.fee_bps \in 0..BPS_DENOMINATOR
      /\ job.reject_split_bps \in 0..BPS_DENOMINATOR
  BY <1>2, BpsAssumption DEF JobInv, TermsLegal, Job
<1>4. {RELEASED, REFUNDED, REJECTED} \subseteq JobState \ Live
  BY DEF JobState, Live, FUNDED, DELIVERED, RELEASED, REFUNDED, REJECTED
<1>5. {"JobReleased", "JobRejected", "JobDeclined", "JobRefunded"} \subseteq Event \ {"none"}
  BY DEF Event
<1> HIDE DEF job
<1>6. ASSUME NEW sender \in Account, deliver(sender, j, marks)
      PROVE  JobsInv' /\ UNCHANGED <<now, cfg>>
  <2> DEFINE delivered == [job EXCEPT !.delivered_at_ms = now, !.state = DELIVERED]
             after     == [delivered EXCEPT !.marks = @ \cup marks]
  <2>1. job.state = FUNDED
    BY <1>6 DEF deliver, can_deliver, job
  <2>2. delivered \in Job
    <3>1. job \in Job
      BY <1>2 DEF JobInv
    <3>2. now \in Nat /\ DELIVERED \in JobState
      BY DEF IInv, JobState
    <3> QED
      BY <3>1, <3>2 DEF Job
  <2>3. TermsLegal(delivered)
    BY <1>2 DEF JobInv, TermsLegal, Job, IInv
  <2>4. JobBacked(delivered)
    BY <1>2, <2>1 DEF JobInv, JobBacked, Job, Live
  <2>5. FeeLegal(delivered.amount, delivered.paid, delivered.fee_bps)
    BY <1>2 DEF JobInv, Job
  <2>6. JobInv(delivered)
    BY <1>2, <2>2, <2>3, <2>4, <2>5 DEF JobInv, Job, RefundedWhole, DELIVERED, REFUNDED
  <2>7. jobs' = [jobs EXCEPT ![j] = after] /\ UNCHANGED <<now, cfg>>
    BY <1>6 DEF deliver, Stamp, job
  <2> HIDE DEF delivered
  <2>8. JobInv(after)
    BY <2>6, MarkedInv
  <2> HIDE DEF after
  <2> QED
    BY <1>2, <2>7, <2>8, OneJobChanges
<1>7. ASSUME NEW sender \in Account, release_settle_pkg(sender, j, marks)
      PROVE  JobsInv' /\ UNCHANGED <<now, cfg>>
  <2>1. job.state \in Live
    BY <1>7 DEF release_settle_pkg, can_release, Live, job
  <2> QED
    BY <1>2, <1>3, <1>4, <1>5, <1>7, <2>1, ReleaseShares, SettleStep
    DEF release_settle_pkg, job, RELEASED, REFUNDED
<1>8. ASSUME NEW sender \in Account, reject_settle_pkg(sender, j, marks)
      PROVE  JobsInv' /\ UNCHANGED <<now, cfg>>
  <2>1. job.state \in Live
    BY <1>8 DEF reject_settle_pkg, can_reject, Live, job
  <2> QED
    BY <1>2, <1>3, <1>4, <1>5, <1>8, <2>1, RejectShares, SettleStep
    DEF reject_settle_pkg, job, REJECTED, REFUNDED
<1>9. ASSUME NEW sender \in Account, decline_settle_pkg(sender, j, marks)
      PROVE  JobsInv' /\ UNCHANGED <<now, cfg>>
  <2>1. job.state \in Live
    BY <1>9 DEF decline_settle_pkg, can_decline, Live, job
  <2> QED
    BY <1>2, <1>3, <1>4, <1>5, <1>9, <2>1, RefundShares, SettleStep
    DEF decline_settle_pkg, job
<1>10. ASSUME refund_settle_pkg(j, marks)
       PROVE  JobsInv' /\ UNCHANGED <<now, cfg>>
  <2>1. job.state \in Live
    BY <1>10 DEF refund_settle_pkg, can_refund, Live, job
  <2> QED
    BY <1>2, <1>3, <1>4, <1>5, <1>10, <2>1, RefundShares, SettleStep
    DEF refund_settle_pkg, job
<1> QED
  BY <1>1, <1>6, <1>7, <1>8, <1>9, <1>10

\* Where no Job and no bound changed, the Jobs are as good as before.
LEMMA JobsUntouched ==
  ASSUME JobsInv, UNCHANGED jobs
  PROVE  JobsInv'
BY DEF JobsInv, JobInv, TermsLegal, JobBacked, FeeLegal, RefundedWhole

LEMMA NextInv == IInv /\ [EscrowNext]_escrowVars => IInv'
<1> SUFFICES ASSUME IInv, [EscrowNext]_escrowVars PROVE IInv'
  OBVIOUS
<1>1. CASE Tick
  BY <1>1, JobsUntouched, EscrowAssumption DEF Tick, IInv, ConfigInv
<1>2. CASE Admin \/ RecordBoard
  <2>1. UNCHANGED <<now, jobs>>
    BY <1>2 DEF Admin, SetCfg, set_fee_bps, set_fee_receiver, set_min_job_amount,
       set_max_job_amount, set_tier_active_cap, set_no_delivery_regression_floor,
       set_max_batch_slots, migrate, migrate_successor, RecordBoard, record_score_board_pkg
  <2> QED
    BY <1>2, <2>1, AdminStep, JobsUntouched DEF IInv
<1>3. CASE Hire \/ Mint
  BY <1>3, MintStep DEF IInv, ConfigInv
<1>4. CASE Settle
  BY <1>4, SettleKeeps DEF IInv, ConfigInv
<1>5. CASE UNCHANGED escrowVars
  BY <1>5, JobsUntouched DEF escrowVars, IInv, ConfigInv
<1> QED
  BY <1>1, <1>2, <1>3, <1>4, <1>5 DEF EscrowNext

\* The inductive invariant holds in every reachable state.
THEOREM Inductive == EscrowSpec => []IInv
BY InitInv, NextInv, PTL DEF EscrowSpec

\* Type correctness.
THEOREM TypeCorrect == EscrowSpec => []EscrowTypeOK
<1>1. IInv => EscrowTypeOK
  BY DEF IInv, ConfigInv, JobsInv, EscrowTypeOK
<1> QED
  BY <1>1, Inductive, PTL

\* No coin is lost, created or left behind in a Job, whatever the fee, the
\* split and the rounding.
THEOREM MoneyIsBacked == EscrowSpec => []EscrowBacked
<1>1. IInv => EscrowBacked
  BY DEF IInv, JobsInv, JobInv, EscrowBacked
<1> QED
  BY <1>1, Inductive, PTL

\* The protocol's cut is bounded by the snapshotted basis points, and a failed
\* Job costs its buyer nothing.
THEOREM FeeIsWithinTerms == EscrowSpec => []FeeWithinTerms
<1>1. IInv => FeeWithinTerms
  BY DEF IInv, JobsInv, JobInv, FeeLegal, RefundedWhole, FeeWithinTerms
<1> QED
  BY <1>1, Inductive, PTL

\* Both timeouts of every Job can be reached by a u64 clock, so the
\* permissionless cranks can always be called in the end.
THEOREM TimeoutsAreReachable == EscrowSpec => []TimeoutsReachable
<1>1. IInv => TimeoutsReachable
  <2> SUFFICES ASSUME IInv, NEW j \in DOMAIN jobs
               PROVE  /\ jobs[j].deliver_by_ms + jobs[j].review_window_ms < U64_MAX
                      /\ window_end(jobs[j]) < U64_MAX
    BY DEF TimeoutsReachable
  <2>1. jobs[j] \in Job /\ TermsLegal(jobs[j])
    BY DEF IInv, JobsInv, JobInv
  <2> QED
    BY <2>1, EscrowAssumption, ClockAssumption DEF Job, TermsLegal, window_end
<1> QED
  BY <1>1, Inductive, PTL

\* The configuration never leaves the package's rails.
THEOREM ConfigStaysLegal == EscrowSpec => []ConfigWithinRails
<1>1. IInv => ConfigWithinRails
  BY DEF IInv, ConfigInv, ConfigWithinRails
<1> QED
  BY <1>1, Inductive, PTL
-----------------------------------------------------------------------------
(***************************************************************************)
(* What a step may never do.                                               *)
(***************************************************************************)

SameTerms(old, new) == \A term \in Term : new[term] = old[term]

\* A delivery or settlement touches one live Job and none of its terms.
LEMMA SettleMovesNoTerm ==
  ASSUME IInv, Settle
  PROVE  \E j \in DOMAIN jobs, job \in Job :
           /\ jobs[j].state \in Live
           /\ SameTerms(jobs[j], job)
           /\ jobs' = [jobs EXCEPT ![j] = job]
<1>0. JobsInv
  BY DEF IInv
<1> DEFINE Moved(j, marks, middle) ==
             jobs' = [jobs EXCEPT ![j] = [middle EXCEPT !.marks = @ \cup marks]]
<1>1. ASSUME NEW j \in DOMAIN jobs, NEW marks \in SUBSET Mark, NEW middle \in Job,
             jobs[j].state \in Live, SameTerms(jobs[j], middle), Moved(j, marks, middle)
      PROVE  \E job \in Job : /\ SameTerms(jobs[j], job)
                              /\ jobs' = [jobs EXCEPT ![j] = job]
  <2> DEFINE after == [middle EXCEPT !.marks = @ \cup marks]
  <2>1. after \in Job
    BY DEF Job
  <2>2. SameTerms(middle, after)
    BY DEF Job, SameTerms, Term
  <2>3. jobs' = [jobs EXCEPT ![j] = after]
    BY <1>1
  <2> HIDE DEF after
  <2> QED
    BY <1>1, <2>1, <2>2, <2>3 DEF SameTerms
<1>2. ASSUME NEW j \in DOMAIN jobs, NEW state \in JobState, NEW shares \in Shares,
             PaidTotal(shares) = jobs[j].escrow, NEW event \in Event
      PROVE  LET middle == Settled(jobs[j], state, shares, event)
             IN  middle \in Job /\ SameTerms(jobs[j], middle)
  <2> DEFINE middle == [jobs[j] EXCEPT !.state = state, !.escrow = 0, !.paid = shares,
                                       !.settled_by = event]
  <2>1. jobs[j] \in Job
    BY <1>0 DEF JobsInv
  <2>2. jobs[j].escrow - PaidTotal(shares) = 0
    BY <1>2, <2>1 DEF Job
  <2>3. Settled(jobs[j], state, shares, event) = middle
    BY <2>2 DEF Settled
  <2>4. middle \in Job /\ SameTerms(jobs[j], middle)
    BY <2>1 DEF Job, SameTerms, Term
  <2> HIDE DEF middle
  <2> QED
    BY <2>3, <2>4
<1> HIDE DEF Moved
<1>3. PICK j \in DOMAIN jobs, marks \in SUBSET Mark :
        \/ \E sender \in Account : \/ deliver(sender, j, marks)
                                   \/ release_settle_pkg(sender, j, marks)
                                   \/ reject_settle_pkg(sender, j, marks)
                                   \/ decline_settle_pkg(sender, j, marks)
        \/ refund_settle_pkg(j, marks)
  BY DEF Settle
<1>4. /\ jobs[j] \in Job /\ jobs[j].escrow \in Nat
      /\ jobs[j].fee_bps \in 0..BPS_DENOMINATOR
      /\ jobs[j].reject_split_bps \in 0..BPS_DENOMINATOR
  BY <1>0, BpsAssumption DEF JobsInv, JobInv, TermsLegal, Job
<1>5. /\ {RELEASED, REFUNDED, REJECTED, DELIVERED} \subseteq JobState
      /\ {"JobReleased", "JobRejected", "JobDeclined", "JobRefunded"} \subseteq Event
  BY DEF JobState, Event
<1> DEFINE Touched == \E middle \in Job : /\ jobs[j].state \in Live
                                         /\ SameTerms(jobs[j], middle)
                                         /\ Moved(j, marks, middle)
<1>6. ASSUME NEW sender \in Account, deliver(sender, j, marks) PROVE Touched
  <2> DEFINE middle == [jobs[j] EXCEPT !.delivered_at_ms = now, !.state = DELIVERED]
  <2>1. jobs[j].state \in Live /\ Moved(j, marks, middle)
    BY <1>6 DEF deliver, can_deliver, Live, Stamp, Moved
  <2>2. middle \in Job /\ SameTerms(jobs[j], middle)
    <3>1. now \in Nat
      BY DEF IInv
    <3> QED
      BY <1>4, <1>5, <3>1 DEF Job, SameTerms, Term
  <2> HIDE DEF middle
  <2> QED
    BY <2>1, <2>2
<1>7. ASSUME NEW sender \in Account, release_settle_pkg(sender, j, marks) PROVE Touched
  <2> DEFINE middle == Settled(jobs[j], RELEASED,
                               release_shares(jobs[j].escrow, jobs[j].fee_bps), "JobReleased")
  <2>1. jobs[j].state \in Live /\ Moved(j, marks, middle)
    BY <1>7 DEF release_settle_pkg, can_release, Live, Stamp, Moved
  <2>2. middle \in Job /\ SameTerms(jobs[j], middle)
    BY <1>2, <1>4, <1>5, ReleaseShares
  <2> HIDE DEF middle
  <2> QED
    BY <2>1, <2>2
<1>8. ASSUME NEW sender \in Account, reject_settle_pkg(sender, j, marks) PROVE Touched
  <2> DEFINE middle == Settled(jobs[j], REJECTED,
                               reject_shares(jobs[j].escrow, jobs[j].reject_split_bps,
                                             jobs[j].fee_bps), "JobRejected")
  <2>1. jobs[j].state \in Live /\ Moved(j, marks, middle)
    BY <1>8 DEF reject_settle_pkg, can_reject, Live, Stamp, Moved
  <2>2. middle \in Job /\ SameTerms(jobs[j], middle)
    BY <1>2, <1>4, <1>5, RejectShares
  <2> HIDE DEF middle
  <2> QED
    BY <2>1, <2>2
<1>9. ASSUME NEW sender \in Account, decline_settle_pkg(sender, j, marks) PROVE Touched
  <2> DEFINE middle == Settled(jobs[j], REFUNDED, refund_shares(jobs[j].escrow),
                               "JobDeclined")
  <2>1. jobs[j].state \in Live /\ Moved(j, marks, middle)
    BY <1>9 DEF decline_settle_pkg, can_decline, Live, Stamp, Moved
  <2>2. middle \in Job /\ SameTerms(jobs[j], middle)
    BY <1>2, <1>4, <1>5, RefundShares
  <2> HIDE DEF middle
  <2> QED
    BY <2>1, <2>2
<1>10. ASSUME refund_settle_pkg(j, marks) PROVE Touched
  <2> DEFINE middle == Settled(jobs[j], REFUNDED, refund_shares(jobs[j].escrow),
                               "JobRefunded")
  <2>1. jobs[j].state \in Live /\ Moved(j, marks, middle)
    BY <1>10 DEF refund_settle_pkg, can_refund, Live, Stamp, Moved
  <2>2. middle \in Job /\ SameTerms(jobs[j], middle)
    BY <1>2, <1>4, <1>5, RefundShares
  <2> HIDE DEF middle
  <2> QED
    BY <2>1, <2>2
<1>11. Touched
  BY <1>3, <1>6, <1>7, <1>8, <1>9, <1>10
<1> QED
  BY <1>1, <1>11

\* One step of TermsNeverMove.
TermsStay ==
  \A j \in DOMAIN jobs :
    /\ j \in DOMAIN jobs'
    /\ \A term \in Term : jobs'[j][term] = jobs[j][term]
    /\ jobs[j].state \notin Live => jobs'[j] = jobs[j]

\* No step of the escrow touches the terms of a Job, or a settled Job at all.
LEMMA NextKeepsTerms ==
  IInv /\ [EscrowNext]_escrowVars => TermsStay
<1> SUFFICES ASSUME IInv, [EscrowNext]_escrowVars PROVE TermsStay
  OBVIOUS
<1>1. CASE UNCHANGED jobs
  BY <1>1 DEF TermsStay
<1>2. CASE Tick \/ Admin \/ RecordBoard
  <2>1. UNCHANGED jobs
    BY <1>2 DEF Tick, Admin, SetCfg, set_fee_bps, set_fee_receiver,
       set_min_job_amount, set_max_job_amount, set_tier_active_cap,
       set_no_delivery_regression_floor, set_max_batch_slots, migrate,
       migrate_successor, RecordBoard, record_score_board_pkg
  <2> QED
    BY <2>1, <1>1
<1>3. CASE Hire \/ Mint
  <2>1. ASSUME NEW j \in JobId \ DOMAIN jobs, NEW job, share(j, job)
        PROVE  TermsStay
    BY <2>1 DEF share, TermsStay
  <2>2. CASE Hire
    <3>1. PICK buyer, seller \in Account, j \in JobId, amount \in Amount,
               d, w \in Duration, s \in Split :
            create(buyer, seller, j, amount, now + d, w, s)
      BY <2>2 DEF Hire
    <3> QED
      BY <3>1, <2>1 DEF create
  <2>3. CASE Mint
    <3>1. PICK buyer, seller \in Account, j \in JobId, amount \in Amount,
               f \in FeeBps, d, w \in Duration, s \in Split,
               b \in BatchId \cup {NoBatch} :
            create_claimed(buyer, seller, j, amount, f, now + d, w, s, b)
      BY <2>3 DEF Mint
    <3> QED
      BY <3>1, <2>1 DEF create_claimed
  <2> QED
    BY <1>3, <2>2, <2>3
<1>4. CASE Settle
  <2>1. PICK j \in DOMAIN jobs, job \in Job :
          /\ jobs[j].state \in Live
          /\ SameTerms(jobs[j], job)
          /\ jobs' = [jobs EXCEPT ![j] = job]
    BY <1>4, SettleMovesNoTerm DEF IInv
  <2> QED
    BY <2>1 DEF SameTerms, TermsStay, IInv, JobsInv
<1>5. CASE UNCHANGED escrowVars
  BY <1>1, <1>5 DEF escrowVars
<1> QED
  BY <1>2, <1>3, <1>4, <1>5 DEF EscrowNext

\* No administrator, crank, door or party changes what a Job was hired for.
THEOREM TermsAreFixed == EscrowSpec => TermsNeverMove
<1>1. IInv /\ [EscrowNext]_escrowVars => [TermsStay]_escrowVars
  BY NextKeepsTerms
<1>2. [TermsStay]_escrowVars <=> [\A j \in DOMAIN jobs :
         /\ j \in DOMAIN jobs'
         /\ \A term \in Term : jobs'[j][term] = jobs[j][term]
         /\ jobs[j].state \notin Live => jobs'[j] = jobs[j]]_escrowVars
  BY DEF TermsStay
<1> QED
  BY <1>1, <1>2, Inductive, PTL DEF EscrowSpec, TermsNeverMove
-----------------------------------------------------------------------------
(***************************************************************************)
(* The escrow implements JobPromise.                                       *)
(***************************************************************************)

\* Shares are the same records in both modules.
LEMMA SameMoney ==
  /\ Promise!NothingPaid = NothingPaid /\ Promise!Shares = Shares
  /\ \A s : Promise!PaidTotal(s) = PaidTotal(s)
BY DEF Promise!NothingPaid, NothingPaid, Promise!Shares, Shares,
       Promise!PaidTotal, PaidTotal

\* A mint locks the amount of a name that was never used.
LEMMA MintLocks ==
  ASSUME NEW j \in JobId \ DOMAIN jobs, NEW job,
         share(j, job), job.amount \in Nat \ {0}, job.paid = NothingPaid
  PROVE  Promise!Lock(j)
<1>1. Ledger[j] = Promise!Nothing
  BY SameMoney DEF Ledger, Promise!Nothing
<1>2. Ledger' = [Ledger EXCEPT ![j] = [locked |-> job.amount, paid |-> job.paid]]
  BY DEF Ledger, share
<1>3. Ledger'[j] = [locked |-> job.amount, paid |-> NothingPaid]
  <2>1. j \in DOMAIN Ledger
    BY DEF Ledger
  <2> QED
    BY <1>2, <2>1
<1>4. Ledger'[j].locked = job.amount
  BY <1>3
<1>5. Ledger' = [Ledger EXCEPT ![j] = [locked |-> Ledger'[j].locked,
                                       paid |-> Promise!NothingPaid]]
  BY <1>2, <1>4, SameMoney
<1> QED
  BY <1>1, <1>4, <1>5 DEF Promise!Lock

\* A settlement pays a locked amount out; a delivery changes nothing in the ledger.
LEMMA SettlePays ==
  ASSUME NEW j \in DOMAIN jobs, DOMAIN jobs \subseteq JobId, NEW job,
         JobInv(jobs[j]), JobInv(job), jobs[j].state \in Live,
         job.amount = jobs[j].amount, jobs' = [jobs EXCEPT ![j] = job]
  PROVE  Promise!Pay(j) \/ UNCHANGED Ledger
<1>1. Ledger' = [Ledger EXCEPT ![j] = [locked |-> job.amount, paid |-> job.paid]]
  BY DEF Ledger
<1>2. Ledger[j] = [locked |-> job.amount, paid |-> NothingPaid]
  BY DEF Ledger, JobInv, JobBacked
<1>3. j \in DOMAIN Ledger
  BY DEF Ledger
<1>4. CASE job.state \in Live
  <2>1. job.paid = NothingPaid
    BY <1>4 DEF JobInv, JobBacked
  <2>2. [Ledger EXCEPT ![j] = Ledger[j]] = Ledger
    BY DEF Ledger
  <2> QED
    BY <1>1, <1>2, <2>1, <2>2
<1>5. CASE job.state \notin Live
  <2>1. PaidTotal(job.paid) = job.amount /\ job.paid \in Shares
        /\ job.amount \in Nat /\ job.amount > 0
    BY <1>5 DEF JobInv, JobBacked, Job
  <2>2. Ledger'[j] = [locked |-> job.amount, paid |-> job.paid]
    BY <1>1, <1>3
  <2>3. Ledger'[j].paid = job.paid /\ Ledger[j].locked = job.amount
        /\ Ledger[j].paid = NothingPaid
    BY <1>2, <2>2
  <2>4. Ledger' = [Ledger EXCEPT ![j] = [locked |-> Ledger[j].locked,
                                         paid |-> Ledger'[j].paid]]
    BY <1>1, <2>3
  <2> QED
    BY <2>1, <2>3, <2>4, SameMoney DEF Promise!Pay
<1> QED
  BY <1>4, <1>5

\* A step of the escrow locks one amount, pays one out, or moves no money.
LEMMA NextKeepsPromise ==
  IInv /\ IInv' /\ [EscrowNext]_escrowVars => Promise!PromiseNext \/ UNCHANGED Ledger
<1> SUFFICES ASSUME IInv, IInv', [EscrowNext]_escrowVars
             PROVE  Promise!PromiseNext \/ UNCHANGED Ledger
  OBVIOUS
<1>0. DOMAIN jobs \subseteq JobId /\ JobsInv /\ JobsInv'
  BY DEF IInv, JobsInv
<1>1. CASE UNCHANGED jobs
  BY <1>1 DEF Ledger
<1>2. CASE Tick \/ Admin \/ RecordBoard
  <2>1. UNCHANGED jobs
    BY <1>2 DEF Tick, Admin, SetCfg, set_fee_bps, set_fee_receiver,
       set_min_job_amount, set_max_job_amount, set_tier_active_cap,
       set_no_delivery_regression_floor, set_max_batch_slots, migrate,
       migrate_successor, RecordBoard, record_score_board_pkg
  <2> QED
    BY <2>1, <1>1
<1>3. CASE Hire
  <2>1. PICK buyer, seller \in Account, j \in JobId, amount \in Amount,
             d, w \in Duration, s \in Split :
          create(buyer, seller, j, amount, now + d, w, s)
    BY <1>3 DEF Hire
  <2> DEFINE job == NewJob(buyer, seller, amount, cfg.fee_bps, now + d, w, s,
                           FALSE, NoBatch)
  <2>2. share(j, job) /\ j \in JobId \ DOMAIN jobs /\ amount > 0
    BY <2>1 DEF create
  <2>3. job.amount \in Nat \ {0} /\ job.paid = NothingPaid
    BY <2>2, InputsAreNat DEF NewJob
  <2> HIDE DEF job
  <2> QED
    BY <2>2, <2>3, MintLocks DEF Promise!PromiseNext
<1>4. CASE Mint
  <2>1. PICK buyer, seller \in Account, j \in JobId, amount \in Amount,
             f \in FeeBps, d, w \in Duration, s \in Split,
             b \in BatchId \cup {NoBatch} :
          create_claimed(buyer, seller, j, amount, f, now + d, w, s, b)
    BY <1>4 DEF Mint
  <2> DEFINE job == NewJob(buyer, seller, amount, f, now + d, w, s, TRUE, b)
  <2>2. share(j, job) /\ j \in JobId \ DOMAIN jobs /\ amount > 0
    BY <2>1 DEF create_claimed
  <2>3. job.amount \in Nat \ {0} /\ job.paid = NothingPaid
    BY <2>2, InputsAreNat DEF NewJob
  <2> HIDE DEF job
  <2> QED
    BY <2>2, <2>3, MintLocks DEF Promise!PromiseNext
<1>5. CASE Settle
  <2>1. PICK j \in DOMAIN jobs, job \in Job :
          /\ jobs[j].state \in Live
          /\ SameTerms(jobs[j], job)
          /\ jobs' = [jobs EXCEPT ![j] = job]
    BY <1>5, SettleMovesNoTerm
  <2>2. jobs'[j] = job /\ j \in DOMAIN jobs'
    BY <2>1
  <2>3. JobInv(jobs[j]) /\ JobInv(job)
    <3>1. JobInv(jobs'[j])
      BY <1>0, <2>2 DEF JobsInv, JobInv, TermsLegal, JobBacked, FeeLegal, RefundedWhole
    <3> QED
      BY <1>0, <2>2, <3>1 DEF JobsInv
  <2>4. job.amount = jobs[j].amount
    BY <2>1 DEF SameTerms, Term
  <2>5. Promise!Pay(j) \/ UNCHANGED Ledger
    BY <1>0, <2>1, <2>3, <2>4, SettlePays
  <2> QED
    BY <1>0, <2>5 DEF Promise!PromiseNext
<1> QED
  BY <1>1, <1>2, <1>3, <1>4, <1>5 DEF EscrowNext, escrowVars

\* The escrow keeps its promise: every amount is locked once and paid out once,
\* whole, for all Jobs, callers, terms and settings.
THEOREM PromiseIsKept == EscrowSpec => KeepsPromise
<1>1. EscrowInit => Promise!PromiseInit
  BY SameMoney DEF EscrowInit, Promise!PromiseInit, Promise!Nothing, Ledger
<1>2. IInv /\ IInv' /\ [EscrowNext]_escrowVars => [Promise!PromiseNext]_Ledger
  BY NextKeepsPromise
<1> QED
  BY <1>1, <1>2, Inductive, PTL DEF EscrowSpec, KeepsPromise, Promise!PromiseSpec
=============================================================================
