------------------------------- MODULE Escrow -------------------------------
(***************************************************************************)
(* a2a_escrow::escrow: the shared FeeConfig and the shared Job objects.    *)
(*                                                                         *)
(* One Sui transaction is one step.  The package-visible bodies            *)
(* (create_claimed*, *_settle_pkg, mark_*_pkg) are actions here; the doors *)
(* of Reputation, Opening and Batch conjoin them with their own effects,   *)
(* as the Move functions call them, so every step of the marketplace that  *)
(* touches a Job is a step of this module.                                 *)
(*                                                                         *)
(* A Job is never deleted, so `jobs` is a function whose domain only       *)
(* grows.  Dynamic-field markers on the Job are Boolean fields of its      *)
(* record; `paid` is what its settlement transferred, and `settled_by` the *)
(* event that settlement emitted (the chain has no other way to tell a     *)
(* decline from a deadline refund).                                        *)
(***************************************************************************)
EXTENDS Money, FiniteSets

CONSTANTS
  Account,                  \* Sui addresses: buyers, sellers, passers-by
  Receiver,                 \* addresses the protocol fee may settle at
  JobId,                    \* object ids a Job can be given
  BatchId, NoBatch,         \* object ids of waves; no BatchOriginKey
  VERSION,                  \* the package's flow version
  MAX_FEE_BPS,
  MAX_REVIEW_WINDOW_MS,
  MAX_DELIVER_HORIZON_MS,
  MIN_JOB_AMOUNT_FLOOR,
  MAX_JOB_AMOUNT_CEILING,
  MAX_BATCH_SLOTS_CEILING,
  U64_MAX,                  \* arithmetic above it aborts
  MaxNow,                   \* bound: the last instant the clock reaches
  LaunchCfg,                \* the FeeConfig the model starts from
  \* what callers try (bounds of the model, not of the contract)
  Amount, Duration, Split, FeeBps, AmountBound, TierCap, Floor, SlotMax,
  NextVersion               \* versions a successor package may migrate to

FUNDED    == "FUNDED"
DELIVERED == "DELIVERED"
RELEASED  == "RELEASED"
REFUNDED  == "REFUNDED"
REJECTED  == "REJECTED"

JobState == {FUNDED, DELIVERED, RELEASED, REFUNDED, REJECTED}
Live     == {FUNDED, DELIVERED}
Event    == {"none", "JobReleased", "JobRejected", "JobDeclined", "JobRefunded"}
Mark     == {"active_freed", "batch_hold_released"}
Level    == 1..4

Config ==
  [version : Nat, fee_bps : Nat, fee_receiver : Receiver,
   min_job_amount : Nat, max_job_amount : Nat,
   tier_active_cap : [Level -> Nat \ {0}],
   no_delivery_floor : Nat \ {0}, max_batch_slots : Nat \ {0},
   score_board : BOOLEAN]

Job ==
  [buyer : Account, seller : Account, escrow : Nat, amount : Nat,
   fee_bps : Nat, deliver_by_ms : Nat, review_window_ms : Nat,
   reject_split_bps : Nat, state : JobState, delivered_at_ms : Nat,
   claimed : BOOLEAN, batch_origin : BatchId \cup {NoBatch},
   marks : SUBSET Mark, paid : Shares, settled_by : Event]

\* min <= max, inside the package's hard rails, and a legal fee.
RailsHold(c) ==
  /\ c.min_job_amount <= c.max_job_amount
  /\ MIN_JOB_AMOUNT_FLOOR <= c.min_job_amount
  /\ c.max_job_amount <= MAX_JOB_AMOUNT_CEILING
  /\ c.fee_bps <= MAX_FEE_BPS
  /\ c.max_batch_slots <= MAX_BATCH_SLOTS_CEILING

ASSUME EscrowAssumption ==
  /\ NoBatch \notin BatchId
  /\ VERSION \in Nat
  /\ MAX_FEE_BPS \in 0..BPS_DENOMINATOR
  /\ MAX_REVIEW_WINDOW_MS \in Nat
  /\ MAX_DELIVER_HORIZON_MS \in Nat
  /\ MIN_JOB_AMOUNT_FLOOR \in Nat \ {0}
  /\ MAX_JOB_AMOUNT_CEILING \in Nat
  /\ MAX_BATCH_SLOTS_CEILING \in Nat
  /\ U64_MAX \in Nat
  /\ MaxNow \in Nat \ {0}
  /\ LaunchCfg \in Config /\ RailsHold(LaunchCfg)
  /\ \A S \in {Amount, Duration, Split, FeeBps, AmountBound, TierCap, Floor,
               SlotMax, NextVersion} : S \subseteq Nat

\* Block time leaves room for every window the package allows.
ASSUME ClockAssumption ==
  MaxNow + MAX_DELIVER_HORIZON_MS + MAX_REVIEW_WINDOW_MS < U64_MAX

VARIABLES
  now,     \* sui::clock, milliseconds; starts at 1 (0 means "never delivered")
  cfg,     \* the shared FeeConfig with its dynamic fields, defaults filled in
  jobs     \* JobId -> Job, for the ids minted so far

escrowVars == <<now, cfg, jobs>>

EscrowInit ==
  /\ now = 1
  /\ cfg = LaunchCfg
  /\ jobs = [j \in {} |-> {}]
-----------------------------------------------------------------------------
(***************************************************************************)
(* Guards shared by the entries.                                           *)
(***************************************************************************)

assert_version == cfg.version = VERSION

\* u64 addition aborts on overflow.
FitsU64(a, b) == a + b <= U64_MAX

assert_amount_in_bounds(amount) ==
  /\ cfg.min_job_amount <= amount
  /\ amount <= cfg.max_job_amount

\* Plausible bug: the review window is not capped.
TermsInRange_NoWindowCap(deliver_by, window, split) ==
  /\ now < deliver_by
  /\ FitsU64(now, MAX_DELIVER_HORIZON_MS)
  /\ deliver_by <= now + MAX_DELIVER_HORIZON_MS
  /\ split <= BPS_DENOMINATOR

\* The asserts `create` and `new_claimed_job` have in common.
TermsInRange(deliver_by, window, split) ==
  /\ now < deliver_by
  /\ FitsU64(now, MAX_DELIVER_HORIZON_MS)
  /\ deliver_by <= now + MAX_DELIVER_HORIZON_MS
  /\ window <= MAX_REVIEW_WINDOW_MS
  /\ split <= BPS_DENOMINATOR

window_end(job) == job.delivered_at_ms + job.review_window_ms

window_lapsed(job) ==
  /\ FitsU64(job.delivered_at_ms, job.review_window_ms)
  /\ now > window_end(job)

in_window(job) ==
  /\ FitsU64(job.delivered_at_ms, job.review_window_ms)
  /\ now <= window_end(job)

past_deadline(job) == now > job.deliver_by_ms
-----------------------------------------------------------------------------
(***************************************************************************)
(* Minting Jobs.                                                           *)
(***************************************************************************)

NewJob(buyer, seller, amount, fee_bps, deliver_by, window, split, claimed, origin) ==
  [buyer |-> buyer, seller |-> seller, escrow |-> amount, amount |-> amount,
   fee_bps |-> fee_bps, deliver_by_ms |-> deliver_by, review_window_ms |-> window,
   reject_split_bps |-> split, state |-> FUNDED, delivered_at_ms |-> 0,
   claimed |-> claimed, batch_origin |-> origin, marks |-> {},
   paid |-> NothingPaid, settled_by |-> "none"]

\* transfer::share_object of a fresh Job
share(j, job) ==
  jobs' = [k \in DOMAIN jobs \cup {j} |-> IF k = j THEN job ELSE jobs[k]]

\* escrow::create - the buyer hires a named seller.
create(buyer, seller, j, amount, deliver_by, window, split) ==
  /\ j \in JobId \ DOMAIN jobs
  /\ assert_version
  /\ buyer # seller
  /\ amount > 0
  /\ assert_amount_in_bounds(amount)
  /\ TermsInRange(deliver_by, window, split)
  /\ share(j, NewJob(buyer, seller, amount, cfg.fee_bps, deliver_by, window,
                     split, FALSE, NoBatch))
  /\ UNCHANGED <<now, cfg>>

\* escrow::create_claimed and create_claimed_from_batch: the claim of an
\* Opening or of a batch slot mints the Job from money escrowed at the post.
\* The amount bounds are deliberately not read again.
create_claimed(buyer, seller, j, amount, fee_bps, deliver_by, window, split, origin) ==
  /\ j \in JobId \ DOMAIN jobs
  /\ assert_version
  /\ buyer # seller
  /\ amount > 0
  /\ fee_bps <= MAX_FEE_BPS
  /\ TermsInRange(deliver_by, window, split)
  /\ share(j, NewJob(buyer, seller, amount, fee_bps, deliver_by, window, split,
                     TRUE, origin))
  /\ UNCHANGED <<now, cfg>>
-----------------------------------------------------------------------------
(***************************************************************************)
(* Delivery and settlement.  `marks` are the one-shot dynamic fields the   *)
(* calling door stamps in the same transaction; stamping one twice aborts. *)
(***************************************************************************)

\* mark_active_freed_pkg, mark_batch_hold_released_pkg
Stamp(j, job, marks) ==
  /\ marks \cap job.marks = {}
  /\ jobs' = [jobs EXCEPT ![j] = [job EXCEPT !.marks = @ \cup marks]]

\* Plausible bug: a settlement that forgets what it took out of the escrow.
Settled_KeepsFee(job, state, shares, event) ==
  [job EXCEPT !.state = state, !.escrow = @ - shares.buyer - shares.seller,
              !.paid = shares, !.settled_by = event]

Settled(job, state, shares, event) ==
  [job EXCEPT !.state = state, !.escrow = @ - PaidTotal(shares),
              !.paid = shares, !.settled_by = event]

can_deliver(job, sender) ==
  /\ assert_version
  /\ sender = job.seller
  /\ job.state = FUNDED
  /\ now <= job.deliver_by_ms

\* escrow::deliver
deliver(sender, j, marks) ==
  /\ can_deliver(jobs[j], sender)
  /\ Stamp(j, [jobs[j] EXCEPT !.delivered_at_ms = now, !.state = DELIVERED], marks)
  /\ UNCHANGED <<now, cfg>>

\* Buyer accept, buyer goodwill on FUNDED (no deadline), or anyone once the
\* review window has lapsed.  On a DELIVERED job the window's end is computed
\* first, for the buyer too.
can_release(job, sender) ==
  /\ assert_version
  /\ \/ /\ job.state = DELIVERED
        /\ FitsU64(job.delivered_at_ms, job.review_window_ms)
        /\ sender = job.buyer \/ window_lapsed(job)
     \/ job.state = FUNDED /\ sender = job.buyer

release_settle_pkg(sender, j, marks) ==
  LET job == jobs[j] IN
  /\ can_release(job, sender)
  /\ Stamp(j, Settled(job, RELEASED, release_shares(job.escrow, job.fee_bps),
                      "JobReleased"), marks)
  /\ UNCHANGED <<now, cfg>>

can_reject(job, sender) ==
  /\ assert_version
  /\ sender = job.buyer
  /\ job.state = DELIVERED
  /\ in_window(job)

reject_settle_pkg(sender, j, marks) ==
  LET job == jobs[j] IN
  /\ can_reject(job, sender)
  /\ Stamp(j, Settled(job, REJECTED,
                      reject_shares(job.escrow, job.reject_split_bps, job.fee_bps),
                      "JobRejected"), marks)
  /\ UNCHANGED <<now, cfg>>

can_decline(job, sender) ==
  /\ assert_version
  /\ sender = job.seller
  /\ job.state = FUNDED

decline_settle_pkg(sender, j, marks) ==
  LET job == jobs[j] IN
  /\ can_decline(job, sender)
  /\ Stamp(j, Settled(job, REFUNDED, refund_shares(job.escrow), "JobDeclined"), marks)
  /\ UNCHANGED <<now, cfg>>

\* Plausible bug: the deadline is checked, the state is not.
can_refund_AnyState(job) ==
  /\ assert_version
  /\ past_deadline(job)

can_refund(job) ==
  /\ assert_version
  /\ job.state = FUNDED
  /\ past_deadline(job)

refund_settle_pkg(j, marks) ==
  LET job == jobs[j] IN
  /\ can_refund(job)
  /\ Stamp(j, Settled(job, REFUNDED, refund_shares(job.escrow), "JobRefunded"), marks)
  /\ UNCHANGED <<now, cfg>>
-----------------------------------------------------------------------------
(***************************************************************************)
(* Administration (AdminCap).  Every setter changes one field of FeeConfig *)
(* inside its rails.                                                       *)
(***************************************************************************)

SetCfg(field, value) ==
  /\ assert_version
  /\ cfg' = [cfg EXCEPT ![field] = value]
  /\ UNCHANGED <<now, jobs>>

set_fee_bps(bps) == bps <= MAX_FEE_BPS /\ SetCfg("fee_bps", bps)

set_fee_receiver(a) == SetCfg("fee_receiver", a)

set_min_job_amount(n) ==
  /\ n >= MIN_JOB_AMOUNT_FLOOR
  /\ n <= cfg.max_job_amount
  /\ SetCfg("min_job_amount", n)

set_max_job_amount(n) ==
  /\ n <= MAX_JOB_AMOUNT_CEILING
  /\ n >= cfg.min_job_amount
  /\ SetCfg("max_job_amount", n)

set_tier_active_cap(level, cap) ==
  cap > 0 /\ SetCfg("tier_active_cap", [cfg.tier_active_cap EXCEPT ![level] = cap])

set_no_delivery_regression_floor(n) == n > 0 /\ SetCfg("no_delivery_floor", n)

set_max_batch_slots(n) ==
  n \in 1..MAX_BATCH_SLOTS_CEILING /\ SetCfg("max_batch_slots", n)

\* Cutover after an upgrade to this package ...
migrate ==
  /\ cfg.version < VERSION
  /\ cfg' = [cfg EXCEPT !.version = VERSION]
  /\ UNCHANGED <<now, jobs>>

\* ... and the same function run later by a successor package.
migrate_successor(v) ==
  /\ cfg.version < v
  /\ v > VERSION
  /\ cfg' = [cfg EXCEPT !.version = v]
  /\ UNCHANGED <<now, jobs>>

\* record_score_board_pkg: at most one ScoreBoard, ever.
record_score_board_pkg ==
  /\ ~cfg.score_board
  /\ cfg' = [cfg EXCEPT !.score_board = TRUE]
  /\ UNCHANGED <<now, jobs>>

\* The only caller, reputation::create_score_board, as the escrow sees it.
RecordBoard == assert_version /\ record_score_board_pkg

Tick ==
  /\ now < MaxNow
  /\ now' = now + 1
  /\ UNCHANGED <<cfg, jobs>>

Admin ==
  \/ \E bps \in FeeBps : set_fee_bps(bps)
  \/ \E a \in Receiver : set_fee_receiver(a)
  \/ \E n \in AmountBound : set_min_job_amount(n)
  \/ \E n \in AmountBound : set_max_job_amount(n)
  \/ \E l \in Level, cap \in TierCap : set_tier_active_cap(l, cap)
  \/ \E n \in Floor : set_no_delivery_regression_floor(n)
  \/ \E n \in SlotMax : set_max_batch_slots(n)
  \/ migrate
  \/ \E v \in NextVersion : migrate_successor(v)

\* Every hire a caller may try: the deadline lies some Duration ahead.
Hire ==
  \E buyer, seller \in Account, j \in JobId, amount \in Amount,
     d, w \in Duration, s \in Split : create(buyer, seller, j, amount, now + d, w, s)

\* The escrow as its package sees it: any claimed Job a caller asks for.
Mint ==
  \E buyer, seller \in Account, j \in JobId, amount \in Amount, f \in FeeBps,
     d, w \in Duration, s \in Split, b \in BatchId \cup {NoBatch} :
       create_claimed(buyer, seller, j, amount, f, now + d, w, s, b)

Settle ==
  \E j \in DOMAIN jobs, marks \in SUBSET Mark :
    \/ \E sender \in Account : \/ deliver(sender, j, marks)
                               \/ release_settle_pkg(sender, j, marks)
                               \/ reject_settle_pkg(sender, j, marks)
                               \/ decline_settle_pkg(sender, j, marks)
    \/ refund_settle_pkg(j, marks)

EscrowNext == Tick \/ Admin \/ RecordBoard \/ Hire \/ Mint \/ Settle

EscrowSpec == EscrowInit /\ [][EscrowNext]_escrowVars
-----------------------------------------------------------------------------
(***************************************************************************)
(* Properties.                                                             *)
(***************************************************************************)

\* The type of the state.
EscrowTypeOK ==
  /\ now \in 1..MaxNow
  /\ cfg \in Config
  /\ DOMAIN jobs \subseteq JobId
  /\ jobs \in [DOMAIN jobs -> Job]

JobBacked(job) ==
  /\ job.amount > 0
  /\ job.state \in Live =>
       job.escrow = job.amount /\ job.paid = NothingPaid /\ job.settled_by = "none"
  /\ job.state \notin Live =>
       job.escrow = 0 /\ PaidTotal(job.paid) = job.amount /\ job.settled_by # "none"

\* The money is in the object until it is all paid out: a live Job holds
\* exactly the amount its buyer committed, a settled one holds nothing, and
\* what settlement transferred adds up to that amount.  (The arithmetic of
\* release_settle_pkg, reject_settle_pkg, decline_ and refund_settle_pkg, and
\* the absence of any other way out of `Job.escrow`.)
EscrowBacked == \A j \in DOMAIN jobs : JobBacked(jobs[j])

\* The protocol never takes more than the snapshotted basis points of what is
\* left after the buyer's share, and nothing at all from a failed job.
FeeWithinTerms ==
  \A j \in DOMAIN jobs :
    LET job == jobs[j] IN
    /\ job.paid.fee * BPS_DENOMINATOR <= (job.amount - job.paid.buyer) * job.fee_bps
    /\ job.state = REFUNDED => job.paid.buyer = job.amount

\* "Unbounded values would let a hostile buyer ... permanently lock a DELIVERED
\* job's funds": for every Job, now or after a delivery at the last permitted
\* moment, the end of the review window is a u64 that the clock can pass, and
\* so is the delivery deadline.
TimeoutsReachable ==
  \A j \in DOMAIN jobs :
    LET job == jobs[j] IN
    /\ job.deliver_by_ms + job.review_window_ms < U64_MAX
    /\ window_end(job) < U64_MAX

\* The AdminCap's rails keep `create` satisfiable and the fee legal through
\* every sequence of setter calls.
ConfigWithinRails == RailsHold(cfg)

\* What the parties agreed when the money was locked.
Term ==
  {"buyer", "seller", "amount", "fee_bps", "deliver_by_ms", "review_window_ms",
   "reject_split_bps", "claimed", "batch_origin"}

\* "Terms can never move under a funded job": no step changes what the parties
\* agreed at create or at the post, and a settled Job never changes again.
TermsNeverMove ==
  [][\A j \in DOMAIN jobs :
       /\ j \in DOMAIN jobs'
       /\ \A term \in Term : jobs'[j][term] = jobs[j][term]
       /\ jobs[j].state \notin Live => jobs'[j] = jobs[j]
    ]_escrowVars

\* The ledger of JobPromise that a state of the escrow stands for.
Ledger ==
  [j \in JobId |->
     IF j \in DOMAIN jobs THEN [locked |-> jobs[j].amount, paid |-> jobs[j].paid]
                          ELSE [locked |-> 0, paid |-> NothingPaid]]

Promise == INSTANCE JobPromise WITH Id <- JobId, ledger <- Ledger

\* The escrow implements JobPromise: whatever the order of callers, cranks,
\* setters and cutovers, each amount is locked once and paid out once, whole.
KeepsPromise == Promise!PromiseSpec
=============================================================================
