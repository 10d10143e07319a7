---------------------------- MODULE MarketProofs ----------------------------
(***************************************************************************)
(* What holds of the marketplace as a whole, for every package limit and   *)
(* every set of accounts, Jobs, open jobs and waves.  What was proved of a *)
(* step of the escrow is used here for all the steps that are one; a claim *)
(* mints from the terms of a post, so the invariant carries what a post    *)
(* asserted when its money was locked.                                     *)
(***************************************************************************)
EXTENDS Marketplace, EscrowProofs

\* What a post asserted, for good: the money and the terms a claim mints from.
PostedOpening ==
  [buyer : Account, escrow : Nat, amount : Nat \ {0}, fee_bps : 0..MAX_FEE_BPS,
   open_until_ms : Nat, sla_ms : 1..MAX_DELIVER_HORIZON_MS,
   review_window_ms : 0..MAX_REVIEW_WINDOW_MS, reject_split_bps : {BPS_DENOMINATOR},
   claim_policy : ClaimPolicy, min_seller_level : Nat,
   state : {OPEN, CLAIMED, REPAID}, repaid : Nat, job : JobId \cup {NoJob}]

PostedBatch ==
  [buyer : Account, escrow : Nat, amount : Nat \ {0}, slots_total : Nat \ {0},
   slots_remaining : Nat, fee_bps : 0..MAX_FEE_BPS, open_until_ms : Nat,
   sla_ms : 1..MAX_DELIVER_HORIZON_MS, review_window_ms : 0..MAX_REVIEW_WINDOW_MS,
   reject_split_bps : {BPS_DENOMINATOR}, claim_policy : ClaimPolicy,
   min_seller_level : Nat, max_claims_per_agent : Nat,
   claims_by_agent : [Account -> Nat], active_claims : BOOLEAN, returned : Nat]

OpeningsInv ==
  /\ DOMAIN openings \subseteq OpeningId
  /\ openings \in [DOMAIN openings -> PostedOpening]

BatchesInv ==
  /\ DOMAIN batches \subseteq BatchId
  /\ batches \in [DOMAIN batches -> PostedBatch]

PostsInv == OpeningsInv /\ BatchesInv
-----------------------------------------------------------------------------
(***************************************************************************)
(* The Jobs.                                                               *)
(***************************************************************************)

\* A mint from terms in range leaves the escrow as good as a hire does, and
\* touches no other Job; to its promise it is a lock.
LEMMA ClaimedMint ==
  ASSUME IInv, NEW buyer \in Account, NEW seller \in Account, NEW j \in JobId,
         NEW amount \in Nat, NEW fee_bps \in Nat, NEW d \in Nat, NEW window \in Nat,
         NEW split \in Nat, NEW origin \in BatchId \cup {NoBatch},
         create_claimed(buyer, seller, j, amount, fee_bps, now + d, window, split, origin)
  PROVE  IInv' /\ TermsStay /\ Promise!PromiseNext
<1> DEFINE job == NewJob(buyer, seller, amount, fee_bps, now + d, window, split, TRUE, origin)
<1>1. /\ amount > 0 /\ fee_bps <= MAX_FEE_BPS /\ TermsInRange(now + d, window, split)
      /\ j \notin DOMAIN jobs /\ share(j, job) /\ UNCHANGED <<now, cfg>>
  BY DEF create_claimed
<1>2. fee_bps <= BPS_DENOMINATOR /\ now + d \in Nat
  BY <1>1, EscrowAssumption, BpsAssumption DEF IInv
<1>3. JobInv(job)
  BY <1>1, <1>2, NewJobInv
<1>4. job.amount \in Nat \ {0} /\ job.paid = NothingPaid
  BY <1>1 DEF NewJob
<1> HIDE DEF job
<1>5. JobsInv'
  BY <1>1, <1>3, OneJobMore DEF IInv
<1>6. TermsStay
  BY <1>1 DEF share, TermsStay
<1>7. Promise!PromiseNext
  BY <1>1, <1>4, MintLocks DEF Promise!PromiseNext
<1> QED
  BY <1>1, <1>5, <1>6, <1>7 DEF IInv, ConfigInv

\* What a transaction of the marketplace is to the escrow.
EscrowPart == Tick \/ Admin \/ RecordBoard \/ Hire \/ Settle

\* freed_mark and released_mark are marks.
LEMMA MarksAreMarks ==
  \A job : freed_mark(job) \in SUBSET Mark /\ released_mark(job) \in SUBSET Mark
BY DEF freed_mark, released_mark, Mark

\* The doors of a wave's Job, whichever wave they are called with.
WaveDoor(b, j) ==
  \/ batch_refund(b, j)
  \/ \E sender \in Account : \/ batch_release(sender, b, j)
                             \/ batch_reject(sender, b, j)
                             \/ batch_reject_agent_buyer(sender, b, j)
                             \/ batch_deliver_v2(sender, b, j)

\* Every door that settles or delivers is a settlement of the escrow.
LEMMA DoorsSettle ==
  Doors \/ (\E b : \E j \in DOMAIN jobs : WaveDoor(b, j)) => Settle
<1>1. ASSUME NEW j \in DOMAIN jobs, NEW marks \in SUBSET Mark, refund_settle_pkg(j, marks)
      PROVE  Settle
  BY <1>1 DEF Settle
<1>2. ASSUME NEW j \in DOMAIN jobs, NEW marks \in SUBSET Mark, NEW sender \in Account,
             \/ deliver(sender, j, marks) \/ release_settle_pkg(sender, j, marks)
             \/ reject_settle_pkg(sender, j, marks) \/ decline_settle_pkg(sender, j, marks)
      PROVE  Settle
  BY <1>2 DEF Settle
<1>3. {} \in SUBSET Mark /\ {"batch_hold_released"} \in SUBSET Mark
  BY DEF Mark
<1>4. ASSUME Doors PROVE Settle
  <2>1. PICK j \in DOMAIN jobs :
          \/ refund_v2(j)
          \/ \E sender \in Account : \/ reject_v2(sender, j)
                                     \/ reject_v2_agent_buyer(sender, j)
                                     \/ decline_v2(sender, j)
                                     \/ release_v2(sender, j)
                                     \/ deliver_v2(sender, j)
                                     \/ deliver_v1(sender, j)
    BY <1>4 DEF Doors
  <2>2. CASE refund_v2(j)
    BY <2>2, <1>1, <1>3 DEF refund_v2
  <2>3. ASSUME NEW sender \in Account,
               \/ reject_v2(sender, j) \/ reject_v2_agent_buyer(sender, j)
               \/ decline_v2(sender, j) \/ release_v2(sender, j)
               \/ deliver_v2(sender, j) \/ deliver_v1(sender, j)
        PROVE  \E marks \in SUBSET Mark :
                 \/ deliver(sender, j, marks) \/ release_settle_pkg(sender, j, marks)
                 \/ reject_settle_pkg(sender, j, marks)
                 \/ decline_settle_pkg(sender, j, marks)
    BY <2>3, <1>3, MarksAreMarks
    DEF reject_v2, reject_v2_agent_buyer, decline_v2, release_v2, deliver_v2, deliver_v1
  <2> QED
    BY <2>1, <2>2, <2>3, <1>2
<1>5. ASSUME NEW b, NEW j \in DOMAIN jobs, WaveDoor(b, j) PROVE Settle
  <2>1. CASE batch_refund(b, j)
    BY <2>1, <1>1, MarksAreMarks DEF batch_refund
  <2>2. freed_mark(jobs[j]) \cup {"batch_hold_released"} \in SUBSET Mark
    BY <1>3, MarksAreMarks
  <2>3. ASSUME NEW sender \in Account,
               \/ batch_release(sender, b, j) \/ batch_reject(sender, b, j)
               \/ batch_reject_agent_buyer(sender, b, j) \/ batch_deliver_v2(sender, b, j)
        PROVE  \E marks \in SUBSET Mark :
                 \/ deliver(sender, j, marks) \/ release_settle_pkg(sender, j, marks)
                 \/ reject_settle_pkg(sender, j, marks)
                 \/ decline_settle_pkg(sender, j, marks)
    BY <2>2, <2>3, MarksAreMarks
    DEF batch_release, batch_reject, batch_reject_agent_buyer, batch_deliver_v2
  <2> QED
    BY <1>5, <2>1, <2>3, <1>2 DEF WaveDoor
<1> QED
  BY <1>4, <1>5

\* The doors of Batch's next-state relation are such doors.
LEMMA BatchDoorsAreDoors ==
  BatchDoors => \E b \in DOMAIN batches : \E j \in DOMAIN jobs : WaveDoor(b, j)
BY DEF BatchDoors, WaveDoor

\* The escrow's view of a marketplace step: one of its own steps, nothing at
\* all, or the mint of a claim.
LEMMA MarketStep ==
  MarketNext => EscrowPart \/ UNCHANGED escrowVars \/ ClaimOpening \/ ClaimSlot
<1>1. ReputationNext => EscrowPart \/ UNCHANGED escrowVars
  <2>1. EscrowAlone => EscrowPart
    BY DEF EscrowAlone, EscrowPart
  <2>2. create_score_board => EscrowPart
    BY DEF create_score_board, EscrowPart
  <2>3. Doors => EscrowPart
    BY DoorsSettle DEF EscrowPart
  <2>4. RegistryAlone \/ Review \/ Reconcile \/ (\E a \in Account : create_empty_score(a))
          => UNCHANGED escrowVars
    BY DEF RegistryAlone, Review, Reconcile, create_empty_score, submit_first_review,
           submit_review, set_active_seller_jobs
  <2> QED
    BY <2>1, <2>2, <2>3, <2>4 DEF ReputationNext
<1>2. OpeningNext => UNCHANGED escrowVars \/ ClaimOpening
  <2>1. PostOpening => UNCHANGED escrowVars
    BY DEF PostOpening, create_open_v2, reputationVars
  <2>2. \A o : repay_buyer(o) => UNCHANGED escrowVars
    BY DEF repay_buyer, reputationVars
  <2>3. ReturnOpening => UNCHANGED escrowVars
    BY <2>2 DEF ReturnOpening, refund_unclaimed, cancel_open
  <2> QED
    BY <2>1, <2>3 DEF OpeningNext
<1>3. BatchNext => EscrowPart \/ UNCHANGED escrowVars \/ ClaimSlot
  <2>1. PostBatch => UNCHANGED escrowVars
    BY DEF PostBatch, create_batch_open, reputationVars
  <2>2. \A b : drain_remainder(b) => UNCHANGED escrowVars
    BY DEF drain_remainder, reputationVars
  <2>3. ReturnSlots => UNCHANGED escrowVars
    BY <2>2 DEF ReturnSlots, refund_batch_expired, cancel_batch_open
  <2> QED
    BY <2>1, <2>3, DoorsSettle, BatchDoorsAreDoors DEF BatchNext, EscrowPart
<1> QED
  BY <1>1, <1>2, <1>3 DEF MarketNext

\* The claim of an open job mints from what its post asserted.
LEMMA OpeningClaimMints ==
  ASSUME OpeningsInv, NEW claimer \in Account, NEW o \in DOMAIN openings, NEW j \in JobId,
         claim_v2(claimer, o, j) \/ claim_proven_v2(claimer, o, j)
  PROVE  LET op == openings[o] IN
         /\ op \in PostedOpening /\ op.state = OPEN
         /\ create_claimed(op.buyer, claimer, j, op.escrow, op.fee_bps, now + op.sla_ms,
                           op.review_window_ms, op.reject_split_bps, NoBatch)
         /\ openings' = [openings EXCEPT ![o].state = CLAIMED, ![o].escrow = 0, ![o].job = j]
BY DEF OpeningsInv, claim_v2, claim_proven_v2, do_claim, is_open

\* The claim of a slot mints from what its wave asserted.
LEMMA SlotClaimMints ==
  ASSUME BatchesInv, NEW claimer \in Account, NEW b \in DOMAIN batches, NEW j \in JobId,
         batch_claim(claimer, b, j)
  PROVE  LET batch == batches[b] IN
         /\ batch \in PostedBatch /\ b \in BatchId
         /\ create_claimed(batch.buyer, claimer, j, batch.amount, batch.fee_bps,
                           now + batch.sla_ms, batch.review_window_ms,
                           batch.reject_split_bps, b)
BY DEF BatchesInv, batch_claim

\* Every step of the marketplace keeps the escrow's invariant, the terms of every
\* Job and the promise about its money.
LEMMA JobsStep ==
  ASSUME IInv, PostsInv, [MarketNext]_marketVars
  PROVE  IInv' /\ TermsStay /\ (Promise!PromiseNext \/ UNCHANGED Ledger)
<1>1. EscrowPart \/ UNCHANGED escrowVars \/ ClaimOpening \/ ClaimSlot
  BY MarketStep DEF marketVars, reputationVars
<1>2. CASE EscrowPart \/ UNCHANGED escrowVars
  <2>1. [EscrowNext]_escrowVars
    BY <1>2 DEF EscrowPart, EscrowNext
  <2> QED
    BY <2>1, NextInv, NextKeepsTerms, NextKeepsPromise
<1> USE EscrowAssumption, BpsAssumption
<1>3. CASE ClaimOpening
  <2>1. PICK claimer \in Account, o \in DOMAIN openings, j \in JobId :
          claim_v2(claimer, o, j) \/ claim_proven_v2(claimer, o, j)
    BY <1>3 DEF ClaimOpening
  <2> DEFINE op == openings[o]
  <2>2. /\ op \in PostedOpening
        /\ create_claimed(op.buyer, claimer, j, op.escrow, op.fee_bps, now + op.sla_ms,
                          op.review_window_ms, op.reject_split_bps, NoBatch)
    BY <2>1, OpeningClaimMints DEF PostsInv
  <2> HIDE DEF op
  <2>3. /\ op.buyer \in Account /\ op.escrow \in Nat /\ op.fee_bps \in Nat
        /\ op.sla_ms \in Nat /\ op.review_window_ms \in Nat /\ op.reject_split_bps \in Nat
    BY <2>2 DEF PostedOpening
  <2> QED
    BY <2>2, <2>3, ClaimedMint
<1>4. CASE ClaimSlot
  <2>1. PICK claimer \in Account, b \in DOMAIN batches, j \in JobId : batch_claim(claimer, b, j)
    BY <1>4 DEF ClaimSlot
  <2> DEFINE batch == batches[b]
  <2>2. /\ batch \in PostedBatch /\ b \in BatchId
        /\ create_claimed(batch.buyer, claimer, j, batch.amount, batch.fee_bps,
                          now + batch.sla_ms, batch.review_window_ms,
                          batch.reject_split_bps, b)
    BY <2>1, SlotClaimMints DEF PostsInv
  <2> HIDE DEF batch
  <2>3. /\ batch.buyer \in Account /\ batch.amount \in Nat /\ batch.fee_bps \in Nat
        /\ batch.sla_ms \in Nat /\ batch.review_window_ms \in Nat
        /\ batch.reject_split_bps \in Nat
    BY <2>2 DEF PostedBatch
  <2> QED
    BY <2>2, <2>3, ClaimedMint
<1> QED
  BY <1>1, <1>2, <1>3, <1>4
-----------------------------------------------------------------------------
(***************************************************************************)
(* The posts.                                                              *)
(***************************************************************************)

\* What the bounds of a post leave of its inputs.
LEMMA PostBounds ==
  ASSUME IInv, NEW amount \in Nat, NEW open_until \in Nat, NEW sla \in Nat,
         NEW window \in Nat, NEW min_level \in Nat,
         PostInRange(amount, open_until, sla, window, min_level)
  PROVE  /\ amount \in Nat \ {0} /\ sla \in 1..MAX_DELIVER_HORIZON_MS
         /\ window \in 0..MAX_REVIEW_WINDOW_MS /\ cfg.fee_bps \in 0..MAX_FEE_BPS
BY EscrowAssumption DEF PostInRange, IInv, ConfigInv, Config, RailsHold

\* Changing one Opening into another legal one keeps them legal.
LEMMA OneOpeningChanges ==
  ASSUME OpeningsInv, NEW o \in OpeningId, NEW op \in PostedOpening,
         openings' = [p \in DOMAIN openings \cup {o} |-> IF p = o THEN op ELSE openings[p]]
  PROVE  OpeningsInv'
BY DEF OpeningsInv

\* A post, a claim and a return leave every open job legal.
LEMMA JobPosted ==
  ASSUME IInv, OpeningsInv, NEW buyer \in Account, NEW o \in OpeningId, NEW amount \in Nat,
         NEW until \in Nat, NEW sla \in Nat, NEW w \in Nat, NEW l \in Nat,
         create_open_v2(buyer, o, amount, until, sla, w, l)
  PROVE  OpeningsInv'
<1> DEFINE op == [buyer |-> buyer, escrow |-> amount, amount |-> amount,
                  fee_bps |-> cfg.fee_bps, open_until_ms |-> until, sla_ms |-> sla,
                  review_window_ms |-> w, reject_split_bps |-> BPS_DENOMINATOR,
                  claim_policy |-> CLAIM_POLICY_ANY_ACTIVE, min_seller_level |-> l,
                  state |-> OPEN, repaid |-> 0, job |-> NoJob]
<1>1. /\ PostInRange(amount, until, sla, w, l)
      /\ openings' = [p \in DOMAIN openings \cup {o} |-> IF p = o THEN op ELSE openings[p]]
  BY DEF create_open_v2
<1>2. CLAIM_POLICY_ANY_ACTIVE \in ClaimPolicy
  BY DEF ClaimPolicy
<1>3. op \in PostedOpening
  BY <1>1, <1>2, PostBounds DEF PostedOpening
<1> HIDE DEF op
<1> QED
  BY <1>1, <1>3, OneOpeningChanges

LEMMA OpeningTaken ==
  ASSUME OpeningsInv, NEW claimer \in Account, NEW o \in DOMAIN openings, NEW j \in JobId,
         claim_v2(claimer, o, j) \/ claim_proven_v2(claimer, o, j)
  PROVE  OpeningsInv'
<1>1. /\ openings[o] \in PostedOpening
      /\ openings' = [openings EXCEPT ![o].state = CLAIMED, ![o].escrow = 0, ![o].job = j]
  BY OpeningClaimMints
<1> QED
  BY <1>1 DEF OpeningsInv, PostedOpening

LEMMA OpeningRepaid ==
  ASSUME OpeningsInv, NEW o \in DOMAIN openings, repay_buyer(o)
  PROVE  OpeningsInv'
<1>1. /\ openings[o] \in PostedOpening
      /\ openings' = [openings EXCEPT ![o].state = REPAID, ![o].escrow = 0,
                                      ![o].repaid = openings[o].escrow]
  BY DEF repay_buyer, OpeningsInv
<1> QED
  BY <1>1 DEF OpeningsInv, PostedOpening

LEMMA OpeningsStep ==
  ASSUME IInv, OpeningsInv, [MarketNext]_marketVars
  PROVE  OpeningsInv'
<1>1. PostOpening \/ ClaimOpening \/ ReturnOpening \/ UNCHANGED openings
  BY DEF MarketNext, OpeningNext, marketVars
<1>2. CASE PostOpening
  <2>1. PICK buyer \in Poster, o \in OpeningId, amount \in Amount, d \in OpenWindow,
             sla, w \in Duration, l \in MinLevel :
          create_open_v2(buyer, o, amount, now + d, sla, w, l)
    BY <1>2 DEF PostOpening
  <2>2. /\ amount \in Nat /\ now + d \in Nat /\ sla \in Nat /\ w \in Nat /\ l \in Nat
        /\ buyer \in Account
    BY InputsAreNat, BoardAssumption DEF IInv
  <2> QED
    BY <2>1, <2>2, JobPosted
<1>3. CASE ClaimOpening
  BY <1>3, OpeningTaken DEF ClaimOpening
<1>4. CASE ReturnOpening
  BY <1>4, OpeningRepaid DEF ReturnOpening, refund_unclaimed, cancel_open
<1>5. CASE UNCHANGED openings
  BY <1>5 DEF OpeningsInv
<1> QED
  BY <1>1, <1>2, <1>3, <1>4, <1>5

\* Changing one wave into another legal one keeps them legal.
LEMMA OneBatchChanges ==
  ASSUME BatchesInv, NEW b \in BatchId, NEW batch \in PostedBatch,
         batches' = [p \in DOMAIN batches \cup {b} |-> IF p = b THEN batch ELSE batches[p]]
  PROVE  BatchesInv'
BY DEF BatchesInv

\* A post, a claim, a hold given back and a drain leave every wave legal.
LEMMA WavePosted ==
  ASSUME IInv, BatchesInv, NEW buyer \in Account, NEW b \in BatchId, NEW payment \in Nat,
         NEW slots \in Nat, NEW until \in Nat, NEW sla \in Nat, NEW w \in Nat,
         NEW l \in Nat, NEW m \in Nat,
         create_batch_open(buyer, b, payment, slots, until, sla, w, l, m)
  PROVE  BatchesInv'
<1> DEFINE amount == payment \div slots
           batch  == [buyer |-> buyer, escrow |-> payment, amount |-> amount,
                      slots_total |-> slots, slots_remaining |-> slots,
                      fee_bps |-> cfg.fee_bps, open_until_ms |-> until, sla_ms |-> sla,
                      review_window_ms |-> w, reject_split_bps |-> BPS_DENOMINATOR,
                      claim_policy |-> CLAIM_POLICY_ANY_ACTIVE, min_seller_level |-> l,
                      max_claims_per_agent |-> m,
                      claims_by_agent |-> [a \in Account |-> 0], active_claims |-> TRUE,
                      returned |-> 0]
<1>1. /\ slots \in 1..cfg.max_batch_slots
      /\ PostInRange(amount, until, sla, w, l)
      /\ batches' = [p \in DOMAIN batches \cup {b} |-> IF p = b THEN batch ELSE batches[p]]
  BY DEF create_batch_open
<1>2. CLAIM_POLICY_ANY_ACTIVE \in ClaimPolicy
  BY DEF ClaimPolicy
<1>3. slots \in Nat \ {0}
  BY <1>1 DEF IInv, ConfigInv, Config
<1>4. amount \in Nat
  BY <1>3, DivRoundsDown
<1> HIDE DEF amount
<1>5. batch \in PostedBatch
  BY <1>1, <1>2, <1>3, <1>4, PostBounds DEF PostedBatch
<1> HIDE DEF batch
<1> QED
  BY <1>1, <1>5, OneBatchChanges

LEMMA SlotTaken ==
  ASSUME BatchesInv, NEW claimer \in Account, NEW b \in DOMAIN batches, NEW j \in JobId,
         batch_claim(claimer, b, j)
  PROVE  BatchesInv'
<1>1. /\ batches[b] \in PostedBatch
      /\ batches[b].slots_remaining > 0 /\ batches[b].escrow >= batches[b].amount
      /\ batches' = [batches EXCEPT ![b].escrow = @ - batches[b].amount,
                                    ![b].slots_remaining = @ - 1,
                                    ![b].claims_by_agent[claimer] = @ + 1]
  BY DEF batch_claim, may_claim_slot, BatchesInv
<1>2. /\ batches[b].escrow - batches[b].amount \in Nat
      /\ batches[b].slots_remaining - 1 \in Nat
      /\ [batches[b].claims_by_agent EXCEPT ![claimer] = @ + 1] \in [Account -> Nat]
  BY <1>1 DEF PostedBatch
<1> QED
  BY <1>1, <1>2 DEF BatchesInv, PostedBatch

LEMMA FreedWaveLegal ==
  ASSUME IInv, BatchesInv, NEW b, NEW j \in DOMAIN jobs, free_wave_hold(b, jobs[j])
  PROVE  BatchesInv'
<1> DEFINE claims == batches[b].claims_by_agent
           after  == IF hold_released(jobs[j]) THEN claims[jobs[j].seller]
                     ELSE IF claims[jobs[j].seller] > 0 THEN claims[jobs[j].seller] - 1
                     ELSE 0
           freed  == [claims EXCEPT ![jobs[j].seller] = after]
<1>1. CASE b \notin DOMAIN batches
  BY <1>1 DEF free_wave_hold, BatchesInv
<1>2. CASE b \in DOMAIN batches
  <2>1. batches[b] \in PostedBatch
    BY <1>2 DEF BatchesInv
  <2>2. freed \in [Account -> Nat]
    <3>1. claims \in [Account -> Nat] /\ jobs[j].seller \in Account
      BY <2>1 DEF PostedBatch, IInv, JobsInv, Job
    <3>2. after \in Nat
      BY <3>1
    <3> HIDE DEF claims, after
    <3> QED
      BY <3>1, <3>2
  <2>3. batches' = [batches EXCEPT ![b].claims_by_agent = freed]
    BY DEF free_wave_hold
  <2> HIDE DEF freed
  <2> QED
    BY <1>2, <2>1, <2>2, <2>3 DEF BatchesInv, PostedBatch
<1> QED
  BY <1>1, <1>2

LEMMA WaveDrained ==
  ASSUME BatchesInv, NEW b \in DOMAIN batches, drain_remainder(b)
  PROVE  BatchesInv'
<1>1. /\ batches[b] \in PostedBatch
      /\ batches' = [batches EXCEPT ![b].slots_remaining = 0, ![b].escrow = 0,
                                    ![b].returned = @ + batches[b].escrow]
  BY DEF drain_remainder, BatchesInv
<1> QED
  BY <1>1 DEF BatchesInv, PostedBatch

LEMMA BatchesStep ==
  ASSUME IInv, BatchesInv, [MarketNext]_marketVars
  PROVE  BatchesInv'
<1>1. PostBatch \/ ClaimSlot \/ BatchDoors \/ ReturnSlots \/ UNCHANGED batches
  BY DEF MarketNext, BatchNext, marketVars
<1>2. CASE PostBatch
  <2>1. PICK buyer \in Poster, b \in BatchId, payment \in Payment, slots \in SlotsTotal,
             d \in OpenWindow, sla, w \in Duration, l \in MinLevel, m \in MaxClaims :
          create_batch_open(buyer, b, payment, slots, now + d, sla, w, l, m)
    BY <1>2 DEF PostBatch
  <2>2. /\ payment \in Nat /\ slots \in Nat /\ m \in Nat /\ now + d \in Nat
        /\ sla \in Nat /\ w \in Nat /\ l \in Nat /\ buyer \in Account
    BY InputsAreNat, BoardAssumption, BatchAssumption DEF IInv
  <2> QED
    BY <2>1, <2>2, WavePosted
<1>3. CASE ClaimSlot
  BY <1>3, SlotTaken DEF ClaimSlot
<1>4. CASE BatchDoors
  <2>1. PICK b \in DOMAIN batches, j \in DOMAIN jobs : free_wave_hold(b, jobs[j])
    BY <1>4 DEF BatchDoors, batch_refund, batch_release, batch_reject,
       batch_reject_agent_buyer, batch_deliver_v2
  <2> QED
    BY <2>1, FreedWaveLegal
<1>5. CASE ReturnSlots
  BY <1>5, WaveDrained DEF ReturnSlots, refund_batch_expired, cancel_batch_open
<1>6. CASE UNCHANGED batches
  BY <1>6 DEF BatchesInv
<1> QED
  BY <1>1, <1>2, <1>3, <1>4, <1>5, <1>6
-----------------------------------------------------------------------------
(***************************************************************************)
(* The money of an open job.                                               *)
(***************************************************************************)

\* Where the money of one Opening is, given the Jobs.
FundsPlaced(op, table) ==
  /\ op.state = OPEN    => op.escrow = op.amount /\ op.repaid = 0 /\ op.job = NoJob
  /\ op.state = REPAID  => op.escrow = 0 /\ op.repaid = op.amount /\ op.job = NoJob
  /\ op.state = CLAIMED =>
       /\ op.escrow = 0 /\ op.repaid = 0
       /\ op.job \in DOMAIN table
       /\ table[op.job].amount = op.amount /\ table[op.job].buyer = op.buyer
       /\ table[op.job].fee_bps = op.fee_bps

NoJobShared ==
  \A o, p \in DOMAIN openings :
    openings[o].job = openings[p].job /\ openings[o].job # NoJob => o = p

LEMMA FundsByParts ==
  OpeningFundsGoOnce <=>
    (\A o \in DOMAIN openings : FundsPlaced(openings[o], jobs)) /\ NoJobShared
BY DEF OpeningFundsGoOnce, FundsPlaced, NoJobShared

\* What a Job was minted for never changes, so the money stays where it is.
LEMMA FundsStayPlaced ==
  ASSUME TermsStay, NEW op, FundsPlaced(op, jobs)
  PROVE  FundsPlaced(op, jobs')
<1>1. {"amount", "buyer", "fee_bps"} \subseteq Term
  BY DEF Term
<1> QED
  BY <1>1 DEF FundsPlaced, TermsStay

LEMMA FundsStep ==
  ASSUME IInv, OpeningsInv, OpeningFundsGoOnce, TermsStay, [MarketNext]_marketVars
  PROVE  OpeningFundsGoOnce'
<1>0. /\ \A o \in DOMAIN openings : FundsPlaced(openings[o], jobs')
      /\ NoJobShared
  BY FundsByParts, FundsStayPlaced
<1>1. PostOpening \/ ClaimOpening \/ ReturnOpening \/ UNCHANGED openings
  BY DEF MarketNext, OpeningNext, marketVars
<1>2. SUFFICES (\A o \in DOMAIN openings' : FundsPlaced(openings'[o], jobs')) /\ NoJobShared'
  BY DEF OpeningFundsGoOnce, FundsPlaced, NoJobShared
<1>3. CASE PostOpening
  <2>1. PICK o, op :
          /\ o \in OpeningId /\ o \notin DOMAIN openings
          /\ op.escrow = op.amount /\ op.repaid = 0 /\ op.job = NoJob /\ op.state = OPEN
          /\ openings' = [p \in DOMAIN openings \cup {o} |->
                            IF p = o THEN op ELSE openings[p]]
    BY <1>3 DEF PostOpening, create_open_v2
  <2>2. FundsPlaced(op, jobs')
    BY <2>1 DEF FundsPlaced, OPEN, CLAIMED, REPAID
  <2> QED
    BY <1>0, <2>1, <2>2 DEF NoJobShared
<1>4. CASE ClaimOpening
  <2>1. PICK claimer \in Account, o \in DOMAIN openings, j \in JobId :
          claim_v2(claimer, o, j) \/ claim_proven_v2(claimer, o, j)
    BY <1>4 DEF ClaimOpening
  <2> DEFINE before == openings[o]
             after  == [before EXCEPT !.state = CLAIMED, !.escrow = 0, !.job = j]
  <2>2. /\ before \in PostedOpening /\ before.state = OPEN
        /\ create_claimed(before.buyer, claimer, j, before.escrow, before.fee_bps,
                          now + before.sla_ms, before.review_window_ms,
                          before.reject_split_bps, NoBatch)
        /\ openings' = [openings EXCEPT ![o] = after]
    <3>1. /\ openings[o] \in PostedOpening /\ openings[o].state = OPEN
          /\ create_claimed(openings[o].buyer, claimer, j, openings[o].escrow,
                            openings[o].fee_bps, now + openings[o].sla_ms,
                            openings[o].review_window_ms,
                            openings[o].reject_split_bps, NoBatch)
          /\ openings' = [openings EXCEPT ![o].state = CLAIMED, ![o].escrow = 0, ![o].job = j]
      BY <2>1, OpeningClaimMints
    <3>2. openings' = [openings EXCEPT ![o] = after]
      BY <3>1
    <3> QED
      BY <3>1, <3>2
  <2>3. before.escrow = before.amount /\ before.repaid = 0
    BY <2>2 DEF OpeningFundsGoOnce
  <2>4. /\ j \notin DOMAIN jobs /\ j # NoJob /\ j \in DOMAIN jobs'
        /\ jobs'[j].amount = before.amount /\ jobs'[j].buyer = before.buyer
        /\ jobs'[j].fee_bps = before.fee_bps
    BY <2>2, <2>3, OpeningAssumption DEF create_claimed, share, NewJob
  <2>5. FundsPlaced(after, jobs') /\ after.job = j
    BY <2>2, <2>3, <2>4 DEF PostedOpening, FundsPlaced, OPEN, CLAIMED, REPAID
  <2>6. \A p \in DOMAIN openings : openings[p].job # j
    <3> SUFFICES ASSUME NEW p \in DOMAIN openings PROVE openings[p].job # j
      OBVIOUS
    <3>1. openings[p].state \in {OPEN, CLAIMED, REPAID}
      BY DEF OpeningsInv, PostedOpening
    <3> QED
      BY <2>4, <3>1 DEF OpeningFundsGoOnce
  <2> HIDE DEF after, before
  <2> QED
    BY <1>0, <2>2, <2>5, <2>6 DEF NoJobShared, OpeningsInv
<1>5. CASE ReturnOpening
  <2>1. PICK o \in DOMAIN openings : repay_buyer(o)
    BY <1>5 DEF ReturnOpening, refund_unclaimed, cancel_open
  <2> DEFINE before == openings[o]
             after  == [before EXCEPT !.state = REPAID, !.escrow = 0, !.repaid = before.escrow]
  <2>2. /\ before \in PostedOpening /\ before.state = OPEN
        /\ openings' = [openings EXCEPT ![o] = after]
    BY <2>1 DEF repay_buyer, is_open, OpeningsInv
  <2>3. before.escrow = before.amount /\ before.repaid = 0 /\ before.job = NoJob
    BY <2>2 DEF OpeningFundsGoOnce
  <2>4. FundsPlaced(after, jobs') /\ after.job = before.job
    BY <2>2, <2>3 DEF PostedOpening, FundsPlaced, OPEN, CLAIMED, REPAID
  <2> HIDE DEF after
  <2> QED
    BY <1>0, <2>2, <2>4 DEF NoJobShared, OpeningsInv
<1>6. CASE UNCHANGED openings
  BY <1>0, <1>6 DEF NoJobShared
<1> QED
  BY <1>1, <1>3, <1>4, <1>5, <1>6
-----------------------------------------------------------------------------
(***************************************************************************)
(* The inductive invariant and what follows of it alone.                   *)
(***************************************************************************)

MarketInv == IInv /\ PostsInv /\ OpeningFundsGoOnce

LEMMA MarketInitInv == MarketInit => MarketInv
<1> SUFFICES ASSUME MarketInit PROVE MarketInv
  OBVIOUS
<1>1. IInv
  BY InitInv DEF MarketInit
<1>2. PostsInv
  BY DEF MarketInit, PostsInv, OpeningsInv, BatchesInv
<1>3. OpeningFundsGoOnce
  BY DEF MarketInit, OpeningFundsGoOnce
<1> QED
  BY <1>1, <1>2, <1>3 DEF MarketInv

LEMMA MarketNextInv == MarketInv /\ [MarketNext]_marketVars => MarketInv'
BY JobsStep, OpeningsStep, BatchesStep, FundsStep DEF MarketInv, PostsInv

\* The inductive invariant holds in every reachable state of the marketplace.
THEOREM MarketInductive == MarketSpec => []MarketInv
BY MarketInitInv, MarketNextInv, PTL DEF MarketSpec

\* The money of every Job, hired or claimed, is in it until it is all paid out,
\* through every door of every module.
THEOREM MarketMoneyIsBacked == MarketSpec => []EscrowBacked
<1>1. MarketInv => EscrowBacked
  BY DEF MarketInv, IInv, JobsInv, JobInv, EscrowBacked
<1> QED
  BY <1>1, MarketInductive, PTL

\* No door, post, claim, crank or setter moves the terms of a Job.
THEOREM MarketTermsAreFixed == MarketSpec => TermsNeverMove
<1>1. MarketInv /\ [MarketNext]_marketVars => [TermsStay]_escrowVars
  BY JobsStep DEF MarketInv
<1>2. [TermsStay]_escrowVars <=> [\A j \in DOMAIN jobs :
         /\ j \in DOMAIN jobs'
         /\ \A term \in Term : jobs'[j][term] = jobs[j][term]
         /\ jobs[j].state \notin Live => jobs'[j] = jobs[j]]_escrowVars
  BY DEF TermsStay
<1> QED
  BY <1>1, <1>2, MarketInductive, PTL DEF MarketSpec, TermsNeverMove

\* The marketplace keeps the escrow's promise: what a hire or a claim locks is
\* paid out once, whole, whichever module's door settles it.
THEOREM MarketPromiseIsKept == MarketSpec => KeepsPromise
<1>1. MarketInit => Promise!PromiseInit
  BY SameMoney DEF MarketInit, EscrowInit, Promise!PromiseInit, Promise!Nothing, Ledger
<1>2. MarketInv /\ [MarketNext]_marketVars => [Promise!PromiseNext]_Ledger
  BY JobsStep DEF MarketInv
<1> QED
  BY <1>1, <1>2, MarketInductive, PTL DEF MarketSpec, KeepsPromise, Promise!PromiseSpec

\* What `create_open_v2` accepts can be minted for as long as it can be claimed,
\* whatever the administrator has set since: the post's own bounds are within
\* those of the mint, and the fee was a legal one when it was written.
THEOREM PostsStayMintable == MarketSpec => []OpeningMintable
<1>1. MarketInv => OpeningMintable
  <2> SUFFICES ASSUME MarketInv, NEW o \in DOMAIN openings, is_open(o)
               PROVE  LET op == openings[o] IN
                      /\ op.escrow > 0 /\ op.fee_bps <= MAX_FEE_BPS
                      /\ TermsInRange(now + op.sla_ms, op.review_window_ms,
                                      op.reject_split_bps)
    BY DEF OpeningMintable
  <2>1. openings[o] \in PostedOpening /\ openings[o].escrow = openings[o].amount
    BY DEF MarketInv, PostsInv, OpeningsInv, OpeningFundsGoOnce, is_open
  <2>2. now \in Nat /\ now <= MaxNow
    BY EscrowAssumption DEF MarketInv, IInv
  <2> QED
    BY <2>1, <2>2, EscrowAssumption, ClockAssumption, BpsAssumption
    DEF PostedOpening, TermsInRange, FitsU64
<1> QED
  BY <1>1, MarketInductive, PTL

\* An Opening's money is in one place, whatever claimers, cancels and cranks do:
\* in the Opening, in the one Job it became, or back with its buyer.
THEOREM OpeningFundsPlaced == MarketSpec => []OpeningFundsGoOnce
<1>1. MarketInv => OpeningFundsGoOnce
  BY DEF MarketInv
<1> QED
  BY <1>1, MarketInductive, PTL
-----------------------------------------------------------------------------
(***************************************************************************)
(* Versions.                                                               *)
(***************************************************************************)

\* The deployed package finds another package's version and moves nothing.
Frozen ==
  cfg.version # VERSION =>
    /\ UNCHANGED <<jobs, scores, openings, batches>>
    /\ cfg' = [cfg EXCEPT !.version = cfg'.version]

\* Under another version no door of any module is open: what is left is the
\* clock, the registry and a cutover.
THEOREM StaleConfigFreezes == MarketSpec => StaleConfigFreezesMarket
<1>1. MarketInv /\ [MarketNext]_marketVars => [Frozen]_marketVars
  <2> SUFFICES ASSUME MarketInv, MarketNext, cfg.version # VERSION PROVE Frozen
    BY DEF Frozen
  <2>0. ~assert_version /\ cfg \in Config
    BY DEF assert_version, MarketInv, IInv, ConfigInv
  <2>1. cfg = [cfg EXCEPT !.version = cfg.version]
    BY <2>0 DEF Config
  <2>2. ASSUME NEW j, NEW marks, NEW sender
        PROVE  /\ ~deliver(sender, j, marks) /\ ~release_settle_pkg(sender, j, marks)
               /\ ~reject_settle_pkg(sender, j, marks)
               /\ ~decline_settle_pkg(sender, j, marks) /\ ~refund_settle_pkg(j, marks)
    BY <2>0 DEF deliver, can_deliver, release_settle_pkg, can_release, reject_settle_pkg,
       can_reject, decline_settle_pkg, can_decline, refund_settle_pkg, can_refund
  <2>3. ~Settle /\ ~RecordBoard /\ ~Hire /\ (\A field, value : ~SetCfg(field, value))
    BY <2>0, <2>2 DEF Settle, RecordBoard, Hire, create, SetCfg
  <2>4. ~ClaimOpening /\ ~ClaimSlot /\ ~Doors /\ ~BatchDoors
    <3>1. ASSUME NEW a, NEW buyer, NEW until, NEW level PROVE ~may_claim(a, buyer, until, level)
      BY <2>0 DEF may_claim
    <3>2. ~ClaimOpening
      BY <3>1 DEF ClaimOpening, claim_v2, claim_proven_v2, do_claim
    <3>3. ~ClaimSlot
      BY <3>1 DEF ClaimSlot, batch_claim, may_claim_slot
    <3> QED
      BY <2>3, <3>2, <3>3, DoorsSettle, BatchDoorsAreDoors
  <2>5. ~PostOpening /\ ~ReturnOpening /\ ~PostBatch /\ ~ReturnSlots
    <3>1. ASSUME NEW amount, NEW until, NEW sla, NEW window, NEW level
          PROVE  ~PostInRange(amount, until, sla, window, level)
      BY <2>0 DEF PostInRange
    <3>2. ~PostOpening
      <4>1. ASSUME NEW buyer, NEW o, NEW amount, NEW until, NEW sla, NEW window, NEW level
            PROVE  ~create_open_v2(buyer, o, amount, until, sla, window, level)
        BY <3>1, Zenon DEF create_open_v2
      <4> QED
        BY <4>1, Zenon DEF PostOpening
    <3>3. ~PostBatch
      <4>1. ASSUME NEW buyer, NEW b, NEW payment, NEW slots, NEW until, NEW sla,
                   NEW window, NEW level, NEW claims
            PROVE  ~create_batch_open(buyer, b, payment, slots, until, sla, window,
                                      level, claims)
        BY <3>1, Zenon DEF create_batch_open
      <4> QED
        BY <4>1, Zenon DEF PostBatch
    <3>4. ~ReturnOpening
      BY <2>0 DEF ReturnOpening, cancel_open, refund_unclaimed
    <3>5. ~ReturnSlots
      BY <2>0 DEF ReturnSlots, cancel_batch_open, refund_batch_expired
    <3> QED
      BY <3>2, <3>3, <3>4, <3>5
  <2>6. ~create_score_board /\ ~Review /\ ~Reconcile
        /\ \A a : ~create_empty_score(a)
    BY <2>0, <2>3
    DEF create_score_board, Review, submit_first_review, submit_review, Reconcile,
        set_active_seller_jobs, create_empty_score
  <2>7. EscrowAlone \/ RegistryAlone
    BY <2>4, <2>5, <2>6 DEF MarketNext, ReputationNext, OpeningNext, BatchNext
  <2>8. UNCHANGED <<scores, openings, batches>>
    BY <2>4, <2>5, <2>7 DEF MarketNext, OpeningNext, BatchNext, EscrowAlone, RegistryAlone
  <2>9. CASE RegistryAlone \/ Tick
    BY <2>1, <2>8, <2>9 DEF Frozen, RegistryAlone, escrowVars, Tick
  <2>10. CASE Admin
    <3>1. migrate \/ \E v \in NextVersion : migrate_successor(v)
      BY <2>3, <2>10 DEF Admin, set_fee_bps, set_fee_receiver, set_min_job_amount,
         set_max_job_amount, set_tier_active_cap, set_no_delivery_regression_floor,
         set_max_batch_slots
    <3>2. PICK v : cfg' = [cfg EXCEPT !.version = v] /\ UNCHANGED jobs
      BY <3>1 DEF migrate, migrate_successor
    <3> QED
      BY <2>0, <2>8, <3>2 DEF Frozen, Config
  <2> QED
    BY <2>3, <2>7, <2>9, <2>10 DEF EscrowAlone
<1>2. [Frozen]_marketVars <=>
        [cfg.version # VERSION =>
           /\ UNCHANGED <<jobs, scores, openings, batches>>
           /\ cfg' = [cfg EXCEPT !.version = cfg'.version]]_marketVars
  BY DEF Frozen
<1> QED
  BY <1>1, <1>2, MarketInductive, PTL DEF MarketSpec, StaleConfigFreezesMarket
-----------------------------------------------------------------------------
(***************************************************************************)
(* The marketplace as an implementation of the escrow.  What callers try   *)
(* is bounded by sets, in Escrow as in the posts: they must fit together.  *)
(***************************************************************************)

\* What a claim may mint is among what the escrow's callers try.
BoundsFit ==
  /\ LaunchCfg.fee_bps \in FeeBps
  /\ BPS_DENOMINATOR \in Split
  /\ \A payment \in Payment, slots \in SlotsTotal :
       (payment \div slots) * slots = payment => payment \div slots \in Amount

Tried(post) == post.fee_bps \in FeeBps /\ {post.sla_ms, post.review_window_ms} \subseteq Duration

PostsTried ==
  /\ cfg.fee_bps \in FeeBps
  /\ \A o \in DOMAIN openings : /\ Tried(openings[o])
                                /\ is_open(o) => openings[o].escrow \in Amount
  /\ \A b \in DOMAIN batches : Tried(batches[b]) /\ batches[b].amount \in Amount

LEMMA FeeTried ==
  ASSUME IInv, cfg.fee_bps \in FeeBps, EscrowPart
  PROVE  cfg'.fee_bps \in FeeBps
<1>1. cfg \in Config
  BY DEF IInv, ConfigInv
<1>2. ASSUME NEW field \in DOMAIN cfg \ {"fee_bps"}, NEW value, SetCfg(field, value)
      PROVE  cfg'.fee_bps \in FeeBps
  BY <1>1, <1>2 DEF SetCfg, Config
<1>3. CASE Admin
  <2>1. ASSUME NEW bps \in FeeBps, set_fee_bps(bps) PROVE cfg'.fee_bps \in FeeBps
    BY <1>1, <2>1 DEF set_fee_bps, SetCfg, Config
  <2>2. CASE migrate \/ \E v \in NextVersion : migrate_successor(v)
    BY <1>1, <2>2 DEF migrate, migrate_successor, Config
  <2>3. {"fee_receiver", "min_job_amount", "max_job_amount", "tier_active_cap",
         "no_delivery_floor", "max_batch_slots"} \subseteq DOMAIN cfg \ {"fee_bps"}
    BY <1>1 DEF Config
  <2> QED
    BY <1>2, <1>3, <2>1, <2>2, <2>3 DEF Admin, set_fee_receiver, set_min_job_amount,
       set_max_job_amount, set_tier_active_cap, set_no_delivery_regression_floor,
       set_max_batch_slots
<1>4. CASE RecordBoard
  BY <1>1, <1>4 DEF RecordBoard, record_score_board_pkg, Config
<1>5. Tick \/ Hire \/ Settle => UNCHANGED cfg
  BY DEF Tick, Hire, create, Settle, deliver, release_settle_pkg, reject_settle_pkg,
     decline_settle_pkg, refund_settle_pkg
<1> QED
  BY <1>3, <1>4, <1>5 DEF EscrowPart

LEMMA OpeningsTried ==
  ASSUME MarketInv, PostsTried, [MarketNext]_marketVars
  PROVE  \A o \in DOMAIN openings' : /\ Tried(openings'[o])
                                     /\ is_open(o)' => openings'[o].escrow \in Amount
<1>1. PostOpening \/ ClaimOpening \/ ReturnOpening \/ UNCHANGED openings
  BY DEF MarketNext, OpeningNext, marketVars
<1>2. OpeningsInv
  BY DEF MarketInv, PostsInv
<1>3. CASE PostOpening
  <2>1. PICK buyer \in Poster, o \in OpeningId, amount \in Amount, d \in OpenWindow,
             sla, w \in Duration, l \in MinLevel :
          create_open_v2(buyer, o, amount, now + d, sla, w, l)
    BY <1>3 DEF PostOpening
  <2>2. PICK op : /\ op.fee_bps = cfg.fee_bps /\ op.sla_ms = sla /\ op.review_window_ms = w
                  /\ op.escrow = amount
                  /\ openings' = [p \in DOMAIN openings \cup {o} |->
                                    IF p = o THEN op ELSE openings[p]]
    BY <2>1 DEF create_open_v2
  <2> QED
    BY <2>1, <2>2 DEF PostsTried, Tried, is_open
<1>4. ASSUME NEW o \in DOMAIN openings, NEW op, openings' = [openings EXCEPT ![o] = op],
             op.fee_bps = openings[o].fee_bps, op.sla_ms = openings[o].sla_ms,
             op.review_window_ms = openings[o].review_window_ms, op.state # OPEN
      PROVE  \A p \in DOMAIN openings' : /\ Tried(openings'[p])
                                         /\ is_open(p)' => openings'[p].escrow \in Amount
  BY <1>4 DEF PostsTried, Tried, is_open
<1>5. CASE ClaimOpening
  <2>1. PICK claimer \in Account, o \in DOMAIN openings, j \in JobId :
          claim_v2(claimer, o, j) \/ claim_proven_v2(claimer, o, j)
    BY <1>5 DEF ClaimOpening
  <2> DEFINE op == [[[openings[o] EXCEPT !.state = CLAIMED] EXCEPT !.escrow = 0] EXCEPT !.job = j]
  <2>2. openings[o] \in PostedOpening /\ openings' = [openings EXCEPT ![o] = op]
    <3>1. /\ openings[o] \in PostedOpening
          /\ openings' = [openings EXCEPT ![o].state = CLAIMED, ![o].escrow = 0, ![o].job = j]
      BY <1>2, <2>1, OpeningClaimMints
    <3> QED
      BY <3>1
  <2>3. /\ op.fee_bps = openings[o].fee_bps /\ op.sla_ms = openings[o].sla_ms
        /\ op.review_window_ms = openings[o].review_window_ms /\ op.state # OPEN
    BY <2>2 DEF PostedOpening, OPEN, CLAIMED
  <2> HIDE DEF op
  <2> QED
    BY <1>4, <2>2, <2>3
<1>6. CASE ReturnOpening
  <2>1. PICK o \in DOMAIN openings : repay_buyer(o)
    BY <1>6 DEF ReturnOpening, refund_unclaimed, cancel_open
  <2> DEFINE op == [[[openings[o] EXCEPT !.state = REPAID] EXCEPT !.escrow = 0]
                      EXCEPT !.repaid = openings[o].escrow]
  <2>2. openings[o] \in PostedOpening /\ openings' = [openings EXCEPT ![o] = op]
    <3>1. openings[o] \in PostedOpening
      BY <1>2 DEF OpeningsInv
    <3> QED
      BY <2>1, <3>1 DEF repay_buyer
  <2>3. /\ op.fee_bps = openings[o].fee_bps /\ op.sla_ms = openings[o].sla_ms
        /\ op.review_window_ms = openings[o].review_window_ms /\ op.state # OPEN
    BY <2>2 DEF PostedOpening, OPEN, REPAID
  <2> HIDE DEF op
  <2> QED
    BY <1>4, <2>2, <2>3
<1>7. CASE UNCHANGED openings
  BY <1>7 DEF PostsTried, is_open
<1> QED
  BY <1>1, <1>3, <1>5, <1>6, <1>7

LEMMA BatchesTried ==
  ASSUME BoundsFit, MarketInv, PostsTried, [MarketNext]_marketVars
  PROVE  \A b \in DOMAIN batches' : Tried(batches'[b]) /\ batches'[b].amount \in Amount
<1>1. PostBatch \/ ClaimSlot \/ BatchDoors \/ ReturnSlots \/ UNCHANGED batches
  BY DEF MarketNext, BatchNext, marketVars
<1>2. \A b \in DOMAIN batches : batches[b] \in PostedBatch
  BY DEF MarketInv, PostsInv, BatchesInv
<1>3. CASE PostBatch
  <2>1. PICK buyer \in Poster, b \in BatchId, payment \in Payment, slots \in SlotsTotal,
             d \in OpenWindow, sla, w \in Duration, l \in MinLevel, m \in MaxClaims :
          create_batch_open(buyer, b, payment, slots, now + d, sla, w, l, m)
    BY <1>3 DEF PostBatch
  <2>2. PICK batch : /\ batch.fee_bps = cfg.fee_bps /\ batch.sla_ms = sla
                     /\ batch.review_window_ms = w /\ batch.amount = payment \div slots
                     /\ batches' = [p \in DOMAIN batches \cup {b} |->
                                      IF p = b THEN batch ELSE batches[p]]
    BY <2>1 DEF create_batch_open
  <2>3. payment \div slots \in Amount
    BY <2>1 DEF BoundsFit, create_batch_open
  <2> QED
    BY <2>1, <2>2, <2>3 DEF PostsTried, Tried
<1>4. ASSUME /\ DOMAIN batches' = DOMAIN batches
             /\ \A b \in DOMAIN batches :
                  /\ batches'[b].fee_bps = batches[b].fee_bps
                  /\ batches'[b].sla_ms = batches[b].sla_ms
                  /\ batches'[b].review_window_ms = batches[b].review_window_ms
                  /\ batches'[b].amount = batches[b].amount
      PROVE  \A b \in DOMAIN batches' : Tried(batches'[b]) /\ batches'[b].amount \in Amount
  BY <1>4 DEF PostsTried, Tried
<1>5. CASE ClaimSlot
  <2>1. PICK claimer \in Account, b \in DOMAIN batches, j \in JobId : batch_claim(claimer, b, j)
    BY <1>5 DEF ClaimSlot
  <2>2. batches[b] \in PostedBatch
    BY <1>2
  <2> QED
    BY <1>4, <2>1, <2>2 DEF batch_claim, PostedBatch
<1>6. ASSUME NEW b \in DOMAIN batches, NEW job, free_wave_hold(b, job)
      PROVE  \A c \in DOMAIN batches' : Tried(batches'[c]) /\ batches'[c].amount \in Amount
  <2>1. batches[b] \in PostedBatch
    BY <1>2
  <2> QED
    BY <1>4, <1>6, <2>1 DEF free_wave_hold, PostedBatch
<1>7. CASE BatchDoors
  BY <1>6, <1>7 DEF BatchDoors, batch_refund, batch_release, batch_reject,
     batch_reject_agent_buyer, batch_deliver_v2
<1>8. CASE ReturnSlots
  <2>1. PICK b \in DOMAIN batches : drain_remainder(b)
    BY <1>8 DEF ReturnSlots, cancel_batch_open, refund_batch_expired
  <2>2. batches[b] \in PostedBatch
    BY <1>2
  <2> QED
    BY <1>4, <2>1, <2>2 DEF drain_remainder, PostedBatch
<1>9. CASE UNCHANGED batches
  BY <1>4, <1>9
<1> QED
  BY <1>1, <1>3, <1>5, <1>7, <1>8, <1>9

LEMMA TriedStep ==
  ASSUME BoundsFit, MarketInv, PostsTried, [MarketNext]_marketVars
  PROVE  PostsTried'
<1>1. cfg'.fee_bps \in FeeBps
  <2>1. EscrowPart \/ UNCHANGED escrowVars \/ ClaimOpening \/ ClaimSlot
    BY MarketStep DEF marketVars, reputationVars
  <2>2. EscrowPart => cfg'.fee_bps \in FeeBps
    BY FeeTried DEF MarketInv, PostsTried
  <2>3. ClaimOpening => UNCHANGED cfg
    <3>1. ASSUME NEW claimer, NEW o, NEW j, do_claim(claimer, o, j) PROVE UNCHANGED cfg
      BY <3>1 DEF do_claim, create_claimed
    <3> QED
      BY <3>1 DEF ClaimOpening, claim_v2, claim_proven_v2
  <2>4. ClaimSlot => UNCHANGED cfg
    BY DEF ClaimSlot, batch_claim, create_claimed
  <2> QED
    BY <2>1, <2>2, <2>3, <2>4 DEF escrowVars, PostsTried
<1> QED
  BY <1>1, OpeningsTried, BatchesTried DEF PostsTried

\* A claim is a mint of the escrow; every other step is one of its own or none.
LEMMA EscrowStep ==
  ASSUME BoundsFit, MarketInv, PostsTried, [MarketNext]_marketVars
  PROVE  [EscrowNext]_escrowVars
<1>1. EscrowPart \/ UNCHANGED escrowVars \/ ClaimOpening \/ ClaimSlot
  BY MarketStep DEF marketVars, reputationVars
<1>2. ASSUME NEW post, NEW seller \in Account, NEW j \in JobId, NEW amount \in Amount,
             NEW origin \in BatchId \cup {NoBatch},
             post.buyer \in Account, Tried(post), post.reject_split_bps = BPS_DENOMINATOR,
             create_claimed(post.buyer, seller, j, amount, post.fee_bps, now + post.sla_ms,
                            post.review_window_ms, post.reject_split_bps, origin)
      PROVE  Mint
  <2>1. post.reject_split_bps \in Split
    BY <1>2 DEF BoundsFit
  <2>2. /\ post.fee_bps \in FeeBps /\ post.sla_ms \in Duration
        /\ post.review_window_ms \in Duration
    BY <1>2 DEF Tried
  <2> QED
    BY <1>2, <2>1, <2>2, Zenon DEF Mint
<1>3. CASE ClaimOpening
  <2>1. PICK claimer \in Account, o \in DOMAIN openings, j \in JobId :
          claim_v2(claimer, o, j) \/ claim_proven_v2(claimer, o, j)
    BY <1>3 DEF ClaimOpening
  <2> DEFINE op == openings[o]
  <2>2. /\ op \in PostedOpening /\ op.state = OPEN
        /\ create_claimed(op.buyer, claimer, j, op.escrow, op.fee_bps, now + op.sla_ms,
                          op.review_window_ms, op.reject_split_bps, NoBatch)
    BY <2>1, OpeningClaimMints DEF MarketInv, PostsInv
  <2>3. Tried(op) /\ op.escrow \in Amount
    BY <2>2 DEF PostsTried, is_open
  <2> HIDE DEF op
  <2>4. op.buyer \in Account /\ op.reject_split_bps = BPS_DENOMINATOR
    BY <2>2 DEF PostedOpening
  <2> QED
    BY <1>2, <2>2, <2>3, <2>4 DEF EscrowNext
<1>4. CASE ClaimSlot
  <2>1. PICK claimer \in Account, b \in DOMAIN batches, j \in JobId : batch_claim(claimer, b, j)
    BY <1>4 DEF ClaimSlot
  <2> DEFINE batch == batches[b]
  <2>2. /\ batch \in PostedBatch /\ b \in BatchId
        /\ create_claimed(batch.buyer, claimer, j, batch.amount, batch.fee_bps,
                          now + batch.sla_ms, batch.review_window_ms,
                          batch.reject_split_bps, b)
    BY <2>1, SlotClaimMints DEF MarketInv, PostsInv
  <2>3. Tried(batch) /\ batch.amount \in Amount
    BY DEF PostsTried
  <2> HIDE DEF batch
  <2>4. batch.buyer \in Account /\ batch.reject_split_bps = BPS_DENOMINATOR
    BY <2>2 DEF PostedBatch
  <2> QED
    BY <1>2, <2>2, <2>3, <2>4 DEF EscrowNext
<1> QED
  BY <1>1, <1>3, <1>4 DEF EscrowPart, EscrowNext

\* The marketplace implements the escrow: whatever its modules do together, Jobs,
\* settings and clock move only by the escrow's own steps.
THEOREM MarketImplementsEscrow ==
  ASSUME BoundsFit
  PROVE  MarketSpec => EscrowAllows
<1>1. MarketInit => EscrowInit /\ PostsTried
  BY DEF MarketInit, EscrowInit, PostsTried, BoundsFit
<1>2. MarketInv /\ PostsTried /\ [MarketNext]_marketVars => PostsTried'
  BY TriedStep
<1>3. MarketInv /\ PostsTried /\ [MarketNext]_marketVars => [EscrowNext]_escrowVars
  BY EscrowStep
<1> QED
  BY <1>1, <1>2, <1>3, MarketInductive, PTL DEF MarketSpec, EscrowAllows, EscrowSpec
=============================================================================
