----------------------------- MODULE DeskProofs -----------------------------
(***************************************************************************)
(* What holds of a wallet at the marketplace, whatever everybody else does *)
(* there between two of its calls: for every account, amount and interval, *)
(* any number of Jobs and posts, and any index that lags.  A bulk          *)
(* transaction settles many Jobs in one step, so the escrow's invariant is *)
(* carried through it first.                                               *)
(***************************************************************************)
EXTENDS JobDesk, DoorProofs, SequenceTheorems
-----------------------------------------------------------------------------
(***************************************************************************)
(* What a step of the desk is to the market: somebody's tick, door, hire,  *)
(* post, claim or return, or a bulk settlement, none of them bound to the  *)
(* values that callers of the market's own next-state relation try.        *)
(***************************************************************************)

Still == UNCHANGED <<escrowVars, openings, batches>>

Settles ==
  /\ Settle /\ UNCHANGED openings
  /\ \/ UNCHANGED batches
     \/ \E b : \E j \in DOMAIN jobs : free_wave_hold(b, jobs[j])

Hires(buyer, amount) ==
  /\ \E seller \in Account, j \in JobId, t, w, s \in Nat :
       create(buyer, seller, j, amount, t, w, s)
  /\ UNCHANGED <<openings, batches>>

PostsJob(buyer, amount) ==
  /\ \E o \in OpeningId, t, sla, w, l \in Nat :
       create_open_v2(buyer, o, amount, t, sla, w, l)
  /\ UNCHANGED batches

PostsWave(buyer, payment) ==
  /\ \E b \in BatchId, slots, t, sla, w, l, m \in Nat :
       create_batch_open(buyer, b, payment, slots, t, sla, w, l, m)
  /\ UNCHANGED openings

Claims ==
  \/ /\ \E claimer \in Account, o \in DOMAIN openings, j \in JobId : claim_v2(claimer, o, j)
     /\ UNCHANGED batches
  \/ /\ \E claimer \in Account, b \in DOMAIN batches, j \in JobId : batch_claim(claimer, b, j)
     /\ UNCHANGED openings

Returns ==
  \/ (\E o \in DOMAIN openings : repay_buyer(o)) /\ UNCHANGED batches
  \/ (\E b \in DOMAIN batches : drain_remainder(b)) /\ UNCHANGED openings

Bulk == \E S \in SUBSET DOMAIN jobs : ReleaseAll(S) \/ RefundAll(S)

\* A delivery leaves the time it was made.
Stamped == \A j \in DOMAIN jobs : jobs[j].state = DELIVERED => jobs[j].delivered_at_ms > 0

ChainInv ==
  /\ IInv /\ PostsInv /\ Stamped
  /\ IsFiniteSet(DOMAIN jobs) /\ IsFiniteSet(DOMAIN openings) /\ IsFiniteSet(DOMAIN batches)
  /\ cfg = LaunchCfg

\* No Job goes back to where nothing was delivered.
Onward ==
  \A j \in DOMAIN jobs : j \in DOMAIN jobs' /\ (jobs[j].state # FUNDED => jobs'[j].state # FUNDED)

Grows == DOMAIN openings \subseteq DOMAIN openings' /\ DOMAIN batches \subseteq DOMAIN batches'

Kept == ChainInv' /\ TermsStay /\ Onward /\ Grows

\* The Jobs a step leaves alone are as good as they were.
LEMMA JobsStill ==
  ASSUME UNCHANGED jobs
  PROVE  /\ TermsStay /\ Onward
         /\ Stamped => Stamped'
         /\ IsFiniteSet(DOMAIN jobs) => IsFiniteSet(DOMAIN jobs')
BY DEF TermsStay, Onward, Stamped

\* So are the others when one is delivered or settled ...
LEMMA OneMovesOn ==
  ASSUME IInv, Stamped, NEW j \in DOMAIN jobs, NEW job \in Job, OneMoves(j, job)
  PROVE  Stamped' /\ Onward /\ DOMAIN jobs' = DOMAIN jobs
<1>1. /\ jobs' = [jobs EXCEPT ![j] = job]
      /\ job.state # FUNDED
      /\ job.state = DELIVERED => job.delivered_at_ms = now
  BY DEF OneMoves, Live, FUNDED, DELIVERED
<1>2. now > 0
  BY DEF IInv
<1>3. \A k \in DOMAIN jobs : jobs'[k] = IF k = j THEN job ELSE jobs[k]
  BY <1>1
<1> QED
  BY <1>1, <1>2, <1>3 DEF Stamped, Onward

\* ... and when a new one is shared.
LEMMA OneMoreJob ==
  ASSUME Stamped, IsFiniteSet(DOMAIN jobs), NEW j \in JobId \ DOMAIN jobs, NEW job,
         job.state = FUNDED, share(j, job)
  PROVE  Stamped' /\ Onward /\ IsFiniteSet(DOMAIN jobs')
<1>1. /\ DOMAIN jobs' = DOMAIN jobs \cup {j}
      /\ \A k \in DOMAIN jobs' : jobs'[k] = IF k = j THEN job ELSE jobs[k]
  BY DEF share
<1>2. IsFiniteSet(DOMAIN jobs')
  BY <1>1, FS_AddElement
<1> QED
  BY <1>1, <1>2 DEF Stamped, Onward, FUNDED, DELIVERED

LEMMA SettlesKeep ==
  ASSUME ChainInv, Settles
  PROVE  Kept
<1>0. IInv /\ PostsInv /\ OpeningsInv /\ BatchesInv /\ Settle /\ Stamped
  BY DEF ChainInv, PostsInv, Settles
<1>1. IInv' /\ TermsStay /\ UNCHANGED cfg
  <2>1. [EscrowNext]_escrowVars
    BY <1>0 DEF EscrowNext
  <2> QED
    BY <1>0, <2>1, NextInv, NextKeepsTerms, SettleKeeps
<1>2. PICK j \in DOMAIN jobs, job \in Job : OneMoves(j, job)
  BY <1>0, SettleMoves
<1>3. Stamped' /\ Onward /\ DOMAIN jobs' = DOMAIN jobs
  BY <1>0, <1>2, OneMovesOn
<1>4. OpeningsInv' /\ DOMAIN openings' = DOMAIN openings
  BY <1>0 DEF Settles, OpeningsInv
<1>5. BatchesInv' /\ DOMAIN batches' = DOMAIN batches
  <2>1. CASE UNCHANGED batches
    BY <1>0, <2>1 DEF BatchesInv
  <2>2. ASSUME NEW b, NEW k \in DOMAIN jobs, free_wave_hold(b, jobs[k])
        PROVE  BatchesInv' /\ DOMAIN batches' = DOMAIN batches
    BY <1>0, <2>2, FreedWaveLegal DEF free_wave_hold
  <2> QED
    BY <2>1, <2>2 DEF Settles
<1> QED
  BY <1>1, <1>3, <1>4, <1>5 DEF Kept, ChainInv, PostsInv, Grows

LEMMA HiresKeep ==
  ASSUME ChainInv, NEW buyer \in Account, NEW amount \in Nat, Hires(buyer, amount)
  PROVE  Kept
<1>0. /\ IInv /\ PostsInv /\ OpeningsInv /\ BatchesInv /\ Stamped /\ JobsInv
      /\ IsFiniteSet(DOMAIN jobs)
  BY DEF ChainInv, PostsInv, IInv
<1>1. PICK seller \in Account, j \in JobId, t \in Nat, w \in Nat, s \in Nat :
        create(buyer, seller, j, amount, t, w, s)
  BY DEF Hires
<1> DEFINE job == NewJob(buyer, seller, amount, cfg.fee_bps, t, w, s, FALSE, NoBatch)
<1>2. /\ amount > 0 /\ TermsInRange(t, w, s) /\ j \in JobId \ DOMAIN jobs
      /\ share(j, job) /\ UNCHANGED <<now, cfg>>
  BY <1>1 DEF create
<1>3. cfg.fee_bps \in Nat /\ cfg.fee_bps <= BPS_DENOMINATOR
  BY <1>0, EscrowAssumption, BpsAssumption DEF IInv, ConfigInv, Config, RailsHold
<1>4. JobInv(job)
  BY <1>0, <1>2, <1>3, NewJobInv
<1>5. job.state = FUNDED
  BY DEF NewJob
<1> HIDE DEF job
<1>6. IInv'
  BY <1>0, <1>2, <1>4, OneJobMore DEF IInv, ConfigInv
<1>7. TermsStay
  BY <1>2 DEF share, TermsStay
<1>8. Stamped' /\ Onward /\ IsFiniteSet(DOMAIN jobs')
  BY <1>0, <1>2, <1>5, OneMoreJob
<1>9. PostsInv' /\ Grows /\ UNCHANGED <<DOMAIN openings, DOMAIN batches>>
  BY <1>0 DEF Hires, PostsInv, OpeningsInv, BatchesInv, Grows
<1> QED
  BY <1>2, <1>6, <1>7, <1>8, <1>9 DEF Kept, ChainInv

\* What leaves the escrow alone keeps its invariant.
LEMMA EscrowStill ==
  ASSUME ChainInv, UNCHANGED escrowVars
  PROVE  /\ IInv' /\ TermsStay /\ Onward /\ Stamped' /\ IsFiniteSet(DOMAIN jobs')
         /\ cfg' = LaunchCfg
BY JobsStill DEF ChainInv, IInv, ConfigInv, JobsInv, escrowVars

LEMMA PostsJobKeep ==
  ASSUME ChainInv, NEW buyer \in Account, NEW amount \in Nat, PostsJob(buyer, amount)
  PROVE  Kept
<1>1. PICK o \in OpeningId, t \in Nat, sla \in Nat, w \in Nat, l \in Nat :
        create_open_v2(buyer, o, amount, t, sla, w, l)
  BY DEF PostsJob
<1>2. OpeningsInv'
  BY <1>1, JobPosted DEF ChainInv, PostsInv
<1>3. UNCHANGED escrowVars /\ DOMAIN openings' = DOMAIN openings \cup {o}
  BY <1>1 DEF create_open_v2, reputationVars
<1>4. IsFiniteSet(DOMAIN openings')
  BY <1>3, FS_AddElement DEF ChainInv
<1>5. BatchesInv' /\ UNCHANGED batches
  BY DEF PostsJob, ChainInv, PostsInv, BatchesInv
<1> QED
  BY <1>2, <1>3, <1>4, <1>5, EscrowStill DEF Kept, ChainInv, PostsInv, Grows

LEMMA PostsWaveKeep ==
  ASSUME ChainInv, NEW buyer \in Account, NEW payment \in Nat, PostsWave(buyer, payment)
  PROVE  Kept
<1>1. PICK b \in BatchId, slots \in Nat, t \in Nat, sla \in Nat, w \in Nat, l \in Nat,
           m \in Nat : create_batch_open(buyer, b, payment, slots, t, sla, w, l, m)
  BY DEF PostsWave
<1>2. BatchesInv'
  BY <1>1, WavePosted DEF ChainInv, PostsInv
<1>3. UNCHANGED escrowVars /\ DOMAIN batches' = DOMAIN batches \cup {b}
  BY <1>1 DEF create_batch_open, reputationVars
<1>4. IsFiniteSet(DOMAIN batches')
  BY <1>3, FS_AddElement DEF ChainInv
<1>5. OpeningsInv' /\ UNCHANGED openings
  BY DEF PostsWave, ChainInv, PostsInv, OpeningsInv
<1> QED
  BY <1>2, <1>3, <1>4, <1>5, EscrowStill DEF Kept, ChainInv, PostsInv, Grows

\* A claim mints, and changes the one post it took from.
LEMMA MintKeeps ==
  ASSUME ChainInv, NEW buyer \in Account, NEW seller \in Account, NEW j \in JobId,
         NEW amount \in Nat, NEW fee_bps \in Nat, NEW d \in Nat, NEW window \in Nat,
         NEW split \in Nat, NEW origin \in BatchId \cup {NoBatch},
         create_claimed(buyer, seller, j, amount, fee_bps, now + d, window, split, origin)
  PROVE  /\ IInv' /\ TermsStay /\ Onward /\ Stamped' /\ IsFiniteSet(DOMAIN jobs')
         /\ cfg' = LaunchCfg
<1> DEFINE job == NewJob(buyer, seller, amount, fee_bps, now + d, window, split, TRUE, origin)
<1>1. IInv' /\ TermsStay
  BY ClaimedMint DEF ChainInv
<1>2. j \in JobId \ DOMAIN jobs /\ share(j, job) /\ UNCHANGED cfg
  BY DEF create_claimed
<1>3. job.state = FUNDED
  BY DEF NewJob
<1> HIDE DEF job
<1> QED
  BY <1>1, <1>2, <1>3, OneMoreJob DEF ChainInv

LEMMA ClaimsKeep ==
  ASSUME ChainInv, Claims
  PROVE  Kept
<1>1. ASSUME NEW claimer \in Account, NEW o \in DOMAIN openings, NEW j \in JobId,
             claim_v2(claimer, o, j), UNCHANGED batches
      PROVE  Kept
  <2> DEFINE op == openings[o]
  <2>1. /\ op \in PostedOpening
        /\ create_claimed(op.buyer, claimer, j, op.escrow, op.fee_bps, now + op.sla_ms,
                          op.review_window_ms, op.reject_split_bps, NoBatch)
        /\ DOMAIN openings' = DOMAIN openings
    BY <1>1, OpeningClaimMints DEF ChainInv, PostsInv
  <2> HIDE DEF op
  <2>2. /\ op.buyer \in Account /\ op.escrow \in Nat /\ op.fee_bps \in Nat
        /\ op.sla_ms \in Nat /\ op.review_window_ms \in Nat /\ op.reject_split_bps \in Nat
    BY <2>1, EscrowAssumption, BpsAssumption DEF PostedOpening
  <2>3. /\ IInv' /\ TermsStay /\ Onward /\ Stamped' /\ IsFiniteSet(DOMAIN jobs')
        /\ cfg' = LaunchCfg
    BY <2>1, <2>2, MintKeeps
  <2>4. OpeningsInv'
    BY <1>1, OpeningTaken DEF ChainInv, PostsInv
  <2>5. BatchesInv'
    BY <1>1 DEF ChainInv, PostsInv, BatchesInv
  <2> QED
    BY <1>1, <2>1, <2>3, <2>4, <2>5 DEF Kept, ChainInv, PostsInv, Grows
<1>2. ASSUME NEW claimer \in Account, NEW b \in DOMAIN batches, NEW j \in JobId,
             batch_claim(claimer, b, j), UNCHANGED openings
      PROVE  Kept
  <2> DEFINE batch == batches[b]
  <2>1. /\ batch \in PostedBatch /\ b \in BatchId
        /\ create_claimed(batch.buyer, claimer, j, batch.amount, batch.fee_bps,
                          now + batch.sla_ms, batch.review_window_ms,
                          batch.reject_split_bps, b)
    BY <1>2, SlotClaimMints DEF ChainInv, PostsInv
  <2> HIDE DEF batch
  <2>2. /\ batch.buyer \in Account /\ batch.amount \in Nat /\ batch.fee_bps \in Nat
        /\ batch.sla_ms \in Nat /\ batch.review_window_ms \in Nat
        /\ batch.reject_split_bps \in Nat
    BY <2>1, EscrowAssumption, BpsAssumption DEF PostedBatch
  <2>3. /\ IInv' /\ TermsStay /\ Onward /\ Stamped' /\ IsFiniteSet(DOMAIN jobs')
        /\ cfg' = LaunchCfg
    BY <2>1, <2>2, MintKeeps
  <2>4. BatchesInv'
    BY <1>2, SlotTaken DEF ChainInv, PostsInv
  <2>5. OpeningsInv'
    BY <1>2 DEF ChainInv, PostsInv, OpeningsInv
  <2>6. DOMAIN batches' = DOMAIN batches
    BY <1>2 DEF batch_claim
  <2> QED
    BY <1>2, <2>3, <2>4, <2>5, <2>6 DEF Kept, ChainInv, PostsInv, Grows
<1> QED
  BY <1>1, <1>2 DEF Claims

LEMMA ReturnsKeep ==
  ASSUME ChainInv, Returns
  PROVE  Kept
<1>1. ASSUME NEW o \in DOMAIN openings, repay_buyer(o), UNCHANGED batches
      PROVE  Kept
  <2>1. OpeningsInv' /\ BatchesInv'
    BY <1>1, OpeningRepaid DEF ChainInv, PostsInv, BatchesInv
  <2>2. DOMAIN openings' = DOMAIN openings /\ UNCHANGED escrowVars
    BY <1>1 DEF repay_buyer, reputationVars
  <2> QED
    BY <1>1, <2>1, <2>2, EscrowStill DEF Kept, ChainInv, PostsInv, Grows
<1>2. ASSUME NEW b \in DOMAIN batches, drain_remainder(b), UNCHANGED openings
      PROVE  Kept
  <2>1. BatchesInv' /\ OpeningsInv'
    BY <1>2, WaveDrained DEF ChainInv, PostsInv, OpeningsInv
  <2>2. DOMAIN batches' = DOMAIN batches /\ UNCHANGED escrowVars
    BY <1>2 DEF drain_remainder, reputationVars
  <2> QED
    BY <1>2, <2>1, <2>2, EscrowStill DEF Kept, ChainInv, PostsInv, Grows
<1> QED
  BY <1>1, <1>2 DEF Returns

LEMMA StillKeeps ==
  ASSUME ChainInv, Still
  PROVE  Kept
<1>1. PostsInv'
  BY DEF Still, ChainInv, PostsInv, OpeningsInv, BatchesInv
<1> QED
  BY <1>1, EscrowStill DEF Still, Kept, ChainInv, Grows

LEMMA TickKeeps ==
  ASSUME ChainInv, Tick, UNCHANGED <<openings, batches>>
  PROVE  Kept
<1>1. PostsInv'
  BY DEF ChainInv, PostsInv, OpeningsInv, BatchesInv
<1>2. IInv' /\ UNCHANGED <<jobs, cfg>>
  BY NextInv DEF ChainInv, EscrowNext, Tick
<1>3. TermsStay /\ Onward /\ Stamped'
  BY <1>2, JobsStill DEF ChainInv
<1> QED
  BY <1>1, <1>2, <1>3 DEF Kept, ChainInv, Grows

\* A bulk settles each of its Jobs as a door of its own would.
LEMMA BulkMember ==
  ASSUME NEW job, JobInv(job), job.state \in Live, NEW state \in {RELEASED, REFUNDED},
         NEW event \in Event \ {"none"}, NEW shares \in Shares, PaidTotal(shares) = job.escrow,
         FeeLegal(job.escrow, shares, job.fee_bps),
         state = REFUNDED => shares.buyer = job.escrow, NEW marks \in SUBSET Mark
  PROVE  LET after == [Settled(job, state, shares, event) EXCEPT !.marks = @ \cup marks]
         IN  JobInv(after) /\ SameTerms(job, after) /\ after.state = state
<1> DEFINE settled == Settled(job, state, shares, event)
           after   == [settled EXCEPT !.marks = @ \cup marks]
<1>1. state \in JobState \ Live
  BY DEF JobState, Live, FUNDED, DELIVERED, RELEASED, REFUNDED, REJECTED
<1>2. JobInv(settled)
  BY <1>1, SettledInv
<1>3. settled.state = state /\ SameTerms(job, settled)
  BY DEF JobInv, Job, Settled, SameTerms, Term
<1> HIDE DEF settled
<1>4. JobInv(after)
  BY <1>2, MarkedInv
<1>5. after.state = settled.state /\ SameTerms(settled, after)
  BY <1>2 DEF JobInv, Job, SameTerms, Term
<1> HIDE DEF after
<1>6. SameTerms(job, after) /\ after.state = state
  BY <1>3, <1>5 DEF SameTerms
<1> QED
  BY <1>4, <1>6 DEF after, settled

\* Many live Jobs settled at once, each of them well.
LEMMA ManySettle ==
  ASSUME IInv, Stamped, NEW S \in SUBSET DOMAIN jobs, NEW after,
         jobs' = [j \in DOMAIN jobs |-> IF j \in S THEN after[j] ELSE jobs[j]],
         \A j \in S : /\ jobs[j].state \in Live
                      /\ JobInv(after[j]) /\ SameTerms(jobs[j], after[j])
                      /\ after[j].state \in {RELEASED, REFUNDED},
         UNCHANGED <<now, cfg>>
  PROVE  IInv' /\ Stamped' /\ TermsStay /\ Onward /\ DOMAIN jobs' = DOMAIN jobs
<1>1. /\ DOMAIN jobs' = DOMAIN jobs
      /\ \A j \in DOMAIN jobs : jobs'[j] = IF j \in S THEN after[j] ELSE jobs[j]
  OBVIOUS
<1>2. JobsInv'
  <2>1. DOMAIN jobs \subseteq JobId /\ \A j \in DOMAIN jobs : JobInv(jobs[j])
    BY DEF IInv, JobsInv
  <2>2. \A j \in DOMAIN jobs : JobInv(jobs'[j])
    BY <1>1, <2>1
  <2>3. \A j \in DOMAIN jobs : jobs'[j] \in Job
    BY <2>2 DEF JobInv
  <2>4. jobs' \in [DOMAIN jobs -> Job]
    BY <1>1, <2>3
  <2> QED
    BY <1>1, <2>1, <2>2, <2>4
    DEF JobsInv, JobInv, TermsLegal, JobBacked, FeeLegal, RefundedWhole
<1>3. TermsStay
  BY <1>1 DEF TermsStay, SameTerms
<1>4. Stamped' /\ Onward
  BY <1>1 DEF Stamped, Onward, FUNDED, DELIVERED, RELEASED, REFUNDED
<1> QED
  BY <1>1, <1>2, <1>3, <1>4 DEF IInv, ConfigInv

\* The holds a bulk gives back leave every wave legal.
LEMMA HoldsFreed ==
  ASSUME BatchesInv, IsFiniteSet(DOMAIN jobs), NEW S \in SUBSET DOMAIN jobs,
         batches' = HoldsAfter(S)
  PROVE  BatchesInv' /\ DOMAIN batches' = DOMAIN batches
<1> DEFINE freed(b, a) == {j \in S : /\ jobs[j].batch_origin = b /\ jobs[j].seller = a
                                     /\ ~hold_released(jobs[j])}
           held(b, a) == batches[b].claims_by_agent[a]
           n(b, a) == Cardinality(freed(b, a))
           left(b, a) == IF held(b, a) > n(b, a) THEN held(b, a) - n(b, a) ELSE 0
           claims(b) == [a \in Account |-> left(b, a)]
<1>1. \A b, a : n(b, a) \in Nat
  <2> SUFFICES ASSUME NEW b, NEW a PROVE n(b, a) \in Nat
    OBVIOUS
  <2>1. freed(b, a) \subseteq DOMAIN jobs
    OBVIOUS
  <2> HIDE DEF freed
  <2>2. IsFiniteSet(freed(b, a))
    BY <2>1, FS_Subset
  <2> QED
    BY <2>2, FS_CardinalityType
<1>2. batches' = [b \in DOMAIN batches |-> [batches[b] EXCEPT !.claims_by_agent = claims(b)]]
  BY DEF HoldsAfter, BatchesInv, PostedBatch
<1> HIDE DEF n
<1>3. \A b \in DOMAIN batches : claims(b) \in [Account -> Nat]
  <2> SUFFICES ASSUME NEW b \in DOMAIN batches PROVE \A a \in Account : left(b, a) \in Nat
    OBVIOUS
  <2>1. \A a \in Account : held(b, a) \in Nat
    BY DEF BatchesInv, PostedBatch
  <2> HIDE DEF held
  <2> QED
    BY <1>1, <2>1
<1> HIDE DEF claims
<1>4. \A b \in DOMAIN batches : [batches[b] EXCEPT !.claims_by_agent = claims(b)] \in PostedBatch
  BY <1>3 DEF BatchesInv, PostedBatch
<1> QED
  BY <1>2, <1>4 DEF BatchesInv

LEMMA BulkKeeps ==
  ASSUME ChainInv, Bulk
  PROVE  Kept
<1>0. /\ IInv /\ PostsInv /\ OpeningsInv /\ BatchesInv /\ Stamped
      /\ IsFiniteSet(DOMAIN jobs)
  BY DEF ChainInv, PostsInv
<1>1. PICK S \in SUBSET DOMAIN jobs : ReleaseAll(S) \/ RefundAll(S)
  BY DEF Bulk
<1>2. \A j \in S : HoldMark(j) \in SUBSET Mark
  BY MarksAreMarks DEF HoldMark
<1>3. \A j \in S : /\ JobInv(jobs[j]) /\ jobs[j].escrow \in Nat
                   /\ jobs[j].fee_bps \in 0..BPS_DENOMINATOR
  BY <1>0, BpsAssumption DEF IInv, JobsInv, JobInv, TermsLegal, Job
<1>4. "JobReleased" \in Event \ {"none"} /\ "JobRefunded" \in Event \ {"none"}
  BY DEF Event
<1>5. BatchesInv' /\ OpeningsInv' /\ Grows /\ UNCHANGED <<DOMAIN openings, DOMAIN batches>>
  <2>1. batches' = HoldsAfter(S) /\ UNCHANGED openings
    BY <1>1 DEF ReleaseAll, RefundAll
  <2> QED
    BY <1>0, <2>1, HoldsFreed DEF OpeningsInv, Grows
<1>6. UNCHANGED <<now, cfg>>
  BY <1>1 DEF ReleaseAll, RefundAll
<1>7. IInv' /\ Stamped' /\ TermsStay /\ Onward /\ DOMAIN jobs' = DOMAIN jobs
  <2>1. CASE ReleaseAll(S)
    <3> DEFINE after == [j \in S |->
                 [Settled(jobs[j], RELEASED, release_shares(jobs[j].escrow, jobs[j].fee_bps),
                          "JobReleased") EXCEPT !.marks = @ \cup HoldMark(j)]]
    <3>1. jobs' = [j \in DOMAIN jobs |-> IF j \in S THEN after[j] ELSE jobs[j]]
      BY <2>1 DEF ReleaseAll
    <3>2. ASSUME NEW j \in S
          PROVE  /\ jobs[j].state \in Live
                 /\ JobInv(after[j]) /\ SameTerms(jobs[j], after[j])
                 /\ after[j].state = RELEASED
      <4>1. jobs[j].state \in Live
        BY <2>1 DEF ReleaseAll, can_release, Live
      <4>2. LET s == release_shares(jobs[j].escrow, jobs[j].fee_bps) IN
            s \in Shares /\ PaidTotal(s) = jobs[j].escrow
              /\ FeeLegal(jobs[j].escrow, s, jobs[j].fee_bps)
        BY <1>3, ReleaseShares
      <4>3. RELEASED # REFUNDED
        BY DEF RELEASED, REFUNDED
      <4> DEFINE job == jobs[j]
                 marks == HoldMark(j)
                 shares == release_shares(job.escrow, job.fee_bps)
      <4>4. /\ JobInv(job) /\ job.state \in Live /\ marks \in SUBSET Mark
            /\ shares \in Shares /\ PaidTotal(shares) = job.escrow
            /\ FeeLegal(job.escrow, shares, job.fee_bps)
        BY <1>2, <1>3, <4>1, <4>2
      <4>5. after[j] = [Settled(job, RELEASED, shares, "JobReleased") EXCEPT !.marks = @ \cup marks]
        OBVIOUS
      <4> HIDE DEF job, marks, shares, after
      <4>6. /\ JobInv(after[j]) /\ SameTerms(job, after[j]) /\ after[j].state = RELEASED
        BY <1>4, <4>3, <4>4, <4>5, BulkMember
      <4> QED
        BY <4>1, <4>6 DEF job
    <3> HIDE DEF after
    <3> QED
      BY <1>0, <1>6, <3>1, <3>2, ManySettle
  <2>2. CASE RefundAll(S)
    <3> DEFINE after == [j \in S |->
                 [Settled(jobs[j], REFUNDED, refund_shares(jobs[j].escrow), "JobRefunded")
                    EXCEPT !.marks = @ \cup HoldMark(j)]]
    <3>1. jobs' = [j \in DOMAIN jobs |-> IF j \in S THEN after[j] ELSE jobs[j]]
      BY <2>2 DEF RefundAll
    <3>2. ASSUME NEW j \in S
          PROVE  /\ jobs[j].state \in Live
                 /\ JobInv(after[j]) /\ SameTerms(jobs[j], after[j])
                 /\ after[j].state = REFUNDED
      <4>1. jobs[j].state \in Live
        BY <2>2 DEF RefundAll, can_refund, Live
      <4>2. LET s == refund_shares(jobs[j].escrow) IN
            s \in Shares /\ PaidTotal(s) = jobs[j].escrow
              /\ FeeLegal(jobs[j].escrow, s, jobs[j].fee_bps) /\ s.buyer = jobs[j].escrow
        BY <1>3, RefundShares
      <4> DEFINE job == jobs[j]
                 marks == HoldMark(j)
                 shares == refund_shares(job.escrow)
      <4>3. /\ JobInv(job) /\ job.state \in Live /\ marks \in SUBSET Mark
            /\ shares \in Shares /\ PaidTotal(shares) = job.escrow
            /\ FeeLegal(job.escrow, shares, job.fee_bps) /\ shares.buyer = job.escrow
        BY <1>2, <1>3, <4>1, <4>2
      <4>4. after[j] = [Settled(job, REFUNDED, shares, "JobRefunded") EXCEPT !.marks = @ \cup marks]
        OBVIOUS
      <4> HIDE DEF job, marks, shares, after
      <4>5. /\ JobInv(after[j]) /\ SameTerms(job, after[j]) /\ after[j].state = REFUNDED
        BY <1>4, <4>3, <4>4, BulkMember
      <4> QED
        BY <4>1, <4>5 DEF job
    <3> HIDE DEF after
    <3> QED
      BY <1>0, <1>6, <3>1, <3>2, ManySettle
  <2> QED
    BY <1>1, <2>1, <2>2
<1> QED
  BY <1>0, <1>5, <1>6, <1>7 DEF Kept, ChainInv, PostsInv

-----------------------------------------------------------------------------
(***************************************************************************)
(* What a call that a builder made does on the chain.                      *)
(***************************************************************************)

JobFn ==
  {"reputation::deliver_v2", "reputation::release_v2", "reputation::refund_v2",
   "reputation::decline_v2", "reputation::reject_v2", "reputation::reject_v2_agent_buyer",
   "reputation::submit_review", "reputation::submit_first_review",
   "batch::deliver_v2", "batch::batch_release", "batch::batch_refund",
   "batch::batch_reject", "batch::batch_reject_agent_buyer"}

\* The call takes a Job that exists.
ForJob(call) == call.fn \in JobFn /\ call.at.job \in DOMAIN jobs

LEMMA PrecursorMoves ==
  ASSUME NEW a, NEW call, IsPrecursor(call), DoorStep(a, call)
  PROVE  Still
<1>1. create_empty_score(call.at.agent) /\ UNCHANGED <<openings, batches>>
  BY DEF DoorStep, IsPrecursor
<1> QED
  BY <1>1 DEF create_empty_score, escrowVars, Still

LEMMA JobDoorMoves ==
  ASSUME NEW a \in Account, NEW call, ForJob(call), DoorStep(a, call)
  PROVE  Still \/ Settles
<1> DEFINE j == call.at.job
           b == call.at.batch
<1>1. \/ /\ \/ deliver_v2(a, j) \/ release_v2(a, j) \/ refund_v2(j) \/ decline_v2(a, j)
            \/ reject_v2(a, j) \/ reject_v2_agent_buyer(a, j)
            \/ submit_review(a, j, call.at.stars) \/ submit_first_review(a, j, call.at.stars)
         /\ UNCHANGED <<openings, batches>>
      \/ /\ \/ batch_deliver_v2(a, b, j) \/ batch_release(a, b, j) \/ batch_refund(b, j)
            \/ batch_reject(a, b, j) \/ batch_reject_agent_buyer(a, b, j)
         /\ UNCHANGED openings
  BY DEF DoorStep, ForJob, JobFn
<1>2. j \in DOMAIN jobs
  BY DEF ForJob
<1>3. ASSUME submit_review(a, j, call.at.stars) \/ submit_first_review(a, j, call.at.stars),
             UNCHANGED <<openings, batches>>
      PROVE  Still
  BY <1>3 DEF submit_review, submit_first_review, Still
<1>4. ASSUME \/ deliver_v2(a, j) \/ release_v2(a, j) \/ refund_v2(j) \/ decline_v2(a, j)
             \/ reject_v2(a, j) \/ reject_v2_agent_buyer(a, j),
             UNCHANGED <<openings, batches>>
      PROVE  Settles
  <2>1. Doors
    BY <1>2, <1>4, Zenon DEF Doors
  <2> QED
    BY <1>4, <2>1, DoorsSettle DEF Settles
<1>5. ASSUME \/ batch_deliver_v2(a, b, j) \/ batch_release(a, b, j) \/ batch_refund(b, j)
             \/ batch_reject(a, b, j) \/ batch_reject_agent_buyer(a, b, j),
             UNCHANGED openings
      PROVE  Settles
  <2>1. WaveDoor(b, j)
    BY <1>5, Zenon DEF WaveDoor
  <2>2. free_wave_hold(b, jobs[j])
    BY <1>5 DEF batch_deliver_v2, batch_release, batch_refund, batch_reject,
       batch_reject_agent_buyer
  <2> HIDE DEF j, b
  <2>3. Settle
    BY <1>2, <2>1, DoorsSettle
  <2> QED
    BY <1>2, <1>5, <2>2, <2>3 DEF Settles
<1> QED
  BY <1>1, <1>3, <1>4, <1>5

\* What a buyer signs.
HireTerms ==
  [seller : Account, amount : Nat, deliverBy : Nat, window : Nat, split : Nat]

LEMMA HireMoves ==
  ASSUME NEW a, NEW call, call.fn = "escrow::create", call.at \in HireTerms,
         DoorStep(a, call)
  PROVE  Hires(a, call.at.amount)
<1>1. /\ \E j \in JobId : create(a, call.at.seller, j, call.at.amount, call.at.deliverBy,
                                 call.at.window, call.at.split)
      /\ UNCHANGED <<openings, batches>>
  BY DEF DoorStep
<1>2. /\ call.at.seller \in Account /\ call.at.deliverBy \in Nat /\ call.at.window \in Nat
      /\ call.at.split \in Nat
  BY DEF HireTerms
<1> QED
  BY <1>1, <1>2, Zenon DEF Hires

PostTerms(t) ==
  /\ t.amount \in Nat /\ t.sla \in Nat /\ t.window \in Nat
  /\ t.trust \in TrustRequirement

WaveTerms(t) == PostTerms(t) /\ t.slots \in Nat /\ t.maxClaims \in Nat

LEMMA TrustIsLevel == \A t : t.trust \in TrustRequirement => openingMinSellerLevel(t) \in Nat
BY DEF TrustRequirement, openingMinSellerLevel, minSellerLevelForTrustRequirement

LEMMA PostMoves ==
  ASSUME NEW a, NEW call, call.fn = "opening::create_open_v2", PostTerms(call.at),
         call.at.openUntil \in Nat, DoorStep(a, call)
  PROVE  PostsJob(a, call.at.amount)
<1>1. /\ \E o \in OpeningId :
           create_open_v2(a, o, call.at.amount, call.at.openUntil, call.at.sla,
                          call.at.window, openingMinSellerLevel(call.at))
      /\ UNCHANGED batches
  BY DEF DoorStep
<1>2. /\ call.at.sla \in Nat /\ call.at.window \in Nat
      /\ openingMinSellerLevel(call.at) \in Nat
  BY TrustIsLevel DEF PostTerms
<1> QED
  BY <1>1, <1>2, Zenon DEF PostsJob

LEMMA WaveMoves ==
  ASSUME NEW a, NEW call, call.fn = "batch::create_batch_open", WaveTerms(call.at),
         call.at.openUntil \in Nat, DoorStep(a, call)
  PROVE  PostsWave(a, call.at.payment)
<1>1. /\ \E b \in BatchId :
           create_batch_open(a, b, call.at.payment, call.at.slots, call.at.openUntil,
                             call.at.sla, call.at.window, openingMinSellerLevel(call.at),
                             call.at.maxClaims)
      /\ UNCHANGED openings
  BY DEF DoorStep
<1>2. /\ call.at.slots \in Nat /\ call.at.sla \in Nat /\ call.at.window \in Nat
      /\ openingMinSellerLevel(call.at) \in Nat /\ call.at.maxClaims \in Nat
  BY TrustIsLevel DEF PostTerms, WaveTerms
<1> QED
  BY <1>1, <1>2, Zenon DEF PostsWave

\* The calls that take a post that exists.
ForOpening(call) ==
  /\ call.fn \in {"opening::claim_v2", "opening::cancel_open", "opening::refund_unclaimed"}
  /\ call.at.opening \in DOMAIN openings

ForBatch(call) ==
  /\ call.fn \in {"batch::batch_claim", "batch::cancel_batch_open",
                  "batch::refund_batch_expired"}
  /\ call.at.batch \in DOMAIN batches

LEMMA OpeningDoorMoves ==
  ASSUME NEW a \in Account, NEW call, ForOpening(call), DoorStep(a, call)
  PROVE  Claims \/ Returns
<1>1. /\ \/ \E j \in JobId : claim_v2(a, call.at.opening, j)
         \/ cancel_open(a, call.at.opening) \/ refund_unclaimed(call.at.opening)
      /\ UNCHANGED batches
  BY DEF DoorStep, ForOpening
<1> QED
  BY <1>1 DEF ForOpening, Claims, Returns, cancel_open, refund_unclaimed

LEMMA BatchDoorMoves ==
  ASSUME NEW a \in Account, NEW call, ForBatch(call), DoorStep(a, call)
  PROVE  Claims \/ Returns
<1>1. /\ \/ \E j \in JobId : batch_claim(a, call.at.batch, j)
         \/ cancel_batch_open(a, call.at.batch) \/ refund_batch_expired(call.at.batch)
      /\ UNCHANGED openings
  BY DEF DoorStep, ForBatch
<1> QED
  BY <1>1 DEF ForBatch, Claims, Returns, cancel_batch_open, refund_batch_expired

-----------------------------------------------------------------------------
(***************************************************************************)
(* The invocation under way: what it names exists, and the transaction it  *)
(* is about to sign takes what it names and nothing else.                  *)
(***************************************************************************)

OpenTerms ==
  [amount : Nat, openFor : Nat, sla : Nat, window : Nat, trust : TrustRequirement]

BatchTerms ==
  [amount : Nat, slots : Nat, openFor : Nat, sla : Nat, window : Nat,
   trust : TrustRequirement, maxClaims : Nat]

OfJob == JobVerb \cup {"job-review"}
OfOpening == {"open-claim", "open-cancel", "open-refund"}
OfBatch == {"batch-open-claim", "batch-open-cancel", "batch-open-refund"}
Funds == {"create", "open-create", "batch-open-create"}
TxVerb == OfJob \cup OfOpening \cup OfBatch \cup Funds \cup BulkVerb

TargetsExist(c) ==
  /\ c.verb \in OfJob => c.job \in DOMAIN jobs
  /\ c.verb \in BulkVerb => c.jobs \subseteq DOMAIN jobs
  /\ c.verb \in OfOpening => c.post \in DOMAIN openings
  /\ c.verb \in OfBatch => c.post \in DOMAIN batches

TermsTyped(c) ==
  /\ c.verb = "create" => c.terms \in HireTerms
  /\ c.verb = "open-create" => c.terms \in OpenTerms
  /\ c.verb = "batch-open-create" => c.terms \in BatchTerms

\* The call of a verb that makes one.
CallFits(c, call) ==
  /\ c.verb \in OfJob => ForJob(call)
  /\ c.verb \in OfOpening => ForOpening(call)
  /\ c.verb \in OfBatch => ForBatch(call)
  /\ c.verb = "create" => call.fn = "escrow::create" /\ call.at = c.terms
  /\ c.verb = "open-create" =>
       /\ call.fn = "opening::create_open_v2" /\ PostTerms(call.at)
       /\ call.at.openUntil \in Nat /\ call.at.amount = c.terms.amount
  /\ c.verb = "batch-open-create" =>
       /\ call.fn = "batch::create_batch_open" /\ WaveTerms(call.at)
       /\ call.at.openUntil \in Nat
       /\ call.at.payment = c.terms.amount * c.terms.slots

TxFits(c, tx) ==
  \/ Precursor(tx)
  \/ c.verb \in BulkVerb /\ \A i \in DOMAIN tx : tx[i].at.job \in DOMAIN jobs
  \/ c.verb \notin BulkVerb /\ CallFits(c, Last(tx))

CmdInv(c) ==
  /\ DOMAIN c = DOMAIN NoCmd
  /\ c.step \in {"put", "get"} => c.verb \in {"create", "deliver"}
  /\ c.step \in {"prepare", "submit"} => c.verb \in TxVerb
  /\ TargetsExist(c) /\ TermsTyped(c)
  /\ c.step = "submit" => TxFits(c, c.tx)

\* Jobs and posts stay, so what was named is still there.
LEMMA CmdStays ==
  ASSUME NEW c, CmdInv(c), Onward, Grows
  PROVE  CmdInv(c)'
<1>1. DOMAIN jobs \subseteq DOMAIN jobs'
  BY DEF Onward
<1>2. DOMAIN openings \subseteq DOMAIN openings' /\ DOMAIN batches \subseteq DOMAIN batches'
  BY DEF Grows
<1>3. TargetsExist(c)' /\ TermsTyped(c)'
  BY <1>1, <1>2 DEF CmdInv, TargetsExist, TermsTyped
<1>4. c.step = "submit" => TxFits(c, c.tx)'
  BY <1>1, <1>2 DEF CmdInv, TxFits, CallFits, ForJob, ForOpening, ForBatch, Precursor
<1> QED
  BY <1>3, <1>4 DEF CmdInv

LEMMA OneCall == \A call : Last(<<call>>) = call /\ DOMAIN <<call>> = {1} /\ <<call>>[1] = call
BY DEF Last

LEMMA FundedLast ==
  ASSUME NEW sender, NEW call, NEW tx \in Funded(sender, call)
  PROVE  Last(tx) = call
<1>1. PICK coins \in CoinPrelude(sender) : tx = Append(coins, call)
  BY DEF Funded
<1> DEFINE a == CoinCall("coin::redeem_funds", sender)
           b == CoinCall("coin::into_balance", sender)
           c == CoinCall("coin::send_funds", sender)
           calls == {a, b, c, call}
<1>2. coins \in Seq(calls) /\ call \in calls
  <2>1. coins = <<>> \/ coins = <<a, b, c>>
    BY DEF CoinPrelude
  <2> HIDE DEF a, b, c
  <2>2. a \in calls /\ b \in calls /\ c \in calls /\ call \in calls
    OBVIOUS
  <2> HIDE DEF calls
  <2>3. <<a, b, c>> \in Seq(calls) /\ <<>> \in Seq(calls)
    BY <2>2
  <2> QED
    BY <2>1, <2>2, <2>3
<1> HIDE DEF calls
<1>3. Len(tx) = Len(coins) + 1 /\ tx[Len(coins) + 1] = call
  BY <1>1, <1>2, AppendProperties
<1> QED
  BY <1>3 DEF Last

LEMMA SetAsSeq ==
  ASSUME NEW S, IsFiniteSet(S)
  PROVE  SetToSeq(S) \in [1..Cardinality(S) -> S]
<1>1. \E f \in Bijection(1..Cardinality(S), S) : TRUE
  BY FS_CardinalityType DEF ExistsBijection
<1>2. \E f \in [1..Cardinality(S) -> S] : IsInjective(f)
  BY <1>1 DEF Bijection, Injection, IsInjective
<1> QED
  BY <1>2 DEF SetToSeq

-----------------------------------------------------------------------------
(***************************************************************************)
(* What the prepare service proposes is what the verb is for.              *)
(***************************************************************************)

LEMMA PrecursorProposed ==
  ASSUME NEW a
  PROVE  Precursor(<<buildCreateEmptyScoreTx(a)>>)
BY OneCall DEF Precursor, buildCreateEmptyScoreTx, Door, MoveCall

\* A precursor, or the door of the Job's origin.
LEMMA JobVerbProposed ==
  ASSUME NEW verb \in JobVerb, NEW j \in DOMAIN jobs, NEW tx \in prepare(verb, j)
  PROVE  tx = <<tx[1]>> /\ (IsPrecursor(tx[1]) \/ ForJob(tx[1]))
<1> DEFINE origin == getJobBatchOrigin(j)
           call == CASE verb = "deliver" -> buildDeliverJobTx(j, origin)
                     [] verb = "release" -> addReleaseJobToTx(j, origin)
                     [] verb = "refund"  -> addRefundJobToTx(j, origin)
                     [] verb = "decline" -> buildDeclineJobTx(j)
                     [] verb = "reject"  -> buildRejectJobTx(j, origin, is_registered(jobs[j].buyer))
<1>1. ForJob(buildDeliverJobTx(j, origin))
  BY DEF ForJob, JobFn, buildDeliverJobTx, JobDoor, Door, MoveCall
<1>2. ForJob(addReleaseJobToTx(j, origin))
  BY DEF ForJob, JobFn, addReleaseJobToTx, JobDoor, Door, MoveCall
<1>3. ForJob(addRefundJobToTx(j, origin))
  BY DEF ForJob, JobFn, addRefundJobToTx, JobDoor, Door, MoveCall
<1>4. ForJob(buildDeclineJobTx(j))
  BY DEF ForJob, JobFn, buildDeclineJobTx, JobDoor, Door, MoveCall
<1>5. ForJob(buildRejectJobTx(j, origin, is_registered(jobs[j].buyer)))
  <2> DEFINE agentBuyer == is_registered(jobs[j].buyer)
             fn == CASE origin = NoBatch /\ ~agentBuyer -> "reputation::reject_v2"
                     [] origin = NoBatch /\ agentBuyer  -> "reputation::reject_v2_agent_buyer"
                     [] origin # NoBatch /\ ~agentBuyer -> "batch::batch_reject"
                     [] origin # NoBatch /\ agentBuyer  -> "batch::batch_reject_agent_buyer"
  <2>1. agentBuyer \/ ~agentBuyer
    OBVIOUS
  <2>2. fn \in JobFn
    BY <2>1 DEF JobFn
  <2>3. buildRejectJobTx(j, origin, agentBuyer) = JobDoor(fn, j, origin)
    BY DEF buildRejectJobTx
  <2> HIDE DEF fn
  <2> QED
    BY <2>2, <2>3 DEF ForJob, JobDoor, Door, MoveCall
<1> HIDE DEF origin
<1>6. ForJob(call)
  BY <1>1, <1>2, <1>3, <1>4, <1>5 DEF JobVerb
<1>7. \/ \E a : tx = <<buildCreateEmptyScoreTx(a)>>
      \/ tx = <<call>>
  BY DEF prepare, origin
<1> HIDE DEF call
<1>8. \A c : <<c>>[1] = c
  OBVIOUS
<1> QED
  BY <1>6, <1>7, <1>8, PrecursorProposed DEF Precursor, IsPrecursor

LEMMA ReviewProposed ==
  ASSUME NEW j \in DOMAIN jobs, NEW stars, NEW tx \in buildSubmitReviewTx(j, stars)
  PROVE  ForJob(Last(tx))
<1>1. ForJob(addSubmitReviewToTx(j, stars)) /\ ForJob(addSubmitFirstReviewToTx(j, stars))
  BY DEF ForJob, JobFn, addSubmitReviewToTx, addSubmitFirstReviewToTx, Door, MoveCall
<1>2. tx = <<addSubmitReviewToTx(j, stars)>> \/ tx = <<addSubmitFirstReviewToTx(j, stars)>>
  BY DEF buildSubmitReviewTx
<1> QED
  BY <1>1, <1>2, OneCall

\* The added field leaves the others what they were.
LEMMA PostCallFits ==
  ASSUME NEW t \in OpenTerms, NEW until \in Nat
  PROVE  LET u == With(t, "openUntil", until) IN
         PostTerms(u) /\ u.openUntil = until /\ u.amount = t.amount
BY DEF With, OpenTerms, PostTerms

LEMMA WaveCallFits ==
  ASSUME NEW t \in BatchTerms, NEW until \in Nat
  PROVE  LET u == With(t, "openUntil", until)
             v == With(u, "payment", u.amount * u.slots)
         IN  WaveTerms(v) /\ v.openUntil = until /\ v.payment = t.amount * t.slots
<1> DEFINE u == With(t, "openUntil", until)
           v == With(u, "payment", u.amount * u.slots)
<1>1. /\ u.openUntil = until /\ u.amount = t.amount /\ u.slots = t.slots /\ u.sla = t.sla
      /\ u.window = t.window /\ u.trust = t.trust /\ u.maxClaims = t.maxClaims
      /\ {"openUntil", "amount", "slots", "sla", "window", "trust", "maxClaims"} \subseteq DOMAIN u
      /\ "payment" \notin DOMAIN u
  BY DEF With, BatchTerms
<1> HIDE DEF u
<1>2. /\ v.openUntil = u.openUntil /\ v.amount = u.amount /\ v.slots = u.slots /\ v.sla = u.sla
      /\ v.window = u.window /\ v.trust = u.trust /\ v.maxClaims = u.maxClaims
      /\ v.payment = u.amount * u.slots
  BY <1>1 DEF With
<1> HIDE DEF v
<1> QED
  BY <1>1, <1>2 DEF BatchTerms, PostTerms, WaveTerms, u, v

\* The calls of a bulk verb each take a Job of the list.
LEMMA ManyProposed ==
  ASSUME NEW S, S \subseteq DOMAIN jobs, IsFiniteSet(DOMAIN jobs), NEW stars,
         NEW tx \in buildReleaseJobsTx(SetToSeq(S)) \cup buildRefundJobsTx(SetToSeq(S))
                      \cup buildSubmitReviewsTx(SetToSeq(S), stars)
  PROVE  \A i \in DOMAIN tx : tx[i].at.job \in DOMAIN jobs
<1> DEFINE js == SetToSeq(S)
<1>1. IsFiniteSet(S)
  BY FS_Subset
<1>2. \A i \in DOMAIN js : js[i] \in DOMAIN jobs
  BY <1>1, SetAsSeq
<1> HIDE DEF js
<1>3. \A j : /\ addReleaseJobToTx(j, getJobBatchOrigin(j)).at.job = j
             /\ addRefundJobToTx(j, getJobBatchOrigin(j)).at.job = j
             /\ addSubmitReviewToTx(j, stars).at.job = j
             /\ addSubmitFirstReviewToTx(j, stars).at.job = j
  BY DEF addReleaseJobToTx, addRefundJobToTx, addSubmitReviewToTx, addSubmitFirstReviewToTx,
     JobDoor, Door, MoveCall
<1>4. CASE tx \in buildReleaseJobsTx(js)
  <2>1. tx = [i \in DOMAIN js |-> addReleaseJobToTx(js[i], getJobBatchOrigin(js[i]))]
    BY <1>4 DEF buildReleaseJobsTx, buildManyJobVerbTx
  <2> QED
    BY <1>2, <1>3, <2>1
<1>5. CASE tx \in buildRefundJobsTx(js)
  <2>1. tx = [i \in DOMAIN js |-> addRefundJobToTx(js[i], getJobBatchOrigin(js[i]))]
    BY <1>5 DEF buildRefundJobsTx, buildManyJobVerbTx
  <2> QED
    BY <1>2, <1>3, <2>1
<1>6. CASE tx \in buildSubmitReviewsTx(js, stars)
  <2>1. tx = [i \in DOMAIN js |-> IF has_score(jobs[js[i]].seller)
                                  THEN addSubmitReviewToTx(js[i], stars)
                                  ELSE addSubmitFirstReviewToTx(js[i], stars)]
    BY <1>6 DEF buildSubmitReviewsTx
  <2> QED
    BY <1>2, <1>3, <2>1
<1> QED
  BY <1>4, <1>5, <1>6 DEF js

LEMMA ProposedFits ==
  ASSUME ChainInv, CmdInv(cmd), cmd.step = "prepare", NEW tx \in Proposed
  PROVE  TxFits(cmd, tx)
<1>1. IsFiniteSet(DOMAIN jobs) /\ now \in Nat
  BY EscrowAssumption DEF ChainInv, IInv
<1>2. cmd.verb \in TxVerb /\ TargetsExist(cmd) /\ TermsTyped(cmd)
  BY DEF CmdInv
<1>3. CASE cmd.verb \in JobVerb
  <2>1. tx \in prepare(cmd.verb, cmd.job)
    BY <1>3 DEF Proposed, JobVerb
  <2>2. cmd.job \in DOMAIN jobs
    BY <1>2, <1>3 DEF TargetsExist, OfJob
  <2>3. Precursor(tx) \/ ForJob(Last(tx))
    BY <1>3, <2>1, <2>2, JobVerbProposed, OneCall DEF Precursor, IsPrecursor
  <2> QED
    BY <1>3, <2>3 DEF TxFits, CallFits, JobVerb, OfOpening, OfBatch, BulkVerb
<1>4. CASE cmd.verb = "job-review"
  <2>1. tx \in buildSubmitReviewTx(cmd.job, cmd.terms.stars)
    BY <1>4 DEF Proposed, JobVerb
  <2>2. cmd.job \in DOMAIN jobs
    BY <1>2, <1>4 DEF TargetsExist, OfJob
  <2>3. ForJob(Last(tx))
    BY <2>1, <2>2, ReviewProposed
  <2> QED
    BY <1>4, <2>3 DEF TxFits, CallFits, OfOpening, OfBatch, BulkVerb
<1>5. CASE cmd.verb \in OfOpening
  <2> DEFINE post == cmd.post
  <2>1. post \in DOMAIN openings
    BY <1>2, <1>5 DEF TargetsExist
  <2>2. /\ ForOpening(buildClaimOpeningTx(post))
        /\ ForOpening(buildCancelOpeningTx(post))
        /\ ForOpening(buildRefundUnclaimedTx(post))
    BY <2>1 DEF ForOpening, buildClaimOpeningTx, buildCancelOpeningTx, buildRefundUnclaimedTx,
       openingCall, Door, MoveCall
  <2>3. \/ tx = <<buildCreateEmptyScoreTx(me)>>
        \/ tx = <<buildClaimOpeningTx(post)>>
        \/ tx = <<buildCancelOpeningTx(post)>>
        \/ tx = <<buildRefundUnclaimedTx(post)>>
    BY <1>5 DEF Proposed, AfterMyScore, OfOpening, JobVerb
  <2>4. Precursor(tx) \/ ForOpening(Last(tx))
    BY <2>2, <2>3, PrecursorProposed, OneCall
  <2> QED
    BY <1>5, <2>4 DEF TxFits, CallFits, OfOpening, OfJob, JobVerb, OfBatch, BulkVerb
<1>6. CASE cmd.verb \in OfBatch
  <2> DEFINE post == cmd.post
  <2>1. post \in DOMAIN batches
    BY <1>2, <1>6 DEF TargetsExist
  <2>2. /\ ForBatch(buildBatchClaimTx(post))
        /\ ForBatch(buildCancelBatchOpeningTx(post))
        /\ ForBatch(buildRefundBatchExpiredTx(post))
    BY <2>1 DEF ForBatch, buildBatchClaimTx, buildCancelBatchOpeningTx,
       buildRefundBatchExpiredTx, batchCall, Door, MoveCall
  <2>3. \/ tx = <<buildCreateEmptyScoreTx(me)>>
        \/ tx = <<buildBatchClaimTx(post)>>
        \/ tx = <<buildCancelBatchOpeningTx(post)>>
        \/ tx = <<buildRefundBatchExpiredTx(post)>>
    BY <1>6 DEF Proposed, AfterMyScore, OfBatch, JobVerb
  <2>4. Precursor(tx) \/ ForBatch(Last(tx))
    BY <2>2, <2>3, PrecursorProposed, OneCall
  <2> QED
    BY <1>6, <2>4 DEF TxFits, CallFits, OfOpening, OfJob, JobVerb, OfBatch, BulkVerb
<1>7. CASE cmd.verb = "create"
  <2>1. tx \in Funded(me, Door("escrow::create", cmd.terms))
    BY <1>7 DEF Proposed, buildCreateJobTx, JobVerb
  <2>2. Last(tx) = Door("escrow::create", cmd.terms)
    BY <2>1, FundedLast
  <2>3. Last(tx).fn = "escrow::create" /\ Last(tx).at = cmd.terms
    BY <2>2 DEF Door, MoveCall
  <2> QED
    BY <1>7, <2>3 DEF TxFits, CallFits, OfOpening, OfJob, JobVerb, OfBatch, BulkVerb
<1>8. CASE cmd.verb = "open-create"
  <2> DEFINE until == now + cmd.terms.openFor
             u == With(cmd.terms, "openUntil", until)
  <2>1. tx \in Funded(me, Door("opening::create_open_v2", u))
    BY <1>8 DEF Proposed, buildCreateOpeningTx, JobVerb
  <2>2. Last(tx) = Door("opening::create_open_v2", u)
    BY <2>1, FundedLast
  <2>3. cmd.terms \in OpenTerms
    BY <1>2, <1>8 DEF TermsTyped
  <2>4. until \in Nat
    BY <1>1, <2>3 DEF OpenTerms
  <2> HIDE DEF until
  <2>5. PostTerms(u) /\ u.openUntil = until /\ u.amount = cmd.terms.amount
    BY <2>3, <2>4, PostCallFits
  <2> HIDE DEF u
  <2>6. Last(tx).fn = "opening::create_open_v2" /\ Last(tx).at = u
    BY <2>2 DEF Door, MoveCall
  <2>7. /\ PostTerms(Last(tx).at) /\ Last(tx).at.openUntil \in Nat
        /\ Last(tx).at.amount = cmd.terms.amount
    BY <2>4, <2>5, <2>6
  <2> QED
    BY <1>8, <2>6, <2>7 DEF TxFits, CallFits, OfOpening, OfJob, JobVerb, OfBatch, BulkVerb
<1>9. CASE cmd.verb = "batch-open-create"
  <2> DEFINE until == now + cmd.terms.openFor
             u == With(cmd.terms, "openUntil", until)
             v == With(u, "payment", u.amount * u.slots)
  <2>1. tx \in Funded(me, Door("batch::create_batch_open", v))
    BY <1>9 DEF Proposed, buildCreateBatchOpeningTx, JobVerb
  <2>2. Last(tx) = Door("batch::create_batch_open", v)
    BY <2>1, FundedLast
  <2>3. cmd.terms \in BatchTerms
    BY <1>2, <1>9 DEF TermsTyped
  <2>4. until \in Nat
    BY <1>1, <2>3 DEF BatchTerms
  <2> HIDE DEF until
  <2>5. /\ WaveTerms(v) /\ v.openUntil = until
        /\ v.payment = cmd.terms.amount * cmd.terms.slots
    BY <2>3, <2>4, WaveCallFits
  <2> HIDE DEF u, v
  <2>6. Last(tx).fn = "batch::create_batch_open" /\ Last(tx).at = v
    BY <2>2 DEF Door, MoveCall
  <2>7. /\ WaveTerms(Last(tx).at) /\ Last(tx).at.openUntil \in Nat
        /\ Last(tx).at.payment = cmd.terms.amount * cmd.terms.slots
    BY <2>4, <2>5, <2>6
  <2> QED
    BY <1>9, <2>6, <2>7 DEF TxFits, CallFits, OfOpening, OfJob, JobVerb, OfBatch, BulkVerb
<1>10. CASE cmd.verb \in BulkVerb
  <2> DEFINE S == cmd.jobs
             stars == cmd.terms.stars
             Calls(T) == buildReleaseJobsTx(SetToSeq(T)) \cup buildRefundJobsTx(SetToSeq(T))
                           \cup buildSubmitReviewsTx(SetToSeq(T), stars)
  <2>1. S \subseteq DOMAIN jobs
    BY <1>2, <1>10 DEF TargetsExist
  <2>2. \/ \E a : tx = <<buildCreateEmptyScoreTx(a)>>
        \/ \E T \in SUBSET S : tx \in Calls(T)
    <3>1. CASE cmd.verb = "review-many"
      <4>1. tx \in UNION {buildSubmitReviewsTx(SetToSeq(T), stars) : T \in Reviewable(S)}
        BY <3>1 DEF Proposed, JobVerb
      <4>2. Reviewable(S) \subseteq SUBSET S
        BY DEF Reviewable
      <4> QED
        BY <4>1, <4>2
    <3>2. CASE cmd.verb = "release-many"
      <4>1. tx \in AfterScores("release", S, buildReleaseJobsTx(SetToSeq(S)))
        BY <3>2 DEF Proposed, JobVerb
      <4> QED
        BY <4>1 DEF AfterScores
    <3>3. CASE cmd.verb = "refund-many"
      <4>1. tx \in AfterScores("refund", S, buildRefundJobsTx(SetToSeq(S)))
        BY <3>3 DEF Proposed, JobVerb
      <4> QED
        BY <4>1 DEF AfterScores
    <3> QED
      BY <1>10, <3>1, <3>2, <3>3 DEF BulkVerb
  <2>3. ASSUME NEW T \in SUBSET S, tx \in Calls(T)
        PROVE  \A i \in DOMAIN tx : tx[i].at.job \in DOMAIN jobs
    <3>1. T \subseteq DOMAIN jobs
      BY <2>1
    <3> QED
      BY <1>1, <2>3, <3>1, ManyProposed
  <2> QED
    BY <1>10, <2>2, <2>3, PrecursorProposed DEF TxFits
<1> QED
  BY <1>2, <1>3, <1>4, <1>5, <1>6, <1>7, <1>8, <1>9, <1>10 DEF TxVerb, OfJob, Funds

-----------------------------------------------------------------------------
(***************************************************************************)
(* What the wallet's transaction, and what everybody else, does there.     *)
(***************************************************************************)

\* The verbs that take nothing out of the wallet.
Works == Still \/ Settles \/ Claims \/ Returns \/ Bulk

Buys(buyer, amount) == Hires(buyer, amount) \/ PostsJob(buyer, amount) \/ PostsWave(buyer, amount)

LEMMA MovesKeep ==
  ASSUME ChainInv,
         \/ Works
         \/ Tick /\ UNCHANGED <<openings, batches>>
         \/ \E buyer \in Account, amount \in Nat : Buys(buyer, amount)
  PROVE  Kept
BY SettlesKeep, HiresKeep, PostsJobKeep, PostsWaveKeep, ClaimsKeep, ReturnsKeep, StillKeeps,
   TickKeeps, BulkKeeps DEF Works, Buys

LEMMA SpendTyped ==
  ASSUME CmdInv(cmd)
  PROVE  SpendOf(cmd) \in Nat
<1>1. CASE cmd.verb \in {"create", "open-create"}
  <2>1. cmd.terms.amount \in Nat
    BY <1>1 DEF CmdInv, TermsTyped, HireTerms, OpenTerms
  <2> QED
    BY <1>1, <2>1 DEF SpendOf
<1>2. CASE cmd.verb = "batch-open-create"
  <2>1. cmd.terms.amount \in Nat /\ cmd.terms.slots \in Nat
    BY <1>2 DEF CmdInv, TermsTyped, BatchTerms
  <2>2. cmd.terms.amount * cmd.terms.slots \in Nat
    BY <2>1
  <2> QED
    BY <1>2, <2>2 DEF SpendOf
<1>3. CASE cmd.verb \notin {"create", "open-create", "batch-open-create"}
  BY <1>3 DEF SpendOf
<1> QED
  BY <1>1, <1>2, <1>3

LEMMA ExecuteMoves ==
  ASSUME ChainInv, me \in Account, CmdInv(cmd), cmd.step = "submit", Execute
  PROVE  \/ Precursor(cmd.tx) /\ Still
         \/ ~Precursor(cmd.tx) /\ SpendOf(cmd) = 0 /\ Works
         \/ ~Precursor(cmd.tx) /\ Buys(me, SpendOf(cmd))
<1> DEFINE tx == cmd.tx
           S == {tx[i].at.job : i \in DOMAIN tx}
           call == Last(tx)
<1>0. TxFits(cmd, tx) /\ cmd.verb \in TxVerb /\ TermsTyped(cmd)
  BY DEF CmdInv
<1>1. CASE Precursor(tx)
  <2>1. DoorStep(me, tx[1])
    BY <1>1 DEF Execute
  <2>2. IsPrecursor(tx[1])
    BY <1>1 DEF Precursor, IsPrecursor
  <2> QED
    BY <1>1, <2>1, <2>2, PrecursorMoves
<1>2. CASE ~Precursor(tx) /\ cmd.verb \in BulkVerb
  <2>1. S \in SUBSET DOMAIN jobs
    BY <1>0, <1>2 DEF TxFits
  <2>2. ReleaseAll(S) \/ RefundAll(S) \/ ReviewAll(tx)
    BY <1>2 DEF Execute
  <2>3. ReviewAll(tx) => Still
    BY DEF ReviewAll, Still
  <2>4. Works
    BY <2>1, <2>2, <2>3 DEF Works, Bulk
  <2>5. SpendOf(cmd) = 0
    BY <1>2 DEF SpendOf, BulkVerb
  <2> QED
    BY <1>2, <2>4, <2>5
<1>3. CASE ~Precursor(tx) /\ cmd.verb \notin BulkVerb
  <2>1. DoorStep(me, call) /\ CallFits(cmd, call)
    BY <1>0, <1>3 DEF Execute, TxFits, BulkVerb
  <2> HIDE DEF call
  <2>2. CASE cmd.verb \in OfJob \cup OfOpening \cup OfBatch
    <3>1. ForJob(call) \/ ForOpening(call) \/ ForBatch(call)
      BY <2>1, <2>2 DEF CallFits
    <3>2. Works
      BY <2>1, <3>1, JobDoorMoves, OpeningDoorMoves, BatchDoorMoves DEF Works
    <3>3. SpendOf(cmd) = 0
      BY <2>2 DEF SpendOf, OfJob, JobVerb, OfOpening, OfBatch
    <3> QED
      BY <1>3, <3>2, <3>3
  <2>3. CASE cmd.verb = "create"
    <3>1. call.fn = "escrow::create" /\ call.at = cmd.terms /\ cmd.terms \in HireTerms
      BY <1>0, <2>1, <2>3 DEF CallFits, TermsTyped
    <3>2. Hires(me, cmd.terms.amount)
      BY <2>1, <3>1, HireMoves
    <3> QED
      BY <1>3, <2>3, <3>2 DEF SpendOf, Buys
  <2>4. CASE cmd.verb = "open-create"
    <3>1. /\ call.fn = "opening::create_open_v2" /\ PostTerms(call.at)
          /\ call.at.openUntil \in Nat /\ call.at.amount = cmd.terms.amount
      BY <2>1, <2>4 DEF CallFits
    <3>2. PostsJob(me, cmd.terms.amount)
      BY <2>1, <3>1, PostMoves
    <3> QED
      BY <1>3, <2>4, <3>2 DEF SpendOf, Buys
  <2>5. CASE cmd.verb = "batch-open-create"
    <3>1. /\ call.fn = "batch::create_batch_open" /\ WaveTerms(call.at)
          /\ call.at.openUntil \in Nat
          /\ call.at.payment = cmd.terms.amount * cmd.terms.slots
      BY <2>1, <2>5 DEF CallFits
    <3>2. PostsWave(me, cmd.terms.amount * cmd.terms.slots)
      BY <2>1, <3>1, WaveMoves
    <3> QED
      BY <1>3, <2>5, <3>2 DEF SpendOf, Buys
  <2> QED
    BY <1>0, <1>3, <2>2, <2>3, <2>4, <2>5 DEF TxVerb, Funds
<1> QED
  BY <1>1, <1>2, <1>3

LEMMA OthersMove ==
  ASSUME ChainInv, Others
  PROVE  Works \/ \E buyer \in Account \ {me}, amount \in Nat : Buys(buyer, amount)
<1> DEFINE Goal == Works \/ \E buyer \in Account \ {me}, amount \in Nat : Buys(buyer, amount)
<1>0. now \in Nat /\ \A d \in Nat : now + d \in Nat
  BY EscrowAssumption DEF ChainInv, IInv
<1>1. /\ Amount \subseteq Nat /\ Duration \subseteq Nat /\ Split \subseteq Nat
      /\ ReviewWindow \subseteq Nat /\ OpenWindow \subseteq Nat /\ MinLevel \subseteq Nat
      /\ Payment \subseteq Nat /\ SlotsTotal \subseteq Nat /\ MaxClaims \subseteq Nat
  BY EscrowAssumption, JobDeskAssumption, BoardAssumption, BatchAssumption
<1>2. PICK a \in Account \ {me} :
    \/ /\ a \in Poster
       /\ \E seller \in Account, j \in JobId, amount \in Amount, d \in Duration,
            w \in ReviewWindow, s \in Split : create(a, seller, j, amount, now + d, w, s)
       /\ UNCHANGED <<registryVars, scores, openings, batches>>
    \/ \E j \in DOMAIN jobs, verb \in JobVerb : \E tx \in prepare(verb, j) : DoorStep(a, tx[1])
    \/ DoorStep(a, buildCreateEmptyScoreTx(a))
    \/ /\ a \in Poster
       /\ \E o \in OpeningId, amount \in Amount, d \in OpenWindow, sla, w \in Duration, l \in MinLevel :
            create_open_v2(a, o, amount, now + d, sla, w, l)
       /\ UNCHANGED batches
    \/ /\ a \in Poster
       /\ \E b \in BatchId, payment \in Payment, slots \in SlotsTotal, d \in OpenWindow,
            sla, w \in Duration, l \in MinLevel, m \in MaxClaims :
            create_batch_open(a, b, payment, slots, now + d, sla, w, l, m)
       /\ UNCHANGED openings
    \/ (\E o \in DOMAIN openings, j \in JobId : claim_v2(a, o, j)) /\ UNCHANGED batches
    \/ (\E b \in DOMAIN batches, j \in JobId : batch_claim(a, b, j)) /\ UNCHANGED openings
  BY Zenon DEF Others
<1>3. ASSUME \E seller \in Account, j \in JobId, amount \in Amount, d \in Duration,
               w \in ReviewWindow, s \in Split : create(a, seller, j, amount, now + d, w, s),
             UNCHANGED <<registryVars, scores, openings, batches>>
      PROVE  Goal
  <2>1. PICK seller \in Account, j \in JobId, amount \in Amount, d \in Duration,
             w \in ReviewWindow, s \in Split : create(a, seller, j, amount, now + d, w, s)
    BY <1>3
  <2>2. amount \in Nat /\ now + d \in Nat /\ w \in Nat /\ s \in Nat
    BY <1>0, <1>1
  <2>3. Hires(a, amount)
    BY <1>3, <2>1, <2>2, Zenon DEF Hires
  <2> QED
    BY <2>2, <2>3 DEF Buys
<1>4. ASSUME NEW j \in DOMAIN jobs, NEW verb \in JobVerb, NEW tx \in prepare(verb, j),
             DoorStep(a, tx[1])
      PROVE  Goal
  <2>1. IsPrecursor(tx[1]) \/ ForJob(tx[1])
    BY <1>4, JobVerbProposed
  <2> QED
    BY <1>4, <2>1, PrecursorMoves, JobDoorMoves DEF Works
<1>5. ASSUME DoorStep(a, buildCreateEmptyScoreTx(a))
      PROVE  Goal
  <2>1. IsPrecursor(buildCreateEmptyScoreTx(a))
    BY DEF IsPrecursor, buildCreateEmptyScoreTx, Door, MoveCall
  <2> QED
    BY <1>5, <2>1, PrecursorMoves DEF Works
<1>6. ASSUME \E o \in OpeningId, amount \in Amount, d \in OpenWindow, sla, w \in Duration,
               l \in MinLevel : create_open_v2(a, o, amount, now + d, sla, w, l),
             UNCHANGED batches
      PROVE  Goal
  <2>1. PICK o \in OpeningId, amount \in Amount, d \in OpenWindow, sla, w \in Duration,
             l \in MinLevel : create_open_v2(a, o, amount, now + d, sla, w, l)
    BY <1>6
  <2>2. amount \in Nat /\ now + d \in Nat /\ sla \in Nat /\ w \in Nat /\ l \in Nat
    BY <1>0, <1>1
  <2>3. PostsJob(a, amount)
    BY <1>6, <2>1, <2>2, Zenon DEF PostsJob
  <2> QED
    BY <2>2, <2>3 DEF Buys
<1>7. ASSUME \E b \in BatchId, payment \in Payment, slots \in SlotsTotal, d \in OpenWindow,
               sla, w \in Duration, l \in MinLevel, m \in MaxClaims :
               create_batch_open(a, b, payment, slots, now + d, sla, w, l, m),
             UNCHANGED openings
      PROVE  Goal
  <2>1. PICK b \in BatchId, payment \in Payment, slots \in SlotsTotal, d \in OpenWindow,
             sla, w \in Duration, l \in MinLevel, m \in MaxClaims :
               create_batch_open(a, b, payment, slots, now + d, sla, w, l, m)
    BY <1>7
  <2>2. /\ payment \in Nat /\ slots \in Nat /\ now + d \in Nat /\ sla \in Nat /\ w \in Nat
        /\ l \in Nat /\ m \in Nat
    BY <1>0, <1>1
  <2>3. PostsWave(a, payment)
    BY <1>7, <2>1, <2>2, Zenon DEF PostsWave
  <2> QED
    BY <2>2, <2>3 DEF Buys
<1>8. ASSUME \/ (\E o \in DOMAIN openings, j \in JobId : claim_v2(a, o, j)) /\ UNCHANGED batches
             \/ (\E b \in DOMAIN batches, j \in JobId : batch_claim(a, b, j)) /\ UNCHANGED openings
      PROVE  Goal
  BY <1>8, Zenon DEF Works, Claims
<1> HIDE DEF Goal
<1>9. Goal
  BY <1>2, <1>3, <1>4, <1>5, <1>6, <1>7, <1>8
<1> QED
  BY <1>9 DEF Goal

-----------------------------------------------------------------------------
(***************************************************************************)
(* What the wallet has put into the market, and the steps that add to it.  *)
(***************************************************************************)

\* One more cost adds its amount to the total.
LEMMA OneMoreCost ==
  ASSUME NEW cost, IsFiniteSet(Units(cost)), NEW x, x \notin DOMAIN cost, NEW n \in Nat, NEW after,
         after = [y \in DOMAIN cost \cup {x} |-> IF y = x THEN n ELSE cost[y]]
  PROVE  IsFiniteSet(Units(after)) /\ Total(after) = Total(cost) + n
<1> DEFINE new == {x} \X (1..n)
<1>1. Units(after) = Units(cost) \cup new
  <2>1. \A y \in DOMAIN cost : after[y] = cost[y]
    OBVIOUS
  <2>2. after[x] = n /\ DOMAIN after = DOMAIN cost \cup {x}
    OBVIOUS
  <2>3. \A u : u \in Units(after) <=> \E y \in DOMAIN after : u \in {y} \X (1..after[y])
    BY DEF Units
  <2>4. \A u : u \in Units(cost) <=> \E y \in DOMAIN cost : u \in {y} \X (1..cost[y])
    BY DEF Units
  <2>5. \A u : u \in Units(after) <=> u \in Units(cost) \/ u \in new
    BY <2>1, <2>2, <2>3, <2>4, Zenon
  <2> QED
    BY <2>5
<1>2. Units(cost) \cap new = {}
  <2>1. \A u \in Units(cost) : u[1] \in DOMAIN cost
    BY DEF Units
  <2>2. \A u \in new : u[1] = x
    OBVIOUS
  <2> QED
    BY <2>1, <2>2
<1>3. IsFiniteSet(new) /\ Cardinality(new) = n
  <2>1. IsFiniteSet(1..n) /\ Cardinality(1..n) = n
    BY FS_Interval
  <2>2. IsFiniteSet({x}) /\ Cardinality({x}) = 1
    BY FS_Singleton
  <2> QED
    BY <2>1, <2>2, FS_Product
<1> HIDE DEF new
<1>4. /\ IsFiniteSet(Units(cost) \cup new)
      /\ Cardinality(Units(cost) \cup new) = Cardinality(Units(cost)) + Cardinality(new)
                                              - Cardinality(Units(cost) \cap new)
  BY <1>3, FS_Union
<1>5. Cardinality(Units(cost) \cap new) = 0
  BY <1>2, FS_EmptySet
<1>6. Cardinality(Units(cost)) \in Nat
  BY FS_CardinalityType
<1> DEFINE before == Cardinality(Units(cost))
<1>7. Cardinality(Units(after)) = before + n - 0
  BY <1>1, <1>3, <1>4, <1>5
<1> HIDE DEF before
<1>8. Cardinality(Units(after)) = before + n
  BY <1>6, <1>7 DEF before
<1> QED
  BY <1>1, <1>4, <1>8 DEF Total, before

\* Jobs keep their terms, posts their buyers and what was paid for them.
PostsStay ==
  /\ \A o \in DOMAIN openings :
       openings'[o].buyer = openings[o].buyer /\ openings'[o].amount = openings[o].amount
  /\ \A b \in DOMAIN batches :
       /\ batches'[b].buyer = batches[b].buyer /\ batches'[b].amount = batches[b].amount
       /\ batches'[b].slots_total = batches[b].slots_total

\* Nobody's money goes in, unless it is a claim's, which was in already.
NothingNew ==
  /\ TermsStay /\ PostsStay
  /\ UNCHANGED <<DOMAIN openings, DOMAIN batches>>
  /\ DOMAIN jobs \subseteq DOMAIN jobs'
  /\ \A j \in DOMAIN jobs' \ DOMAIN jobs : jobs'[j].claimed = TRUE

LEMMA CostsStay ==
  ASSUME NothingNew, UNCHANGED me
  PROVE  UNCHANGED <<HireCost, PostCost, WaveCost>>
<1>1. \A j \in DOMAIN jobs : /\ jobs'[j].buyer = jobs[j].buyer
                             /\ jobs'[j].claimed = jobs[j].claimed
                             /\ jobs'[j].amount = jobs[j].amount
  BY DEF NothingNew, TermsStay, Term
<1>2. {j \in DOMAIN jobs' : jobs'[j].buyer = me' /\ ~jobs'[j].claimed}
        = {j \in DOMAIN jobs : jobs[j].buyer = me /\ ~jobs[j].claimed}
  <2>1. /\ DOMAIN jobs \subseteq DOMAIN jobs'
        /\ \A j \in DOMAIN jobs' : j \in DOMAIN jobs \/ jobs'[j].claimed = TRUE
    BY DEF NothingNew
  <2> QED
    BY <1>1, <2>1, Zenon
<1>3. HireCost' = HireCost
  BY <1>1, <1>2 DEF HireCost
<1>4. PostCost' = PostCost
  BY DEF NothingNew, PostsStay, PostCost
<1>5. WaveCost' = WaveCost
  BY DEF NothingNew, PostsStay, WaveCost
<1> QED
  BY <1>3, <1>4, <1>5

LEMMA WorksAddNothing ==
  ASSUME ChainInv, Works \/ (Tick /\ UNCHANGED <<openings, batches>>)
  PROVE  NothingNew
<1>0. /\ BatchesInv /\ OpeningsInv
      /\ \A b \in DOMAIN batches : batches[b] \in PostedBatch
      /\ \A o \in DOMAIN openings : openings[o] \in PostedOpening
  BY DEF ChainInv, PostsInv, OpeningsInv, BatchesInv
<1>1. TermsStay
  BY MovesKeep DEF Kept
<1>2. CASE Still \/ (Tick /\ UNCHANGED <<openings, batches>>)
  BY <1>1, <1>2 DEF Still, Tick, escrowVars, NothingNew, PostsStay
<1>3. CASE Settles
  <2>1. DOMAIN jobs' = DOMAIN jobs
    <3>1. IInv /\ Settle
      BY <1>3 DEF ChainInv, Settles
    <3>2. PICK j \in DOMAIN jobs, job \in Job : OneMoves(j, job)
      BY <3>1, SettleMoves
    <3> QED
      BY <3>2 DEF OneMoves
  <2>2. UNCHANGED openings
    BY <1>3 DEF Settles
  <2>3. ASSUME NEW b, NEW k, free_wave_hold(b, jobs[k])
        PROVE  PostsStay /\ DOMAIN batches' = DOMAIN batches
    BY <1>0, <2>2, <2>3 DEF free_wave_hold, PostsStay, PostedBatch
  <2>4. PostsStay /\ DOMAIN batches' = DOMAIN batches
    BY <1>3, <2>2, <2>3 DEF Settles, PostsStay
  <2> QED
    BY <1>1, <2>1, <2>2, <2>4 DEF NothingNew
<1>4. CASE Claims
  <2>1. ASSUME NEW buyer, NEW seller, NEW j, NEW amount, NEW fee, NEW t, NEW w, NEW s,
               NEW origin, create_claimed(buyer, seller, j, amount, fee, t, w, s, origin)
        PROVE  /\ DOMAIN jobs \subseteq DOMAIN jobs'
               /\ \A k \in DOMAIN jobs' \ DOMAIN jobs : jobs'[k].claimed = TRUE
    <3> DEFINE job == NewJob(buyer, seller, amount, fee, t, w, s, TRUE, origin)
    <3>1. share(j, job)
      BY <2>1 DEF create_claimed
    <3>2. job.claimed = TRUE
      BY DEF NewJob
    <3> HIDE DEF job
    <3> QED
      BY <3>1, <3>2 DEF share
  <2>2. ASSUME NEW claimer \in Account, NEW o \in DOMAIN openings, NEW j \in JobId,
               claim_v2(claimer, o, j), UNCHANGED batches
        PROVE  NothingNew
    <3>1. /\ DOMAIN jobs \subseteq DOMAIN jobs'
          /\ \A k \in DOMAIN jobs' \ DOMAIN jobs : jobs'[k].claimed = TRUE
      BY <2>1, <2>2 DEF claim_v2, do_claim
    <3>2. openings' = [openings EXCEPT ![o].state = CLAIMED, ![o].escrow = 0, ![o].job = j]
      BY <2>2 DEF claim_v2, do_claim
    <3>3. PostsStay /\ DOMAIN openings' = DOMAIN openings
      BY <1>0, <2>2, <3>2 DEF PostsStay, PostedOpening
    <3> QED
      BY <1>1, <2>2, <3>1, <3>3 DEF NothingNew
  <2>3. ASSUME NEW claimer \in Account, NEW b \in DOMAIN batches, NEW j \in JobId,
               batch_claim(claimer, b, j), UNCHANGED openings
        PROVE  NothingNew
    <3>1. /\ DOMAIN jobs \subseteq DOMAIN jobs'
          /\ \A k \in DOMAIN jobs' \ DOMAIN jobs : jobs'[k].claimed = TRUE
      BY <2>1, <2>3 DEF batch_claim
    <3>2. batches' = [batches EXCEPT ![b].escrow = @ - batches[b].amount,
                                     ![b].slots_remaining = @ - 1,
                                     ![b].claims_by_agent[claimer] = @ + 1]
      BY <2>3 DEF batch_claim
    <3>3. PostsStay /\ DOMAIN batches' = DOMAIN batches
      BY <1>0, <2>3, <3>2 DEF PostsStay, PostedBatch
    <3> QED
      BY <1>1, <2>3, <3>1, <3>3 DEF NothingNew
  <2> QED
    BY <1>4, <2>2, <2>3 DEF Claims
<1>5. CASE Returns
  <2>1. ASSUME NEW o \in DOMAIN openings, repay_buyer(o), UNCHANGED batches
        PROVE  NothingNew
    <3>1. /\ openings' = [openings EXCEPT ![o].state = REPAID, ![o].escrow = 0,
                                          ![o].repaid = openings[o].escrow]
          /\ UNCHANGED jobs
      BY <2>1 DEF repay_buyer, reputationVars, escrowVars
    <3>2. PostsStay /\ DOMAIN openings' = DOMAIN openings
      BY <1>0, <2>1, <3>1 DEF PostsStay, PostedOpening
    <3> QED
      BY <1>1, <2>1, <3>1, <3>2 DEF NothingNew
  <2>2. ASSUME NEW b \in DOMAIN batches, drain_remainder(b), UNCHANGED openings
        PROVE  NothingNew
    <3>1. /\ batches' = [batches EXCEPT ![b].slots_remaining = 0, ![b].escrow = 0,
                                        ![b].returned = @ + batches[b].escrow]
          /\ UNCHANGED jobs
      BY <2>2 DEF drain_remainder, reputationVars, escrowVars
    <3>2. PostsStay /\ DOMAIN batches' = DOMAIN batches
      BY <1>0, <2>2, <3>1 DEF PostsStay, PostedBatch
    <3> QED
      BY <1>1, <2>2, <3>1, <3>2 DEF NothingNew
  <2> QED
    BY <1>5, <2>1, <2>2 DEF Returns
<1>6. CASE Bulk
  <2>1. PICK S \in SUBSET DOMAIN jobs : ReleaseAll(S) \/ RefundAll(S)
    BY <1>6 DEF Bulk
  <2>2. DOMAIN jobs' = DOMAIN jobs /\ batches' = HoldsAfter(S) /\ UNCHANGED openings
    BY <2>1 DEF ReleaseAll, RefundAll
  <2>3. DOMAIN batches' = DOMAIN batches /\ \A b \in DOMAIN batches :
          \E held : batches'[b] = [batches[b] EXCEPT !.claims_by_agent = held]
    BY <2>2, Zenon DEF HoldsAfter
  <2>4. PostsStay
    BY <1>0, <2>2, <2>3 DEF PostsStay, PostedBatch
  <2> QED
    BY <1>1, <2>2, <2>3, <2>4 DEF NothingNew
<1> QED
  BY <1>2, <1>3, <1>4, <1>5, <1>6 DEF Works

CostsFinite ==
  IsFiniteSet(Units(HireCost)) /\ IsFiniteSet(Units(PostCost)) /\ IsFiniteSet(Units(WaveCost))

LEMMA EscrowedTyped ==
  ASSUME CostsFinite
  PROVE  Total(HireCost) \in Nat /\ Total(PostCost) \in Nat /\ Total(WaveCost) \in Nat
BY FS_CardinalityType DEF CostsFinite, Total

\* A hire, a post or a wave adds what its buyer paid, and to nobody else's.
LEMMA HireCounts ==
  ASSUME CostsFinite, NEW buyer \in Account, NEW amount \in Nat, Hires(buyer, amount),
         UNCHANGED me
  PROVE  CostsFinite' /\ Escrowed' = Escrowed + IF buyer = me THEN amount ELSE 0
<1>1. PICK seller \in Account, j \in JobId, t \in Nat, w \in Nat, s \in Nat :
        create(buyer, seller, j, amount, t, w, s)
  BY DEF Hires
<1> DEFINE job == NewJob(buyer, seller, amount, cfg.fee_bps, t, w, s, FALSE, NoBatch)
<1>2. share(j, job) /\ j \notin DOMAIN jobs
  BY <1>1 DEF create
<1>3. job.buyer = buyer /\ job.amount = amount /\ job.claimed = FALSE
  BY DEF NewJob
<1> HIDE DEF job
<1>4. /\ DOMAIN jobs' = DOMAIN jobs \cup {j}
      /\ jobs'[j] = job
      /\ \A k \in DOMAIN jobs : jobs'[k] = jobs[k]
  BY <1>2 DEF share
<1>5. PostCost' = PostCost /\ WaveCost' = WaveCost
  BY DEF Hires, PostCost, WaveCost
<1> DEFINE mine == {k \in DOMAIN jobs : jobs[k].buyer = me /\ ~jobs[k].claimed}
           mineNow == {k \in DOMAIN jobs' : jobs'[k].buyer = me' /\ ~jobs'[k].claimed}
<1>6. mineNow = IF buyer = me THEN mine \cup {j} ELSE mine
  <2>1. \A k \in DOMAIN jobs : k \in mineNow <=> k \in mine
    BY <1>4, Zenon
  <2>2. j \in mineNow <=> buyer = me
    BY <1>3, <1>4, Zenon
  <2>3. mine \subseteq DOMAIN jobs /\ mineNow \subseteq DOMAIN jobs \cup {j}
    BY <1>4
  <2> HIDE DEF mine, mineNow
  <2>4. CASE buyer = me
    BY <2>1, <2>2, <2>3, <2>4
  <2>5. CASE buyer # me
    BY <2>1, <2>2, <2>3, <2>5
  <2> QED
    BY <2>4, <2>5
<1>7. HireCost = [k \in mine |-> jobs[k].amount] /\ HireCost' = [k \in mineNow |-> jobs'[k].amount]
  BY DEF HireCost
<1>8. j \notin mine /\ mine \subseteq DOMAIN jobs
  BY <1>2
<1> HIDE DEF mine, mineNow
<1>9. CASE buyer = me
  <2>1. HireCost' = [k \in DOMAIN HireCost \cup {j} |-> IF k = j THEN amount ELSE HireCost[k]]
    BY <1>3, <1>4, <1>6, <1>7, <1>8, <1>9
  <2>2. j \notin DOMAIN HireCost
    BY <1>7, <1>8
  <2>3. IsFiniteSet(Units(HireCost')) /\ Total(HireCost') = Total(HireCost) + amount
    BY <2>1, <2>2, OneMoreCost DEF CostsFinite
  <2>4. Total(PostCost)' = Total(PostCost) /\ Total(WaveCost)' = Total(WaveCost)
    BY <1>5 DEF Total
  <2>5. Total(HireCost)' = Total(HireCost) + amount
    BY <2>3 DEF Total
  <2>6. CostsFinite'
    BY <1>5, <2>3 DEF CostsFinite
  <2> QED
    BY <1>9, <2>4, <2>5, <2>6, EscrowedTyped DEF Escrowed
<1>10. CASE buyer # me
  <2>1. HireCost' = HireCost
    BY <1>4, <1>6, <1>7, <1>8, <1>10
  <2>2. CostsFinite' /\ Escrowed' = Escrowed
    BY <1>5, <2>1 DEF CostsFinite, Escrowed, Total
  <2>3. Escrowed \in Nat
    BY EscrowedTyped DEF Escrowed
  <2> QED
    BY <1>10, <2>2, <2>3
<1> QED
  BY <1>9, <1>10

LEMMA PostCounts ==
  ASSUME CostsFinite, NEW buyer \in Account, NEW amount \in Nat, PostsJob(buyer, amount),
         UNCHANGED me
  PROVE  CostsFinite' /\ Escrowed' = Escrowed + IF buyer = me THEN amount ELSE 0
<1>1. PICK o \in OpeningId, t \in Nat, sla \in Nat, w \in Nat, l \in Nat :
        create_open_v2(buyer, o, amount, t, sla, w, l)
  BY DEF PostsJob
<1>2. /\ o \notin DOMAIN openings
      /\ DOMAIN openings' = DOMAIN openings \cup {o}
      /\ openings'[o].buyer = buyer /\ openings'[o].amount = amount
      /\ \A p \in DOMAIN openings : openings'[p] = openings[p]
  BY <1>1 DEF create_open_v2
<1>3. HireCost' = HireCost /\ WaveCost' = WaveCost
  <2>1. UNCHANGED <<jobs, batches>>
    BY <1>1 DEF create_open_v2, reputationVars, escrowVars, PostsJob
  <2> QED
    BY <2>1 DEF HireCost, WaveCost
<1>4. CASE buyer = me
  <2>1. /\ PostCost' = [p \in DOMAIN PostCost \cup {o} |-> IF p = o THEN amount ELSE PostCost[p]]
        /\ o \notin DOMAIN PostCost
    BY <1>2, <1>4 DEF PostCost
  <2>2. IsFiniteSet(Units(PostCost')) /\ Total(PostCost') = Total(PostCost) + amount
    BY <2>1, OneMoreCost DEF CostsFinite
  <2>3. Total(HireCost)' = Total(HireCost) /\ Total(WaveCost)' = Total(WaveCost)
    BY <1>3 DEF Total
  <2>4. Total(PostCost)' = Total(PostCost) + amount
    BY <2>2 DEF Total
  <2>5. CostsFinite'
    BY <1>3, <2>2 DEF CostsFinite
  <2> QED
    BY <1>4, <2>3, <2>4, <2>5, EscrowedTyped DEF Escrowed
<1>5. CASE buyer # me
  <2>1. PostCost' = PostCost
    BY <1>2, <1>5 DEF PostCost
  <2>2. CostsFinite' /\ Escrowed' = Escrowed
    BY <1>3, <2>1 DEF CostsFinite, Escrowed, Total
  <2>3. Escrowed \in Nat
    BY EscrowedTyped DEF Escrowed
  <2> QED
    BY <1>5, <2>2, <2>3
<1> QED
  BY <1>4, <1>5

LEMMA WaveCounts ==
  ASSUME CostsFinite, NEW buyer \in Account, NEW payment \in Nat, PostsWave(buyer, payment),
         UNCHANGED me
  PROVE  CostsFinite' /\ Escrowed' = Escrowed + IF buyer = me THEN payment ELSE 0
<1>1. PICK b \in BatchId, slots \in Nat, t \in Nat, sla \in Nat, w \in Nat, l \in Nat,
           m \in Nat : create_batch_open(buyer, b, payment, slots, t, sla, w, l, m)
  BY DEF PostsWave
<1>2. /\ b \notin DOMAIN batches
      /\ DOMAIN batches' = DOMAIN batches \cup {b}
      /\ \A p \in DOMAIN batches : batches'[p] = batches[p]
  BY <1>1 DEF create_batch_open
<1>3. batches'[b].buyer = buyer /\ batches'[b].amount * batches'[b].slots_total = payment
  <2> DEFINE amount == payment \div slots
  <2>1. amount * slots = payment
    BY <1>1 DEF create_batch_open
  <2>2. /\ batches'[b].buyer = buyer /\ batches'[b].amount = amount
        /\ batches'[b].slots_total = slots
    BY <1>1 DEF create_batch_open
  <2> HIDE DEF amount
  <2> QED
    BY <2>1, <2>2
<1>4. HireCost' = HireCost /\ PostCost' = PostCost
  <2>1. UNCHANGED <<jobs, openings>>
    BY <1>1 DEF create_batch_open, reputationVars, escrowVars, PostsWave
  <2> QED
    BY <2>1 DEF HireCost, PostCost
<1>5. CASE buyer = me
  <2>1. /\ WaveCost' = [p \in DOMAIN WaveCost \cup {b} |-> IF p = b THEN payment ELSE WaveCost[p]]
        /\ b \notin DOMAIN WaveCost
    BY <1>2, <1>3, <1>5 DEF WaveCost
  <2>2. IsFiniteSet(Units(WaveCost')) /\ Total(WaveCost') = Total(WaveCost) + payment
    BY <2>1, OneMoreCost DEF CostsFinite
  <2>3. Total(HireCost)' = Total(HireCost) /\ Total(PostCost)' = Total(PostCost)
    BY <1>4 DEF Total
  <2>4. Total(WaveCost)' = Total(WaveCost) + payment
    BY <2>2 DEF Total
  <2>5. CostsFinite'
    BY <1>4, <2>2 DEF CostsFinite
  <2> QED
    BY <1>5, <2>3, <2>4, <2>5, EscrowedTyped DEF Escrowed
<1>6. CASE buyer # me
  <2>1. WaveCost' = WaveCost
    <3> DEFINE mine == {p \in DOMAIN batches : batches[p].buyer = me}
               mineNow == {p \in DOMAIN batches' : batches'[p].buyer = me'}
    <3>1. mineNow = mine /\ \A p \in mine : batches'[p] = batches[p]
      BY <1>2, <1>3, <1>6
    <3>2. /\ WaveCost = [p \in mine |-> batches[p].amount * batches[p].slots_total]
          /\ WaveCost' = [p \in mineNow |-> batches'[p].amount * batches'[p].slots_total]
      BY Zenon DEF WaveCost
    <3> HIDE DEF mine, mineNow
    <3> QED
      BY <3>1, <3>2, Zenon
  <2>2. CostsFinite' /\ Escrowed' = Escrowed
    BY <1>4, <2>1 DEF CostsFinite, Escrowed, Total
  <2>3. Escrowed \in Nat
    BY EscrowedTyped DEF Escrowed
  <2> QED
    BY <1>6, <2>2, <2>3
<1> QED
  BY <1>5, <1>6

-----------------------------------------------------------------------------
(***************************************************************************)
(* The inductive invariant of the desk.                                    *)
(***************************************************************************)

\* An uploaded body is readable before anything is built on its hash.
BodyKept(c) ==
  /\ c.verb \in {"create", "deliver"} /\ c.body # HashOnly
  /\ c.step \in {"check", "prepare", "submit"}
  => c.hash \in stored /\ c.hash = c.body

\* A release knows that it pays for nothing, could not know, or does not.
ReleaseKnows(c) == c.verb = "release" => c.flag \/ c.unread \/ jobs[c.job].state # FUNDED

CmdOk(c) == CmdInv(c) /\ BodyKept(c) /\ ReleaseKnows(c)

LedgerInv == spent \in Nat /\ unheard \in Nat /\ CostsFinite /\ EscrowedIsCounted

DeskInv ==
  ChainInv /\ me \in Account /\ CmdOk(cmd) /\ LedgerInv /\ PinnedIsReadable /\ GoodwillIsAsked

LEMMA NoCmdOk == CmdOk(NoCmd)
BY DEF NoCmd, CmdOk, CmdInv, TargetsExist, TermsTyped, BodyKept, ReleaseKnows, TxVerb, OfJob,
   JobVerb, OfOpening, OfBatch, Funds, BulkVerb

\* A step between two calls changes the invocation alone.
LEMMA CmdStep ==
  ASSUME DeskInv, NEW c, CmdOk(c), cmd' = c, UNCHANGED <<marketVars, me, stored, walletVars>>
  PROVE  DeskInv'
<1>1. UNCHANGED <<now, cfg, jobs, openings, batches>>
  BY DEF marketVars, reputationVars, escrowVars
<1>2. ChainInv'
  <2>1. Still
    BY <1>1 DEF Still, escrowVars
  <2> QED
    BY <2>1, StillKeeps DEF DeskInv, Kept
<1>3. CmdInv(c)'
  <2>1. Onward /\ Grows
    BY <1>1 DEF Onward, Grows
  <2> QED
    BY <2>1, CmdStays DEF CmdOk
<1>4. BodyKept(c)'
  BY DEF CmdOk, BodyKept
<1>5. ReleaseKnows(c)'
  BY <1>1, Zenon DEF CmdOk, ReleaseKnows
<1>6. LedgerInv'
  BY <1>1 DEF DeskInv, LedgerInv, CostsFinite, EscrowedIsCounted, Escrowed, Total, HireCost,
     PostCost, WaveCost, walletVars
<1>7. PinnedIsReadable' /\ GoodwillIsAsked'
  BY Zenon DEF DeskInv, PinnedIsReadable, GoodwillIsAsked, walletVars
<1> QED
  BY <1>2, <1>3, <1>4, <1>5, <1>6, <1>7 DEF DeskInv, CmdOk

LEMMA BeginStep ==
  ASSUME DeskInv, NEW c, CmdOk(c), Begin(c)
  PROVE  DeskInv'
BY CmdStep DEF Begin, OnlyCmd

LEMMA FinishStep ==
  ASSUME DeskInv, Finish, UNCHANGED <<marketVars, me, stored, walletVars>>
  PROVE  DeskInv'
BY NoCmdOk, CmdStep DEF Finish

\* What the verbs ask for.
LEMMA HireOk ==
  ASSUME DeskInv, hire
  PROVE  DeskInv'
<1>1. PICK seller \in Account, amount \in Amount, d \in Duration, w \in ReviewWindow,
           s \in Split, body \in Draft \cup {HashOnly} :
        Begin([NoCmd EXCEPT !.verb = "create", !.step = UploadStep("create", body), !.body = body,
                 !.terms = [seller |-> seller, amount |-> amount, deliverBy |-> d, window |-> w,
                            split |-> s]])
  BY DEF hire
<1> DEFINE t == [seller |-> seller, amount |-> amount, deliverBy |-> d, window |-> w, split |-> s]
           step == UploadStep("create", body)
           c == [NoCmd EXCEPT !.verb = "create", !.step = step, !.body = body, !.terms = t]
<1>2. t \in HireTerms
  BY EscrowAssumption, JobDeskAssumption DEF HireTerms
<1>3. /\ step \in {"check", "put"}
      /\ step = "check" => body = HashOnly
  BY DEF UploadStep, AfterUpload
<1> HIDE DEF t, step
<1>4. /\ DOMAIN c = DOMAIN NoCmd
      /\ c.verb = "create" /\ c.step = step /\ c.body = body /\ c.terms = t
  BY DEF NoCmd
<1>5. Begin(c)
  BY <1>1 DEF t, step
<1> HIDE DEF c
<1>6. CmdOk(c)
  BY <1>2, <1>3, <1>4 DEF CmdOk, CmdInv, TargetsExist, TermsTyped, BodyKept, ReleaseKnows,
     OfJob, JobVerb, OfOpening, OfBatch, BulkVerb
<1> QED
  BY <1>5, <1>6, BeginStep

LEMMA DeliverOk ==
  ASSUME DeskInv, deliver_cmd
  PROVE  DeskInv'
<1>1. PICK j \in DOMAIN jobs, body \in Draft \cup {HashOnly} :
        Begin([NoCmd EXCEPT !.verb = "deliver", !.step = UploadStep("deliver", body),
                            !.job = j, !.body = body])
  BY DEF deliver_cmd
<1> DEFINE step == UploadStep("deliver", body)
           c == [NoCmd EXCEPT !.verb = "deliver", !.step = step, !.job = j, !.body = body]
<1>2. /\ step \in {"prepare", "put"}
      /\ step = "prepare" => body = HashOnly
  BY DEF UploadStep, AfterUpload
<1>3. Begin(c)
  BY <1>1
<1> HIDE DEF step
<1>4. /\ DOMAIN c = DOMAIN NoCmd
      /\ c.verb = "deliver" /\ c.step = step /\ c.body = body /\ c.job = j
  BY DEF NoCmd
<1> HIDE DEF c
<1>5. CmdOk(c)
  BY <1>2, <1>4 DEF CmdOk, CmdInv, TargetsExist, TermsTyped, BodyKept, ReleaseKnows,
     TxVerb, OfJob, JobVerb, OfOpening, OfBatch, BulkVerb
<1> QED
  BY <1>3, <1>5, BeginStep

LEMMA ReleaseOk ==
  ASSUME DeskInv, release_cmd
  PROVE  DeskInv'
<1>1. PICK j \in DOMAIN jobs, flag \in BOOLEAN, unread \in BOOLEAN :
        /\ unread \/ MayRelease(getJob(j), flag)
        /\ Begin([NoCmd EXCEPT !.verb = "release", !.step = "prepare", !.job = j,
                               !.flag = flag, !.unread = unread])
  BY Zenon DEF release_cmd
<1> DEFINE c == [NoCmd EXCEPT !.verb = "release", !.step = "prepare", !.job = j,
                              !.flag = flag, !.unread = unread]
<1>2. flag \/ unread \/ jobs[j].state # FUNDED
  <2>1. MayRelease(getJob(j), flag) => flag \/ getJob(j).state # FUNDED
    BY Zenon DEF MayRelease
  <2>2. getJob(j).state = jobs[j].state
    BY DEF getJob
  <2> QED
    BY <1>1, <2>1, <2>2, Zenon
<1>3. /\ DOMAIN c = DOMAIN NoCmd
      /\ c.verb = "release" /\ c.step = "prepare" /\ c.job = j
      /\ c.flag = flag /\ c.unread = unread
  BY DEF NoCmd
<1>4. Begin(c)
  BY <1>1
<1> HIDE DEF c
<1>5. ReleaseKnows(c)
  BY <1>2, <1>3, Zenon DEF ReleaseKnows
<1>6. CmdInv(c) /\ BodyKept(c)
  BY <1>3 DEF CmdInv, TargetsExist, TermsTyped, BodyKept, TxVerb, OfJob, JobVerb, OfOpening,
     OfBatch, BulkVerb
<1> QED
  BY <1>4, <1>5, <1>6, BeginStep DEF CmdOk

\* A verb that goes straight to the rail with what it names.
LEMMA RailOk ==
  ASSUME DeskInv, NEW c, DOMAIN c = DOMAIN NoCmd, c.step = "prepare",
         c.verb \in TxVerb \ {"create", "deliver", "release"},
         TargetsExist(c), TermsTyped(c), Begin(c)
  PROVE  DeskInv'
<1>1. CmdOk(c)
  BY DEF CmdOk, CmdInv, BodyKept, ReleaseKnows
<1> QED
  BY <1>1, BeginStep

LEMMA JobVerbsOk ==
  ASSUME DeskInv, verb_cmd \/ review_cmd
  PROVE  DeskInv'
<1>1. ASSUME NEW verb \in {"reject", "decline", "refund"}, NEW j \in DOMAIN jobs,
             Begin([NoCmd EXCEPT !.verb = verb, !.step = "prepare", !.job = j])
      PROVE  DeskInv'
  <2> DEFINE c == [NoCmd EXCEPT !.verb = verb, !.step = "prepare", !.job = j]
  <2>1. DOMAIN c = DOMAIN NoCmd /\ c.verb = verb /\ c.step = "prepare" /\ c.job = j
    BY DEF NoCmd
  <2>2. Begin(c)
    BY <1>1
  <2> HIDE DEF c
  <2>3. /\ c.verb \in TxVerb \ {"create", "deliver", "release"}
        /\ TargetsExist(c) /\ TermsTyped(c)
    BY <2>1 DEF TxVerb, OfJob, JobVerb, OfOpening, OfBatch, BulkVerb, TargetsExist, TermsTyped
  <2> QED
    BY <2>1, <2>2, <2>3, RailOk
<1>2. ASSUME NEW j \in DOMAIN jobs, NEW stars, Begin(submitJobReview(j, stars))
      PROVE  DeskInv'
  <2> DEFINE c == submitJobReview(j, stars)
  <2>1. DOMAIN c = DOMAIN NoCmd /\ c.verb = "job-review" /\ c.step = "prepare" /\ c.job = j
    BY DEF NoCmd, submitJobReview, OnRail
  <2>2. Begin(c)
    BY <1>2
  <2> HIDE DEF c
  <2>3. /\ c.verb \in TxVerb \ {"create", "deliver", "release"}
        /\ TargetsExist(c) /\ TermsTyped(c)
    BY <2>1 DEF TxVerb, OfJob, JobVerb, OfOpening, OfBatch, BulkVerb, TargetsExist, TermsTyped
  <2> QED
    BY <2>1, <2>2, <2>3, RailOk
<1> QED
  BY <1>1, <1>2 DEF verb_cmd, review_cmd

LEMMA PostsOk ==
  ASSUME DeskInv, open_cmd \/ batch_open_cmd
  PROVE  DeskInv'
<1>0. /\ Amount \subseteq Nat /\ Duration \subseteq Nat /\ OpenWindow \subseteq Nat
      /\ SlotsTotal \subseteq Nat /\ MaxClaims \subseteq Nat /\ TrustKnob \subseteq TrustRequirement
  BY EscrowAssumption, BoardAssumption, BatchAssumption, JobDeskAssumption
<1>1. ASSUME NEW t \in OpenTerms, Begin(postOpenJob(t))
      PROVE  DeskInv'
  <2> DEFINE c == postOpenJob(t)
  <2>1. DOMAIN c = DOMAIN NoCmd /\ c.verb = "open-create" /\ c.step = "prepare" /\ c.terms = t
    BY DEF NoCmd, postOpenJob, OnRail
  <2>2. Begin(c)
    BY <1>1
  <2> HIDE DEF c
  <2>3. /\ c.verb \in TxVerb \ {"create", "deliver", "release"}
        /\ TargetsExist(c) /\ TermsTyped(c)
    BY <2>1 DEF TxVerb, OfJob, JobVerb, OfOpening, OfBatch, BulkVerb, Funds, TargetsExist, TermsTyped
  <2> QED
    BY <2>1, <2>2, <2>3, RailOk
<1>2. ASSUME NEW t \in BatchTerms, Begin(postBatchOpenJob(t))
      PROVE  DeskInv'
  <2> DEFINE c == postBatchOpenJob(t)
  <2>1. DOMAIN c = DOMAIN NoCmd /\ c.verb = "batch-open-create" /\ c.step = "prepare" /\ c.terms = t
    BY DEF NoCmd, postBatchOpenJob, OnRail
  <2>2. Begin(c)
    BY <1>2
  <2> HIDE DEF c
  <2>3. /\ c.verb \in TxVerb \ {"create", "deliver", "release"}
        /\ TargetsExist(c) /\ TermsTyped(c)
    BY <2>1 DEF TxVerb, OfJob, JobVerb, OfOpening, OfBatch, BulkVerb, Funds, TargetsExist, TermsTyped
  <2> QED
    BY <2>1, <2>2, <2>3, RailOk
<1>3. CASE open_cmd
  <2>1. PICK amount \in Amount, d \in OpenWindow, sla \in Duration, w \in Duration,
             trust \in TrustKnob :
          Begin(postOpenJob([amount |-> amount, openFor |-> d, sla |-> sla, window |-> w,
                             trust |-> trust]))
    BY <1>3, Zenon DEF open_cmd
  <2> DEFINE t == [amount |-> amount, openFor |-> d, sla |-> sla, window |-> w, trust |-> trust]
  <2>2. t \in OpenTerms
    BY <1>0 DEF OpenTerms
  <2> QED
    BY <1>1, <2>1, <2>2
<1>4. CASE batch_open_cmd
  <2>1. PICK amount \in Amount, slots \in SlotsTotal, d \in OpenWindow, sla \in Duration,
             w \in Duration, trust \in TrustKnob, m \in MaxClaims :
          Begin(postBatchOpenJob([amount |-> amount, slots |-> slots, openFor |-> d, sla |-> sla,
                                  window |-> w, trust |-> trust, maxClaims |-> m]))
    BY <1>4, Zenon DEF batch_open_cmd
  <2> DEFINE t == [amount |-> amount, slots |-> slots, openFor |-> d, sla |-> sla,
                   window |-> w, trust |-> trust, maxClaims |-> m]
  <2>2. t \in BatchTerms
    BY <1>0 DEF BatchTerms
  <2> QED
    BY <1>2, <2>1, <2>2
<1> QED
  BY <1>3, <1>4

LEMMA PostVerbsOk ==
  ASSUME DeskInv, claim_cmd \/ batch_claim_cmd \/ cancel_cmd \/ batch_cancel_cmd \/ sdk_call
  PROVE  DeskInv'
<1>1. ASSUME NEW o \in DOMAIN openings,
             \/ Begin(claimOpenJob(o)) \/ Begin(cancelOpenJob(o)) \/ Begin(refundOpenJob(o))
      PROVE  DeskInv'
  <2>1. PICK c \in {claimOpenJob(o), cancelOpenJob(o), refundOpenJob(o)} : Begin(c)
    BY <1>1
  <2>2. DOMAIN c = DOMAIN NoCmd /\ c.verb \in OfOpening /\ c.step = "prepare" /\ c.post = o
    BY DEF NoCmd, claimOpenJob, cancelOpenJob, refundOpenJob, OnRail, OfOpening
  <2>3. /\ c.verb \in TxVerb \ {"create", "deliver", "release"}
        /\ TargetsExist(c) /\ TermsTyped(c)
    BY <2>2 DEF TxVerb, OfJob, JobVerb, OfOpening, OfBatch, BulkVerb, TargetsExist, TermsTyped
  <2> QED
    BY <2>1, <2>2, <2>3, RailOk
<1>2. ASSUME NEW b \in DOMAIN batches,
             \/ Begin(claimBatchOpenJob(b)) \/ Begin(cancelBatchOpenJob(b))
             \/ Begin(refundBatchOpenJob(b))
      PROVE  DeskInv'
  <2>1. PICK c \in {claimBatchOpenJob(b), cancelBatchOpenJob(b), refundBatchOpenJob(b)} : Begin(c)
    BY <1>2
  <2>2. DOMAIN c = DOMAIN NoCmd /\ c.verb \in OfBatch /\ c.step = "prepare" /\ c.post = b
    BY DEF NoCmd, claimBatchOpenJob, cancelBatchOpenJob, refundBatchOpenJob, OnRail, OfBatch
  <2>3. /\ c.verb \in TxVerb \ {"create", "deliver", "release"}
        /\ TargetsExist(c) /\ TermsTyped(c)
    BY <2>2 DEF TxVerb, OfJob, JobVerb, OfOpening, OfBatch, BulkVerb, TargetsExist, TermsTyped
  <2> QED
    BY <2>1, <2>2, <2>3, RailOk
<1>3. ASSUME NEW S \in SUBSET DOMAIN jobs, NEW stars, Begin(submitJobReviews(S, stars))
      PROVE  DeskInv'
  <2> DEFINE c == submitJobReviews(S, stars)
  <2>1. DOMAIN c = DOMAIN NoCmd /\ c.verb = "review-many" /\ c.step = "prepare" /\ c.jobs = S
    BY DEF NoCmd, submitJobReviews, OnRail
  <2>2. Begin(c)
    BY <1>3
  <2> HIDE DEF c
  <2>3. /\ c.verb \in TxVerb \ {"create", "deliver", "release"}
        /\ TargetsExist(c) /\ TermsTyped(c)
    BY <2>1 DEF TxVerb, OfJob, JobVerb, OfOpening, OfBatch, BulkVerb, TargetsExist, TermsTyped
  <2> QED
    BY <2>1, <2>2, <2>3, RailOk
<1>4. claim_cmd => \E o \in DOMAIN openings : Begin(claimOpenJob(o))
  BY Zenon DEF claim_cmd
<1>5. batch_claim_cmd => \E b \in DOMAIN batches : Begin(claimBatchOpenJob(b))
  BY Zenon DEF batch_claim_cmd
<1> QED
  BY <1>1, <1>2, <1>3, <1>4, <1>5 DEF cancel_cmd, batch_cancel_cmd, sdk_call

LEMMA BulkVerbsOk ==
  ASSUME DeskInv, bulk_all_cmd \/ bulk_ids_cmd \/ bulk_review_cmd
  PROVE  DeskInv'
<1>0. \A S : \A ids \in pickBulkJobIds(S) : ids \subseteq S
  BY DEF pickBulkJobIds
<1>1. ASSUME NEW verb \in {"release-many", "refund-many"}, NEW S \in SUBSET DOMAIN jobs,
             Begin([NoCmd EXCEPT !.verb = verb, !.step = "prepare", !.jobs = S])
      PROVE  DeskInv'
  <2> DEFINE c == [NoCmd EXCEPT !.verb = verb, !.step = "prepare", !.jobs = S]
  <2>1. DOMAIN c = DOMAIN NoCmd /\ c.verb = verb /\ c.step = "prepare" /\ c.jobs = S
    BY DEF NoCmd
  <2>2. Begin(c)
    BY <1>1
  <2> HIDE DEF c
  <2>3. /\ c.verb \in TxVerb \ {"create", "deliver", "release"}
        /\ TargetsExist(c) /\ TermsTyped(c)
    BY <2>1 DEF TxVerb, OfJob, JobVerb, OfOpening, OfBatch, BulkVerb, TargetsExist, TermsTyped
  <2> QED
    BY <2>1, <2>2, <2>3, RailOk
<1>2. ASSUME NEW S \in SUBSET DOMAIN jobs, NEW stars, Begin(reviewBulkParams(S, stars))
      PROVE  DeskInv'
  <2> DEFINE c == reviewBulkParams(S, stars)
  <2>1. DOMAIN c = DOMAIN NoCmd /\ c.verb = "review-many" /\ c.step = "prepare" /\ c.jobs = S
    BY DEF NoCmd, reviewBulkParams
  <2>2. Begin(c)
    BY <1>2
  <2> HIDE DEF c
  <2>3. /\ c.verb \in TxVerb \ {"create", "deliver", "release"}
        /\ TargetsExist(c) /\ TermsTyped(c)
    BY <2>1 DEF TxVerb, OfJob, JobVerb, OfOpening, OfBatch, BulkVerb, TargetsExist, TermsTyped
  <2> QED
    BY <2>1, <2>2, <2>3, RailOk
<1>3. CASE bulk_all_cmd
  <2>1. PICK verb \in {"release-many", "refund-many"} :
          \E listed \in SUBSET {j \in DOMAIN jobs : jobs[j].buyer = me} :
            \E ids \in pickBulkJobIds(listed) :
              Begin([NoCmd EXCEPT !.verb = verb, !.step = "prepare", !.jobs = ids])
    BY <1>3, Zenon DEF bulk_all_cmd
  <2>2. PICK listed \in SUBSET {j \in DOMAIN jobs : jobs[j].buyer = me} :
            \E ids \in pickBulkJobIds(listed) :
              Begin([NoCmd EXCEPT !.verb = verb, !.step = "prepare", !.jobs = ids])
    BY <2>1
  <2>3. PICK ids \in pickBulkJobIds(listed) :
          Begin([NoCmd EXCEPT !.verb = verb, !.step = "prepare", !.jobs = ids])
    BY <2>2
  <2>4. ids \in SUBSET DOMAIN jobs
    BY <1>0
  <2> QED
    BY <1>1, <2>3, <2>4
<1>4. CASE bulk_ids_cmd
  BY <1>0, <1>1, <1>4 DEF bulk_ids_cmd
<1>5. CASE bulk_review_cmd
  BY <1>0, <1>2, <1>5 DEF bulk_review_cmd
<1> QED
  BY <1>3, <1>4, <1>5

\* The upload, and what follows it.
LEMMA CheckHireOk ==
  ASSUME DeskInv, CheckHire
  PROVE  DeskInv'
<1>0. UNCHANGED <<marketVars, me, stored, walletVars>>
  BY DEF CheckHire, OnlyCmd
<1>1. cmd.verb = "create" /\ cmd.step = "check" /\ CmdOk(cmd)
  BY DEF CheckHire, At, DeskInv
<1> DEFINE t == [cmd.terms EXCEPT !.deliverBy = now + @]
           c == [cmd EXCEPT !.step = "prepare", !.terms = t]
<1>2. t \in HireTerms
  <2>1. cmd.terms \in HireTerms
    BY <1>1 DEF CmdOk, CmdInv, TermsTyped
  <2>2. now \in Nat
    BY EscrowAssumption DEF DeskInv, ChainInv, IInv
  <2> QED
    BY <2>1, <2>2 DEF HireTerms
<1>3. cmd' = c \/ Finish
  BY DEF CheckHire
<1> HIDE DEF t
<1>4. /\ DOMAIN c = DOMAIN NoCmd
      /\ c.verb = "create" /\ c.step = "prepare" /\ c.terms = t
      /\ c.body = cmd.body /\ c.hash = cmd.hash
  BY <1>1 DEF CmdOk, CmdInv, NoCmd
<1> HIDE DEF c
<1>5. CmdOk(c)
  BY <1>1, <1>2, <1>4 DEF CmdOk, CmdInv, TargetsExist, TermsTyped, BodyKept, ReleaseKnows,
     TxVerb, OfJob, JobVerb, OfOpening, OfBatch, Funds, BulkVerb
<1> QED
  BY <1>0, <1>3, <1>5, CmdStep, FinishStep

LEMMA PutOk ==
  ASSUME DeskInv, putJobSpec
  PROVE  DeskInv'
<1>0. /\ UNCHANGED <<marketVars, me, walletVars>>
      /\ stored \subseteq stored'
      /\ cmd.step = "put" /\ cmd.verb \in {"create", "deliver"} /\ CmdOk(cmd)
  BY DEF putJobSpec, DeskInv, CmdOk, CmdInv
<1>1. CmdInv(cmd') /\ cmd'.step # "check" /\ cmd'.step # "prepare" /\ cmd'.step # "submit"
        /\ cmd'.verb # "release"
  <2>1. CASE Finish
    <3>1. CmdInv(cmd')
      BY <2>1, NoCmdOk DEF Finish, CmdOk
    <3> QED
      BY <2>1, <3>1 DEF Finish, NoCmd
  <2>2. ASSUME NEW hash \in Body, cmd' = [cmd EXCEPT !.step = "get", !.hash = hash]
        PROVE  CmdInv(cmd') /\ cmd'.step # "check" /\ cmd'.step # "prepare"
                 /\ cmd'.step # "submit" /\ cmd'.verb # "release"
    <3> DEFINE c == [cmd EXCEPT !.step = "get", !.hash = hash]
    <3>1. /\ DOMAIN c = DOMAIN NoCmd
          /\ c.verb = cmd.verb /\ c.step = "get" /\ c.terms = cmd.terms /\ c.job = cmd.job
      BY <1>0 DEF CmdOk, CmdInv, NoCmd
    <3> HIDE DEF c
    <3>2. CmdInv(c)
      BY <1>0, <3>1 DEF CmdOk, CmdInv, TargetsExist, TermsTyped, OfJob, JobVerb, OfOpening,
         OfBatch, BulkVerb
    <3> QED
      BY <1>0, <2>2, <3>1, <3>2 DEF c
  <2> QED
    BY <2>1, <2>2 DEF putJobSpec
<1>2. UNCHANGED <<now, cfg, jobs, openings, batches>>
  BY <1>0 DEF marketVars, reputationVars, escrowVars
<1>3. ChainInv'
  <2>1. Still
    BY <1>2 DEF Still, escrowVars
  <2> QED
    BY <2>1, StillKeeps DEF DeskInv, Kept
<1>4. CmdInv(cmd)'
  <2>1. Onward /\ Grows
    BY <1>2 DEF Onward, Grows
  <2> QED
    BY <1>1, <2>1, CmdStays
<1>5. BodyKept(cmd)' /\ ReleaseKnows(cmd)'
  BY <1>1 DEF BodyKept, ReleaseKnows
<1>6. LedgerInv'
  BY <1>0, <1>2 DEF DeskInv, LedgerInv, CostsFinite, EscrowedIsCounted, Escrowed, Total,
     HireCost, PostCost, WaveCost, walletVars
<1>7. PinnedIsReadable'
  BY <1>0 DEF DeskInv, PinnedIsReadable, walletVars
<1>8. GoodwillIsAsked'
  BY <1>0, Zenon DEF DeskInv, GoodwillIsAsked, walletVars
<1> QED
  BY <1>0, <1>3, <1>4, <1>5, <1>6, <1>7, <1>8 DEF DeskInv, CmdOk

LEMMA ReadBackOk ==
  ASSUME DeskInv, putAndVerifySpec
  PROVE  DeskInv'
<1>0. /\ UNCHANGED <<marketVars, me, stored, walletVars>>
      /\ cmd.step = "get" /\ cmd.verb \in {"create", "deliver"} /\ CmdOk(cmd)
  BY DEF putAndVerifySpec, OnlyCmd, DeskInv, CmdOk, CmdInv
<1> DEFINE step == AfterUpload(cmd.verb)
           c == [cmd EXCEPT !.step = step]
<1>1. (ReadsBack /\ cmd' = c) \/ Finish
  BY DEF putAndVerifySpec, Goto
<1>2. ASSUME ReadsBack
      PROVE  CmdOk(c)
  <2>1. step = IF cmd.verb = "deliver" THEN "prepare" ELSE "check"
    BY DEF AfterUpload
  <2> HIDE DEF step
  <2>2. /\ DOMAIN c = DOMAIN NoCmd
        /\ c.verb = cmd.verb /\ c.step = step /\ c.terms = cmd.terms /\ c.job = cmd.job
        /\ c.body = cmd.body /\ c.hash = cmd.hash
    BY <1>0 DEF CmdOk, CmdInv, NoCmd
  <2> HIDE DEF c
  <2> QED
    BY <1>0, <1>2, <2>1, <2>2 DEF ReadsBack, CmdOk, CmdInv, TargetsExist, TermsTyped, BodyKept,
       ReleaseKnows, TxVerb, OfJob, JobVerb, OfOpening, OfBatch, Funds, BulkVerb
<1> HIDE DEF c
<1> QED
  BY <1>0, <1>1, <1>2, CmdStep, FinishStep

\* The two rails sign what was proposed.
LEMMA RailsOk ==
  ASSUME DeskInv, runSponsoredTx \/ sponsoredOpeningVerb
  PROVE  DeskInv'
<1>0. /\ UNCHANGED <<marketVars, me, stored, walletVars>>
      /\ cmd.step = "prepare" /\ CmdOk(cmd) /\ ChainInv
  BY DEF runSponsoredTx, sponsoredOpeningVerb, OnlyCmd, DeskInv
<1>1. Finish \/ \E tx \in Proposed : cmd' = [cmd EXCEPT !.step = "submit", !.tx = tx]
  BY DEF runSponsoredTx, sponsoredOpeningVerb, signPreparedSponsoredHop
<1>2. ASSUME NEW tx \in Proposed, cmd' = [cmd EXCEPT !.step = "submit", !.tx = tx]
      PROVE  DeskInv'
  <2> DEFINE c == [cmd EXCEPT !.step = "submit", !.tx = tx]
  <2>1. TxFits(cmd, tx)
    BY <1>0, ProposedFits DEF CmdOk
  <2>2. /\ DOMAIN c = DOMAIN NoCmd
        /\ c.verb = cmd.verb /\ c.step = "submit" /\ c.terms = cmd.terms /\ c.job = cmd.job
        /\ c.jobs = cmd.jobs /\ c.post = cmd.post
        /\ c.body = cmd.body /\ c.hash = cmd.hash /\ c.tx = tx
    BY <1>0 DEF CmdOk, CmdInv, NoCmd
  <2>3. c.flag = cmd.flag /\ c.unread = cmd.unread
    BY <1>0 DEF CmdOk, CmdInv, NoCmd
  <2>4. cmd' = c
    BY <1>2
  <2> HIDE DEF c
  <2>5. TxFits(c, c.tx)
    BY <2>1, <2>2 DEF TxFits, CallFits
  <2>6. CmdInv(c)
    BY <1>0, <2>2, <2>5 DEF CmdOk, CmdInv, TargetsExist, TermsTyped
  <2>7. BodyKept(c)
    BY <1>0, <2>2 DEF CmdOk, BodyKept
  <2>8. ReleaseKnows(c)
    BY <1>0, <2>2, <2>3, Zenon DEF CmdOk, ReleaseKnows
  <2> QED
    BY <1>0, <2>4, <2>6, <2>7, <2>8, CmdStep DEF CmdOk
<1> QED
  BY <1>0, <1>1, <1>2, FinishStep

\* The watch loops sign nothing.
LEMMA WatchOk ==
  ASSUME DeskInv,
         \/ watch \/ Load \/ Paint \/ Remember \/ Announce
         \/ watch_job \/ PollJob \/ StopWatch
  PROVE  DeskInv'
<1>0. /\ UNCHANGED <<marketVars, me, stored, walletVars>>
      /\ CmdOk(cmd)
  BY DEF watch, Load, Paint, Remember, Announce, watch_job, PollJob, StopWatch, Begin, OnlyCmd,
     DeskInv
<1>1. ASSUME NEW c, cmd' = c, DOMAIN c = DOMAIN NoCmd, c.verb \in {"mine", "buying", "watch"},
             c.step \in {"load", "paint", "remember", "announce", "sleep"}
      PROVE  DeskInv'
  <2>1. CmdOk(c)
    BY <1>1 DEF CmdOk, CmdInv, TargetsExist, TermsTyped, BodyKept, ReleaseKnows,
       TxVerb, OfJob, JobVerb, OfOpening, OfBatch, Funds, BulkVerb
  <2> QED
    BY <1>0, <1>1, <2>1, CmdStep
<1>2. ASSUME NEW verb \in {"mine", "buying"}, Begin([NoCmd EXCEPT !.verb = verb, !.step = "load"])
      PROVE  DeskInv'
  <2> DEFINE c == [NoCmd EXCEPT !.verb = verb, !.step = "load"]
  <2>1. cmd' = c
    BY <1>2 DEF Begin
  <2>2. DOMAIN c = DOMAIN NoCmd /\ c.verb = verb /\ c.step = "load"
    BY DEF NoCmd
  <2> HIDE DEF c
  <2> QED
    BY <1>1, <2>1, <2>2
<1>3. ASSUME NEW j, Begin([NoCmd EXCEPT !.verb = "watch", !.step = "load", !.job = j])
      PROVE  DeskInv'
  <2> DEFINE c == [NoCmd EXCEPT !.verb = "watch", !.step = "load", !.job = j]
  <2>1. cmd' = c
    BY <1>3 DEF Begin
  <2>2. DOMAIN c = DOMAIN NoCmd /\ c.verb = "watch" /\ c.step = "load"
    BY DEF NoCmd
  <2> HIDE DEF c
  <2> QED
    BY <1>1, <2>1, <2>2
<1>4. ASSUME Watching,
             NEW step \in {"paint", "remember", "announce", "sleep"}, NEW rows,
             \/ cmd' = [cmd EXCEPT !.step = step, !.rows = rows]
             \/ cmd' = [cmd EXCEPT !.step = step]
      PROVE  DeskInv'
  <2>1. DOMAIN cmd = DOMAIN NoCmd /\ cmd.verb \in {"mine", "buying"}
    BY <1>0, <1>4 DEF Watching, CmdOk, CmdInv
  <2>2. DOMAIN cmd' = DOMAIN NoCmd /\ cmd'.verb = cmd.verb /\ cmd'.step = step
    BY <1>4, <2>1 DEF NoCmd
  <2> QED
    BY <1>1, <2>1, <2>2
<1>5. CASE Load
  <2>1. PICK rows : cmd' = [cmd EXCEPT !.step = IF @ = "load" THEN "paint" ELSE "announce",
                                       !.rows = rows]
    BY <1>5 DEF Load
  <2> DEFINE step == IF cmd.step = "load" THEN "paint" ELSE "announce"
  <2>2. cmd' = [cmd EXCEPT !.step = step, !.rows = rows] /\ step \in {"paint", "announce"}
    BY <2>1
  <2> QED
    BY <1>4, <1>5, <2>2 DEF Load
<1>6. CASE Paint \/ Remember \/ Announce
  BY <1>4, <1>6 DEF Paint, Remember, Announce, Goto
<1>7. CASE PollJob \/ StopWatch
  BY <1>0, <1>7, FinishStep DEF PollJob, StopWatch
<1> QED
  BY <1>2, <1>3, <1>5, <1>6, <1>7 DEF watch, watch_job

\* What the market does while the wallet waits leaves its books right.
LEMMA CostsCounted ==
  ASSUME ChainInv, LedgerInv, UNCHANGED me, NEW paid \in Nat,
         \/ paid = 0 /\ (Works \/ (Tick /\ UNCHANGED <<openings, batches>>))
         \/ paid = 0 /\ \E buyer \in Account \ {me}, amount \in Nat : Buys(buyer, amount)
         \/ me \in Account /\ Buys(me, paid)
  PROVE  CostsFinite' /\ Escrowed' = Escrowed + paid
<1>0. CostsFinite /\ Escrowed \in Nat
  BY EscrowedTyped DEF LedgerInv, Escrowed
<1>1. CASE paid = 0 /\ (Works \/ (Tick /\ UNCHANGED <<openings, batches>>))
  <2>1. UNCHANGED <<HireCost, PostCost, WaveCost>>
    BY <1>1, WorksAddNothing, CostsStay
  <2> QED
    BY <1>0, <1>1, <2>1 DEF CostsFinite, Escrowed, Total
<1>2. ASSUME NEW buyer \in Account, NEW amount \in Nat, Buys(buyer, amount)
      PROVE  CostsFinite' /\ Escrowed' = Escrowed + IF buyer = me THEN amount ELSE 0
  BY <1>0, <1>2, HireCounts, PostCounts, WaveCounts DEF Buys
<1>3. CASE paid = 0 /\ \E buyer \in Account \ {me}, amount \in Nat : Buys(buyer, amount)
  <2>1. PICK buyer \in Account \ {me}, amount \in Nat : Buys(buyer, amount)
    BY <1>3
  <2>2. CostsFinite' /\ Escrowed' = Escrowed + IF buyer = me THEN amount ELSE 0
    BY <1>2, <2>1
  <2> QED
    BY <1>0, <1>3, <2>2
<1>4. CASE me \in Account /\ Buys(me, paid)
  BY <1>2, <1>4
<1> QED
  BY <1>1, <1>3, <1>4

LEMMA MarketOk ==
  ASSUME DeskInv, TimePasses \/ Others, Idle
  PROVE  DeskInv'
<1>0. /\ UNCHANGED <<me, cmd, stored, walletVars>> /\ ChainInv /\ LedgerInv /\ CmdOk(cmd)
      /\ me \in Account
  BY DEF Idle, DeskInv
<1>1. \/ Works \/ (Tick /\ UNCHANGED <<openings, batches>>)
      \/ \E buyer \in Account \ {me}, amount \in Nat : Buys(buyer, amount)
  BY <1>0, OthersMove DEF TimePasses
<1>2. Kept
  BY <1>0, <1>1, MovesKeep
<1>3. CmdInv(cmd)'
  <2>1. CmdInv(cmd)
    BY <1>0 DEF CmdOk
  <2> DEFINE c == cmd
  <2>2. c' = c
    BY <1>0
  <2>3. Onward /\ Grows
    BY <1>2 DEF Kept
  <2>4. \A d : CmdInv(d) => CmdInv(d)'
    BY <2>3, CmdStays
  <2> QED
    BY <2>1, <2>2, <2>4
<1>4. BodyKept(cmd)'
  BY <1>0 DEF CmdOk, BodyKept
<1>5. ReleaseKnows(cmd)'
  <2>1. ReleaseKnows(cmd) /\ Onward
    BY <1>0, <1>2 DEF CmdOk, Kept
  <2>2. cmd.verb = "release" => cmd.job \in DOMAIN jobs
    BY <1>0 DEF CmdOk, CmdInv, TargetsExist, OfJob, JobVerb
  <2>3. cmd.verb = "release" /\ jobs[cmd.job].state # FUNDED => jobs'[cmd.job].state # FUNDED
    BY <2>1, <2>2 DEF Onward
  <2>4. cmd' = cmd
    BY <1>0
  <2> QED
    BY <2>1, <2>3, <2>4, Zenon DEF ReleaseKnows, FUNDED
<1>6. CostsFinite' /\ Escrowed' = Escrowed + 0
  BY <1>0, <1>1, CostsCounted
<1>7. LedgerInv'
  <2>1. spent' = spent /\ unheard' = unheard
    BY <1>0 DEF walletVars
  <2>2. Escrowed \in Nat
    BY <1>0, EscrowedTyped DEF LedgerInv, Escrowed
  <2> QED
    BY <1>0, <1>6, <2>1, <2>2 DEF LedgerInv, EscrowedIsCounted
<1>8. PinnedIsReadable' /\ GoodwillIsAsked'
  BY <1>0, Zenon DEF DeskInv, PinnedIsReadable, GoodwillIsAsked, walletVars
<1> QED
  BY <1>0, <1>2, <1>3, <1>4, <1>5, <1>7, <1>8 DEF DeskInv, CmdOk, Kept

\* A precursor lands: the same verb is prepared again.
LEMMA PrecursorLands ==
  ASSUME DeskInv, Submit, Precursor(cmd.tx)
  PROVE  DeskInv'
<1>0. /\ UNCHANGED <<me, stored, walletVars>> /\ ChainInv /\ LedgerInv /\ CmdOk(cmd)
      /\ me \in Account /\ cmd.step = "submit"
      /\ cmd' = [cmd EXCEPT !.step = "prepare", !.hops = @ + 1]
  BY DEF Submit, DeskInv
<1>1. Still
  BY <1>0, ExecuteMoves DEF Submit, CmdOk
<1>2. Kept /\ UNCHANGED <<jobs, openings, batches>>
  BY <1>0, <1>1, StillKeeps DEF Still, escrowVars
<1>3. /\ DOMAIN cmd' = DOMAIN NoCmd
      /\ cmd'.verb = cmd.verb /\ cmd'.step = "prepare" /\ cmd'.terms = cmd.terms
      /\ cmd'.job = cmd.job /\ cmd'.jobs = cmd.jobs /\ cmd'.post = cmd.post
      /\ cmd'.body = cmd.body /\ cmd'.hash = cmd.hash
  BY <1>0 DEF CmdOk, CmdInv, NoCmd
<1>4. cmd'.flag = cmd.flag /\ cmd'.unread = cmd.unread
  BY <1>0 DEF CmdOk, CmdInv, NoCmd
<1>5. CmdInv(cmd)'
  BY <1>0, <1>2, <1>3 DEF CmdOk, CmdInv, TargetsExist, TermsTyped
<1>6. BodyKept(cmd)'
  BY <1>0, <1>3 DEF CmdOk, BodyKept
<1>7. ReleaseKnows(cmd)'
  BY <1>0, <1>2, <1>3, <1>4, Zenon DEF CmdOk, ReleaseKnows, FUNDED
<1>8. CostsFinite' /\ Escrowed' = Escrowed + 0
  BY <1>0, <1>1, CostsCounted DEF Works
<1>9. LedgerInv'
  <2>1. spent' = spent /\ unheard' = unheard
    BY <1>0 DEF walletVars
  <2>2. Escrowed \in Nat
    BY <1>0, EscrowedTyped DEF LedgerInv, Escrowed
  <2> QED
    BY <1>0, <1>8, <2>1, <2>2 DEF LedgerInv, EscrowedIsCounted
<1>10. PinnedIsReadable' /\ GoodwillIsAsked'
  BY <1>0, Zenon DEF DeskInv, PinnedIsReadable, GoodwillIsAsked, walletVars
<1> QED
  BY <1>0, <1>2, <1>5, <1>6, <1>7, <1>9, <1>10 DEF DeskInv, CmdOk, Kept

\* The verb lands, and its end is written down.
LEMMA VerbLands ==
  ASSUME DeskInv, Submit, ~Precursor(cmd.tx)
  PROVE  DeskInv'
<1> DEFINE amount == SpendOf(cmd)
<1>0. /\ UNCHANGED <<me, stored>> /\ ChainInv /\ LedgerInv /\ CmdOk(cmd)
      /\ me \in Account /\ cmd.step = "submit"
  BY DEF Submit, DeskInv
<1>1. PICK answered \in BOOLEAN :
        /\ Finish
        /\ recordSpendIfLanded(answered)
        /\ unheard' = IF answered THEN unheard ELSE unheard + amount
        /\ pinned' = IF cmd.body # HashOnly /\ cmd.verb \in {"create", "deliver"}
                     THEN pinned \cup {[body |-> cmd.body, hash |-> cmd.hash]}
                     ELSE pinned
        /\ goodwill' = IF cmd.verb = "release" /\ jobs[cmd.job].state = FUNDED
                       THEN goodwill \cup {[asked |-> cmd.flag, unread |-> cmd.unread]}
                       ELSE goodwill
  BY Zenon DEF Submit
<1>2. amount \in Nat
  BY <1>0, SpendTyped DEF CmdOk
<1>3. (amount = 0 /\ Works) \/ Buys(me, amount)
  BY <1>0, ExecuteMoves DEF Submit, CmdOk
<1>4. Kept
  BY <1>0, <1>2, <1>3, MovesKeep
<1>5. CostsFinite' /\ Escrowed' = Escrowed + amount
  BY <1>0, <1>2, <1>3, CostsCounted
<1> HIDE DEF amount
<1>6. LedgerInv'
  <2>1. /\ spent' = IF answered THEN spent + amount ELSE spent
        /\ unheard' = IF answered THEN unheard ELSE unheard + amount
    BY <1>1 DEF recordSpendIfLanded, amount
  <2>2. Escrowed \in Nat /\ spent \in Nat /\ unheard \in Nat /\ spent + unheard = Escrowed
    BY <1>0, EscrowedTyped DEF LedgerInv, Escrowed, EscrowedIsCounted
  <2> QED
    BY <1>2, <1>5, <2>1, <2>2 DEF LedgerInv, EscrowedIsCounted
<1>7. PinnedIsReadable'
  <2>1. BodyKept(cmd) /\ PinnedIsReadable
    BY <1>0 DEF DeskInv, CmdOk
  <2> QED
    BY <1>0, <1>1, <2>1 DEF PinnedIsReadable, BodyKept
<1>8. GoodwillIsAsked'
  <2>1. GoodwillIsAsked /\ ReleaseKnows(cmd)
    BY <1>0 DEF DeskInv, CmdOk
  <2> DEFINE g == [asked |-> cmd.flag, unread |-> cmd.unread]
  <2>2. g.asked = cmd.flag /\ g.unread = cmd.unread
    OBVIOUS
  <2> HIDE DEF g
  <2>3. CASE cmd.verb = "release" /\ jobs[cmd.job].state = FUNDED
    <3>1. g.asked \/ g.unread
      BY <2>1, <2>2, <2>3, Zenon DEF ReleaseKnows
    <3>2. goodwill' = goodwill \cup {g}
      BY <1>1, <2>3 DEF g
    <3> QED
      BY <2>1, <3>1, <3>2, Zenon DEF GoodwillIsAsked
  <2>4. CASE ~(cmd.verb = "release" /\ jobs[cmd.job].state = FUNDED)
    <3>1. goodwill' = goodwill
      BY <1>1, <2>4
    <3> QED
      BY <2>1, <3>1, Zenon DEF GoodwillIsAsked
  <2> QED
    BY <2>3, <2>4
<1>9. CmdOk(cmd)'
  <2>1. cmd' = NoCmd
    BY <1>1 DEF Finish
  <2>2. CmdInv(NoCmd)'
    BY <1>4, NoCmdOk, CmdStays DEF Kept, CmdOk
  <2>3. /\ NoCmd.step = "idle" /\ NoCmd.verb = "none"
    BY DEF NoCmd
  <2>4. BodyKept(cmd)' /\ ReleaseKnows(cmd)'
    BY <2>1, <2>3 DEF BodyKept, ReleaseKnows
  <2> QED
    BY <2>1, <2>2, <2>4 DEF CmdOk
<1> QED
  BY <1>0, <1>4, <1>6, <1>7, <1>8, <1>9 DEF DeskInv, Kept

LEMMA SubmitFailsOk ==
  ASSUME DeskInv, SubmitFails
  PROVE  DeskInv'
<1>1. UNCHANGED <<marketVars, me, stored, walletVars>> /\ Finish
  BY DEF SubmitFails, recordSpendIfLanded, walletVars
<1> QED
  BY <1>1, FinishStep

-----------------------------------------------------------------------------
(***************************************************************************)
(* The theorems.                                                           *)
(***************************************************************************)

LEMMA DeskInitInv == DeskInit => DeskInv
<1> SUFFICES ASSUME DeskInit PROVE DeskInv
  OBVIOUS
<1>1. /\ MarketInit /\ me \in Account /\ cmd = NoCmd /\ pinned = {} /\ goodwill = {}
      /\ spent = 0 /\ unheard = 0
  BY DEF DeskInit
<1>2. /\ jobs = [j \in {} |-> {}] /\ openings = [o \in {} |-> {}]
      /\ batches = [b \in {} |-> {}] /\ cfg = LaunchCfg
  BY <1>1 DEF MarketInit, EscrowInit
<1>3. MarketInv
  BY <1>1, MarketInitInv
<1>4. ChainInv
  <2>1. DOMAIN jobs = {} /\ DOMAIN openings = {} /\ DOMAIN batches = {}
    BY <1>2
  <2> QED
    BY <1>2, <1>3, <2>1, FS_EmptySet DEF ChainInv, MarketInv, Stamped
<1>5. CmdOk(cmd)
  BY <1>1, NoCmdOk
<1>6. LedgerInv
  <2>1. DOMAIN HireCost = {} /\ DOMAIN PostCost = {} /\ DOMAIN WaveCost = {}
    BY <1>2 DEF HireCost, PostCost, WaveCost
  <2>2. \A cost : DOMAIN cost = {} => Units(cost) = {}
    BY DEF Units
  <2>3. CostsFinite
    BY <2>1, <2>2, FS_EmptySet DEF CostsFinite
  <2>4. Total(HireCost) = 0 /\ Total(PostCost) = 0 /\ Total(WaveCost) = 0
    BY <2>1, <2>2, FS_EmptySet DEF Total
  <2> QED
    BY <1>1, <2>3, <2>4 DEF LedgerInv, EscrowedIsCounted, Escrowed
<1>7. PinnedIsReadable /\ GoodwillIsAsked
  BY <1>1 DEF PinnedIsReadable, GoodwillIsAsked
<1> QED
  BY <1>1, <1>4, <1>5, <1>6, <1>7 DEF DeskInv

LEMMA DeskStill ==
  ASSUME DeskInv, UNCHANGED deskVars
  PROVE  DeskInv'
<1> DEFINE c == cmd
<1>1. cmd' = c /\ CmdOk(c) /\ UNCHANGED <<marketVars, me, stored, walletVars>>
  BY DEF deskVars, walletVars, DeskInv
<1> HIDE DEF c
<1> QED
  BY <1>1, CmdStep

LEMMA DeskNextInv == DeskInv /\ [DeskNext]_deskVars => DeskInv'
<1> SUFFICES ASSUME DeskInv, [DeskNext]_deskVars PROVE DeskInv'
  OBVIOUS
<1>1. CASE UNCHANGED deskVars
  BY <1>1, DeskStill
<1>2. CASE (TimePasses \/ Others) /\ Idle
  BY <1>2, MarketOk
<1>3. CASE hire \/ CheckHire \/ deliver_cmd \/ release_cmd \/ putJobSpec \/ putAndVerifySpec
  BY <1>3, HireOk, CheckHireOk, DeliverOk, ReleaseOk, PutOk, ReadBackOk
<1>4. CASE \/ verb_cmd \/ review_cmd \/ open_cmd \/ batch_open_cmd \/ claim_cmd \/ batch_claim_cmd
           \/ cancel_cmd \/ batch_cancel_cmd \/ sdk_call
           \/ bulk_all_cmd \/ bulk_ids_cmd \/ bulk_review_cmd
  BY <1>4, JobVerbsOk, PostsOk, PostVerbsOk, BulkVerbsOk
<1>5. CASE runSponsoredTx \/ sponsoredOpeningVerb
  BY <1>5, RailsOk
<1>6. CASE Submit \/ SubmitFails
  BY <1>6, PrecursorLands, VerbLands, SubmitFailsOk
<1>7. CASE \/ watch \/ Load \/ Paint \/ Remember \/ Announce
           \/ watch_job \/ PollJob \/ StopWatch
  BY <1>7, WatchOk
<1> QED
  BY <1>1, <1>2, <1>3, <1>4, <1>5, <1>6, <1>7 DEF DeskNext

\* The invariant of the market, of the invocation under way, and of the wallet's
\* books, through every interleaving with everybody else.
THEOREM DeskInductive == DeskSpec => []DeskInv
BY DeskInitInv, DeskNextInv, PTL DEF DeskSpec

\* A wallet that settles many Jobs in one transaction loses none of the money in
\* them, nor does anybody else on the market it shares.
THEOREM BulkMoneyIsBacked == DeskSpec => []EscrowBacked
<1>1. DeskInv => EscrowBacked
  BY DEF DeskInv, ChainInv, IInv, JobsInv, JobInv, EscrowBacked
<1> QED
  BY <1>1, DeskInductive, PTL

\* What a step of anybody does to the chain: nothing, or one of the moves above.
LEMMA DeskMoves ==
  ASSUME DeskInv, [DeskNext]_deskVars
  PROVE  \/ UNCHANGED marketVars
         \/ Works
         \/ Tick /\ UNCHANGED <<openings, batches>>
         \/ \E buyer \in Account, amount \in Nat : Buys(buyer, amount)
<1>0. ChainInv /\ me \in Account /\ CmdInv(cmd)
  BY DEF DeskInv, CmdOk
<1>1. \A c : Begin(c) => UNCHANGED marketVars
  BY DEF Begin, OnlyCmd
<1>2. CASE (TimePasses \/ Others) /\ Idle
  BY <1>0, <1>2, OthersMove DEF TimePasses
<1>3. CASE Submit
  <2>1. SpendOf(cmd) \in Nat
    BY <1>0, SpendTyped
  <2>2. Works \/ Buys(me, SpendOf(cmd))
    BY <1>0, <1>3, ExecuteMoves DEF Submit, Works
  <2> QED
    BY <1>0, <2>1, <2>2
<1>4. CASE \/ CheckHire \/ putJobSpec \/ putAndVerifySpec \/ runSponsoredTx \/ sponsoredOpeningVerb
           \/ SubmitFails \/ Load \/ Paint \/ Remember \/ Announce \/ PollJob \/ StopWatch
           \/ UNCHANGED deskVars
  BY <1>4, Zenon DEF CheckHire, putJobSpec, putAndVerifySpec, runSponsoredTx, sponsoredOpeningVerb,
     SubmitFails, Load, Paint, Remember, Announce, PollJob, StopWatch, OnlyCmd, deskVars
<1>5. CASE \/ hire \/ deliver_cmd \/ release_cmd \/ verb_cmd \/ review_cmd \/ open_cmd
           \/ batch_open_cmd \/ claim_cmd \/ batch_claim_cmd \/ cancel_cmd \/ batch_cancel_cmd
           \/ sdk_call \/ bulk_all_cmd \/ bulk_ids_cmd \/ bulk_review_cmd \/ watch \/ watch_job
  <2>1. hire \/ deliver_cmd \/ release_cmd \/ verb_cmd \/ review_cmd => UNCHANGED marketVars
    BY <1>1, Zenon DEF hire, deliver_cmd, release_cmd, verb_cmd, review_cmd
  <2>2. \/ open_cmd \/ batch_open_cmd \/ claim_cmd \/ batch_claim_cmd \/ cancel_cmd
        \/ batch_cancel_cmd \/ sdk_call
        => UNCHANGED marketVars
    BY <1>1, Zenon DEF open_cmd, batch_open_cmd, claim_cmd, batch_claim_cmd, cancel_cmd,
       batch_cancel_cmd, sdk_call
  <2>3. bulk_all_cmd \/ bulk_ids_cmd \/ bulk_review_cmd \/ watch \/ watch_job
        => UNCHANGED marketVars
    BY <1>1, Zenon DEF bulk_all_cmd, bulk_ids_cmd, bulk_review_cmd, watch, watch_job
  <2> QED
    BY <1>5, <2>1, <2>2, <2>3
<1> QED
  BY <1>2, <1>3, <1>4, <1>5 DEF DeskNext

\* Between the market's steps and the wallet's transactions the chain stands still.
LEMMA DeskKeeps ==
  ASSUME DeskInv, [DeskNext]_deskVars
  PROVE  Kept
<1>1. ChainInv
  BY DEF DeskInv
<1>2. UNCHANGED marketVars => Kept
  BY <1>1, StillKeeps DEF marketVars, reputationVars, Still
<1> QED
  BY <1>1, <1>2, DeskMoves, MovesKeep

\* No transaction of a wallet, nor one that settles many Jobs, nor anything else
\* meanwhile, changes what the parties of a Job agreed, or a settled Job at all.
THEOREM BulkTermsAreFixed == DeskSpec => TermsNeverMove
<1>1. DeskInv /\ [DeskNext]_deskVars => [TermsStay]_escrowVars
  BY DeskKeeps DEF Kept
<1> QED
  BY <1>1, DeskInductive, PTL DEF DeskSpec, TermsNeverMove, TermsStay

\* A transaction that settles many Jobs at once refunds none that is not late.
LEMMA BulkSafely ==
  ASSUME IInv, Bulk
  PROVE  StaysSafe
<1>1. SUFFICES ASSUME NEW j \in DOMAIN jobs, Verified(j),
                      jobs'[j] # jobs[j]
               PROVE  jobs'[j].state \in {DELIVERED, RELEASED}
  BY DEF StaysSafe
<1>2. ~can_refund(jobs[j])
  BY <1>1, NotYetLate DEF can_refund, past_deadline
<1>3. PICK S \in SUBSET DOMAIN jobs : ReleaseAll(S) \/ RefundAll(S)
  BY DEF Bulk
<1>4. ASSUME RefundAll(S) PROVE FALSE
  BY <1>1, <1>2, <1>4 DEF RefundAll
<1>5. ReleaseAll(S) /\ j \in S
  BY <1>1, <1>3, <1>4 DEF ReleaseAll
<1> DEFINE settled == Settled(jobs[j], RELEASED,
                              release_shares(jobs[j].escrow, jobs[j].fee_bps), "JobReleased")
<1>6. jobs'[j] = [settled EXCEPT !.marks = @ \cup HoldMark(j)]
  BY <1>5 DEF ReleaseAll
<1>7. settled.state = RELEASED
  BY DEF Settled, IInv, JobsInv, Job
<1> HIDE DEF settled
<1> QED
  BY <1>6, <1>7

LEMMA MovesSafely ==
  ASSUME ChainInv,
         \/ Works
         \/ Tick /\ UNCHANGED <<openings, batches>>
         \/ \E buyer \in Account, amount \in Nat : Buys(buyer, amount)
  PROVE  StaysSafe
<1>1. IInv
  BY DEF ChainInv
<1>2. CASE Settles
  BY <1>1, <1>2, SettledSafely DEF Settles
<1>3. CASE Bulk
  BY <1>1, <1>3, BulkSafely
<1>4. CASE Claims
  <2>1. ASSUME NEW claimer, NEW o, NEW k, claim_v2(claimer, o, k)
        PROVE  StaysSafe
    BY <2>1, MintedSafely, Zenon DEF claim_v2, do_claim
  <2>2. ASSUME NEW claimer, NEW b, NEW k, batch_claim(claimer, b, k)
        PROVE  StaysSafe
    BY <2>2, MintedSafely, Zenon DEF batch_claim
  <2> QED
    BY <1>4, <2>1, <2>2 DEF Claims
<1>5. ASSUME NEW buyer, NEW amount, Hires(buyer, amount)
      PROVE  StaysSafe
  <2>1. PICK seller, k, t, w, s : create(buyer, seller, k, amount, t, w, s)
    BY <1>5 DEF Hires
  <2> QED
    BY <2>1, SharedSafely DEF create
<1>6. UNCHANGED jobs => StaysSafe
  BY DEF StaysSafe
<1>7. Still \/ Returns \/ Tick => UNCHANGED jobs
  BY DEF Still, escrowVars, Returns, repay_buyer, drain_remainder, reputationVars, Tick
<1>8. ASSUME NEW buyer, NEW amount, PostsJob(buyer, amount) \/ PostsWave(buyer, amount)
      PROVE  UNCHANGED jobs
  <2>1. CASE PostsJob(buyer, amount)
    BY <2>1 DEF PostsJob, create_open_v2, reputationVars, escrowVars
  <2>2. CASE PostsWave(buyer, amount)
    <3>1. PICK b \in BatchId, slots, t, sla, w, l, m \in Nat :
            create_batch_open(buyer, b, amount, slots, t, sla, w, l, m)
      BY <2>2 DEF PostsWave
    <3> QED
      BY <3>1 DEF create_batch_open, reputationVars, escrowVars
  <2> QED
    BY <1>8, <2>1, <2>2
<1> QED
  BY <1>2, <1>3, <1>4, <1>5, <1>6, <1>7, <1>8 DEF Works, Buys

\* What a seller verified stays its own to lose for the whole runway beside a
\* wallet that settles many Jobs in one transaction, whatever it read before it
\* signed: neither that wallet's bulk refund nor anybody else's crank takes the
\* money before it ends (verifyJobForSeller, buildRefundJobsTx).
THEOREM VerifiedSafeBesideBulk == DeskSpec => VerifiedJobIsSafe
<1>1. DeskInv /\ [DeskNext]_deskVars => [StaysSafe]_marketVars
  BY DeskMoves, MovesSafely DEF DeskInv
<1>2. [StaysSafe]_marketVars <=>
        [\A j \in DOMAIN jobs :
           Verified(j) /\ jobs'[j] # jobs[j] =>
             \/ jobs'[j].state \in {DELIVERED, RELEASED}
             \/ jobs'[j].settled_by = "JobDeclined"]_marketVars
  BY DEF StaysSafe
<1> QED
  BY <1>1, <1>2, DeskInductive, PTL DEF DeskSpec, VerifiedJobIsSafe

\* The verbs offered for a Job meet the doors' gates beside such a wallet as well.
THEOREM OffersMeetTheDoorsAtTheDesk == DeskSpec => []OffersPassTheGates
<1>1. DeskInv => OffersPassTheGates
  BY OffersPass DEF DeskInv, ChainInv
<1> QED
  BY <1>1, DeskInductive, PTL

\* No hash of an uploaded body reaches the chain before the store has served
\* that body under that hash, whatever hash the upload answered with and however
\* many precursors came between (putAndVerifySpec).
THEOREM PinnedStaysReadable == DeskSpec => []PinnedIsReadable
<1>1. DeskInv => PinnedIsReadable
  BY DEF DeskInv
<1> QED
  BY <1>1, DeskInductive, PTL

\* No undelivered work is paid for unless the caller said so or the Job could not
\* be read, however the Job moves between the read and the signature: it never
\* moves back to where nothing was delivered (release's --pay-without-delivery).
THEOREM GoodwillStaysAsked == DeskSpec => []GoodwillIsAsked
<1>1. DeskInv => GoodwillIsAsked
  BY DEF DeskInv
<1> QED
  BY <1>1, DeskInductive, PTL

\* The ledger of the day and the transactions that were never answered add up to
\* what the wallet's hires, posts and waves hold or held, to the unit: no refused
\* verb eats the cap, none that landed is forgotten (recordSpendIfLanded).
THEOREM SpendIsCounted == DeskSpec => []EscrowedIsCounted
<1>1. DeskInv => EscrowedIsCounted
  BY DEF DeskInv, LedgerInv
<1> QED
  BY <1>1, DeskInductive, PTL

\* What the chain says of a Job, in the form the inbox reads it.
LEMMA FreshTellsTruth ==
  ASSUME DeskInv, assert_version, NEW j \in DOMAIN jobs, NEW fresh,
         fresh.state = jobs[j].state,
         fresh.deliverByMs = jobs[j].deliver_by_ms,
         fresh.reviewWindowMs = jobs[j].review_window_ms,
         jobs[j].state = DELIVERED => fresh.deliveredAtMs = jobs[j].delivered_at_ms
  PROVE  LET job == jobs[j]
             selling == bucketSellerJob(fresh, now)
             buying == bucketBuyerJob(fresh, now)
             mayCrank == job.state = DELIVERED /\ now > window_end(job)
         IN  /\ (selling = "needsYou") <=> can_deliver(job, job.seller)
             /\ (selling = "fundedLate") <=> can_refund(job)
             /\ (selling = "releasable") <=> (mayCrank /\ job.review_window_ms > 0)
             /\ (buying = "needsYou") <=> can_release(job, job.buyer) /\ job.state = DELIVERED
             /\ (buying = "refundable") <=> can_refund(job)
<1> DEFINE job == jobs[j]
           selling == bucketSellerJob(fresh, now)
           buying == bucketBuyerJob(fresh, now)
<1>1. /\ job.deliver_by_ms \in Nat /\ job.review_window_ms \in Nat /\ job.delivered_at_ms \in Nat
      /\ job.delivered_at_ms <= MaxNow /\ job.review_window_ms <= MAX_REVIEW_WINDOW_MS
      /\ job.state = DELIVERED => job.delivered_at_ms > 0
      /\ now \in Nat
  BY EscrowAssumption DEF DeskInv, ChainInv, IInv, JobsInv, JobInv, Job, TermsLegal, Stamped
<1>2. FitsU64(job.delivered_at_ms, job.review_window_ms)
  BY <1>1, ClockAssumption, EscrowAssumption DEF FitsU64
<1>3. FUNDED \in Live /\ DELIVERED \in Live /\ FUNDED # DELIVERED
  BY DEF FUNDED, DELIVERED, Live
<1> HIDE DEF job
<1>4. CASE job.state \notin Live
  <2>1. selling = "terminal" /\ buying = "terminal"
    BY <1>3, <1>4 DEF bucketSellerJob, bucketBuyerJob, Live, job
  <2> HIDE DEF selling, buying
  <2> QED
    BY <1>3, <1>4, <2>1 DEF can_deliver, can_refund, job, selling, buying
<1>5. CASE job.state = FUNDED
  <2>1. /\ now <= job.deliver_by_ms => selling = "needsYou" /\ buying = "waiting"
        /\ now > job.deliver_by_ms => selling = "fundedLate" /\ buying = "refundable"
    BY <1>1, <1>3, <1>5 DEF bucketSellerJob, bucketBuyerJob, Live, FUNDED, DELIVERED, job
  <2>2. /\ can_deliver(job, job.seller) <=> now <= job.deliver_by_ms
        /\ can_refund(job) <=> now > job.deliver_by_ms
    BY <1>5 DEF can_deliver, can_refund, past_deadline
  <2> HIDE DEF selling, buying
  <2>3. /\ (selling = "needsYou") <=> can_deliver(job, job.seller)
        /\ (selling = "fundedLate") <=> can_refund(job)
        /\ (buying = "refundable") <=> can_refund(job)
        /\ selling # "releasable" /\ buying # "needsYou" /\ job.state # DELIVERED
    BY <1>1, <1>3, <1>5, <2>1, <2>2
  <2> QED
    BY <2>3 DEF job, selling, buying
<1>6. CASE job.state = DELIVERED
  <2>1. Anchor(fresh) = job.delivered_at_ms
    BY <1>1, <1>6 DEF Anchor, job
  <2>2. /\ HasReviewClock(fresh) <=> job.review_window_ms > 0
        /\ reviewClosesMs(fresh) = window_end(job)
    BY <1>1, <1>6, <2>1 DEF HasReviewClock, reviewClosesMs, window_end, job
  <2>3. /\ job.review_window_ms > 0 /\ now > window_end(job) => selling = "releasable"
        /\ ~(job.review_window_ms > 0 /\ now > window_end(job)) => selling = "awaitingBuyer"
        /\ buying = "needsYou"
    BY <1>3, <1>6, <2>2 DEF bucketSellerJob, bucketBuyerJob, Live, FUNDED, DELIVERED, job
  <2>4. /\ ~can_deliver(job, job.seller) /\ ~can_refund(job)
        /\ can_release(job, job.buyer)
    BY <1>2, <1>3, <1>6 DEF can_deliver, can_refund, can_release
  <2> HIDE DEF selling, buying
  <2>5. /\ (selling = "releasable") <=> (now > window_end(job) /\ job.review_window_ms > 0)
        /\ selling # "needsYou" /\ selling # "fundedLate" /\ buying # "refundable"
    BY <2>3
  <2> QED
    BY <1>6, <2>3, <2>4, <2>5 DEF job, selling, buying
<1>7. job.state \notin Live \/ job.state = FUNDED \/ job.state = DELIVERED
  BY DEF Live
<1> QED
  BY <1>4, <1>5, <1>6, <1>7

\* On the package version the wallet was built for, the bucket of a row read again
\* from the chain names the doors that are open, whatever the index still showed:
\* the deadline and the end of the review window to the millisecond, and no end
\* of a window that a u64 cannot hold (mergeIndexedJobFromChain, the two buckets).
THEOREM InboxIsTrue ==
  ASSUME LaunchCfg.version = VERSION
  PROVE  DeskSpec => []InboxTellsTheTruth
<1>1. ASSUME DeskInv PROVE InboxTellsTheTruth
  <2>1. assert_version
    BY <1>1 DEF DeskInv, ChainInv, assert_version
  <2>2. ASSUME NEW j \in DOMAIN jobs, NEW row \in IndexedJob(j)
        PROVE  LET job == jobs[j]
                   fresh == IF row.state \in Live
                            THEN mergeIndexedJobFromChain(row, getJob(j)) ELSE row
               IN  /\ fresh.state = job.state
                   /\ fresh.deliverByMs = job.deliver_by_ms
                   /\ fresh.reviewWindowMs = job.review_window_ms
                   /\ job.state = DELIVERED => fresh.deliveredAtMs = job.delivered_at_ms
    <3>1. \E s, t : row = Row(j, s, t) /\ (s \in Live \/ s = jobs[j].state)
      BY DEF IndexedJob, Live
    <3>2. PICK s, t : row = Row(j, s, t) /\ (s \in Live \/ s = jobs[j].state)
      BY <3>1
    <3>3. jobs[j].state = DELIVERED => jobs[j].delivered_at_ms > 0
      BY <1>1 DEF DeskInv, ChainInv, Stamped
    <3>4. CASE s \in Live
      <4> DEFINE fresh == mergeIndexedJobFromChain(row, getJob(j))
      <4>1. /\ fresh.state = jobs[j].state
            /\ fresh.deliverByMs = jobs[j].deliver_by_ms
            /\ fresh.reviewWindowMs = jobs[j].review_window_ms
        BY <3>2 DEF mergeIndexedJobFromChain, getJob, Row
      <4>2. jobs[j].state = DELIVERED => fresh.deliveredAtMs = jobs[j].delivered_at_ms
        BY <3>2, <3>3 DEF mergeIndexedJobFromChain, getJob, Row
      <4>3. row.state \in Live
        BY <3>2, <3>4 DEF Row
      <4> QED
        BY <4>1, <4>2, <4>3
    <3>5. CASE s \notin Live
      <4>1. row.state \notin Live /\ row.state = jobs[j].state
        BY <3>2, <3>5 DEF Row
      <4>2. jobs[j].state # DELIVERED
        BY <4>1 DEF Live
      <4>3. /\ row.deliverByMs = jobs[j].deliver_by_ms
            /\ row.reviewWindowMs = jobs[j].review_window_ms
        BY <3>2 DEF Row
      <4> QED
        BY <4>1, <4>2, <4>3
    <3> QED
      BY <3>4, <3>5
  <2> QED
    BY <1>1, <2>1, <2>2, FreshTellsTruth DEF InboxTellsTheTruth
<1> QED
  BY <1>1, DeskInductive, PTL
=============================================================================
