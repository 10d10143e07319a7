----------------------------- MODULE DoorProofs -----------------------------
(***************************************************************************)
(* What the client's view of the marketplace's doors is worth, for every   *)
(* Job, post, wave, price and caller: a verified Job stays safe, every verb*)
(* it offers meets the gate of the one door behind it and no other does,   *)
(* and the preflight of a claim is the chain's own verdict.  "The call runs"*)
(* is said here without ENABLED: a step of a door is shown to be its gate, *)
(* a predicate of the state, together with writes that set each variable   *)
(* once.                                                                   *)
(***************************************************************************)
EXTENDS JobDoors, ReceiptProofs

(***************************************************************************)
(* A Job that a seller verified.                                           *)
(***************************************************************************)

\* One Job moves: it is delivered now, or settled for good.
OneMoves(j, job) ==
  /\ j \in DOMAIN jobs
  /\ jobs' = [jobs EXCEPT ![j] = job]
  /\ job \in Job
  /\ \/ /\ job.state = DELIVERED /\ job.delivered_at_ms = now
        /\ jobs[j].state = FUNDED
     \/ job.state \notin Live

\* What a delivery or a settlement does to the one Job it touches, and when the
\* money of an undelivered one may go back or to its seller.
LEMMA SettleMoves ==
  ASSUME IInv, Settle
  PROVE  \E j \in DOMAIN jobs, job \in Job :
           /\ OneMoves(j, job)
           /\ \/ job.state \in {DELIVERED, RELEASED} \/ job.settled_by = "JobDeclined"
              \/ jobs[j].state = DELIVERED
              \/ now > jobs[j].deliver_by_ms
<1>1. PICK j \in DOMAIN jobs, marks \in SUBSET Mark :
        \/ \E sender \in Account : \/ deliver(sender, j, marks)
                                   \/ release_settle_pkg(sender, j, marks)
                                   \/ reject_settle_pkg(sender, j, marks)
                                   \/ decline_settle_pkg(sender, j, marks)
        \/ refund_settle_pkg(j, marks)
  BY DEF Settle
<1>2. jobs[j] \in Job /\ jobs[j] \in Job /\ now \in Nat /\ JobsInv /\ JobsInv'
  BY SettleKeeps DEF IInv, JobsInv
<1>3. /\ DELIVERED \in Live /\ RELEASED \notin Live /\ REFUNDED \notin Live
      /\ REJECTED \notin Live
  BY DEF Live, FUNDED, DELIVERED, RELEASED, REFUNDED, REJECTED
<1>4. ASSUME NEW middle,
             jobs' = [jobs EXCEPT ![j] = [middle EXCEPT !.marks = @ \cup marks]],
             DOMAIN middle = DOMAIN jobs[j]
      PROVE  /\ [middle EXCEPT !.marks = @ \cup marks] \in Job
             /\ \A f \in {"state", "delivered_at_ms", "settled_by"} :
                  [middle EXCEPT !.marks = @ \cup marks][f] = middle[f]
  <2> DEFINE after == [middle EXCEPT !.marks = @ \cup marks]
  <2>1. jobs'[j] = after /\ j \in DOMAIN jobs'
    BY <1>4
  <2>2. after \in Job
    BY <1>2, <2>1 DEF JobsInv
  <2>3. {"state", "delivered_at_ms", "settled_by"} \subseteq DOMAIN middle
    BY <1>2, <1>4 DEF Job
  <2> QED
    BY <2>2, <2>3
<1>5. ASSUME NEW state, NEW shares, NEW event, state \notin Live,
             Stamp(j, Settled(jobs[j], state, shares, event), marks)
      PROVE  \E job \in Job : OneMoves(j, job) /\ job.state = state /\ job.settled_by = event
  <2> DEFINE middle == Settled(jobs[j], state, shares, event)
             after  == [middle EXCEPT !.marks = @ \cup marks]
  <2>1. /\ DOMAIN middle = DOMAIN jobs[j]
        /\ middle.state = state /\ middle.settled_by = event
    BY <1>2 DEF Settled, Job
  <2>2. jobs' = [jobs EXCEPT ![j] = after]
    BY <1>5 DEF Stamp
  <2> HIDE DEF middle
  <2>3. after \in Job /\ after.state = state /\ after.settled_by = event
    BY <1>4, <2>1, <2>2
  <2> HIDE DEF after
  <2> QED
    BY <1>5, <2>2, <2>3 DEF OneMoves
<1>6. ASSUME NEW sender \in Account, deliver(sender, j, marks)
      PROVE  \E job \in Job : OneMoves(j, job) /\ job.state = DELIVERED
  <2> DEFINE middle == [jobs[j] EXCEPT !.delivered_at_ms = now, !.state = DELIVERED]
             after  == [middle EXCEPT !.marks = @ \cup marks]
  <2>1. /\ DOMAIN middle = DOMAIN jobs[j]
        /\ middle.state = DELIVERED /\ middle.delivered_at_ms = now
    BY <1>2 DEF Job
  <2>2. jobs' = [jobs EXCEPT ![j] = after] /\ jobs[j].state = FUNDED
    BY <1>6 DEF deliver, can_deliver, Stamp
  <2> HIDE DEF middle
  <2>3. after \in Job /\ after.state = DELIVERED /\ after.delivered_at_ms = now
    BY <1>4, <2>1, <2>2
  <2> HIDE DEF after
  <2> QED
    BY <2>2, <2>3 DEF OneMoves
<1>7. ASSUME NEW sender \in Account, release_settle_pkg(sender, j, marks)
      PROVE  \E job \in Job : OneMoves(j, job) /\ job.state = RELEASED
  BY <1>3, <1>5, <1>7 DEF release_settle_pkg
<1>8. ASSUME NEW sender \in Account, reject_settle_pkg(sender, j, marks)
      PROVE  \E job \in Job : OneMoves(j, job) /\ jobs[j].state = DELIVERED
  BY <1>3, <1>5, <1>8 DEF reject_settle_pkg, can_reject
<1>9. ASSUME NEW sender \in Account, decline_settle_pkg(sender, j, marks)
      PROVE  \E job \in Job : OneMoves(j, job) /\ job.settled_by = "JobDeclined"
  BY <1>3, <1>5, <1>9 DEF decline_settle_pkg
<1>10. ASSUME refund_settle_pkg(j, marks)
       PROVE  \E job \in Job : OneMoves(j, job) /\ now > jobs[j].deliver_by_ms
  BY <1>3, <1>5, <1>10 DEF refund_settle_pkg, can_refund, past_deadline
<1> QED
  BY <1>1, <1>6, <1>7, <1>8, <1>9, <1>10
-----------------------------------------------------------------------------
(***************************************************************************)
(* The seller's check of a Job it was handed.                              *)
(***************************************************************************)

\* One step of VerifiedJobIsSafe.
StaysSafe ==
  \A j \in DOMAIN jobs :
    Verified(j) /\ jobs'[j] # jobs[j] =>
      \/ jobs'[j].state \in {DELIVERED, RELEASED}
      \/ jobs'[j].settled_by = "JobDeclined"

\* While the runway lasts, nothing of the Job is late.
LEMMA NotYetLate ==
  ASSUME IInv, NEW j \in DOMAIN jobs, Verified(j)
  PROVE  jobs[j].state = FUNDED /\ ~(now > jobs[j].deliver_by_ms)
<1>1. PICK t \in (now - RUNWAY)..now : verifyJobForSeller(j, jobs[j].seller, 1, t)
  BY DEF Verified
<1>2. jobs[j].state = FUNDED /\ jobs[j].deliver_by_ms >= t + RUNWAY
  BY <1>1 DEF verifyJobForSeller, getJob
<1>3. now \in Nat /\ RUNWAY \in Nat /\ jobs[j].deliver_by_ms \in Nat
  BY JobDoorsAssumption DEF IInv, JobsInv, Job
<1> QED
  BY <1>1, <1>2, <1>3

\* A settlement takes it only in the ways allowed.
LEMMA SettledSafely ==
  ASSUME IInv, Settle
  PROVE  StaysSafe
<1>1. SUFFICES ASSUME NEW j \in DOMAIN jobs, Verified(j),
                      jobs'[j] # jobs[j]
               PROVE  \/ jobs'[j].state \in {DELIVERED, RELEASED}
                      \/ jobs'[j].settled_by = "JobDeclined"
  BY DEF StaysSafe
<1>2. PICK k \in DOMAIN jobs, job \in Job :
        /\ OneMoves(k, job)
        /\ \/ job.state \in {DELIVERED, RELEASED} \/ job.settled_by = "JobDeclined"
           \/ jobs[k].state = DELIVERED
           \/ now > jobs[k].deliver_by_ms
  BY SettleMoves
<1>3. k = j /\ jobs'[j] = job
  BY <1>1, <1>2 DEF OneMoves
<1> QED
  BY <1>1, <1>2, <1>3, NotYetLate DEF FUNDED, DELIVERED

\* A new Job leaves the others alone.
LEMMA SharedSafely ==
  ASSUME NEW k, NEW job, k \notin DOMAIN jobs, share(k, job)
  PROVE  StaysSafe
BY DEF share, StaysSafe

LEMMA MintedSafely ==
  ASSUME NEW buyer, NEW seller, NEW k, NEW amount, NEW fee, NEW d, NEW w, NEW s, NEW b,
         create_claimed(buyer, seller, k, amount, fee, d, w, s, b)
  PROVE  StaysSafe
<1>1. k \in JobId \ DOMAIN jobs
      /\ share(k, NewJob(buyer, seller, amount, fee, d, w, s, TRUE, b))
  BY Zenon DEF create_claimed
<1> QED
  BY <1>1, SharedSafely

LEMMA SafeStep ==
  ASSUME MarketInv, [MarketNext]_marketVars
  PROVE  StaysSafe
<1>1. IInv
  BY DEF MarketInv
<1>2. CASE Settle
  BY <1>1, <1>2, SettledSafely
<1>3. CASE Hire
  <2>1. PICK buyer, seller, k, amount, d, w, s : create(buyer, seller, k, amount, d, w, s)
    BY <1>3, Zenon DEF Hire
  <2> QED
    BY <2>1, SharedSafely DEF create
<1>4. CASE ClaimOpening
  <2>1. PICK claimer, o, k : do_claim(claimer, o, k)
    BY <1>4, Zenon DEF ClaimOpening, claim_v2, claim_proven_v2
  <2> QED
    BY <2>1, MintedSafely, Zenon DEF do_claim
<1>5. CASE ClaimSlot
  BY <1>5, MintedSafely, Zenon DEF ClaimSlot, batch_claim
<1>6. CASE UNCHANGED jobs
  BY <1>6 DEF StaysSafe
<1>7. Tick \/ Admin \/ RecordBoard => UNCHANGED jobs
  BY DEF Tick, Admin, SetCfg, set_fee_bps, set_fee_receiver,
     set_min_job_amount, set_max_job_amount, set_tier_active_cap,
     set_no_delivery_regression_floor, set_max_batch_slots, migrate,
     migrate_successor, RecordBoard, record_score_board_pkg
<1> QED
  BY <1>2, <1>3, <1>4, <1>5, <1>6, <1>7, MarketStep
  DEF EscrowPart, marketVars, reputationVars, escrowVars

\* "Verify before starting work": what a seller checked stays its own to lose for
\* the whole runway, for any deadline, price and runway, and whatever the
\* administrator, the cranks and the other parties do.
THEOREM VerifiedStaysSafe == MarketSpec => VerifiedJobIsSafe
<1>1. MarketInv /\ [MarketNext]_marketVars => [StaysSafe]_marketVars
  BY SafeStep
<1>2. [StaysSafe]_marketVars <=>
        [\A j \in DOMAIN jobs :
           Verified(j) /\ jobs'[j] # jobs[j] =>
             \/ jobs'[j].state \in {DELIVERED, RELEASED}
             \/ jobs'[j].settled_by = "JobDeclined"]_marketVars
  BY DEF StaysSafe
<1> QED
  BY <1>1, <1>2, MarketInductive, PTL DEF MarketSpec, VerifiedJobIsSafe

-----------------------------------------------------------------------------
(***************************************************************************)
(* The stamps of a Job.                                                    *)
(***************************************************************************)

\* The stamps of a Job: none before it is delivered; of a live Job of a wave,
\* the freed seat only together with the freed hold.
StampedInOrder(job) ==
  /\ job.state = FUNDED => job.marks = {}
  /\ job.batch_origin # NoBatch => job.claimed
  /\ job.state \in Live /\ job.batch_origin # NoBatch /\ "active_freed" \in job.marks
       => hold_released(job)

StampsInv == \A j \in DOMAIN jobs : StampedInOrder(jobs[j])

\* One Job moves, or one is minted.
LEMMA StampsWhenOneMoves ==
  ASSUME StampsInv, NEW j \in DOMAIN jobs, NEW job, StampedInOrder(job),
         jobs' = [jobs EXCEPT ![j] = job]
  PROVE  StampsInv'
<1>1. DOMAIN jobs' = DOMAIN jobs /\ \A k \in DOMAIN jobs : jobs'[k] = IF k = j THEN job ELSE jobs[k]
  OBVIOUS
<1>2. \A k \in DOMAIN jobs' : StampedInOrder(jobs'[k])
  BY <1>1 DEF StampsInv
<1> QED
  BY <1>2 DEF StampsInv, StampedInOrder, hold_released

LEMMA StampsWhenShared ==
  ASSUME StampsInv, NEW j, NEW buyer, NEW seller, NEW amount, NEW fee_bps, NEW deliver_by,
         NEW window, NEW split, NEW claimed, NEW origin, claimed \/ origin = NoBatch,
         share(j, NewJob(buyer, seller, amount, fee_bps, deliver_by, window, split, claimed, origin))
  PROVE  StampsInv'
<1> DEFINE job == NewJob(buyer, seller, amount, fee_bps, deliver_by, window, split, claimed, origin)
<1>1. job.state = FUNDED /\ job.marks = {} /\ job.batch_origin = origin /\ job.claimed = claimed
  BY DEF NewJob
<1> HIDE DEF job
<1>2. StampedInOrder(job)
  BY <1>1 DEF StampedInOrder
<1>3. \A k \in DOMAIN jobs' : StampedInOrder(jobs'[k])
  BY <1>2 DEF StampsInv, share, job
<1> QED
  BY <1>3 DEF StampsInv, StampedInOrder, hold_released

\* Settled is settled, whatever the stamps.
LEMMA StampsWhenSettled ==
  ASSUME JobsInv, StampsInv, NEW j \in DOMAIN jobs, NEW marks, NEW sender,
         \/ release_settle_pkg(sender, j, marks) \/ reject_settle_pkg(sender, j, marks)
         \/ decline_settle_pkg(sender, j, marks) \/ refund_settle_pkg(j, marks)
  PROVE  StampsInv'
<1>1. jobs[j] \in Job
  BY DEF JobsInv
<1>3. ASSUME NEW state \in {RELEASED, REJECTED, REFUNDED}, NEW shares, NEW event,
             Stamp(j, Settled(jobs[j], state, shares, event), marks)
      PROVE  StampsInv'
  <2> DEFINE settled == Settled(jobs[j], state, shares, event)
             job     == [settled EXCEPT !.marks = @ \cup marks]
  <2>1. /\ settled.batch_origin = jobs[j].batch_origin /\ settled.claimed = jobs[j].claimed
        /\ settled.state = state
        /\ DOMAIN settled = DOMAIN jobs[j]
    BY <1>1 DEF Settled, Job
  <2>2. {"batch_origin", "claimed", "state", "marks"} \subseteq DOMAIN settled
    BY <1>1, <2>1 DEF Job
  <2>3. jobs' = [jobs EXCEPT ![j] = job]
    BY <1>3 DEF Stamp
  <2> HIDE DEF settled
  <2>4. job.batch_origin = jobs[j].batch_origin /\ job.claimed = jobs[j].claimed /\ job.state = state
    BY <2>1, <2>2
  <2> HIDE DEF job
  <2>5. state \notin Live /\ state # FUNDED
    BY DEF Live, FUNDED, DELIVERED, RELEASED, REJECTED, REFUNDED
  <2>6. StampedInOrder(job)
    BY <2>4, <2>5 DEF StampedInOrder, StampsInv
  <2> QED
    BY <2>3, <2>6, StampsWhenOneMoves
<1>4. CASE release_settle_pkg(sender, j, marks)
  BY <1>3, <1>4 DEF release_settle_pkg
<1>5. CASE reject_settle_pkg(sender, j, marks)
  BY <1>3, <1>5 DEF reject_settle_pkg
<1>6. CASE decline_settle_pkg(sender, j, marks)
  BY <1>3, <1>6 DEF decline_settle_pkg
<1>7. CASE refund_settle_pkg(j, marks)
  BY <1>3, <1>7 DEF refund_settle_pkg
<1> QED
  BY <1>4, <1>5, <1>6, <1>7

\* The three ways to deliver: no stamp, no wave, or both stamps.
LEMMA StampsWhenDelivered ==
  ASSUME JobsInv, StampsInv, NEW j \in DOMAIN jobs, NEW marks, NEW sender,
         deliver(sender, j, marks),
         \/ "active_freed" \notin marks
         \/ jobs[j].batch_origin = NoBatch
         \/ "batch_hold_released" \in marks
  PROVE  StampsInv'
<1> DEFINE job == [[jobs[j] EXCEPT !.delivered_at_ms = now, !.state = DELIVERED]
                     EXCEPT !.marks = @ \cup marks]
<1>1. jobs[j] \in Job
  BY DEF JobsInv
<1>2. jobs' = [jobs EXCEPT ![j] = job]
  BY DEF deliver, Stamp
<1>3. /\ job.batch_origin = jobs[j].batch_origin /\ job.claimed = jobs[j].claimed
      /\ job.state = DELIVERED /\ job.marks = jobs[j].marks \cup marks
  BY <1>1 DEF Job
<1> HIDE DEF job
<1>4. jobs[j].marks = {}
  BY DEF StampsInv, StampedInOrder, deliver, can_deliver
<1>5. StampedInOrder(job)
  BY <1>3, <1>4 DEF StampedInOrder, StampsInv, hold_released, DELIVERED, FUNDED
<1> QED
  BY <1>2, <1>5, StampsWhenOneMoves

LEMMA StampsAtDoors ==
  ASSUME JobsInv, StampsInv, Doors \/ (\E b : \E j \in DOMAIN jobs : WaveDoor(b, j))
  PROVE  StampsInv'
<1>1. CASE Doors
  <2>1. PICK j \in DOMAIN jobs :
          \/ refund_v2(j)
          \/ \E sender \in Account : \/ reject_v2(sender, j)
                                     \/ reject_v2_agent_buyer(sender, j)
                                     \/ decline_v2(sender, j)
                                     \/ release_v2(sender, j)
                                     \/ deliver_v2(sender, j)
                                     \/ deliver_v1(sender, j)
    BY <1>1 DEF Doors
  <2>2. CASE refund_v2(j)
    BY <2>2, StampsWhenSettled DEF refund_v2
  <2>3. ASSUME NEW sender \in Account,
               \/ reject_v2(sender, j) \/ reject_v2_agent_buyer(sender, j)
               \/ decline_v2(sender, j) \/ release_v2(sender, j)
        PROVE  StampsInv'
    BY <2>3, StampsWhenSettled DEF reject_v2, reject_v2_agent_buyer, decline_v2, release_v2
  <2>4. ASSUME NEW sender \in Account, deliver_v2(sender, j)
        PROVE  StampsInv'
    BY <2>4, StampsWhenDelivered DEF deliver_v2, not_batch
  <2>5. ASSUME NEW sender \in Account, deliver_v1(sender, j)
        PROVE  StampsInv'
    BY <2>5, StampsWhenDelivered DEF deliver_v1
  <2> QED
    BY <2>1, <2>2, <2>3, <2>4, <2>5
<1>2. ASSUME NEW b, NEW j \in DOMAIN jobs, WaveDoor(b, j)
      PROVE  StampsInv'
  <2>1. CASE batch_refund(b, j)
    BY <2>1, StampsWhenSettled DEF batch_refund
  <2>2. ASSUME NEW sender \in Account,
               \/ batch_release(sender, b, j) \/ batch_reject(sender, b, j)
               \/ batch_reject_agent_buyer(sender, b, j)
        PROVE  StampsInv'
    BY <2>2, StampsWhenSettled DEF batch_release, batch_reject, batch_reject_agent_buyer
  <2>3. ASSUME NEW sender \in Account, batch_deliver_v2(sender, b, j)
        PROVE  StampsInv'
    <3> DEFINE marks == freed_mark(jobs[j]) \cup {"batch_hold_released"}
    <3>1. deliver(sender, j, marks) /\ "batch_hold_released" \in marks
      BY <2>3 DEF batch_deliver_v2
    <3> HIDE DEF marks
    <3> QED
      BY <3>1, StampsWhenDelivered
  <2> QED
    BY <1>2, <2>1, <2>2, <2>3 DEF WaveDoor
<1> QED
  BY <1>1, <1>2

LEMMA StampsWhenStill == StampsInv /\ UNCHANGED jobs => StampsInv'
BY DEF StampsInv, StampedInOrder, hold_released

LEMMA StampsStep ==
  ASSUME MarketInv, StampsInv, [MarketNext]_marketVars
  PROVE  StampsInv'
<1>0. JobsInv
  BY DEF MarketInv, IInv
<1>1. CASE Doors \/ BatchDoors
  BY <1>0, <1>1, StampsAtDoors, BatchDoorsAreDoors
<1>2. CASE Hire
  <2>1. PICK buyer, seller \in Account, j \in JobId, amount \in Amount,
             d, w \in Duration, s \in Split :
          create(buyer, seller, j, amount, now + d, w, s)
    BY <1>2 DEF Hire
  <2>2. share(j, NewJob(buyer, seller, amount, cfg.fee_bps, now + d, w, s, FALSE, NoBatch))
    BY <2>1 DEF create
  <2> QED
    BY <2>2, StampsWhenShared
<1>3. CASE ClaimOpening \/ ClaimSlot
  <2>1. ASSUME NEW buyer, NEW a, NEW j, NEW amount, NEW fee_bps, NEW deliver_by,
               NEW window, NEW split, NEW origin,
               create_claimed(buyer, a, j, amount, fee_bps, deliver_by, window, split, origin)
        PROVE  StampsInv'
    <3>1. share(j, NewJob(buyer, a, amount, fee_bps, deliver_by, window, split, TRUE, origin))
      BY <2>1 DEF create_claimed
    <3> QED
      BY <3>1, StampsWhenShared
  <2>2. CASE ClaimOpening
    <3>1. PICK a \in Account, o \in DOMAIN openings, j \in JobId : do_claim(a, o, j)
      BY <2>2 DEF ClaimOpening, claim_v2, claim_proven_v2
    <3> QED
      BY <3>1, <2>1 DEF do_claim
  <2>3. CASE ClaimSlot
    <3>1. PICK a \in Account, b \in DOMAIN batches, j \in JobId : batch_claim(a, b, j)
      BY <2>3 DEF ClaimSlot
    <3> QED
      BY <3>1, <2>1 DEF batch_claim
  <2> QED
    BY <1>3, <2>2, <2>3
<1>4. CASE UNCHANGED jobs
  BY <1>4, StampsWhenStill
<1>5. Tick \/ Admin \/ RecordBoard => UNCHANGED jobs
  BY DEF Tick, Admin, SetCfg, set_fee_bps, set_fee_receiver, set_min_job_amount,
     set_max_job_amount, set_tier_active_cap, set_no_delivery_regression_floor,
     set_max_batch_slots, migrate, migrate_successor, RecordBoard, record_score_board_pkg
<1>6. ReputationNext => Doors \/ Hire \/ UNCHANGED jobs
  <2>1. RegistryAlone \/ create_score_board \/ Reconcile \/ Review
        \/ (\E a \in Account : create_empty_score(a)) => UNCHANGED jobs
    BY <1>5 DEF RegistryAlone, create_score_board, Reconcile, set_active_seller_jobs,
       Review, submit_first_review, submit_review, create_empty_score, escrowVars
  <2> QED
    BY <1>5, <2>1 DEF ReputationNext, EscrowAlone
<1>7. OpeningNext => ClaimOpening \/ UNCHANGED jobs
  <2>2. PostOpening => UNCHANGED reputationVars
    BY DEF PostOpening, create_open_v2
  <2>3. ReturnOpening => UNCHANGED reputationVars
    BY DEF ReturnOpening, cancel_open, refund_unclaimed, repay_buyer
  <2> QED
    BY <2>2, <2>3 DEF OpeningNext, reputationVars, escrowVars
<1>8. BatchNext => BatchDoors \/ ClaimSlot \/ UNCHANGED jobs
  <2>1. PostBatch => UNCHANGED reputationVars
    BY DEF PostBatch, create_batch_open
  <2>2. ReturnSlots => UNCHANGED reputationVars
    BY DEF ReturnSlots, refund_batch_expired, cancel_batch_open, drain_remainder
  <2> QED
    BY <2>1, <2>2 DEF BatchNext, reputationVars, escrowVars
<1>9. UNCHANGED marketVars => UNCHANGED jobs
  BY DEF marketVars, reputationVars, escrowVars
<1> QED
  BY <1>1, <1>2, <1>3, <1>4, <1>6, <1>7, <1>8, <1>9 DEF MarketNext

\* The one-shot stamps come in order through every door: an undelivered Job has
\* none, and a live Job of a wave has given its seat back only if it has given its
\* hold back too, so no door stamps twice and no hold outlives its seat.
THEOREM StampsKeepOrder == MarketSpec => []StampsInv
<1>1. MarketInit => StampsInv
  BY DEF MarketInit, EscrowInit, StampsInv
<1>2. MarketInv /\ StampsInv /\ [MarketNext]_marketVars => StampsInv'
  BY StampsStep
<1> QED
  BY <1>1, <1>2, MarketInductive, PTL DEF MarketSpec
-----------------------------------------------------------------------------
(***************************************************************************)
(* What a door asks for, and what it writes.                               *)
(***************************************************************************)

\* The functions behind the four verbs of jobActionsFor, by what they ask for.
DeliverFn == {"reputation::deliver_v2", "batch::deliver_v2"}
ReleaseFn == {"reputation::release_v2", "batch::batch_release"}
RefundFn  == {"reputation::refund_v2", "batch::batch_refund"}
RejectFn  == {"reputation::reject_v2", "batch::batch_reject"}
AgentRejectFn == {"reputation::reject_v2_agent_buyer", "batch::batch_reject_agent_buyer"}
OfferFn == DeliverFn \cup ReleaseFn \cup RefundFn \cup RejectFn \cup AgentRejectFn
WaveFn == {"batch::deliver_v2", "batch::batch_release", "batch::batch_refund",
           "batch::batch_reject", "batch::batch_reject_agent_buyer"}

\* The transaction that creates a missing score first.
IsPrecursor(call) == call.fn = "reputation::create_empty_score"

\* What a door asks for: a predicate of the state alone.
Gate(sender, call) ==
  LET fn == call.fn
      j  == call.at.job
  IN
  /\ IF fn \in WaveFn THEN from_batch(call.at.batch, j) ELSE not_batch(j)
  /\ has_score(jobs[j].seller)
  /\ \/ fn \in DeliverFn /\ can_deliver(jobs[j], sender)
     \/ fn \in ReleaseFn /\ can_release(jobs[j], sender)
     \/ fn \in RefundFn  /\ can_refund(jobs[j])
     \/ fn \in RejectFn  /\ can_reject(jobs[j], sender) /\ ~is_registered(jobs[j].buyer)
     \/ fn \in AgentRejectFn /\ can_reject(jobs[j], sender)
          /\ is_registered(jobs[j].buyer) /\ has_score(jobs[j].buyer)

\* What it writes: each variable once.
MarksOf(fn, job) ==
  CASE fn = "reputation::deliver_v2" -> freed_mark(job)
    [] fn = "batch::deliver_v2" -> freed_mark(job) \cup {"batch_hold_released"}
    [] fn \in WaveFn \ DeliverFn -> released_mark(job)
    [] fn \notin WaveFn \cup DeliverFn -> {}

\* What the money's doors make of a Job.
Released(job) ==
  Settled(job, RELEASED, release_shares(job.escrow, job.fee_bps), "JobReleased")
Refunded(job) ==
  Settled(job, REFUNDED, refund_shares(job.escrow), "JobRefunded")
Rejected(job) ==
  Settled(job, REJECTED, reject_shares(job.escrow, job.reject_split_bps, job.fee_bps),
          "JobRejected")

Moved(fn, job) ==
  CASE fn \in DeliverFn -> [job EXCEPT !.delivered_at_ms = now, !.state = DELIVERED]
    [] fn \in ReleaseFn -> Released(job)
    [] fn \in RefundFn -> Refunded(job)
    [] fn \in RejectFn \cup AgentRejectFn -> Rejected(job)

ScoresAfter(fn, j) ==
  CASE fn \in DeliverFn \cup ReleaseFn -> score_after_seat(j)
    [] fn \in RefundFn -> score_after_outcome(j, "no_delivery")
    [] fn \in RejectFn -> score_after_outcome(j, "rejected_after_delivery")
    [] fn \in AgentRejectFn -> score_after_agent_reject(j)

Writes(call) ==
  LET fn == call.fn
      j  == call.at.job
  IN
  /\ jobs' = [jobs EXCEPT ![j] = [Moved(fn, jobs[j]) EXCEPT !.marks = @ \cup MarksOf(fn, jobs[j])]]
  /\ scores' = ScoresAfter(fn, j)
  /\ IF fn \in WaveFn THEN free_wave_hold(call.at.batch, jobs[j]) ELSE UNCHANGED batches
  /\ UNCHANGED <<now, cfg, registryVars, openings>>

\* Each door is its gate and its writes.
LEMMA DoorIsGateAndWrites ==
  ASSUME JobsInv, NEW sender, NEW call, call.fn \in OfferFn, call.at.job \in DOMAIN jobs,
         jobs[call.at.job].state = FUNDED => "batch_hold_released" \notin jobs[call.at.job].marks
  PROVE  DoorStep(sender, call) <=> Gate(sender, call) /\ Writes(call)
<1> DEFINE j == call.at.job
<1>1. freed_mark(jobs[j]) \cap jobs[j].marks = {} /\ released_mark(jobs[j]) \cap jobs[j].marks = {}
  BY DEF freed_mark, seat_held, released_mark, hold_released
<1>0. \A job \in {Released(jobs[j]), Refunded(jobs[j]), Rejected(jobs[j])} : job.marks = jobs[j].marks
  BY DEF JobsInv, Job, Released, Refunded, Rejected, Settled
<1>2. CASE call.fn = "reputation::deliver_v2"
  <2>1. DoorStep(sender, call) <=> deliver_v2(sender, j) /\ UNCHANGED <<openings, batches>>
    BY <1>2 DEF DoorStep
  <2>2. Gate(sender, call) <=> not_batch(j) /\ has_score(jobs[j].seller)
                                /\ can_deliver(jobs[j], sender)
    BY <1>2
    DEF Gate, WaveFn, DeliverFn, ReleaseFn, RefundFn, RejectFn, AgentRejectFn
  <2>3. /\ Moved(call.fn, jobs[j]) = [jobs[j] EXCEPT !.delivered_at_ms = now, !.state = DELIVERED]
        /\ MarksOf(call.fn, jobs[j]) = freed_mark(jobs[j])
        /\ ScoresAfter(call.fn, j) = score_after_seat(j)
        /\ ~(call.fn \in WaveFn)
    BY <1>2
    DEF Moved, MarksOf, ScoresAfter, WaveFn, DeliverFn, ReleaseFn, RefundFn, RejectFn, AgentRejectFn
  <2> QED
    BY <1>1, <2>1, <2>2, <2>3 DEF Writes, deliver_v2, deliver, Stamp
<1>3. CASE call.fn = "batch::deliver_v2"
  <2>1. DoorStep(sender, call) <=> batch_deliver_v2(sender, call.at.batch, j) /\ UNCHANGED openings
    BY <1>3 DEF DoorStep
  <2>2. Gate(sender, call) <=> from_batch(call.at.batch, j) /\ has_score(jobs[j].seller)
                                /\ can_deliver(jobs[j], sender)
    BY <1>3
    DEF Gate, WaveFn, DeliverFn, ReleaseFn, RefundFn, RejectFn, AgentRejectFn
  <2>3. /\ Moved(call.fn, jobs[j]) = [jobs[j] EXCEPT !.delivered_at_ms = now, !.state = DELIVERED]
        /\ MarksOf(call.fn, jobs[j]) = freed_mark(jobs[j]) \cup {"batch_hold_released"}
        /\ ScoresAfter(call.fn, j) = score_after_seat(j)
        /\ (call.fn \in WaveFn)
    BY <1>3
    DEF Moved, MarksOf, ScoresAfter, WaveFn, DeliverFn, ReleaseFn, RefundFn, RejectFn, AgentRejectFn
  <2>4. can_deliver(jobs[j], sender) =>
          (freed_mark(jobs[j]) \cup {"batch_hold_released"}) \cap jobs[j].marks = {}
    BY <1>1 DEF can_deliver
  <2> QED
    BY <1>1, <2>1, <2>2, <2>3, <2>4 DEF Writes, batch_deliver_v2, deliver, Stamp
<1>4. CASE call.fn = "reputation::release_v2"
  <2>1. DoorStep(sender, call) <=> release_v2(sender, j) /\ UNCHANGED <<openings, batches>>
    BY <1>4 DEF DoorStep
  <2>2. Gate(sender, call) <=> not_batch(j) /\ has_score(jobs[j].seller)
                                /\ can_release(jobs[j], sender)
    BY <1>4
    DEF Gate, WaveFn, DeliverFn, ReleaseFn, RefundFn, RejectFn, AgentRejectFn
  <2>3. /\ Moved(call.fn, jobs[j]) = Released(jobs[j])
        /\ MarksOf(call.fn, jobs[j]) = {}
        /\ ScoresAfter(call.fn, j) = score_after_seat(j)
        /\ ~(call.fn \in WaveFn)
    BY <1>4
    DEF Moved, MarksOf, ScoresAfter, WaveFn, DeliverFn, ReleaseFn, RefundFn, RejectFn, AgentRejectFn
  <2> QED
    BY <1>1, <2>1, <2>2, <2>3 DEF Writes, release_v2, release_settle_pkg, Released, Stamp
<1>5. CASE call.fn = "batch::batch_release"
  <2>1. DoorStep(sender, call) <=> batch_release(sender, call.at.batch, j) /\ UNCHANGED openings
    BY <1>5 DEF DoorStep
  <2>2. Gate(sender, call) <=> from_batch(call.at.batch, j) /\ has_score(jobs[j].seller)
                                /\ can_release(jobs[j], sender)
    BY <1>5
    DEF Gate, WaveFn, DeliverFn, ReleaseFn, RefundFn, RejectFn, AgentRejectFn
  <2>3. /\ Moved(call.fn, jobs[j]) = Released(jobs[j])
        /\ MarksOf(call.fn, jobs[j]) = released_mark(jobs[j])
        /\ ScoresAfter(call.fn, j) = score_after_seat(j)
        /\ (call.fn \in WaveFn)
    BY <1>5
    DEF Moved, MarksOf, ScoresAfter, WaveFn, DeliverFn, ReleaseFn, RefundFn, RejectFn, AgentRejectFn
  <2>4. Writes(call) <=>
          /\ jobs' = [jobs EXCEPT ![j] = [Released(jobs[j])
                                   EXCEPT !.marks = @ \cup released_mark(jobs[j])]]
          /\ scores' = score_after_seat(j)
          /\ free_wave_hold(call.at.batch, jobs[j])
          /\ UNCHANGED <<now, cfg, registryVars, openings>>
    BY <2>3 DEF Writes
  <2>5. release_settle_pkg(sender, j, released_mark(jobs[j])) <=>
          /\ can_release(jobs[j], sender)
          /\ jobs' = [jobs EXCEPT ![j] = [Released(jobs[j])
                                   EXCEPT !.marks = @ \cup released_mark(jobs[j])]]
          /\ UNCHANGED <<now, cfg>>
    BY <1>0, <1>1 DEF release_settle_pkg, Released, Stamp
  <2> QED
    BY <2>1, <2>2, <2>4, <2>5 DEF batch_release
<1>6. CASE call.fn = "reputation::refund_v2"
  <2>1. DoorStep(sender, call) <=> refund_v2(j) /\ UNCHANGED <<openings, batches>>
    BY <1>6 DEF DoorStep
  <2>2. Gate(sender, call) <=> not_batch(j) /\ has_score(jobs[j].seller)
                                /\ can_refund(jobs[j])
    BY <1>6
    DEF Gate, WaveFn, DeliverFn, ReleaseFn, RefundFn, RejectFn, AgentRejectFn
  <2>3. /\ Moved(call.fn, jobs[j]) = Refunded(jobs[j])
        /\ MarksOf(call.fn, jobs[j]) = {}
        /\ ScoresAfter(call.fn, j) = score_after_outcome(j, "no_delivery")
        /\ ~(call.fn \in WaveFn)
    BY <1>6
    DEF Moved, MarksOf, ScoresAfter, WaveFn, DeliverFn, ReleaseFn, RefundFn, RejectFn, AgentRejectFn
  <2> QED
    BY <1>1, <2>1, <2>2, <2>3 DEF Writes, refund_v2, refund_settle_pkg, Refunded, Stamp
<1>7. CASE call.fn = "batch::batch_refund"
  <2>1. DoorStep(sender, call) <=> batch_refund(call.at.batch, j) /\ UNCHANGED openings
    BY <1>7 DEF DoorStep
  <2>2. Gate(sender, call) <=> from_batch(call.at.batch, j) /\ has_score(jobs[j].seller)
                                /\ can_refund(jobs[j])
    BY <1>7
    DEF Gate, WaveFn, DeliverFn, ReleaseFn, RefundFn, RejectFn, AgentRejectFn
  <2>3. /\ Moved(call.fn, jobs[j]) = Refunded(jobs[j])
        /\ MarksOf(call.fn, jobs[j]) = released_mark(jobs[j])
        /\ ScoresAfter(call.fn, j) = score_after_outcome(j, "no_delivery")
        /\ (call.fn \in WaveFn)
    BY <1>7
    DEF Moved, MarksOf, ScoresAfter, WaveFn, DeliverFn, ReleaseFn, RefundFn, RejectFn, AgentRejectFn
  <2>4. Writes(call) <=>
          /\ jobs' = [jobs EXCEPT ![j] = [Refunded(jobs[j])
                                   EXCEPT !.marks = @ \cup released_mark(jobs[j])]]
          /\ scores' = score_after_outcome(j, "no_delivery")
          /\ free_wave_hold(call.at.batch, jobs[j])
          /\ UNCHANGED <<now, cfg, registryVars, openings>>
    BY <2>3 DEF Writes
  <2>5. refund_settle_pkg(j, released_mark(jobs[j])) <=>
          /\ can_refund(jobs[j])
          /\ jobs' = [jobs EXCEPT ![j] = [Refunded(jobs[j])
                                   EXCEPT !.marks = @ \cup released_mark(jobs[j])]]
          /\ UNCHANGED <<now, cfg>>
    BY <1>0, <1>1 DEF refund_settle_pkg, Refunded, Stamp
  <2> QED
    BY <2>1, <2>2, <2>4, <2>5 DEF batch_refund
<1>8. CASE call.fn = "reputation::reject_v2"
  <2>1. DoorStep(sender, call) <=> reject_v2(sender, j) /\ UNCHANGED <<openings, batches>>
    BY <1>8 DEF DoorStep
  <2>2. Gate(sender, call) <=> not_batch(j) /\ has_score(jobs[j].seller)
                                /\ can_reject(jobs[j], sender) /\ ~is_registered(jobs[j].buyer)
    BY <1>8
    DEF Gate, WaveFn, DeliverFn, ReleaseFn, RefundFn, RejectFn, AgentRejectFn
  <2>3. /\ Moved(call.fn, jobs[j]) = Rejected(jobs[j])
        /\ MarksOf(call.fn, jobs[j]) = {}
        /\ ScoresAfter(call.fn, j) = score_after_outcome(j, "rejected_after_delivery")
        /\ ~(call.fn \in WaveFn)
    BY <1>8
    DEF Moved, MarksOf, ScoresAfter, WaveFn, DeliverFn, ReleaseFn, RefundFn, RejectFn, AgentRejectFn
  <2> QED
    BY <1>1, <2>1, <2>2, <2>3 DEF Writes, reject_v2, reject_settle_pkg, Rejected, Stamp
<1>9. CASE call.fn = "batch::batch_reject"
  <2>1. DoorStep(sender, call) <=> batch_reject(sender, call.at.batch, j) /\ UNCHANGED openings
    BY <1>9 DEF DoorStep
  <2>2. Gate(sender, call) <=> from_batch(call.at.batch, j) /\ has_score(jobs[j].seller)
                                /\ can_reject(jobs[j], sender) /\ ~is_registered(jobs[j].buyer)
    BY <1>9
    DEF Gate, WaveFn, DeliverFn, ReleaseFn, RefundFn, RejectFn, AgentRejectFn
  <2>3. /\ Moved(call.fn, jobs[j]) = Rejected(jobs[j])
        /\ MarksOf(call.fn, jobs[j]) = released_mark(jobs[j])
        /\ ScoresAfter(call.fn, j) = score_after_outcome(j, "rejected_after_delivery")
        /\ (call.fn \in WaveFn)
    BY <1>9
    DEF Moved, MarksOf, ScoresAfter, WaveFn, DeliverFn, ReleaseFn, RefundFn, RejectFn, AgentRejectFn
  <2>4. Writes(call) <=>
          /\ jobs' = [jobs EXCEPT ![j] = [Rejected(jobs[j])
                                   EXCEPT !.marks = @ \cup released_mark(jobs[j])]]
          /\ scores' = score_after_outcome(j, "rejected_after_delivery")
          /\ free_wave_hold(call.at.batch, jobs[j])
          /\ UNCHANGED <<now, cfg, registryVars, openings>>
    BY <2>3 DEF Writes
  <2>5. reject_settle_pkg(sender, j, released_mark(jobs[j])) <=>
          /\ can_reject(jobs[j], sender)
          /\ jobs' = [jobs EXCEPT ![j] = [Rejected(jobs[j])
                                   EXCEPT !.marks = @ \cup released_mark(jobs[j])]]
          /\ UNCHANGED <<now, cfg>>
    BY <1>0, <1>1 DEF reject_settle_pkg, Rejected, Stamp
  <2> QED
    BY <2>1, <2>2, <2>4, <2>5 DEF batch_reject
<1>10. CASE call.fn = "reputation::reject_v2_agent_buyer"
  <2>1. DoorStep(sender, call) <=> reject_v2_agent_buyer(sender, j) /\ UNCHANGED <<openings, batches>>
    BY <1>10 DEF DoorStep
  <2>2. Gate(sender, call) <=> not_batch(j) /\ has_score(jobs[j].seller)
                                /\ can_reject(jobs[j], sender) /\ is_registered(jobs[j].buyer) /\ has_score(jobs[j].buyer)
    BY <1>10
    DEF Gate, WaveFn, DeliverFn, ReleaseFn, RefundFn, RejectFn, AgentRejectFn
  <2>3. /\ Moved(call.fn, jobs[j]) = Rejected(jobs[j])
        /\ MarksOf(call.fn, jobs[j]) = {}
        /\ ScoresAfter(call.fn, j) = score_after_agent_reject(j)
        /\ ~(call.fn \in WaveFn)
    BY <1>10
    DEF Moved, MarksOf, ScoresAfter, WaveFn, DeliverFn, ReleaseFn, RefundFn, RejectFn, AgentRejectFn
  <2> QED
    BY <1>1, <2>1, <2>2, <2>3 DEF Writes, reject_v2_agent_buyer, reject_settle_pkg, Rejected, Stamp
<1>11. CASE call.fn = "batch::batch_reject_agent_buyer"
  <2>1. DoorStep(sender, call) <=> batch_reject_agent_buyer(sender, call.at.batch, j) /\ UNCHANGED openings
    BY <1>11 DEF DoorStep
  <2>2. Gate(sender, call) <=> from_batch(call.at.batch, j) /\ has_score(jobs[j].seller)
                                /\ can_reject(jobs[j], sender) /\ is_registered(jobs[j].buyer) /\ has_score(jobs[j].buyer)
    BY <1>11
    DEF Gate, WaveFn, DeliverFn, ReleaseFn, RefundFn, RejectFn, AgentRejectFn
  <2>3. /\ Moved(call.fn, jobs[j]) = Rejected(jobs[j])
        /\ MarksOf(call.fn, jobs[j]) = released_mark(jobs[j])
        /\ ScoresAfter(call.fn, j) = score_after_agent_reject(j)
        /\ (call.fn \in WaveFn)
    BY <1>11
    DEF Moved, MarksOf, ScoresAfter, WaveFn, DeliverFn, ReleaseFn, RefundFn, RejectFn, AgentRejectFn
  <2>4. Writes(call) <=>
          /\ jobs' = [jobs EXCEPT ![j] = [Rejected(jobs[j])
                                   EXCEPT !.marks = @ \cup released_mark(jobs[j])]]
          /\ scores' = score_after_agent_reject(j)
          /\ free_wave_hold(call.at.batch, jobs[j])
          /\ UNCHANGED <<now, cfg, registryVars, openings>>
    BY <2>3 DEF Writes
  <2>5. reject_settle_pkg(sender, j, released_mark(jobs[j])) <=>
          /\ can_reject(jobs[j], sender)
          /\ jobs' = [jobs EXCEPT ![j] = [Rejected(jobs[j])
                                   EXCEPT !.marks = @ \cup released_mark(jobs[j])]]
          /\ UNCHANGED <<now, cfg>>
    BY <1>0, <1>1 DEF reject_settle_pkg, Rejected, Stamp
  <2> QED
    BY <2>1, <2>2, <2>4, <2>5 DEF batch_reject_agent_buyer
<1> QED
  BY <1>2, <1>3, <1>4, <1>5, <1>6, <1>7, <1>8, <1>9, <1>10, <1>11
  DEF OfferFn, DeliverFn, ReleaseFn, RefundFn, RejectFn, AgentRejectFn

\* The precursor's gate.
ScoreGate(call) == assert_version /\ cfg.score_board /\ ~has_score(call.at.agent)

CallGate(sender, call) ==
  IF IsPrecursor(call) THEN ScoreGate(call) ELSE Gate(sender, call)

\* What it writes, likewise.
CallWrites(call) ==
  IF IsPrecursor(call)
  THEN /\ scores' = [x \in DOMAIN scores \cup {call.at.agent} |->
                       IF x = call.at.agent THEN EmptyScore ELSE scores[x]]
       /\ UNCHANGED <<escrowVars, registryVars, openings, batches>>
  ELSE Writes(call)

\* A call behind a verb runs exactly when its gate, which reads the state alone,
\* is met, and then writes each variable once, whatever the Job, its marks, its
\* origin and the caller: no stamp it puts is there already, no assert after the
\* gate can fail, so a met gate is a call that would run.
THEOREM CallsAskThenWrite ==
  ASSUME IInv, StampsInv, NEW sender, NEW call,
         IsPrecursor(call) \/ (call.fn \in OfferFn /\ call.at.job \in DOMAIN jobs)
  PROVE  DoorStep(sender, call) <=> CallGate(sender, call) /\ CallWrites(call)
<1>1. CASE IsPrecursor(call)
  <2>1. DoorStep(sender, call) <=>
          create_empty_score(call.at.agent) /\ UNCHANGED <<openings, batches>>
    BY <1>1 DEF DoorStep, IsPrecursor
  <2> QED
    BY <1>1, <2>1 DEF CallGate, CallWrites, ScoreGate, create_empty_score, claim_score
<1>2. CASE call.fn \in OfferFn /\ call.at.job \in DOMAIN jobs
  <2>1. ~IsPrecursor(call)
    BY <1>2 DEF IsPrecursor, OfferFn, DeliverFn, ReleaseFn, RefundFn, RejectFn, AgentRejectFn
  <2>2. jobs[call.at.job].state = FUNDED => "batch_hold_released" \notin jobs[call.at.job].marks
    BY <1>2 DEF StampsInv, StampedInOrder
  <2> QED
    BY <1>2, <2>1, <2>2, DoorIsGateAndWrites DEF CallGate, CallWrites, IInv
<1> QED
  BY <1>1, <1>2
-----------------------------------------------------------------------------
(***************************************************************************)
(* What is offered.                                                        *)
(***************************************************************************)

OfferVerb == {"deliver", "release", "reject", "refund"}

\* What a verb asks of the Job, of the clock and of its sender.
VerbGate(verb, job, sender) ==
  CASE verb = "deliver" -> can_deliver(job, sender)
    [] verb = "release" -> can_release(job, sender)
    [] verb = "reject"  -> can_reject(job, sender)
    [] verb = "refund"  -> can_refund(job)

\* Lands, with the gate of the door for "the door runs".
Passes(verb, sender, j) ==
  \A tx \in prepare(verb, j) :
    CallGate(sender, tx[1]) /\ assertTxMatchesIntent(tx, sender, verb, FALSE)

OffersPassTheGates ==
  \A j \in DOMAIN jobs, a \in Account :
    LET offered == jobActionsFor(getJob(j), a, now) IN
    /\ assert_version /\ cfg.score_board =>
         \A verb \in offered :
           Passes(verb, a, j) /\ Cardinality(MissingScores(verb, j)) < 3
    /\ \A verb \in OfferVerb \ offered :
         MissingScores(verb, j) = {} /\ Passes(verb, a, j) =>
           verb = "release" /\ jobs[j].state = FUNDED /\ a = jobs[j].buyer

\* One call of one of the verb's functions, in the latest package, is signed.
LEMMA OneCallIsSigned ==
  ASSUME NEW fn, NEW at, NEW sender, NEW verb \in OfferVerb, fn \in ACTION_TARGETS(verb)
  PROVE  assertTxMatchesIntent(<<Door(fn, at)>>, sender, verb, FALSE)
<1> DEFINE tx == <<Door(fn, at)>>
<1>1. /\ DOMAIN tx = {1} /\ tx[1] = Door(fn, at)
      /\ Door(fn, at).pkg = LATEST_PACKAGE /\ Door(fn, at).fn = fn
  BY DEF Door, MoveCall
<1> HIDE DEF tx
<1>2. LATEST_PACKAGE \in TargetPackages(verb) /\ verb \in KnownVerb
  BY DEF TargetPackages, OfferVerb, KnownVerb, EscrowVerb, RegistryVerb
<1> QED
  BY <1>1, <1>2 DEF assertTxMatchesIntent, tx

LEMMA VerbFunctions ==
  /\ ACTION_TARGETS("deliver") = EscrowFunctions("deliver")
  /\ ACTION_TARGETS("release") = EscrowFunctions("release")
  /\ ACTION_TARGETS("reject") = EscrowFunctions("reject")
  /\ ACTION_TARGETS("refund") = EscrowFunctions("refund")
  /\ DeliverFn \subseteq EscrowFunctions("deliver")
  /\ ReleaseFn \subseteq EscrowFunctions("release")
  /\ RejectFn \cup AgentRejectFn \subseteq EscrowFunctions("reject")
  /\ RefundFn \subseteq EscrowFunctions("refund")
  /\ \A verb \in OfferVerb : "reputation::create_empty_score" \in EscrowFunctions(verb)
<1>1. {"deliver", "release", "reject", "refund"} \subseteq EscrowVerb
  BY DEF EscrowVerb
<1>2. \A verb \in EscrowVerb : ACTION_TARGETS(verb) = EscrowFunctions(verb)
  BY DEF ACTION_TARGETS, EscrowVerb, BoardVerb, RegistryVerb
<1>3. EscrowFunctions("deliver") = {"escrow::deliver", "reputation::deliver_v2",
                            "reputation::create_empty_score", "batch::deliver_v2"}
  BY DEF EscrowFunctions
<1>4. EscrowFunctions("release") = {"reputation::release_v2", "reputation::create_empty_score",
                            "batch::batch_release"}
  BY DEF EscrowFunctions
<1>5. EscrowFunctions("reject") = {"reputation::reject_v2", "reputation::reject_v2_agent_buyer",
                            "reputation::create_empty_score", "batch::batch_reject",
                            "batch::batch_reject_agent_buyer"}
  BY DEF EscrowFunctions
<1>6. EscrowFunctions("refund") = {"reputation::refund_v2", "reputation::create_empty_score",
                            "batch::batch_refund"}
  BY DEF EscrowFunctions
<1>7. /\ DeliverFn \subseteq EscrowFunctions("deliver")
      /\ ReleaseFn \subseteq EscrowFunctions("release")
      /\ RejectFn \cup AgentRejectFn \subseteq EscrowFunctions("reject")
      /\ RefundFn \subseteq EscrowFunctions("refund")
  BY <1>3, <1>4, <1>5, <1>6 DEF DeliverFn, ReleaseFn, RejectFn, AgentRejectFn, RefundFn
<1>8. \A verb \in OfferVerb : "reputation::create_empty_score" \in EscrowFunctions(verb)
  BY <1>3, <1>4, <1>5, <1>6 DEF OfferVerb
<1> QED
  BY <1>1, <1>2, <1>7, <1>8

LEMMA ScoresAtHand ==
  ASSUME NEW j, NEW verb, MissingScores(verb, j) = {}
  PROVE  /\ has_score(jobs[j].seller)
         /\ verb = "reject" /\ is_registered(jobs[j].buyer) => has_score(jobs[j].buyer)
BY DEF MissingScores

\* The verb's own door is the one of the Job's origin and of a registered buyer,
\* and asks for what the verb asks for.
LEMMA TheRightDoor ==
  ASSUME NEW j \in DOMAIN jobs, NEW verb \in OfferVerb, NEW sender, MissingScores(verb, j) = {}
  PROVE  \E fn \in OfferFn \cap ACTION_TARGETS(verb) :
           LET call == JobDoor(fn, j, jobs[j].batch_origin) IN
           /\ prepare(verb, j) = {<<call>>}
           /\ Gate(sender, call) <=> VerbGate(verb, jobs[j], sender)
<1> DEFINE origin == jobs[j].batch_origin
           agent  == is_registered(jobs[j].buyer)
           wave   == origin # NoBatch
           fn     == CASE verb = "deliver" -> IF wave THEN "batch::deliver_v2" ELSE "reputation::deliver_v2"
                       [] verb = "release" -> IF wave THEN "batch::batch_release" ELSE "reputation::release_v2"
                       [] verb = "refund"  -> IF wave THEN "batch::batch_refund" ELSE "reputation::refund_v2"
                       [] verb = "reject"  ->
                            IF agent THEN IF wave THEN "batch::batch_reject_agent_buyer"
                                                  ELSE "reputation::reject_v2_agent_buyer"
                                     ELSE IF wave THEN "batch::batch_reject"
                                                  ELSE "reputation::reject_v2"
           call   == JobDoor(fn, j, origin)
<1>1. call.fn = fn /\ call.at.job = j /\ call.at.batch = origin
  BY DEF JobDoor, Door, MoveCall
<1>2. prepare(verb, j) = {<<call>>}
  <2>1. prepare(verb, j) = {<< CASE verb = "deliver" -> buildDeliverJobTx(j, origin)
                 [] verb = "release" -> addReleaseJobToTx(j, origin)
                 [] verb = "refund"  -> addRefundJobToTx(j, origin)
                 [] verb = "decline" -> buildDeclineJobTx(j)
                 [] verb = "reject"  -> buildRejectJobTx(j, origin, agent) >>}
    BY DEF prepare, getJobBatchOrigin
  <2>2. CASE verb = "deliver"
    BY <2>1, <2>2 DEF buildDeliverJobTx
  <2>3. CASE verb = "release"
    BY <2>1, <2>3 DEF addReleaseJobToTx
  <2>4. CASE verb = "refund"
    BY <2>1, <2>4 DEF addRefundJobToTx
  <2>5. CASE verb = "reject"
    <3>1. buildRejectJobTx(j, origin, agent) = call
      <4> HIDE DEF agent
      <4>1. agent \in BOOLEAN
        BY DEF agent, is_registered
      <4> QED
        BY <2>5, <4>1 DEF buildRejectJobTx
    <3> QED
      BY <2>1, <2>5, <3>1
  <2> QED
    BY <2>2, <2>3, <2>4, <2>5 DEF OfferVerb
<1>3. fn \in OfferFn \cap ACTION_TARGETS(verb)
  <2>1. /\ verb = "deliver" => fn \in DeliverFn
        /\ verb = "release" => fn \in ReleaseFn
        /\ verb = "refund" => fn \in RefundFn
        /\ verb = "reject" => fn \in RejectFn \cup AgentRejectFn
    BY DEF DeliverFn, ReleaseFn, RefundFn, RejectFn, AgentRejectFn
  <2> HIDE DEF fn
  <2> QED
    BY <2>1, VerbFunctions DEF OfferVerb, OfferFn
<1>4. Gate(sender, call) <=> VerbGate(verb, jobs[j], sender)
  <2>1. has_score(jobs[j].seller) /\ (verb = "reject" /\ agent => has_score(jobs[j].buyer))
    BY ScoresAtHand
  <2>2. IF fn \in WaveFn THEN from_batch(origin, j) ELSE not_batch(j)
    BY DEF WaveFn, from_batch, not_batch, OfferVerb
  <2>3. Gate(sender, call) <=>
          \/ fn \in DeliverFn /\ can_deliver(jobs[j], sender)
          \/ fn \in ReleaseFn /\ can_release(jobs[j], sender)
          \/ fn \in RefundFn  /\ can_refund(jobs[j])
          \/ fn \in RejectFn  /\ can_reject(jobs[j], sender) /\ ~agent
          \/ fn \in AgentRejectFn /\ can_reject(jobs[j], sender)
               /\ agent /\ has_score(jobs[j].buyer)
    <3> HIDE DEF fn, call, agent, origin
    <3> QED
      BY <1>1, <2>1, <2>2 DEF Gate, agent
  <2> HIDE DEF call, agent
  <2>4. CASE verb = "deliver"
    BY <2>3, <2>4 DEF VerbGate, DeliverFn, ReleaseFn, RefundFn, RejectFn, AgentRejectFn
  <2>5. CASE verb = "release"
    BY <2>3, <2>5 DEF VerbGate, DeliverFn, ReleaseFn, RefundFn, RejectFn, AgentRejectFn
  <2>6. CASE verb = "refund"
    BY <2>3, <2>6 DEF VerbGate, DeliverFn, ReleaseFn, RefundFn, RejectFn, AgentRejectFn
  <2>7. CASE verb = "reject"
    BY <2>1, <2>3, <2>7 DEF VerbGate, DeliverFn, ReleaseFn, RefundFn, RejectFn, AgentRejectFn
  <2> QED
    BY <2>4, <2>5, <2>6, <2>7 DEF OfferVerb
<1> QED
  BY <1>2, <1>3, <1>4

\* A verb is offered exactly when the Job, the clock and the caller allow it, but
\* for the buyer's goodwill release.
LEMMA OfferedAsAllowed ==
  ASSUME IInv, NEW j \in DOMAIN jobs, NEW a, NEW verb \in OfferVerb, assert_version
  PROVE  verb \in jobActionsFor(getJob(j), a, now) <=>
           /\ VerbGate(verb, jobs[j], a)
           /\ ~(verb = "release" /\ jobs[j].state = FUNDED)
<1> DEFINE job == jobs[j]
           dto == getJob(j)
<1>1. /\ dto.buyer = job.buyer /\ dto.seller = job.seller /\ dto.state = job.state
      /\ dto.deliverByMs = job.deliver_by_ms /\ dto.reviewWindowMs = job.review_window_ms
      /\ dto.deliveredAtMs = job.delivered_at_ms
  BY DEF getJob
<1>2. job \in Job /\ TermsLegal(job) /\ now \in Nat
  BY EscrowAssumption DEF IInv, JobsInv, JobInv
<1> HIDE DEF job, dto
<1>3. /\ job.deliver_by_ms \in Nat /\ job.review_window_ms \in Nat /\ job.delivered_at_ms \in Nat
      /\ job.state \in JobState
  BY <1>2 DEF Job
<1>4. FitsU64(job.delivered_at_ms, job.review_window_ms)
  BY <1>2, <1>3, EscrowAssumption, ClockAssumption DEF TermsLegal, FitsU64
<1>5. WindowCloses(dto) = window_end(job) /\ window_end(job) \in Nat
  BY <1>1, <1>3 DEF WindowCloses, window_end
<1>6. CASE job.state = FUNDED
  <2>1. jobActionsFor(dto, a, now) =
          {v \in {"deliver"} : a = job.seller /\ now <= job.deliver_by_ms}
           \cup {v \in {"refund"} : now > job.deliver_by_ms}
    BY <1>1, <1>6 DEF jobActionsFor, Live, FUNDED, DELIVERED
  <2>2. job.state # DELIVERED
    BY <1>6 DEF FUNDED, DELIVERED
  <2> QED
    BY <1>6, <2>1, <2>2, <1>2, <1>3
    DEF VerbGate, can_deliver, can_release, can_reject, can_refund, past_deadline, OfferVerb, job, dto
<1>7. CASE job.state = DELIVERED
  <2>0. jobActionsFor(dto, a, now) =
          {v \in {"release", "reject"} : a = job.buyer /\ now <= WindowCloses(dto)}
           \cup {v \in {"release"} : now > WindowCloses(dto)}
    BY <1>1, <1>7 DEF jobActionsFor, Live, FUNDED, DELIVERED
  <2>1. jobActionsFor(dto, a, now) =
          {v \in {"release", "reject"} : a = job.buyer /\ now <= window_end(job)}
           \cup {v \in {"release"} : now > window_end(job)}
    BY <1>5, <2>0
  <2>2. job.state # FUNDED
    BY <1>7 DEF FUNDED, DELIVERED
  <2>3. window_lapsed(job) <=> now > window_end(job)
    BY <1>4 DEF window_lapsed
  <2>4. in_window(job) <=> now <= window_end(job)
    BY <1>4 DEF in_window
  <2>5. now <= window_end(job) \/ now > window_end(job)
    BY <1>2, <1>5
  <2> QED
    BY <1>7, <2>1, <2>2, <2>3, <2>4, <2>5, <1>4
    DEF VerbGate, can_deliver, can_release, can_reject, can_refund, OfferVerb, job, dto
<1>8. CASE job.state \notin Live
  <2>1. jobActionsFor(dto, a, now) = {}
    BY <1>1, <1>8 DEF jobActionsFor, Live
  <2>2. job.state # FUNDED /\ job.state # DELIVERED
    BY <1>8 DEF Live
  <2> QED
    BY <2>1, <2>2 DEF VerbGate, can_deliver, can_release, can_reject, can_refund, OfferVerb, job, dto
<1> QED
  BY <1>6, <1>7, <1>8 DEF Live

\* A seller and a buyer are at most two.
LEMMA TwoAtMost ==
  ASSUME NEW x, NEW y
  PROVE  IsFiniteSet({x, y}) /\ Cardinality({x, y}) <= 2
<1>1. IsFiniteSet({x}) /\ Cardinality({x}) = 1
  BY FS_Singleton
<1>2. IsFiniteSet({x} \cup {y}) /\ Cardinality({x} \cup {y}) = IF y \in {x} THEN 1 ELSE 2
  BY <1>1, FS_AddElement
<1>3. {x, y} = {x} \cup {y}
  OBVIOUS
<1> QED
  BY <1>2, <1>3

\* Every verb offered passes, and only those.
LEMMA OffersPass == IInv => OffersPassTheGates
<1> SUFFICES ASSUME IInv, NEW j \in DOMAIN jobs, NEW a \in Account
             PROVE  LET offered == jobActionsFor(getJob(j), a, now) IN
    /\ assert_version /\ cfg.score_board =>
         \A verb \in offered :
           Passes(verb, a, j) /\ Cardinality(MissingScores(verb, j)) < 3
    /\ \A verb \in OfferVerb \ offered :
         MissingScores(verb, j) = {} /\ Passes(verb, a, j) =>
           verb = "release" /\ jobs[j].state = FUNDED /\ a = jobs[j].buyer
  BY DEF OffersPassTheGates
<1> DEFINE offered == jobActionsFor(getJob(j), a, now)
<1>1. offered \subseteq OfferVerb
  BY DEF jobActionsFor, OfferVerb, getJob, JobsInv, Live
<1>2. \A verb : Cardinality(MissingScores(verb, j)) < 3
  <2> TAKE verb
  <2> DEFINE two == {jobs[j].seller, jobs[j].buyer}
  <2>1. MissingScores(verb, j) \subseteq two
    BY DEF MissingScores
  <2>2. IsFiniteSet(two) /\ Cardinality(two) <= 2
    BY TwoAtMost
  <2> HIDE DEF two
  <2>3. Cardinality(MissingScores(verb, j)) <= Cardinality(two)
        /\ Cardinality(MissingScores(verb, j)) \in Nat /\ Cardinality(two) \in Nat
    BY <2>1, <2>2, FS_Subset, FS_CardinalityType
  <2> QED
    BY <2>2, <2>3
<1>3. ASSUME assert_version, cfg.score_board, NEW verb \in offered
      PROVE  Passes(verb, a, j)
  <2>0. verb \in OfferVerb
    BY <1>1
  <2>1. CASE MissingScores(verb, j) = {}
    <3>1. PICK fn \in OfferFn \cap ACTION_TARGETS(verb) :
             LET call == JobDoor(fn, j, jobs[j].batch_origin) IN
             /\ prepare(verb, j) = {<<call>>}
             /\ Gate(a, call) <=> VerbGate(verb, jobs[j], a)
      BY <2>0, <2>1, TheRightDoor
    <3> DEFINE call == JobDoor(fn, j, jobs[j].batch_origin)
    <3>2. assertTxMatchesIntent(<<call>>, a, verb, FALSE)
      BY <2>0, <3>1, OneCallIsSigned DEF JobDoor
    <3>3. call.fn \in OfferFn
      BY <3>1 DEF JobDoor, Door, MoveCall
    <3>4. ~IsPrecursor(call)
      BY <3>3 DEF IsPrecursor, OfferFn, DeliverFn, ReleaseFn, RefundFn, RejectFn, AgentRejectFn
    <3>5. Gate(a, call)
      BY <1>3, <2>0, <3>1, OfferedAsAllowed
    <3> HIDE DEF call
    <3>6. prepare(verb, j) = {<<call>>}
      BY <3>1 DEF call
    <3>7. \A tx \in prepare(verb, j) : tx = <<call>> /\ tx[1] = call
      BY <3>6
    <3> QED
      BY <3>2, <3>4, <3>5, <3>7 DEF Passes, CallGate
  <2>2. CASE MissingScores(verb, j) # {}
    <3>1. prepare(verb, j) = {<<buildCreateEmptyScoreTx(x)>> : x \in MissingScores(verb, j)}
      BY <2>2 DEF prepare
    <3>2. ASSUME NEW x \in MissingScores(verb, j)
          PROVE  /\ CallGate(a, buildCreateEmptyScoreTx(x))
                 /\ assertTxMatchesIntent(<<buildCreateEmptyScoreTx(x)>>, a, verb, FALSE)
      <4>1. CallGate(a, buildCreateEmptyScoreTx(x))
        BY <1>3 DEF CallGate, IsPrecursor, ScoreGate, buildCreateEmptyScoreTx, Door, MoveCall, MissingScores
      <4>2. "reputation::create_empty_score" \in ACTION_TARGETS(verb)
        BY <2>0, VerbFunctions DEF OfferVerb
      <4> QED
        BY <2>0, <4>1, <4>2, OneCallIsSigned DEF buildCreateEmptyScoreTx
    <3> QED
      <4>1. \A tx \in prepare(verb, j) : \E x \in MissingScores(verb, j) : tx = <<buildCreateEmptyScoreTx(x)>>
        BY <3>1
      <4>2. \A tx \in prepare(verb, j) : CallGate(a, tx[1]) /\ assertTxMatchesIntent(tx, a, verb, FALSE)
        <5> SUFFICES ASSUME NEW tx \in prepare(verb, j)
                     PROVE  CallGate(a, tx[1]) /\ assertTxMatchesIntent(tx, a, verb, FALSE)
          OBVIOUS
        <5>1. PICK x \in MissingScores(verb, j) : tx = <<buildCreateEmptyScoreTx(x)>>
          BY <4>1
        <5>2. tx[1] = buildCreateEmptyScoreTx(x)
          BY <5>1
        <5> QED
          BY <3>2, <5>1, <5>2
      <4> QED
        BY <4>2 DEF Passes
  <2> QED
    BY <2>1, <2>2
<1>4. ASSUME NEW verb \in OfferVerb \ offered, MissingScores(verb, j) = {}, Passes(verb, a, j)
      PROVE  verb = "release" /\ jobs[j].state = FUNDED /\ a = jobs[j].buyer
  <2>1. PICK fn \in OfferFn \cap ACTION_TARGETS(verb) :
             LET call == JobDoor(fn, j, jobs[j].batch_origin) IN
             /\ prepare(verb, j) = {<<call>>}
             /\ Gate(a, call) <=> VerbGate(verb, jobs[j], a)
    BY <1>4, TheRightDoor
  <2> DEFINE call == JobDoor(fn, j, jobs[j].batch_origin)
  <2>2. call.fn \in OfferFn
    BY <2>1 DEF JobDoor, Door, MoveCall
  <2>3. ~IsPrecursor(call)
    BY <2>2 DEF IsPrecursor, OfferFn, DeliverFn, ReleaseFn, RefundFn, RejectFn, AgentRejectFn
  <2>4. VerbGate(verb, jobs[j], a)
    <3>1. CallGate(a, <<call>>[1])
      BY <1>4, <2>1 DEF Passes
    <3> QED
      BY <2>1, <2>3, <3>1 DEF CallGate
  <2>5. assert_version
    BY <2>4 DEF VerbGate, can_deliver, can_release, can_reject, can_refund, OfferVerb
  <2>6. verb = "release" /\ jobs[j].state = FUNDED
    BY <1>4, <2>4, <2>5, OfferedAsAllowed
  <2> QED
    BY <2>4, <2>6 DEF VerbGate, can_release, FUNDED, DELIVERED
<1> QED
  BY <1>2, <1>3, <1>4

\* What the client offers to do with a Job is what the chain would do: every verb
\* offered leads, after at most two precursors, to the right door for the Job's
\* origin and a registered buyer, whose gate is met and whose call the guard signs;
\* no other verb meets its gate, but for the buyer's goodwill release.
THEOREM OffersMeetTheDoors == MarketSpec => []OffersPassTheGates
<1>1. MarketInv => OffersPassTheGates
  BY OffersPass DEF MarketInv
<1> QED
  BY <1>1, MarketInductive, PTL

\* A verb's call in a step, when the verb is not offered.
OnlyOfferedRuns ==
  \A j \in DOMAIN jobs, a \in Account, verb \in OfferVerb :
    /\ MissingScores(verb, j) = {}
    /\ \E tx \in prepare(verb, j) : DoorStep(a, tx[1])
    => \/ verb \in jobActionsFor(getJob(j), a, now)
       \/ verb = "release" /\ jobs[j].state = FUNDED /\ a = jobs[j].buyer

\* The call built for a verb that is not offered never runs: no step of the
\* marketplace is one, but for the buyer's goodwill release.
THEOREM OnlyWhatIsOfferedRuns == MarketSpec => [][OnlyOfferedRuns]_marketVars
<1>1. ASSUME IInv, StampsInv PROVE OnlyOfferedRuns
  <2> SUFFICES ASSUME NEW j \in DOMAIN jobs, NEW a \in Account, NEW verb \in OfferVerb,
                      MissingScores(verb, j) = {},
                      NEW tx \in prepare(verb, j), DoorStep(a, tx[1])
               PROVE  \/ verb \in jobActionsFor(getJob(j), a, now)
                      \/ verb = "release" /\ jobs[j].state = FUNDED /\ a = jobs[j].buyer
    BY DEF OnlyOfferedRuns
  <2>1. PICK fn \in OfferFn \cap ACTION_TARGETS(verb) :
          LET call == JobDoor(fn, j, jobs[j].batch_origin) IN
          /\ prepare(verb, j) = {<<call>>}
          /\ Gate(a, call) <=> VerbGate(verb, jobs[j], a)
    BY TheRightDoor
  <2> DEFINE call == JobDoor(fn, j, jobs[j].batch_origin)
  <2>2. call.fn \in OfferFn /\ call.at.job = j
    BY <2>1 DEF JobDoor, Door, MoveCall
  <2>3. ~IsPrecursor(call)
    BY <2>2 DEF IsPrecursor, OfferFn, DeliverFn, ReleaseFn, RefundFn, RejectFn, AgentRejectFn
  <2>4. tx[1] = call
    BY <2>1
  <2>5. Gate(a, call) <=> VerbGate(verb, jobs[j], a)
    BY <2>1
  <2> HIDE DEF call
  <2>6. CallGate(a, call)
    BY <1>1, <2>2, <2>4, CallsAskThenWrite
  <2>7. VerbGate(verb, jobs[j], a)
    BY <2>3, <2>5, <2>6 DEF CallGate
  <2>8. assert_version
    BY <2>7 DEF VerbGate, can_deliver, can_release, can_reject, can_refund, OfferVerb
  <2>9. verb = "release" /\ jobs[j].state = FUNDED => a = jobs[j].buyer
    BY <2>7 DEF VerbGate, can_release, FUNDED, DELIVERED
  <2> QED
    BY <1>1, <2>7, <2>8, <2>9, OfferedAsAllowed
<1>2. MarketInv => IInv
  BY DEF MarketInv
<1> QED
  BY <1>1, <1>2, MarketInductive, StampsKeepOrder, PTL DEF MarketSpec
-----------------------------------------------------------------------------
(***************************************************************************)
(* The preflight of a claim.                                               *)
(***************************************************************************)

\* Every wave carries the brand of the semantics its holds are counted by.
WavesBranded == \A b \in DOMAIN batches : batches[b].active_claims = TRUE

LEMMA BrandsStay ==
  ASSUME BatchesInv, WavesBranded, [MarketNext]_marketVars
  PROVE  WavesBranded'
<1>0. \A b \in DOMAIN batches : batches[b] \in PostedBatch
  BY DEF BatchesInv
<1>1. CASE UNCHANGED batches
  BY <1>1 DEF WavesBranded
<1>2. CASE PostBatch
  <2>1. PICK b : \E batch : /\ batch.active_claims = TRUE
                            /\ batches' = [p \in DOMAIN batches \cup {b} |->
                                             IF p = b THEN batch ELSE batches[p]]
    <3>1. PICK buyer \in Poster, b \in BatchId, payment \in Payment, slots \in SlotsTotal,
               d \in OpenWindow, sla, w \in Duration, l \in MinLevel, m \in MaxClaims :
                 create_batch_open(buyer, b, payment, slots, now + d, sla, w, l, m)
      BY <1>2 DEF PostBatch
    <3> DEFINE batch ==
         [buyer |-> buyer, escrow |-> payment, amount |-> payment \div slots,
          slots_total |-> slots, slots_remaining |-> slots, fee_bps |-> cfg.fee_bps,
          open_until_ms |-> now + d, sla_ms |-> sla, review_window_ms |-> w,
          reject_split_bps |-> BPS_DENOMINATOR,
          claim_policy |-> CLAIM_POLICY_ANY_ACTIVE, min_seller_level |-> l,
          max_claims_per_agent |-> m,
          claims_by_agent |-> [a \in Account |-> 0], active_claims |-> TRUE,
          returned |-> 0]
    <3>2. batch.active_claims = TRUE
      OBVIOUS
    <3>3. batches' = [p \in DOMAIN batches \cup {b} |-> IF p = b THEN batch ELSE batches[p]]
      BY <3>1 DEF create_batch_open
    <3> HIDE DEF batch
    <3> QED
      BY <3>2, <3>3
  <2> QED
    BY <2>1 DEF WavesBranded
<1>3. ASSUME NEW b \in DOMAIN batches, NEW batch, batch.active_claims = batches[b].active_claims,
             batches' = [batches EXCEPT ![b] = batch]
      PROVE  WavesBranded'
  BY <1>3 DEF WavesBranded
<1>4. CASE ClaimSlot
  <2>1. PICK a \in Account, b \in DOMAIN batches, j \in JobId : batch_claim(a, b, j)
    BY <1>4 DEF ClaimSlot
  <2> DEFINE batch == [batches[b] EXCEPT !.escrow = @ - batches[b].amount,
                                !.slots_remaining = @ - 1, !.claims_by_agent[a] = @ + 1]
  <2>2. batches' = [batches EXCEPT ![b] = batch]
    BY <2>1 DEF batch_claim
  <2>3. batch.active_claims = batches[b].active_claims
    BY <1>0 DEF PostedBatch
  <2> HIDE DEF batch
  <2> QED
    BY <1>3, <2>2, <2>3
<1>5. ASSUME NEW b \in DOMAIN batches, NEW job, free_wave_hold(b, job)
      PROVE  WavesBranded'
  <2> DEFINE batch == [batches[b] EXCEPT !.claims_by_agent[job.seller] =
                         IF hold_released(job) THEN @ ELSE IF @ > 0 THEN @ - 1 ELSE 0]
  <2>2. batches' = [batches EXCEPT ![b] = batch]
    BY <1>5 DEF free_wave_hold
  <2>3. batch.active_claims = batches[b].active_claims
    BY <1>0 DEF PostedBatch
  <2> HIDE DEF batch
  <2> QED
    BY <1>3, <2>2, <2>3
<1>6. CASE BatchDoors
  <2>1. PICK b \in DOMAIN batches, j \in DOMAIN jobs : free_wave_hold(b, jobs[j])
    BY <1>6 DEF BatchDoors, batch_refund, batch_release, batch_reject,
       batch_reject_agent_buyer, batch_deliver_v2
  <2> QED
    BY <1>5, <2>1
<1>7. CASE ReturnSlots
  <2>1. PICK b \in DOMAIN batches : drain_remainder(b)
    BY <1>7 DEF ReturnSlots, cancel_batch_open, refund_batch_expired
  <2> DEFINE batch == [batches[b] EXCEPT !.slots_remaining = 0, !.escrow = 0,
                                !.returned = @ + batches[b].escrow]
  <2>2. batches' = [batches EXCEPT ![b] = batch]
    BY <2>1 DEF drain_remainder
  <2>3. batch.active_claims = batches[b].active_claims
    BY <1>0 DEF PostedBatch
  <2> HIDE DEF batch
  <2> QED
    BY <1>3, <2>2, <2>3
<1> QED
  BY <1>1, <1>2, <1>4, <1>6, <1>7 DEF MarketNext, BatchNext, marketVars

\* What the claim of Opening o into Job j writes: each variable once.
ClaimWrites(a, o, j) ==
  LET op == openings[o] IN
  /\ share(j, NewJob(op.buyer, a, op.escrow, op.fee_bps, now + op.sla_ms,
                     op.review_window_ms, op.reject_split_bps, TRUE, NoBatch))
  /\ take_seat(a)
  /\ openings' = [openings EXCEPT ![o].state = CLAIMED, ![o].escrow = 0, ![o].job = j]
  /\ UNCHANGED <<now, cfg, registryVars>>

\* What it asks for: a predicate of the state alone.
ClaimGate(a, o) ==
  LET op == openings[o] IN
  /\ is_open(o)
  /\ op.claim_policy = CLAIM_POLICY_ANY_ACTIVE
  /\ may_claim(a, op.buyer, op.open_until_ms, op.min_seller_level)

LEMMA ClaimIsGateAndWrites ==
  ASSUME MarketInv, NEW a, NEW o \in DOMAIN openings, NEW j
  PROVE  claim_v2(a, o, j) <=>
           ClaimGate(a, o) /\ j \in JobId \ DOMAIN jobs /\ ClaimWrites(a, o, j)
<1> DEFINE op == openings[o]
<1>1. op \in PostedOpening /\ (is_open(o) => op.escrow = op.amount)
  BY DEF MarketInv, PostsInv, OpeningsInv, OpeningFundsGoOnce, is_open
<1>2. now \in Nat /\ now <= MaxNow
  BY EscrowAssumption DEF MarketInv, IInv
<1>3. TermsInRange(now + op.sla_ms, op.review_window_ms, op.reject_split_bps)
  BY <1>1, <1>2, EscrowAssumption, ClockAssumption, BpsAssumption
  DEF PostedOpening, TermsInRange, FitsU64
<1>4. (is_open(o) => op.escrow > 0) /\ op.fee_bps <= MAX_FEE_BPS
  BY <1>1, EscrowAssumption DEF PostedOpening
<1> HIDE DEF op
<1>5. may_claim(a, op.buyer, op.open_until_ms, op.min_seller_level) => assert_version /\ op.buyer # a
  BY DEF may_claim
<1>6. create_claimed(op.buyer, a, j, op.escrow, op.fee_bps, now + op.sla_ms,
                    op.review_window_ms, op.reject_split_bps, NoBatch) <=>
        /\ j \in JobId \ DOMAIN jobs
        /\ assert_version /\ op.buyer # a /\ op.escrow > 0
        /\ share(j, NewJob(op.buyer, a, op.escrow, op.fee_bps, now + op.sla_ms,
                     op.review_window_ms, op.reject_split_bps, TRUE, NoBatch))
        /\ UNCHANGED <<now, cfg>>
  BY <1>3, <1>4 DEF create_claimed
<1> QED
  BY <1>4, <1>5, <1>6 DEF claim_v2, do_claim, ClaimGate, ClaimWrites, op

SlotWrites(a, b, j) ==
  LET batch == batches[b] IN
  /\ share(j, NewJob(batch.buyer, a, batch.amount, batch.fee_bps, now + batch.sla_ms,
                     batch.review_window_ms, batch.reject_split_bps, TRUE, b))
  /\ take_seat(a)
  /\ batches' = [batches EXCEPT ![b].escrow = @ - batch.amount,
                                ![b].slots_remaining = @ - 1,
                                ![b].claims_by_agent[a] = @ + 1]
  /\ UNCHANGED <<now, cfg, registryVars>>

LEMMA SlotClaimIsGateAndWrites ==
  ASSUME MarketInv, WaveInv, WaveFundsAccountedFor,
         NEW a, NEW b \in DOMAIN batches, NEW j
  PROVE  batch_claim(a, b, j) <=>
           may_claim_slot(a, batches[b]) /\ j \in JobId \ DOMAIN jobs /\ SlotWrites(a, b, j)
<1> DEFINE batch == batches[b]
           after == [batch EXCEPT !.escrow = @ - batch.amount,
                                !.slots_remaining = @ - 1,
                                !.claims_by_agent[a] = @ + 1]
<1>1. batch \in PostedBatch
  BY DEF MarketInv, PostsInv, BatchesInv
<1>2. now \in Nat /\ now <= MaxNow
  BY EscrowAssumption DEF MarketInv, IInv
<1>3. TermsInRange(now + batch.sla_ms, batch.review_window_ms, batch.reject_split_bps)
  BY <1>1, <1>2, EscrowAssumption, ClockAssumption, BpsAssumption
  DEF PostedBatch, TermsInRange, FitsU64
<1>4. batch.amount > 0 /\ batch.fee_bps <= MAX_FEE_BPS
  BY <1>1, EscrowAssumption DEF PostedBatch
<1>5. FundsAdd(batch, Cardinality(JobsOf(b))) /\ Cardinality(JobsOf(b)) \in Nat
  BY FundsOfWave, JobsOfAreFinite DEF WaveInv
<1>6. batch.slots_remaining > 0 => batch.escrow >= batch.amount /\ assert_invariant(after)
  <2>1. /\ after.amount = batch.amount /\ after.slots_total = batch.slots_total
        /\ after.returned = batch.returned /\ after.escrow = batch.escrow - batch.amount
        /\ after.slots_remaining = batch.slots_remaining - 1
    BY <1>1 DEF PostedBatch
  <2> HIDE DEF batch, after
  <2> QED
    BY <1>1, <1>5, <2>1, AssertNeverFires DEF FundsAdd
<1>7. batches' = [batches EXCEPT ![b].escrow = @ - batch.amount,
                                ![b].slots_remaining = @ - 1,
                                ![b].claims_by_agent[a] = @ + 1] => batches'[b] = after
  OBVIOUS
<1> HIDE DEF after
<1>8. batch_claim(a, b, j) <=>
        /\ may_claim_slot(a, batch)
        /\ batch.escrow >= batch.amount
        /\ create_claimed(batch.buyer, a, j, batch.amount, batch.fee_bps,
                    now + batch.sla_ms, batch.review_window_ms,
                    batch.reject_split_bps, b)
        /\ take_seat(a)
        /\ batches' = [batches EXCEPT ![b].escrow = @ - batch.amount,
                                ![b].slots_remaining = @ - 1,
                                ![b].claims_by_agent[a] = @ + 1]
        /\ assert_invariant(batches'[b])
        /\ UNCHANGED registryVars
  BY DEF batch_claim
<1>9. SlotWrites(a, b, j) <=>
        /\ share(j, NewJob(batch.buyer, a, batch.amount, batch.fee_bps, now + batch.sla_ms,
                           batch.review_window_ms, batch.reject_split_bps, TRUE, b))
        /\ take_seat(a)
        /\ batches' = [batches EXCEPT ![b].escrow = @ - batch.amount,
                                ![b].slots_remaining = @ - 1,
                                ![b].claims_by_agent[a] = @ + 1]
        /\ UNCHANGED <<now, cfg, registryVars>>
  BY DEF SlotWrites
<1> DEFINE Written == batches' = [batches EXCEPT ![b].escrow = @ - batch.amount,
                                ![b].slots_remaining = @ - 1,
                                ![b].claims_by_agent[a] = @ + 1]
<1>10. Written => batches'[b] = after
  BY <1>7
<1> HIDE DEF batch, Written
<1>11. may_claim_slot(a, batch) =>
         batch.slots_remaining > 0 /\ assert_version /\ batch.buyer # a
  BY DEF may_claim_slot, may_claim
<1>12. create_claimed(batch.buyer, a, j, batch.amount, batch.fee_bps, now + batch.sla_ms,
                    batch.review_window_ms, batch.reject_split_bps, b) <=>
        /\ j \in JobId \ DOMAIN jobs
        /\ assert_version /\ batch.buyer # a
        /\ share(j, NewJob(batch.buyer, a, batch.amount, batch.fee_bps, now + batch.sla_ms,
                     batch.review_window_ms, batch.reject_split_bps, TRUE, b))
        /\ UNCHANGED <<now, cfg>>
  BY <1>3, <1>4 DEF create_claimed
<1>13. may_claim_slot(a, batches[b]) <=> may_claim_slot(a, batch)
  BY DEF batch
<1> QED
  BY <1>6, <1>8, <1>9, <1>10, <1>11, <1>12, <1>13 DEF Written

\* A claim runs exactly when its gate is met and an id is left for its Job, and
\* then writes each variable once: the asserts of the mint and of the wave's books
\* never fail a claim that passed the gate, whatever the administrator has changed
\* since the post.
THEOREM ClaimsAskThenWrite ==
  ASSUME MarketInv, WaveInv, WaveFundsAccountedFor, NEW a
  PROVE  /\ \A o \in DOMAIN openings : \A j :
              claim_v2(a, o, j) <=>
                ClaimGate(a, o) /\ j \in JobId \ DOMAIN jobs /\ ClaimWrites(a, o, j)
         /\ \A b \in DOMAIN batches : \A j :
              batch_claim(a, b, j) <=>
                may_claim_slot(a, batches[b]) /\ j \in JobId \ DOMAIN jobs /\ SlotWrites(a, b, j)
BY ClaimIsGateAndWrites, SlotClaimIsGateAndWrites
-----------------------------------------------------------------------------
\* The client's levels are the chain's while its defaults are the live values.
LEMMA LevelsAgree ==
  ASSUME IInv, DefaultsAreLive, AVG_SCALE = 10, NEW a \in DOMAIN scores, Counts(scores[a])
  PROVE  /\ activeCapForLevel(effectiveSellerLevel(scores[a])) = active_cap(a)
         /\ \A min_level \in Nat : meetsMinSellerLevel(scores[a], min_level)
                                     <=> meets_min_seller_level(a, min_level)
<1> DEFINE score == scores[a]
<1>1. score.review_count \in Nat /\ score.no_delivery \in Nat
  BY DEF Counts
<1>2. LEVEL4_MIN_REVIEWS \in Nat /\ LEVEL4_MAX_NO_DELIVERY \in Nat
  BY ReputationAssumption
<1> HIDE DEF score
<1>3. sellerLevel(score) = seller_level(score) /\ seller_level(score) \in Level
  <2>0. meets_min_avg(score) <=>
          /\ score.distinct_buyers >= PROVEN_MIN_REVIEWS
          /\ score.stars_sum * 10 >= score.review_count * PROVEN_MIN_AVG_STARS_X10
    BY DEF meets_min_avg, meets_proven
  <2>1. CASE meets_min_avg(score) /\ score.review_count >= LEVEL4_MIN_REVIEWS
             /\ score.no_delivery <= LEVEL4_MAX_NO_DELIVERY
    <3>1. meets_proven(score)
      BY <2>0, <2>1 DEF meets_proven
    <3>2. seller_level(score) = 4
      BY <1>1, <1>2, <2>1, <3>1 DEF seller_level
    <3>3. sellerLevel(score) = 4
      BY <2>0, <2>1 DEF sellerLevel
    <3> QED
      BY <3>2, <3>3 DEF Level
  <2>2. CASE meets_min_avg(score) /\ (\/ score.review_count < LEVEL4_MIN_REVIEWS
                                      \/ score.no_delivery > LEVEL4_MAX_NO_DELIVERY)
    <3>1. meets_proven(score)
      BY <2>0, <2>2 DEF meets_proven
    <3>2. ~(score.review_count >= LEVEL4_MIN_REVIEWS /\ score.no_delivery <= LEVEL4_MAX_NO_DELIVERY)
      BY <1>1, <1>2, <2>2
    <3>3. seller_level(score) = 3
      BY <2>2, <3>1, <3>2 DEF seller_level
    <3>4. sellerLevel(score) = 3
      BY <2>0, <2>2, <3>2 DEF sellerLevel
    <3> QED
      BY <3>3, <3>4 DEF Level
  <2>3. CASE meets_proven(score) /\ ~meets_min_avg(score)
    BY <2>0, <2>3 DEF seller_level, sellerLevel, Level, meets_proven
  <2>4. CASE ~meets_proven(score)
    BY <2>0, <2>4 DEF seller_level, sellerLevel, Level, meets_proven
  <2> QED
    BY <1>1, <1>2, <2>0, <2>1, <2>2, <2>3, <2>4 DEF meets_proven
<1>4. /\ effectiveSellerLevel(score) = effective_seller_level(score)
      /\ effective_seller_level(score) \in Level
  BY <1>3 DEF effectiveSellerLevel, effective_seller_level, DefaultsAreLive, Level
<1>5. activeCapForLevel(effectiveSellerLevel(score)) = active_cap(a)
  BY <1>4 DEF activeCapForLevel, active_cap, DefaultsAreLive, score
<1>6. ASSUME NEW min_level \in Nat
      PROVE  meetsMinSellerLevel(score, min_level) <=> meets_min_seller_level(a, min_level)
  BY <1>4, <1>6 DEF meetsMinSellerLevel, meets_min_seller_level, Level, score
<1> QED
  BY <1>5, <1>6 DEF score

\* A seller that declined none of a wave's Jobs has a seat for each of its holds.
LEMMA HoldsAreSeats ==
  ASSUME WaveInv, StampsInv, NEW b \in DOMAIN batches, NEW a \in Account,
         b # NoBatch, \A j \in JobsOf(b) : jobs[j].seller = a => jobs[j].settled_by # "JobDeclined"
  PROVE  batches[b].claims_by_agent[a] <= Cardinality(HeldSeats(a))
<1>1. HoldsOf(b, a) \subseteq HeldSeats(a)
  <2> SUFFICES ASSUME NEW j \in HoldsOf(b, a) PROVE j \in HeldSeats(a)
    OBVIOUS
  <2>1. /\ j \in DOMAIN jobs /\ jobs[j].batch_origin = b /\ jobs[j].seller = a
        /\ ~hold_released(jobs[j])
    BY DEF HoldsOf, JobsOf
  <2>2. jobs[j].state \in Live
    BY <2>1 DEF WaveInv, WaveHoldsMatch, JobsOf
  <2>3. StampedInOrder(jobs[j])
    BY <2>1 DEF StampsInv
  <2> QED
    BY <2>1, <2>2, <2>3 DEF HeldSeats, StampedInOrder, seat_held
<1>2. IsFiniteSet(HeldSeats(a)) /\ IsFiniteSet(HoldsOf(b, a))
  BY SeatsAreFinite, HoldsAreFinite DEF WaveInv
<1>3. Cardinality(HoldsOf(b, a)) <= Cardinality(HeldSeats(a))
  BY <1>1, <1>2, FS_Subset
<1> QED
  BY <1>3 DEF WaveInv, WaveHoldsMatch

\* Under the smaller of two limits is under both.
LEMMA UnderBoth ==
  ASSUME NEW m \in Nat, NEW n \in Nat, NEW k \in Nat
  PROVE  k < Min({m, n}) <=> k < m /\ k < n
<1>1. \E x \in {m, n} : \A y \in {m, n} : x <= y
  OBVIOUS
<1>2. Min({m, n}) \in {m, n} /\ \A y \in {m, n} : Min({m, n}) <= y
  BY <1>1 DEF Min
<1> QED
  BY <1>2

\* ClaimPreflightIsExact, with the gates of the claims for "the claim runs".
PreflightsMeetGates ==
  DefaultsAreLive =>
    \A a \in Account :
      /\ \A o \in DOMAIN openings :
           is_open(o) /\ MayTry(a, openings[o]) =>
             (preflightClaimOpening(getAgentScore(a), openings[o].min_seller_level)
                <=> ClaimGate(a, o))
      /\ \A b \in DOMAIN batches :
           /\ MayTry(a, batches[b])
           /\ \A j \in JobsOf(b) : jobs[j].seller = a => jobs[j].settled_by # "JobDeclined"
           => (preflightBatchClaim(getAgentScore(a), getBatchOpening(b),
                                   getBatchClaimsByAgent(b, a))
                 <=> may_claim_slot(a, batches[b]))

LEMMA PreflightsMeet ==
  ASSUME AVG_SCALE = 10, MarketInv, SeatInv, WaveInv, StampsInv, WavesBranded
  PROVE  PreflightsMeetGates
<1> SUFFICES ASSUME DefaultsAreLive, NEW a \in Account, has_score(a)
             PROVE
      /\ \A o \in DOMAIN openings :
           is_open(o) /\ MayTry(a, openings[o]) =>
             (preflightClaimOpening(getAgentScore(a), openings[o].min_seller_level)
                <=> ClaimGate(a, o))
      /\ \A b \in DOMAIN batches :
           /\ MayTry(a, batches[b])
           /\ \A j \in JobsOf(b) : jobs[j].seller = a => jobs[j].settled_by # "JobDeclined"
           => (preflightBatchClaim(getAgentScore(a), getBatchOpening(b),
                                   getBatchClaimsByAgent(b, a))
                 <=> may_claim_slot(a, batches[b]))
  BY DEF PreflightsMeetGates, MayTry
<1>0. IInv /\ OpeningsInv /\ BatchesInv
  BY DEF MarketInv, PostsInv
<1>1. a \in DOMAIN scores /\ getAgentScore(a) = scores[a] /\ Counts(scores[a])
  BY DEF getAgentScore, has_score, SeatInv
<1>2. active_cap(a) \in Nat
  BY <1>0, <1>1, CapIsNat
<1>3. /\ activeCapForLevel(effectiveSellerLevel(scores[a])) = active_cap(a)
      /\ \A min_level \in Nat : meetsMinSellerLevel(scores[a], min_level)
                                  <=> meets_min_seller_level(a, min_level)
  BY <1>0, <1>1, LevelsAgree
<1>4. ASSUME NEW min_level \in Nat
      PROVE  preflightClaimOpening(getAgentScore(a), min_level) <=>
               /\ scores[a].active_seller_jobs < active_cap(a)
               /\ meets_min_seller_level(a, min_level)
  BY <1>1, <1>3 DEF preflightClaimOpening
<1>5. ASSUME NEW o \in DOMAIN openings, is_open(o), MayTry(a, openings[o])
      PROVE  preflightClaimOpening(getAgentScore(a), openings[o].min_seller_level)
                <=> ClaimGate(a, o)
  <2>1. openings[o].min_seller_level \in Nat
    BY <1>0 DEF OpeningsInv, PostedOpening
  <2> QED
    BY <1>4, <1>5, <2>1 DEF ClaimGate, MayTry, may_claim
<1>6. ASSUME NEW b \in DOMAIN batches, MayTry(a, batches[b]),
             \A j \in JobsOf(b) : jobs[j].seller = a => jobs[j].settled_by # "JobDeclined"
      PROVE  preflightBatchClaim(getAgentScore(a), getBatchOpening(b),
                                   getBatchClaimsByAgent(b, a))
                 <=> may_claim_slot(a, batches[b])
  <2> DEFINE batch == batches[b]
             k == batch.claims_by_agent[a]
             m == batch.max_claims_per_agent
             n == active_cap(a)
  <2>1. /\ batch.min_seller_level \in Nat /\ m \in Nat /\ k \in Nat
        /\ batch.claim_policy = CLAIM_POLICY_ANY_ACTIVE /\ batch.active_claims = TRUE
    BY <1>0, <1>6 DEF BatchesInv, PostedBatch, WavesBranded, MayTry
  <2>2. b # NoBatch
    BY <1>0, EscrowAssumption DEF BatchesInv
  <2>3. k <= Cardinality(HeldSeats(a))
    BY <1>6, <2>2, HoldsAreSeats
  <2>4. scores[a].active_seller_jobs = Cardinality(HeldSeats(a)) /\ Cardinality(HeldSeats(a)) \in Nat
    BY <1>1, SeatsAreFinite DEF SeatInv, SeatsMatch
  <2>5. scores[a].active_seller_jobs < n => k < n
    BY <1>2, <2>1, <2>3, <2>4
  <2>6. wave_cap(a, batch) = Min({m, n})
    BY DEF wave_cap
  <2>7. k < wave_cap(a, batch) <=> k < m /\ k < n
    BY <1>2, <2>1, <2>6, UnderBoth
  <2>8. meets_policy(a, batch.claim_policy)
    BY <2>1 DEF meets_policy, CLAIM_POLICY_ANY_ACTIVE, CLAIM_POLICY_MIN_REVIEWS, CLAIM_POLICY_MIN_AVG
  <2>9. preflightBatchClaim(getAgentScore(a), getBatchOpening(b), getBatchClaimsByAgent(b, a)) <=>
          /\ batch.slots_remaining > 0
          /\ k < m
          /\ preflightClaimOpening(getAgentScore(a), batch.min_seller_level)
    BY DEF preflightBatchClaim, getBatchOpening, getBatchClaimsByAgent
  <2>10. may_claim_slot(a, batch) <=>
          /\ batch.slots_remaining > 0
          /\ scores[a].active_seller_jobs < n
          /\ meets_min_seller_level(a, batch.min_seller_level)
          /\ k < wave_cap(a, batch)
    BY <1>6, <2>1, <2>8 DEF may_claim_slot, may_claim, MayTry
  <2> HIDE DEF batch, k, m, n
  <2>11. preflightClaimOpening(getAgentScore(a), batch.min_seller_level) <=>
               /\ scores[a].active_seller_jobs < n
               /\ meets_min_seller_level(a, batch.min_seller_level)
    BY <1>4, <2>1 DEF n
  <2> QED
    BY <2>5, <2>7, <2>9, <2>10, <2>11 DEF batch
<1> QED
  BY <1>5, <1>6

\* While the client's defaults are the live values and no administrator overwrites
\* counters, the preflight of a claim is the chain's own verdict: for an Opening
\* always, for a slot of a wave unless the claimer declined a Job of the wave.  The
\* wave's own limit needs no second look: a claimer's holds never outnumber its
\* seats.
THEOREM PreflightsMeetTheGates ==
  ASSUME SeatValue = {}, AVG_SCALE = 10
  PROVE  MarketSpec => []PreflightsMeetGates
<1>1. MarketInit => SeatInv /\ WaveInv /\ StampsInv /\ WavesBranded
  BY SeatInit, WaveInit DEF MarketInit, EscrowInit, StampsInv, WavesBranded
<1>2. MarketInv /\ SeatInv /\ [MarketNext]_marketVars => SeatInv'
  BY SeatStep DEF MarketInv
<1>3. MarketInv /\ WaveInv /\ [MarketNext]_marketVars => WaveInv'
  BY WaveStep
<1>4. MarketInv /\ WavesBranded /\ [MarketNext]_marketVars => WavesBranded'
  BY BrandsStay DEF MarketInv, PostsInv
<1>5. MarketInv /\ SeatInv /\ WaveInv /\ StampsInv /\ WavesBranded => PreflightsMeetGates
  BY PreflightsMeet
<1> QED
  BY <1>1, <1>2, <1>3, <1>4, <1>5, StampsKeepOrder, MarketInductive, PTL DEF MarketSpec
=============================================================================
