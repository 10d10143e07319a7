---------------------------- MODULE ReceiptProofs ----------------------------
(***************************************************************************)
(* What the books of the marketplace stand for, for every set of accounts, *)
(* Jobs, posts, waves, scores and bounds: the seats of a seller, the holds *)
(* and the money of a wave are those of the Jobs its claims minted, and the*)
(* outcomes and reviews on a score are those of the Jobs that earned them. *)
(* What is said of seats is of runs in which the administrator does not    *)
(* overwrite counters (SeatValue = {}).                                    *)
(***************************************************************************)
EXTENDS MarketProofs, FiniteSetTheorems

\* A Job that occupies a seat of its seller.
Occupies(job) == job.state \in Live /\ seat_held(job)

\* What of a score the seats and the level it gives depend on.
Counts(score) ==
  /\ {"active_seller_jobs", "review_count", "no_delivery"} \subseteq DOMAIN score
  /\ score.review_count \in Nat /\ score.no_delivery \in Nat

\* The counter is the number of occupied seats; only a seller that has a score
\* can have been given one.
SeatInv ==
  /\ IsFiniteSet(DOMAIN jobs)
  /\ \A a \in DOMAIN scores : Counts(scores[a])
  /\ \A j \in DOMAIN jobs : jobs[j].claimed => has_score(jobs[j].seller)
  /\ SeatsMatch

\* A step that takes no seat.
NoSeatTaken == \A a : HeldSeats(a)' \subseteq HeldSeats(a)

LEMMA SeatsAreFinite ==
  ASSUME IsFiniteSet(DOMAIN jobs)
  PROVE  \A a : IsFiniteSet(HeldSeats(a)) /\ Cardinality(HeldSeats(a)) \in Nat
<1> TAKE a
<1>1. HeldSeats(a) \in SUBSET DOMAIN jobs
  BY DEF HeldSeats
<1> QED
  BY <1>1, FS_Subset, FS_CardinalityType

\* What a step that frees the seat of one Job, if it had one, does to scores.
FreesSeat(j) ==
  /\ DOMAIN scores' = DOMAIN scores
  /\ \A a \in DOMAIN scores :
       /\ Counts(scores'[a])
       /\ scores'[a].active_seller_jobs =
            IF a = jobs[j].seller /\ seat_held(jobs[j])
            THEN IF scores[a].active_seller_jobs = 0 THEN 0
                 ELSE scores[a].active_seller_jobs - 1
            ELSE scores[a].active_seller_jobs

\* The seat of a live Job is freed on the Job and on the counter together.
LEMMA FreeStep ==
  ASSUME SeatInv, NEW j \in DOMAIN jobs, jobs[j].state \in Live,
         NEW job, job.seller = jobs[j].seller, job.claimed = jobs[j].claimed,
         ~Occupies(job), jobs' = [jobs EXCEPT ![j] = job], FreesSeat(j)
  PROVE  SeatInv' /\ NoSeatTaken
<1>1. \A a : HeldSeats(a)' = HeldSeats(a) \ {j}
  BY DEF HeldSeats, Occupies
<1>2. \A a : j \in HeldSeats(a) <=> a = jobs[j].seller /\ seat_held(jobs[j])
  BY DEF HeldSeats
<1>3. ASSUME NEW a \in DOMAIN scores
      PROVE  scores'[a].active_seller_jobs = Cardinality(HeldSeats(a)')
  <2> DEFINE seats == HeldSeats(a)
  <2>1. IsFiniteSet(seats) /\ Cardinality(seats) \in Nat
        /\ scores[a].active_seller_jobs = Cardinality(seats)
    BY SeatsAreFinite DEF SeatInv, SeatsMatch
  <2>2. Cardinality(seats \ {j}) = IF j \in seats THEN Cardinality(seats) - 1
                                   ELSE Cardinality(seats)
    BY <2>1, FS_RemoveElement
  <2>3. j \in seats => Cardinality(seats) # 0
    BY <2>1, FS_EmptySet
  <2>4. HeldSeats(a)' = seats \ {j}
    BY <1>1
  <2>5. j \in seats <=> a = jobs[j].seller /\ seat_held(jobs[j])
    BY <1>2
  <2> HIDE DEF seats
  <2> QED
    BY <2>1, <2>2, <2>3, <2>4, <2>5 DEF FreesSeat
<1>4. SeatsMatch'
  BY <1>3 DEF SeatsMatch, FreesSeat
<1>5. IsFiniteSet(DOMAIN jobs')
  BY DEF SeatInv
<1>6. (\A i \in DOMAIN jobs : jobs[i].claimed => has_score(jobs[i].seller))'
  BY DEF SeatInv, has_score, FreesSeat
<1>7. (\A a \in DOMAIN scores : Counts(scores[a]))'
  BY DEF FreesSeat
<1> QED
  BY <1>1, <1>4, <1>5, <1>6, <1>7 DEF SeatInv, NoSeatTaken
-----------------------------------------------------------------------------
(***************************************************************************)
(* The doors.                                                              *)
(***************************************************************************)

\* What a settlement leaves is not live.
LEMMA SettlementVacates ==
  ASSUME JobsInv, NEW j \in DOMAIN jobs, NEW marks, NEW sender,
         \/ release_settle_pkg(sender, j, marks) \/ reject_settle_pkg(sender, j, marks)
         \/ decline_settle_pkg(sender, j, marks) \/ refund_settle_pkg(j, marks)
  PROVE  /\ jobs[j].state \in Live
         /\ \E job : /\ job.seller = jobs[j].seller /\ job.claimed = jobs[j].claimed
                     /\ ~Occupies(job)
                     /\ jobs' = [jobs EXCEPT ![j] = job]
<1>1. jobs[j] \in Job
  BY DEF JobsInv
<1>2. jobs[j].state \in Live
  BY DEF release_settle_pkg, can_release, reject_settle_pkg, can_reject,
         decline_settle_pkg, can_decline, refund_settle_pkg, can_refund, Live
<1>3. ASSUME NEW state \in {RELEASED, REJECTED, REFUNDED}, NEW shares, NEW event,
             Stamp(j, Settled(jobs[j], state, shares, event), marks)
      PROVE  \E job : /\ job.seller = jobs[j].seller /\ job.claimed = jobs[j].claimed
                      /\ ~Occupies(job)
                      /\ jobs' = [jobs EXCEPT ![j] = job]
  <2> DEFINE settled == Settled(jobs[j], state, shares, event)
             job     == [settled EXCEPT !.marks = @ \cup marks]
  <2>1. /\ settled.seller = jobs[j].seller /\ settled.claimed = jobs[j].claimed
        /\ settled.state = state
        /\ DOMAIN settled = DOMAIN jobs[j]
    BY <1>1 DEF Settled, Job
  <2>2. {"seller", "claimed", "state", "marks"} \subseteq DOMAIN settled
    BY <1>1, <2>1 DEF Job
  <2>3. jobs' = [jobs EXCEPT ![j] = job]
    BY <1>3 DEF Stamp
  <2> HIDE DEF settled
  <2>4. job.seller = jobs[j].seller /\ job.claimed = jobs[j].claimed /\ job.state = state
    BY <2>1, <2>2
  <2>5. ~Occupies(job)
    BY <2>4 DEF Occupies, Live, FUNDED, DELIVERED, RELEASED, REJECTED, REFUNDED
  <2> QED
    BY <2>3, <2>4, <2>5
<1>4. CASE release_settle_pkg(sender, j, marks)
  BY <1>2, <1>3, <1>4 DEF release_settle_pkg
<1>5. CASE reject_settle_pkg(sender, j, marks)
  BY <1>2, <1>3, <1>5 DEF reject_settle_pkg
<1>6. CASE decline_settle_pkg(sender, j, marks)
  BY <1>2, <1>3, <1>6 DEF decline_settle_pkg
<1>7. CASE refund_settle_pkg(j, marks)
  BY <1>2, <1>3, <1>7 DEF refund_settle_pkg
<1> QED
  BY <1>4, <1>5, <1>6, <1>7

\* A delivery leaves the Job live, with the stamps of its door.
LEMMA DeliveryStamps ==
  ASSUME JobsInv, NEW j \in DOMAIN jobs, NEW marks, NEW sender, deliver(sender, j, marks)
  PROVE  /\ jobs[j].state \in Live
         /\ \E job : /\ job.seller = jobs[j].seller /\ job.claimed = jobs[j].claimed
                     /\ job.state \in Live /\ job.marks = jobs[j].marks \cup marks
                     /\ jobs' = [jobs EXCEPT ![j] = job]
<1> DEFINE job == [[jobs[j] EXCEPT !.delivered_at_ms = now, !.state = DELIVERED]
                     EXCEPT !.marks = @ \cup marks]
<1>1. jobs[j] \in Job
  BY DEF JobsInv
<1>2. jobs[j].state \in Live
  BY DEF deliver, can_deliver, Live
<1>3. jobs' = [jobs EXCEPT ![j] = job]
  BY DEF deliver, Stamp
<1>4. /\ job.seller = jobs[j].seller /\ job.claimed = jobs[j].claimed
      /\ job.state \in Live /\ job.marks = jobs[j].marks \cup marks
  BY <1>1 DEF Job, Live
<1> HIDE DEF job
<1> QED
  BY <1>2, <1>3, <1>4

\* The three ways a door writes scores all free the seat, and nothing else of it.
LEMMA ScoresFreeSeat ==
  ASSUME SeatInv, NEW j \in DOMAIN jobs, has_score(jobs[j].seller),
         \/ scores' = score_after_seat(j)
         \/ scores' = score_after_outcome(j, "no_delivery")
         \/ scores' = score_after_outcome(j, "rejected_after_delivery")
         \/ scores' = score_after_agent_reject(j)
  PROVE  FreesSeat(j)
<1>1. \A a \in DOMAIN scores : Counts(scores[a])
  BY DEF SeatInv
<1>2. ASSUME NEW score, Counts(score), score.active_seller_jobs \in Nat
      PROVE  LET after == free_seat(score, jobs[j]) IN
             /\ Counts(after)
             /\ after.active_seller_jobs =
                  IF seat_held(jobs[j])
                  THEN IF score.active_seller_jobs = 0 THEN 0
                       ELSE score.active_seller_jobs - 1
                  ELSE score.active_seller_jobs
  BY <1>2 DEF free_seat, decrement_active, Counts
<1>3. ASSUME NEW score, Counts(score),
             NEW kind \in {"no_delivery", "rejected_after_delivery", "as_buyer_rejected"}
      PROVE  /\ Counts(record_outcome(score, kind))
             /\ record_outcome(score, kind).active_seller_jobs = score.active_seller_jobs
  BY <1>3 DEF record_outcome, Counts
<1>4. \A a \in DOMAIN scores : scores[a].active_seller_jobs \in Nat
  BY SeatsAreFinite DEF SeatInv, SeatsMatch
<1>5. ASSUME scores' = score_after_seat(j) PROVE FreesSeat(j)
  BY <1>1, <1>2, <1>4, <1>5 DEF score_after_seat, FreesSeat, has_score
<1>6. ASSUME NEW kind \in {"no_delivery", "rejected_after_delivery"}, NEW after,
             after = score_after_outcome(j, kind)
      PROVE  /\ DOMAIN after = DOMAIN scores
             /\ \A a \in DOMAIN scores :
                  /\ Counts(after[a])
                  /\ after[a].active_seller_jobs =
                       IF a = jobs[j].seller /\ seat_held(jobs[j])
                       THEN IF scores[a].active_seller_jobs = 0 THEN 0
                            ELSE scores[a].active_seller_jobs - 1
                       ELSE scores[a].active_seller_jobs
  <2>1. after = [scores EXCEPT ![jobs[j].seller] =
                   free_seat(record_outcome(scores[jobs[j].seller], kind), jobs[j])]
    BY <1>6 DEF score_after_outcome
  <2> QED
    BY <1>1, <1>2, <1>3, <1>4, <2>1 DEF has_score
<1>7. ASSUME NEW kind \in {"no_delivery", "rejected_after_delivery"},
             scores' = score_after_outcome(j, kind)
      PROVE  FreesSeat(j)
  BY <1>6, <1>7 DEF FreesSeat
<1>8. ASSUME scores' = score_after_agent_reject(j) PROVE FreesSeat(j)
  <2> DEFINE middle == score_after_outcome(j, "rejected_after_delivery")
             buyer  == jobs[j].buyer
  <2>1. scores' = [middle EXCEPT ![buyer] = record_outcome(middle[buyer], "as_buyer_rejected")]
    BY <1>8 DEF score_after_agent_reject
  <2> HIDE DEF middle, buyer
  <2>2. /\ DOMAIN middle = DOMAIN scores
        /\ \A a \in DOMAIN scores :
             /\ Counts(middle[a])
             /\ middle[a].active_seller_jobs =
                  IF a = jobs[j].seller /\ seat_held(jobs[j])
                  THEN IF scores[a].active_seller_jobs = 0 THEN 0
                       ELSE scores[a].active_seller_jobs - 1
                  ELSE scores[a].active_seller_jobs
    BY <1>6 DEF middle
  <2> QED
    BY <1>3, <2>1, <2>2 DEF FreesSeat
<1> QED
  BY <1>5, <1>7, <1>8

\* A delivery through a door frees the seat by its stamp.
LEMMA FreedMarkVacates ==
  ASSUME NEW before, NEW job, job.claimed = before.claimed,
         NEW marks, freed_mark(before) \subseteq marks,
         job.marks = before.marks \cup marks
  PROVE  ~Occupies(job)
BY DEF freed_mark, seat_held, Occupies

\* Every door but the escrow's own deliver frees the seat with the money.
LEMMA DoorsKeepSeats ==
  ASSUME IInv, SeatInv, Doors \/ BatchDoors
  PROVE  SeatInv' /\ NoSeatTaken
<1>0. JobsInv
  BY DEF IInv
<1>1. ASSUME NEW j \in DOMAIN jobs, NEW marks, NEW sender, has_score(jobs[j].seller),
             \/ release_settle_pkg(sender, j, marks) \/ reject_settle_pkg(sender, j, marks)
             \/ decline_settle_pkg(sender, j, marks) \/ refund_settle_pkg(j, marks),
             \/ scores' = score_after_seat(j)
             \/ scores' = score_after_outcome(j, "no_delivery")
             \/ scores' = score_after_outcome(j, "rejected_after_delivery")
             \/ scores' = score_after_agent_reject(j)
      PROVE  SeatInv' /\ NoSeatTaken
  <2>1. FreesSeat(j)
    BY <1>1, ScoresFreeSeat
  <2>2. jobs[j].state \in Live
    BY <1>0, <1>1, SettlementVacates
  <2>3. PICK job : /\ job.seller = jobs[j].seller /\ job.claimed = jobs[j].claimed
                   /\ ~Occupies(job)
                   /\ jobs' = [jobs EXCEPT ![j] = job]
    BY <1>0, <1>1, SettlementVacates
  <2> QED
    BY <2>1, <2>2, <2>3, FreeStep
<1>2. ASSUME NEW j \in DOMAIN jobs, NEW marks, NEW sender, has_score(jobs[j].seller),
             deliver(sender, j, marks), freed_mark(jobs[j]) \subseteq marks,
             scores' = score_after_seat(j)
      PROVE  SeatInv' /\ NoSeatTaken
  <2>1. FreesSeat(j)
    BY <1>2, ScoresFreeSeat
  <2>2. jobs[j].state \in Live
    BY <1>0, <1>2, DeliveryStamps
  <2>3. PICK job : /\ job.seller = jobs[j].seller /\ job.claimed = jobs[j].claimed
                   /\ job.marks = jobs[j].marks \cup marks
                   /\ jobs' = [jobs EXCEPT ![j] = job]
    BY <1>0, <1>2, DeliveryStamps
  <2>4. ~Occupies(job)
    BY <1>2, <2>3, FreedMarkVacates
  <2> QED
    BY <2>1, <2>2, <2>3, <2>4, FreeStep
\* The escrow's own deliver writes no score, and leaves the seat occupied.
<1>3. ASSUME NEW j \in DOMAIN jobs, NEW sender, deliver_v1(sender, j)
      PROVE  SeatInv' /\ NoSeatTaken
  <2>1. jobs[j].state \in Live
    BY <1>0, <1>3, DeliveryStamps DEF deliver_v1
  <2>2. PICK job : /\ job.seller = jobs[j].seller /\ job.claimed = jobs[j].claimed
                   /\ job.state \in Live /\ job.marks = jobs[j].marks \cup {}
                   /\ jobs' = [jobs EXCEPT ![j] = job]
    BY <1>0, <1>3, DeliveryStamps DEF deliver_v1
  <2>3. \A a : HeldSeats(a)' = HeldSeats(a)
    BY <2>1, <2>2 DEF HeldSeats, seat_held
  <2>4. UNCHANGED scores /\ DOMAIN jobs' = DOMAIN jobs
    BY <1>3, <2>2 DEF deliver_v1
  <2>5. (\A i \in DOMAIN jobs : jobs[i].claimed => has_score(jobs[i].seller))'
    BY <2>2, <2>4 DEF SeatInv, has_score
  <2> QED
    BY <2>3, <2>4, <2>5 DEF SeatInv, SeatsMatch, NoSeatTaken
<1>4. CASE Doors
  <2>1. PICK j \in DOMAIN jobs :
          \/ refund_v2(j)
          \/ \E sender \in Account : \/ reject_v2(sender, j)
                                     \/ reject_v2_agent_buyer(sender, j)
                                     \/ decline_v2(sender, j)
                                     \/ release_v2(sender, j)
                                     \/ deliver_v2(sender, j)
                                     \/ deliver_v1(sender, j)
    BY <1>4 DEF Doors
  <2>2. CASE refund_v2(j)
    BY <2>2, <1>1 DEF refund_v2
  <2>3. ASSUME NEW sender \in Account,
               \/ reject_v2(sender, j) \/ reject_v2_agent_buyer(sender, j)
               \/ decline_v2(sender, j) \/ release_v2(sender, j)
        PROVE  SeatInv' /\ NoSeatTaken
    BY <2>3, <1>1 DEF reject_v2, reject_v2_agent_buyer, decline_v2, release_v2
  <2>4. ASSUME NEW sender \in Account, deliver_v2(sender, j)
        PROVE  SeatInv' /\ NoSeatTaken
    BY <2>4, <1>2 DEF deliver_v2
  <2> QED
    BY <2>1, <2>2, <2>3, <2>4, <1>3
<1>5. CASE BatchDoors
  <2>1. PICK b \in DOMAIN batches, j \in DOMAIN jobs :
          \/ batch_refund(b, j)
          \/ \E sender \in Account : \/ batch_release(sender, b, j)
                                     \/ batch_reject(sender, b, j)
                                     \/ batch_reject_agent_buyer(sender, b, j)
                                     \/ batch_deliver_v2(sender, b, j)
    BY <1>5 DEF BatchDoors
  <2>2. CASE batch_refund(b, j)
    BY <2>2, <1>1 DEF batch_refund
  <2>3. ASSUME NEW sender \in Account,
               \/ batch_release(sender, b, j) \/ batch_reject(sender, b, j)
               \/ batch_reject_agent_buyer(sender, b, j)
        PROVE  SeatInv' /\ NoSeatTaken
    BY <2>3, <1>1 DEF batch_release, batch_reject, batch_reject_agent_buyer
  <2>4. ASSUME NEW sender \in Account, batch_deliver_v2(sender, b, j)
        PROVE  SeatInv' /\ NoSeatTaken
    BY <2>4, <1>2 DEF batch_deliver_v2
  <2> QED
    BY <2>1, <2>2, <2>3, <2>4
<1> QED
  BY <1>4, <1>5
-----------------------------------------------------------------------------
(***************************************************************************)
(* Hires, claims, reviews.                                                 *)
(***************************************************************************)

\* A hire is no board Job: it takes no seat.
LEMMA HireStep ==
  ASSUME SeatInv, Hire, UNCHANGED scores
  PROVE  SeatInv' /\ NoSeatTaken
<1>1. PICK j, job : /\ j \notin DOMAIN jobs /\ job.claimed = FALSE /\ share(j, job)
  <2>1. PICK buyer, seller \in Account, j \in JobId, amount \in Amount,
             d, w \in Duration, s \in Split :
          create(buyer, seller, j, amount, now + d, w, s)
    BY DEF Hire
  <2> DEFINE job == NewJob(buyer, seller, amount, cfg.fee_bps, now + d, w, s, FALSE, NoBatch)
  <2>2. job.claimed = FALSE
    BY DEF NewJob
  <2>3. j \notin DOMAIN jobs /\ share(j, job)
    BY <2>1 DEF create
  <2> HIDE DEF job
  <2> QED
    BY <2>2, <2>3
<1>2. DOMAIN jobs' = DOMAIN jobs \cup {j}
  BY <1>1 DEF share
<1>3. \A a : HeldSeats(a)' = HeldSeats(a)
  BY <1>1 DEF HeldSeats, seat_held, share
<1>4. IsFiniteSet(DOMAIN jobs')
  BY <1>2, FS_AddElement DEF SeatInv
<1>5. (\A i \in DOMAIN jobs : jobs[i].claimed => has_score(jobs[i].seller))'
  BY <1>1 DEF SeatInv, share, has_score
<1> QED
  BY <1>3, <1>4, <1>5 DEF SeatInv, SeatsMatch, NoSeatTaken

\* What a claim of seller a is, to the seats.
ClaimsBy(a) ==
  /\ has_score(a)
  /\ scores[a].active_seller_jobs < active_cap(a)
  /\ take_seat(a)
  /\ \E j, job : /\ j \notin DOMAIN jobs
                 /\ job.seller = a /\ job.claimed = TRUE
                 /\ job.marks = {} /\ job.state = FUNDED /\ job.settled_by = "none"
                 /\ share(j, job)

LEMMA ClaimIsClaim ==
  ClaimOpening \/ ClaimSlot => \E a : ClaimsBy(a)
<1>1. ASSUME NEW buyer, NEW a, NEW j, NEW amount, NEW fee_bps, NEW deliver_by,
             NEW window, NEW split, NEW origin,
             create_claimed(buyer, a, j, amount, fee_bps, deliver_by, window, split, origin),
             NEW until, NEW level, may_claim(a, buyer, until, level), take_seat(a)
      PROVE  ClaimsBy(a)
  <2> DEFINE job == NewJob(buyer, a, amount, fee_bps, deliver_by, window, split, TRUE, origin)
  <2>1. /\ job.seller = a /\ job.claimed = TRUE /\ job.marks = {}
        /\ job.state = FUNDED /\ job.settled_by = "none"
    BY DEF NewJob
  <2>2. j \notin DOMAIN jobs /\ share(j, job)
    BY <1>1 DEF create_claimed
  <2>3. has_score(a) /\ scores[a].active_seller_jobs < active_cap(a)
    BY <1>1 DEF may_claim
  <2> HIDE DEF job
  <2> QED
    BY <1>1, <2>1, <2>2, <2>3 DEF ClaimsBy
<1>2. CASE ClaimOpening
  <2>1. PICK a \in Account, o \in DOMAIN openings, j \in JobId : do_claim(a, o, j)
    BY <1>2 DEF ClaimOpening, claim_v2, claim_proven_v2
  <2> QED
    BY <2>1, <1>1 DEF do_claim
<1>3. CASE ClaimSlot
  <2>1. PICK a \in Account, b \in DOMAIN batches, j \in JobId : batch_claim(a, b, j)
    BY <1>3 DEF ClaimSlot
  <2> QED
    BY <2>1, <1>1 DEF batch_claim, may_claim_slot
<1> QED
  BY <1>2, <1>3

\* Every score is of one of the four levels, so its seller has a cap.
LEMMA CapIsNat ==
  ASSUME IInv, SeatInv, NEW a \in DOMAIN scores
  PROVE  active_cap(a) \in Nat
<1> DEFINE score == scores[a]
<1>1. score.review_count \in Nat /\ score.no_delivery \in Nat
  BY DEF SeatInv, Counts
<1>2. LEVEL4_MIN_REVIEWS \in Nat /\ LEVEL4_MAX_NO_DELIVERY \in Nat
  BY ReputationAssumption
<1> HIDE DEF score
<1>3. seller_level(score) \in Level
  <2>1. CASE meets_min_avg(score) /\ score.review_count >= LEVEL4_MIN_REVIEWS
             /\ score.no_delivery <= LEVEL4_MAX_NO_DELIVERY
    BY <1>1, <1>2, <2>1 DEF seller_level, Level, meets_min_avg
  <2>2. CASE meets_min_avg(score) /\ (\/ score.review_count < LEVEL4_MIN_REVIEWS
                                      \/ score.no_delivery > LEVEL4_MAX_NO_DELIVERY)
    BY <1>1, <1>2, <2>2 DEF seller_level, Level, meets_min_avg
  <2>3. CASE meets_proven(score) /\ ~meets_min_avg(score)
    BY <2>3 DEF seller_level, Level
  <2>4. CASE ~meets_proven(score)
    BY <2>4 DEF seller_level, Level, meets_min_avg
  <2>5. meets_min_avg(score) => meets_proven(score)
    BY DEF meets_min_avg
  <2> QED
    BY <1>1, <1>2, <2>1, <2>2, <2>3, <2>4, <2>5
<1>4. effective_seller_level(score) \in Level
  BY <1>3 DEF effective_seller_level, Level
<1> QED
  BY <1>4 DEF active_cap, score, IInv, ConfigInv, Config

\* One step of CapRespected.
CapStep ==
  \A a \in DOMAIN scores :
    Cardinality(HeldSeats(a)') > Cardinality(HeldSeats(a)) =>
      Cardinality(HeldSeats(a)') <= active_cap(a)

LEMMA NoSeatNoCap ==
  ASSUME SeatInv, NoSeatTaken
  PROVE  CapStep
<1> SUFFICES ASSUME NEW a \in DOMAIN scores
             PROVE  ~(Cardinality(HeldSeats(a)') > Cardinality(HeldSeats(a)))
  BY DEF CapStep
<1> DEFINE before == HeldSeats(a)
           after  == HeldSeats(a)'
<1>1. IsFiniteSet(before) /\ Cardinality(before) \in Nat
  BY SeatsAreFinite DEF SeatInv
<1>2. after \in SUBSET before
  BY DEF NoSeatTaken
<1> HIDE DEF before, after
<1>3. Cardinality(after) <= Cardinality(before) /\ Cardinality(after) \in Nat
  BY <1>1, <1>2, FS_Subset, FS_CardinalityType
<1> QED
  BY <1>1, <1>3 DEF before, after

\* A claim takes one free seat of its claimer, on the Job and on the counter.
LEMMA ClaimStep ==
  ASSUME IInv, SeatInv, NEW a, ClaimsBy(a)
  PROVE  SeatInv' /\ CapStep
<1>1. PICK j, job : /\ j \notin DOMAIN jobs
                    /\ job.seller = a /\ job.claimed = TRUE
                    /\ job.marks = {} /\ job.state = FUNDED
                    /\ share(j, job)
  BY DEF ClaimsBy
<1>2. /\ a \in DOMAIN scores /\ scores[a].active_seller_jobs < active_cap(a)
      /\ scores' = [scores EXCEPT ![a] = increment_active(scores[a])]
  BY DEF ClaimsBy, has_score, take_seat
<1>3. DOMAIN jobs' = DOMAIN jobs \cup {j} /\ jobs'[j] = job
      /\ \A i \in DOMAIN jobs : jobs'[i] = jobs[i]
  BY <1>1 DEF share
<1>4. HeldSeats(a)' = HeldSeats(a) \cup {j} /\ j \notin HeldSeats(a)
  BY <1>1, <1>3 DEF HeldSeats, seat_held, Live
<1>5. \A b : b # a => HeldSeats(b)' = HeldSeats(b)
  BY <1>1, <1>3 DEF HeldSeats, seat_held
<1>6. /\ IsFiniteSet(HeldSeats(a)) /\ Cardinality(HeldSeats(a)) \in Nat
      /\ scores[a].active_seller_jobs = Cardinality(HeldSeats(a))
  BY <1>2, SeatsAreFinite DEF SeatInv, SeatsMatch
<1>7. Cardinality(HeldSeats(a)') = Cardinality(HeldSeats(a)) + 1
  BY <1>4, <1>6, FS_AddElement
<1>8. /\ DOMAIN scores' = DOMAIN scores
      /\ Counts(scores'[a])
      /\ scores'[a].active_seller_jobs = scores[a].active_seller_jobs + 1
      /\ \A b \in DOMAIN scores : b # a => scores'[b] = scores[b]
  BY <1>2 DEF increment_active, SeatInv, Counts
<1>9. SeatsMatch'
  BY <1>5, <1>6, <1>7, <1>8 DEF SeatInv, SeatsMatch
<1>10. IsFiniteSet(DOMAIN jobs')
  BY <1>3, FS_AddElement DEF SeatInv
<1>11. (\A i \in DOMAIN jobs : jobs[i].claimed => has_score(jobs[i].seller))'
  BY <1>1, <1>2, <1>3, <1>8 DEF SeatInv, has_score
<1>12. (\A b \in DOMAIN scores : Counts(scores[b]))'
  BY <1>8 DEF SeatInv
<1>13. CapStep
  <2> SUFFICES ASSUME NEW b \in DOMAIN scores,
                      Cardinality(HeldSeats(b)') > Cardinality(HeldSeats(b))
               PROVE  Cardinality(HeldSeats(b)') <= active_cap(b)
    BY DEF CapStep
  <2>1. CASE b = a
    BY <1>2, <1>6, <1>7, <2>1, CapIsNat
  <2>2. CASE b # a
    <3>1. Cardinality(HeldSeats(b)) \in Nat
      BY SeatsAreFinite DEF SeatInv
    <3> QED
      BY <1>5, <2>2, <3>1
  <2> QED
    BY <2>1, <2>2
<1> QED
  BY <1>9, <1>10, <1>11, <1>12, <1>13 DEF SeatInv

\* A review writes no seat; a first score starts with none.
LEMMA ScoreStep ==
  ASSUME IInv, SeatInv, Review \/ \E a \in Account : create_empty_score(a)
  PROVE  SeatInv' /\ NoSeatTaken
<1>1. ASSUME NEW score, Counts(score), NEW j, NEW buyer, NEW stars
      PROVE  /\ Counts(apply_review(score, j, buyer, stars))
             /\ apply_review(score, j, buyer, stars).active_seller_jobs
                  = score.active_seller_jobs
  BY <1>1 DEF apply_review, Counts
<1>2. Counts(EmptyScore) /\ EmptyScore.active_seller_jobs = 0
  BY DEF EmptyScore, Counts
<1>3. ASSUME UNCHANGED jobs,
             DOMAIN scores \subseteq DOMAIN scores',
             \A a \in DOMAIN scores' :
               /\ Counts(scores'[a])
               /\ scores'[a].active_seller_jobs =
                    IF a \in DOMAIN scores THEN scores[a].active_seller_jobs ELSE 0
      PROVE  SeatInv' /\ NoSeatTaken
  <2>1. \A a : HeldSeats(a)' = HeldSeats(a)
    BY <1>3 DEF HeldSeats, seat_held
  <2>2. \A a : a \notin DOMAIN scores => HeldSeats(a) = {}
    BY DEF SeatInv, HeldSeats, seat_held, has_score
  <2>3. SeatsMatch'
    BY <1>3, <2>1, <2>2, FS_EmptySet DEF SeatInv, SeatsMatch
  <2>4. (\A i \in DOMAIN jobs : jobs[i].claimed => has_score(jobs[i].seller))'
    BY <1>3 DEF SeatInv, has_score
  <2> QED
    BY <1>3, <2>1, <2>3, <2>4 DEF SeatInv, NoSeatTaken
<1>4. ASSUME NEW a, NEW score, Counts(score), score.active_seller_jobs = 0,
             claim_score(a, score), UNCHANGED jobs
      PROVE  SeatInv' /\ NoSeatTaken
  BY <1>3, <1>4 DEF claim_score, has_score, SeatInv
<1>5. ASSUME NEW a \in Account, create_empty_score(a)
      PROVE  SeatInv' /\ NoSeatTaken
  BY <1>2, <1>4, <1>5 DEF create_empty_score, escrowVars
<1>6. ASSUME NEW sender, NEW j, NEW stars, submit_first_review(sender, j, stars)
      PROVE  SeatInv' /\ NoSeatTaken
  BY <1>1, <1>2, <1>4, <1>6 DEF submit_first_review, escrowVars
<1>7. ASSUME NEW sender, NEW j, NEW stars, submit_review(sender, j, stars)
      PROVE  SeatInv' /\ NoSeatTaken
  <2> DEFINE a     == jobs[j].seller
             after == apply_review(scores[a], j, sender, stars)
  <2>1. /\ a \in DOMAIN scores /\ UNCHANGED jobs
        /\ scores' = [scores EXCEPT ![a] = after]
    BY <1>7 DEF submit_review, has_score, escrowVars
  <2>2. Counts(after) /\ after.active_seller_jobs = scores[a].active_seller_jobs
    BY <1>1, <2>1 DEF SeatInv
  <2> HIDE DEF a, after
  <2> QED
    BY <1>3, <2>1, <2>2 DEF SeatInv
<1> QED
  BY <1>5, <1>6, <1>7 DEF Review
-----------------------------------------------------------------------------
(***************************************************************************)
(* The theorems.                                                           *)
(***************************************************************************)

LEMMA SeatInit == MarketInit => SeatInv
BY FS_EmptySet DEF MarketInit, EscrowInit, SeatInv, SeatsMatch

\* No other transaction touches Jobs or scores.
LEMMA SeatsUntouched ==
  ASSUME SeatInv, UNCHANGED <<jobs, scores>>
  PROVE  SeatInv' /\ NoSeatTaken
<1>1. \A a : HeldSeats(a)' = HeldSeats(a)
  BY DEF HeldSeats, seat_held
<1>2. (\A i \in DOMAIN jobs : jobs[i].claimed => has_score(jobs[i].seller))'
  BY DEF SeatInv, has_score
<1> QED
  BY <1>1, <1>2 DEF SeatInv, SeatsMatch, NoSeatTaken

LEMMA SeatStep ==
  ASSUME SeatValue = {}, IInv, SeatInv, [MarketNext]_marketVars
  PROVE  SeatInv' /\ CapStep
<1>1. CASE Doors \/ BatchDoors
  BY <1>1, DoorsKeepSeats, NoSeatNoCap
<1>2. CASE ClaimOpening \/ ClaimSlot
  BY <1>2, ClaimIsClaim, ClaimStep
<1>3. CASE Review \/ \E a \in Account : create_empty_score(a)
  BY <1>3, ScoreStep, NoSeatNoCap
<1>4. CASE Hire /\ UNCHANGED scores
  BY <1>4, HireStep, NoSeatNoCap
<1>5. CASE UNCHANGED <<jobs, scores>>
  BY <1>5, SeatsUntouched, NoSeatNoCap
<1>6. ~Reconcile
  BY DEF Reconcile
<1>7. ReputationNext => \/ Doors
                        \/ Review \/ \E a \in Account : create_empty_score(a)
                        \/ Hire /\ UNCHANGED scores
                        \/ UNCHANGED <<jobs, scores>>
  <2>1. Tick \/ Admin \/ RecordBoard => UNCHANGED jobs
    BY DEF Tick, Admin, SetCfg, set_fee_bps, set_fee_receiver, set_min_job_amount,
       set_max_job_amount, set_tier_active_cap, set_no_delivery_regression_floor,
       set_max_batch_slots, migrate, migrate_successor, RecordBoard, record_score_board_pkg
  <2>2. RegistryAlone \/ create_score_board => UNCHANGED <<jobs, scores>>
    BY <2>1 DEF RegistryAlone, create_score_board, escrowVars
  <2>3. EscrowAlone => (Hire /\ UNCHANGED scores) \/ UNCHANGED <<jobs, scores>>
    BY <2>1 DEF EscrowAlone
  <2> QED
    BY <1>6, <2>2, <2>3 DEF ReputationNext
<1>8. OpeningNext => ClaimOpening \/ UNCHANGED <<jobs, scores>>
  <2>1. PostOpening => UNCHANGED reputationVars
    BY DEF PostOpening, create_open_v2
  <2>2. ReturnOpening => UNCHANGED reputationVars
    BY DEF ReturnOpening, cancel_open, refund_unclaimed, repay_buyer
  <2> QED
    BY <2>1, <2>2 DEF OpeningNext, reputationVars, escrowVars
<1>9. BatchNext => ClaimSlot \/ BatchDoors \/ UNCHANGED <<jobs, scores>>
  <2>1. PostBatch => UNCHANGED reputationVars
    BY DEF PostBatch, create_batch_open
  <2>2. \A b : drain_remainder(b) => UNCHANGED reputationVars
    BY DEF drain_remainder
  <2>3. ReturnSlots => UNCHANGED reputationVars
    BY <2>2 DEF ReturnSlots, cancel_batch_open, refund_batch_expired
  <2> QED
    BY <2>1, <2>3 DEF BatchNext, reputationVars, escrowVars
<1>10. UNCHANGED marketVars => UNCHANGED <<jobs, scores>>
  BY DEF marketVars, reputationVars, escrowVars
<1> QED
  BY <1>1, <1>2, <1>3, <1>4, <1>5, <1>7, <1>8, <1>9, <1>10 DEF MarketNext

\* While no administrator overwrites it, a seller's counter is the number of its
\* live board Jobs whose seat no delivery or decline has freed: it moves only
\* with the money, through whichever door.
THEOREM SeatsMoveWithTheMoney ==
  ASSUME SeatValue = {}
  PROVE  MarketSpec => []SeatsMatch
<1>1. MarketInit => SeatInv
  BY SeatInit
<1>2. MarketInv /\ SeatInv /\ [MarketNext]_marketVars => SeatInv'
  BY SeatStep DEF MarketInv
<1>3. SeatInv => SeatsMatch
  BY DEF SeatInv
<1> QED
  BY <1>1, <1>2, <1>3, MarketInductive, PTL DEF MarketSpec

\* Under the same condition no claim takes more seats than the claimer's level
\* of that moment allows.
THEOREM ClaimsRespectTheCap ==
  ASSUME SeatValue = {}
  PROVE  MarketSpec => CapRespected
<1>1. MarketInit => SeatInv
  BY SeatInit
<1>2. MarketInv /\ SeatInv /\ [MarketNext]_marketVars => SeatInv'
  BY SeatStep DEF MarketInv
<1>3. MarketInv /\ SeatInv /\ [MarketNext]_marketVars => [CapStep]_reputationVars
  BY SeatStep DEF MarketInv
<1>4. [CapStep]_reputationVars <=>
        [\A a \in DOMAIN scores :
           Cardinality(HeldSeats(a)') > Cardinality(HeldSeats(a)) =>
             Cardinality(HeldSeats(a)') <= active_cap(a)]_reputationVars
  BY DEF CapStep
<1> QED
  BY <1>1, <1>2, <1>3, <1>4, MarketInductive, PTL DEF MarketSpec, CapRespected

----------------------------------------------------------------------------
\* The agent registry by itself, for every set of agents and profiles and
\* whatever records it starts with.

RegistryInv == RegistryTypeOK /\ IdsAreDense(agents, next_id)

\* There is a number of registered agents.
LEMMA AgentsAreCounted ==
  ASSUME RegistryInv
  PROVE  /\ IsFiniteSet(DOMAIN agents)
         /\ Cardinality(DOMAIN agents) \in Nat
BY RegistryAssumption, FS_Subset, FS_CardinalityType DEF RegistryInv, RegistryTypeOK

\* A registration takes the next number.
LEMMA RegisterKeeps ==
  ASSUME RegistryInv, NEW a \in Agent, NEW p \in Profile, register(a, p)
  PROVE  RegistryInv'
<1> DEFINE n == Cardinality(DOMAIN agents)
<1>1. n \in Nat /\ next_id = n + 1 /\ a \notin DOMAIN agents
  BY AgentsAreCounted DEF RegistryInv, IdsAreDense, register, is_registered
<1>2. DOMAIN agents' = DOMAIN agents \cup {a}
  BY DEF register, AddRecord
<1>3. Cardinality(DOMAIN agents') = n + 1
  BY <1>1, <1>2, AgentsAreCounted, FS_AddElement
<1>4. RegistryTypeOK'
  BY <1>1, <1>2 DEF RegistryInv, RegistryTypeOK, register, AddRecord, AgentRecord
<1>5. {agents'[x].numeric_id : x \in DOMAIN agents'}
        = {agents[x].numeric_id : x \in DOMAIN agents} \cup {n + 1}
  BY <1>1, <1>2 DEF register, AddRecord
<1>6. {agents'[x].numeric_id : x \in DOMAIN agents'} = 1..(n + 1)
  BY <1>1, <1>5 DEF RegistryInv, IdsAreDense
<1>7. next_id' = n + 2
  BY <1>1 DEF register, AddRecord
<1>8. IdsAreDense(agents, next_id)'
  BY <1>1, <1>3, <1>6, <1>7 DEF IdsAreDense
<1> QED
  BY <1>4, <1>8 DEF RegistryInv

\* update and set_active touch neither numbers nor the set of agents.
LEMMA RewriteKeeps ==
  ASSUME RegistryInv, NEW a \in DOMAIN agents, NEW r \in AgentRecord,
         r.numeric_id = agents[a].numeric_id,
         agents' = [agents EXCEPT ![a] = r],
         UNCHANGED <<registry_version, next_id>>
  PROVE  RegistryInv'
<1>1. DOMAIN agents' = DOMAIN agents
  OBVIOUS
<1>2. RegistryTypeOK'
  BY <1>1 DEF RegistryInv, RegistryTypeOK
<1>3. \A x \in DOMAIN agents : agents'[x].numeric_id = agents[x].numeric_id
  OBVIOUS
<1>4. IdsAreDense(agents, next_id)'
  BY <1>1, <1>3 DEF RegistryInv, IdsAreDense
<1> QED
  BY <1>2, <1>4 DEF RegistryInv

\* Agent numbers are never reused, skipped or shared, whatever is registered,
\* updated, paused or migrated.
THEOREM NumbersAreDense == RegistrySpec => []RegistryInv
<1>1. RegistryInit => RegistryInv
  BY RegistryAssumption, FS_Subset, FS_CardinalityType
  DEF RegistryInit, RegistryInv, RegistryTypeOK, IdsAreDense
<1>2. RegistryInv /\ [RegistryNext]_registryVars => RegistryInv'
  <2> SUFFICES ASSUME RegistryInv, [RegistryNext]_registryVars PROVE RegistryInv'
    OBVIOUS
  <2>1. ASSUME NEW a \in Agent, NEW p \in Profile, register(a, p) PROVE RegistryInv'
    BY <2>1, RegisterKeeps
  <2>2. ASSUME NEW a \in Agent, NEW p \in Profile, update(a, p) PROVE RegistryInv'
    <3> DEFINE r == [agents[a] EXCEPT !.profile = p]
    <3>1. a \in DOMAIN agents /\ r \in AgentRecord /\ r.numeric_id = agents[a].numeric_id
      BY <2>2 DEF update, is_registered, RegistryInv, RegistryTypeOK, AgentRecord
    <3>2. agents' = [agents EXCEPT ![a] = r] /\ UNCHANGED <<registry_version, next_id>>
      BY <2>2 DEF update
    <3> QED
      BY <3>1, <3>2, RewriteKeeps
  <2>3. ASSUME NEW sender \in Agent, NEW a \in Agent, NEW active \in BOOLEAN,
               set_active(sender, a, active)
        PROVE  RegistryInv'
    <3> DEFINE r == [agents[a] EXCEPT !.active = active]
    <3>1. a \in DOMAIN agents /\ r \in AgentRecord /\ r.numeric_id = agents[a].numeric_id
      BY <2>3 DEF set_active, is_registered, RegistryInv, RegistryTypeOK, AgentRecord
    <3>2. agents' = [agents EXCEPT ![a] = r] /\ UNCHANGED <<registry_version, next_id>>
      BY <2>3 DEF set_active
    <3> QED
      BY <3>1, <3>2, RewriteKeeps
  <2>4. CASE registry_migrate
    BY <2>4, RegistryAssumption
    DEF registry_migrate, RegistryInv, RegistryTypeOK, IdsAreDense
  <2>5. CASE UNCHANGED registryVars
    BY <2>5 DEF registryVars, RegistryInv, RegistryTypeOK, IdsAreDense
  <2> QED
    BY <2>1, <2>2, <2>3, <2>4, <2>5 DEF RegistryNext
<1> QED
  BY <1>1, <1>2, PTL DEF RegistrySpec
-----------------------------------------------------------------------------
(***************************************************************************)
(* The holds and the money of a wave.                                      *)
(***************************************************************************)

\* Every Job minted by a claim of a slot names a wave that was posted.
OriginsKnown ==
  \A j \in DOMAIN jobs : jobs[j].batch_origin # NoBatch => jobs[j].batch_origin \in DOMAIN batches

WaveInv ==
  /\ IsFiniteSet(DOMAIN jobs)
  /\ OriginsKnown
  /\ WaveHoldsMatch

\* A hold that is still counted is of a live or a declined Job.
Counted(job) == job.state \in Live \/ job.settled_by = "JobDeclined"

LEMMA HoldsOfJobs ==
  \A b, a : HoldsOf(b, a) = {j \in DOMAIN jobs : /\ jobs[j].batch_origin = b
                                                 /\ jobs[j].seller = a
                                                 /\ ~hold_released(jobs[j])}
BY DEF HoldsOf, JobsOf

LEMMA HoldsAreFinite ==
  ASSUME IsFiniteSet(DOMAIN jobs)
  PROVE  \A b, a : IsFiniteSet(HoldsOf(b, a)) /\ Cardinality(HoldsOf(b, a)) \in Nat
<1> TAKE b, a
<1>1. HoldsOf(b, a) \in SUBSET DOMAIN jobs
  BY HoldsOfJobs
<1> QED
  BY <1>1, FS_Subset, FS_CardinalityType

\* What the holds depend on.
LEMMA HoldsUntouched ==
  ASSUME WaveInv, UNCHANGED jobs, DOMAIN batches' = DOMAIN batches,
         \A b \in DOMAIN batches : batches'[b].claims_by_agent = batches[b].claims_by_agent
  PROVE  WaveInv'
<1>1. \A b, a : HoldsOf(b, a)' = HoldsOf(b, a)
  BY DEF HoldsOf, JobsOf, hold_released
<1>2. WaveHoldsMatch'
  BY <1>1 DEF WaveInv, WaveHoldsMatch
<1>3. OriginsKnown'
  BY DEF WaveInv, OriginsKnown
<1> QED
  BY <1>2, <1>3 DEF WaveInv

\* A Job that is no wave's, or whose hold the step leaves alone.
LEMMA HoldsStay ==
  ASSUME WaveInv, DOMAIN batches \subseteq BatchId, NEW j \in DOMAIN jobs, NEW job,
         job.seller = jobs[j].seller, job.batch_origin = jobs[j].batch_origin,
         \/ jobs[j].batch_origin = NoBatch
         \/ Counted(job) /\ (hold_released(job) <=> hold_released(jobs[j])),
         jobs' = [jobs EXCEPT ![j] = job], UNCHANGED batches
  PROVE  WaveInv'
<1>1. NoBatch \notin DOMAIN batches
  BY EscrowAssumption
<1>2. \A b \in DOMAIN batches : \A a : HoldsOf(b, a)' = HoldsOf(b, a)
  BY <1>1 DEF HoldsOf, JobsOf, hold_released
<1>3. ASSUME NEW b \in DOMAIN batches, NEW a, NEW i \in HoldsOf(b, a)
      PROVE  (a \in Account => Counted(jobs'[i]))
  <2>1. i \in DOMAIN jobs /\ jobs[i].batch_origin = b
    BY <1>3, HoldsOfJobs
  <2>2. a \in Account => Counted(jobs[i])
    BY <1>3 DEF WaveInv, WaveHoldsMatch, Counted
  <2> QED
    BY <1>1, <2>1, <2>2
<1>4. WaveHoldsMatch'
  BY <1>2, <1>3 DEF WaveInv, WaveHoldsMatch, Counted
<1>5. OriginsKnown'
  BY DEF WaveInv, OriginsKnown
<1> QED
  BY <1>4, <1>5 DEF WaveInv

\* A new Job outside every wave.
LEMMA HoldsBeside ==
  ASSUME WaveInv, DOMAIN batches \subseteq BatchId, NEW j, j \notin DOMAIN jobs, NEW job,
         job.batch_origin = NoBatch, share(j, job), UNCHANGED batches
  PROVE  WaveInv'
<1>1. NoBatch \notin DOMAIN batches
  BY EscrowAssumption
<1>2. DOMAIN jobs' = DOMAIN jobs \cup {j} /\ jobs'[j] = job
      /\ \A i \in DOMAIN jobs : jobs'[i] = jobs[i]
  BY DEF share
<1>3. \A b \in DOMAIN batches : \A a : HoldsOf(b, a)' = HoldsOf(b, a)
  BY <1>1, <1>2 DEF HoldsOf, JobsOf, hold_released
<1>4. WaveHoldsMatch'
  BY <1>2, <1>3, HoldsOfJobs DEF WaveInv, WaveHoldsMatch
<1>5. OriginsKnown' /\ IsFiniteSet(DOMAIN jobs')
  BY <1>2, FS_AddElement DEF WaveInv, OriginsKnown
<1> QED
  BY <1>4, <1>5 DEF WaveInv

\* A door of the wave gives the hold back, once.
LEMMA HoldFreed ==
  ASSUME WaveInv, BatchesInv, NEW j \in DOMAIN jobs, jobs[j].seller \in Account,
         NEW b \in DOMAIN batches, jobs[j].batch_origin = b, NEW job,
         job.seller = jobs[j].seller, job.batch_origin = b, hold_released(job),
         jobs' = [jobs EXCEPT ![j] = job], free_wave_hold(b, jobs[j])
  PROVE  WaveInv'
<1> DEFINE s == jobs[j].seller
<1>1. /\ DOMAIN batches' = DOMAIN batches
      /\ \A c \in DOMAIN batches, a \in Account :
           batches'[c].claims_by_agent[a] =
             IF c = b /\ a = s /\ ~hold_released(jobs[j])
             THEN IF batches[b].claims_by_agent[s] > 0
                  THEN batches[b].claims_by_agent[s] - 1 ELSE 0
             ELSE batches[c].claims_by_agent[a]
  <2>1. \A c \in DOMAIN batches : batches[c] \in PostedBatch
    BY DEF BatchesInv
  <2> QED
    BY <2>1 DEF free_wave_hold, PostedBatch
<1>2. \A c, a : HoldsOf(c, a)' = HoldsOf(c, a) \ {j}
  BY HoldsOfJobs DEF HoldsOf, JobsOf, hold_released
<1>3. \A c, a : j \in HoldsOf(c, a) <=> c = b /\ a = s /\ ~hold_released(jobs[j])
  BY HoldsOfJobs
<1> HIDE DEF s
<1>4. ASSUME NEW c \in DOMAIN batches, NEW a \in Account
      PROVE  batches'[c].claims_by_agent[a] = Cardinality(HoldsOf(c, a)')
  <2> DEFINE holds == HoldsOf(c, a)
  <2>1. IsFiniteSet(holds) /\ Cardinality(holds) \in Nat
        /\ batches[c].claims_by_agent[a] = Cardinality(holds)
    BY HoldsAreFinite DEF WaveInv, WaveHoldsMatch
  <2>2. Cardinality(holds \ {j}) = IF j \in holds THEN Cardinality(holds) - 1
                                   ELSE Cardinality(holds)
    BY <2>1, FS_RemoveElement
  <2>3. j \in holds => Cardinality(holds) # 0
    BY <2>1, FS_EmptySet
  <2>4. HoldsOf(c, a)' = holds \ {j}
    BY <1>2
  <2>5. j \in holds <=> c = b /\ a = s /\ ~hold_released(jobs[j])
    BY <1>3
  <2> HIDE DEF holds
  <2> QED
    BY <1>1, <2>1, <2>2, <2>3, <2>4, <2>5
<1>5. ASSUME NEW c \in DOMAIN batches, NEW a \in Account, NEW i \in HoldsOf(c, a)'
      PROVE  Counted(jobs'[i])
  <2>1. i \in HoldsOf(c, a) /\ i # j
    BY <1>2, <1>5
  <2>2. Counted(jobs[i]) /\ i \in DOMAIN jobs
    BY <2>1, HoldsOfJobs DEF WaveInv, WaveHoldsMatch, Counted
  <2> QED
    BY <2>1, <2>2
<1>6. WaveHoldsMatch'
  BY <1>1, <1>4, <1>5 DEF WaveHoldsMatch, Counted
<1>7. OriginsKnown'
  BY <1>1 DEF WaveInv, OriginsKnown
<1> QED
  BY <1>6, <1>7 DEF WaveInv

\* A claim counts one more Job of its claimer.
LEMMA SlotClaimStep ==
  ASSUME WaveInv, BatchesInv, ClaimSlot
  PROVE  WaveInv'
<1>1. PICK s \in Account, b \in DOMAIN batches, j \in JobId : batch_claim(s, b, j)
  BY DEF ClaimSlot
<1> DEFINE batch == batches[b]
           job   == NewJob(batch.buyer, s, batch.amount, batch.fee_bps, now + batch.sla_ms,
                           batch.review_window_ms, batch.reject_split_bps, TRUE, b)
<1>2. /\ j \notin DOMAIN jobs /\ share(j, job)
      /\ batches' = [batches EXCEPT ![b].escrow = @ - batch.amount,
                                    ![b].slots_remaining = @ - 1,
                                    ![b].claims_by_agent[s] = @ + 1]
  BY <1>1 DEF batch_claim, create_claimed
<1>3. /\ job.seller = s /\ job.batch_origin = b /\ job.state = FUNDED
      /\ ~hold_released(job)
  BY DEF NewJob, hold_released
<1>4. \A c \in DOMAIN batches : batches[c] \in PostedBatch
  BY DEF BatchesInv
<1> HIDE DEF batch, job
<1>5. /\ DOMAIN batches' = DOMAIN batches
      /\ \A c \in DOMAIN batches, a \in Account :
           batches'[c].claims_by_agent[a] =
             IF c = b /\ a = s THEN batches[b].claims_by_agent[s] + 1
             ELSE batches[c].claims_by_agent[a]
  BY <1>2, <1>4 DEF PostedBatch
<1>6. /\ DOMAIN jobs' = DOMAIN jobs \cup {j} /\ jobs'[j] = job
      /\ \A i \in DOMAIN jobs : jobs'[i] = jobs[i]
  BY <1>2 DEF share
<1>7. \A c, a : j \notin HoldsOf(c, a)
                /\ HoldsOf(c, a)' = IF c = b /\ a = s THEN HoldsOf(c, a) \cup {j}
                                    ELSE HoldsOf(c, a)
  <2>1. \A c, a : HoldsOf(c, a)' = {i \in DOMAIN jobs' : /\ jobs'[i].batch_origin = c
                                                         /\ jobs'[i].seller = a
                                                         /\ ~hold_released(jobs'[i])}
    BY DEF HoldsOf, JobsOf, hold_released
  <2> QED
    BY <1>2, <1>3, <1>6, <2>1, HoldsOfJobs
<1>8. ASSUME NEW c \in DOMAIN batches, NEW a \in Account
      PROVE  batches'[c].claims_by_agent[a] = Cardinality(HoldsOf(c, a)')
  <2> DEFINE holds == HoldsOf(c, a)
  <2>1. IsFiniteSet(holds) /\ Cardinality(holds) \in Nat
        /\ batches[c].claims_by_agent[a] = Cardinality(holds)
    BY HoldsAreFinite DEF WaveInv, WaveHoldsMatch
  <2>2. j \notin holds
        /\ HoldsOf(c, a)' = IF c = b /\ a = s THEN holds \cup {j} ELSE holds
    BY <1>7
  <2>3. Cardinality(holds \cup {j}) = Cardinality(holds) + 1
    BY <2>1, <2>2, FS_AddElement
  <2> HIDE DEF holds
  <2> QED
    BY <1>5, <2>1, <2>2, <2>3
<1>9. ASSUME NEW c \in DOMAIN batches, NEW a \in Account, NEW i \in HoldsOf(c, a)'
      PROVE  Counted(jobs'[i])
  <2>1. CASE i = j
    BY <1>3, <1>6, <2>1 DEF Counted, Live
  <2>2. CASE i # j
    <3>1. i \in HoldsOf(c, a) /\ i \in DOMAIN jobs
      BY <1>7, <1>9, <2>2, HoldsOfJobs
    <3> QED
      BY <1>6, <3>1 DEF WaveInv, WaveHoldsMatch, Counted
  <2> QED
    BY <2>1, <2>2
<1>10. WaveHoldsMatch'
  BY <1>5, <1>8, <1>9 DEF WaveHoldsMatch, Counted
<1>11. OriginsKnown' /\ IsFiniteSet(DOMAIN jobs')
  BY <1>3, <1>5, <1>6, FS_AddElement DEF WaveInv, OriginsKnown
<1> QED
  BY <1>10, <1>11 DEF WaveInv

\* A fresh wave has no Job and counts none.
LEMMA PostBatchStep ==
  ASSUME WaveInv, BatchesInv, PostBatch
  PROVE  WaveInv'
<1>1. PICK b, batch :
        /\ b \in BatchId /\ b \notin DOMAIN batches
        /\ batch.claims_by_agent = [a \in Account |-> 0]
        /\ batches' = [p \in DOMAIN batches \cup {b} |-> IF p = b THEN batch ELSE batches[p]]
        /\ UNCHANGED jobs
  <2>1. PICK buyer \in Poster, b \in BatchId, payment \in Payment, slots \in SlotsTotal,
             d \in OpenWindow, sla, w \in Duration, l \in MinLevel, m \in MaxClaims :
          create_batch_open(buyer, b, payment, slots, now + d, sla, w, l, m)
    BY DEF PostBatch
  <2> DEFINE batch == [buyer |-> buyer, escrow |-> payment, amount |-> payment \div slots,
                       slots_total |-> slots, slots_remaining |-> slots,
                       fee_bps |-> cfg.fee_bps, open_until_ms |-> now + d, sla_ms |-> sla,
                       review_window_ms |-> w, reject_split_bps |-> BPS_DENOMINATOR,
                       claim_policy |-> CLAIM_POLICY_ANY_ACTIVE, min_seller_level |-> l,
                       max_claims_per_agent |-> m,
                       claims_by_agent |-> [a \in Account |-> 0], active_claims |-> TRUE,
                       returned |-> 0]
  <2>2. /\ b \notin DOMAIN batches
        /\ batches' = [p \in DOMAIN batches \cup {b} |-> IF p = b THEN batch ELSE batches[p]]
    BY <2>1 DEF create_batch_open
  <2>3. UNCHANGED reputationVars
    BY <2>1 DEF create_batch_open
  <2>4. batch.claims_by_agent = [a \in Account |-> 0]
    OBVIOUS
  <2> HIDE DEF batch
  <2> QED
    BY <2>2, <2>3, <2>4 DEF reputationVars, escrowVars
<1>2. \A c, a : HoldsOf(c, a)' = HoldsOf(c, a)
  BY <1>1 DEF HoldsOf, JobsOf, hold_released
<1>3. \A a : HoldsOf(b, a) = {}
  BY <1>1, EscrowAssumption, HoldsOfJobs DEF WaveInv, OriginsKnown
<1>4. WaveHoldsMatch'
  <2>1. ASSUME NEW c \in DOMAIN batches', NEW a \in Account
        PROVE  batches'[c].claims_by_agent[a] = Cardinality(HoldsOf(c, a)')
    <3>1. CASE c = b
      <4>1. batches'[c] = batch
        BY <1>1, <3>1
      <4>2. Cardinality(HoldsOf(c, a)') = 0
        BY <1>2, <1>3, <3>1, FS_EmptySet
      <4> QED
        BY <1>1, <4>1, <4>2
    <3>2. CASE c # b
      <4>1. c \in DOMAIN batches /\ batches'[c] = batches[c]
        BY <1>1, <2>1, <3>2
      <4> QED
        BY <1>2, <4>1 DEF WaveInv, WaveHoldsMatch
    <3> QED
      BY <3>1, <3>2
  <2>2. ASSUME NEW c \in DOMAIN batches', NEW a \in Account, NEW i \in HoldsOf(c, a)'
        PROVE  Counted(jobs'[i])
    <3>1. c \in DOMAIN batches /\ i \in HoldsOf(c, a)
      BY <1>1, <1>2, <1>3, <2>2
    <3> QED
      BY <1>1, <3>1 DEF WaveInv, WaveHoldsMatch, Counted
  <2> QED
    BY <2>1, <2>2 DEF WaveHoldsMatch, Counted
<1>5. OriginsKnown' /\ IsFiniteSet(DOMAIN jobs')
  BY <1>1 DEF WaveInv, OriginsKnown
<1> QED
  BY <1>4, <1>5 DEF WaveInv

\* What a settlement leaves of a Job, its money aside.
LEMMA SettlementMarks ==
  ASSUME JobsInv, NEW j \in DOMAIN jobs, NEW marks, NEW state, NEW shares, NEW event,
         Stamp(j, Settled(jobs[j], state, shares, event), marks)
  PROVE  \E job : /\ job.seller = jobs[j].seller /\ job.buyer = jobs[j].buyer
                  /\ job.batch_origin = jobs[j].batch_origin
                  /\ job.marks = jobs[j].marks \cup marks
                  /\ job.state = state /\ job.settled_by = event
                  /\ jobs' = [jobs EXCEPT ![j] = job]
<1> DEFINE settled == Settled(jobs[j], state, shares, event)
           job     == [settled EXCEPT !.marks = @ \cup marks]
<1>1. jobs[j] \in Job
  BY DEF JobsInv
<1>2. /\ settled.seller = jobs[j].seller /\ settled.batch_origin = jobs[j].batch_origin
      /\ settled.buyer = jobs[j].buyer /\ settled.state = state
      /\ settled.marks = jobs[j].marks /\ settled.settled_by = event
      /\ {"seller", "buyer", "batch_origin", "state", "marks", "settled_by"}
           \subseteq DOMAIN settled
  BY <1>1 DEF Settled, Job
<1>3. jobs' = [jobs EXCEPT ![j] = job]
  BY DEF Stamp
<1> HIDE DEF settled
<1>4. /\ job.seller = jobs[j].seller /\ job.batch_origin = jobs[j].batch_origin
      /\ job.buyer = jobs[j].buyer /\ job.state = state
      /\ job.marks = jobs[j].marks \cup marks /\ job.settled_by = event
  BY <1>2
<1> HIDE DEF job
<1> QED
  BY <1>3, <1>4

LEMMA DeliveryMarks ==
  ASSUME JobsInv, NEW j \in DOMAIN jobs, NEW marks, NEW sender, deliver(sender, j, marks)
  PROVE  \E job : /\ job.seller = jobs[j].seller /\ job.buyer = jobs[j].buyer
                  /\ job.batch_origin = jobs[j].batch_origin
                  /\ job.marks = jobs[j].marks \cup marks
                  /\ job.state \in Live /\ job.settled_by = jobs[j].settled_by
                  /\ jobs' = [jobs EXCEPT ![j] = job]
<1> DEFINE job == [[jobs[j] EXCEPT !.delivered_at_ms = now, !.state = DELIVERED]
                     EXCEPT !.marks = @ \cup marks]
<1>1. jobs[j] \in Job
  BY DEF JobsInv
<1>2. jobs' = [jobs EXCEPT ![j] = job]
  BY DEF deliver, Stamp
<1>3. /\ job.seller = jobs[j].seller /\ job.batch_origin = jobs[j].batch_origin
      /\ job.buyer = jobs[j].buyer /\ job.settled_by = jobs[j].settled_by
      /\ job.state \in Live /\ job.marks = jobs[j].marks \cup marks
  BY <1>1 DEF Job, Live
<1> HIDE DEF job
<1> QED
  BY <1>2, <1>3

\* The doors of reputation.move settle no wave's Job, but for the decline, which
\* keeps the hold, and leave the waves alone.
LEMMA HoldsAtDoors ==
  ASSUME WaveInv, IInv, BatchesInv, Doors, UNCHANGED batches
  PROVE  WaveInv'
<1>0. JobsInv /\ DOMAIN batches \subseteq BatchId
  BY DEF IInv, BatchesInv
<1>1. ASSUME NEW j \in DOMAIN jobs, not_batch(j), NEW marks, NEW state, NEW shares, NEW event,
             Stamp(j, Settled(jobs[j], state, shares, event), marks)
      PROVE  WaveInv'
  <2>1. PICK job : /\ job.seller = jobs[j].seller
                   /\ job.batch_origin = jobs[j].batch_origin
                   /\ jobs' = [jobs EXCEPT ![j] = job]
    BY <1>0, <1>1, SettlementMarks
  <2> QED
    BY <1>0, <1>1, <2>1, HoldsStay DEF not_batch
<1>2. ASSUME NEW j \in DOMAIN jobs, NEW sender, NEW marks,
             "batch_hold_released" \notin marks, deliver(sender, j, marks)
      PROVE  WaveInv'
  <2>1. PICK job : /\ job.seller = jobs[j].seller
                   /\ job.batch_origin = jobs[j].batch_origin
                   /\ job.marks = jobs[j].marks \cup marks
                   /\ job.state \in Live
                   /\ jobs' = [jobs EXCEPT ![j] = job]
    BY <1>0, <1>2, DeliveryMarks
  <2>2. Counted(job) /\ (hold_released(job) <=> hold_released(jobs[j]))
    BY <1>2, <2>1 DEF Counted, hold_released
  <2> QED
    BY <1>0, <2>1, <2>2, HoldsStay
<1>3. "batch_hold_released" \notin {}
      /\ \A job : "batch_hold_released" \notin freed_mark(job)
  BY DEF freed_mark
<1>4. PICK j \in DOMAIN jobs :
        \/ refund_v2(j)
        \/ \E sender \in Account : \/ reject_v2(sender, j)
                                   \/ reject_v2_agent_buyer(sender, j)
                                   \/ decline_v2(sender, j)
                                   \/ release_v2(sender, j)
                                   \/ deliver_v2(sender, j)
                                   \/ deliver_v1(sender, j)
  BY DEF Doors
<1>5. CASE refund_v2(j)
  BY <1>1, <1>5 DEF refund_v2, refund_settle_pkg
<1>6. ASSUME NEW sender \in Account,
             reject_v2(sender, j) \/ reject_v2_agent_buyer(sender, j)
      PROVE  WaveInv'
  BY <1>1, <1>6 DEF reject_v2, reject_v2_agent_buyer, reject_settle_pkg
<1>7. ASSUME NEW sender \in Account, release_v2(sender, j) PROVE WaveInv'
  BY <1>1, <1>7 DEF release_v2, release_settle_pkg
<1>8. ASSUME NEW sender \in Account, deliver_v2(sender, j) \/ deliver_v1(sender, j)
      PROVE  WaveInv'
  BY <1>2, <1>3, <1>8 DEF deliver_v2, deliver_v1
<1>9. ASSUME NEW sender \in Account, decline_v2(sender, j) PROVE WaveInv'
  <2>1. PICK job : /\ job.seller = jobs[j].seller
                   /\ job.batch_origin = jobs[j].batch_origin
                   /\ job.marks = jobs[j].marks \cup freed_mark(jobs[j])
                   /\ job.settled_by = "JobDeclined"
                   /\ jobs' = [jobs EXCEPT ![j] = job]
    BY <1>0, <1>9, SettlementMarks DEF decline_v2, decline_settle_pkg
  <2>2. Counted(job) /\ (hold_released(job) <=> hold_released(jobs[j]))
    BY <1>3, <2>1 DEF Counted, hold_released
  <2> QED
    BY <1>0, <2>1, <2>2, HoldsStay
<1> QED
  BY <1>4, <1>5, <1>6, <1>7, <1>8, <1>9

\* The doors of batch.move stamp the Job and give the hold back.
LEMMA HoldsAtBatchDoors ==
  ASSUME WaveInv, IInv, BatchesInv, BatchDoors
  PROVE  WaveInv'
<1>0. JobsInv
  BY DEF IInv
<1>1. ASSUME NEW b \in DOMAIN batches, NEW j \in DOMAIN jobs, from_batch(b, j), NEW job,
             job.seller = jobs[j].seller, job.batch_origin = jobs[j].batch_origin,
             hold_released(job), jobs' = [jobs EXCEPT ![j] = job],
             free_wave_hold(b, jobs[j])
      PROVE  WaveInv'
  <2>1. jobs[j].seller \in Account
    BY <1>0 DEF JobsInv, Job
  <2> QED
    BY <1>1, <2>1, HoldFreed DEF from_batch
<1>2. ASSUME NEW b \in DOMAIN batches, NEW j \in DOMAIN jobs, from_batch(b, j),
             NEW state, NEW shares, NEW event,
             Stamp(j, Settled(jobs[j], state, shares, event), released_mark(jobs[j])),
             free_wave_hold(b, jobs[j])
      PROVE  WaveInv'
  <2>1. PICK job : /\ job.seller = jobs[j].seller
                   /\ job.batch_origin = jobs[j].batch_origin
                   /\ job.marks = jobs[j].marks \cup released_mark(jobs[j])
                   /\ jobs' = [jobs EXCEPT ![j] = job]
    BY <1>0, <1>2, SettlementMarks
  <2>2. hold_released(job)
    BY <2>1 DEF hold_released, released_mark
  <2> QED
    BY <1>1, <1>2, <2>1, <2>2
<1>3. PICK b \in DOMAIN batches, j \in DOMAIN jobs :
        \/ batch_refund(b, j)
        \/ \E sender \in Account : \/ batch_release(sender, b, j)
                                   \/ batch_reject(sender, b, j)
                                   \/ batch_reject_agent_buyer(sender, b, j)
                                   \/ batch_deliver_v2(sender, b, j)
  BY DEF BatchDoors
<1>4. CASE batch_refund(b, j)
  BY <1>2, <1>4 DEF batch_refund, refund_settle_pkg
<1>5. ASSUME NEW sender \in Account, batch_release(sender, b, j) PROVE WaveInv'
  BY <1>2, <1>5 DEF batch_release, release_settle_pkg
<1>6. ASSUME NEW sender \in Account,
             batch_reject(sender, b, j) \/ batch_reject_agent_buyer(sender, b, j)
      PROVE  WaveInv'
  BY <1>2, <1>6 DEF batch_reject, batch_reject_agent_buyer, reject_settle_pkg
<1>7. ASSUME NEW sender \in Account, batch_deliver_v2(sender, b, j) PROVE WaveInv'
  <2> DEFINE marks == freed_mark(jobs[j]) \cup {"batch_hold_released"}
  <2>1. deliver(sender, j, marks) /\ from_batch(b, j) /\ free_wave_hold(b, jobs[j])
    BY <1>7 DEF batch_deliver_v2
  <2>2. PICK job : /\ job.seller = jobs[j].seller
                   /\ job.batch_origin = jobs[j].batch_origin
                   /\ job.marks = jobs[j].marks \cup marks
                   /\ jobs' = [jobs EXCEPT ![j] = job]
    BY <1>0, <2>1, DeliveryMarks
  <2>3. hold_released(job)
    BY <2>2 DEF hold_released
  <2> QED
    BY <1>1, <2>1, <2>2, <2>3
<1> QED
  BY <1>3, <1>4, <1>5, <1>6, <1>7
-----------------------------------------------------------------------------
LEMMA WaveInit == MarketInit => WaveInv
BY FS_EmptySet DEF MarketInit, EscrowInit, WaveInv, WaveHoldsMatch, OriginsKnown

LEMMA WaveStep ==
  ASSUME MarketInv, WaveInv, [MarketNext]_marketVars
  PROVE  WaveInv'
<1>0. IInv /\ BatchesInv /\ DOMAIN batches \subseteq BatchId
  BY DEF MarketInv, PostsInv, BatchesInv
<1>1. CASE UNCHANGED <<jobs, batches>>
  BY <1>1, HoldsUntouched
<1>2. CASE ReputationNext /\ UNCHANGED batches
  <2>1. CASE Doors
    BY <1>0, <1>2, <2>1, HoldsAtDoors
  <2>2. CASE Hire
    <3>1. PICK buyer, seller \in Account, j \in JobId, amount \in Amount,
               d, w \in Duration, s \in Split :
            create(buyer, seller, j, amount, now + d, w, s)
      BY <2>2 DEF Hire
    <3> DEFINE job == NewJob(buyer, seller, amount, cfg.fee_bps, now + d, w, s, FALSE, NoBatch)
    <3>2. job.batch_origin = NoBatch /\ j \notin DOMAIN jobs /\ share(j, job)
      BY <3>1 DEF NewJob, create
    <3> HIDE DEF job
    <3> QED
      BY <1>0, <1>2, <3>2, HoldsBeside
  <2>3. CASE UNCHANGED jobs
    BY <1>1, <1>2, <2>3
  <2>4. Tick \/ Admin \/ RecordBoard => UNCHANGED jobs
    BY DEF Tick, Admin, SetCfg, set_fee_bps, set_fee_receiver, set_min_job_amount,
       set_max_job_amount, set_tier_active_cap, set_no_delivery_regression_floor,
       set_max_batch_slots, migrate, migrate_successor, RecordBoard, record_score_board_pkg
  <2>5. ReputationNext => Doors \/ Hire \/ UNCHANGED jobs
    <3>1. RegistryAlone \/ create_score_board \/ Reconcile \/ Review
          \/ (\E a \in Account : create_empty_score(a)) => UNCHANGED jobs
      BY <2>4 DEF RegistryAlone, create_score_board, Reconcile, set_active_seller_jobs,
         Review, submit_first_review, submit_review, create_empty_score, escrowVars
    <3> QED
      BY <2>4, <3>1 DEF ReputationNext, EscrowAlone
  <2> QED
    BY <1>2, <2>1, <2>2, <2>3, <2>5
<1>3. CASE OpeningNext /\ UNCHANGED batches
  <2>1. CASE ClaimOpening
    <3>1. PICK a \in Account, o \in DOMAIN openings, j \in JobId : do_claim(a, o, j)
      BY <2>1 DEF ClaimOpening, claim_v2, claim_proven_v2
    <3> DEFINE op  == openings[o]
               job == NewJob(op.buyer, a, op.escrow, op.fee_bps, now + op.sla_ms,
                             op.review_window_ms, op.reject_split_bps, TRUE, NoBatch)
    <3>2. job.batch_origin = NoBatch /\ j \notin DOMAIN jobs /\ share(j, job)
      BY <3>1 DEF NewJob, do_claim, create_claimed
    <3> HIDE DEF job
    <3> QED
      BY <1>0, <1>3, <3>2, HoldsBeside
  <2>2. PostOpening => UNCHANGED reputationVars
    BY DEF PostOpening, create_open_v2
  <2>3. ReturnOpening => UNCHANGED reputationVars
    BY DEF ReturnOpening, cancel_open, refund_unclaimed, repay_buyer
  <2> QED
    BY <1>1, <1>3, <2>1, <2>2, <2>3 DEF OpeningNext, reputationVars, escrowVars
<1>4. CASE BatchNext
  <2>1. CASE ReturnSlots
    <3>1. PICK b \in DOMAIN batches : drain_remainder(b)
      BY <2>1 DEF ReturnSlots, cancel_batch_open, refund_batch_expired
    <3>2. \A c \in DOMAIN batches : batches[c] \in PostedBatch
      BY <1>0 DEF BatchesInv
    <3>3. /\ DOMAIN batches' = DOMAIN batches
          /\ \A c \in DOMAIN batches :
               batches'[c].claims_by_agent = batches[c].claims_by_agent
      BY <3>1, <3>2 DEF drain_remainder, PostedBatch
    <3>4. UNCHANGED jobs
      BY <3>1 DEF drain_remainder, reputationVars, escrowVars
    <3> QED
      BY <3>3, <3>4, HoldsUntouched
  <2> QED
    BY <1>0, <1>4, <2>1, PostBatchStep, SlotClaimStep, HoldsAtBatchDoors DEF BatchNext
<1>5. UNCHANGED marketVars => UNCHANGED <<jobs, batches>>
  BY DEF marketVars, reputationVars, escrowVars
<1> QED
  BY <1>1, <1>2, <1>3, <1>4, <1>5 DEF MarketNext

\* No door gives a hold of a wave back twice or forgets one, and a decline keeps
\* its hold for good, for every wave, claimer and order of doors.
THEOREM WaveHoldsAreKept == MarketSpec => []WaveHoldsMatch
<1>1. MarketInit => WaveInv
  BY WaveInit
<1>2. MarketInv /\ WaveInv /\ [MarketNext]_marketVars => WaveInv'
  BY WaveStep
<1>3. WaveInv => WaveHoldsMatch
  BY DEF WaveInv
<1> QED
  BY <1>1, <1>2, <1>3, MarketInductive, PTL DEF MarketSpec

-----------------------------------------------------------------------------
(***************************************************************************)
(* The money of a wave.                                                    *)
(***************************************************************************)

WaveMoney == {"buyer", "escrow", "amount", "slots_total", "slots_remaining", "fee_bps", "returned"}

SameMoneyOfWave(new, old) == \A field \in WaveMoney : new[field] = old[field]

\* What n Jobs leave of a wave's payment.
FundsAdd(batch, n) ==
  /\ assert_invariant(batch)
  /\ batch.escrow + batch.returned + batch.amount * n = batch.amount * batch.slots_total

MintedFrom(batch, job) ==
  job.amount = batch.amount /\ job.buyer = batch.buyer /\ job.fee_bps = batch.fee_bps

LEMMA FundsOfWave ==
  WaveFundsAccountedFor <=>
    \A b \in DOMAIN batches :
      /\ FundsAdd(batches[b], Cardinality(JobsOf(b)))
      /\ \A j \in JobsOf(b) : MintedFrom(batches[b], jobs[j])
BY DEF WaveFundsAccountedFor, FundsAdd, MintedFrom

LEMMA JobsOfAreFinite ==
  ASSUME IsFiniteSet(DOMAIN jobs)
  PROVE  \A b : IsFiniteSet(JobsOf(b)) /\ Cardinality(JobsOf(b)) \in Nat
<1> TAKE b
<1>1. JobsOf(b) \in SUBSET DOMAIN jobs
  BY DEF JobsOf
<1> QED
  BY <1>1, FS_Subset, FS_CardinalityType

\* The assert of a claim never fires: while the escrow is the unclaimed slots'
\* and one is left, it covers a slot, and what stays is the other slots'.
LEMMA AssertNeverFires ==
  ASSUME NEW batch \in PostedBatch, NEW n \in Nat, FundsAdd(batch, n), batch.slots_remaining > 0,
         NEW after, after.amount = batch.amount, after.slots_total = batch.slots_total,
         after.returned = batch.returned, after.escrow = batch.escrow - batch.amount,
         after.slots_remaining = batch.slots_remaining - 1
  PROVE  batch.escrow >= batch.amount /\ FundsAdd(after, n + 1)
<1> DEFINE a == batch.amount
           k == batch.slots_remaining
<1>1. /\ a \in Nat /\ k \in Nat /\ k > 0
      /\ batch.escrow \in Nat /\ batch.returned \in Nat /\ batch.slots_total \in Nat
  BY DEF PostedBatch
<1>2. batch.escrow = a * k /\ batch.escrow + batch.returned + a * n = a * batch.slots_total
  BY DEF FundsAdd, assert_invariant
<1> HIDE DEF a, k
<1>3. a * k = a * (k - 1) + a /\ a * (k - 1) \in Nat /\ a * (n + 1) = a * n + a
      /\ a * n \in Nat /\ a * batch.slots_total \in Nat
  BY <1>1
<1>4. batch.escrow >= a /\ batch.escrow - a = a * (k - 1)
      /\ (batch.escrow - a) + batch.returned + a * (n + 1) = a * batch.slots_total
  BY <1>1, <1>2, <1>3
<1> QED
  BY <1>4 DEF FundsAdd, assert_invariant, a, k

\* No wave gets a Job but by a claim of one of its slots.
LEMMA JobsOfWavesStay ==
  ASSUME IInv, BatchesInv, TermsStay, EscrowPart \/ UNCHANGED escrowVars \/ ClaimOpening
  PROVE  \A b \in DOMAIN batches : JobsOf(b)' = JobsOf(b)
<1>1. ASSUME NEW j \in DOMAIN jobs' \ DOMAIN jobs PROVE jobs'[j].batch_origin = NoBatch
  <2>1. ASSUME NEW i, NEW job, job.batch_origin = NoBatch, share(i, job)
        PROVE  jobs'[j].batch_origin = NoBatch
    BY <1>1, <2>1 DEF share
  <2>2. CASE Hire
    <3>1. PICK buyer, seller \in Account, i \in JobId, amount \in Amount,
               d, w \in Duration, s \in Split :
            create(buyer, seller, i, amount, now + d, w, s)
      BY <2>2 DEF Hire
    <3> QED
      BY <2>1, <3>1 DEF create, NewJob
  <2>3. CASE ClaimOpening
    <3>1. PICK a \in Account, o \in DOMAIN openings, i \in JobId : do_claim(a, o, i)
      BY <2>3 DEF ClaimOpening, claim_v2, claim_proven_v2
    <3> DEFINE op  == openings[o]
               job == NewJob(op.buyer, a, op.escrow, op.fee_bps, now + op.sla_ms,
                             op.review_window_ms, op.reject_split_bps, TRUE, NoBatch)
    <3>2. job.batch_origin = NoBatch /\ share(i, job)
      BY <3>1 DEF NewJob, do_claim, create_claimed
    <3> HIDE DEF job
    <3> QED
      BY <2>1, <3>2
  <2>4. CASE Settle
    <3>1. DOMAIN jobs' = DOMAIN jobs
      BY <2>4, SettleMovesNoTerm
    <3> QED
      BY <1>1, <3>1
  <2>5. CASE UNCHANGED jobs
    BY <1>1, <2>5
  <2>6. Tick \/ Admin \/ RecordBoard \/ UNCHANGED escrowVars => UNCHANGED jobs
    BY DEF Tick, Admin, SetCfg, set_fee_bps, set_fee_receiver, set_min_job_amount,
       set_max_job_amount, set_tier_active_cap, set_no_delivery_regression_floor,
       set_max_batch_slots, migrate, migrate_successor, RecordBoard, record_score_board_pkg,
       escrowVars
  <2> QED
    BY <2>2, <2>3, <2>4, <2>5, <2>6 DEF EscrowPart
<1>2. \A j \in DOMAIN jobs : j \in DOMAIN jobs' /\ jobs'[j].batch_origin = jobs[j].batch_origin
  BY DEF TermsStay, Term
<1>3. NoBatch \notin DOMAIN batches
  BY EscrowAssumption DEF BatchesInv
<1> QED
  BY <1>1, <1>2, <1>3 DEF JobsOf

\* A step that leaves the waves' money and their Jobs alone.
LEMMA FundsUntouched ==
  ASSUME WaveFundsAccountedFor, TermsStay, DOMAIN batches' = DOMAIN batches,
         \A b \in DOMAIN batches : /\ JobsOf(b)' = JobsOf(b)
                                   /\ SameMoneyOfWave(batches'[b], batches[b])
  PROVE  WaveFundsAccountedFor'
<1>1. \A b \in DOMAIN batches : \A j \in JobsOf(b) :
        j \in DOMAIN jobs /\ jobs'[j].amount = jobs[j].amount
        /\ jobs'[j].buyer = jobs[j].buyer /\ jobs'[j].fee_bps = jobs[j].fee_bps
  BY DEF JobsOf, TermsStay, Term
<1>2. \A b \in DOMAIN batches :
        /\ batches'[b].buyer = batches[b].buyer /\ batches'[b].escrow = batches[b].escrow
        /\ batches'[b].amount = batches[b].amount /\ batches'[b].fee_bps = batches[b].fee_bps
        /\ batches'[b].slots_total = batches[b].slots_total
        /\ batches'[b].slots_remaining = batches[b].slots_remaining
        /\ batches'[b].returned = batches[b].returned
  BY DEF SameMoneyOfWave, WaveMoney
<1> QED
  BY <1>1, <1>2 DEF WaveFundsAccountedFor, assert_invariant

\* A claim turns one slot into one Job.
LEMMA FundsAtClaim ==
  ASSUME WaveInv, BatchesInv, TermsStay, WaveFundsAccountedFor, ClaimSlot
  PROVE  WaveFundsAccountedFor'
<1>1. PICK s \in Account, b \in DOMAIN batches, j \in JobId : batch_claim(s, b, j)
  BY DEF ClaimSlot
<1> DEFINE batch == batches[b]
           after == batches'[b]
           job   == NewJob(batch.buyer, s, batch.amount, batch.fee_bps, now + batch.sla_ms,
                           batch.review_window_ms, batch.reject_split_bps, TRUE, b)
<1>2. /\ j \notin DOMAIN jobs /\ share(j, job) /\ batch.slots_remaining > 0
      /\ batches' = [batches EXCEPT ![b].escrow = @ - batch.amount,
                                    ![b].slots_remaining = @ - 1,
                                    ![b].claims_by_agent[s] = @ + 1]
  BY <1>1 DEF batch_claim, create_claimed, may_claim_slot
<1>3. job.batch_origin = b /\ MintedFrom(batch, job)
  BY DEF NewJob, MintedFrom
<1>4. batch \in PostedBatch
  BY DEF BatchesInv
<1>5. /\ DOMAIN batches' = DOMAIN batches
      /\ \A c \in DOMAIN batches \ {b} : batches'[c] = batches[c]
      /\ after.escrow = batch.escrow - batch.amount
      /\ after.slots_remaining = batch.slots_remaining - 1
      /\ after.amount = batch.amount /\ after.slots_total = batch.slots_total
      /\ after.returned = batch.returned /\ after.buyer = batch.buyer
      /\ after.fee_bps = batch.fee_bps
  BY <1>2, <1>4 DEF PostedBatch
<1> HIDE DEF job
<1>6. /\ DOMAIN jobs' = DOMAIN jobs \cup {j} /\ jobs'[j] = job
      /\ \A i \in DOMAIN jobs : jobs'[i] = jobs[i]
  BY <1>2 DEF share
<1>7. /\ JobsOf(b)' = JobsOf(b) \cup {j} /\ j \notin JobsOf(b)
      /\ \A c \in DOMAIN batches \ {b} : JobsOf(c)' = JobsOf(c)
  BY <1>2, <1>3, <1>6 DEF JobsOf
<1> HIDE DEF batch, after
<1>8. FundsAdd(after, Cardinality(JobsOf(b)'))
  <2> DEFINE n == Cardinality(JobsOf(b))
  <2>1. IsFiniteSet(JobsOf(b)) /\ n \in Nat
    BY JobsOfAreFinite DEF WaveInv
  <2>2. Cardinality(JobsOf(b)') = n + 1
    BY <1>7, <2>1, FS_AddElement
  <2>3. FundsAdd(batch, n)
    BY FundsOfWave DEF batch
  <2> HIDE DEF n
  <2>4. FundsAdd(after, n + 1)
    BY <1>2, <1>4, <1>5, <2>1, <2>3, AssertNeverFires
  <2> QED
    BY <2>2, <2>4
<1>9. \A i \in JobsOf(b)' : MintedFrom(after, jobs'[i])
  <2>1. \A i \in JobsOf(b) : i \in DOMAIN jobs /\ MintedFrom(batch, jobs[i])
    BY FundsOfWave DEF JobsOf, batch
  <2> QED
    BY <1>3, <1>5, <1>6, <1>7, <2>1 DEF MintedFrom
<1>10. ASSUME NEW c \in DOMAIN batches \ {b}
       PROVE  /\ FundsAdd(batches'[c], Cardinality(JobsOf(c)'))
              /\ \A i \in JobsOf(c)' : MintedFrom(batches'[c], jobs'[i])
  <2>1. \A i \in JobsOf(c) : i \in DOMAIN jobs /\ MintedFrom(batches[c], jobs[i])
    BY FundsOfWave DEF JobsOf
  <2>2. FundsAdd(batches[c], Cardinality(JobsOf(c)))
    BY FundsOfWave
  <2> QED
    BY <1>5, <1>6, <1>7, <2>1, <2>2
<1>11. ASSUME NEW c \in DOMAIN batches'
       PROVE  /\ FundsAdd(batches'[c], Cardinality(JobsOf(c)'))
              /\ \A i \in JobsOf(c)' : MintedFrom(batches'[c], jobs'[i])
  BY <1>5, <1>8, <1>9, <1>10 DEF after
<1>12. WaveFundsAccountedFor' <=>
         \A c \in DOMAIN batches' :
           /\ FundsAdd(batches'[c], Cardinality(JobsOf(c)'))
           /\ \A i \in JobsOf(c)' : MintedFrom(batches'[c], jobs'[i])
  BY DEF WaveFundsAccountedFor, FundsAdd, MintedFrom, assert_invariant
<1> QED
  BY <1>11, <1>12

\* A fresh wave holds its payment, in whole slots.
LEMMA FundsAtPost ==
  ASSUME IInv, WaveInv, BatchesInv, WaveFundsAccountedFor, PostBatch
  PROVE  WaveFundsAccountedFor'
<1>1. PICK buyer \in Poster, b \in BatchId, payment \in Payment, slots \in SlotsTotal,
           d \in OpenWindow, sla, w \in Duration, l \in MinLevel, m \in MaxClaims :
        create_batch_open(buyer, b, payment, slots, now + d, sla, w, l, m)
  BY DEF PostBatch
<1> DEFINE amount == payment \div slots
           batch == [buyer |-> buyer, escrow |-> payment, amount |-> amount,
                     slots_total |-> slots, slots_remaining |-> slots,
                     fee_bps |-> cfg.fee_bps, open_until_ms |-> now + d, sla_ms |-> sla,
                     review_window_ms |-> w, reject_split_bps |-> BPS_DENOMINATOR,
                     claim_policy |-> CLAIM_POLICY_ANY_ACTIVE, min_seller_level |-> l,
                     max_claims_per_agent |-> m,
                     claims_by_agent |-> [a \in Account |-> 0], active_claims |-> TRUE,
                     returned |-> 0]
<1>2. /\ b \notin DOMAIN batches /\ amount * slots = payment /\ slots \in 1..cfg.max_batch_slots
      /\ batches' = [p \in DOMAIN batches \cup {b} |-> IF p = b THEN batch ELSE batches[p]]
      /\ UNCHANGED jobs
  BY <1>1 DEF create_batch_open, reputationVars, escrowVars
<1>3. payment \in Nat /\ slots \in Nat /\ slots > 0
  <2>1. payment \in Nat /\ slots \in Nat
    BY BatchAssumption
  <2>2. cfg.max_batch_slots \in Nat
    BY DEF IInv, ConfigInv, Config
  <2> QED
    BY <1>2, <2>1, <2>2
<1>4. amount \in Nat
  BY <1>3, DivRoundsDown
<1> HIDE DEF amount
<1>5. /\ batch.escrow = amount * batch.slots_remaining
      /\ batch.escrow + batch.returned + batch.amount * 0 = batch.amount * batch.slots_total
  BY <1>2, <1>3, <1>4
<1>6. FundsAdd(batch, 0)
  BY <1>5 DEF FundsAdd, assert_invariant
<1> HIDE DEF batch
<1>7. \A c : JobsOf(c)' = JobsOf(c)
  BY <1>2 DEF JobsOf
<1>8. JobsOf(b) = {} /\ Cardinality(JobsOf(b)) = 0
  <2>1. JobsOf(b) = {}
    BY <1>2, EscrowAssumption DEF WaveInv, OriginsKnown, JobsOf
  <2> QED
    BY <2>1, FS_EmptySet
<1>9. ASSUME NEW c \in DOMAIN batches'
      PROVE  /\ FundsAdd(batches'[c], Cardinality(JobsOf(c)'))
             /\ \A i \in JobsOf(c)' : MintedFrom(batches'[c], jobs'[i])
  <2>1. CASE c = b
    BY <1>2, <1>6, <1>7, <1>8, <2>1
  <2>2. CASE c # b
    <3>1. c \in DOMAIN batches /\ batches'[c] = batches[c]
      BY <1>2, <1>9, <2>2
    <3> QED
      BY <1>2, <1>7, <3>1, FundsOfWave
  <2> QED
    BY <2>1, <2>2
<1>10. WaveFundsAccountedFor' <=>
         \A c \in DOMAIN batches' :
           /\ FundsAdd(batches'[c], Cardinality(JobsOf(c)'))
           /\ \A i \in JobsOf(c)' : MintedFrom(batches'[c], jobs'[i])
  BY DEF WaveFundsAccountedFor, FundsAdd, MintedFrom, assert_invariant
<1> QED
  BY <1>9, <1>10

\* A drain moves the whole escrow to what went back.
LEMMA FundsAtDrain ==
  ASSUME WaveInv, BatchesInv, WaveFundsAccountedFor, ReturnSlots
  PROVE  WaveFundsAccountedFor'
<1>1. PICK b \in DOMAIN batches : drain_remainder(b)
  BY DEF ReturnSlots, cancel_batch_open, refund_batch_expired
<1> DEFINE batch == batches[b]
           after == batches'[b]
<1>2. batch \in PostedBatch
  BY DEF BatchesInv
<1>3. /\ batches' = [batches EXCEPT ![b].slots_remaining = 0, ![b].escrow = 0,
                                    ![b].returned = @ + batches[b].escrow]
      /\ UNCHANGED jobs
  BY <1>1 DEF drain_remainder, reputationVars, escrowVars
<1>4. /\ DOMAIN batches' = DOMAIN batches
      /\ \A c \in DOMAIN batches \ {b} : batches'[c] = batches[c]
      /\ after.escrow = 0 /\ after.slots_remaining = 0
      /\ after.returned = batch.returned + batch.escrow
      /\ after.amount = batch.amount /\ after.slots_total = batch.slots_total
      /\ after.buyer = batch.buyer /\ after.fee_bps = batch.fee_bps
  BY <1>2, <1>3 DEF PostedBatch
<1>5. \A c : JobsOf(c)' = JobsOf(c)
  BY <1>3 DEF JobsOf
<1> DEFINE n == Cardinality(JobsOf(b))
<1>6. n \in Nat
  BY JobsOfAreFinite DEF WaveInv
<1>7. FundsAdd(batch, n) /\ \A j \in JobsOf(b) : MintedFrom(batch, jobs[j])
  BY FundsOfWave
<1> HIDE DEF batch, after, n
<1>8. batch.amount \in Nat /\ batch.escrow \in Nat /\ batch.returned \in Nat
  BY <1>2 DEF PostedBatch
<1>9. FundsAdd(after, n)
  <2>1. batch.amount * 0 = 0
    BY <1>8
  <2>2. batch.escrow + batch.returned + batch.amount * n = batch.amount * batch.slots_total
    BY <1>7 DEF FundsAdd
  <2>3. batch.amount * n \in Nat
    BY <1>6, <1>8
  <2>4. 0 + (batch.returned + batch.escrow) + batch.amount * n = batch.amount * batch.slots_total
    BY <1>8, <2>2, <2>3
  <2> QED
    BY <1>4, <2>1, <2>4 DEF FundsAdd, assert_invariant
<1>10. ASSUME NEW c \in DOMAIN batches'
       PROVE  /\ FundsAdd(batches'[c], Cardinality(JobsOf(c)'))
              /\ \A i \in JobsOf(c)' : MintedFrom(batches'[c], jobs'[i])
  <2>1. CASE c = b
    BY <1>3, <1>4, <1>5, <1>7, <1>9, <2>1 DEF MintedFrom, after, n
  <2>2. CASE c # b
    BY <1>3, <1>4, <1>5, <2>2, FundsOfWave
  <2> QED
    BY <2>1, <2>2
<1>11. WaveFundsAccountedFor' <=>
         \A c \in DOMAIN batches' :
           /\ FundsAdd(batches'[c], Cardinality(JobsOf(c)'))
           /\ \A i \in JobsOf(c)' : MintedFrom(batches'[c], jobs'[i])
  BY DEF WaveFundsAccountedFor, FundsAdd, MintedFrom, assert_invariant
<1> QED
  BY <1>10, <1>11

LEMMA FundsOfWavesStep ==
  ASSUME MarketInv, WaveInv, WaveFundsAccountedFor, [MarketNext]_marketVars
  PROVE  WaveFundsAccountedFor'
<1>0. IInv /\ PostsInv /\ BatchesInv /\ TermsStay
  BY JobsStep DEF MarketInv, PostsInv
<1>1. EscrowPart \/ UNCHANGED escrowVars \/ ClaimOpening \/ ClaimSlot
  BY MarketStep DEF marketVars, reputationVars
<1>2. PostBatch \/ ClaimSlot \/ BatchDoors \/ ReturnSlots \/ UNCHANGED batches
  BY DEF MarketNext, BatchNext, marketVars
<1>3. CASE ClaimSlot
  BY <1>0, <1>3, FundsAtClaim
<1>4. CASE PostBatch
  BY <1>0, <1>4, FundsAtPost
<1>5. CASE ReturnSlots
  BY <1>0, <1>5, FundsAtDrain
<1>6. CASE ~ClaimSlot /\ (BatchDoors \/ UNCHANGED batches)
  <2>1. \A b \in DOMAIN batches : JobsOf(b)' = JobsOf(b)
    BY <1>0, <1>1, <1>6, JobsOfWavesStay
  <2>2. /\ DOMAIN batches' = DOMAIN batches
        /\ \A b \in DOMAIN batches : SameMoneyOfWave(batches'[b], batches[b])
    <3>1. CASE BatchDoors
      <4>1. PICK b \in DOMAIN batches, j \in DOMAIN jobs : free_wave_hold(b, jobs[j])
        BY <3>1 DEF BatchDoors, batch_refund, batch_release, batch_reject,
           batch_reject_agent_buyer, batch_deliver_v2
      <4>2. batches[b] \in PostedBatch
        BY <1>0 DEF BatchesInv
      <4> QED
        BY <4>1, <4>2 DEF free_wave_hold, SameMoneyOfWave, WaveMoney, PostedBatch
    <3>2. CASE UNCHANGED batches
      BY <3>2 DEF SameMoneyOfWave
    <3> QED
      BY <1>6, <3>1, <3>2
  <2> QED
    BY <1>0, <2>1, <2>2, FundsUntouched
<1> QED
  BY <1>2, <1>3, <1>4, <1>5, <1>6

\* What was paid for a wave is with its unclaimed slots, back with the buyer, or
\* in the Jobs its claims minted, slot by slot and on the wave's terms, for every
\* payment and number of slots.
THEOREM WaveFundsArePlaced == MarketSpec => []WaveFundsAccountedFor
<1>1. MarketInit => WaveFundsAccountedFor
  BY DEF MarketInit, WaveFundsAccountedFor
<1>2. MarketInit => WaveInv
  BY WaveInit
<1>3. MarketInv /\ WaveInv /\ [MarketNext]_marketVars => WaveInv'
  BY WaveStep
<1>4. MarketInv /\ WaveInv /\ WaveFundsAccountedFor /\ [MarketNext]_marketVars
        => WaveFundsAccountedFor'
  BY FundsOfWavesStep
<1> QED
  BY <1>1, <1>2, <1>3, <1>4, MarketInductive, PTL DEF MarketSpec

-----------------------------------------------------------------------------
(***************************************************************************)
(* The outcomes on a score.                                                *)
(***************************************************************************)

Refunds(a) == {j \in DOMAIN jobs : jobs[j].seller = a /\ jobs[j].settled_by = "JobRefunded"}
Rejects(a) == {j \in DOMAIN jobs : jobs[j].seller = a /\ jobs[j].state = REJECTED}
BuyerRejects(a) == {j \in DOMAIN jobs : jobs[j].buyer = a /\ jobs[j].state = REJECTED}

\* The outcome counters of a score.
Tallies(score) ==
  /\ {"no_delivery", "rejected_after_delivery", "as_buyer_rejected"} \subseteq DOMAIN score
  /\ score.no_delivery \in Nat /\ score.rejected_after_delivery \in Nat
  /\ score.as_buyer_rejected \in Nat

SameTallies(score, other) ==
  /\ Tallies(score)
  /\ score.no_delivery = other.no_delivery
  /\ score.rejected_after_delivery = other.rejected_after_delivery
  /\ score.as_buyer_rejected = other.as_buyer_rejected

\* A Job cannot end badly before its seller has a score to write that on.
ReceiptInv ==
  /\ IsFiniteSet(DOMAIN jobs)
  /\ \A a \in DOMAIN scores : Tallies(scores[a])
  /\ \A a : a \notin DOMAIN scores => Refunds(a) = {} /\ Rejects(a) = {}
  /\ OutcomesAreReceipts

LEMMA ReceiptsCounted ==
  OutcomesAreReceipts <=>
    \A a \in DOMAIN scores :
      /\ scores[a].no_delivery = Cardinality(Refunds(a))
      /\ scores[a].rejected_after_delivery = Cardinality(Rejects(a))
      /\ scores[a].as_buyer_rejected <= Cardinality(BuyerRejects(a))
BY DEF OutcomesAreReceipts, Refunds, Rejects, BuyerRejects

LEMMA ReceiptsAreFinite ==
  ASSUME IsFiniteSet(DOMAIN jobs)
  PROVE  \A a : /\ IsFiniteSet(Refunds(a)) /\ Cardinality(Refunds(a)) \in Nat
                /\ IsFiniteSet(Rejects(a)) /\ Cardinality(Rejects(a)) \in Nat
                /\ IsFiniteSet(BuyerRejects(a)) /\ Cardinality(BuyerRejects(a)) \in Nat
<1> TAKE a
<1>1. /\ Refunds(a) \in SUBSET DOMAIN jobs /\ Rejects(a) \in SUBSET DOMAIN jobs
      /\ BuyerRejects(a) \in SUBSET DOMAIN jobs
  BY DEF Refunds, Rejects, BuyerRejects
<1> QED
  BY <1>1, FS_Subset, FS_CardinalityType

\* A step that ends no Job badly and writes no outcome; a new score starts at 0.
LEMMA ReceiptsStay ==
  ASSUME ReceiptInv, IsFiniteSet(DOMAIN jobs'),
         \A a : /\ Refunds(a)' = Refunds(a) /\ Rejects(a)' = Rejects(a)
                /\ BuyerRejects(a)' = BuyerRejects(a),
         DOMAIN scores \subseteq DOMAIN scores',
         \A a \in DOMAIN scores' :
           SameTallies(scores'[a], IF a \in DOMAIN scores THEN scores[a] ELSE EmptyScore)
  PROVE  ReceiptInv'
<1>1. \A a \in DOMAIN scores' : Tallies(scores'[a])
  BY DEF SameTallies
<1>2. ASSUME NEW a \in DOMAIN scores'
      PROVE  /\ scores'[a].no_delivery = Cardinality(Refunds(a)')
             /\ scores'[a].rejected_after_delivery = Cardinality(Rejects(a)')
             /\ scores'[a].as_buyer_rejected <= Cardinality(BuyerRejects(a)')
  <2>1. CASE a \in DOMAIN scores
    BY <2>1, ReceiptsCounted DEF ReceiptInv, SameTallies
  <2>2. CASE a \notin DOMAIN scores
    <3>1. /\ scores'[a].no_delivery = 0 /\ scores'[a].rejected_after_delivery = 0
          /\ scores'[a].as_buyer_rejected = 0
      BY <2>2 DEF SameTallies, EmptyScore
    <3>2. Cardinality(Refunds(a)') = 0 /\ Cardinality(Rejects(a)') = 0
      BY <2>2, FS_EmptySet DEF ReceiptInv
    <3>3. Cardinality(BuyerRejects(a)') \in Nat
      BY ReceiptsAreFinite DEF ReceiptInv
    <3> QED
      BY <3>1, <3>2, <3>3
  <2> QED
    BY <2>1, <2>2
<1>3. OutcomesAreReceipts'
  BY <1>2 DEF OutcomesAreReceipts, Refunds, Rejects, BuyerRejects
<1> QED
  BY <1>1, <1>3 DEF ReceiptInv

\* What a step that ends Job j as `job` writes on the scores.
RecordsOutcome(j, job) ==
  /\ DOMAIN scores' = DOMAIN scores
  /\ \A a \in DOMAIN scores :
       /\ Tallies(scores'[a])
       /\ scores'[a].no_delivery =
            IF a = jobs[j].seller /\ job.settled_by = "JobRefunded"
            THEN scores[a].no_delivery + 1 ELSE scores[a].no_delivery
       /\ scores'[a].rejected_after_delivery =
            IF a = jobs[j].seller /\ job.state = REJECTED
            THEN scores[a].rejected_after_delivery + 1
            ELSE scores[a].rejected_after_delivery
       /\ \/ scores'[a].as_buyer_rejected = scores[a].as_buyer_rejected
          \/ /\ a = jobs[j].buyer /\ job.state = REJECTED
             /\ scores'[a].as_buyer_rejected = scores[a].as_buyer_rejected + 1

\* The Job and the scores record the same outcome.
LEMMA OutcomeStep ==
  ASSUME ReceiptInv, NEW j \in DOMAIN jobs,
         jobs[j].settled_by = "none", jobs[j].state # REJECTED,
         NEW job, job.seller = jobs[j].seller, job.buyer = jobs[j].buyer,
         job.settled_by = "JobRefunded" \/ job.state = REJECTED => has_score(job.seller),
         jobs' = [jobs EXCEPT ![j] = job], RecordsOutcome(j, job)
  PROVE  ReceiptInv'
<1>1. \A a : /\ Refunds(a)' = IF a = job.seller /\ job.settled_by = "JobRefunded"
                              THEN Refunds(a) \cup {j} ELSE Refunds(a)
             /\ j \notin Refunds(a)
  BY DEF Refunds
<1>2. \A a : /\ Rejects(a)' = IF a = job.seller /\ job.state = REJECTED
                              THEN Rejects(a) \cup {j} ELSE Rejects(a)
             /\ j \notin Rejects(a)
  BY DEF Rejects
<1>3. \A a : /\ BuyerRejects(a)' = IF a = job.buyer /\ job.state = REJECTED
                                   THEN BuyerRejects(a) \cup {j} ELSE BuyerRejects(a)
             /\ j \notin BuyerRejects(a)
  BY DEF BuyerRejects
<1>4. DOMAIN scores' = DOMAIN scores /\ \A a \in DOMAIN scores' : Tallies(scores'[a])
  BY DEF RecordsOutcome
<1>5. \A a : a \notin DOMAIN scores' => Refunds(a)' = {} /\ Rejects(a)' = {}
  BY <1>1, <1>2, <1>4 DEF ReceiptInv, has_score
<1>6. ASSUME NEW a \in DOMAIN scores
      PROVE  /\ scores'[a].no_delivery = Cardinality(Refunds(a)')
             /\ scores'[a].rejected_after_delivery = Cardinality(Rejects(a)')
             /\ scores'[a].as_buyer_rejected <= Cardinality(BuyerRejects(a)')
  <2>1. /\ IsFiniteSet(Refunds(a)) /\ Cardinality(Refunds(a)) \in Nat
        /\ IsFiniteSet(Rejects(a)) /\ Cardinality(Rejects(a)) \in Nat
        /\ IsFiniteSet(BuyerRejects(a)) /\ Cardinality(BuyerRejects(a)) \in Nat
    BY ReceiptsAreFinite DEF ReceiptInv
  <2>2. /\ scores[a].no_delivery = Cardinality(Refunds(a))
        /\ scores[a].rejected_after_delivery = Cardinality(Rejects(a))
        /\ scores[a].as_buyer_rejected <= Cardinality(BuyerRejects(a))
        /\ scores[a].as_buyer_rejected \in Nat
    BY ReceiptsCounted DEF ReceiptInv, Tallies
  <2>3. /\ Cardinality(Refunds(a) \cup {j}) = Cardinality(Refunds(a)) + 1
        /\ Cardinality(Rejects(a) \cup {j}) = Cardinality(Rejects(a)) + 1
        /\ Cardinality(BuyerRejects(a) \cup {j}) = Cardinality(BuyerRejects(a)) + 1
    BY <1>1, <1>2, <1>3, <2>1, FS_AddElement
  <2>4. scores'[a].no_delivery = Cardinality(Refunds(a)')
    BY <1>1, <2>2, <2>3 DEF RecordsOutcome
  <2>5. scores'[a].rejected_after_delivery = Cardinality(Rejects(a)')
    BY <1>2, <2>2, <2>3 DEF RecordsOutcome
  <2>6. scores'[a].as_buyer_rejected <= Cardinality(BuyerRejects(a)')
    <3> DEFINE n == Cardinality(BuyerRejects(a))
               m == Cardinality(BuyerRejects(a)')
    <3>1. n \in Nat /\ m = IF a = job.buyer /\ job.state = REJECTED THEN n + 1 ELSE n
      BY <1>3, <2>1, <2>3
    <3> HIDE DEF n, m
    <3>2. scores[a].as_buyer_rejected <= n /\ scores[a].as_buyer_rejected \in Nat
      BY <2>2 DEF n
    <3>3. scores'[a].as_buyer_rejected <= m
      BY <3>1, <3>2 DEF RecordsOutcome
    <3> QED
      BY <3>3 DEF m
  <2> QED
    BY <2>4, <2>5, <2>6
<1>7. OutcomesAreReceipts'
  BY <1>4, <1>6 DEF OutcomesAreReceipts, Refunds, Rejects, BuyerRejects
<1>8. IsFiniteSet(DOMAIN jobs')
  BY DEF ReceiptInv
<1> QED
  BY <1>4, <1>5, <1>7, <1>8 DEF ReceiptInv
-----------------------------------------------------------------------------
(***************************************************************************)
(* The doors.                                                              *)
(***************************************************************************)

LEMMA LiveIsUndecided ==
  ASSUME JobsInv, NEW j \in DOMAIN jobs, jobs[j].state \in Live
  PROVE  jobs[j].settled_by = "none" /\ jobs[j].state # REJECTED
BY DEF JobsInv, JobInv, JobBacked, Live, FUNDED, DELIVERED, REJECTED

\* A free seat writes no outcome, and an outcome is written by one.
LEMMA SeatWritesNoOutcome ==
  ASSUME NEW score, Tallies(score), NEW job
  PROVE  SameTallies(free_seat(score, job), score)
BY DEF free_seat, decrement_active, Tallies, SameTallies

LEMMA OutcomeIsOneMore ==
  ASSUME NEW score, Tallies(score),
         NEW kind \in {"no_delivery", "rejected_after_delivery", "as_buyer_rejected"}
  PROVE  LET after == record_outcome(score, kind) IN
         /\ Tallies(after)
         /\ after.no_delivery =
              IF kind = "no_delivery" THEN score.no_delivery + 1 ELSE score.no_delivery
         /\ after.rejected_after_delivery =
              IF kind = "rejected_after_delivery" THEN score.rejected_after_delivery + 1
              ELSE score.rejected_after_delivery
         /\ after.as_buyer_rejected =
              IF kind = "as_buyer_rejected" THEN score.as_buyer_rejected + 1
              ELSE score.as_buyer_rejected
BY DEF record_outcome, Tallies

\* Neither the seat alone nor no write at all records an outcome.
LEMMA SeatRecords ==
  ASSUME ReceiptInv, NEW j \in DOMAIN jobs, NEW job,
         job.settled_by # "JobRefunded", job.state # REJECTED,
         scores' = score_after_seat(j) \/ UNCHANGED scores
  PROVE  RecordsOutcome(j, job)
<1>1. \A a \in DOMAIN scores : Tallies(scores[a])
  BY DEF ReceiptInv
<1>2. DOMAIN scores' = DOMAIN scores
      /\ \A a \in DOMAIN scores : \/ scores'[a] = scores[a]
                                  \/ scores'[a] = free_seat(scores[a], jobs[j])
  BY DEF score_after_seat
<1>3. \A a \in DOMAIN scores : SameTallies(scores'[a], scores[a])
  BY <1>1, <1>2, SeatWritesNoOutcome DEF SameTallies
<1> QED
  BY <1>2, <1>3 DEF RecordsOutcome, SameTallies

LEMMA OneOutcome ==
  ASSUME ReceiptInv, NEW j \in DOMAIN jobs,
         NEW kind \in {"no_delivery", "rejected_after_delivery"}, NEW after,
         after = score_after_outcome(j, kind)
  PROVE  /\ DOMAIN after = DOMAIN scores
         /\ \A a \in DOMAIN scores :
              /\ Tallies(after[a])
              /\ after[a].no_delivery =
                   IF a = jobs[j].seller /\ kind = "no_delivery"
                   THEN scores[a].no_delivery + 1 ELSE scores[a].no_delivery
              /\ after[a].rejected_after_delivery =
                   IF a = jobs[j].seller /\ kind = "rejected_after_delivery"
                   THEN scores[a].rejected_after_delivery + 1
                   ELSE scores[a].rejected_after_delivery
              /\ after[a].as_buyer_rejected = scores[a].as_buyer_rejected
<1> DEFINE s       == jobs[j].seller
           written == record_outcome(scores[s], kind)
<1>1. after = [scores EXCEPT ![s] = free_seat(written, jobs[j])]
  BY DEF score_after_outcome
<1>2. \A a \in DOMAIN scores : Tallies(scores[a])
  BY DEF ReceiptInv
<1>3. s \in DOMAIN scores =>
        /\ Tallies(written)
        /\ SameTallies(free_seat(written, jobs[j]), written)
        /\ written.no_delivery = IF kind = "no_delivery" THEN scores[s].no_delivery + 1
                                 ELSE scores[s].no_delivery
        /\ written.rejected_after_delivery =
             IF kind = "rejected_after_delivery" THEN scores[s].rejected_after_delivery + 1
             ELSE scores[s].rejected_after_delivery
        /\ written.as_buyer_rejected = scores[s].as_buyer_rejected
  BY <1>2, OutcomeIsOneMore, SeatWritesNoOutcome
<1> HIDE DEF s, written
<1>4. DOMAIN after = DOMAIN scores
  BY <1>1
<1>5. \A a \in DOMAIN scores : a # s => after[a] = scores[a] /\ Tallies(after[a])
  BY <1>1, <1>2
<1>6. s \in DOMAIN scores => SameTallies(after[s], written)
  BY <1>1, <1>3
<1> QED
  BY <1>3, <1>4, <1>5, <1>6 DEF SameTallies, s

LEMMA RefundRecords ==
  ASSUME ReceiptInv, NEW j \in DOMAIN jobs, NEW job,
         job.settled_by = "JobRefunded", job.state # REJECTED,
         scores' = score_after_outcome(j, "no_delivery")
  PROVE  RecordsOutcome(j, job)
BY OneOutcome DEF RecordsOutcome

\* A registered buyer's reject is written on both scores.
LEMMA RejectRecords ==
  ASSUME ReceiptInv, NEW j \in DOMAIN jobs, NEW job,
         job.settled_by # "JobRefunded", job.state = REJECTED,
         \/ scores' = score_after_outcome(j, "rejected_after_delivery")
         \/ scores' = score_after_agent_reject(j)
  PROVE  RecordsOutcome(j, job)
<1> DEFINE middle == score_after_outcome(j, "rejected_after_delivery")
           b      == jobs[j].buyer
<1>1. /\ DOMAIN middle = DOMAIN scores
      /\ \A a \in DOMAIN scores :
           /\ Tallies(middle[a])
           /\ middle[a].no_delivery = scores[a].no_delivery
           /\ middle[a].rejected_after_delivery =
                IF a = jobs[j].seller THEN scores[a].rejected_after_delivery + 1
                ELSE scores[a].rejected_after_delivery
           /\ middle[a].as_buyer_rejected = scores[a].as_buyer_rejected
  BY OneOutcome
<1>2. \/ scores' = middle
      \/ scores' = [middle EXCEPT ![b] = record_outcome(middle[b], "as_buyer_rejected")]
  BY DEF score_after_agent_reject
<1> HIDE DEF middle, b
<1>3. CASE scores' = middle
  BY <1>1, <1>3 DEF RecordsOutcome
<1>4. CASE scores' = [middle EXCEPT ![b] = record_outcome(middle[b], "as_buyer_rejected")]
  <2>1. b \in DOMAIN scores =>
          /\ scores'[b] = record_outcome(middle[b], "as_buyer_rejected")
          /\ Tallies(scores'[b])
          /\ scores'[b].no_delivery = middle[b].no_delivery
          /\ scores'[b].rejected_after_delivery = middle[b].rejected_after_delivery
          /\ scores'[b].as_buyer_rejected = middle[b].as_buyer_rejected + 1
    BY <1>1, <1>4, OutcomeIsOneMore
  <2>2. DOMAIN scores' = DOMAIN scores
        /\ \A a \in DOMAIN scores : a # b => scores'[a] = middle[a]
    BY <1>1, <1>4
  <2> QED
    BY <1>1, <2>1, <2>2 DEF RecordsOutcome, b
<1> QED
  BY <1>2, <1>3, <1>4

LEMMA DoorReceipts ==
  ASSUME IInv, ReceiptInv, NEW j \in DOMAIN jobs, NEW marks, NEW sender,
         \/ /\ has_score(jobs[j].seller)
            /\ \/ /\ \/ release_settle_pkg(sender, j, marks)
                     \/ decline_settle_pkg(sender, j, marks)
                  /\ scores' = score_after_seat(j)
               \/ /\ refund_settle_pkg(j, marks)
                  /\ scores' = score_after_outcome(j, "no_delivery")
               \/ /\ reject_settle_pkg(sender, j, marks)
                  /\ \/ scores' = score_after_outcome(j, "rejected_after_delivery")
                     \/ scores' = score_after_agent_reject(j)
         \/ /\ deliver(sender, j, marks)
            /\ scores' = score_after_seat(j) \/ UNCHANGED scores
  PROVE  ReceiptInv'
<1>1. JobsInv
  BY DEF IInv
<1>2. ASSUME NEW state \in {RELEASED, REFUNDED, REJECTED}, NEW shares,
             NEW event \in {"JobReleased", "JobDeclined", "JobRefunded", "JobRejected"},
             Stamp(j, Settled(jobs[j], state, shares, event), marks),
             jobs[j].state \in Live, has_score(jobs[j].seller),
             \/ /\ state # REJECTED /\ event # "JobRefunded"
                /\ scores' = score_after_seat(j)
             \/ /\ state = REFUNDED /\ event = "JobRefunded"
                /\ scores' = score_after_outcome(j, "no_delivery")
             \/ /\ state = REJECTED /\ event = "JobRejected"
                /\ \/ scores' = score_after_outcome(j, "rejected_after_delivery")
                   \/ scores' = score_after_agent_reject(j)
      PROVE  ReceiptInv'
  <2>1. PICK job : /\ job.seller = jobs[j].seller /\ job.buyer = jobs[j].buyer
                   /\ job.state = state /\ job.settled_by = event
                   /\ jobs' = [jobs EXCEPT ![j] = job]
    BY <1>1, <1>2, SettlementMarks
  <2>2. RecordsOutcome(j, job)
    BY <1>2, <2>1, SeatRecords, RefundRecords, RejectRecords DEF REFUNDED, REJECTED
  <2>3. jobs[j].settled_by = "none" /\ jobs[j].state # REJECTED
    BY <1>1, <1>2, LiveIsUndecided
  <2> QED
    BY <1>2, <2>1, <2>2, <2>3, OutcomeStep
<1>3. CASE release_settle_pkg(sender, j, marks) /\ has_score(jobs[j].seller)
           /\ scores' = score_after_seat(j)
  BY <1>2, <1>3 DEF release_settle_pkg, can_release, Live, RELEASED, REJECTED
<1>4. CASE decline_settle_pkg(sender, j, marks) /\ has_score(jobs[j].seller)
           /\ scores' = score_after_seat(j)
  BY <1>2, <1>4 DEF decline_settle_pkg, can_decline, Live, REFUNDED, REJECTED
<1>5. CASE refund_settle_pkg(j, marks) /\ has_score(jobs[j].seller)
           /\ scores' = score_after_outcome(j, "no_delivery")
  BY <1>2, <1>5 DEF refund_settle_pkg, can_refund, Live
<1>6. CASE reject_settle_pkg(sender, j, marks) /\ has_score(jobs[j].seller)
           /\ \/ scores' = score_after_outcome(j, "rejected_after_delivery")
              \/ scores' = score_after_agent_reject(j)
  BY <1>2, <1>6 DEF reject_settle_pkg, can_reject, Live
<1>7. CASE deliver(sender, j, marks) /\ (scores' = score_after_seat(j) \/ UNCHANGED scores)
  <2>1. jobs[j].state \in Live
    BY <1>7 DEF deliver, can_deliver, Live
  <2>2. jobs[j].settled_by = "none" /\ jobs[j].state # REJECTED
    BY <1>1, <2>1, LiveIsUndecided
  <2>3. PICK job : /\ job.seller = jobs[j].seller /\ job.buyer = jobs[j].buyer
                   /\ job.state \in Live /\ job.settled_by = jobs[j].settled_by
                   /\ jobs' = [jobs EXCEPT ![j] = job]
    BY <1>1, <1>7, DeliveryMarks
  <2>4. job.state # REJECTED /\ job.settled_by # "JobRefunded"
    BY <2>2, <2>3 DEF Live, FUNDED, DELIVERED, REJECTED
  <2>5. RecordsOutcome(j, job)
    BY <1>7, <2>4, SeatRecords
  <2> QED
    BY <2>2, <2>3, <2>4, <2>5, OutcomeStep
<1> QED
  BY <1>3, <1>4, <1>5, <1>6, <1>7

LEMMA ReceiptsAtDoors ==
  ASSUME IInv, ReceiptInv, Doors \/ BatchDoors
  PROVE  ReceiptInv'
<1>1. CASE Doors
  BY <1>1, DoorReceipts DEF Doors, refund_v2, reject_v2, reject_v2_agent_buyer, decline_v2,
     release_v2, deliver_v2, deliver_v1
<1>2. CASE BatchDoors
  BY <1>2, DoorReceipts DEF BatchDoors, batch_refund, batch_release, batch_reject,
     batch_reject_agent_buyer, batch_deliver_v2
<1> QED
  BY <1>1, <1>2
-----------------------------------------------------------------------------
(***************************************************************************)
(* Hires, claims, reviews, and the steps that touch none of it.            *)
(***************************************************************************)

\* A fresh Job has ended in no way.
LEMMA FreshJobReceipts ==
  ASSUME ReceiptInv, NEW j, j \notin DOMAIN jobs, NEW job,
         job.state = FUNDED, job.settled_by = "none", share(j, job),
         DOMAIN scores' = DOMAIN scores,
         \A a \in DOMAIN scores : SameTallies(scores'[a], scores[a])
  PROVE  ReceiptInv'
<1>1. /\ DOMAIN jobs' = DOMAIN jobs \cup {j} /\ jobs'[j] = job
      /\ \A i \in DOMAIN jobs : jobs'[i] = jobs[i]
  BY DEF share
<1>2. \A a : /\ Refunds(a)' = Refunds(a) /\ Rejects(a)' = Rejects(a)
             /\ BuyerRejects(a)' = BuyerRejects(a)
  BY <1>1 DEF Refunds, Rejects, BuyerRejects, FUNDED, REJECTED
<1>3. IsFiniteSet(DOMAIN jobs')
  BY <1>1, FS_AddElement DEF ReceiptInv
<1> QED
  BY <1>2, <1>3, ReceiptsStay

\* The Jobs stay as they are and so do the outcomes; a new score starts empty.
LEMMA ReceiptsKept ==
  ASSUME ReceiptInv, UNCHANGED jobs, DOMAIN scores \subseteq DOMAIN scores',
         \A a \in DOMAIN scores' :
           SameTallies(scores'[a], IF a \in DOMAIN scores THEN scores[a] ELSE EmptyScore)
  PROVE  ReceiptInv'
<1>1. \A a : /\ Refunds(a)' = Refunds(a) /\ Rejects(a)' = Rejects(a)
             /\ BuyerRejects(a)' = BuyerRejects(a)
  BY DEF Refunds, Rejects, BuyerRejects
<1>2. IsFiniteSet(DOMAIN jobs')
  BY DEF ReceiptInv
<1> QED
  BY <1>1, <1>2, ReceiptsStay

LEMMA ReceiptsUntouched ==
  ASSUME ReceiptInv, UNCHANGED <<jobs, scores>>
  PROVE  ReceiptInv'
<1>1. \A a \in DOMAIN scores : SameTallies(scores[a], scores[a])
  BY DEF ReceiptInv, SameTallies
<1> QED
  BY <1>1, ReceiptsKept

LEMMA HireReceipts ==
  ASSUME ReceiptInv, Hire, UNCHANGED scores
  PROVE  ReceiptInv'
<1>1. PICK buyer, seller \in Account, j \in JobId, amount \in Amount,
           d, w \in Duration, s \in Split :
        create(buyer, seller, j, amount, now + d, w, s)
  BY DEF Hire
<1> DEFINE job == NewJob(buyer, seller, amount, cfg.fee_bps, now + d, w, s, FALSE, NoBatch)
<1>2. job.state = FUNDED /\ job.settled_by = "none"
  BY DEF NewJob
<1>3. j \notin DOMAIN jobs /\ share(j, job)
  BY <1>1 DEF create
<1> HIDE DEF job
<1>4. \A a \in DOMAIN scores : SameTallies(scores'[a], scores[a])
  BY DEF ReceiptInv, SameTallies
<1> QED
  BY <1>2, <1>3, <1>4, FreshJobReceipts

LEMMA ClaimReceipts ==
  ASSUME ReceiptInv, NEW a, ClaimsBy(a)
  PROVE  ReceiptInv'
<1>1. PICK j, job : /\ j \notin DOMAIN jobs
                    /\ job.state = FUNDED /\ job.settled_by = "none"
                    /\ share(j, job)
  BY DEF ClaimsBy
<1>2. \A b \in DOMAIN scores : Tallies(scores[b])
  BY DEF ReceiptInv
<1>3. \A b \in DOMAIN scores : SameTallies(increment_active(scores[b]), scores[b])
  BY <1>2 DEF increment_active, SameTallies, Tallies
<1>4. DOMAIN scores' = DOMAIN scores
      /\ \A b \in DOMAIN scores : \/ scores'[b] = scores[b]
                                  \/ scores'[b] = increment_active(scores[b])
  BY DEF ClaimsBy, take_seat
<1>5. \A b \in DOMAIN scores : SameTallies(scores'[b], scores[b])
  BY <1>2, <1>3, <1>4 DEF SameTallies
<1> QED
  BY <1>1, <1>4, <1>5, FreshJobReceipts

\* Stars, new scores and the administrator's seat count are no outcomes.
LEMMA ScoreReceipts ==
  ASSUME ReceiptInv, Review \/ Reconcile \/ \E a \in Account : create_empty_score(a)
  PROVE  ReceiptInv'
<1>1. \A a \in DOMAIN scores : Tallies(scores[a])
  BY DEF ReceiptInv
<1>2. Tallies(EmptyScore)
  BY DEF EmptyScore, Tallies
<1>3. ASSUME NEW score, Tallies(score), NEW j, NEW buyer, NEW stars
      PROVE  SameTallies(apply_review(score, j, buyer, stars), score)
  BY <1>3 DEF apply_review, Tallies, SameTallies
<1>4. ASSUME NEW a, NEW score, SameTallies(score, EmptyScore), claim_score(a, score),
             UNCHANGED jobs
      PROVE  ReceiptInv'
  BY <1>1, <1>4, ReceiptsKept DEF claim_score, has_score, SameTallies
<1>5. ASSUME NEW a \in DOMAIN scores, NEW score, SameTallies(score, scores[a]),
             scores' = [scores EXCEPT ![a] = score], UNCHANGED jobs
      PROVE  ReceiptInv'
  BY <1>1, <1>5, ReceiptsKept DEF SameTallies
<1>6. ASSUME NEW a, create_empty_score(a) PROVE ReceiptInv'
  BY <1>2, <1>4, <1>6 DEF create_empty_score, escrowVars, SameTallies
<1>7. ASSUME NEW sender, NEW j, NEW stars, submit_first_review(sender, j, stars)
      PROVE  ReceiptInv'
  BY <1>2, <1>3, <1>4, <1>7 DEF submit_first_review, escrowVars
<1>8. ASSUME NEW sender, NEW j, NEW stars, submit_review(sender, j, stars)
      PROVE  ReceiptInv'
  <2> DEFINE a     == jobs[j].seller
             after == apply_review(scores[a], j, sender, stars)
  <2>1. /\ a \in DOMAIN scores /\ UNCHANGED jobs
        /\ scores' = [scores EXCEPT ![a] = after]
    BY <1>8 DEF submit_review, has_score, escrowVars
  <2>2. SameTallies(after, scores[a])
    BY <1>1, <1>3, <2>1
  <2> HIDE DEF a, after
  <2> QED
    BY <1>5, <2>1, <2>2
<1>9. ASSUME NEW a, NEW value, set_active_seller_jobs(a, value)
      PROVE  ReceiptInv'
  <2> DEFINE after == [scores[a] EXCEPT !.active_seller_jobs = value]
  <2>1. /\ a \in DOMAIN scores /\ UNCHANGED jobs
        /\ scores' = [scores EXCEPT ![a] = after]
    BY <1>9 DEF set_active_seller_jobs, has_score, escrowVars
  <2>2. SameTallies(after, scores[a])
    BY <1>1, <2>1 DEF SameTallies, Tallies
  <2> HIDE DEF after
  <2> QED
    BY <1>5, <2>1, <2>2
<1> QED
  BY <1>6, <1>7, <1>8, <1>9 DEF Review, Reconcile
-----------------------------------------------------------------------------
LEMMA ReceiptInit == MarketInit => ReceiptInv
BY FS_EmptySet DEF MarketInit, EscrowInit, ReceiptInv, OutcomesAreReceipts, Refunds, Rejects

LEMMA ReceiptStep ==
  ASSUME IInv, ReceiptInv, [MarketNext]_marketVars
  PROVE  ReceiptInv'
<1>1. Tick \/ Admin \/ RecordBoard => UNCHANGED jobs
  BY DEF Tick, Admin, SetCfg, set_fee_bps, set_fee_receiver, set_min_job_amount,
     set_max_job_amount, set_tier_active_cap, set_no_delivery_regression_floor,
     set_max_batch_slots, migrate, migrate_successor, RecordBoard, record_score_board_pkg
<1>2. CASE ReputationNext
  <2>1. RegistryAlone \/ create_score_board => UNCHANGED <<jobs, scores>>
    BY <1>1 DEF RegistryAlone, create_score_board, escrowVars
  <2>2. EscrowAlone => (Hire /\ UNCHANGED scores) \/ UNCHANGED <<jobs, scores>>
    BY <1>1 DEF EscrowAlone
  <2> QED
    BY <1>2, <2>1, <2>2, ReceiptsUntouched, HireReceipts, ScoreReceipts, ReceiptsAtDoors
       DEF ReputationNext
<1>3. CASE OpeningNext
  <2>1. PostOpening => UNCHANGED reputationVars
    BY DEF PostOpening, create_open_v2
  <2>2. ReturnOpening => UNCHANGED reputationVars
    BY DEF ReturnOpening, cancel_open, refund_unclaimed, repay_buyer
  <2>3. ClaimOpening => ReceiptInv'
    BY ClaimIsClaim, ClaimReceipts
  <2> QED
    BY <1>3, <2>1, <2>2, <2>3, ReceiptsUntouched DEF OpeningNext, reputationVars, escrowVars
<1>4. CASE BatchNext
  <2>1. PostBatch => UNCHANGED reputationVars
    BY DEF PostBatch, create_batch_open
  <2>2. \A b : drain_remainder(b) => UNCHANGED reputationVars
    BY DEF drain_remainder
  <2>3. ReturnSlots => UNCHANGED reputationVars
    BY <2>2 DEF ReturnSlots, cancel_batch_open, refund_batch_expired
  <2>4. ClaimSlot => ReceiptInv'
    BY ClaimIsClaim, ClaimReceipts
  <2> QED
    BY <1>4, <2>1, <2>3, <2>4, ReceiptsAtDoors, ReceiptsUntouched
       DEF BatchNext, reputationVars, escrowVars
<1>5. CASE UNCHANGED marketVars
  BY <1>5, ReceiptsUntouched DEF marketVars, reputationVars, escrowVars
<1> QED
  BY <1>2, <1>3, <1>4, <1>5 DEF MarketNext

\* Every missed deadline and every reject on a score is a Job that ended so, and
\* every such Job is on the score, through whichever door, for any number of
\* Jobs: no door books one twice, forgets one or books a decline.
THEOREM OutcomesAreKept == MarketSpec => []OutcomesAreReceipts
<1>1. MarketInit => ReceiptInv
  BY ReceiptInit
<1>2. MarketInv /\ ReceiptInv /\ [MarketNext]_marketVars => ReceiptInv'
  BY ReceiptStep DEF MarketInv
<1>3. ReceiptInv => OutcomesAreReceipts
  BY DEF ReceiptInv
<1> QED
  BY <1>1, <1>2, <1>3, MarketInductive, PTL DEF MarketSpec
-----------------------------------------------------------------------------
(***************************************************************************)
(* The reviews on a score: stars, distinct buyers and the Jobs behind them.*)
(***************************************************************************)

ReviewField == {"review_count", "stars_sum", "job_stars", "distinct_buyers", "buyers_seen"}

SameReviews(score, other) ==
  /\ ReviewField \subseteq DOMAIN score
  /\ \A field \in ReviewField : score[field] = other[field]

\* The aggregates of a score are those of its per-Job stars.
StarsAddUp(score) ==
  /\ ReviewField \subseteq DOMAIN score
  /\ IsFiniteSet(DOMAIN score.job_stars)
  /\ \A j \in DOMAIN score.job_stars : score.job_stars[j] \in 1..MAX_STARS
  /\ score.review_count = Cardinality(DOMAIN score.job_stars)
  /\ score.stars_sum = Cardinality(StarsGiven(score))
  /\ IsFiniteSet(score.buyers_seen)
  /\ score.distinct_buyers = Cardinality(score.buyers_seen)

\* The stars of a score stand for Jobs of agent a, in `table`, that were
\* delivered and then paid or rejected.
StarsStandFor(score, a, table) ==
  /\ DOMAIN score.job_stars \subseteq DOMAIN table
  /\ score.buyers_seen = {table[j].buyer : j \in DOMAIN score.job_stars}
  /\ \A j \in DOMAIN score.job_stars : /\ table[j].seller = a
                                       /\ table[j].state \in {RELEASED, REJECTED}
                                       /\ table[j].delivered_at_ms > 0

ReviewInv ==
  \A a \in DOMAIN scores : StarsAddUp(scores[a]) /\ StarsStandFor(scores[a], a, jobs)

LEMMA SameStars ==
  ASSUME NEW score, NEW other, SameReviews(score, other), StarsAddUp(other)
  PROVE  /\ StarsAddUp(score)
         /\ \A a, table : StarsStandFor(other, a, table) => StarsStandFor(score, a, table)
<1>1. /\ score.review_count = other.review_count /\ score.stars_sum = other.stars_sum
      /\ score.job_stars = other.job_stars /\ score.distinct_buyers = other.distinct_buyers
      /\ score.buyers_seen = other.buyers_seen /\ ReviewField \subseteq DOMAIN score
  BY DEF SameReviews, ReviewField
<1>2. StarsGiven(score) = StarsGiven(other)
  BY <1>1 DEF StarsGiven
<1> QED
  BY <1>1, <1>2 DEF StarsAddUp, StarsStandFor

LEMMA NoStars ==
  /\ StarsAddUp(EmptyScore)
  /\ \A a, table : StarsStandFor(EmptyScore, a, table)
<1>1. /\ ReviewField \subseteq DOMAIN EmptyScore
      /\ EmptyScore.review_count = 0 /\ EmptyScore.stars_sum = 0
      /\ EmptyScore.distinct_buyers = 0 /\ EmptyScore.buyers_seen = {}
      /\ DOMAIN EmptyScore.job_stars = {}
  BY DEF EmptyScore, ReviewField
<1>2. StarsGiven(EmptyScore) = {}
  BY <1>1 DEF StarsGiven
<1> QED
  BY <1>1, <1>2, FS_EmptySet DEF StarsAddUp, StarsStandFor

\* The stars of Job j.
StarsOf(j, n) == {j} \X (1..n)

LEMMA StarsOfOne ==
  ASSUME NEW j, NEW n \in Nat
  PROVE  IsFiniteSet(StarsOf(j, n)) /\ Cardinality(StarsOf(j, n)) = n
<1>1. IsFiniteSet({j}) /\ Cardinality({j}) = 1
  BY FS_Singleton
<1>2. IsFiniteSet(1..n) /\ Cardinality(1..n) = n
  BY FS_Interval
<1> DEFINE stars == 1..n
<1> HIDE DEF stars
<1>3. IsFiniteSet({j} \X stars) /\ Cardinality({j} \X stars) = Cardinality({j}) * Cardinality(stars)
  BY <1>1, <1>2, FS_Product DEF stars
<1>4. Cardinality(stars) = n
  BY <1>2 DEF stars
<1> QED
  BY <1>1, <1>3, <1>4 DEF StarsOf, stars

LEMMA StarsAreFinite ==
  ASSUME NEW score, StarsAddUp(score)
  PROVE  /\ IsFiniteSet(StarsGiven(score))
         /\ score.stars_sum \in Nat /\ score.review_count \in Nat
         /\ score.distinct_buyers \in Nat
<1>0. MAX_STARS \in Nat
  BY ReputationAssumption
<1>1. IsFiniteSet(1..MAX_STARS)
  BY <1>0, FS_Interval
<1>2. IsFiniteSet((DOMAIN score.job_stars) \X (1..MAX_STARS))
  BY <1>1, FS_Product DEF StarsAddUp
<1>3. IsFiniteSet(StarsGiven(score))
  BY <1>2, FS_Subset DEF StarsGiven
<1> QED
  BY <1>3, FS_CardinalityType DEF StarsAddUp

\* A review: the stars of its Job replace the ones the Job had, if any, and its
\* buyer is one of the buyers afterwards, once.
LEMMA ReviewCounts ==
  ASSUME NEW score, NEW a, StarsAddUp(score), StarsStandFor(score, a, jobs),
         NEW j \in DOMAIN jobs, NEW buyer, NEW stars,
         validate_review(buyer, j, stars), jobs[j].seller = a
  PROVE  LET after == apply_review(score, j, buyer, stars) IN
         StarsAddUp(after) /\ StarsStandFor(after, a, jobs)
<1> DEFINE after    == apply_review(score, j, buyer, stars)
           reviewed == DOMAIN score.job_stars
           previous == IF j \in reviewed THEN score.job_stars[j] ELSE 0
           given    == StarsGiven(score)
<1>1. /\ stars \in 1..MAX_STARS /\ buyer = jobs[j].buyer
      /\ jobs[j].state \in {RELEASED, REJECTED} /\ jobs[j].delivered_at_ms > 0
  BY DEF validate_review
<1>2. /\ MAX_STARS \in Nat /\ previous \in 0..MAX_STARS
      /\ previous = 0 <=> j \notin reviewed
  BY ReputationAssumption DEF StarsAddUp
<1>3. /\ ReviewField \subseteq DOMAIN after
      /\ after.review_count = IF j \in reviewed THEN score.review_count
                              ELSE score.review_count + 1
      /\ after.stars_sum = score.stars_sum - previous + stars
      /\ after.distinct_buyers = IF previous = 0 /\ buyer \notin score.buyers_seen
                                 THEN score.distinct_buyers + 1 ELSE score.distinct_buyers
      /\ after.buyers_seen = IF previous = 0 /\ buyer \notin score.buyers_seen
                             THEN score.buyers_seen \cup {buyer} ELSE score.buyers_seen
      /\ after.job_stars = [k \in reviewed \cup {j} |->
                             IF k = j THEN stars ELSE score.job_stars[k]]
  BY DEF apply_review, StarsAddUp, ReviewField
<1>4. /\ DOMAIN after.job_stars = reviewed \cup {j}
      /\ after.job_stars[j] = stars
      /\ \A k \in reviewed \ {j} : after.job_stars[k] = score.job_stars[k]
  BY <1>3
<1>5. /\ IsFiniteSet(reviewed) /\ score.review_count = Cardinality(reviewed)
      /\ score.stars_sum = Cardinality(given) /\ IsFiniteSet(score.buyers_seen)
      /\ score.distinct_buyers = Cardinality(score.buyers_seen)
      /\ \A k \in reviewed : score.job_stars[k] \in 1..MAX_STARS
  BY DEF StarsAddUp
<1>6. /\ reviewed \subseteq DOMAIN jobs
      /\ score.buyers_seen = {jobs[k].buyer : k \in reviewed}
      /\ \A k \in reviewed : /\ jobs[k].seller = a
                             /\ jobs[k].state \in {RELEASED, REJECTED}
                             /\ jobs[k].delivered_at_ms > 0
  BY DEF StarsStandFor
<1>7. IsFiniteSet(given) /\ Cardinality(given) \in Nat
  BY <1>5, StarsAreFinite
<1> HIDE DEF after
<1>8. after.buyers_seen = score.buyers_seen \cup {buyer}
  BY <1>1, <1>2, <1>3, <1>6
<1>9. IsFiniteSet(after.buyers_seen) /\ after.distinct_buyers = Cardinality(after.buyers_seen)
  <2>1. buyer \notin score.buyers_seen => previous = 0
    BY <1>1, <1>2, <1>6
  <2> QED
    BY <2>1, <1>3, <1>5, <1>8, FS_AddElement
<1>10. /\ IsFiniteSet(DOMAIN after.job_stars)
       /\ after.review_count = Cardinality(DOMAIN after.job_stars)
  <2>1. /\ IsFiniteSet(reviewed \cup {j})
        /\ Cardinality(reviewed \cup {j}) =
             IF j \in reviewed THEN Cardinality(reviewed) ELSE Cardinality(reviewed) + 1
    BY <1>5, FS_AddElement
  <2> HIDE DEF reviewed
  <2> QED
    BY <1>3, <1>4, <1>5, <2>1
<1>11. after.stars_sum = Cardinality(StarsGiven(after))
  <2> DEFINE old  == StarsOf(j, previous)
             new  == StarsOf(j, stars)
             rest == given \ old
  <2>1. old \subseteq given
    BY <1>2 DEF StarsOf, StarsGiven
  <2>2. \A star \in rest : star[1] # j
    BY <1>2 DEF StarsOf, StarsGiven
  <2>3. StarsGiven(after) = rest \cup new /\ rest \cap new = {}
    <3>1. \A star : star \in StarsGiven(after) => star \in rest \cup new
      BY <1>1, <1>2, <1>4 DEF StarsOf, StarsGiven
    <3>2. \A star \in rest : star \in StarsGiven(after)
      BY <1>4, <2>2 DEF StarsGiven
    <3>3. \A star \in new : star \in StarsGiven(after) /\ star[1] = j
      BY <1>1, <1>2, <1>4 DEF StarsOf, StarsGiven
    <3> QED
      BY <2>2, <3>1, <3>2, <3>3
  <2>4. /\ previous \in Nat /\ stars \in Nat
        /\ IsFiniteSet(old) /\ Cardinality(old) = previous
        /\ IsFiniteSet(new) /\ Cardinality(new) = stars
    BY <1>1, <1>2, StarsOfOne
  <2>5. IsFiniteSet(rest) /\ Cardinality(rest) = Cardinality(given) - previous
    <3>1. given \cap old = old
      BY <2>1
    <3> HIDE DEF given, old, previous
    <3>2. /\ IsFiniteSet(given \ old)
          /\ Cardinality(given \ old) = Cardinality(given) - Cardinality(given \cap old)
      BY <1>7, FS_Difference
    <3> QED
      BY <2>4, <3>1, <3>2
  <2> HIDE DEF rest, new, given, previous
  <2>6. Cardinality(rest \cup new) = Cardinality(rest) + stars
    <3>1. Cardinality(rest \cup new)
            = Cardinality(rest) + Cardinality(new) - Cardinality(rest \cap new)
      BY <2>4, <2>5, FS_Union
    <3>2. Cardinality(rest \cap new) = 0
      BY <2>3, FS_EmptySet
    <3>3. Cardinality(rest) \in Nat
      BY <2>5, FS_CardinalityType
    <3> QED
      BY <2>4, <3>1, <3>2, <3>3
  <2> QED
    BY <1>3, <1>5, <2>3, <2>5, <2>6 DEF previous, given
<1>12. \A k \in DOMAIN after.job_stars : after.job_stars[k] \in 1..MAX_STARS
  BY <1>1, <1>4, <1>5
<1>13. StarsAddUp(after)
  BY <1>3, <1>9, <1>10, <1>11, <1>12 DEF StarsAddUp
<1>14. StarsStandFor(after, a, jobs)
  BY <1>1, <1>4, <1>6, <1>8 DEF StarsStandFor
<1> QED
  BY <1>13, <1>14 DEF after

\* A reviewed Job is settled, and no step touches a settled Job.
LEMMA ReviewsStand ==
  ASSUME NEW score, NEW a, StarsStandFor(score, a, jobs), TermsStay
  PROVE  StarsStandFor(score, a, jobs')
<1>1. ASSUME NEW j \in DOMAIN score.job_stars
      PROVE  j \in DOMAIN jobs' /\ jobs'[j] = jobs[j]
  BY DEF StarsStandFor, TermsStay, Live, RELEASED, REJECTED, FUNDED, DELIVERED
<1> QED
  BY <1>1 DEF StarsStandFor

\* A step that writes no review; a new score starts with none.
LEMMA ReviewsStay ==
  ASSUME ReviewInv, TermsStay, DOMAIN scores \subseteq DOMAIN scores',
         \A a \in DOMAIN scores' :
           SameReviews(scores'[a], IF a \in DOMAIN scores THEN scores[a] ELSE EmptyScore)
  PROVE  ReviewInv'
<1>1. ASSUME NEW a \in DOMAIN scores'
      PROVE  StarsAddUp(scores'[a]) /\ StarsStandFor(scores'[a], a, jobs')
  <2> DEFINE old == IF a \in DOMAIN scores THEN scores[a] ELSE EmptyScore
  <2>1. StarsAddUp(old) /\ StarsStandFor(old, a, jobs)
    BY NoStars DEF ReviewInv
  <2>2. SameReviews(scores'[a], old)
    OBVIOUS
  <2> HIDE DEF old
  <2>3. StarsStandFor(old, a, jobs')
    BY <2>1, ReviewsStand
  <2> QED
    BY <2>1, <2>2, <2>3, SameStars
<1>2. ReviewInv' <=>
        \A a \in DOMAIN scores' : StarsAddUp(scores'[a]) /\ StarsStandFor(scores'[a], a, jobs')
  BY DEF ReviewInv, StarsAddUp, StarsStandFor, StarsGiven
<1> QED
  BY <1>1, <1>2

\* The score effects of the doors and of a claim: counters and seats, no stars.
Effect(score, after) ==
  /\ DOMAIN after = DOMAIN score
  /\ ReviewField \subseteq DOMAIN score => SameReviews(after, score)

LEMMA EffectsWriteNoReview ==
  ASSUME NEW score
  PROVE  /\ \A job : Effect(score, free_seat(score, job))
         /\ Effect(score, increment_active(score))
         /\ \A kind \in {"no_delivery", "rejected_after_delivery", "as_buyer_rejected"} :
              Effect(score, record_outcome(score, kind))
         /\ \A value : Effect(score, [score EXCEPT !.active_seller_jobs = value])
BY DEF free_seat, decrement_active, increment_active, record_outcome, Effect, SameReviews,
   ReviewField

LEMMA EffectsCompose ==
  ASSUME NEW score, NEW middle, NEW after, Effect(score, middle), Effect(middle, after)
  PROVE  Effect(score, after)
BY DEF Effect, SameReviews, ReviewField

\* What a door writes on the scores holds no review.
LEMMA DoorsWriteNoReview ==
  ASSUME NEW j, NEW after,
         \/ after = score_after_seat(j)
         \/ \E kind \in {"no_delivery", "rejected_after_delivery"} :
              after = score_after_outcome(j, kind)
         \/ after = score_after_agent_reject(j)
  PROVE  /\ DOMAIN after = DOMAIN scores
         /\ \A a \in DOMAIN scores : Effect(scores[a], after[a])
<1> DEFINE s == jobs[j].seller
           b == jobs[j].buyer
<1>0. \A score : Effect(score, score)
  BY DEF Effect, SameReviews
<1>1. CASE after = score_after_seat(j)
  <2>1. after = [scores EXCEPT ![s] = free_seat(scores[s], jobs[j])]
    BY <1>1 DEF score_after_seat
  <2> HIDE DEF s
  <2> QED
    BY <1>0, <2>1, EffectsWriteNoReview
<1>2. ASSUME NEW kind \in {"no_delivery", "rejected_after_delivery"}, NEW middle,
             middle = score_after_outcome(j, kind)
      PROVE  /\ DOMAIN middle = DOMAIN scores
             /\ \A a \in DOMAIN scores : Effect(scores[a], middle[a])
  <2> DEFINE written == record_outcome(scores[s], kind)
             freed   == free_seat(written, jobs[j])
  <2>1. middle = [scores EXCEPT ![s] = freed]
    BY <1>2 DEF score_after_outcome
  <2>2. Effect(scores[s], written)
    BY EffectsWriteNoReview
  <2> HIDE DEF written
  <2>3. Effect(written, freed)
    BY EffectsWriteNoReview
  <2> HIDE DEF freed
  <2>4. Effect(scores[s], freed)
    BY <2>2, <2>3, EffectsCompose
  <2> HIDE DEF s
  <2> QED
    BY <1>0, <2>1, <2>4
<1>3. CASE after = score_after_agent_reject(j)
  <2> DEFINE middle == score_after_outcome(j, "rejected_after_delivery")
  <2>1. after = [middle EXCEPT ![b] = record_outcome(middle[b], "as_buyer_rejected")]
    BY <1>3 DEF score_after_agent_reject
  <2>2. /\ DOMAIN middle = DOMAIN scores
        /\ \A a \in DOMAIN scores : Effect(scores[a], middle[a])
    BY <1>2
  <2> HIDE DEF middle, b
  <2>3. \A a \in DOMAIN scores : Effect(middle[a], after[a])
    BY <1>0, <2>1, <2>2, EffectsWriteNoReview
  <2> QED
    BY <2>1, <2>2, <2>3, EffectsCompose
<1> QED
  BY <1>1, <1>2, <1>3

\* A step of the scores that writes no review on any of them.
LEMMA EffectsKeepReviews ==
  ASSUME ReviewInv, TermsStay, DOMAIN scores' = DOMAIN scores,
         \A a \in DOMAIN scores : Effect(scores[a], scores'[a])
  PROVE  ReviewInv'
<1>1. \A a \in DOMAIN scores : SameReviews(scores'[a], scores[a])
  BY DEF ReviewInv, StarsAddUp, Effect
<1> QED
  BY <1>1, ReviewsStay

LEMMA ReviewsAtDoors ==
  ASSUME ReviewInv, TermsStay, Doors \/ BatchDoors
  PROVE  ReviewInv'
<1>0. \A score : Effect(score, score)
  BY DEF Effect, SameReviews
<1>1. PICK j : \/ scores' = score_after_seat(j)
               \/ \E kind \in {"no_delivery", "rejected_after_delivery"} :
                    scores' = score_after_outcome(j, kind)
               \/ scores' = score_after_agent_reject(j)
               \/ UNCHANGED scores
  <2>1. CASE Doors
    BY <2>1 DEF Doors, refund_v2, reject_v2, reject_v2_agent_buyer, decline_v2, release_v2,
       deliver_v2, deliver_v1
  <2>2. CASE BatchDoors
    BY <2>2 DEF BatchDoors, batch_refund, batch_release, batch_reject,
       batch_reject_agent_buyer, batch_deliver_v2
  <2> QED
    BY <2>1, <2>2
<1> QED
  BY <1>0, <1>1, DoorsWriteNoReview, EffectsKeepReviews

LEMMA ReviewsAtClaims ==
  ASSUME ReviewInv, TermsStay, NEW a, ClaimsBy(a)
  PROVE  ReviewInv'
<1>1. DOMAIN scores' = DOMAIN scores
      /\ \A b \in DOMAIN scores : \/ scores'[b] = scores[b]
                                  \/ scores'[b] = increment_active(scores[b])
  BY DEF ClaimsBy, take_seat
<1>2. \A score : Effect(score, score) /\ Effect(score, increment_active(score))
  BY EffectsWriteNoReview DEF Effect, SameReviews
<1> QED
  BY <1>1, <1>2, EffectsKeepReviews

\* Reviews, new scores and the administrator's seat count.
LEMMA ReviewsAtScores ==
  ASSUME ReviewInv, TermsStay, Review \/ Reconcile \/ \E a \in Account : create_empty_score(a)
  PROVE  ReviewInv'
<1>1. ASSUME NEW a, NEW score, StarsAddUp(score), StarsStandFor(score, a, jobs),
             UNCHANGED jobs,
             \/ claim_score(a, score)
             \/ a \in DOMAIN scores /\ scores' = [scores EXCEPT ![a] = score]
      PROVE  ReviewInv'
  <2>1. \A x \in DOMAIN scores' : /\ StarsAddUp(scores'[x])
                                  /\ StarsStandFor(scores'[x], x, jobs)
    BY <1>1 DEF claim_score, ReviewInv
  <2> QED
    BY <1>1, <2>1 DEF ReviewInv, StarsAddUp, StarsStandFor, StarsGiven
<1>2. ASSUME NEW a, create_empty_score(a) PROVE ReviewInv'
  BY <1>1, <1>2, NoStars DEF create_empty_score, escrowVars
<1>3. ASSUME NEW sender, NEW j \in DOMAIN jobs, NEW stars, submit_first_review(sender, j, stars)
      PROVE  ReviewInv'
  <2> DEFINE a     == jobs[j].seller
             after == apply_review(EmptyScore, j, sender, stars)
  <2>1. /\ UNCHANGED jobs /\ claim_score(a, after) /\ validate_review(sender, j, stars)
    BY <1>3 DEF submit_first_review, escrowVars
  <2>2. StarsAddUp(after) /\ StarsStandFor(after, a, jobs)
    BY <2>1, NoStars, ReviewCounts
  <2> HIDE DEF a, after
  <2> QED
    BY <1>1, <2>1, <2>2
<1>4. ASSUME NEW sender, NEW j \in DOMAIN jobs, NEW stars, submit_review(sender, j, stars)
      PROVE  ReviewInv'
  <2> DEFINE a     == jobs[j].seller
             after == apply_review(scores[a], j, sender, stars)
  <2>1. /\ a \in DOMAIN scores /\ UNCHANGED jobs /\ validate_review(sender, j, stars)
        /\ scores' = [scores EXCEPT ![a] = after]
    BY <1>4 DEF submit_review, has_score, escrowVars
  <2>2. StarsAddUp(scores[a]) /\ StarsStandFor(scores[a], a, jobs)
    BY <2>1 DEF ReviewInv
  <2>3. StarsAddUp(after) /\ StarsStandFor(after, a, jobs)
    BY <2>1, <2>2, ReviewCounts
  <2> HIDE DEF a, after
  <2> QED
    BY <1>1, <2>1, <2>3
<1>5. ASSUME NEW a, NEW value, set_active_seller_jobs(a, value)
      PROVE  ReviewInv'
  <2>1. /\ a \in DOMAIN scores
        /\ scores' = [scores EXCEPT ![a] = [@ EXCEPT !.active_seller_jobs = value]]
    BY <1>5 DEF set_active_seller_jobs, has_score
  <2>2. \A score : /\ Effect(score, score)
                   /\ Effect(score, [score EXCEPT !.active_seller_jobs = value])
    BY EffectsWriteNoReview DEF Effect, SameReviews
  <2> QED
    BY <2>1, <2>2, EffectsKeepReviews
<1> QED
  BY <1>2, <1>3, <1>4, <1>5 DEF Review, Reconcile

LEMMA ReviewStep ==
  ASSUME MarketInv, ReviewInv, [MarketNext]_marketVars
  PROVE  ReviewInv'
<1>0. TermsStay
  BY JobsStep DEF MarketInv
<1>1. \A score : Effect(score, score)
  BY DEF Effect, SameReviews
<1>2. UNCHANGED scores => ReviewInv'
  BY <1>0, <1>1, EffectsKeepReviews
<1>3. CASE ReputationNext
  BY <1>0, <1>2, <1>3, ReviewsAtDoors, ReviewsAtScores
     DEF ReputationNext, EscrowAlone, RegistryAlone, create_score_board
<1>4. CASE OpeningNext
  <2>0. \A o : repay_buyer(o) => UNCHANGED scores
    BY DEF repay_buyer, reputationVars
  <2>1. PostOpening \/ ReturnOpening => UNCHANGED scores
    <3>1. PostOpening => UNCHANGED scores
      BY DEF PostOpening, create_open_v2, reputationVars
    <3>2. ReturnOpening => UNCHANGED scores
      BY <2>0 DEF ReturnOpening, cancel_open, refund_unclaimed
    <3> QED
      BY <3>1, <3>2
  <2>2. ClaimOpening => ReviewInv'
    BY <1>0, ClaimIsClaim, ReviewsAtClaims
  <2> QED
    BY <1>2, <1>4, <2>1, <2>2 DEF OpeningNext
<1>5. CASE BatchNext
  <2>1. PostBatch => UNCHANGED scores
    BY DEF PostBatch, create_batch_open, reputationVars
  <2>2. \A b : drain_remainder(b) => UNCHANGED scores
    BY DEF drain_remainder, reputationVars
  <2>3. ReturnSlots => UNCHANGED scores
    BY <2>2 DEF ReturnSlots, cancel_batch_open, refund_batch_expired
  <2>4. ClaimSlot => ReviewInv'
    BY <1>0, ClaimIsClaim, ReviewsAtClaims
  <2> QED
    BY <1>0, <1>2, <1>5, <2>1, <2>3, <2>4, ReviewsAtDoors DEF BatchNext
<1>6. CASE UNCHANGED marketVars
  BY <1>2, <1>6 DEF marketVars, reputationVars
<1> QED
  BY <1>3, <1>4, <1>5, <1>6 DEF MarketNext

\* The stars of a score add up to its Jobs, whoever reviews what and how often:
\* an edit counts once, a buyer once, and no star stands for a Job that is not
\* this seller's, or was never delivered, or is not settled.
THEOREM ReviewsAreKept == MarketSpec => []ReviewsAreReceipts
<1>1. MarketInit => ReviewInv
  BY DEF MarketInit, ReviewInv
<1>2. MarketInv /\ ReviewInv /\ [MarketNext]_marketVars => ReviewInv'
  BY ReviewStep
<1>3. ReviewInv => ReviewsAreReceipts
  BY DEF ReviewInv, StarsAddUp, StarsStandFor, ReviewsAreReceipts
<1> QED
  BY <1>1, <1>2, <1>3, MarketInductive, PTL DEF MarketSpec
=============================================================================
