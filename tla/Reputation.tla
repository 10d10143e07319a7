----------------------------- MODULE Reputation -----------------------------
(***************************************************************************)
(* a2a_escrow::reputation: one AgentScore per agent - stars, distinct      *)
(* buyers, outcome counters and the count of board seats in use - and the  *)
(* doors that settle a Job and write the score in the same transaction.    *)
(*                                                                         *)
(* A score lives at an address derived from the board and the agent, so    *)
(* `scores` is a function of the agent whose domain only grows.  The doors *)
(* of Batch use the score effects defined here, as batch.move calls this   *)
(* module's package-visible hooks.                                         *)
(***************************************************************************)
EXTENDS Escrow, Registry, FiniteSetsExt

CONSTANTS
  PROVEN_MIN_REVIEWS,       \* distinct buyers that make a seller Proven
  PROVEN_MIN_AVG_STARS_X10, \* the 4-star bar, scaled
  AVG_SCALE,
  LEVEL4_MIN_REVIEWS,
  LEVEL4_MAX_NO_DELIVERY,
  MAX_STARS,
  Stars,                    \* bound: the star values reviewers try
  SeatValue                 \* bound: the values the reconcile door is given

ASSUME ReputationAssumption ==
  /\ Agent \subseteq Account
  /\ {PROVEN_MIN_REVIEWS, PROVEN_MIN_AVG_STARS_X10, AVG_SCALE, LEVEL4_MIN_REVIEWS,
      LEVEL4_MAX_NO_DELIVERY, MAX_STARS} \subseteq Nat
  /\ Stars \subseteq Nat /\ SeatValue \subseteq Nat

VARIABLE scores       \* address -> AgentScore, for the scores created so far

reputationVars == <<escrowVars, registryVars, scores>>

\* job_stars maps the reviewed Jobs to their stars; the counters whose dynamic
\* field is missing read 0.
EmptyScore ==
  [review_count |-> 0, stars_sum |-> 0, job_stars |-> [j \in {} |-> 0],
   distinct_buyers |-> 0, buyers_seen |-> {}, rejected_after_delivery |-> 0,
   no_delivery |-> 0, as_buyer_rejected |-> 0, active_seller_jobs |-> 0]

has_score(a) == a \in DOMAIN scores

\* derived_object::claim: at most one score per agent, under the one board.
claim_score(a, score) ==
  /\ cfg.score_board
  /\ ~has_score(a)
  /\ scores' = [x \in DOMAIN scores \cup {a} |-> IF x = a THEN score ELSE scores[x]]
-----------------------------------------------------------------------------
(***************************************************************************)
(* Levels: what a score says of a seller.                                  *)
(***************************************************************************)

meets_proven(score) == score.distinct_buyers >= PROVEN_MIN_REVIEWS

meets_min_avg(score) ==
  /\ meets_proven(score)
  /\ score.stars_sum * AVG_SCALE >= score.review_count * PROVEN_MIN_AVG_STARS_X10

seller_level(score) ==
  CASE /\ meets_min_avg(score)
       /\ score.review_count >= LEVEL4_MIN_REVIEWS
       /\ score.no_delivery <= LEVEL4_MAX_NO_DELIVERY -> 4
    [] /\ meets_min_avg(score)
       /\ \/ score.review_count < LEVEL4_MIN_REVIEWS
          \/ score.no_delivery > LEVEL4_MAX_NO_DELIVERY -> 3
    [] meets_proven(score) /\ ~meets_min_avg(score) -> 2
    [] ~meets_proven(score) -> 1

\* Too many missed deadlines put a seller back on Level 1, whatever its stars.
effective_seller_level(score) ==
  IF score.no_delivery >= cfg.no_delivery_floor THEN 1 ELSE seller_level(score)

active_cap(a) == cfg.tier_active_cap[effective_seller_level(scores[a])]

meets_min_seller_level(a, min_level) ==
  effective_seller_level(scores[a]) >= min_level
-----------------------------------------------------------------------------
(***************************************************************************)
(* Seats: how many board Jobs a seller has in flight.                      *)
(***************************************************************************)

seat_held(job) == job.claimed /\ "active_freed" \notin job.marks

increment_active(score) == [score EXCEPT !.active_seller_jobs = @ + 1]

\* Saturates at 0.
decrement_active(score) ==
  [score EXCEPT !.active_seller_jobs = IF @ = 0 THEN 0 ELSE @ - 1]

free_seat(score, job) == IF seat_held(job) THEN decrement_active(score) ELSE score

\* Plausible bug: the seat is freed and the one-shot stamp forgotten.
freed_mark_Never(job) == {}

\* The one-shot stamp deliver and decline put on a Job whose seat they free.
freed_mark(job) == IF seat_held(job) THEN {"active_freed"} ELSE {}

record_outcome(score, kind) == [score EXCEPT ![kind] = @ + 1]

\* What settling or delivering Job j does to the seller's score.
score_after_seat(j) ==
  [scores EXCEPT ![jobs[j].seller] = free_seat(@, jobs[j])]

score_after_outcome(j, kind) ==
  [scores EXCEPT ![jobs[j].seller] = free_seat(record_outcome(@, kind), jobs[j])]

score_after_agent_reject(j) ==
  [score_after_outcome(j, "rejected_after_delivery")
     EXCEPT ![jobs[j].buyer] = record_outcome(@, "as_buyer_rejected")]
-----------------------------------------------------------------------------
(***************************************************************************)
(* Score creation and reviews.                                             *)
(***************************************************************************)

create_score_board ==
  /\ RecordBoard
  /\ UNCHANGED <<registryVars, scores>>

\* Plausible bug: only registered agents can be given a score.
create_empty_score_AgentsOnly(a) ==
  /\ assert_version
  /\ is_registered(a)
  /\ claim_score(a, EmptyScore)
  /\ UNCHANGED <<escrowVars, registryVars>>

\* Permissionless: anyone may create anyone's empty score.
create_empty_score(a) ==
  /\ assert_version
  /\ claim_score(a, EmptyScore)
  /\ UNCHANGED <<escrowVars, registryVars>>

\* Only the buyer of delivered and settled work reviews it.
validate_review(sender, j, stars) ==
  /\ stars \in 1..MAX_STARS
  /\ sender = jobs[j].buyer
  /\ jobs[j].state \in {RELEASED, REJECTED}
  /\ jobs[j].delivered_at_ms > 0

\* Plausible bug: an edit counts as another review.
apply_review_CountsEdits(score, j, buyer, stars) ==
  LET reviewed == DOMAIN score.job_stars
      previous == IF j \in reviewed THEN score.job_stars[j] ELSE 0
      fresh    == previous = 0 /\ buyer \notin score.buyers_seen
  IN  [score EXCEPT
         !.review_count = @ + 1,
         !.stars_sum = @ - previous + stars,
         !.distinct_buyers = IF fresh THEN @ + 1 ELSE @,
         !.buyers_seen = IF fresh THEN @ \cup {buyer} ELSE @,
         !.job_stars = [k \in reviewed \cup {j} |-> IF k = j THEN stars ELSE @[k]]]

\* A Job's first stars count once, later ones replace them; a buyer is counted
\* as distinct at its first contribution only.
apply_review(score, j, buyer, stars) ==
  LET reviewed == DOMAIN score.job_stars
      previous == IF j \in reviewed THEN score.job_stars[j] ELSE 0
      fresh    == previous = 0 /\ buyer \notin score.buyers_seen
  IN  [score EXCEPT
         !.review_count = IF j \in reviewed THEN @ ELSE @ + 1,
         !.stars_sum = @ - previous + stars,
         !.distinct_buyers = IF fresh THEN @ + 1 ELSE @,
         !.buyers_seen = IF fresh THEN @ \cup {buyer} ELSE @,
         !.job_stars = [k \in reviewed \cup {j} |-> IF k = j THEN stars ELSE @[k]]]

submit_first_review(sender, j, stars) ==
  /\ assert_version
  /\ validate_review(sender, j, stars)
  /\ claim_score(jobs[j].seller, apply_review(EmptyScore, j, sender, stars))
  /\ UNCHANGED <<escrowVars, registryVars>>

submit_review(sender, j, stars) ==
  /\ assert_version
  /\ validate_review(sender, j, stars)
  /\ has_score(jobs[j].seller)
  /\ scores' = [scores EXCEPT ![jobs[j].seller] = apply_review(@, j, sender, stars)]
  /\ UNCHANGED <<escrowVars, registryVars>>
-----------------------------------------------------------------------------
(***************************************************************************)
(* The doors for Jobs that are not from a wave.  Every one takes the       *)
(* seller's own AgentScore, so it aborts until that score exists.          *)
(***************************************************************************)

not_batch(j) == jobs[j].batch_origin = NoBatch

reject_v2(sender, j) ==
  /\ not_batch(j)
  /\ ~is_registered(jobs[j].buyer)
  /\ has_score(jobs[j].seller)
  /\ reject_settle_pkg(sender, j, {})
  /\ scores' = score_after_outcome(j, "rejected_after_delivery")
  /\ UNCHANGED registryVars

\* A registered buyer writes its reject on its own score as well.
reject_v2_agent_buyer(sender, j) ==
  /\ not_batch(j)
  /\ is_registered(jobs[j].buyer)
  /\ has_score(jobs[j].seller)
  /\ has_score(jobs[j].buyer)
  /\ reject_settle_pkg(sender, j, {})
  /\ scores' = score_after_agent_reject(j)
  /\ UNCHANGED registryVars

\* Plausible bug: the door settles on its own and forgets the deadline.
refund_v2_AnyTime(j) ==
  /\ not_batch(j)
  /\ has_score(jobs[j].seller)
  /\ assert_version /\ jobs[j].state = FUNDED
  /\ Stamp(j, Settled(jobs[j], REFUNDED, refund_shares(jobs[j].escrow), "JobRefunded"), {})
  /\ scores' = score_after_outcome(j, "no_delivery")
  /\ UNCHANGED <<registryVars, now, cfg>>

refund_v2(j) ==
  /\ not_batch(j)
  /\ has_score(jobs[j].seller)
  /\ refund_settle_pkg(j, {})
  /\ scores' = score_after_outcome(j, "no_delivery")
  /\ UNCHANGED registryVars

\* Plausible bug: a decline is booked as a missed deadline.
decline_v2_CountsAsNoDelivery(sender, j) ==
  /\ has_score(jobs[j].seller)
  /\ decline_settle_pkg(sender, j, freed_mark(jobs[j]))
  /\ scores' = score_after_outcome(j, "no_delivery")
  /\ UNCHANGED registryVars

\* The one decline door, wave Jobs included: a clean walk.
decline_v2(sender, j) ==
  /\ has_score(jobs[j].seller)
  /\ decline_settle_pkg(sender, j, freed_mark(jobs[j]))
  /\ scores' = score_after_seat(j)
  /\ UNCHANGED registryVars

release_v2(sender, j) ==
  /\ not_batch(j)
  /\ has_score(jobs[j].seller)
  /\ release_settle_pkg(sender, j, {})
  /\ scores' = score_after_seat(j)
  /\ UNCHANGED registryVars

deliver_v2(sender, j) ==
  /\ not_batch(j)
  /\ has_score(jobs[j].seller)
  /\ deliver(sender, j, freed_mark(jobs[j]))
  /\ scores' = score_after_seat(j)
  /\ UNCHANGED registryVars

\* escrow::deliver is still public: it posts the delivery and writes no score.
deliver_v1(sender, j) ==
  /\ deliver(sender, j, {})
  /\ UNCHANGED <<registryVars, scores>>

\* AdminCap: overwrite the seat count.
set_active_seller_jobs(a, value) ==
  /\ assert_version
  /\ has_score(a)
  /\ value <= cfg.tier_active_cap[4]
  /\ scores' = [scores EXCEPT ![a].active_seller_jobs = value]
  /\ UNCHANGED <<escrowVars, registryVars>>
-----------------------------------------------------------------------------
EscrowAlone ==
  /\ Tick \/ Admin \/ Hire
  /\ UNCHANGED <<registryVars, scores>>

RegistryAlone ==
  /\ RegistryNext
  /\ UNCHANGED <<escrowVars, scores>>

Review ==
  \E sender \in Account, j \in DOMAIN jobs, stars \in Stars :
    submit_first_review(sender, j, stars) \/ submit_review(sender, j, stars)

Doors ==
  \E j \in DOMAIN jobs :
    \/ refund_v2(j)
    \/ \E sender \in Account :
         \/ reject_v2(sender, j)
         \/ reject_v2_agent_buyer(sender, j)
         \/ decline_v2(sender, j)
         \/ release_v2(sender, j)
         \/ deliver_v2(sender, j)
         \/ deliver_v1(sender, j)

Reconcile == \E a \in Account, value \in SeatValue : set_active_seller_jobs(a, value)

ReputationNext ==
  \/ EscrowAlone
  \/ RegistryAlone
  \/ create_score_board
  \/ \E a \in Account : create_empty_score(a)
  \/ Review
  \/ Doors
  \/ Reconcile
-----------------------------------------------------------------------------
(***************************************************************************)
(* Properties.                                                             *)
(***************************************************************************)

\* The board Jobs that occupy a seat of agent a.
HeldSeats(a) ==
  {j \in DOMAIN jobs : /\ jobs[j].seller = a
                       /\ jobs[j].state \in Live
                       /\ seat_held(jobs[j])}

\* "The counter can never move except with the money": active_seller_jobs is
\* exactly the number of the seller's live board Jobs whose seat was not freed
\* yet - no path through deliver, decline, the cranks, the waves or a hire frees
\* a seat twice or leaves one occupied.
SeatsMatch ==
  \A a \in DOMAIN scores : scores[a].active_seller_jobs = Cardinality(HeldSeats(a))

\* What a score records of a seller, and of a registered buyer, is what the
\* Jobs show: a missed deadline for every refund crank and none for a decline,
\* a reject for every reject.
OutcomesAreReceipts ==
  \A a \in DOMAIN scores :
    /\ scores[a].no_delivery
         = Cardinality({j \in DOMAIN jobs : jobs[j].seller = a /\ jobs[j].settled_by = "JobRefunded"})
    /\ scores[a].rejected_after_delivery
         = Cardinality({j \in DOMAIN jobs : jobs[j].seller = a /\ jobs[j].state = REJECTED})
    /\ scores[a].as_buyer_rejected
         <= Cardinality({j \in DOMAIN jobs : jobs[j].buyer = a /\ jobs[j].state = REJECTED})

\* The single stars on a score, one by one.
StarsGiven(score) ==
  {star \in (DOMAIN score.job_stars) \X (1..MAX_STARS) : star[2] <= score.job_stars[star[1]]}

\* "Reputation is receipts": the aggregates are those of the per-Job stars, each
\* star stands for a Job of this seller that was delivered and then paid or
\* rejected, and the distinct buyers are the buyers of those Jobs.
ReviewsAreReceipts ==
  \A a \in DOMAIN scores :
    LET score    == scores[a]
        reviewed == DOMAIN score.job_stars
    IN  /\ score.review_count = Cardinality(reviewed)
        /\ score.stars_sum = Cardinality(StarsGiven(score))
        /\ score.buyers_seen = {jobs[j].buyer : j \in reviewed}
        /\ score.distinct_buyers = Cardinality(score.buyers_seen)
        /\ \A j \in reviewed : /\ jobs[j].seller = a
                               /\ jobs[j].state \in {RELEASED, REJECTED}
                               /\ jobs[j].delivered_at_ms > 0

\* A seller never holds more seats than the cap of the level it has when it
\* takes one; only a later change of level or cap can leave it above.
CapRespected ==
  [][\A a \in DOMAIN scores :
       Cardinality(HeldSeats(a)') > Cardinality(HeldSeats(a)) =>
         Cardinality(HeldSeats(a)') <= active_cap(a)
    ]_reputationVars

\* "FUNDED, UNDELIVERED board-claimed jobs this seller holds (the seat frees at
\* DELIVER - buyer settle latency no longer blocks a hunter's throughput)".
ActiveCountsUndelivered ==
  \A a \in DOMAIN scores :
    scores[a].active_seller_jobs
      = Cardinality({j \in HeldSeats(a) : jobs[j].state = FUNDED})
=============================================================================
