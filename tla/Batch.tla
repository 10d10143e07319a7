------------------------------- MODULE Batch --------------------------------
(***************************************************************************)
(* a2a_escrow::batch: a wave of identical slots escrowed in one post.      *)
(* Every claim splits one slot off and mints a Job that names the wave;    *)
(* such Jobs settle and deliver through the doors of this module, which    *)
(* also free the seller's hold on the wave (all but decline_v2: a decline  *)
(* burns the hold).                                                        *)
(***************************************************************************)
EXTENDS Board

CONSTANTS Payment, SlotsTotal, MaxClaims     \* bounds: what posters try

ASSUME BatchAssumption ==
  Payment \subseteq Nat /\ SlotsTotal \subseteq Nat /\ MaxClaims \subseteq Nat

\* `active_claims` is the ActiveClaimsSemanticsKey brand; `returned` is what a
\* drain transferred.  A missing row of claims_by_agent reads 0.
VARIABLE batches      \* BatchId -> BatchOpening, for the waves posted so far

\* `payment` must divide evenly into the slots.
create_batch_open(buyer, b, payment, slots, open_until, sla, window, min_level, max_claims) ==
  LET amount == payment \div slots IN
  /\ b \in BatchId \ DOMAIN batches
  /\ slots \in 1..cfg.max_batch_slots
  /\ max_claims >= 1
  /\ amount * slots = payment
  /\ PostInRange(amount, open_until, sla, window, min_level)
  /\ batches' = [p \in DOMAIN batches \cup {b} |->
       IF p = b THEN
         [buyer |-> buyer, escrow |-> payment, amount |-> amount,
          slots_total |-> slots, slots_remaining |-> slots, fee_bps |-> cfg.fee_bps,
          open_until_ms |-> open_until, sla_ms |-> sla, review_window_ms |-> window,
          reject_split_bps |-> BPS_DENOMINATOR,
          claim_policy |-> CLAIM_POLICY_ANY_ACTIVE, min_seller_level |-> min_level,
          max_claims_per_agent |-> max_claims,
          claims_by_agent |-> [a \in Account |-> 0], active_claims |-> TRUE,
          returned |-> 0]
       ELSE batches[p]]
  /\ UNCHANGED reputationVars

\* Holds of this wave, under the smaller of the buyer's ceiling and the level cap.
wave_cap(claimer, batch) ==
  Min({batch.max_claims_per_agent, active_cap(claimer)})

may_claim_slot(claimer, batch) ==
  /\ batch.active_claims
  /\ batch.slots_remaining > 0
  /\ may_claim(claimer, batch.buyer, batch.open_until_ms, batch.min_seller_level)
  /\ batch.claims_by_agent[claimer] < wave_cap(claimer, batch)
  /\ meets_policy(claimer, batch.claim_policy)

\* `escrow.value() == amount * slots_remaining`, asserted after every change.
assert_invariant(batch) == batch.escrow = batch.amount * batch.slots_remaining

\* Plausible bug: the claim takes the whole remainder out of the escrow.
batch_claim_TakesRemainder(claimer, b, j) ==
  LET batch == batches[b] IN
  /\ may_claim_slot(claimer, batch)
  /\ create_claimed(batch.buyer, claimer, j, batch.escrow, batch.fee_bps,
                    now + batch.sla_ms, batch.review_window_ms,
                    batch.reject_split_bps, b)
  /\ take_seat(claimer)
  /\ batches' = [batches EXCEPT ![b].escrow = @ - batch.amount,
                                ![b].slots_remaining = @ - 1,
                                ![b].claims_by_agent[claimer] = @ + 1]
  /\ UNCHANGED registryVars

\* One slot's escrow becomes Job j.
batch_claim(claimer, b, j) ==
  LET batch == batches[b] IN
  /\ may_claim_slot(claimer, batch)
  /\ batch.escrow >= batch.amount
  /\ create_claimed(batch.buyer, claimer, j, batch.amount, batch.fee_bps,
                    now + batch.sla_ms, batch.review_window_ms,
                    batch.reject_split_bps, b)
  /\ take_seat(claimer)
  /\ batches' = [batches EXCEPT ![b].escrow = @ - batch.amount,
                                ![b].slots_remaining = @ - 1,
                                ![b].claims_by_agent[claimer] = @ + 1]
  /\ assert_invariant(batches'[b])
  /\ UNCHANGED registryVars
-----------------------------------------------------------------------------
(***************************************************************************)
(* The doors for Jobs of a wave.                                           *)
(***************************************************************************)

from_batch(b, j) == jobs[j].batch_origin = b

hold_released(job) == "batch_hold_released" \in job.marks

\* The stamp a settlement adds when deliver has not freed the hold before.
released_mark(job) == IF hold_released(job) THEN {} ELSE {"batch_hold_released"}

\* Plausible bug: the hold is given back a second time at settlement.
free_wave_hold_Twice(b, job) ==
  batches' = [batches EXCEPT ![b].claims_by_agent[job.seller] = @ - 1]

\* Frees the hold unless that was done before; saturates at 0.
free_wave_hold(b, job) ==
  batches' = [batches EXCEPT ![b].claims_by_agent[job.seller] =
                               IF hold_released(job) THEN @
                               ELSE IF @ > 0 THEN @ - 1 ELSE 0]

batch_release(sender, b, j) ==
  /\ from_batch(b, j)
  /\ has_score(jobs[j].seller)
  /\ release_settle_pkg(sender, j, released_mark(jobs[j]))
  /\ scores' = score_after_seat(j)
  /\ free_wave_hold(b, jobs[j])
  /\ UNCHANGED registryVars

batch_reject(sender, b, j) ==
  /\ from_batch(b, j)
  /\ ~is_registered(jobs[j].buyer)
  /\ has_score(jobs[j].seller)
  /\ reject_settle_pkg(sender, j, released_mark(jobs[j]))
  /\ scores' = score_after_outcome(j, "rejected_after_delivery")
  /\ free_wave_hold(b, jobs[j])
  /\ UNCHANGED registryVars

batch_reject_agent_buyer(sender, b, j) ==
  /\ from_batch(b, j)
  /\ is_registered(jobs[j].buyer)
  /\ has_score(jobs[j].seller)
  /\ has_score(jobs[j].buyer)
  /\ reject_settle_pkg(sender, j, released_mark(jobs[j]))
  /\ scores' = score_after_agent_reject(j)
  /\ free_wave_hold(b, jobs[j])
  /\ UNCHANGED registryVars

batch_refund(b, j) ==
  /\ from_batch(b, j)
  /\ has_score(jobs[j].seller)
  /\ refund_settle_pkg(j, released_mark(jobs[j]))
  /\ scores' = score_after_outcome(j, "no_delivery")
  /\ free_wave_hold(b, jobs[j])
  /\ UNCHANGED registryVars

\* Stamps the hold unconditionally: it would abort if already stamped.
batch_deliver_v2(sender, b, j) ==
  /\ from_batch(b, j)
  /\ has_score(jobs[j].seller)
  /\ deliver(sender, j, freed_mark(jobs[j]) \cup {"batch_hold_released"})
  /\ scores' = score_after_seat(j)
  /\ free_wave_hold(b, jobs[j])
  /\ UNCHANGED registryVars
-----------------------------------------------------------------------------
\* The unclaimed remainder goes back whole; an empty wave aborts.
drain_remainder(b) ==
  /\ batches[b].slots_remaining > 0
  /\ batches' = [batches EXCEPT ![b].slots_remaining = 0, ![b].escrow = 0,
                                ![b].returned = @ + batches[b].escrow]
  /\ UNCHANGED reputationVars

cancel_batch_open(sender, b) ==
  /\ assert_version
  /\ sender = batches[b].buyer
  /\ drain_remainder(b)

\* Plausible bug: a wave somebody claimed from is not refunded.
refund_batch_expired_UntouchedOnly(b) ==
  /\ assert_version
  /\ now > batches[b].open_until_ms
  /\ batches[b].slots_remaining = batches[b].slots_total
  /\ drain_remainder(b)

refund_batch_expired(b) ==
  /\ assert_version
  /\ now > batches[b].open_until_ms
  /\ drain_remainder(b)

PostBatch ==
  \E buyer \in Poster, b \in BatchId, payment \in Payment, slots \in SlotsTotal,
     d \in OpenWindow, sla, w \in Duration, l \in MinLevel, m \in MaxClaims :
       create_batch_open(buyer, b, payment, slots, now + d, sla, w, l, m)

ClaimSlot ==
  \E claimer \in Account, b \in DOMAIN batches, j \in JobId : batch_claim(claimer, b, j)

BatchDoors ==
  \E b \in DOMAIN batches, j \in DOMAIN jobs :
    \/ batch_refund(b, j)
    \/ \E sender \in Account :
         \/ batch_release(sender, b, j)
         \/ batch_reject(sender, b, j)
         \/ batch_reject_agent_buyer(sender, b, j)
         \/ batch_deliver_v2(sender, b, j)

ReturnSlots ==
  \E b \in DOMAIN batches :
    refund_batch_expired(b) \/ \E sender \in Account : cancel_batch_open(sender, b)

BatchNext == PostBatch \/ ClaimSlot \/ BatchDoors \/ ReturnSlots
-----------------------------------------------------------------------------
JobsOf(b) == {j \in DOMAIN jobs : jobs[j].batch_origin = b}

\* A wave's payment is always the sum of what is still escrowed for unclaimed
\* slots, what went back to the buyer and what its Jobs were minted with, slot
\* by slot - so the assert the contract makes after each change never fires.
WaveFundsAccountedFor ==
  \A b \in DOMAIN batches :
    LET batch == batches[b] IN
    /\ assert_invariant(batch)
    /\ batch.escrow + batch.returned + batch.amount * Cardinality(JobsOf(b))
         = batch.amount * batch.slots_total
    /\ \A j \in JobsOf(b) : /\ jobs[j].amount = batch.amount
                            /\ jobs[j].buyer = batch.buyer
                            /\ jobs[j].fee_bps = batch.fee_bps

\* What still counts against a claimer: its Jobs of the wave whose hold was not
\* given back, the declined ones among them.
HoldsOf(b, a) ==
  {j \in JobsOf(b) : /\ jobs[j].seller = a
                     /\ ~hold_released(jobs[j])}

\* claims_by_agent is exactly the number of a claimer's unreleased Jobs of the
\* wave, so no hold is freed twice, none leaks at a settlement through any
\* door, and a decline keeps its hold for good.
WaveHoldsMatch ==
  \A b \in DOMAIN batches, a \in Account :
    /\ batches[b].claims_by_agent[a] = Cardinality(HoldsOf(b, a))
    /\ \A j \in HoldsOf(b, a) :
         jobs[j].state \in Live \/ jobs[j].settled_by = "JobDeclined"

=============================================================================
