--------------------------- MODULE MCMarketplace ---------------------------
(***************************************************************************)
(* Small instances of Marketplace for TLC.  One agent is registered and    *)
(* (but for one run) the score board exists at launch; the rest happens in *)
(* the run.                                                                *)
(***************************************************************************)
EXTENDS JobDoors, TLC

CONSTANTS treasury, first, p1, MCBuyer

MCLaunch(caps) ==
  [version |-> VERSION, fee_bps |-> 250, fee_receiver |-> treasury,
   min_job_amount |-> 40, max_job_amount |-> 41,
   tier_active_cap |-> caps, no_delivery_floor |-> 1,
   max_batch_slots |-> 2, score_board |-> TRUE]

\* One more seat per level, as the package defaults go.
MCLaunchCfg == MCLaunch([l \in Level |-> l])

\* Every level has one seat.
MCOneSeatCfg == MCLaunch([l \in Level |-> 1])

\* What the client takes the caps to be.
MCCaps == [l \in Level |-> l]

\* ... and nobody has created the score board yet.
MCNoBoardCfg == [MCLaunchCfg EXCEPT !.score_board = FALSE]

MCLaunchAgents == first :> [numeric_id |-> 1, profile |-> p1, active |-> TRUE]

\* Both accounts, when the buyer is registered too.
MCBothAgents ==
  MCLaunchAgents @@ MCBuyer :> [numeric_id |-> 2, profile |-> p1, active |-> TRUE]

\* What older packages left behind: Openings that ask for a Proven seller and a
\* wave without the ActiveClaims brand.
MCLegacyOpening(policy) ==
  [buyer |-> MCBuyer, escrow |-> 41, amount |-> 41, fee_bps |-> 250,
   open_until_ms |-> MaxNow, sla_ms |-> 1, review_window_ms |-> 1,
   reject_split_bps |-> BPS_DENOMINATOR, claim_policy |-> policy,
   min_seller_level |-> 0, state |-> OPEN, repaid |-> 0, job |-> NoJob]

MCLegacyWave ==
  [buyer |-> MCBuyer, escrow |-> 41, amount |-> 41, slots_total |-> 1,
   slots_remaining |-> 1, fee_bps |-> 250, open_until_ms |-> 2, sla_ms |-> 1,
   review_window_ms |-> 1, reject_split_bps |-> BPS_DENOMINATOR,
   claim_policy |-> CLAIM_POLICY_MIN_AVG, min_seller_level |-> 0,
   max_claims_per_agent |-> 1, claims_by_agent |-> [a \in Account |-> 0],
   active_claims |-> FALSE, returned |-> 0]

LegacyInit ==
  /\ EscrowInit
  /\ RegistryInit
  /\ scores = [a \in {} |-> EmptyScore]
  /\ openings = [o \in OpeningId |-> MCLegacyOpening(CLAIM_POLICY_MIN_REVIEWS)]
  /\ batches = [b \in BatchId |-> MCLegacyWave]

LegacySpec == LegacyInit /\ [][MarketNext]_marketVars

\* Jobs and posts are interchangeable.
Symmetry == Permutations(JobId) \cup Permutations(OpeningId)
=============================================================================
