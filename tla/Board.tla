------------------------------- MODULE Board --------------------------------
(***************************************************************************)
(* What the two posting modules, a2a_escrow::opening and ::batch, assert   *)
(* alike: the bounds of a post and the gates of a claim.                   *)
(***************************************************************************)
EXTENDS Reputation

CONSTANTS
  MAX_OPEN_WINDOW_MS,
  Poster,                   \* bound: the accounts that post
  OpenWindow, MinLevel      \* bound: what posters try

ASSUME BoardAssumption ==
  /\ MAX_OPEN_WINDOW_MS \in Nat
  /\ Poster \subseteq Account
  /\ OpenWindow \subseteq Nat /\ MinLevel \subseteq Nat

CLAIM_POLICY_ANY_ACTIVE  == 0
CLAIM_POLICY_MIN_REVIEWS == 1
CLAIM_POLICY_MIN_AVG     == 2
ClaimPolicy == {CLAIM_POLICY_ANY_ACTIVE, CLAIM_POLICY_MIN_REVIEWS, CLAIM_POLICY_MIN_AVG}

\* Plausible bug: the post skips a bound that the claim's mint will assert.
PostInRange_NoWindowCap(amount, open_until, sla, window, min_level) ==
  /\ assert_version
  /\ min_level <= 4
  /\ amount > 0
  /\ assert_amount_in_bounds(amount)
  /\ now < open_until
  /\ open_until <= now + MAX_OPEN_WINDOW_MS
  /\ sla \in 1..MAX_DELIVER_HORIZON_MS

\* A post's asserts, besides the policy (always 0) and the reject split
\* (always the whole amount to the buyer).
PostInRange(amount, open_until, sla, window, min_level) ==
  /\ assert_version
  /\ min_level <= 4
  /\ amount > 0
  /\ assert_amount_in_bounds(amount)
  /\ now < open_until
  /\ open_until <= now + MAX_OPEN_WINDOW_MS
  /\ sla \in 1..MAX_DELIVER_HORIZON_MS
  /\ window <= MAX_REVIEW_WINDOW_MS

\* Plausible bug: the capacity check lets a full seller take one more.
may_claim_OneMore(claimer, buyer, open_until, min_level) ==
  /\ assert_version
  /\ now <= open_until
  /\ claimer # buyer
  /\ is_active_agent(claimer)
  /\ has_score(claimer)
  /\ scores[claimer].active_seller_jobs <= active_cap(claimer)
  /\ meets_min_seller_level(claimer, min_level)

\* The gates of a claim: an open post of someone else, an active agent with a
\* score, a free seat under the cap of its effective level, the level floor.
may_claim(claimer, buyer, open_until, min_level) ==
  /\ assert_version
  /\ now <= open_until
  /\ claimer # buyer
  /\ is_active_agent(claimer)
  /\ has_score(claimer)
  /\ scores[claimer].active_seller_jobs < active_cap(claimer)
  /\ meets_min_seller_level(claimer, min_level)

\* Posts made before new posts had to carry policy 0 keep their bar.
meets_policy(claimer, policy) ==
  /\ policy = CLAIM_POLICY_MIN_REVIEWS => meets_proven(scores[claimer])
  /\ policy = CLAIM_POLICY_MIN_AVG     => meets_min_avg(scores[claimer])

take_seat(claimer) == scores' = [scores EXCEPT ![claimer] = increment_active(@)]
=============================================================================
