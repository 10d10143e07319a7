------------------------------ MODULE Opening -------------------------------
(***************************************************************************)
(* a2a_escrow::opening: open jobs.  A buyer escrows the money before the   *)
(* seller is known; the first qualified agent to claim turns the Opening   *)
(* into a Job, otherwise the buyer, or anyone after the open window, sends *)
(* the money back.                                                         *)
(*                                                                         *)
(* The contract consumes an Opening by value.  The model keeps a tombstone *)
(* (`state`, `repaid`, `job`) that says where the money went; guards read  *)
(* of it only that the Opening is gone.                                    *)
(***************************************************************************)
EXTENDS Board

CONSTANTS OpeningId, NoJob

ASSUME OpeningAssumption == NoJob \notin JobId

OPEN      == "OPEN"
CLAIMED   == "CLAIMED"
REPAID    == "REPAID"

VARIABLE openings     \* OpeningId -> Opening, for the ids posted so far

is_open(o) == openings[o].state = OPEN

create_open_v2(buyer, o, amount, open_until, sla, window, min_level) ==
  /\ o \in OpeningId \ DOMAIN openings
  /\ PostInRange(amount, open_until, sla, window, min_level)
  /\ openings' = [p \in DOMAIN openings \cup {o} |->
       IF p = o THEN
         [buyer |-> buyer, escrow |-> amount, amount |-> amount,
          fee_bps |-> cfg.fee_bps, open_until_ms |-> open_until, sla_ms |-> sla,
          review_window_ms |-> window, reject_split_bps |-> BPS_DENOMINATOR,
          claim_policy |-> CLAIM_POLICY_ANY_ACTIVE, min_seller_level |-> min_level,
          state |-> OPEN, repaid |-> 0, job |-> NoJob]
       ELSE openings[p]]
  /\ UNCHANGED reputationVars

\* The escrowed money becomes Job j; the Opening is gone.
do_claim(claimer, o, j) ==
  LET op == openings[o] IN
  /\ is_open(o)
  /\ may_claim(claimer, op.buyer, op.open_until_ms, op.min_seller_level)
  /\ create_claimed(op.buyer, claimer, j, op.escrow, op.fee_bps, now + op.sla_ms,
                    op.review_window_ms, op.reject_split_bps, NoBatch)
  /\ take_seat(claimer)
  /\ openings' = [openings EXCEPT ![o].state = CLAIMED, ![o].escrow = 0, ![o].job = j]
  /\ UNCHANGED registryVars

claim_v2(claimer, o, j) ==
  /\ openings[o].claim_policy = CLAIM_POLICY_ANY_ACTIVE
  /\ do_claim(claimer, o, j)

claim_proven_v2(claimer, o, j) ==
  /\ openings[o].claim_policy # CLAIM_POLICY_ANY_ACTIVE
  /\ has_score(claimer)
  /\ meets_policy(claimer, openings[o].claim_policy)
  /\ do_claim(claimer, o, j)

\* Plausible bug: repay pays without consuming.
repay_buyer_Again(o) ==
  /\ openings' = [openings EXCEPT ![o].escrow = @ - openings[o].amount,
                                  ![o].repaid = @ + openings[o].amount]
  /\ UNCHANGED reputationVars

repay_buyer(o) ==
  /\ is_open(o)
  /\ openings' = [openings EXCEPT ![o].state = REPAID, ![o].escrow = 0,
                                  ![o].repaid = openings[o].escrow]
  /\ UNCHANGED reputationVars

\* Plausible bug: the cancel is not version-gated.
cancel_open_AnyVersion(sender, o) ==
  /\ sender = openings[o].buyer
  /\ repay_buyer(o)

cancel_open(sender, o) ==
  /\ assert_version
  /\ sender = openings[o].buyer
  /\ repay_buyer(o)

refund_unclaimed(o) ==
  /\ assert_version
  /\ now > openings[o].open_until_ms
  /\ repay_buyer(o)

PostOpening ==
  \E buyer \in Poster, o \in OpeningId, amount \in Amount, d \in OpenWindow,
     sla, w \in Duration, l \in MinLevel :
       create_open_v2(buyer, o, amount, now + d, sla, w, l)

ClaimOpening ==
  \E claimer \in Account, o \in DOMAIN openings, j \in JobId :
    claim_v2(claimer, o, j) \/ claim_proven_v2(claimer, o, j)

ReturnOpening ==
  \E o \in DOMAIN openings :
    refund_unclaimed(o) \/ \E sender \in Account : cancel_open(sender, o)

OpeningNext == PostOpening \/ ClaimOpening \/ ReturnOpening
-----------------------------------------------------------------------------
\* An Opening's money is in exactly one place: in the Opening, in the one Job
\* its claim minted, or back with the buyer - under every race of claimers,
\* cancel and refund crank.
OpeningFundsGoOnce ==
  /\ \A o \in DOMAIN openings :
       LET op == openings[o] IN
       /\ op.state = OPEN    => op.escrow = op.amount /\ op.repaid = 0 /\ op.job = NoJob
       /\ op.state = REPAID  => op.escrow = 0 /\ op.repaid = op.amount /\ op.job = NoJob
       /\ op.state = CLAIMED =>
            /\ op.escrow = 0 /\ op.repaid = 0
            /\ op.job \in DOMAIN jobs
            /\ jobs[op.job].amount = op.amount /\ jobs[op.job].buyer = op.buyer
            /\ jobs[op.job].fee_bps = op.fee_bps
  /\ \A o, p \in DOMAIN openings :
       openings[o].job = openings[p].job /\ openings[o].job # NoJob => o = p

\* "Every bound create_claimed enforces at claim must hold here, or accepted
\* funds could sit in an unclaimable Opening": whatever the administrator has
\* changed since the post, no assert of the mint can fail a claim that passed
\* the gates.
OpeningMintable ==
  \A o \in DOMAIN openings :
    LET op == openings[o] IN
    is_open(o) /\ now <= op.open_until_ms =>
      /\ op.escrow > 0
      /\ op.fee_bps <= MAX_FEE_BPS
      /\ TermsInRange(now + op.sla_ms, op.review_window_ms, op.reject_split_bps)
=============================================================================
