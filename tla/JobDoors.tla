------------------------------ MODULE JobDoors ------------------------------
(***************************************************************************)
(* The client's side of the marketplace doors (packages/sdk/src/wallet and *)
(* packages/cli/src/lib): what it offers a caller to do with a Job, which  *)
(* Move function it builds for a verb, which functions the wallet agrees   *)
(* to sign for that verb, and what it checks before a claim.  All of it    *)
(* mirrors the contracts; the properties say how well.                     *)
(***************************************************************************)
EXTENDS Marketplace, TxGuard, SequencesExt

CONSTANTS
  SELLER_LEVEL_ACTIVE_CAPS,      \* the package defaults the client knows; the
  NO_DELIVERY_REGRESSION_FLOOR,  \* live values may differ
  MIN_JOB_USDC, MAX_JOB_USDC,
  MIN_JOB_SLA,                   \* product floor on a post's delivery time
  MAX_BATCH_SLOTS_DEFAULT,
  MAX_RELEASES_PER_TX,
  RUNWAY                         \* least time left on a Job a seller accepts

ASSUME JobDoorsAssumption ==
  /\ SELLER_LEVEL_ACTIVE_CAPS \in [Level -> Nat]
  /\ {NO_DELIVERY_REGRESSION_FLOOR, MIN_JOB_USDC, MAX_JOB_USDC, MIN_JOB_SLA,
      MAX_BATCH_SLOTS_DEFAULT, MAX_RELEASES_PER_TX, RUNWAY} \subseteq Nat
-----------------------------------------------------------------------------
(***************************************************************************)
(* Reads.                                                                  *)
(***************************************************************************)

\* getJob: the fields of the object; nothing delivered reads as null, here 0.
getJob(j) ==
  [buyer |-> jobs[j].buyer, seller |-> jobs[j].seller, state |-> jobs[j].state,
   escrowUsdc |-> jobs[j].escrow, deliverByMs |-> jobs[j].deliver_by_ms,
   reviewWindowMs |-> jobs[j].review_window_ms, deliveredAtMs |-> jobs[j].delivered_at_ms]

\* The BatchOriginKey field of a wave's Job.
getJobBatchOrigin(j) == jobs[j].batch_origin

\* The level floor is a field of its own: absent or unread, it reads as zero.
readMinSellerLevelDf(o) == {0, openings[o].min_seller_level}

\* What a read of a post may give; a spent one is gone.
getOpening(o) ==
  {[buyer |-> openings[o].buyer, amountUsdc |-> openings[o].amount,
    openUntilMs |-> openings[o].open_until_ms, minSellerLevel |-> level] :
     level \in {l \in readMinSellerLevelDf(o) : is_open(o)}}

\* A drained wave still reads; whether anything is left is in its slots.
getBatchOpening(b) == batches[b]

\* A missing score and a missing counter read as zero.
getAgentScore(a) == IF has_score(a) THEN scores[a] ELSE EmptyScore

\* A missing row of the wave's table reads as zero.
getBatchClaimsByAgent(b, a) == batches[b].claims_by_agent[a]
-----------------------------------------------------------------------------
(***************************************************************************)
(* What a caller can do with a Job.                                        *)
(***************************************************************************)

WindowCloses(job) == job.deliveredAtMs + job.reviewWindowMs

\* Plausible bug: the refund crank is offered at the deadline itself.
jobActionsFor_RefundEarly(job, me, nowMs) ==
  CASE job.state = FUNDED ->
         {v \in {"deliver"} : me = job.seller /\ nowMs <= job.deliverByMs}
           \cup {v \in {"refund"} : nowMs >= job.deliverByMs}
    [] job.state = DELIVERED ->
         {v \in {"release", "reject"} : me = job.buyer /\ nowMs <= WindowCloses(job)}
           \cup {v \in {"release"} : nowMs > WindowCloses(job)}
    [] job.state \notin Live -> {}

\* The buyer's goodwill release of undelivered work is deliberately left out.
jobActionsFor(job, me, nowMs) ==
  CASE job.state = FUNDED ->
         {v \in {"deliver"} : me = job.seller /\ nowMs <= job.deliverByMs}
           \cup {v \in {"refund"} : nowMs > job.deliverByMs}
    [] job.state = DELIVERED ->
         {v \in {"release", "reject"} : me = job.buyer /\ nowMs <= WindowCloses(job)}
           \cup {v \in {"release"} : nowMs > WindowCloses(job)}
    [] job.state \notin Live -> {}

\* Plausible bug: the deadline is not looked at.
verifyJobForSeller_NoRunway(j, me, price, t) ==
  /\ getJob(j).state = FUNDED
  /\ getJob(j).seller = me
  /\ getJob(j).escrowUsdc >= price

\* The seller's check, at time t, of a Job id it was handed as payment.
verifyJobForSeller(j, me, price, t) ==
  /\ getJob(j).state = FUNDED
  /\ getJob(j).seller = me
  /\ getJob(j).escrowUsdc >= price
  /\ getJob(j).deliverByMs >= t + RUNWAY
-----------------------------------------------------------------------------
(***************************************************************************)
(* The transactions.  A builder of one call gives the call; one that may   *)
(* refuse gives the set of the transactions it may build.  A wave's Job    *)
(* goes through the doors of the wave it came from.                        *)
(***************************************************************************)

Door(fn, at) == MoveCall(LATEST_PACKAGE, fn, at)

JobDoor(fn, j, origin) == Door(fn, [job |-> j, batch |-> origin])

addReleaseJobToTx(j, origin) ==
  JobDoor(IF origin = NoBatch THEN "reputation::release_v2" ELSE "batch::batch_release",
          j, origin)

addRefundJobToTx(j, origin) ==
  JobDoor(IF origin = NoBatch THEN "reputation::refund_v2" ELSE "batch::batch_refund",
          j, origin)

buildDeliverJobTx(j, origin) ==
  JobDoor(IF origin = NoBatch THEN "reputation::deliver_v2" ELSE "batch::deliver_v2",
          j, origin)

\* A registered buyer's own score rides along.
buildRejectJobTx(j, origin, agentBuyer) ==
  JobDoor(CASE origin = NoBatch /\ ~agentBuyer -> "reputation::reject_v2"
            [] origin = NoBatch /\ agentBuyer  -> "reputation::reject_v2_agent_buyer"
            [] origin # NoBatch /\ ~agentBuyer -> "batch::batch_reject"
            [] origin # NoBatch /\ agentBuyer  -> "batch::batch_reject_agent_buyer",
          j, origin)

\* One door for every origin: a decline burns the hold on the wave.
buildDeclineJobTx(j) == JobDoor("reputation::decline_v2", j, NoBatch)

buildCreateEmptyScoreTx(a) == Door("reputation::create_empty_score", [agent |-> a])

\* The one composer of bulk transactions: a list, not too long, each Job once.
buildManyJobVerbTx(js, calls) ==
  {tx \in {calls} : js # <<>> /\ Len(js) <= MAX_RELEASES_PER_TX /\ IsInjective(js)}

buildReleaseJobsTx(js) ==
  buildManyJobVerbTx(js,
    [i \in DOMAIN js |-> addReleaseJobToTx(js[i], getJobBatchOrigin(js[i]))])

buildRefundJobsTx(js) ==
  buildManyJobVerbTx(js,
    [i \in DOMAIN js |-> addRefundJobToTx(js[i], getJobBatchOrigin(js[i]))])

assertStars(stars) == stars \in 1..MAX_STARS

addSubmitReviewToTx(j, stars) ==
  Door("reputation::submit_review", [job |-> j, stars |-> stars])

\* Creates the seller's score as it goes: at most one per seller and transaction.
addSubmitFirstReviewToTx(j, stars) ==
  Door("reputation::submit_first_review", [job |-> j, stars |-> stars])

buildSubmitReviewTx(j, stars) ==
  {<<IF has_score(jobs[j].seller) THEN addSubmitReviewToTx(j, stars)
                                  ELSE addSubmitFirstReviewToTx(j, stars)>> :
     s \in {s \in {stars} : assertStars(s)}}

buildSubmitReviewsTx(js, stars) ==
  {tx \in {[i \in DOMAIN js |-> IF has_score(jobs[js[i]].seller)
                                 THEN addSubmitReviewToTx(js[i], stars)
                                 ELSE addSubmitFirstReviewToTx(js[i], stars)]} :
     js # <<>> /\ Len(js) <= MAX_RELEASES_PER_TX /\ IsInjective(js) /\ assertStars(stars)}

\* A funded call follows its coins.
Funded(sender, call) == {Append(coins, call) : coins \in CoinPrelude(sender)}
-----------------------------------------------------------------------------
(***************************************************************************)
(* Hires and posts: the preflights, and the calls they let through.        *)
(***************************************************************************)

BudgetInRange(amount) == amount > 0 /\ amount \in MIN_JOB_USDC..MAX_JOB_USDC

preflightCreateJob(t) ==
  /\ BudgetInRange(t.amount)
  /\ t.deliverBy > now /\ t.deliverBy <= now + MAX_DELIVER_HORIZON_MS
  /\ t.window <= MAX_REVIEW_WINDOW_MS
  /\ t.split <= BPS_DENOMINATOR

buildCreateJobTx(buyer, t) ==
  {tx \in Funded(buyer, Door("escrow::create", t)) :
     preflightCreateJob(t) /\ t.seller # buyer}

\* The one knob of who may claim a post.
TrustRequirement == {"open", "established", "top", "veteran"}

minSellerLevelForTrustRequirement(trust) ==
  CASE trust = "open" -> 0 [] trust = "established" -> 2
    [] trust = "top" -> 3  [] trust = "veteran" -> 4

openingMinSellerLevel(t) == minSellerLevelForTrustRequirement(t.trust)

\* The terms with one more field.
With(t, field, value) ==
  [f \in DOMAIN t \cup {field} |-> IF f = field THEN value ELSE t[f]]

\* Neither the review window nor the longest delivery time is looked at.
preflightCreateOpening(t) ==
  /\ BudgetInRange(t.amount)
  /\ t.openUntil > now /\ t.openUntil <= now + MAX_OPEN_WINDOW_MS
  /\ t.sla >= MIN_JOB_SLA
  /\ t.trust \in TrustRequirement

preflightCreateBatchOpening(t) ==
  /\ preflightCreateOpening(t)
  /\ t.slots \in 1..MAX_BATCH_SLOTS_DEFAULT
  /\ t.maxClaims \in 1..t.slots

\* The last moment to claim is fixed when the transaction is built.
buildCreateOpeningTx(buyer, t) ==
  {tx \in Funded(buyer, Door("opening::create_open_v2", t)) : preflightCreateOpening(t)}

buildCreateBatchOpeningTx(buyer, t) ==
  {tx \in Funded(buyer, Door("batch::create_batch_open",
                             With(t, "payment", t.amount * t.slots))) :
     preflightCreateBatchOpening(t)}

buildClaimOpeningTx(o) == Door("opening::claim_v2", [opening |-> o])

openingCall(fn, o) == Door(fn, [opening |-> o])

buildCancelOpeningTx(o) == openingCall("opening::cancel_open", o)

buildRefundUnclaimedTx(o) == openingCall("opening::refund_unclaimed", o)

buildBatchClaimTx(b) == Door("batch::batch_claim", [batch |-> b])

batchCall(fn, b) == Door(fn, [batch |-> b])

buildCancelBatchOpeningTx(b) == batchCall("batch::cancel_batch_open", b)

buildRefundBatchExpiredTx(b) == batchCall("batch::refund_batch_expired", b)
-----------------------------------------------------------------------------
(***************************************************************************)
(* The other two ends of the rail: the service that builds, the chain that *)
(* runs.                                                                   *)
(***************************************************************************)

\* The scores a verb needs that nobody has created yet.
MissingScores(verb, j) ==
  {a \in {jobs[j].seller}
           \cup {b \in {jobs[j].buyer} : verb = "reject" /\ is_registered(b)} : ~has_score(a)}

\* What the prepare service answers to a verb: the precursor that creates a
\* missing score, or the verb's own door.
prepare(verb, j) ==
  LET missing == MissingScores(verb, j)
      origin  == getJobBatchOrigin(j)
  IN  IF missing # {} THEN {<<buildCreateEmptyScoreTx(a)>> : a \in missing}
      ELSE {<< CASE verb = "deliver" -> buildDeliverJobTx(j, origin)
                 [] verb = "release" -> addReleaseJobToTx(j, origin)
                 [] verb = "refund"  -> addRefundJobToTx(j, origin)
                 [] verb = "decline" -> buildDeclineJobTx(j)
                 [] verb = "reject"  -> buildRejectJobTx(j, origin, is_registered(jobs[j].buyer)) >>}

\* A call runs on the chain.
DoorStep(sender, call) ==
  LET fn == call.fn
      at == call.at
  IN
  \/ /\ \/ fn = "reputation::create_empty_score" /\ create_empty_score(at.agent)
        \/ fn = "reputation::deliver_v2"  /\ deliver_v2(sender, at.job)
        \/ fn = "reputation::release_v2"  /\ release_v2(sender, at.job)
        \/ fn = "reputation::refund_v2"   /\ refund_v2(at.job)
        \/ fn = "reputation::decline_v2"  /\ decline_v2(sender, at.job)
        \/ fn = "reputation::reject_v2"   /\ reject_v2(sender, at.job)
        \/ fn = "reputation::reject_v2_agent_buyer" /\ reject_v2_agent_buyer(sender, at.job)
        \/ fn = "reputation::submit_review" /\ submit_review(sender, at.job, at.stars)
        \/ fn = "reputation::submit_first_review" /\ submit_first_review(sender, at.job, at.stars)
        \/ /\ fn = "escrow::create"
           /\ \E j \in JobId :
                create(sender, at.seller, j, at.amount, at.deliverBy, at.window, at.split)
           /\ UNCHANGED <<registryVars, scores>>
     /\ UNCHANGED <<openings, batches>>
  \/ /\ \/ fn = "batch::deliver_v2"    /\ batch_deliver_v2(sender, at.batch, at.job)
        \/ fn = "batch::batch_release" /\ batch_release(sender, at.batch, at.job)
        \/ fn = "batch::batch_refund"  /\ batch_refund(at.batch, at.job)
        \/ fn = "batch::batch_reject"  /\ batch_reject(sender, at.batch, at.job)
        \/ /\ fn = "batch::batch_reject_agent_buyer"
           /\ batch_reject_agent_buyer(sender, at.batch, at.job)
        \/ fn = "batch::batch_claim" /\ \E j \in JobId : batch_claim(sender, at.batch, j)
        \/ fn = "batch::cancel_batch_open"    /\ cancel_batch_open(sender, at.batch)
        \/ fn = "batch::refund_batch_expired" /\ refund_batch_expired(at.batch)
        \/ /\ fn = "batch::create_batch_open"
           /\ \E b \in BatchId :
                create_batch_open(sender, b, at.payment, at.slots, at.openUntil, at.sla,
                                  at.window, openingMinSellerLevel(at), at.maxClaims)
     /\ UNCHANGED openings
  \/ /\ \/ fn = "opening::claim_v2" /\ \E j \in JobId : claim_v2(sender, at.opening, j)
        \/ fn = "opening::cancel_open"      /\ cancel_open(sender, at.opening)
        \/ fn = "opening::refund_unclaimed" /\ refund_unclaimed(at.opening)
        \/ /\ fn = "opening::create_open_v2"
           /\ \E o \in OpeningId :
                create_open_v2(sender, o, at.amount, at.openUntil, at.sla, at.window,
                               openingMinSellerLevel(at))
     /\ UNCHANGED batches

\* ... or would, now.
Runs(sender, call) == ENABLED DoorStep(sender, call)

\* The next transaction of a verb runs and passes the guard.
Lands(verb, sender, j) ==
  \A tx \in prepare(verb, j) :
    Runs(sender, tx[1]) /\ assertTxMatchesIntent(tx, sender, verb, FALSE)
-----------------------------------------------------------------------------
(***************************************************************************)
(* Levels and the preflight of a claim.                                    *)
(***************************************************************************)

sellerLevel(score) ==
  LET proven    == score.distinct_buyers >= PROVEN_MIN_REVIEWS
      provenAvg == /\ proven
                   /\ score.stars_sum * 10 >= score.review_count * PROVEN_MIN_AVG_STARS_X10
      veteran   == /\ score.review_count >= LEVEL4_MIN_REVIEWS
                   /\ score.no_delivery <= LEVEL4_MAX_NO_DELIVERY
  IN  IF provenAvg THEN IF veteran THEN 4 ELSE 3
                   ELSE IF proven THEN 2 ELSE 1

effectiveSellerLevel(score) ==
  IF score.no_delivery >= NO_DELIVERY_REGRESSION_FLOOR THEN 1 ELSE sellerLevel(score)

activeCapForLevel(level) == SELLER_LEVEL_ACTIVE_CAPS[level]

meetsMinSellerLevel(score, minLevel) ==
  minLevel = 0 \/ effectiveSellerLevel(score) >= minLevel

\* Plausible bug: only the seats are looked at, not the level the post asks for.
preflightClaimOpening_SeatsOnly(score, minLevel) ==
  score.active_seller_jobs < activeCapForLevel(effectiveSellerLevel(score))

preflightClaimOpening(score, minLevel) ==
  /\ score.active_seller_jobs < activeCapForLevel(effectiveSellerLevel(score))
  /\ meetsMinSellerLevel(score, minLevel)

preflightBatchClaim(score, batch, myClaims) ==
  /\ batch.slots_remaining > 0
  /\ myClaims < batch.max_claims_per_agent
  /\ preflightClaimOpening(score, batch.min_seller_level)

\* The client's defaults are the chain's live values.
DefaultsAreLive ==
  /\ cfg.tier_active_cap = SELLER_LEVEL_ACTIVE_CAPS
  /\ cfg.no_delivery_floor = NO_DELIVERY_REGRESSION_FLOOR

\* The gates a preflight does not claim to check.
MayTry(a, post) ==
  /\ assert_version
  /\ now <= post.open_until_ms
  /\ a # post.buyer
  /\ is_active_agent(a)
  /\ has_score(a)
  /\ post.claim_policy = CLAIM_POLICY_ANY_ACTIVE
-----------------------------------------------------------------------------
(***************************************************************************)
(* Properties.                                                             *)
(***************************************************************************)

\* "What `caller` can do to `job` right now": every verb offered runs on the
\* chain - the right door for the Job's origin and for a registered buyer, one
\* the guard signs, after at most the precursors that create missing scores -
\* and nothing else runs, but for the two verbs left out on purpose: the
\* buyer's goodwill release of undelivered work, and the seller's decline.
OffersAreExact ==
  \A j \in DOMAIN jobs, a \in Account :
    LET offered == jobActionsFor(getJob(j), a, now) IN
    /\ assert_version /\ cfg.score_board =>
         \A verb \in offered :
           Lands(verb, a, j) /\ Cardinality(MissingScores(verb, j)) < 3
    /\ \A verb \in {"deliver", "release", "reject", "refund"} \ offered :
         MissingScores(verb, j) = {} /\ Lands(verb, a, j) =>
           verb = "release" /\ jobs[j].state = FUNDED /\ a = jobs[j].buyer

\* The check passed at some time no longer ago than the runway it asks for.
Verified(j) ==
  \E t \in (now - RUNWAY)..now : verifyJobForSeller(j, jobs[j].seller, 1, t)

\* A seller that verified a Job before starting work loses it only by its own
\* hand for as long as the runway lasts: from the check on no crank may take the
\* money, up to the last millisecond of it.
VerifiedJobIsSafe ==
  [][\A j \in DOMAIN jobs :
       Verified(j) /\ jobs'[j] # jobs[j] =>
         \/ jobs'[j].state \in {DELIVERED, RELEASED}
         \/ jobs'[j].settled_by = "JobDeclined"
    ]_marketVars

\* While the client's defaults are the live values, the preflight of a claim is
\* the chain's own verdict on seats and levels - for an Opening always, for a
\* wave's slot unless the claimer declined a Job of the wave: the chain counts
\* the burnt hold against the cap of its level, the client only against the
\* buyer's ceiling.
ClaimPreflightIsExact ==
  DefaultsAreLive /\ JobId \ DOMAIN jobs # {} =>
    \A a \in Account :
      /\ \A o \in DOMAIN openings :
           is_open(o) /\ MayTry(a, openings[o]) =>
             (preflightClaimOpening(getAgentScore(a), openings[o].min_seller_level)
                <=> ENABLED (\E j \in JobId : claim_v2(a, o, j)))
      /\ \A b \in DOMAIN batches :
           /\ MayTry(a, batches[b])
           /\ \A j \in JobsOf(b) : jobs[j].seller = a => jobs[j].settled_by # "JobDeclined"
           => (preflightBatchClaim(getAgentScore(a), getBatchOpening(b),
                                   getBatchClaimsByAgent(b, a))
                 <=> ENABLED (\E j \in JobId : batch_claim(a, b, j)))
=============================================================================
