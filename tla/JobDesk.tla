------------------------------ MODULE JobDesk ------------------------------
(***************************************************************************)
(* `t2 job` (packages/cli/src/commands): one wallet, `me`, runs one        *)
(* invocation at a time while every other party uses the chain freely.  A  *)
(* verb is a sequence of calls to services - the content store, the index, *)
(* a node, the prepare and submit endpoints - and the marketplace, the     *)
(* clock and the store may move between any two of them.                   *)
(***************************************************************************)
EXTENDS JobDoors

CONSTANTS
  Body,           \* briefs and deliveries the content store may hold
  Draft,          \* those this wallet may upload; the others are there already
  HashOnly,       \* a precomputed hash, pinned without a body
  DAILY_CAP,      \* limits.dailyUsd of this wallet
  BULK_JOB_MAX,   \* jobs per bulk transaction
  ReviewWindow,   \* review windows a buyer asks for
  TrustKnob,      \* who a buyer lets claim
  ApiOrigin,          \* the host that builds the transactions, and
  AllowUntrustedApi   \* the operator's word for it, of every invocation

ASSUME JobDeskAssumption ==
  /\ HashOnly \notin Body /\ Draft \subseteq Body
  /\ {DAILY_CAP, BULK_JOB_MAX} \subseteq Nat
  /\ ReviewWindow \subseteq Nat
  /\ TrustKnob \subseteq TrustRequirement
  /\ AllowUntrustedApi \in BOOLEAN

VARIABLES
  me,       \* the wallet
  cmd,      \* the invocation under way
  stored,   \* bodies the content store serves
  pinned,   \* uploaded bodies whose hash this wallet put on the chain
  spent,    \* today's ledger of spends
  unheard,  \* money that left in a transaction whose answer was lost
  goodwill, \* Jobs this wallet paid undelivered, and what it knew
  seen,     \* the watch loop's memory: Job -> last announced bucket
  shown     \* what the terminal says: Job -> bucket last printed

deskVars == <<marketVars, me, cmd, stored, pinned, spent, unheard, goodwill, seen, shown>>
walletVars == <<pinned, spent, unheard, goodwill>>
watchVars == <<seen, shown>>

NoCmd ==
  [verb |-> "none", step |-> "idle", rail |-> "cli", job |-> NoJob, jobs |-> {}, post |-> {},
   terms |-> {}, body |-> HashOnly, hash |-> HashOnly, flag |-> FALSE,
   unread |-> FALSE, tx |-> <<>>, hops |-> 0, rows |-> [j \in {} |-> {}]]

Empty == [j \in {} |-> "none"]

DeskInit ==
  /\ MarketInit
  /\ me \in Account
  /\ cmd = NoCmd
  /\ stored = Body \ Draft /\ pinned = {}
  /\ spent = 0 /\ unheard = 0
  /\ goodwill = {}
  /\ seen = Empty /\ shown = Empty

At(verbs, step) == cmd.verb \in verbs /\ cmd.step = step

Goto(step) == cmd' = [cmd EXCEPT !.step = step]

\* An error is printed, or the verb is done: nothing is kept.
Finish == cmd' = NoCmd

OnlyCmd == UNCHANGED <<marketVars, me, stored, walletVars, watchVars>>
-----------------------------------------------------------------------------
(***************************************************************************)
(* Uploads: put, get, compare.                                             *)
(***************************************************************************)

\* A body goes to the store first; a bare hash is pinned as it is.
AfterUpload(verb) == IF verb = "deliver" THEN "prepare" ELSE "check"

UploadStep(verb, body) == IF body = HashOnly THEN AfterUpload(verb) ELSE "put"

\* The store answers with a hash, its own idea of what it stored; an accepted
\* upload is not always readable.
putJobSpec ==
  /\ cmd.step = "put"
  /\ \/ \E hash \in Body : cmd' = [cmd EXCEPT !.step = "get", !.hash = hash]
     \/ Finish
  /\ stored' \in {stored, stored \cup {cmd.body}}
  /\ UNCHANGED <<marketVars, me, walletVars, watchVars>>

\* Plausible bug: an accepted upload is taken for a durable one.
ReadsBack_Trusting == TRUE

\* The public read path serves the same bytes.
ReadsBack == cmd.hash \in stored /\ cmd.hash = cmd.body

putAndVerifySpec ==
  /\ cmd.step = "get"
  /\ IF ReadsBack THEN Goto(AfterUpload(cmd.verb)) ELSE Finish
  /\ OnlyCmd
-----------------------------------------------------------------------------
(***************************************************************************)
(* The spending gate and the sponsored rail.                               *)
(***************************************************************************)

assertSpendAllowed(amount) == spent + amount <= DAILY_CAP

\* What leaves the wallet: a hire, a post or a whole wave.
SpendOf(c) ==
  CASE c.verb \in {"create", "open-create"} -> c.terms.amount
    [] c.verb = "batch-open-create" -> c.terms.amount * c.terms.slots
    [] c.verb \notin {"create", "open-create", "batch-open-create"} -> 0

JobVerb == {"deliver", "release", "reject", "refund", "decline"}

Precursor(tx) == tx[1].fn = "reputation::create_empty_score"

\* The Jobs of a bulk review the host keeps: settled with a delivery, mine, not
\* rated, and of those whose seller has no score one per seller.
Reviewable(S) ==
  LET eligible == {j \in S : validate_review(me, j, cmd.terms.stars)}
      rated(j) == has_score(jobs[j].seller) /\ j \in DOMAIN scores[jobs[j].seller].job_stars
  IN  {T \in SUBSET {j \in eligible : ~rated(j)} :
         \A i, j \in T : jobs[i].seller = jobs[j].seller => i = j \/ has_score(jobs[i].seller)}

\* The precursors a list of Jobs needs, or else the transactions.
AfterScores(verb, S, txs) ==
  LET missing == UNION {MissingScores(verb, j) : j \in S}
  IN  IF missing = {} THEN txs ELSE {<<buildCreateEmptyScoreTx(a)>> : a \in missing}

AfterMyScore(txs) == IF has_score(me) THEN txs ELSE {<<buildCreateEmptyScoreTx(me)>>}

\* External: the prepare service reads the chain and proposes a transaction.  It
\* re-reads every Job of a bulk verb and refuses the whole list for one of them.
Proposed ==
  LET t    == cmd.terms
      post == cmd.post
      list == SetToSeq(cmd.jobs)
  IN
  CASE cmd.verb \in JobVerb -> prepare(cmd.verb, cmd.job)
    [] cmd.verb = "create" -> buildCreateJobTx(me, t)
    [] cmd.verb = "open-create" ->
         buildCreateOpeningTx(me, With(t, "openUntil", now + t.openFor))
    [] cmd.verb = "batch-open-create" ->
         buildCreateBatchOpeningTx(me, With(t, "openUntil", now + t.openFor))
    [] cmd.verb = "open-claim" -> AfterMyScore({<<buildClaimOpeningTx(post)>>})
    [] cmd.verb = "batch-open-claim" -> AfterMyScore({<<buildBatchClaimTx(post)>>})
    [] cmd.verb = "open-cancel" -> {<<buildCancelOpeningTx(post)>>}
    [] cmd.verb = "open-refund" -> {<<buildRefundUnclaimedTx(post)>>}
    [] cmd.verb = "batch-open-cancel" -> {<<buildCancelBatchOpeningTx(post)>>}
    [] cmd.verb = "batch-open-refund" -> {<<buildRefundBatchExpiredTx(post)>>}
    [] cmd.verb = "job-review" -> buildSubmitReviewTx(cmd.job, t.stars)
    [] cmd.verb = "review-many" ->
         UNION {buildSubmitReviewsTx(SetToSeq(S), t.stars) : S \in Reviewable(cmd.jobs)}
    [] cmd.verb = "release-many" ->
         IF \A j \in cmd.jobs : jobs[j].state = DELIVERED
         THEN AfterScores("release", cmd.jobs, buildReleaseJobsTx(list)) ELSE {}
    [] cmd.verb = "refund-many" ->
         IF \A j \in cmd.jobs : can_refund(jobs[j])
         THEN AfterScores("refund", cmd.jobs, buildRefundJobsTx(list)) ELSE {}

\* The Jobs of a wave settled in a bulk give their holds back, each once.
HoldsAfter(S) ==
  LET freed(b, a)   == {j \in S : /\ jobs[j].batch_origin = b /\ jobs[j].seller = a
                                 /\ ~hold_released(jobs[j])}
      left(held, n) == IF held > n THEN held - n ELSE 0
  IN  [b \in DOMAIN batches |->
         [batches[b] EXCEPT !.claims_by_agent =
            [a \in Account |-> left(@[a], Cardinality(freed(b, a)))]]]

HoldMark(j) == IF jobs[j].batch_origin = NoBatch THEN {} ELSE released_mark(jobs[j])

\* Every release of one transaction, or none.
ReleaseAll(S) ==
  /\ \A j \in S : can_release(jobs[j], me) /\ has_score(jobs[j].seller)
  /\ jobs' = [j \in DOMAIN jobs |->
       IF j \in S THEN [Settled(jobs[j], RELEASED,
                                release_shares(jobs[j].escrow, jobs[j].fee_bps), "JobReleased")
                          EXCEPT !.marks = @ \cup HoldMark(j)]
                  ELSE jobs[j]]
  /\ scores' = FoldSet(LAMBDA j, sc : [sc EXCEPT ![jobs[j].seller] = free_seat(@, jobs[j])],
                       scores, S)
  /\ batches' = HoldsAfter(S)
  /\ UNCHANGED <<now, cfg, registryVars, openings>>

\* Every refund crank of one transaction, or none.
RefundAll(S) ==
  /\ \A j \in S : can_refund(jobs[j]) /\ has_score(jobs[j].seller)
  /\ jobs' = [j \in DOMAIN jobs |->
       IF j \in S THEN [Settled(jobs[j], REFUNDED, refund_shares(jobs[j].escrow), "JobRefunded")
                          EXCEPT !.marks = @ \cup HoldMark(j)]
                  ELSE jobs[j]]
  /\ scores' = FoldSet(LAMBDA j, sc :
                         [sc EXCEPT ![jobs[j].seller] =
                            free_seat(record_outcome(@, "no_delivery"), jobs[j])],
                       scores, S)
  /\ batches' = HoldsAfter(S)
  /\ UNCHANGED <<now, cfg, registryVars, openings>>

\* Every rating of one transaction, or none.
ReviewAll(tx) ==
  LET seller(call) == jobs[call.at.job].seller IN
  /\ assert_version /\ cfg.score_board
  /\ \A i \in DOMAIN tx :
       /\ validate_review(me, tx[i].at.job, tx[i].at.stars)
       /\ (tx[i].fn = "reputation::submit_review") <=> has_score(seller(tx[i]))
  /\ scores' = FoldLeft(
       LAMBDA sc, call :
         [a \in DOMAIN sc \cup {seller(call)} |->
            LET score == IF a \in DOMAIN sc THEN sc[a] ELSE EmptyScore IN
            IF a = seller(call) THEN apply_review(score, call.at.job, me, call.at.stars)
                                ELSE score], scores, tx)
  /\ UNCHANGED <<escrowVars, registryVars, openings, batches>>

BulkVerb == {"release-many", "refund-many", "review-many"}

\* The signed transaction on the chain.
Execute ==
  LET S == {cmd.tx[i].at.job : i \in DOMAIN cmd.tx} IN
  \/ Precursor(cmd.tx) /\ DoorStep(me, cmd.tx[1])
  \/ /\ ~Precursor(cmd.tx)
     /\ \/ cmd.verb = "release-many" /\ ReleaseAll(S)
        \/ cmd.verb = "refund-many" /\ RefundAll(S)
        \/ cmd.verb = "review-many" /\ ReviewAll(cmd.tx)
        \/ cmd.verb \notin BulkVerb /\ DoorStep(me, Last(cmd.tx))

Signable(tx) == assertTxMatchesIntent(tx, me, cmd.verb, AllowUntrustedApi)

\* sponsoredJobVerb, the CLI's rail: the cap is asked again, the host looked at,
\* the proposal checked.  A precursor left over after the third hop is signed as
\* if it were the verb.
runSponsoredTx ==
  /\ cmd.step = "prepare" /\ cmd.rail = "cli"
  /\ \/ /\ assertSpendAllowed(SpendOf(cmd))
        /\ assertSigningHostAllowed(ApiOrigin, AllowUntrustedApi)
        /\ \E tx \in Proposed :
             Signable(tx) /\ cmd' = [cmd EXCEPT !.step = "submit", !.tx = tx]
     \/ Finish
  /\ OnlyCmd

\* One hop of the SDK's rail, under the same check.
signPreparedSponsoredHop(tx) ==
  Signable(tx) /\ cmd' = [cmd EXCEPT !.step = "submit", !.tx = tx]

\* The SDK's rail: a precursor left over after the third hop is refused.
sponsoredOpeningVerb ==
  /\ cmd.step = "prepare" /\ cmd.rail = "sdk"
  /\ \/ /\ assertSigningHostAllowed(ApiOrigin, AllowUntrustedApi)
        /\ \E tx \in Proposed :
             (Precursor(tx) => cmd.hops < 3) /\ signPreparedSponsoredHop(tx)
     \/ Finish
  /\ OnlyCmd

\* Plausible bug: the ledger is written before the answer is known.
recordSpendIfLanded_Always(landed) == spent' = spent + SpendOf(cmd)

\* The digest is the proof that the money moved.
recordSpendIfLanded(landed) == spent' = IF landed THEN spent + SpendOf(cmd) ELSE spent

\* Signed and submitted; the transaction lands.  A precursor is followed by
\* another prepare, the verb itself by its end.  If the answer is lost the verb
\* fails although the chain moved.
Submit ==
  /\ cmd.step = "submit"
  /\ Execute
  /\ IF Precursor(cmd.tx)
     THEN /\ cmd' = [cmd EXCEPT !.step = "prepare", !.hops = @ + 1]
          /\ UNCHANGED walletVars
     ELSE \E answered \in BOOLEAN :
            /\ Finish
            /\ recordSpendIfLanded(answered)
            /\ unheard' = IF answered THEN unheard ELSE unheard + SpendOf(cmd)
            /\ pinned' = IF cmd.body # HashOnly /\ cmd.verb \in {"create", "deliver"}
                         THEN pinned \cup {[body |-> cmd.body, hash |-> cmd.hash]}
                         ELSE pinned
            /\ goodwill' = IF cmd.verb = "release" /\ jobs[cmd.job].state = FUNDED
                           THEN goodwill \cup {[asked |-> cmd.flag, unread |-> cmd.unread]}
                           ELSE goodwill
  /\ UNCHANGED <<me, stored, watchVars>>

\* The submit endpoint refuses, or the transaction aborts: nothing moved.
SubmitFails ==
  /\ cmd.step = "submit"
  /\ Finish
  /\ recordSpendIfLanded(FALSE)
  /\ UNCHANGED <<marketVars, me, stored, pinned, unheard, goodwill, watchVars>>
-----------------------------------------------------------------------------
(***************************************************************************)
(* The verbs.                                                              *)
(***************************************************************************)

Begin(c) == cmd = NoCmd /\ cmd' = c /\ OnlyCmd

\* Poster are the accounts that buy.
hire ==
  \E seller \in Account, amount \in Amount, d \in Duration, w \in ReviewWindow,
     s \in Split, body \in Draft \cup {HashOnly} :
    me \in Poster /\ Begin([NoCmd EXCEPT !.verb = "create", !.step = UploadStep("create", body), !.body = body,
             !.terms = [seller |-> seller, amount |-> amount, deliverBy |-> d, window |-> w, split |-> s]])

\* After the upload: the deadline counts from now, the terms and the balance are
\* checked, the cap is asked.
CheckHire ==
  /\ At({"create"}, "check")
  /\ LET t == [cmd.terms EXCEPT !.deliverBy = now + @] IN
     \/ /\ preflightCreateJob(t)
        /\ assertSpendAllowed(t.amount)
        /\ cmd' = [cmd EXCEPT !.step = "prepare", !.terms = t]
     \/ Finish
  /\ OnlyCmd

deliverPreflightError(job) == job.state # FUNDED \/ now > job.deliverByMs

\* A read that fails falls through to the chain's own checks.
deliver_cmd ==
  \E j \in DOMAIN jobs, body \in Draft \cup {HashOnly}, unread \in BOOLEAN :
    /\ unread \/ ~deliverPreflightError(getJob(j))
    /\ Begin([NoCmd EXCEPT !.verb = "deliver", !.step = UploadStep("deliver", body),
                           !.job = j, !.body = body])

\* Plausible bug: a funded job is released like any other.
MayRelease_Any(job, payWithoutDelivery) == TRUE

MayRelease(job, payWithoutDelivery) == job.state = FUNDED => payWithoutDelivery

release_cmd ==
  \E j \in DOMAIN jobs, payWithoutDelivery, unread \in BOOLEAN :
    /\ unread \/ MayRelease(getJob(j), payWithoutDelivery)
    /\ Begin([NoCmd EXCEPT !.verb = "release", !.step = "prepare", !.job = j,
                           !.flag = payWithoutDelivery, !.unread = unread])

\* reject, decline and a single refund go straight to the rail.
verb_cmd ==
  \E verb \in {"reject", "decline", "refund"}, j \in DOMAIN jobs :
    Begin([NoCmd EXCEPT !.verb = verb, !.step = "prepare", !.job = j])

\* The functions of the SDK's board: a verb with its parameters, on the SDK's rail.
OnRail(verb) == [NoCmd EXCEPT !.verb = verb, !.step = "prepare", !.rail = "sdk"]

postOpenJob(t)         == [OnRail("open-create") EXCEPT !.terms = t]
claimOpenJob(o)        == [OnRail("open-claim") EXCEPT !.post = o]
cancelOpenJob(o)       == [OnRail("open-cancel") EXCEPT !.post = o]
refundOpenJob(o)       == [OnRail("open-refund") EXCEPT !.post = o]
postBatchOpenJob(t)    == [OnRail("batch-open-create") EXCEPT !.terms = t]
claimBatchOpenJob(b)   == [OnRail("batch-open-claim") EXCEPT !.post = b]
cancelBatchOpenJob(b)  == [OnRail("batch-open-cancel") EXCEPT !.post = b]
refundBatchOpenJob(b)  == [OnRail("batch-open-refund") EXCEPT !.post = b]
submitJobReview(j, stars) ==
  [OnRail("job-review") EXCEPT !.job = j, !.terms = [stars |-> stars]]
submitJobReviews(S, stars) ==
  [OnRail("review-many") EXCEPT !.jobs = S, !.terms = [stars |-> stars]]

\* A review needs a readable Job with a delivery; only the buyer's stars are a
\* transaction (a seller's rating and all texts stay off the chain).
review_cmd ==
  \E j \in DOMAIN jobs, stars \in Stars :
    /\ getJob(j).deliveredAtMs > 0
    /\ me = getJob(j).buyer
    /\ Begin(submitJobReview(j, stars))

\* open, batch-open: the budget escrows at the post.
open_cmd ==
  \E amount \in Amount, d \in OpenWindow, sla, w \in Duration, trust \in TrustKnob :
    /\ me \in Poster
    /\ amount \in 1..MAX_JOB_USDC
    /\ assertSpendAllowed(amount)
    /\ sla >= MIN_JOB_SLA
    /\ Begin(postOpenJob([amount |-> amount, openFor |-> d, sla |-> sla, window |-> w,
                          trust |-> trust]))

batch_open_cmd ==
  \E amount \in Amount, slots \in SlotsTotal, d \in OpenWindow, sla, w \in Duration,
     trust \in TrustKnob, m \in MaxClaims :
    /\ me \in Poster
    /\ amount \in 1..MAX_JOB_USDC
    /\ slots \in 1..MAX_BATCH_SLOTS_DEFAULT /\ m \in 1..slots
    /\ assertSpendAllowed(amount * slots)
    /\ sla >= MIN_JOB_SLA
    /\ Begin(postBatchOpenJob([amount |-> amount, slots |-> slots, openFor |-> d, sla |-> sla,
                               window |-> w, trust |-> trust, maxClaims |-> m]))

\* The preflights of a claim are best effort: a post that cannot be read falls
\* through; a score that cannot be read is taken for an empty one.
claim_cmd ==
  \E o \in DOMAIN openings, unread \in BOOLEAN :
    /\ \/ unread
       \/ \E opening \in getOpening(o), score \in {getAgentScore(me), EmptyScore} :
            preflightClaimOpening(score, opening.minSellerLevel)
    /\ Begin(claimOpenJob(o))

batch_claim_cmd ==
  \E b \in DOMAIN batches, unread \in BOOLEAN :
    /\ \/ unread
       \/ preflightBatchClaim(getAgentScore(me), getBatchOpening(b), getBatchClaimsByAgent(b, me))
    /\ Begin(claimBatchOpenJob(b))

cancel_cmd == \E o \in DOMAIN openings : Begin(cancelOpenJob(o))

batch_cancel_cmd == \E b \in DOMAIN batches : Begin(cancelBatchOpenJob(b))

\* No command calls these; a program on the SDK does.
sdk_call ==
  \/ \E o \in DOMAIN openings : Begin(refundOpenJob(o))
  \/ \E b \in DOMAIN batches : Begin(refundBatchOpenJob(b))
  \/ \E S \in SUBSET DOMAIN jobs, stars \in Stars : Begin(submitJobReviews(S, stars))
-----------------------------------------------------------------------------
(***************************************************************************)
(* The index: what it says of a Job is some state the Job has been in.     *)
(***************************************************************************)

Row(j, state, updated) ==
  [buyer |-> jobs[j].buyer, seller |-> jobs[j].seller, state |-> state,
   deliverByMs |-> jobs[j].deliver_by_ms, reviewWindowMs |-> jobs[j].review_window_ms,
   updatedAtMs |-> updated, deliveredAtMs |-> 0]

IndexedJob(j) ==
  {Row(j, FUNDED, t) : t \in {u \in 1..now : /\ u < jobs[j].deliver_by_ms
                                             /\ jobs[j].deliver_by_ms <= u + MAX_DELIVER_HORIZON_MS}}
    \cup {Row(j, DELIVERED, t) : t \in {u \in {jobs[j].delivered_at_ms} : u > 0}}
    \cup {Row(j, s, now) : s \in {jobs[j].state} \ Live}

\* A bulk verb takes what the index says is ready, or the ids it is given, the
\* first few of them.
eligibleBulkIds(row, verb) ==
  CASE verb = "release-many" -> row.state = DELIVERED
    [] verb = "refund-many"  -> row.state = FUNDED /\ now > row.deliverByMs

pickBulkJobIds(S) ==
  IF Cardinality(S) <= BULK_JOB_MAX THEN {S} ELSE {T \in SUBSET S : Cardinality(T) = BULK_JOB_MAX}

\* The index chooses: --all-delivered, --all-lapsed.
bulk_all_cmd ==
  \E verb \in {"release-many", "refund-many"} :
    LET bought == {j \in DOMAIN jobs : jobs[j].buyer = me} IN
    \E listed \in SUBSET bought :
      /\ listed # {}
      /\ \A j \in listed : \E row \in IndexedJob(j) : eligibleBulkIds(row, verb)
      /\ \E ids \in pickBulkJobIds(listed) :
           Begin([NoCmd EXCEPT !.verb = verb, !.step = "prepare", !.jobs = ids])

reviewBulkParams(S, stars) ==
  [NoCmd EXCEPT !.verb = "review-many", !.step = "prepare", !.jobs = S,
                !.terms = [stars |-> stars]]

\* review --ids, --all-unreviewed: the caller lists, or the host does.
bulk_review_cmd ==
  \E listed \in SUBSET DOMAIN jobs, stars \in Stars :
    /\ listed # {}
    /\ \E ids \in pickBulkJobIds(listed) : Begin(reviewBulkParams(ids, stars))

\* The caller chooses: --ids.
bulk_ids_cmd ==
  \E verb \in {"release-many", "refund-many"}, listed \in SUBSET DOMAIN jobs :
    /\ listed # {}
    /\ \E ids \in pickBulkJobIds(listed) :
         Begin([NoCmd EXCEPT !.verb = verb, !.step = "prepare", !.jobs = ids])
-----------------------------------------------------------------------------
(***************************************************************************)
(* The inboxes.                                                            *)
(***************************************************************************)

\* Plausible bug: the review clock stays the index's.
mergeIndexedJobFromChain_IndexClock(row, job) == [row EXCEPT !.state = job.state]

\* The chain wins wherever it speaks; it speaks of a delivery once there is one.
mergeIndexedJobFromChain(row, job) ==
  [row EXCEPT !.state = job.state,
              !.deliveredAtMs = IF job.deliveredAtMs > 0 THEN job.deliveredAtMs ELSE @,
              !.updatedAtMs = IF job.state = DELIVERED THEN job.deliveredAtMs ELSE @]

Anchor(row) == IF row.deliveredAtMs > 0 THEN row.deliveredAtMs ELSE row.updatedAtMs

\* A window of zero counts as a missing one.
HasReviewClock(row) == Anchor(row) > 0 /\ row.reviewWindowMs > 0

reviewClosesMs(row) == Anchor(row) + row.reviewWindowMs

\* Plausible bug: the buckets are the states of the chain.
bucketSellerJob_ByState(row, nowMs) ==
  CASE row.state \notin Live  -> "terminal"
    [] row.state = FUNDED     -> "needsYou"
    [] row.state = DELIVERED  -> "awaitingBuyer"

bucketSellerJob(row, nowMs) ==
  CASE row.state \notin Live -> "terminal"
    [] row.state = FUNDED /\ nowMs <= row.deliverByMs -> "needsYou"
    [] row.state = FUNDED /\ nowMs > row.deliverByMs  -> "fundedLate"
    [] row.state = DELIVERED ->
         IF HasReviewClock(row) /\ nowMs > reviewClosesMs(row) THEN "releasable" ELSE "awaitingBuyer"

bucketBuyerJob(row, nowMs) ==
  CASE row.state \notin Live -> "terminal"
    [] row.state = DELIVERED -> "needsYou"
    [] row.state = FUNDED    -> IF nowMs > row.deliverByMs THEN "refundable" ELSE "waiting"

BucketOf(row) ==
  IF cmd.verb = "mine" THEN bucketSellerJob(row, now) ELSE bucketBuyerJob(row, now)

Mine == {j \in DOMAIN jobs : me = IF cmd.verb = "mine" THEN jobs[j].seller ELSE jobs[j].buyer}

\* hydrateJobsFromChain: a row that is not terminal is read again from the
\* chain, unless the read fails or the row lies beyond the first few.
Hydrated(j) ==
  IndexedJob(j) \cup
    {mergeIndexedJobFromChain(row, getJob(j)) : row \in {r \in IndexedJob(j) : r.state \in Live}}

\* fetchSellerJobs, fetchBuyerJobs: what an inbox may be, the index being late.
Inbox ==
  UNION {{rows \in [listed -> UNION {Hydrated(j) : j \in listed}] :
            \A j \in listed : rows[j] \in Hydrated(j)} : listed \in SUBSET Mine}

\* Every Job listed, and read as it is on the chain.
UpToDate(rows) ==
  /\ DOMAIN rows = Mine
  /\ \A j \in Mine : /\ rows[j].state = jobs[j].state
                     /\ jobs[j].state = DELIVERED => rows[j].deliveredAtMs = jobs[j].delivered_at_ms

Watching == cmd.verb \in {"mine", "buying"}

watch ==
  \E verb \in {"mine", "buying"} : Begin([NoCmd EXCEPT !.verb = verb, !.step = "load"])

Load ==
  /\ Watching /\ cmd.step \in {"load", "sleep"}
  /\ \E rows \in Inbox :
       cmd' = [cmd EXCEPT !.step = IF @ = "load" THEN "paint" ELSE "announce", !.rows = rows]
  /\ OnlyCmd

\* The first screen, by the clock of its summary ...
Paint ==
  /\ Watching /\ cmd.step = "paint"
  /\ shown' = [j \in DOMAIN cmd.rows |-> BucketOf(cmd.rows[j])]
  /\ Goto("remember")
  /\ UNCHANGED <<marketVars, me, stored, walletVars, seen>>

\* ... and what the loop takes for announced, by a later reading of the clock.
Remember ==
  /\ Watching /\ cmd.step = "remember"
  /\ seen' = [j \in DOMAIN cmd.rows |-> BucketOf(cmd.rows[j])]
  /\ cmd' = [cmd EXCEPT !.step = "sleep", !.rows = Empty]
  /\ UNCHANGED <<marketVars, me, stored, walletVars, shown>>

Update(map, changes) ==
  [j \in DOMAIN map \cup DOMAIN changes |-> IF j \in DOMAIN changes THEN changes[j] ELSE map[j]]

\* One turn of the loop: a row in the bucket it was announced in is passed over.
Announce ==
  LET bucket  == [j \in DOMAIN cmd.rows |-> BucketOf(cmd.rows[j])]
      news    == {j \in DOMAIN bucket : j \in DOMAIN seen => seen[j] # bucket[j]}
      changes == [j \in news |-> bucket[j]]
  IN  /\ Watching /\ cmd.step = "announce"
      /\ seen' = Update(seen, changes)
      /\ shown' = Update(shown, changes)
      /\ cmd' = [cmd EXCEPT !.step = "sleep", !.rows = Empty]
      /\ UNCHANGED <<marketVars, me, stored, walletVars>>

\* watch <id>: the id of an open job stands for the Job it became, once the index
\* knows of it.
watch_job ==
  \E j \in DOMAIN jobs \cup {openings[o].job : o \in {p \in DOMAIN openings : ~is_open(p)}} :
    j \in DOMAIN jobs /\ Begin([NoCmd EXCEPT !.verb = "watch", !.step = "load", !.job = j])

\* Each turn prints the Job and what the wallet can do with it; a settled Job is
\* the last.
PollJob ==
  /\ At({"watch"}, "load")
  /\ getJob(cmd.job).state \notin Live
  /\ Finish
  /\ OnlyCmd

\* --once, or the user's interrupt.
StopWatch ==
  /\ Watching \/ cmd.verb = "watch"
  /\ Finish
  /\ seen' = Empty /\ shown' = Empty
  /\ UNCHANGED <<marketVars, me, stored, walletVars>>
-----------------------------------------------------------------------------
(***************************************************************************)
(* The specification.                                                      *)
(***************************************************************************)

\* What everybody else does with the market while the wallet is busy or idle.
Others ==
  \E a \in Account \ {me} :
    \/ /\ a \in Poster
       /\ \E seller \in Account, j \in JobId, amount \in Amount, d \in Duration,
            w \in ReviewWindow, s \in Split : create(a, seller, j, amount, now + d, w, s)
       /\ UNCHANGED <<registryVars, scores, openings, batches>>
    \/ \E j \in DOMAIN jobs, verb \in JobVerb : \E tx \in prepare(verb, j) : DoorStep(a, tx[1])
    \/ DoorStep(a, buildCreateEmptyScoreTx(a))
    \/ /\ a \in Poster
       /\ \E o \in OpeningId, amount \in Amount, d \in OpenWindow, sla, w \in Duration, l \in MinLevel :
            create_open_v2(a, o, amount, now + d, sla, w, l)
       /\ UNCHANGED batches
    \/ /\ a \in Poster
       /\ \E b \in BatchId, payment \in Payment, slots \in SlotsTotal, d \in OpenWindow,
            sla, w \in Duration, l \in MinLevel, m \in MaxClaims :
            create_batch_open(a, b, payment, slots, now + d, sla, w, l, m)
       /\ UNCHANGED openings
    \/ (\E o \in DOMAIN openings, j \in JobId : claim_v2(a, o, j)) /\ UNCHANGED batches
    \/ (\E b \in DOMAIN batches, j \in JobId : batch_claim(a, b, j)) /\ UNCHANGED openings

TimePasses == Tick /\ UNCHANGED <<registryVars, scores, openings, batches>>

Idle == UNCHANGED <<me, cmd, stored, walletVars, watchVars>>

DeskNext ==
  \/ (TimePasses \/ Others) /\ Idle
  \/ hire \/ CheckHire
  \/ deliver_cmd \/ release_cmd \/ verb_cmd \/ review_cmd
  \/ open_cmd \/ batch_open_cmd \/ claim_cmd \/ batch_claim_cmd
  \/ cancel_cmd \/ batch_cancel_cmd \/ sdk_call
  \/ bulk_all_cmd \/ bulk_ids_cmd \/ bulk_review_cmd
  \/ putJobSpec \/ putAndVerifySpec
  \/ runSponsoredTx \/ sponsoredOpeningVerb \/ Submit \/ SubmitFails
  \/ watch \/ Load \/ Paint \/ Remember \/ Announce
  \/ watch_job \/ PollJob \/ StopWatch

DeskSpec == DeskInit /\ [][DeskNext]_deskVars

\* The clock moves; the watch's timer fires and, again and again, the index is
\* up to date and the node answers.
WatchFairness ==
  /\ WF_deskVars(TimePasses /\ Idle)
  /\ SF_deskVars(Load /\ UpToDate(cmd'.rows))
  /\ WF_deskVars(Paint \/ Remember \/ Announce)

WatchSpec == DeskSpec /\ WatchFairness
-----------------------------------------------------------------------------
(***************************************************************************)
(* Properties.                                                             *)
(***************************************************************************)

\* "A put is NOT durable until the same public read path serves the same
\* bytes": what this wallet uploaded and pinned can be read under its hash.
PinnedIsReadable ==
  \A p \in pinned : p.hash \in stored /\ p.hash = p.body

\* A release that can read the Job pays for undelivered work only when asked to
\* in so many words, however the Job moves between the read and the signature.
GoodwillIsAsked == \A g \in goodwill : g.asked \/ g.unread

\* What the wallet put into its hires, its open jobs and its waves, by id.
HireCost ==
  [j \in {k \in DOMAIN jobs : jobs[k].buyer = me /\ ~jobs[k].claimed} |-> jobs[j].amount]

PostCost ==
  [o \in {p \in DOMAIN openings : openings[p].buyer = me} |-> openings[o].amount]

WaveCost ==
  [b \in {p \in DOMAIN batches : batches[p].buyer = me} |->
     batches[b].amount * batches[b].slots_total]

\* The units of money of a list of costs, each with the id it was paid for.
Units(cost) == UNION {{x} \X (1..cost[x]) : x \in DOMAIN cost}

Total(cost) == Cardinality(Units(cost))

Escrowed == Total(HireCost) + Total(PostCost) + Total(WaveCost)

\* "A failed verb must not eat the day's cap", and one that landed must: the
\* ledger counts the money that left through this wallet's verbs, but for
\* transactions whose answer never came.
EscrowedIsCounted == spent + unheard = Escrowed

\* "The indexer lags writes, and stale rows made correct buckets lie": whatever
\* state of a Job the index still shows, the bucket of the row read again from
\* the chain names the doors that are open.
InboxTellsTheTruth ==
  \A j \in DOMAIN jobs : \A row \in IndexedJob(j) :
    LET job == jobs[j]
        fresh == IF row.state \in Live THEN mergeIndexedJobFromChain(row, getJob(j)) ELSE row
        selling == bucketSellerJob(fresh, now)
        buying == bucketBuyerJob(fresh, now)
        mayCrank == job.state = DELIVERED /\ now > window_end(job)
    IN  /\ (selling = "needsYou") <=> can_deliver(job, job.seller)
        /\ (selling = "fundedLate") <=> can_refund(job)
        /\ (selling = "releasable") <=> (mayCrank /\ job.review_window_ms > 0)
        /\ (buying = "needsYou") <=> can_release(job, job.buyer) /\ job.state = DELIVERED
        /\ (buying = "refundable") <=> can_refund(job)

Collectable(j) ==
  /\ cmd.verb = "mine"
  /\ j \in DOMAIN jobs /\ jobs[j].seller = me
  /\ jobs[j].state = DELIVERED
  /\ window_end(jobs[j]) < MaxNow

Surfaced(j) ==
  \/ cmd.verb # "mine"
  \/ j \in DOMAIN jobs /\ jobs[j].state # DELIVERED
  \/ j \in DOMAIN shown /\ shown[j] = "releasable"

\* A watch of the seller's inbox announces a delivered Job that becomes
\* releasable by the clock alone while the loop runs.
LapseIsAnnounced ==
  \A j \in JobId :
    (/\ Collectable(j) /\ jobs[j].review_window_ms > 0
     /\ cmd.step = "sleep"
     /\ j \in DOMAIN seen => seen[j] # "releasable")
      ~> Surfaced(j)

\* "A delivered job becomes RELEASABLE by clock alone - a state-keyed loop would
\* never surface money left on the table": the inbox surfaces all such Jobs.
ReleasableIsSurfaced == \A j \in JobId : Collectable(j) ~> Surfaced(j)
=============================================================================
