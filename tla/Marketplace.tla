---------------------------- MODULE Marketplace -----------------------------
(***************************************************************************)
(* The deployed packages together: the registry of agents, the escrow, the *)
(* scores, the open jobs and the waves.  Every step is one transaction of  *)
(* one module, and every step that touches a Job is a step of Escrow.      *)
(***************************************************************************)
EXTENDS Opening, Batch

marketVars == <<reputationVars, openings, batches>>

MarketInit ==
  /\ EscrowInit
  /\ RegistryInit
  /\ scores = [a \in {} |-> EmptyScore]
  /\ openings = [o \in {} |-> {}]
  /\ batches = [b \in {} |-> {}]

MarketNext ==
  \/ ReputationNext /\ UNCHANGED <<openings, batches>>
  \/ OpeningNext /\ UNCHANGED batches
  \/ BatchNext /\ UNCHANGED openings

MarketSpec == MarketInit /\ [][MarketNext]_marketVars
-----------------------------------------------------------------------------

\* The version gate covers every door: under another package's version no Job,
\* score, post or setting moves (only the agents' own registry still does).
StaleConfigFreezesMarket ==
  [][cfg.version # VERSION =>
       /\ UNCHANGED <<jobs, scores, openings, batches>>
       /\ cfg' = [cfg EXCEPT !.version = cfg'.version]
    ]_marketVars

\* The marketplace moves Jobs, settings and the clock only as the escrow
\* allows: Spec of Escrow under the identity mapping.
EscrowAllows == EscrowSpec
-----------------------------------------------------------------------------
(***************************************************************************)
(* Liveness.  Nothing on the chain calls a door by itself.  The clock      *)
(* moves; what else is assumed is the diligence of one party, with the     *)
(* doors that party can always call alone, and each property assumes it of *)
(* one party only: the other may do anything.                              *)
(***************************************************************************)

ClockTicks ==
  WF_marketVars(Tick /\ UNCHANGED <<registryVars, scores, openings, batches>>)

\* Anyone may create the score a settlement needs.
ScoreCreated(j) ==
  WF_marketVars(/\ j \in DOMAIN jobs
                /\ create_empty_score(jobs[j].seller)
                /\ UNCHANGED <<openings, batches>>)

\* The buyer calls the refund cranks on what it posted and hired.
RefundCrank(j) ==
  \/ refund_v2(j) /\ UNCHANGED <<openings, batches>>
  \/ \E b \in DOMAIN batches : batch_refund(b, j) /\ UNCHANGED openings

DiligentBuyer ==
  /\ \A j \in JobId : /\ ScoreCreated(j)
                      /\ WF_marketVars(j \in DOMAIN jobs /\ RefundCrank(j))
  /\ \A o \in OpeningId :
       WF_marketVars(o \in DOMAIN openings /\ refund_unclaimed(o) /\ UNCHANGED batches)
  /\ \A b \in BatchId :
       WF_marketVars(b \in DOMAIN batches /\ refund_batch_expired(b) /\ UNCHANGED openings)

\* The seller calls the release crank on what it delivered.
ReleaseCrank(j) ==
  \/ release_v2(jobs[j].seller, j) /\ UNCHANGED <<openings, batches>>
  \/ \E b \in DOMAIN batches : batch_release(jobs[j].seller, b, j) /\ UNCHANGED openings

DiligentSeller ==
  \A j \in JobId : /\ ScoreCreated(j)
                   /\ WF_marketVars(j \in DOMAIN jobs /\ ReleaseCrank(j))

LiveSpec == MarketSpec /\ ClockTicks

Undelivered(j) == j \in DOMAIN jobs /\ jobs[j].state = FUNDED

Unsettled(j) == j \in DOMAIN jobs /\ jobs[j].state = DELIVERED

Posted(o) == o \in DOMAIN openings /\ is_open(o)

SlotsLeft(b) == b \in DOMAIN batches /\ batches[b].slots_remaining > 0

\* A buyer who cranks is never stuck, whoever the seller is and whatever it does
\* (registered or not, scored or not, hired or from a post): a Job whose
\* deadline the clock passes is delivered or settled, and the money of a post
\* nobody takes moves on, to a Job or back.
BuyerIsNeverStuck ==
  DiligentBuyer =>
    /\ \A j \in JobId :
         (Undelivered(j) /\ jobs[j].deliver_by_ms < MaxNow) ~> ~Undelivered(j)
    /\ \A o \in OpeningId :
         (Posted(o) /\ openings[o].open_until_ms < MaxNow) ~> ~Posted(o)
    /\ \A b \in BatchId :
         (SlotsLeft(b) /\ batches[b].open_until_ms < MaxNow) ~> ~SlotsLeft(b)

\* A seller who cranks is never stuck with a silent buyer: delivered work is
\* paid or rejected once its review window has passed.
DeliveredIsSettled ==
  DiligentSeller =>
    \A j \in JobId :
      (Unsettled(j) /\ window_end(jobs[j]) < MaxNow) ~> ~Unsettled(j)
=============================================================================
