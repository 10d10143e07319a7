----------------------------- MODULE MCJobDesk ------------------------------
(***************************************************************************)
(* One wallet of two at its desk: the seller, an agent, or the buyer.      *)
(***************************************************************************)
EXTENDS MCMarketplace, JobDesk

CONSTANTS brief, other, MaxSales

\* Bound: at most MaxSales hires, open jobs and waves in a behaviour.
FewSales ==
  Cardinality(DOMAIN openings) + Cardinality(DOMAIN batches)
    + Cardinality({j \in DOMAIN jobs : ~jobs[j].claimed}) <= MaxSales

MCWatchSpec == DeskInit /\ [][DeskNext /\ FewSales']_deskVars /\ WatchFairness
=============================================================================
