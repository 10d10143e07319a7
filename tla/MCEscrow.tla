------------------------------ MODULE MCEscrow ------------------------------
(***************************************************************************)
(* A small instance of Escrow for TLC: a clock of a few ticks, one Job,    *)
(* and an amount whose basis points round.                                 *)
(***************************************************************************)
EXTENDS Escrow, TLC

CONSTANT treasury

\* A FeeConfig an older package left behind: `migrate` has not run yet.
MCStaleCfg ==
  [version |-> VERSION - 1, fee_bps |-> 250, fee_receiver |-> treasury,
   min_job_amount |-> 39, max_job_amount |-> 41,
   tier_active_cap |-> [l \in Level |-> 1], no_delivery_floor |-> 1,
   max_batch_slots |-> 2, score_board |-> FALSE]

Symmetry == Permutations(Account)
=============================================================================
