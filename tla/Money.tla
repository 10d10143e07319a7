------------------------------- MODULE Money -------------------------------
(***************************************************************************)
(* Basis-point arithmetic of a2a_escrow::escrow and the three ways a       *)
(* settlement divides an escrow balance between buyer, seller and the      *)
(* protocol.  Amounts are raw coin units; the u128 intermediate of         *)
(* `mul_bps` is exact, so plain integers model it.                         *)
(***************************************************************************)
EXTENDS Integers

CONSTANT BPS_DENOMINATOR    \* 10_000 in the source

ASSUME BpsAssumption == BPS_DENOMINATOR \in Nat \ {0}

Shares == [buyer : Nat, seller : Nat, fee : Nat]

NothingPaid == [buyer |-> 0, seller |-> 0, fee |-> 0]

PaidTotal(shares) == shares.buyer + shares.seller + shares.fee

\* Plausible bug: round the fee up, so that dust is never fee-free.
mul_bps_RoundsUp(amount, bps) ==
  (amount * bps + BPS_DENOMINATOR - 1) \div BPS_DENOMINATOR

\* floor(amount * bps / 10_000)
mul_bps(amount, bps) == (amount * bps) \div BPS_DENOMINATOR

\* Release: the seller takes everything but the protocol fee.
release_shares(total, fee_bps) ==
  LET fee == mul_bps(total, fee_bps)
  IN  [buyer |-> 0, seller |-> total - fee, fee |-> fee]

\* Plausible bug: charge the fee on the whole escrow, the buyer's part too.
reject_shares_FeeOnTotal(total, split_bps, fee_bps) ==
  LET to_buyer == mul_bps(total, split_bps)
      fee      == mul_bps(total, fee_bps)
  IN  [buyer |-> to_buyer, seller |-> total - to_buyer, fee |-> fee]

\* Reject: the buyer's agreed share is fee-free, the fee is taken from the
\* seller-bound rest only.
reject_shares(total, split_bps, fee_bps) ==
  LET to_buyer == mul_bps(total, split_bps)
      gross    == total - to_buyer
      fee      == mul_bps(gross, fee_bps)
  IN  [buyer |-> to_buyer, seller |-> gross - fee, fee |-> fee]

\* Decline and deadline refund: all of it back to the buyer, fee-free.
refund_shares(total) == [buyer |-> total, seller |-> 0, fee |-> 0]
=============================================================================
