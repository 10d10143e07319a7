------------------------------ MODULE TxGuard ------------------------------
(***************************************************************************)
(* The two locks between a prepared transaction and the wallet's signature *)
(* (packages/cli/src/lib/tx-guard.ts): which host may build transactions,  *)
(* and which Move calls a transaction built for a verb may make.  A        *)
(* transaction is the sequence of its Move calls; packages and functions   *)
(* are named, not addressed.                                               *)
(***************************************************************************)
EXTENDS Naturals, Sequences

CANONICAL_API_ORIGIN == "https://api.t2000.ai"

\* Two ids of the marketplace's package family, the registry of agents and the
\* Sui framework.
A2A_ESCROW_PACKAGE   == "a2a_escrow"
LATEST_PACKAGE       == "a2a_escrow, upgraded"
AGENT_ID_PACKAGE     == "agent_id"
FRAMEWORK_PACKAGE    == "0x2"

\* A Move call: `at` are its arguments.
MoveCall(pkg, fn, at) == [pkg |-> pkg, fn |-> fn, at |-> at]

EscrowVerb == {"create", "deliver", "release", "reject", "refund", "decline"}

BoardVerb ==
  {"open-create", "open-claim", "open-cancel", "open-refund",
   "batch-open-create", "batch-open-claim", "batch-open-cancel", "batch-open-refund",
   "job-review", "release-many", "refund-many", "review-many"}

RegistryVerb == {"register", "update", "set-active"}

\* A verb outside the table is refused.
KnownVerb == EscrowVerb \cup BoardVerb \cup RegistryVerb

\* The packages of a verb.  While an upgrade rolls out, the first two escrow
\* verbs may come from either side of it.
TargetPackages(verb) ==
  CASE verb \in {"create", "deliver"} -> {A2A_ESCROW_PACKAGE, LATEST_PACKAGE}
    [] verb \in RegistryVerb -> {AGENT_ID_PACKAGE}
    [] OTHER -> {LATEST_PACKAGE}

EscrowFunctions(verb) ==
  CASE verb = "create"  -> {"escrow::create"}
    [] verb = "deliver" -> {"escrow::deliver", "reputation::deliver_v2",
                            "reputation::create_empty_score", "batch::deliver_v2"}
    [] verb = "release" -> {"reputation::release_v2", "reputation::create_empty_score",
                            "batch::batch_release"}
    [] verb = "reject"  -> {"reputation::reject_v2", "reputation::reject_v2_agent_buyer",
                            "reputation::create_empty_score", "batch::batch_reject",
                            "batch::batch_reject_agent_buyer"}
    [] verb = "refund"  -> {"reputation::refund_v2", "reputation::create_empty_score",
                            "batch::batch_refund"}
    [] verb = "decline" -> {"reputation::decline_v2", "reputation::create_empty_score",
                            "escrow::decline"}

BoardFunctions(verb) ==
  CASE verb = "open-create"       -> {"opening::create_open_v2"}
    [] verb = "open-claim"        -> {"opening::claim_v2", "reputation::create_empty_score"}
    [] verb = "open-cancel"       -> {"opening::cancel_open"}
    [] verb = "open-refund"       -> {"opening::refund_unclaimed"}
    [] verb = "batch-open-create" -> {"batch::create_batch_open"}
    [] verb = "batch-open-claim"  -> {"batch::batch_claim", "reputation::create_empty_score"}
    [] verb = "batch-open-cancel" -> {"batch::cancel_batch_open"}
    [] verb = "batch-open-refund" -> {"batch::refund_batch_expired"}
    [] verb = "release-many"      -> EscrowFunctions("release")
    [] verb = "refund-many"       -> EscrowFunctions("refund")
    [] verb \in {"job-review", "review-many"} ->
         {"reputation::submit_review", "reputation::submit_first_review"}

RegistryFunctions(verb) ==
  CASE verb = "register"   -> {"registry::register"}
    [] verb = "update"     -> {"registry::update"}
    [] verb = "set-active" -> {"registry::set_active"}

ACTION_TARGETS(verb) ==
  CASE verb \in EscrowVerb   -> EscrowFunctions(verb)
    [] verb \in BoardVerb    -> BoardFunctions(verb)
    [] verb \in RegistryVerb -> RegistryFunctions(verb)

\* What the framework's coin intents put around a funded call.
FRAMEWORK_PRELUDE ==
  {"coin::redeem_funds", "coin::into_balance", "coin::zero", "coin::destroy_zero",
   "balance::redeem_funds", "balance::zero"}
-----------------------------------------------------------------------------
\* The process-wide flag: an operator's word for another host.
assertSigningHostAllowed(origin, allowUntrusted) ==
  origin = CANONICAL_API_ORIGIN \/ allowUntrusted

\* A remainder goes back to the sender and to nobody else.
isSenderRemainderReturn(call, sender) ==
  call.fn = "coin::send_funds" /\ call.at.recipient = sender

isAllowedCoinPrelude(call, sender) ==
  /\ call.pkg = FRAMEWORK_PACKAGE
  /\ call.fn \in FRAMEWORK_PRELUDE \/ isSenderRemainderReturn(call, sender)

\* Every call is one of the verb's or part of its coin prelude, and one at least
\* is the verb's.
assertTxMatchesIntent(tx, sender, verb, allowUntrusted) ==
  \/ allowUntrusted
  \/ LET ours == {i \in DOMAIN tx : tx[i].pkg \in TargetPackages(verb)} IN
     /\ verb \in KnownVerb
     /\ ours # {}
     /\ \A i \in ours : tx[i].fn \in ACTION_TARGETS(verb)
     /\ \A i \in DOMAIN tx \ ours : isAllowedCoinPrelude(tx[i], sender)
-----------------------------------------------------------------------------
(***************************************************************************)
(* The coins of a funded call: nothing to do for coin objects, or the      *)
(* withdrawal from the address balance with its remainder.                 *)
(***************************************************************************)

CoinCall(fn, sender) == MoveCall(FRAMEWORK_PACKAGE, fn, [recipient |-> sender])

CoinPrelude(sender) ==
  {<<>>, <<CoinCall("coin::redeem_funds", sender), CoinCall("coin::into_balance", sender),
           CoinCall("coin::send_funds", sender)>>}
=============================================================================
