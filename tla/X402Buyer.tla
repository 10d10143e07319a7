----------------------------- MODULE X402Buyer -----------------------------
(***************************************************************************)
(* The buyer's reading of an endpoint's answer: which entry of a 402's      *)
(* accepts[] is the one to pay, what the read-only probe reports of it, what*)
(* the payment does with it, and what `t2 pay --estimate` makes of it.      *)
(* Pure operators on one answer.                                            *)
(***************************************************************************)
EXTENDS Integers, Sequences

CONSTANTS
  NoPrice,   \* no --max-price
  Price,     \* prices an entry may ask, and ceilings a caller may set
  Wallet,    \* addresses an entry may name as payTo
  self,      \* the payer's own
  Network    \* "sui:mainnet", "sui:testnet" and networks that are not Sui

ASSUME BuyerAssumption ==
  Price \subseteq Nat \ {0} /\ NoPrice \notin Nat /\ self \in Wallet

Entry == [scheme: {"exact", "other"}, network: Network, suimpp: BOOLEAN,
          escrow: BOOLEAN, price: Price, payTo: Wallet]

\* status: 200 served, 402 asks for payment, 500 anything else.  header: it
\* carries WWW-Authenticate: Payment.  A body that is not JSON has no accepts.
Answer == [status: {200, 402, 500}, header: BOOLEAN, accepts: Seq(Entry)]

hasCompleteSuimppChallenge(e) == e.suimpp
isX402EscrowRequirements(e) == e.escrow

ForNetwork(network) == IF network = "testnet" THEN "sui:testnet" ELSE "sui:mainnet"

\* The first of a non-empty set of positions.
FirstOf(positions) == CHOOSE i \in positions : \A j \in positions : i <= j

\* The FIRST exact entry of the wanted network decides, whatever follows it.
pickSuiExactRequirements(answer, network) ==
  LET wanted == {i \in DOMAIN answer.accepts :
                   /\ answer.accepts[i].scheme = "exact"
                   /\ answer.accepts[i].network = ForNetwork(network)}
      e == answer.accepts[FirstOf(wanted)]
  IN  IF wanted = {} THEN [kind |-> "none"]
      ELSE IF hasCompleteSuimppChallenge(e) \/ isX402EscrowRequirements(e)
      THEN [kind |-> "payable", requirements |-> e]
      ELSE [kind |-> "incomplete"]

\* What both paths say of a 402 that cannot be paid, most precise first.
UnpayableKind(answer, pick) ==
  IF answer.header THEN "unsupported"
  ELSE IF pick.kind = "incomplete" THEN "incomplete" ELSE "not-x402"

probeX402(answer, network) ==
  LET pick == pickSuiExactRequirements(answer, network)
  IN  IF answer.status # 402 THEN "free"
      ELSE IF pick.kind # "payable" THEN UnpayableKind(answer, pick)
      ELSE IF isX402EscrowRequirements(pick.requirements) THEN "escrow" ELSE "payable"

assertNotSelfPayment(e) == e.payTo # self
assertWithinMaxPrice(e, maxPrice) == maxPrice # NoPrice => e.price <= maxPrice

\* How far payWithX402 gets before it signs: "free" returns unpaid, "sign"
\* goes on to build and sign the payment, everything else throws.
payWithX402(answer, network, maxPrice) ==
  LET pick == pickSuiExactRequirements(answer, network)
      e == pick.requirements
  IN  IF answer.status # 402 THEN "free"
      ELSE IF pick.kind # "payable" THEN UnpayableKind(answer, pick)
      ELSE IF isX402EscrowRequirements(e) THEN "escrow"
      ELSE IF ~assertNotSelfPayment(e) THEN "self-payment"
      ELSE IF ~hasCompleteSuimppChallenge(e) THEN "incomplete"
      ELSE IF ~assertWithinMaxPrice(e, maxPrice) THEN "too-dear"
      ELSE "sign"

\* The entry a payment that signs is bound to.
Requirements(answer, network) == pickSuiExactRequirements(answer, network).requirements

\* --estimate has a pick of its own: an exact entry of any Sui network, or else
\* whatever entry comes first; it exits 0 with that entry's price, or fails.
runEstimate(answer) ==
  LET sui == {i \in DOMAIN answer.accepts :
                /\ answer.accepts[i].scheme = "exact"
                /\ answer.accepts[i].network \in {"sui:mainnet", "sui:testnet"}}
      listed == IF sui # {} THEN sui ELSE DOMAIN answer.accepts
  IN  IF answer.status # 402 \/ listed = {}
      THEN [exit |-> 1]
      ELSE [exit |-> 0, requirements |-> answer.accepts[FirstOf(listed)]]

=============================================================================
