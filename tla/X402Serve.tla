----------------------------- MODULE X402Serve ------------------------------
(***************************************************************************)
(* The paid request of @t2000/serve (route.ts) over @t2000/sui-x402: a     *)
(* buyer signs a gasless payment for a 402 challenge, the seller's server  *)
(* runs the handler, submits the signed bytes, and answers.                *)
(*                                                                         *)
(* Requests run concurrently, in one or several server processes; every    *)
(* `await` of the route is a point where another request may run.  A       *)
(* request keeps its record when it has ended, so that "served once" can   *)
(* be said of the past.  The chain and the store service are modelled from *)
(* how this code uses them: resubmitting an executed payment inside its    *)
(* validity window is idempotent, and any call may fail with or without    *)
(* its effect.                                                             *)
(***************************************************************************)
EXTENDS Naturals, FiniteSets

CONSTANTS
  Request,          \* HTTP requests that carry an X-PAYMENT header
  Payment,          \* signed payments; a payment's name is also its digest
  Challenge,        \* challenge ids
  challengeOf,      \* Payment -> Challenge the payment binds to
  Accepted,         \* payments the chain accepts (signature, funds)
  Fitting,          \* payments verifyX402Payment accepts (terms, shape)
  pays,             \* Payment -> what it transfers to the seller
  PRICE,
  Process,          \* server processes
  Store,            \* replay stores
  storeOf,          \* Process -> the store it was configured with
  SetIfAbsent,      \* set() is SET NX (Upstash), or Map.set (in memory)?
  Volatile,         \* the store is in the memory of its process
  StoreFaults,      \* calls of the store may fail
  ATTEMPTS,         \* tries of executeTransaction
  EPOCH,            \* ticks of an epoch
  TTL,              \* ticks a key is kept
  MaxNow            \* bound: the last instant

ASSUME ServeAssumption ==
  /\ challengeOf \in [Payment -> Challenge]
  /\ Payment \cap Challenge = {}
  /\ Accepted \subseteq Payment /\ Fitting \subseteq Payment
  /\ pays \in [Payment -> Nat] /\ PRICE \in Nat \ {0}
  /\ storeOf \in [Process -> Store]
  /\ {SetIfAbsent, Volatile, StoreFaults} \subseteq BOOLEAN
  /\ ATTEMPTS \in Nat \ {0} /\ EPOCH \in Nat \ {0}
  /\ TTL \in Nat /\ MaxNow \in Nat

VARIABLES
  now,
  window,       \* Payment -> first epoch it is valid in, for the signed ones
  executed,     \* the payments the chain has executed
  store,        \* Store -> (Key -> expiry), for the keys it has seen
  req           \* Request -> its progress through the route

serveVars == <<now, window, executed, store, req>>

InFlight == {"checking", "handling", "settling", "confirming", "recording", "consuming"}
\* "failed" answers say that a call threw (500, or 402 if settling), "refused"
\* ones that something was decided.
Answers  == {"served", "refused", "failed", "lost"}

NoRequest ==
  [pc |-> "idle", payment |-> {}, process |-> {}, tries |-> 0,
   result |-> FALSE, replay |-> FALSE]

ServeInit ==
  /\ now = 0
  /\ window = [p \in {} |-> 0]
  /\ executed = {}
  /\ store = [s \in Store |-> [k \in {} |-> 0]]
  /\ req = [r \in Request |-> NoRequest]
-----------------------------------------------------------------------------
epoch == now \div EPOCH

\* ValidDuring [minEpoch, minEpoch + 1]
in_window(p) == epoch \in window[p]..(window[p] + 1)

\* Plausible bug: keys live for a day, less than a payment stays valid.
expires_at_OneDay == now + EPOCH

expires_at == now + TTL

seen(s, k) == k \in DOMAIN store[s] /\ now <= store[s][k]

put(s, k) ==
  store' = [store EXCEPT ![s] =
              [x \in DOMAIN @ \cup {k} |-> IF x = k THEN expires_at ELSE @[x]]]

\* Plausible bug: set() overwrites, whatever the store can do.
set_refused_Never(s, k) == FALSE

\* SET NX answers null, and set() throws, on a key that is there already.
set_refused(s, k) == SetIfAbsent /\ seen(s, k)

payment(r) == req[r].payment
storeAt(r) == storeOf[req[r].process]
at(r, pc)  == req[r].pc = pc
go(r, pc)  == req' = [req EXCEPT ![r].pc = pc]

served(p) == {r \in Request : at(r, "served") /\ payment(r) = p}
-----------------------------------------------------------------------------
(***************************************************************************)
(* The buyer.                                                              *)
(***************************************************************************)

\* A 402 answers with an accepts[] entry for [epoch, epoch + 1] and the buyer
\* signs it without submitting.  It may be an answer of the epoch before: the
\* server caches its epoch for ten minutes, and the buyer takes its time.
sign(p) ==
  /\ p \notin DOMAIN window
  /\ \E e \in (epoch - 1 .. epoch) \cap Nat :
       window' = [x \in DOMAIN window \cup {p} |-> IF x = p THEN e ELSE window[x]]
  /\ UNCHANGED <<now, executed, store, req>>

\* A request with a signed payment reaches a process: first try, duplicate,
\* retry after a lost answer, or a replay long after.  Structural verification
\* needs no state and no network; what it refuses gets another 402.
arrive(r, p, s) ==
  /\ at(r, "idle")
  /\ p \in DOMAIN window
  /\ req' = [req EXCEPT ![r] =
               [pc |-> IF p \in Fitting THEN "checking" ELSE "refused",
                payment |-> p, process |-> s, tries |-> 0,
                result |-> FALSE, replay |-> served(p) # {}]]
  /\ UNCHANGED <<now, window, executed, store>>
-----------------------------------------------------------------------------
(***************************************************************************)
(* The route.                                                              *)
(***************************************************************************)

\* Plausible bug: the challenge is consumed when it is checked.
check_challenge_ConsumesIt(r) ==
  LET c == challengeOf[payment(r)] IN
  /\ at(r, "checking")
  /\ IF seen(storeAt(r), c)
       THEN go(r, "refused") /\ UNCHANGED store
       ELSE go(r, "handling") /\ put(storeAt(r), c)
  /\ UNCHANGED <<now, window, executed>>

\* 2. A challenge that was consumed is refused.
check_challenge(r) ==
  /\ at(r, "checking")
  /\ go(r, IF seen(storeAt(r), challengeOf[payment(r)]) THEN "refused" ELSE "handling")
  /\ UNCHANGED <<now, window, executed, store>>

\* ... and has() may throw: the route does not catch it.
check_challenge_fails(r) ==
  /\ StoreFaults
  /\ at(r, "checking")
  /\ go(r, "failed")
  /\ UNCHANGED <<now, window, executed, store>>

\* Plausible bug: the answer of a failed handler is settled too.
handler_fails_ButSettles(r) ==
  /\ at(r, "handling")
  /\ executed' = executed \cup {payment(r)}
  /\ go(r, "failed")
  /\ UNCHANGED <<now, window, store>>

\* 3 + 4. Body invalid (422), handler throws (500) or answers 4xx/5xx: the
\* payment is not submitted ...
handler_fails(r) ==
  /\ at(r, "handling")
  /\ go(r, "failed")
  /\ UNCHANGED <<now, window, executed, store>>

\* ... otherwise its result waits for the settlement.
handler_returns(r) ==
  /\ at(r, "handling")
  /\ req' = [req EXCEPT ![r].pc = "settling", ![r].result = TRUE]
  /\ UNCHANGED <<now, window, executed, store>>

can_execute(p) == p \in Accepted /\ in_window(p)

\* 5. executeTransaction answers: the payment is on the chain, now or before.
submit(r) ==
  /\ at(r, "settling")
  /\ can_execute(payment(r))
  /\ executed' = executed \cup {payment(r)}
  /\ go(r, "confirming")
  /\ UNCHANGED <<now, window, store>>

\* ... or it was executed and failed there, which moves nothing.
submit_fails_on_chain(r) ==
  /\ at(r, "settling")
  /\ payment(r) \notin Accepted
  /\ go(r, "refused")
  /\ UNCHANGED <<now, window, executed, store>>

\* The call fails, before or after the chain has executed; withRetry tries
\* again, and the last failure answers 402.
submit_unanswered(r) ==
  /\ at(r, "settling")
  /\ executed' \in {executed, executed \cup {p \in {payment(r)} : can_execute(p)}}
  /\ req' = [req EXCEPT ![r].tries = @ + 1,
                        ![r].pc = IF req[r].tries + 1 < ATTEMPTS THEN @ ELSE "refused"]
  /\ UNCHANGED <<now, window, store>>

\* Plausible bug: the settled amount is not compared with the price.
enough_paid_Anything(p) == TRUE

enough_paid(p) == pays[p] >= PRICE

\* A digest that was recorded is refused, and so is a settled payment that
\* does not cover the terms.
confirm(r) ==
  LET p == payment(r) IN
  /\ at(r, "confirming")
  /\ go(r, IF seen(storeAt(r), p) \/ ~enough_paid(p) THEN "refused" ELSE "recording")
  /\ UNCHANGED <<now, window, executed, store>>

confirm_fails(r) ==
  /\ StoreFaults
  /\ at(r, "confirming")
  /\ go(r, "failed")
  /\ UNCHANGED <<now, window, executed, store>>

record_digest(r) ==
  LET p == payment(r)
      s == storeAt(r)
  IN
  /\ at(r, "recording")
  /\ IF set_refused(s, p) THEN go(r, "refused") /\ UNCHANGED store
                          ELSE go(r, "consuming") /\ put(s, p)
  /\ UNCHANGED <<now, window, executed>>

\* The reply of set() is lost: with or without its effect, settle throws.
record_digest_fails(r) ==
  LET p == payment(r)
      s == storeAt(r)
  IN
  /\ StoreFaults
  /\ at(r, "recording")
  /\ go(r, "failed")
  /\ UNCHANGED store \/ (~set_refused(s, p) /\ put(s, p))
  /\ UNCHANGED <<now, window, executed>>

\* 6. Consume the challenge, whatever set() says, and answer with the receipt.
consume_challenge(r) ==
  LET c == challengeOf[payment(r)]
      s == storeAt(r)
  IN
  /\ at(r, "consuming")
  /\ go(r, "served")
  /\ IF set_refused(s, c) THEN UNCHANGED store
                          ELSE put(s, c) \/ (StoreFaults /\ UNCHANGED store)
  /\ UNCHANGED <<now, window, executed>>

\* A process dies or is recycled: its requests get no answer, and a store in
\* its memory starts empty again.
restart(s) ==
  /\ \/ \E r \in Request : req[r].pc \in InFlight /\ req[r].process = s
     \/ Volatile /\ DOMAIN store[storeOf[s]] # {}
  /\ req' = [r \in Request |->
               IF req[r].pc \in InFlight /\ req[r].process = s
                 THEN [req[r] EXCEPT !.pc = "lost"] ELSE req[r]]
  /\ store' = IF Volatile THEN [store EXCEPT ![storeOf[s]] = [k \in {} |-> 0]] ELSE store
  /\ UNCHANGED <<now, window, executed>>

\* Half a day passes.  A request may be waiting for its handler or for the chain
\* meanwhile, but what follows the execution takes seconds.
tick ==
  /\ now < MaxNow
  /\ \A r \in Request : req[r].pc \notin {"confirming", "recording", "consuming"}
  /\ now' = now + 1
  /\ UNCHANGED <<window, executed, store, req>>

Serve ==
  \E r \in Request :
    \/ check_challenge(r)
    \/ check_challenge_fails(r)
    \/ handler_fails(r)
    \/ handler_returns(r)
    \/ submit(r)
    \/ submit_fails_on_chain(r)
    \/ submit_unanswered(r)
    \/ confirm(r)
    \/ confirm_fails(r)
    \/ record_digest(r)
    \/ record_digest_fails(r)
    \/ consume_challenge(r)

\* One process that lives for ever.
SteadyNext ==
  \/ \E p \in Payment : sign(p)
  \/ \E r \in Request, p \in Payment, s \in Process : arrive(r, p, s)
  \/ Serve
  \/ tick

ServeNext ==
  \/ SteadyNext
  \/ \E s \in Process : restart(s)

ServeSpec  == ServeInit /\ [][ServeNext]_serveVars
SteadySpec == ServeInit /\ [][SteadyNext]_serveVars
-----------------------------------------------------------------------------
(***************************************************************************)
(* Properties.                                                             *)
(***************************************************************************)

\* "Settle-once enforcement: every settled digest is recorded, and a digest
\* that has been seen settles nothing twice": however many copies of a payment
\* arrive, at however many processes, at most one of them is served.
ServedOnce == \A p \in Payment : Cardinality(served(p)) <= 1

\* The same for copies that arrive after the payment was served: for as long as
\* the chain would confirm the payment again, the server remembers it.
ReplayNeverServed == \A r \in Request : req[r].replay => ~at(r, "served")

\* Nothing is served unpaid: a 200 means the payment is on the chain and covers
\* the price.
ServedOnlyIfPaid ==
  \A p \in Payment : served(p) # {} => p \in executed /\ pays[p] >= PRICE

\* "No charge on failure": a payment is on the chain only if the handler has
\* returned a result for it - for some copy, when there are several.
ChargedOnlyForResults ==
  \A p \in executed : \E r \in Request : payment(r) = p /\ req[r].result

\* The two faults nobody recovers from: the process died, or the reply of the
\* store was lost, after the handler had returned.
cut_off(r) == req[r].result /\ (at(r, "lost") \/ at(r, "failed"))

\* A buyer who was charged the price and got no answer can always send the
\* payment again: as long as no copy was served, is about to be or was cut off,
\* nothing is recorded that would refuse it.
ChargedStaysServable ==
  \A p \in executed :
    \/ pays[p] < PRICE
    \/ \E r \in Request :
         payment(r) = p /\ (at(r, "served") \/ at(r, "consuming") \/ cut_off(r))
    \/ \A s \in Process : ~seen(storeOf[s], p) /\ ~seen(storeOf[s], challengeOf[p])
=============================================================================
