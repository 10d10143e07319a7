---------------------------- MODULE ServeProofs ----------------------------
(***************************************************************************)
(* The paid request, for every set of requests, payments, challenges,      *)
(* processes and stores: nothing is served unpaid and nothing is charged   *)
(* without a result, whatever store is configured; how long the store has  *)
(* to remember for a payment to be served once; and when a payment that    *)
(* was charged can still be answered.                                      *)
(***************************************************************************)
EXTENDS X402Serve, FiniteSetTheorems, TLAPS

Key   == Payment \cup Challenge
PC    == {"idle"} \cup InFlight \cup Answers

RequestRecord ==
  [pc : PC, payment : Payment \cup {{}}, process : Process \cup {{}}, tries : Nat,
   result : BOOLEAN, replay : BOOLEAN]

\* A request that has arrived carries a signed payment to a process.
ServeTypeOK ==
  /\ now \in Nat
  /\ DOMAIN window \subseteq Payment
  /\ \A p \in DOMAIN window : window[p] \in Nat
  /\ executed \subseteq Accepted
  /\ DOMAIN store = Store
  /\ \A s \in Store : /\ DOMAIN store[s] \subseteq Key
                      /\ \A k \in DOMAIN store[s] : store[s][k] \in Nat
  /\ req \in [Request -> RequestRecord]
  /\ \A r \in Request : ~at(r, "idle") => /\ payment(r) \in DOMAIN window
                                          /\ req[r].process \in Process

\* Behind the submission the payment is on the chain, and behind the
\* confirmation it covers the price.
PaidInv ==
  \A r \in Request :
    /\ req[r].pc \in {"confirming", "recording", "consuming", "served"} => payment(r) \in executed
    /\ req[r].pc \in {"recording", "consuming", "served"} => pays[payment(r)] >= PRICE

\* Behind the handler there is a result, and a request that has not arrived has
\* none to lose.
ResultInv ==
  /\ \A r \in Request :
       /\ at(r, "idle") => ~req[r].result
       /\ req[r].pc \in {"settling", "confirming", "recording", "consuming", "served"}
            => req[r].result
  /\ ChargedOnlyForResults

ServeInv == ServeTypeOK /\ PaidInv /\ ResultInv

\* The steps of one request through the route.
Route(r) ==
  \/ check_challenge(r) \/ check_challenge_fails(r)
  \/ handler_fails(r) \/ handler_returns(r)
  \/ submit(r) \/ submit_fails_on_chain(r) \/ submit_unanswered(r)
  \/ confirm(r) \/ confirm_fails(r)
  \/ record_digest(r) \/ record_digest_fails(r)
  \/ consume_challenge(r)

LEMMA ServeIsRoute == Serve <=> \E r \in Request : Route(r)
BY DEF Serve, Route

----------------------------------------------------------------------------
\* What a step of a request can do: it moves on along the route, and keeps
\* payment, process and result.
Edge(r) ==
  LET pc == req[r].pc  next == req'[r].pc IN
  \/ pc = "checking"   /\ next \in {"refused", "handling", "failed"}
  \/ pc = "handling"   /\ next \in {"failed", "settling"}
  \/ pc = "settling"   /\ next \in {"confirming", "settling", "refused"}
  \/ pc = "confirming" /\ next \in {"refused", "recording", "failed"}
  \/ pc = "recording"  /\ next \in {"refused", "consuming", "failed"}
  \/ pc = "consuming"  /\ next = "served"

OneMoves(r) ==
  /\ req' \in [Request -> RequestRecord]
  /\ \A q \in Request \ {r} : req'[q] = req[q]
  /\ payment(r)' = payment(r) /\ req'[r].process = req[r].process
  /\ req'[r].replay = req[r].replay
  /\ req'[r].result = IF at(r, "handling") /\ at(r, "settling")' THEN TRUE ELSE req[r].result
  /\ Edge(r)
  /\ UNCHANGED <<now, window>>

\* go changes the place of one request, and nothing else.
LEMMA GoMoves ==
  ASSUME req \in [Request -> RequestRecord], NEW r \in Request, NEW pc \in PC, go(r, pc)
  PROVE  /\ req' \in [Request -> RequestRecord]
         /\ \A q \in Request \ {r} : req'[q] = req[q]
         /\ payment(r)' = payment(r) /\ req'[r].process = req[r].process
         /\ req'[r].replay = req[r].replay /\ req'[r].result = req[r].result
         /\ req'[r].pc = pc
<1>1. req[r] \in RequestRecord
  OBVIOUS
<1>2. [req[r] EXCEPT !.pc = pc] \in RequestRecord
  BY <1>1 DEF RequestRecord
<1>3. req' = [req EXCEPT ![r] = [req[r] EXCEPT !.pc = pc]]
  BY DEF go
<1>4. req'[r] = [req[r] EXCEPT !.pc = pc]
  BY <1>3
<1>5. req' \in [Request -> RequestRecord]
  BY <1>2, <1>3
<1> QED
  BY <1>1, <1>3, <1>4, <1>5 DEF RequestRecord, payment

LEMMA RouteMoves ==
  ASSUME ServeTypeOK, NEW r \in Request, Route(r)
  PROVE  OneMoves(r)
<1>0. req \in [Request -> RequestRecord] /\ req[r] \in RequestRecord
  BY DEF ServeTypeOK
<1>1. ASSUME NEW pc \in PC, go(r, pc), UNCHANGED <<now, window>>,
             \/ at(r, "checking")   /\ pc \in {"refused", "handling", "failed"}
             \/ at(r, "handling")   /\ pc = "failed"
             \/ at(r, "settling")   /\ pc \in {"confirming", "settling", "refused"}
             \/ at(r, "confirming") /\ pc \in {"refused", "recording", "failed"}
             \/ at(r, "recording")  /\ pc \in {"refused", "consuming", "failed"}
             \/ at(r, "consuming")  /\ pc = "served"
      PROVE  OneMoves(r)
  <2>1. req'[r].pc = pc
    BY <1>0, <1>1, GoMoves
  <2>2. Edge(r) /\ ~(at(r, "handling") /\ at(r, "settling")')
    BY <1>1, <2>1 DEF Edge, at
  <2> QED
    BY <1>0, <1>1, <2>2, GoMoves DEF OneMoves
<1> USE DEF PC, InFlight, Answers
<1>2. CASE check_challenge(r)
  BY <1>1, <1>2 DEF check_challenge
<1>3. CASE check_challenge_fails(r)
  BY <1>1, <1>3 DEF check_challenge_fails
<1>4. CASE handler_fails(r)
  BY <1>1, <1>4 DEF handler_fails
<1>5. CASE handler_returns(r)
  BY <1>0, <1>5 DEF handler_returns, OneMoves, Edge, at, payment, RequestRecord
<1>6. CASE submit(r)
  BY <1>1, <1>6 DEF submit
<1>7. CASE submit_fails_on_chain(r)
  BY <1>1, <1>7 DEF submit_fails_on_chain
<1>8. CASE submit_unanswered(r)
  <2> DEFINE pc  == IF req[r].tries + 1 < ATTEMPTS THEN "settling" ELSE "refused"
             new == [req[r] EXCEPT !.tries = req[r].tries + 1, !.pc = pc]
  <2>1. at(r, "settling") /\ req' = [req EXCEPT ![r] = new] /\ UNCHANGED <<now, window>>
    BY <1>8 DEF submit_unanswered, at
  <2>2. pc \in PC /\ req[r].tries + 1 \in Nat
    BY <1>0 DEF RequestRecord
  <2>3. new \in RequestRecord /\ new.pc = pc /\ new.payment = req[r].payment
        /\ new.process = req[r].process /\ new.replay = req[r].replay /\ new.result = req[r].result
    BY <1>0, <2>2 DEF RequestRecord
  <2>4. req'[r] = new /\ req' \in [Request -> RequestRecord]
    BY <1>0, <2>1, <2>3
  <2>5. Edge(r) /\ ~at(r, "handling")
    BY <2>1, <2>3, <2>4 DEF Edge, at
  <2> QED
    BY <1>0, <2>1, <2>3, <2>4, <2>5 DEF OneMoves, payment
<1>9. CASE confirm(r)
  BY <1>1, <1>9 DEF confirm
<1>10. CASE confirm_fails(r)
  BY <1>1, <1>10 DEF confirm_fails
<1>11. CASE record_digest(r)
  BY <1>1, <1>11 DEF record_digest
<1>12. CASE record_digest_fails(r)
  BY <1>1, <1>12 DEF record_digest_fails
<1>13. CASE consume_challenge(r)
  BY <1>1, <1>13 DEF consume_challenge
<1> QED
  BY <1>2, <1>3, <1>4, <1>5, <1>6, <1>7, <1>8, <1>9, <1>10, <1>11, <1>12, <1>13 DEF Route

\* What a step of a request leaves behind: on the chain only its payment, when
\* the chain accepts it; in its store only the payment, as long as the store
\* does not refuse it, or the challenge of a request that is served.
Effects(r) ==
  LET p    == payment(r)
      s    == storeAt(r)
      next == req'[r].pc
  IN
  /\ \/ UNCHANGED executed
     \/ at(r, "settling") /\ can_execute(p) /\ executed' = executed \cup {p}
  /\ next = "confirming" => in_window(p) /\ p \in executed'
  /\ next = "recording" => pays[p] >= PRICE
  /\ \/ UNCHANGED store
     \/ at(r, "recording") /\ next \in {"consuming", "failed"} /\ put(s, p)
     \/ next = "served" /\ put(s, challengeOf[p])
  /\ next = "consuming" => put(s, p) /\ ~set_refused(s, p)

LEMMA RouteEffects ==
  ASSUME ServeTypeOK, NEW r \in Request, Route(r)
  PROVE  Effects(r)
<1>0. req \in [Request -> RequestRecord]
  BY DEF ServeTypeOK
<1>1. \A pc : go(r, pc) => req'[r].pc = pc
  BY <1>0 DEF go, RequestRecord
<1> USE DEF Effects, at
<1>2. CASE check_challenge(r)
  BY <1>1, <1>2 DEF check_challenge
<1>3. CASE check_challenge_fails(r)
  BY <1>1, <1>3 DEF check_challenge_fails
<1>4. CASE handler_fails(r)
  BY <1>1, <1>4 DEF handler_fails
<1>5. CASE handler_returns(r)
  <2>1. req'[r].pc = "settling"
    BY <1>0, <1>5 DEF handler_returns, RequestRecord
  <2> QED
    BY <1>5, <2>1 DEF handler_returns
<1>6. CASE submit(r)
  BY <1>1, <1>6 DEF submit, can_execute
<1>7. CASE submit_fails_on_chain(r)
  BY <1>1, <1>7 DEF submit_fails_on_chain
<1>8. CASE submit_unanswered(r)
  <2>1. req'[r].pc \in {"settling", "refused"}
    BY <1>0, <1>8 DEF submit_unanswered, RequestRecord
  <2>2. \/ UNCHANGED executed
        \/ can_execute(payment(r)) /\ executed' = executed \cup {payment(r)}
    BY <1>8 DEF submit_unanswered
  <2> QED
    BY <1>8, <2>1, <2>2 DEF submit_unanswered
<1>9. CASE confirm(r)
  BY <1>1, <1>9 DEF confirm, enough_paid
<1>10. CASE confirm_fails(r)
  BY <1>1, <1>10 DEF confirm_fails
<1>11. CASE record_digest(r)
  BY <1>1, <1>11 DEF record_digest
<1>12. CASE record_digest_fails(r)
  BY <1>1, <1>12 DEF record_digest_fails
<1>13. CASE consume_challenge(r)
  BY <1>1, <1>13 DEF consume_challenge
<1> QED
  BY <1>2, <1>3, <1>4, <1>5, <1>6, <1>7, <1>8, <1>9, <1>10, <1>11, <1>12, <1>13 DEF Route

\* A key that is put is kept for TTL, and no other key moves.
LEMMA PutKey ==
  ASSUME NEW s \in DOMAIN store, NEW k, put(s, k)
  PROVE  /\ DOMAIN store' = DOMAIN store
         /\ \A t \in DOMAIN store \ {s} : store'[t] = store[t]
         /\ DOMAIN store'[s] = DOMAIN store[s] \cup {k}
         /\ store'[s][k] = now + TTL
         /\ \A x \in DOMAIN store[s] \ {k} : store'[s][x] = store[s][x]
BY DEF put, expires_at

----------------------------------------------------------------------------
\* The steps of the buyer, of the processes and of the clock.

\* A request that arrives is of a signed payment, and had no result before.
LEMMA ArriveMoves ==
  ASSUME ServeTypeOK, NEW r \in Request, NEW p \in Payment, NEW s \in Process, arrive(r, p, s)
  PROVE  /\ req' \in [Request -> RequestRecord]
         /\ \A q \in Request \ {r} : req'[q] = req[q]
         /\ at(r, "idle") /\ req'[r].pc \in {"checking", "refused"}
         /\ payment(r)' = p /\ p \in DOMAIN window /\ req'[r].process = s
         /\ ~req'[r].result /\ (req'[r].replay => served(p) # {})
         /\ UNCHANGED <<now, window, executed, store>>
<1> DEFINE new == [pc |-> IF p \in Fitting THEN "checking" ELSE "refused",
                   payment |-> p, process |-> s, tries |-> 0,
                   result |-> FALSE, replay |-> served(p) # {}]
<1>1. new \in RequestRecord
  BY DEF RequestRecord, PC, InFlight, Answers
<1>2. req' = [req EXCEPT ![r] = new]
  BY DEF arrive
<1> HIDE DEF new
<1>3. req'[r] = new /\ req' \in [Request -> RequestRecord]
  BY <1>1, <1>2 DEF ServeTypeOK
<1>4. /\ new.pc \in {"checking", "refused"} /\ new.payment = p /\ new.process = s
      /\ ~new.result /\ (new.replay => served(p) # {})
  BY DEF new
<1> QED
  BY <1>2, <1>3, <1>4 DEF arrive, ServeTypeOK, payment

\* A restart cuts requests off and empties a store in memory.
LEMMA RestartMoves ==
  ASSUME ServeTypeOK, NEW s \in Process, restart(s)
  PROVE  /\ req' \in [Request -> RequestRecord]
         /\ \A r \in Request :
              /\ \/ req'[r].pc = req[r].pc
                 \/ req[r].pc \in InFlight /\ req'[r].pc = "lost"
              /\ payment(r)' = payment(r) /\ req'[r].process = req[r].process
              /\ req'[r].result = req[r].result /\ req'[r].replay = req[r].replay
         /\ DOMAIN store' = Store
         /\ \A t \in Store : \/ store'[t] = store[t]
                             \/ Volatile /\ store'[t] = [k \in {} |-> 0]
         /\ UNCHANGED <<now, window, executed>>
<1>0. req \in [Request -> RequestRecord]
  BY DEF ServeTypeOK
<1>1. req' = [r \in Request |-> IF req[r].pc \in InFlight /\ req[r].process = s
                                  THEN [req[r] EXCEPT !.pc = "lost"] ELSE req[r]]
  BY DEF restart
<1>2. \A r \in Request :
        /\ [req[r] EXCEPT !.pc = "lost"] \in RequestRecord
        /\ [req[r] EXCEPT !.pc = "lost"].pc = "lost"
        /\ [req[r] EXCEPT !.pc = "lost"].payment = req[r].payment
        /\ [req[r] EXCEPT !.pc = "lost"].process = req[r].process
        /\ [req[r] EXCEPT !.pc = "lost"].result = req[r].result
        /\ [req[r] EXCEPT !.pc = "lost"].replay = req[r].replay
  BY <1>0 DEF RequestRecord, PC, InFlight, Answers
<1>3. /\ req' \in [Request -> RequestRecord]
      /\ \A r \in Request :
           /\ \/ req'[r].pc = req[r].pc
              \/ req[r].pc \in InFlight /\ req'[r].pc = "lost"
           /\ payment(r)' = payment(r) /\ req'[r].process = req[r].process
           /\ req'[r].result = req[r].result /\ req'[r].replay = req[r].replay
  BY <1>0, <1>1, <1>2 DEF payment
<1>4. /\ DOMAIN store' = Store
      /\ \A t \in Store : \/ store'[t] = store[t]
                          \/ Volatile /\ store'[t] = [k \in {} |-> 0]
  BY DEF restart, ServeTypeOK
<1> QED
  BY <1>3, <1>4 DEF restart

----------------------------------------------------------------------------
\* What every store, faulty or not, guarantees.

LEMMA RouteTyped ==
  ASSUME ServeTypeOK, NEW r \in Request, OneMoves(r), Effects(r)
  PROVE  ServeTypeOK'
<1>1. /\ ~at(r, "idle") /\ payment(r) \in DOMAIN window /\ payment(r) \in Payment
      /\ req[r].process \in Process /\ storeAt(r) \in Store /\ challengeOf[payment(r)] \in Challenge
  BY ServeAssumption DEF ServeTypeOK, OneMoves, Edge, at, storeAt
<1>2. executed' \subseteq Accepted
  BY DEF ServeTypeOK, Effects, can_execute
<1>3. ASSUME NEW k \in Key, put(storeAt(r), k)
      PROVE  /\ DOMAIN store' = Store
             /\ \A s \in Store : /\ DOMAIN store'[s] \subseteq Key
                                 /\ \A x \in DOMAIN store'[s] : store'[s][x] \in Nat
  <2>1. /\ DOMAIN store' = DOMAIN store
        /\ \A t \in DOMAIN store \ {storeAt(r)} : store'[t] = store[t]
        /\ DOMAIN store'[storeAt(r)] = DOMAIN store[storeAt(r)] \cup {k}
        /\ store'[storeAt(r)][k] = now + TTL
        /\ \A x \in DOMAIN store[storeAt(r)] \ {k} : store'[storeAt(r)][x] = store[storeAt(r)][x]
    BY <1>1, <1>3, PutKey DEF ServeTypeOK
  <2>2. now + TTL \in Nat
    BY ServeAssumption DEF ServeTypeOK
  <2> QED
    BY <1>1, <1>3, <2>1, <2>2 DEF ServeTypeOK
<1>4. /\ DOMAIN store' = Store
      /\ \A s \in Store : /\ DOMAIN store'[s] \subseteq Key
                          /\ \A x \in DOMAIN store'[s] : store'[s][x] \in Nat
  BY <1>1, <1>3 DEF ServeTypeOK, Effects, Key
<1>5. \A q \in Request : ~at(q, "idle")' => /\ payment(q)' \in DOMAIN window
                                            /\ req'[q].process \in Process
  BY <1>1 DEF ServeTypeOK, OneMoves, at, payment
<1> QED
  BY <1>2, <1>4, <1>5 DEF ServeTypeOK, OneMoves

LEMMA RouteKeepsPaid ==
  ASSUME ServeTypeOK, PaidInv, NEW r \in Request, OneMoves(r), Effects(r)
  PROVE  PaidInv'
<1>1. executed \subseteq executed'
  BY DEF Effects
<1>2. \A q \in Request \ {r} :
        /\ req'[q].pc \in {"confirming", "recording", "consuming", "served"} => payment(q)' \in executed'
        /\ req'[q].pc \in {"recording", "consuming", "served"} => pays[payment(q)'] >= PRICE
  BY <1>1 DEF PaidInv, OneMoves, payment
<1>3. /\ req'[r].pc \in {"confirming", "recording", "consuming", "served"} => payment(r)' \in executed'
      /\ req'[r].pc \in {"recording", "consuming", "served"} => pays[payment(r)'] >= PRICE
  BY <1>1 DEF PaidInv, OneMoves, Edge, Effects
<1> QED
  BY <1>2, <1>3 DEF PaidInv

LEMMA RouteKeepsResults ==
  ASSUME ServeTypeOK, ResultInv, NEW r \in Request, OneMoves(r), Effects(r)
  PROVE  ResultInv'
<1>1. \A q \in Request :
        /\ at(q, "idle")' => ~req'[q].result
        /\ req'[q].pc \in {"settling", "confirming", "recording", "consuming", "served"}
             => req'[q].result
  BY DEF ResultInv, OneMoves, Edge, at
<1>2. \A q \in Request : payment(q)' = payment(q) /\ (req[q].result => req'[q].result)
  BY DEF OneMoves, payment
<1>3. ASSUME NEW p \in executed' \ executed PROVE p = payment(r) /\ req[r].result
  BY <1>3 DEF Effects, ResultInv, at
<1>4. ChargedOnlyForResults'
  BY <1>2, <1>3 DEF ResultInv, ChargedOnlyForResults
<1> QED
  BY <1>1, <1>4 DEF ResultInv

LEMMA ArriveKeeps ==
  ASSUME ServeInv, NEW r \in Request, NEW p \in Payment, NEW s \in Process, arrive(r, p, s)
  PROVE  ServeInv'
<1>1. ServeTypeOK /\ PaidInv /\ ResultInv
  BY DEF ServeInv
<1>2. /\ req' \in [Request -> RequestRecord]
      /\ \A q \in Request \ {r} : req'[q] = req[q]
      /\ at(r, "idle") /\ req'[r].pc \in {"checking", "refused"}
      /\ payment(r)' = p /\ p \in DOMAIN window /\ req'[r].process = s
      /\ ~req'[r].result
      /\ UNCHANGED <<now, window, executed, store>>
  BY <1>1, ArriveMoves
<1>3. ServeTypeOK'
  BY <1>1, <1>2 DEF ServeTypeOK, at, payment
<1>4. PaidInv'
  BY <1>1, <1>2 DEF PaidInv, payment
<1>5. \A q \in Request :
        /\ at(q, "idle")' => ~req'[q].result
        /\ req'[q].pc \in {"settling", "confirming", "recording", "consuming", "served"}
             => req'[q].result
  BY <1>1, <1>2 DEF ResultInv, at
<1>6. ChargedOnlyForResults'
  <2> SUFFICES ASSUME NEW x \in executed
               PROVE  \E q \in Request : payment(q)' = x /\ req'[q].result
    BY <1>2 DEF ChargedOnlyForResults
  <2>1. PICK q \in Request : payment(q) = x /\ req[q].result
    BY <1>1 DEF ResultInv, ChargedOnlyForResults
  <2>2. q # r
    BY <1>1, <1>2, <2>1 DEF ResultInv
  <2> QED
    BY <1>2, <2>1, <2>2 DEF payment
<1> QED
  BY <1>3, <1>4, <1>5, <1>6 DEF ServeInv, ResultInv

LEMMA RestartKeeps ==
  ASSUME ServeInv, NEW s \in Process, restart(s)
  PROVE  ServeInv'
<1>1. ServeTypeOK /\ PaidInv /\ ResultInv
  BY DEF ServeInv
<1>2. /\ req' \in [Request -> RequestRecord]
      /\ \A r \in Request :
           /\ \/ req'[r].pc = req[r].pc
              \/ req[r].pc \in InFlight /\ req'[r].pc = "lost"
           /\ payment(r)' = payment(r) /\ req'[r].process = req[r].process
           /\ req'[r].result = req[r].result
      /\ DOMAIN store' = Store
      /\ \A t \in Store : store'[t] = store[t] \/ store'[t] = [k \in {} |-> 0]
      /\ UNCHANGED <<now, window, executed>>
  BY <1>1, RestartMoves
<1>3. ServeTypeOK'
  <2>1. \A t \in Store : /\ DOMAIN store'[t] \subseteq Key
                         /\ \A k \in DOMAIN store'[t] : store'[t][k] \in Nat
    BY <1>1, <1>2 DEF ServeTypeOK
  <2>2. \A r \in Request : ~at(r, "idle")' => /\ payment(r)' \in DOMAIN window
                                              /\ req'[r].process \in Process
    BY <1>1, <1>2 DEF ServeTypeOK, at, InFlight
  <2> QED
    BY <1>1, <1>2, <2>1, <2>2 DEF ServeTypeOK
<1>4. PaidInv'
  BY <1>1, <1>2 DEF PaidInv
<1>5. ResultInv'
  BY <1>1, <1>2 DEF ResultInv, ChargedOnlyForResults, at
<1> QED
  BY <1>3, <1>4, <1>5 DEF ServeInv

LEMMA SignKeeps ==
  ASSUME ServeInv, NEW p \in Payment, sign(p)
  PROVE  /\ ServeInv'
         /\ \A q \in DOMAIN window : q \in DOMAIN window' /\ window'[q] = window[q]
<1>1. p \notin DOMAIN window /\ UNCHANGED <<now, executed, store, req>>
  BY DEF sign
<1>2. PICK e \in Nat :
        window' = [x \in DOMAIN window \cup {p} |-> IF x = p THEN e ELSE window[x]]
  BY DEF sign
<1>3. ServeTypeOK'
  BY <1>1, <1>2 DEF ServeInv, ServeTypeOK, at, payment
<1> QED
  BY <1>1, <1>2, <1>3 DEF ServeInv, PaidInv, ResultInv, ChargedOnlyForResults, at, payment

\* One inductive invariant for every server, of one process or of many, with
\* any store: types, what the place of a request says of its payment, and the
\* result behind every charge.
THEOREM ServeInductive == ServeSpec => []ServeInv
<1>1. ServeInit => ServeInv
  BY DEF ServeInit, ServeInv, ServeTypeOK, PaidInv, ResultInv, ChargedOnlyForResults,
         RequestRecord, NoRequest, PC, at
<1>2. ServeInv /\ [ServeNext]_serveVars => ServeInv'
  <2> SUFFICES ASSUME ServeInv, [ServeNext]_serveVars PROVE ServeInv'
    OBVIOUS
  <2>1. ASSUME NEW p \in Payment, sign(p) PROVE ServeInv'
    BY <2>1, SignKeeps
  <2>2. ASSUME NEW r \in Request, NEW p \in Payment, NEW s \in Process, arrive(r, p, s)
        PROVE  ServeInv'
    BY <2>2, ArriveKeeps
  <2>3. ASSUME NEW r \in Request, Route(r) PROVE ServeInv'
    BY <2>3, RouteMoves, RouteEffects, RouteTyped, RouteKeepsPaid, RouteKeepsResults DEF ServeInv
  <2>4. CASE tick
    BY <2>4 DEF tick, ServeInv, ServeTypeOK, PaidInv, ResultInv, ChargedOnlyForResults, at, payment
  <2>5. ASSUME NEW s \in Process, restart(s) PROVE ServeInv'
    BY <2>5, RestartKeeps
  <2>6. CASE UNCHANGED serveVars
    BY <2>6 DEF serveVars, ServeInv, ServeTypeOK, PaidInv, ResultInv, ChargedOnlyForResults,
                at, payment
  <2> QED
    BY <2>1, <2>2, <2>3, <2>4, <2>5, <2>6, ServeIsRoute DEF ServeNext, SteadyNext
<1> QED
  BY <1>1, <1>2, PTL DEF ServeSpec

\* A 200 means that the payment is on the chain and covers the price, whatever
\* fails, restarts or overlaps, and with any store.
THEOREM NothingServedUnpaid == ServeSpec => []ServedOnlyIfPaid
<1>1. ServeInv => ServedOnlyIfPaid
  BY DEF ServeInv, PaidInv, ServedOnlyIfPaid, served, at
<1> QED
  BY <1>1, ServeInductive, PTL

\* A payment is on the chain only if the handler returned a result for it,
\* whatever was retried, lost or duplicated.
THEOREM NothingChargedForNothing == ServeSpec => []ChargedOnlyForResults
<1>1. ServeInv => ChargedOnlyForResults
  BY DEF ServeInv, ResultInv
<1> QED
  BY <1>1, ServeInductive, PTL

----------------------------------------------------------------------------
(***************************************************************************)
(* Serving once.  A payment may be submitted again for as long as the chain *)
(* confirms it, which is to the end of the epoch after its first: at most   *)
(* 2 * EPOCH - 1 ticks after it was recorded.  A store that all processes   *)
(* share, that outlives them and keeps a key that long makes every copy     *)
(* after the first fail at SET NX.                                          *)
(***************************************************************************)

SharedStore == \A s, t \in Process : storeOf[s] = storeOf[t]

RemembersLongEnough ==
  /\ SharedStore /\ SetIfAbsent /\ ~Volatile
  /\ TTL + 1 >= 2 * EPOCH

\* The first instant at which the chain no longer confirms a payment.
Ends(p) == (window[p] + 2) * EPOCH

\* The store will refuse the payment for as long as the chain confirms it.
Remembered(s, p) == p \in DOMAIN store[s] /\ store[s][p] + 1 >= Ends(p)

Recorded == {"consuming", "served"}

\* What follows the submission happens inside the payment's window; what was
\* recorded is remembered and was recorded once; and behind a request that
\* arrived after its payment was served there is the one that was served.
OnceInv ==
  /\ \A r \in Request :
       /\ req[r].pc \in {"confirming", "recording", "consuming"} => in_window(payment(r))
       /\ req[r].pc \in Recorded => Remembered(storeAt(r), payment(r))
       /\ req[r].replay =>
            \E q \in Request \ {r} : at(q, "served") /\ payment(q) = payment(r)
  /\ \A q, r \in Request :
       req[q].pc \in Recorded /\ req[r].pc \in Recorded /\ payment(q) = payment(r) => q = r

\* Division by the length of an epoch.
LEMMA EpochBounds ==
  ASSUME now \in Nat
  PROVE  /\ epoch \in Nat
         /\ epoch * EPOCH <= now /\ now < (epoch + 1) * EPOCH
<1>1. EPOCH \in Nat /\ EPOCH > 0
  BY ServeAssumption
<1>2. /\ now \div EPOCH \in Nat
      /\ (now \div EPOCH) * EPOCH <= now /\ now < ((now \div EPOCH) + 1) * EPOCH
  BY <1>1
<1> QED
  BY <1>2 DEF epoch

LEMMA WindowBounds ==
  ASSUME now \in Nat, NEW p, window[p] \in Nat, in_window(p)
  PROVE  /\ Ends(p) \in Nat
         /\ now < Ends(p) /\ Ends(p) <= now + 2 * EPOCH
<1> DEFINE e == epoch
           w == window[p]
<1>1. EPOCH \in Nat /\ EPOCH > 0
  BY ServeAssumption
<1>2. e \in Nat /\ e * EPOCH <= now /\ now < (e + 1) * EPOCH
  BY EpochBounds
<1>3. w \in Nat /\ (e = w \/ e = w + 1)
  BY <1>2 DEF in_window
<1> HIDE DEF e, w
<1>4. /\ (w + 2) * EPOCH = w * EPOCH + 2 * EPOCH /\ (w + 1) * EPOCH = w * EPOCH + EPOCH
      /\ w * EPOCH \in Nat
  BY <1>1, <1>3
<1>5. (w + 2) * EPOCH \in Nat /\ now < (w + 2) * EPOCH /\ (w + 2) * EPOCH <= now + 2 * EPOCH
  <2>1. CASE e = w
    BY <1>1, <1>2, <1>3, <1>4, <2>1
  <2>2. CASE e = w + 1
    <3>1. (e + 1) * EPOCH = (w + 2) * EPOCH
      BY <1>3, <2>2
    <3>2. e * EPOCH = w * EPOCH + EPOCH
      BY <1>4, <2>2
    <3> QED
      BY <1>1, <1>2, <1>4, <3>1, <3>2
  <2> QED
    BY <1>3, <2>1, <2>2
<1> QED
  BY <1>5 DEF w, Ends

\* A key that is put for a payment outlives the payment; one that is there is
\* seen for as long as the payment lives.
LEMMA PutRemembers ==
  ASSUME ServeTypeOK, RemembersLongEnough, NEW s \in Store, NEW p \in DOMAIN window,
         in_window(p), put(s, p), UNCHANGED window
  PROVE  Remembered(s, p)'
<1>1. now \in Nat /\ window[p] \in Nat /\ s \in DOMAIN store
  BY DEF ServeTypeOK
<1>2. Ends(p) \in Nat /\ Ends(p) <= now + 2 * EPOCH
  BY <1>1, WindowBounds
<1>3. p \in DOMAIN store'[s] /\ store'[s][p] = now + TTL
  BY <1>1, PutKey
<1>4. Ends(p)' = Ends(p)
  BY DEF Ends
<1>5. now + TTL + 1 >= now + 2 * EPOCH
  BY <1>1, ServeAssumption DEF RemembersLongEnough
<1> QED
  BY <1>1, <1>2, <1>3, <1>4, <1>5, ServeAssumption DEF Remembered

LEMMA RememberedIsSeen ==
  ASSUME ServeTypeOK, NEW s \in Store, NEW p \in DOMAIN window,
         in_window(p), Remembered(s, p)
  PROVE  seen(s, p)
<1>1. now \in Nat /\ window[p] \in Nat /\ store[s][p] \in Nat
  BY DEF ServeTypeOK, Remembered
<1>2. Ends(p) \in Nat /\ now < Ends(p)
  BY <1>1, WindowBounds
<1> QED
  BY <1>1, <1>2 DEF Remembered, seen

\* A step of another request, or of the same, leaves a payment remembered.
LEMMA RouteRemembers ==
  ASSUME ServeTypeOK, OnceInv, RemembersLongEnough,
         NEW r \in Request, OneMoves(r), Effects(r),
         NEW s \in Store, NEW p \in DOMAIN window, Remembered(s, p)
  PROVE  Remembered(s, p)'
<1>1. /\ payment(r) \in DOMAIN window /\ payment(r) \in Payment /\ p \in Payment
      /\ storeAt(r) \in Store /\ challengeOf[payment(r)] \in Challenge
      /\ UNCHANGED window /\ Ends(p)' = Ends(p)
  BY ServeAssumption DEF ServeTypeOK, OneMoves, Edge, at, storeAt, Ends
<1>2. ASSUME NEW k \in Key \ {p}, put(storeAt(r), k)
      PROVE  p \in DOMAIN store'[s] /\ store'[s][p] = store[s][p]
  BY <1>1, <1>2, PutKey DEF Remembered, ServeTypeOK
<1>3. CASE UNCHANGED store
  BY <1>1, <1>3 DEF Remembered
<1>4. CASE at(r, "recording") /\ put(storeAt(r), payment(r))
  <2>1. in_window(payment(r))
    BY <1>4 DEF OnceInv, at
  <2>2. CASE payment(r) = p /\ storeAt(r) = s
    BY <1>1, <1>4, <2>1, <2>2, PutRemembers
  <2>3. CASE payment(r) # p
    BY <1>1, <1>2, <1>4, <2>3 DEF Remembered, Key
  <2>4. CASE storeAt(r) # s
    <3>1. store'[s] = store[s]
      BY <1>1, <1>4, <2>4, PutKey DEF ServeTypeOK
    <3> QED
      BY <1>1, <3>1 DEF Remembered
  <2> QED
    BY <2>2, <2>3, <2>4
<1>5. CASE put(storeAt(r), challengeOf[payment(r)])
  <2>1. challengeOf[payment(r)] \in Key \ {p}
    BY <1>1, ServeAssumption DEF Key
  <2> QED
    BY <1>1, <1>2, <1>5, <2>1 DEF Remembered
<1> QED
  BY <1>3, <1>4, <1>5 DEF Effects

LEMMA RouteKeepsOnce ==
  ASSUME ServeTypeOK, OnceInv, RemembersLongEnough, NEW r \in Request, OneMoves(r), Effects(r)
  PROVE  OnceInv'
<1>1. /\ payment(r) \in DOMAIN window /\ req[r].process \in Process /\ storeAt(r) \in Store
      /\ UNCHANGED <<now, window>>
      /\ \A q \in Request : payment(q)' = payment(q) /\ req'[q].process = req[q].process
                            /\ req'[q].replay = req[q].replay
                            /\ (req[q].pc = "served" => req'[q].pc = "served")
                            /\ (req'[q].pc = "idle" <=> req[q].pc = "idle")
  BY ServeAssumption DEF ServeTypeOK, OneMoves, Edge, at, storeAt, payment
<1>2. ASSUME NEW q \in Request, req'[q].pc \in {"confirming", "recording", "consuming"}
      PROVE  in_window(payment(q))'
  <2>1. in_window(payment(q))
    BY <1>2 DEF OnceInv, OneMoves, Edge, Effects
  <2> QED
    BY <1>1, <2>1 DEF in_window, epoch
<1>3. ASSUME NEW q \in Request, req'[q].pc \in Recorded
      PROVE  Remembered(storeAt(q), payment(q))'
  <2>0. /\ req[q].pc # "idle" /\ payment(q) \in DOMAIN window /\ storeAt(q) \in Store
        /\ storeAt(q)' = storeAt(q)
    BY <1>1, <1>3, ServeAssumption DEF Recorded, ServeTypeOK, at, storeAt
  <2>1. CASE req[q].pc \in Recorded
    <3>1. Remembered(storeAt(q), payment(q))
      BY <2>1 DEF OnceInv
    <3> QED
      BY <1>1, <2>0, <3>1, RouteRemembers
  <2>2. CASE req[q].pc \notin Recorded
    <3>1. q = r /\ req'[q].pc = "consuming"
      BY <1>3, <2>2 DEF OneMoves, Edge, Recorded
    <3>2. in_window(payment(r)) /\ put(storeAt(r), payment(r))
      BY <3>1 DEF OnceInv, OneMoves, Edge, Effects
    <3> QED
      BY <1>1, <2>0, <3>1, <3>2, PutRemembers
  <2> QED
    BY <2>1, <2>2
<1>4. ASSUME NEW q \in Request, req'[q].replay
      PROVE  \E o \in Request \ {q} : at(o, "served")' /\ payment(o)' = payment(q)'
  BY <1>1, <1>4 DEF OnceInv, at
<1>5. ASSUME NEW q \in Request \ {r}, req[q].pc \in Recorded, req'[r].pc \in Recorded,
             payment(q) = payment(r)
      PROVE  FALSE
  <2>1. req[r].pc \notin Recorded
    BY <1>5 DEF OnceInv
  <2>2. req'[r].pc = "consuming" /\ req[r].pc = "recording"
    BY <1>5, <2>1 DEF OneMoves, Edge, Recorded
  <2>3. in_window(payment(r)) /\ ~set_refused(storeAt(r), payment(r))
    BY <2>2 DEF OnceInv, Effects
  <2>4. storeAt(q) = storeAt(r)
    BY <1>1, <1>5 DEF RemembersLongEnough, SharedStore, storeAt, Recorded, ServeTypeOK, at
  <2>5. Remembered(storeAt(r), payment(r))
    BY <1>5, <2>4 DEF OnceInv
  <2>6. seen(storeAt(r), payment(r))
    BY <1>1, <2>3, <2>5, RememberedIsSeen
  <2> QED
    BY <2>3, <2>6 DEF set_refused, RemembersLongEnough
<1>6. ASSUME NEW q \in Request, NEW o \in Request, q # o,
             req'[q].pc \in Recorded, req'[o].pc \in Recorded, payment(q)' = payment(o)'
      PROVE  FALSE
  <2>1. CASE q # r /\ o # r
    BY <1>1, <1>6, <2>1 DEF OnceInv, OneMoves
  <2>2. CASE q = r
    BY <1>1, <1>5, <1>6, <2>2 DEF OneMoves
  <2>3. CASE o = r
    BY <1>1, <1>5, <1>6, <2>3 DEF OneMoves
  <2> QED
    BY <2>1, <2>2, <2>3
<1> QED
  BY <1>2, <1>3, <1>4, <1>6 DEF OnceInv

LEMMA ArriveKeepsOnce ==
  ASSUME ServeTypeOK, OnceInv, NEW r \in Request, NEW p \in Payment, NEW s \in Process,
         arrive(r, p, s)
  PROVE  OnceInv'
<1>1. /\ \A q \in Request \ {r} : req'[q] = req[q]
      /\ at(r, "idle") /\ req'[r].pc \in {"checking", "refused"}
      /\ payment(r)' = p /\ (req'[r].replay => served(p) # {})
      /\ UNCHANGED <<now, window, executed, store>>
  BY ArriveMoves
<1>2. \A q \in Request \ {r} : payment(q)' = payment(q) /\ storeAt(q)' = storeAt(q)
  BY <1>1 DEF payment, storeAt
<1>3. ASSUME NEW q \in Request
      PROVE  /\ req'[q].pc \in {"confirming", "recording", "consuming"} => in_window(payment(q))'
             /\ req'[q].pc \in Recorded => Remembered(storeAt(q), payment(q))'
  BY <1>1, <1>2 DEF OnceInv, Recorded, in_window, epoch, Remembered, Ends
<1>4. ASSUME NEW q \in Request, req'[q].replay
      PROVE  \E o \in Request \ {q} : at(o, "served")' /\ payment(o)' = payment(q)'
  <2>1. PICK o \in Request \ {q} :
          at(o, "served") /\ payment(o) = IF q = r THEN p ELSE payment(q)
    BY <1>1, <1>4 DEF OnceInv, served, at
  <2>2. o # r
    BY <1>1, <2>1 DEF at
  <2> QED
    BY <1>1, <1>2, <2>1, <2>2 DEF at
<1>5. \A q, o \in Request :
        req'[q].pc \in Recorded /\ req'[o].pc \in Recorded /\ payment(q)' = payment(o)' => q = o
  BY <1>1, <1>2 DEF OnceInv, Recorded
<1> QED
  BY <1>3, <1>4, <1>5 DEF OnceInv

LEMMA RestartKeepsOnce ==
  ASSUME ServeTypeOK, OnceInv, RemembersLongEnough, NEW s \in Process, restart(s)
  PROVE  OnceInv'
<1>1. /\ \A r \in Request :
           /\ \/ req'[r].pc = req[r].pc
              \/ req[r].pc \in InFlight /\ req'[r].pc = "lost"
           /\ payment(r)' = payment(r) /\ req'[r].process = req[r].process
           /\ req'[r].replay = req[r].replay
      /\ UNCHANGED <<now, window, store>>
  BY RestartMoves DEF RemembersLongEnough, restart
<1>2. \A r \in Request : storeAt(r)' = storeAt(r)
  BY <1>1 DEF storeAt
<1>3. ASSUME NEW q \in Request
      PROVE  /\ req'[q].pc \in {"confirming", "recording", "consuming"} => in_window(payment(q))'
             /\ req'[q].pc \in Recorded => Remembered(storeAt(q), payment(q))'
  BY <1>1, <1>2 DEF OnceInv, Recorded, in_window, epoch, Remembered, Ends
<1>4. ASSUME NEW q \in Request, req'[q].replay
      PROVE  \E o \in Request \ {q} : at(o, "served")' /\ payment(o)' = payment(q)'
  BY <1>1, <1>4 DEF OnceInv, at, InFlight
<1>5. \A q, o \in Request :
        req'[q].pc \in Recorded /\ req'[o].pc \in Recorded /\ payment(q)' = payment(o)' => q = o
  BY <1>1 DEF OnceInv, Recorded
<1> QED
  BY <1>3, <1>4, <1>5 DEF OnceInv

LEMMA SignKeepsOnce ==
  ASSUME ServeInv, OnceInv, NEW p \in Payment, sign(p)
  PROVE  OnceInv'
<1>1. /\ UNCHANGED <<now, store, req>>
      /\ \A q \in DOMAIN window : q \in DOMAIN window' /\ window'[q] = window[q]
  BY SignKeeps DEF sign
<1>2. \A r \in Request : ~at(r, "idle") => payment(r) \in DOMAIN window
  BY DEF ServeInv, ServeTypeOK
<1>3. \A r \in Request : payment(r)' = payment(r) /\ storeAt(r)' = storeAt(r)
  BY <1>1 DEF payment, storeAt
<1>4. ASSUME NEW r \in Request
      PROVE  /\ req'[r].pc \in {"confirming", "recording", "consuming"} => in_window(payment(r))'
             /\ req'[r].pc \in Recorded => Remembered(storeAt(r), payment(r))'
  BY <1>1, <1>2, <1>3 DEF OnceInv, Recorded, in_window, epoch, Remembered, Ends, at
<1> QED
  BY <1>1, <1>3, <1>4 DEF OnceInv, at

\* The inductive invariant behind serving once.
THEOREM OnceInductive ==
  ASSUME RemembersLongEnough
  PROVE  ServeSpec => []OnceInv
<1>1. ServeInit => OnceInv
  BY DEF ServeInit, OnceInv, NoRequest, Recorded
<1>2. ServeInv /\ OnceInv /\ [ServeNext]_serveVars => OnceInv'
  <2> SUFFICES ASSUME ServeInv, OnceInv, [ServeNext]_serveVars PROVE OnceInv'
    OBVIOUS
  <2>0. ServeTypeOK
    BY DEF ServeInv
  <2>1. ASSUME NEW p \in Payment, sign(p) PROVE OnceInv'
    BY <2>1, SignKeepsOnce
  <2>2. ASSUME NEW r \in Request, NEW p \in Payment, NEW s \in Process, arrive(r, p, s)
        PROVE  OnceInv'
    BY <2>0, <2>2, ArriveKeepsOnce
  <2>3. ASSUME NEW r \in Request, Route(r) PROVE OnceInv'
    BY <2>0, <2>3, RouteMoves, RouteEffects, RouteKeepsOnce
  <2>4. CASE tick
    <3>1. /\ UNCHANGED <<window, executed, store, req>>
          /\ \A r \in Request : req[r].pc \notin {"confirming", "recording", "consuming"}
      BY <2>4 DEF tick
    <3> QED
      BY <3>1 DEF OnceInv, Remembered, Ends, at, payment, storeAt
  <2>5. ASSUME NEW s \in Process, restart(s) PROVE OnceInv'
    BY <2>0, <2>5, RestartKeepsOnce
  <2>6. CASE UNCHANGED serveVars
    BY <2>6 DEF serveVars, OnceInv, in_window, epoch, Remembered, Ends, at, payment, storeAt
  <2> QED
    BY <2>1, <2>2, <2>3, <2>4, <2>5, <2>6, ServeIsRoute DEF ServeNext, SteadyNext
<1> QED
  BY <1>1, <1>2, ServeInductive, PTL DEF ServeSpec

\* However many copies of a payment arrive, at however many processes, and
\* whatever the store loses, delays or answers twice, at most one is served -
\* given a shared store with SET NX that outlives the processes and remembers a
\* digest to the end of the payment's two epochs.
THEOREM PaymentServedOnce ==
  ASSUME RemembersLongEnough
  PROVE  ServeSpec => []ServedOnce
<1>1. OnceInv => ServedOnce
  <2> SUFFICES ASSUME OnceInv, NEW p \in Payment PROVE Cardinality(served(p)) <= 1
    BY DEF ServedOnce
  <2>1. CASE served(p) = {}
    BY <2>1, FS_EmptySet
  <2>2. CASE served(p) # {}
    <3>1. PICK r : r \in served(p)
      BY <2>2
    <3>2. \A q \in served(p) : q = r
      BY <3>1 DEF OnceInv, served, Recorded, at
    <3>3. served(p) = {r}
      BY <3>1, <3>2
    <3>4. Cardinality(served(p)) = 1
      BY <3>3, FS_Singleton
    <3> QED
      BY <3>4
  <2> QED
    BY <2>1, <2>2
<1> QED
  BY <1>1, OnceInductive, PTL

\* A copy that arrives after the payment was served is never served, under the
\* same conditions: what the in-memory default lacks is only the time it
\* remembers and the restart it does not outlive.
THEOREM ReplayIsRefused ==
  ASSUME RemembersLongEnough
  PROVE  ServeSpec => []ReplayNeverServed
<1>1. OnceInv => ReplayNeverServed
  BY DEF OnceInv, ReplayNeverServed, Recorded, at
<1> QED
  BY <1>1, OnceInductive, PTL

----------------------------------------------------------------------------
(***************************************************************************)
(* Staying servable.  A key is in a store because of a request that was     *)
(* served, is about to be, or was cut off.  A buyer who pays each challenge *)
(* once can therefore send a payment again until it is answered.            *)
(***************************************************************************)

\* No two payments that the chain would take in full answer one challenge.
ChallengesPaidOnce ==
  \A p, q \in Accepted :
    pays[p] >= PRICE /\ pays[q] >= PRICE /\ challengeOf[p] = challengeOf[q] => p = q

\* A request that was served, is about to be, or was cut off.
Behind(r) == at(r, "served") \/ at(r, "consuming") \/ cut_off(r)

KeysInv ==
  \A s \in Store : \A k \in DOMAIN store[s] :
    /\ k \in Payment => \E r \in Request : payment(r) = k /\ Behind(r)
    /\ k \in Challenge =>
         \E r \in Request : at(r, "served") /\ challengeOf[payment(r)] = k

\* A request behind a key stays behind it.
LEMMA RouteStaysBehind ==
  ASSUME ResultInv, NEW r \in Request, OneMoves(r), NEW q \in Request
  PROVE  /\ Behind(q) => Behind(q)'
         /\ at(q, "served") => at(q, "served")'
         /\ payment(q)' = payment(q)
BY DEF ResultInv, OneMoves, Edge, Behind, cut_off, at, payment

LEMMA RouteKeepsKeys ==
  ASSUME ServeTypeOK, ResultInv, KeysInv, NEW r \in Request, OneMoves(r), Effects(r)
  PROVE  KeysInv'
<1>1. /\ payment(r) \in Payment /\ storeAt(r) \in Store /\ storeAt(r) \in DOMAIN store
      /\ challengeOf[payment(r)] \in Challenge
      /\ DOMAIN store = Store
  BY ServeAssumption DEF ServeTypeOK, OneMoves, Edge, at, storeAt
<1>2. \A q \in Request : /\ Behind(q) => Behind(q)'
                         /\ at(q, "served") => at(q, "served")'
                         /\ payment(q)' = payment(q)
  BY RouteStaysBehind
<1>3. ASSUME NEW s \in Store, NEW k \in DOMAIN store[s]
      PROVE  /\ k \in Payment => \E q \in Request : payment(q)' = k /\ Behind(q)'
             /\ k \in Challenge =>
                  \E q \in Request : at(q, "served")' /\ challengeOf[payment(q)'] = k
  BY <1>2 DEF KeysInv
<1>4. CASE UNCHANGED store
  BY <1>3, <1>4 DEF KeysInv
<1>5. ASSUME NEW k, put(storeAt(r), k),
             /\ k \in Payment => \E q \in Request : payment(q)' = k /\ Behind(q)'
             /\ k \in Challenge =>
                  \E q \in Request : at(q, "served")' /\ challengeOf[payment(q)'] = k
      PROVE  KeysInv'
  <2>1. ASSUME NEW s \in Store, NEW x \in DOMAIN store'[s]
        PROVE  x \in DOMAIN store[s] \/ x = k
    BY <1>1, <1>5, <2>1, PutKey
  <2> QED
    BY <1>3, <1>5, <2>1 DEF KeysInv
<1>6. CASE /\ at(r, "recording") /\ req'[r].pc \in {"consuming", "failed"}
           /\ put(storeAt(r), payment(r))
  <2>1. req[r].result /\ req'[r].result
    BY <1>6 DEF ResultInv, OneMoves, at
  <2>2. Behind(r)' /\ payment(r)' = payment(r)
    BY <1>2, <1>6, <2>1 DEF Behind, cut_off, at
  <2>3. payment(r) \notin Challenge
    BY <1>1, ServeAssumption
  <2> QED
    BY <1>5, <1>6, <2>2, <2>3
<1>7. CASE req'[r].pc = "served" /\ put(storeAt(r), challengeOf[payment(r)])
  <2>1. challengeOf[payment(r)] \notin Payment
    BY <1>1, ServeAssumption
  <2>2. at(r, "served")' /\ payment(r)' = payment(r)
    BY <1>2, <1>7 DEF at
  <2> QED
    BY <1>5, <1>7, <2>1, <2>2
<1> QED
  BY <1>4, <1>6, <1>7 DEF Effects

LEMMA ArriveKeepsKeys ==
  ASSUME ServeTypeOK, ResultInv, KeysInv,
         NEW r \in Request, NEW p \in Payment, NEW s \in Process, arrive(r, p, s)
  PROVE  KeysInv'
<1>1. /\ \A q \in Request \ {r} : req'[q] = req[q]
      /\ at(r, "idle") /\ UNCHANGED store
  BY ArriveMoves
<1>2. ~Behind(r) /\ ~at(r, "served")
  BY <1>1 DEF Behind, cut_off, at
<1>3. \A q \in Request \ {r} : /\ payment(q)' = payment(q)
                               /\ Behind(q)' <=> Behind(q)
                               /\ at(q, "served")' <=> at(q, "served")
  BY <1>1 DEF payment, Behind, cut_off, at
<1>4. ASSUME NEW t \in Store, NEW k \in DOMAIN store[t]
      PROVE  /\ k \in Payment => \E q \in Request : payment(q)' = k /\ Behind(q)'
             /\ k \in Challenge =>
                  \E q \in Request : at(q, "served")' /\ challengeOf[payment(q)'] = k
  BY <1>2, <1>3 DEF KeysInv
<1> QED
  BY <1>1, <1>4 DEF KeysInv

LEMMA RestartKeepsKeys ==
  ASSUME ServeTypeOK, ResultInv, KeysInv, NEW s \in Process, restart(s)
  PROVE  KeysInv'
<1>1. /\ \A r \in Request :
           /\ \/ req'[r].pc = req[r].pc
              \/ req[r].pc \in InFlight /\ req'[r].pc = "lost"
           /\ payment(r)' = payment(r) /\ req'[r].result = req[r].result
      /\ \A t \in Store : store'[t] = store[t] \/ store'[t] = [k \in {} |-> 0]
  BY RestartMoves
<1>2. \A r \in Request : /\ Behind(r) => Behind(r)'
                         /\ at(r, "served") => at(r, "served")'
  BY <1>1 DEF ResultInv, Behind, cut_off, at, InFlight
<1>3. ASSUME NEW t \in Store, NEW k \in DOMAIN store'[t]
      PROVE  /\ k \in Payment => \E q \in Request : payment(q)' = k /\ Behind(q)'
             /\ k \in Challenge =>
                  \E q \in Request : at(q, "served")' /\ challengeOf[payment(q)'] = k
  <2>1. k \in DOMAIN store[t]
    BY <1>1, <1>3
  <2> QED
    BY <1>1, <1>2, <2>1 DEF KeysInv
<1> QED
  BY <1>3 DEF KeysInv

\* Every key of every store has its request, whatever the store forgets.
THEOREM KeysInductive == ServeSpec => []KeysInv
<1>1. ServeInit => KeysInv
  BY DEF ServeInit, KeysInv
<1>2. ServeInv /\ KeysInv /\ [ServeNext]_serveVars => KeysInv'
  <2> SUFFICES ASSUME ServeInv, KeysInv, [ServeNext]_serveVars PROVE KeysInv'
    OBVIOUS
  <2>0. ServeTypeOK /\ ResultInv
    BY DEF ServeInv
  <2>1. ASSUME NEW p \in Payment, sign(p) PROVE KeysInv'
    BY <2>1 DEF sign, KeysInv, Behind, cut_off, at, payment
  <2>2. ASSUME NEW r \in Request, NEW p \in Payment, NEW s \in Process, arrive(r, p, s)
        PROVE  KeysInv'
    BY <2>0, <2>2, ArriveKeepsKeys
  <2>3. ASSUME NEW r \in Request, Route(r) PROVE KeysInv'
    BY <2>0, <2>3, RouteMoves, RouteEffects, RouteKeepsKeys
  <2>4. CASE tick
    BY <2>4 DEF tick, KeysInv, Behind, cut_off, at, payment
  <2>5. ASSUME NEW s \in Process, restart(s) PROVE KeysInv'
    BY <2>0, <2>5, RestartKeepsKeys
  <2>6. CASE UNCHANGED serveVars
    BY <2>6 DEF serveVars, KeysInv, Behind, cut_off, at, payment
  <2> QED
    BY <2>1, <2>2, <2>3, <2>4, <2>5, <2>6, ServeIsRoute DEF ServeNext, SteadyNext
<1> QED
  BY <1>1, <1>2, ServeInductive, PTL DEF ServeSpec

\* "No charge on failure", over time: while no copy of a charged payment was
\* served, is about to be or was cut off, no store holds its digest or its
\* challenge, so sending it again is not refused - given that the buyer pays a
\* challenge in full only once.
THEOREM ChargeCanBeAnswered ==
  ASSUME ChallengesPaidOnce
  PROVE  ServeSpec => []ChargedStaysServable
<1>1. ServeInv /\ KeysInv => ChargedStaysServable
  <2> SUFFICES ASSUME ServeInv, KeysInv, NEW p \in executed, pays[p] >= PRICE,
                      \A r \in Request : ~(payment(r) = p /\ Behind(r)),
                      NEW s \in Process
               PROVE  ~seen(storeOf[s], p) /\ ~seen(storeOf[s], challengeOf[p])
    BY ServeAssumption DEF ChargedStaysServable, Behind, ServeInv, ServeTypeOK
  <2>1. p \in Accepted /\ p \in Payment /\ challengeOf[p] \in Challenge /\ storeOf[s] \in Store
    BY ServeAssumption DEF ServeInv, ServeTypeOK
  <2>2. ~seen(storeOf[s], p)
    BY <2>1 DEF KeysInv, seen
  <2>3. ASSUME seen(storeOf[s], challengeOf[p]) PROVE FALSE
    <3>1. PICK r \in Request : at(r, "served") /\ challengeOf[payment(r)] = challengeOf[p]
      BY <2>1, <2>3 DEF KeysInv, seen
    <3>2. payment(r) \in executed /\ payment(r) \in Accepted /\ pays[payment(r)] >= PRICE
      BY <3>1 DEF ServeInv, PaidInv, ServeTypeOK, at
    <3>3. payment(r) = p
      BY <2>1, <3>1, <3>2 DEF ChallengesPaidOnce
    <3> QED
      BY <3>1, <3>3 DEF Behind
  <2> QED
    BY <2>2, <2>3
<1> QED
  BY <1>1, ServeInductive, KeysInductive, PTL
=============================================================================
