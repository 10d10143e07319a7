----------------------------- MODULE JobPromise -----------------------------
(***************************************************************************)
(* What the escrow promises about the money of one Job after another, with *)
(* no word on who may do what when: an amount is locked once, stays locked *)
(* whole, and is paid out once, whole, between buyer, seller and protocol. *)
(* Escrow implements it (Escrow!KeepsPromise).                             *)
(***************************************************************************)
EXTENDS Money

CONSTANT Id         \* the names a Job can have

VARIABLE ledger     \* Id -> what was locked under that name, and what was paid

Nothing == [locked |-> 0, paid |-> NothingPaid]

PromiseInit == ledger = [j \in Id |-> Nothing]

Lock(j) ==
  /\ ledger[j] = Nothing
  /\ ledger'[j].locked \in Nat \ {0}
  /\ ledger' = [ledger EXCEPT ![j] =
                [locked |-> ledger'[j].locked, paid |-> NothingPaid]]

Pay(j) ==
  /\ ledger[j].locked > 0
  /\ ledger[j].paid = NothingPaid
  /\ ledger'[j].paid \in Shares
  /\ PaidTotal(ledger'[j].paid) = ledger[j].locked
  /\ ledger' = [ledger EXCEPT ![j] =
                [locked |-> ledger[j].locked, paid |-> ledger'[j].paid]]

PromiseNext == \E j \in Id : Lock(j) \/ Pay(j)

PromiseSpec == PromiseInit /\ [][PromiseNext]_ledger
=============================================================================
