---------------------------- MODULE MCX402Serve -----------------------------
(***************************************************************************)
(* Small instances of X402Serve: half days as ticks, two ticks an epoch.   *)
(***************************************************************************)
EXTENDS X402Serve, TLC

CONSTANTS p1, p2, p3, c1, db

\* p1 and p3 pay in full; p2 pays one unit less.
MCPays  == [p \in Payment |-> IF p = p2 THEN PRICE - 1 ELSE PRICE]
MCPrice == 2

\* All payments answer the same challenge.
MCOneChallenge == [p \in Payment |-> c1]

\* All processes share one store.
MCShared == [s \in Process |-> db]

Symmetry == Permutations(Request) \cup Permutations(Process)
=============================================================================
