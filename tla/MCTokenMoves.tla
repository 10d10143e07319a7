---------------------------- MODULE MCTokenMoves ----------------------------
(* An instance of TokenMoves for TLC: a registered stable and a coin of one *)
(* decimal fewer than the registry would guess.                            *)
EXTENDS TokenMoves, TLC

CONSTANTS usdc, alt

MCDecimals == usdc :> 1 @@ alt :> 0
MCGuess == [c \in Coin |-> 1]
MCFunds == {usdc :> 11 @@ alt :> 12}
=============================================================================
