------------------------- MODULE MC_MatchingEngine -------------------------
(***************************************************************************)
(* Model-checking instance of MatchingEngine: two accounts, one symbol.    *)
(* The inputs include an invalid price, amount, balance and deposit, so    *)
(* every error path of the commands is taken.                              *)
(***************************************************************************)
EXTENDS MatchingEngine

CONSTANTS u1, u2, s1

MCUsers == {u1, u2}
MCSymbols == {s1}
MCPrices == {0, 1, 2}
MCAmounts == {0, 1, 2}
MCBalances == {-1, 2}
MCDeposits == {-1, 2}

\* Smaller inputs for the refinement run, whose every step also evaluates
\* the abstract next-state relation: only valid prices and amounts (the
\* refused submissions still occur, by insufficient funds or shares).
MCRefPrices == {1, 2}
MCRefAmounts == {1, 2}
MCRefBalances == {2}
MCRefDeposits == {2}

\* A <create><account balance="NaN"/> next to a valid one.
MCNaNBalances == {NaN, 2}

\* No action of the engine reads result, the response of the last command:
\* states that differ only in it have the same futures.
MCView == <<ledger, store, orderIdCounter, faults, match, ghost>>

Symm == Permutations(MCUsers)
=============================================================================
