----------------------------- MODULE MCSessions -----------------------------
(***************************************************************************)
(* Instances of Sessions for TLC: one session, whose commits are the       *)
(* requests of Wagering, and two that overlap.                             *)
(***************************************************************************)
EXTENDS Sessions

CONSTANTS a1, a2, g1

MCQuotes ==
  { [game |-> g1, market |-> "g1 total", type |-> "TOTAL", line |-> 1000,
     selection |-> "UNDER", odds |-> -200] }

MCScores == { <<0, 0>>, <<2, 0>> }

MCOneScore == { <<0, 0>> }

Interchangeable == Permutations(Sessions) \cup Permutations(Bets)

MCOneAccount == <<a1, Capital>>

MCRows == <<a1, a2, Capital>>
=============================================================================
