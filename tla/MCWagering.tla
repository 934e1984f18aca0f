----------------------------- MODULE MCWagering -----------------------------
(***************************************************************************)
(* Instances of Wagering for TLC.  Two games with a quote each.  Under     *)
(* the two scores, UNDER wins or loses and HOME pushes or wins, so a       *)
(* correction turns every result into another one; the odds are such that  *)
(* one payout is rounded half up.                                          *)
(***************************************************************************)
EXTENDS Wagering, TLC

CONSTANTS g1, g2

MCQuotes ==
  { [game |-> g1, market |-> "g1 total", type |-> "TOTAL", line |-> 1000,
     selection |-> "UNDER", odds |-> -200],
    [game |-> g2, market |-> "g2 moneyline", type |-> "MONEYLINE", line |-> 0,
     selection |-> "HOME", odds |-> 150] }

MCScores == { <<0, 0>>, <<2, 0>> }

Interchangeable == Permutations(Accounts) \cup Permutations(Bets)
=============================================================================
