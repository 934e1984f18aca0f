----------------------------- MODULE MCPricing -----------------------------
(***************************************************************************)
(* Instances of Pricing for TLC: the moneyline of one game, imported by    *)
(* feeds of one side or of both, and entered by hand.                      *)
(***************************************************************************)
EXTENDS Pricing, TLC

Moneyline == [type |-> "MONEYLINE"]

MCTerms == {Moneyline}

MCFeeds == { <<"HOME", "AWAY">>, <<"AWAY">> }

Interchangeable == Permutations(Sessions)
=============================================================================
