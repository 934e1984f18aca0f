------------------------------- MODULE Payout -------------------------------
(***************************************************************************)
(* The arithmetic of settlement (src/edgebook/wagering/services.py): which *)
(* way a bet went, and how many whole cents it is paid.                    *)
(*                                                                         *)
(* A quote is the snapshot place_bet copies into the bet row: the game and *)
(* market it is for, the market's type and line in thousandths of a point  *)
(* (0 where the market has none, as the code's "or 0" makes it), the side  *)
(* backed and its American odds.  A score is the pair <<home, away>>.      *)
(***************************************************************************)
EXTENDS Integers

MarketTypes == {"MONEYLINE", "SPREAD", "TOTAL"}
Selections  == {"HOME", "AWAY", "OVER", "UNDER"}
Results     == {"WON", "LOST", "PUSH"}

(* The signed amount by which the final score clears the market's line. *)
Comparison(type, line, score) ==
  CASE type = "MONEYLINE" -> score[1] - score[2]
    [] type = "SPREAD"    -> (score[1] - score[2]) * 1000 + line
    [] type = "TOTAL"     -> (score[1] + score[2]) * 1000 - line

(* Faulty variant: OVER is taken for the side that wins below the line. *)
ResultForBetHomeOnly(q, score) ==
  LET c == Comparison(q.type, q.line, score)
  IN  IF c = 0 THEN "PUSH"
      ELSE IF (c > 0) = (q.selection = "HOME") THEN "WON" ELSE "LOST"

ResultForBet(q, score) ==
  LET c == Comparison(q.type, q.line, score)
      selectedPositive == q.selection \in {"HOME", "OVER"}
  IN  IF c = 0 THEN "PUSH"
      ELSE IF (c > 0) = selectedPositive THEN "WON" ELSE "LOST"

(* Faulty variant: int() without quantize, which truncates. *)
HalfUpTruncated(num, den) == num \div den

(* Decimal.quantize(1, ROUND_HALF_UP) of num/den, for num >= 0 and den > 0. *)
HalfUp(num, den) == (2 * num + den) \div (2 * den)

(* Faulty variant: one formula for favourites and underdogs. *)
WinningPayoutCentsOneFormula(stake, odds) ==
  stake + HalfUp(stake * (IF odds > 0 THEN odds ELSE -odds), 100)

(* Stake plus profit.  American odds +o win o per 100 staked, -o win 100   *)
(* per o; odds of 0 have no payout (the code divides by zero).             *)
WinningPayoutCents(stake, odds) ==
  stake + (IF odds > 0 THEN HalfUp(stake * odds, 100)
                       ELSE HalfUp(stake * 100, -odds))

(* What settling a bet of `stake` cents at quote q credits to its account. *)
PayoutCents(q, stake, score) ==
  LET result == ResultForBet(q, score)
  IN  IF result = "PUSH" THEN stake
      ELSE IF result = "WON" THEN WinningPayoutCents(stake, q.odds)
      ELSE 0

-----------------------------------------------------------------------------
(* What the arithmetic has to satisfy, stated without repeating it. *)

OtherSide(selection) ==
  CASE selection = "HOME"  -> "AWAY"
    [] selection = "AWAY"  -> "HOME"
    [] selection = "OVER"  -> "UNDER"
    [] selection = "UNDER" -> "OVER"

(* The two sides of one market never both win and never both lose. *)
SidesOppose(q, score) ==
  LET one   == ResultForBet(q, score)
      other == ResultForBet([q EXCEPT !.selection = OtherSide(q.selection)], score)
  IN  \/ one = "PUSH" /\ other = "PUSH"
      \/ {one, other} = {"WON", "LOST"}

(* n is the whole number nearest to num/den, the larger one if two are. *)
IsNearest(n, num, den) == -den <= 2 * (num - n * den) /\ 2 * (num - n * den) < den

(* A won bet gets its stake back and the profit its odds promise, to the   *)
(* nearest cent.                                                           *)
ProfitIsNearestCent(stake, odds) ==
  LET profit == WinningPayoutCents(stake, odds) - stake
  IN  IF odds > 0 THEN IsNearest(profit, stake * odds, 100)
                  ELSE IsNearest(profit, stake * 100, -odds)
=============================================================================
