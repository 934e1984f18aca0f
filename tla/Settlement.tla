----------------------------- MODULE Settlement -----------------------------
(***************************************************************************)
(* A bet at what a bookmaker offers, from the provider's payload (Feeds)   *)
(* to the cents it is paid (Payout): each step settles it under another    *)
(* score, as recording and correcting results do.                          *)
(***************************************************************************)
EXTENDS Feeds

CONSTANTS
  Lines,           \* lines offered, in thousandths of a point
  Odds,            \* American odds offered
  MaxStake,        \* bound on stakes, in cents
  MaxScore         \* bound on the points of a team

ASSUME SettlementAssumption ==
  /\ \A l \in Lines : l \in Int /\ l % 250 = 0
  /\ \A o \in Odds : o \in Int /\ (o >= 100 \/ o <= -100)
  /\ MaxStake \in Nat /\ MaxScore \in Nat
  /\ None \notin Int

VARIABLES quote, stake, score

vars == <<quote, stake, score>>

Offers ==
  {[type |-> t, line |-> l, selection |-> s, odds |-> o] :
     t \in {"MONEYLINE", "SPREAD"}, l \in Lines, s \in {"HOME", "AWAY"}, o \in Odds}
  \cup
  {[type |-> "TOTAL", line |-> l, selection |-> s, odds |-> o] :
     l \in Lines \cap Nat, s \in {"OVER", "UNDER"}, o \in Odds}

Points == (0 .. MaxScore) \X (0 .. MaxScore)

Init == quote \in Offers /\ stake \in 1 .. MaxStake /\ score = <<0, 0>>

Settle == score' \in Points /\ UNCHANGED <<quote, stake>>

Spec == Init /\ [][Settle]_vars

-----------------------------------------------------------------------------
(* _result_for_bet: at every score the two sides of a market push together *)
(* or one of them wins, so the book never pays both or keeps both stakes.  *)
OneSideWins == SidesOppose(quote, score)

(* _winning_payout_cents rounds the profit to the nearest cent, ties up,   *)
(* for favourites and underdogs alike.                                     *)
ProfitRounded == ProfitIsNearestCent(stake, quote.odds)

(* A payout never falls when the stake or the odds get better: American    *)
(* odds of magnitude 100 or more are ordered as integers, across the jump  *)
(* from favourites to underdogs.                                           *)
BetterTermsNeverPayLess ==
  \A o \in Odds, s \in 1 .. MaxStake :
    o >= quote.odds /\ s >= stake =>
      PayoutCents([quote EXCEPT !.odds = o], s, score) >= PayoutCents(quote, stake, score)

(* A bookmaker's offer: this line on both sides, at these odds, where the  *)
(* outcome in hand is the only one with a price of its own.                *)
Book ==
  LET Price(type, selection) == IF quote.type = type /\ quote.selection = selection THEN quote.odds ELSE 100
  IN  [spread |-> quote.line \div 250, total |-> IF quote.line < 0 THEN 0 ELSE quote.line \div 250,
       homeMoney |-> Price("MONEYLINE", "HOME"),
       awayMoney |-> IF quote.selection = "HOME" THEN None ELSE Price("MONEYLINE", "AWAY"),
       homeSpread |-> Price("SPREAD", "HOME"), awaySpread |-> Price("SPREAD", "AWAY"),
       over |-> Price("TOTAL", "OVER"), under |-> Price("TOTAL", "UNDER")]

AwaySpread(q) == q.type = "SPREAD" /\ q.selection = "AWAY"

(* Through any adapter, _millipoints and the settlement arithmetic, a bet  *)
(* on a bookmaker's outcome goes the way the bookmaker means it: a half    *)
(* point is not lost, no side is swapped, and an unoffered outcome is not  *)
(* quoted.  (Spreads of the away side are not so: see AwaySpreadsToo.)     *)
QuotesMeanWhatIsOffered ==
  \A q \in QuotesOf(Book) : ~ AwaySpread(q) => q.odds # None /\ SettledAsOffered(Book, q, score)

(* cfb/services/markets.py: "Spread markets require a home-perspective     *)
(* line"; on such lines the away side is settled as offered, too.          *)
AwaySpreadsToo == \A q \in QuotesOf(Book) : AwaySpread(q) => SettledAsOffered(Book, q, score)
=============================================================================
