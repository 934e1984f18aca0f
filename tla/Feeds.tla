-------------------------------- MODULE Feeds --------------------------------
(***************************************************************************)
(* What the provider adapters (src/edgebook/ingestion/adapters.py) make of *)
(* the lines a bookmaker offers on a game.  A book is its offer: the       *)
(* spread and the total in quarter points, and the prices of the six       *)
(* outcomes; None stands for what it does not offer.  The spread is the    *)
(* home team's: backing a side at point p wins if the side's score plus p  *)
(* is above the other's, and the away side's point is the negated one.     *)
(*                                                                         *)
(* Each provider has a payload of its own for a book.  A quote is what     *)
(* sync_quotes is given: [type, line, selection, odds], the line in        *)
(* thousandths of a point.                                                 *)
(***************************************************************************)
EXTENDS Payout

CONSTANT None

Negated(point) == IF point = None THEN None ELSE 0 - point

(* Faulty variant: the point is made an integer before it is scaled. *)
MillipointsOfWhole(point) ==
  IF point = None THEN None
  ELSE IF point >= 0 THEN (point \div 4) * 1000 ELSE 0 - ((0 - point) \div 4) * 1000

(* int(Decimal(point) * 1000), exact for quarter points. *)
Millipoints(point) == IF point = None THEN None ELSE point * 250

Imported(type, selection, point, price) ==
  [type |-> type, line |-> Millipoints(point), selection |-> selection, odds |-> price]

-----------------------------------------------------------------------------
(* The Odds API: an event with markets, each with outcomes named after the *)
(* teams or "Over" and "Under", each with its own point and price.         *)

TheOddsEvent(book) ==
  LET Listed(S) == {o \in S : o.price # None}
  IN  [home |-> "home", away |-> "away",
       markets |->
         { [key |-> "h2h", outcomes |-> Listed(
              { [name |-> "home", point |-> None, price |-> book.homeMoney],
                [name |-> "away", point |-> None, price |-> book.awayMoney] })],
           [key |-> "spreads", outcomes |-> Listed(
              { [name |-> "home", point |-> book.spread, price |-> book.homeSpread],
                [name |-> "away", point |-> Negated(book.spread), price |-> book.awaySpread] })],
           [key |-> "totals", outcomes |-> Listed(
              { [name |-> "Over", point |-> book.total, price |-> book.over],
                [name |-> "Under", point |-> book.total, price |-> book.under] })],
           [key |-> "outrights", outcomes |-> Listed(
              { [name |-> "home", point |-> None, price |-> book.homeMoney] })] }]

TypeOfKey == [h2h |-> "MONEYLINE", spreads |-> "SPREAD", totals |-> "TOTAL"]

Selection(event, type, name) ==
  CASE type = "TOTAL" /\ name = "Over"          -> "OVER"
    [] type = "TOTAL" /\ name = "Under"         -> "UNDER"
    [] type # "TOTAL" /\ name = event.home      -> "HOME"
    [] type # "TOTAL" /\ name = event.away      -> "AWAY"
    [] OTHER                                    -> None

(* Markets of another kind, and outcomes of another name, are left out. *)
TheOddsQuotes(book) ==
  LET event == TheOddsEvent(book)
      known == {m \in event.markets : m.key \in DOMAIN TypeOfKey}
      Of(m) == {o \in m.outcomes : Selection(event, TypeOfKey[m.key], o.name) # None}
  IN  UNION { { Imported(TypeOfKey[m.key], Selection(event, TypeOfKey[m.key], o.name), o.point, o.price)
                : o \in Of(m) } : m \in known }

(* SportsDataIO: one line with the home team's spread and a payout per     *)
(* outcome; an outcome without a payout is left out.                       *)
SportsDataIoQuotes(book) ==
  { q \in { Imported("MONEYLINE", "HOME", None, book.homeMoney),
            Imported("MONEYLINE", "AWAY", None, book.awayMoney),
            Imported("SPREAD", "HOME", book.spread, book.homeSpread),
            Imported("SPREAD", "AWAY", Negated(book.spread), book.awaySpread),
            Imported("TOTAL", "OVER", book.total, book.over),
            Imported("TOTAL", "UNDER", book.total, book.under) } : q.odds # None }

(* CollegeFootballData: the same without totals. *)
CollegeFootballDataQuotes(book) ==
  { q \in { Imported("MONEYLINE", "HOME", None, book.homeMoney),
            Imported("MONEYLINE", "AWAY", None, book.awayMoney),
            Imported("SPREAD", "HOME", book.spread, book.homeSpread),
            Imported("SPREAD", "AWAY", Negated(book.spread), book.awaySpread) } : q.odds # None }

QuotesOf(book) == TheOddsQuotes(book) \cup SportsDataIoQuotes(book) \cup CollegeFootballDataQuotes(book)

(* What place_bet copies from a quote, with settlement's 0 for no line. *)
Snapshot(q) == [q EXCEPT !.line = IF @ = None THEN 0 ELSE @]

-----------------------------------------------------------------------------
(* How an outcome of a book went, as the bookmaker understands it.         *)
OfferedResult(book, type, selection, score) ==
  LET margin == CASE selection = "HOME"  -> 4 * (score[1] - score[2])
                  [] selection = "AWAY"  -> 4 * (score[2] - score[1])
                  [] selection = "OVER"  -> 4 * (score[1] + score[2]) - book.total
                  [] selection = "UNDER" -> book.total - 4 * (score[1] + score[2])
      clears == IF type = "SPREAD"
                THEN margin + (IF selection = "HOME" THEN book.spread ELSE Negated(book.spread))
                ELSE margin
  IN  IF clears > 0 THEN "WON" ELSE IF clears = 0 THEN "PUSH" ELSE "LOST"

SettledAsOffered(book, q, score) ==
  ResultForBet(Snapshot(q), score) = OfferedResult(book, q.type, q.selection, score)
=============================================================================
