-------------------------- MODULE Settlement_proofs --------------------------
(***************************************************************************)
(* What the runs over a grid show of settlement, for every line, price,    *)
(* stake and score; and what the adapters make of a bookmaker's offer, for *)
(* every offer.                                                            *)
(***************************************************************************)
EXTENDS Settlement, Payout_proofs

(* THE STATES. A bet keeps its quote and stake, and scores are scores.     *)
Inv == quote \in Offers /\ stake \in 1 .. MaxStake /\ score \in Points

LEMMA Invariance == Spec => []Inv
<1> USE SettlementAssumption
<1>1. Init => Inv
  BY DEF Init, Inv, Points
<1>2. Inv /\ [Settle]_vars => Inv'
  BY DEF Inv, Settle, vars
<1> QED
  BY <1>1, <1>2, PTL DEF Spec

LEMMA OffersAreQuotes ==
  ASSUME Inv
  PROVE  /\ IsQuote(quote) /\ quote.line % 250 = 0
         /\ quote.type \in MarketTypes
         /\ quote = [type |-> quote.type, line |-> quote.line, selection |-> quote.selection, odds |-> quote.odds]
         /\ quote.odds >= 100 \/ quote.odds <= -100
         /\ stake \in Nat \ {0} /\ score \in Nat \X Nat
<1> USE SettlementAssumption
<1>1. quote \in Offers
  BY DEF Inv
<1>2. stake \in Nat \ {0} /\ score \in Nat \X Nat
  BY DEF Inv, Points
<1>3. PICK t \in MarketTypes, l \in Lines, s \in Selections, o \in Odds :
        quote = [type |-> t, line |-> l, selection |-> s, odds |-> o]
  BY <1>1 DEF Offers, MarketTypes, Selections
<1>4. l \in Int /\ l % 250 = 0 /\ o \in Int \ {0} /\ (o >= 100 \/ o <= -100)
  OBVIOUS
<1> QED
  BY <1>2, <1>3, <1>4 DEF IsQuote

(* The two sides of a market never both win and never both lose.           *)
THEOREM TwoSidesNeverBothWin == Spec => []OneSideWins
<1>1. Inv => OneSideWins
  BY OffersAreQuotes, OneSideAlwaysWins DEF OneSideWins, IsQuote
<1> QED
  BY <1>1, Invariance, PTL

(* Every profit is the nearest cent to what the odds promise.              *)
THEOREM ProfitsAreRounded == Spec => []ProfitRounded
<1>1. Inv => ProfitRounded
  BY OffersAreQuotes, WinnersArePaidToTheNearestCent DEF ProfitRounded, IsQuote
<1> QED
  BY <1>1, Invariance, PTL

-----------------------------------------------------------------------------
(* Better terms. *)

(* Rounding half up keeps the order of quotients.                          *)
LEMMA HalfUpIsMonotone ==
  ASSUME NEW n1 \in Nat, NEW d1 \in Nat \ {0}, NEW n2 \in Nat, NEW d2 \in Nat \ {0},
         n1 * d2 <= n2 * d1
  PROVE  HalfUp(n1, d1) <= HalfUp(n2, d2)
<1> DEFINE k1 == HalfUp(n1, d1)
           k2 == HalfUp(n2, d2)
<1>1. /\ k1 \in Nat /\ (2 * d1) * k1 <= 2 * n1 + d1
      /\ k2 \in Nat /\ 2 * n2 + d2 < (2 * d2) * k2 + 2 * d2
  <2>1. 2 * n1 + d1 \in Nat /\ 2 * d1 \in Nat \ {0} /\ 2 * n2 + d2 \in Nat /\ 2 * d2 \in Nat \ {0}
    OBVIOUS
  <2> QED
    BY <2>1, DivisionBounds DEF HalfUp
<1> HIDE DEF k1, k2
<1> SUFFICES ASSUME k1 > k2 PROVE FALSE
  BY <1>1 DEF k1, k2
<1>2. (2 * d1) * (k2 + 1) <= 2 * n1 + d1
  <2>1. (2 * d1) * (k2 + 1) <= (2 * d1) * k1
    BY <1>1
  <2> QED
    BY <1>1, <2>1
<1>3. ((2 * d1) * (k2 + 1)) * d2 <= (2 * n1 + d1) * d2
  <2>1. (2 * d1) * (k2 + 1) \in Int /\ 2 * n1 + d1 \in Int
    BY <1>1
  <2>2. \A x, y \in Int : x <= y => x * d2 <= y * d2
    OBVIOUS
  <2> QED
    BY <1>2, <2>1, <2>2
<1>4. (2 * n1 + d1) * d2 <= (2 * n2 + d2) * d1
  <2>1. (2 * n1 + d1) * d2 = 2 * (n1 * d2) + d1 * d2
    OBVIOUS
  <2>2. (2 * n2 + d2) * d1 = 2 * (n2 * d1) + d1 * d2
    OBVIOUS
  <2>3. n1 * d2 \in Int /\ n2 * d1 \in Int /\ d1 * d2 \in Int
    OBVIOUS
  <2> QED
    BY <2>1, <2>2, <2>3
<1>5. (2 * n2 + d2) * d1 < ((2 * d2) * k2 + 2 * d2) * d1
  <2>1. 2 * n2 + d2 \in Int /\ (2 * d2) * k2 + 2 * d2 \in Int
    BY <1>1
  <2>2. \A x, y \in Int : x < y => x * d1 < y * d1
    OBVIOUS
  <2> QED
    BY <1>1, <2>1, <2>2
<1>6. ((2 * d1) * (k2 + 1)) * d2 = ((2 * d2) * k2 + 2 * d2) * d1
  BY <1>1
<1> QED
  <2>1. /\ ((2 * d1) * (k2 + 1)) * d2 \in Int /\ (2 * n1 + d1) * d2 \in Int
        /\ (2 * n2 + d2) * d1 \in Int
    BY <1>1
  <2> HIDE DEF k1, k2
  <2> QED
    BY <1>3, <1>4, <1>5, <1>6, <2>1

(* What a winner gets grows with the stake and with the odds.              *)
LEMMA WinningPayoutIsMonotone ==
  ASSUME NEW s1 \in Nat, NEW s2 \in Nat, s1 <= s2,
         NEW o1 \in Int, NEW o2 \in Int, o1 <= o2,
         o1 >= 100 \/ o1 <= -100, o2 >= 100 \/ o2 <= -100
  PROVE  WinningPayoutCents(s1, o1) <= WinningPayoutCents(s2, o2)
<1>1. CASE o1 > 0
  <2>1. s1 * o1 \in Nat /\ s2 * o2 \in Nat /\ s1 * o1 <= s2 * o2
    <3>1. s1 * o1 <= s2 * o1 /\ s2 * o1 <= s2 * o2
      BY <1>1
    <3> QED
      BY <1>1, <3>1
  <2>2. (s1 * o1) * 100 <= (s2 * o2) * 100
    BY <2>1
  <2>3. HalfUp(s1 * o1, 100) <= HalfUp(s2 * o2, 100)
    BY <2>1, <2>2, HalfUpIsMonotone
  <2>4. HalfUp(s1 * o1, 100) \in Nat /\ HalfUp(s2 * o2, 100) \in Nat
    BY <2>1, HalfUpIsNearest
  <2> QED
    BY <1>1, <2>3, <2>4 DEF WinningPayoutCents
<1>2. CASE o1 < 0 /\ o2 > 0
  <2> DEFINE m == 0 - o1
  <2>1. m = -o1 /\ m \in Nat \ {0} /\ 100 <= m /\ 100 <= o2
    BY <1>2
  <2>2. s1 * 100 \in Nat /\ s2 * o2 \in Nat
    BY <2>1
  <2>3. (s1 * 100) * 100 <= (s2 * o2) * m
    <3> HIDE DEF m
    <3>1. s1 * 100 <= s2 * o2
      <4>1. s1 * 100 <= s2 * 100 /\ s2 * 100 <= s2 * o2
        BY <2>1
      <4> QED
        BY <4>1, <2>2
    <3>2. \A x \in Nat : x * 100 <= x * m
      BY <2>1
    <3>3. (s2 * o2) * 100 <= (s2 * o2) * m
      BY <2>2, <3>2
    <3>4. (s2 * o2) * m \in Int
      BY <2>1, <2>2
    <3> QED
      BY <2>2, <3>1, <3>3, <3>4
  <2>4. HalfUp(s1 * 100, m) <= HalfUp(s2 * o2, 100)
    BY <2>1, <2>2, <2>3, HalfUpIsMonotone
  <2>5. HalfUp(s1 * 100, m) \in Nat /\ HalfUp(s2 * o2, 100) \in Nat
    BY <2>1, <2>2, HalfUpIsNearest
  <2> QED
    BY <1>2, <2>1, <2>4, <2>5 DEF WinningPayoutCents
<1>3. CASE o2 < 0
  <2> DEFINE m1 == 0 - o1
             m2 == 0 - o2
  <2>1. /\ m1 = -o1 /\ m1 \in Nat \ {0}
        /\ m2 = -o2 /\ m2 \in Nat \ {0} /\ m2 <= m1
    BY <1>3
  <2>2. s1 * 100 \in Nat /\ s2 * 100 \in Nat /\ s1 * 100 <= s2 * 100
    OBVIOUS
  <2>3. (s1 * 100) * m2 <= (s2 * 100) * m1
    <3> HIDE DEF m1, m2
    <3>1. \A x, y, p, q \in Nat : x <= y /\ p <= q => x * p <= y * q
      <4> TAKE x, y, p, q \in Nat
      <4>1. x <= y /\ p <= q => x * p <= y * p /\ y * p <= y * q
        OBVIOUS
      <4>2. x * p \in Nat /\ y * p \in Nat /\ y * q \in Nat
        OBVIOUS
      <4> QED
        BY <4>1, <4>2
    <3> QED
      BY <2>1, <2>2, <3>1
  <2>4. HalfUp(s1 * 100, m1) <= HalfUp(s2 * 100, m2)
    <3> DEFINE n1 == s1 * 100
               n2 == s2 * 100
    <3>1. n1 \in Nat /\ n2 \in Nat /\ n1 * m2 <= n2 * m1
      BY <2>2, <2>3
    <3> HIDE DEF n1, n2, m1, m2
    <3>2. HalfUp(n1, m1) <= HalfUp(n2, m2)
      BY <2>1, <3>1, HalfUpIsMonotone
    <3> QED
      BY <3>2 DEF n1, n2
  <2>5. HalfUp(s1 * 100, m1) \in Nat /\ HalfUp(s2 * 100, m2) \in Nat
    BY <2>1, <2>2, HalfUpIsNearest
  <2> QED
    BY <1>3, <2>1, <2>4, <2>5 DEF WinningPayoutCents
<1> QED
  BY <1>1, <1>2, <1>3

(* A BETTER PRICE OR A HIGHER STAKE NEVER PAYS LESS, whatever the score.   *)
THEOREM PayoutsAreMonotone == Spec => []BetterTermsNeverPayLess
<1>1. ASSUME Inv PROVE BetterTermsNeverPayLess
  <2> SUFFICES ASSUME NEW o \in Odds, NEW s \in 1 .. MaxStake, o >= quote.odds, s >= stake
               PROVE  PayoutCents([quote EXCEPT !.odds = o], s, score) >= PayoutCents(quote, stake, score)
    BY DEF BetterTermsNeverPayLess
  <2> USE SettlementAssumption
  <2> DEFINE better == [quote EXCEPT !.odds = o]
  <2>1. /\ o \in Int /\ (o >= 100 \/ o <= -100)
        /\ s \in Nat /\ stake \in Nat
        /\ quote.odds \in Int /\ (quote.odds >= 100 \/ quote.odds <= -100)
    BY <1>1, OffersAreQuotes DEF IsQuote
  <2>2. better.odds = o /\ better.type = quote.type /\ better.line = quote.line
          /\ better.selection = quote.selection
    BY <1>1, OffersAreQuotes
  <2>3. ResultForBet(better, score) = ResultForBet(quote, score)
    BY <2>2 DEF ResultForBet
  <2>4. WinningPayoutCents(stake, quote.odds) <= WinningPayoutCents(s, o)
    BY <2>1, WinningPayoutIsMonotone
  <2>5. WinningPayoutCents(stake, quote.odds) \in Nat /\ WinningPayoutCents(s, o) \in Nat
    BY <2>1, WinnersArePaidToTheNearestCent
  <2> HIDE DEF better
  <2>6. PayoutCents(better, s, score) >= PayoutCents(quote, stake, score)
    BY <2>1, <2>2, <2>3, <2>4, <2>5 DEF PayoutCents
  <2> QED
    BY <2>6 DEF better
<1>2. Inv => BetterTermsNeverPayLess
  BY <1>1
<1> QED
  BY <1>2, Invariance, PTL

-----------------------------------------------------------------------------
(* What is offered. *)

(* The six outcomes of a book, as <<type, selection, point>>.              *)
Outcomes(book) ==
  { <<"MONEYLINE", "HOME", None>>, <<"MONEYLINE", "AWAY", None>>,
    <<"SPREAD", "HOME", book.spread>>, <<"SPREAD", "AWAY", Negated(book.spread)>>,
    <<"TOTAL", "OVER", book.total>>, <<"TOTAL", "UNDER", book.total>> }

(* A quote of one of them, with a price. *)
QuotesOutcome(book, q) ==
  /\ q.odds # None
  /\ \E k \in Outcomes(book) : q = Imported(k[1], k[2], k[3], q.odds)

(* The three parts of an outcome make a quote of it.                       *)
LEMMA OutcomeIsQuoted ==
  ASSUME NEW book, NEW type, NEW selection, NEW point, NEW q,
         <<type, selection, point>> \in Outcomes(book),
         q = Imported(type, selection, point, q.odds), q.odds # None
  PROVE  QuotesOutcome(book, q)
<1> DEFINE k == <<type, selection, point>>
<1>1. k[1] = type /\ k[2] = selection /\ k[3] = point
  OBVIOUS
<1>2. k \in Outcomes(book)
  OBVIOUS
<1> HIDE DEF k
<1>3. q = Imported(k[1], k[2], k[3], q.odds)
  BY <1>1
<1> QED
  BY <1>2, <1>3 DEF QuotesOutcome

(* The outcomes an event of The Odds API lists, by the key of their market. *)
LEMMA ListedOutcomes ==
  ASSUME NEW book, NEW m \in TheOddsEvent(book).markets, NEW o \in m.outcomes
  PROVE  /\ o.price # None
         /\ m.key = "h2h" => o.point = None /\ o.name \in {"home", "away"}
         /\ m.key = "spreads" =>
              \/ o.name = "home" /\ o.point = book.spread
              \/ o.name = "away" /\ o.point = Negated(book.spread)
         /\ m.key = "totals" => o.point = book.total /\ o.name \in {"Over", "Under"}
<1> DEFINE Listed(S) == {x \in S : x.price # None}
           moneys    == { [name |-> "home", point |-> None, price |-> book.homeMoney],
                          [name |-> "away", point |-> None, price |-> book.awayMoney] }
           spreads   == { [name |-> "home", point |-> book.spread, price |-> book.homeSpread],
                          [name |-> "away", point |-> Negated(book.spread), price |-> book.awaySpread] }
           totals    == { [name |-> "Over", point |-> book.total, price |-> book.over],
                          [name |-> "Under", point |-> book.total, price |-> book.under] }
           outrights == { [name |-> "home", point |-> None, price |-> book.homeMoney] }
<1>1. \/ m = [key |-> "h2h", outcomes |-> Listed(moneys)]
      \/ m = [key |-> "spreads", outcomes |-> Listed(spreads)]
      \/ m = [key |-> "totals", outcomes |-> Listed(totals)]
      \/ m = [key |-> "outrights", outcomes |-> Listed(outrights)]
  BY DEF TheOddsEvent
<1> HIDE DEF moneys, spreads, totals, outrights
<1>2. o.price # None
  BY <1>1
<1>3. /\ m.key = "h2h" => o \in moneys
      /\ m.key = "spreads" => o \in spreads
      /\ m.key = "totals" => o \in totals
  BY <1>1
<1>4. m.key = "h2h" => o.point = None /\ o.name \in {"home", "away"}
  BY <1>3 DEF moneys
<1>5. m.key = "spreads" =>
        \/ o.name = "home" /\ o.point = book.spread
        \/ o.name = "away" /\ o.point = Negated(book.spread)
  BY <1>3 DEF spreads
<1>6. m.key = "totals" => o.point = book.total /\ o.name \in {"Over", "Under"}
  BY <1>3 DEF totals
<1> QED
  BY <1>2, <1>4, <1>5, <1>6

(* The Odds API: markets and outcomes are found by their keys and names.   *)
LEMMA TheOddsQuotesOutcomes ==
  ASSUME NEW book, NEW q \in TheOddsQuotes(book)
  PROVE  QuotesOutcome(book, q)
<1> DEFINE event == TheOddsEvent(book)
<1>1. PICK m \in event.markets :
        /\ m.key \in {"h2h", "spreads", "totals"}
        /\ \E o \in m.outcomes :
             /\ Selection(event, TypeOfKey[m.key], o.name) # None
             /\ q = Imported(TypeOfKey[m.key], Selection(event, TypeOfKey[m.key], o.name), o.point, o.price)
  BY DEF TheOddsQuotes, TypeOfKey
<1>2. PICK o \in m.outcomes :
        /\ Selection(event, TypeOfKey[m.key], o.name) # None
        /\ q = Imported(TypeOfKey[m.key], Selection(event, TypeOfKey[m.key], o.name), o.point, o.price)
  BY <1>1
<1>3. q.odds = o.price /\ o.price # None
  <2>1. q.odds = o.price
    BY <1>2 DEF Imported
  <2>2. o.price # None
    BY ListedOutcomes
  <2> QED
    BY <2>1, <2>2
<1>4. event.home = "home" /\ event.away = "away"
  BY DEF TheOddsEvent
<1>5. CASE m.key = "h2h"
  <2>1. TypeOfKey[m.key] = "MONEYLINE"
    BY <1>5 DEF TypeOfKey
  <2>2. o.point = None /\ o.name \in {"home", "away"}
    BY <1>5, ListedOutcomes
  <2>3. Selection(event, "MONEYLINE", o.name) = IF o.name = "home" THEN "HOME" ELSE "AWAY"
    BY <1>4, <2>2 DEF Selection
  <2> QED
    <3>1. CASE o.name = "home"
      <4>1. q = Imported("MONEYLINE", "HOME", None, q.odds) /\ <<"MONEYLINE", "HOME", None>> \in Outcomes(book)
        BY <1>2, <1>3, <2>1, <2>2, <2>3, <3>1 DEF Outcomes
      <4> QED
        BY <1>3, <4>1, OutcomeIsQuoted
    <3>2. CASE o.name = "away"
      <4>1. q = Imported("MONEYLINE", "AWAY", None, q.odds) /\ <<"MONEYLINE", "AWAY", None>> \in Outcomes(book)
        BY <1>2, <1>3, <2>1, <2>2, <2>3, <3>2 DEF Outcomes
      <4> QED
        BY <1>3, <4>1, OutcomeIsQuoted
    <3> QED
      BY <2>2, <3>1, <3>2
<1>6. CASE m.key = "spreads"
  <2>1. TypeOfKey[m.key] = "SPREAD"
    BY <1>6 DEF TypeOfKey
  <2>2. \/ o.name = "home" /\ o.point = book.spread
        \/ o.name = "away" /\ o.point = Negated(book.spread)
    BY <1>6, ListedOutcomes
  <2>3. Selection(event, "SPREAD", o.name) = IF o.name = "home" THEN "HOME" ELSE "AWAY"
    BY <1>4, <2>2 DEF Selection
  <2> QED
    <3>1. CASE o.name = "home"
      <4>1. q = Imported("SPREAD", "HOME", book.spread, q.odds) /\ <<"SPREAD", "HOME", book.spread>> \in Outcomes(book)
        BY <1>2, <1>3, <2>1, <2>2, <2>3, <3>1 DEF Outcomes
      <4> QED
        BY <1>3, <4>1, OutcomeIsQuoted
    <3>2. CASE o.name = "away"
      <4>1. q = Imported("SPREAD", "AWAY", Negated(book.spread), q.odds) /\ <<"SPREAD", "AWAY", Negated(book.spread)>> \in Outcomes(book)
        BY <1>2, <1>3, <2>1, <2>2, <2>3, <3>2 DEF Outcomes
      <4> QED
        BY <1>3, <4>1, OutcomeIsQuoted
    <3> QED
      BY <2>2, <3>1, <3>2
<1>7. CASE m.key = "totals"
  <2>1. TypeOfKey[m.key] = "TOTAL"
    BY <1>7 DEF TypeOfKey
  <2>2. o.point = book.total /\ o.name \in {"Over", "Under"}
    BY <1>7, ListedOutcomes
  <2>3. Selection(event, "TOTAL", o.name) = IF o.name = "Over" THEN "OVER" ELSE "UNDER"
    BY <1>4, <2>2 DEF Selection
  <2> QED
    <3>1. CASE o.name = "Over"
      <4>1. q = Imported("TOTAL", "OVER", book.total, q.odds) /\ <<"TOTAL", "OVER", book.total>> \in Outcomes(book)
        BY <1>2, <1>3, <2>1, <2>2, <2>3, <3>1 DEF Outcomes
      <4> QED
        BY <1>3, <4>1, OutcomeIsQuoted
    <3>2. CASE o.name = "Under"
      <4>1. q = Imported("TOTAL", "UNDER", book.total, q.odds) /\ <<"TOTAL", "UNDER", book.total>> \in Outcomes(book)
        BY <1>2, <1>3, <2>1, <2>2, <2>3, <3>2 DEF Outcomes
      <4> QED
        BY <1>3, <4>1, OutcomeIsQuoted
    <3> QED
      BY <2>2, <3>1, <3>2
<1> QED
  BY <1>1, <1>5, <1>6, <1>7

(* Every adapter's quotes are outcomes of the book.                        *)
LEMMA QuotesAreOutcomes ==
  ASSUME NEW book, NEW q \in QuotesOf(book)
  PROVE  QuotesOutcome(book, q)
<1>1. CASE q \in TheOddsQuotes(book)
  BY <1>1, TheOddsQuotesOutcomes
<1>2. CASE q \in SportsDataIoQuotes(book) \cup CollegeFootballDataQuotes(book)
  <2>1. q.odds # None
    BY <1>2 DEF SportsDataIoQuotes, CollegeFootballDataQuotes
  <2>2. \E price : \/ q = Imported("MONEYLINE", "HOME", None, price)
                    \/ q = Imported("MONEYLINE", "AWAY", None, price)
                    \/ q = Imported("SPREAD", "HOME", book.spread, price)
                    \/ q = Imported("SPREAD", "AWAY", Negated(book.spread), price)
                    \/ q = Imported("TOTAL", "OVER", book.total, price)
                    \/ q = Imported("TOTAL", "UNDER", book.total, price)
    BY <1>2 DEF SportsDataIoQuotes, CollegeFootballDataQuotes
  <2>3. \A type, selection, point, price :
          q = Imported(type, selection, point, price) => q = Imported(type, selection, point, q.odds)
    BY DEF Imported
  <2>4. /\ <<"MONEYLINE", "HOME", None>> \in Outcomes(book)
        /\ <<"MONEYLINE", "AWAY", None>> \in Outcomes(book)
        /\ <<"SPREAD", "HOME", book.spread>> \in Outcomes(book)
        /\ <<"SPREAD", "AWAY", Negated(book.spread)>> \in Outcomes(book)
        /\ <<"TOTAL", "OVER", book.total>> \in Outcomes(book)
        /\ <<"TOTAL", "UNDER", book.total>> \in Outcomes(book)
    BY DEF Outcomes
  <2> QED
    BY <2>1, <2>2, <2>3, <2>4, OutcomeIsQuoted
<1> QED
  BY <1>1, <1>2 DEF QuotesOf

(* What place_bet copies from an imported quote.                           *)
LEMMA SnapshotOfImport ==
  ASSUME NEW type, NEW selection, NEW point, NEW price
  PROVE  Snapshot(Imported(type, selection, point, price)) =
           [type |-> type, line |-> IF Millipoints(point) = None THEN 0 ELSE Millipoints(point),
            selection |-> selection, odds |-> price]
BY DEF Snapshot, Imported

(* AT EVERY SCORE AND FOR EVERY OFFER of quarter points, an outcome other  *)
(* than an away spread is settled as it was offered.                       *)
LEMMA OutcomesSettleAsOffered ==
  ASSUME NEW book, book.spread \in Int, book.total \in Int,
         NEW home \in Nat, NEW away \in Nat,
         NEW k \in Outcomes(book), ~ (k[1] = "SPREAD" /\ k[2] = "AWAY"), NEW price
  PROVE  SettledAsOffered(book, Imported(k[1], k[2], k[3], price), <<home, away>>)
<1> DEFINE sides == <<home, away>>
           q == Imported(k[1], k[2], k[3], price)
           b == Snapshot(q)
<1>1. q.type = k[1] /\ q.selection = k[2]
  BY DEF Imported
<1>2. b.type = k[1] /\ b.selection = k[2]
      /\ b.line = IF Millipoints(k[3]) = None THEN 0 ELSE Millipoints(k[3])
  BY SnapshotOfImport
<1>3. sides[1] = home /\ sides[2] = away
  OBVIOUS
<1> HIDE DEF q, b, sides
<1>4. CASE k[1] = "MONEYLINE"
  <2>1. k[2] \in {"HOME", "AWAY"} /\ k[3] = None
    BY <1>4 DEF Outcomes
  <2>2. ResultForBet(b, sides) = OfferedResult(book, q.type, q.selection, sides)
    BY <1>1, <1>2, <1>3, <1>4, <2>1 DEF ResultForBet, Comparison, OfferedResult
  <2> QED
    BY <2>2 DEF SettledAsOffered, b, q, sides
<1>5. CASE k[1] = "SPREAD"
  <2>1. k[2] = "HOME" /\ k[3] = book.spread
    BY <1>5 DEF Outcomes
  <2>2. b.line = book.spread * 250
    BY <1>2, <2>1, SettlementAssumption DEF Millipoints
  <2>3. Comparison(b.type, b.line, sides) = (4 * (home - away) + book.spread) * 250
    BY <1>2, <1>3, <1>5, <2>2 DEF Comparison
  <2>4. ResultForBet(b, sides) = OfferedResult(book, q.type, q.selection, sides)
    BY <1>1, <1>2, <1>3, <1>5, <2>1, <2>3 DEF ResultForBet, OfferedResult
  <2> QED
    BY <2>4 DEF SettledAsOffered, b, q, sides
<1>6. CASE k[1] = "TOTAL"
  <2>1. k[2] \in {"OVER", "UNDER"} /\ k[3] = book.total
    BY <1>6 DEF Outcomes
  <2>2. b.line = book.total * 250
    BY <1>2, <2>1, SettlementAssumption DEF Millipoints
  <2>3. Comparison(b.type, b.line, sides) = (4 * (home + away) - book.total) * 250
    BY <1>2, <1>3, <1>6, <2>2 DEF Comparison
  <2>4. ResultForBet(b, sides) = OfferedResult(book, q.type, q.selection, sides)
    BY <1>1, <1>2, <1>3, <1>6, <2>1, <2>3 DEF ResultForBet, OfferedResult
  <2> QED
    BY <2>4 DEF SettledAsOffered, b, q, sides
<1> QED
  BY <1>4, <1>5, <1>6 DEF Outcomes

(* The line of an offer in quarter points.                                 *)
LEMMA BookIsAnOffer ==
  ASSUME Inv
  PROVE  Book.spread \in Int /\ Book.total \in Int
<1>1. quote.line \in Int
  BY OffersAreQuotes DEF IsQuote
<1>2. quote.line \div 250 \in Int
  BY <1>1
<1> QED
  BY <1>2 DEF Book

(* A BET ON WHAT A BOOKMAKER OFFERS GOES AS THE BOOKMAKER MEANS IT,        *)
(* through every adapter, away spreads excepted.                           *)
THEOREM QuotesSettleAsOffered == Spec => []QuotesMeanWhatIsOffered
<1>1. ASSUME Inv PROVE QuotesMeanWhatIsOffered
  <2> SUFFICES ASSUME NEW q \in QuotesOf(Book), ~ AwaySpread(q)
               PROVE  q.odds # None /\ SettledAsOffered(Book, q, score)
    BY DEF QuotesMeanWhatIsOffered
  <2>1. QuotesOutcome(Book, q)
    BY QuotesAreOutcomes
  <2>2. PICK k \in Outcomes(Book) : q = Imported(k[1], k[2], k[3], q.odds)
    BY <2>1 DEF QuotesOutcome
  <2>3. ~ (k[1] = "SPREAD" /\ k[2] = "AWAY")
    <3>1. q.type = k[1] /\ q.selection = k[2]
      BY <2>2 DEF Imported
    <3> QED
      BY <3>1 DEF AwaySpread
  <2>4. PICK home \in Nat, away \in Nat : score = <<home, away>>
    BY <1>1, OffersAreQuotes
  <2>5. SettledAsOffered(Book, Imported(k[1], k[2], k[3], q.odds), <<home, away>>)
    BY <1>1, <2>3, BookIsAnOffer, OutcomesSettleAsOffered, SettlementAssumption
  <2> QED
    BY <2>1, <2>2, <2>4, <2>5 DEF QuotesOutcome
<1>2. Inv => QuotesMeanWhatIsOffered
  BY <1>1
<1> QED
  BY <1>2, Invariance, PTL
=============================================================================
