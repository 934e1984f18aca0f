------------------------------ MODULE Reports ------------------------------
(***************************************************************************)
(* The analytics of one account (src/edgebook/analytics/services.py): what *)
(* its reports say, as operators over the rows they read, and those rows   *)
(* as the ledger and the bets write them while time passes.                *)
(*                                                                         *)
(* A moment stands for everything within one timestamp; MomentsPerDay of   *)
(* them share a date in UTC, the zone in which the journal and the bets    *)
(* are dated.  A request states the beginning of its period with an offset *)
(* of its own.  Ratios are compared by cross multiplication; their         *)
(* rounding to four digits is left out.                                    *)
(***************************************************************************)
EXTENDS Payout, Sequences, Functions, FiniteSetsExt

CONSTANTS
  Bankrolls,       \* starting bankrolls
  Amounts,         \* amounts of deposits and withdrawals
  Stakes,
  Terms,           \* what reports group bets by (sport, type, category), and odds
  BucketLists,     \* values of the query parameter `buckets`
  Offsets,         \* how many moments a caller's clock may be ahead of UTC
  NoTime,          \* a period without a beginning, or an end; a bet not settled
  MomentsPerDay,
  LastMoment,      \* bound: the last moment
  MaxRows,         \* bound: no row is posted once the journal has so many
  MaxBets          \* bound: bets placed

ASSUME ReportsAssumption ==
  /\ Bankrolls \subseteq Nat
  /\ Amounts \cup Stakes \subseteq Nat \ {0}
  /\ \A t \in Terms : t.odds \in Int \ {0}
  /\ BucketLists \subseteq Seq(Int)
  /\ Offsets \subseteq Int
  /\ NoTime \notin Nat
  /\ MomentsPerDay \in Nat \ {0}
  /\ {LastMoment, MaxRows, MaxBets} \subseteq Nat

VARIABLES
  now,             \* the present moment
  balance,         \* accounts.current_balance_cents
  journal,         \* the account's transactions in the order of created_at
  bets             \* the account's bets in the order they were placed

vars == <<now, balance, journal, bets>>

TransactionTypes == {"DEPOSIT", "WITHDRAWAL", "WAGER_STAKE", "WAGER_PAYOUT", "ADJUSTMENT"}

Row == [at : Nat, type : TransactionTypes, amount : Int]

BetRow == [terms : Terms, stake : Stakes, before : Nat, status : Results \cup {"PENDING"},
           payout : Nat, settledAt : Nat \cup {NoTime}]

TypeOK ==
  /\ now \in 0 .. LastMoment
  /\ balance \in Int
  /\ journal \in Seq(Row)
  /\ bets \in Seq(BetRow)

-----------------------------------------------------------------------------
(* The rows: the balance moves with the journal, as in Ledger. *)

Posting(type, amount) == [at |-> now, type |-> type, amount |-> amount]

(* The postings of one request; amounts of 0 are not posted. *)
Post(type, amount) == IF amount = 0 THEN <<>> ELSE <<Posting(type, amount)>>

(* SUM(amount_cents) over the rows with the indices I. *)
CentsOf(rows, I) == SumFunctionOnSet([i \in DOMAIN rows |-> rows[i].amount], I)

Record(rows) ==
  /\ Len(journal) < MaxRows
  /\ journal' = journal \o rows
  /\ balance' = balance + CentsOf(rows, DOMAIN rows)

Init ==
  /\ now = 0
  /\ balance \in Bankrolls
  /\ journal = Post("DEPOSIT", balance)
  /\ bets = <<>>

Transact(amount) ==
  /\ amount < 0 => balance >= -amount
  /\ Record(Post(IF amount > 0 THEN "DEPOSIT" ELSE "WITHDRAWAL", amount))
  /\ UNCHANGED <<now, bets>>

PlaceBet(terms, stake) ==
  /\ Len(bets) < MaxBets
  /\ balance >= stake
  /\ Record(Post("WAGER_STAKE", -stake))
  /\ bets' = Append(bets, [terms |-> terms, stake |-> stake, before |-> balance,
                           status |-> "PENDING", payout |-> 0, settledAt |-> NoTime])
  /\ UNCHANGED now

Payout(b, result) ==
  CASE result = "WON"  -> WinningPayoutCents(bets[b].stake, bets[b].terms.odds)
    [] result = "PUSH" -> bets[b].stake
    [] result = "LOST" -> 0

(* Faulty variant: a correction leaves the time of the first settlement. *)
SettledRowAsBefore(b, result) ==
  [bets[b] EXCEPT !.status = result, !.payout = Payout(b, result),
                  !.settledAt = IF @ = NoTime THEN now ELSE @]

SettledRow(b, result) ==
  [bets[b] EXCEPT !.status = result, !.payout = Payout(b, result), !.settledAt = now]

(* A result settles a pending bet; a correction takes back what a settled  *)
(* one was paid and settles it again, at the time of the correction and    *)
(* though its result may be the same.                                      *)
Settle(b, result) ==
  /\ Record(Post("ADJUSTMENT", -bets[b].payout)
              \o Post("WAGER_PAYOUT", Payout(b, result)))
  /\ bets' = [bets EXCEPT ![b] = SettledRow(b, result)]
  /\ UNCHANGED now

Tick == now < LastMoment /\ now' = now + 1 /\ UNCHANGED <<balance, journal, bets>>

Next ==
  \/ \E amount \in Amounts : Transact(amount) \/ Transact(-amount)
  \/ \E terms \in Terms, stake \in Stakes : PlaceBet(terms, stake)
  \/ \E b \in DOMAIN bets, result \in Results : Settle(b, result)
  \/ Tick

Spec == Init /\ [][Next]_vars

-----------------------------------------------------------------------------
(* The reports.  A period is a pair <<from, to>>, both ends included. *)

(* The periods the endpoint accepts. *)
Periods ==
  {p \in ((0 .. LastMoment) \cup {NoTime}) \X ((0 .. LastMoment) \cup {NoTime}) :
     p[1] # NoTime /\ p[2] # NoTime => p[1] <= p[2]}

Lifetime == <<NoTime, NoTime>>

Within(at, p) == (p[1] # NoTime => at >= p[1]) /\ (p[2] # NoTime => at <= p[2])

(* Faulty variant: pending bets count too. *)
SettledBetsOrPending(p) ==
  {b \in DOMAIN bets : bets[b].settledAt = NoTime \/ Within(bets[b].settledAt, p)}

SettledBets(p) ==
  {b \in DOMAIN bets : bets[b].status \in Results /\ Within(bets[b].settledAt, p)}

(* Sums over the bets of B. *)
Staked(B) == SumFunctionOnSet([b \in DOMAIN bets |-> bets[b].stake], B)
PaidOut(B) == SumFunctionOnSet([b \in DOMAIN bets |-> bets[b].payout], B)
NetProfit(B) == PaidOut(B) - Staked(B)

(* mean / pstdev of the returns per stake: None for fewer than two bets.   *)
(* The quotient is not defined when the deviation is 0: the call raises.   *)
SharpeIsNone(B) == Cardinality(B) < 2
SharpeRaises(B) ==
  /\ ~ SharpeIsNone(B)
  /\ \A b, c \in B : (bets[b].payout - bets[b].stake) * bets[c].stake
                       = (bets[c].payout - bets[c].stake) * bets[b].stake

Summary(p) ==
  LET B == SettledBets(p)
  IN  [bets |-> Cardinality(B), staked |-> Staked(B), payout |-> PaidOut(B), net |-> NetProfit(B),
       byResult |-> [r \in Results |-> Cardinality({b \in B : bets[b].status = r})]]

(* Faulty variant: bets without a category are in no group. *)
BreakdownOfNamed(p, term) ==
  LET B == {b \in SettledBets(p) : bets[b].terms[term] # "none"}
      Group(value) == {b \in B : bets[b].terms[term] = value}
  IN  [value \in {bets[b].terms[term] : b \in B} |->
         [bets |-> Cardinality(Group(value)), net |-> NetProfit(Group(value))]]

(* The settled bets grouped by one of their terms. *)
Breakdown(p, term) ==
  LET B == SettledBets(p)
      Group(value) == {b \in B : bets[b].terms[term] = value}
  IN  [value \in {bets[b].terms[term] : b \in B} |->
         [bets |-> Cardinality(Group(value)), net |-> NetProfit(Group(value))]]

BySport(p) == Breakdown(p, "sport")
ByMarketType(p) == Breakdown(p, "type")
ByRationaleCategory(p) == Breakdown(p, "category")

(* _parse_buckets accepts positive, strictly increasing boundaries. *)
Accepted(list) ==
  /\ list # <<>>
  /\ \A i \in DOMAIN list : list[i] > 0 /\ (i > 1 => list[i - 1] < list[i])

(* The settled bets of each bucket: from a boundary on, the share of the   *)
(* bankroll that was staked, in per cent, up to but not with the next one. *)
(* The code has the percentage as a float, with which a bet exactly at a   *)
(* boundary may be one bucket lower.                                       *)
Calibration(p, list) ==
  LET bounds == <<0>> \o list
      AtLeast(b, pct) == bets[b].stake * 100 >= pct * bets[b].before
      Counted == {b \in SettledBets(p) : bets[b].before > 0}
  IN  [i \in DOMAIN bounds |->
         {b \in Counted : AtLeast(b, bounds[i]) /\ (i < Len(bounds) => ~ AtLeast(b, bounds[i + 1]))}]

(* Faulty variant: what happens at the very beginning counts as before it. *)
OpeningBalanceIncluding(p) ==
  IF p[1] = NoTime THEN 0
  ELSE CentsOf(journal, {i \in DOMAIN journal : journal[i].at <= p[1]})

OpeningBalance(p) ==
  IF p[1] = NoTime THEN 0
  ELSE CentsOf(journal, {i \in DOMAIN journal : journal[i].at < p[1]})

(* The transactions a query selects, by their place in the journal. *)
Transactions(p) == {i \in DOMAIN journal : Within(journal[i].at, p)}

(* Faulty variant: the highest balance so far is forgotten. *)
AfterTransactionPeakless(before, cents) ==
  LET reached == before.balance + cents
  IN  [balance |-> reached, peak |-> IF reached > before.balance THEN reached ELSE before.balance]

(* One transaction of the loop: the balance moves, and its peak with it. *)
AfterTransaction(before, cents) ==
  LET reached == before.balance + cents
  IN  [balance |-> reached, peak |-> IF reached > before.peak THEN reached ELSE before.peak]

(* The loop over the journal, of which the query selects some rows. *)
Points(p) ==
  LET point[i \in 0 .. Len(journal)] ==
        IF i = 0 THEN [balance |-> OpeningBalance(p), peak |-> OpeningBalance(p)]
        ELSE IF i \notin Transactions(p) THEN point[i - 1]
        ELSE AfterTransaction(point[i - 1], journal[i].amount)
  IN  point

(* The balance and its peak at the opening, 0, and after each transaction: *)
(* the points of the drawdown chart, and what the greatest drawdown and    *)
(* the daily balances are taken from.                                      *)
Replay(p) == [i \in {0} \cup Transactions(p) |-> Points(p)[i]]

(* The first of the greatest falls below a peak, and that peak. *)
MaxDrawdown(p) ==
  LET point == Replay(p)
      fall(i) == point[i].balance - point[i].peak
      worst == CHOOSE i \in DOMAIN point :
                 \A j \in DOMAIN point : fall(i) <= fall(j) /\ (fall(i) = fall(j) => i <= j)
  IN  [cents |-> fall(worst), peak |-> point[worst].peak]

Day(at) == at \div MomentsPerDay

(* The first day of the chart: that of the beginning by the clock of the   *)
(* caller, which is ahead of UTC by the offset, or that of the first       *)
(* transaction.                                                            *)
FirstDay(p, offset) ==
  IF p[1] # NoTime THEN Day(p[1] + offset)
  ELSE IF Transactions(p) = {} THEN Day(now) ELSE Day(journal[Min(Transactions(p))].at)

DaysOfTransactions(p) == {Day(journal[i].at) : i \in Transactions(p)}

(* Faulty variant: a day keeps the first balance it is given. *)
BalanceSeriesFirst(p, offset) ==
  LET On(d) == {i \in Transactions(p) : Day(journal[i].at) = d}
  IN  [d \in {FirstDay(p, offset)} \cup DaysOfTransactions(p) |->
         Replay(p)[IF On(d) = {} THEN 0 ELSE Min(On(d))].balance]

(* The chart of daily balances, as a function of the date: the opening     *)
(* balance on the first day unless that day has transactions, and on each  *)
(* day that has some the balance after the last of them.                   *)
BalanceSeries(p, offset) ==
  LET On(d) == {i \in Transactions(p) : Day(journal[i].at) = d}
  IN  [d \in {FirstDay(p, offset)} \cup DaysOfTransactions(p) |->
         Replay(p)[Max({0} \cup On(d))].balance]

-----------------------------------------------------------------------------
(* compute_summary against the ledger: an account holds what was paid in   *)
(* and out by hand, less the stakes of open bets, plus the lifetime net    *)
(* profit.  Two tables written at different places have to agree.          *)
ProfitReconciles ==
  LET byHand == {i \in DOMAIN journal : journal[i].type \in {"DEPOSIT", "WITHDRAWAL"}}
      open == {b \in DOMAIN bets : bets[b].status = "PENDING"}
  IN  balance = CentsOf(journal, byHand) - Staked(open) + Summary(Lifetime).net

(* Reports of two periods that meet add up to the report of both: no bet   *)
(* and no transaction is in both or in neither, and one chart goes on at   *)
(* the balance where the other one ends.                                   *)
PeriodsAddUp ==
  \A p \in Periods : \A at \in 0 .. LastMoment - 1 :
    LET early == <<p[1], at>>
        late == <<at + 1, p[2]>>
    IN  {early, late} \subseteq Periods =>
          /\ Summary(p).bets = Summary(early).bets + Summary(late).bets
          /\ Summary(p).net = Summary(early).net + Summary(late).net
          /\ Replay(early)[Max(DOMAIN Replay(early))].balance = Replay(late)[0].balance

GroupsAddUp(p) ==
  \A groups \in {BySport(p), ByMarketType(p), ByRationaleCategory(p)} :
    LET Of(field) == SumFunctionOnSet([v \in DOMAIN groups |-> groups[v][field]], DOMAIN groups)
    IN  Of("bets") = Summary(p).bets /\ Of("net") = Summary(p).net

BucketsPartition(p) ==
  \A list \in {l \in BucketLists : Accepted(l)} :
    LET bucket == Calibration(p, list)
    IN  \A b \in SettledBets(p) : Cardinality({i \in DOMAIN bucket : b \in bucket[i]}) = 1

(* The breakdowns split the summary: every settled bet is in one group,    *)
(* and in one bucket, whatever boundaries the endpoint accepts.  None is   *)
(* dropped for a bankroll of 0, as place_bet never takes a stake from an   *)
(* empty account.                                                          *)
BreakdownsPartition == \A p \in Periods : GroupsAddUp(p) /\ BucketsPartition(p)

(* The greatest drawdown is the greatest fall between any two points, not  *)
(* only between neighbours, with the opening balance as the first.         *)
DrawdownIsGreatestFall ==
  \A p \in Periods :
    LET points == {0} \cup Transactions(p)
        at(i) == OpeningBalance(p) + CentsOf(journal, {j \in Transactions(p) : j <= i})
        falls == {at(ij[2]) - at(ij[1]) : ij \in {ij \in points \X points : ij[1] <= ij[2]}}
    IN  MaxDrawdown(p).cents = Min(falls)

(* What the account held at the end of a day, or of the period.            *)
ClosingBalance(p, d) ==
  CentsOf(journal, {i \in DOMAIN journal :
                      Day(journal[i].at) <= d /\ Within(journal[i].at, <<NoTime, p[2]>>)})

(* compute_balance_series: every point of the chart on a day with          *)
(* transactions is what the account held at the end of that day, whatever  *)
(* the offset of the caller; so is the first point, if the period has no   *)
(* beginning or begins on the same date by the caller's clock and in UTC.  *)
DailyPointsAreClosingBalances ==
  \A p \in Periods, offset \in Offsets :
    \A d \in DOMAIN BalanceSeries(p, offset) :
      d \in DaysOfTransactions(p) \/ FirstDay(p, offset) = FirstDay(p, 0)
        => BalanceSeries(p, offset)[d] = ClosingBalance(p, d)

(* _require_timezone, api/analytics.py:200, asks for "explicit offsets so  *)
(* reporting windows are unambiguous", and the chart is of "daily balance  *)
(* points" (analytics/services.py:388): with any offset, every point is    *)
(* the closing balance of its day.                                         *)
ChartsCloseInEveryZone ==
  \A p \in Periods, offset \in Offsets :
    \A d \in DOMAIN BalanceSeries(p, offset) : BalanceSeries(p, offset)[d] = ClosingBalance(p, d)

(* What happens now does not change the charts of the past.  The figures   *)
(* of a past period change only when a score correction settles one of its *)
(* bets again, and then that bet leaves the period.                        *)
PastPeriodStands ==
  \A p \in Periods : p[2] # NoTime /\ p[2] < now =>
    /\ Replay(p)' = Replay(p)
    /\ SettledBets(p)' \subseteq SettledBets(p)
    /\ \A b \in SettledBets(p)' : bets'[b] = bets[b]

PastPeriodsStand == [][PastPeriodStands]_vars

(* docs/api/README.md: the analytics endpoint "Returns lifetime or         *)
(* date-range performance metrics" of an account.                          *)
SummaryIsReturned == \A p \in Periods : ~ SharpeRaises(SettledBets(p))
=============================================================================
