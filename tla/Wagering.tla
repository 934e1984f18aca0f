------------------------------ MODULE Wagering ------------------------------
(***************************************************************************)
(* Placement, settlement and score correction of simulated wagers          *)
(* (src/edgebook/wagering/services.py) on top of the ledger.  Each action  *)
(* is one request with the database transaction it commits; a request that *)
(* raises rolls back and changes nothing, so it is no step.                *)
(***************************************************************************)
EXTENDS Ledger, Payout, Sequences

CONSTANTS
  Bets,            \* identifiers of bet rows
  Games,           \* games in the catalogue
  Quotes,          \* quotes of open markets: what place_bet copies into a bet
  Keys,            \* idempotency keys clients send
  NoKey,           \* a placement without an idempotency key
  NoBet,           \* an identifier no row uses yet
  Stakes,          \* stakes clients ask for
  Scores,          \* final scores, pairs <<home, away>>
  NoScore,         \* home_score and away_score of a scheduled game
  MaxCorrections   \* bound: score corrections per game

ASSUME WageringAssumption ==
  /\ IsFiniteSet(Bets)
  /\ Quotes \subseteq [game : Games, market : STRING, type : MarketTypes, line : Int,
                       selection : Selections, odds : Int \ {0}]
  /\ NoKey \notin Keys
  /\ Stakes \subseteq Nat \ {0}
  /\ Scores \subseteq Nat \X Nat
  /\ NoScore \notin Scores
  /\ MaxCorrections \in Nat

VARIABLES
  bet,             \* bet[b]: the row of b, or NoBet
  status,          \* status[g]: games.status
  score,           \* score[g]: games.home_score, games.away_score
  beforeCutoff,    \* beforeCutoff[g]: now is over 30 minutes before scheduled_at
  audit            \* audit[g]: the score_corrections rows of g, oldest first

gameVars == <<status, score, beforeCutoff, audit>>
vars == <<account, balance, posted, capital, bet, status, score, beforeCutoff, audit>>

BetRow == [account : Accounts, quote : Quotes, key : Keys \cup {NoKey}, stake : Stakes,
           status : Results \cup {"PENDING"}, payout : Nat]

ASSUME NoBetAssumption == NoBet \notin BetRow

Correction == [original : Scores, corrected : Scores]

TypeOK ==
  /\ LedgerTypeOK
  /\ bet \in [Bets -> BetRow \cup {NoBet}]
  /\ status \in [Games -> {"SCHEDULED", "FINAL"}]
  /\ score \in [Games -> Scores \cup {NoScore}]
  /\ beforeCutoff \in [Games -> BOOLEAN]
  /\ audit \in [Games -> Seq(Correction)]

Init ==
  /\ LedgerInit
  /\ bet = [b \in Bets |-> NoBet]
  /\ status = [g \in Games |-> "SCHEDULED"]
  /\ score = [g \in Games |-> NoScore]
  /\ beforeCutoff = [g \in Games |-> TRUE]
  /\ audit = [g \in Games |-> <<>>]

Placed == {b \in Bets : bet[b] # NoBet}

(* Faulty variant: settlement forgets which game it is for. *)
BetsOnAnyGame(g) == Placed

BetsOn(g) == {b \in Placed : bet[b].quote.game = g}

PendingOn(g) == {b \in BetsOn(g) : bet[b].status = "PENDING"}

KeyUnused(a, key) ==
  \A other \in Placed : bet[other].account = a => key = NoKey \/ bet[other].key # key

(* A new bet: the stake is debited and the row inserted together.  The     *)
(* game's status is not looked at, only its scheduled time.  A request     *)
(* that repeats a key returns the earlier bet, or fails, and changes       *)
(* nothing.                                                                *)
PlaceBet(b, a, q, stake, key) ==
  /\ bet[b] = NoBet
  /\ KeyUnused(a, key)
  /\ beforeCutoff[q.game]
  /\ account[a] = "active"
  /\ balance[a] >= stake
  /\ PostBalancedEntries(Single(a, "WAGER_STAKE", -stake))
  /\ bet' = [bet EXCEPT ![b] = [account |-> a, quote |-> q, key |-> key, stake |-> stake,
                                status |-> "PENDING", payout |-> 0]]
  /\ UNCHANGED <<account, status, score, beforeCutoff, audit>>

(* Faulty variant: the profit is stored where the payout belongs. *)
SettledForProfit(b, s) ==
  [bet[b] EXCEPT !.status = ResultForBet(bet[b].quote, s),
                 !.payout = PayoutCents(bet[b].quote, bet[b].stake, s) - bet[b].stake]

(* The row of bet b once it is settled with score s. *)
Settled(b, s) ==
  [bet[b] EXCEPT !.status = ResultForBet(bet[b].quote, s),
                 !.payout = PayoutCents(bet[b].quote, bet[b].stake, s)]

(* Faulty variant: a correction overlooks the bets that had lost. *)
SettleBetsButLost(S, s) ==
  [b \in Bets |-> IF b \in S /\ bet[b].status # "LOST" THEN Settled(b, s) ELSE bet[b]]

(* The rows after the bets of S have been settled with score s. *)
SettleBets(S, s) == [b \in Bets |-> IF b \in S THEN Settled(b, s) ELSE bet[b]]

(* The sum over account a's bets among S of what `cents` assigns to each. *)
SumOfBets(a, S, cents) ==
  SumFunctionOnSet([b \in Bets |-> IF b \in S /\ bet[b].account = a THEN cents[b] ELSE 0], Bets)

(* Faulty variants: no payout is taken back, or those of pushes are not. *)
SettlementEntriesUnreversed(S, s) ==
  [a \in Accounts |-> [t \in PostingTypes |->
     IF t = "WAGER_PAYOUT" THEN SumOfBets(a, S, [b \in S |-> Settled(b, s).payout]) ELSE 0]]

SettlementEntriesKeepingPushes(S, s) ==
  [a \in Accounts |-> [t \in PostingTypes |->
     CASE t = "ADJUSTMENT"   -> -SumOfBets(a, {b \in S : bet[b].status = "WON"},
                                           [b \in S |-> bet[b].payout])
       [] t = "WAGER_PAYOUT" -> SumOfBets(a, S, [b \in S |-> Settled(b, s).payout])
       [] OTHER              -> 0]]

(* Journal entries of settling the bets of S with score s: a payout posted *)
(* before is taken back by an ADJUSTMENT, then the new one is credited.    *)
SettlementEntries(S, s) ==
  [a \in Accounts |-> [t \in PostingTypes |->
     CASE t = "ADJUSTMENT"   -> -SumOfBets(a, S, [b \in S |-> bet[b].payout])
       [] t = "WAGER_PAYOUT" -> SumOfBets(a, S, [b \in S |-> Settled(b, s).payout])
       [] OTHER              -> 0]]

(* Faulty variant: the status of the game is not looked at. *)
RecordResultRegardless(g, s) ==
  /\ bet' = SettleBets(PendingOn(g), s)
  /\ PostBalancedEntries(SettlementEntries(PendingOn(g), s))
  /\ status' = [status EXCEPT ![g] = "FINAL"]
  /\ score' = [score EXCEPT ![g] = s]
  /\ UNCHANGED <<account, beforeCutoff, audit>>

(* The first final score settles every pending bet on the game.  Repeating *)
(* the score changes nothing, another score is refused.                    *)
RecordGameResult(g, s) ==
  /\ status[g] # "FINAL"
  /\ bet' = SettleBets(PendingOn(g), s)
  /\ PostBalancedEntries(SettlementEntries(PendingOn(g), s))
  /\ status' = [status EXCEPT ![g] = "FINAL"]
  /\ score' = [score EXCEPT ![g] = s]
  /\ UNCHANGED <<account, beforeCutoff, audit>>

(* Faulty variant: the old score is read after the new one is written. *)
CorrectionRowLate(g, s) == [original |-> s, corrected |-> s]

(* The score_corrections row of giving game g the score s. *)
CorrectionRow(g, s) == [original |-> score[g], corrected |-> s]

(* A different score for a final game: every bet on it, pending or not, is *)
(* reversed and settled again, and the correction is recorded.             *)
CorrectGameResult(g, s) ==
  /\ status[g] = "FINAL"
  /\ score[g] # s
  /\ Len(audit[g]) < MaxCorrections
  /\ bet' = SettleBets(BetsOn(g), s)
  /\ PostBalancedEntries(SettlementEntries(BetsOn(g), s))
  /\ score' = [score EXCEPT ![g] = s]
  /\ audit' = [audit EXCEPT ![g] = Append(@, CorrectionRow(g, s))]
  /\ UNCHANGED <<account, status, beforeCutoff>>

(* Time passes the cutoff; a provider's schedule update (sync_games, which *)
(* leaves final games alone) may move kickoff back into the future.        *)
ReachCutoff(g) ==
  /\ beforeCutoff[g]
  /\ beforeCutoff' = [beforeCutoff EXCEPT ![g] = FALSE]
  /\ UNCHANGED <<account, balance, posted, capital, bet, status, score, audit>>

Reschedule(g) ==
  /\ status[g] = "SCHEDULED"
  /\ ~ beforeCutoff[g]
  /\ beforeCutoff' = [beforeCutoff EXCEPT ![g] = TRUE]
  /\ UNCHANGED <<account, balance, posted, capital, bet, status, score, audit>>

Next ==
  \/ LedgerNext /\ UNCHANGED <<bet, status, score, beforeCutoff, audit>>
  \/ \E b \in Bets, a \in Accounts, q \in Quotes, stake \in Stakes, key \in Keys \cup {NoKey} :
       PlaceBet(b, a, q, stake, key)
  \/ \E g \in Games, s \in Scores : RecordGameResult(g, s) \/ CorrectGameResult(g, s)
  \/ \E g \in Games : ReachCutoff(g) \/ Reschedule(g)

Spec == Init /\ [][Next]_vars

-----------------------------------------------------------------------------
(* The stake and payout postings of an account are those of its bets: each *)
(* bet was charged its stake once, and is paid exactly its current payout, *)
(* however often its game's score was corrected.                           *)
JournalMatchesBets ==
  \A a \in Accounts :
    /\ posted[a]["WAGER_STAKE"] = -SumOfBets(a, Placed, [b \in Placed |-> bet[b].stake])
    /\ posted[a]["WAGER_PAYOUT"] + posted[a]["ADJUSTMENT"]
         = SumOfBets(a, Placed, [b \in Placed |-> bet[b].payout])

(* A settled bet carries the result and the payout that its own terms and  *)
(* the game's present final score give; a pending bet has been paid        *)
(* nothing.                                                                *)
SettledByFinalScore ==
  \A b \in Placed :
    /\ bet[b].status = "PENDING" => bet[b].payout = 0
    /\ bet[b].status # "PENDING" => /\ status[bet[b].quote.game] = "FINAL"
                                    /\ bet[b] = Settled(b, score[bet[b].quote.game])

(* A bankroll does not depend on the order of events: what an account      *)
(* holds is its deposits, less its withdrawals and stakes, plus what its   *)
(* settled bets earn under the present final scores.  Correcting a score   *)
(* leaves every account as if the right score had been recorded at once.   *)
BalanceIsExplained ==
  \A a \in Accounts :
    balance[a] =
      posted[a]["DEPOSIT"] + posted[a]["WITHDRAWAL"]
      - SumOfBets(a, Placed, [b \in Placed |-> bet[b].stake])
      + SumOfBets(a, Placed, [b \in Placed |->
          IF bet[b].status = "PENDING" THEN 0
          ELSE PayoutCents(bet[b].quote, bet[b].stake, score[bet[b].quote.game])])

(* uq_bet_idempotency_key seen from the bets: one key of one account never *)
(* names two bets, so a retried placement is charged once.                 *)
OneBetPerKey ==
  \A b, c \in Placed :
    /\ bet[b].account = bet[c].account
    /\ bet[b].key = bet[c].key
    /\ bet[b].key # NoKey
    => b = c

(* Only a score correction can overdraw an account, since post_adjustment  *)
(* alone skips the balance check, and never by more than the corrections   *)
(* have taken back.                                                        *)
OverdraftIsReversal ==
  \A a \in Accounts : posted[a]["ADJUSTMENT"] <= 0 /\ balance[a] >= posted[a]["ADJUSTMENT"]

(* The correction rows of a game are a chain of changes, without a gap,    *)
(* that ends at its present score.                                         *)
AuditTrailReachesScore ==
  \A g \in Games :
    /\ audit[g] # <<>> => audit[g][Len(audit[g])].corrected = score[g]
    /\ \A i \in 1 .. Len(audit[g]) :
         /\ audit[g][i].original # audit[g][i].corrected
         /\ i > 1 => audit[g][i].original = audit[g][i - 1].corrected

(* Once settled, a bet's row changes only in the step that adds a          *)
(* correction row for its game; the terms it was placed at never change.   *)
ChangesAreCorrections ==
  \A b \in Placed :
    /\ bet'[b] # NoBet
    /\ bet'[b] = [bet[b] EXCEPT !.status = bet'[b].status, !.payout = bet'[b].payout]
    /\ bet[b].status # "PENDING" /\ bet'[b] # bet[b]
         => Len(audit'[bet[b].quote.game]) = Len(audit[bet[b].quote.game]) + 1

OnlyCorrectionsResettle == [][ChangesAreCorrections]_vars

(* What becomes of games is what Finality promises, whatever else happens  *)
(* to bets, balances and cutoffs: the rows of a game and its corrections   *)
(* change together, one game in one request.                               *)
Promise == INSTANCE Finality WITH life <- status, trail <- audit

GamesFinalizeOnce == Promise!Spec

(* docs/data/dictionary.md: a bet's status is "Pending after placement and *)
(* finalized atomically when the game score is recorded".                  *)
NoPendingBetOnFinalGame ==
  \A b \in Placed : bet[b].status = "PENDING" => status[bet[b].quote.game] # "FINAL"
=============================================================================
