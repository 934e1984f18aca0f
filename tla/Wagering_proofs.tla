-------------------------- MODULE Wagering_proofs --------------------------
(***************************************************************************)
(* Wagering and what it is made of and part of.                            *)
(*                                                                         *)
(* Ledger: what a balanced journal entry preserves, for any number of      *)
(* accounts.                                                               *)
(*                                                                         *)
(* Wagering: the specification keeps its books for any finite number of    *)
(* accounts and bets, any games, quotes and scores, and any number of      *)
(* corrections.                                                            *)
(*                                                                         *)
(* Sessions: what READ COMMITTED leaves standing, for any number of        *)
(* sessions that overlap, over any accounts, bets and games: the balances  *)
(* may be wrong, but the bets, their keys and their stakes are not.        *)
(*                                                                         *)
(* One session at a time: it implements Wagering, each commit is one       *)
(* request, and the balances are right.                                    *)
(***************************************************************************)
EXTENDS Sessions, Payout_proofs, SequenceTheorems

-----------------------------------------------------------------------------
(* Journal entries. *)

(* Every transaction's postings, as PostBalancedEntries takes them. *)
Entries == [Accounts -> [PostingTypes -> Int]]

LEMMA TotalType ==
  ASSUME NEW byType \in [PostingTypes -> Int]
  PROVE  Total(byType) \in Int
BY DEF Total, PostingTypes

(* A single posting is an entry of its amount, for its account alone. *)
LEMMA SingleEntry ==
  ASSUME NEW a \in Accounts, NEW t \in PostingTypes, NEW amount \in Int
  PROVE  /\ Single(a, t, amount) \in Entries
         /\ \A x \in Accounts : Total(Single(a, t, amount)[x]) = IF x = a THEN amount ELSE 0
         /\ \A x \in Accounts, u \in PostingTypes :
              Single(a, t, amount)[x][u] = IF x = a /\ u = t THEN amount ELSE 0
<1>1. Single(a, t, amount) \in Entries
  BY DEF Single, Entries
<1>2. \A x \in Accounts, u \in PostingTypes :
        Single(a, t, amount)[x][u] = IF x = a /\ u = t THEN amount ELSE 0
  BY DEF Single
<1>3. \A x \in Accounts : Total(Single(a, t, amount)[x]) = IF x = a THEN amount ELSE 0
  BY <1>2 DEF Total, PostingTypes
<1> QED
  BY <1>1, <1>2, <1>3

(* BALANCED ENTRIES KEEP THE BOOKS. A transaction that posts any balanced  *)
(* entries leaves every balance equal to the sum of its postings, and the  *)
(* capital account opposite to all users together.                         *)
LEMMA BalancedEntriesKeepTheBooks ==
  ASSUME LedgerTypeOK, BalanceIsSumOfPostings, CapitalMirrorsUsers,
         NEW entry \in Entries, PostBalancedEntries(entry)
  PROVE  /\ balance' \in [Accounts -> Int]
         /\ posted' \in [Accounts -> [PostingTypes -> Int]]
         /\ capital' \in Int
         /\ \A a \in Accounts : balance'[a] = balance[a] + Total(entry[a])
         /\ \A a \in Accounts, t \in PostingTypes : posted'[a][t] = posted[a][t] + entry[a][t]
         /\ BalanceIsSumOfPostings'
         /\ CapitalMirrorsUsers'
<1> DEFINE net == [a \in Accounts |-> Total(entry[a])]
<1>1. \A a \in Accounts : entry[a] \in [PostingTypes -> Int] /\ net[a] \in Int
  BY TotalType DEF Entries
<1>2. \A a \in Accounts : balance'[a] = balance[a] + Total(entry[a])
  BY DEF PostBalancedEntries
<1>3. \A a \in Accounts, t \in PostingTypes : posted'[a][t] = posted[a][t] + entry[a][t]
  BY DEF PostBalancedEntries
<1>4. balance' \in [Accounts -> Int]
  BY <1>1 DEF LedgerTypeOK, PostBalancedEntries
<1>5. posted' \in [Accounts -> [PostingTypes -> Int]]
  BY <1>1 DEF LedgerTypeOK, PostBalancedEntries
<1>6. IsFiniteSet(Accounts)
  BY LedgerAssumption
<1>7. SumFunctionOnSet(net, Accounts) \in Int
  BY <1>1, <1>6, SumType
<1>8. capital' = capital - SumFunctionOnSet(net, Accounts)
  BY DEF PostBalancedEntries
<1>9. SumFunctionOnSet(balance', Accounts)
        = SumFunctionOnSet(balance, Accounts) + SumFunctionOnSet(net, Accounts)
  <2>1. \A a \in Accounts : balance[a] \in Int
    BY DEF LedgerTypeOK
  <2>2. \A a \in Accounts : balance'[a] = balance[a] + net[a]
    BY <1>2
  <2> HIDE DEF net
  <2> QED
    BY <1>1, <1>6, <2>1, <2>2, SumPlus
<1>10. SumFunctionOnSet(balance, Accounts) \in Int
  BY <1>6, SumType DEF LedgerTypeOK
<1>11. capital' \in Int
  BY <1>7, <1>8 DEF LedgerTypeOK
<1>12. CapitalMirrorsUsers'
  <2> HIDE DEF net
  <2> QED
    BY <1>7, <1>8, <1>9, <1>10 DEF CapitalMirrorsUsers
<1>13. BalanceIsSumOfPostings'
  <2> SUFFICES ASSUME NEW a \in Accounts PROVE balance'[a] = Total(posted'[a])
    BY DEF BalanceIsSumOfPostings
  <2>1. posted[a] \in [PostingTypes -> Int] /\ entry[a] \in [PostingTypes -> Int]
    BY <1>1 DEF LedgerTypeOK
  <2>2. balance[a] = Total(posted[a])
    BY DEF BalanceIsSumOfPostings
  <2>3. Total(posted'[a]) = Total(posted[a]) + Total(entry[a])
    BY <1>3, <2>1 DEF Total, PostingTypes
  <2> QED
    BY <1>2, <2>2, <2>3
<1> QED
  BY <1>2, <1>3, <1>4, <1>5, <1>11, <1>12, <1>13

-----------------------------------------------------------------------------
(* Wagering. *)

(* A game has a score exactly while it is final, and corrections only then. *)
ScoredWhenFinal ==
  \A g \in Games :
    /\ status[g] = "FINAL" => score[g] \in Scores
    /\ audit[g] # <<>> => status[g] = "FINAL"

(* The inductive invariant. *)
IInv ==
  /\ TypeOK
  /\ BalanceIsSumOfPostings
  /\ CapitalMirrorsUsers
  /\ JournalMatchesBets
  /\ SettledByFinalScore
  /\ OneBetPerKey
  /\ OverdraftIsReversal
  /\ ScoredWhenFinal
  /\ AuditTrailReachesScore

-----------------------------------------------------------------------------
(* Facts about the bets of the constants. *)

LEMMA QuoteFacts ==
  ASSUME NEW q \in Quotes
  PROVE  IsQuote(q) /\ q.game \in Games
BY WageringAssumption DEF IsQuote

LEMMA ScoreFacts == \A s \in Scores : s \in Nat \X Nat /\ s # NoScore
BY WageringAssumption

LEMMA RowFacts ==
  ASSUME bet \in [Bets -> BetRow \cup {NoBet}], NEW b \in Placed
  PROVE  /\ b \in Bets /\ bet[b] \in BetRow /\ bet[b] # NoBet
         /\ bet[b].account \in Accounts /\ bet[b].quote \in Quotes
         /\ bet[b].stake \in Nat \ {0} /\ bet[b].payout \in Nat
         /\ bet[b].quote.game \in Games
<1>1. b \in Bets /\ bet[b] # NoBet /\ bet[b] \in BetRow
  BY DEF Placed
<1> QED
  BY <1>1, QuoteFacts, WageringAssumption DEF BetRow

(* Settling a row keeps its terms and yields a row. *)
LEMMA SettledRowFacts ==
  ASSUME bet \in [Bets -> BetRow \cup {NoBet}], NEW b \in Placed, NEW s \in Scores
  PROVE  /\ Settled(b, s) \in BetRow /\ Settled(b, s) # NoBet
         /\ Settled(b, s) = [bet[b] EXCEPT !.status = Settled(b, s).status,
                                           !.payout = Settled(b, s).payout]
         /\ Settled(b, s).account = bet[b].account
         /\ Settled(b, s).quote = bet[b].quote
         /\ Settled(b, s).key = bet[b].key
         /\ Settled(b, s).stake = bet[b].stake
         /\ Settled(b, s).payout \in Nat
         /\ Settled(b, s).payout = PayoutCents(bet[b].quote, bet[b].stake, s)
         /\ Settled(b, s).status = ResultForBet(bet[b].quote, s)
         /\ Settled(b, s).status \in Results
<1>1. bet[b] \in BetRow /\ bet[b].stake \in Nat \ {0} /\ IsQuote(bet[b].quote)
  BY RowFacts, QuoteFacts
<1>2. PayoutCents(bet[b].quote, bet[b].stake, s) \in Nat
  BY <1>1, PayoutType
<1>3. ResultForBet(bet[b].quote, s) \in Results
  BY ResultType
<1>4. Settled(b, s) = [bet[b] EXCEPT !.status = ResultForBet(bet[b].quote, s),
                                     !.payout = PayoutCents(bet[b].quote, bet[b].stake, s)]
  BY DEF Settled
<1>5. Settled(b, s) \in BetRow
  BY <1>1, <1>2, <1>3, <1>4 DEF BetRow
<1>6. Settled(b, s) # NoBet
  BY <1>5, NoBetAssumption
<1> QED
  BY <1>1, <1>2, <1>3, <1>4, <1>5, <1>6 DEF BetRow

(* The same where all of Wagering's state is well typed. *)
LEMMA BetFacts ==
  ASSUME TypeOK, NEW b \in Placed
  PROVE  /\ b \in Bets /\ bet[b] \in BetRow /\ bet[b] # NoBet
         /\ bet[b].account \in Accounts /\ bet[b].quote \in Quotes
         /\ bet[b].stake \in Nat \ {0} /\ bet[b].payout \in Nat
         /\ bet[b].quote.game \in Games
BY RowFacts DEF TypeOK

LEMMA SettledFacts ==
  ASSUME TypeOK, NEW b \in Placed, NEW s \in Scores
  PROVE  /\ Settled(b, s) \in BetRow /\ Settled(b, s) # NoBet
         /\ Settled(b, s) = [bet[b] EXCEPT !.status = Settled(b, s).status,
                                           !.payout = Settled(b, s).payout]
         /\ Settled(b, s).account = bet[b].account
         /\ Settled(b, s).quote = bet[b].quote
         /\ Settled(b, s).key = bet[b].key
         /\ Settled(b, s).stake = bet[b].stake
         /\ Settled(b, s).payout \in Nat
         /\ Settled(b, s).payout = PayoutCents(bet[b].quote, bet[b].stake, s)
         /\ Settled(b, s).status = ResultForBet(bet[b].quote, s)
         /\ Settled(b, s).status \in Results
BY SettledRowFacts DEF TypeOK

(* Settling bets leaves the terms of each as they are. *)
LEMMA SettledKeepsTerms ==
  ASSUME TypeOK, NEW b \in Placed, NEW s \in Scores
  PROVE  /\ Settled(b, s) # NoBet
         /\ Settled(b, s).account = bet[b].account /\ Settled(b, s).key = bet[b].key
         /\ Settled(b, s).quote = bet[b].quote /\ Settled(b, s).stake = bet[b].stake
BY SettledFacts

(* Sums over a set of bets are sums of cents. *)
LEMMA SumOfBetsType ==
  ASSUME NEW a, NEW S \in SUBSET Bets, NEW cents, \A b \in S : cents[b] \in Nat
  PROVE  SumOfBets(a, S, cents) \in Nat
<1> DEFINE f == [b \in Bets |-> IF b \in S /\ bet[b].account = a THEN cents[b] ELSE 0]
<1>1. \A b \in Bets : f[b] \in Nat
  OBVIOUS
<1>2. IsFiniteSet(Bets)
  BY WageringAssumption
<1> HIDE DEF f
<1>3. SumFunctionOnSet(f, Bets) \in Nat
  BY <1>1, <1>2, SumNat
<1> QED
  BY <1>3 DEF f, SumOfBets

(* Settling pays the difference: over all bets of an account, the payouts  *)
(* after the step and those taken back make the payouts before it and      *)
(* those newly credited.                                                   *)
LEMMA PayoutsBalance ==
  ASSUME TypeOK, NEW S \in SUBSET Placed, NEW s \in Scores, NEW a \in Accounts,
         Placed' = Placed,
         \A b \in Placed : bet'[b] = IF b \in S THEN Settled(b, s) ELSE bet[b]
  PROVE  SumOfBets(a, Placed, [b \in Placed |-> bet[b].payout])'
           + SumOfBets(a, S, [b \in S |-> bet[b].payout])
         = SumOfBets(a, Placed, [b \in Placed |-> bet[b].payout])
           + SumOfBets(a, S, [b \in S |-> Settled(b, s).payout])
<1> DEFINE of(b) == bet[b].account = a
           old == [b \in Bets |-> IF b \in Placed /\ of(b)
                                  THEN [c \in Placed |-> bet[c].payout][b] ELSE 0]
           new == [b \in Bets |-> IF b \in Placed' /\ bet'[b].account = a
                                  THEN [c \in Placed' |-> bet'[c].payout][b] ELSE 0]
           back == [b \in Bets |-> IF b \in S /\ of(b)
                                   THEN [c \in S |-> bet[c].payout][b] ELSE 0]
           paid == [b \in Bets |-> IF b \in S /\ of(b)
                                   THEN [c \in S |-> Settled(c, s).payout][b] ELSE 0]
           both == [b \in Bets |-> old[b] + paid[b]]
<1>1. IsFiniteSet(Bets) /\ S \subseteq Placed /\ Placed \subseteq Bets
  BY WageringAssumption DEF Placed
<1>2. ASSUME NEW b \in Bets
      PROVE  /\ old[b] \in Int /\ new[b] \in Int /\ back[b] \in Int /\ paid[b] \in Int
             /\ new[b] + back[b] = old[b] + paid[b]
  <2>1. CASE b \notin Placed
    BY <1>1, <2>1
  <2>2. CASE b \in Placed /\ b \notin S
    <3>1. bet'[b] = bet[b] /\ bet[b].payout \in Nat
      BY <2>2, BetFacts
    <3> QED
      BY <2>2, <3>1
  <2>3. CASE b \in S
    <3>1. /\ bet'[b] = Settled(b, s) /\ bet[b].payout \in Nat
          /\ Settled(b, s).payout \in Nat /\ Settled(b, s).account = bet[b].account
          /\ b \in Placed
      BY <1>1, <2>3, BetFacts, SettledFacts
    <3> QED
      BY <2>3, <3>1
  <2> QED
    BY <2>1, <2>2, <2>3
<1>3. \A b \in Bets : both[b] = new[b] + back[b] /\ both[b] = old[b] + paid[b]
  BY <1>2
<1>4. /\ SumOfBets(a, Placed, [b \in Placed |-> bet[b].payout])' = SumFunctionOnSet(new, Bets)
      /\ SumOfBets(a, Placed, [b \in Placed |-> bet[b].payout]) = SumFunctionOnSet(old, Bets)
      /\ SumOfBets(a, S, [b \in S |-> bet[b].payout]) = SumFunctionOnSet(back, Bets)
      /\ SumOfBets(a, S, [b \in S |-> Settled(b, s).payout]) = SumFunctionOnSet(paid, Bets)
  BY DEF SumOfBets
<1> HIDE DEF old, new, back, paid, both
<1>5. SumFunctionOnSet(both, Bets) = SumFunctionOnSet(new, Bets) + SumFunctionOnSet(back, Bets)
  BY <1>1, <1>2, <1>3, SumPlus
<1>6. SumFunctionOnSet(both, Bets) = SumFunctionOnSet(old, Bets) + SumFunctionOnSet(paid, Bets)
  BY <1>1, <1>2, <1>3, SumPlus
<1> QED
  BY <1>4, <1>5, <1>6

(* Crediting p and taking back b turns what was owed into what is owed.    *)
LEMMA Reposted ==
  ASSUME NEW w \in Int, NEW j \in Int, NEW p \in Int, NEW b \in Int,
         NEW owedBefore, NEW owedAfter \in Int,
         w + j = owedBefore, owedAfter + b = owedBefore + p
  PROVE  (w + p) + (j - b) = owedAfter
OBVIOUS

(* SETTLEMENT KEEPS THE BOOKS, for any set of bets and any score. *)
LEMMA SettlementKeepsTheBooks ==
  ASSUME IInv, NEW S \in SUBSET Placed, NEW s \in Scores,
         bet' = SettleBets(S, s), PostBalancedEntries(SettlementEntries(S, s)),
         UNCHANGED account
  PROVE  /\ LedgerTypeOK' /\ BalanceIsSumOfPostings' /\ CapitalMirrorsUsers'
         /\ bet' \in [Bets -> BetRow \cup {NoBet}] /\ Placed' = Placed
         /\ \A b \in Placed : bet'[b] = IF b \in S THEN Settled(b, s) ELSE bet[b]
         /\ JournalMatchesBets' /\ OneBetPerKey' /\ OverdraftIsReversal'
<1> DEFINE entry == SettlementEntries(S, s)
           back(a) == SumOfBets(a, S, [b \in S |-> bet[b].payout])
           paid(a) == SumOfBets(a, S, [b \in S |-> Settled(b, s).payout])
<1>1. TypeOK /\ LedgerTypeOK /\ S \subseteq Placed /\ Placed \subseteq Bets
  BY DEF IInv, TypeOK, Placed
<1>2. \A b \in Placed : bet'[b] = IF b \in S THEN Settled(b, s) ELSE bet[b]
  BY <1>1 DEF SettleBets
<1>3. bet' \in [Bets -> BetRow \cup {NoBet}]
  <2>1. \A b \in S : Settled(b, s) \in BetRow
    BY <1>1, SettledFacts
  <2> QED
    BY <1>1, <2>1 DEF SettleBets, TypeOK
<1>4. Placed' = Placed
  <2>1. \A b \in S : Settled(b, s) # NoBet /\ bet[b] # NoBet
    BY <1>1, SettledKeepsTerms, BetFacts
  <2>2. \A b \in Bets : bet'[b] = NoBet <=> bet[b] = NoBet
    BY <1>1, <2>1 DEF SettleBets
  <2> QED
    BY <2>2 DEF Placed
<1>5. \A a : back(a) \in Nat /\ paid(a) \in Nat
  <2> SUFFICES ASSUME NEW a PROVE back(a) \in Nat /\ paid(a) \in Nat
    OBVIOUS
  <2>1. \A b \in S : bet[b].payout \in Nat /\ Settled(b, s).payout \in Nat
    BY <1>1, BetFacts, SettledFacts
  <2>2. S \in SUBSET Bets
    BY <1>1
  <2>3. back(a) \in Nat
    BY <2>1, <2>2, SumOfBetsType
  <2>4. paid(a) \in Nat
    BY <2>1, <2>2, SumOfBetsType
  <2> QED
    BY <2>3, <2>4
<1>6. /\ \A a \in Accounts : /\ entry[a]["ADJUSTMENT"] = -back(a)
                             /\ entry[a]["WAGER_PAYOUT"] = paid(a)
                             /\ entry[a]["DEPOSIT"] = 0 /\ entry[a]["WITHDRAWAL"] = 0
                             /\ entry[a]["WAGER_STAKE"] = 0
      /\ entry \in Entries
  <2> HIDE DEF back, paid
  <2>1. entry = [a \in Accounts |-> [t \in PostingTypes |->
                   CASE t = "ADJUSTMENT" -> -back(a)
                     [] t = "WAGER_PAYOUT" -> paid(a)
                     [] OTHER -> 0]]
    BY DEF SettlementEntries, back, paid
  <2> HIDE DEF entry
  <2>2. \A a \in Accounts : /\ entry[a]["ADJUSTMENT"] = -back(a)
                             /\ entry[a]["WAGER_PAYOUT"] = paid(a)
                             /\ entry[a]["DEPOSIT"] = 0 /\ entry[a]["WITHDRAWAL"] = 0
                             /\ entry[a]["WAGER_STAKE"] = 0
    BY <2>1 DEF PostingTypes
  <2>3. ASSUME NEW a \in Accounts, NEW t \in PostingTypes
        PROVE  entry[a][t] \in Int
    BY <1>5, <2>2, <2>3 DEF PostingTypes
  <2>4. entry \in Entries
    BY <2>1, <2>3 DEF Entries
  <2> QED
    BY <2>2, <2>4
<1> HIDE DEF entry, back, paid
<1>7. \A a \in Accounts : Total(entry[a]) = paid(a) - back(a)
  BY <1>5, <1>6 DEF Total
<1>8. /\ balance' \in [Accounts -> Int]
      /\ posted' \in [Accounts -> [PostingTypes -> Int]]
      /\ capital' \in Int
      /\ \A a \in Accounts : balance'[a] = balance[a] + Total(entry[a])
      /\ \A a \in Accounts, t \in PostingTypes : posted'[a][t] = posted[a][t] + entry[a][t]
      /\ BalanceIsSumOfPostings' /\ CapitalMirrorsUsers'
  BY <1>1, <1>6, BalancedEntriesKeepTheBooks DEF IInv, entry
<1>9. LedgerTypeOK'
  BY <1>1, <1>8 DEF LedgerTypeOK
<1>10. ASSUME NEW a \in Accounts
       PROVE  /\ posted'[a]["WAGER_STAKE"] = posted[a]["WAGER_STAKE"]
              /\ posted'[a]["WAGER_PAYOUT"] = posted[a]["WAGER_PAYOUT"] + paid(a)
              /\ posted'[a]["ADJUSTMENT"] = posted[a]["ADJUSTMENT"] - back(a)
              /\ balance'[a] = balance[a] + paid(a) - back(a)
              /\ posted[a]["WAGER_STAKE"] \in Int
              /\ posted[a]["WAGER_PAYOUT"] \in Int
              /\ posted[a]["ADJUSTMENT"] \in Int
              /\ balance[a] \in Int
  BY <1>1, <1>5, <1>6, <1>7, <1>8 DEF LedgerTypeOK, PostingTypes
<1>11. JournalMatchesBets'
  <2> SUFFICES ASSUME NEW a \in Accounts
               PROVE  /\ posted'[a]["WAGER_STAKE"]
                           = -(SumOfBets(a, Placed, [b \in Placed |-> bet[b].stake])')
                      /\ posted'[a]["WAGER_PAYOUT"] + posted'[a]["ADJUSTMENT"]
                           = SumOfBets(a, Placed, [b \in Placed |-> bet[b].payout])'
    BY DEF JournalMatchesBets
  <2>1. SumOfBets(a, Placed, [b \in Placed |-> bet[b].stake])'
          = SumOfBets(a, Placed, [b \in Placed |-> bet[b].stake])
    <3>1. \A b \in Placed : bet'[b].stake = bet[b].stake /\ bet'[b].account = bet[b].account
      BY <1>1, <1>2, SettledKeepsTerms
    <3> DEFINE f == [b \in Bets |-> IF b \in Placed /\ bet[b].account = a
                                    THEN [c \in Placed |-> bet[c].stake][b] ELSE 0]
               g == [b \in Bets |-> IF b \in Placed' /\ bet'[b].account = a
                                    THEN [c \in Placed' |-> bet'[c].stake][b] ELSE 0]
    <3>2. \A b \in Bets : f[b] = g[b]
      BY <1>4, <3>1
    <3>3. SumFunctionOnSet(f, Bets) = SumFunctionOnSet(g, Bets)
      <4> HIDE DEF f, g
      <4> QED
        BY <3>2, SumSame, WageringAssumption
    <3> QED
      BY <3>3 DEF SumOfBets
  <2>2. SumOfBets(a, Placed, [b \in Placed |-> bet[b].payout])' + back(a)
          = SumOfBets(a, Placed, [b \in Placed |-> bet[b].payout]) + paid(a)
    BY <1>1, <1>2, <1>4, PayoutsBalance DEF back, paid
  <2>3. SumOfBets(a, Placed, [b \in Placed |-> bet[b].payout])' \in Int
    <3>1. \A b \in Placed : bet'[b].payout \in Nat
      BY <1>1, <1>2, BetFacts, SettledFacts
    <3> DEFINE f == [b \in Bets |-> IF b \in Placed' /\ bet'[b].account = a
                                    THEN [c \in Placed' |-> bet'[c].payout][b] ELSE 0]
    <3>2. \A b \in Bets : f[b] \in Int
      BY <1>4, <3>1
    <3>3. SumFunctionOnSet(f, Bets) \in Int
      <4> HIDE DEF f
      <4> QED
        BY <3>2, SumType, WageringAssumption
    <3> QED
      BY <3>3 DEF SumOfBets
  <2> DEFINE staked == SumOfBets(a, Placed, [b \in Placed |-> bet[b].stake])
             stakedNow == SumOfBets(a, Placed, [b \in Placed |-> bet[b].stake])'
             owed == SumOfBets(a, Placed, [b \in Placed |-> bet[b].payout])
             owedNow == SumOfBets(a, Placed, [b \in Placed |-> bet[b].payout])'
  <2>4. posted[a]["WAGER_STAKE"] = -staked /\ posted[a]["WAGER_PAYOUT"] + posted[a]["ADJUSTMENT"] = owed
    BY DEF IInv, JournalMatchesBets
  <2>5. stakedNow = staked /\ owedNow + back(a) = owed + paid(a) /\ owedNow \in Int
    BY <2>1, <2>2, <2>3
  <2> HIDE DEF staked, stakedNow, owed, owedNow
  <2>6. /\ posted'[a]["WAGER_STAKE"] = -stakedNow
        /\ posted'[a]["WAGER_PAYOUT"] + posted'[a]["ADJUSTMENT"] = owedNow
    <3>1. posted'[a]["WAGER_STAKE"] = posted[a]["WAGER_STAKE"]
      BY <1>10
    <3>2. /\ posted'[a]["WAGER_PAYOUT"] = posted[a]["WAGER_PAYOUT"] + paid(a)
          /\ posted'[a]["ADJUSTMENT"] = posted[a]["ADJUSTMENT"] - back(a)
          /\ posted[a]["WAGER_PAYOUT"] \in Int /\ posted[a]["ADJUSTMENT"] \in Int
      BY <1>10
    <3>3. paid(a) \in Int /\ back(a) \in Int
      BY <1>5
    <3> HIDE DEF paid, back
    <3>4. posted'[a]["WAGER_STAKE"] = -stakedNow
      BY <3>1, <2>4, <2>5
    <3>5. /\ posted[a]["WAGER_PAYOUT"] + posted[a]["ADJUSTMENT"] = owed
          /\ owedNow + back(a) = owed + paid(a)
          /\ owedNow \in Int
      BY <2>4, <2>5
    <3>6. (posted[a]["WAGER_PAYOUT"] + paid(a)) + (posted[a]["ADJUSTMENT"] - back(a)) = owedNow
      BY <3>2, <3>3, <3>5, Reposted
    <3>7. posted'[a]["WAGER_PAYOUT"] + posted'[a]["ADJUSTMENT"] = owedNow
      BY <3>2, <3>6
    <3> QED
      BY <3>4, <3>7
  <2> QED
    BY <2>6 DEF stakedNow, owedNow
<1>12. OneBetPerKey'
  <2>1. \A b \in Placed : bet'[b].account = bet[b].account /\ bet'[b].key = bet[b].key
    BY <1>1, <1>2, SettledKeepsTerms
  <2> QED
    BY <1>4, <2>1 DEF IInv, OneBetPerKey
<1>13. OverdraftIsReversal'
  <2> SUFFICES ASSUME NEW a \in Accounts
               PROVE  posted'[a]["ADJUSTMENT"] <= 0 /\ balance'[a] >= posted'[a]["ADJUSTMENT"]
    BY DEF OverdraftIsReversal
  <2>1. posted[a]["ADJUSTMENT"] <= 0 /\ balance[a] >= posted[a]["ADJUSTMENT"]
    BY DEF IInv, OverdraftIsReversal
  <2> QED
    BY <1>5, <1>10, <2>1
<1> QED
  BY <1>2, <1>3, <1>4, <1>8, <1>9, <1>11, <1>12, <1>13

-----------------------------------------------------------------------------
(* One lemma per action: the step preserves the invariant. *)

(* Z3's reading of -0 needs this detour. *)
LEMMA Opposite == \A x, y \in Int : x + y = 0 => x = -y
OBVIOUS

LEMMA InitEstablishes == Init => IInv
<1> SUFFICES ASSUME Init PROVE IInv
  OBVIOUS
<1> USE DEF Init, LedgerInit
<1>1. TypeOK
  BY DEF TypeOK, LedgerTypeOK
<1>2. BalanceIsSumOfPostings
  BY DEF BalanceIsSumOfPostings, Total, PostingTypes
<1>3. SumFunctionOnSet(balance, Accounts) = 0
  BY SumZero, LedgerAssumption
<1>4. CapitalMirrorsUsers
  <2> DEFINE held == SumFunctionOnSet(balance, Accounts)
  <2>1. held \in Int /\ capital \in Int /\ capital + held = 0
    BY <1>3
  <2>2. capital = -held
    <3> HIDE DEF held
    <3> QED
      BY <2>1, Opposite
  <2> QED
    BY <2>2 DEF CapitalMirrorsUsers
<1>5. Placed = {}
  BY DEF Placed
<1>6. ASSUME NEW a, NEW cents PROVE SumOfBets(a, Placed, cents) = 0
  <2> DEFINE f == [b \in Bets |-> IF b \in Placed /\ bet[b].account = a THEN cents[b] ELSE 0]
  <2>1. \A b \in Bets : f[b] = 0
    BY <1>5
  <2>2. SumFunctionOnSet(f, Bets) = 0
    <3> HIDE DEF f
    <3> QED
      BY <2>1, SumZero, WageringAssumption
  <2> QED
    BY <2>2 DEF SumOfBets
<1>7. JournalMatchesBets
  BY <1>6 DEF JournalMatchesBets, PostingTypes
<1>8. SettledByFinalScore /\ OneBetPerKey
  BY <1>5 DEF SettledByFinalScore, OneBetPerKey
<1>9. OverdraftIsReversal
  BY DEF OverdraftIsReversal, PostingTypes
<1>10. ScoredWhenFinal /\ AuditTrailReachesScore
  BY DEF ScoredWhenFinal, AuditTrailReachesScore
<1> QED
  BY <1>1, <1>2, <1>4, <1>7, <1>8, <1>9, <1>10 DEF IInv

(* What concerns the bets and games alone is untouched by a step that      *)
(* leaves them alone, and so are the journal's wager totals.               *)
LEMMA BetsUntouched ==
  ASSUME IInv, UNCHANGED <<bet, status, score, beforeCutoff, audit>>,
         LedgerTypeOK',
         \A a \in Accounts : /\ posted'[a]["WAGER_STAKE"] = posted[a]["WAGER_STAKE"]
                             /\ posted'[a]["WAGER_PAYOUT"] = posted[a]["WAGER_PAYOUT"]
                             /\ posted'[a]["ADJUSTMENT"] = posted[a]["ADJUSTMENT"]
  PROVE  /\ TypeOK' /\ JournalMatchesBets' /\ SettledByFinalScore' /\ OneBetPerKey'
         /\ ScoredWhenFinal' /\ AuditTrailReachesScore'
<1>1. TypeOK'
  BY DEF IInv, TypeOK
<1>2. JournalMatchesBets'
  BY DEF IInv, JournalMatchesBets, SumOfBets, Placed
<1>3. SettledByFinalScore'
  BY DEF IInv, SettledByFinalScore, Placed, Settled
<1>4. OneBetPerKey'
  BY DEF IInv, OneBetPerKey, Placed
<1>5. ScoredWhenFinal' /\ AuditTrailReachesScore'
  BY DEF IInv, ScoredWhenFinal, AuditTrailReachesScore
<1> QED
  BY <1>1, <1>2, <1>3, <1>4, <1>5

(* A manual posting to account a that leaves it no more overdrawn than its *)
(* reversals.                                                              *)
LEMMA ManualPosting ==
  ASSUME IInv, UNCHANGED <<bet, status, score, beforeCutoff, audit>>,
         NEW a \in Accounts, NEW t \in PostingTypes, NEW amount \in Int,
         t \in {"DEPOSIT", "WITHDRAWAL"}, PostBalancedEntries(Single(a, t, amount)),
         account' \in [Accounts -> {"absent", "active", "inactive"}],
         balance[a] + amount >= 0 \/ amount >= 0
  PROVE  IInv'
<1>2. /\ Single(a, t, amount) \in Entries
      /\ \A x \in Accounts : Total(Single(a, t, amount)[x]) = IF x = a THEN amount ELSE 0
      /\ \A x \in Accounts, u \in PostingTypes :
           Single(a, t, amount)[x][u] = IF x = a /\ u = t THEN amount ELSE 0
  <2>1. Single(a, t, amount) \in Entries
    BY SingleEntry
  <2>2. \A x \in Accounts : Total(Single(a, t, amount)[x]) = IF x = a THEN amount ELSE 0
    BY SingleEntry
  <2>3. \A x \in Accounts, u \in PostingTypes :
          Single(a, t, amount)[x][u] = IF x = a /\ u = t THEN amount ELSE 0
    BY DEF Single
  <2> QED
    BY <2>1, <2>2, <2>3
<1>3. /\ balance' \in [Accounts -> Int]
      /\ posted' \in [Accounts -> [PostingTypes -> Int]]
      /\ capital' \in Int
      /\ \A x \in Accounts : balance'[x] = balance[x] + Total(Single(a, t, amount)[x])
      /\ \A x \in Accounts, u \in PostingTypes :
           posted'[x][u] = posted[x][u] + Single(a, t, amount)[x][u]
      /\ BalanceIsSumOfPostings' /\ CapitalMirrorsUsers'
  BY <1>2, BalancedEntriesKeepTheBooks DEF IInv, TypeOK
<1>4. LedgerTypeOK'
  BY <1>3 DEF LedgerTypeOK
<1>5. ASSUME NEW x \in Accounts
      PROVE  /\ posted'[x]["WAGER_STAKE"] = posted[x]["WAGER_STAKE"]
             /\ posted'[x]["WAGER_PAYOUT"] = posted[x]["WAGER_PAYOUT"]
             /\ posted'[x]["ADJUSTMENT"] = posted[x]["ADJUSTMENT"]
             /\ posted[x]["ADJUSTMENT"] \in Int /\ balance[x] \in Int
             /\ balance'[x] = balance[x] + (IF x = a THEN amount ELSE 0)
  <2>1. balance[x] \in Int /\ posted[x] \in [PostingTypes -> Int]
    BY DEF IInv, TypeOK, LedgerTypeOK
  <2>2. ASSUME NEW u \in PostingTypes \ {t}
        PROVE  posted'[x][u] = posted[x][u]
    <3>1. Single(a, t, amount)[x][u] = 0
      BY <1>2
    <3>2. posted'[x][u] = posted[x][u] + 0
      BY <1>3, <3>1
    <3>3. posted[x][u] \in Int
      BY <2>1
    <3> QED
      BY <3>2, <3>3
  <2>3. {"WAGER_STAKE", "WAGER_PAYOUT", "ADJUSTMENT"} \subseteq PostingTypes \ {t}
    BY DEF PostingTypes
  <2>4. balance'[x] = balance[x] + (IF x = a THEN amount ELSE 0)
    BY <1>2, <1>3
  <2>5. posted[x]["ADJUSTMENT"] \in Int
    BY <2>1 DEF PostingTypes
  <2>6. /\ posted'[x]["WAGER_STAKE"] = posted[x]["WAGER_STAKE"]
        /\ posted'[x]["WAGER_PAYOUT"] = posted[x]["WAGER_PAYOUT"]
        /\ posted'[x]["ADJUSTMENT"] = posted[x]["ADJUSTMENT"]
    BY <2>2, <2>3
  <2> QED
    BY <2>1, <2>4, <2>5, <2>6
<1>6. /\ TypeOK' /\ JournalMatchesBets' /\ SettledByFinalScore' /\ OneBetPerKey'
      /\ ScoredWhenFinal' /\ AuditTrailReachesScore'
  BY <1>4, <1>5, BetsUntouched
<1>7. OverdraftIsReversal'
  <2> SUFFICES ASSUME NEW x \in Accounts
               PROVE  posted'[x]["ADJUSTMENT"] <= 0 /\ balance'[x] >= posted'[x]["ADJUSTMENT"]
    BY DEF OverdraftIsReversal
  <2>1. posted[x]["ADJUSTMENT"] <= 0 /\ balance[x] >= posted[x]["ADJUSTMENT"]
    BY DEF IInv, OverdraftIsReversal
  <2> QED
    BY <1>5, <2>1
<1> QED
  BY <1>3, <1>6, <1>7 DEF IInv

LEMMA LedgerStepPreserves ==
  ASSUME IInv, LedgerNext, UNCHANGED <<bet, status, score, beforeCutoff, audit>>
  PROVE  IInv'
<1>1. account \in [Accounts -> {"absent", "active", "inactive"}] /\ balance \in [Accounts -> Int]
  BY DEF IInv, TypeOK, LedgerTypeOK
<1>2. ASSUME NEW a \in Accounts, NEW bankroll \in Bankrolls, CreateAccount(a, bankroll)
      PROVE  IInv'
  <2>1. bankroll \in Nat
    BY LedgerAssumption
  <2> QED
    BY <1>1, <1>2, <2>1, ManualPosting DEF CreateAccount, PostingTypes
<1>3. ASSUME NEW a \in Accounts, NEW amount \in Amounts, Deposit(a, amount)
      PROVE  IInv'
  <2>1. amount \in Nat
    BY LedgerAssumption
  <2> QED
    BY <1>1, <1>3, <2>1, ManualPosting DEF Deposit, PostingTypes
<1>4. ASSUME NEW a \in Accounts, NEW amount \in Amounts, Withdraw(a, amount)
      PROVE  IInv'
  <2>1. amount \in Nat /\ -amount \in Int /\ balance[a] + (-amount) >= 0
    BY <1>1, <1>4, LedgerAssumption DEF Withdraw
  <2> QED
    BY <1>1, <1>4, <2>1, ManualPosting DEF Withdraw, PostingTypes
<1>5. ASSUME NEW a \in Accounts, Deactivate(a)
      PROVE  IInv'
  <2>1. LedgerTypeOK' /\ UNCHANGED <<balance, posted, capital>>
    BY <1>5 DEF Deactivate, IInv, TypeOK, LedgerTypeOK
  <2>2. /\ TypeOK' /\ JournalMatchesBets' /\ SettledByFinalScore' /\ OneBetPerKey'
        /\ ScoredWhenFinal' /\ AuditTrailReachesScore'
    BY <2>1, BetsUntouched
  <2>3. BalanceIsSumOfPostings' /\ CapitalMirrorsUsers' /\ OverdraftIsReversal'
    BY <2>1 DEF IInv, BalanceIsSumOfPostings, CapitalMirrorsUsers, OverdraftIsReversal
  <2> QED
    BY <2>2, <2>3 DEF IInv
<1> QED
  BY <1>2, <1>3, <1>4, <1>5 DEF LedgerNext

(* What the ledger, the bets' rows and the games' fields do in a placement. *)
LEMMA PlacementFacts ==
  ASSUME IInv, NEW b \in Bets, NEW a \in Accounts, NEW q \in Quotes, NEW stake \in Stakes,
         NEW key \in Keys \cup {NoKey}, PlaceBet(b, a, q, stake, key)
  PROVE  /\ stake \in Nat /\ b \notin Placed /\ Placed' = Placed \cup {b}
         /\ bet' \in [Bets -> BetRow \cup {NoBet}]
         /\ bet'[b] = [account |-> a, quote |-> q, key |-> key, stake |-> stake,
                       status |-> "PENDING", payout |-> 0]
         /\ \A c \in Placed : bet'[c] = bet[c] /\ c # b
<1> DEFINE row == [account |-> a, quote |-> q, key |-> key, stake |-> stake,
                   status |-> "PENDING", payout |-> 0]
<1>1. bet \in [Bets -> BetRow \cup {NoBet}] /\ bet[b] = NoBet
  BY DEF IInv, TypeOK, PlaceBet
<1>2. row \in BetRow
  BY DEF BetRow
<1>3. row # NoBet
  BY <1>2, NoBetAssumption
<1>4. bet' = [bet EXCEPT ![b] = row]
  BY DEF PlaceBet
<1>5. bet'[b] = row /\ \A c \in Bets \ {b} : bet'[c] = bet[c]
  BY <1>1, <1>4
<1>6. bet' \in [Bets -> BetRow \cup {NoBet}]
  <2> HIDE DEF row
  <2> QED
    BY <1>1, <1>2, <1>4
<1>7. b \notin Placed /\ Placed' = Placed \cup {b}
  <2> HIDE DEF row
  <2> QED
    BY <1>1, <1>3, <1>5 DEF Placed
<1>8. stake \in Nat
  BY WageringAssumption
<1>9. \A c \in Placed : bet'[c] = bet[c] /\ c # b
  BY <1>5, <1>7 DEF Placed
<1> QED
  BY <1>5, <1>6, <1>7, <1>8, <1>9

LEMMA ChangeOneBet ==
  ASSUME NEW f, NEW g, NEW b \in Bets, \A c \in Bets : f[c] \in Int,
         \A c \in Bets \ {b} : g[c] = f[c], g[b] \in Int
  PROVE  SumFunctionOnSet(g, Bets) = SumFunctionOnSet(f, Bets) - f[b] + g[b]
<1>1. IsFiniteSet(Bets)
  BY WageringAssumption
<1> QED
  BY <1>1, SumChangeOne

(* A new bet adds what it is assigned to its own account's sum. *)
LEMMA SumWithNewBet ==
  ASSUME NEW b \in Bets, b \notin Placed, Placed' = Placed \cup {b},
         \A c \in Placed : bet'[c] = bet[c],
         NEW x \in Accounts, NEW old, NEW new,
         \A c \in Placed : old[c] \in Int /\ new[c] = old[c], new[b] \in Int
  PROVE  /\ SumFunctionOnSet([c \in Bets |-> IF c \in Placed' /\ bet'[c].account = x
                                               THEN new[c] ELSE 0], Bets)
           = SumOfBets(x, Placed, old) + (IF bet'[b].account = x THEN new[b] ELSE 0)
         /\ SumOfBets(x, Placed, old) \in Int
<1> DEFINE f == [c \in Bets |-> IF c \in Placed /\ bet[c].account = x THEN old[c] ELSE 0]
           g == [c \in Bets |-> IF c \in Placed' /\ bet'[c].account = x THEN new[c] ELSE 0]
<1>1. IsFiniteSet(Bets)
  BY WageringAssumption
<1>2. f[b] = 0 /\ g[b] = IF bet'[b].account = x THEN new[b] ELSE 0
  OBVIOUS
<1>3. \A c \in Bets : f[c] \in Int
  OBVIOUS
<1>4. \A c \in Bets \ {b} : g[c] = f[c]
  OBVIOUS
<1>5. g[b] \in Int
  BY <1>2
<1>6. /\ SumFunctionOnSet(g, Bets) = SumFunctionOnSet(f, Bets) - f[b] + g[b]
      /\ SumFunctionOnSet(f, Bets) \in Int
  <2> HIDE DEF f, g
  <2>1. SumFunctionOnSet(g, Bets) = SumFunctionOnSet(f, Bets) - f[b] + g[b]
    BY <1>3, <1>4, <1>5, ChangeOneBet
  <2>2. SumFunctionOnSet(f, Bets) \in Int
    BY <1>1, <1>3, SumType
  <2> QED
    BY <2>1, <2>2
<1>7. SumFunctionOnSet(g, Bets) = SumFunctionOnSet(f, Bets) + g[b]
  <2> HIDE DEF f, g
  <2>1. f[b] = 0
    BY <1>2 DEF f
  <2> QED
    BY <1>5, <1>6, <2>1
<1>8. SumOfBets(x, Placed, old) = SumFunctionOnSet(f, Bets)
  BY DEF SumOfBets
<1> QED
  BY <1>2, <1>6, <1>7, <1>8

LEMMA PlaceBetPreserves ==
  ASSUME IInv, NEW b \in Bets, NEW a \in Accounts, NEW q \in Quotes, NEW stake \in Stakes,
         NEW key \in Keys \cup {NoKey}, PlaceBet(b, a, q, stake, key)
  PROVE  IInv'
<1>1. /\ stake \in Nat /\ b \notin Placed /\ Placed' = Placed \cup {b}
      /\ bet' \in [Bets -> BetRow \cup {NoBet}]
      /\ bet'[b] = [account |-> a, quote |-> q, key |-> key, stake |-> stake,
                    status |-> "PENDING", payout |-> 0]
      /\ \A c \in Placed : bet'[c] = bet[c] /\ c # b
  BY PlacementFacts
<1>2. TypeOK /\ LedgerTypeOK /\ BalanceIsSumOfPostings /\ CapitalMirrorsUsers
  BY DEF IInv, TypeOK
<1>3. /\ PostBalancedEntries(Single(a, "WAGER_STAKE", -stake)) /\ balance[a] >= stake
      /\ UNCHANGED <<account, status, score, beforeCutoff, audit>>
  BY DEF PlaceBet
<1>4. "WAGER_STAKE" \in PostingTypes /\ -stake \in Int
  BY <1>1 DEF PostingTypes
<1>5. Single(a, "WAGER_STAKE", -stake) \in Entries
  BY <1>4, SingleEntry
<1>6. /\ balance' \in [Accounts -> Int]
      /\ posted' \in [Accounts -> [PostingTypes -> Int]]
      /\ capital' \in Int
      /\ \A x \in Accounts : balance'[x] = balance[x] + Total(Single(a, "WAGER_STAKE", -stake)[x])
      /\ \A x \in Accounts, u \in PostingTypes :
           posted'[x][u] = posted[x][u] + Single(a, "WAGER_STAKE", -stake)[x][u]
      /\ BalanceIsSumOfPostings' /\ CapitalMirrorsUsers'
  BY <1>2, <1>3, <1>5, BalancedEntriesKeepTheBooks
<1>7. ASSUME NEW x \in Accounts
      PROVE  /\ balance[x] \in Int /\ posted[x] \in [PostingTypes -> Int]
             /\ balance'[x] = balance[x] + (IF x = a THEN -stake ELSE 0)
             /\ posted'[x]["WAGER_STAKE"]
                  = posted[x]["WAGER_STAKE"] + (IF x = a THEN -stake ELSE 0)
             /\ posted'[x]["WAGER_PAYOUT"] = posted[x]["WAGER_PAYOUT"]
             /\ posted'[x]["ADJUSTMENT"] = posted[x]["ADJUSTMENT"]
  <2>1. balance[x] \in Int /\ posted[x] \in [PostingTypes -> Int]
    BY <1>2 DEF LedgerTypeOK
  <2>2. Total(Single(a, "WAGER_STAKE", -stake)[x]) = IF x = a THEN -stake ELSE 0
    BY <1>4, SingleEntry
  <2>3. \A u \in PostingTypes : Single(a, "WAGER_STAKE", -stake)[x][u]
                                 = IF x = a /\ u = "WAGER_STAKE" THEN -stake ELSE 0
    BY DEF Single
  <2>4. {"WAGER_STAKE", "WAGER_PAYOUT", "ADJUSTMENT"} \subseteq PostingTypes
    BY DEF PostingTypes
  <2>5. posted'[x]["WAGER_STAKE"] = posted[x]["WAGER_STAKE"] + (IF x = a THEN -stake ELSE 0)
    BY <1>6, <2>3, <2>4
  <2>6. \A u \in PostingTypes \ {"WAGER_STAKE"} : posted'[x][u] = posted[x][u]
    BY <1>6, <2>1, <2>3
  <2> QED
    BY <1>6, <2>1, <2>2, <2>4, <2>5, <2>6
<1>8. TypeOK'
  BY <1>1, <1>2, <1>3, <1>6 DEF TypeOK, LedgerTypeOK
<1>9. JournalMatchesBets'
  <2> SUFFICES ASSUME NEW x \in Accounts
               PROVE  /\ posted'[x]["WAGER_STAKE"]
                           = -(SumOfBets(x, Placed, [c \in Placed |-> bet[c].stake])')
                      /\ posted'[x]["WAGER_PAYOUT"] + posted'[x]["ADJUSTMENT"]
                           = SumOfBets(x, Placed, [c \in Placed |-> bet[c].payout])'
    BY DEF JournalMatchesBets
  <2> DEFINE staked == SumOfBets(x, Placed, [c \in Placed |-> bet[c].stake])
             stakedNow == SumOfBets(x, Placed, [c \in Placed |-> bet[c].stake])'
             owed == SumOfBets(x, Placed, [c \in Placed |-> bet[c].payout])
             owedNow == SumOfBets(x, Placed, [c \in Placed |-> bet[c].payout])'
  <2>1. stakedNow = staked + (IF x = a THEN stake ELSE 0) /\ staked \in Int
    <3> DEFINE old == [c \in Placed |-> bet[c].stake]
               new == [c \in Placed' |-> bet'[c].stake]
    <3>1. \A c \in Placed : old[c] \in Int /\ new[c] = old[c]
      BY <1>1, <1>2, BetFacts
    <3>2. new[b] = stake /\ bet'[b].account = a
      BY <1>1
    <3>3. stakedNow = SumFunctionOnSet([c \in Bets |-> IF c \in Placed' /\ bet'[c].account = x
                                                       THEN new[c] ELSE 0], Bets)
      BY DEF SumOfBets
    <3> HIDE DEF old, new
    <3>4. /\ stakedNow = SumOfBets(x, Placed, old) + (IF bet'[b].account = x THEN new[b] ELSE 0)
          /\ SumOfBets(x, Placed, old) \in Int
      <4> HIDE DEF stakedNow
      <4> QED
        BY <1>1, <1>2, <3>1, <3>2, <3>3, SumWithNewBet
    <3> QED
      BY <3>2, <3>4 DEF old
  <2>2. owedNow = owed /\ owed \in Int
    <3> DEFINE old == [c \in Placed |-> bet[c].payout]
               new == [c \in Placed' |-> bet'[c].payout]
    <3>1. \A c \in Placed : old[c] \in Int /\ new[c] = old[c]
      BY <1>1, <1>2, BetFacts
    <3>2. new[b] = 0
      BY <1>1
    <3>3. owedNow = SumFunctionOnSet([c \in Bets |-> IF c \in Placed' /\ bet'[c].account = x
                                                     THEN new[c] ELSE 0], Bets)
      BY DEF SumOfBets
    <3> HIDE DEF old, new
    <3>4. /\ owedNow = SumOfBets(x, Placed, old) + (IF bet'[b].account = x THEN new[b] ELSE 0)
          /\ SumOfBets(x, Placed, old) \in Int
      <4> HIDE DEF owedNow
      <4> QED
        BY <1>1, <1>2, <3>1, <3>2, <3>3, SumWithNewBet
    <3> QED
      BY <3>2, <3>4 DEF old
  <2>3. posted[x]["WAGER_STAKE"] = -staked /\ posted[x]["WAGER_PAYOUT"] + posted[x]["ADJUSTMENT"] = owed
    BY DEF IInv, JournalMatchesBets
  <2> HIDE DEF staked, stakedNow, owed, owedNow
  <2>4. /\ posted'[x]["WAGER_STAKE"] = -stakedNow
        /\ posted'[x]["WAGER_PAYOUT"] + posted'[x]["ADJUSTMENT"] = owedNow
    BY <1>1, <1>7, <2>1, <2>2, <2>3
  <2> QED
    BY <2>4 DEF stakedNow, owedNow
<1>10. SettledByFinalScore'
  <2>1. bet'[b].status = "PENDING" /\ bet'[b].payout = 0
    BY <1>1
  <2>2. ASSUME NEW c \in Placed
        PROVE  /\ bet'[c].status = "PENDING" => bet'[c].payout = 0
               /\ bet'[c].status # "PENDING" =>
                    /\ status'[bet'[c].quote.game] = "FINAL"
                    /\ bet'[c] = Settled(c, score[bet[c].quote.game])'
    BY <1>1, <1>3 DEF IInv, SettledByFinalScore, Settled
  <2> QED
    BY <1>1, <2>1, <2>2 DEF SettledByFinalScore
<1>11. OneBetPerKey'
  <2>1. \A c \in Placed : bet[c].account = a => key = NoKey \/ bet[c].key # key
    BY DEF PlaceBet, KeyUnused
  <2> QED
    BY <1>1, <2>1 DEF IInv, OneBetPerKey
<1>12. OverdraftIsReversal'
  <2> SUFFICES ASSUME NEW x \in Accounts
               PROVE  posted'[x]["ADJUSTMENT"] <= 0 /\ balance'[x] >= posted'[x]["ADJUSTMENT"]
    BY DEF OverdraftIsReversal
  <2>1. posted[x]["ADJUSTMENT"] <= 0 /\ balance[x] >= posted[x]["ADJUSTMENT"]
    BY DEF IInv, OverdraftIsReversal
  <2>2. posted[x]["ADJUSTMENT"] \in Int
    BY <1>7 DEF PostingTypes
  <2> QED
    BY <1>1, <1>3, <1>7, <2>1, <2>2
<1>13. ScoredWhenFinal' /\ AuditTrailReachesScore'
  BY <1>3 DEF IInv, ScoredWhenFinal, AuditTrailReachesScore
<1> QED
  BY <1>6, <1>8, <1>9, <1>10, <1>11, <1>12, <1>13 DEF IInv

(* Settling a row again with the same score changes nothing. *)
LEMMA SettledTwice ==
  ASSUME TypeOK, NEW b \in Placed, NEW s \in Scores, NEW row, row = Settled(b, s)
  PROVE  row = [row EXCEPT !.status = ResultForBet(row.quote, s),
                           !.payout = PayoutCents(row.quote, row.stake, s)]
<1>1. row \in BetRow /\ row.quote = bet[b].quote /\ row.stake = bet[b].stake
  BY SettledFacts
<1>2. row.status = ResultForBet(row.quote, s) /\ row.payout = PayoutCents(row.quote, row.stake, s)
  BY <1>1, SettledFacts
<1> QED
  BY <1>1, <1>2 DEF BetRow

LEMMA RecordPreserves ==
  ASSUME IInv, NEW g \in Games, NEW s \in Scores, RecordGameResult(g, s)
  PROVE  IInv'
<1>1. /\ TypeOK /\ PendingOn(g) \in SUBSET Placed /\ s \in Scores
      /\ status[g] # "FINAL" /\ audit[g] = <<>>
  BY DEF IInv, ScoredWhenFinal, RecordGameResult, PendingOn, BetsOn
<1>2. /\ bet' = SettleBets(PendingOn(g), s)
      /\ PostBalancedEntries(SettlementEntries(PendingOn(g), s))
      /\ status' = [status EXCEPT ![g] = "FINAL"] /\ score' = [score EXCEPT ![g] = s]
      /\ UNCHANGED <<account, beforeCutoff, audit>>
  BY DEF RecordGameResult
<1>3. /\ LedgerTypeOK' /\ BalanceIsSumOfPostings' /\ CapitalMirrorsUsers'
      /\ bet' \in [Bets -> BetRow \cup {NoBet}] /\ Placed' = Placed
      /\ \A b \in Placed : bet'[b] = IF b \in PendingOn(g) THEN Settled(b, s) ELSE bet[b]
      /\ JournalMatchesBets' /\ OneBetPerKey' /\ OverdraftIsReversal'
  BY <1>1, <1>2, SettlementKeepsTheBooks
<1>4. /\ status'[g] = "FINAL" /\ score'[g] = s
      /\ \A h \in Games \ {g} : status'[h] = status[h] /\ score'[h] = score[h]
  BY <1>1, <1>2 DEF TypeOK
<1>5. TypeOK'
  BY <1>1, <1>2, <1>3 DEF TypeOK
<1>6. ScoredWhenFinal' /\ AuditTrailReachesScore'
  BY <1>1, <1>2, <1>4 DEF IInv, ScoredWhenFinal, AuditTrailReachesScore
<1>7. SettledByFinalScore'
  <2> SUFFICES ASSUME NEW b \in Placed
               PROVE  /\ bet'[b].status = "PENDING" => bet'[b].payout = 0
                      /\ bet'[b].status # "PENDING" =>
                           /\ status'[bet'[b].quote.game] = "FINAL"
                           /\ bet'[b] = Settled(b, score[bet[b].quote.game])'
    BY <1>3 DEF SettledByFinalScore
  <2>1. CASE b \in PendingOn(g)
    <3>1. bet[b].quote.game = g /\ bet'[b] = Settled(b, s)
      BY <1>3, <2>1 DEF PendingOn, BetsOn
    <3>2. bet'[b].quote = bet[b].quote /\ bet'[b].status \in Results
      <4>1. Settled(b, s).quote = bet[b].quote /\ Settled(b, s).status \in Results
        BY <1>1, SettledFacts
      <4> QED
        BY <3>1, <4>1
    <3>3. bet'[b] = [bet'[b] EXCEPT !.status = ResultForBet(bet'[b].quote, s),
                                    !.payout = PayoutCents(bet'[b].quote, bet'[b].stake, s)]
      BY <1>1, <3>1, SettledTwice
    <3>4. score'[bet'[b].quote.game] = s
      BY <1>4, <3>1, <3>2
    <3>5. bet'[b] = Settled(b, score[bet[b].quote.game])'
      BY <3>3, <3>4 DEF Settled
    <3> QED
      BY <1>4, <3>1, <3>2, <3>5 DEF Results
  <2>2. CASE b \notin PendingOn(g)
    <3>1. bet'[b] = bet[b] /\ bet[b].quote.game \in Games
      BY <1>1, <1>3, <2>2, BetFacts
    <3>2. bet[b].status = "PENDING" => bet[b].payout = 0
      BY DEF IInv, SettledByFinalScore
    <3>3. ASSUME bet[b].status # "PENDING"
          PROVE  /\ status[bet[b].quote.game] = "FINAL"
                 /\ bet[b] = Settled(b, score[bet[b].quote.game])
      BY <3>3 DEF IInv, SettledByFinalScore
    <3>4. bet[b].status # "PENDING" => bet[b].quote.game \in Games \ {g}
      BY <1>1, <3>1, <3>3
    <3> QED
      BY <1>4, <3>1, <3>2, <3>3, <3>4 DEF Settled
  <2> QED
    BY <2>1, <2>2
<1> QED
  BY <1>3, <1>5, <1>6, <1>7 DEF IInv

LEMMA CorrectPreserves ==
  ASSUME IInv, NEW g \in Games, NEW s \in Scores, CorrectGameResult(g, s)
  PROVE  IInv'
<1>1. /\ TypeOK /\ BetsOn(g) \in SUBSET Placed /\ s \in Scores
      /\ status[g] = "FINAL" /\ score[g] \in Scores /\ score[g] # s
      /\ audit[g] \in Seq(Correction)
  BY DEF IInv, ScoredWhenFinal, CorrectGameResult, BetsOn, TypeOK
<1>2. /\ bet' = SettleBets(BetsOn(g), s)
      /\ PostBalancedEntries(SettlementEntries(BetsOn(g), s))
      /\ score' = [score EXCEPT ![g] = s]
      /\ audit' = [audit EXCEPT ![g] = Append(@, [original |-> score[g], corrected |-> s])]
      /\ UNCHANGED <<account, status, beforeCutoff>>
  BY DEF CorrectGameResult, CorrectionRow
<1>3. /\ LedgerTypeOK' /\ BalanceIsSumOfPostings' /\ CapitalMirrorsUsers'
      /\ bet' \in [Bets -> BetRow \cup {NoBet}] /\ Placed' = Placed
      /\ \A b \in Placed : bet'[b] = IF b \in BetsOn(g) THEN Settled(b, s) ELSE bet[b]
      /\ JournalMatchesBets' /\ OneBetPerKey' /\ OverdraftIsReversal'
  BY <1>1, <1>2, SettlementKeepsTheBooks
<1>4. /\ score'[g] = s
      /\ audit'[g] = Append(audit[g], [original |-> score[g], corrected |-> s])
      /\ \A h \in Games \ {g} : score'[h] = score[h] /\ audit'[h] = audit[h]
  BY <1>1, <1>2 DEF TypeOK
<1>5. [original |-> score[g], corrected |-> s] \in Correction
  BY <1>1 DEF Correction
<1>6. TypeOK'
  BY <1>1, <1>2, <1>3, <1>5 DEF TypeOK
<1>7. ScoredWhenFinal'
  BY <1>1, <1>2, <1>4 DEF IInv, ScoredWhenFinal
<1>8. AuditTrailReachesScore'
  <2> SUFFICES ASSUME NEW h \in Games
               PROVE  /\ audit'[h] # <<>> => audit'[h][Len(audit'[h])].corrected = score'[h]
                      /\ \A i \in 1 .. Len(audit'[h]) :
                           /\ audit'[h][i].original # audit'[h][i].corrected
                           /\ i > 1 => audit'[h][i].original = audit'[h][i - 1].corrected
    BY DEF AuditTrailReachesScore
  <2>1. /\ audit[h] # <<>> => audit[h][Len(audit[h])].corrected = score[h]
        /\ \A i \in 1 .. Len(audit[h]) :
             /\ audit[h][i].original # audit[h][i].corrected
             /\ i > 1 => audit[h][i].original = audit[h][i - 1].corrected
    BY DEF IInv, AuditTrailReachesScore
  <2>2. CASE h # g
    BY <1>4, <2>1, <2>2
  <2>3. CASE h = g
    <3> DEFINE n == Len(audit[g])
               row == [original |-> score[g], corrected |-> s]
    <3>1. n \in Nat /\ Len(audit'[g]) = n + 1 /\ audit'[g][n + 1] = row
      BY <1>1, <1>4
    <3>2. \A i \in 1 .. n : audit'[g][i] = audit[g][i]
      BY <1>1, <1>4
    <3>3. row.original # row.corrected /\ row.corrected = score'[g]
      BY <1>1, <1>4
    <3>4. n > 0 => row.original = audit[g][n].corrected
      BY <1>1, <2>1, <2>3
    <3>5. ASSUME NEW i \in 1 .. n + 1
          PROVE  /\ audit'[g][i].original # audit'[g][i].corrected
                 /\ i > 1 => audit'[g][i].original = audit'[g][i - 1].corrected
      <4>1. CASE i = n + 1
        BY <3>1, <3>2, <3>3, <3>4, <4>1
      <4>2. CASE i \in 1 .. n
        <5>1. audit'[g][i] = audit[g][i]
          BY <3>2, <4>2
        <5>2. i > 1 => i - 1 \in 1 .. n /\ audit'[g][i - 1] = audit[g][i - 1]
          BY <3>1, <3>2, <4>2
        <5> QED
          BY <2>1, <2>3, <4>2, <5>1, <5>2
      <4> QED
        BY <3>1, <4>1, <4>2
    <3> QED
      BY <2>3, <3>1, <3>3, <3>5
  <2> QED
    BY <2>2, <2>3
<1>9. SettledByFinalScore'
  <2> SUFFICES ASSUME NEW b \in Placed
               PROVE  /\ bet'[b].status = "PENDING" => bet'[b].payout = 0
                      /\ bet'[b].status # "PENDING" =>
                           /\ status'[bet'[b].quote.game] = "FINAL"
                           /\ bet'[b] = Settled(b, score[bet[b].quote.game])'
    BY <1>3 DEF SettledByFinalScore
  <2>1. CASE b \in BetsOn(g)
    <3>1. bet[b].quote.game = g /\ bet'[b] = Settled(b, s)
      BY <1>3, <2>1 DEF BetsOn
    <3>2. bet'[b].quote = bet[b].quote /\ bet'[b].status \in Results
      <4>1. Settled(b, s).quote = bet[b].quote /\ Settled(b, s).status \in Results
        BY <1>1, SettledFacts
      <4> QED
        BY <3>1, <4>1
    <3>3. bet'[b] = [bet'[b] EXCEPT !.status = ResultForBet(bet'[b].quote, s),
                                    !.payout = PayoutCents(bet'[b].quote, bet'[b].stake, s)]
      BY <1>1, <3>1, SettledTwice
    <3>4. score'[bet'[b].quote.game] = s
      BY <1>4, <3>1, <3>2
    <3>5. bet'[b] = Settled(b, score[bet[b].quote.game])'
      BY <3>3, <3>4 DEF Settled
    <3> QED
      BY <1>1, <1>2, <3>1, <3>2, <3>5 DEF Results
  <2>2. CASE b \notin BetsOn(g)
    <3>1. bet'[b] = bet[b] /\ bet[b].quote.game \in Games \ {g}
      BY <1>1, <1>3, <2>2, BetFacts DEF BetsOn
    <3>2. bet[b].status = "PENDING" => bet[b].payout = 0
      BY DEF IInv, SettledByFinalScore
    <3>3. bet[b].status # "PENDING" => /\ status[bet[b].quote.game] = "FINAL"
                                      /\ bet[b] = Settled(b, score[bet[b].quote.game])
      BY DEF IInv, SettledByFinalScore
    <3> QED
      BY <1>2, <1>4, <3>1, <3>2, <3>3 DEF Settled
  <2> QED
    BY <2>1, <2>2
<1> QED
  BY <1>3, <1>6, <1>7, <1>8, <1>9 DEF IInv

(* A step that leaves everything but the clock alone. *)
LEMMA OnlyTimePasses ==
  ASSUME IInv, UNCHANGED <<account, balance, posted, capital, bet, status, score, audit>>,
         beforeCutoff' \in [Games -> BOOLEAN]
  PROVE  IInv'
<1>1. TypeOK' /\ BalanceIsSumOfPostings' /\ CapitalMirrorsUsers'
  BY DEF IInv, TypeOK, LedgerTypeOK, BalanceIsSumOfPostings, CapitalMirrorsUsers
<1>2. JournalMatchesBets'
  BY DEF IInv, JournalMatchesBets, SumOfBets, Placed
<1>3. SettledByFinalScore'
  BY DEF IInv, SettledByFinalScore, Placed, Settled
<1>4. OneBetPerKey' /\ OverdraftIsReversal'
  BY DEF IInv, OneBetPerKey, Placed, OverdraftIsReversal
<1>5. ScoredWhenFinal' /\ AuditTrailReachesScore'
  BY DEF IInv, ScoredWhenFinal, AuditTrailReachesScore
<1> QED
  BY <1>1, <1>2, <1>3, <1>4, <1>5 DEF IInv

LEMMA ClockPreserves ==
  ASSUME IInv, NEW g \in Games, ReachCutoff(g) \/ Reschedule(g)
  PROVE  IInv'
<1>1. /\ UNCHANGED <<account, balance, posted, capital, bet, status, score, audit>>
      /\ beforeCutoff' \in [Games -> BOOLEAN]
  BY DEF ReachCutoff, Reschedule, IInv, TypeOK
<1> QED
  BY <1>1, OnlyTimePasses

-----------------------------------------------------------------------------
(* Every step keeps the inductive invariant. *)
LEMMA IInvKept ==
  ASSUME IInv, [Next]_vars
  PROVE  IInv'
<1>1. CASE LedgerNext /\ UNCHANGED <<bet, status, score, beforeCutoff, audit>>
  BY <1>1, LedgerStepPreserves
<1>2. ASSUME NEW b \in Bets, NEW a \in Accounts, NEW q \in Quotes, NEW stake \in Stakes,
             NEW key \in Keys \cup {NoKey}, PlaceBet(b, a, q, stake, key)
      PROVE  IInv'
  BY <1>2, PlaceBetPreserves
<1>3. ASSUME NEW g \in Games, NEW s \in Scores, RecordGameResult(g, s)
      PROVE  IInv'
  BY <1>3, RecordPreserves
<1>4. ASSUME NEW g \in Games, NEW s \in Scores, CorrectGameResult(g, s)
      PROVE  IInv'
  BY <1>4, CorrectPreserves
<1>5. ASSUME NEW g \in Games, ReachCutoff(g) \/ Reschedule(g)
      PROVE  IInv'
  BY <1>5, ClockPreserves
<1>6. CASE UNCHANGED vars
  <2>1. /\ UNCHANGED <<account, balance, posted, capital, bet, status, score, audit>>
        /\ beforeCutoff' \in [Games -> BOOLEAN]
    BY <1>6 DEF vars, IInv, TypeOK
  <2> QED
    BY <2>1, OnlyTimePasses
<1> QED
  BY <1>1, <1>2, <1>3, <1>4, <1>5, <1>6 DEF Next

(* The inductive invariant holds of every reachable state. *)
LEMMA Invariance == Spec => []IInv
BY InitEstablishes, IInvKept, PTL DEF Spec

(* The balance an account has is the one its bets and scores explain. *)
LEMMA InvariantExplainsBalance ==
  ASSUME IInv
  PROVE  BalanceIsExplained
<1> SUFFICES ASSUME NEW a \in Accounts
             PROVE  balance[a] =
                      posted[a]["DEPOSIT"] + posted[a]["WITHDRAWAL"]
                      - SumOfBets(a, Placed, [b \in Placed |-> bet[b].stake])
                      + SumOfBets(a, Placed, [b \in Placed |->
                          IF bet[b].status = "PENDING" THEN 0
                          ELSE PayoutCents(bet[b].quote, bet[b].stake, score[bet[b].quote.game])])
  BY DEF BalanceIsExplained
<1> DEFINE earned == [b \in Placed |->
                        IF bet[b].status = "PENDING" THEN 0
                        ELSE PayoutCents(bet[b].quote, bet[b].stake, score[bet[b].quote.game])]
           staked == SumOfBets(a, Placed, [b \in Placed |-> bet[b].stake])
           owed == SumOfBets(a, Placed, [b \in Placed |-> bet[b].payout])
<1>1. TypeOK /\ Placed \in SUBSET Bets
  BY DEF IInv, Placed
<1>2. \A b \in Placed : bet[b].payout = earned[b]
  <2> SUFFICES ASSUME NEW b \in Placed PROVE bet[b].payout = earned[b]
    OBVIOUS
  <2>1. CASE bet[b].status = "PENDING"
    BY <2>1 DEF IInv, SettledByFinalScore
  <2>2. CASE bet[b].status # "PENDING"
    <3>1. /\ status[bet[b].quote.game] = "FINAL"
          /\ bet[b] = Settled(b, score[bet[b].quote.game])
      BY <2>2 DEF IInv, SettledByFinalScore
    <3>2. bet[b].quote.game \in Games
      BY <1>1, BetFacts
    <3>3. score[bet[b].quote.game] \in Scores
      BY <3>1, <3>2 DEF IInv, ScoredWhenFinal
    <3>4. Settled(b, score[bet[b].quote.game]).payout
            = PayoutCents(bet[b].quote, bet[b].stake, score[bet[b].quote.game])
      BY <1>1, <3>3, SettledFacts
    <3> QED
      BY <2>2, <3>1, <3>4
  <2> QED
    BY <2>1, <2>2
<1>3. SumOfBets(a, Placed, earned) = owed
  <2> DEFINE f == [b \in Bets |-> IF b \in Placed /\ bet[b].account = a THEN earned[b] ELSE 0]
             g == [b \in Bets |-> IF b \in Placed /\ bet[b].account = a
                                  THEN [c \in Placed |-> bet[c].payout][b] ELSE 0]
  <2>1. \A b \in Bets : f[b] = g[b]
    <3> HIDE DEF earned
    <3> QED
      BY <1>2
  <2>2. SumFunctionOnSet(f, Bets) = SumFunctionOnSet(g, Bets)
    <3> HIDE DEF f, g
    <3> QED
      BY <2>1, SumSame, WageringAssumption
  <2> QED
    BY <2>2 DEF SumOfBets
<1>4. staked \in Nat
  <2>1. \A b \in Placed : [c \in Placed |-> bet[c].stake][b] \in Nat
    BY <1>1, BetFacts
  <2> QED
    BY <1>1, <2>1, SumOfBetsType
<1>5. posted[a]["WAGER_STAKE"] = -staked /\ posted[a]["WAGER_PAYOUT"] + posted[a]["ADJUSTMENT"] = owed
  BY DEF IInv, JournalMatchesBets
<1>6. balance[a] = posted[a]["DEPOSIT"] + posted[a]["WITHDRAWAL"] + posted[a]["WAGER_STAKE"]
                     + posted[a]["WAGER_PAYOUT"] + posted[a]["ADJUSTMENT"]
  BY DEF IInv, BalanceIsSumOfPostings, Total
<1>7. \A t \in PostingTypes : posted[a][t] \in Int
  BY DEF IInv, TypeOK, LedgerTypeOK
<1>8. balance[a] = posted[a]["DEPOSIT"] + posted[a]["WITHDRAWAL"] - staked + owed
  <2> HIDE DEF staked, owed
  <2> QED
    BY <1>4, <1>5, <1>6, <1>7 DEF PostingTypes
<1> QED
  BY <1>3, <1>8

-----------------------------------------------------------------------------
(* TYPE CORRECTNESS. Rows, scores and audit trails stay well formed: every *)
(* bet names an existing quote and account, and no payout is negative.     *)
THEOREM TypeCorrect == Spec => []TypeOK
<1>1. IInv => TypeOK
  BY DEF IInv
<1> QED
  BY <1>1, Invariance, PTL

(* DOUBLE ENTRY. Placements, settlements and corrections of any number of  *)
(* bets leave the capital account opposite to the users' balances, as      *)
(* _post_balanced_entry intends.                                           *)
THEOREM BooksBalance == Spec => []CapitalMirrorsUsers
<1>1. IInv => CapitalMirrorsUsers
  BY DEF IInv
<1> QED
  BY <1>1, Invariance, PTL

(* RECONCILIATION. reconcile_account_balance never finds a discrepancy     *)
(* when requests are serialised.                                           *)
THEOREM BalancesReconcile == Spec => []BalanceIsSumOfPostings
<1>1. IInv => BalanceIsSumOfPostings
  BY DEF IInv
<1> QED
  BY <1>1, Invariance, PTL

(* NO BET IS CHARGED OR PAID TWICE. However often place_bet is retried and *)
(* correct_game_result reverses and re-settles, an account's stake and     *)
(* payout postings are those of its bets.                                  *)
THEOREM JournalTracksBets == Spec => []JournalMatchesBets
<1>1. IInv => JournalMatchesBets
  BY DEF IInv
<1> QED
  BY <1>1, Invariance, PTL

(* SETTLEMENT FOLLOWS THE SCORE. A settled bet carries the result and      *)
(* payout of its game's present score, after record_game_result and after  *)
(* any number of corrections.                                              *)
THEOREM SettlementFollowsScore == Spec => []SettledByFinalScore
<1>1. IInv => SettledByFinalScore
  BY DEF IInv
<1> QED
  BY <1>1, Invariance, PTL

(* HISTORY DOES NOT MATTER. A balance is determined by what was deposited  *)
(* and withdrawn, the bets placed and the present scores, whichever scores *)
(* were recorded and corrected on the way.                                 *)
THEOREM HistoryDoesNotMatter == Spec => []BalanceIsExplained
<1>1. IInv => BalanceIsExplained
  BY InvariantExplainsBalance
<1> QED
  BY <1>1, Invariance, PTL

(* IDEMPOTENCY. place_bet's key names at most one bet of an account.       *)
THEOREM KeysAreIdempotent == Spec => []OneBetPerKey
<1>1. IInv => OneBetPerKey
  BY DEF IInv
<1> QED
  BY <1>1, Invariance, PTL

(* BOUNDED OVERDRAFT. An account is below zero only by what corrections    *)
(* have taken back through post_adjustment.                                *)
THEOREM OverdraftIsBounded == Spec => []OverdraftIsReversal
<1>1. IInv => OverdraftIsReversal
  BY DEF IInv
<1> QED
  BY <1>1, Invariance, PTL

(* AUDIT TRAIL. The score_corrections rows written by correct_game_result  *)
(* form an unbroken chain that ends at the present score.                  *)
THEOREM AuditTrailIsUnbroken == Spec => []AuditTrailReachesScore
<1>1. IInv => AuditTrailReachesScore
  BY DEF IInv
<1> QED
  BY <1>1, Invariance, PTL

(* A bet whose row a step leaves alone keeps its terms. *)
LEMMA RowKept ==
  ASSUME TypeOK, NEW b \in Placed, bet'[b] = bet[b]
  PROVE  /\ bet'[b] # NoBet
         /\ bet'[b] = [bet[b] EXCEPT !.status = bet'[b].status, !.payout = bet'[b].payout]
<1>1. bet[b] \in BetRow /\ bet[b] # NoBet
  BY BetFacts
<1> QED
  BY <1>1 DEF BetRow

LEMMA StepsChangeByCorrection ==
  ASSUME IInv, Next
  PROVE  ChangesAreCorrections
<1>1. TypeOK
  BY DEF IInv
<1>2. ASSUME \A b \in Placed : bet'[b] = bet[b]
      PROVE  ChangesAreCorrections
  BY <1>1, <1>2, RowKept DEF ChangesAreCorrections
<1>3. CASE LedgerNext /\ UNCHANGED <<bet, status, score, beforeCutoff, audit>>
  BY <1>2, <1>3
<1>4. ASSUME NEW b \in Bets, NEW a \in Accounts, NEW q \in Quotes, NEW stake \in Stakes,
             NEW key \in Keys \cup {NoKey}, PlaceBet(b, a, q, stake, key)
      PROVE  ChangesAreCorrections
  BY <1>2, <1>4, PlacementFacts
<1>5. ASSUME NEW g \in Games, NEW s \in Scores, RecordGameResult(g, s)
      PROVE  ChangesAreCorrections
  <2> SUFFICES ASSUME NEW b \in Placed
               PROVE  /\ bet'[b] # NoBet
                      /\ bet'[b] = [bet[b] EXCEPT !.status = bet'[b].status,
                                                  !.payout = bet'[b].payout]
                      /\ bet[b].status = "PENDING" \/ bet'[b] = bet[b]
    BY DEF ChangesAreCorrections
  <2>1. bet'[b] = IF b \in PendingOn(g) THEN Settled(b, s) ELSE bet[b]
    BY <1>5 DEF RecordGameResult, SettleBets, Placed
  <2>2. CASE b \in PendingOn(g)
    <3>1. /\ Settled(b, s) # NoBet
          /\ Settled(b, s) = [bet[b] EXCEPT !.status = Settled(b, s).status,
                                            !.payout = Settled(b, s).payout]
      BY <1>1, SettledFacts
    <3> QED
      BY <2>1, <2>2, <3>1 DEF PendingOn
  <2>3. CASE b \notin PendingOn(g)
    BY <1>1, <2>1, <2>3, RowKept
  <2> QED
    BY <2>2, <2>3
<1>6. ASSUME NEW g \in Games, NEW s \in Scores, CorrectGameResult(g, s)
      PROVE  ChangesAreCorrections
  <2> SUFFICES ASSUME NEW b \in Placed
               PROVE  /\ bet'[b] # NoBet
                      /\ bet'[b] = [bet[b] EXCEPT !.status = bet'[b].status,
                                                  !.payout = bet'[b].payout]
                      /\ \/ bet'[b] = bet[b]
                         \/ Len(audit'[bet[b].quote.game]) = Len(audit[bet[b].quote.game]) + 1
    BY DEF ChangesAreCorrections
  <2>1. bet'[b] = IF b \in BetsOn(g) THEN Settled(b, s) ELSE bet[b]
    BY <1>6 DEF CorrectGameResult, SettleBets, Placed
  <2>2. CASE b \in BetsOn(g)
    <3>1. bet[b].quote.game = g
      BY <2>2 DEF BetsOn
    <3>2. audit[g] \in Seq(Correction)
          /\ audit'[g] = Append(audit[g], [original |-> score[g], corrected |-> s])
      BY <1>1, <1>6 DEF CorrectGameResult, CorrectionRow, TypeOK
    <3>3. [original |-> score[g], corrected |-> s] \in Correction
      BY <1>6 DEF IInv, ScoredWhenFinal, CorrectGameResult, Correction
    <3>4. Len(audit'[g]) = Len(audit[g]) + 1
      BY <3>2, <3>3
    <3>5. s \in Scores /\ bet'[b] = Settled(b, s)
      BY <2>1, <2>2
    <3>6. /\ Settled(b, s) # NoBet
          /\ Settled(b, s) = [bet[b] EXCEPT !.status = Settled(b, s).status,
                                            !.payout = Settled(b, s).payout]
      BY <1>1, SettledFacts
    <3> QED
      BY <3>1, <3>4, <3>5, <3>6
  <2>3. CASE b \notin BetsOn(g)
    BY <1>1, <2>1, <2>3, RowKept
  <2> QED
    BY <2>2, <2>3
<1>7. ASSUME NEW g \in Games, ReachCutoff(g) \/ Reschedule(g)
      PROVE  ChangesAreCorrections
  BY <1>2, <1>7 DEF ReachCutoff, Reschedule
<1> QED
  BY <1>3, <1>4, <1>5, <1>6, <1>7 DEF Next

(* SETTLED BETS ARE IMMUTABLE BUT FOR CORRECTIONS. No step rewrites the    *)
(* row of a settled bet except correct_game_result, which leaves its row   *)
(* in score_corrections; and no step touches a bet's terms.                *)
THEOREM SettledBetsAreImmutable == Spec => OnlyCorrectionsResettle
<1>1. IInv /\ [Next]_vars => [ChangesAreCorrections]_vars
  BY StepsChangeByCorrection
<1> QED
  BY <1>1, Invariance, PTL DEF Spec, OnlyCorrectionsResettle

LEMMA PromiseBegins == Init => Promise!Init
BY DEF Init, Promise!Init

(* Recording a result is the promise's Finalize, correcting one its        *)
(* Correct; every other step leaves the games' rows alone.                 *)
LEMMA PromiseKept ==
  ASSUME IInv, Next
  PROVE  Promise!Next \/ UNCHANGED <<status, score, audit>>
<1>1. TypeOK
  BY DEF IInv
<1>2. CASE LedgerNext /\ UNCHANGED <<bet, status, score, beforeCutoff, audit>>
  BY <1>2
<1>3. ASSUME NEW b \in Bets, NEW a \in Accounts, NEW q \in Quotes, NEW stake \in Stakes,
             NEW key \in Keys \cup {NoKey}, PlaceBet(b, a, q, stake, key)
      PROVE  UNCHANGED <<status, score, audit>>
  BY <1>3 DEF PlaceBet
<1>4. ASSUME NEW g \in Games, NEW s \in Scores, RecordGameResult(g, s)
      PROVE  Promise!Finalize(g, s)
  <2>1. status[g] = "SCHEDULED"
    BY <1>1, <1>4 DEF TypeOK, RecordGameResult
  <2> QED
    BY <1>4, <2>1 DEF RecordGameResult, Promise!Finalize
<1>5. ASSUME NEW g \in Games, NEW s \in Scores, CorrectGameResult(g, s)
      PROVE  Promise!Correct(g, s)
  BY <1>5 DEF CorrectGameResult, CorrectionRow, Promise!Correct
<1>6. ASSUME NEW g \in Games, ReachCutoff(g) \/ Reschedule(g)
      PROVE  UNCHANGED <<status, score, audit>>
  BY <1>6 DEF ReachCutoff, Reschedule
<1> QED
  BY <1>2, <1>3, <1>4, <1>5, <1>6 DEF Next, Promise!Next

(* REFINEMENT. Wagering implements Finality: record_game_result gives a    *)
(* game its one final score, and only correct_game_result replaces it, in  *)
(* the step that appends the score_corrections row.                        *)
THEOREM FinalityIsImplemented == Spec => GamesFinalizeOnce
<1>1. Init => Promise!Init
  BY PromiseBegins
<1>2. IInv /\ [Next]_vars => [Promise!Next]_Promise!gameVars
  <2> SUFFICES ASSUME IInv, [Next]_vars
               PROVE  Promise!Next \/ UNCHANGED <<status, score, audit>>
    BY DEF Promise!gameVars
  <2>1. CASE UNCHANGED vars
    BY <2>1 DEF vars
  <2> QED
    BY <2>1, PromiseKept
<1> QED
  BY <1>1, <1>2, Invariance, PTL DEF Spec, GamesFinalizeOnce, Promise!Spec

-----------------------------------------------------------------------------
(* Sessions. *)

(* A record with the fields of a session. *)
IsSession(r) ==
  /\ DOMAIN r = {"phase", "seen", "todo", "posted", "rows", "game", "score", "trail"}
  /\ r.phase \in {"idle", "authenticated", "record", "correct", "posting"}
  /\ r.posted \in [Accounts -> [PostingTypes -> Int]]

NoStake(r) == \A a \in Accounts : r.posted[a]["WAGER_STAKE"] = 0

(* Postings other than stakes. *)
OtherPostings == [account : Accounts, type : PostingTypes \ {"WAGER_STAKE"}, amount : Int]

StakeOf(row) == [account |-> row.account, type |-> "WAGER_STAKE", amount |-> -row.stake]

(* A session that has no rows yet. *)
Waiting(r) ==
  /\ r.phase # "posting"
  /\ r.rows = <<>>
  /\ NoStake(r)
  /\ r.phase \in {"idle", "authenticated"} => r.game = NoGame
  /\ r.phase \in {"record", "correct"} => r.game \in Games /\ r.score \in Scores

(* A session that settles bets of its game; it has neither if it only      *)
(* makes a deposit or a withdrawal.  The bets may have been settled anew   *)
(* since it read them, but their terms are the same.                       *)
Settling(r) ==
  /\ r.phase = "posting"
  /\ r.todo \in Seq(OtherPostings)
  /\ NoStake(r)
  /\ r.game \in Games \cup {NoGame}
  /\ \A b \in DOMAIN r.rows :
       /\ b \in Placed
       /\ r.rows[b] \in BetRow
       /\ r.rows[b].quote.game = r.game
       /\ r.rows[b].account = bet[b].account
       /\ r.rows[b].key = bet[b].key
       /\ r.rows[b].stake = bet[b].stake

(* A session that places a bet: its stake is either to be posted or posted. *)
Betting(r) ==
  /\ r.phase = "posting"
  /\ r.game = NoGame
  /\ \E b \in Bets \ Placed :
       /\ DOMAIN r.rows = {b}
       /\ r.rows[b] \in BetRow
       /\ r.rows[b].status = "PENDING"
       /\ \/ r.todo = <<StakeOf(r.rows[b])>> /\ NoStake(r)
          \/ /\ r.todo = <<>>
             /\ \A a \in Accounts :
                  r.posted[a]["WAGER_STAKE"] = IF a = r.rows[b].account THEN -r.rows[b].stake ELSE 0

SessionOK(r) == IsSession(r) /\ (Waiting(r) \/ Settling(r) \/ Betting(r))

(* No new bet is in two sessions. *)
BetsAreFresh ==
  \A s, t \in Sessions : s # t => DOMAIN sess[s].rows \cap DOMAIN sess[t].rows \subseteq Placed

DatabaseOK ==
  /\ bet \in [Bets -> BetRow \cup {NoBet}]
  /\ posted \in [Accounts -> [PostingTypes -> Int]]
  /\ status \in [Games -> {"SCHEDULED", "FINAL"}]

(* The inductive invariant. *)
SInv ==
  /\ DatabaseOK
  /\ sess = [s \in Sessions |-> sess[s]]
  /\ \A s \in Sessions : SessionOK(sess[s])
  /\ BetsAreFresh
  /\ OneBetPerKey
  /\ StakesAreCharged
  /\ SettledMeansFinal

-----------------------------------------------------------------------------
(* Facts about what sessions hold. *)

LEMMA IdleFacts ==
  /\ IsSession(Idle) /\ Waiting(Idle)
  /\ Idle.phase = "idle" /\ Idle.rows = <<>> /\ Idle.todo = <<>> /\ Idle.game = NoGame
BY DEF Idle, IsSession, Waiting, NoStake, PostingTypes

(* Leaving out postings of zero cents leaves postings.                     *)
LEMMA DueType ==
  ASSUME NEW S, NEW todo \in Seq(S)
  PROVE  Due(todo) \in Seq(S) /\ (todo = <<>> => Due(todo) = <<>>)
<1> DEFINE zeros == {i \in DOMAIN todo : \A j \in 1 .. i : todo[j].amount = 0}
           n == Cardinality(zeros)
<1>1. n \in Nat
  <2>1. zeros \subseteq 1 .. Len(todo)
    OBVIOUS
  <2>2. IsFiniteSet(1 .. Len(todo))
    BY FS_Interval
  <2>3. IsFiniteSet(zeros)
    <3> HIDE DEF zeros
    <3> QED
      BY <2>1, <2>2, FS_Subset
  <2> QED
    BY <2>3, FS_CardinalityType
<1> HIDE DEF n
<1>2. \A i \in n + 1 .. Len(todo) : todo[i] \in S
  BY <1>1
<1>3. SubSeq(todo, n + 1, Len(todo)) \in Seq(S)
  BY <1>1, <1>2, SubSeqProperties
<1>4. ASSUME todo = <<>>
      PROVE  SubSeq(todo, n + 1, Len(todo)) = <<>>
  BY <1>1, <1>4, SubSeqEmpty
<1>5. Due(todo) = SubSeq(todo, n + 1, Len(todo))
  BY DEF Due, n, zeros
<1> QED
  BY <1>3, <1>4, <1>5

(* A step of session s that commits nothing. *)
LEMMA UncommittedStep ==
  ASSUME SInv, NEW s \in Sessions, NEW r, SessionOK(r),
         UNCHANGED vars, sess' = [sess EXCEPT ![s] = r],
         \A t \in Sessions \ {s} : DOMAIN r.rows \cap DOMAIN sess[t].rows \subseteq Placed
  PROVE  SInv'
<1>1. UNCHANGED <<bet, posted, status>> /\ Placed' = Placed
  BY DEF vars, Placed
<1>2. \A t \in Sessions : sess'[t] = IF t = s THEN r ELSE sess[t]
  BY DEF SInv
<1>3. sess' = [t \in Sessions |-> sess'[t]]
  BY DEF SInv
<1>4. \A t \in Sessions : SessionOK(sess'[t])
  BY <1>2 DEF SInv
<1>5. ASSUME NEW t \in Sessions
      PROVE  SessionOK(sess[t])'
  <2>1. IsSession(sess'[t]) /\ (Waiting(sess'[t]) \/ Settling(sess'[t]) \/ Betting(sess'[t]))
    BY <1>4 DEF SessionOK
  <2>2. IsSession(sess[t])'
    BY <2>1 DEF IsSession
  <2>3. ASSUME Waiting(sess'[t]) PROVE Waiting(sess[t])'
    BY <2>3 DEF Waiting, NoStake
  <2>4. ASSUME Settling(sess'[t]) PROVE Settling(sess[t])'
    BY <1>1, <2>4 DEF Settling, NoStake
  <2>5. ASSUME Betting(sess'[t]) PROVE Betting(sess[t])'
    BY <1>1, <2>5 DEF Betting, NoStake
  <2> QED
    BY <2>1, <2>2, <2>3, <2>4, <2>5 DEF SessionOK
<1>6. BetsAreFresh'
  BY <1>1, <1>2 DEF SInv, BetsAreFresh
<1>7. DatabaseOK' /\ OneBetPerKey' /\ StakesAreCharged' /\ SettledMeansFinal'
  BY <1>1 DEF SInv, DatabaseOK, OneBetPerKey, StakesAreCharged, SettledMeansFinal, SumOfBets
<1> QED
  BY <1>3, <1>5, <1>6, <1>7 DEF SInv

-----------------------------------------------------------------------------
(* The steps of a session before its commit. *)

LEMMA Forgets ==
  ASSUME SInv, NEW s \in Sessions, Rollback(s)
  PROVE  SInv'
<1>1. SessionOK(Idle) /\ DOMAIN Idle.rows = {}
  BY IdleFacts DEF SessionOK
<1> QED
  BY <1>1, UncommittedStep DEF Rollback

LEMMA AuthenticateKeeps ==
  ASSUME SInv, NEW s \in Sessions, NEW a \in Accounts, Authenticate(s, a)
  PROVE  SInv'
<1> DEFINE r == [Idle EXCEPT !.phase = "authenticated", !.seen = WithRow(<<>>, a)]
<1>1. UNCHANGED vars /\ sess' = [sess EXCEPT ![s] = r]
  BY DEF Authenticate
<1>2. /\ r.phase = "authenticated" /\ r.posted = Idle.posted /\ r.rows = <<>> /\ r.game = NoGame
      /\ DOMAIN r = {"phase", "seen", "todo", "posted", "rows", "game", "score", "trail"}
  BY DEF Idle
<1>3. NoStake(Idle) /\ Idle.posted \in [Accounts -> [PostingTypes -> Int]]
  BY DEF Idle, NoStake, PostingTypes
<1> HIDE DEF r
<1>4. IsSession(r) /\ Waiting(r) /\ DOMAIN r.rows = {}
  BY <1>2, <1>3 DEF IsSession, Waiting, NoStake
<1> QED
  BY <1>1, <1>4, UncommittedStep DEF SessionOK

LEMMA RefuseKeeps ==
  ASSUME SInv, NEW s \in Sessions, Refuse(s)
  PROVE  SInv'
<1>1. SessionOK(Idle) /\ DOMAIN Idle.rows = {}
  BY IdleFacts DEF SessionOK
<1> QED
  BY <1>1, UncommittedStep DEF Refuse

(* Before a session posts, it waits. *)
LEMMA NotYetPosting ==
  ASSUME SInv, NEW s \in Sessions, sess[s].phase # "posting"
  PROVE  IsSession(sess[s]) /\ Waiting(sess[s])
BY DEF SInv, SessionOK, Settling, Betting

LEMMA RequestManualKeeps ==
  ASSUME SInv, NEW s \in Sessions, NEW a \in Accounts, NEW t \in {"DEPOSIT", "WITHDRAWAL"},
         NEW amount \in Amounts, RequestManual(s, a, t, amount)
  PROVE  SInv'
<1> DEFINE p == [account |-> a, type |-> t, amount |-> IF t = "DEPOSIT" THEN amount ELSE -amount]
           r == [sess[s] EXCEPT !.phase = "posting", !.todo = <<p>>]
<1>1. UNCHANGED vars /\ sess' = [sess EXCEPT ![s] = r]
  BY DEF RequestManual
<1>2. IsSession(sess[s]) /\ Waiting(sess[s]) /\ sess[s].phase = "authenticated"
  BY NotYetPosting DEF RequestManual
<1>3. p \in OtherPostings
  BY LedgerAssumption DEF OtherPostings, PostingTypes
<1> HIDE DEF p
<1>4. /\ r.phase = "posting" /\ r.todo = <<p>> /\ r.posted = sess[s].posted
      /\ r.rows = sess[s].rows /\ r.game = sess[s].game /\ DOMAIN r = DOMAIN sess[s]
  BY <1>2 DEF IsSession
<1> HIDE DEF r
<1>5. /\ r.phase = "posting" /\ r.todo = <<p>> /\ r.posted = sess[s].posted
      /\ r.rows = <<>> /\ r.game = NoGame /\ DOMAIN r.rows = {}
  BY <1>2, <1>4 DEF Waiting
<1>6. IsSession(r)
  BY <1>2, <1>4, <1>5 DEF IsSession
<1>7. Settling(r)
  <2>1. r.todo \in Seq(OtherPostings)
    BY <1>3, <1>5
  <2> QED
    BY <1>2, <1>5, <2>1 DEF Settling, Waiting, NoStake
<1> QED
  BY <1>1, <1>5, <1>6, <1>7, UncommittedStep DEF SessionOK

LEMMA RequestBetKeeps ==
  ASSUME SInv, NEW s \in Sessions, NEW b \in Bets, NEW a \in Accounts, NEW q \in Quotes,
         NEW stake \in Stakes, NEW key \in Keys \cup {NoKey}, RequestBet(s, b, a, q, stake, key)
  PROVE  SInv'
<1> DEFINE row == [account |-> a, quote |-> q, key |-> key, stake |-> stake,
                   status |-> "PENDING", payout |-> 0]
           p == [account |-> a, type |-> "WAGER_STAKE", amount |-> -stake]
           r == [sess[s] EXCEPT !.phase = "posting", !.todo = <<p>>, !.rows = [x \in {b} |-> row]]
<1>1. UNCHANGED vars /\ sess' = [sess EXCEPT ![s] = r]
  BY DEF RequestBet
<1>2. IsSession(sess[s]) /\ Waiting(sess[s]) /\ sess[s].phase = "authenticated"
  BY NotYetPosting DEF RequestBet
<1>3. row \in BetRow /\ row.status = "PENDING" /\ p = StakeOf(row)
  BY DEF BetRow, StakeOf
<1> HIDE DEF p, row
<1>4. /\ r.phase = "posting" /\ r.todo = <<p>> /\ r.posted = sess[s].posted
      /\ r.rows = [x \in {b} |-> row] /\ r.game = sess[s].game /\ DOMAIN r = DOMAIN sess[s]
  BY <1>2 DEF IsSession
<1> HIDE DEF r
<1>5. /\ r.phase = "posting" /\ r.todo = <<p>> /\ r.posted = sess[s].posted
      /\ r.rows = [x \in {b} |-> row] /\ r.game = NoGame
  BY <1>2, <1>4 DEF Waiting
<1>6. IsSession(r)
  BY <1>2, <1>4, <1>5 DEF IsSession
<1>7. b \in Bets \ Placed /\ \A t \in Sessions : b \notin DOMAIN sess[t].rows
  BY DEF RequestBet
<1>8. Betting(r)
  BY <1>2, <1>3, <1>5, <1>7 DEF Betting, Waiting, NoStake
<1>9. DOMAIN r.rows = {b}
  BY <1>5
<1>10. \A t \in Sessions \ {s} : DOMAIN r.rows \cap DOMAIN sess[t].rows \subseteq Placed
  BY <1>7, <1>9
<1>11. SessionOK(r)
  BY <1>6, <1>8 DEF SessionOK
<1> QED
  BY <1>1, <1>10, <1>11, UncommittedStep

LEMMA BeginResultKeeps ==
  ASSUME SInv, NEW s \in Sessions, NEW g \in Games, NEW final \in Scores, BeginResult(s, g, final)
  PROVE  SInv'
<1> DEFINE r1 == [sess[s] EXCEPT !.phase = "record", !.game = g, !.score = final]
           r2 == [sess[s] EXCEPT !.phase = "correct", !.game = g, !.score = final,
                                 !.trail = <<CorrectionRow(g, final)>>]
<1>1. PICK r \in {r1, r2} : UNCHANGED vars /\ sess' = [sess EXCEPT ![s] = r]
  BY DEF BeginResult
<1>2. IsSession(sess[s]) /\ Waiting(sess[s])
  BY NotYetPosting DEF BeginResult
<1>3. /\ r.phase \in {"record", "correct"} /\ r.rows = <<>> /\ r.game = g /\ r.score = final
      /\ r.posted = sess[s].posted /\ IsSession(r)
  <2>1. CASE r = r1
    BY <1>2, <2>1 DEF IsSession, Waiting
  <2>2. CASE r = r2
    BY <1>2, <2>2 DEF IsSession, Waiting
  <2> QED
    BY <1>1, <2>1, <2>2
<1>4. Waiting(r) /\ DOMAIN r.rows = {}
  BY <1>2, <1>3 DEF Waiting, NoStake
<1> QED
  BY <1>1, <1>3, <1>4, UncommittedStep DEF SessionOK

LEMMA LoadKeeps ==
  ASSUME SInv, NEW s \in Sessions, Load(s)
  PROVE  SInv'
<1>1. PICK seen : UNCHANGED vars /\ sess' = [sess EXCEPT ![s].seen = seen]
  BY DEF Load
<1> DEFINE r == [sess[s] EXCEPT !.seen = seen]
<1>2. sess' = [sess EXCEPT ![s] = r]
  BY <1>1
<1>3. IsSession(sess[s]) /\ SessionOK(sess[s])
  BY DEF SInv, SessionOK
<1>4. /\ r.phase = sess[s].phase /\ r.todo = sess[s].todo /\ r.posted = sess[s].posted
      /\ r.rows = sess[s].rows /\ r.game = sess[s].game /\ r.score = sess[s].score
      /\ IsSession(r)
  BY <1>3 DEF IsSession
<1> HIDE DEF r
<1>5. SessionOK(r)
  <2>1. CASE Waiting(sess[s])
    BY <1>4, <2>1 DEF SessionOK, Waiting, NoStake
  <2>2. CASE Settling(sess[s])
    BY <1>4, <2>2 DEF SessionOK, Settling, NoStake
  <2>3. CASE Betting(sess[s])
    <3>1. PICK b \in Bets \ Placed :
            /\ DOMAIN sess[s].rows = {b}
            /\ sess[s].rows[b] \in BetRow
            /\ sess[s].rows[b].status = "PENDING"
            /\ \/ sess[s].todo = <<StakeOf(sess[s].rows[b])>> /\ NoStake(sess[s])
               \/ /\ sess[s].todo = <<>>
                  /\ \A a \in Accounts :
                       sess[s].posted[a]["WAGER_STAKE"] =
                         IF a = sess[s].rows[b].account THEN -sess[s].rows[b].stake ELSE 0
      BY <2>3 DEF Betting
    <3>2. NoStake(sess[s]) => NoStake(r)
      BY <1>4 DEF NoStake
    <3>3. /\ r.phase = "posting" /\ r.game = NoGame /\ DOMAIN r.rows = {b}
          /\ r.rows[b] \in BetRow /\ r.rows[b].status = "PENDING"
      BY <1>4, <2>3, <3>1 DEF Betting
    <3>4. \/ r.todo = <<StakeOf(r.rows[b])>> /\ NoStake(r)
          \/ /\ r.todo = <<>>
             /\ \A a \in Accounts :
                  r.posted[a]["WAGER_STAKE"] = IF a = r.rows[b].account THEN -r.rows[b].stake ELSE 0
      BY <1>4, <3>1, <3>2
    <3>5. Betting(r)
      BY <3>3, <3>4 DEF Betting
    <3> QED
      BY <1>4, <3>5 DEF SessionOK
  <2> QED
    BY <1>3, <2>1, <2>2, <2>3 DEF SessionOK
<1>6. \A t \in Sessions \ {s} : DOMAIN r.rows \cap DOMAIN sess[t].rows \subseteq Placed
  BY <1>4 DEF SInv, BetsAreFresh
<1> QED
  BY <1>1, <1>2, <1>5, <1>6, UncommittedStep

(* The rows of a settlement keep the terms of their bets, and none of its  *)
(* postings is a stake.                                                    *)
LEMMA ReadBetsKeeps ==
  ASSUME SInv, NEW s \in Sessions, ReadBets(s)
  PROVE  SInv'
<1>1. IsSession(sess[s]) /\ Waiting(sess[s])
  BY NotYetPosting DEF ReadBets
<1>2. sess[s].game \in Games /\ sess[s].score \in Scores
  BY <1>1 DEF ReadBets, Waiting
<1> DEFINE read == IF sess[s].phase = "record" THEN PendingOn(sess[s].game)
                                               ELSE BetsOn(sess[s].game)
           after(b) == Settled(b, sess[s].score)
           Reversals(order) == [i \in DOMAIN order |->
                                  [account |-> bet[order[i]].account, type |-> "ADJUSTMENT",
                                   amount |-> -bet[order[i]].payout]]
           Payouts(order) == [i \in DOMAIN order |->
                                [account |-> bet[order[i]].account, type |-> "WAGER_PAYOUT",
                                 amount |-> after(order[i]).payout]]
<1>3. PICK order \in SetToSeqs(read) :
        /\ UNCHANGED vars
        /\ sess' = [sess EXCEPT ![s].phase = "posting",
                                ![s].todo = Due(Reversals(order) \o Payouts(order)),
                                ![s].rows = [b \in ToSet(order) |-> after(b)]]
  BY DEF ReadBets
<1> DEFINE n == Cardinality(read)
           todo == Due(Reversals(order) \o Payouts(order))
           rows == [b \in ToSet(order) |-> after(b)]
           r == [sess[s] EXCEPT !.phase = "posting", !.todo = todo, !.rows = rows]
<1>4. bet \in [Bets -> BetRow \cup {NoBet}]
  BY DEF SInv, DatabaseOK
<1>5. read \subseteq Placed /\ \A b \in read : bet[b].quote.game = sess[s].game
  BY DEF PendingOn, BetsOn
<1>6. n \in Nat
  <2>1. read \subseteq Bets /\ IsFiniteSet(Bets)
    BY <1>5, WageringAssumption DEF Placed
  <2> HIDE DEF read
  <2> QED
    BY <2>1, FS_Subset, FS_CardinalityType
<1>7. order \in [1 .. n -> read]
  BY DEF SetToSeqs
<1> HIDE DEF n, read
<1>8. ToSet(order) \subseteq read /\ DOMAIN order = 1 .. n
  BY <1>7 DEF ToSet
<1>9. \A b \in Placed : /\ bet[b].account \in Accounts /\ bet[b].payout \in Nat
                        /\ after(b) \in BetRow /\ after(b).payout \in Nat
                        /\ after(b).account = bet[b].account /\ after(b).quote = bet[b].quote
                        /\ after(b).key = bet[b].key /\ after(b).stake = bet[b].stake
  <2> TAKE b \in Placed
  <2>1. bet[b].account \in Accounts /\ bet[b].payout \in Nat
    BY <1>4, RowFacts
  <2> QED
    BY <1>2, <1>4, <2>1, SettledRowFacts
<1> HIDE DEF after
<1>10. todo \in Seq(OtherPostings)
  <2>1. \A i \in 1 .. n : order[i] \in Placed
    BY <1>5, <1>7
  <2>2. Reversals(order) \in [1 .. n -> OtherPostings]
    <3>1. \A i \in 1 .. n :
            [account |-> bet[order[i]].account, type |-> "ADJUSTMENT",
             amount |-> -bet[order[i]].payout] \in OtherPostings
      BY <1>9, <2>1 DEF OtherPostings, PostingTypes
    <3> QED
      BY <1>8, <3>1
  <2>3. Payouts(order) \in [1 .. n -> OtherPostings]
    <3>1. \A i \in 1 .. n :
            [account |-> bet[order[i]].account, type |-> "WAGER_PAYOUT",
             amount |-> after(order[i]).payout] \in OtherPostings
      BY <1>9, <2>1 DEF OtherPostings, PostingTypes
    <3> QED
      BY <1>8, <3>1
  <2> HIDE DEF Reversals, Payouts
  <2>4. Reversals(order) \in Seq(OtherPostings) /\ Payouts(order) \in Seq(OtherPostings)
    BY <1>6, <2>2, <2>3
  <2>5. Reversals(order) \o Payouts(order) \in Seq(OtherPostings)
    BY <2>4, ConcatProperties
  <2> QED
    BY <2>5, DueType
<1>11. sess' = [sess EXCEPT ![s] = r]
  BY <1>3
<1> HIDE DEF todo
<1>12. /\ r.phase = "posting" /\ r.todo = todo /\ r.posted = sess[s].posted
       /\ r.rows = rows /\ r.game = sess[s].game /\ DOMAIN r = DOMAIN sess[s]
  BY <1>1 DEF IsSession
<1> HIDE DEF r
<1>13. IsSession(r)
  BY <1>1, <1>12 DEF IsSession
<1>14. DOMAIN r.rows \subseteq Placed
  BY <1>5, <1>8, <1>12
<1>15. Settling(r)
  <2>1. NoStake(r)
    BY <1>1, <1>12 DEF Waiting, NoStake
  <2>2. ASSUME NEW b \in DOMAIN r.rows
        PROVE  /\ b \in Placed
               /\ r.rows[b] \in BetRow
               /\ r.rows[b].quote.game = r.game
               /\ r.rows[b].account = bet[b].account
               /\ r.rows[b].key = bet[b].key
               /\ r.rows[b].stake = bet[b].stake
    <3>1. r.rows[b] = after(b) /\ b \in read /\ b \in Placed
      BY <1>5, <1>8, <1>12, <2>2
    <3> QED
      BY <1>5, <1>9, <1>12, <3>1
  <2> QED
    BY <1>2, <1>10, <1>12, <2>1, <2>2 DEF Settling
<1>16. \A t \in Sessions \ {s} : DOMAIN r.rows \cap DOMAIN sess[t].rows \subseteq Placed
  BY <1>14
<1>17. SessionOK(r)
  BY <1>13, <1>15 DEF SessionOK
<1> QED
  BY <1>3, <1>11, <1>16, <1>17, UncommittedStep

LEMMA RowTypes ==
  ASSUME NEW row \in BetRow
  PROVE  row.account \in Accounts /\ row.stake \in Int
<1>1. row.account \in Accounts /\ row.stake \in Stakes
  BY DEF BetRow
<1>2. \A x \in Stakes : x \in Int
  BY WageringAssumption
<1> QED
  BY <1>1, <1>2

(* A posting moves from what is due to what is posted. *)
LEMMA PostKeeps ==
  ASSUME SInv, NEW s \in Sessions, Post(s)
  PROVE  SInv'
<1> DEFINE p == sess[s].todo[1]
<1>1. IsSession(sess[s]) /\ SessionOK(sess[s])
  BY DEF SInv, SessionOK
<1>2. sess[s].phase = "posting" /\ sess[s].todo # <<>>
  BY DEF Post, Flushing
<1>3. Settling(sess[s]) \/ Betting(sess[s])
  BY <1>1, <1>2 DEF SessionOK, Waiting
<1>4. p.account \in Accounts /\ p.type \in PostingTypes /\ p.amount \in Int
  <2>1. CASE Settling(sess[s])
    <3>1. sess[s].todo \in Seq(OtherPostings)
      BY <2>1 DEF Settling
    <3>2. p \in OtherPostings
      BY <1>2, <3>1
    <3> QED
      BY <3>2 DEF OtherPostings
  <2>2. CASE Betting(sess[s])
    <3>1. PICK b \in Bets \ Placed :
            sess[s].rows[b] \in BetRow /\ sess[s].todo = <<StakeOf(sess[s].rows[b])>>
      BY <1>2, <2>2 DEF Betting
    <3>2. sess[s].rows[b].account \in Accounts /\ sess[s].rows[b].stake \in Int
      BY <3>1, RowTypes
    <3>3. /\ p.account = sess[s].rows[b].account /\ p.type = "WAGER_STAKE"
          /\ p.amount = -sess[s].rows[b].stake
      BY <3>1 DEF StakeOf
    <3> QED
      BY <3>2, <3>3 DEF PostingTypes
  <2> QED
    BY <1>3, <2>1, <2>2
<1> DEFINE books == [sess[s].posted EXCEPT ![p.account][p.type] = @ + p.amount]
           todo == Due(Tail(sess[s].todo))
           r == [sess[s] EXCEPT !.seen[p.account] = @ + p.amount, !.seen[Capital] = @ - p.amount,
                                !.posted[p.account][p.type] = @ + p.amount, !.todo = Due(Tail(@))]
<1>5. UNCHANGED vars
  BY DEF Post
<1>6. sess' = [sess EXCEPT ![s] = r]
  BY DEF Post
<1>7. books \in [Accounts -> [PostingTypes -> Int]]
  <2> DEFINE was == sess[s].posted
  <2>1. was \in [Accounts -> [PostingTypes -> Int]]
    BY <1>1 DEF IsSession
  <2>2. was[p.account] \in [PostingTypes -> Int]
    BY <1>4, <2>1
  <2> HIDE DEF was
  <2>3. was[p.account][p.type] + p.amount \in Int
    BY <1>4, <2>2
  <2>4. [was[p.account] EXCEPT ![p.type] = @ + p.amount] \in [PostingTypes -> Int]
    BY <2>2, <2>3
  <2>5. [was EXCEPT ![p.account][p.type] = @ + p.amount] \in [Accounts -> [PostingTypes -> Int]]
    BY <2>1, <2>4
  <2> QED
    BY <2>5 DEF was
<1>8. \A a \in Accounts : books[a]["WAGER_STAKE"] =
        IF a = p.account /\ p.type = "WAGER_STAKE" THEN sess[s].posted[a]["WAGER_STAKE"] + p.amount
                                                   ELSE sess[s].posted[a]["WAGER_STAKE"]
  BY <1>1, <1>4 DEF IsSession, PostingTypes
<1>9. /\ r.phase = "posting" /\ r.todo = todo /\ r.posted = books
      /\ r.rows = sess[s].rows /\ r.game = sess[s].game /\ DOMAIN r = DOMAIN sess[s]
  BY <1>1, <1>2 DEF IsSession
<1> HIDE DEF r, books, todo, p
<1>10. IsSession(r)
  BY <1>1, <1>7, <1>9 DEF IsSession
<1>11. ASSUME Settling(sess[s]) PROVE SessionOK(r)
  <2>1. sess[s].todo \in Seq(OtherPostings)
    BY <1>11 DEF Settling
  <2>2. p \in OtherPostings /\ Tail(sess[s].todo) \in Seq(OtherPostings)
    BY <1>2, <2>1 DEF p
  <2>3. p.type # "WAGER_STAKE"
    BY <2>2 DEF OtherPostings
  <2>4. r.todo \in Seq(OtherPostings)
    BY <1>9, <2>2, DueType DEF todo
  <2>5. NoStake(r)
    BY <1>8, <1>9, <1>11, <2>3 DEF Settling, NoStake
  <2>6. Settling(r)
    BY <1>9, <1>11, <2>4, <2>5 DEF Settling
  <2> QED
    BY <1>10, <2>6 DEF SessionOK
<1>12. ASSUME Betting(sess[s]) PROVE SessionOK(r)
  <2>1. PICK b \in Bets \ Placed :
          /\ sess[s].game = NoGame
          /\ DOMAIN sess[s].rows = {b}
          /\ sess[s].rows[b] \in BetRow
          /\ sess[s].rows[b].status = "PENDING"
          /\ sess[s].todo = <<StakeOf(sess[s].rows[b])>> /\ NoStake(sess[s])
    BY <1>2, <1>12 DEF Betting
  <2>2. p = StakeOf(sess[s].rows[b]) /\ Tail(sess[s].todo) = <<>>
    BY <2>1 DEF p
  <2>3. r.todo = <<>>
    <3>1. todo = Due(<<>>)
      BY <2>2 DEF todo
    <3>2. <<>> \in Seq(Int)
      OBVIOUS
    <3> QED
      BY <1>9, <3>1, <3>2, DueType
  <2>4. sess[s].rows[b].stake \in Int
    BY <2>1, RowTypes
  <2>5. /\ p.account = sess[s].rows[b].account /\ p.type = "WAGER_STAKE"
        /\ p.amount = -sess[s].rows[b].stake
    BY <2>2 DEF StakeOf
  <2>6. \A a \in Accounts :
          r.posted[a]["WAGER_STAKE"] = IF a = r.rows[b].account THEN -r.rows[b].stake ELSE 0
    BY <1>8, <1>9, <2>1, <2>4, <2>5 DEF NoStake
  <2>7. Betting(r)
    BY <1>9, <2>1, <2>3, <2>6 DEF Betting
  <2> QED
    BY <1>10, <2>7 DEF SessionOK
<1>13. \A t \in Sessions \ {s} : DOMAIN r.rows \cap DOMAIN sess[t].rows \subseteq Placed
  BY <1>9 DEF SInv, BetsAreFresh
<1> QED
  BY <1>3, <1>5, <1>6, <1>11, <1>12, <1>13, UncommittedStep

-----------------------------------------------------------------------------
(* Commits. *)

(* What a commit of session s changes, as far as the invariant goes: its   *)
(* rows are written, its postings added, its game is final.                *)
LEMMA CommitFacts ==
  ASSUME SInv, NEW s \in Sessions, Commit(s)
  PROVE  /\ bet' = [b \in Bets |-> IF b \in DOMAIN sess[s].rows THEN sess[s].rows[b] ELSE bet[b]]
         /\ posted' \in [Accounts -> [PostingTypes -> Int]]
         /\ \A a \in Accounts : /\ posted[a]["WAGER_STAKE"] \in Int
                                /\ sess[s].posted[a]["WAGER_STAKE"] \in Int
                                /\ posted'[a]["WAGER_STAKE"]
                                     = posted[a]["WAGER_STAKE"] + sess[s].posted[a]["WAGER_STAKE"]
         /\ status' \in [Games -> {"SCHEDULED", "FINAL"}]
         /\ \A g \in Games : status'[g] = IF g = sess[s].game THEN "FINAL" ELSE status[g]
         /\ sess' = [sess EXCEPT ![s] = Idle]
         /\ KeysStillUnused(s)
         /\ sess[s].todo = <<>>
         /\ Settling(sess[s]) \/ Betting(sess[s])
<1>1. IsSession(sess[s]) /\ SessionOK(sess[s]) /\ DatabaseOK
  BY DEF SInv, SessionOK
<1>2. sess[s].posted \in [Accounts -> [PostingTypes -> Int]]
  BY <1>1 DEF IsSession
<1>3. posted \in [Accounts -> [PostingTypes -> Int]]
  BY <1>1 DEF DatabaseOK
<1>4. posted' = [a \in Accounts |-> [t \in PostingTypes |-> posted[a][t] + sess[s].posted[a][t]]]
  BY DEF Commit
<1>5. "WAGER_STAKE" \in PostingTypes
  BY DEF PostingTypes
<1>6. posted' \in [Accounts -> [PostingTypes -> Int]]
  BY <1>2, <1>3, <1>4
<1>7. \A a \in Accounts : /\ posted[a]["WAGER_STAKE"] \in Int
                          /\ sess[s].posted[a]["WAGER_STAKE"] \in Int
                          /\ posted'[a]["WAGER_STAKE"]
                               = posted[a]["WAGER_STAKE"] + sess[s].posted[a]["WAGER_STAKE"]
  BY <1>2, <1>3, <1>4, <1>5
<1>8. status' = [g \in Games |-> IF g = sess[s].game THEN "FINAL" ELSE status[g]]
  BY DEF Commit
<1>9. /\ status' \in [Games -> {"SCHEDULED", "FINAL"}]
      /\ \A g \in Games : status'[g] = IF g = sess[s].game THEN "FINAL" ELSE status[g]
  BY <1>1, <1>8 DEF DatabaseOK
<1>10. sess[s].phase = "posting"
  BY DEF Commit
<1>11. Settling(sess[s]) \/ Betting(sess[s])
  BY <1>1, <1>10 DEF SessionOK, Waiting
<1> QED
  BY <1>6, <1>7, <1>9, <1>11 DEF Commit

(* The other sessions are not disturbed by a commit that keeps the terms   *)
(* of bets and places none of theirs.                                      *)
LEMMA OthersUndisturbed ==
  ASSUME SInv, NEW s \in Sessions, sess' = [sess EXCEPT ![s] = Idle],
         Placed \subseteq Placed',
         \A b \in Placed' \ Placed : b \in DOMAIN sess[s].rows,
         \A b \in Placed : /\ bet'[b].account = bet[b].account
                           /\ bet'[b].key = bet[b].key
                           /\ bet'[b].stake = bet[b].stake
  PROVE  /\ sess' = [t \in Sessions |-> sess'[t]]
         /\ \A t \in Sessions : SessionOK(sess[t])'
         /\ BetsAreFresh'
<1>1. \A t \in Sessions : sess'[t] = IF t = s THEN Idle ELSE sess[t]
  BY DEF SInv
<1>2. sess' = [t \in Sessions |-> sess'[t]]
  BY DEF SInv
<1>3. ASSUME NEW t \in Sessions
      PROVE  SessionOK(sess[t])'
  <2>1. CASE t = s
    <3>1. sess'[t] = Idle
      BY <1>1, <2>1
    <3>2. IsSession(sess'[t]) /\ Waiting(sess'[t])
      BY <3>1, IdleFacts
    <3> QED
      BY <3>2 DEF SessionOK, IsSession, Waiting, NoStake
  <2>2. CASE t # s
    <3>1. sess'[t] = sess[t] /\ SessionOK(sess[t]) /\ IsSession(sess[t])
      BY <1>1, <2>2 DEF SInv, SessionOK
    <3>2. IsSession(sess[t])'
      BY <3>1 DEF IsSession
    <3>3. ASSUME Waiting(sess[t]) PROVE Waiting(sess[t])'
      BY <3>1, <3>3 DEF Waiting, NoStake
    <3>4. ASSUME Settling(sess[t]) PROVE Settling(sess[t])'
      BY <3>1, <3>4 DEF Settling, NoStake
    <3>5. ASSUME Betting(sess[t]) PROVE Betting(sess[t])'
      <4>1. PICK b \in Bets \ Placed :
              /\ DOMAIN sess[t].rows = {b}
              /\ sess[t].rows[b] \in BetRow
              /\ sess[t].rows[b].status = "PENDING"
              /\ \/ sess[t].todo = <<StakeOf(sess[t].rows[b])>> /\ NoStake(sess[t])
                 \/ /\ sess[t].todo = <<>>
                    /\ \A a \in Accounts :
                         sess[t].posted[a]["WAGER_STAKE"] =
                           IF a = sess[t].rows[b].account THEN -sess[t].rows[b].stake ELSE 0
        BY <3>5 DEF Betting
      <4>2. b \notin DOMAIN sess[s].rows
        BY <2>2, <4>1 DEF SInv, BetsAreFresh
      <4>3. b \in Bets \ Placed'
        BY <4>1, <4>2
      <4>4. sess[t].phase = "posting" /\ sess[t].game = NoGame
        BY <3>5 DEF Betting
      <4>5. NoStake(sess[t]) => NoStake(sess[t])'
        BY <3>1 DEF NoStake
      <4>6. /\ sess'[t].phase = "posting" /\ sess'[t].game = NoGame
            /\ DOMAIN sess'[t].rows = {b}
            /\ sess'[t].rows[b] \in BetRow
            /\ sess'[t].rows[b].status = "PENDING"
        BY <3>1, <4>1, <4>4
      <4>7. \/ sess'[t].todo = <<StakeOf(sess'[t].rows[b])>> /\ NoStake(sess[t])'
            \/ /\ sess'[t].todo = <<>>
               /\ \A a \in Accounts :
                    sess'[t].posted[a]["WAGER_STAKE"] =
                      IF a = sess'[t].rows[b].account THEN -sess'[t].rows[b].stake ELSE 0
        BY <3>1, <4>1, <4>5
      <4> QED
        BY <4>3, <4>6, <4>7 DEF Betting, StakeOf
    <3> QED
      BY <3>1, <3>2, <3>3, <3>4, <3>5 DEF SessionOK
  <2> QED
    BY <2>1, <2>2
<1>4. BetsAreFresh'
  <2>1. DOMAIN Idle.rows = {}
    BY IdleFacts
  <2> QED
    BY <1>1, <2>1 DEF SInv, BetsAreFresh
<1> QED
  BY <1>2, <1>3, <1>4

(* A session that settles bets commits. *)
LEMMA SettlingCommits ==
  ASSUME SInv, NEW s \in Sessions, Commit(s), Settling(sess[s])
  PROVE  SInv'
<1> DEFINE me == sess[s]
<1>1. /\ bet' = [b \in Bets |-> IF b \in DOMAIN me.rows THEN me.rows[b] ELSE bet[b]]
      /\ posted' \in [Accounts -> [PostingTypes -> Int]]
      /\ \A a \in Accounts : posted'[a]["WAGER_STAKE"]
                               = posted[a]["WAGER_STAKE"] + me.posted[a]["WAGER_STAKE"]
      /\ \A a \in Accounts : posted[a]["WAGER_STAKE"] \in Int
      /\ status' \in [Games -> {"SCHEDULED", "FINAL"}]
      /\ \A g \in Games : status'[g] = IF g = me.game THEN "FINAL" ELSE status[g]
      /\ sess' = [sess EXCEPT ![s] = Idle]
  BY CommitFacts
<1>2. bet \in [Bets -> BetRow \cup {NoBet}]
  BY DEF SInv, DatabaseOK
<1>3. \A b \in DOMAIN me.rows :
        /\ b \in Placed /\ me.rows[b] \in BetRow /\ me.rows[b].quote.game = me.game
        /\ me.rows[b].account = bet[b].account /\ me.rows[b].key = bet[b].key
        /\ me.rows[b].stake = bet[b].stake
  BY DEF Settling
<1>4. bet' \in [Bets -> BetRow \cup {NoBet}]
  BY <1>1, <1>2, <1>3
<1>5. Placed' = Placed
  BY <1>1, <1>2, <1>3, NoBetAssumption DEF Placed
<1>6. \A b \in Placed : /\ bet'[b].account = bet[b].account
                        /\ bet'[b].key = bet[b].key
                        /\ bet'[b].stake = bet[b].stake
  BY <1>1, <1>3 DEF Placed
<1>7. OneBetPerKey'
  BY <1>5, <1>6 DEF SInv, OneBetPerKey
<1>8. StakesAreCharged'
  <2> DEFINE f(a) == [b \in Bets |-> IF b \in Placed /\ bet[b].account = a
                                       THEN [x \in Placed |-> bet[x].stake][b] ELSE 0]
             g(a) == [b \in Bets |-> IF b \in Placed' /\ bet'[b].account = a
                                       THEN [x \in Placed' |-> bet'[x].stake][b] ELSE 0]
  <2>1. ASSUME NEW a \in Accounts
        PROVE  posted'[a]["WAGER_STAKE"] = -SumFunctionOnSet(g(a), Bets)
    <3>1. f(a) = g(a)
      BY <1>5, <1>6
    <3>2. posted[a]["WAGER_STAKE"] = -SumFunctionOnSet(f(a), Bets)
      BY DEF SInv, StakesAreCharged, SumOfBets
    <3>3. me.posted[a]["WAGER_STAKE"] = 0
      BY DEF Settling, NoStake
    <3>4. posted[a]["WAGER_STAKE"] \in Int
      BY <1>1
    <3>5. posted'[a]["WAGER_STAKE"] = posted[a]["WAGER_STAKE"]
      BY <1>1, <3>3, <3>4
    <3> HIDE DEF f, g
    <3> QED
      BY <3>1, <3>2, <3>5
  <2> QED
    BY <2>1 DEF StakesAreCharged, SumOfBets
<1>9. SettledMeansFinal'
  <2> SUFFICES ASSUME NEW b \in Placed, bet'[b].status # "PENDING"
               PROVE  status'[bet'[b].quote.game] = "FINAL"
    BY <1>5 DEF SettledMeansFinal
  <2>1. CASE b \in DOMAIN me.rows
    <3>1. bet'[b].quote.game = me.game
      BY <1>1, <1>3, <2>1 DEF Placed
    <3>2. bet'[b].quote.game \in Games
      <4>1. bet'[b].quote \in Quotes
        BY <1>1, <1>3, <2>1 DEF Placed, BetRow
      <4> QED
        BY <4>1, QuoteFacts
    <3> QED
      BY <1>1, <3>1, <3>2
  <2>2. CASE b \notin DOMAIN me.rows
    <3>1. bet'[b] = bet[b]
      BY <1>1, <2>2 DEF Placed
    <3>2. status[bet[b].quote.game] = "FINAL"
      BY <3>1 DEF SInv, SettledMeansFinal
    <3>3. bet[b].quote.game \in Games
      BY <1>2, RowFacts
    <3> QED
      BY <1>1, <3>1, <3>2, <3>3
  <2> QED
    BY <2>1, <2>2
<1>10. DatabaseOK'
  BY <1>1, <1>4 DEF DatabaseOK
<1>11. /\ sess' = [t \in Sessions |-> sess'[t]]
       /\ \A t \in Sessions : SessionOK(sess[t])'
       /\ BetsAreFresh'
  BY <1>1, <1>5, <1>6, OthersUndisturbed
<1> QED
  BY <1>7, <1>8, <1>9, <1>10, <1>11 DEF SInv

(* A session that places a bet commits. *)
LEMMA BettingCommits ==
  ASSUME SInv, NEW s \in Sessions, Commit(s), Betting(sess[s])
  PROVE  SInv'
<1> DEFINE me == sess[s]
<1>1. /\ bet' = [b \in Bets |-> IF b \in DOMAIN me.rows THEN me.rows[b] ELSE bet[b]]
      /\ posted' \in [Accounts -> [PostingTypes -> Int]]
      /\ \A a \in Accounts : posted'[a]["WAGER_STAKE"]
                               = posted[a]["WAGER_STAKE"] + me.posted[a]["WAGER_STAKE"]
      /\ status' \in [Games -> {"SCHEDULED", "FINAL"}]
      /\ \A g \in Games : status'[g] = IF g = me.game THEN "FINAL" ELSE status[g]
      /\ sess' = [sess EXCEPT ![s] = Idle]
      /\ KeysStillUnused(s)
      /\ me.todo = <<>>
  BY CommitFacts
<1>2. bet \in [Bets -> BetRow \cup {NoBet}]
  BY DEF SInv, DatabaseOK
<1>3. PICK b \in Bets \ Placed :
        /\ DOMAIN me.rows = {b}
        /\ me.rows[b] \in BetRow
        /\ me.rows[b].status = "PENDING"
        /\ \A a \in Accounts :
             me.posted[a]["WAGER_STAKE"] = IF a = me.rows[b].account THEN -me.rows[b].stake ELSE 0
  BY <1>1 DEF Betting
<1> DEFINE row == me.rows[b]
<1>4. row.account \in Accounts /\ row.stake \in Int
  BY <1>3, RowTypes
<1>5. bet' = [c \in Bets |-> IF c = b THEN row ELSE bet[c]]
  BY <1>1, <1>3
<1> HIDE DEF row
<1>6. bet'[b] = row /\ \A c \in Placed : bet'[c] = bet[c]
  BY <1>3, <1>5 DEF Placed
<1>7. row \in BetRow /\ row.status = "PENDING"
  BY <1>3 DEF row
<1>8. bet' \in [Bets -> BetRow \cup {NoBet}]
  BY <1>2, <1>5, <1>7
<1>9. Placed' = Placed \cup {b}
  BY <1>3, <1>5, <1>7, NoBetAssumption DEF Placed
<1>10. OneBetPerKey'
  <2>1. \A c \in Placed : bet[c].account = row.account => row.key = NoKey \/ bet[c].key # row.key
    BY <1>1, <1>3 DEF KeysStillUnused, KeyUnused, row
  <2>2. \A c, d \in Placed :
          bet[c].account = bet[d].account /\ bet[c].key = bet[d].key /\ bet[c].key # NoKey => c = d
    BY DEF SInv, OneBetPerKey
  <2> QED
    BY <1>6, <1>9, <2>1, <2>2 DEF OneBetPerKey
<1>11. StakesAreCharged'
  <2> DEFINE old == [c \in Placed |-> bet[c].stake]
             new == [c \in Placed' |-> bet'[c].stake]
             sum(a) == SumFunctionOnSet([c \in Bets |-> IF c \in Placed' /\ bet'[c].account = a
                                                          THEN new[c] ELSE 0], Bets)
  <2>1. /\ \A c \in Placed : old[c] \in Int /\ new[c] = old[c]
        /\ new[b] = row.stake
    <3>1. \A c \in Placed : bet[c].stake \in Int
      BY <1>2, RowFacts
    <3> QED
      BY <1>6, <1>9, <3>1
  <2>2. ASSUME NEW a \in Accounts
        PROVE  posted'[a]["WAGER_STAKE"] = -sum(a)
    <3> HIDE DEF old, new
    <3>1. /\ sum(a) = SumOfBets(a, Placed, old) + (IF bet'[b].account = a THEN new[b] ELSE 0)
          /\ SumOfBets(a, Placed, old) \in Int
      <4>1. new[b] \in Int /\ b \in Bets /\ b \notin Placed
        BY <1>3, <1>4, <2>1
      <4>2. \A c \in Placed : old[c] \in Int /\ new[c] = old[c]
        BY <2>1
      <4> QED
        BY <1>6, <1>9, <4>1, <4>2, SumWithNewBet, SMTT(30)
    <3> HIDE DEF sum
    <3>2. posted[a]["WAGER_STAKE"] = -SumOfBets(a, Placed, old)
      BY DEF SInv, StakesAreCharged, old
    <3>3. me.posted[a]["WAGER_STAKE"] = IF a = row.account THEN -row.stake ELSE 0
      BY <1>3 DEF row
    <3> QED
      BY <1>1, <1>4, <1>6, <2>1, <3>1, <3>2, <3>3
  <2> QED
    BY <2>2 DEF StakesAreCharged, SumOfBets
<1>12. SettledMeansFinal'
  <2> SUFFICES ASSUME NEW c \in Placed', bet'[c].status # "PENDING"
               PROVE  status'[bet'[c].quote.game] = "FINAL"
    BY DEF SettledMeansFinal
  <2>1. c \in Placed /\ bet'[c] = bet[c]
    BY <1>6, <1>7, <1>9
  <2>2. status[bet[c].quote.game] = "FINAL" /\ bet[c].quote.game \in Games
    BY <1>2, <2>1, RowFacts DEF SInv, SettledMeansFinal
  <2> QED
    BY <1>1, <2>1, <2>2
<1>13. DatabaseOK'
  BY <1>1, <1>8 DEF DatabaseOK
<1>14. /\ sess' = [t \in Sessions |-> sess'[t]]
       /\ \A t \in Sessions : SessionOK(sess[t])'
       /\ BetsAreFresh'
  <2>1. \A c \in Placed' \ Placed : c \in DOMAIN sess[s].rows
    BY <1>3, <1>9
  <2> QED
    BY <1>1, <1>6, <1>9, <2>1, OthersUndisturbed
<1> QED
  BY <1>10, <1>11, <1>12, <1>13, <1>14 DEF SInv

-----------------------------------------------------------------------------
(* Every step keeps the invariant. *)

LEMMA SInvInit == SessionsInit => SInv
<1> SUFFICES ASSUME SessionsInit PROVE SInv
  OBVIOUS
<1>1. Placed = {}
  BY DEF SessionsInit, Placed
<1>2. DatabaseOK
  <2>1. bet \in [Bets -> BetRow \cup {NoBet}] /\ status \in [Games -> {"SCHEDULED", "FINAL"}]
    BY DEF SessionsInit
  <2>2. posted \in [Accounts -> [PostingTypes -> Int]]
    BY SessionsAssumption DEF SessionsInit
  <2> QED
    BY <2>1, <2>2 DEF DatabaseOK
<1>3. sess = [s \in Sessions |-> Idle]
  BY DEF SessionsInit
<1>4. \A s \in Sessions : SessionOK(sess[s])
  BY <1>3, IdleFacts DEF SessionOK
<1>5. BetsAreFresh
  BY <1>3, IdleFacts DEF BetsAreFresh
<1>6. StakesAreCharged
  <2> SUFFICES ASSUME NEW a \in Accounts
               PROVE  posted[a]["WAGER_STAKE"] = -SumOfBets(a, Placed, [b \in Placed |-> bet[b].stake])
    BY DEF StakesAreCharged
  <2> DEFINE stakes == SumOfBets(a, Placed, [b \in Placed |-> bet[b].stake])
  <2>1. posted[a]["WAGER_STAKE"] = 0
    BY DEF SessionsInit, PostingTypes
  <2> DEFINE f == [b \in Bets |-> IF b \in Placed /\ bet[b].account = a
                                    THEN [x \in Placed |-> bet[x].stake][b] ELSE 0]
  <2>2. \A b \in Bets : f[b] = 0
    BY <1>1
  <2>3. SumFunctionOnSet(f, Bets) = 0
    <3> HIDE DEF f
    <3> QED
      BY <2>2, WageringAssumption, SumZero
  <2>4. stakes = 0
    BY <2>3 DEF SumOfBets
  <2> HIDE DEF stakes
  <2>5. posted[a]["WAGER_STAKE"] = -stakes
    <3>1. /\ posted[a]["WAGER_STAKE"] \in Int /\ stakes \in Int
          /\ posted[a]["WAGER_STAKE"] + stakes = 0
      BY <2>1, <2>4
    <3> QED
      BY <3>1, Opposite
  <2> QED
    BY <2>5 DEF stakes
<1>7. OneBetPerKey /\ SettledMeansFinal
  BY <1>1 DEF OneBetPerKey, SettledMeansFinal
<1> QED
  BY <1>2, <1>3, <1>4, <1>5, <1>6, <1>7 DEF SInv

(* A step that only takes a lock, or no step at all. *)
LEMMA NothingChanges ==
  ASSUME SInv, UNCHANGED <<vars, sess>>
  PROVE  SInv'
<1>1. UNCHANGED <<bet, posted, status, sess>>
  BY DEF vars
<1>2. Placed' = Placed
  BY <1>1 DEF Placed
<1>3. \A s \in Sessions : SessionOK(sess[s])'
  <2> SUFFICES ASSUME NEW s \in Sessions PROVE SessionOK(sess[s])'
    OBVIOUS
  <2>1. SessionOK(sess[s])
    BY DEF SInv
  <2>2. IsSession(sess[s]) => IsSession(sess[s])'
    BY <1>1 DEF IsSession
  <2>3. Waiting(sess[s]) => Waiting(sess[s])'
    BY <1>1 DEF Waiting, NoStake
  <2>4. Settling(sess[s]) => Settling(sess[s])'
    BY <1>1, <1>2 DEF Settling, NoStake
  <2>5. ASSUME Betting(sess[s])
        PROVE  Betting(sess[s])'
    <3>1. PICK b \in Bets \ Placed :
            /\ DOMAIN sess[s].rows = {b}
            /\ sess[s].rows[b] \in BetRow
            /\ sess[s].rows[b].status = "PENDING"
            /\ \/ sess[s].todo = <<StakeOf(sess[s].rows[b])>> /\ NoStake(sess[s])
               \/ /\ sess[s].todo = <<>>
                  /\ \A a \in Accounts :
                       sess[s].posted[a]["WAGER_STAKE"] =
                         IF a = sess[s].rows[b].account THEN -sess[s].rows[b].stake ELSE 0
      BY <2>5 DEF Betting
    <3>2. NoStake(sess[s]) => NoStake(sess[s])'
      BY <1>1 DEF NoStake
    <3>3. sess[s].phase = "posting" /\ sess[s].game = NoGame /\ b \in Bets \ Placed'
      BY <1>2, <2>5, <3>1 DEF Betting
    <3>4. sess'[s] = sess[s]
      BY <1>1
    <3>5. \/ sess'[s].todo = <<StakeOf(sess'[s].rows[b])>> /\ NoStake(sess[s])'
          \/ /\ sess'[s].todo = <<>>
             /\ \A a \in Accounts :
                  sess'[s].posted[a]["WAGER_STAKE"] =
                    IF a = sess'[s].rows[b].account THEN -sess'[s].rows[b].stake ELSE 0
      BY <3>1, <3>2, <3>4
    <3> QED
      BY <3>1, <3>3, <3>4, <3>5 DEF Betting, StakeOf
  <2> QED
    BY <2>1, <2>2, <2>3, <2>4, <2>5 DEF SessionOK
<1>4. DatabaseOK' /\ BetsAreFresh' /\ OneBetPerKey' /\ StakesAreCharged' /\ SettledMeansFinal'
  <2>1. DatabaseOK'
    BY <1>1 DEF SInv, DatabaseOK
  <2>2. BetsAreFresh'
    BY <1>1, <1>2 DEF SInv, BetsAreFresh
  <2>3. OneBetPerKey'
    BY <1>1, <1>2 DEF SInv, OneBetPerKey
  <2>4. StakesAreCharged'
    BY <1>1, <1>2 DEF SInv, StakesAreCharged, SumOfBets
  <2>5. SettledMeansFinal'
    BY <1>1, <1>2 DEF SInv, SettledMeansFinal
  <2> QED
    BY <2>1, <2>2, <2>3, <2>4, <2>5
<1> QED
  BY <1>1, <1>3, <1>4 DEF SInv

LEMMA SInvStep == SInv /\ [SessionsNext]_allVars => SInv'
<1> SUFFICES ASSUME SInv, [SessionsNext]_allVars PROVE SInv'
  OBVIOUS
<1>1. CASE UNCHANGED allVars
  BY <1>1, NothingChanges DEF allVars
<1>2. CASE SessionsNext
  <2> PICK s \in Sessions :
        \/ \E a \in Accounts : Authenticate(s, a)
        \/ \E g \in Games, final \in Scores : BeginResult(s, g, final)
        \/ Proceed(s)
        \/ LockRow(s)
        \/ BreakDeadlock(s)
        \/ Fail(s)
    BY <1>2 DEF SessionsNext
  <2>1. CASE \E a \in Accounts : Authenticate(s, a)
    BY <2>1, AuthenticateKeeps
  <2>2. CASE \E g \in Games, final \in Scores : BeginResult(s, g, final)
    BY <2>2, BeginResultKeeps
  <2>3. CASE Ask(s)
    <3>1. CASE \E a \in Accounts, t \in {"DEPOSIT", "WITHDRAWAL"}, amount \in Amounts :
                 RequestManual(s, a, t, amount)
      BY <3>1, RequestManualKeeps
    <3>2. CASE \E b \in Bets, a \in Accounts, q \in Quotes, stake \in Stakes, key \in Keys \cup {NoKey} :
                 RequestBet(s, b, a, q, stake, key)
      BY <3>2, RequestBetKeeps
    <3>3. CASE Refuse(s)
      BY <3>3, RefuseKeeps
    <3> QED
      BY <2>3, <3>1, <3>2, <3>3 DEF Ask
  <2>4. CASE ReadBets(s)
    BY <2>4, ReadBetsKeeps
  <2>5. CASE Load(s)
    BY <2>5, LoadKeeps
  <2>6. CASE Post(s)
    BY <2>6, PostKeeps
  <2>7. CASE Commit(s)
    <3>1. Settling(sess[s]) \/ Betting(sess[s])
      BY <2>7, CommitFacts
    <3> QED
      BY <2>7, <3>1, SettlingCommits, BettingCommits
  <2>8. CASE Reject(s) \/ BreakDeadlock(s) \/ Fail(s)
    BY <2>8, Forgets DEF Reject, BreakDeadlock, Fail
  <2>9. CASE LockRow(s)
    BY <2>9, NothingChanges DEF LockRow
  <2> QED
    BY <2>1, <2>2, <2>3, <2>4, <2>5, <2>6, <2>7, <2>8, <2>9 DEF Proceed
<1> QED
  BY <1>1, <1>2

LEMMA SInvHolds == SessionsSpec => []SInv
BY SInvInit, SInvStep, PTL DEF SessionsSpec

-----------------------------------------------------------------------------
(* However many sessions overlap, no key of an account names two bets: the *)
(* unique constraint decides between two placements that both found the    *)
(* key free (place_bet's retry after IntegrityError relies on it).         *)
THEOREM KeysSurviveOverlap == SessionsSpec => []OneBetPerKey
BY SInvHolds, PTL DEF SInv

(* However many sessions overlap, the stakes charged to an account are     *)
(* those of its bets: a bet row and its stake commit together or not at    *)
(* all.                                                                    *)
THEOREM StakesSurviveOverlap == SessionsSpec => []StakesAreCharged
BY SInvHolds, PTL DEF SInv

(* However many sessions overlap, a bet is settled only together with, or  *)
(* after, the final score of its game.                                     *)
THEOREM SettlingSurvivesOverlap == SessionsSpec => []SettledMeansFinal
BY SInvHolds, PTL DEF SInv

-----------------------------------------------------------------------------
(* One session at a time. *)

Posting == [account : Accounts, type : PostingTypes, amount : Int]

(* What the postings of `todo` numbered by I move under type t to a.       *)
DueIn(todo, a, t, I) ==
  SumFunctionOnSet([i \in DOMAIN todo |->
    IF todo[i].account = a /\ todo[i].type = t THEN todo[i].amount ELSE 0], I)

(* The postings made and those still to be made are those of `entry`. *)
WillPost(me, entry) ==
  \A a \in Accounts, t \in PostingTypes :
    me.posted[a][t] + DueIn(me.todo, a, t, DOMAIN me.todo) = entry[a][t]

(* What the postings made so far amount to, on the row r. *)
Net(posts) == [a \in Accounts |-> Total(posts[a])]
MovedOn(posts, r) ==
  IF r = Capital THEN -SumFunctionOnSet(Net(posts), Accounts) ELSE Net(posts)[r]

(* The rows of which session s holds the lock. *)
HeldBy(s) == {r \in DOMAIN lock : s \in lock[r]}

(* A row the session has read is as committed, but for its own postings;   *)
(* a row it has posted to is read and locked.                              *)
RowsInHand(me, held) ==
  /\ DOMAIN me.seen \subseteq Accounts \cup {Capital}
  /\ \A r \in DOMAIN me.seen : me.seen[r] = Committed(r) + MovedOn(me.posted, r)
  /\ \A r \in Accounts \cup {Capital} :
       r \in DOMAIN me.seen \cap held \/ MovedOn(me.posted, r) = 0

NothingPosted(me) == me.posted = [a \in Accounts |-> [t \in PostingTypes |-> 0]]

(* A session that settles no game, makes its first result or corrects it.  *)
NoResult(me) == me.game = NoGame /\ me.trail = <<>>

ToRecord(me) ==
  /\ me.game \in Games /\ me.score \in Scores
  /\ status[me.game] # "FINAL"
  /\ me.trail = <<>>

ToCorrect(me) ==
  /\ me.game \in Games /\ me.score \in Scores
  /\ status[me.game] = "FINAL" /\ score[me.game] # me.score
  /\ Len(audit[me.game]) < MaxCorrections
  /\ me.trail = <<CorrectionRow(me.game, me.score)>>

(* A session that has not begun to post. *)
Reading(me) ==
  /\ me.rows = <<>> /\ me.todo = <<>> /\ NothingPosted(me)
  /\ \/ me.phase \in {"idle", "authenticated"} /\ NoResult(me)
     \/ me.phase = "record" /\ ToRecord(me)
     \/ me.phase = "correct" /\ ToCorrect(me)

(* A session that posts what one request of Wagering posts, and will write *)
(* the rows that request writes: a deposit, a withdrawal, ...              *)
MovingMoney(me) ==
  /\ NoResult(me) /\ DOMAIN me.rows = {}
  /\ \E a \in Accounts, amount \in Amounts :
       \/ /\ posted[a]["DEPOSIT"] + amount <= MaxDeposited
          /\ WillPost(me, Single(a, "DEPOSIT", amount))
       \/ /\ balance[a] >= amount
          /\ WillPost(me, Single(a, "WITHDRAWAL", -amount))

(* ... a bet ...                                                           *)
PlacingBet(me) ==
  /\ NoResult(me)
  /\ \E b \in Bets, a \in Accounts, q \in Quotes, stake \in Stakes, key \in Keys \cup {NoKey} :
       /\ bet[b] = NoBet
       /\ KeyUnused(a, key)
       /\ beforeCutoff[q.game]
       /\ balance[a] >= stake
       /\ WillPost(me, Single(a, "WAGER_STAKE", -stake))
       /\ me.rows = [new \in {b} |-> [account |-> a, quote |-> q, key |-> key, stake |-> stake,
                                      status |-> "PENDING", payout |-> 0]]

(* ... or the settlement of a set of bets.                                 *)
SettlingBets(me, S) ==
  /\ me.rows = [b \in S |-> Settled(b, me.score)]
  /\ WillPost(me, SettlementEntries(S, me.score))

Requesting(me) ==
  /\ me.phase = "posting"
  /\ \/ MovingMoney(me)
     \/ PlacingBet(me)
     \/ ToRecord(me) /\ SettlingBets(me, PendingOn(me.game))
     \/ ToCorrect(me) /\ SettlingBets(me, BetsOn(me.game))

LoneSession(me, held) ==
  /\ IsSession(me)
  /\ me.todo \in Seq(Posting)
  /\ RowsInHand(me, held)
  /\ Reading(me) \/ Requesting(me)

(* The inductive invariant of a session that is alone. *)
AloneInv(s) ==
  /\ IInv
  /\ account = [a \in Accounts |-> "active"]
  /\ sess = [r \in Sessions |-> sess[r]]
  /\ DOMAIN lock = Accounts \cup {Capital}
  /\ LoneSession(sess[s], HeldBy(s))

-----------------------------------------------------------------------------
(* What a list of postings comes to. *)

LEMMA DueInType ==
  ASSUME NEW todo \in Seq(Posting), NEW a, NEW t, NEW I \in SUBSET DOMAIN todo
  PROVE  DueIn(todo, a, t, I) \in Int
<1> DEFINE f == [i \in DOMAIN todo |-> IF todo[i].account = a /\ todo[i].type = t
                                         THEN todo[i].amount ELSE 0]
<1>1. IsFiniteSet(I)
  BY FS_Interval, FS_Subset
<1>2. \A i \in I : f[i] \in Int
  <2>1. \A i \in DOMAIN todo : todo[i] \in Posting
    OBVIOUS
  <2>2. \A i \in DOMAIN todo : todo[i].amount \in Int
    BY <2>1 DEF Posting
  <2> QED
    BY <2>2
<1> HIDE DEF f
<1>3. SumFunctionOnSet(f, I) \in Int
  BY <1>1, <1>2, SumType
<1> QED
  BY <1>3 DEF DueIn, f

(* The first m postings, and the others. *)
LEMMA DueSplits ==
  ASSUME NEW todo \in Seq(Posting), NEW a, NEW t, NEW m \in 0 .. Len(todo)
  PROVE  DueIn(todo, a, t, DOMAIN todo)
           = DueIn(todo, a, t, 1 .. m)
               + DueIn(SubSeq(todo, m + 1, Len(todo)), a, t, DOMAIN SubSeq(todo, m + 1, Len(todo)))
<1> DEFINE rest == SubSeq(todo, m + 1, Len(todo))
           f == [i \in DOMAIN todo |-> IF todo[i].account = a /\ todo[i].type = t
                                         THEN todo[i].amount ELSE 0]
           g == [i \in DOMAIN rest |-> IF rest[i].account = a /\ rest[i].type = t
                                         THEN rest[i].amount ELSE 0]
           k == [i \in DOMAIN rest |-> i + m]
           late == m + 1 .. Len(todo)
<1>1. Len(todo) \in Nat /\ DOMAIN todo = 1 .. Len(todo) /\ \A i \in DOMAIN todo : f[i] \in Int
  <2>1. \A i \in DOMAIN todo : todo[i] \in Posting
    OBVIOUS
  <2>2. \A i \in DOMAIN todo : todo[i].amount \in Int
    BY <2>1 DEF Posting
  <2> QED
    BY <2>2
<1>2. /\ DOMAIN rest = 1 .. Len(todo) - m
      /\ \A i \in DOMAIN rest : i + m \in DOMAIN todo /\ rest[i] = todo[i + m]
  <2>1. m + 1 \in Int /\ Len(todo) \in Int /\ \A i \in m + 1 .. Len(todo) : todo[i] \in Posting
    BY <1>1
  <2>2. /\ rest \in Seq(Posting)
        /\ Len(rest) = IF m + 1 <= Len(todo) THEN Len(todo) - (m + 1) + 1 ELSE 0
        /\ \A i \in 1 .. Len(todo) - (m + 1) + 1 : rest[i] = todo[m + 1 + i - 1]
    BY <2>1, SubSeqProperties
  <2> HIDE DEF rest
  <2>3. Len(rest) = Len(todo) - m
    <3>1. CASE m = Len(todo)
      BY <1>1, <2>2, <3>1
    <3>2. CASE m < Len(todo)
      <4>1. m + 1 <= Len(todo) /\ Len(todo) - (m + 1) + 1 = Len(todo) - m
        BY <1>1, <3>2
      <4> QED
        BY <2>2, <4>1
    <3>3. m = Len(todo) \/ m < Len(todo)
      OBVIOUS
    <3> QED
      BY <3>1, <3>2, <3>3
  <2>4. \A i \in 1 .. Len(todo) - m : rest[i] = todo[i + m]
    <3>1. Len(todo) - (m + 1) + 1 = Len(todo) - m
      BY <1>1
    <3>2. \A i \in 1 .. Len(todo) - m : m + 1 + i - 1 = i + m
      BY <1>1
    <3> QED
      BY <2>2, <3>1, <3>2
  <2>5. DOMAIN rest = 1 .. Len(todo) - m
    BY <2>2, <2>3
  <2> QED
    BY <1>1, <2>4, <2>5
<1> HIDE DEF rest
<1>3. IsFiniteSet(DOMAIN rest) /\ IsFiniteSet(1 .. m) /\ IsFiniteSet(late)
  BY <1>1, <1>2, FS_Interval
<1>4. \A i \in DOMAIN rest : g[i] \in Int /\ f[k[i]] = g[i]
  BY <1>1, <1>2
<1>5. \A i, j \in DOMAIN rest : k[i] = k[j] => i = j
  BY <1>1, <1>2
<1>6. GroupKeys(k, DOMAIN rest) = late
  <2>1. ASSUME NEW i \in late PROVE \E j \in DOMAIN rest : i = k[j]
    <3>1. i - m \in DOMAIN rest /\ k[i - m] = i
      BY <1>1, <1>2
    <3> QED
      BY <3>1
  <2>2. \A j \in DOMAIN rest : k[j] \in late
    BY <1>1, <1>2
  <2> HIDE DEF k, late
  <2> QED
    BY <2>1, <2>2 DEF GroupKeys
<1>7. 1 .. m \cap late = {} /\ 1 .. m \cup late = DOMAIN todo
  BY <1>1
<1> HIDE DEF f, g, k, late
<1>8. SumFunctionOnSet(f, late) = SumFunctionOnSet(g, DOMAIN rest)
  BY <1>3, <1>4, <1>5, <1>6, SumRenamed
<1>9. SumFunctionOnSet(f, DOMAIN todo) = SumFunctionOnSet(f, 1 .. m) + SumFunctionOnSet(f, late)
  <2>1. \A i \in (1 .. m) \cup late : f[i] \in Int
    BY <1>1, <1>7
  <2>2. SumFunctionOnSet(f, (1 .. m) \cup late) = SumFunctionOnSet(f, 1 .. m) + SumFunctionOnSet(f, late)
    BY <1>3, <1>7, <2>1, SumUnion
  <2> QED
    BY <1>7, <2>2
<1> QED
  BY <1>8, <1>9 DEF DueIn, f, g, rest

(* Leaving out zeros leaves out the first postings, as far as they are     *)
(* zero.                                                                   *)
LEMMA DueIsTheRest ==
  ASSUME NEW todo \in Seq(Posting)
  PROVE  \E m \in 0 .. Len(todo) :
           /\ Due(todo) = SubSeq(todo, m + 1, Len(todo))
           /\ \A j \in 1 .. m : todo[j].amount = 0
<1> DEFINE zeros == {i \in DOMAIN todo : \A j \in 1 .. i : todo[j].amount = 0}
           others == {i \in 1 .. Len(todo) + 1 : i \notin zeros}
<1>1. Len(todo) \in Nat /\ DOMAIN todo = 1 .. Len(todo)
  OBVIOUS
<1>2. PICK n \in others : \A i \in others : n <= i
  <2>1. Len(todo) + 1 \in others /\ others \in SUBSET Nat
    BY <1>1
  <2> HIDE DEF others
  <2> QED
    BY <2>1, LeastNumber
<1>3. n \in 1 .. Len(todo) + 1 /\ n \notin zeros
  BY <1>2
<1>4. \A i \in 1 .. n - 1 : i \in zeros
  BY <1>1, <1>2, <1>3
<1>5. \A i \in zeros : i \in 1 .. n - 1
  <2> SUFFICES ASSUME NEW i \in zeros, i >= n PROVE FALSE
    BY <1>1, <1>3
  <2>1. n \in DOMAIN todo /\ \A j \in 1 .. n : todo[j].amount = 0
    BY <1>1, <1>3
  <2> QED
    BY <1>3, <2>1
<1>6. zeros = 1 .. n - 1
  BY <1>4, <1>5
<1>7. Cardinality(zeros) = n - 1
  <2>1. Cardinality(1 .. n - 1) = IF 1 > n - 1 THEN 0 ELSE (n - 1) - 1 + 1
    BY <1>3, FS_Interval
  <2> HIDE DEF zeros, others
  <2>2. Cardinality(1 .. n - 1) = n - 1
    BY <1>3, <2>1
  <2> QED
    BY <1>6, <2>2
<1>8. \A j \in 1 .. n - 1 : todo[j].amount = 0
  <2> SUFFICES ASSUME NEW j \in 1 .. n - 1 PROVE todo[j].amount = 0
    OBVIOUS
  <2>1. j \in zeros /\ j \in 1 .. j
    BY <1>3, <1>4
  <2> QED
    BY <2>1
<1>9. Due(todo) = SubSeq(todo, (n - 1) + 1, Len(todo))
  BY <1>7 DEF Due
<1>10. n - 1 \in 0 .. Len(todo)
  BY <1>1, <1>3
<1> HIDE DEF zeros, others
<1> QED
  BY <1>8, <1>9, <1>10

(* ... and so changes no sum. *)
LEMMA DueIsKept ==
  ASSUME NEW todo \in Seq(Posting), NEW a, NEW t
  PROVE  DueIn(Due(todo), a, t, DOMAIN Due(todo)) = DueIn(todo, a, t, DOMAIN todo)
<1>1. PICK m \in 0 .. Len(todo) : /\ Due(todo) = SubSeq(todo, m + 1, Len(todo))
                                  /\ \A j \in 1 .. m : todo[j].amount = 0
  BY DueIsTheRest
<1> DEFINE f == [i \in DOMAIN todo |-> IF todo[i].account = a /\ todo[i].type = t
                                         THEN todo[i].amount ELSE 0]
<1>2. \A j \in 1 .. m : f[j] = 0
  BY <1>1
<1>3. IsFiniteSet(1 .. m)
  BY FS_Interval
<1> HIDE DEF f
<1>4. SumFunctionOnSet(f, 1 .. m) = 0
  BY <1>2, <1>3, SumZero
<1>5. DueIn(todo, a, t, 1 .. m) = 0
  BY <1>4 DEF DueIn, f
<1>6. Due(todo) \in Seq(Posting)
  BY DueType
<1>7. PICK n \in Int : n = DueIn(Due(todo), a, t, DOMAIN Due(todo))
  BY <1>6, DueInType
<1>8. DueIn(todo, a, t, DOMAIN todo) = 0 + n
  BY <1>1, <1>5, <1>7, DueSplits
<1>9. 0 + n = n
  OBVIOUS
<1> QED
  BY <1>7, <1>8, <1>9, Zenon

(* The first posting, and the others. *)
LEMMA DueOfFirst ==
  ASSUME NEW todo \in Seq(Posting), todo # <<>>, NEW a, NEW t
  PROVE  /\ Tail(todo) \in Seq(Posting) /\ todo[1] \in Posting
         /\ DueIn(todo, a, t, DOMAIN todo)
              = (IF todo[1].account = a /\ todo[1].type = t THEN todo[1].amount ELSE 0)
                  + DueIn(Tail(todo), a, t, DOMAIN Tail(todo))
<1> DEFINE f == [i \in DOMAIN todo |-> IF todo[i].account = a /\ todo[i].type = t
                                         THEN todo[i].amount ELSE 0]
<1>1. 1 \in 0 .. Len(todo) /\ todo[1] \in Posting /\ 1 \in DOMAIN todo
  OBVIOUS
<1>2. f[1] = (IF todo[1].account = a /\ todo[1].type = t THEN todo[1].amount ELSE 0) /\ f[1] \in Int
  BY <1>1 DEF Posting
<1>3. SumFunctionOnSet(f, {1}) = f[1]
  <2> HIDE DEF f
  <2> QED
    BY <1>2, SumOfOne
<1>4. 1 .. 1 = {1}
  OBVIOUS
<1>5. DueIn(todo, a, t, 1 .. 1) = f[1]
  BY <1>3, <1>4 DEF DueIn
<1>6. Tail(todo) \in Seq(Posting) /\ Tail(todo) = SubSeq(todo, 1 + 1, Len(todo))
  <2>1. Tail(todo) \in Seq(Posting)
    OBVIOUS
  <2>2. Tail(todo) = SubSeq(todo, 2, Len(todo))
    BY TailIsSubSeq
  <2> QED
    BY <2>1, <2>2
<1>7. DueIn(todo, a, t, DOMAIN todo)
        = DueIn(todo, a, t, 1 .. 1) + DueIn(Tail(todo), a, t, DOMAIN Tail(todo))
  <2> DEFINE rest == SubSeq(todo, 1 + 1, Len(todo))
  <2>1. DueIn(todo, a, t, DOMAIN todo)
          = DueIn(todo, a, t, 1 .. 1) + DueIn(rest, a, t, DOMAIN rest)
    BY <1>1, DueSplits
  <2>2. rest = Tail(todo)
    BY <1>6
  <2> HIDE DEF rest
  <2> QED
    BY <2>1, <2>2
<1> HIDE DEF f
<1> QED
  BY <1>1, <1>2, <1>5, <1>6, <1>7

(* Nothing to post. *)
LEMMA DueOfNone ==
  ASSUME NEW a, NEW t
  PROVE  DueIn(<<>>, a, t, DOMAIN <<>>) = 0
BY SumEmpty DEF DueIn

(* One list after another. *)
LEMMA DueOfConcat ==
  ASSUME NEW u \in Seq(Posting), NEW v \in Seq(Posting), NEW a, NEW t
  PROVE  DueIn(u \o v, a, t, DOMAIN (u \o v)) = DueIn(u, a, t, DOMAIN u) + DueIn(v, a, t, DOMAIN v)
<1> DEFINE w == u \o v
           f == [i \in DOMAIN w |-> IF w[i].account = a /\ w[i].type = t THEN w[i].amount ELSE 0]
           g == [i \in DOMAIN u |-> IF u[i].account = a /\ u[i].type = t THEN u[i].amount ELSE 0]
<1>1. /\ w \in Seq(Posting) /\ Len(w) = Len(u) + Len(v)
      /\ \A i \in 1 .. Len(u) + Len(v) : w[i] = IF i <= Len(u) THEN u[i] ELSE v[i - Len(u)]
  BY ConcatProperties
<1>2. Len(u) \in Nat /\ Len(v) \in Nat /\ DOMAIN u = 1 .. Len(u) /\ DOMAIN v = 1 .. Len(v)
  OBVIOUS
<1> HIDE DEF w
<1>3. DOMAIN w = 1 .. Len(u) + Len(v) /\ Len(u) \in 0 .. Len(w)
  BY <1>1, <1>2
<1> DEFINE rest == SubSeq(w, Len(u) + 1, Len(w))
<1>4. rest = v
  <2>1. /\ Len(u) + 1 \in Int /\ Len(w) \in Int
        /\ \A i \in Len(u) + 1 .. Len(w) : w[i] \in Posting
    BY <1>1, <1>2, <1>3
  <2>2. /\ rest \in Seq(Posting)
        /\ Len(rest) = IF Len(u) + 1 <= Len(w) THEN Len(w) - (Len(u) + 1) + 1 ELSE 0
        /\ \A i \in 1 .. Len(w) - (Len(u) + 1) + 1 : rest[i] = w[Len(u) + 1 + i - 1]
    BY <2>1, SubSeqProperties
  <2> HIDE DEF rest
  <2>3. Len(w) - (Len(u) + 1) + 1 = Len(v) /\ (Len(v) > 0 <=> Len(u) + 1 <= Len(w))
    BY <1>1, <1>2
  <2>4. Len(rest) = Len(v)
    BY <1>2, <2>2, <2>3
  <2>5. ASSUME NEW i \in 1 .. Len(v) PROVE rest[i] = v[i]
    <3>1. Len(u) + 1 + i - 1 = Len(u) + i /\ Len(u) + i \in 1 .. Len(u) + Len(v)
      BY <1>2
    <3>2. ~ (Len(u) + i <= Len(u)) /\ Len(u) + i - Len(u) = i
      BY <1>2
    <3>3. rest[i] = w[Len(u) + i]
      BY <2>2, <2>3, <3>1
    <3> QED
      BY <1>1, <3>1, <3>2, <3>3
  <2>6. PICK other \in Seq(Posting) : other = rest
    BY <2>2
  <2>7. Len(other) = Len(v) /\ \A i \in 1 .. Len(other) : other[i] = v[i]
    BY <2>4, <2>5, <2>6
  <2>8. other = v
    BY <2>7, SeqEqual
  <2> QED
    BY <2>6, <2>8
<1>5. DueIn(w, a, t, DOMAIN w)
        = DueIn(w, a, t, 1 .. Len(u)) + DueIn(rest, a, t, DOMAIN rest)
  <2>1. PICK m \in 0 .. Len(w) : m = Len(u)
    BY <1>3
  <2>2. PICK all \in Seq(Posting) : all = w
    BY <1>1
  <2>3. DueIn(all, a, t, DOMAIN all)
          = DueIn(all, a, t, 1 .. m)
              + DueIn(SubSeq(all, m + 1, Len(all)), a, t, DOMAIN SubSeq(all, m + 1, Len(all)))
    BY <2>1, <2>2, DueSplits
  <2>4. SubSeq(all, m + 1, Len(all)) = rest
    BY <2>1, <2>2
  <2> QED
    BY <2>1, <2>2, <2>3, <2>4
<1>6. \A i \in 1 .. Len(u) : w[i] = u[i] /\ i \in DOMAIN w /\ i \in DOMAIN u
  BY <1>1, <1>2, <1>3
<1>7. IsFiniteSet(1 .. Len(u)) /\ \A i \in 1 .. Len(u) : f[i] = g[i]
  <2>1. IsFiniteSet(1 .. Len(u))
    BY <1>2, FS_Interval
  <2>2. \A i \in 1 .. Len(u) : f[i] = g[i]
    BY <1>6
  <2> QED
    BY <2>1, <2>2
<1> HIDE DEF f, g, rest
<1>8. SumFunctionOnSet(f, 1 .. Len(u)) = SumFunctionOnSet(g, 1 .. Len(u))
  BY <1>7, SumSame
<1>9. DueIn(w, a, t, 1 .. Len(u)) = DueIn(u, a, t, DOMAIN u)
  BY <1>2, <1>8 DEF DueIn, f, g
<1> QED
  BY <1>4, <1>5, <1>9 DEF w

(* A sum of opposites. *)
LEMMA SumOfOpposites ==
  ASSUME NEW a, NEW S \in SUBSET Bets, NEW cents, NEW owed,
         \A b \in S : cents[b] \in Int /\ owed[b] = -cents[b]
  PROVE  SumOfBets(a, S, owed) = -SumOfBets(a, S, cents)
<1> DEFINE f == [b \in Bets |-> IF b \in S /\ bet[b].account = a THEN cents[b] ELSE 0]
           g == [b \in Bets |-> IF b \in S /\ bet[b].account = a THEN owed[b] ELSE 0]
           h == [b \in Bets |-> 0]
<1>1. IsFiniteSet(Bets)
  BY WageringAssumption
<1>2. \A b \in Bets : f[b] \in Int /\ g[b] \in Int /\ h[b] = f[b] + g[b]
  OBVIOUS
<1>3. \A b \in Bets : h[b] = 0
  OBVIOUS
<1> HIDE DEF f, g, h
<1>4. SumFunctionOnSet(h, Bets) = 0
  BY <1>1, <1>3, SumZero
<1>5. SumFunctionOnSet(h, Bets) = SumFunctionOnSet(f, Bets) + SumFunctionOnSet(g, Bets)
  BY <1>1, <1>2, SumPlus
<1>6. SumFunctionOnSet(f, Bets) \in Int /\ SumFunctionOnSet(g, Bets) \in Int
  BY <1>1, <1>2, SumType
<1>7. SumFunctionOnSet(g, Bets) = -SumFunctionOnSet(f, Bets)
  BY <1>4, <1>5, <1>6, Opposite
<1> QED
  BY <1>7 DEF SumOfBets, f, g

(* A list of a set's elements has each of them once. *)
LEMMA OrderIsComplete ==
  ASSUME NEW S, IsFiniteSet(S), NEW order \in SetToSeqs(S)
  PROVE  /\ Cardinality(S) \in Nat
         /\ order \in [1 .. Cardinality(S) -> S]
         /\ \A i, j \in 1 .. Cardinality(S) : i # j => order[i] # order[j]
         /\ \A b \in S : \E i \in 1 .. Cardinality(S) : order[i] = b
<1>1. PICK n \in Nat : n = Cardinality(S)
  BY FS_CardinalityType
<1>2. order \in [1 .. n -> S] /\ \A i, j \in 1 .. n : i # j => order[i] # order[j]
  BY <1>1 DEF SetToSeqs
<1>3. order \in Injection(1 .. n, S)
  BY <1>2 DEF Injection, IsInjective
<1>4. Cardinality(1 .. n) = n
  <2>1. Cardinality(1 .. n) = IF 1 > n THEN 0 ELSE n - 1 + 1
    BY FS_Interval
  <2>2. (IF 1 > n THEN 0 ELSE n - 1 + 1) = n
    OBVIOUS
  <2> QED
    BY <2>1, <2>2
<1>5. order \in Surjection(1 .. n, S)
  BY <1>1, <1>3, <1>4, FS_Injection
<1>6. \A b \in S : \E i \in 1 .. n : order[i] = b
  BY <1>5 DEF Surjection
<1> QED
  BY <1>1, <1>2, <1>6

(* Postings of a type to the accounts of bets, in some order. *)
ByBet(order, type, cents) ==
  [i \in DOMAIN order |->
     [account |-> bet[order[i]].account, type |-> type, amount |-> cents[order[i]]]]

(* POSTINGS IN ANY ORDER. One posting for every bet of S, in any order,    *)
(* comes to the sum over the bets.                                         *)
LEMMA DueToBets ==
  ASSUME NEW S \in SUBSET Bets, NEW order \in SetToSeqs(S), NEW type \in PostingTypes, NEW cents,
         \A b \in S : bet[b].account \in Accounts /\ cents[b] \in Int
  PROVE  /\ ByBet(order, type, cents) \in Seq(Posting)
         /\ \A a, t : DueIn(ByBet(order, type, cents), a, t, DOMAIN ByBet(order, type, cents))
                        = IF t = type THEN SumOfBets(a, S, cents) ELSE 0
<1>1. IsFiniteSet(S) /\ IsFiniteSet(Bets)
  BY WageringAssumption, FS_Subset
<1>2. PICK n \in Nat : n = Cardinality(S)
  BY <1>1, FS_CardinalityType
<1>3. /\ order \in [1 .. n -> S]
      /\ \A i, j \in 1 .. n : i # j => order[i] # order[j]
      /\ \A b \in S : \E i \in 1 .. n : order[i] = b
  <2>1. /\ order \in [1 .. Cardinality(S) -> S]
        /\ \A i, j \in 1 .. Cardinality(S) : i # j => order[i] # order[j]
        /\ \A b \in S : \E i \in 1 .. Cardinality(S) : order[i] = b
    BY <1>1, OrderIsComplete
  <2> QED
    BY <1>2, <2>1
<1> DEFINE w == ByBet(order, type, cents)
<1>4. ASSUME NEW i \in 1 .. n
      PROVE  /\ order[i] \in S
             /\ w[i] = [account |-> bet[order[i]].account, type |-> type, amount |-> cents[order[i]]]
             /\ w[i] \in Posting
  <2>1. order[i] \in S
    BY <1>3
  <2>2. bet[order[i]].account \in Accounts /\ cents[order[i]] \in Int
    BY <2>1
  <2>3. w[i] = [account |-> bet[order[i]].account, type |-> type, amount |-> cents[order[i]]]
    BY <1>3 DEF ByBet
  <2> QED
    BY <2>1, <2>2, <2>3 DEF Posting
<1>5. DOMAIN w = 1 .. n /\ w \in Seq(Posting)
  <2>1. w = [i \in 1 .. n |-> w[i]]
    BY <1>3 DEF ByBet
  <2>2. w \in [1 .. n -> Posting]
    BY <1>4, <2>1
  <2> QED
    BY <2>2
<1>6. ASSUME NEW a, NEW t
      PROVE  DueIn(w, a, t, DOMAIN w) = IF t = type THEN SumOfBets(a, S, cents) ELSE 0
  <2> DEFINE f == [i \in DOMAIN w |-> IF w[i].account = a /\ w[i].type = t THEN w[i].amount ELSE 0]
             g == [b \in Bets |-> IF b \in S /\ bet[b].account = a THEN cents[b] ELSE 0]
  <2>1. PICK D : D = 1 .. n
    OBVIOUS
  <2>2. /\ \A i \in D : order[i] \in S /\ w[i].account = bet[order[i]].account
        /\ \A i \in D : w[i].type = type /\ w[i].amount = cents[order[i]]
        /\ DOMAIN w = D /\ IsFiniteSet(D)
        /\ \A i, j \in D : order[i] = order[j] => i = j
        /\ \A b \in S : \E i \in D : order[i] = b
    <3>1. IsFiniteSet(D)
      BY <2>1, FS_Interval
    <3> QED
      BY <1>3, <1>4, <1>5, <2>1, <3>1
  <2> HIDE DEF w
  <2>3. CASE t = type
    <3>1. \A i \in D : f[i] = IF bet[order[i]].account = a THEN cents[order[i]] ELSE 0
      BY <2>2, <2>3
    <3>2. \A b \in S : g[b] = IF bet[b].account = a THEN cents[b] ELSE 0
      OBVIOUS
    <3>3. \A b \in Bets \ S : g[b] = 0
      OBVIOUS
    <3> HIDE DEF f, g
    <3>4. \A i \in D : g[order[i]] = f[i]
      BY <2>2, <3>1, <3>2
    <3>5. \A i \in D : f[i] \in Int
      BY <2>2, <3>1
    <3>6. \A b \in S : g[b] \in Int
      BY <3>2
    <3>7. GroupKeys(order, D) = S
      BY <2>2 DEF GroupKeys
    <3>8. SumFunctionOnSet(g, GroupKeys(order, D)) = SumFunctionOnSet(f, D)
      BY <2>2, <3>4, <3>5, SumRenamed
    <3>9. SumFunctionOnSet(g, Bets) = SumFunctionOnSet(g, S)
      BY <1>1, <3>3, <3>6, SumWithin
    <3> QED
      BY <2>2, <2>3, <3>7, <3>8, <3>9 DEF DueIn, SumOfBets, f, g
  <2>4. CASE t # type
    <3>1. \A i \in D : f[i] = 0
      BY <2>2, <2>4
    <3> HIDE DEF f
    <3>2. SumFunctionOnSet(f, D) = 0
      BY <2>2, <3>1, SumZero
    <3> QED
      BY <2>2, <2>4, <3>2 DEF DueIn, f
  <2> QED
    BY <2>3, <2>4
<1> QED
  BY <1>5, <1>6

-----------------------------------------------------------------------------
(* What a settlement posts, and reads and writes first. *)

(* The postings that ReadBets makes of the bets it reads, before those of  *)
(* zero cents are left out.                                                *)
Reversals(order) ==
  [i \in DOMAIN order |-> [account |-> bet[order[i]].account, type |-> "ADJUSTMENT",
                           amount |-> -bet[order[i]].payout]]
Payouts(order, final) ==
  [i \in DOMAIN order |-> [account |-> bet[order[i]].account, type |-> "WAGER_PAYOUT",
                           amount |-> Settled(order[i], final).payout]]

(* The postings of `todo` are those of `entry`. *)
Posts(todo, entry) ==
  \A a \in Accounts, t \in PostingTypes : DueIn(todo, a, t, DOMAIN todo) = entry[a][t]

(* Read in any order, the bets of S make the postings of their settlement. *)
LEMMA ReadBetsWillPost ==
  ASSUME TypeOK, NEW S \in SUBSET Placed, NEW final \in Scores, NEW order \in SetToSeqs(S),
         NEW todo, todo = Reversals(order) \o Payouts(order, final)
  PROVE  /\ ToSet(order) = S
         /\ todo \in Seq(Posting)
         /\ Posts(todo, SettlementEntries(S, final))
<1> PICK u : u = Reversals(order)
  OBVIOUS
<1> PICK v : v = Payouts(order, final)
  OBVIOUS
<1>1. S \in SUBSET Bets /\ IsFiniteSet(S)
  <2>1. S \in SUBSET Bets
    BY DEF Placed
  <2> QED
    BY <2>1, FS_Subset, WageringAssumption
<1>2. PICK n \in Nat : n = Cardinality(S)
  BY <1>1, FS_CardinalityType
<1>3. /\ order \in [1 .. n -> S]
      /\ \A i, j \in 1 .. n : i # j => order[i] # order[j]
      /\ \A b \in S : \E i \in 1 .. n : order[i] = b
  <2>1. /\ order \in [1 .. Cardinality(S) -> S]
        /\ \A i, j \in 1 .. Cardinality(S) : i # j => order[i] # order[j]
        /\ \A b \in S : \E i \in 1 .. Cardinality(S) : order[i] = b
    BY <1>1, OrderIsComplete
  <2> QED
    BY <1>2, <2>1
<1>4. ToSet(order) = S
  BY <1>3 DEF ToSet
<1> DEFINE before == [b \in S |-> bet[b].payout]
           owed == [b \in S |-> -bet[b].payout]
           after == [b \in S |-> Settled(b, final).payout]
<1>5. ASSUME NEW b \in S
      PROVE  /\ bet[b].account \in Accounts
             /\ bet[b].payout \in Int /\ -bet[b].payout \in Int
             /\ Settled(b, final).payout \in Int
  <2>1. b \in Placed
    OBVIOUS
  <2>2. bet[b].account \in Accounts /\ bet[b].payout \in Nat
    BY <2>1, BetFacts
  <2>3. Settled(b, final).payout \in Nat
    BY <2>1, SettledFacts
  <2> QED
    BY <2>2, <2>3
<1>6. \A i \in 1 .. n : order[i] \in S
  BY <1>3
<1>7. \A b \in S : bet[b].account \in Accounts /\ owed[b] \in Int
  BY <1>5
<1>8. \A b \in S : bet[b].account \in Accounts /\ after[b] \in Int
  BY <1>5
<1>9. \A b \in S : before[b] \in Int /\ owed[b] = -before[b]
  BY <1>5
<1>10. u = ByBet(order, "ADJUSTMENT", owed) /\ v = ByBet(order, "WAGER_PAYOUT", after)
  <2>1. DOMAIN order = 1 .. n
    BY <1>3
  <2> QED
    BY <1>6, <2>1 DEF ByBet, Reversals, Payouts
<1> HIDE DEF before, owed, after
<1>11. "ADJUSTMENT" \in PostingTypes /\ "WAGER_PAYOUT" \in PostingTypes
  BY DEF PostingTypes
<1>12. /\ u \in Seq(Posting)
       /\ \A a, t : DueIn(u, a, t, DOMAIN u) = IF t = "ADJUSTMENT" THEN SumOfBets(a, S, owed) ELSE 0
  <2>1. PICK w : w = ByBet(order, "ADJUSTMENT", owed)
    OBVIOUS
  <2>2. PICK type \in PostingTypes : type = "ADJUSTMENT"
    BY <1>11
  <2>3. PICK cents : cents = owed
    OBVIOUS
  <2>4. \A b \in S : bet[b].account \in Accounts /\ cents[b] \in Int
    BY <1>7, <2>3
  <2>5. /\ ByBet(order, type, cents) \in Seq(Posting)
        /\ \A a, t : DueIn(ByBet(order, type, cents), a, t, DOMAIN ByBet(order, type, cents))
                       = IF t = type THEN SumOfBets(a, S, cents) ELSE 0
    BY <1>1, <2>4, DueToBets
  <2>6. w = u /\ w = ByBet(order, type, cents)
    BY <1>10, <2>1, <2>2, <2>3
  <2> QED
    BY <2>2, <2>3, <2>5, <2>6
<1>13. /\ v \in Seq(Posting)
       /\ \A a, t : DueIn(v, a, t, DOMAIN v) = IF t = "WAGER_PAYOUT" THEN SumOfBets(a, S, after) ELSE 0
  <2>1. PICK w : w = ByBet(order, "WAGER_PAYOUT", after)
    OBVIOUS
  <2>2. PICK type \in PostingTypes : type = "WAGER_PAYOUT"
    BY <1>11
  <2>3. PICK cents : cents = after
    OBVIOUS
  <2>4. \A b \in S : bet[b].account \in Accounts /\ cents[b] \in Int
    BY <1>8, <2>3
  <2>5. /\ ByBet(order, type, cents) \in Seq(Posting)
        /\ \A a, t : DueIn(ByBet(order, type, cents), a, t, DOMAIN ByBet(order, type, cents))
                       = IF t = type THEN SumOfBets(a, S, cents) ELSE 0
    BY <1>1, <2>4, DueToBets
  <2>6. w = v /\ w = ByBet(order, type, cents)
    BY <1>10, <2>1, <2>2, <2>3
  <2> QED
    BY <2>2, <2>3, <2>5, <2>6
<1>15. u \o v \in Seq(Posting)
  BY <1>12, <1>13, ConcatProperties
<1>14. ASSUME NEW a \in Accounts, NEW t \in PostingTypes
       PROVE  DueIn(u \o v, a, t, DOMAIN (u \o v)) = SettlementEntries(S, final)[a][t]
  <2>1. DueIn(u, a, t, DOMAIN u) = IF t = "ADJUSTMENT" THEN SumOfBets(a, S, owed) ELSE 0
    BY <1>12
  <2>2. DueIn(v, a, t, DOMAIN v) = IF t = "WAGER_PAYOUT" THEN SumOfBets(a, S, after) ELSE 0
    BY <1>13
  <2>3. SumOfBets(a, S, owed) = -SumOfBets(a, S, before)
    BY <1>1, <1>9, SumOfOpposites
  <2>4. DueIn(u \o v, a, t, DOMAIN (u \o v)) = DueIn(u, a, t, DOMAIN u) + DueIn(v, a, t, DOMAIN v)
    BY <1>12, <1>13, DueOfConcat
  <2>5. DueIn(u, a, t, DOMAIN u) \in Int /\ DueIn(v, a, t, DOMAIN v) \in Int
    BY <1>12, <1>13, DueInType
  <2>6. SettlementEntries(S, final)[a][t]
          = CASE t = "ADJUSTMENT"   -> -SumOfBets(a, S, before)
              [] t = "WAGER_PAYOUT" -> SumOfBets(a, S, after)
              [] OTHER              -> 0
    BY DEF SettlementEntries, before, after
  <2>7. CASE t = "ADJUSTMENT"
    BY <2>1, <2>2, <2>3, <2>4, <2>5, <2>6, <2>7
  <2>8. CASE t = "WAGER_PAYOUT"
    BY <2>1, <2>2, <2>3, <2>4, <2>5, <2>6, <2>8
  <2>9. CASE t \notin {"ADJUSTMENT", "WAGER_PAYOUT"}
    BY <2>1, <2>2, <2>3, <2>4, <2>5, <2>6, <2>9
  <2> QED
    BY <2>7, <2>8, <2>9
<1> QED
  BY <1>4, <1>14, <1>15 DEF Posts

-----------------------------------------------------------------------------
(* The steps of a session that is alone, before its commit. *)

LEMMA NothingMoved ==
  ASSUME NEW me, NothingPosted(me), NEW r \in Accounts \cup {Capital}
  PROVE  MovedOn(me.posted, r) = 0
<1>1. \A a \in Accounts : Net(me.posted)[a] = 0
  BY DEF NothingPosted, Net, Total, PostingTypes
<1>2. IsFiniteSet(Accounts)
  BY LedgerAssumption
<1>3. SumFunctionOnSet(Net(me.posted), Accounts) = 0
  BY <1>1, <1>2, SumZero
<1>4. CASE r = Capital
  <2> DEFINE n == SumFunctionOnSet(Net(me.posted), Accounts)
  <2>1. PICK z \in Int : z = 0
    OBVIOUS
  <2>2. n \in Int /\ z + n = 0
    BY <1>3, <2>1
  <2>3. z = -n
    <3> HIDE DEF n
    <3> QED
      BY <2>2, Opposite
  <2> QED
    BY <1>4, <2>1, <2>3 DEF MovedOn
<1>5. CASE r # Capital
  BY <1>1, <1>5 DEF MovedOn
<1> QED
  BY <1>4, <1>5

(* A step that commits nothing. *)
LEMMA LoneStep ==
  ASSUME NEW s \in Sessions, AloneInv(s), UNCHANGED vars, DOMAIN lock' = DOMAIN lock,
         NEW r, sess' = [sess EXCEPT ![s] = r],
         NEW held, held = HeldBy(s)', LoneSession(r, held)
  PROVE  AloneInv(s)'
<1>1. IInv'
  BY IInvKept DEF AloneInv
<1>2. UNCHANGED <<account, balance, posted, capital, bet, status, score, beforeCutoff, audit>>
  BY DEF vars
<1>3. sess' = [x \in Sessions |-> sess'[x]] /\ sess'[s] = r
  BY DEF AloneInv
<1>4. Placed' = Placed
  BY <1>2 DEF Placed
<1>5. IsSession(sess[s])' /\ (sess[s].todo \in Seq(Posting))'
  <2>1. IsSession(r) /\ r.todo \in Seq(Posting)
    BY DEF LoneSession
  <2> QED
    BY <1>3, <2>1 DEF IsSession
<1>6. RowsInHand(sess[s], HeldBy(s))'
  <2>1. RowsInHand(r, held)
    BY DEF LoneSession
  <2> HIDE DEF HeldBy
  <2> QED
    BY <1>2, <1>3, <2>1 DEF RowsInHand, Committed
<1>7. ASSUME Reading(r)
      PROVE  Reading(sess[s])'
  <2>1. NothingPosted(r) => NothingPosted(sess[s])'
    BY <1>3 DEF NothingPosted
  <2>2. NoResult(r) => NoResult(sess[s])'
    BY <1>3 DEF NoResult
  <2>3. ToRecord(r) => ToRecord(sess[s])'
    BY <1>2, <1>3 DEF ToRecord
  <2>4. ToCorrect(r) => ToCorrect(sess[s])'
    BY <1>2, <1>3 DEF ToCorrect, CorrectionRow
  <2> QED
    BY <1>3, <1>7, <2>1, <2>2, <2>3, <2>4 DEF Reading
<1>8. ASSUME Requesting(r)
      PROVE  Requesting(sess[s])'
  <2>1. NoResult(r) => NoResult(sess[s])'
    BY <1>3 DEF NoResult
  <2>2. ToRecord(r) => ToRecord(sess[s])'
    BY <1>2, <1>3 DEF ToRecord
  <2>3. ToCorrect(r) => ToCorrect(sess[s])'
    BY <1>2, <1>3 DEF ToCorrect, CorrectionRow
  <2>4. ASSUME NEW a \in Accounts, NEW t \in PostingTypes, NEW amount,
               WillPost(r, Single(a, t, amount))
        PROVE  WillPost(sess[s], Single(a, t, amount))'
    BY <1>3, <2>4 DEF WillPost, DueIn, Single
  <2>5. ASSUME MovingMoney(r) PROVE MovingMoney(sess[s])'
    <3>1. "DEPOSIT" \in PostingTypes /\ "WITHDRAWAL" \in PostingTypes
      BY DEF PostingTypes
    <3> QED
      BY <1>2, <1>3, <2>1, <2>4, <2>5, <3>1 DEF MovingMoney
  <2>6. ASSUME PlacingBet(r) PROVE PlacingBet(sess[s])'
    <3>1. "WAGER_STAKE" \in PostingTypes
      BY DEF PostingTypes
    <3>2. PICK b \in Bets, a \in Accounts, q \in Quotes, stake \in Stakes, key \in Keys \cup {NoKey} :
            /\ bet[b] = NoBet
            /\ KeyUnused(a, key)
            /\ beforeCutoff[q.game]
            /\ balance[a] >= stake
            /\ WillPost(r, Single(a, "WAGER_STAKE", -stake))
            /\ r.rows = [new \in {b} |-> [account |-> a, quote |-> q, key |-> key, stake |-> stake,
                                          status |-> "PENDING", payout |-> 0]]
      BY <2>6 DEF PlacingBet
    <3>3. KeyUnused(a, key)'
      BY <1>2, <1>4, <3>2 DEF KeyUnused
    <3>4. WillPost(sess[s], Single(a, "WAGER_STAKE", -stake))'
      BY <2>4, <3>1, <3>2
    <3>5. NoResult(sess[s])'
      BY <2>1, <2>6 DEF PlacingBet
    <3>6. /\ bet'[b] = NoBet /\ beforeCutoff'[q.game] /\ balance'[a] >= stake
          /\ sess'[s].rows = [new \in {b} |-> [account |-> a, quote |-> q, key |-> key, stake |-> stake,
                                               status |-> "PENDING", payout |-> 0]]
      BY <1>2, <1>3, <3>2
    <3> SUFFICES \E b2 \in Bets, a2 \in Accounts, q2 \in Quotes, stake2 \in Stakes,
                    key2 \in Keys \cup {NoKey} :
                   /\ (bet[b2] = NoBet)'
                   /\ KeyUnused(a2, key2)'
                   /\ beforeCutoff'[q2.game]
                   /\ balance'[a2] >= stake2
                   /\ WillPost(sess[s], Single(a2, "WAGER_STAKE", -stake2))'
                   /\ sess'[s].rows = [new \in {b2} |->
                                         [account |-> a2, quote |-> q2, key |-> key2, stake |-> stake2,
                                          status |-> "PENDING", payout |-> 0]]
      BY <3>5 DEF PlacingBet
    <3> WITNESS b \in Bets, a \in Accounts, q \in Quotes, stake \in Stakes, key \in Keys \cup {NoKey}
    <3> QED
      BY <3>3, <3>4, <3>6
  <2>7. ASSUME SettlingBets(r, PendingOn(r.game))
        PROVE  SettlingBets(sess[s], PendingOn(sess[s].game))'
    <3>1. PendingOn(sess[s].game)' = PendingOn(r.game)
      BY <1>2, <1>3, <1>4 DEF PendingOn, BetsOn
    <3>2. sess'[s].rows = [b \in PendingOn(sess[s].game)' |-> Settled(b, sess[s].score)']
      BY <1>2, <1>3, <2>7, <3>1 DEF SettlingBets, Settled
    <3>3. SettlementEntries(PendingOn(sess[s].game), sess[s].score)'
            = SettlementEntries(PendingOn(r.game), r.score)
      BY <1>2, <1>3, <3>1 DEF SettlementEntries, SumOfBets, Settled
    <3>4. WillPost(sess[s], SettlementEntries(PendingOn(sess[s].game), sess[s].score))'
      BY <1>3, <2>7, <3>3 DEF SettlingBets, WillPost, DueIn
    <3> QED
      BY <3>2, <3>4 DEF SettlingBets
  <2>8. ASSUME SettlingBets(r, BetsOn(r.game))
        PROVE  SettlingBets(sess[s], BetsOn(sess[s].game))'
    <3>1. BetsOn(sess[s].game)' = BetsOn(r.game)
      BY <1>2, <1>3, <1>4 DEF BetsOn
    <3>2. sess'[s].rows = [b \in BetsOn(sess[s].game)' |-> Settled(b, sess[s].score)']
      BY <1>2, <1>3, <2>8, <3>1 DEF SettlingBets, Settled
    <3>3. SettlementEntries(BetsOn(sess[s].game), sess[s].score)'
            = SettlementEntries(BetsOn(r.game), r.score)
      BY <1>2, <1>3, <3>1 DEF SettlementEntries, SumOfBets, Settled
    <3>4. WillPost(sess[s], SettlementEntries(BetsOn(sess[s].game), sess[s].score))'
      BY <1>3, <2>8, <3>3 DEF SettlingBets, WillPost, DueIn
    <3> QED
      BY <3>2, <3>4 DEF SettlingBets
  <2> QED
    BY <1>3, <1>8, <2>2, <2>3, <2>5, <2>6, <2>7, <2>8 DEF Requesting
<1>9. (Reading(sess[s]) \/ Requesting(sess[s]))'
  BY <1>7, <1>8 DEF LoneSession
<1>10. LoneSession(sess[s], HeldBy(s))'
  BY <1>5, <1>6, <1>9 DEF LoneSession
<1> QED
  BY <1>1, <1>2, <1>3, <1>10 DEF AloneInv

(* A session that has read rows and not posted anything. *)
LEMMA RowsRead ==
  ASSUME NEW me, NothingPosted(me), NEW held, me.seen = <<>>
  PROVE  RowsInHand(me, held)
<1>1. DOMAIN me.seen = {}
  OBVIOUS
<1>2. \A r \in Accounts \cup {Capital} : MovedOn(me.posted, r) = 0
  BY NothingMoved
<1> QED
  BY <1>1, <1>2 DEF RowsInHand

LEMMA IdleIsLone ==
  ASSUME NEW held
  PROVE  LoneSession(Idle, held)
<1>1. /\ NothingPosted(Idle) /\ Idle.seen = <<>> /\ Idle.rows = <<>> /\ Idle.todo = <<>>
      /\ Idle.phase = "idle" /\ Idle.game = NoGame /\ Idle.trail = <<>>
  BY DEF Idle, NothingPosted
<1>2. Reading(Idle)
  BY <1>1 DEF Reading, NoResult
<1>3. IsSession(Idle)
  BY IdleFacts
<1>4. RowsInHand(Idle, held)
  BY <1>1, RowsRead
<1>5. Idle.todo \in Seq(Posting)
  BY <1>1
<1> QED
  BY <1>2, <1>3, <1>4, <1>5 DEF LoneSession

LEMMA LoneForgets ==
  ASSUME NEW s \in Sessions, AloneInv(s), Rollback(s)
  PROVE  AloneInv(s)'
<1>1. PICK held : held = HeldBy(s)'
  OBVIOUS
<1>2. LoneSession(Idle, held)
  BY IdleIsLone
<1>3. UNCHANGED vars /\ sess' = [sess EXCEPT ![s] = Idle] /\ DOMAIN lock' = DOMAIN lock
  BY DEF Rollback, Release
<1> QED
  BY <1>1, <1>2, <1>3, LoneStep

LEMMA LoneRefuses ==
  ASSUME NEW s \in Sessions, AloneInv(s), Refuse(s)
  PROVE  AloneInv(s)'
<1>1. PICK held : held = HeldBy(s)'
  OBVIOUS
<1>2. LoneSession(Idle, held)
  BY IdleIsLone
<1>3. UNCHANGED vars /\ sess' = [sess EXCEPT ![s] = Idle] /\ DOMAIN lock' = DOMAIN lock
  BY DEF Refuse
<1> QED
  BY <1>1, <1>2, <1>3, LoneStep

(* The balance that is read is the committed one. *)
LEMMA LoneAuthenticates ==
  ASSUME NEW s \in Sessions, AloneInv(s), NEW a \in Accounts, Authenticate(s, a)
  PROVE  AloneInv(s)'
<1>1. PICK held : held = HeldBy(s)'
  OBVIOUS
<1>2. PICK seen : seen = WithRow(<<>>, a)
  OBVIOUS
<1>3. DOMAIN seen = {a} /\ seen[a] = Committed(a)
  BY <1>2 DEF WithRow
<1>4. PICK r : r = [Idle EXCEPT !.phase = "authenticated", !.seen = seen]
  OBVIOUS
<1>5. /\ r.phase = "authenticated" /\ r.seen = seen /\ r.todo = <<>> /\ r.rows = <<>>
      /\ r.game = NoGame /\ r.trail = <<>> /\ r.posted = Idle.posted /\ DOMAIN r = DOMAIN Idle
  BY <1>4 DEF Idle
<1>6. NothingPosted(r) /\ IsSession(r)
  BY <1>5, IdleFacts DEF Idle, NothingPosted, IsSession
<1>7. Reading(r) /\ r.todo \in Seq(Posting)
  BY <1>5, <1>6 DEF Reading, NoResult
<1>8. RowsInHand(r, held)
  <2>1. \A x \in Accounts \cup {Capital} : MovedOn(r.posted, x) = 0
    BY <1>6, NothingMoved
  <2>2. Committed(a) \in Int
    <3>1. balance[a] \in Int
      BY DEF AloneInv, IInv, TypeOK, LedgerTypeOK
    <3>2. a # Capital
      BY SessionsAssumption
    <3> QED
      BY <3>1, <3>2 DEF Committed
  <2>3. seen[a] = Committed(a) + MovedOn(r.posted, a)
    BY <1>3, <2>1, <2>2
  <2> QED
    BY <1>3, <1>5, <2>1, <2>3 DEF RowsInHand
<1>9. LoneSession(r, held)
  BY <1>6, <1>7, <1>8 DEF LoneSession
<1>10. UNCHANGED vars /\ sess' = [sess EXCEPT ![s] = r] /\ DOMAIN lock' = DOMAIN lock
  BY <1>2, <1>4 DEF Authenticate
<1> QED
  BY <1>1, <1>9, <1>10, LoneStep

(* A session before its first posting. *)
LEMMA StillReading ==
  ASSUME NEW s \in Sessions, AloneInv(s), sess[s].phase # "posting"
  PROVE  /\ Reading(sess[s]) /\ IsSession(sess[s]) /\ RowsInHand(sess[s], HeldBy(s))
         /\ sess[s].rows = <<>> /\ sess[s].todo = <<>> /\ NothingPosted(sess[s])
         /\ sess[s].phase \in {"idle", "authenticated"} => NoResult(sess[s])
<1>1. LoneSession(sess[s], HeldBy(s))
  BY DEF AloneInv
<1>2. Reading(sess[s])
  BY <1>1 DEF LoneSession, Requesting
<1> QED
  BY <1>1, <1>2 DEF LoneSession, Reading

(* ... holds the balances that are committed.                              *)
LEMMA SeenIsCommitted ==
  ASSUME NEW s \in Sessions, AloneInv(s), sess[s].phase # "posting",
         NEW a \in Accounts, a \in DOMAIN sess[s].seen
  PROVE  sess[s].seen[a] = balance[a]
<1>1. NothingPosted(sess[s]) /\ RowsInHand(sess[s], HeldBy(s))
  BY StillReading
<1>2. MovedOn(sess[s].posted, a) = 0
  <2>1. PICK me : me = sess[s]
    OBVIOUS
  <2> QED
    BY <1>1, <2>1, NothingMoved
<1>3. sess[s].seen[a] = Committed(a) + MovedOn(sess[s].posted, a)
  BY <1>1 DEF RowsInHand
<1>4. Committed(a) = balance[a] /\ balance[a] \in Int
  BY SessionsAssumption DEF Committed, AloneInv, IInv, TypeOK, LedgerTypeOK
<1> QED
  BY <1>2, <1>3, <1>4

(* One posting to make, and none made. *)
LEMMA OneToPost ==
  ASSUME NEW me, NothingPosted(me), NEW a \in Accounts, NEW t \in PostingTypes, NEW amount \in Int,
         me.todo = <<[account |-> a, type |-> t, amount |-> amount]>>
  PROVE  me.todo \in Seq(Posting) /\ WillPost(me, Single(a, t, amount))
<1>1. PICK p \in Posting : p = [account |-> a, type |-> t, amount |-> amount]
  BY DEF Posting
<1>2. PICK todo : todo = <<p>>
  OBVIOUS
<1>3. todo \in Seq(Posting) /\ me.todo = todo /\ todo # <<>> /\ todo[1] = p /\ Tail(todo) = <<>>
  BY <1>1, <1>2
<1>4. ASSUME NEW b \in Accounts, NEW u \in PostingTypes
      PROVE  me.posted[b][u] + DueIn(todo, b, u, DOMAIN todo) = Single(a, t, amount)[b][u]
  <2>1. DueIn(todo, b, u, DOMAIN todo)
          = (IF todo[1].account = b /\ todo[1].type = u THEN todo[1].amount ELSE 0)
              + DueIn(Tail(todo), b, u, DOMAIN Tail(todo))
    BY <1>3, DueOfFirst
  <2>2. DueIn(Tail(todo), b, u, DOMAIN Tail(todo)) = 0
    BY <1>3, DueOfNone
  <2>3. me.posted[b][u] = 0
    BY DEF NothingPosted
  <2>4. Single(a, t, amount)[b][u] = IF b = a /\ u = t THEN amount ELSE 0
    BY DEF Single
  <2> QED
    BY <1>1, <1>3, <2>1, <2>2, <2>3, <2>4
<1> QED
  BY <1>3, <1>4 DEF WillPost

(* What a session holds does not depend on what it has still to do. *)
LEMMA SameInHand ==
  ASSUME NEW me, NEW held, RowsInHand(me, held), NEW r, r.seen = me.seen, r.posted = me.posted
  PROVE  RowsInHand(r, held)
BY DEF RowsInHand

LEMMA LoneRequestsManual ==
  ASSUME NEW s \in Sessions, AloneInv(s), NEW a \in Accounts, NEW t \in {"DEPOSIT", "WITHDRAWAL"},
         NEW amount \in Amounts, RequestManual(s, a, t, amount)
  PROVE  AloneInv(s)'
<1>1. PICK held : held = HeldBy(s)' /\ held = HeldBy(s)
  BY DEF RequestManual, HeldBy
<1>2. PICK signed : signed = IF t = "DEPOSIT" THEN amount ELSE -amount
  OBVIOUS
<1>3. PICK me : me = sess[s]
  OBVIOUS
<1>4. sess[s].phase = "authenticated"
  BY DEF RequestManual
<1>5. /\ me.phase = "authenticated"
      /\ Reading(me) /\ IsSession(me) /\ RowsInHand(me, held)
      /\ me.rows = <<>> /\ me.todo = <<>> /\ NothingPosted(me) /\ NoResult(me)
  BY <1>1, <1>3, <1>4, StillReading
<1>6. PICK r : r = [me EXCEPT !.phase = "posting",
                              !.todo = <<[account |-> a, type |-> t, amount |-> signed]>>]
  OBVIOUS
<1>7. /\ r.phase = "posting" /\ r.seen = me.seen /\ r.rows = <<>> /\ r.posted = me.posted
      /\ r.game = me.game /\ r.trail = me.trail /\ DOMAIN r = DOMAIN me
      /\ r.todo = <<[account |-> a, type |-> t, amount |-> signed]>>
  BY <1>5, <1>6 DEF IsSession
<1>8. NothingPosted(r) /\ IsSession(r) /\ NoResult(r) /\ RowsInHand(r, held)
  BY <1>5, <1>7, SameInHand DEF NothingPosted, IsSession, NoResult
<1>9. amount \in Nat /\ signed \in Int /\ t \in PostingTypes
  BY <1>2, LedgerAssumption DEF PostingTypes
<1>10. r.todo \in Seq(Posting) /\ WillPost(r, Single(a, t, signed))
  BY <1>7, <1>8, <1>9, OneToPost
<1>11. MovingMoney(r)
  <2>1. DOMAIN r.rows = {}
    BY <1>7
  <2>2. CASE t = "DEPOSIT"
    <3>1. signed = amount /\ posted[a]["DEPOSIT"] + amount <= MaxDeposited
      BY <1>2, <2>2 DEF RequestManual
    <3> QED
      BY <1>8, <1>10, <2>1, <2>2, <3>1 DEF MovingMoney
  <2>3. CASE t = "WITHDRAWAL"
    <3>1. signed = -amount /\ a \in DOMAIN sess[s].seen /\ sess[s].seen[a] >= amount
      BY <1>2, <2>3 DEF RequestManual
    <3>2. balance[a] >= amount
      BY <1>4, <3>1, SeenIsCommitted
    <3> QED
      BY <1>8, <1>10, <2>1, <2>3, <3>1, <3>2 DEF MovingMoney
  <2> QED
    BY <2>2, <2>3
<1>12. LoneSession(r, held)
  BY <1>7, <1>8, <1>10, <1>11 DEF LoneSession, Requesting
<1>13. UNCHANGED vars /\ sess' = [sess EXCEPT ![s] = r] /\ DOMAIN lock' = DOMAIN lock
  BY <1>2, <1>3, <1>6 DEF RequestManual
<1> QED
  BY <1>1, <1>12, <1>13, LoneStep

LEMMA LoneRequestsBet ==
  ASSUME NEW s \in Sessions, AloneInv(s), NEW b \in Bets, NEW a \in Accounts, NEW q \in Quotes,
         NEW stake \in Stakes, NEW key \in Keys \cup {NoKey}, RequestBet(s, b, a, q, stake, key)
  PROVE  AloneInv(s)'
<1>1. PICK held : held = HeldBy(s)' /\ held = HeldBy(s)
  BY DEF RequestBet, HeldBy
<1>2. PICK rows : rows = [new \in {b} |->
                            [account |-> a, quote |-> q, key |-> key, stake |-> stake,
                             status |-> "PENDING", payout |-> 0]]
  OBVIOUS
<1>3. PICK me : me = sess[s]
  OBVIOUS
<1>4. sess[s].phase = "authenticated"
  BY DEF RequestBet
<1>5. /\ me.phase = "authenticated"
      /\ Reading(me) /\ IsSession(me) /\ RowsInHand(me, held)
      /\ me.rows = <<>> /\ me.todo = <<>> /\ NothingPosted(me) /\ NoResult(me)
  BY <1>1, <1>3, <1>4, StillReading
<1>6. PICK r : r = [me EXCEPT !.phase = "posting",
                              !.todo = <<[account |-> a, type |-> "WAGER_STAKE", amount |-> -stake]>>,
                              !.rows = rows]
  OBVIOUS
<1>7. /\ r.phase = "posting" /\ r.seen = me.seen /\ r.rows = rows /\ r.posted = me.posted
      /\ r.game = me.game /\ r.trail = me.trail /\ DOMAIN r = DOMAIN me
      /\ r.todo = <<[account |-> a, type |-> "WAGER_STAKE", amount |-> -stake]>>
  BY <1>5, <1>6 DEF IsSession
<1>8. NothingPosted(r) /\ IsSession(r) /\ NoResult(r) /\ RowsInHand(r, held)
  BY <1>5, <1>7, SameInHand DEF NothingPosted, IsSession, NoResult
<1>9. stake \in Nat /\ -stake \in Int /\ "WAGER_STAKE" \in PostingTypes
  BY WageringAssumption DEF PostingTypes
<1>10. r.todo \in Seq(Posting) /\ WillPost(r, Single(a, "WAGER_STAKE", -stake))
  BY <1>7, <1>8, <1>9, OneToPost
<1>11. PlacingBet(r)
  <2>1. bet[b] = NoBet /\ KeyUnused(a, key) /\ beforeCutoff[q.game]
    BY DEF RequestBet, Placed
  <2>2. balance[a] >= stake
    BY <1>4, SeenIsCommitted DEF RequestBet
  <2>3. r.rows = [new \in {b} |-> [account |-> a, quote |-> q, key |-> key, stake |-> stake,
                                   status |-> "PENDING", payout |-> 0]]
    BY <1>2, <1>7
  <2> QED
    BY <1>8, <1>10, <2>1, <2>2, <2>3 DEF PlacingBet
<1>12. LoneSession(r, held)
  BY <1>7, <1>8, <1>10, <1>11 DEF LoneSession, Requesting
<1>13. UNCHANGED vars /\ sess' = [sess EXCEPT ![s] = r] /\ DOMAIN lock' = DOMAIN lock
  BY <1>2, <1>3, <1>6 DEF RequestBet
<1> QED
  BY <1>1, <1>12, <1>13, LoneStep

LEMMA LoneBeginsResult ==
  ASSUME NEW s \in Sessions, AloneInv(s), NEW g \in Games, NEW final \in Scores,
         BeginResult(s, g, final)
  PROVE  AloneInv(s)'
<1>1. PICK held : held = HeldBy(s)' /\ held = HeldBy(s)
  BY DEF BeginResult, HeldBy
<1>2. PICK me : me = sess[s]
  OBVIOUS
<1>3. sess[s].phase \in {"idle", "authenticated"}
  BY DEF BeginResult
<1>4. /\ Reading(me) /\ IsSession(me) /\ RowsInHand(me, held)
      /\ me.rows = <<>> /\ me.todo = <<>> /\ NothingPosted(me) /\ NoResult(me)
  BY <1>1, <1>2, <1>3, StillReading
<1>5. UNCHANGED vars /\ DOMAIN lock' = DOMAIN lock
  BY DEF BeginResult
<1>6. CASE /\ status[g] # "FINAL"
           /\ sess' = [sess EXCEPT ![s].phase = "record", ![s].game = g, ![s].score = final]
  <2>1. PICK r : r = [me EXCEPT !.phase = "record", !.game = g, !.score = final]
    OBVIOUS
  <2>2. /\ r.phase = "record" /\ r.game = g /\ r.score = final /\ DOMAIN r = DOMAIN me
        /\ r.seen = me.seen /\ r.posted = me.posted /\ r.rows = <<>> /\ r.todo = <<>>
        /\ r.trail = me.trail
    BY <1>4, <2>1 DEF IsSession
  <2>3. NothingPosted(r) /\ IsSession(r) /\ RowsInHand(r, held) /\ r.todo \in Seq(Posting)
    BY <1>4, <2>2, SameInHand DEF NothingPosted, IsSession
  <2>4. ToRecord(r)
    BY <1>4, <1>6, <2>2 DEF NoResult, ToRecord
  <2>5. LoneSession(r, held)
    BY <2>2, <2>3, <2>4 DEF LoneSession, Reading
  <2>6. sess' = [sess EXCEPT ![s] = r]
    BY <1>2, <1>6, <2>1
  <2> QED
    BY <1>1, <1>5, <2>5, <2>6, LoneStep
<1>7. CASE /\ status[g] = "FINAL" /\ score[g] # final /\ Len(audit[g]) < MaxCorrections
           /\ sess' = [sess EXCEPT ![s].phase = "correct", ![s].game = g, ![s].score = final,
                                   ![s].trail = <<CorrectionRow(g, final)>>]
  <2>1. PICK row : row = CorrectionRow(g, final)
    OBVIOUS
  <2>2. PICK r : r = [me EXCEPT !.phase = "correct", !.game = g, !.score = final, !.trail = <<row>>]
    OBVIOUS
  <2>3. /\ r.phase = "correct" /\ r.game = g /\ r.score = final /\ DOMAIN r = DOMAIN me
        /\ r.seen = me.seen /\ r.posted = me.posted /\ r.rows = <<>> /\ r.todo = <<>>
        /\ r.trail = <<row>>
    BY <1>4, <2>2 DEF IsSession
  <2>4. NothingPosted(r) /\ IsSession(r) /\ RowsInHand(r, held) /\ r.todo \in Seq(Posting)
    BY <1>4, <2>3, SameInHand DEF NothingPosted, IsSession
  <2>5. ToCorrect(r)
    BY <1>7, <2>1, <2>3 DEF ToCorrect
  <2>6. LoneSession(r, held)
    BY <2>3, <2>4, <2>5 DEF LoneSession, Reading
  <2>7. sess' = [sess EXCEPT ![s] = r]
    BY <1>2, <1>7, <2>1, <2>2
  <2> QED
    BY <1>1, <1>5, <2>6, <2>7, LoneStep
<1> QED
  BY <1>6, <1>7 DEF BeginResult

(* The postings of a settlement, of which none is made. *)
LEMMA AllToPost ==
  ASSUME NEW me, NothingPosted(me), NEW todo \in Seq(Posting), me.todo = Due(todo), NEW entry,
         Posts(todo, entry)
  PROVE  me.todo \in Seq(Posting) /\ WillPost(me, entry)
<1>1. me.todo \in Seq(Posting)
  BY DueType
<1>2. ASSUME NEW a \in Accounts, NEW t \in PostingTypes
      PROVE  me.posted[a][t] + DueIn(me.todo, a, t, DOMAIN me.todo) = entry[a][t]
  <2>1. DueIn(Due(todo), a, t, DOMAIN Due(todo)) = DueIn(todo, a, t, DOMAIN todo)
    BY DueIsKept
  <2>2. DueIn(todo, a, t, DOMAIN todo) \in Int
    BY DueInType
  <2>3. me.posted[a][t] = 0
    BY DEF NothingPosted
  <2>4. DueIn(me.todo, a, t, DOMAIN me.todo) = entry[a][t] /\ entry[a][t] \in Int
    BY <2>1, <2>2 DEF Posts
  <2> QED
    BY <2>3, <2>4
<1> QED
  BY <1>1, <1>2 DEF WillPost

LEMMA LoneReadsBets ==
  ASSUME NEW s \in Sessions, AloneInv(s), ReadBets(s)
  PROVE  AloneInv(s)'
<1>1. PICK held : held = HeldBy(s)' /\ held = HeldBy(s)
  BY DEF ReadBets, HeldBy
<1>2. PICK me : me = sess[s]
  OBVIOUS
<1>3. sess[s].phase \in {"record", "correct"}
  BY DEF ReadBets
<1>4. /\ Reading(me) /\ IsSession(me) /\ RowsInHand(me, held)
      /\ me.rows = <<>> /\ me.todo = <<>> /\ NothingPosted(me)
  BY <1>1, <1>2, <1>3, StillReading
<1>5. PICK S : S = IF me.phase = "record" THEN PendingOn(me.game) ELSE BetsOn(me.game)
  OBVIOUS
<1>6. S \in SUBSET Placed /\ me.score \in Scores
  <2>1. S \subseteq Placed
    BY <1>5 DEF PendingOn, BetsOn
  <2>2. me.score \in Scores
    BY <1>2, <1>3, <1>4 DEF Reading, ToRecord, ToCorrect
  <2> QED
    BY <2>1, <2>2
<1>7. PICK final \in Scores : final = me.score
  BY <1>6
<1>8. S = IF sess[s].phase = "record" THEN PendingOn(sess[s].game) ELSE BetsOn(sess[s].game)
  BY <1>2, <1>5
<1>9. PICK order \in SetToSeqs(S) :
        sess' = [sess EXCEPT
          ![s].phase = "posting",
          ![s].todo = Due([i \in DOMAIN order |->
                             [account |-> bet[order[i]].account, type |-> "ADJUSTMENT",
                              amount |-> -bet[order[i]].payout]]
                          \o [i \in DOMAIN order |->
                                [account |-> bet[order[i]].account, type |-> "WAGER_PAYOUT",
                                 amount |-> Settled(order[i], sess[s].score).payout]]),
          ![s].rows = [b \in ToSet(order) |-> Settled(b, sess[s].score)]]
  BY <1>8 DEF ReadBets
<1>10. PICK u : u = Reversals(order)
  OBVIOUS
<1>11. PICK v : v = Payouts(order, final)
  OBVIOUS
<1>12. PICK rows : rows = [b \in ToSet(order) |-> Settled(b, final)]
  OBVIOUS
<1>13. PICK todo : todo = u \o v
  OBVIOUS
<1>14. PICK entry : entry = SettlementEntries(S, final)
  OBVIOUS
<1>15. /\ ToSet(order) = S
       /\ todo \in Seq(Posting)
       /\ Posts(todo, entry)
  <2>1. TypeOK
    BY DEF AloneInv, IInv
  <2>2. todo = Reversals(order) \o Payouts(order, final)
    BY <1>10, <1>11, <1>13
  <2>3. /\ ToSet(order) = S
        /\ todo \in Seq(Posting)
        /\ Posts(todo, SettlementEntries(S, final))
    BY <1>6, <2>1, <2>2, ReadBetsWillPost
  <2> QED
    BY <1>14, <2>3
<1>16. sess' = [sess EXCEPT ![s].phase = "posting", ![s].todo = Due(todo), ![s].rows = rows]
  <2>1. sess[s].score = final
    BY <1>2, <1>7
  <2> QED
    BY <1>9, <1>10, <1>11, <1>12, <1>13, <2>1 DEF Reversals, Payouts
<1>17. PICK r : r = [me EXCEPT !.phase = "posting", !.todo = Due(todo), !.rows = rows]
  OBVIOUS
<1>18. /\ r.phase = "posting" /\ r.todo = Due(todo) /\ r.rows = rows /\ DOMAIN r = DOMAIN me
       /\ r.seen = me.seen /\ r.posted = me.posted
       /\ r.game = me.game /\ r.score = me.score /\ r.trail = me.trail
  BY <1>4, <1>17 DEF IsSession
<1>19. NothingPosted(r) /\ IsSession(r) /\ RowsInHand(r, held)
  BY <1>4, <1>18, SameInHand DEF NothingPosted, IsSession
<1>20. r.todo \in Seq(Posting) /\ WillPost(r, entry)
  BY <1>15, <1>18, <1>19, AllToPost
<1>21. SettlingBets(r, S)
  <2>1. r.rows = [b \in S |-> Settled(b, r.score)]
    BY <1>7, <1>12, <1>15, <1>18
  <2>2. entry = SettlementEntries(S, r.score)
    BY <1>7, <1>14, <1>18
  <2> QED
    BY <1>20, <2>1, <2>2 DEF SettlingBets
<1>22. Requesting(r)
  <2>1. CASE me.phase = "record"
    <3>1. ToRecord(me) /\ S = PendingOn(r.game)
      BY <1>4, <1>5, <1>18, <2>1 DEF Reading
    <3>2. ToRecord(r)
      BY <1>18, <3>1 DEF ToRecord
    <3> QED
      BY <1>18, <1>21, <3>1, <3>2 DEF Requesting
  <2>2. CASE me.phase = "correct"
    <3>1. ToCorrect(me) /\ S = BetsOn(r.game)
      BY <1>4, <1>5, <1>18, <2>2 DEF Reading
    <3>2. ToCorrect(r)
      BY <1>18, <3>1 DEF ToCorrect
    <3> QED
      BY <1>18, <1>21, <3>1, <3>2 DEF Requesting
  <2> QED
    BY <1>2, <1>3, <2>1, <2>2
<1>23. LoneSession(r, held)
  BY <1>19, <1>20, <1>22 DEF LoneSession
<1>24. UNCHANGED vars /\ DOMAIN lock' = DOMAIN lock
  BY DEF ReadBets
<1>25. sess' = [sess EXCEPT ![s] = r]
  BY <1>2, <1>16, <1>17
<1> QED
  BY <1>1, <1>23, <1>24, <1>25, LoneStep

(* A session that has still postings to make. *)
LEMMA StillRequesting ==
  ASSUME NEW s \in Sessions, AloneInv(s), sess[s].phase = "posting"
  PROVE  /\ Requesting(sess[s]) /\ IsSession(sess[s]) /\ RowsInHand(sess[s], HeldBy(s))
         /\ sess[s].todo \in Seq(Posting)
<1>1. LoneSession(sess[s], HeldBy(s))
  BY DEF AloneInv
<1>2. ~ Reading(sess[s])
  BY DEF Reading
<1> QED
  BY <1>1, <1>2 DEF LoneSession

(* A session's request is not changed by reading one more row.             *)
LEMMA SameRequest ==
  ASSUME NEW me, Requesting(me), NEW r, r.phase = me.phase, r.rows = me.rows, r.game = me.game,
         r.score = me.score, r.trail = me.trail,
         \A entry : WillPost(me, entry) => WillPost(r, entry)
  PROVE  Requesting(r)
<1>1. NoResult(me) => NoResult(r)
  BY DEF NoResult
<1>2. ToRecord(me) => ToRecord(r)
  BY DEF ToRecord
<1>3. ToCorrect(me) => ToCorrect(r)
  BY DEF ToCorrect
<1>4. MovingMoney(me) => MovingMoney(r)
  BY <1>1 DEF MovingMoney
<1>5. PlacingBet(me) => PlacingBet(r)
  BY <1>1 DEF PlacingBet
<1>6. \A S : SettlingBets(me, S) => SettlingBets(r, S)
  BY DEF SettlingBets
<1> QED
  BY <1>2, <1>3, <1>4, <1>5, <1>6 DEF Requesting

LEMMA LoneLoads ==
  ASSUME NEW s \in Sessions, AloneInv(s), Load(s)
  PROVE  AloneInv(s)'
<1>1. PICK held : held = HeldBy(s)' /\ held = HeldBy(s)
  BY DEF Load, HeldBy
<1>2. PICK me : me = sess[s]
  OBVIOUS
<1>3. sess[s].phase = "posting" /\ sess[s].todo # <<>>
  BY DEF Load
<1>4. /\ me.phase = "posting" /\ me.todo # <<>>
      /\ Requesting(me) /\ IsSession(me) /\ RowsInHand(me, held) /\ me.todo \in Seq(Posting)
  BY <1>1, <1>2, <1>3, StillRequesting
<1>5. me.todo[1] \in Posting
  BY <1>4
<1>6. PICK next \in Accounts \cup {Capital} :
        /\ next \notin DOMAIN me.seen
        /\ sess' = [sess EXCEPT ![s].seen = WithRow(@, next)]
  BY <1>2, <1>5 DEF Load, Posting
<1>7. PICK seen : seen = WithRow(me.seen, next)
  OBVIOUS
<1>8. PICK r : r = [me EXCEPT !.seen = seen]
  OBVIOUS
<1>9. /\ r.phase = me.phase /\ r.todo = me.todo /\ r.rows = me.rows /\ DOMAIN r = DOMAIN me
      /\ r.seen = seen /\ r.posted = me.posted
      /\ r.game = me.game /\ r.score = me.score /\ r.trail = me.trail
  BY <1>4, <1>8 DEF IsSession
<1>10. IsSession(r)
  BY <1>4, <1>9 DEF IsSession
<1>11. \A entry : WillPost(me, entry) => WillPost(r, entry)
  BY <1>9 DEF WillPost
<1>12. Requesting(r)
  BY <1>4, <1>9, <1>11, SameRequest
<1>13. RowsInHand(r, held)
  <2>1. /\ DOMAIN seen = DOMAIN me.seen \cup {next}
        /\ \A x \in DOMAIN me.seen : seen[x] = me.seen[x]
        /\ seen[next] = Committed(next)
    BY <1>6, <1>7 DEF WithRow
  <2>2. MovedOn(me.posted, next) = 0
    BY <1>4, <1>6 DEF RowsInHand
  <2>3. Committed(next) \in Int
    BY <1>6 DEF Committed, AloneInv, IInv, TypeOK, LedgerTypeOK
  <2>4. seen[next] = Committed(next) + MovedOn(me.posted, next)
    BY <2>1, <2>2, <2>3
  <2> QED
    BY <1>4, <1>6, <1>9, <2>1, <2>4 DEF RowsInHand
<1>14. LoneSession(r, held)
  BY <1>4, <1>9, <1>10, <1>12, <1>13 DEF LoneSession
<1>15. UNCHANGED vars /\ DOMAIN lock' = DOMAIN lock
  BY DEF Load
<1>16. sess' = [sess EXCEPT ![s] = r]
  BY <1>2, <1>6, <1>7, <1>8
<1> QED
  BY <1>1, <1>14, <1>15, <1>16, LoneStep

LEMMA LoneLocksRow ==
  ASSUME NEW s \in Sessions, AloneInv(s), LockRow(s)
  PROVE  AloneInv(s)'
<1>1. PICK held : held = HeldBy(s)'
  OBVIOUS
<1>2. PICK me : me = sess[s]
  OBVIOUS
<1>3. PICK x : lock' = [lock EXCEPT ![x] = {s}]
  BY DEF LockRow
<1>4. HeldBy(s) \subseteq held
  BY <1>1, <1>3 DEF HeldBy
<1>5. LoneSession(me, HeldBy(s))
  BY <1>2 DEF AloneInv
<1>6. RowsInHand(me, held)
  BY <1>4, <1>5 DEF LoneSession, RowsInHand
<1>7. LoneSession(me, held)
  BY <1>5, <1>6 DEF LoneSession
<1>8. UNCHANGED vars /\ DOMAIN lock' = DOMAIN lock
  BY <1>3 DEF LockRow
<1>9. sess' = [sess EXCEPT ![s] = me]
  BY <1>2 DEF LockRow, AloneInv
<1> QED
  BY <1>1, <1>7, <1>8, <1>9, LoneStep

(* The row that a flush waits for is the first that is not the session's:  *)
(* when there is none, the session holds all those it updates.             *)
LEMMA FlushedRowsAreHeld ==
  ASSUME NEW s \in Sessions, DOMAIN lock = Accounts \cup {Capital}, NextRow(s) = 0,
         NEW x \in Touched(s), x \in Accounts \cup {Capital}
  PROVE  x \in HeldBy(s)
<1> DEFINE I == {j \in 1 .. Len(Rows) : Rows[j] \in Touched(s) /\ s \notin lock[Rows[j]]}
<1>1. NextRow(s) = IF I # {} THEN Min(I) ELSE 0
  BY DEF NextRow, SelectInSeq
<1>2. I = {}
  <2> SUFFICES ASSUME I # {} PROVE FALSE
    OBVIOUS
  <2>1. I \in SUBSET Nat
    BY SessionsAssumption
  <2>2. \E n \in I : \A m \in I : n <= m
    <3> HIDE DEF I
    <3> QED
      BY <2>1, LeastNumber
  <2>3. Min(I) \in I
    <3> HIDE DEF I
    <3> QED
      BY <2>2 DEF Min
  <2>4. Min(I) # 0
    BY <2>3
  <2> QED
    BY <1>1, <2>4
<1>3. PICK j \in 1 .. Len(Rows) : Rows[j] = x
  BY SessionsAssumption DEF ToSet
<1>4. s \in lock[x]
  BY <1>2, <1>3
<1> QED
  BY <1>4 DEF HeldBy

(* A change of one account's amount changes the sum over the accounts.     *)
LEMMA ChangeOneAccount ==
  ASSUME NEW f, NEW g, NEW a \in Accounts, \A x \in Accounts : f[x] \in Int,
         \A x \in Accounts \ {a} : g[x] = f[x], g[a] \in Int
  PROVE  SumFunctionOnSet(g, Accounts) = SumFunctionOnSet(f, Accounts) - f[a] + g[a]
<1>1. IsFiniteSet(Accounts)
  BY LedgerAssumption
<1> QED
  BY <1>1, SumChangeOne

(* What one more posting moves. *)
WithPosting(posts, p) == [posts EXCEPT ![p.account][p.type] = @ + p.amount]

LEMMA PostingMoves ==
  ASSUME NEW posts \in [Accounts -> [PostingTypes -> Int]], NEW p \in Posting,
         NEW books, books = WithPosting(posts, p)
  PROVE  /\ books \in [Accounts -> [PostingTypes -> Int]]
         /\ \A a \in Accounts, t \in PostingTypes :
              books[a][t] = posts[a][t] + (IF a = p.account /\ t = p.type THEN p.amount ELSE 0)
         /\ \A x \in Accounts \cup {Capital} : MovedOn(posts, x) \in Int
         /\ \A a \in Accounts \ {p.account} : MovedOn(books, a) = MovedOn(posts, a)
         /\ MovedOn(books, p.account) = MovedOn(posts, p.account) + p.amount
         /\ MovedOn(books, Capital) = MovedOn(posts, Capital) - p.amount
<1>1. p.account \in Accounts /\ p.type \in PostingTypes /\ p.amount \in Int
  BY DEF Posting
<1>2. PICK own \in [PostingTypes -> Int] : own = posts[p.account]
  BY <1>1
<1>3. PICK new : new = [own EXCEPT ![p.type] = @ + p.amount]
  OBVIOUS
<1>4. /\ new \in [PostingTypes -> Int]
      /\ \A t \in PostingTypes : new[t] = own[t] + (IF t = p.type THEN p.amount ELSE 0)
  <2>1. own[p.type] + p.amount \in Int
    BY <1>1
  <2> QED
    BY <1>1, <1>3, <2>1
<1>5. books = [posts EXCEPT ![p.account] = new]
  BY <1>1, <1>2, <1>3 DEF WithPosting
<1>6. books \in [Accounts -> [PostingTypes -> Int]]
  BY <1>4, <1>5
<1>7. /\ books[p.account] = new
      /\ \A a \in Accounts \ {p.account} : books[a] = posts[a]
  BY <1>1, <1>5
<1>8. ASSUME NEW a \in Accounts, NEW t \in PostingTypes
      PROVE  books[a][t] = posts[a][t] + (IF a = p.account /\ t = p.type THEN p.amount ELSE 0)
  <2>1. CASE a = p.account
    BY <1>2, <1>4, <1>7, <2>1
  <2>2. CASE a # p.account
    <3>1. posts[a][t] \in Int
      OBVIOUS
    <3> QED
      BY <1>7, <2>2, <3>1
  <2> QED
    BY <2>1, <2>2
<1>9. Total(own) \in Int /\ Total(new) = Total(own) + p.amount
  <2>1. "DEPOSIT" \in PostingTypes /\ "WITHDRAWAL" \in PostingTypes /\ "WAGER_STAKE" \in PostingTypes
        /\ "WAGER_PAYOUT" \in PostingTypes /\ "ADJUSTMENT" \in PostingTypes
    BY DEF PostingTypes
  <2>2. PICK n \in Int : n = p.amount
    BY <1>1
  <2>3. /\ own["DEPOSIT"] \in Int /\ own["WITHDRAWAL"] \in Int /\ own["WAGER_STAKE"] \in Int
        /\ own["WAGER_PAYOUT"] \in Int /\ own["ADJUSTMENT"] \in Int
    BY <2>1
  <2>4. /\ new["DEPOSIT"] = own["DEPOSIT"] + (IF "DEPOSIT" = p.type THEN n ELSE 0)
        /\ new["WITHDRAWAL"] = own["WITHDRAWAL"] + (IF "WITHDRAWAL" = p.type THEN n ELSE 0)
        /\ new["WAGER_STAKE"] = own["WAGER_STAKE"] + (IF "WAGER_STAKE" = p.type THEN n ELSE 0)
        /\ new["WAGER_PAYOUT"] = own["WAGER_PAYOUT"] + (IF "WAGER_PAYOUT" = p.type THEN n ELSE 0)
        /\ new["ADJUSTMENT"] = own["ADJUSTMENT"] + (IF "ADJUSTMENT" = p.type THEN n ELSE 0)
    BY <1>4, <2>1, <2>2
  <2>5. p.type \in {"DEPOSIT", "WITHDRAWAL", "WAGER_STAKE", "WAGER_PAYOUT", "ADJUSTMENT"}
    BY <1>1 DEF PostingTypes
  <2> QED
    BY <2>2, <2>3, <2>4, <2>5 DEF Total
<1>10. \A a \in Accounts : Net(posts)[a] = Total(posts[a]) /\ Net(books)[a] = Total(books[a])
  BY DEF Net
<1>11. \A a \in Accounts : Net(posts)[a] \in Int
  BY <1>10, TotalType
<1>12. /\ \A a \in Accounts \ {p.account} : Net(books)[a] = Net(posts)[a]
       /\ Net(books)[p.account] = Net(posts)[p.account] + p.amount
       /\ Net(books)[p.account] \in Int
  <2>1. \A a \in Accounts \ {p.account} : Net(books)[a] = Net(posts)[a]
    BY <1>7, <1>10
  <2>2. PICK a \in Accounts : a = p.account
    BY <1>1
  <2>3. Net(books)[a] = Total(new) /\ Net(posts)[a] = Total(own)
    BY <1>2, <1>7, <1>10, <2>2
  <2> QED
    BY <1>1, <1>9, <2>1, <2>2, <2>3
<1>13. IsFiniteSet(Accounts)
  BY LedgerAssumption
<1>14. SumFunctionOnSet(Net(posts), Accounts) \in Int
  BY <1>11, <1>13, SumType
<1>15. SumFunctionOnSet(Net(books), Accounts) = SumFunctionOnSet(Net(posts), Accounts) + p.amount
  <2>1. PICK a \in Accounts : a = p.account
    BY <1>1
  <2>2. PICK f : f = Net(posts)
    OBVIOUS
  <2>3. PICK g : g = Net(books)
    OBVIOUS
  <2>4. \A x \in Accounts : f[x] \in Int
    BY <1>11, <2>2
  <2>5. \A x \in Accounts \ {a} : g[x] = f[x]
    BY <1>12, <2>1, <2>2, <2>3
  <2>6. g[a] \in Int
    BY <1>12, <2>1, <2>3
  <2>7. SumFunctionOnSet(g, Accounts) = SumFunctionOnSet(f, Accounts) - f[a] + g[a]
    BY <2>4, <2>5, <2>6, ChangeOneAccount
  <2>8. PICK m \in Int : m = SumFunctionOnSet(f, Accounts)
    BY <1>14, <2>2
  <2>9. g[a] = f[a] + p.amount /\ f[a] \in Int
    BY <1>12, <2>1, <2>2, <2>3, <2>4
  <2>10. SumFunctionOnSet(g, Accounts) = m - f[a] + g[a]
    BY <2>7, <2>8
  <2>11. SumFunctionOnSet(g, Accounts) = m + p.amount
    BY <1>1, <2>6, <2>8, <2>9, <2>10
  <2> QED
    BY <2>2, <2>3, <2>8, <2>11
<1>16. \A a \in Accounts : MovedOn(posts, a) = Net(posts)[a] /\ MovedOn(books, a) = Net(books)[a]
  BY SessionsAssumption DEF MovedOn
<1>17. /\ MovedOn(posts, Capital) = -SumFunctionOnSet(Net(posts), Accounts)
       /\ MovedOn(books, Capital) = -SumFunctionOnSet(Net(books), Accounts)
  BY DEF MovedOn
<1>18. /\ MovedOn(posts, Capital) \in Int
       /\ MovedOn(books, Capital) = MovedOn(posts, Capital) - p.amount
  <2>1. PICK m \in Int : m = SumFunctionOnSet(Net(posts), Accounts)
    BY <1>14
  <2>2. PICK n \in Int : n = p.amount
    BY <1>1
  <2>3. MovedOn(posts, Capital) = -m /\ MovedOn(books, Capital) = -(m + n)
    BY <1>15, <1>17, <2>1, <2>2
  <2> QED
    BY <2>2, <2>3
<1> QED
  BY <1>1, <1>6, <1>8, <1>11, <1>12, <1>16, <1>18

LEMMA LonePosts ==
  ASSUME NEW s \in Sessions, AloneInv(s), Post(s)
  PROVE  AloneInv(s)'
<1>1. PICK held : held = HeldBy(s)' /\ held = HeldBy(s)
  BY DEF Post, HeldBy
<1>2. PICK me : me = sess[s]
  OBVIOUS
<1>3. sess[s].phase = "posting" /\ sess[s].todo # <<>> /\ Touched(s) \subseteq DOMAIN sess[s].seen
  BY DEF Post, Flushing
<1>4. /\ me.phase = "posting" /\ me.todo # <<>>
      /\ Requesting(me) /\ IsSession(me) /\ RowsInHand(me, held) /\ me.todo \in Seq(Posting)
  BY <1>1, <1>2, <1>3, StillRequesting
<1>5. PICK p \in Posting : p = me.todo[1]
  BY <1>4
<1>6. p.account \in Accounts /\ p.type \in PostingTypes /\ p.amount \in Int /\ p.account # Capital
  BY <1>5, SessionsAssumption DEF Posting
<1>7. p.account \in DOMAIN me.seen \cap held /\ Capital \in DOMAIN me.seen \cap held
  <2>1. Touched(s) = {p.account, Capital}
    BY <1>2, <1>5 DEF Touched
  <2>2. DOMAIN lock = Accounts \cup {Capital} /\ NextRow(s) = 0
    BY DEF AloneInv, Post
  <2> QED
    BY <1>1, <1>2, <1>3, <1>6, <2>1, <2>2, FlushedRowsAreHeld
<1>8. PICK posts \in [Accounts -> [PostingTypes -> Int]] : posts = me.posted
  BY <1>4 DEF IsSession
<1>9. PICK books : books = WithPosting(posts, p)
  OBVIOUS
<1>10. /\ books \in [Accounts -> [PostingTypes -> Int]]
       /\ \A a \in Accounts, t \in PostingTypes :
            books[a][t] = posts[a][t] + (IF a = p.account /\ t = p.type THEN p.amount ELSE 0)
       /\ \A x \in Accounts \cup {Capital} : MovedOn(posts, x) \in Int
       /\ \A a \in Accounts \ {p.account} : MovedOn(books, a) = MovedOn(posts, a)
       /\ MovedOn(books, p.account) = MovedOn(posts, p.account) + p.amount
       /\ MovedOn(books, Capital) = MovedOn(posts, Capital) - p.amount
  BY <1>9, PostingMoves
<1>11. PICK seen : seen = [me.seen EXCEPT ![p.account] = @ + p.amount, ![Capital] = @ - p.amount]
  OBVIOUS
<1>12. /\ DOMAIN seen = DOMAIN me.seen
       /\ seen[p.account] = me.seen[p.account] + p.amount
       /\ seen[Capital] = me.seen[Capital] - p.amount
       /\ \A x \in DOMAIN me.seen \ {p.account, Capital} : seen[x] = me.seen[x]
  BY <1>6, <1>7, <1>11
<1>13. PICK r : r = [me EXCEPT !.seen = seen, !.posted = books, !.todo = Due(Tail(me.todo))]
  OBVIOUS
<1>14. /\ r.phase = me.phase /\ r.rows = me.rows /\ DOMAIN r = DOMAIN me
       /\ r.seen = seen /\ r.posted = books /\ r.todo = Due(Tail(me.todo))
       /\ r.game = me.game /\ r.score = me.score /\ r.trail = me.trail
  BY <1>4, <1>13 DEF IsSession
<1>15. IsSession(r)
  BY <1>4, <1>10, <1>14 DEF IsSession
<1>16. Tail(me.todo) \in Seq(Posting) /\ r.todo \in Seq(Posting)
  <2>1. Tail(me.todo) \in Seq(Posting)
    BY <1>4
  <2> QED
    BY <1>14, <2>1, DueType
<1>17. ASSUME NEW entry, WillPost(me, entry)
       PROVE  WillPost(r, entry)
  <2>1. ASSUME NEW a \in Accounts, NEW t \in PostingTypes
        PROVE  r.posted[a][t] + DueIn(r.todo, a, t, DOMAIN r.todo) = entry[a][t]
    <3>1. posts[a][t] + DueIn(me.todo, a, t, DOMAIN me.todo) = entry[a][t]
      BY <1>8, <1>17 DEF WillPost
    <3>2. PICK todo \in Seq(Posting) : todo = me.todo /\ todo # <<>>
      BY <1>4
    <3>3. DueIn(todo, a, t, DOMAIN todo)
            = (IF todo[1].account = a /\ todo[1].type = t THEN todo[1].amount ELSE 0)
                + DueIn(Tail(todo), a, t, DOMAIN Tail(todo))
      BY <3>2, DueOfFirst
    <3>4. PICK rest \in Seq(Posting) : rest = Tail(todo)
      BY <1>16, <3>2
    <3>5. DueIn(Due(rest), a, t, DOMAIN Due(rest)) = DueIn(rest, a, t, DOMAIN rest)
      BY DueIsKept
    <3>6. DueIn(rest, a, t, DOMAIN rest) \in Int
      BY DueInType
    <3>7. books[a][t] = posts[a][t] + (IF a = p.account /\ t = p.type THEN p.amount ELSE 0)
      BY <1>10
    <3>8. posts[a][t] \in Int
      OBVIOUS
    <3>9. todo[1] = p /\ r.todo = Due(rest) /\ r.posted = books
      BY <1>5, <1>14, <3>2, <3>4
    <3>10. PICK d \in Int : d = DueIn(rest, a, t, DOMAIN rest)
      BY <3>6
    <3>11. posts[a][t] + ((IF p.account = a /\ p.type = t THEN p.amount ELSE 0) + d) = entry[a][t]
      BY <3>1, <3>2, <3>3, <3>4, <3>9, <3>10
    <3>12. DueIn(r.todo, a, t, DOMAIN r.todo) = d
      BY <3>5, <3>9, <3>10
    <3> QED
      BY <1>6, <3>7, <3>8, <3>9, <3>11, <3>12
  <2> QED
    BY <2>1 DEF WillPost
<1>18. Requesting(r)
  BY <1>4, <1>14, <1>17, SameRequest
<1>19. \A x \in Accounts \cup {Capital} : Committed(x) \in Int
  BY DEF Committed, AloneInv, IInv, TypeOK, LedgerTypeOK
<1>20. /\ DOMAIN me.seen \subseteq Accounts \cup {Capital}
       /\ \A x \in DOMAIN me.seen : me.seen[x] = Committed(x) + MovedOn(posts, x)
       /\ \A x \in Accounts \cup {Capital} : x \in DOMAIN me.seen \cap held \/ MovedOn(posts, x) = 0
  BY <1>4, <1>8 DEF RowsInHand
<1>21. ASSUME NEW x \in DOMAIN seen
       PROVE  seen[x] = Committed(x) + MovedOn(books, x)
  <2>1. /\ x \in DOMAIN me.seen /\ x \in Accounts \cup {Capital}
        /\ me.seen[x] = Committed(x) + MovedOn(posts, x)
        /\ Committed(x) \in Int /\ MovedOn(posts, x) \in Int
    BY <1>10, <1>12, <1>19, <1>20
  <2>2. CASE x = p.account
    BY <1>6, <1>10, <1>12, <2>1, <2>2
  <2>3. CASE x = Capital
    BY <1>6, <1>10, <1>12, <2>1, <2>3
  <2>4. CASE x \notin {p.account, Capital}
    BY <1>10, <1>12, <2>1, <2>4
  <2> QED
    BY <2>2, <2>3, <2>4
<1>22. ASSUME NEW x \in Accounts \cup {Capital}
       PROVE  x \in DOMAIN seen \cap held \/ MovedOn(books, x) = 0
  <2>1. CASE x \in {p.account, Capital}
    BY <1>7, <1>12, <2>1
  <2>2. CASE x \notin {p.account, Capital}
    BY <1>10, <1>12, <1>20, <2>2
  <2> QED
    BY <2>1, <2>2
<1>23. RowsInHand(r, held)
  <2>1. DOMAIN seen \subseteq Accounts \cup {Capital}
    BY <1>12, <1>20
  <2> QED
    BY <1>14, <1>21, <1>22, <2>1 DEF RowsInHand
<1>24. LoneSession(r, held)
  BY <1>15, <1>16, <1>18, <1>23 DEF LoneSession
<1>25. UNCHANGED vars /\ DOMAIN lock' = DOMAIN lock
  BY DEF Post
<1>26. sess' = [sess EXCEPT ![s] = r]
  <2>1. sess' = [sess EXCEPT ![s] =
                  [me EXCEPT !.seen[p.account] = @ + p.amount, !.seen[Capital] = @ - p.amount,
                             !.posted[p.account][p.type] = @ + p.amount, !.todo = Due(Tail(@))]]
    BY <1>2, <1>5 DEF Post
  <2>2. r = [me EXCEPT !.seen[p.account] = @ + p.amount, !.seen[Capital] = @ - p.amount,
                       !.posted[p.account][p.type] = @ + p.amount, !.todo = Due(Tail(@))]
    BY <1>4, <1>8, <1>9, <1>11, <1>13 DEF IsSession, WithPosting
  <2> QED
    BY <2>1, <2>2
<1> QED
  BY <1>1, <1>24, <1>25, <1>26, LoneStep

-----------------------------------------------------------------------------
(* The commit of a session that is alone. *)

(* Nothing is left to post: what has been posted is the entry.             *)
LEMMA AllPosted ==
  ASSUME NEW me, IsSession(me), me.todo = <<>>, NEW entry, WillPost(me, entry),
         entry = [a \in Accounts |-> [t \in PostingTypes |-> entry[a][t]]]
  PROVE  me.posted = entry
<1>1. PICK posts \in [Accounts -> [PostingTypes -> Int]] : posts = me.posted
  BY DEF IsSession
<1>2. ASSUME NEW a \in Accounts, NEW t \in PostingTypes
      PROVE  posts[a][t] = entry[a][t]
  <2>1. DueIn(me.todo, a, t, DOMAIN me.todo) = 0
    BY DueOfNone
  <2>2. posts[a][t] \in Int
    OBVIOUS
  <2>3. posts[a][t] + DueIn(me.todo, a, t, DOMAIN me.todo) = entry[a][t]
    BY <1>1 DEF WillPost
  <2> QED
    BY <2>1, <2>2, <2>3
<1>3. posts = [a \in Accounts |-> [t \in PostingTypes |-> posts[a][t]]]
  OBVIOUS
<1> QED
  BY <1>1, <1>2, <1>3

(* The commit makes the session's postings, on top of what is committed.   *)
LEMMA CommitPosts ==
  ASSUME NEW s \in Sessions, AloneInv(s), Commit(s)
  PROVE  PostBalancedEntries(sess[s].posted)
<1>1. PICK me : me = sess[s]
  OBVIOUS
<1>2. IsSession(me) /\ RowsInHand(me, HeldBy(s))
  BY <1>1 DEF AloneInv, LoneSession
<1>3. PICK posts \in [Accounts -> [PostingTypes -> Int]] : posts = me.posted
  BY <1>2 DEF IsSession
<1>4. /\ \A x \in DOMAIN me.seen : me.seen[x] = Committed(x) + MovedOn(posts, x)
      /\ \A x \in Accounts \cup {Capital} :
           x \in DOMAIN me.seen \cap HeldBy(s) \/ MovedOn(posts, x) = 0
  BY <1>2, <1>3 DEF RowsInHand
<1> DEFINE now(r) == IF s \in lock[r] /\ r \in DOMAIN me.seen THEN me.seen[r] ELSE Committed(r)
<1>5. ASSUME NEW x \in Accounts \cup {Capital}
      PROVE  now(x) = Committed(x) + MovedOn(posts, x)
  <2>1. Committed(x) \in Int
    BY DEF Committed, AloneInv, IInv, TypeOK, LedgerTypeOK
  <2>2. x \in DOMAIN lock
    BY DEF AloneInv
  <2>3. CASE s \in lock[x] /\ x \in DOMAIN me.seen
    BY <1>4, <2>3
  <2>4. CASE ~ (s \in lock[x] /\ x \in DOMAIN me.seen)
    <3>1. x \notin DOMAIN me.seen \cap HeldBy(s)
      BY <2>4 DEF HeldBy
    <3>2. MovedOn(posts, x) = 0
      BY <1>4, <3>1
    <3> QED
      BY <2>1, <2>4, <3>2
  <2> QED
    BY <2>3, <2>4
<1>6. balance' = [a \in Accounts |-> now(a)] /\ capital' = now(Capital)
  BY <1>1 DEF Commit
<1>7. posted' = [a \in Accounts |-> [t \in PostingTypes |-> posted[a][t] + posts[a][t]]]
  BY <1>1, <1>3 DEF Commit
<1> HIDE DEF now
<1>8. ASSUME NEW a \in Accounts
      PROVE  now(a) = balance[a] + Total(posts[a])
  <2>1. a # Capital
    BY SessionsAssumption
  <2>2. MovedOn(posts, a) = Total(posts[a])
    BY <2>1 DEF MovedOn, Net
  <2> QED
    BY <1>5, <2>1, <2>2 DEF Committed
<1>9. balance' = [a \in Accounts |-> balance[a] + Total(posts[a])]
  BY <1>6, <1>8
<1>10. capital' = capital - SumFunctionOnSet([a \in Accounts |-> Total(posts[a])], Accounts)
  <2>1. Net(posts) = [a \in Accounts |-> Total(posts[a])]
    BY DEF Net
  <2>2. PICK m \in Int : m = SumFunctionOnSet(Net(posts), Accounts)
    <3>1. PICK f : f = Net(posts)
      OBVIOUS
    <3>2. \A a \in Accounts : f[a] \in Int
      BY <3>1, TotalType DEF Net
    <3>3. IsFiniteSet(Accounts)
      BY LedgerAssumption
    <3> QED
      BY <3>1, <3>2, <3>3, SumType
  <2>3. MovedOn(posts, Capital) = -m
    BY <2>2 DEF MovedOn
  <2>4. capital' = capital + MovedOn(posts, Capital)
    BY <1>5, <1>6 DEF Committed
  <2>5. capital \in Int
    BY DEF AloneInv, IInv, TypeOK, LedgerTypeOK
  <2>6. capital' = capital - m
    BY <2>2, <2>3, <2>4, <2>5
  <2> QED
    BY <2>1, <2>2, <2>6
<1> QED
  BY <1>1, <1>3, <1>7, <1>9, <1>10 DEF PostBalancedEntries

(* A session that settles no game leaves the games alone. *)
LEMMA NoResultCommits ==
  ASSUME NEW s \in Sessions, TypeOK, Commit(s), NoResult(sess[s])
  PROVE  UNCHANGED <<status, score, audit>>
<1>1. PICK me : me = sess[s]
  OBVIOUS
<1>2. \A g \in Games : g # me.game
  BY <1>1, SessionsAssumption DEF NoResult
<1>3. /\ status' = [g \in Games |-> IF g = me.game THEN "FINAL" ELSE status[g]]
      /\ score' = [g \in Games |-> IF g = me.game THEN WrittenScore(s) ELSE score[g]]
      /\ audit' = [g \in Games |-> IF g = me.game THEN audit[g] \o me.trail ELSE audit[g]]
  BY <1>1 DEF Commit
<1>4. /\ status = [g \in Games |-> status[g]] /\ score = [g \in Games |-> score[g]]
      /\ audit = [g \in Games |-> audit[g]]
  BY DEF TypeOK
<1>5. status' = status
  BY <1>2, <1>3, <1>4
<1>6. score' = score
  BY <1>2, <1>3, <1>4
<1>7. audit' = audit
  BY <1>2, <1>3, <1>4
<1> QED
  BY <1>5, <1>6, <1>7

(* A deposit or a withdrawal is committed. *)
LEMMA MoneyMoves ==
  ASSUME NEW s \in Sessions, AloneInv(s), Commit(s), MovingMoney(sess[s])
  PROVE  LedgerNext /\ UNCHANGED <<bet, status, score, beforeCutoff, audit>>
<1>1. PICK me : me = sess[s]
  OBVIOUS
<1>2. /\ MovingMoney(me) /\ NoResult(me) /\ DOMAIN me.rows = {} /\ me.todo = <<>>
      /\ IsSession(me) /\ TypeOK
  BY <1>1 DEF MovingMoney, AloneInv, LoneSession, IInv, Commit
<1>3. PostBalancedEntries(me.posted)
  BY <1>1, CommitPosts
<1>4. UNCHANGED <<status, score, audit>>
  BY <1>1, <1>2, NoResultCommits
<1>5. UNCHANGED <<account, beforeCutoff>>
  BY <1>1 DEF Commit
<1>6. bet' = bet
  <2>1. bet' = [b \in Bets |-> IF b \in DOMAIN me.rows THEN me.rows[b] ELSE bet[b]]
    BY <1>1 DEF Commit
  <2>2. bet = [b \in Bets |-> bet[b]]
    BY <1>2 DEF TypeOK
  <2> QED
    BY <1>2, <2>1, <2>2
<1>7. \A a \in Accounts : account[a] = "active"
  BY DEF AloneInv
<1>8. ASSUME NEW a \in Accounts, NEW t \in PostingTypes, NEW amount \in Int,
             WillPost(me, Single(a, t, amount))
      PROVE  PostBalancedEntries(Single(a, t, amount))
  <2>1. PICK entry : entry = Single(a, t, amount)
    OBVIOUS
  <2>2. entry = [x \in Accounts |-> [u \in PostingTypes |-> entry[x][u]]]
    BY <2>1 DEF Single
  <2>3. me.posted = entry
    BY <1>2, <1>8, <2>1, <2>2, AllPosted
  <2> QED
    BY <1>3, <2>1, <2>3
<1>9. PICK a \in Accounts, amount \in Amounts :
        \/ posted[a]["DEPOSIT"] + amount <= MaxDeposited /\ WillPost(me, Single(a, "DEPOSIT", amount))
        \/ balance[a] >= amount /\ WillPost(me, Single(a, "WITHDRAWAL", -amount))
  BY <1>2 DEF MovingMoney
<1>10. /\ amount \in Int /\ -amount \in Int
       /\ "DEPOSIT" \in PostingTypes /\ "WITHDRAWAL" \in PostingTypes
  BY LedgerAssumption DEF PostingTypes
<1>11. CASE posted[a]["DEPOSIT"] + amount <= MaxDeposited /\ WillPost(me, Single(a, "DEPOSIT", amount))
  <2>1. Deposit(a, amount)
    BY <1>5, <1>7, <1>8, <1>10, <1>11 DEF Deposit
  <2> QED
    BY <1>4, <1>5, <1>6, <2>1 DEF LedgerNext
<1>12. CASE balance[a] >= amount /\ WillPost(me, Single(a, "WITHDRAWAL", -amount))
  <2>1. Withdraw(a, amount)
    BY <1>5, <1>7, <1>8, <1>10, <1>12 DEF Withdraw
  <2> QED
    BY <1>4, <1>5, <1>6, <2>1 DEF LedgerNext
<1> QED
  BY <1>9, <1>11, <1>12

(* A placement is committed. *)
LEMMA BetIsPlaced ==
  ASSUME NEW s \in Sessions, AloneInv(s), Commit(s), PlacingBet(sess[s])
  PROVE  \E b \in Bets, a \in Accounts, q \in Quotes, stake \in Stakes, key \in Keys \cup {NoKey} :
           PlaceBet(b, a, q, stake, key)
<1>1. PICK me : me = sess[s]
  OBVIOUS
<1>2. PlacingBet(me) /\ NoResult(me) /\ me.todo = <<>> /\ IsSession(me) /\ TypeOK
  <2>1. PlacingBet(me)
    BY <1>1
  <2>2. NoResult(me)
    BY <2>1 DEF PlacingBet
  <2> QED
    BY <1>1, <2>1, <2>2 DEF AloneInv, LoneSession, IInv, Commit
<1>3. PICK b \in Bets, a \in Accounts, q \in Quotes, stake \in Stakes, key \in Keys \cup {NoKey} :
        /\ bet[b] = NoBet
        /\ KeyUnused(a, key)
        /\ beforeCutoff[q.game]
        /\ balance[a] >= stake
        /\ WillPost(me, Single(a, "WAGER_STAKE", -stake))
        /\ me.rows = [new \in {b} |-> [account |-> a, quote |-> q, key |-> key, stake |-> stake,
                                       status |-> "PENDING", payout |-> 0]]
  BY <1>2 DEF PlacingBet
<1>4. PostBalancedEntries(Single(a, "WAGER_STAKE", -stake))
  <2>1. PICK entry : entry = Single(a, "WAGER_STAKE", -stake)
    OBVIOUS
  <2>2. entry = [x \in Accounts |-> [u \in PostingTypes |-> entry[x][u]]]
    BY <2>1 DEF Single
  <2>3. me.posted = entry
    BY <1>2, <1>3, <2>1, <2>2, AllPosted
  <2> QED
    BY <1>1, <2>1, <2>3, CommitPosts
<1>5. UNCHANGED <<account, status, score, beforeCutoff, audit>>
  BY <1>1, <1>2, NoResultCommits DEF Commit
<1>6. bet' = [bet EXCEPT ![b] = [account |-> a, quote |-> q, key |-> key, stake |-> stake,
                                 status |-> "PENDING", payout |-> 0]]
  <2>1. PICK row : row = [account |-> a, quote |-> q, key |-> key, stake |-> stake,
                          status |-> "PENDING", payout |-> 0]
    OBVIOUS
  <2>2. DOMAIN me.rows = {b} /\ me.rows[b] = row
    BY <1>3, <2>1
  <2>3. bet' = [c \in Bets |-> IF c \in DOMAIN me.rows THEN me.rows[c] ELSE bet[c]]
    BY <1>1 DEF Commit
  <2>4. bet = [c \in Bets |-> bet[c]]
    BY <1>2 DEF TypeOK
  <2>5. bet' = [bet EXCEPT ![b] = row]
    BY <2>2, <2>3, <2>4
  <2> QED
    BY <2>1, <2>5
<1>7. account[a] = "active"
  BY DEF AloneInv
<1>8. PlaceBet(b, a, q, stake, key)
  BY <1>3, <1>4, <1>5, <1>6, <1>7 DEF PlaceBet
<1> QED
  BY <1>8

(* What the commit of a settlement does to bets and books. *)
LEMMA SettlementCommits ==
  ASSUME NEW s \in Sessions, AloneInv(s), Commit(s), NEW me, me = sess[s], NEW S, SettlingBets(me, S)
  PROVE  /\ bet' = SettleBets(S, me.score)
         /\ PostBalancedEntries(SettlementEntries(S, me.score))
         /\ UNCHANGED <<account, beforeCutoff>>
<1>1. /\ me.rows = [b \in S |-> Settled(b, me.score)]
      /\ WillPost(me, SettlementEntries(S, me.score))
  BY DEF SettlingBets
<1>2. me.todo = <<>> /\ IsSession(me)
  BY DEF AloneInv, LoneSession, Commit
<1>3. bet' = SettleBets(S, me.score)
  <2>1. PICK rows : rows = me.rows
    OBVIOUS
  <2>2. DOMAIN rows = S /\ \A b \in S : rows[b] = Settled(b, me.score)
    BY <1>1, <2>1
  <2>3. bet' = [b \in Bets |-> IF b \in DOMAIN rows THEN rows[b] ELSE bet[b]]
    BY <2>1 DEF Commit
  <2>4. bet' = [b \in Bets |-> IF b \in S THEN Settled(b, me.score) ELSE bet[b]]
    BY <2>2, <2>3
  <2> QED
    BY <2>4 DEF SettleBets
<1>4. PostBalancedEntries(SettlementEntries(S, me.score))
  <2>1. PICK entry : entry = SettlementEntries(S, me.score)
    OBVIOUS
  <2>2. entry = [x \in Accounts |-> [u \in PostingTypes |-> entry[x][u]]]
    BY <2>1 DEF SettlementEntries
  <2>3. me.posted = entry
    BY <1>1, <1>2, <2>1, <2>2, AllPosted
  <2> QED
    BY <2>1, <2>3, CommitPosts
<1>5. UNCHANGED <<account, beforeCutoff>>
  BY DEF Commit
<1> QED
  BY <1>3, <1>4, <1>5

(* A pair is what its two members make it. *)
LEMMA PairOfScores ==
  ASSUME NEW final \in Nat \X Nat
  PROVE  [i \in {1, 2} |-> final[i]] = final
<1>1. PICK m \in Nat, n \in Nat : final = <<m, n>>
  OBVIOUS
<1>2. DOMAIN final = {1, 2}
  BY <1>1
<1> QED
  BY <1>1, <1>2

(* A first result is committed. *)
LEMMA ResultIsRecorded ==
  ASSUME NEW s \in Sessions, AloneInv(s), Commit(s), ToRecord(sess[s]),
         SettlingBets(sess[s], PendingOn(sess[s].game))
  PROVE  RecordGameResult(sess[s].game, sess[s].score)
<1>1. PICK me : me = sess[s]
  OBVIOUS
<1>2. TypeOK
  BY DEF AloneInv, IInv
<1>3. PICK S : S = PendingOn(me.game)
  OBVIOUS
<1>4. SettlingBets(me, S)
  BY <1>1, <1>3
<1>5. /\ bet' = SettleBets(S, me.score)
      /\ PostBalancedEntries(SettlementEntries(S, me.score))
      /\ UNCHANGED <<account, beforeCutoff>>
  BY <1>1, <1>4, SettlementCommits
<1>6. PICK g \in Games, final \in Scores :
        g = me.game /\ final = me.score /\ status[g] # "FINAL" /\ me.trail = <<>>
  BY <1>1 DEF ToRecord
<1>7. status' = [status EXCEPT ![g] = "FINAL"]
  <2>1. status' = [x \in Games |-> IF x = g THEN "FINAL" ELSE status[x]]
    BY <1>1, <1>6 DEF Commit
  <2> QED
    BY <1>2, <2>1 DEF TypeOK
<1>8. WrittenScore(s) = final
  <2>1. WrittenScore(s) = [i \in {1, 2} |-> final[i]]
    BY <1>1, <1>6 DEF WrittenScore
  <2>2. final \in Nat \X Nat
    BY WageringAssumption
  <2> QED
    BY <2>1, <2>2, PairOfScores
<1>9. score' = [score EXCEPT ![g] = final]
  <2>1. score' = [x \in Games |-> IF x = g THEN final ELSE score[x]]
    BY <1>1, <1>6, <1>8 DEF Commit
  <2> QED
    BY <1>2, <2>1 DEF TypeOK
<1>10. audit' = audit
  <2>1. audit' = [x \in Games |-> IF x = g THEN audit[x] \o <<>> ELSE audit[x]]
    BY <1>1, <1>6 DEF Commit
  <2>2. audit[g] \o <<>> = audit[g]
    <3>1. audit[g] \in Seq(Correction)
      BY <1>2 DEF TypeOK
    <3> QED
      BY <3>1, ConcatEmptySeq
  <2>3. audit = [x \in Games |-> audit[x]]
    BY <1>2 DEF TypeOK
  <2> QED
    BY <2>1, <2>2, <2>3
<1> QED
  BY <1>1, <1>3, <1>5, <1>6, <1>7, <1>9, <1>10 DEF RecordGameResult

(* A correction is committed. *)
LEMMA ResultIsCorrected ==
  ASSUME NEW s \in Sessions, AloneInv(s), Commit(s), ToCorrect(sess[s]),
         SettlingBets(sess[s], BetsOn(sess[s].game))
  PROVE  CorrectGameResult(sess[s].game, sess[s].score)
<1>1. PICK me : me = sess[s]
  OBVIOUS
<1>2. TypeOK
  BY DEF AloneInv, IInv
<1>3. PICK S : S = BetsOn(me.game)
  OBVIOUS
<1>4. SettlingBets(me, S)
  BY <1>1, <1>3
<1>5. /\ bet' = SettleBets(S, me.score)
      /\ PostBalancedEntries(SettlementEntries(S, me.score))
      /\ UNCHANGED <<account, beforeCutoff>>
  BY <1>1, <1>4, SettlementCommits
<1>6. PICK g \in Games, final \in Scores :
        /\ g = me.game /\ final = me.score
        /\ status[g] = "FINAL" /\ score[g] # final /\ Len(audit[g]) < MaxCorrections
        /\ me.trail = <<CorrectionRow(g, final)>>
  BY <1>1 DEF ToCorrect
<1>7. status' = status
  <2>1. status' = [x \in Games |-> IF x = g THEN "FINAL" ELSE status[x]]
    BY <1>1, <1>6 DEF Commit
  <2>2. status = [x \in Games |-> status[x]]
    BY <1>2 DEF TypeOK
  <2> QED
    BY <1>6, <2>1, <2>2
<1>8. PICK row : row = CorrectionRow(g, final)
  OBVIOUS
<1>9. me.trail = <<row>> /\ row.original = score[g]
  BY <1>6, <1>8 DEF CorrectionRow
<1>10. WrittenScore(s) = final
  <2>1. me.trail # <<>> /\ me.trail[1].original = score[g]
    BY <1>9
  <2>2. WrittenScore(s) = [i \in {1, 2} |-> IF score[g][i] = final[i] THEN score[g][i] ELSE final[i]]
    BY <1>1, <1>6, <2>1 DEF WrittenScore
  <2>3. WrittenScore(s) = [i \in {1, 2} |-> final[i]]
    BY <2>2
  <2>4. final \in Nat \X Nat
    BY WageringAssumption
  <2> QED
    BY <2>3, <2>4, PairOfScores
<1>11. score' = [score EXCEPT ![g] = final]
  <2>1. score' = [x \in Games |-> IF x = g THEN final ELSE score[x]]
    BY <1>1, <1>6, <1>10 DEF Commit
  <2> QED
    BY <1>2, <2>1 DEF TypeOK
<1>12. audit' = [audit EXCEPT ![g] = Append(@, row)]
  <2>1. audit' = [x \in Games |-> IF x = g THEN audit[x] \o <<row>> ELSE audit[x]]
    BY <1>1, <1>6, <1>9 DEF Commit
  <2>2. audit[g] \o <<row>> = Append(audit[g], row)
    <3>1. score[g] \in Scores
      BY <1>6 DEF AloneInv, IInv, ScoredWhenFinal
    <3>2. row \in Correction
      BY <1>8, <3>1 DEF Correction, CorrectionRow
    <3>3. audit[g] \in Seq(Correction)
      BY <1>2 DEF TypeOK
    <3> QED
      BY <3>2, <3>3, AppendIsConcat
  <2>3. audit = [x \in Games |-> audit[x]]
    BY <1>2 DEF TypeOK
  <2>4. audit' = [x \in Games |-> IF x = g THEN Append(audit[g], row) ELSE audit[x]]
    BY <2>1, <2>2
  <2> QED
    BY <2>3, <2>4
<1> QED
  BY <1>1, <1>3, <1>5, <1>6, <1>7, <1>8, <1>11, <1>12 DEF CorrectGameResult

(* The commit of a session that is alone is a request, and leaves it idle. *)
LEMMA LoneCommits ==
  ASSUME NEW s \in Sessions, AloneInv(s), Commit(s)
  PROVE  Next /\ AloneInv(s)'
<1>1. Requesting(sess[s])
  BY StillRequesting DEF Commit
<1>2. Next
  <2>1. CASE MovingMoney(sess[s])
    BY <2>1, MoneyMoves DEF Next
  <2>2. CASE PlacingBet(sess[s])
    BY <2>2, BetIsPlaced DEF Next
  <2>3. CASE ToRecord(sess[s]) /\ SettlingBets(sess[s], PendingOn(sess[s].game))
    <3>1. RecordGameResult(sess[s].game, sess[s].score)
      BY <2>3, ResultIsRecorded
    <3>2. sess[s].game \in Games /\ sess[s].score \in Scores
      BY <2>3 DEF ToRecord
    <3> QED
      BY <3>1, <3>2 DEF Next
  <2>4. CASE ToCorrect(sess[s]) /\ SettlingBets(sess[s], BetsOn(sess[s].game))
    <3>1. CorrectGameResult(sess[s].game, sess[s].score)
      BY <2>4, ResultIsCorrected
    <3>2. sess[s].game \in Games /\ sess[s].score \in Scores
      BY <2>4 DEF ToCorrect
    <3> QED
      BY <3>1, <3>2 DEF Next
  <2> QED
    BY <1>1, <2>1, <2>2, <2>3, <2>4 DEF Requesting
<1>3. IInv'
  BY <1>2, IInvKept DEF AloneInv
<1>4. /\ UNCHANGED account /\ sess' = [sess EXCEPT ![s] = Idle]
      /\ DOMAIN lock' = DOMAIN lock
  BY DEF Commit, Release
<1>5. sess' = [r \in Sessions |-> sess'[r]] /\ sess'[s] = Idle
  BY <1>4 DEF AloneInv
<1>6. LoneSession(sess[s], HeldBy(s))'
  <2>1. PICK held : held = HeldBy(s)'
    OBVIOUS
  <2>2. /\ NothingPosted(Idle) /\ Idle.rows = <<>> /\ Idle.todo = <<>> /\ Idle.seen = <<>>
        /\ Idle.phase = "idle" /\ NoResult(Idle) /\ IsSession(Idle)
    BY IdleFacts DEF Idle, NothingPosted, NoResult
  <2>3. Reading(sess[s])'
    BY <1>5, <2>2 DEF Reading, NothingPosted, NoResult
  <2>4. RowsInHand(sess[s], HeldBy(s))'
    <3>1. \A x \in Accounts \cup {Capital} : MovedOn(Idle.posted, x) = 0
      BY <2>2, NothingMoved
    <3>2. DOMAIN Idle.seen = {}
      BY <2>2
    <3> HIDE DEF HeldBy
    <3> QED
      BY <1>5, <3>1, <3>2 DEF RowsInHand
  <2>5. IsSession(sess[s])' /\ (sess[s].todo \in Seq(Posting))'
    BY <1>5, <2>2 DEF IsSession
  <2> QED
    BY <2>3, <2>4, <2>5 DEF LoneSession
<1>7. account' = [a \in Accounts |-> "active"] /\ DOMAIN lock' = Accounts \cup {Capital}
  BY <1>4 DEF AloneInv
<1>8. AloneInv(s)'
  BY <1>3, <1>5, <1>6, <1>7 DEF AloneInv
<1> QED
  BY <1>2, <1>8

(* The accounts are open, and hold what they were opened with. *)
LEMMA SessionsBegin == SessionsInit => IInv
<1> SUFFICES ASSUME SessionsInit PROVE IInv
  OBVIOUS
<1>1. /\ account = [a \in Accounts |-> "active"]
      /\ balance = [a \in Accounts |-> Opening]
      /\ posted = [a \in Accounts |-> [t \in PostingTypes |-> IF t = "DEPOSIT" THEN Opening ELSE 0]]
      /\ capital = -(Opening * Cardinality(Accounts))
      /\ bet = [b \in Bets |-> NoBet]
      /\ status = [g \in Games |-> "SCHEDULED"]
      /\ score = [g \in Games |-> NoScore]
      /\ beforeCutoff = [g \in Games |-> TRUE]
      /\ audit = [g \in Games |-> <<>>]
  BY DEF SessionsInit
<1>2. Opening \in Nat /\ IsFiniteSet(Accounts)
  BY SessionsAssumption, LedgerAssumption
<1>3. PICK n \in Nat : n = Cardinality(Accounts)
  BY <1>2, FS_CardinalityType
<1>4. PICK m \in Nat : m = Opening * n
  BY <1>2
<1>5. capital = -m
  BY <1>1, <1>3, <1>4
<1>6. TypeOK
  BY <1>1, <1>2, <1>5 DEF TypeOK, LedgerTypeOK
<1>7. BalanceIsSumOfPostings
  BY <1>1, <1>2 DEF BalanceIsSumOfPostings, Total, PostingTypes
<1>8. CapitalMirrorsUsers
  <2>1. PICK f : f = balance
    OBVIOUS
  <2>2. \A a \in Accounts : f[a] = Opening
    BY <1>1, <2>1
  <2>3. SumFunctionOnSet(f, Accounts) = Opening * Cardinality(Accounts)
    BY <1>2, <2>2, SumOfEqual
  <2> QED
    BY <1>1, <2>1, <2>3 DEF CapitalMirrorsUsers
<1>9. Placed = {}
  BY <1>1 DEF Placed
<1>10. ASSUME NEW a, NEW cents PROVE SumOfBets(a, Placed, cents) = 0
  <2> DEFINE f == [b \in Bets |-> IF b \in Placed /\ bet[b].account = a THEN cents[b] ELSE 0]
  <2>1. \A b \in Bets : f[b] = 0
    BY <1>9
  <2>2. SumFunctionOnSet(f, Bets) = 0
    <3> HIDE DEF f
    <3> QED
      BY <2>1, SumZero, WageringAssumption
  <2> QED
    BY <2>2 DEF SumOfBets
<1>11. JournalMatchesBets
  BY <1>1, <1>10 DEF JournalMatchesBets, PostingTypes
<1>12. SettledByFinalScore /\ OneBetPerKey
  BY <1>9 DEF SettledByFinalScore, OneBetPerKey
<1>13. OverdraftIsReversal
  BY <1>1, <1>2 DEF OverdraftIsReversal, PostingTypes
<1>14. ScoredWhenFinal /\ AuditTrailReachesScore
  BY <1>1 DEF ScoredWhenFinal, AuditTrailReachesScore
<1> QED
  BY <1>6, <1>7, <1>8, <1>11, <1>12, <1>13, <1>14 DEF IInv

LEMMA AloneBegins ==
  ASSUME NEW s \in Sessions
  PROVE  SessionsInit => AloneInv(s)
<1> SUFFICES ASSUME SessionsInit PROVE AloneInv(s)
  OBVIOUS
<1>1. IInv
  BY SessionsBegin
<1>2. /\ account = [a \in Accounts |-> "active"] /\ sess = [r \in Sessions |-> Idle]
      /\ DOMAIN lock = Accounts \cup {Capital}
  BY SessionsAssumption DEF SessionsInit
<1>3. sess = [r \in Sessions |-> sess[r]] /\ sess[s] = Idle
  BY <1>2
<1>4. LoneSession(sess[s], HeldBy(s))
  <2>1. PICK held : held = HeldBy(s)
    OBVIOUS
  <2> QED
    BY <1>3, <2>1, IdleIsLone
<1> QED
  BY <1>1, <1>2, <1>3, <1>4 DEF AloneInv

(* Only its commit changes the database. *)
LEMMA AloneStep ==
  ASSUME NEW s, Sessions = {s}
  PROVE  AloneInv(s) /\ [SessionsNext]_allVars => [Next]_vars /\ AloneInv(s)'
<1> SUFFICES ASSUME AloneInv(s), [SessionsNext]_allVars PROVE [Next]_vars /\ AloneInv(s)'
  OBVIOUS
<1> s \in Sessions
  OBVIOUS
<1>1. CASE UNCHANGED allVars
  <2>1. UNCHANGED vars /\ sess' = sess /\ lock' = lock
    BY <1>1 DEF allVars
  <2>2. PICK held : held = HeldBy(s)' /\ held = HeldBy(s)
    BY <2>1 DEF HeldBy
  <2>3. PICK me : me = sess[s]
    OBVIOUS
  <2>4. LoneSession(me, held)
    BY <2>2, <2>3 DEF AloneInv
  <2>5. sess' = [sess EXCEPT ![s] = me] /\ DOMAIN lock' = DOMAIN lock
    BY <2>1, <2>3 DEF AloneInv
  <2> QED
    BY <2>1, <2>2, <2>4, <2>5, LoneStep
<1>2. CASE SessionsNext
  <2>1. \/ \E a \in Accounts : Authenticate(s, a)
        \/ \E g \in Games, final \in Scores : BeginResult(s, g, final)
        \/ Proceed(s)
        \/ LockRow(s)
        \/ BreakDeadlock(s)
        \/ Fail(s)
    BY <1>2 DEF SessionsNext
  <2>2. CASE \E a \in Accounts : Authenticate(s, a)
    BY <2>2, LoneAuthenticates DEF Authenticate
  <2>3. CASE \E g \in Games, final \in Scores : BeginResult(s, g, final)
    BY <2>3, LoneBeginsResult DEF BeginResult
  <2>4. CASE Ask(s)
    <3>1. CASE \E a \in Accounts, t \in {"DEPOSIT", "WITHDRAWAL"}, amount \in Amounts :
                 RequestManual(s, a, t, amount)
      BY <3>1, LoneRequestsManual DEF RequestManual
    <3>2. CASE \E b \in Bets, a \in Accounts, q \in Quotes, stake \in Stakes, key \in Keys \cup {NoKey} :
                 RequestBet(s, b, a, q, stake, key)
      <4>1. UNCHANGED vars
        BY <3>2 DEF RequestBet
      <4>2. AloneInv(s)'
        BY <3>2, LoneRequestsBet
      <4> QED
        BY <4>1, <4>2
    <3>3. CASE Refuse(s)
      BY <3>3, LoneRefuses DEF Refuse
    <3> QED
      BY <2>4, <3>1, <3>2, <3>3 DEF Ask
  <2>5. CASE ReadBets(s)
    BY <2>5, LoneReadsBets DEF ReadBets
  <2>6. CASE Load(s)
    BY <2>6, LoneLoads DEF Load
  <2>7. CASE Post(s)
    BY <2>7, LonePosts DEF Post
  <2>8. CASE Commit(s)
    BY <2>8, LoneCommits
  <2>9. CASE Reject(s) \/ BreakDeadlock(s) \/ Fail(s)
    <3>1. Rollback(s)
      BY <2>9 DEF Reject, BreakDeadlock, Fail
    <3> QED
      BY <3>1, LoneForgets DEF Rollback
  <2>10. CASE LockRow(s)
    BY <2>10, LoneLocksRow DEF LockRow
  <2> QED
    BY <2>1, <2>2, <2>3, <2>4, <2>5, <2>6, <2>7, <2>8, <2>9, <2>10 DEF Proceed
<1> QED
  BY <1>1, <1>2

LEMMA AloneInvHolds ==
  ASSUME NEW s, Sessions = {s}
  PROVE  SessionsSpec => []AloneInv(s)
<1>1. SessionsInit => AloneInv(s)
  BY AloneBegins
<1>2. AloneInv(s) /\ [SessionsNext]_allVars => AloneInv(s)'
  BY AloneStep
<1> QED
  BY <1>1, <1>2, PTL DEF SessionsSpec

(* ONE REQUEST AT A TIME. While requests do not overlap, what the          *)
(* statements of a session do (reads, row locks, flushes, its commit or a  *)
(* failure at any point) amounts to one complete request of Wagering, or   *)
(* to nothing.                                                             *)
THEOREM LoneCommitsAreRequests ==
  ASSUME NEW s, Sessions = {s}
  PROVE  SessionsSpec => CommitsAreRequests
<1>1. AloneInv(s) /\ [SessionsNext]_allVars => [Next]_vars
  BY AloneStep
<1> QED
  BY <1>1, AloneInvHolds, PTL DEF SessionsSpec, CommitsAreRequests

(* BALANCES ARE RIGHT ONE REQUEST AT A TIME. While requests do not         *)
(* overlap, the absolute balances that a session writes from what it has   *)
(* read remain the sums of the postings, opposite to the capital account,  *)
(* and explained by deposits, bets and scores.                             *)
THEOREM LoneRequestsKeepTheBooks ==
  ASSUME NEW s, Sessions = {s}
  PROVE  SessionsSpec => [](BalanceIsSumOfPostings /\ CapitalMirrorsUsers /\ BalanceIsExplained)
<1>1. AloneInv(s) => BalanceIsSumOfPostings /\ CapitalMirrorsUsers /\ BalanceIsExplained
  BY InvariantExplainsBalance DEF AloneInv, IInv
<1> QED
  BY <1>1, AloneInvHolds, PTL
=============================================================================
