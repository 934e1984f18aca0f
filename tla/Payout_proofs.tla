--------------------------- MODULE Payout_proofs ---------------------------
(***************************************************************************)
(* The arithmetic of cents that several components share.                  *)
(*                                                                         *)
(* Payouts: the settlement arithmetic is right for every stake, line,      *)
(* price and score.                                                        *)
(*                                                                         *)
(* Sums: facts about SumFunctionOnSet, the fold of the Functions module    *)
(* that the models use wherever the code adds up cents:                    *)
(* SUM(amount_cents) in reconcile_account_balance, the loop over the bets  *)
(* of a game, and the balances of all accounts.  The fold is a recursive   *)
(* function on the subsets of a finite set, so its defining equation has   *)
(* to be earned: every proof is an induction written as "take a smallest   *)
(* counterexample", which needs no induction scheme with an operator       *)
(* parameter.  From it come the sum over groups (SumOfGroups, for the      *)
(* breakdowns of the analytics) and over what was renamed (SumRenamed).    *)
(*                                                                         *)
(* Loops: a loop over rows is a recursive function on the numbers up to    *)
(* how many there are; LeastNumber and Upto are its induction.             *)
(***************************************************************************)
EXTENDS Payout, Functions, FiniteSetTheorems, TLAPS

-----------------------------------------------------------------------------
(* Payouts. *)

(* The quotes a bet can be placed at, whatever game and market they name. *)
IsQuote(q) ==
  /\ q.type \in MarketTypes
  /\ q.line \in Int
  /\ q.selection \in Selections
  /\ q.odds \in Int \ {0}

LEMMA ComparisonType ==
  ASSUME NEW q, IsQuote(q), NEW s \in Nat \X Nat
  PROVE  Comparison(q.type, q.line, s) \in Int
<1>1. s[1] \in Int /\ s[2] \in Int
  OBVIOUS
<1> QED
  BY <1>1 DEF IsQuote, MarketTypes, Comparison

LEMMA ResultType ==
  ASSUME NEW q, NEW s
  PROVE  ResultForBet(q, s) \in Results
BY DEF ResultForBet, Results

(* THE TWO SIDES OPPOSE. Whatever the market and the score, HOME and AWAY  *)
(* (or OVER and UNDER) of one market push together, or exactly one wins.   *)
THEOREM OneSideAlwaysWins ==
  ASSUME NEW type \in MarketTypes, NEW line \in Int, NEW selection \in Selections,
         NEW odds \in Int, NEW s \in Nat \X Nat
  PROVE  SidesOppose([type |-> type, line |-> line, selection |-> selection, odds |-> odds], s)
<1> DEFINE c == Comparison(type, line, s)
<1>1. \A x \in Selections : OtherSide(x) \in {"HOME", "OVER"} <=> x \notin {"HOME", "OVER"}
  BY DEF Selections, OtherSide
<1> QED
  BY <1>1 DEF SidesOppose, ResultForBet

LEMMA DivisionBounds ==
  ASSUME NEW n \in Nat, NEW d \in Nat \ {0}
  PROVE  /\ n \div d \in Nat
         /\ d * (n \div d) <= n
         /\ n < d * (n \div d) + d
OBVIOUS

(* ROUND_HALF_UP IS NEAREST. The integer formula is the nearest whole      *)
(* number to the quotient, and the larger one on a tie.                    *)
LEMMA HalfUpIsNearest ==
  ASSUME NEW num \in Nat, NEW den \in Nat \ {0}
  PROVE  HalfUp(num, den) \in Nat /\ IsNearest(HalfUp(num, den), num, den)
<1> DEFINE k == HalfUp(num, den)
<1>1. 2 * num + den \in Nat /\ 2 * den \in Nat \ {0}
  OBVIOUS
<1>2. /\ k \in Nat
      /\ (2 * den) * k <= 2 * num + den
      /\ 2 * num + den < (2 * den) * k + 2 * den
  BY <1>1, DivisionBounds DEF HalfUp
<1>3. k * den \in Int /\ (2 * den) * k = 2 * (k * den)
  BY <1>2
<1> HIDE DEF k
<1>4. IsNearest(k, num, den)
  BY <1>2, <1>3 DEF IsNearest
<1> QED
  BY <1>2, <1>4 DEF k

(* EVERY PROFIT IS ROUNDED TO THE NEAREST CENT, for favourites (negative   *)
(* odds) and underdogs alike, and a winner never gets back less than its   *)
(* stake.                                                                  *)
THEOREM WinnersArePaidToTheNearestCent ==
  ASSUME NEW stake \in Nat, NEW odds \in Int \ {0}
  PROVE  /\ WinningPayoutCents(stake, odds) \in Nat
         /\ WinningPayoutCents(stake, odds) >= stake
         /\ ProfitIsNearestCent(stake, odds)
<1>1. CASE odds > 0
  <2>1. stake * odds \in Nat
    BY <1>1
  <2>2. /\ HalfUp(stake * odds, 100) \in Nat
        /\ IsNearest(HalfUp(stake * odds, 100), stake * odds, 100)
    BY <2>1, HalfUpIsNearest
  <2> QED
    BY <1>1, <2>2 DEF WinningPayoutCents, ProfitIsNearestCent
<1>2. CASE odds < 0
  <2>1. stake * 100 \in Nat /\ -odds \in Nat \ {0}
    BY <1>2
  <2>2. /\ HalfUp(stake * 100, -odds) \in Nat
        /\ IsNearest(HalfUp(stake * 100, -odds), stake * 100, -odds)
    BY <2>1, HalfUpIsNearest
  <2> QED
    BY <1>2, <2>2 DEF WinningPayoutCents, ProfitIsNearestCent
<1> QED
  BY <1>1, <1>2

(* A payout is never negative, and a bet pays nothing only when it lost.   *)
LEMMA PayoutType ==
  ASSUME NEW q, IsQuote(q), NEW stake \in Nat \ {0}, NEW s
  PROVE  /\ PayoutCents(q, stake, s) \in Nat
         /\ PayoutCents(q, stake, s) = 0 <=> ResultForBet(q, s) = "LOST"
<1>1. WinningPayoutCents(stake, q.odds) \in Nat /\ WinningPayoutCents(stake, q.odds) >= stake
  BY WinnersArePaidToTheNearestCent DEF IsQuote
<1> QED
  BY <1>1, ResultType DEF PayoutCents, Results

-----------------------------------------------------------------------------
(* Sums. *)

(* g is the function the fold recurses through when it sums f over S. *)
SumsTo(g, f, S) ==
  g = [T \in SUBSET S |->
         IF T = {} THEN 0
         ELSE LET x == CHOOSE x \in T : TRUE IN f[x] + g[T \ {x}]]

(* The function the fold picks. *)
SumFcn(f, S) == CHOOSE g : SumsTo(g, f, S)

LEMMA SumIsFcn ==
  ASSUME NEW f, NEW S
  PROVE  SumFunctionOnSet(f, S) = SumFcn(f, S)[S]
BY DEF SumFunctionOnSet, FoldFunctionOnSet, MapThenFoldSet, SumFcn, SumsTo

(* A nonempty family of subsets of a finite set has a smallest member. *)
LEMMA SmallestSubset ==
  ASSUME NEW S, IsFiniteSet(S), NEW B \in SUBSET (SUBSET S), B # {}
  PROVE  \E T \in B : \A U \in B : U \subseteq T => U = T
<1>1. IsWellFoundedOn(StrictSubsetOrdering(S), SUBSET S)
  BY FS_StrictSubsetOrderingWellFounded, FS_FiniteSubsetsOfFinite
<1>2. \E T \in B : \A U \in B : ~ (<<U, T>> \in StrictSubsetOrdering(S))
  BY <1>1, WFMin
<1>3. \A U, T \in B : U \subseteq T /\ U # T => <<U, T>> \in StrictSubsetOrdering(S)
  BY DEF StrictSubsetOrdering
<1> QED
  BY <1>2, <1>3

(* Two such functions, for overlapping sets, agree wherever both are defined. *)
LEMMA SumFcnsAgree ==
  ASSUME NEW f, NEW S, NEW R, IsFiniteSet(S), NEW g, NEW h,
         SumsTo(g, f, S), SumsTo(h, f, R), NEW T \in SUBSET S, T \in SUBSET R
  PROVE  g[T] = h[T]
<1> DEFINE B == {U \in SUBSET S : U \in SUBSET R /\ g[U] # h[U]}
<1> SUFFICES ASSUME B # {} PROVE FALSE
  OBVIOUS
<1>1. PICK U \in B : \A V \in B : V \subseteq U => V = U
  <2>1. B \in SUBSET (SUBSET S)
    OBVIOUS
  <2> HIDE DEF B
  <2> QED
    BY <2>1, SmallestSubset
<1>2. U # {}
  BY SMT DEF SumsTo
<1> DEFINE x == CHOOSE x \in U : TRUE
<1>3. x \in U
  BY <1>2
<1>4. g[U] = f[x] + g[U \ {x}] /\ h[U] = f[x] + h[U \ {x}]
  BY <1>2, SMT DEF SumsTo
<1>5. g[U \ {x}] = h[U \ {x}]
  BY <1>1, <1>3
<1> QED
  BY <1>4, <1>5

(* The recursion has a solution on every finite set. *)
LEMMA SumFcnExists ==
  ASSUME NEW f, NEW S, IsFiniteSet(S)
  PROVE  SumsTo(SumFcn(f, S), f, S)
<1> DEFINE B == {T \in SUBSET S : ~ \E g : SumsTo(g, f, T)}
<1> SUFFICES B = {}
  BY DEF SumFcn
<1> SUFFICES ASSUME B # {} PROVE FALSE
  OBVIOUS
<1>1. PICK T \in B : \A U \in B : U \subseteq T => U = T
  <2>1. B \in SUBSET (SUBSET S)
    OBVIOUS
  <2> HIDE DEF B
  <2> QED
    BY <2>1, SmallestSubset
<1>2. ASSUME NEW V \in SUBSET T, V # T
      PROVE  SumsTo(SumFcn(f, V), f, V) /\ IsFiniteSet(V)
  <2>1. V \notin B /\ V \in SUBSET S
    BY <1>1, <1>2
  <2>2. IsFiniteSet(V)
    BY <2>1, FS_Subset
  <2> QED
    BY <2>1, <2>2 DEF SumFcn
<1> DEFINE pick(U) == CHOOSE x \in U : TRUE
           g == [U \in SUBSET T |->
                   IF U = {} THEN 0
                   ELSE f[pick(U)] + SumFcn(f, U \ {pick(U)})[U \ {pick(U)}]]
<1>3. ASSUME NEW V \in SUBSET T, V # T
      PROVE  g[V] = SumFcn(f, V)[V]
  <2>1. CASE V = {}
    <3>1. SumFcn(f, V)[V] = 0
      BY <1>2, <1>3, <2>1 DEF SumsTo
    <3>2. g[V] = 0
      BY <2>1
    <3> QED
      BY <3>1, <3>2
  <2>2. CASE V # {}
    <3> DEFINE y == pick(V)
               W == V \ {y}
    <3>1. y \in V
      BY <2>2
    <3>2. W \in SUBSET T /\ W # T /\ W \in SUBSET V
      BY <3>1
    <3>3. SumFcn(f, V)[V] = f[y] + SumFcn(f, V)[W]
      BY <1>2, <1>3, <2>2 DEF SumsTo
    <3>4. SumFcn(f, V)[W] = SumFcn(f, W)[W]
      BY <1>2, <1>3, <3>2, SumFcnsAgree
    <3>5. g[V] = f[y] + SumFcn(f, W)[W]
      BY <2>2
    <3> QED
      BY <3>3, <3>4, <3>5
  <2> QED
    BY <2>1, <2>2
<1>4. ASSUME NEW U \in SUBSET T, U # {}
      PROVE  g[U] = f[pick(U)] + g[U \ {pick(U)}]
  <2>1. pick(U) \in U
    BY <1>4
  <2>2. g[U \ {pick(U)}] = SumFcn(f, U \ {pick(U)})[U \ {pick(U)}]
    <3> DEFINE V == U \ {pick(U)}
    <3>1. V \in SUBSET T /\ V # T
      BY <2>1
    <3> HIDE DEF V, g
    <3> QED
      BY <1>3, <3>1 DEF V
  <2> QED
    BY <1>4, <2>2
<1>5. SumsTo(g, f, T)
  <2>1. g = [U \in SUBSET T |->
               IF U = {} THEN 0 ELSE f[pick(U)] + g[U \ {pick(U)}]]
    <3>1. g[{}] = 0
      OBVIOUS
    <3>2. g = [U \in SUBSET T |-> g[U]]
      OBVIOUS
    <3> HIDE DEF g, pick
    <3>3. \A U \in SUBSET T :
            g[U] = IF U = {} THEN 0 ELSE f[pick(U)] + g[U \ {pick(U)}]
      BY <1>4, <3>1
    <3> QED
      BY <3>2, <3>3
  <2> QED
    BY <2>1 DEF SumsTo
<1> QED
  BY <1>1, <1>5

(* The recursion equation of the sum itself. *)
LEMMA SumUnfold ==
  ASSUME NEW f, NEW S, IsFiniteSet(S), S # {}
  PROVE  LET x == CHOOSE x \in S : TRUE
         IN  SumFunctionOnSet(f, S) = f[x] + SumFunctionOnSet(f, S \ {x})
<1> DEFINE x == CHOOSE x \in S : TRUE
           R == S \ {x}
<1>1. x \in S /\ IsFiniteSet(R) /\ R \in SUBSET S
  BY FS_RemoveElement
<1>2. SumFcn(f, S)[S] = f[x] + SumFcn(f, S)[R]
  <2>1. SumsTo(SumFcn(f, S), f, S)
    BY SumFcnExists
  <2> QED
    BY <2>1 DEF SumsTo
<1>3. SumFcn(f, S)[R] = SumFcn(f, R)[R]
  BY <1>1, SumFcnExists, SumFcnsAgree
<1> QED
  BY <1>2, <1>3, SumIsFcn

(* THE EMPTY SUM. An account without postings has balance 0. *)
LEMMA SumEmpty ==
  ASSUME NEW f
  PROVE  SumFunctionOnSet(f, {}) = 0
<1>1. SumsTo(SumFcn(f, {}), f, {})
  BY SumFcnExists, FS_EmptySet
<1> QED
  BY <1>1, SumIsFcn DEF SumsTo

(* SUMS OF CENTS ARE CENTS. A sum of integers is an integer. *)
LEMMA SumType ==
  ASSUME NEW S, IsFiniteSet(S), NEW f, \A x \in S : f[x] \in Int
  PROVE  SumFunctionOnSet(f, S) \in Int
<1> DEFINE B == {T \in SUBSET S : SumFunctionOnSet(f, T) \notin Int}
<1> SUFFICES ASSUME B # {} PROVE FALSE
  OBVIOUS
<1>1. PICK T \in B : \A U \in B : U \subseteq T => U = T
  <2>1. B \in SUBSET (SUBSET S)
    OBVIOUS
  <2> HIDE DEF B
  <2> QED
    BY <2>1, SmallestSubset
<1>2. T # {}
  BY SumEmpty
<1> DEFINE x == CHOOSE x \in T : TRUE
<1>3. x \in T /\ T \in SUBSET S /\ IsFiniteSet(T)
  BY <1>2, FS_Subset
<1>4. SumFunctionOnSet(f, T \ {x}) \in Int
  BY <1>1, <1>3
<1>5. SumFunctionOnSet(f, T) = f[x] + SumFunctionOnSet(f, T \ {x})
  BY <1>2, <1>3, SumUnfold
<1> QED
  BY <1>3, <1>4, <1>5

(* THE ORDER OF POSTINGS DOES NOT MATTER. Any element can be taken out of  *)
(* a sum first, whichever one the fold would choose.                       *)
LEMMA SumRemove ==
  ASSUME NEW S, IsFiniteSet(S), NEW f, \A x \in S : f[x] \in Int, NEW a \in S
  PROVE  SumFunctionOnSet(f, S) = f[a] + SumFunctionOnSet(f, S \ {a})
<1> DEFINE Splits(T) == \A b \in T : SumFunctionOnSet(f, T)
                                       = f[b] + SumFunctionOnSet(f, T \ {b})
           B == {T \in SUBSET S : ~ Splits(T)}
<1> SUFFICES ASSUME B # {} PROVE FALSE
  OBVIOUS
<1>1. PICK T \in B : \A U \in B : U \subseteq T => U = T
  <2>1. B \in SUBSET (SUBSET S)
    OBVIOUS
  <2> HIDE DEF B
  <2> QED
    BY <2>1, SmallestSubset
<1>2. PICK b \in T : SumFunctionOnSet(f, T) # f[b] + SumFunctionOnSet(f, T \ {b})
  BY <1>1
<1> DEFINE c == CHOOSE x \in T : TRUE
           R == T \ {b, c}
<1>3. c \in T /\ T \in SUBSET S /\ IsFiniteSet(T)
  BY <1>2, FS_Subset
<1>4. SumFunctionOnSet(f, T) = f[c] + SumFunctionOnSet(f, T \ {c})
  BY <1>2, <1>3, SumUnfold
<1>5. b # c
  BY <1>2, <1>4
<1>6. Splits(T \ {c}) /\ Splits(T \ {b})
  BY <1>1, <1>2, <1>3
<1>7. (T \ {c}) \ {b} = R /\ (T \ {b}) \ {c} = R
  OBVIOUS
<1>8. /\ SumFunctionOnSet(f, T \ {c}) = f[b] + SumFunctionOnSet(f, R)
      /\ SumFunctionOnSet(f, T \ {b}) = f[c] + SumFunctionOnSet(f, R)
  <2> HIDE DEF R, c
  <2> QED
    BY <1>2, <1>3, <1>5, <1>6, <1>7
<1>9. SumFunctionOnSet(f, R) \in Int /\ f[b] \in Int /\ f[c] \in Int
  BY <1>2, <1>3, SumType, FS_Subset
<1> HIDE DEF R, c
<1> QED
  BY <1>2, <1>4, <1>8, <1>9

(* Functions that agree on a set have the same sum over it. *)
LEMMA SumSame ==
  ASSUME NEW S, IsFiniteSet(S), NEW f, NEW g, \A x \in S : f[x] = g[x]
  PROVE  SumFunctionOnSet(f, S) = SumFunctionOnSet(g, S)
<1> DEFINE B == {T \in SUBSET S : SumFunctionOnSet(f, T) # SumFunctionOnSet(g, T)}
<1> SUFFICES ASSUME B # {} PROVE FALSE
  OBVIOUS
<1>1. PICK T \in B : \A U \in B : U \subseteq T => U = T
  <2>1. B \in SUBSET (SUBSET S)
    OBVIOUS
  <2> HIDE DEF B
  <2> QED
    BY <2>1, SmallestSubset
<1>2. T # {}
  BY SumEmpty
<1> DEFINE x == CHOOSE x \in T : TRUE
<1>3. x \in T /\ T \in SUBSET S /\ IsFiniteSet(T)
  BY <1>2, FS_Subset
<1>4. SumFunctionOnSet(f, T \ {x}) = SumFunctionOnSet(g, T \ {x})
  BY <1>1, <1>3
<1>5. /\ SumFunctionOnSet(f, T) = f[x] + SumFunctionOnSet(f, T \ {x})
      /\ SumFunctionOnSet(g, T) = g[x] + SumFunctionOnSet(g, T \ {x})
  BY <1>2, <1>3, SumUnfold
<1> QED
  BY <1>3, <1>4, <1>5

(* A JOURNAL ENTRY ADDS UP. The sum of a pointwise sum is the sum of sums. *)
LEMMA SumPlus ==
  ASSUME NEW S, IsFiniteSet(S), NEW f, NEW g, NEW h,
         \A x \in S : f[x] \in Int /\ g[x] \in Int /\ h[x] = f[x] + g[x]
  PROVE  SumFunctionOnSet(h, S) = SumFunctionOnSet(f, S) + SumFunctionOnSet(g, S)
<1> DEFINE B == {T \in SUBSET S : SumFunctionOnSet(h, T)
                   # SumFunctionOnSet(f, T) + SumFunctionOnSet(g, T)}
<1> SUFFICES ASSUME B # {} PROVE FALSE
  OBVIOUS
<1>1. PICK T \in B : \A U \in B : U \subseteq T => U = T
  <2>1. B \in SUBSET (SUBSET S)
    OBVIOUS
  <2> HIDE DEF B
  <2> QED
    BY <2>1, SmallestSubset
<1>2. T # {}
  <2> SUFFICES ASSUME T = {} PROVE FALSE
    OBVIOUS
  <2>1. /\ SumFunctionOnSet(f, T) = 0
        /\ SumFunctionOnSet(g, T) = 0
        /\ SumFunctionOnSet(h, T) = 0
    BY SumEmpty
  <2> QED
    BY <1>1, <2>1, SMT
<1> DEFINE x == CHOOSE x \in T : TRUE
           R == T \ {x}
<1>3. x \in T /\ T \in SUBSET S /\ IsFiniteSet(T) /\ R \in SUBSET S /\ IsFiniteSet(R)
  BY <1>2, FS_Subset
<1>4. SumFunctionOnSet(h, R) = SumFunctionOnSet(f, R) + SumFunctionOnSet(g, R)
  BY <1>1, <1>3
<1>5. /\ SumFunctionOnSet(f, T) = f[x] + SumFunctionOnSet(f, R)
      /\ SumFunctionOnSet(g, T) = g[x] + SumFunctionOnSet(g, R)
      /\ SumFunctionOnSet(h, T) = h[x] + SumFunctionOnSet(h, R)
  BY <1>2, <1>3, SumUnfold
<1>6. /\ SumFunctionOnSet(f, R) \in Int
      /\ SumFunctionOnSet(g, R) \in Int
  BY <1>3, SumType
<1>7. SumFunctionOnSet(h, T) # SumFunctionOnSet(f, T) + SumFunctionOnSet(g, T)
  BY <1>1
<1>8. f[x] \in Int /\ g[x] \in Int /\ h[x] = f[x] + g[x]
  BY <1>3
<1> HIDE DEF R, x
<1> QED
  BY <1>4, <1>5, <1>6, <1>7, <1>8

(* ONE POSTING. Changing the summand of one element changes the sum by the *)
(* same amount.                                                            *)
LEMMA SumChangeOne ==
  ASSUME NEW S, IsFiniteSet(S), NEW f, NEW g, NEW a \in S,
         \A x \in S : f[x] \in Int, \A x \in S \ {a} : g[x] = f[x], g[a] \in Int
  PROVE  SumFunctionOnSet(g, S) = SumFunctionOnSet(f, S) - f[a] + g[a]
<1> DEFINE R == S \ {a}
<1>1. IsFiniteSet(R) /\ \A x \in S : g[x] \in Int
  BY FS_RemoveElement
<1>2. SumFunctionOnSet(g, R) = SumFunctionOnSet(f, R)
  BY <1>1, SumSame
<1>3. SumFunctionOnSet(f, R) \in Int
  BY <1>1, SumType
<1>4. /\ SumFunctionOnSet(f, S) = f[a] + SumFunctionOnSet(f, R)
      /\ SumFunctionOnSet(g, S) = g[a] + SumFunctionOnSet(g, R)
  BY <1>1, SumRemove
<1>5. f[a] \in Int
  OBVIOUS
<1> HIDE DEF R
<1> QED
  BY <1>2, <1>3, <1>4, <1>5

(* A sum of non-negative amounts is not negative. *)
LEMMA SumNat ==
  ASSUME NEW S, IsFiniteSet(S), NEW f, \A x \in S : f[x] \in Nat
  PROVE  SumFunctionOnSet(f, S) \in Nat
<1> DEFINE B == {T \in SUBSET S : SumFunctionOnSet(f, T) \notin Nat}
<1> SUFFICES ASSUME B # {} PROVE FALSE
  OBVIOUS
<1>1. PICK T \in B : \A U \in B : U \subseteq T => U = T
  <2>1. B \in SUBSET (SUBSET S)
    OBVIOUS
  <2> HIDE DEF B
  <2> QED
    BY <2>1, SmallestSubset
<1>2. T # {}
  BY SumEmpty
<1> DEFINE x == CHOOSE x \in T : TRUE
<1>3. x \in T /\ T \in SUBSET S /\ IsFiniteSet(T)
  BY <1>2, FS_Subset
<1>4. SumFunctionOnSet(f, T \ {x}) \in Nat
  BY <1>1, <1>3
<1>5. SumFunctionOnSet(f, T) = f[x] + SumFunctionOnSet(f, T \ {x})
  BY <1>2, <1>3, SumUnfold
<1> QED
  BY <1>3, <1>4, <1>5

(* Zero is the only whole number that is its own double. *)
LEMMA OwnDouble ==
  ASSUME NEW n \in Int, n = n + n
  PROVE  n = 0
  OBVIOUS

(* A sum of zeros is zero. *)
LEMMA SumZero ==
  ASSUME NEW S, IsFiniteSet(S), NEW f, \A x \in S : f[x] = 0
  PROVE  SumFunctionOnSet(f, S) = 0
<1> DEFINE n == SumFunctionOnSet(f, S)
<1>1. n = n + n
  BY SumPlus
<1>2. n \in Int
  BY SumType
<1>3. n = 0
  <2> HIDE DEF n
  <2> QED
    BY <1>1, <1>2, OwnDouble
<1> QED
  BY <1>3

(* TWO PARTS. The sum over two disjoint sets is the sum of their sums. *)
LEMMA SumUnion ==
  ASSUME NEW S, IsFiniteSet(S), NEW R, IsFiniteSet(R), S \cap R = {},
         NEW f, \A x \in S \cup R : f[x] \in Int
  PROVE  SumFunctionOnSet(f, S \cup R) = SumFunctionOnSet(f, S) + SumFunctionOnSet(f, R)
<1> DEFINE B == {T \in SUBSET R : SumFunctionOnSet(f, S \cup T)
                                    # SumFunctionOnSet(f, S) + SumFunctionOnSet(f, T)}
<1> SUFFICES ASSUME B # {} PROVE FALSE
  OBVIOUS
<1>1. PICK T \in B : \A U \in B : U \subseteq T => U = T
  <2>1. B \in SUBSET (SUBSET R)
    OBVIOUS
  <2> HIDE DEF B
  <2> QED
    BY <2>1, SmallestSubset
<1>2. SumFunctionOnSet(f, S) \in Int
  BY SumType
<1>3. T # {}
  <2> SUFFICES ASSUME T = {} PROVE FALSE
    OBVIOUS
  <2>1. SumFunctionOnSet(f, T) = 0 /\ S \cup T = S
    BY SumEmpty
  <2> QED
    BY <1>1, <1>2, <2>1
<1>4. PICK x \in T : TRUE
  BY <1>3
<1> DEFINE U == T \ {x}
<1>5. /\ T \in SUBSET R /\ U \in SUBSET R /\ U \subseteq T /\ U # T
      /\ x \in S \cup T /\ (S \cup T) \ {x} = S \cup U
  BY <1>4
<1>6. /\ IsFiniteSet(T) /\ IsFiniteSet(U) /\ IsFiniteSet(S \cup T)
      /\ \A y \in S \cup T : f[y] \in Int
  BY <1>5, FS_Subset, FS_Union
<1>7. SumFunctionOnSet(f, S \cup U) = SumFunctionOnSet(f, S) + SumFunctionOnSet(f, U)
  BY <1>1, <1>5
<1>8. SumFunctionOnSet(f, T) = f[x] + SumFunctionOnSet(f, U)
  BY <1>5, <1>6, SumRemove
<1>9. SumFunctionOnSet(f, S \cup T) = f[x] + SumFunctionOnSet(f, S \cup U)
  BY <1>5, <1>6, SumRemove
<1>10. SumFunctionOnSet(f, U) \in Int /\ f[x] \in Int
  BY <1>5, <1>6, SumType
<1>11. SumFunctionOnSet(f, S \cup T) # SumFunctionOnSet(f, S) + SumFunctionOnSet(f, T)
  BY <1>1
<1> HIDE DEF U, B
<1> QED
  BY <1>2, <1>7, <1>8, <1>9, <1>10, <1>11

GroupKeys(k, S) == {k[x] : x \in S}
GroupOf(k, S, v) == {x \in S : k[x] = v}

(* GROUP BY. Sums of the groups of a set, by a key k, add up to the sum of *)
(* the set.                                                                *)
LEMMA SumOfGroups ==
  ASSUME NEW S, IsFiniteSet(S), NEW f, \A x \in S : f[x] \in Int, NEW k,
         NEW g, \A v \in GroupKeys(k, S) : g[v] = SumFunctionOnSet(f, GroupOf(k, S, v))
  PROVE  SumFunctionOnSet(g, GroupKeys(k, S)) = SumFunctionOnSet(f, S)
<1> USE DEF GroupKeys, GroupOf
<1> DEFINE V == {k[x] : x \in S}
           Of(W) == {x \in S : k[x] \in W}
           B == {W \in SUBSET V : SumFunctionOnSet(g, W) # SumFunctionOnSet(f, Of(W))}
<1>1. IsFiniteSet(V)
  <2>1. [x \in S |-> k[x]] \in Surjection(S, V)
    BY DEF Surjection
  <2> QED
    BY <2>1, FS_Surjection
<1>2. \A v \in V : g[v] \in Int
  <2> SUFFICES ASSUME NEW v \in V PROVE g[v] \in Int
    OBVIOUS
  <2>1. {x \in S : k[x] = v} \in SUBSET S
    OBVIOUS
  <2>2. SumFunctionOnSet(f, {x \in S : k[x] = v}) \in Int
    BY <2>1, FS_Subset, SumType
  <2> QED
    BY <2>2
<1>3. B = {}
  <2> SUFFICES ASSUME B # {} PROVE FALSE
    OBVIOUS
  <2>1. PICK W \in B : \A U \in B : U \subseteq W => U = W
    <3>1. B \in SUBSET (SUBSET V)
      OBVIOUS
    <3> HIDE DEF B, V
    <3> QED
      BY <1>1, <3>1, SmallestSubset
  <2>2. W # {}
    <3> SUFFICES ASSUME W = {} PROVE FALSE
      OBVIOUS
    <3>1. Of(W) = {}
      OBVIOUS
    <3>2. SumFunctionOnSet(g, W) = 0 /\ SumFunctionOnSet(f, Of(W)) = 0
      BY <3>1, SumEmpty
    <3> QED
      BY <2>1, <3>2
  <2>3. PICK v \in W : TRUE
    BY <2>2
  <2> DEFINE U == W \ {v}
             G == {x \in S : k[x] = v}
  <2>4. /\ W \in SUBSET V /\ U \in SUBSET V /\ U # W /\ U \subseteq W /\ v \in V
        /\ Of(W) = G \cup Of(U) /\ G \cap Of(U) = {}
        /\ Of(U) \in SUBSET S /\ G \in SUBSET S
    BY <2>3
  <2>5. /\ IsFiniteSet(W) /\ IsFiniteSet(Of(U)) /\ IsFiniteSet(G)
        /\ \A x \in G \cup Of(U) : f[x] \in Int
        /\ \A w \in W : g[w] \in Int
    BY <1>1, <1>2, <2>4, FS_Subset
  <2>6. SumFunctionOnSet(g, U) = SumFunctionOnSet(f, Of(U))
    BY <2>1, <2>4
  <2>7. SumFunctionOnSet(g, W) = g[v] + SumFunctionOnSet(g, U)
    BY <2>3, <2>5, SumRemove
  <2>8. SumFunctionOnSet(f, Of(W)) = SumFunctionOnSet(f, G) + SumFunctionOnSet(f, Of(U))
    <3> DEFINE R == Of(U)
    <3>1. /\ IsFiniteSet(G) /\ IsFiniteSet(R) /\ G \cap R = {}
          /\ \A x \in G \cup R : f[x] \in Int
      BY <2>4, <2>5
    <3>2. Of(W) = G \cup R
      BY <2>4
    <3> HIDE DEF G, Of, R, U
    <3>3. SumFunctionOnSet(f, G \cup R) = SumFunctionOnSet(f, G) + SumFunctionOnSet(f, R)
      BY <3>1, SumUnion
    <3> QED
      BY <3>2, <3>3 DEF R
  <2>9. g[v] = SumFunctionOnSet(f, G)
    BY <2>4
  <2>10. SumFunctionOnSet(g, W) = SumFunctionOnSet(f, Of(W))
    BY <2>6, <2>7, <2>8, <2>9
  <2> QED
    BY <2>1, <2>10
<1>4. SumFunctionOnSet(g, V) = SumFunctionOnSet(f, Of(V))
  BY <1>3
<1>5. Of(V) = S
  OBVIOUS
<1> QED
  BY <1>4, <1>5

(* COUNT is the sum of ones. *)
LEMMA CountIsSum ==
  ASSUME NEW S, IsFiniteSet(S), NEW one, \A x \in S : one[x] = 1
  PROVE  Cardinality(S) = SumFunctionOnSet(one, S)
<1> DEFINE B == {T \in SUBSET S : Cardinality(T) # SumFunctionOnSet(one, T)}
<1> SUFFICES ASSUME B # {} PROVE FALSE
  OBVIOUS
<1>1. PICK T \in B : \A U \in B : U \subseteq T => U = T
  <2>1. B \in SUBSET (SUBSET S)
    OBVIOUS
  <2> HIDE DEF B
  <2> QED
    BY <2>1, SmallestSubset
<1>2. T # {}
  BY SumEmpty, FS_EmptySet
<1>3. PICK x \in T : TRUE
  BY <1>2
<1> DEFINE U == T \ {x}
<1>4. T \in SUBSET S /\ IsFiniteSet(T) /\ U \in SUBSET S /\ U \subseteq T /\ U # T
  BY <1>3, FS_Subset
<1>5. Cardinality(U) = SumFunctionOnSet(one, U)
  BY <1>1, <1>4
<1>6. Cardinality(U) = Cardinality(T) - 1 /\ Cardinality(T) \in Int
  <2>1. Cardinality(T) \in Nat
    BY <1>4, FS_CardinalityType
  <2>2. Cardinality(U) = Cardinality(T) - 1
    BY <1>3, <1>4, FS_RemoveElement
  <2> QED
    BY <2>1, <2>2
<1>7. SumFunctionOnSet(one, T) = one[x] + SumFunctionOnSet(one, U) /\ one[x] = 1
  BY <1>3, <1>4, SumRemove
<1>8. Cardinality(T) # SumFunctionOnSet(one, T)
  BY <1>1
<1>9. PICK n \in Int : n = Cardinality(T)
  BY <1>6
<1> HIDE DEF U, B
<1>10. SumFunctionOnSet(one, T) = 1 + (n - 1)
  BY <1>5, <1>6, <1>7, <1>9
<1>11. 1 + (n - 1) = n
  OBVIOUS
<1> QED
  BY <1>8, <1>9, <1>10, <1>11

-----------------------------------------------------------------------------
(* Loops: inductions over the records of a list, by the first one that     *)
(* breaks what is claimed.                                                 *)

LEMMA LeastNumber ==
  ASSUME NEW T \in SUBSET Nat, T # {}
  PROVE  \E n \in T : \A m \in T : n <= m
<1>1. IsWellFoundedOn(OpToRel(<, Nat), Nat)
  BY NatLessThanWellFounded
<1>2. PICK n \in T : \A m \in T : ~ (<<m, n>> \in OpToRel(<, Nat))
  BY <1>1, WFMin
<1>3. \A m \in T : ~ (m < n)
  BY <1>2 DEF OpToRel
<1> QED
  BY <1>3

(* Induction up to n, for a set of numbers. *)
LEMMA Upto ==
  ASSUME NEW n \in Nat, NEW S, 0 \in S, \A i \in 1 .. n : i - 1 \in S => i \in S
  PROVE  \A i \in 0 .. n : i \in S
<1> DEFINE T == {i \in 0 .. n : i \notin S}
<1> SUFFICES ASSUME T # {} PROVE FALSE
  OBVIOUS
<1>1. PICK i \in T : \A m \in T : i <= m
  <2>1. T \in SUBSET Nat
    OBVIOUS
  <2> HIDE DEF T
  <2> QED
    BY <2>1, LeastNumber
<1>2. i \in 1 .. n /\ i - 1 \in 0 .. n
  BY <1>1
<1>3. i - 1 \in S
  BY <1>1, <1>2
<1> QED
  BY <1>1, <1>2, <1>3

(* A sum over elements that are zero outside a part is the sum of the part. *)
LEMMA SumWithin ==
  ASSUME NEW T, IsFiniteSet(T), NEW S \in SUBSET T, NEW f,
         \A x \in S : f[x] \in Int, \A x \in T \ S : f[x] = 0
  PROVE  SumFunctionOnSet(f, T) = SumFunctionOnSet(f, S)
<1> DEFINE R == T \ S
<1>1. IsFiniteSet(S) /\ IsFiniteSet(R) /\ S \cap R = {} /\ S \cup R = T
  <2>1. S \in SUBSET T /\ R \in SUBSET T
    OBVIOUS
  <2> QED
    BY <2>1, FS_Subset
<1>2. \A x \in S \cup R : f[x] \in Int
  OBVIOUS
<1>3. SumFunctionOnSet(f, R) = 0
  BY <1>1, SumZero
<1>4. SumFunctionOnSet(f, S) \in Int
  BY <1>1, SumType
<1> HIDE DEF R
<1>5. SumFunctionOnSet(f, S \cup R) = SumFunctionOnSet(f, S) + SumFunctionOnSet(f, R)
  BY <1>1, <1>2, SumUnion
<1>6. PICK n \in Int : n = SumFunctionOnSet(f, S)
  BY <1>4
<1>7. SumFunctionOnSet(f, S \cup R) = n + 0
  BY <1>3, <1>5, <1>6
<1>8. n + 0 = n
  OBVIOUS
<1>9. S \cup R = T
  BY <1>1
<1> QED
  BY <1>6, <1>7, <1>8, <1>9, Zenon

(* The sum of one amount. *)
LEMMA SumOfOne ==
  ASSUME NEW x, NEW f, f[x] \in Int
  PROVE  SumFunctionOnSet(f, {x}) = f[x]
<1>1. IsFiniteSet({x}) /\ {x} \ {x} = {} /\ \A y \in {x} : f[y] \in Int
  BY FS_Singleton
<1>2. SumFunctionOnSet(f, {x}) = f[x] + SumFunctionOnSet(f, {x} \ {x})
  BY <1>1, SumRemove
<1>3. SumFunctionOnSet(f, {x} \ {x}) = 0
  BY <1>1, SumEmpty
<1>4. PICK n \in Int : n = f[x]
  OBVIOUS
<1> QED
  BY <1>2, <1>3, <1>4

(* ANOTHER NUMBERING. Amounts add up the same under other names. *)
LEMMA SumRenamed ==
  ASSUME NEW S, IsFiniteSet(S), NEW f, \A x \in S : f[x] \in Int,
         NEW k, \A x, y \in S : k[x] = k[y] => x = y,
         NEW g, \A x \in S : g[k[x]] = f[x]
  PROVE  SumFunctionOnSet(g, GroupKeys(k, S)) = SumFunctionOnSet(f, S)
<1>1. ASSUME NEW v \in GroupKeys(k, S)
      PROVE  g[v] = SumFunctionOnSet(f, GroupOf(k, S, v))
  <2>1. PICK x \in S : v = k[x]
    BY DEF GroupKeys
  <2>2. GroupOf(k, S, v) = {x}
    BY <2>1 DEF GroupOf
  <2>3. SumFunctionOnSet(f, {x}) = f[x]
    BY SumOfOne
  <2> QED
    BY <2>1, <2>2, <2>3
<1> QED
  BY <1>1, SumOfGroups

(* A sum of equal amounts. *)
LEMMA SumOfEqual ==
  ASSUME NEW S, IsFiniteSet(S), NEW n \in Int, NEW f, \A x \in S : f[x] = n
  PROVE  SumFunctionOnSet(f, S) = n * Cardinality(S)
<1> DEFINE B == {T \in SUBSET S : SumFunctionOnSet(f, T) # n * Cardinality(T)}
<1> SUFFICES ASSUME B # {} PROVE FALSE
  OBVIOUS
<1>1. PICK T \in B : \A U \in B : U \subseteq T => U = T
  <2>1. B \in SUBSET (SUBSET S)
    OBVIOUS
  <2> HIDE DEF B
  <2> QED
    BY <2>1, SmallestSubset
<1>2. T # {}
  BY SumEmpty, FS_EmptySet
<1>3. PICK x \in T : TRUE
  BY <1>2
<1> DEFINE U == T \ {x}
<1>4. T \in SUBSET S /\ IsFiniteSet(T) /\ U \in SUBSET S /\ U \subseteq T /\ U # T /\ IsFiniteSet(U)
  BY <1>3, FS_Subset
<1>5. SumFunctionOnSet(f, U) = n * Cardinality(U)
  BY <1>1, <1>4
<1>6. PICK c \in Nat : c = Cardinality(U)
  BY <1>4, FS_CardinalityType
<1>7. Cardinality(T) = c + 1
  <2>1. Cardinality(U) = Cardinality(T) - 1 /\ Cardinality(T) \in Nat
    BY <1>3, <1>4, FS_RemoveElement, FS_CardinalityType
  <2> HIDE DEF U
  <2> QED
    BY <1>6, <2>1
<1>8. SumFunctionOnSet(f, T) = f[x] + SumFunctionOnSet(f, U) /\ f[x] = n
  BY <1>3, <1>4, SumRemove
<1>9. SumFunctionOnSet(f, T) # n * Cardinality(T)
  BY <1>1
<1> HIDE DEF U, B
<1>10. SumFunctionOnSet(f, T) = n + n * c
  BY <1>5, <1>6, <1>8
<1>11. n * (c + 1) = n + n * c
  OBVIOUS
<1> QED
  BY <1>7, <1>9, <1>10, <1>11
=============================================================================
