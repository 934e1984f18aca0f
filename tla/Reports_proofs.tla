--------------------------- MODULE Reports_proofs ---------------------------
(***************************************************************************)
(* What the analytics say is right for every history of an account: any    *)
(* number of transactions, bets, corrections and moments, and any period,  *)
(* grouping and buckets the endpoints accept.                              *)
(***************************************************************************)
EXTENDS Reports, Payout_proofs, SequenceTheorems

ByHand == {i \in DOMAIN journal : journal[i].type \in {"DEPOSIT", "WITHDRAWAL"}}

(* A pending bet was paid nothing; a settled one has its time.  A stake is *)
(* taken from a balance that covers it.                                    *)
BetsAreRight ==
  \A b \in DOMAIN bets :
    /\ bets[b].stake <= bets[b].before
    /\ bets[b].status = "PENDING" => bets[b].payout = 0 /\ bets[b].settledAt = NoTime
    /\ bets[b].status \in Results => bets[b].settledAt \in 0 .. now

(* The journal is in the order of time, and has no row of the future. *)
JournalIsInOrder ==
  /\ \A i \in DOMAIN journal : journal[i].at <= now
  /\ \A i, j \in DOMAIN journal : i <= j => journal[i].at <= journal[j].at

(* The two tables agree, bet by bet: each moved the balance by its payout  *)
(* less its stake.                                                         *)
BooksAgree ==
  balance = CentsOf(journal, ByHand) + PaidOut(DOMAIN bets) - Staked(DOMAIN bets)

(* The inductive invariant. *)
RInv ==
  /\ TypeOK
  /\ BetsAreRight
  /\ JournalIsInOrder
  /\ BooksAgree

-----------------------------------------------------------------------------
(* Sums over the rows of a table. *)

LEMMA RowsAreFinite ==
  ASSUME NEW S, NEW rows \in Seq(S), NEW I \in SUBSET DOMAIN rows
  PROVE  IsFiniteSet(I) /\ I \subseteq Nat
<1>1. DOMAIN rows = 1 .. Len(rows) /\ Len(rows) \in Nat
  OBVIOUS
<1>2. IsFiniteSet(DOMAIN rows)
  BY <1>1, FS_Interval
<1> QED
  BY <1>1, <1>2, FS_Subset

LEMMA RowFields ==
  ASSUME NEW rows \in Seq(Row), NEW i \in DOMAIN rows
  PROVE  /\ rows[i] \in Row /\ rows[i].amount \in Int /\ rows[i].at \in Nat
         /\ [j \in DOMAIN rows |-> rows[j].amount][i] = rows[i].amount
<1>1. rows[i] \in Row
  OBVIOUS
<1>2. rows[i].amount \in Int /\ rows[i].at \in Nat
  BY <1>1 DEF Row
<1> QED
  BY <1>1, <1>2

LEMMA CentsType ==
  ASSUME NEW rows \in Seq(Row), NEW I \in SUBSET DOMAIN rows
  PROVE  CentsOf(rows, I) \in Int
<1> DEFINE f == [i \in DOMAIN rows |-> rows[i].amount]
<1>1. \A i \in I : f[i] \in Int
  BY RowFields
<1>2. SumFunctionOnSet(f, I) \in Int
  BY <1>1, RowsAreFinite, SumType
<1> QED
  BY <1>2 DEF CentsOf

LEMMA CentsUnion ==
  ASSUME NEW rows \in Seq(Row), NEW I \in SUBSET DOMAIN rows, NEW J \in SUBSET DOMAIN rows,
         I \cap J = {}
  PROVE  CentsOf(rows, I \cup J) = CentsOf(rows, I) + CentsOf(rows, J)
<1> DEFINE f == [i \in DOMAIN rows |-> rows[i].amount]
<1>1. \A i \in I \cup J : f[i] \in Int
  BY RowFields
<1>2. IsFiniteSet(I) /\ IsFiniteSet(J)
  BY RowsAreFinite
<1> HIDE DEF f
<1>3. SumFunctionOnSet(f, I \cup J) = SumFunctionOnSet(f, I) + SumFunctionOnSet(f, J)
  BY <1>1, <1>2, SumUnion
<1> QED
  BY <1>3 DEF CentsOf, f

LEMMA CentsOfOne ==
  ASSUME NEW rows \in Seq(Row), NEW i \in DOMAIN rows
  PROVE  CentsOf(rows, {i}) = rows[i].amount
<1> DEFINE f == [j \in DOMAIN rows |-> rows[j].amount]
<1>1. f[i] = rows[i].amount /\ f[i] \in Int
  BY RowFields
<1>2. IsFiniteSet({i}) /\ \A j \in {i} : f[j] \in Int
  BY <1>1, FS_Singleton
<1>3. {i} \ {i} = {}
  OBVIOUS
<1> HIDE DEF f
<1>4. SumFunctionOnSet(f, {i}) = f[i] + SumFunctionOnSet(f, {i} \ {i})
  BY <1>2, SumRemove
<1>5. SumFunctionOnSet(f, {i}) = f[i] + 0
  BY <1>3, <1>4, SumEmpty
<1>6. SumFunctionOnSet(f, {i}) = rows[i].amount
  BY <1>1, <1>5
<1> QED
  BY <1>6 DEF CentsOf, f

LEMMA CentsOfNone ==
  ASSUME NEW rows
  PROVE  CentsOf(rows, {}) = 0
BY SumEmpty DEF CentsOf

(* Rows that two journals share have the same sum in both. *)
LEMMA CentsSame ==
  ASSUME NEW rows \in Seq(Row), NEW more \in Seq(Row), NEW I \in SUBSET DOMAIN rows,
         I \subseteq DOMAIN more, \A i \in I : more[i] = rows[i]
  PROVE  CentsOf(more, I) = CentsOf(rows, I)
<1> DEFINE f == [i \in DOMAIN rows |-> rows[i].amount]
           g == [i \in DOMAIN more |-> more[i].amount]
<1>1. \A i \in I : g[i] = f[i]
  OBVIOUS
<1>2. SumFunctionOnSet(g, I) = SumFunctionOnSet(f, I)
  BY <1>1, RowsAreFinite, SumSame
<1> QED
  BY <1>2 DEF CentsOf

LEMMA RowAppended ==
  ASSUME NEW rows \in Seq(Row), NEW row \in Row
  PROVE  /\ Append(rows, row) \in Seq(Row)
         /\ Len(rows) \in Nat /\ Len(Append(rows, row)) = Len(rows) + 1
         /\ DOMAIN rows = 1 .. Len(rows)
         /\ DOMAIN Append(rows, row) = DOMAIN rows \cup {Len(rows) + 1}
         /\ Len(rows) + 1 \notin DOMAIN rows
         /\ \A i \in DOMAIN rows : Append(rows, row)[i] = rows[i]
         /\ Append(rows, row)[Len(rows) + 1] = row
OBVIOUS

(* The last row posted is added last. *)
LEMMA CentsAppend ==
  ASSUME NEW rows \in Seq(Row), NEW row \in Row, NEW I \in SUBSET DOMAIN rows
  PROVE  /\ CentsOf(Append(rows, row), I) = CentsOf(rows, I)
         /\ CentsOf(Append(rows, row), I \cup {Len(rows) + 1}) = CentsOf(rows, I) + row.amount
<1>1. PICK more : more = Append(rows, row)
  OBVIOUS
<1>2. PICK last : last = Len(rows) + 1
  OBVIOUS
<1>3. /\ more \in Seq(Row) /\ last \in DOMAIN more
      /\ \A i \in I : more[i] = rows[i]
      /\ more[last] = row
      /\ I \in SUBSET DOMAIN more /\ {last} \in SUBSET DOMAIN more /\ I \cap {last} = {}
  BY <1>1, <1>2, RowAppended
<1>4. CentsOf(more, I) = CentsOf(rows, I)
  BY <1>3, CentsSame
<1>5. CentsOf(more, {last}) = row.amount
  BY <1>3, CentsOfOne
<1>6. CentsOf(more, I \cup {last}) = CentsOf(more, I) + CentsOf(more, {last})
  BY <1>3, CentsUnion
<1> QED
  BY <1>1, <1>2, <1>4, <1>5, <1>6

-----------------------------------------------------------------------------
(* Sums over bets. *)

LEMMA BetFields ==
  ASSUME NEW row \in BetRow
  PROVE  /\ row.stake \in Nat \ {0} /\ row.before \in Nat /\ row.payout \in Nat
         /\ row.terms \in Terms /\ row.stake \in Stakes
         /\ row.status \in Results \cup {"PENDING"}
         /\ row.settledAt \in Nat \cup {NoTime}
BY ReportsAssumption DEF BetRow

StakeOf == [b \in DOMAIN bets |-> bets[b].stake]
PayoutOf == [b \in DOMAIN bets |-> bets[b].payout]

LEMMA BetsAreSummed ==
  ASSUME TypeOK, NEW B \in SUBSET DOMAIN bets
  PROVE  /\ IsFiniteSet(B)
         /\ \A b \in B : StakeOf[b] = bets[b].stake /\ PayoutOf[b] = bets[b].payout
         /\ \A b \in B : StakeOf[b] \in Int /\ PayoutOf[b] \in Int
         /\ Staked(B) = SumFunctionOnSet(StakeOf, B) /\ PaidOut(B) = SumFunctionOnSet(PayoutOf, B)
         /\ Staked(B) \in Int /\ PaidOut(B) \in Int /\ NetProfit(B) = PaidOut(B) - Staked(B)
<1>1. IsFiniteSet(B)
  BY RowsAreFinite DEF TypeOK
<1>2. \A b \in B : StakeOf[b] = bets[b].stake /\ PayoutOf[b] = bets[b].payout
  BY DEF StakeOf, PayoutOf
<1>3. \A b \in B : StakeOf[b] \in Int /\ PayoutOf[b] \in Int
  <2> SUFFICES ASSUME NEW b \in B PROVE StakeOf[b] \in Int /\ PayoutOf[b] \in Int
    OBVIOUS
  <2>1. bets[b] \in BetRow
    BY DEF TypeOK
  <2> QED
    BY <1>2, <2>1, BetFields
<1>4. Staked(B) = SumFunctionOnSet(StakeOf, B) /\ PaidOut(B) = SumFunctionOnSet(PayoutOf, B)
  BY DEF Staked, PaidOut, StakeOf, PayoutOf
<1>5. Staked(B) \in Int /\ PaidOut(B) \in Int
  BY <1>1, <1>3, <1>4, SumType
<1> QED
  BY <1>1, <1>2, <1>3, <1>4, <1>5 DEF NetProfit

LEMMA BetsUnion ==
  ASSUME TypeOK, NEW B \in SUBSET DOMAIN bets, NEW C \in SUBSET DOMAIN bets, B \cap C = {}
  PROVE  /\ Staked(B \cup C) = Staked(B) + Staked(C)
         /\ PaidOut(B \cup C) = PaidOut(B) + PaidOut(C)
         /\ NetProfit(B \cup C) = NetProfit(B) + NetProfit(C)
         /\ Cardinality(B \cup C) = Cardinality(B) + Cardinality(C)
<1>1. B \cup C \in SUBSET DOMAIN bets
  OBVIOUS
<1>2. IsFiniteSet(B) /\ IsFiniteSet(C)
  BY BetsAreSummed
<1>3. \A b \in B \cup C : StakeOf[b] \in Int /\ PayoutOf[b] \in Int
  BY <1>1, BetsAreSummed
<1>4. SumFunctionOnSet(StakeOf, B \cup C) = SumFunctionOnSet(StakeOf, B) + SumFunctionOnSet(StakeOf, C)
  BY <1>2, <1>3, SumUnion
<1>5. SumFunctionOnSet(PayoutOf, B \cup C) = SumFunctionOnSet(PayoutOf, B) + SumFunctionOnSet(PayoutOf, C)
  BY <1>2, <1>3, SumUnion
<1>6. Staked(B \cup C) = Staked(B) + Staked(C) /\ PaidOut(B \cup C) = PaidOut(B) + PaidOut(C)
  BY <1>1, <1>4, <1>5, BetsAreSummed
<1>7. NetProfit(B \cup C) = NetProfit(B) + NetProfit(C)
  <2>1. /\ Staked(B) \in Int /\ Staked(C) \in Int /\ PaidOut(B) \in Int /\ PaidOut(C) \in Int
        /\ NetProfit(B) = PaidOut(B) - Staked(B) /\ NetProfit(C) = PaidOut(C) - Staked(C)
        /\ NetProfit(B \cup C) = PaidOut(B \cup C) - Staked(B \cup C)
    BY <1>1, BetsAreSummed
  <2> QED
    BY <1>6, <2>1
<1>8. Cardinality(B \cup C) = Cardinality(B) + Cardinality(C)
  <2>1. Cardinality(B \cup C) = Cardinality(B) + Cardinality(C) - Cardinality(B \cap C)
    BY <1>2, FS_Union
  <2>2. Cardinality(B \cap C) = 0
    BY FS_EmptySet
  <2>3. PICK m \in Nat, n \in Nat : m = Cardinality(B) /\ n = Cardinality(C)
    BY <1>2, FS_CardinalityType
  <2>4. Cardinality(B \cup C) = m + n - 0
    BY <2>1, <2>2, <2>3
  <2>5. m + n - 0 = m + n
    OBVIOUS
  <2> QED
    BY <2>3, <2>4, <2>5
<1> QED
  BY <1>6, <1>7, <1>8

-----------------------------------------------------------------------------
(* Steps.  What a request posts, and what it means for the sums. *)

LEMMA PostedRow ==
  ASSUME TypeOK, NEW type \in TransactionTypes, NEW amount \in Int
  PROVE  /\ Posting(type, amount) \in Row
         /\ Posting(type, amount).type = type /\ Posting(type, amount).at = now
         /\ Posting(type, amount).amount = amount
BY DEF TypeOK, Posting, Row

LEMMA EmptyJournal ==
  /\ <<>> \in Seq(Row)
  /\ DOMAIN <<>> = {}
  /\ CentsOf(<<>>, DOMAIN <<>>) = 0
<1>1. <<>> \in Seq(Row) /\ DOMAIN <<>> = {}
  OBVIOUS
<1> QED
  BY <1>1, CentsOfNone

(* The rows one request posts. *)
Posted(rows, types) ==
  /\ rows \in Seq(Row)
  /\ \A i \in DOMAIN rows : rows[i].at = now /\ rows[i].type \in types

LEMMA PostOne ==
  ASSUME TypeOK, NEW type \in TransactionTypes, NEW amount \in Int, NEW rows, rows = Post(type, amount)
  PROVE  /\ Posted(rows, {type})
         /\ CentsOf(rows, DOMAIN rows) = amount
         /\ amount = 0 => rows = <<>>
         /\ amount # 0 => rows = <<Posting(type, amount)>>
<1>1. CASE amount = 0
  <2>1. rows = <<>>
    BY <1>1 DEF Post
  <2> QED
    BY <1>1, <2>1, EmptyJournal DEF Posted
<1>2. CASE amount # 0
  <2>1. PICK row \in Row : row = Posting(type, amount) /\ row.type = type /\ row.at = now /\ row.amount = amount
    BY PostedRow
  <2>2. rows = <<row>>
    BY <1>2, <2>1 DEF Post
  <2>3. <<row>> \in Seq(Row) /\ DOMAIN <<row>> = {1} /\ <<row>>[1] = row
    OBVIOUS
  <2>4. CentsOf(<<row>>, {1}) = amount
    BY <2>1, <2>3, CentsOfOne
  <2> QED
    BY <1>2, <2>1, <2>2, <2>3, <2>4 DEF Posted
<1> QED
  BY <1>1, <1>2

LEMMA PostMore ==
  ASSUME NEW types, NEW q \in Seq(Row), Posted(q, types),
         NEW row \in Row, row.at = now, row.type \in types
  PROVE  /\ Posted(Append(q, row), types)
         /\ CentsOf(Append(q, row), DOMAIN Append(q, row)) = CentsOf(q, DOMAIN q) + row.amount
<1>1. /\ Append(q, row) \in Seq(Row)
      /\ DOMAIN Append(q, row) = DOMAIN q \cup {Len(q) + 1}
      /\ \A i \in DOMAIN q : Append(q, row)[i] = q[i]
      /\ Append(q, row)[Len(q) + 1] = row
  BY RowAppended
<1>2. CentsOf(Append(q, row), DOMAIN q \cup {Len(q) + 1}) = CentsOf(q, DOMAIN q) + row.amount
  <2>1. DOMAIN q \in SUBSET DOMAIN q
    OBVIOUS
  <2> QED
    BY <2>1, CentsAppend
<1>3. Posted(Append(q, row), types)
  BY <1>1 DEF Posted
<1> QED
  BY <1>1, <1>2, <1>3

LEMMA PostTwo ==
  ASSUME TypeOK, NEW a \in Int, NEW c \in Int, NEW rows,
         rows = Post("ADJUSTMENT", a) \o Post("WAGER_PAYOUT", c)
  PROVE  /\ Posted(rows, {"ADJUSTMENT", "WAGER_PAYOUT"})
         /\ CentsOf(rows, DOMAIN rows) = a + c
<1>1. PICK r : r = Post("ADJUSTMENT", a)
  OBVIOUS
<1>2. PICK s : s = Post("WAGER_PAYOUT", c)
  OBVIOUS
<1>3. /\ Posted(r, {"ADJUSTMENT"}) /\ CentsOf(r, DOMAIN r) = a
      /\ a = 0 => r = <<>>
  <2>1. PICK type \in TransactionTypes : type = "ADJUSTMENT"
    BY DEF TransactionTypes
  <2>2. r = Post(type, a)
    BY <1>1, <2>1
  <2> QED
    BY <2>1, <2>2, PostOne
<1>4. /\ Posted(s, {"WAGER_PAYOUT"}) /\ CentsOf(s, DOMAIN s) = c
      /\ c = 0 => s = <<>>
      /\ c # 0 => s = <<Posting("WAGER_PAYOUT", c)>>
  <2>1. PICK type \in TransactionTypes : type = "WAGER_PAYOUT"
    BY DEF TransactionTypes
  <2>2. s = Post(type, c)
    BY <1>2, <2>1
  <2> QED
    BY <2>1, <2>2, PostOne
<1>5. rows = r \o s /\ r \in Seq(Row) /\ s \in Seq(Row)
  BY <1>1, <1>2, <1>3, <1>4 DEF Posted
<1>6. CASE a = 0
  <2>1. rows = s
    <3>1. r = <<>>
      BY <1>3, <1>6
    <3> QED
      BY <1>5, <3>1, EmptySeq, ConcatEmptySeq
  <2>2. a + c = c
    BY <1>6
  <2> QED
    BY <1>4, <2>1, <2>2 DEF Posted
<1>7. CASE c = 0
  <2>1. rows = r
    <3>1. s = <<>>
      BY <1>4, <1>7
    <3> QED
      BY <1>5, <3>1, ConcatEmptySeq
  <2>2. a + c = a
    BY <1>7
  <2> QED
    BY <1>3, <2>1, <2>2 DEF Posted
<1>8. CASE a # 0 /\ c # 0
  <2>1. PICK row \in Row : row = Posting("WAGER_PAYOUT", c) /\ row.type = "WAGER_PAYOUT" /\ row.at = now /\ row.amount = c
    BY PostedRow DEF TransactionTypes
  <2>2. s = <<row>>
    BY <1>4, <1>8, <2>1
  <2>3. rows = Append(r, row)
    BY <1>5, <2>2, AppendIsConcat
  <2>4. Posted(r, {"ADJUSTMENT", "WAGER_PAYOUT"})
    BY <1>3 DEF Posted
  <2>5. /\ Posted(rows, {"ADJUSTMENT", "WAGER_PAYOUT"})
        /\ CentsOf(rows, DOMAIN rows) = CentsOf(r, DOMAIN r) + row.amount
    <3>1. row.at = now /\ row.type \in {"ADJUSTMENT", "WAGER_PAYOUT"}
      BY <2>1
    <3>2. /\ Posted(Append(r, row), {"ADJUSTMENT", "WAGER_PAYOUT"})
          /\ CentsOf(Append(r, row), DOMAIN Append(r, row)) = CentsOf(r, DOMAIN r) + row.amount
      BY <1>5, <2>4, <3>1, PostMore
    <3> QED
      BY <2>3, <3>2
  <2> QED
    BY <1>3, <2>1, <2>5
<1> QED
  BY <1>6, <1>7, <1>8

(* A journal that rows of the present moment were added to. *)
LEMMA JournalGrows ==
  ASSUME TypeOK, JournalIsInOrder, NEW types, NEW rows, Posted(rows, types),
         journal' = journal \o rows, now' = now
  PROVE  /\ journal' \in Seq(Row)
         /\ DOMAIN journal \subseteq DOMAIN journal'
         /\ \A i \in DOMAIN journal : journal'[i] = journal[i]
         /\ \A i \in DOMAIN journal' \ DOMAIN journal :
              journal'[i].at = now /\ journal'[i].type \in types
         /\ JournalIsInOrder'
<1>1. rows \in Seq(Row) /\ journal \in Seq(Row) /\ now \in Nat
  BY DEF Posted, TypeOK
<1>2. /\ journal' \in Seq(Row) /\ Len(journal') = Len(journal) + Len(rows)
      /\ Len(journal) \in Nat /\ Len(rows) \in Nat
      /\ DOMAIN journal = 1 .. Len(journal) /\ DOMAIN journal' = 1 .. Len(journal')
      /\ DOMAIN rows = 1 .. Len(rows)
  BY <1>1
<1>3. \A i \in DOMAIN journal : journal'[i] = journal[i]
  BY <1>1, <1>2
<1>4. \A i \in DOMAIN journal' \ DOMAIN journal :
        i - Len(journal) \in DOMAIN rows /\ journal'[i] = rows[i - Len(journal)]
  BY <1>1, <1>2
<1>5. \A i \in DOMAIN journal' \ DOMAIN journal :
        journal'[i].at = now /\ journal'[i].type \in types
  BY <1>4 DEF Posted
<1>6. \A i \in DOMAIN journal' : journal'[i].at <= now
  <2>1. now <= now
    BY <1>1
  <2> QED
    BY <1>3, <1>5, <2>1 DEF JournalIsInOrder
<1>7. ASSUME NEW i \in DOMAIN journal', NEW j \in DOMAIN journal', i <= j
      PROVE  journal'[i].at <= journal'[j].at
  <2>1. CASE j \in DOMAIN journal
    <3>1. i \in DOMAIN journal
      BY <1>2, <1>7, <2>1
    <3> QED
      BY <1>3, <1>7, <2>1, <3>1 DEF JournalIsInOrder
  <2>2. CASE j \notin DOMAIN journal
    BY <1>5, <1>6, <2>2
  <2> QED
    BY <2>1, <2>2
<1> QED
  BY <1>2, <1>3, <1>5, <1>6, <1>7 DEF JournalIsInOrder

(* The rows made by hand, when none of the new ones is. *)
LEMMA SameByHand ==
  ASSUME TypeOK, JournalIsInOrder, NEW types, types \cap {"DEPOSIT", "WITHDRAWAL"} = {},
         NEW rows, Posted(rows, types), journal' = journal \o rows, now' = now
  PROVE  CentsOf(journal, ByHand)' = CentsOf(journal, ByHand)
<1>1. /\ journal' \in Seq(Row)
      /\ DOMAIN journal \subseteq DOMAIN journal'
      /\ \A i \in DOMAIN journal : journal'[i] = journal[i]
      /\ \A i \in DOMAIN journal' \ DOMAIN journal : journal'[i].type \in types
  BY JournalGrows
<1>2. ByHand' = ByHand
  BY <1>1 DEF ByHand
<1>3. ByHand \in SUBSET DOMAIN journal /\ journal \in Seq(Row)
  BY DEF ByHand, TypeOK
<1>4. PICK I \in SUBSET DOMAIN journal : I = ByHand
  BY <1>3
<1>5. PICK more \in Seq(Row) : more = journal'
  BY <1>1
<1>6. CentsOf(more, I) = CentsOf(journal, I)
  <2>1. \A i \in I : i \in DOMAIN journal
    BY <1>4
  <2>2. \A i \in I : i \in DOMAIN more /\ more[i] = journal[i]
    BY <1>1, <1>5, <2>1
  <2>3. I \in SUBSET DOMAIN journal /\ I \subseteq DOMAIN more
    BY <1>4, <2>2
  <2> QED
    BY <1>3, <2>2, <2>3, CentsSame
<1>7. CentsOf(journal, ByHand)' = CentsOf(more, I)
  BY <1>2, <1>4, <1>5 DEF CentsOf
<1> QED
  BY <1>4, <1>6, <1>7

LEMMA SumExtended ==
  ASSUME NEW D, IsFiniteSet(D), NEW n, n \notin D, NEW f, \A b \in D : f[b] \in Int,
         NEW g, \A b \in D : g[b] = f[b], g[n] \in Int
  PROVE  SumFunctionOnSet(g, D \cup {n}) = SumFunctionOnSet(f, D) + g[n]
<1>1. IsFiniteSet(D \cup {n}) /\ (D \cup {n}) \ {n} = D
  BY FS_AddElement
<1>2. \A b \in D \cup {n} : g[b] \in Int
  OBVIOUS
<1>3. SumFunctionOnSet(g, D \cup {n}) = g[n] + SumFunctionOnSet(g, (D \cup {n}) \ {n})
  BY <1>1, <1>2, SumRemove
<1>4. SumFunctionOnSet(g, D) = SumFunctionOnSet(f, D)
  BY SumSame
<1>5. PICK x \in Int : x = SumFunctionOnSet(f, D)
  BY SumType
<1>6. PICK y \in Int : y = g[n]
  OBVIOUS
<1>7. SumFunctionOnSet(g, D \cup {n}) = y + x
  BY <1>1, <1>3, <1>4, <1>5, <1>6
<1>8. y + x = x + y
  OBVIOUS
<1> QED
  BY <1>5, <1>6, <1>7, <1>8

LEMMA BetPlaced ==
  ASSUME TypeOK, NEW row \in BetRow, bets' = Append(bets, row)
  PROVE  /\ bets' \in Seq(BetRow)
         /\ DOMAIN bets' = DOMAIN bets \cup {Len(bets) + 1} /\ Len(bets) + 1 \notin DOMAIN bets
         /\ \A b \in DOMAIN bets : bets'[b] = bets[b]
         /\ bets'[Len(bets) + 1] = row
         /\ Staked(DOMAIN bets)' = Staked(DOMAIN bets) + row.stake
         /\ PaidOut(DOMAIN bets)' = PaidOut(DOMAIN bets) + row.payout
<1>1. bets \in Seq(BetRow) /\ Len(bets) \in Nat
  BY DEF TypeOK
<1>2. PICK n : n = Len(bets) + 1
  OBVIOUS
<1>3. /\ bets' \in Seq(BetRow)
      /\ DOMAIN bets' = DOMAIN bets \cup {n} /\ n \notin DOMAIN bets
      /\ \A b \in DOMAIN bets : bets'[b] = bets[b]
      /\ bets'[n] = row
  BY <1>1, <1>2
<1>4. PICK D : D = DOMAIN bets
  OBVIOUS
<1>5. IsFiniteSet(D) /\ \A b \in D : StakeOf[b] \in Int /\ PayoutOf[b] \in Int
  BY <1>4, BetsAreSummed
<1>6. PICK f, g : f = StakeOf' /\ g = PayoutOf'
  OBVIOUS
<1>7. row.stake \in Int /\ row.payout \in Int
  BY BetFields
<1>8. /\ \A b \in D : f[b] = StakeOf[b] /\ g[b] = PayoutOf[b]
      /\ f[n] = row.stake /\ g[n] = row.payout
  BY <1>3, <1>4, <1>6 DEF StakeOf, PayoutOf
<1>9. /\ n \notin D /\ f[n] \in Int /\ g[n] \in Int
      /\ \A b \in D : f[b] = StakeOf[b]
      /\ \A b \in D : g[b] = PayoutOf[b]
      /\ IsFiniteSet(D)
      /\ \A b \in D : StakeOf[b] \in Int
      /\ \A b \in D : PayoutOf[b] \in Int
  BY <1>3, <1>4, <1>5, <1>7, <1>8
<1>10. /\ SumFunctionOnSet(f, D \cup {n}) = SumFunctionOnSet(StakeOf, D) + row.stake
       /\ SumFunctionOnSet(g, D \cup {n}) = SumFunctionOnSet(PayoutOf, D) + row.payout
  <2>1. PICK h, k : h = StakeOf /\ k = PayoutOf
    OBVIOUS
  <2>2. SumFunctionOnSet(f, D \cup {n}) = SumFunctionOnSet(h, D) + f[n]
    BY <1>9, <2>1, SumExtended
  <2>3. SumFunctionOnSet(g, D \cup {n}) = SumFunctionOnSet(k, D) + g[n]
    BY <1>9, <2>1, SumExtended
  <2> QED
    BY <1>8, <2>1, <2>2, <2>3
<1>11. /\ Staked(DOMAIN bets)' = SumFunctionOnSet(f, D \cup {n})
       /\ PaidOut(DOMAIN bets)' = SumFunctionOnSet(g, D \cup {n})
  BY <1>3, <1>4, <1>6 DEF Staked, PaidOut, StakeOf, PayoutOf
<1>12. /\ Staked(DOMAIN bets) = SumFunctionOnSet(StakeOf, D)
       /\ PaidOut(DOMAIN bets) = SumFunctionOnSet(PayoutOf, D)
  BY <1>4, BetsAreSummed
<1> QED
  BY <1>2, <1>3, <1>10, <1>11, <1>12

LEMMA BetSettled ==
  ASSUME TypeOK, NEW a \in DOMAIN bets, NEW row \in BetRow, row.stake = bets[a].stake,
         bets' = [bets EXCEPT ![a] = row]
  PROVE  /\ bets' \in Seq(BetRow) /\ DOMAIN bets' = DOMAIN bets
         /\ \A b \in DOMAIN bets : bets'[b] = IF b = a THEN row ELSE bets[b]
         /\ Staked(DOMAIN bets)' = Staked(DOMAIN bets)
         /\ PaidOut(DOMAIN bets)' = PaidOut(DOMAIN bets) - bets[a].payout + row.payout
<1>1. bets \in Seq(BetRow)
  BY DEF TypeOK
<1>2. /\ bets' \in Seq(BetRow) /\ DOMAIN bets' = DOMAIN bets
      /\ \A b \in DOMAIN bets : bets'[b] = IF b = a THEN row ELSE bets[b]
  BY <1>1
<1>3. PICK D : D = DOMAIN bets
  OBVIOUS
<1>4. IsFiniteSet(D) /\ \A b \in D : StakeOf[b] \in Int /\ PayoutOf[b] \in Int
  BY <1>3, BetsAreSummed
<1>5. PICK f, g : f = StakeOf' /\ g = PayoutOf'
  OBVIOUS
<1>6. row.payout \in Int
  BY BetFields
<1>7. /\ \A b \in D : f[b] = StakeOf[b] /\ g[b] = IF b = a THEN row.payout ELSE PayoutOf[b]
      /\ PayoutOf[a] = bets[a].payout
  BY <1>2, <1>3, <1>5 DEF StakeOf, PayoutOf
<1>8. SumFunctionOnSet(f, D) = SumFunctionOnSet(StakeOf, D)
  BY <1>4, <1>7, SumSame
<1>9. a \in D /\ (\A b \in D \ {a} : g[b] = PayoutOf[b]) /\ g[a] \in Int /\ g[a] = row.payout
  BY <1>3, <1>6, <1>7
<1>10. SumFunctionOnSet(g, D) = SumFunctionOnSet(PayoutOf, D) - PayoutOf[a] + g[a]
  <2>1. PICK h : h = PayoutOf
    OBVIOUS
  <2>2. IsFiniteSet(D) /\ \A b \in D : h[b] \in Int
    BY <1>4, <2>1
  <2>3. \A b \in D \ {a} : g[b] = h[b]
    BY <1>9, <2>1
  <2>4. SumFunctionOnSet(g, D) = SumFunctionOnSet(h, D) - h[a] + g[a]
    BY <1>9, <2>2, <2>3, SumChangeOne
  <2> QED
    BY <2>1, <2>4
<1>11. /\ Staked(DOMAIN bets)' = SumFunctionOnSet(f, D)
       /\ PaidOut(DOMAIN bets)' = SumFunctionOnSet(g, D)
  BY <1>2, <1>3, <1>5 DEF Staked, PaidOut, StakeOf, PayoutOf
<1>12. /\ Staked(DOMAIN bets) = SumFunctionOnSet(StakeOf, D)
       /\ PaidOut(DOMAIN bets) = SumFunctionOnSet(PayoutOf, D)
  BY <1>3, BetsAreSummed
<1> QED
  BY <1>2, <1>7, <1>8, <1>9, <1>10, <1>11, <1>12

LEMMA SameBets ==
  ASSUME UNCHANGED bets
  PROVE  Staked(DOMAIN bets)' = Staked(DOMAIN bets) /\ PaidOut(DOMAIN bets)' = PaidOut(DOMAIN bets)
BY DEF Staked, PaidOut

(* All of the sums the books are made of are whole cents. *)
LEMMA BooksType ==
  ASSUME TypeOK
  PROVE  /\ CentsOf(journal, ByHand) \in Int /\ balance \in Int
         /\ PaidOut(DOMAIN bets) \in Int /\ Staked(DOMAIN bets) \in Int
<1>1. ByHand \in SUBSET DOMAIN journal
  BY DEF ByHand
<1>2. CentsOf(journal, ByHand) \in Int
  BY <1>1, CentsType DEF TypeOK
<1>3. DOMAIN bets \in SUBSET DOMAIN bets
  OBVIOUS
<1> QED
  BY <1>2, <1>3, BetsAreSummed DEF TypeOK

-----------------------------------------------------------------------------
(* The invariant. *)

LEMMA TransactStep ==
  ASSUME RInv, NEW amount \in Int, amount # 0, Transact(amount)
  PROVE  RInv'
<1> USE DEF RInv
<1>1. PICK type \in {"DEPOSIT", "WITHDRAWAL"} :
        /\ journal' = journal \o Post(type, amount)
        /\ balance' = balance + CentsOf(Post(type, amount), DOMAIN Post(type, amount))
        /\ now' = now /\ bets' = bets
  BY DEF Transact, Record
<1>2. type \in TransactionTypes
  BY DEF TransactionTypes
<1>3. PICK row \in Row : /\ row = Posting(type, amount)
                         /\ row.type = type /\ row.at = now /\ row.amount = amount
  BY <1>2, PostedRow
<1>4. /\ Posted(Post(type, amount), {type})
      /\ CentsOf(Post(type, amount), DOMAIN Post(type, amount)) = amount
      /\ Post(type, amount) = <<row>>
  BY <1>2, <1>3, PostOne
<1>5. balance' = balance + amount /\ journal' = journal \o <<row>> /\ journal \in Seq(Row)
  BY <1>1, <1>4 DEF TypeOK
<1>6. /\ journal' \in Seq(Row) /\ JournalIsInOrder'
  BY <1>1, <1>4, JournalGrows
<1>7. journal' = Append(journal, row)
  BY <1>5, AppendIsConcat
<1>8. CentsOf(journal, ByHand)' = CentsOf(journal, ByHand) + amount
  <2>1. PICK n : n = Len(journal) + 1
    OBVIOUS
  <2>2. /\ DOMAIN journal' = DOMAIN journal \cup {n}
        /\ \A i \in DOMAIN journal : journal'[i] = journal[i]
        /\ journal'[n] = row
    BY <1>5, <1>7, <2>1, RowAppended
  <2>3. ByHand' = ByHand \cup {n}
    BY <1>3, <2>2 DEF ByHand
  <2>4. ByHand \in SUBSET DOMAIN journal
    BY DEF ByHand
  <2>5. CentsOf(Append(journal, row), ByHand \cup {n}) = CentsOf(journal, ByHand) + row.amount
    BY <1>5, <2>1, <2>4, CentsAppend
  <2>6. CentsOf(journal, ByHand)' = CentsOf(Append(journal, row), ByHand \cup {n})
    BY <1>7, <2>3 DEF CentsOf
  <2> QED
    BY <1>3, <2>5, <2>6
<1>9. BooksAgree'
  <2>1. /\ CentsOf(journal, ByHand) \in Int /\ balance \in Int
        /\ PaidOut(DOMAIN bets) \in Int /\ Staked(DOMAIN bets) \in Int
    BY BooksType
  <2>2. Staked(DOMAIN bets)' = Staked(DOMAIN bets) /\ PaidOut(DOMAIN bets)' = PaidOut(DOMAIN bets)
    BY <1>1, SameBets
  <2> QED
    BY <1>5, <1>8, <2>1, <2>2 DEF BooksAgree
<1>10. TypeOK'
  BY <1>1, <1>5, <1>6 DEF TypeOK
<1>11. BetsAreRight'
  BY <1>1 DEF BetsAreRight
<1> QED
  BY <1>6, <1>9, <1>10, <1>11

LEMMA PlaceBetStep ==
  ASSUME RInv, NEW terms \in Terms, NEW stake \in Stakes, PlaceBet(terms, stake)
  PROVE  RInv'
<1> USE DEF RInv
<1>0. stake \in Nat \ {0} /\ -stake \in Int /\ "WAGER_STAKE" \in TransactionTypes
  BY ReportsAssumption DEF TransactionTypes
<1>1. PICK row : row = [terms |-> terms, stake |-> stake, before |-> balance,
                        status |-> "PENDING", payout |-> 0, settledAt |-> NoTime]
  OBVIOUS
<1>2. PICK rows : rows = Post("WAGER_STAKE", -stake)
  OBVIOUS
<1>3. /\ journal' = journal \o rows /\ balance' = balance + CentsOf(rows, DOMAIN rows)
      /\ bets' = Append(bets, row) /\ now' = now /\ balance >= stake
  BY <1>1, <1>2 DEF PlaceBet, Record
<1>4. Posted(rows, {"WAGER_STAKE"}) /\ CentsOf(rows, DOMAIN rows) = -stake
  BY <1>0, <1>2, PostOne
<1>5. journal' \in Seq(Row) /\ JournalIsInOrder'
  BY <1>3, <1>4, JournalGrows
<1>6. CentsOf(journal, ByHand)' = CentsOf(journal, ByHand)
  <2>1. {"WAGER_STAKE"} \cap {"DEPOSIT", "WITHDRAWAL"} = {}
    OBVIOUS
  <2> QED
    BY <1>3, <1>4, <2>1, SameByHand
<1>7. balance \in Nat
  BY <1>0, <1>3 DEF TypeOK
<1>8. row \in BetRow
  BY <1>0, <1>1, <1>7 DEF BetRow
<1>9. /\ row.stake = stake /\ row.before = balance /\ row.status = "PENDING"
      /\ row.payout = 0 /\ row.settledAt = NoTime
  BY <1>1
<1>10. /\ bets' \in Seq(BetRow)
       /\ DOMAIN bets' = DOMAIN bets \cup {Len(bets) + 1}
       /\ \A b \in DOMAIN bets : bets'[b] = bets[b]
       /\ bets'[Len(bets) + 1] = row
       /\ Staked(DOMAIN bets)' = Staked(DOMAIN bets) + stake
       /\ PaidOut(DOMAIN bets)' = PaidOut(DOMAIN bets) + 0
  BY <1>3, <1>8, <1>9, BetPlaced
<1>11. BooksAgree'
  <2>1. /\ CentsOf(journal, ByHand) \in Int /\ balance \in Int
        /\ PaidOut(DOMAIN bets) \in Int /\ Staked(DOMAIN bets) \in Int
    BY BooksType
  <2> QED
    BY <1>0, <1>3, <1>4, <1>6, <1>10, <2>1 DEF BooksAgree
<1>12. TypeOK'
  BY <1>0, <1>3, <1>4, <1>5, <1>10 DEF TypeOK
<1>13. BetsAreRight'
  <2> SUFFICES ASSUME NEW b \in DOMAIN bets'
               PROVE  /\ bets'[b].stake <= bets'[b].before
                      /\ bets'[b].status = "PENDING" => bets'[b].payout = 0 /\ bets'[b].settledAt = NoTime
                      /\ bets'[b].status \in Results => bets'[b].settledAt \in 0 .. now'
    BY DEF BetsAreRight
  <2>1. CASE b \in DOMAIN bets
    BY <1>3, <1>10, <2>1 DEF BetsAreRight
  <2>2. CASE b = Len(bets) + 1
    BY <1>3, <1>9, <1>10, <2>2 DEF Results
  <2> QED
    BY <1>10, <2>1, <2>2
<1> QED
  BY <1>5, <1>11, <1>12, <1>13

LEMMA PayoutIsCents ==
  ASSUME TypeOK, NEW b \in DOMAIN bets, NEW result \in Results
  PROVE  Payout(b, result) \in Nat
<1>1. bets[b] \in BetRow
  BY DEF TypeOK
<1>2. bets[b].stake \in Nat /\ bets[b].terms \in Terms
  BY <1>1, BetFields
<1>3. bets[b].terms.odds \in Int \ {0}
  BY <1>2, ReportsAssumption
<1>4. WinningPayoutCents(bets[b].stake, bets[b].terms.odds) \in Nat
  BY <1>2, <1>3, WinnersArePaidToTheNearestCent
<1> QED
  BY <1>2, <1>4 DEF Payout, Results

LEMMA SettleStep ==
  ASSUME RInv, NEW a \in DOMAIN bets, NEW result \in Results, Settle(a, result)
  PROVE  RInv'
<1> USE DEF RInv
<1>1. PICK cents \in Nat : cents = Payout(a, result)
  BY PayoutIsCents
<1>2. bets[a] \in BetRow
  BY DEF TypeOK
<1>3. PICK old \in Nat : old = bets[a].payout
  BY <1>2, BetFields
<1>4. PICK rows : rows = Post("ADJUSTMENT", -old) \o Post("WAGER_PAYOUT", cents)
  OBVIOUS
<1>5. PICK row : row = [bets[a] EXCEPT !.status = result, !.payout = cents, !.settledAt = now]
  OBVIOUS
<1>6. /\ journal' = journal \o rows /\ balance' = balance + CentsOf(rows, DOMAIN rows)
      /\ bets' = [bets EXCEPT ![a] = row] /\ now' = now
  BY <1>1, <1>3, <1>4, <1>5 DEF Settle, SettledRow, Record
<1>7. Posted(rows, {"ADJUSTMENT", "WAGER_PAYOUT"}) /\ CentsOf(rows, DOMAIN rows) = -old + cents
  <2>1. PICK less \in Int : less = -old
    OBVIOUS
  <2>2. rows = Post("ADJUSTMENT", less) \o Post("WAGER_PAYOUT", cents) /\ cents \in Int
    BY <1>4, <2>1
  <2>3. Posted(rows, {"ADJUSTMENT", "WAGER_PAYOUT"}) /\ CentsOf(rows, DOMAIN rows) = less + cents
    BY <2>1, <2>2, PostTwo
  <2> QED
    BY <2>1, <2>3
<1>8. journal' \in Seq(Row) /\ JournalIsInOrder'
  BY <1>6, <1>7, JournalGrows
<1>9. CentsOf(journal, ByHand)' = CentsOf(journal, ByHand)
  <2>1. {"ADJUSTMENT", "WAGER_PAYOUT"} \cap {"DEPOSIT", "WITHDRAWAL"} = {}
    OBVIOUS
  <2> QED
    BY <1>6, <1>7, <2>1, SameByHand
<1>10. row \in BetRow
  <2>1. now \in Nat
    BY DEF TypeOK
  <2> QED
    BY <1>2, <1>5, <2>1 DEF BetRow
<1>11. /\ row.stake = bets[a].stake /\ row.before = bets[a].before
       /\ row.status = result /\ row.payout = cents /\ row.settledAt = now
  BY <1>2, <1>5 DEF BetRow
<1>12. /\ bets' \in Seq(BetRow) /\ DOMAIN bets' = DOMAIN bets
       /\ \A b \in DOMAIN bets : bets'[b] = IF b = a THEN row ELSE bets[b]
       /\ Staked(DOMAIN bets)' = Staked(DOMAIN bets)
       /\ PaidOut(DOMAIN bets)' = PaidOut(DOMAIN bets) - old + cents
  BY <1>3, <1>6, <1>10, <1>11, BetSettled
<1>13. BooksAgree'
  <2>1. /\ CentsOf(journal, ByHand) \in Int /\ balance \in Int
        /\ PaidOut(DOMAIN bets) \in Int /\ Staked(DOMAIN bets) \in Int
    BY BooksType
  <2>2. balance = CentsOf(journal, ByHand) + PaidOut(DOMAIN bets) - Staked(DOMAIN bets)
    BY DEF BooksAgree
  <2>3. /\ PaidOut(DOMAIN bets)' = PaidOut(DOMAIN bets) - old + cents
        /\ Staked(DOMAIN bets)' = Staked(DOMAIN bets)
    BY <1>12
  <2>4. balance' = CentsOf(journal, ByHand)' + PaidOut(DOMAIN bets)' - Staked(DOMAIN bets)'
    BY <1>6, <1>7, <1>9, <2>1, <2>2, <2>3
  <2> QED
    BY <2>4 DEF BooksAgree
<1>14. TypeOK'
  BY <1>6, <1>7, <1>8, <1>12 DEF TypeOK
<1>15. BetsAreRight'
  <2> SUFFICES ASSUME NEW b \in DOMAIN bets
               PROVE  /\ bets'[b].stake <= bets'[b].before
                      /\ bets'[b].status = "PENDING" => bets'[b].payout = 0 /\ bets'[b].settledAt = NoTime
                      /\ bets'[b].status \in Results => bets'[b].settledAt \in 0 .. now'
    BY <1>12 DEF BetsAreRight
  <2>1. CASE b # a
    BY <1>6, <1>12, <2>1 DEF BetsAreRight
  <2>2. CASE b = a
    <3>1. now \in 0 .. now /\ bets[a].stake <= bets[a].before
      BY DEF TypeOK, BetsAreRight
    <3> QED
      BY <1>6, <1>11, <1>12, <2>2, <3>1 DEF Results
  <2> QED
    BY <2>1, <2>2
<1> QED
  BY <1>8, <1>13, <1>14, <1>15

LEMMA TickStep ==
  ASSUME RInv, Tick
  PROVE  RInv'
<1> USE DEF RInv
<1>1. now \in Nat /\ now' = now + 1 /\ now' \in 0 .. LastMoment /\ balance' = balance /\ journal' = journal /\ bets' = bets
  BY ReportsAssumption DEF Tick, TypeOK
<1>2. TypeOK'
  BY <1>1 DEF TypeOK
<1>3. BetsAreRight'
  BY <1>1 DEF BetsAreRight
<1>4. JournalIsInOrder'
  <2>1. ASSUME NEW i \in DOMAIN journal
        PROVE  journal[i].at <= now'
    <3>1. journal[i].at \in Nat /\ journal[i].at <= now
      BY RowFields DEF TypeOK, JournalIsInOrder
    <3> QED
      BY <1>1, <3>1
  <2> QED
    BY <1>1, <2>1 DEF JournalIsInOrder
<1>5. BooksAgree'
  BY <1>1, SameBets DEF BooksAgree, ByHand, CentsOf
<1> QED
  BY <1>2, <1>3, <1>4, <1>5

LEMMA InitRInv ==
  ASSUME Init
  PROVE  RInv
<1>1. balance \in Nat /\ now = 0 /\ bets = <<>> /\ journal = Post("DEPOSIT", balance)
  BY ReportsAssumption DEF Init
<1>2. bets \in Seq(BetRow) /\ DOMAIN bets = {} /\ now \in 0 .. LastMoment
  BY <1>1, ReportsAssumption
<1>3. CASE balance = 0
  <2>1. journal = <<>>
    BY <1>1, <1>3 DEF Post
  <2>2. journal \in Seq(Row) /\ DOMAIN journal = {} /\ ByHand = {}
    BY <2>1 DEF ByHand
  <2>3. CentsOf(journal, ByHand) = 0
    BY <2>2, CentsOfNone
  <2> QED
    BY <1>1, <1>2, <1>3, <2>2, <2>3, SumEmpty
    DEF RInv, TypeOK, BetsAreRight, JournalIsInOrder, BooksAgree, PaidOut, Staked
<1>4. CASE balance # 0
  <2>1. journal = <<Posting("DEPOSIT", balance)>>
    BY <1>1, <1>4 DEF Post
  <2>2. PICK row : row = Posting("DEPOSIT", balance)
    OBVIOUS
  <2>3. row \in Row /\ row.amount = balance /\ row.type = "DEPOSIT" /\ row.at = 0
    BY <1>1, <2>2 DEF Posting, Row, TransactionTypes
  <2>4. journal \in Seq(Row) /\ DOMAIN journal = {1} /\ journal[1] = row
    BY <2>1, <2>2, <2>3
  <2>5. ByHand = {1}
    BY <2>3, <2>4 DEF ByHand
  <2>6. CentsOf(journal, ByHand) = balance
    BY <2>3, <2>4, <2>5, CentsOfOne
  <2>7. JournalIsInOrder
    BY <1>1, <2>3, <2>4 DEF JournalIsInOrder
  <2>8. BooksAgree
    BY <1>1, <1>2, <2>6, SumEmpty DEF BooksAgree, PaidOut, Staked
  <2> QED
    BY <1>1, <1>2, <2>4, <2>7, <2>8 DEF RInv, TypeOK, BetsAreRight
<1> QED
  BY <1>3, <1>4

LEMMA StepRInv ==
  ASSUME RInv, [Next]_vars
  PROVE  RInv'
<1>1. CASE \E amount \in Amounts : Transact(amount) \/ Transact(-amount)
  <2>1. PICK amount \in Amounts : Transact(amount) \/ Transact(-amount)
    BY <1>1
  <2>2. amount \in Int /\ amount # 0 /\ -amount \in Int /\ -amount # 0
    BY ReportsAssumption
  <2> QED
    BY <2>1, <2>2, TransactStep
<1>2. CASE \E terms \in Terms, stake \in Stakes : PlaceBet(terms, stake)
  BY <1>2, PlaceBetStep
<1>3. CASE \E b \in DOMAIN bets, result \in Results : Settle(b, result)
  BY <1>3, SettleStep
<1>4. CASE Tick
  BY <1>4, TickStep
<1>5. CASE UNCHANGED vars
  BY <1>5, SameBets
  DEF vars, RInv, TypeOK, BetsAreRight, JournalIsInOrder, BooksAgree, ByHand, CentsOf
<1> QED
  BY <1>1, <1>2, <1>3, <1>4, <1>5 DEF Next

LEMMA RInvHolds == Spec => []RInv
<1>1. Init => RInv
  BY InitRInv
<1>2. RInv /\ [Next]_vars => RInv'
  BY StepRInv
<1> QED
  BY <1>1, <1>2, PTL DEF Spec

-----------------------------------------------------------------------------
(* Profit and loss. *)

(* A bet that is not settled pays nothing. *)
LEMMA OpenPaysNothing ==
  ASSUME RInv, NEW B \in SUBSET {b \in DOMAIN bets : bets[b].status = "PENDING"}
  PROVE  PaidOut(B) = 0
<1>1. TypeOK /\ B \in SUBSET DOMAIN bets
  BY DEF RInv
<1>2. \A b \in B : PayoutOf[b] = 0
  BY <1>1, BetsAreSummed DEF RInv, BetsAreRight
<1>3. SumFunctionOnSet(PayoutOf, B) = 0
  BY <1>1, <1>2, BetsAreSummed, SumZero
<1> QED
  BY <1>1, <1>3, BetsAreSummed

(* The lifetime figures of compute_summary agree with the ledger. *)
LEMMA BooksReconcile ==
  ASSUME RInv
  PROVE  ProfitReconciles
<1> DEFINE open == {b \in DOMAIN bets : bets[b].status = "PENDING"}
           settled == SettledBets(Lifetime)
<1>1. TypeOK
  BY DEF RInv
<1>2. \A b \in DOMAIN bets : bets[b].status \in Results \cup {"PENDING"}
  <2>1. \A b \in DOMAIN bets : bets[b] \in BetRow
    BY <1>1 DEF TypeOK
  <2> QED
    BY <2>1, BetFields
<1>3. settled = {b \in DOMAIN bets : bets[b].status \in Results}
  BY DEF SettledBets, Lifetime, Within
<1>4. /\ open \in SUBSET DOMAIN bets /\ settled \in SUBSET DOMAIN bets
      /\ open \cap settled = {} /\ open \cup settled = DOMAIN bets
  BY <1>2, <1>3 DEF Results
<1>5. PICK O, S : O = open /\ S = settled
  OBVIOUS
<1>6. /\ Staked(DOMAIN bets) = Staked(O) + Staked(S)
      /\ PaidOut(DOMAIN bets) = PaidOut(O) + PaidOut(S)
  BY <1>1, <1>4, <1>5, BetsUnion
<1>7. PaidOut(O) = 0
  BY <1>5, OpenPaysNothing
<1>8. Staked(O) \in Int /\ Staked(S) \in Int /\ PaidOut(S) \in Int
  BY <1>1, <1>4, <1>5, BetsAreSummed
<1>9. Summary(Lifetime).net = PaidOut(S) - Staked(S)
  BY <1>5 DEF Summary, NetProfit
<1>10. CentsOf(journal, ByHand) \in Int /\ balance \in Int
  BY <1>1, BooksType
<1>11. balance = CentsOf(journal, ByHand) - Staked(O) + Summary(Lifetime).net
  BY <1>6, <1>7, <1>8, <1>9, <1>10 DEF RInv, BooksAgree
<1> QED
  BY <1>5, <1>11 DEF ProfitReconciles, ByHand

(* The rows of an account are well formed, for any number of them. *)
THEOREM TypesHold == Spec => []TypeOK
<1>1. RInv => TypeOK
  BY DEF RInv
<1> QED
  BY <1>1, RInvHolds, PTL

(* The balance of an account is what was paid in and out by hand, less the *)
(* stakes of open bets, plus the lifetime profit compute_summary reports:  *)
(* the transactions and the bets, written at different places, agree after *)
(* every history of deposits, bets, results and corrections.               *)
THEOREM BalanceIsProfit == Spec => []ProfitReconciles
<1>1. RInv => ProfitReconciles
  BY BooksReconcile
<1> QED
  BY <1>1, RInvHolds, PTL

-----------------------------------------------------------------------------
(* The loop over the journal. *)

Opened(p) == [balance |-> OpeningBalance(p), peak |-> OpeningBalance(p)]

AfterRow(before, p, i) ==
  IF i \notin Transactions(p) THEN before ELSE AfterTransaction(before, journal[i].amount)

FoldsRows(point, p, n) ==
  point = [i \in 0 .. n |-> IF i = 0 THEN Opened(p) ELSE AfterRow(point[i - 1], p, i)]

LEMMA PointsLoop ==
  ASSUME NEW p, Len(journal) \in Nat
  PROVE  /\ DOMAIN Points(p) = 0 .. Len(journal)
         /\ Points(p)[0] = Opened(p)
         /\ \A i \in 1 .. Len(journal) : Points(p)[i] = AfterRow(Points(p)[i - 1], p, i)
<1> DEFINE S == {n \in 0 .. Len(journal) : \E point : FoldsRows(point, p, n)}
<1>1. 0 \in S
  <2>1. FoldsRows([i \in {0} |-> Opened(p)], p, 0)
    BY DEF FoldsRows
  <2> QED
    BY <2>1
<1>2. ASSUME NEW n \in 1 .. Len(journal), n - 1 \in S
      PROVE  n \in S
  <2>1. PICK before : FoldsRows(before, p, n - 1)
    BY <1>2
  <2> DEFINE point == [i \in 0 .. n |-> IF i = n THEN AfterRow(before[n - 1], p, n) ELSE before[i]]
  <2>2. \A i \in 0 .. n - 1 : point[i] = before[i]
    OBVIOUS
  <2>3. \A i \in 0 .. n : point[i] = IF i = 0 THEN Opened(p) ELSE AfterRow(point[i - 1], p, i)
    <3> SUFFICES ASSUME NEW i \in 0 .. n
                 PROVE  point[i] = IF i = 0 THEN Opened(p) ELSE AfterRow(point[i - 1], p, i)
      OBVIOUS
    <3>1. CASE i = n
      <4>1. point[n] = AfterRow(before[n - 1], p, n) /\ n - 1 \in 0 .. n - 1
        OBVIOUS
      <4> HIDE DEF point
      <4> QED
        BY <2>2, <3>1, <4>1
    <3>2. CASE i # n
      <4>1. before[i] = IF i = 0 THEN Opened(p) ELSE AfterRow(before[i - 1], p, i)
        BY <2>1, <3>2 DEF FoldsRows
      <4>2. i \in 0 .. n - 1 /\ (i # 0 => i - 1 \in 0 .. n - 1)
        BY <3>2
      <4> HIDE DEF point
      <4> QED
        BY <2>2, <4>1, <4>2
    <3> QED
      BY <3>1, <3>2
  <2>4. point = [i \in 0 .. n |-> point[i]]
    OBVIOUS
  <2> HIDE DEF point
  <2>5. FoldsRows(point, p, n)
    BY <2>3, <2>4 DEF FoldsRows
  <2> QED
    BY <2>5
<1>3. Len(journal) \in S
  <2>1. \A i \in 1 .. Len(journal) : i - 1 \in S => i \in S
    BY <1>2
  <2> HIDE DEF S
  <2>2. \A i \in 0 .. Len(journal) : i \in S
    BY <1>1, <2>1, Upto
  <2> QED
    BY <2>2
<1>4. PICK point : FoldsRows(point, p, Len(journal))
  BY <1>3
<1>5. Points(p) = CHOOSE any : FoldsRows(any, p, Len(journal))
  BY DEF Points, FoldsRows, AfterRow, Opened
<1>6. FoldsRows(Points(p), p, Len(journal))
  BY <1>4, <1>5
<1> QED
  BY <1>6 DEF FoldsRows

(* The same as a formula, which holds after every step too. *)
LoopsOverRows ==
  Len(journal) \in Nat =>
    \A p : /\ Points(p)[0] = Opened(p)
          /\ \A i \in 1 .. Len(journal) : Points(p)[i] = AfterRow(Points(p)[i - 1], p, i)

LEMMA LoopAlwaysIs == LoopsOverRows
BY PointsLoop DEF LoopsOverRows

(* What the account held after the transactions up to i of the period. *)
Upper(p, i) == {j \in Transactions(p) : j <= i}
HeldAt(p, i) == OpeningBalance(p) + CentsOf(journal, Upper(p, i))

LEMMA OpeningType ==
  ASSUME TypeOK, NEW p
  PROVE  OpeningBalance(p) \in Int
<1>1. {i \in DOMAIN journal : journal[i].at < p[1]} \in SUBSET DOMAIN journal /\ journal \in Seq(Row)
  BY DEF TypeOK
<1>2. CentsOf(journal, {i \in DOMAIN journal : journal[i].at < p[1]}) \in Int
  BY <1>1, CentsType
<1> QED
  BY <1>2 DEF OpeningBalance

LEMMA HeldType ==
  ASSUME TypeOK, NEW p, NEW i
  PROVE  HeldAt(p, i) \in Int
<1>1. Upper(p, i) \in SUBSET DOMAIN journal /\ journal \in Seq(Row)
  BY DEF TypeOK, Upper, Transactions
<1>2. CentsOf(journal, Upper(p, i)) \in Int
  BY <1>1, CentsType
<1> QED
  BY <1>2, OpeningType DEF HeldAt

LEMMA HeldNext ==
  ASSUME TypeOK, NEW p, NEW i \in 1 .. Len(journal)
  PROVE  HeldAt(p, i) = IF i \in Transactions(p) THEN HeldAt(p, i - 1) + journal[i].amount
                        ELSE HeldAt(p, i - 1)
<1>1. journal \in Seq(Row) /\ i \in DOMAIN journal /\ Len(journal) \in Nat
  BY DEF TypeOK
<1>2. \A j \in Transactions(p) : j \in Nat
  BY <1>1 DEF Transactions
<1>3. CASE i \notin Transactions(p)
  <2>1. Upper(p, i) = Upper(p, i - 1)
    BY <1>2, <1>3 DEF Upper
  <2> QED
    BY <1>3, <2>1 DEF HeldAt
<1>4. CASE i \in Transactions(p)
  <2>1. PICK I, J : I = Upper(p, i - 1) /\ J = Upper(p, i)
    OBVIOUS
  <2>2. J = I \cup {i} /\ I \cap {i} = {}
    <3>1. \A j \in Transactions(p) : j <= i <=> j <= i - 1 \/ j = i
      BY <1>1, <1>2
    <3>2. i <= i /\ ~ (i <= i - 1)
      OBVIOUS
    <3> QED
      BY <1>4, <2>1, <3>1, <3>2 DEF Upper
  <2>3. I \in SUBSET DOMAIN journal /\ {i} \in SUBSET DOMAIN journal
    BY <1>1, <2>1 DEF Upper, Transactions
  <2>4. CentsOf(journal, I \cup {i}) = CentsOf(journal, I) + CentsOf(journal, {i})
    BY <1>1, <2>2, <2>3, CentsUnion
  <2>5. CentsOf(journal, {i}) = journal[i].amount /\ journal[i].amount \in Int
    BY <1>1, CentsOfOne, RowFields
  <2>6. CentsOf(journal, I) \in Int
    BY <1>1, <2>3, CentsType
  <2>7. OpeningBalance(p) \in Int
    BY OpeningType
  <2> QED
    BY <1>4, <2>1, <2>2, <2>4, <2>5, <2>6, <2>7 DEF HeldAt
<1> QED
  BY <1>3, <1>4

(* Every point of the loop is what the account held, and the peak is the   *)
(* highest that it held at the opening or after a transaction since.       *)
ChartPoints(p) == {0} \cup Transactions(p)

PointIsRight(point, p, i) ==
  /\ point.balance = HeldAt(p, i)
  /\ \A j \in ChartPoints(p) : j <= i => HeldAt(p, j) <= point.peak
  /\ \E j \in ChartPoints(p) : j <= i /\ point.peak = HeldAt(p, j)

LEMMA NothingBefore ==
  ASSUME TypeOK, NEW p
  PROVE  /\ HeldAt(p, 0) = OpeningBalance(p)
         /\ ChartPoints(p) \subseteq 0 .. Len(journal) /\ Len(journal) \in Nat
<1>1. journal \in Seq(Row) /\ DOMAIN journal = 1 .. Len(journal) /\ Len(journal) \in Nat
  BY DEF TypeOK
<1>2. Upper(p, 0) = {}
  BY <1>1 DEF Upper, Transactions
<1>3. CentsOf(journal, Upper(p, 0)) = 0
  BY <1>2, CentsOfNone
<1>4. HeldAt(p, 0) = OpeningBalance(p)
  BY <1>3, OpeningType DEF HeldAt
<1> QED
  BY <1>1, <1>4 DEF ChartPoints, Transactions

LEMMA NextPoint ==
  ASSUME TypeOK, NEW p, NEW i \in 1 .. Len(journal), NEW before, PointIsRight(before, p, i - 1)
  PROVE  PointIsRight(AfterRow(before, p, i), p, i)
<1>1. i - 1 <= i /\ ChartPoints(p) \subseteq Nat
  BY NothingBefore
<1>2. CASE i \notin Transactions(p)
  <2>1. AfterRow(before, p, i) = before
    BY <1>2 DEF AfterRow
  <2>2. HeldAt(p, i) = HeldAt(p, i - 1)
    BY <1>2, HeldNext
  <2>3. \A j \in ChartPoints(p) : j <= i <=> j <= i - 1
    BY <1>1, <1>2 DEF ChartPoints
  <2> QED
    BY <2>1, <2>2, <2>3 DEF PointIsRight
<1>3. CASE i \in Transactions(p)
  <2>1. PICK h \in Int : h = HeldAt(p, i)
    BY HeldType
  <2>2. PICK point : point = AfterRow(before, p, i)
    OBVIOUS
  <2>3. before.balance + journal[i].amount = h
    BY <1>3, <2>1, HeldNext DEF PointIsRight
  <2>4. point = [balance |-> h, peak |-> IF h > before.peak THEN h ELSE before.peak]
    BY <1>3, <2>2, <2>3 DEF AfterRow, AfterTransaction
  <2>5. PICK k \in ChartPoints(p) : k <= i - 1 /\ before.peak = HeldAt(p, k)
    BY DEF PointIsRight
  <2>6. before.peak \in Int
    BY <2>5, HeldType
  <2>7. i \in ChartPoints(p) /\ k <= i
    BY <1>1, <1>3, <2>5 DEF ChartPoints
  <2>8. point.balance = h /\ before.peak <= point.peak /\ h <= point.peak /\ point.peak \in {h, before.peak}
    BY <2>4, <2>6
  <2>9. ASSUME NEW j \in ChartPoints(p), j <= i
        PROVE  HeldAt(p, j) <= point.peak
    <3>1. CASE j = i
      BY <2>1, <2>8, <3>1
    <3>2. CASE j # i
      <4>1. j <= i - 1
        BY <1>1, <2>9, <3>2
      <4>2. HeldAt(p, j) <= before.peak
        BY <4>1 DEF PointIsRight
      <4>3. HeldAt(p, j) \in Int /\ point.peak \in Int
        BY <2>6, <2>8, HeldType
      <4> QED
        BY <2>6, <2>8, <4>2, <4>3
    <3> QED
      BY <3>1, <3>2
  <2>10. \E j \in ChartPoints(p) : j <= i /\ point.peak = HeldAt(p, j)
    <3>1. CASE point.peak = h
      <4>1. i <= i
        OBVIOUS
      <4> QED
        BY <2>1, <2>7, <3>1, <4>1
    <3>2. CASE point.peak = before.peak
      BY <2>5, <2>7, <3>2
    <3> QED
      BY <2>8, <3>1, <3>2
  <2>11. PointIsRight(point, p, i)
    BY <2>1, <2>8, <2>9, <2>10 DEF PointIsRight
  <2> QED
    BY <2>2, <2>11
<1> QED
  BY <1>2, <1>3

LEMMA PointsAreRight ==
  ASSUME TypeOK, NEW p
  PROVE  \A i \in 0 .. Len(journal) : PointIsRight(Points(p)[i], p, i)
<1> DEFINE S == {i \in 0 .. Len(journal) : PointIsRight(Points(p)[i], p, i)}
<1>1. Len(journal) \in Nat
  BY NothingBefore
<1>2. 0 \in S
  <2>1. Points(p)[0] = Opened(p)
    BY <1>1, PointsLoop
  <2>2. /\ HeldAt(p, 0) = OpeningBalance(p) /\ HeldAt(p, 0) \in Int
        /\ 0 \in ChartPoints(p) /\ ChartPoints(p) \subseteq Nat
    BY NothingBefore, HeldType DEF ChartPoints
  <2>3. Points(p)[0].balance = HeldAt(p, 0) /\ Points(p)[0].peak = HeldAt(p, 0)
    BY <2>1, <2>2 DEF Opened
  <2>4. \A j \in ChartPoints(p) : j <= 0 => j = 0
    BY <2>2
  <2>5. PointIsRight(Points(p)[0], p, 0)
    BY <2>2, <2>3, <2>4 DEF PointIsRight
  <2> QED
    BY <1>1, <2>5
<1>3. ASSUME NEW i \in 1 .. Len(journal), i - 1 \in S
      PROVE  i \in S
  <2>1. Points(p)[i] = AfterRow(Points(p)[i - 1], p, i)
    BY <1>1, PointsLoop
  <2>2. PointIsRight(Points(p)[i], p, i)
    BY <1>3, <2>1, NextPoint
  <2> QED
    BY <1>1, <2>2
<1> HIDE DEF S
<1>4. \A i \in 0 .. Len(journal) : i \in S
  BY <1>1, <1>2, <1>3, Upto
<1> QED
  BY <1>4 DEF S

-----------------------------------------------------------------------------
(* Periods that meet. *)

LEMMA PeriodFields ==
  ASSUME NEW p \in Periods
  PROVE  /\ p[1] \in Nat \cup {NoTime} /\ p[2] \in Nat \cup {NoTime}
         /\ p[1] # NoTime /\ p[2] # NoTime => p[1] <= p[2]
BY ReportsAssumption DEF Periods

(* A moment is in one of two periods that meet if it is in both together. *)
LEMMA PeriodsMeet ==
  ASSUME NEW p \in Periods, NEW at \in Nat, <<p[1], at>> \in Periods, <<at + 1, p[2]>> \in Periods,
         NEW t \in Nat
  PROVE  /\ Within(t, p) <=> Within(t, <<p[1], at>>) \/ Within(t, <<at + 1, p[2]>>)
         /\ ~ (Within(t, <<p[1], at>>) /\ Within(t, <<at + 1, p[2]>>))
<1>1. PICK from, to : from = p[1] /\ to = p[2]
  OBVIOUS
<1>2. from \in Nat \cup {NoTime} /\ to \in Nat \cup {NoTime}
  BY <1>1, PeriodFields
<1>3. at # NoTime /\ at + 1 # NoTime /\ at + 1 \in Nat
  BY ReportsAssumption
<1>4. from # NoTime => from <= at
  <2>1. <<from, at>>[1] = from /\ <<from, at>>[2] = at
    OBVIOUS
  <2> QED
    BY <1>1, <1>3, <2>1, PeriodFields
<1>5. to # NoTime => at + 1 <= to
  <2>1. <<at + 1, to>>[1] = at + 1 /\ <<at + 1, to>>[2] = to
    OBVIOUS
  <2> QED
    BY <1>1, <1>3, <2>1, PeriodFields
<1>6. /\ Within(t, p) <=> (from # NoTime => t >= from) /\ (to # NoTime => t <= to)
      /\ Within(t, <<p[1], at>>) <=> (from # NoTime => t >= from) /\ t <= at
      /\ Within(t, <<at + 1, p[2]>>) <=> t >= at + 1 /\ (to # NoTime => t <= to)
  BY <1>1, <1>3 DEF Within
<1>7. t <= at \/ t >= at + 1
  BY <1>3
<1>8. ~ (t <= at /\ t >= at + 1)
  BY <1>3
<1>9. t <= at /\ to # NoTime => t <= to
  BY <1>2, <1>3, <1>5
<1>10. t >= at + 1 /\ from # NoTime => t >= from
  BY <1>2, <1>3, <1>4
<1> QED
  BY <1>6, <1>7, <1>8, <1>9, <1>10

(* The last of a set of numbers that has an end. *)
LEMMA MaxIsLast ==
  ASSUME NEW n \in Nat, NEW S \in SUBSET (0 .. n), S # {}
  PROVE  Max(S) \in S /\ \A x \in S : x <= Max(S)
<1> DEFINE T == {n - x : x \in S}
<1>1. T \in SUBSET Nat /\ T # {}
  <2>1. \A x \in S : n - x \in Nat
    OBVIOUS
  <2> QED
    BY <2>1
<1> HIDE DEF T
<1>2. PICK t \in T : \A u \in T : t <= u
  BY <1>1, LeastNumber
<1>3. PICK x \in S : t = n - x
  BY <1>2 DEF T
<1>4. ASSUME NEW y \in S PROVE x >= y
  <2>1. n - y \in T
    BY DEF T
  <2>2. n - x <= n - y
    BY <1>2, <1>3, <2>1
  <2>3. x \in Int /\ y \in Int
    OBVIOUS
  <2> QED
    BY <2>2, <2>3
<1>5. PICK m \in S : m = Max(S) /\ \A y \in S : m >= y
  BY <1>4 DEF Max
<1>6. \A y \in S : y <= m
  <2>1. \A y \in S : y \in Int /\ m \in Int
    OBVIOUS
  <2> QED
    BY <1>5, <2>1
<1> QED
  BY <1>5, <1>6

(* The balance at the end of a period is that of its last point. *)
LEMMA ReplayAt ==
  ASSUME TypeOK, NEW p, NEW i \in ChartPoints(p)
  PROVE  Replay(p)[i] = Points(p)[i] /\ PointIsRight(Replay(p)[i], p, i)
<1>1. i \in 0 .. Len(journal)
  BY NothingBefore
<1>2. Replay(p)[i] = Points(p)[i]
  BY DEF Replay, ChartPoints
<1> QED
  BY <1>1, <1>2, PointsAreRight

LEMMA LastPoint ==
  ASSUME TypeOK, NEW p
  PROVE  Replay(p)[Max(DOMAIN Replay(p))].balance
           = OpeningBalance(p) + CentsOf(journal, Transactions(p))
<1>1. DOMAIN Replay(p) = ChartPoints(p)
  BY DEF Replay, ChartPoints
<1>2. PICK S : S = ChartPoints(p)
  OBVIOUS
<1>3. S \in SUBSET (0 .. Len(journal)) /\ S # {} /\ Len(journal) \in Nat
  BY <1>2, NothingBefore DEF ChartPoints
<1>4. PICK m : m = Max(S) /\ m \in S /\ \A x \in S : x <= m
  BY <1>3, MaxIsLast
<1>5. Upper(p, m) = Transactions(p)
  BY <1>2, <1>4 DEF Upper, ChartPoints
<1>6. Replay(p)[m].balance = HeldAt(p, m)
  BY <1>2, <1>4, ReplayAt DEF PointIsRight
<1> QED
  BY <1>1, <1>2, <1>4, <1>5, <1>6 DEF HeldAt

(* What an account holds at the end of a period, and before one. *)
LEMMA ClosingIsOpening ==
  ASSUME TypeOK, NEW p \in Periods, NEW at \in Nat, <<p[1], at>> \in Periods
  PROVE  OpeningBalance(<<p[1], at>>) + CentsOf(journal, Transactions(<<p[1], at>>))
           = CentsOf(journal, {i \in DOMAIN journal : journal[i].at <= at})
<1>1. PICK from : from = p[1]
  OBVIOUS
<1>2. from \in Nat \cup {NoTime}
  BY <1>1, PeriodFields
<1>3. PICK I : I = IF from = NoTime THEN {} ELSE {i \in DOMAIN journal : journal[i].at < from}
  OBVIOUS
<1>4. PICK J : J = Transactions(<<from, at>>)
  OBVIOUS
<1>5. I \in SUBSET DOMAIN journal /\ J \in SUBSET DOMAIN journal /\ journal \in Seq(Row)
  BY <1>3, <1>4 DEF Transactions, TypeOK
<1>6. <<from, at>>[1] = from /\ <<from, at>>[2] = at
  OBVIOUS
<1>7. OpeningBalance(<<from, at>>) = CentsOf(journal, I)
  BY <1>3, <1>5, <1>6, CentsOfNone DEF OpeningBalance
<1>8. \A i \in DOMAIN journal : journal[i].at \in Nat
  BY <1>5, RowFields
<1>9. at # NoTime /\ (from # NoTime => from <= at)
  BY <1>1, <1>6, ReportsAssumption, PeriodFields
<1>10. J = {i \in DOMAIN journal : (from # NoTime => journal[i].at >= from) /\ journal[i].at <= at}
  BY <1>4, <1>6, <1>9 DEF Transactions, Within
<1>11. I \cap J = {} /\ I \cup J = {i \in DOMAIN journal : journal[i].at <= at}
  <2>1. CASE from = NoTime
    BY <1>3, <1>10, <2>1
  <2>2. CASE from # NoTime
    <3>1. \A i \in DOMAIN journal : /\ ~ (journal[i].at < from /\ journal[i].at >= from)
                                    /\ journal[i].at <= at <=> journal[i].at < from \/ (journal[i].at >= from /\ journal[i].at <= at)
      <4> SUFFICES ASSUME NEW i \in DOMAIN journal
                   PROVE  /\ ~ (journal[i].at < from /\ journal[i].at >= from)
                          /\ journal[i].at <= at <=> journal[i].at < from \/ (journal[i].at >= from /\ journal[i].at <= at)
        OBVIOUS
      <4>1. PICK t \in Nat : t = journal[i].at
        BY <1>8
      <4>2. from \in Nat /\ from <= at
        BY <1>2, <1>9, <2>2
      <4>3. ~ (t < from /\ t >= from) /\ (t <= at <=> t < from \/ (t >= from /\ t <= at))
        BY <4>2
      <4> QED
        BY <4>1, <4>3
    <3>2. I = {i \in DOMAIN journal : journal[i].at < from}
      BY <1>3, <2>2
    <3>3. J = {i \in DOMAIN journal : journal[i].at >= from /\ journal[i].at <= at}
      BY <1>10, <2>2
    <3>4. I \cap J = {}
      BY <3>1, <3>2, <3>3
    <3>5. I \cup J = {i \in DOMAIN journal :
                       journal[i].at < from \/ (journal[i].at >= from /\ journal[i].at <= at)}
      BY <3>2, <3>3
    <3>6. I \cup J = {i \in DOMAIN journal : journal[i].at <= at}
      BY <3>1, <3>5
    <3> QED
      BY <3>4, <3>6
  <2> QED
    BY <2>1, <2>2
<1>12. CentsOf(journal, I \cup J) = CentsOf(journal, I) + CentsOf(journal, J)
  BY <1>5, <1>11, CentsUnion
<1> QED
  BY <1>1, <1>4, <1>7, <1>11, <1>12

LEMMA PeriodsAdd ==
  ASSUME RInv
  PROVE  PeriodsAddUp
<1>1. TypeOK
  BY DEF RInv
<1> SUFFICES ASSUME NEW p \in Periods, NEW at \in 0 .. LastMoment - 1,
                    NEW early, early = <<p[1], at>>, NEW late, late = <<at + 1, p[2]>>,
                    early \in Periods, late \in Periods
             PROVE  /\ Summary(p).bets = Summary(early).bets + Summary(late).bets
                    /\ Summary(p).net = Summary(early).net + Summary(late).net
                    /\ Replay(early)[Max(DOMAIN Replay(early))].balance = Replay(late)[0].balance
  BY DEF PeriodsAddUp
<1>2. PICK B, C : B = SettledBets(early) /\ C = SettledBets(late)
  OBVIOUS
<1>3. at \in Nat /\ at + 1 \in Nat
  BY ReportsAssumption
<1>4. B \in SUBSET DOMAIN bets /\ C \in SUBSET DOMAIN bets
  BY <1>2 DEF SettledBets
<1>5. ASSUME NEW b \in DOMAIN bets, bets[b].status \in Results
      PROVE  /\ Within(bets[b].settledAt, p) <=> Within(bets[b].settledAt, early) \/ Within(bets[b].settledAt, late)
             /\ ~ (Within(bets[b].settledAt, early) /\ Within(bets[b].settledAt, late))
  <2>1. bets[b].settledAt \in 0 .. now /\ now \in Nat
    BY <1>1, <1>5 DEF RInv, BetsAreRight, TypeOK
  <2>2. bets[b].settledAt \in Nat
    BY <2>1
  <2> QED
    BY <1>3, <2>2, PeriodsMeet
<1>6. B \cap C = {} /\ SettledBets(p) = B \cup C
  BY <1>2, <1>5 DEF SettledBets
<1>7. /\ NetProfit(B \cup C) = NetProfit(B) + NetProfit(C)
      /\ Cardinality(B \cup C) = Cardinality(B) + Cardinality(C)
  BY <1>1, <1>4, <1>6, BetsUnion
<1>8. /\ Summary(p).bets = Summary(early).bets + Summary(late).bets
      /\ Summary(p).net = Summary(early).net + Summary(late).net
  BY <1>2, <1>6, <1>7 DEF Summary
<1>9. Replay(early)[Max(DOMAIN Replay(early))].balance
        = CentsOf(journal, {i \in DOMAIN journal : journal[i].at <= at})
  BY <1>1, <1>3, LastPoint, ClosingIsOpening
<1>10. Replay(late)[0].balance = OpeningBalance(late)
  <2>1. 0 \in ChartPoints(late)
    BY DEF ChartPoints
  <2> QED
    BY <1>1, <2>1, ReplayAt, NothingBefore DEF PointIsRight
<1>11. OpeningBalance(late) = CentsOf(journal, {i \in DOMAIN journal : journal[i].at <= at})
  <2>1. late[1] = at + 1 /\ at + 1 # NoTime
    BY <1>3, ReportsAssumption
  <2>2. {i \in DOMAIN journal : journal[i].at < at + 1} = {i \in DOMAIN journal : journal[i].at <= at}
    <3>1. \A i \in DOMAIN journal : journal[i].at \in Nat
      BY <1>1, RowFields DEF TypeOK
    <3>2. \A i \in DOMAIN journal : journal[i].at < at + 1 <=> journal[i].at <= at
      BY <1>3, <3>1
    <3> QED
      BY <3>2
  <2> QED
    BY <2>1, <2>2 DEF OpeningBalance
<1> QED
  BY <1>8, <1>9, <1>10, <1>11

(* Reports of two periods that meet add up to the report of both, and the  *)
(* chart of the later one begins where that of the earlier one ends: the   *)
(* bounds that compute_summary, _opening_balance and the replay select by  *)
(* leave nothing out and count nothing twice, wherever a period is cut.    *)
THEOREM ReportsAddUp == Spec => []PeriodsAddUp
<1>1. RInv => PeriodsAddUp
  BY PeriodsAdd
<1> QED
  BY <1>1, RInvHolds, PTL

-----------------------------------------------------------------------------
(* Drawdowns and daily balances. *)

(* The first of the points with the greatest fall, among those up to n. *)
LEMMA WorstExists ==
  ASSUME NEW n \in Nat, NEW S \in SUBSET (0 .. n), 0 \in S, NEW fall, \A i \in S : fall[i] \in Int
  PROVE  \E i \in S : \A j \in S : fall[i] <= fall[j] /\ (fall[i] = fall[j] => i <= j)
<1> DEFINE First(m) ==
             \E i \in S : i <= m /\ \A j \in S : j <= m => fall[i] <= fall[j] /\ (fall[i] = fall[j] => i <= j)
           T == {m \in 0 .. n : First(m)}
<1>1. 0 \in T
  <2>1. \A j \in S : j <= 0 => j = 0
    OBVIOUS
  <2>2. fall[0] \in Int
    OBVIOUS
  <2>3. First(0)
    BY <2>1, <2>2
  <2> QED
    BY <2>3
<1>2. ASSUME NEW m \in 1 .. n, m - 1 \in T
      PROVE  m \in T
  <2>1. PICK i \in S : i <= m - 1 /\ \A j \in S : j <= m - 1 => fall[i] <= fall[j] /\ (fall[i] = fall[j] => i <= j)
    BY <1>2
  <2>2. \A j \in S : j <= m <=> j <= m - 1 \/ j = m
    OBVIOUS
  <2>3. i <= m /\ i \in Nat /\ fall[i] \in Int
    BY <2>1
  <2>4. CASE m \in S /\ fall[m] < fall[i]
    <3>1. \A j \in S : j <= m - 1 => fall[m] < fall[j]
      <4> SUFFICES ASSUME NEW j \in S, j <= m - 1 PROVE fall[m] < fall[j]
        OBVIOUS
      <4>1. fall[m] \in Int /\ fall[j] \in Int /\ fall[i] <= fall[j]
        BY <2>1, <2>4
      <4> QED
        BY <2>3, <2>4, <4>1
    <3>2. fall[m] \in Int /\ m <= m
      BY <2>4
    <3>3. \A j \in S : j <= m => fall[m] <= fall[j] /\ (fall[m] = fall[j] => m <= j)
      <4> SUFFICES ASSUME NEW j \in S, j <= m PROVE fall[m] <= fall[j] /\ (fall[m] = fall[j] => m <= j)
        OBVIOUS
      <4>1. fall[j] \in Int
        OBVIOUS
      <4> QED
        BY <2>2, <3>1, <3>2, <4>1
    <3> QED
      BY <2>4, <3>2, <3>3
  <2>5. CASE ~ (m \in S /\ fall[m] < fall[i])
    <3>1. m \in S => fall[i] <= fall[m]
      <4>1. m \in S => fall[m] \in Int
        OBVIOUS
      <4> QED
        BY <2>3, <2>5, <4>1
    <3>2. \A j \in S : j <= m => fall[i] <= fall[j] /\ (fall[i] = fall[j] => i <= j)
      BY <2>1, <2>2, <2>3, <3>1
    <3> QED
      BY <2>3, <3>2
  <2> QED
    BY <2>4, <2>5
<1>3. n \in T
  <2> HIDE DEF T
  <2>1. \A m \in 0 .. n : m \in T
    BY <1>1, <1>2, Upto
  <2> QED
    BY <2>1
<1> QED
  BY <1>3

Fall(p, i) == Replay(p)[i].balance - Replay(p)[i].peak

LEMMA WorstIsWorst ==
  ASSUME TypeOK, NEW p
  PROVE  \E w \in ChartPoints(p) : /\ MaxDrawdown(p).cents = Fall(p, w)
                                   /\ \A j \in ChartPoints(p) : Fall(p, w) <= Fall(p, j)
<1>0. PICK S : S = ChartPoints(p)
  OBVIOUS
<1>1. PICK n \in Nat : S \in SUBSET (0 .. n) /\ 0 \in S
  BY <1>0, NothingBefore DEF ChartPoints
<1>2. PICK fall : fall = [i \in S |-> Fall(p, i)]
  OBVIOUS
<1>3. \A i \in S : fall[i] \in Int
  <2> SUFFICES ASSUME NEW i \in S PROVE Fall(p, i) \in Int
    BY <1>2
  <2>1. PointIsRight(Replay(p)[i], p, i)
    BY <1>0, ReplayAt
  <2>2. Replay(p)[i].balance \in Int /\ Replay(p)[i].peak \in Int
    BY <2>1, HeldType DEF PointIsRight
  <2> QED
    BY <2>2 DEF Fall
<1>4. \E i \in S : \A j \in S : fall[i] <= fall[j] /\ (fall[i] = fall[j] => i <= j)
  BY <1>1, <1>3, WorstExists
<1>5. DOMAIN Replay(p) = S
  BY <1>0 DEF Replay, ChartPoints
<1>6. PICK w : w = CHOOSE i \in S : \A j \in S : Fall(p, i) <= Fall(p, j) /\ (Fall(p, i) = Fall(p, j) => i <= j)
  OBVIOUS
<1>7. w \in S /\ \A j \in S : Fall(p, w) <= Fall(p, j)
  BY <1>2, <1>4, <1>6
<1>8. MaxDrawdown(p).cents = Fall(p, w)
  BY <1>5, <1>6 DEF MaxDrawdown, Fall
<1> QED
  BY <1>0, <1>7, <1>8

LEMMA DrawdownIsRight ==
  ASSUME TypeOK
  PROVE  DrawdownIsGreatestFall
<1> SUFFICES ASSUME NEW p \in Periods,
                    NEW falls,
                    falls = {HeldAt(p, ij[2]) - HeldAt(p, ij[1]) :
                               ij \in {ij \in ChartPoints(p) \X ChartPoints(p) : ij[1] <= ij[2]}}
             PROVE  MaxDrawdown(p).cents = Min(falls)
  BY DEF DrawdownIsGreatestFall, HeldAt, Upper, ChartPoints
<1>1. PICK w \in ChartPoints(p) : /\ MaxDrawdown(p).cents = Fall(p, w)
                                  /\ \A j \in ChartPoints(p) : Fall(p, w) <= Fall(p, j)
  BY WorstIsWorst
<1>2. \A i \in ChartPoints(p) : HeldAt(p, i) \in Int
  BY HeldType
<1>3. Fall(p, w) \in falls
  <2>1. PointIsRight(Replay(p)[w], p, w)
    BY ReplayAt
  <2>2. PICK k \in ChartPoints(p) : k <= w /\ Replay(p)[w].peak = HeldAt(p, k)
    BY <2>1 DEF PointIsRight
  <2>3. Fall(p, w) = HeldAt(p, w) - HeldAt(p, k)
    BY <2>1, <2>2 DEF Fall, PointIsRight
  <2>4. PICK ij : ij = <<k, w>>
    OBVIOUS
  <2>5. ij \in {uv \in ChartPoints(p) \X ChartPoints(p) : uv[1] <= uv[2]} /\ ij[1] = k /\ ij[2] = w
    BY <2>2, <2>4
  <2> QED
    BY <2>3, <2>5
<1>4. ASSUME NEW fall \in falls PROVE Fall(p, w) <= fall /\ fall \in Int
  <2>1. PICK i \in ChartPoints(p), j \in ChartPoints(p) : i <= j /\ fall = HeldAt(p, j) - HeldAt(p, i)
    BY <1>4
  <2>2. PointIsRight(Replay(p)[j], p, j)
    BY ReplayAt
  <2>3. PICK peak \in Int : peak = Replay(p)[j].peak
    BY <1>2, <2>2 DEF PointIsRight
  <2>4. HeldAt(p, i) <= peak /\ Fall(p, j) = HeldAt(p, j) - peak
    BY <2>1, <2>2, <2>3 DEF PointIsRight, Fall
  <2>5. Fall(p, w) <= Fall(p, j)
    BY <1>1
  <2>6. PICK x \in Int, y \in Int : x = HeldAt(p, i) /\ y = HeldAt(p, j)
    BY <1>2
  <2>7. x <= peak /\ fall = y - x /\ Fall(p, j) = y - peak
    BY <2>1, <2>4, <2>6
  <2>8. Fall(p, w) \in Int
    <3>1. PointIsRight(Replay(p)[w], p, w)
      BY ReplayAt
    <3>2. Replay(p)[w].balance \in Int /\ Replay(p)[w].peak \in Int
      BY <1>2, <3>1 DEF PointIsRight
    <3> QED
      BY <3>2 DEF Fall
  <2> QED
    BY <2>5, <2>7, <2>8
<1>5. PICK least : least = Fall(p, w)
  OBVIOUS
<1>6. least \in falls /\ (\A fall \in falls : least <= fall) /\ \A fall \in falls : fall \in Int
  BY <1>3, <1>4, <1>5
<1>7. PICK m : m = Min(falls) /\ m \in falls /\ \A fall \in falls : m =< fall
  BY <1>6 DEF Min
<1>8. m <= least /\ least <= m /\ m \in Int /\ least \in Int
  BY <1>6, <1>7
<1>9. m = least
  BY <1>8
<1> QED
  BY <1>1, <1>5, <1>7, <1>9

(* The drawdown compute_drawdown finds in one pass, by keeping the highest *)
(* balance so far, is the greatest fall between any two points of the      *)
(* period, for every journal.                                              *)
THEOREM DrawdownIsGreatest == Spec => []DrawdownIsGreatestFall
<1>1. RInv => DrawdownIsGreatestFall
  BY DrawdownIsRight DEF RInv
<1> QED
  BY <1>1, RInvHolds, PTL

(* Later moments are not on earlier days. *)
LEMMA DaysGoOn ==
  ASSUME NEW s \in Nat, NEW t \in Nat, s <= t
  PROVE  Day(s) \in Nat /\ Day(t) \in Nat /\ Day(s) <= Day(t)
<1>1. MomentsPerDay \in Nat \ {0}
  BY ReportsAssumption
<1>2. PICK m \in Nat \ {0} : m = MomentsPerDay
  BY <1>1
<1>3. PICK a \in Nat, c \in Nat : a = s \div m /\ c = t \div m
  BY <1>2, DivisionBounds
<1>4. m * a <= s /\ t < m * c + m
  BY <1>2, <1>3, DivisionBounds
<1>5. m * a < m * c + m
  <2>1. m * a \in Int /\ m * c + m \in Int
    BY <1>2
  <2> QED
    BY <1>4, <2>1
<1>6. ~ (a >= c + 1)
  <2> SUFFICES ASSUME a >= c + 1 PROVE FALSE
    OBVIOUS
  <2>1. PICK k \in Nat : a = c + 1 + k
    <3>1. a - (c + 1) \in Nat /\ a = c + 1 + (a - (c + 1))
      OBVIOUS
    <3> QED
      BY <3>1
  <2>2. m * a = m * c + m + m * k
    BY <2>1
  <2>3. m * k \in Nat /\ m * c \in Nat /\ m * a \in Nat
    OBVIOUS
  <2> QED
    BY <1>5, <2>2, <2>3
<1>7. a <= c
  BY <1>3, <1>6
<1> QED
  BY <1>2, <1>3, <1>7 DEF Day

OnDay(p, d) == {i \in Transactions(p) : Day(journal[i].at) = d}
UpToDay(p, d) ==
  {i \in DOMAIN journal : Day(journal[i].at) <= d /\ Within(journal[i].at, <<NoTime, p[2]>>)}

(* The rows before a period. *)
Earlier(p) == IF p[1] = NoTime THEN {} ELSE {i \in DOMAIN journal : journal[i].at < p[1]}

LEMMA OpeningIsEarlier ==
  ASSUME TypeOK, NEW p
  PROVE  /\ Earlier(p) \in SUBSET DOMAIN journal
         /\ OpeningBalance(p) = CentsOf(journal, Earlier(p))
BY CentsOfNone DEF Earlier, OpeningBalance

LEMMA WithinIs ==
  ASSUME TypeOK, NEW p \in Periods, NEW i \in DOMAIN journal
  PROVE  /\ journal[i].at \in Nat /\ i \in Nat
         /\ i \in Transactions(p) <=> i \notin Earlier(p) /\ Within(journal[i].at, <<NoTime, p[2]>>)
         /\ i \in Earlier(p) => Within(journal[i].at, <<NoTime, p[2]>>)
<1>1. PICK from, to : from = p[1] /\ to = p[2]
  OBVIOUS
<1>2. /\ from \in Nat \cup {NoTime} /\ to \in Nat \cup {NoTime}
      /\ from # NoTime /\ to # NoTime => from <= to
  BY <1>1, PeriodFields
<1>3. PICK t \in Nat : t = journal[i].at
  BY RowFields DEF TypeOK
<1>4. i \in Nat
  BY DEF TypeOK
<1>5. i \in Transactions(p) <=> (from # NoTime => t >= from) /\ (to # NoTime => t <= to)
  BY <1>1, <1>3 DEF Transactions, Within
<1>6. i \in Earlier(p) <=> from # NoTime /\ t < from
  BY <1>1, <1>3 DEF Earlier
<1>7. Within(t, <<NoTime, p[2]>>) <=> (to # NoTime => t <= to)
  BY <1>1 DEF Within
<1>8. from # NoTime => (t >= from <=> ~ (t < from))
  BY <1>2, <1>3
<1>9. from # NoTime /\ t < from => (to # NoTime => t <= to)
  BY <1>2, <1>3
<1> QED
  BY <1>3, <1>4, <1>5, <1>6, <1>7, <1>8, <1>9

(* The rows up to the last one of a day are those of the days up to it. *)
LEMMA DayCloses ==
  ASSUME TypeOK, JournalIsInOrder, NEW p \in Periods, NEW d \in Nat, OnDay(p, d) # {},
         NEW m \in OnDay(p, d), \A i \in OnDay(p, d) : i <= m
  PROVE  Earlier(p) \cup Upper(p, m) = UpToDay(p, d) /\ Earlier(p) \cap Upper(p, m) = {}
<1>1. m \in DOMAIN journal /\ m \in Transactions(p) /\ Day(journal[m].at) = d
  BY DEF OnDay, Transactions
<1>2. Earlier(p) \subseteq DOMAIN journal /\ Upper(p, m) \subseteq DOMAIN journal
      /\ UpToDay(p, d) \subseteq DOMAIN journal
  BY DEF Earlier, Upper, Transactions, UpToDay
<1>3. ASSUME NEW i \in DOMAIN journal
      PROVE  /\ i \in Earlier(p) \cup Upper(p, m) <=> i \in UpToDay(p, d)
             /\ ~ (i \in Earlier(p) /\ i \in Upper(p, m))
  <2>1. /\ journal[i].at \in Nat /\ journal[m].at \in Nat /\ i \in Nat /\ m \in Nat
        /\ i \in Transactions(p) <=> i \notin Earlier(p) /\ Within(journal[i].at, <<NoTime, p[2]>>)
        /\ i \in Earlier(p) => Within(journal[i].at, <<NoTime, p[2]>>)
    BY <1>1, WithinIs
  <2>2. i <= m => journal[i].at <= journal[m].at
    BY <1>1 DEF JournalIsInOrder
  <2>3. ~ (i <= m) => journal[m].at <= journal[i].at
    <3>1. ~ (i <= m) => m <= i
      BY <2>1
    <3> QED
      BY <1>1, <3>1 DEF JournalIsInOrder
  <2>4. i <= m => Day(journal[i].at) <= d
    BY <1>1, <2>1, <2>2, DaysGoOn
  <2>5. Day(journal[i].at) <= d /\ i \in Transactions(p) => i <= m
    <3> SUFFICES ASSUME Day(journal[i].at) <= d, i \in Transactions(p), ~ (i <= m) PROVE FALSE
      OBVIOUS
    <3>1. d <= Day(journal[i].at) /\ Day(journal[i].at) \in Nat
      BY <1>1, <2>1, <2>3, DaysGoOn
    <3>2. Day(journal[i].at) = d
      BY <3>1
    <3>3. i \in OnDay(p, d)
      BY <3>2 DEF OnDay
    <3> QED
      BY <3>3
  <2>6. i \in Earlier(p) => i <= m
    <3> SUFFICES ASSUME i \in Earlier(p), ~ (i <= m) PROVE FALSE
      OBVIOUS
    <3>1. m \notin Earlier(p)
      BY <1>1, WithinIs
    <3>2. p[1] # NoTime /\ journal[i].at < p[1]
      BY DEF Earlier
    <3>3. p[1] \in Nat /\ ~ (journal[m].at < p[1])
      BY <1>1, <3>1, <3>2, PeriodFields DEF Earlier
    <3> QED
      BY <2>1, <2>3, <3>2, <3>3
  <2>7. i \in Upper(p, m) <=> i \in Transactions(p) /\ i <= m
    BY DEF Upper
  <2>8. i \in UpToDay(p, d) <=> Day(journal[i].at) <= d /\ Within(journal[i].at, <<NoTime, p[2]>>)
    BY DEF UpToDay
  <2> QED
    BY <2>1, <2>4, <2>5, <2>6, <2>7, <2>8
<1> QED
  BY <1>2, <1>3

(* Without one, the day is the first of the chart, and nothing of the      *)
(* period comes before the end of it.                                      *)
LEMMA DayIsEmpty ==
  ASSUME TypeOK, JournalIsInOrder, NEW p \in Periods, OnDay(p, FirstDay(p, 0)) = {}
  PROVE  Earlier(p) = UpToDay(p, FirstDay(p, 0))
<1>1. Earlier(p) \subseteq DOMAIN journal /\ UpToDay(p, FirstDay(p, 0)) \subseteq DOMAIN journal
  BY DEF Earlier, UpToDay
<1>2. CASE p[1] = NoTime
  <2>1. Earlier(p) = {}
    BY <1>2 DEF Earlier
  <2>2. Transactions(p) = {}
    <3> SUFFICES ASSUME Transactions(p) # {} PROVE FALSE
      OBVIOUS
    <3>1. PICK T \in SUBSET Nat : T = Transactions(p)
      <4>1. Transactions(p) \subseteq Nat
        BY NothingBefore DEF ChartPoints
      <4> QED
        BY <4>1
    <3>2. PICK n \in T : \A i \in T : n <= i
      BY <3>1, LeastNumber
    <3>3. Min(T) \in T
      BY <3>2 DEF Min
    <3>4. FirstDay(p, 0) = Day(journal[Min(T)].at)
      BY <1>2, <3>1 DEF FirstDay
    <3> QED
      BY <3>1, <3>3, <3>4 DEF OnDay
  <2>3. UpToDay(p, FirstDay(p, 0)) \subseteq Transactions(p)
    <3> SUFFICES ASSUME NEW i \in UpToDay(p, FirstDay(p, 0)) PROVE i \in Transactions(p)
      OBVIOUS
    <3>1. i \in DOMAIN journal /\ Within(journal[i].at, <<NoTime, p[2]>>)
      BY DEF UpToDay
    <3> QED
      BY <2>1, <3>1, WithinIs
  <2> QED
    BY <2>1, <2>2, <2>3
<1>3. CASE p[1] # NoTime
  <2>1. p[1] \in Nat /\ FirstDay(p, 0) = Day(p[1])
    <3>1. PICK from \in Nat : from = p[1]
      BY <1>3, PeriodFields
    <3>2. from + 0 = from
      OBVIOUS
    <3> QED
      BY <1>3, <3>1, <3>2 DEF FirstDay
  <2>2. ASSUME NEW i \in DOMAIN journal
        PROVE  i \in Earlier(p) <=> i \in UpToDay(p, FirstDay(p, 0))
    <3>1. /\ journal[i].at \in Nat
          /\ i \in Transactions(p) <=> i \notin Earlier(p) /\ Within(journal[i].at, <<NoTime, p[2]>>)
          /\ i \in Earlier(p) => Within(journal[i].at, <<NoTime, p[2]>>)
      BY WithinIs
    <3>2. i \in Earlier(p) <=> journal[i].at < p[1]
      BY <1>3 DEF Earlier
    <3>3. journal[i].at < p[1] => Day(journal[i].at) <= FirstDay(p, 0)
      <4>1. journal[i].at < p[1] => journal[i].at <= p[1]
        BY <2>1, <3>1
      <4> QED
        BY <2>1, <3>1, <4>1, DaysGoOn
    <3>4. i \in Transactions(p) => ~ (Day(journal[i].at) <= FirstDay(p, 0))
      <4> SUFFICES ASSUME i \in Transactions(p), Day(journal[i].at) <= FirstDay(p, 0) PROVE FALSE
        OBVIOUS
      <4>1. p[1] <= journal[i].at
        BY <2>1, <3>1, <3>2
      <4>2. Day(p[1]) <= Day(journal[i].at) /\ Day(p[1]) \in Nat /\ Day(journal[i].at) \in Nat
        BY <2>1, <3>1, <4>1, DaysGoOn
      <4>3. Day(journal[i].at) = FirstDay(p, 0)
        BY <2>1, <4>2
      <4> QED
        BY <4>3 DEF OnDay
    <3>5. i \in UpToDay(p, FirstDay(p, 0)) <=>
            Day(journal[i].at) <= FirstDay(p, 0) /\ Within(journal[i].at, <<NoTime, p[2]>>)
      BY DEF UpToDay
    <3> QED
      BY <3>1, <3>2, <3>3, <3>4, <3>5
  <2> QED
    BY <1>1, <2>2
<1> QED
  BY <1>2, <1>3

LEMMA DailyPointsAreRight ==
  ASSUME TypeOK, JournalIsInOrder
  PROVE  DailyPointsAreClosingBalances
<1> SUFFICES ASSUME NEW p \in Periods, NEW offset \in Offsets,
                    NEW d \in {FirstDay(p, offset)} \cup DaysOfTransactions(p),
                    d \in DaysOfTransactions(p) \/ FirstDay(p, offset) = FirstDay(p, 0)
             PROVE  BalanceSeries(p, offset)[d] = CentsOf(journal, UpToDay(p, d))
  BY DEF DailyPointsAreClosingBalances, BalanceSeries, ClosingBalance, UpToDay
<1>1. PICK On : On = OnDay(p, d)
  OBVIOUS
<1>2. BalanceSeries(p, offset)[d] = Replay(p)[Max({0} \cup On)].balance
  BY <1>1 DEF BalanceSeries, OnDay
<1>3. PICK n \in Nat : ChartPoints(p) \subseteq 0 .. n
  BY NothingBefore
<1>4. On \subseteq Transactions(p) /\ {0} \cup On \subseteq ChartPoints(p)
  BY <1>1 DEF OnDay, ChartPoints
<1>5. PICK S \in SUBSET (0 .. n) : S = {0} \cup On /\ S # {}
  BY <1>3, <1>4
<1>6. PICK m \in S : m = Max(S) /\ \A i \in S : i <= m
  BY <1>5, MaxIsLast
<1>7. m \in ChartPoints(p) /\ BalanceSeries(p, offset)[d] = HeldAt(p, m)
  <2>1. m \in ChartPoints(p)
    BY <1>4, <1>5, <1>6
  <2> QED
    BY <1>2, <1>5, <1>6, <2>1, ReplayAt DEF PointIsRight
<1>8. journal \in Seq(Row) /\ Earlier(p) \in SUBSET DOMAIN journal /\ Upper(p, m) \in SUBSET DOMAIN journal
  BY OpeningIsEarlier DEF TypeOK, Upper, Transactions
<1>9. CASE On = {}
  <2>1. d = FirstDay(p, 0)
    <3>1. d \notin DaysOfTransactions(p)
      BY <1>1, <1>9 DEF OnDay, DaysOfTransactions
    <3> QED
      BY <3>1
  <2>2. Earlier(p) = UpToDay(p, d)
    BY <1>1, <1>9, <2>1, DayIsEmpty
  <2>3. m = 0
    BY <1>5, <1>6, <1>9
  <2>4. HeldAt(p, m) = OpeningBalance(p)
    BY <2>3, NothingBefore
  <2> QED
    BY <1>7, <2>2, <2>4, OpeningIsEarlier
<1>10. CASE On # {}
  <2>1. \A i \in Transactions(p) : i \in DOMAIN journal /\ i \in Nat /\ i # 0 /\ journal[i].at \in Nat
    BY <1>8, RowFields DEF Transactions
  <2>2. m \in On /\ \A i \in On : i <= m
    <3>1. PICK i \in On : i \in Nat /\ i # 0 /\ i <= m
      BY <1>4, <1>5, <1>6, <1>10, <2>1
    <3>2. m # 0
      BY <3>1
    <3> QED
      BY <1>5, <1>6, <3>2
  <2>3. d \in Nat
    <3>1. d = Day(journal[m].at) /\ journal[m].at \in Nat
      BY <1>1, <1>4, <2>1, <2>2 DEF OnDay
    <3>2. journal[m].at <= journal[m].at
      BY <3>1
    <3> QED
      BY <3>1, <3>2, DaysGoOn
  <2>4. Earlier(p) \cup Upper(p, m) = UpToDay(p, d) /\ Earlier(p) \cap Upper(p, m) = {}
    BY <1>1, <1>10, <2>2, <2>3, DayCloses
  <2>5. CentsOf(journal, Earlier(p) \cup Upper(p, m)) = CentsOf(journal, Earlier(p)) + CentsOf(journal, Upper(p, m))
    BY <1>8, <2>4, CentsUnion
  <2> QED
    BY <1>7, <2>4, <2>5, OpeningIsEarlier DEF HeldAt
<1> QED
  BY <1>9, <1>10

(* Every point of the balance chart on a day with transactions is what the *)
(* account held at the end of that day, whatever the caller's offset, and  *)
(* so is the first one where the caller's date of the beginning is that of *)
(* UTC: compute_balance_series keeps the last balance of a day, and the    *)
(* opening balance for a first day without any.                            *)
THEOREM DaysClose == Spec => []DailyPointsAreClosingBalances
<1>1. RInv => DailyPointsAreClosingBalances
  BY DailyPointsAreRight DEF RInv
<1> QED
  BY <1>1, RInvHolds, PTL

-----------------------------------------------------------------------------
(* The past. *)

(* Rows are only added, and at the present moment; a bet that changes is   *)
(* settled at that moment, and a new one is not settled at all.            *)
Goes ==
  /\ journal' \in Seq(Row)
  /\ DOMAIN journal \subseteq DOMAIN journal'
  /\ \A i \in DOMAIN journal : journal'[i] = journal[i]
  /\ \A i \in DOMAIN journal' \ DOMAIN journal : journal'[i].at = now
  /\ \A b \in DOMAIN bets' : \/ b \in DOMAIN bets /\ bets'[b] = bets[b]
                             \/ bets'[b].status \notin Results
                             \/ bets'[b].settledAt = now

LEMMA OnlyGoes ==
  ASSUME RInv, [Next]_vars
  PROVE  Goes
<1> USE DEF RInv
<1>1. \A b \in DOMAIN bets : bets[b] \in BetRow
  BY DEF TypeOK
<1>2. CASE UNCHANGED <<journal, bets>>
  BY <1>2 DEF Goes, TypeOK
<1>3. ASSUME NEW types, NEW rows, Posted(rows, types), journal' = journal \o rows, now' = now,
             \A b \in DOMAIN bets' : \/ b \in DOMAIN bets /\ bets'[b] = bets[b]
                                     \/ bets'[b].status \notin Results
                                     \/ bets'[b].settledAt = now
      PROVE  Goes
  BY <1>3, JournalGrows DEF Goes
<1>4. CASE \E amount \in Amounts : Transact(amount) \/ Transact(-amount)
  <2>1. PICK amount \in Int, type \in {"DEPOSIT", "WITHDRAWAL"} :
          journal' = journal \o Post(type, amount) /\ now' = now /\ bets' = bets
    <3>1. PICK cents \in Amounts : Transact(cents) \/ Transact(-cents)
      BY <1>4
    <3>2. cents \in Int /\ -cents \in Int
      BY ReportsAssumption
    <3>3. PICK amount \in Int : Transact(amount)
      BY <3>1, <3>2
    <3> QED
      BY <3>3 DEF Transact, Record
  <2>2. type \in TransactionTypes
    BY DEF TransactionTypes
  <2>3. Posted(Post(type, amount), {type})
    BY <2>1, <2>2, PostOne
  <2> QED
    BY <1>3, <2>1, <2>3
<1>5. CASE \E terms \in Terms, stake \in Stakes : PlaceBet(terms, stake)
  <2>1. PICK terms \in Terms, stake \in Stakes : PlaceBet(terms, stake)
    BY <1>5
  <2>2. -stake \in Int /\ "WAGER_STAKE" \in TransactionTypes
    BY ReportsAssumption DEF TransactionTypes
  <2>3. PICK less \in Int : less = -stake
    BY <2>2
  <2>4. PICK row : /\ bets' = Append(bets, row) /\ row.status = "PENDING"
                   /\ journal' = journal \o Post("WAGER_STAKE", less) /\ now' = now
    BY <2>1, <2>3 DEF PlaceBet, Record
  <2>5. Posted(Post("WAGER_STAKE", less), {"WAGER_STAKE"})
    BY <2>2, PostOne
  <2>6. \A b \in DOMAIN bets' : (b \in DOMAIN bets /\ bets'[b] = bets[b]) \/ bets'[b].status \notin Results
    BY <2>4 DEF TypeOK, Results
  <2> QED
    BY <1>3, <2>4, <2>5, <2>6
<1>6. CASE \E b \in DOMAIN bets, result \in Results : Settle(b, result)
  <2>1. PICK a \in DOMAIN bets, result \in Results : Settle(a, result)
    BY <1>6
  <2>2. PICK cents \in Int, old \in Int : cents = Payout(a, result) /\ old = -bets[a].payout
    <3>1. Payout(a, result) \in Int
      BY PayoutIsCents
    <3>2. bets[a].payout \in Nat
      BY <1>1, BetFields
    <3>3. -bets[a].payout \in Int
      BY <3>2
    <3> QED
      BY <3>1, <3>3
  <2>3. /\ journal' = journal \o (Post("ADJUSTMENT", old) \o Post("WAGER_PAYOUT", cents)) /\ now' = now
        /\ bets' = [bets EXCEPT ![a] = SettledRow(a, result)]
    BY <2>1, <2>2 DEF Settle, Record
  <2>4. PICK rows : rows = Post("ADJUSTMENT", old) \o Post("WAGER_PAYOUT", cents)
    OBVIOUS
  <2>5. Posted(rows, {"ADJUSTMENT", "WAGER_PAYOUT"})
    BY <2>4, PostTwo
  <2>6. SettledRow(a, result).settledAt = now
    BY <1>1 DEF SettledRow, BetRow
  <2>7. \A b \in DOMAIN bets' : (b \in DOMAIN bets /\ bets'[b] = bets[b]) \/ bets'[b].settledAt = now
    BY <2>3, <2>6 DEF TypeOK
  <2> QED
    BY <1>3, <2>3, <2>4, <2>5, <2>7
<1>7. CASE Tick
  BY <1>2, <1>7 DEF Tick
<1> QED
  BY <1>2, <1>4, <1>5, <1>6, <1>7 DEF Next, vars

LEMMA SamePoints ==
  ASSUME TypeOK, Goes, NEW p, Transactions(p)' = Transactions(p), OpeningBalance(p)' = OpeningBalance(p)
  PROVE  \A i \in 0 .. Len(journal) : Points(p)'[i] = Points(p)[i]
<1>1. /\ journal \in Seq(Row) /\ Len(journal) \in Nat /\ DOMAIN journal = 1 .. Len(journal)
      /\ Len(journal') \in Nat /\ DOMAIN journal' = 1 .. Len(journal')
  BY DEF TypeOK, Goes
<1>2. Len(journal) <= Len(journal')
  <2>1. Len(journal) # 0 => Len(journal) \in DOMAIN journal'
    BY <1>1 DEF Goes
  <2> QED
    BY <1>1, <2>1
<1>3. /\ Points(p)[0] = Opened(p)
      /\ \A i \in 1 .. Len(journal) : Points(p)[i] = AfterRow(Points(p)[i - 1], p, i)
  BY <1>1, PointsLoop
<1>4. /\ Points(p)'[0] = Opened(p)'
      /\ \A i \in 1 .. Len(journal') : Points(p)'[i] = AfterRow(Points(p)[i - 1], p, i)'
  <2>1. LoopsOverRows'
    BY LoopAlwaysIs, PTL
  <2> QED
    BY <1>1, <2>1 DEF LoopsOverRows
<1>5. PICK q, r : q = Points(p) /\ r = Points(p)'
  OBVIOUS
<1>6. q[0] = r[0]
  BY <1>1, <1>3, <1>4, <1>5 DEF Opened
<1>7. ASSUME NEW i \in 1 .. Len(journal), r[i - 1] = q[i - 1]
      PROVE  r[i] = q[i]
  <2>1. i \in DOMAIN journal /\ i \in 1 .. Len(journal')
    BY <1>1, <1>2
  <2>2. journal'[i] = journal[i]
    BY <2>1 DEF Goes
  <2>3. q[i] = IF i \notin Transactions(p) THEN q[i - 1] ELSE AfterTransaction(q[i - 1], journal[i].amount)
    BY <1>3, <1>5 DEF AfterRow
  <2>4. r[i] = IF i \notin Transactions(p)' THEN r[i - 1] ELSE AfterTransaction(r[i - 1], journal'[i].amount)
    BY <1>1, <1>4, <1>5, <2>1 DEF AfterRow, AfterTransaction
  <2> QED
    BY <1>7, <2>2, <2>3, <2>4
<1> DEFINE S == {i \in 0 .. Len(journal) : r[i] = q[i]}
<1>8. 0 \in S
  BY <1>1, <1>6
<1>9. \A i \in 1 .. Len(journal) : i - 1 \in S => i \in S
  BY <1>1, <1>7
<1> HIDE DEF S
<1>10. \A i \in 0 .. Len(journal) : i \in S
  BY <1>1, <1>8, <1>9, Upto
<1> QED
  BY <1>5, <1>10 DEF S

LEMMA PastStands ==
  ASSUME RInv, [Next]_vars
  PROVE  PastPeriodStands
<1> SUFFICES ASSUME NEW p \in Periods, p[2] # NoTime, p[2] < now
             PROVE  /\ Replay(p)' = Replay(p)
                    /\ SettledBets(p)' \subseteq SettledBets(p)
                    /\ \A b \in SettledBets(p)' : bets'[b] = bets[b]
  BY DEF PastPeriodStands
<1>1. TypeOK /\ Goes
  BY OnlyGoes DEF RInv
<1>2. /\ p[2] \in Nat /\ p[1] \in Nat \cup {NoTime} /\ now \in Nat
      /\ p[1] # NoTime => p[1] <= p[2]
  BY <1>1, PeriodFields DEF TypeOK
<1>3. ~ Within(now, p) /\ (p[1] # NoTime => ~ (now < p[1]))
  BY <1>2 DEF Within
<1>4. \A i \in DOMAIN journal' \ DOMAIN journal : journal'[i].at = now
  BY <1>1 DEF Goes
<1>5. DOMAIN journal \subseteq DOMAIN journal' /\ \A i \in DOMAIN journal : journal'[i] = journal[i]
  BY <1>1 DEF Goes
<1>6. Transactions(p)' = Transactions(p)
  BY <1>3, <1>4, <1>5 DEF Transactions, Within
<1>7. OpeningBalance(p)' = OpeningBalance(p)
  <2>1. CASE p[1] = NoTime
    BY <2>1 DEF OpeningBalance
  <2>2. CASE p[1] # NoTime
    <3>1. {i \in DOMAIN journal' : journal'[i].at < p[1]} = {i \in DOMAIN journal : journal[i].at < p[1]}
      BY <1>3, <1>4, <1>5, <2>2
    <3>2. PICK I : I = {i \in DOMAIN journal : journal[i].at < p[1]}
      OBVIOUS
    <3>3. PICK more : more = journal'
      OBVIOUS
    <3>4. /\ more \in Seq(Row) /\ journal \in Seq(Row) /\ I \in SUBSET DOMAIN journal
          /\ I \subseteq DOMAIN more /\ \A i \in I : more[i] = journal[i]
      BY <1>1, <1>5, <3>2, <3>3 DEF Goes, TypeOK
    <3>5. CentsOf(more, I) = CentsOf(journal, I)
      BY <3>4, CentsSame
    <3> QED
      BY <2>2, <3>1, <3>2, <3>3, <3>5 DEF OpeningBalance, CentsOf
  <2> QED
    BY <2>1, <2>2
<1>8. Replay(p)' = Replay(p)
  <2>1. \A i \in 0 .. Len(journal) : Points(p)'[i] = Points(p)[i]
    BY <1>1, <1>6, <1>7, SamePoints
  <2>2. {0} \cup Transactions(p) \subseteq 0 .. Len(journal)
    BY <1>1, NothingBefore DEF ChartPoints
  <2>3. \A i \in {0} \cup Transactions(p) : Points(p)'[i] = Points(p)[i]
    BY <2>1, <2>2
  <2> QED
    BY <1>6, <2>3 DEF Replay
<1>9. ASSUME NEW b \in SettledBets(p)'
      PROVE  b \in DOMAIN bets /\ bets'[b] = bets[b]
  <2>1. b \in DOMAIN bets' /\ bets'[b].status \in Results /\ Within(bets'[b].settledAt, p)
    BY <1>9 DEF SettledBets, Within
  <2> QED
    BY <1>1, <1>3, <2>1 DEF Goes
<1>10. SettledBets(p)' \subseteq SettledBets(p)
  BY <1>9 DEF SettledBets, Within
<1> QED
  BY <1>8, <1>9, <1>10

(* What happens now does not change the charts of the past, and a bet      *)
(* leaves a past period only when a correction settles it again.           *)
THEOREM PastIsKept == Spec => PastPeriodsStand
<1>1. RInv /\ [Next]_vars => [PastPeriodStands]_vars
  BY PastStands
<1> QED
  BY <1>1, RInvHolds, PTL DEF Spec, PastPeriodsStand

-----------------------------------------------------------------------------
(* Breakdowns. *)

(* What a bet won or lost. *)
NetOf == [b \in DOMAIN bets |-> bets[b].payout - bets[b].stake]

LEMMA NetIsSummed ==
  ASSUME TypeOK, NEW B \in SUBSET DOMAIN bets
  PROVE  /\ \A b \in B : NetOf[b] \in Int
         /\ NetProfit(B) = SumFunctionOnSet(NetOf, B)
<1>1. /\ IsFiniteSet(B)
      /\ \A b \in B : StakeOf[b] = bets[b].stake /\ PayoutOf[b] = bets[b].payout
      /\ \A b \in B : StakeOf[b] \in Int /\ PayoutOf[b] \in Int
      /\ NetProfit(B) = SumFunctionOnSet(PayoutOf, B) - SumFunctionOnSet(StakeOf, B)
      /\ SumFunctionOnSet(StakeOf, B) \in Int
  BY BetsAreSummed
<1>2. PICK f, g, h : f = NetOf /\ g = StakeOf /\ h = PayoutOf
  OBVIOUS
<1>3. ASSUME NEW b \in B PROVE f[b] \in Int /\ h[b] = f[b] + g[b]
  <2>1. f[b] = h[b] - g[b]
    BY <1>1, <1>2 DEF NetOf
  <2>2. g[b] \in Int /\ h[b] \in Int
    BY <1>1, <1>2
  <2> QED
    BY <2>1, <2>2
<1>4. \A b \in B : f[b] \in Int /\ g[b] \in Int
  BY <1>1, <1>2, <1>3
<1>5. SumFunctionOnSet(h, B) = SumFunctionOnSet(f, B) + SumFunctionOnSet(g, B)
  BY <1>1, <1>3, <1>4, SumPlus
<1>6. SumFunctionOnSet(f, B) \in Int
  BY <1>1, <1>4, SumType
<1>7. NetProfit(B) = SumFunctionOnSet(f, B)
  BY <1>1, <1>2, <1>5, <1>6
<1> QED
  BY <1>2, <1>4, <1>7

(* Grouped by any of their terms, the bets of a period are all counted. *)
LEMMA GroupsSum ==
  ASSUME TypeOK, NEW p, NEW term, NEW groups, groups = Breakdown(p, term)
  PROVE  /\ SumFunctionOnSet([v \in DOMAIN groups |-> groups[v]["bets"]], DOMAIN groups) = Summary(p).bets
         /\ SumFunctionOnSet([v \in DOMAIN groups |-> groups[v]["net"]], DOMAIN groups) = Summary(p).net
<1>1. PICK B \in SUBSET DOMAIN bets : B = SettledBets(p)
  BY DEF SettledBets
<1>2. PICK k : k = [b \in B |-> bets[b].terms[term]]
  OBVIOUS
<1>3. PICK V : V = {k[b] : b \in B}
  OBVIOUS
<1>4. V = {bets[b].terms[term] : b \in B}
  BY <1>2, <1>3
<1>5. \A v : {b \in B : bets[b].terms[term] = v} = {b \in B : k[b] = v}
  BY <1>2
<1>6. /\ DOMAIN groups = V
      /\ \A v \in V : /\ groups[v]["bets"] = Cardinality({b \in B : k[b] = v})
                      /\ groups[v]["net"] = NetProfit({b \in B : k[b] = v})
  BY <1>1, <1>4, <1>5 DEF Breakdown
<1>7. IsFiniteSet(B)
  BY BetsAreSummed
<1>8. SumFunctionOnSet([v \in DOMAIN groups |-> groups[v]["net"]], DOMAIN groups) = Summary(p).net
  <2>1. PICK f : f = NetOf
    OBVIOUS
  <2>2. PICK g : g = [v \in DOMAIN groups |-> groups[v]["net"]]
    OBVIOUS
  <2>3. \A b \in B : f[b] \in Int
    BY <2>1, NetIsSummed
  <2>4. ASSUME NEW v \in V PROVE g[v] = SumFunctionOnSet(f, {b \in B : k[b] = v})
    <3>1. {b \in B : k[b] = v} \in SUBSET DOMAIN bets
      OBVIOUS
    <3>2. NetProfit({b \in B : k[b] = v}) = SumFunctionOnSet(f, {b \in B : k[b] = v})
      BY <2>1, <3>1, NetIsSummed
    <3> QED
      BY <1>6, <2>2, <3>2
  <2>5. SumFunctionOnSet(g, GroupKeys(k, B)) = SumFunctionOnSet(f, B)
    <3>1. \A v \in GroupKeys(k, B) : g[v] = SumFunctionOnSet(f, GroupOf(k, B, v))
      BY <1>3, <2>4 DEF GroupKeys, GroupOf
    <3>2. \A b \in B : f[b] \in Int
      BY <2>3
    <3> QED
      BY <1>7, <3>1, <3>2, SumOfGroups
  <2>6. Summary(p).net = SumFunctionOnSet(f, B)
    BY <1>1, <2>1, NetIsSummed DEF Summary
  <2> QED
    BY <1>3, <1>6, <2>2, <2>5, <2>6 DEF GroupKeys
<1>9. SumFunctionOnSet([v \in DOMAIN groups |-> groups[v]["bets"]], DOMAIN groups) = Summary(p).bets
  <2>1. PICK one : one = [b \in B |-> 1]
    OBVIOUS
  <2>2. PICK g : g = [v \in DOMAIN groups |-> groups[v]["bets"]]
    OBVIOUS
  <2>3. \A b \in B : one[b] = 1 /\ one[b] \in Int
    BY <2>1
  <2>4. ASSUME NEW v \in V PROVE g[v] = SumFunctionOnSet(one, {b \in B : k[b] = v})
    <3>1. PICK G : G = {b \in B : k[b] = v}
      OBVIOUS
    <3>2. IsFiniteSet(G) /\ \A b \in G : one[b] = 1
      BY <1>7, <2>3, <3>1, FS_Subset
    <3>3. Cardinality(G) = SumFunctionOnSet(one, G)
      BY <3>2, CountIsSum
    <3> QED
      BY <1>6, <2>2, <3>1, <3>3
  <2>5. SumFunctionOnSet(g, GroupKeys(k, B)) = SumFunctionOnSet(one, B)
    <3>1. \A v \in GroupKeys(k, B) : g[v] = SumFunctionOnSet(one, GroupOf(k, B, v))
      BY <1>3, <2>4 DEF GroupKeys, GroupOf
    <3>2. \A b \in B : one[b] \in Int
      BY <2>3
    <3> QED
      BY <1>7, <3>1, <3>2, SumOfGroups
  <2>6. Cardinality(B) = SumFunctionOnSet(one, B)
    BY <1>7, <2>3, CountIsSum
  <2>7. Summary(p).bets = SumFunctionOnSet(one, B)
    BY <1>1, <2>6 DEF Summary
  <2> QED
    BY <1>3, <1>6, <2>2, <2>5, <2>7 DEF GroupKeys
<1> QED
  BY <1>8, <1>9

LEMMA BoundsGrow ==
  ASSUME NEW bounds \in Seq(Int), \A i \in 1 .. Len(bounds) : i > 1 => bounds[i - 1] < bounds[i],
         NEW i \in 1 .. Len(bounds), NEW j \in 1 .. Len(bounds), i <= j
  PROVE  bounds[i] <= bounds[j]
<1>1. Len(bounds) \in Nat /\ \A k \in 1 .. Len(bounds) : bounds[k] \in Int
  OBVIOUS
<1>2. PICK n \in Nat : n = j - i
  OBVIOUS
<1> DEFINE S == {k \in 0 .. n : bounds[i] <= bounds[i + k]}
<1>3. 0 \in S
  BY <1>1
<1>4. ASSUME NEW k \in 1 .. n, k - 1 \in S
      PROVE  k \in S
  <2>1. PICK m \in 1 .. Len(bounds) : m = i + k /\ m - 1 \in 1 .. Len(bounds)
    BY <1>1, <1>2
  <2>2. i + (k - 1) = m - 1 /\ m > 1
    BY <2>1
  <2>3. bounds[i] <= bounds[m - 1]
    BY <1>4, <2>2
  <2>4. bounds[m - 1] < bounds[m]
    BY <2>1, <2>2
  <2>5. bounds[i] \in Int /\ bounds[m - 1] \in Int /\ bounds[m] \in Int
    BY <1>1, <2>1
  <2>6. bounds[i] <= bounds[m]
    BY <2>3, <2>4, <2>5
  <2> QED
    BY <2>1, <2>6
<1> HIDE DEF S
<1>5. \A k \in 0 .. n : k \in S
  BY <1>3, <1>4, Upto
<1>6. n \in S /\ i + n = j
  BY <1>2, <1>5
<1> QED
  BY <1>6 DEF S

LEMMA TimesGrow ==
  ASSUME NEW x \in Int, NEW y \in Int, x <= y, NEW n \in Nat
  PROVE  x * n <= y * n
<1>1. PICK k \in Nat : y = x + k
  <2>1. y - x \in Nat /\ y = x + (y - x)
    OBVIOUS
  <2> QED
    BY <2>1
<1>2. y * n = x * n + k * n
  BY <1>1
<1>3. k * n \in Nat /\ x * n \in Int
  OBVIOUS
<1> QED
  BY <1>2, <1>3

(* A settled bet is in the bucket of the last boundary it reaches. *)
LEMMA OneBucket ==
  ASSUME TypeOK, BetsAreRight, NEW p, NEW list \in BucketLists, Accepted(list), NEW b \in SettledBets(p)
  PROVE  Cardinality({i \in DOMAIN Calibration(p, list) : b \in Calibration(p, list)[i]}) = 1
<1> DEFINE bounds == <<0>> \o list
           Reaches(i) == bets[b].stake * 100 >= bounds[i] * bets[b].before
           In(i) == Reaches(i) /\ (i < Len(bounds) => ~ Reaches(i + 1))
<1>1. /\ bets[b].stake \in Nat \ {0} /\ bets[b].before \in Nat
      /\ bets[b].stake <= bets[b].before
  <2>1. b \in DOMAIN bets
    BY DEF SettledBets
  <2>2. bets[b] \in BetRow
    BY <2>1 DEF TypeOK
  <2> QED
    BY <2>1, <2>2, BetFields DEF BetsAreRight
<1>2. PICK n \in Nat : n = Len(bounds) /\ n > 0 /\ DOMAIN bounds = 1 .. n
  BY ReportsAssumption
<1>3. list \in Seq(Int) /\ bounds \in Seq(Int)
  BY ReportsAssumption
<1>4. \A i \in 1 .. n : i > 1 => bounds[i - 1] < bounds[i]
  <2> SUFFICES ASSUME NEW i \in 1 .. n, i > 1 PROVE bounds[i - 1] < bounds[i]
    OBVIOUS
  <2>1. i - 1 \in DOMAIN list /\ bounds[i] = list[i - 1]
    BY <1>2, <1>3
  <2>2. CASE i = 2
    BY <1>3, <2>1, <2>2 DEF Accepted
  <2>3. CASE i # 2
    <3>1. bounds[i - 1] = list[i - 2] /\ i - 1 > 1
      BY <1>2, <1>3, <2>1, <2>3
    <3>2. PICK j \in DOMAIN list : j = i - 1 /\ j > 1 /\ j - 1 = i - 2
      BY <2>1, <3>1
    <3>3. list[j - 1] < list[j]
      BY <3>2 DEF Accepted
    <3> QED
      BY <2>1, <3>1, <3>2, <3>3
  <2> QED
    BY <2>2, <2>3
<1>5. bounds[1] = 0
  BY <1>3
<1>6. /\ DOMAIN Calibration(p, list) = 1 .. n
      /\ \A i \in 1 .. n : b \in Calibration(p, list)[i] <=> In(i)
  <2>1. bets[b].before > 0
    BY <1>1
  <2> QED
    BY <1>2, <2>1 DEF Calibration
<1> HIDE DEF bounds
<1>7. \A i \in 1 .. n : bounds[i] \in Int
  BY <1>2, <1>3
<1>8. ASSUME NEW i \in 1 .. n, NEW j \in 1 .. n, i <= j, Reaches(j)
      PROVE  Reaches(i)
  <2>1. PICK x \in Int, y \in Int : x = bounds[i] /\ y = bounds[j]
    BY <1>7
  <2>2. PICK s \in Nat, m \in Nat : s = bets[b].stake /\ m = bets[b].before
    BY <1>1
  <2>3. x <= y
    BY <1>2, <1>3, <1>4, <1>8, <2>1, BoundsGrow
  <2>4. x * m <= y * m /\ x * m \in Int /\ y * m \in Int
    BY <2>3, TimesGrow
  <2>5. s * 100 >= y * m
    BY <1>8, <2>1, <2>2
  <2>6. s * 100 >= x * m
    BY <2>4, <2>5
  <2> QED
    BY <2>1, <2>2, <2>6
<1>9. Reaches(1) /\ 1 \in 1 .. n
  <2>1. PICK s \in Nat, m \in Nat : s = bets[b].stake /\ m = bets[b].before
    BY <1>1
  <2>2. s * 100 >= 0 * m
    BY <2>1
  <2> QED
    BY <1>2, <1>5, <2>1, <2>2
<1>10. PICK T : T = {i \in 1 .. n : Reaches(i)}
  OBVIOUS
<1>11. T \in SUBSET (0 .. n) /\ T # {}
  BY <1>9, <1>10
<1>12. PICK w \in T : w = Max(T) /\ \A i \in T : i <= w
  BY <1>11, MaxIsLast
<1>13. w \in 1 .. n /\ Reaches(w)
  BY <1>10, <1>12
<1>14. In(w)
  <2> SUFFICES ASSUME w < n, Reaches(w + 1) PROVE FALSE
    BY <1>2, <1>13
  <2>1. w + 1 \in 1 .. n
    BY <1>2, <1>13
  <2>2. w + 1 \in T
    BY <1>10, <2>1
  <2> QED
    BY <1>12, <1>13, <2>2
<1>15. ASSUME NEW i \in 1 .. n, In(i)
       PROVE  i = w
  <2> SUFFICES ASSUME i # w PROVE FALSE
    OBVIOUS
  <2>1. i \in T
    BY <1>10, <1>15
  <2>2. i <= w
    BY <1>12, <2>1
  <2>3. i + 1 <= w /\ i < n /\ i + 1 \in 1 .. n
    BY <1>13, <2>2
  <2>4. Reaches(i + 1)
    BY <1>8, <1>13, <2>3
  <2> QED
    BY <1>2, <1>15, <2>3, <2>4
<1>16. {i \in DOMAIN Calibration(p, list) : b \in Calibration(p, list)[i]} = {w}
  BY <1>6, <1>13, <1>14, <1>15
<1> QED
  BY <1>16, FS_Singleton

LEMMA BreakdownsAdd ==
  ASSUME TypeOK, BetsAreRight
  PROVE  BreakdownsPartition
<1>1. ASSUME NEW p, NEW groups \in {BySport(p), ByMarketType(p), ByRationaleCategory(p)}
      PROVE  /\ SumFunctionOnSet([v \in DOMAIN groups |-> groups[v]["bets"]], DOMAIN groups) = Summary(p).bets
             /\ SumFunctionOnSet([v \in DOMAIN groups |-> groups[v]["net"]], DOMAIN groups) = Summary(p).net
  <2>1. PICK term : groups = Breakdown(p, term)
    BY <1>1 DEF BySport, ByMarketType, ByRationaleCategory
  <2> QED
    BY <2>1, GroupsSum
<1>2. \A p : GroupsAddUp(p)
  BY <1>1 DEF GroupsAddUp
<1>3. \A p : BucketsPartition(p)
  BY OneBucket DEF BucketsPartition
<1> QED
  BY <1>2, <1>3 DEF BreakdownsPartition

(* The breakdowns split the summary: every settled bet is in one group of  *)
(* _breakdown_rows and in one bucket of _calibration, for every list of    *)
(* boundaries _parse_buckets accepts; none has a bankroll of 0 to be left  *)
(* out for.                                                                *)
THEOREM BreakdownsSplitTheSummary == Spec => []BreakdownsPartition
<1>1. RInv => BreakdownsPartition
  BY BreakdownsAdd DEF RInv
<1> QED
  BY <1>1, RInvHolds, PTL
=============================================================================
