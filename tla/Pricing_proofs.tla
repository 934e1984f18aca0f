--------------------------- MODULE Pricing_proofs ---------------------------
(***************************************************************************)
(* What the checks of create_market, create_quote and sync_quotes achieve  *)
(* without a constraint in the database, for any number of requests and    *)
(* imports at the same time, over any markets.                             *)
(***************************************************************************)
EXTENDS Pricing, FiniteSetTheorems, SequenceTheorems, TLAPS

MarketRow == [terms : Terms, status : {"DRAFT", "OPEN"}]

Addition == [market : Nat \cup {New}, selection : Selections]

(* The fields of requests, as far as the proofs look at them.              *)
IsRequest(r) ==
  \/ r.step = "market" /\ r.terms \in Terms
  \/ r.step \in {"quote", "commit"} /\ r.market \in DOMAIN markets /\ r.selection \in Selections
  \/ /\ r.step = "import"
     /\ DOMAIN r = {"step", "terms", "todo", "created", "added", "flushed", "opens"}
     /\ r.terms \in Terms
     /\ r.todo \in Seq(Selections)
     /\ r.created \in BOOLEAN
     /\ r.added \in Seq(Addition)
     /\ r.flushed \in 0 .. Len(r.added)

RowsOK ==
  /\ markets \in Seq(MarketRow)
  /\ quotes \in Seq([market : Nat, selection : Selections, source : {"MANUAL", "FEED"}])
  /\ req = [s \in Sessions |-> req[s]]
  /\ \A s \in Sessions : req[s] # None => IsRequest(req[s])

-----------------------------------------------------------------------------
(* How many copies there are. *)

(* Who is about to commit a market of terms t. *)
Creating(t) ==
  {s \in Sessions : /\ req[s] # None
                    /\ \/ req[s].step = "market"
                       \/ req[s].step = "import" /\ req[s].created
                    /\ req[s].terms = t}

(* Who is about to commit a quote by hand of this side of m. *)
Quoting(m, selection) ==
  {s \in Sessions : /\ req[s] # None
                    /\ req[s].step \in {"quote", "commit"}
                    /\ req[s].market = m /\ req[s].selection = selection}

CInv ==
  /\ RowsOK
  /\ \A t \in Terms :
       Cardinality(RowsOf(t)) + Cardinality(Creating(t)) <= Cardinality(Sessions)
  /\ \A m \in Nat, selection \in Selections :
       Cardinality(ByHand(m, selection)) + Cardinality(Quoting(m, selection)) <= Cardinality(Sessions)

(* The rows R there are, and the requests C about to add one: they grow    *)
(* only by looking first, or by one of C adding its row.                   *)
LEMMA StillBounded ==
  ASSUME NEW R, IsFiniteSet(R), NEW C \in SUBSET Sessions, NEW R2, NEW C2 \in SUBSET Sessions,
         Cardinality(R) + Cardinality(C) <= Cardinality(Sessions),
         \/ R2 = R /\ (R = {} \/ C2 \subseteq C)
         \/ \E n, s : n \notin R /\ R2 = R \cup {n} /\ s \in C /\ C2 \subseteq C \ {s}
  PROVE  Cardinality(R2) + Cardinality(C2) <= Cardinality(Sessions)
<1>1. IsFiniteSet(Sessions) /\ IsFiniteSet(C) /\ IsFiniteSet(C2)
  BY PricingAssumption, FS_Subset
<1>2. /\ Cardinality(R) \in Nat /\ Cardinality(C) \in Nat /\ Cardinality(C2) \in Nat
      /\ Cardinality(Sessions) \in Nat
  BY <1>1, FS_CardinalityType
<1>3. CASE R2 = R /\ R = {}
  <2>1. Cardinality(R2) = 0
    BY <1>3, FS_EmptySet
  <2>2. Cardinality(C2) <= Cardinality(Sessions)
    BY <1>1, FS_Subset
  <2> QED
    BY <1>2, <2>1, <2>2
<1>4. CASE R2 = R /\ C2 \subseteq C
  <2>1. Cardinality(C2) <= Cardinality(C)
    BY <1>1, <1>4, FS_Subset
  <2> QED
    BY <1>2, <1>4, <2>1
<1>5. CASE \E n, s : n \notin R /\ R2 = R \cup {n} /\ s \in C /\ C2 \subseteq C \ {s}
  <2>1. PICK n, s : n \notin R /\ R2 = R \cup {n} /\ s \in C /\ C2 \subseteq C \ {s}
    BY <1>5
  <2>2. Cardinality(R2) = Cardinality(R) + 1
    BY <2>1, FS_AddElement
  <2>3. Cardinality(C \ {s}) = Cardinality(C) - 1 /\ IsFiniteSet(C \ {s})
    BY <1>1, <2>1, FS_RemoveElement
  <2>4. Cardinality(C2) <= Cardinality(C \ {s})
    BY <2>1, <2>3, FS_Subset
  <2> QED
    BY <1>2, <2>2, <2>3, <2>4
<1> QED
  BY <1>3, <1>4, <1>5

LEMMA RowsAreFinite ==
  ASSUME RowsOK
  PROVE  /\ \A t : IsFiniteSet(RowsOf(t))
         /\ \A m, selection : IsFiniteSet(ByHand(m, selection))
<1>1. Len(markets) \in Nat /\ DOMAIN markets = 1 .. Len(markets)
  BY DEF RowsOK
<1>2. Len(quotes) \in Nat /\ DOMAIN quotes = 1 .. Len(quotes)
  BY DEF RowsOK
<1>3. IsFiniteSet(1 .. Len(markets)) /\ IsFiniteSet(1 .. Len(quotes))
  BY <1>1, <1>2, FS_Interval
<1>4. ASSUME NEW t PROVE IsFiniteSet(RowsOf(t))
  <2>1. RowsOf(t) \subseteq 1 .. Len(markets)
    BY <1>1 DEF RowsOf
  <2> QED
    BY <1>3, <2>1, FS_Subset
<1>5. ASSUME NEW m, NEW selection PROVE IsFiniteSet(ByHand(m, selection))
  <2>1. ByHand(m, selection) \subseteq 1 .. Len(quotes)
    BY <1>2 DEF ByHand
  <2> QED
    BY <1>3, <2>1, FS_Subset
<1> QED
  BY <1>4, <1>5

LEMMA CountsKept ==
  ASSUME CInv, RowsOK',
         \A t \in Terms :
           \/ RowsOf(t)' = RowsOf(t) /\ (RowsOf(t) = {} \/ Creating(t)' \subseteq Creating(t))
           \/ \E n, s : /\ n \notin RowsOf(t) /\ RowsOf(t)' = RowsOf(t) \cup {n}
                       /\ s \in Creating(t) /\ Creating(t)' \subseteq Creating(t) \ {s},
         \A m \in Nat, selection \in Selections :
           \/ /\ ByHand(m, selection)' = ByHand(m, selection)
              /\ ByHand(m, selection) = {} \/ Quoting(m, selection)' \subseteq Quoting(m, selection)
           \/ \E n, s : /\ n \notin ByHand(m, selection)
                       /\ ByHand(m, selection)' = ByHand(m, selection) \cup {n}
                       /\ s \in Quoting(m, selection)
                       /\ Quoting(m, selection)' \subseteq Quoting(m, selection) \ {s}
  PROVE  CInv'
<1>1. ASSUME NEW t \in Terms
      PROVE  Cardinality(RowsOf(t)') + Cardinality(Creating(t)') <= Cardinality(Sessions)
  <2> DEFINE R == RowsOf(t)
             C == Creating(t)
             R2 == RowsOf(t)'
             C2 == Creating(t)'
  <2>1. IsFiniteSet(R) /\ C \in SUBSET Sessions /\ C2 \in SUBSET Sessions
    BY RowsAreFinite DEF CInv, Creating
  <2>2. Cardinality(R) + Cardinality(C) <= Cardinality(Sessions)
    BY DEF CInv
  <2>3. \/ R2 = R /\ (R = {} \/ C2 \subseteq C)
        \/ \E n, s : n \notin R /\ R2 = R \cup {n} /\ s \in C /\ C2 \subseteq C \ {s}
    OBVIOUS
  <2> HIDE DEF R, C, R2, C2
  <2>4. Cardinality(R2) + Cardinality(C2) <= Cardinality(Sessions)
    BY <2>1, <2>2, <2>3, StillBounded
  <2> QED
    BY <2>4 DEF R2, C2
<1>2. ASSUME NEW m \in Nat, NEW selection \in Selections
      PROVE  Cardinality(ByHand(m, selection)') + Cardinality(Quoting(m, selection)')
               <= Cardinality(Sessions)
  <2> DEFINE R == ByHand(m, selection)
             C == Quoting(m, selection)
             R2 == ByHand(m, selection)'
             C2 == Quoting(m, selection)'
  <2>1. IsFiniteSet(R) /\ C \in SUBSET Sessions /\ C2 \in SUBSET Sessions
    BY RowsAreFinite DEF CInv, Quoting
  <2>2. Cardinality(R) + Cardinality(C) <= Cardinality(Sessions)
    BY DEF CInv
  <2>3. \/ R2 = R /\ (R = {} \/ C2 \subseteq C)
        \/ \E n, s : n \notin R /\ R2 = R \cup {n} /\ s \in C /\ C2 \subseteq C \ {s}
    OBVIOUS
  <2> HIDE DEF R, C, R2, C2
  <2>4. Cardinality(R2) + Cardinality(C2) <= Cardinality(Sessions)
    BY <2>1, <2>2, <2>3, StillBounded
  <2> QED
    BY <2>4 DEF R2, C2
<1> QED
  BY <1>1, <1>2 DEF CInv

(* A request of session s goes on as r, and commits nothing. *)
LEMMA RequestGoesOn ==
  ASSUME CInv, NEW s \in Sessions, NEW r,
         UNCHANGED <<markets, quotes>>, req' = [req EXCEPT ![s] = r],
         r # None => IsRequest(r),
         \A t \in Terms :
           r # None /\ (r.step = "market" \/ (r.step = "import" /\ r.created)) /\ r.terms = t
             => RowsOf(t) = {} \/ s \in Creating(t),
         \A m \in Nat, selection \in Selections :
           r # None /\ r.step \in {"quote", "commit"} /\ r.market = m /\ r.selection = selection
             => ByHand(m, selection) = {} \/ s \in Quoting(m, selection)
  PROVE  CInv'
<1>1. /\ \A u \in Sessions : req'[u] = IF u = s THEN r ELSE req[u]
      /\ req' = [u \in Sessions |-> req'[u]]
  BY DEF CInv, RowsOK
<1>2. RowsOK'
  <2>1. ASSUME NEW u \in Sessions, req'[u] # None
        PROVE  IsRequest(req[u])'
    <3>1. IsRequest(req'[u])
      BY <1>1, <2>1 DEF CInv, RowsOK
    <3> QED
      BY <3>1 DEF IsRequest
  <2> QED
    BY <1>1, <2>1 DEF CInv, RowsOK
<1>3. ASSUME NEW t \in Terms
      PROVE  RowsOf(t)' = RowsOf(t) /\ (RowsOf(t) = {} \/ Creating(t)' \subseteq Creating(t))
  <2>1. RowsOf(t)' = RowsOf(t)
    BY DEF RowsOf
  <2>2. ASSUME RowsOf(t) # {}, NEW u \in Creating(t)'
        PROVE  u \in Creating(t)
    <3>1. CASE u = s
      <4>1. /\ r # None /\ r.terms = t
            /\ r.step = "market" \/ (r.step = "import" /\ r.created)
        BY <1>1, <2>2, <3>1 DEF Creating
      <4> QED
        BY <2>2, <3>1, <4>1
    <3>2. CASE u # s
      BY <1>1, <2>2, <3>2 DEF Creating
    <3> QED
      BY <3>1, <3>2
  <2> QED
    BY <2>1, <2>2
<1>4. ASSUME NEW m \in Nat, NEW selection \in Selections
      PROVE  /\ ByHand(m, selection)' = ByHand(m, selection)
             /\ ByHand(m, selection) = {} \/ Quoting(m, selection)' \subseteq Quoting(m, selection)
  BY <1>1 DEF ByHand, Quoting
<1> QED
  BY <1>2, <1>3, <1>4, CountsKept

(* A request that ends leaves the others as they are. *)
LEMMA RequestEnds ==
  ASSUME RowsOK, NEW s \in Sessions, End(s),
         markets' \in Seq(MarketRow), DOMAIN markets \subseteq DOMAIN markets',
         quotes' \in Seq([market : Nat, selection : Selections, source : {"MANUAL", "FEED"}])
  PROVE  /\ RowsOK'
         /\ \A t \in Terms : Creating(t)' = Creating(t) \ {s}
         /\ \A m \in Nat, selection \in Selections :
              Quoting(m, selection)' = Quoting(m, selection) \ {s}
<1>1. /\ \A u \in Sessions : req'[u] = IF u = s THEN None ELSE req[u]
      /\ req' = [u \in Sessions |-> req'[u]]
  BY DEF RowsOK, End
<1>2. RowsOK'
  <2>1. ASSUME NEW u \in Sessions, req'[u] # None
        PROVE  IsRequest(req[u])'
    <3>1. IsRequest(req[u]) /\ req'[u] = req[u]
      BY <1>1, <2>1 DEF RowsOK
    <3> QED
      BY <3>1 DEF IsRequest
  <2> QED
    BY <1>1, <2>1 DEF RowsOK
<1> QED
  BY <1>1, <1>2 DEF Creating, Quoting

LEMMA CommitMarketCounts ==
  ASSUME CInv, NEW s \in Sessions, CommitMarket(s)
  PROVE  CInv'
<1> DEFINE n == Len(markets) + 1
           row == [terms |-> req[s].terms, status |-> "DRAFT"]
<1>1. /\ req[s] # None /\ req[s].step = "market" /\ req[s].terms \in Terms
      /\ markets \in Seq(MarketRow)
  BY DEF CInv, RowsOK, CommitMarket, At, IsRequest
<1>2. markets' = Append(markets, row) /\ UNCHANGED quotes /\ End(s)
  BY DEF CommitMarket
<1>3. row \in MarketRow /\ row.terms = req[s].terms
  BY <1>1 DEF MarketRow
<1> HIDE DEF row
<1>4. /\ markets' \in Seq(MarketRow) /\ DOMAIN markets' = DOMAIN markets \cup {n} /\ n \notin DOMAIN markets
      /\ \A m \in DOMAIN markets : markets'[m] = markets[m]
      /\ markets'[n] = row
  BY <1>1, <1>2, <1>3
<1>5. /\ RowsOK'
      /\ \A t \in Terms : Creating(t)' = Creating(t) \ {s}
      /\ \A m \in Nat, selection \in Selections : Quoting(m, selection)' = Quoting(m, selection) \ {s}
  BY <1>2, <1>4, RequestEnds DEF CInv, RowsOK
<1> HIDE DEF n
<1>6. ASSUME NEW t \in Terms
      PROVE  \/ RowsOf(t)' = RowsOf(t) /\ Creating(t)' \subseteq Creating(t)
             \/ /\ n \notin RowsOf(t) /\ RowsOf(t)' = RowsOf(t) \cup {n}
                /\ s \in Creating(t) /\ Creating(t)' \subseteq Creating(t) \ {s}
  <2>1. CASE t = req[s].terms
    <3>1. RowsOf(t)' = RowsOf(t) \cup {n} /\ n \notin RowsOf(t)
      BY <1>3, <1>4, <2>1 DEF RowsOf
    <3>2. s \in Creating(t)
      BY <1>1, <2>1 DEF Creating
    <3> QED
      BY <1>5, <3>1, <3>2
  <2>2. CASE t # req[s].terms
    <3>1. RowsOf(t)' = RowsOf(t)
      BY <1>3, <1>4, <2>2 DEF RowsOf
    <3> QED
      BY <1>5, <3>1
  <2> QED
    BY <2>1, <2>2
<1>7. ASSUME NEW m \in Nat, NEW selection \in Selections
      PROVE  /\ ByHand(m, selection)' = ByHand(m, selection)
             /\ Quoting(m, selection)' \subseteq Quoting(m, selection)
  BY <1>2, <1>5 DEF ByHand
<1> QED
  BY <1>5, <1>6, <1>7, CountsKept

LEMMA CheckMarketCounts ==
  ASSUME CInv, NEW s \in Sessions, NEW t \in Terms, CheckMarket(s, t)
  PROVE  CInv'
<1> DEFINE r == [step |-> "market", terms |-> t]
<1>1. UNCHANGED <<markets, quotes>> /\ req' = [req EXCEPT ![s] = r] /\ RowsOf(t) = {}
  BY DEF CheckMarket, Begin
<1>2. r.step = "market" /\ r.terms = t
  OBVIOUS
<1>3. IsRequest(r)
  BY <1>2 DEF IsRequest
<1> HIDE DEF r
<1> QED
  BY <1>1, <1>2, <1>3, RequestGoesOn

LEMMA CheckQuoteCounts ==
  ASSUME CInv, NEW s \in Sessions, NEW m \in DOMAIN markets, NEW selection \in Selections,
         CheckQuote(s, m, selection)
  PROVE  CInv'
<1> DEFINE r == [step |-> "quote", market |-> m, selection |-> selection]
<1>1. UNCHANGED <<markets, quotes>> /\ req' = [req EXCEPT ![s] = r] /\ ByHand(m, selection) = {}
  BY DEF CheckQuote, Begin
<1>2. r.step = "quote" /\ r.market = m /\ r.selection = selection
  OBVIOUS
<1>3. IsRequest(r)
  BY <1>2 DEF IsRequest
<1> HIDE DEF r
<1> QED
  BY <1>1, <1>2, <1>3, RequestGoesOn

LEMMA InsertQuoteCounts ==
  ASSUME CInv, NEW s \in Sessions, InsertQuote(s)
  PROVE  CInv'
<1> DEFINE opens == Expected(markets[req[s].market].terms)
                      \subseteq SidesOf(req[s].market) \cup {req[s].selection}
           r == [step |-> "commit", market |-> req[s].market, selection |-> req[s].selection, opens |-> opens]
<1>1. UNCHANGED <<markets, quotes>> /\ req' = [req EXCEPT ![s] = r] /\ At(s, "quote")
  BY DEF InsertQuote
<1>2. r.step = "commit" /\ r.market = req[s].market /\ r.selection = req[s].selection
  OBVIOUS
<1> HIDE DEF r, opens
<1>3. /\ req[s].market \in DOMAIN markets /\ req[s].selection \in Selections
      /\ \A m \in Nat, selection \in Selections :
           r.market = m /\ r.selection = selection => s \in Quoting(m, selection)
  BY <1>1, <1>2 DEF At, CInv, RowsOK, IsRequest, Quoting
<1>4. IsRequest(r)
  BY <1>2, <1>3 DEF IsRequest
<1> QED
  BY <1>1, <1>2, <1>3, <1>4, RequestGoesOn

LEMMA BeginImportCounts ==
  ASSUME CInv, NEW s \in Sessions, NEW t \in Terms, NEW feed \in Feeds, BeginImport(s, t, feed)
  PROVE  CInv'
<1> DEFINE r == [step |-> "import", terms |-> t, todo |-> feed, created |-> FALSE,
                 added |-> <<>>, flushed |-> 0, opens |-> {}]
<1>1. UNCHANGED <<markets, quotes>> /\ req' = [req EXCEPT ![s] = r]
  BY DEF BeginImport, Begin
<1>2. /\ r.step = "import" /\ r.terms = t /\ r.todo = feed /\ r.created = FALSE
      /\ r.added = <<>> /\ r.flushed = 0
      /\ DOMAIN r = {"step", "terms", "todo", "created", "added", "flushed", "opens"}
  OBVIOUS
<1> HIDE DEF r
<1>3. IsRequest(r)
  <2>1. r.todo \in Seq(Selections)
    BY <1>2, PricingAssumption
  <2>2. r.added \in Seq(Addition) /\ r.flushed \in 0 .. Len(r.added)
    BY <1>2
  <2> QED
    BY <1>2, <2>1, <2>2 DEF IsRequest
<1> QED
  BY <1>1, <1>2, <1>3, RequestGoesOn

(* What an import keeps of its next record: its request was q, it takes    *)
(* the record to market m, and goes on as r.                               *)
Kept(s, q, m, r) ==
  /\ q = req[s] /\ q # None /\ q.step = "import" /\ IsRequest(q)
  /\ m = New \/ m \in RowsOf(q.terms)
  /\ m = New => RowsOf(q.terms) = {} \/ q.created
  /\ UNCHANGED <<markets, quotes>> /\ req' = [req EXCEPT ![s] = r]
  /\ IsRequest(r) /\ r.step = "import" /\ r.terms = q.terms
  /\ r.created = (q.created \/ m = New)
  /\ r.added = Append(q.added, [market |-> m, selection |-> Head(q.todo)])
  /\ r.opens = IF Expected(q.terms) \subseteq SidesSeen(q, m) \cup {Head(q.todo)}
               THEN q.opens \cup {m} ELSE q.opens

LEMMA RecordKept ==
  ASSUME RowsOK, NEW s \in Sessions, ImportRecord(s)
  PROVE  \E q, m, r : Kept(s, q, m, r)
<1> DEFINE q == req[s]
           found == RowsOf(q.terms) \cup (IF q.created THEN {New} ELSE {})
           added(m) == [market |-> m, selection |-> Head(q.todo)]
           opens(m) == IF Expected(q.terms) \subseteq SidesSeen(q, m) \cup {Head(q.todo)}
                       THEN q.opens \cup {m} ELSE q.opens
           r(m) == [q EXCEPT !.todo = Tail(@), !.created = @ \/ m = New, !.added = Append(@, added(m)),
                             !.opens = opens(m)]
<1>1. PICK m \in IF found = {} THEN {New} ELSE found :
        UNCHANGED <<markets, quotes>> /\ req' = [req EXCEPT ![s] = r(m)]
  BY DEF ImportRecord
<1>2. /\ q # None /\ q.step = "import" /\ q.todo # <<>> /\ IsRequest(q)
      /\ RowsOf(q.terms) \subseteq Nat
  BY DEF ImportRecord, At, RowsOK, RowsOf
<1>3. /\ DOMAIN q = {"step", "terms", "todo", "created", "added", "flushed", "opens"}
      /\ q.terms \in Terms /\ q.todo \in Seq(Selections) /\ q.created \in BOOLEAN
      /\ q.added \in Seq(Addition) /\ q.flushed \in 0 .. Len(q.added)
  BY <1>2 DEF IsRequest
<1>4. /\ m = New \/ m \in RowsOf(q.terms)
      /\ m \in Nat \cup {New} /\ (m = New => RowsOf(q.terms) = {} \/ q.created)
  BY <1>1, <1>2, <1>3, PricingAssumption
<1> HIDE DEF found, q, opens
<1>5. Head(q.todo) \in Selections /\ Tail(q.todo) \in Seq(Selections)
  BY <1>2, <1>3
<1>6. added(m) \in Addition
  BY <1>4, <1>5 DEF Addition
<1> HIDE DEF added
<1>7. /\ r(m).step = "import" /\ r(m).terms = q.terms /\ r(m).flushed = q.flushed
      /\ r(m).todo = Tail(q.todo) /\ r(m).created = (q.created \/ m = New)
      /\ r(m).added = Append(q.added, added(m)) /\ DOMAIN r(m) = DOMAIN q
      /\ r(m).opens = opens(m)
  BY <1>2, <1>3
<1> DEFINE r2 == r(m)
<1> HIDE DEF r
<1>8. r2.added \in Seq(Addition) /\ Len(r2.added) = Len(q.added) + 1
  BY <1>3, <1>6, <1>7
<1>9. r2.flushed \in 0 .. Len(r2.added)
  BY <1>3, <1>7, <1>8
<1>10. IsRequest(r2)
  BY <1>3, <1>5, <1>7, <1>8, <1>9 DEF IsRequest
<1>11. req' = [req EXCEPT ![s] = r2] /\ UNCHANGED <<markets, quotes>> /\ q = req[s]
  BY <1>1 DEF q
<1>12. /\ r2.step = "import" /\ r2.terms = q.terms /\ r2.created = (q.created \/ m = New)
       /\ r2.added = Append(q.added, [market |-> m, selection |-> Head(q.todo)])
       /\ r2.opens = IF Expected(q.terms) \subseteq SidesSeen(q, m) \cup {Head(q.todo)}
                     THEN q.opens \cup {m} ELSE q.opens
  BY <1>7 DEF added, opens
<1> HIDE DEF r2
<1>13. Kept(s, q, m, r2)
  BY <1>2, <1>4, <1>10, <1>11, <1>12 DEF Kept
<1> QED
  BY <1>13

LEMMA ImportRecordCounts ==
  ASSUME CInv, NEW s \in Sessions, ImportRecord(s)
  PROVE  CInv'
<1>1. PICK q, m, r : Kept(s, q, m, r)
  BY RecordKept DEF CInv
<1>2. /\ q = req[s] /\ q # None /\ q.step = "import" /\ IsRequest(q)
      /\ m = New => RowsOf(q.terms) = {} \/ q.created
      /\ UNCHANGED <<markets, quotes>> /\ req' = [req EXCEPT ![s] = r]
      /\ IsRequest(r) /\ r.step = "import" /\ r.terms = q.terms
      /\ r.created = (q.created \/ m = New)
  BY <1>1 DEF Kept
<1>3. q.created => s \in Creating(q.terms)
  BY <1>2 DEF Creating
<1>4. r.created => RowsOf(r.terms) = {} \/ s \in Creating(r.terms)
  BY <1>2, <1>3
<1> QED
  BY <1>2, <1>4, RequestGoesOn

LEMMA ImportElsewhereCounts ==
  ASSUME CInv, NEW s \in Sessions, ImportElsewhere(s)
  PROVE  CInv'
<1> DEFINE q == req[s]
           r == [q EXCEPT !.flushed = Len(q.added)]
<1>1. UNCHANGED <<markets, quotes>> /\ req' = [req EXCEPT ![s] = r]
  BY DEF ImportElsewhere
<1>2. q # None /\ q.step = "import" /\ IsRequest(q)
  BY DEF ImportElsewhere, At, CInv, RowsOK
<1>3. /\ DOMAIN q = {"step", "terms", "todo", "created", "added", "flushed", "opens"}
      /\ q.terms \in Terms /\ q.todo \in Seq(Selections) /\ q.created \in BOOLEAN
      /\ q.added \in Seq(Addition)
  BY <1>2 DEF IsRequest
<1>4. q.created => s \in Creating(q.terms)
  BY <1>2 DEF Creating
<1> HIDE DEF q
<1>5. /\ r.step = "import" /\ r.terms = q.terms /\ r.flushed = Len(q.added)
      /\ r.todo = q.todo /\ r.created = q.created /\ r.added = q.added /\ DOMAIN r = DOMAIN q
  BY <1>2, <1>3
<1> HIDE DEF r
<1>6. r.flushed \in 0 .. Len(r.added)
  BY <1>3, <1>5
<1>7. IsRequest(r)
  BY <1>3, <1>5, <1>6 DEF IsRequest
<1> QED
  BY <1>1, <1>4, <1>5, <1>7, RequestGoesOn

LEMMA FailCounts ==
  ASSUME CInv, NEW s \in Sessions, Fail(s)
  PROVE  CInv'
<1>1. UNCHANGED <<markets, quotes>> /\ req' = [req EXCEPT ![s] = None]
  BY DEF Fail, End
<1> QED
  BY <1>1, RequestGoesOn

(* What the commit of a quote by hand writes. *)
LEMMA QuoteWrites ==
  ASSUME RowsOK, NEW s \in Sessions, CommitQuote(s)
  PROVE  LET r == req[s]
             n == Len(quotes) + 1
         IN  /\ r # None /\ r.step = "commit" /\ r.market \in DOMAIN markets /\ r.selection \in Selections
             /\ r.market \in Nat /\ End(s)
             /\ markets' \in Seq(MarketRow) /\ DOMAIN markets' = DOMAIN markets
             /\ \A m \in DOMAIN markets : markets'[m].terms = markets[m].terms
             /\ \A m \in DOMAIN markets :
                  markets'[m].status = "OPEN" =>
                    \/ markets[m].status = "OPEN"
                    \/ r.opens /\ m = r.market
             /\ quotes' \in Seq([market : Nat, selection : Selections, source : {"MANUAL", "FEED"}])
             /\ DOMAIN quotes' = DOMAIN quotes \cup {n} /\ n \notin DOMAIN quotes
             /\ \A i \in DOMAIN quotes : quotes'[i] = quotes[i]
             /\ quotes'[n] = [market |-> r.market, selection |-> r.selection, source |-> "MANUAL"]
<1> DEFINE r == req[s]
           n == Len(quotes) + 1
           row == [market |-> r.market, selection |-> r.selection, source |-> "MANUAL"]
<1>1. /\ r # None /\ r.step = "commit" /\ r.market \in DOMAIN markets /\ r.selection \in Selections
      /\ markets \in Seq(MarketRow) /\ r.market \in Nat
      /\ quotes \in Seq([market : Nat, selection : Selections, source : {"MANUAL", "FEED"}])
  BY DEF RowsOK, CommitQuote, At, IsRequest
<1>2. /\ quotes' = Append(quotes, row) /\ End(s)
      /\ markets' = IF r.opens THEN [markets EXCEPT ![r.market].status = "OPEN"] ELSE markets
  BY DEF CommitQuote
<1>3. row \in [market : Nat, selection : Selections, source : {"MANUAL", "FEED"}]
  BY <1>1
<1>4. /\ markets' \in Seq(MarketRow) /\ DOMAIN markets' = DOMAIN markets
      /\ \A m \in DOMAIN markets : markets'[m].terms = markets[m].terms
      /\ \A m \in DOMAIN markets : (r.opens => m # r.market) => markets'[m] = markets[m]
  <2>1. CASE r.opens
    <3> DEFINE changed == [markets[r.market] EXCEPT !.status = "OPEN"]
    <3>1. markets[r.market] \in MarketRow
      BY <1>1
    <3>2. changed \in MarketRow /\ changed.terms = markets[r.market].terms
      BY <3>1 DEF MarketRow
    <3>3. markets' = [markets EXCEPT ![r.market] = changed]
      BY <1>2, <2>1
    <3> HIDE DEF changed, r
    <3> QED
      BY <1>1, <2>1, <3>2, <3>3
  <2>2. CASE ~ r.opens
    BY <1>1, <1>2, <2>2
  <2> QED
    BY <2>1, <2>2
<1> HIDE DEF r
<1>5. /\ quotes' \in Seq([market : Nat, selection : Selections, source : {"MANUAL", "FEED"}])
      /\ DOMAIN quotes' = DOMAIN quotes \cup {n} /\ n \notin DOMAIN quotes
      /\ \A i \in DOMAIN quotes : quotes'[i] = quotes[i]
      /\ quotes'[n] = row
  BY <1>1, <1>2, <1>3
<1>6. \A m \in DOMAIN markets : markets'[m].status = "OPEN" =>
        markets[m].status = "OPEN" \/ (r.opens /\ m = r.market)
  BY <1>4
<1> QED
  BY <1>1, <1>2, <1>4, <1>5, <1>6 DEF r

LEMMA CommitQuoteCounts ==
  ASSUME CInv, NEW s \in Sessions, CommitQuote(s)
  PROVE  CInv'
<1> DEFINE r == req[s]
           n == Len(quotes) + 1
           row == [market |-> r.market, selection |-> r.selection, source |-> "MANUAL"]
<1>1. r # None /\ r.step = "commit" /\ End(s)
  BY QuoteWrites DEF CInv
<1>2. /\ markets' \in Seq(MarketRow) /\ DOMAIN markets' = DOMAIN markets
      /\ \A m \in DOMAIN markets : markets'[m].terms = markets[m].terms
  BY QuoteWrites DEF CInv
<1>3. /\ quotes' \in Seq([market : Nat, selection : Selections, source : {"MANUAL", "FEED"}])
      /\ DOMAIN quotes' = DOMAIN quotes \cup {n} /\ n \notin DOMAIN quotes
      /\ \A i \in DOMAIN quotes : quotes'[i] = quotes[i]
      /\ quotes'[n] = row
  BY QuoteWrites DEF CInv
<1> HIDE DEF r
<1>4. /\ RowsOK'
      /\ \A t \in Terms : Creating(t)' = Creating(t) \ {s}
      /\ \A m \in Nat, selection \in Selections : Quoting(m, selection)' = Quoting(m, selection) \ {s}
  BY <1>1, <1>2, <1>3, RequestEnds DEF CInv
<1> HIDE DEF n
<1>5. ASSUME NEW t \in Terms
      PROVE  RowsOf(t)' = RowsOf(t) /\ Creating(t)' \subseteq Creating(t)
  BY <1>2, <1>4 DEF RowsOf
<1>6. ASSUME NEW m \in Nat, NEW selection \in Selections
      PROVE  \/ /\ ByHand(m, selection)' = ByHand(m, selection)
                /\ Quoting(m, selection)' \subseteq Quoting(m, selection)
             \/ /\ n \notin ByHand(m, selection)
                /\ ByHand(m, selection)' = ByHand(m, selection) \cup {n}
                /\ s \in Quoting(m, selection)
                /\ Quoting(m, selection)' \subseteq Quoting(m, selection) \ {s}
  <2> DEFINE wanted == [market |-> m, selection |-> selection, source |-> "MANUAL"]
  <2>1. CASE row = wanted
    <3>1. m = r.market /\ selection = r.selection
      BY <2>1
    <3>2. s \in Quoting(m, selection)
      BY <1>1, <3>1 DEF Quoting, r
    <3>3. ByHand(m, selection)' = ByHand(m, selection) \cup {n} /\ n \notin ByHand(m, selection)
      BY <1>3, <2>1 DEF ByHand
    <3> QED
      BY <1>4, <3>2, <3>3
  <2>2. CASE row # wanted
    <3>1. ByHand(m, selection)' = ByHand(m, selection)
      BY <1>3, <2>2 DEF ByHand
    <3> QED
      BY <1>4, <3>1
  <2> QED
    BY <2>1, <2>2
<1> QED
  BY <1>4, <1>5, <1>6, CountsKept

(* What the commit of s writes, an import whose request was r. *)
ImportWritten(s, r) ==
  LET n == Len(markets) + 1
      row(m) == IF m = New THEN n ELSE m
  IN  /\ r # None /\ r.step = "import" /\ IsRequest(r) /\ End(s)
      /\ markets' \in Seq(MarketRow)
      /\ DOMAIN markets' = IF r.created THEN DOMAIN markets \cup {n} ELSE DOMAIN markets
      /\ n \in Nat /\ n \notin DOMAIN markets /\ DOMAIN markets \subseteq Nat
      /\ \A m \in DOMAIN markets : markets'[m].terms = markets[m].terms
      /\ r.created => markets'[n].terms = r.terms
      /\ \A m \in DOMAIN markets' :
           markets'[m].status = "OPEN" =>
             \/ m \in DOMAIN markets /\ markets[m].status = "OPEN"
             \/ \E o \in r.opens : row(o) = m
      /\ quotes' \in Seq([market : Nat, selection : Selections, source : {"MANUAL", "FEED"}])
      /\ DOMAIN quotes \subseteq DOMAIN quotes'
      /\ \A i \in DOMAIN quotes : quotes'[i] = quotes[i]
      /\ \A i \in DOMAIN quotes' \ DOMAIN quotes : quotes'[i].source = "FEED"
      /\ \A j \in DOMAIN r.added : \E i \in DOMAIN quotes' :
           /\ quotes'[i].market = row(r.added[j].market)
           /\ quotes'[i].selection = r.added[j].selection

LEMMA ImportWrites ==
  ASSUME RowsOK, NEW s \in Sessions, CommitImport(s)
  PROVE  ImportWritten(s, req[s])
<1> DEFINE r == req[s]
           n == Len(markets) + 1
           row(m) == IF m = New THEN n ELSE m
           rows == IF r.created THEN Append(markets, [terms |-> r.terms, status |-> "DRAFT"]) ELSE markets
           opened(m) == \E o \in r.opens : row(o) = m
           extra == [i \in DOMAIN r.added |->
                      [market |-> row(r.added[i].market), selection |-> r.added[i].selection,
                       source |-> "FEED"]]
           QuoteRow == [market : Nat, selection : Selections, source : {"MANUAL", "FEED"}]
<1>1. /\ markets' = [m \in DOMAIN rows |-> IF opened(m) THEN [rows[m] EXCEPT !.status = "OPEN"] ELSE rows[m]]
      /\ quotes' = quotes \o extra
      /\ End(s) /\ At(s, "import")
  BY DEF CommitImport
<1>2. /\ r # None /\ r.step = "import" /\ IsRequest(r)
      /\ markets \in Seq(MarketRow) /\ quotes \in Seq(QuoteRow)
  BY <1>1 DEF At, RowsOK
<1>3. r.terms \in Terms /\ r.created \in BOOLEAN /\ r.added \in Seq(Addition)
  BY <1>2 DEF IsRequest
<1>4. /\ n \in Nat /\ n \notin DOMAIN markets /\ DOMAIN markets \subseteq Nat
      /\ DOMAIN markets = 1 .. Len(markets)
  BY <1>2
<1> HIDE DEF r
<1>5. /\ rows \in Seq(MarketRow)
      /\ DOMAIN rows = IF r.created THEN DOMAIN markets \cup {n} ELSE DOMAIN markets
      /\ \A m \in DOMAIN markets : rows[m] = markets[m]
      /\ r.created => rows[n].terms = r.terms /\ rows[n].status = "DRAFT"
  <2> DEFINE fresh == [terms |-> r.terms, status |-> "DRAFT"]
  <2>1. fresh \in MarketRow /\ fresh.terms = r.terms /\ fresh.status = "DRAFT"
    BY <1>3 DEF MarketRow
  <2> HIDE DEF fresh
  <2>2. CASE r.created
    <3>1. rows = Append(markets, fresh)
      BY <2>2 DEF fresh
    <3> QED
      BY <1>2, <2>1, <2>2, <3>1
  <2>3. CASE ~ r.created
    BY <1>2, <2>3
  <2> QED
    BY <2>2, <2>3
<1> HIDE DEF rows, opened
<1>6. /\ DOMAIN markets' = DOMAIN rows
      /\ \A m \in DOMAIN rows : markets'[m] \in MarketRow /\ markets'[m].terms = rows[m].terms
      /\ \A m \in DOMAIN rows : ~ opened(m) => markets'[m] = rows[m]
  <2>1. \A m \in DOMAIN rows : rows[m] \in MarketRow
    <3>1. rows \in Seq(MarketRow)
      BY <1>5
    <3> QED
      BY <3>1
  <2>2. \A m \in DOMAIN rows :
          /\ [rows[m] EXCEPT !.status = "OPEN"] \in MarketRow
          /\ [rows[m] EXCEPT !.status = "OPEN"].terms = rows[m].terms
    BY <2>1 DEF MarketRow
  <2> QED
    BY <1>1, <2>1, <2>2
<1>7. markets' \in Seq(MarketRow)
  <2>1. Len(rows) \in Nat /\ DOMAIN rows = 1 .. Len(rows)
    BY <1>5
  <2>2. markets' \in [1 .. Len(rows) -> MarketRow]
    BY <1>1, <1>6, <2>1
  <2> QED
    BY <2>1, <2>2, SeqDef
<1>8. /\ extra \in Seq(QuoteRow) /\ DOMAIN extra = DOMAIN r.added
      /\ \A j \in DOMAIN r.added : /\ extra[j].source = "FEED"
                                  /\ extra[j].market = row(r.added[j].market)
                                  /\ extra[j].selection = r.added[j].selection
  <2>1. \A j \in DOMAIN r.added : r.added[j] \in Addition
    BY <1>3
  <2>2. \A j \in DOMAIN r.added : extra[j] \in QuoteRow
    BY <1>4, <2>1 DEF Addition
  <2>3. Len(r.added) \in Nat /\ DOMAIN r.added = 1 .. Len(r.added)
    BY <1>3
  <2>4. extra \in [1 .. Len(r.added) -> QuoteRow]
    BY <2>2, <2>3
  <2> HIDE DEF QuoteRow
  <2>5. extra \in Seq(QuoteRow)
    BY <2>3, <2>4, SeqDef
  <2> QED
    BY <2>5
<1> HIDE DEF extra, row, n, QuoteRow
<1>9. /\ quotes' \in Seq(QuoteRow) /\ Len(quotes') = Len(quotes) + Len(extra)
      /\ \A i \in 1 .. Len(quotes) + Len(extra) :
           quotes'[i] = IF i <= Len(quotes) THEN quotes[i] ELSE extra[i - Len(quotes)]
  BY <1>1, <1>2, <1>8, ConcatProperties
<1>10. /\ Len(quotes) \in Nat /\ Len(extra) \in Nat
       /\ DOMAIN quotes = 1 .. Len(quotes) /\ DOMAIN extra = 1 .. Len(extra)
       /\ DOMAIN quotes' = 1 .. Len(quotes) + Len(extra)
  BY <1>2, <1>8, <1>9
<1>11. /\ DOMAIN quotes \subseteq DOMAIN quotes'
       /\ \A i \in DOMAIN quotes : quotes'[i] = quotes[i]
  BY <1>9, <1>10
<1>12. ASSUME NEW i \in DOMAIN quotes' \ DOMAIN quotes PROVE quotes'[i].source = "FEED"
  <2>1. i - Len(quotes) \in DOMAIN extra /\ quotes'[i] = extra[i - Len(quotes)]
    BY <1>9, <1>10
  <2> QED
    BY <1>8, <2>1
<1>13. ASSUME NEW j \in DOMAIN r.added
       PROVE  \E i \in DOMAIN quotes' : /\ quotes'[i].market = row(r.added[j].market)
                                        /\ quotes'[i].selection = r.added[j].selection
  <2> DEFINE i == j + Len(quotes)
  <2>1. j \in 1 .. Len(extra)
    BY <1>8, <1>10
  <2>2. i \in DOMAIN quotes' /\ i \in 1 .. Len(quotes) + Len(extra) /\ ~ (i <= Len(quotes))
        /\ i - Len(quotes) = j
    BY <1>10, <2>1
  <2>3. quotes'[i] = extra[j]
    BY <1>9, <2>2
  <2> HIDE DEF i
  <2> QED
    BY <1>8, <2>2, <2>3
<1>14. ASSUME NEW m \in DOMAIN markets', markets'[m].status = "OPEN"
       PROVE  \/ m \in DOMAIN markets /\ markets[m].status = "OPEN"
              \/ \E o \in r.opens : row(o) = m
  <2>1. CASE opened(m)
    BY <2>1 DEF opened
  <2>2. CASE ~ opened(m)
    BY <1>5, <1>6, <1>14, <2>2
  <2> QED
    BY <2>1, <2>2
<1>15. \A m \in DOMAIN markets : markets'[m].terms = markets[m].terms
  BY <1>5, <1>6
<1>16. r.created => markets'[n].terms = r.terms
  BY <1>5, <1>6
<1> QED
  BY <1>1, <1>2, <1>4, <1>5, <1>6, <1>7, <1>9, <1>11, <1>12, <1>13, <1>14, <1>15, <1>16
     DEF ImportWritten, n, r, row, QuoteRow

LEMMA CommitImportCounts ==
  ASSUME CInv, NEW s \in Sessions, CommitImport(s)
  PROVE  CInv'
<1> DEFINE r == req[s]
           n == Len(markets) + 1
<1>1. /\ r # None /\ r.step = "import" /\ IsRequest(r) /\ End(s)
      /\ markets' \in Seq(MarketRow)
      /\ DOMAIN markets' = IF r.created THEN DOMAIN markets \cup {n} ELSE DOMAIN markets
      /\ n \in Nat /\ n \notin DOMAIN markets
      /\ \A m \in DOMAIN markets : markets'[m].terms = markets[m].terms
      /\ r.created => markets'[n].terms = r.terms
      /\ quotes' \in Seq([market : Nat, selection : Selections, source : {"MANUAL", "FEED"}])
      /\ DOMAIN quotes \subseteq DOMAIN quotes'
      /\ \A i \in DOMAIN quotes : quotes'[i] = quotes[i]
      /\ \A i \in DOMAIN quotes' \ DOMAIN quotes : quotes'[i].source = "FEED"
  <2>1. ImportWritten(s, r)
    BY ImportWrites DEF CInv
  <2> HIDE DEF r
  <2> QED
    BY <2>1 DEF ImportWritten
<1>2. r.terms \in Terms /\ r.created \in BOOLEAN
  BY <1>1 DEF IsRequest
<1> HIDE DEF r, n
<1>3. /\ RowsOK'
      /\ \A t \in Terms : Creating(t)' = Creating(t) \ {s}
      /\ \A m \in Nat, selection \in Selections : Quoting(m, selection)' = Quoting(m, selection) \ {s}
  BY <1>1, RequestEnds DEF CInv
<1>4. ASSUME NEW t \in Terms
      PROVE  \/ RowsOf(t)' = RowsOf(t) /\ Creating(t)' \subseteq Creating(t)
             \/ /\ n \notin RowsOf(t) /\ RowsOf(t)' = RowsOf(t) \cup {n}
                /\ s \in Creating(t) /\ Creating(t)' \subseteq Creating(t) \ {s}
  <2>1. CASE r.created /\ r.terms = t
    <3>1. RowsOf(t)' = RowsOf(t) \cup {n} /\ n \notin RowsOf(t)
      BY <1>1, <2>1 DEF RowsOf
    <3>2. s \in Creating(t)
      BY <1>1, <2>1 DEF Creating, r
    <3> QED
      BY <1>3, <3>1, <3>2
  <2>2. CASE ~ (r.created /\ r.terms = t)
    <3>1. RowsOf(t)' = RowsOf(t)
      BY <1>1, <2>2 DEF RowsOf
    <3> QED
      BY <1>3, <3>1
  <2> QED
    BY <2>1, <2>2
<1>5. ASSUME NEW m \in Nat, NEW selection \in Selections
      PROVE  /\ ByHand(m, selection)' = ByHand(m, selection)
             /\ Quoting(m, selection)' \subseteq Quoting(m, selection)
  <2> DEFINE wanted == [market |-> m, selection |-> selection, source |-> "MANUAL"]
  <2>1. wanted.source = "MANUAL"
    OBVIOUS
  <2> HIDE DEF wanted
  <2>2. \A i \in DOMAIN quotes' \ DOMAIN quotes : quotes'[i] # wanted
    BY <1>1, <2>1
  <2>3. {i \in DOMAIN quotes' : quotes'[i] = wanted} = {i \in DOMAIN quotes : quotes[i] = wanted}
    BY <1>1, <2>2
  <2>4. ByHand(m, selection)' = ByHand(m, selection)
    BY <2>3 DEF ByHand, wanted
  <2> QED
    BY <1>3, <2>4
<1> QED
  BY <1>3, <1>4, <1>5, CountsKept

LEMMA InitCounts ==
  ASSUME Init
  PROVE  CInv
<1>1. RowsOK
  BY DEF Init, RowsOK
<1>2. /\ \A t \in Terms : RowsOf(t) = {} /\ Creating(t) = {}
      /\ \A m \in Nat, selection \in Selections : ByHand(m, selection) = {} /\ Quoting(m, selection) = {}
  BY DEF Init, RowsOf, Creating, ByHand, Quoting
<1>3. Cardinality({}) = 0 /\ Cardinality(Sessions) \in Nat
  BY PricingAssumption, FS_EmptySet, FS_CardinalityType
<1>4. Cardinality({}) + Cardinality({}) <= Cardinality(Sessions)
  BY <1>3
<1> QED
  BY <1>1, <1>2, <1>4 DEF CInv

LEMMA StepCounts ==
  ASSUME CInv, [Next]_vars
  PROVE  CInv'
<1>1. CASE UNCHANGED vars
  <2>1. markets' = markets /\ quotes' = quotes /\ req' = req
    BY <1>1 DEF vars
  <2>2. RowsOK'
    BY <2>1 DEF CInv, RowsOK, IsRequest
  <2>3. ASSUME NEW t \in Terms
        PROVE  RowsOf(t)' = RowsOf(t) /\ Creating(t)' = Creating(t)
    BY <2>1 DEF RowsOf, Creating
  <2>4. ASSUME NEW m \in Nat, NEW selection \in Selections
        PROVE  ByHand(m, selection)' = ByHand(m, selection) /\ Quoting(m, selection)' = Quoting(m, selection)
    BY <2>1 DEF ByHand, Quoting
  <2> QED
    BY <2>2, <2>3, <2>4, CountsKept
<1>2. CASE Next
  BY <1>2, CheckMarketCounts, CheckQuoteCounts, BeginImportCounts, CommitMarketCounts, InsertQuoteCounts,
     CommitQuoteCounts, ImportRecordCounts, ImportElsewhereCounts, CommitImportCounts, FailCounts DEF Next
<1> QED
  BY <1>1, <1>2

LEMMA CountsBoundCopies ==
  ASSUME CInv
  PROVE  CopiesAreBounded
<1>1. Cardinality(Sessions) \in Nat
  BY PricingAssumption, FS_CardinalityType
<1>2. ASSUME NEW t \in Terms PROVE Cardinality(RowsOf(t)) <= Cardinality(Sessions)
  <2>1. IsFiniteSet(RowsOf(t)) /\ IsFiniteSet(Creating(t))
    BY PricingAssumption, RowsAreFinite, FS_Subset DEF CInv, Creating
  <2>2. Cardinality(RowsOf(t)) \in Nat /\ Cardinality(Creating(t)) \in Nat
    BY <2>1, FS_CardinalityType
  <2> QED
    BY <1>1, <2>2 DEF CInv
<1>3. ASSUME NEW m \in DOMAIN markets, NEW selection \in Selections
      PROVE  Cardinality(ByHand(m, selection)) <= Cardinality(Sessions)
  <2>1. IsFiniteSet(ByHand(m, selection)) /\ IsFiniteSet(Quoting(m, selection))
    BY PricingAssumption, RowsAreFinite, FS_Subset DEF CInv, Quoting
  <2>2. Cardinality(ByHand(m, selection)) \in Nat /\ Cardinality(Quoting(m, selection)) \in Nat
    BY <2>1, FS_CardinalityType
  <2>3. m \in Nat
    BY DEF CInv, RowsOK
  <2> QED
    BY <1>1, <2>2, <2>3 DEF CInv
<1> QED
  BY <1>2, <1>3 DEF CopiesAreBounded

(* COPIES STAY BOUNDED. Without any constraint in the database, the checks *)
(* of create_market, create_quote and sync_quotes leave at most as many    *)
(* markets of the same terms, and quotes by hand of the same side, as      *)
(* there can be requests at the same time: one, if these run one by one.   *)
THEOREM CopiesStayBounded == Spec => []CopiesAreBounded
<1>1. Init => CInv
  BY InitCounts
<1>2. CInv /\ [Next]_vars => CInv'
  BY StepCounts
<1>3. CInv => CopiesAreBounded
  BY CountsBoundCopies
<1> QED
  BY <1>1, <1>2, <1>3, PTL DEF Spec

-----------------------------------------------------------------------------
(* What a market was opened on. *)

(* The sides a request that opens a market counts on are in the database,  *)
(* or go in with the commit that opens it.                                 *)
SidesAdded(r, m) == {r.added[i].selection : i \in {i \in DOMAIN r.added : r.added[i].market = m}}

Backed(r) ==
  /\ r.step = "commit" /\ r.opens =>
       Expected(markets[r.market].terms) \subseteq SidesOf(r.market) \cup {r.selection}
  /\ r.step = "import" => \A m \in r.opens :
       IF m = New THEN r.created /\ Expected(r.terms) \subseteq SidesAdded(r, New)
       ELSE /\ m \in DOMAIN markets /\ markets[m].terms = r.terms
            /\ Expected(r.terms) \subseteq SidesOf(m) \cup SidesAdded(r, m)

OInv ==
  /\ RowsOK
  /\ OpenHasBothSides
  /\ \A s \in Sessions : req[s] # None => Backed(req[s])

(* Rows are added, and no terms change. *)
Grows ==
  /\ DOMAIN markets \subseteq DOMAIN markets'
  /\ \A m \in DOMAIN markets : markets'[m].terms = markets[m].terms
  /\ DOMAIN quotes \subseteq DOMAIN quotes'
  /\ \A i \in DOMAIN quotes : quotes'[i] = quotes[i]

LEMMA SidesStay ==
  ASSUME Grows, NEW m
  PROVE  SidesOf(m) \subseteq SidesOf(m)'
BY DEF Grows, SidesOf

LEMMA BackedStays ==
  ASSUME Grows, NEW r, IsRequest(r), Backed(r)
  PROVE  Backed(r)'
<1>1. ASSUME r.step = "commit", r.opens
      PROVE  Expected(markets'[r.market].terms) \subseteq SidesOf(r.market)' \cup {r.selection}
  <2>1. r.market \in DOMAIN markets
    BY <1>1 DEF IsRequest
  <2>2. markets'[r.market].terms = markets[r.market].terms
    BY <2>1 DEF Grows
  <2>3. Expected(markets[r.market].terms) \subseteq SidesOf(r.market) \cup {r.selection}
    BY <1>1 DEF Backed
  <2> QED
    BY <2>2, <2>3, SidesStay
<1>2. ASSUME r.step = "import", NEW m \in r.opens
      PROVE  IF m = New THEN r.created /\ Expected(r.terms) \subseteq SidesAdded(r, New)
             ELSE /\ m \in DOMAIN markets' /\ markets'[m].terms = r.terms
                  /\ Expected(r.terms) \subseteq SidesOf(m)' \cup SidesAdded(r, m)
  <2>1. IF m = New THEN r.created /\ Expected(r.terms) \subseteq SidesAdded(r, New)
        ELSE /\ m \in DOMAIN markets /\ markets[m].terms = r.terms
             /\ Expected(r.terms) \subseteq SidesOf(m) \cup SidesAdded(r, m)
    BY <1>2 DEF Backed
  <2>2. SidesOf(m) \subseteq SidesOf(m)'
    BY SidesStay
  <2> QED
    BY <2>1, <2>2 DEF Grows
<1> QED
  BY <1>1, <1>2 DEF Backed, SidesAdded

(* What session s does is all that needs a look. *)
LEMMA OthersStayBacked ==
  ASSUME OInv, RowsOK', Grows, NEW s \in Sessions,
         \A u \in Sessions \ {s} : req'[u] = req[u],
         req'[s] # None => Backed(req[s])',
         OpenHasBothSides'
  PROVE  OInv'
<1>1. ASSUME NEW u \in Sessions \ {s}, req'[u] # None
      PROVE  Backed(req[u])'
  <2>1. PICK r : r = req[u]
    OBVIOUS
  <2>2. IsRequest(r) /\ Backed(r) /\ r = req'[u]
    BY <1>1, <2>1 DEF OInv, RowsOK
  <2>3. Backed(r)'
    BY <2>2, BackedStays
  <2>4. \A m : SidesAdded(req[u], m)' = SidesAdded(r, m)
    BY <2>2 DEF SidesAdded
  <2>5. \A m : SidesAdded(r, m)' = SidesAdded(r, m)
    BY DEF SidesAdded
  <2>6. ASSUME req'[u].step = "commit", req'[u].opens
        PROVE  Expected(markets'[req'[u].market].terms)
                 \subseteq SidesOf(req[u].market)' \cup {req'[u].selection}
    BY <2>2, <2>3, <2>6 DEF Backed, SidesOf
  <2>7. ASSUME req'[u].step = "import", NEW m \in req'[u].opens
        PROVE  IF m = New THEN req'[u].created /\ Expected(req'[u].terms) \subseteq SidesAdded(req[u], New)'
               ELSE /\ m \in DOMAIN markets' /\ markets'[m].terms = req'[u].terms
                    /\ Expected(req'[u].terms) \subseteq SidesOf(m)' \cup SidesAdded(req[u], m)'
    <3>1. IF m = New THEN r.created /\ Expected(r.terms) \subseteq SidesAdded(r, New)'
          ELSE /\ m \in DOMAIN markets' /\ markets'[m].terms = r.terms
               /\ Expected(r.terms) \subseteq SidesOf(m)' \cup SidesAdded(r, m)'
      BY <2>2, <2>3, <2>7 DEF Backed
    <3> QED
      BY <2>2, <2>4, <2>5, <3>1
  <2> QED
    BY <2>6, <2>7 DEF Backed
<1> QED
  BY <1>1 DEF OInv

(* A request of session s goes on as r, and commits nothing. *)
LEMMA GoesOnBacked ==
  ASSUME OInv, RowsOK', NEW s \in Sessions, NEW r,
         UNCHANGED <<markets, quotes>>, req' = [req EXCEPT ![s] = r],
         r # None => Backed(r)
  PROVE  OInv'
<1>1. /\ \A u \in Sessions : req'[u] = IF u = s THEN r ELSE req[u]
  BY DEF OInv, RowsOK
<1>2. Grows
  BY DEF Grows
<1>3. OpenHasBothSides'
  BY DEF OInv, OpenHasBothSides, SidesOf
<1>4. req'[s] # None => Backed(req[s])'
  BY <1>1 DEF Backed, SidesAdded, SidesOf
<1> QED
  BY <1>1, <1>2, <1>3, <1>4, OthersStayBacked

(* A request of session s commits. *)
LEMMA EndsBacked ==
  ASSUME OInv, RowsOK', Grows, NEW s \in Sessions, End(s), OpenHasBothSides'
  PROVE  OInv'
<1>1. \A u \in Sessions : req'[u] = IF u = s THEN None ELSE req[u]
  BY DEF OInv, RowsOK, End
<1> QED
  BY <1>1, OthersStayBacked

LEMMA InsertQuoteBacked ==
  ASSUME OInv, RowsOK', NEW s \in Sessions, InsertQuote(s)
  PROVE  OInv'
<1> DEFINE opens == Expected(markets[req[s].market].terms)
                      \subseteq SidesOf(req[s].market) \cup {req[s].selection}
           r == [step |-> "commit", market |-> req[s].market, selection |-> req[s].selection, opens |-> opens]
<1>1. UNCHANGED <<markets, quotes>> /\ req' = [req EXCEPT ![s] = r]
  BY DEF InsertQuote
<1>2. r.step = "commit" /\ r.market = req[s].market /\ r.selection = req[s].selection /\ r.opens = opens
  OBVIOUS
<1> HIDE DEF r
<1>3. Backed(r)
  BY <1>2 DEF Backed
<1> HIDE DEF opens
<1> QED
  BY <1>1, <1>3, GoesOnBacked

LEMMA CommitMarketBacked ==
  ASSUME OInv, RowsOK', NEW s \in Sessions, CommitMarket(s)
  PROVE  OInv'
<1> DEFINE n == Len(markets) + 1
           row == [terms |-> req[s].terms, status |-> "DRAFT"]
<1>1. markets \in Seq(MarketRow) /\ markets' = Append(markets, row) /\ UNCHANGED quotes /\ End(s)
  BY DEF OInv, RowsOK, CommitMarket
<1>2. row.status # "OPEN"
  OBVIOUS
<1> HIDE DEF row
<1>3. /\ DOMAIN markets' = DOMAIN markets \cup {n}
      /\ \A m \in DOMAIN markets : markets'[m] = markets[m]
      /\ markets'[n] = row
  BY <1>1
<1> HIDE DEF n
<1>4. Grows
  BY <1>1, <1>3 DEF Grows
<1>5. OpenHasBothSides'
  <2>1. \A m : SidesOf(m)' = SidesOf(m)
    BY <1>1 DEF SidesOf
  <2>2. \A m \in DOMAIN markets' :
          markets'[m].status = "OPEN" => m \in DOMAIN markets /\ markets'[m] = markets[m]
    BY <1>2, <1>3
  <2> QED
    BY <2>1, <2>2 DEF OInv, OpenHasBothSides
<1> QED
  BY <1>1, <1>4, <1>5, EndsBacked

LEMMA CommitQuoteBacked ==
  ASSUME OInv, RowsOK', NEW s \in Sessions, CommitQuote(s)
  PROVE  OInv'
<1>1. PICK r : r = req[s]
  OBVIOUS
<1> DEFINE n == Len(quotes) + 1
<1>2. /\ r # None /\ r.step = "commit" /\ r.market \in DOMAIN markets /\ End(s)
      /\ DOMAIN markets' = DOMAIN markets
      /\ \A m \in DOMAIN markets : markets'[m].terms = markets[m].terms
      /\ \A m \in DOMAIN markets : markets'[m].status = "OPEN" =>
           markets[m].status = "OPEN" \/ (r.opens /\ m = r.market)
      /\ DOMAIN quotes' = DOMAIN quotes \cup {n}
      /\ \A i \in DOMAIN quotes : quotes'[i] = quotes[i]
      /\ quotes'[n] = [market |-> r.market, selection |-> r.selection, source |-> "MANUAL"]
  BY <1>1, QuoteWrites DEF OInv
<1> HIDE DEF n
<1>3. Grows
  BY <1>2 DEF Grows
<1>4. ASSUME NEW m \in DOMAIN markets, markets'[m].status = "OPEN"
      PROVE  Expected(markets[m].terms) \subseteq SidesOf(m)'
  <2>1. SidesOf(m) \subseteq SidesOf(m)'
    BY <1>3, SidesStay
  <2>2. CASE markets[m].status = "OPEN"
    BY <2>1, <2>2 DEF OInv, OpenHasBothSides
  <2>3. CASE r.opens /\ m = r.market
    <3>1. Expected(markets[m].terms) \subseteq SidesOf(m) \cup {r.selection}
      BY <1>1, <1>2, <2>3 DEF OInv, Backed
    <3>2. r.selection \in SidesOf(m)'
      BY <1>2, <2>3 DEF SidesOf
    <3> QED
      BY <2>1, <3>1, <3>2
  <2> QED
    BY <1>2, <1>4, <2>2, <2>3
<1>5. OpenHasBothSides'
  BY <1>2, <1>4 DEF OpenHasBothSides
<1> QED
  BY <1>2, <1>3, <1>5, EndsBacked

LEMMA ImportRecordBacked ==
  ASSUME OInv, RowsOK', NEW s \in Sessions, ImportRecord(s)
  PROVE  OInv'
<1>1. PICK q, m, r : Kept(s, q, m, r)
  BY RecordKept DEF OInv
<1>2. /\ q = req[s] /\ q # None /\ q.step = "import" /\ IsRequest(q)
      /\ m = New \/ m \in RowsOf(q.terms)
      /\ UNCHANGED <<markets, quotes>> /\ req' = [req EXCEPT ![s] = r]
      /\ r.step = "import" /\ r.terms = q.terms
      /\ r.created = (q.created \/ m = New)
      /\ r.added = Append(q.added, [market |-> m, selection |-> Head(q.todo)])
      /\ r.opens = IF Expected(q.terms) \subseteq SidesSeen(q, m) \cup {Head(q.todo)}
                   THEN q.opens \cup {m} ELSE q.opens
  BY <1>1 DEF Kept
<1>3. q.added \in Seq(Addition) /\ q.flushed \in 0 .. Len(q.added) /\ Len(q.added) \in Nat
  BY <1>2 DEF IsRequest
<1> DEFINE n == Len(q.added) + 1
           added == [market |-> m, selection |-> Head(q.todo)]
<1>4. /\ DOMAIN q.added = 1 .. Len(q.added)
      /\ DOMAIN r.added = DOMAIN q.added \cup {n}
      /\ \A i \in DOMAIN q.added : r.added[i] = q.added[i]
      /\ r.added[n].market = m /\ r.added[n].selection = Head(q.todo)
  <2>1. added.market = m /\ added.selection = Head(q.todo) /\ r.added = Append(q.added, added)
    BY <1>2
  <2> HIDE DEF added
  <2> QED
    BY <1>3, <2>1
<1> HIDE DEF n, added
<1>5. \A o : SidesAdded(q, o) \subseteq SidesAdded(r, o)
  BY <1>4 DEF SidesAdded
<1>6. Head(q.todo) \in SidesAdded(r, m)
  BY <1>4 DEF SidesAdded
<1>7. SidesSeen(q, m) \subseteq (IF m = New THEN {} ELSE SidesOf(m)) \cup SidesAdded(q, m)
  <2>1. 1 .. q.flushed \subseteq DOMAIN q.added
    BY <1>3, <1>4
  <2> QED
    BY <2>1 DEF SidesSeen, SidesAdded
<1>8. Backed(q)
  BY <1>2 DEF OInv
<1>9. ASSUME NEW o \in r.opens
      PROVE  IF o = New THEN r.created /\ Expected(r.terms) \subseteq SidesAdded(r, New)
             ELSE /\ o \in DOMAIN markets /\ markets[o].terms = r.terms
                  /\ Expected(r.terms) \subseteq SidesOf(o) \cup SidesAdded(r, o)
  <2>1. CASE o \in q.opens
    <3>1. IF o = New THEN q.created /\ Expected(q.terms) \subseteq SidesAdded(q, New)
          ELSE /\ o \in DOMAIN markets /\ markets[o].terms = q.terms
               /\ Expected(q.terms) \subseteq SidesOf(o) \cup SidesAdded(q, o)
      BY <1>2, <1>8, <2>1 DEF Backed
    <3>2. SidesAdded(q, o) \subseteq SidesAdded(r, o)
      BY <1>5
    <3> QED
      BY <1>2, <3>1, <3>2
  <2>2. CASE o = m /\ Expected(q.terms) \subseteq SidesSeen(q, m) \cup {Head(q.todo)}
    <3>1. Expected(r.terms) \subseteq (IF m = New THEN {} ELSE SidesOf(m)) \cup SidesAdded(r, m)
      BY <1>2, <1>5, <1>6, <1>7, <2>2
    <3>2. m # New => m \in DOMAIN markets /\ markets[m].terms = r.terms
      BY <1>2 DEF RowsOf
    <3> QED
      BY <1>2, <2>2, <3>1, <3>2
  <2> QED
    BY <1>2, <2>1, <2>2
<1>10. Backed(r)
  BY <1>2, <1>9 DEF Backed
<1> QED
  BY <1>2, <1>10, GoesOnBacked

LEMMA CommitImportBacked ==
  ASSUME OInv, RowsOK', NEW s \in Sessions, CommitImport(s)
  PROVE  OInv'
<1>1. PICK r : r = req[s]
  OBVIOUS
<1> DEFINE n == Len(markets) + 1
           row(m) == IF m = New THEN n ELSE m
<1>2. /\ r # None /\ r.step = "import" /\ IsRequest(r) /\ End(s)
      /\ DOMAIN markets' = IF r.created THEN DOMAIN markets \cup {n} ELSE DOMAIN markets
      /\ n \in Nat /\ n \notin DOMAIN markets
      /\ \A m \in DOMAIN markets : markets'[m].terms = markets[m].terms
      /\ r.created => markets'[n].terms = r.terms
      /\ \A m \in DOMAIN markets' :
           markets'[m].status = "OPEN" =>
             \/ m \in DOMAIN markets /\ markets[m].status = "OPEN"
             \/ \E o \in r.opens : row(o) = m
      /\ DOMAIN quotes \subseteq DOMAIN quotes'
      /\ \A i \in DOMAIN quotes : quotes'[i] = quotes[i]
      /\ \A j \in DOMAIN r.added : \E i \in DOMAIN quotes' :
           /\ quotes'[i].market = row(r.added[j].market)
           /\ quotes'[i].selection = r.added[j].selection
  <2>1. ImportWritten(s, r)
    BY <1>1, ImportWrites DEF OInv
  <2> QED
    BY <2>1 DEF ImportWritten
<1>3. Backed(r)
  BY <1>1, <1>2 DEF OInv
<1> HIDE DEF n
<1>4. Grows
  BY <1>2 DEF Grows
<1>5. ASSUME NEW o, NEW m, m = row(o)
      PROVE  SidesAdded(r, o) \subseteq SidesOf(m)'
  <2>1. \A j \in DOMAIN r.added : r.added[j].market = o =>
          \E i \in DOMAIN quotes' : quotes'[i].market = m /\ quotes'[i].selection = r.added[j].selection
    BY <1>2, <1>5
  <2> HIDE DEF row
  <2> QED
    BY <2>1 DEF SidesAdded, SidesOf
<1>6. ASSUME NEW m \in DOMAIN markets', markets'[m].status = "OPEN"
      PROVE  Expected(markets'[m].terms) \subseteq SidesOf(m)'
  <2>1. SidesOf(m) \subseteq SidesOf(m)'
    BY <1>4, SidesStay
  <2>2. CASE m \in DOMAIN markets /\ markets[m].status = "OPEN"
    <3>1. Expected(markets[m].terms) \subseteq SidesOf(m)
      BY <2>2 DEF OInv, OpenHasBothSides
    <3> QED
      BY <1>2, <2>1, <2>2, <3>1
  <2>3. ASSUME NEW o \in r.opens, row(o) = m
        PROVE  Expected(markets'[m].terms) \subseteq SidesOf(m)'
    <3>1. IF o = New THEN r.created /\ Expected(r.terms) \subseteq SidesAdded(r, New)
          ELSE /\ o \in DOMAIN markets /\ markets[o].terms = r.terms
               /\ Expected(r.terms) \subseteq SidesOf(o) \cup SidesAdded(r, o)
      BY <1>2, <1>3 DEF Backed
    <3>2. SidesAdded(r, o) \subseteq SidesOf(m)'
      BY <1>5, <2>3
    <3>3. CASE o = New
      BY <1>2, <2>3, <3>1, <3>2, <3>3
    <3>4. CASE o # New
      BY <1>2, <2>1, <2>3, <3>1, <3>2, <3>4
    <3> QED
      BY <3>3, <3>4
  <2> QED
    BY <1>2, <1>6, <2>2, <2>3
<1>7. OpenHasBothSides'
  BY <1>6 DEF OpenHasBothSides
<1> QED
  BY <1>2, <1>4, <1>7, EndsBacked

LEMMA OtherStepsBacked ==
  ASSUME OInv, RowsOK', NEW s \in Sessions,
         \/ \E t \in Terms : CheckMarket(s, t)
         \/ \E m \in DOMAIN markets, selection \in Selections : CheckQuote(s, m, selection)
         \/ \E t \in Terms, feed \in Feeds : BeginImport(s, t, feed)
         \/ ImportElsewhere(s)
         \/ Fail(s)
  PROVE  OInv'
<1>1. ASSUME NEW r, UNCHANGED <<markets, quotes>>, req' = [req EXCEPT ![s] = r],
             r.step \notin {"commit", "import"}
      PROVE  OInv'
  <2>1. Backed(r)
    BY <1>1 DEF Backed
  <2> QED
    BY <1>1, <2>1, GoesOnBacked
<1>2. ASSUME NEW t \in Terms, CheckMarket(s, t) PROVE OInv'
  BY <1>1, <1>2 DEF CheckMarket, Begin
<1>3. ASSUME NEW m \in DOMAIN markets, NEW selection \in Selections, CheckQuote(s, m, selection) PROVE OInv'
  BY <1>1, <1>3 DEF CheckQuote, Begin
<1>4. ASSUME NEW t \in Terms, NEW feed \in Feeds, BeginImport(s, t, feed) PROVE OInv'
  <2> DEFINE r == [step |-> "import", terms |-> t, todo |-> feed, created |-> FALSE,
                   added |-> <<>>, flushed |-> 0, opens |-> {}]
  <2>1. UNCHANGED <<markets, quotes>> /\ req' = [req EXCEPT ![s] = r]
    BY <1>4 DEF BeginImport, Begin
  <2>2. r.step = "import" /\ r.opens = {}
    OBVIOUS
  <2> HIDE DEF r
  <2>3. Backed(r)
    BY <2>2 DEF Backed
  <2> QED
    BY <2>1, <2>3, GoesOnBacked
<1>5. ASSUME ImportElsewhere(s) PROVE OInv'
  <2>1. PICK q : q = req[s]
    OBVIOUS
  <2>2. /\ q # None /\ q.step = "import" /\ IsRequest(q) /\ Backed(q)
        /\ UNCHANGED <<markets, quotes>>
        /\ req' = [req EXCEPT ![s] = [q EXCEPT !.flushed = Len(q.added)]]
    BY <1>5, <2>1 DEF ImportElsewhere, At, OInv, RowsOK
  <2> DEFINE r == [q EXCEPT !.flushed = Len(q.added)]
  <2>3. /\ r.step = "import" /\ r.terms = q.terms /\ r.created = q.created
        /\ r.added = q.added /\ r.opens = q.opens
    BY <2>2 DEF IsRequest
  <2>4. UNCHANGED <<markets, quotes>> /\ req' = [req EXCEPT ![s] = r]
    BY <2>2
  <2> HIDE DEF r
  <2>5. Backed(r)
    BY <2>2, <2>3 DEF Backed, SidesAdded
  <2> QED
    BY <2>4, <2>5, GoesOnBacked
<1>6. ASSUME Fail(s) PROVE OInv'
  <2>1. UNCHANGED <<markets, quotes>> /\ req' = [req EXCEPT ![s] = None]
    BY <1>6 DEF Fail, End
  <2> QED
    BY <2>1, GoesOnBacked
<1> QED
  BY <1>2, <1>3, <1>4, <1>5, <1>6

(* OPEN MEANS BOTH SIDES. A market opens on quotes that are committed with *)
(* it or before it, however many requests and imports overlap and fail.    *)
THEOREM OpenMarketsHaveBothSides == Spec => []OpenHasBothSides
<1>1. Init => CInv /\ OInv
  <2>1. Init => OpenHasBothSides /\ \A s \in Sessions : req[s] = None
    BY DEF Init, OpenHasBothSides
  <2> QED
    BY <2>1, InitCounts DEF CInv, OInv
<1>2. CInv /\ OInv /\ [Next]_vars => (CInv /\ OInv)'
  <2> SUFFICES ASSUME CInv, OInv, [Next]_vars PROVE CInv' /\ OInv'
    OBVIOUS
  <2>1. CInv' /\ RowsOK'
    BY StepCounts DEF CInv
  <2>2. CASE UNCHANGED vars
    <3>1. Grows
      BY <2>2 DEF vars, Grows
    <3>2. OpenHasBothSides'
      BY <2>2 DEF vars, OInv, OpenHasBothSides, SidesOf
    <3>3. ASSUME NEW s \in Sessions, req'[s] # None PROVE Backed(req[s])'
      <4>1. PICK r : r = req[s]
        OBVIOUS
      <4>2. IsRequest(r) /\ Backed(r) /\ r = req'[s]
        BY <2>2, <3>3, <4>1 DEF vars, OInv, RowsOK
      <4>3. Backed(r)'
        BY <3>1, <4>2, BackedStays
      <4> QED
        BY <4>2, <4>3 DEF Backed, SidesAdded, SidesOf
    <3> QED
      BY <2>1, <3>2, <3>3 DEF OInv
  <2>3. CASE Next
    BY <2>1, <2>3, InsertQuoteBacked, CommitMarketBacked, CommitQuoteBacked, ImportRecordBacked,
       CommitImportBacked, OtherStepsBacked DEF Next
  <2> QED
    BY <2>1, <2>2, <2>3
<1>3. OInv => OpenHasBothSides
  BY DEF OInv
<1> QED
  BY <1>1, <1>2, <1>3, PTL DEF Spec
=============================================================================
