------------------------------ MODULE Pricing ------------------------------
(***************************************************************************)
(* Markets and quotes under requests that overlap (create_market and       *)
(* create_quote of src/edgebook/cfb/services/markets.py, sync_quotes of    *)
(* src/edgebook/ingestion/services.py), where Catalog takes each request   *)
(* as one step.  Every request looks before it inserts, and sees what is   *)
(* committed when it looks; the tables have no constraint on a market's    *)
(* terms or on the quotes entered by hand.                                 *)
(*                                                                         *)
(* An import is followed on the records of one market's terms; its other   *)
(* records matter only where one of them creates a market and so flushes   *)
(* the quotes before it.  Imports overlap as well: the endpoint that       *)
(* starts one takes no advisory lock.                                      *)
(***************************************************************************)
EXTENDS Integers, Sequences, FiniteSets

CONSTANTS
  Terms,           \* game, type and line of a market; records with its type
  Feeds,           \* selections of an import's records for one market's terms
  Sessions,        \* requests in progress at the same time, at most
  None,            \* no request
  New,             \* the market an import has created and not committed
  MaxMarkets,      \* bound: no market is asked for once there are so many
  MaxQuotes        \* bound: no quote is asked for once there are so many

Selections == {"HOME", "AWAY", "OVER", "UNDER"}

ASSUME PricingAssumption ==
  /\ \A t \in Terms : t.type \in {"MONEYLINE", "SPREAD", "TOTAL"}
  /\ Feeds \subseteq Seq(Selections)
  /\ IsFiniteSet(Sessions)
  /\ New \notin Nat
  /\ MaxMarkets \in Nat /\ MaxQuotes \in Nat

VARIABLES
  markets,         \* rows of cfb_markets, known by their number
  quotes,          \* rows of cfb_market_quotes
  req              \* req[s]: the request of session s, or None

vars == <<markets, quotes, req>>

Expected(t) == IF t.type = "TOTAL" THEN {"OVER", "UNDER"} ELSE {"HOME", "AWAY"}

(* The rows of a query by terms, and the sides of a market that are quoted. *)
RowsOf(t) == {m \in DOMAIN markets : markets[m].terms = t}

SidesOf(m) == {quotes[i].selection : i \in {i \in DOMAIN quotes : quotes[i].market = m}}

ByHand(m, selection) ==
  {i \in DOMAIN quotes : quotes[i] = [market |-> m, selection |-> selection, source |-> "MANUAL"]}

Own == DOMAIN markets \cup {New}

Requests ==
  [step : {"market"}, terms : Terms]
  \cup [step : {"quote"}, market : DOMAIN markets, selection : Selections]
  \cup [step : {"commit"}, market : DOMAIN markets, selection : Selections, opens : BOOLEAN]
  \cup [step : {"import"}, terms : Terms, todo : Seq(Selections), created : BOOLEAN,
        added : Seq([market : Own, selection : Selections]), flushed : Nat, opens : SUBSET Own]

TypeOK ==
  /\ markets \in Seq([terms : Terms, status : {"DRAFT", "OPEN"}])
  /\ quotes \in Seq([market : DOMAIN markets, selection : Selections, source : {"MANUAL", "FEED"}])
  /\ \A i \in DOMAIN quotes : quotes[i].selection \in Expected(markets[quotes[i].market].terms)
  /\ req \in [Sessions -> Requests \cup {None}]

Init == markets = <<>> /\ quotes = <<>> /\ req = [s \in Sessions |-> None]

Begin(s, request) == req[s] = None /\ req' = [req EXCEPT ![s] = request]

At(s, step) == req[s] # None /\ req[s].step = step

End(s) == req' = [req EXCEPT ![s] = None]

-----------------------------------------------------------------------------
(* Faulty variant: no one looks for the market. *)
AskMarket(s, t) ==
  /\ Len(markets) < MaxMarkets
  /\ Begin(s, [step |-> "market", terms |-> t])
  /\ UNCHANGED <<markets, quotes>>

(* create_market looks for a market of the same terms ... *)
CheckMarket(s, t) ==
  /\ Len(markets) < MaxMarkets
  /\ RowsOf(t) = {}
  /\ Begin(s, [step |-> "market", terms |-> t])
  /\ UNCHANGED <<markets, quotes>>

(* ... and inserts its own. *)
CommitMarket(s) ==
  /\ At(s, "market")
  /\ markets' = Append(markets, [terms |-> req[s].terms, status |-> "DRAFT"])
  /\ End(s)
  /\ UNCHANGED quotes

(* create_quote reads the market, looks for a manual quote of this side,   *)
CheckQuote(s, m, selection) ==
  /\ Len(quotes) < MaxQuotes
  /\ selection \in Expected(markets[m].terms)
  /\ ByHand(m, selection) = {}
  /\ Begin(s, [step |-> "quote", market |-> m, selection |-> selection])
  /\ UNCHANGED <<markets, quotes>>

(* Faulty variant: quotes that are not committed yet are counted. *)
InsertQuoteDirty(s) ==
  LET r == req[s]
      others == {t \in Sessions : At(t, "commit") /\ req[t].market = r.market}
  IN  /\ At(s, "quote")
      /\ req' = [req EXCEPT ![s] =
           [step |-> "commit", market |-> r.market, selection |-> r.selection,
            opens |-> Expected(markets[r.market].terms)
                        \subseteq SidesOf(r.market) \cup {r.selection} \cup {req[t].selection : t \in others}]]
      /\ UNCHANGED <<markets, quotes>>

(* flushes its own, and reads which sides are quoted now;                  *)
InsertQuote(s) ==
  LET r == req[s]
  IN  /\ At(s, "quote")
      /\ req' = [req EXCEPT ![s] =
           [step |-> "commit", market |-> r.market, selection |-> r.selection,
            opens |-> Expected(markets[r.market].terms) \subseteq SidesOf(r.market) \cup {r.selection}]]
      /\ UNCHANGED <<markets, quotes>>

(* if these are both, the market opens with the commit.                    *)
CommitQuote(s) ==
  LET r == req[s]
  IN  /\ At(s, "commit")
      /\ quotes' = Append(quotes, [market |-> r.market, selection |-> r.selection, source |-> "MANUAL"])
      /\ markets' = IF r.opens THEN [markets EXCEPT ![r.market].status = "OPEN"] ELSE markets
      /\ End(s)

-----------------------------------------------------------------------------
BeginImport(s, t, feed) ==
  /\ Len(markets) < MaxMarkets /\ Len(quotes) < MaxQuotes
  /\ \A i \in DOMAIN feed : feed[i] \in Expected(t)
  /\ Begin(s, [step |-> "import", terms |-> t, todo |-> feed, created |-> FALSE,
               added |-> <<>>, flushed |-> 0, opens |-> {}])
  /\ UNCHANGED <<markets, quotes>>

(* The sides of m that the import's query returns: committed quotes, and   *)
(* its own as far as they are flushed.                                     *)
SidesSeen(r, m) ==
  (IF m = New THEN {} ELSE SidesOf(m))
    \cup {r.added[i].selection : i \in {i \in 1 .. r.flushed : r.added[i].market = m}}

(* The next record: any market of its terms that the query returns, or a   *)
(* new one; it opens if the sides seen, and this one, are both.            *)
ImportRecord(s) ==
  LET r == req[s]
      found == RowsOf(r.terms) \cup (IF r.created THEN {New} ELSE {})
      selection == Head(r.todo)
  IN  /\ At(s, "import") /\ r.todo # <<>>
      /\ \E m \in IF found = {} THEN {New} ELSE found :
           req' = [req EXCEPT ![s] = [r EXCEPT
             !.todo = Tail(@),
             !.created = @ \/ m = New,
             !.added = Append(@, [market |-> m, selection |-> selection]),
             !.opens = IF Expected(r.terms) \subseteq SidesSeen(r, m) \cup {selection}
                       THEN @ \cup {m} ELSE @]]
      /\ UNCHANGED <<markets, quotes>>

(* A record of other terms creates its market: everything is flushed.      *)
ImportElsewhere(s) ==
  /\ At(s, "import") /\ req[s].todo # <<>>
  /\ req[s].flushed < Len(req[s].added)
  /\ req' = [req EXCEPT ![s].flushed = Len(req[s].added)]
  /\ UNCHANGED <<markets, quotes>>

CommitImport(s) ==
  LET r == req[s]
      row(m) == IF m = New THEN Len(markets) + 1 ELSE m
      rows == IF r.created THEN Append(markets, [terms |-> r.terms, status |-> "DRAFT"]) ELSE markets
  IN  /\ At(s, "import") /\ r.todo = <<>>
      /\ markets' = [m \in DOMAIN rows |->
                       IF \E o \in r.opens : row(o) = m THEN [rows[m] EXCEPT !.status = "OPEN"] ELSE rows[m]]
      /\ quotes' = quotes \o [i \in DOMAIN r.added |->
                       [market |-> row(r.added[i].market), selection |-> r.added[i].selection,
                        source |-> "FEED"]]
      /\ End(s)

(* An error, a lost connection or the end of the process. *)
Fail(s) ==
  /\ req[s] # None
  /\ End(s)
  /\ UNCHANGED <<markets, quotes>>

Next ==
  \E s \in Sessions :
    \/ \E t \in Terms : CheckMarket(s, t)
    \/ \E m \in DOMAIN markets, selection \in Selections : CheckQuote(s, m, selection)
    \/ \E t \in Terms, feed \in Feeds : BeginImport(s, t, feed)
    \/ CommitMarket(s) \/ InsertQuote(s) \/ CommitQuote(s)
    \/ ImportRecord(s) \/ ImportElsewhere(s) \/ CommitImport(s)
    \/ Fail(s)

Spec == Init /\ [][Next]_vars

-----------------------------------------------------------------------------
(* However requests and imports overlap and fail, a market that takes bets *)
(* has both of its sides in the database: what opened it did not count a   *)
(* quote that was rolled back.                                             *)
OpenHasBothSides ==
  \A m \in DOMAIN markets : markets[m].status = "OPEN" => Expected(markets[m].terms) \subseteq SidesOf(m)

(* The checks of create_market, create_quote and sync_quotes leave a race, *)
(* but a bounded one: of markets of the same terms, and of quotes by hand  *)
(* of the same side, there are never more than requests that run at the    *)
(* same time; with one at a time there is one.                             *)
CopiesAreBounded ==
  /\ \A t \in Terms : Cardinality(RowsOf(t)) <= Cardinality(Sessions)
  /\ \A m \in DOMAIN markets, selection \in Selections :
       Cardinality(ByHand(m, selection)) <= Cardinality(Sessions)

(* docs/data/contracts.md, of markets: "One moneyline per game;            *)
(* spread/total unique per (game_id, market_type, line_millipoints)."      *)
OneMarketPerTerms == \A t \in Terms : Cardinality(RowsOf(t)) <= 1

(* docs/data/contracts.md: "Markets start as DRAFT and transition to OPEN  *)
(* when required quotes are present."                                      *)
PairsOpen ==
  \A m \in DOMAIN markets : Expected(markets[m].terms) \subseteq SidesOf(m) => markets[m].status = "OPEN"
=============================================================================
