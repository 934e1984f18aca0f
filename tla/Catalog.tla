------------------------------ MODULE Catalog ------------------------------
(***************************************************************************)
(* The football catalogue: teams, games, markets and quotes, entered by    *)
(* hand (src/edgebook/cfb/services) or imported from provider feeds        *)
(* (sync_games and sync_quotes of src/edgebook/ingestion/services.py).     *)
(* Each action is one request or one import with the transaction it        *)
(* commits; one that fails rolls back and is no step.                      *)
(*                                                                         *)
(* An event is a provider's name for a game, and carries the provider; a   *)
(* team is known by its normalised name.  A feed is a sequence of records  *)
(* that names no event, or no quote, twice.                                *)
(***************************************************************************)
EXTENDS Integers, Sequences

CONSTANTS
  Teams,
  Times,           \* kickoff times
  Events,          \* providers' event identifiers
  Lines,           \* market types with their line, records [type, line]
  Odds,            \* American odds
  MaxGames,        \* bound: games created by hand are not more than this
  None             \* no game, no line

ASSUME CatalogAssumption ==
  /\ Lines \subseteq [type : {"MONEYLINE", "SPREAD", "TOTAL"}, line : Int \cup {None}]
  /\ Odds \subseteq Int
  /\ MaxGames \in Nat
  /\ None \notin Int

GameRecord == [event : Events, home : Teams, away : Teams, at : Times]

QuoteRecord == [event : Events, source : STRING, terms : Lines, selection : STRING,
                odds : Odds, observed : Nat]

VARIABLES
  teams,           \* names in cfb_teams
  games,           \* rows of cfb_games; their identifiers are 1, 2, ...
  link,            \* link[e]: the game event e is linked to (provider_event_links)
  seen,            \* provider_observations, each its payload with its identifier
  market,          \* market[m]: status of the market m = [game, terms], if created
  quotes           \* rows of cfb_market_quotes; `from` holds the payload, if imported

catalogVars == <<teams, games, link, seen, market, quotes>>

Expected(terms) == IF terms.type = "TOTAL" THEN {"OVER", "UNDER"} ELSE {"HOME", "AWAY"}

Quote(m, selection, odds, origin) ==
  [market |-> m, selection |-> selection, odds |-> odds, from |-> origin]

CatalogTypeOK ==
  /\ teams \subseteq Teams
  /\ games \in Seq([home : teams, away : teams, at : Times, status : {"SCHEDULED", "FINAL"}])
  /\ \A g \in DOMAIN games : games[g].home # games[g].away
  /\ link \in [Events -> DOMAIN games \cup {None}]
  /\ \A m \in DOMAIN market : m \in [game : DOMAIN games, terms : Lines] /\ market[m] \in {"DRAFT", "OPEN"}
  /\ \A q \in quotes : q.market \in DOMAIN market /\ q.selection \in Expected(q.market.terms)

CatalogInit ==
  /\ teams = {}
  /\ games = <<>>
  /\ link = [e \in Events |-> None]
  /\ seen = {}
  /\ market = <<>>
  /\ quotes = {}

-----------------------------------------------------------------------------
(* Requests. *)

CreateTeam(name) ==
  /\ name \notin teams
  /\ teams' = teams \cup {name}
  /\ UNCHANGED <<games, link, seen, market, quotes>>

NewGame(home, away, at) == [home |-> home, away |-> away, at |-> at, status |-> "SCHEDULED"]

CreateGame(home, away, at) ==
  /\ Len(games) < MaxGames
  /\ home # away /\ {home, away} \subseteq teams
  /\ games' = Append(games, NewGame(home, away, at))
  /\ UNCHANGED <<teams, link, seen, market, quotes>>

(* A moneyline has no line, a spread has one, a total one that is not      *)
(* negative.                                                               *)
ValidLine(terms) ==
  CASE terms.type = "MONEYLINE" -> terms.line = None
    [] terms.type = "SPREAD"    -> terms.line # None
    [] terms.type = "TOTAL"     -> terms.line # None /\ terms.line >= 0

(* `market` with a draft market m, if it has none yet. *)
WithMarket(m) == [n \in DOMAIN market \cup {m} |-> IF n \in DOMAIN market THEN market[n] ELSE "DRAFT"]

CreateMarket(m) ==
  /\ m.game \in DOMAIN games
  /\ ValidLine(m.terms)
  /\ m \notin DOMAIN market
  /\ market' = WithMarket(m)
  /\ UNCHANGED <<teams, games, link, seen, quotes>>

SidesQuoted(m, Q) == {q.selection : q \in {q \in Q : q.market = m}}

CreateQuote(m, selection, odds) ==
  /\ m \in DOMAIN market
  /\ selection \in Expected(m.terms)
  /\ odds >= 100 \/ odds <= -100
  /\ \A q \in quotes : q.market = m /\ q.selection = selection => q.from # {}
  /\ quotes' = quotes \cup {Quote(m, selection, odds, {})}
  /\ market' = IF Expected(m.terms) \subseteq SidesQuoted(m, quotes')
               THEN [market EXCEPT ![m] = "OPEN"] ELSE market
  /\ UNCHANGED <<teams, games, link, seen>>

(* record_game_result, of which only the game's status matters here. *)
FinishGame(g) ==
  /\ g \in DOMAIN games
  /\ games[g].status = "SCHEDULED"
  /\ games' = [games EXCEPT ![g].status = "FINAL"]
  /\ UNCHANGED <<teams, link, seen, market, quotes>>

-----------------------------------------------------------------------------
(* Imports.  The loop over a feed is a recursive function: its value at i  *)
(* are the tables, as the transaction sees them, after i records; of games *)
(* the set of them, since a query may choose.  `stored` are the games as   *)
(* the queries see them, `games` as the session will write them.           *)

(* provider_observations: a payload is taken once. *)
Known(observations, r) == r \in observations

(* Teams are entered as games name them. *)
WithTeams(names, r) == names \cup {r.home, r.away}

(* Entering a team flushes the rows this import has changed so far. *)
Flushed(t, r) == IF {r.home, r.away} \subseteq t.teams THEN t ELSE [t EXCEPT !.stored = t.games]

(* The games a record's teams have at its time, as the query finds them:   *)
(* the session does not flush by itself, so a kickoff moved earlier in the *)
(* import is still the old one.                                            *)
SameGames(t, r) ==
  {g \in DOMAIN t.games : t.games[g].home = r.home /\ t.games[g].away = r.away /\ t.stored[g].at = r.at}

(* Faulty variant: an event is recognised by its teams and time alone. *)
GamesForUnlinked(t, r) == IF SameGames(t, r) # {} THEN SameGames(t, r) ELSE {Len(t.games) + 1}

(* The game of an event: the one it is linked to, or any one of these      *)
(* teams at this time (the query names no order), or a new one.            *)
GamesFor(t, r) ==
  IF t.link[r.event] # None THEN {t.link[r.event]}
  ELSE IF SameGames(t, r) # {} THEN SameGames(t, r) ELSE {Len(t.games) + 1}

(* A record taken for game g.  A new game is flushed, and everything with  *)
(* it; a linked one is rescheduled unless it is final.                     *)
WithGame(t, r, g) ==
  LET isNew == g \notin DOMAIN t.games
      moves == t.link[r.event] # None /\ t.games[g].status = "SCHEDULED"
      rows == IF isNew THEN Append(t.games, NewGame(r.home, r.away, r.at))
              ELSE [t.games EXCEPT ![g].at = IF moves THEN r.at ELSE @]
  IN  [teams |-> WithTeams(t.teams, r), games |-> rows, stored |-> IF isNew THEN rows ELSE t.stored,
       link |-> [t.link EXCEPT ![r.event] = g], seen |-> t.seen \cup {r}]

(* What one record of a games feed may leave.  A payload seen before is    *)
(* skipped.                                                                *)
AfterGame(t, r) ==
  IF Known(t.seen, r) THEN {t}
  ELSE {WithGame(Flushed(t, r), r, g) : g \in GamesFor(Flushed(t, r), r)}

(* A new event of two identical teams fails the whole import. *)
GamesAccepted(feed) ==
  \A i \in DOMAIN feed : feed[i].home = feed[i].away => feed[i] \in seen \/ link[feed[i].event] # None

GameTables == [teams |-> teams, games |-> games, stored |-> games, link |-> link, seen |-> seen]

AfterRecord(tables, r) == UNION {AfterGame(t, r) : t \in tables}

GamesAfter(feed) ==
  LET after[i \in 0 .. Len(feed)] == IF i = 0 THEN {GameTables} ELSE AfterRecord(after[i - 1], feed[i])
  IN  after

SyncGames(feed) ==
  /\ GamesAccepted(feed)
  /\ \E done \in GamesAfter(feed)[Len(feed)] :
       teams' = done.teams /\ games' = done.games /\ link' = done.link /\ seen' = done.seen
  /\ UNCHANGED <<market, quotes>>

MarketOf(r) == [game |-> link[r.event], terms |-> r.terms]

(* Faulty variant: only a new market's quotes are looked up. *)
AfterQuoteOnce(t, r) ==
  LET m == MarketOf(r)
      isNew == m \notin DOMAIN t.market
      opens == Expected(m.terms) \subseteq {q.selection : q \in {q \in t.pending : q.market = m}} \cup {r.selection}
      status == IF opens THEN "OPEN" ELSE IF isNew THEN "DRAFT" ELSE t.market[m]
  IN  IF Known(seen, r) THEN t
      ELSE [market |-> [n \in DOMAIN t.market \cup {m} |-> IF n = m THEN status ELSE t.market[n]],
            visible |-> t.visible,
            pending |-> t.pending \cup {Quote(m, r.selection, r.odds, {r})}]

(* One record of a quotes feed.  The session does not flush by itself:     *)
(* quotes of this import are seen by its queries only once a new market    *)
(* has been flushed, and with it everything before.  A market opens when   *)
(* the quotes seen, and this one, are its two sides.                       *)
AfterQuote(t, r) ==
  LET m == MarketOf(r)
      isNew == m \notin DOMAIN t.market
      visible == IF isNew THEN t.visible \cup t.pending ELSE t.visible
      opens == Expected(m.terms) \subseteq SidesQuoted(m, visible) \cup {r.selection}
      status == IF opens THEN "OPEN" ELSE IF isNew THEN "DRAFT" ELSE t.market[m]
  IN  IF Known(seen, r) THEN t
      ELSE [market |-> [n \in DOMAIN t.market \cup {m} |-> IF n = m THEN status ELSE t.market[n]],
            visible |-> visible,
            pending |-> (IF isNew THEN {} ELSE t.pending) \cup {Quote(m, r.selection, r.odds, {r})}]

(* A quote for an event without a game fails the whole import. *)
QuotesAccepted(feed) == \A i \in DOMAIN feed : link[feed[i].event] # None

QuoteTables == [market |-> market, visible |-> quotes, pending |-> {}]

QuotesAfter(feed) ==
  LET after[i \in 0 .. Len(feed)] == IF i = 0 THEN QuoteTables ELSE AfterQuote(after[i - 1], feed[i])
  IN  after

SyncQuotes(feed) ==
  LET done == QuotesAfter(feed)[Len(feed)]
  IN  /\ QuotesAccepted(feed)
      /\ market' = done.market
      /\ quotes' = done.visible \cup done.pending
      /\ seen' = seen \cup {feed[i] : i \in DOMAIN feed}
      /\ UNCHANGED <<teams, games, link>>

Markets == [game : DOMAIN games, terms : Lines]

Requests ==
  \/ \E name \in Teams : CreateTeam(name)
  \/ \E home, away \in Teams, at \in Times : CreateGame(home, away, at)
  \/ \E m \in Markets : CreateMarket(m)
  \/ \E m \in DOMAIN market, selection \in {"HOME", "AWAY", "OVER", "UNDER"}, odds \in Odds :
       CreateQuote(m, selection, odds)
  \/ \E g \in DOMAIN games : FinishGame(g)

-----------------------------------------------------------------------------
(* docs/architecture/data_modeling.md: a provider event link maps an event *)
(* to "one canonical CFB game and survives provider schedule changes".     *)
(* Whatever is entered by hand meanwhile and however the event moves, every *)
(* quote of an event stays on a market of the event's one game.            *)
QuotesFollowLinks ==
  \A q \in quotes : \A r \in q.from : q.market.game = link[r.event]

(* docs/data/contracts.md: markets "transition to OPEN when required       *)
(* quotes are present".  The code keeps this for quotes that are stored: a *)
(* new quote opens its market if the other side is in the database, by     *)
(* whichever way it came.  (It is not so within one import: AfterQuote.)   *)
StoredSidesOpen ==
  [][\A q \in quotes' \ quotes :
       Expected(q.market.terms) \subseteq SidesQuoted(q.market, quotes) \cup {q.selection}
         => market'[q.market] = "OPEN"]_catalogVars

(* docs/data/contracts.md:182: "Markets start as DRAFT and transition to   *)
(* OPEN when required quotes are present."  Whether its two sides came in  *)
(* one feed or in two, a market that has both is open.                     *)
QuotedMarketsOpen ==
  \A m \in DOMAIN market :
    Expected(m.terms) \subseteq SidesQuoted(m, quotes) => market[m] = "OPEN"
=============================================================================
