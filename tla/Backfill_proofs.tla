-------------------------- MODULE Backfill_proofs --------------------------
(***************************************************************************)
(* The catalogue and the commands that fill it, for feeds of any length,   *)
(* any number of days, and failures and crashes at any step.               *)
(*                                                                         *)
(* The loop over a feed is a recursive function of how many records were   *)
(* taken.  That it exists, and that what each record keeps the whole feed  *)
(* keeps, are inductions written as "take the first counterexample".       *)
(***************************************************************************)
EXTENDS Backfill, Payout_proofs, SequenceTheorems

(* What is in the tables is tied to the payloads seen: a game's event has  *)
(* a game, a quote is on a market of its event's game.                     *)
SeenGamesAreLinked == \A r \in seen : r \in GameRecord => link[r.event] # None

SeenQuotesAreStored ==
  \A r \in seen : r \in QuoteRecord => Quote(MarketOf(r), r.selection, r.odds, {r}) \in quotes

PayloadsAreQuotes == \A q \in quotes : q.from \subseteq QuoteRecord

GamesImported(d) ==
  \A i \in DOMAIN Snapshots[d].games : link[Snapshots[d].games[i].event] # None

QuotesImported(d) ==
  \A i \in DOMAIN Snapshots[d].quotes :
    LET r == Snapshots[d].quotes[i]
    IN  Quote(MarketOf(r), r.selection, r.odds, {r}) \in quotes

(* How far a job is says what of its day is in the catalogue. *)
JobIsWhereItSays ==
  job # Idle =>
    /\ job.from <= job.day /\ job.day <= job.to
    /\ job.step \in {"quotes", "complete"} => GamesImported(job.day)
    /\ job.step = "complete" => QuotesImported(job.day)

(* What the catalogue alone keeps, and the jobs with it: together the      *)
(* inductive invariant.                                                    *)
CatalogInv ==
  /\ CatalogTypeOK
  /\ QuotesFollowLinks
  /\ PayloadsAreQuotes
  /\ SeenGamesAreLinked
  /\ SeenQuotesAreStored

JobTypeOK ==
  /\ today \in 1 .. LastDay
  /\ checkpoint \in [1 .. LastDay -> {"none", "RUNNING", "COMPLETED", "FAILED"}]
  /\ job \in Job \cup {Idle}

BInv ==
  /\ CatalogInv
  /\ JobTypeOK
  /\ JobIsWhereItSays
  /\ CompletedDaysAreImported
  /\ NoDayIsPassedOver

-----------------------------------------------------------------------------
(* Loops. *)

FirstTables == {GameTables}

FoldsGames(after, feed, n) ==
  after = [i \in 0 .. n |-> IF i = 0 THEN FirstTables ELSE AfterRecord(after[i - 1], feed[i])]

LEMMA GamesLoop ==
  ASSUME NEW feed, Len(feed) \in Nat
  PROVE  /\ GamesAfter(feed)[0] = {GameTables}
         /\ \A i \in 1 .. Len(feed) : GamesAfter(feed)[i] = AfterRecord(GamesAfter(feed)[i - 1], feed[i])
<1> DEFINE S == {n \in 0 .. Len(feed) : \E after : FoldsGames(after, feed, n)}
<1>1. 0 \in S
  <2>1. FoldsGames([i \in {0} |-> FirstTables], feed, 0)
    BY DEF FoldsGames
  <2> QED
    BY <2>1
<1>2. ASSUME NEW n \in 1 .. Len(feed), n - 1 \in S
      PROVE  n \in S
  <2>1. PICK before : FoldsGames(before, feed, n - 1)
    BY <1>2
  <2> DEFINE after == [i \in 0 .. n |-> IF i = n THEN AfterRecord(before[n - 1], feed[n]) ELSE before[i]]
  <2>2. \A i \in 0 .. n - 1 : after[i] = before[i]
    OBVIOUS
  <2>3. \A i \in 0 .. n : after[i] = IF i = 0 THEN FirstTables ELSE AfterRecord(after[i - 1], feed[i])
    <3> SUFFICES ASSUME NEW i \in 0 .. n
                 PROVE  after[i] = IF i = 0 THEN FirstTables ELSE AfterRecord(after[i - 1], feed[i])
      OBVIOUS
    <3>1. CASE i = n
      <4>1. after[n] = AfterRecord(before[n - 1], feed[n]) /\ n - 1 \in 0 .. n - 1
        OBVIOUS
      <4> HIDE DEF after
      <4> QED
        BY <2>2, <3>1, <4>1
    <3>2. CASE i # n
      <4>1. before[i] = IF i = 0 THEN FirstTables ELSE AfterRecord(before[i - 1], feed[i])
        BY <2>1, <3>2 DEF FoldsGames
      <4>2. i \in 0 .. n - 1 /\ (i # 0 => i - 1 \in 0 .. n - 1)
        BY <3>2
      <4> HIDE DEF after
      <4> QED
        BY <2>2, <4>1, <4>2
    <3> QED
      BY <3>1, <3>2
  <2>4. after = [i \in 0 .. n |-> after[i]]
    OBVIOUS
  <2> HIDE DEF after
  <2>5. FoldsGames(after, feed, n)
    BY <2>3, <2>4 DEF FoldsGames
  <2> QED
    BY <2>5
<1>3. Len(feed) \in S
  <2>1. \A i \in 1 .. Len(feed) : i - 1 \in S => i \in S
    BY <1>2
  <2> HIDE DEF S
  <2>2. \A i \in 0 .. Len(feed) : i \in S
    BY <1>1, <2>1, Upto
  <2> QED
    BY <2>2
<1>4. FoldsGames(GamesAfter(feed), feed, Len(feed))
  <2>1. GamesAfter(feed) = CHOOSE after : FoldsGames(after, feed, Len(feed))
    BY DEF GamesAfter, FoldsGames, FirstTables
  <2> QED
    BY <1>3, <2>1
<1> QED
  BY <1>4 DEF FoldsGames, FirstTables

FoldsQuotes(after, feed, n) ==
  after = [i \in 0 .. n |-> IF i = 0 THEN QuoteTables ELSE AfterQuote(after[i - 1], feed[i])]

LEMMA QuotesLoop ==
  ASSUME NEW feed, Len(feed) \in Nat
  PROVE  /\ QuotesAfter(feed)[0] = QuoteTables
         /\ \A i \in 1 .. Len(feed) : QuotesAfter(feed)[i] = AfterQuote(QuotesAfter(feed)[i - 1], feed[i])
<1> DEFINE S == {n \in 0 .. Len(feed) : \E after : FoldsQuotes(after, feed, n)}
<1>1. 0 \in S
  <2>1. FoldsQuotes([i \in {0} |-> QuoteTables], feed, 0)
    BY DEF FoldsQuotes
  <2> QED
    BY <2>1
<1>2. ASSUME NEW n \in 1 .. Len(feed), n - 1 \in S
      PROVE  n \in S
  <2>1. PICK before : FoldsQuotes(before, feed, n - 1)
    BY <1>2
  <2> DEFINE after == [i \in 0 .. n |-> IF i = n THEN AfterQuote(before[n - 1], feed[n]) ELSE before[i]]
  <2>2. \A i \in 0 .. n - 1 : after[i] = before[i]
    OBVIOUS
  <2>3. \A i \in 0 .. n : after[i] = IF i = 0 THEN QuoteTables ELSE AfterQuote(after[i - 1], feed[i])
    <3> SUFFICES ASSUME NEW i \in 0 .. n
                 PROVE  after[i] = IF i = 0 THEN QuoteTables ELSE AfterQuote(after[i - 1], feed[i])
      OBVIOUS
    <3>1. CASE i = n
      <4>1. after[n] = AfterQuote(before[n - 1], feed[n]) /\ n - 1 \in 0 .. n - 1
        OBVIOUS
      <4> HIDE DEF after
      <4> QED
        BY <2>2, <3>1, <4>1
    <3>2. CASE i # n
      <4>1. before[i] = IF i = 0 THEN QuoteTables ELSE AfterQuote(before[i - 1], feed[i])
        BY <2>1, <3>2 DEF FoldsQuotes
      <4>2. i \in 0 .. n - 1 /\ (i # 0 => i - 1 \in 0 .. n - 1)
        BY <3>2
      <4> HIDE DEF after
      <4> QED
        BY <2>2, <4>1, <4>2
    <3> QED
      BY <3>1, <3>2
  <2>4. after = [i \in 0 .. n |-> after[i]]
    OBVIOUS
  <2> HIDE DEF after
  <2>5. FoldsQuotes(after, feed, n)
    BY <2>3, <2>4 DEF FoldsQuotes
  <2> QED
    BY <2>5
<1>3. Len(feed) \in S
  <2>1. \A i \in 1 .. Len(feed) : i - 1 \in S => i \in S
    BY <1>2
  <2> HIDE DEF S
  <2>2. \A i \in 0 .. Len(feed) : i \in S
    BY <1>1, <2>1, Upto
  <2> QED
    BY <2>2
<1>4. FoldsQuotes(QuotesAfter(feed), feed, Len(feed))
  <2>1. QuotesAfter(feed) = CHOOSE after : FoldsQuotes(after, feed, Len(feed))
    BY DEF QuotesAfter, FoldsQuotes
  <2> QED
    BY <1>3, <2>1
<1> QED
  BY <1>4 DEF FoldsQuotes

-----------------------------------------------------------------------------
(* One record of a games feed. *)

Rows(names) == [home : names, away : names, at : Times, status : {"SCHEDULED", "FINAL"}]

GameTablesOK(t) ==
  /\ DOMAIN t = {"teams", "games", "stored", "link", "seen"}
  /\ t.teams \subseteq Teams
  /\ t.games \in Seq(Rows(t.teams))
  /\ \A g \in DOMAIN t.games : t.games[g].home # t.games[g].away
  /\ t.link \in [Events -> DOMAIN t.games \cup {None}]

(* What t has, u has. *)
Grown(t, u) ==
  /\ t.teams \subseteq u.teams
  /\ DOMAIN t.games \subseteq DOMAIN u.games
  /\ t.seen \subseteq u.seen
  /\ \A e \in Events : t.link[e] # None => u.link[e] = t.link[e]

LEMMA GamesForAreGames ==
  ASSUME NEW t, GameTablesOK(t), NEW r \in GameRecord, NEW g \in GamesFor(t, r)
  PROVE  /\ g \in 1 .. Len(t.games) + 1
         /\ g \notin DOMAIN t.games => t.link[r.event] = None /\ g = Len(t.games) + 1
         /\ t.link[r.event] # None => g = t.link[r.event]
<1>1. DOMAIN t.games = 1 .. Len(t.games) /\ Len(t.games) \in Nat
  BY DEF GameTablesOK
<1>2. r.event \in Events
  BY DEF GameRecord
<1>3. t.link[r.event] \in DOMAIN t.games \cup {None}
  BY <1>2 DEF GameTablesOK
<1>4. SameGames(t, r) \subseteq DOMAIN t.games
  BY DEF SameGames
<1>5. CASE t.link[r.event] # None
  BY <1>1, <1>3, <1>5 DEF GamesFor
<1>6. CASE t.link[r.event] = None
  BY <1>1, <1>4, <1>6 DEF GamesFor
<1> QED
  BY <1>5, <1>6

(* A flush changes nothing a record of a game is made from. *)
LEMMA FlushedKeeps ==
  ASSUME NEW t, NEW r, GameTablesOK(t)
  PROVE  LET v == Flushed(t, r)
         IN  /\ v.teams = t.teams /\ v.games = t.games /\ v.link = t.link /\ v.seen = t.seen
             /\ GameTablesOK(v)
<1>1. DOMAIN t = {"teams", "games", "stored", "link", "seen"}
  BY DEF GameTablesOK
<1>2. LET v == Flushed(t, r)
      IN  v.teams = t.teams /\ v.games = t.games /\ v.link = t.link /\ v.seen = t.seen
  BY <1>1 DEF Flushed
<1>3. DOMAIN Flushed(t, r) = DOMAIN t
  BY <1>1 DEF Flushed
<1> QED
  BY <1>2, <1>3 DEF GameTablesOK

LEMMA RowsOfMoreTeams ==
  ASSUME NEW names, NEW more, names \subseteq more, NEW s \in Seq(Rows(names))
  PROVE  s \in Seq(Rows(more))
<1>1. \A row \in Rows(names) : row \in Rows(more)
  BY DEF Rows
<1>2. \A i \in 1 .. Len(s) : s[i] \in Rows(more)
  BY <1>1
<1> QED
  BY <1>2, SeqDef, LenProperties

LEMMA WithGameKeeps ==
  ASSUME NEW t, GameTablesOK(t), NEW r \in GameRecord,
         r.home = r.away => t.link[r.event] # None,
         NEW g \in GamesFor(t, r), NEW u, u = WithGame(t, r, g)
  PROVE  /\ GameTablesOK(u)
         /\ Grown(t, u)
         /\ u.seen = t.seen \cup {r}
         /\ u.link[r.event] # None
<1> USE CatalogAssumption
<1> DEFINE at == IF t.link[r.event] # None /\ t.games[g].status = "SCHEDULED" THEN r.at ELSE t.games[g].at
           row == [t.games[g] EXCEPT !.at = at]
           new == NewGame(r.home, r.away, r.at)
           target == IF g \notin DOMAIN t.games THEN Append(t.games, new) ELSE [t.games EXCEPT ![g] = row]
           more == t.teams \cup {r.home, r.away}
<1>1. /\ u.teams = more
      /\ u.games = target
      /\ u.link = [t.link EXCEPT ![r.event] = g]
      /\ u.seen = t.seen \cup {r}
  BY DEF WithGame, WithTeams
<1>2. DOMAIN u = {"teams", "games", "stored", "link", "seen"}
  BY DEF WithGame
<1>3. /\ r.event \in Events /\ r.home \in Teams /\ r.away \in Teams /\ r.at \in Times
      /\ r.home \in more /\ r.away \in more
      /\ more \subseteq Teams /\ t.teams \subseteq more
  BY DEF GameRecord, GameTablesOK
<1>4. /\ g \in 1 .. Len(t.games) + 1
      /\ g \notin DOMAIN t.games => t.link[r.event] = None /\ g = Len(t.games) + 1
      /\ t.link[r.event] # None => g = t.link[r.event]
  BY GamesForAreGames
<1>5. t.games \in Seq(Rows(more))
  BY <1>3, RowsOfMoreTeams DEF GameTablesOK
<1>6. t.link \in [Events -> DOMAIN t.games \cup {None}]
  BY DEF GameTablesOK
<1>7. g # None
  BY <1>4, <1>5
<1> HIDE DEF more
<1>8. /\ target \in Seq(Rows(more))
      /\ DOMAIN t.games \subseteq DOMAIN target
      /\ g \in DOMAIN target
      /\ \A i \in DOMAIN target : target[i].home # target[i].away
  <2>1. CASE g \notin DOMAIN t.games
    <3>1. new \in Rows(more) /\ new.home # new.away
      BY <1>3, <1>4, <2>1 DEF NewGame, Rows
    <3>2. target = Append(t.games, new)
      BY <2>1
    <3> HIDE DEF new, target
    <3>3. /\ target \in Seq(Rows(more)) /\ Len(target) = Len(t.games) + 1
          /\ \A i \in 1 .. Len(t.games) : target[i] = t.games[i]
          /\ target[Len(t.games) + 1] = new
      BY <1>5, <3>1, <3>2
    <3>4. DOMAIN target = 1 .. Len(t.games) + 1 /\ DOMAIN t.games = 1 .. Len(t.games)
      BY <1>5, <3>3
    <3> QED
      BY <1>4, <1>5, <3>1, <3>3, <3>4 DEF GameTablesOK
  <2>2. CASE g \in DOMAIN t.games
    <3>1. target = [t.games EXCEPT ![g] = row]
      BY <2>2
    <3>2. t.games[g] \in Rows(more)
      BY <1>5, <2>2
    <3>3. row \in Rows(more) /\ row.home = t.games[g].home /\ row.away = t.games[g].away
      BY <1>3, <3>2 DEF Rows
    <3> HIDE DEF row, target
    <3>4. target \in Seq(Rows(more)) /\ DOMAIN target = DOMAIN t.games
      BY <1>5, <2>2, <3>1, <3>3
    <3>5. \A i \in DOMAIN t.games : target[i] = IF i = g THEN row ELSE t.games[i]
      BY <3>1
    <3> QED
      BY <2>2, <3>3, <3>4, <3>5 DEF GameTablesOK
  <2> QED
    BY <2>1, <2>2
<1> HIDE DEF target
<1>9. u.link \in [Events -> DOMAIN target \cup {None}]
  BY <1>1, <1>6, <1>8
<1>10. GameTablesOK(u)
  BY <1>1, <1>2, <1>3, <1>8, <1>9 DEF GameTablesOK, more
<1>11. \A e \in Events : t.link[e] # None => u.link[e] = t.link[e]
  BY <1>1, <1>3, <1>4, <1>6
<1>12. u.link[r.event] # None
  BY <1>1, <1>3, <1>6, <1>7
<1>13. Grown(t, u)
  BY <1>1, <1>3, <1>8, <1>11 DEF Grown
<1> QED
  BY <1>1, <1>10, <1>12, <1>13

LEMMA AfterGameKeeps ==
  ASSUME NEW t, GameTablesOK(t), NEW r \in GameRecord,
         r.home = r.away => r \in t.seen \/ t.link[r.event] # None,
         NEW u \in AfterGame(t, r)
  PROVE  /\ GameTablesOK(u)
         /\ Grown(t, u)
         /\ u.seen \subseteq t.seen \cup {r}
         /\ r \notin t.seen => u.link[r.event] # None
<1>1. CASE r \in t.seen
  <2>1. u = t
    BY <1>1 DEF AfterGame, Known
  <2> QED
    BY <1>1, <2>1 DEF Grown
<1>2. CASE r \notin t.seen
  <2>1. PICK v : v = Flushed(t, r)
    OBVIOUS
  <2>2. PICK g \in GamesFor(v, r) : u = WithGame(v, r, g)
    BY <1>2, <2>1 DEF AfterGame, Known
  <2>3. /\ v.teams = t.teams /\ v.games = t.games /\ v.link = t.link /\ v.seen = t.seen
        /\ GameTablesOK(v)
    BY <2>1, FlushedKeeps
  <2>4. r.home = r.away => v.link[r.event] # None
    BY <1>2, <2>3
  <2>5. GameTablesOK(u) /\ Grown(v, u) /\ u.seen = v.seen \cup {r} /\ u.link[r.event] # None
    BY <2>2, <2>3, <2>4, WithGameKeeps
  <2> QED
    BY <2>3, <2>5 DEF Grown
<1> QED
  BY <1>1, <1>2

(* A whole games feed. *)

GamesTaken(feed, i, t) ==
  /\ GameTablesOK(t)
  /\ Grown(GameTables, t)
  /\ t.seen \subseteq seen \cup {feed[j] : j \in 1 .. i}
  /\ \A j \in 1 .. i : t.link[feed[j].event] # None

LEMMA GamesImport ==
  ASSUME CatalogTypeOK, SeenGamesAreLinked, NEW feed \in Seq(GameRecord), GamesAccepted(feed)
  PROVE  \A t \in GamesAfter(feed)[Len(feed)] : GamesTaken(feed, Len(feed), t)
<1> DEFINE after == GamesAfter(feed)
           S == {i \in 0 .. Len(feed) : \A t \in after[i] : GamesTaken(feed, i, t)}
<1>1. Len(feed) \in Nat /\ \A i \in 1 .. Len(feed) : feed[i] \in GameRecord
  OBVIOUS
<1>2. after[0] = {GameTables} /\ \A i \in 1 .. Len(feed) : after[i] = AfterRecord(after[i - 1], feed[i])
  BY <1>1, GamesLoop
<1> HIDE DEF after
<1>3. 0 \in S
  <2>1. GameTablesOK(GameTables)
    BY DEF GameTablesOK, GameTables, CatalogTypeOK, Rows
  <2>2. Grown(GameTables, GameTables)
    BY DEF Grown
  <2>3. GameTables.seen = seen
    BY DEF GameTables
  <2>4. GamesTaken(feed, 0, GameTables)
    BY <2>1, <2>2, <2>3 DEF GamesTaken
  <2> QED
    BY <1>1, <1>2, <2>4
<1>4. \A i \in 1 .. Len(feed) : i - 1 \in S => i \in S
  <2> SUFFICES ASSUME NEW i \in 1 .. Len(feed), i - 1 \in S,
                      NEW u \in after[i]
               PROVE  GamesTaken(feed, i, u)
    BY <1>1
  <2>1. after[i] = AfterRecord(after[i - 1], feed[i])
    BY <1>2
  <2>2. PICK t \in after[i - 1] : u \in AfterGame(t, feed[i])
    BY <2>1 DEF AfterRecord
  <2>3. PICK r \in GameRecord : r = feed[i]
    BY <1>1
  <2>4. GamesTaken(feed, i - 1, t)
    BY <2>2
  <2>5. r.event \in Events /\ \A j \in 1 .. i : feed[j].event \in Events
    BY <1>1, <2>3 DEF GameRecord
  <2>6. seen \subseteq t.seen /\ \A e \in Events : link[e] # None => t.link[e] = link[e]
    BY <2>4 DEF GamesTaken, Grown, GameTables
  <2>7. r.home = r.away => r \in t.seen \/ t.link[r.event] # None
    <3>1. r.home = r.away => r \in seen \/ link[r.event] # None
      BY <2>3 DEF GamesAccepted
    <3> QED
      BY <2>5, <2>6, <3>1
  <2>8. /\ GameTablesOK(u)
        /\ Grown(t, u)
        /\ u.seen \subseteq t.seen \cup {r}
        /\ r \notin t.seen => u.link[r.event] # None
    <3>1. GameTablesOK(t) /\ u \in AfterGame(t, r)
      BY <2>2, <2>3, <2>4 DEF GamesTaken
    <3> QED
      BY <2>7, <3>1, AfterGameKeeps
  <2>9. Grown(GameTables, u)
    <3>1. Grown(GameTables, t)
      BY <2>4 DEF GamesTaken
    <3> QED
      BY <2>8, <3>1 DEF Grown
  <2>10. u.seen \subseteq seen \cup {feed[j] : j \in 1 .. i}
    <3>1. t.seen \subseteq seen \cup {feed[j] : j \in 1 .. i - 1}
      BY <2>4 DEF GamesTaken
    <3> QED
      BY <2>3, <2>8, <3>1
  <2>11. \A j \in 1 .. i : u.link[feed[j].event] # None
    <3>1. \A j \in 1 .. i - 1 : t.link[feed[j].event] # None
      BY <2>4 DEF GamesTaken
    <3>2. \A e \in Events : t.link[e] # None => u.link[e] # None
      BY <2>8 DEF Grown
    <3>3. r \in t.seen => t.link[r.event] # None
      <4>1. r \in seen => t.link[r.event] # None
        BY <2>5, <2>6 DEF SeenGamesAreLinked
      <4>2. t.seen \subseteq seen \cup {feed[j] : j \in 1 .. i - 1}
        BY <2>4 DEF GamesTaken
      <4> QED
        BY <3>1, <4>1, <4>2
    <3>4. u.link[r.event] # None
      BY <2>5, <2>8, <3>2, <3>3
    <3>5. \A j \in 1 .. i : j = i \/ j \in 1 .. i - 1
      OBVIOUS
    <3> QED
      BY <2>3, <2>5, <3>1, <3>2, <3>4, <3>5
  <2> QED
    BY <2>8, <2>9, <2>10, <2>11 DEF GamesTaken
<1>5. Len(feed) \in 0 .. Len(feed)
  BY <1>1
<1> HIDE DEF S
<1>6. \A i \in 0 .. Len(feed) : i \in S
  BY <1>1, <1>3, <1>4, Upto
<1> QED
  BY <1>5, <1>6 DEF S, after

-----------------------------------------------------------------------------
(* One record of a quotes feed, and a whole feed. *)

QuoteOf(r) == Quote(MarketOf(r), r.selection, r.odds, {r})

(* A quote that, with those stored before the import, makes two sides. *)
MakesTwoSides(q) == Expected(q.market.terms) \subseteq SidesQuoted(q.market, quotes) \cup {q.selection}

(* What the tables hold while an import runs: the quotes that were there,  *)
(* and those of the records taken; a market with two sides is open.        *)
QuotesTaken(feed, i, t) ==
  /\ DOMAIN market \subseteq DOMAIN t.market
  /\ \A m \in DOMAIN t.market :
       m \in [game : DOMAIN games, terms : Lines] /\ t.market[m] \in {"DRAFT", "OPEN"}
  /\ quotes \subseteq t.visible
  /\ \A q \in t.visible \cup t.pending :
       \/ q \in quotes
       \/ \E j \in 1 .. i : q = QuoteOf(feed[j]) /\ q.market \in DOMAIN t.market
  /\ \A j \in 1 .. i : QuoteOf(feed[j]) \in t.visible \cup t.pending
  /\ \A q \in t.visible \cup t.pending :
       q \notin quotes /\ MakesTwoSides(q) => t.market[q.market] = "OPEN"

LEMMA AfterQuoteKeeps ==
  ASSUME CatalogTypeOK, SeenQuotesAreStored,
         NEW feed, NEW i \in Nat \ {0}, NEW t, QuotesTaken(feed, i - 1, t),
         feed[i] \in QuoteRecord, link[feed[i].event] # None,
         NEW u, u = AfterQuote(t, feed[i])
  PROVE  QuotesTaken(feed, i, u)
<1>1. PICK r \in QuoteRecord : r = feed[i]
  OBVIOUS
<1>2. \A j \in 1 .. i : j = i \/ j \in 1 .. i - 1
  OBVIOUS
<1>3. i \in 1 .. i /\ \A j \in 1 .. i - 1 : j \in 1 .. i
  OBVIOUS
<1>4. CASE r \in seen
  <2>1. u = t
    BY <1>1, <1>4 DEF AfterQuote, Known
  <2>2. QuoteOf(r) \in quotes
    BY <1>4 DEF SeenQuotesAreStored, QuoteOf
  <2> QED
    BY <1>1, <1>2, <1>3, <2>1, <2>2 DEF QuotesTaken
<1>5. CASE r \notin seen
  <2> DEFINE m == MarketOf(r)
             isNew == m \notin DOMAIN t.market
             visible == IF isNew THEN t.visible \cup t.pending ELSE t.visible
             opens == Expected(m.terms) \subseteq SidesQuoted(m, visible) \cup {r.selection}
             status == IF opens THEN "OPEN" ELSE IF isNew THEN "DRAFT" ELSE t.market[m]
             pending == (IF isNew THEN {} ELSE t.pending) \cup {QuoteOf(r)}
             rows == [n \in DOMAIN t.market \cup {m} |-> IF n = m THEN status ELSE t.market[n]]
  <2>1. u = [market |-> rows, visible |-> visible, pending |-> pending]
    BY <1>1, <1>5 DEF AfterQuote, Known, QuoteOf
  <2>2. u.market = rows /\ u.visible = visible /\ u.pending = pending
    BY <2>1
  <2>3. m \in [game : DOMAIN games, terms : Lines]
    <3>1. r.event \in Events /\ r.terms \in Lines
      BY DEF QuoteRecord
    <3>2. link[r.event] \in DOMAIN games
      BY <1>1, <3>1 DEF CatalogTypeOK
    <3> QED
      BY <3>1, <3>2 DEF MarketOf
  <2>4. QuoteOf(r).market = m
    BY DEF QuoteOf, Quote
  <2>5. status \in {"DRAFT", "OPEN"}
    BY DEF QuotesTaken
  <2>6. MakesTwoSides(QuoteOf(r)) => status = "OPEN"
    <3>1. quotes \subseteq visible
      BY DEF QuotesTaken
    <3> HIDE DEF visible
    <3>2. SidesQuoted(m, quotes) \subseteq SidesQuoted(m, visible)
      BY <3>1 DEF SidesQuoted
    <3>3. QuoteOf(r).selection = r.selection
      BY DEF QuoteOf, Quote
    <3>4. MakesTwoSides(QuoteOf(r)) => opens
      BY <2>4, <3>2, <3>3 DEF MakesTwoSides
    <3> HIDE DEF opens
    <3> QED
      BY <3>4
  <2>7. m \in DOMAIN t.market /\ t.market[m] = "OPEN" => status = "OPEN"
    OBVIOUS
  <2> HIDE DEF m, status
  <2>8. /\ DOMAIN u.market = DOMAIN t.market \cup {m}
        /\ \A n \in DOMAIN u.market : u.market[n] = IF n = m THEN status ELSE t.market[n]
    BY <2>2
  <2>9. /\ u.visible \cup u.pending = t.visible \cup t.pending \cup {QuoteOf(r)}
        /\ t.visible \subseteq u.visible
    BY <2>2
  <2>10. \A n \in DOMAIN u.market :
          n \in [game : DOMAIN games, terms : Lines] /\ u.market[n] \in {"DRAFT", "OPEN"}
    BY <2>3, <2>5, <2>8 DEF QuotesTaken
  <2> HIDE DEF rows, pending, visible, isNew
  <2>11. \A q \in u.visible \cup u.pending :
          \/ q \in quotes
          \/ \E j \in 1 .. i : q = QuoteOf(feed[j]) /\ q.market \in DOMAIN u.market
    BY <1>1, <1>3, <2>4, <2>8, <2>9 DEF QuotesTaken
  <2>12. \A j \in 1 .. i : QuoteOf(feed[j]) \in u.visible \cup u.pending
    BY <1>1, <1>2, <2>9 DEF QuotesTaken
  <2>13. ASSUME NEW q \in u.visible \cup u.pending, q \notin quotes, MakesTwoSides(q)
         PROVE  u.market[q.market] = "OPEN"
    <3>1. CASE q = QuoteOf(r)
      BY <2>4, <2>8, <2>13, <2>6, <3>1
    <3>2. CASE q \in t.visible \cup t.pending
      <4>1. t.market[q.market] = "OPEN" /\ q.market \in DOMAIN t.market
        BY <2>13, <3>2 DEF QuotesTaken
      <4> QED
        BY <2>8, <2>7, <4>1
    <3> QED
      BY <2>9, <3>1, <3>2
  <2> QED
    BY <2>8, <2>9, <2>10, <2>11, <2>12, <2>13 DEF QuotesTaken
<1> QED
  BY <1>4, <1>5

LEMMA QuotesImport ==
  ASSUME CatalogTypeOK, SeenQuotesAreStored, NEW feed \in Seq(QuoteRecord), QuotesAccepted(feed)
  PROVE  QuotesTaken(feed, Len(feed), QuotesAfter(feed)[Len(feed)])
<1> DEFINE after == QuotesAfter(feed)
           S == {i \in 0 .. Len(feed) : QuotesTaken(feed, i, after[i])}
<1>1. Len(feed) \in Nat /\ \A i \in 1 .. Len(feed) : feed[i] \in QuoteRecord
  OBVIOUS
<1>2. after[0] = QuoteTables /\ \A i \in 1 .. Len(feed) : after[i] = AfterQuote(after[i - 1], feed[i])
  BY <1>1, QuotesLoop
<1> HIDE DEF after
<1>3. 0 \in S
  <2>1. QuotesTaken(feed, 0, QuoteTables)
    BY DEF QuotesTaken, QuoteTables, CatalogTypeOK
  <2> QED
    BY <1>1, <1>2, <2>1
<1>4. \A i \in 1 .. Len(feed) : i - 1 \in S => i \in S
  <2> SUFFICES ASSUME NEW i \in 1 .. Len(feed), i - 1 \in S
               PROVE  QuotesTaken(feed, i, after[i])
    BY <1>1
  <2>1. QuotesTaken(feed, i - 1, after[i - 1]) /\ after[i] = AfterQuote(after[i - 1], feed[i])
    BY <1>2
  <2>2. feed[i] \in QuoteRecord /\ link[feed[i].event] # None /\ i \in Nat \ {0}
    BY <1>1 DEF QuotesAccepted
  <2> QED
    BY <2>1, <2>2, AfterQuoteKeeps
<1>5. Len(feed) \in 0 .. Len(feed)
  BY <1>1
<1> HIDE DEF S
<1>6. \A i \in 0 .. Len(feed) : i \in S
  BY <1>1, <1>3, <1>4, Upto
<1> QED
  BY <1>5, <1>6 DEF S, after

-----------------------------------------------------------------------------
(* Steps of the catalogue.  What it has, it keeps: an event stays linked   *)
(* to its game, and a quote is never taken back.                           *)

Kept ==
  /\ DOMAIN games \subseteq DOMAIN games'
  /\ \A e \in Events : link[e] # None => link'[e] = link[e]
  /\ quotes \subseteq quotes'

LEMMA MarketsHaveGames ==
  ASSUME CatalogTypeOK, NEW q \in quotes
  PROVE  q.market.game \in DOMAIN games /\ q.market.game # None
<1>1. q.market.game \in DOMAIN games
  BY DEF CatalogTypeOK
<1>2. games \in Seq(Rows(teams))
  BY DEF CatalogTypeOK, Rows
<1>3. DOMAIN games \subseteq Int
  BY <1>2
<1> QED
  BY <1>1, <1>3, CatalogAssumption

LEMMA QuoteKept ==
  ASSUME CatalogTypeOK, Kept, NEW r, r.event \in Events, QuoteOf(r) \in quotes
  PROVE  QuoteOf(r)' = QuoteOf(r) /\ QuoteOf(r)' \in quotes'
<1>1. link[r.event] # None
  <2>1. QuoteOf(r).market.game = link[r.event]
    BY DEF QuoteOf, Quote, MarketOf
  <2> QED
    BY <2>1, MarketsHaveGames
<1>2. MarketOf(r)' = MarketOf(r)
  BY <1>1 DEF Kept, MarketOf
<1>3. QuoteOf(r)' = QuoteOf(r)
  BY <1>2 DEF QuoteOf, Quote
<1> QED
  BY <1>3 DEF Kept

LEMMA SourcesTellRecordsApart ==
  ASSUME NEW r \in GameRecord
  PROVE  r \notin QuoteRecord
<1>1. "source" \notin DOMAIN r
  BY DEF GameRecord
<1>2. r \in QuoteRecord => "source" \in DOMAIN r
  BY DEF QuoteRecord
<1> QED
  BY <1>1, <1>2

(* The tables that tie quotes to games, when games were added and quotes   *)
(* are as before.                                                          *)
LEMMA SameQuotes ==
  ASSUME CatalogInv, Kept, quotes' = quotes,
         \A r \in seen' \ seen : r \in GameRecord /\ link'[r.event] # None
  PROVE  QuotesFollowLinks' /\ PayloadsAreQuotes' /\ SeenGamesAreLinked' /\ SeenQuotesAreStored'
<1> USE DEF CatalogInv
<1>1. PayloadsAreQuotes'
  BY DEF PayloadsAreQuotes
<1>2. QuotesFollowLinks'
  <2> SUFFICES ASSUME NEW q \in quotes, NEW r \in q.from
               PROVE  q.market.game = link'[r.event]
    BY DEF QuotesFollowLinks
  <2>1. q.market.game = link[r.event] /\ r.event \in Events
    BY DEF QuotesFollowLinks, PayloadsAreQuotes, QuoteRecord
  <2>2. q.market.game # None
    BY MarketsHaveGames
  <2> QED
    BY <2>1, <2>2 DEF Kept
<1>3. SeenGamesAreLinked'
  <2> SUFFICES ASSUME NEW r \in seen', r \in GameRecord
               PROVE  link'[r.event] # None
    BY DEF SeenGamesAreLinked
  <2>1. r.event \in Events
    BY DEF GameRecord
  <2>2. r \in seen => link[r.event] # None
    BY DEF SeenGamesAreLinked
  <2> QED
    BY <2>1, <2>2 DEF Kept
<1>4. SeenQuotesAreStored'
  <2> SUFFICES ASSUME NEW r \in seen', r \in QuoteRecord
               PROVE  QuoteOf(r)' \in quotes'
    BY DEF SeenQuotesAreStored, QuoteOf
  <2>1. r \in seen
    BY SourcesTellRecordsApart
  <2>2. QuoteOf(r) \in quotes /\ r.event \in Events
    BY <2>1 DEF SeenQuotesAreStored, QuoteOf, QuoteRecord
  <2> QED
    BY <2>2, QuoteKept
<1> QED
  BY <1>1, <1>2, <1>3, <1>4

LEMMA RequestStep ==
  ASSUME CatalogInv, Requests
  PROVE  CatalogInv' /\ Kept
<1> USE DEF CatalogInv
<1>0. /\ games \in Seq(Rows(teams)) /\ Len(games) \in Nat /\ DOMAIN games = 1 .. Len(games)
      /\ teams \subseteq Teams
      /\ \A g \in DOMAIN games : games[g].home # games[g].away
      /\ link \in [Events -> DOMAIN games \cup {None}]
      /\ \A m \in DOMAIN market : m \in [game : DOMAIN games, terms : Lines] /\ market[m] \in {"DRAFT", "OPEN"}
      /\ \A q \in quotes : q.market \in DOMAIN market /\ q.selection \in Expected(q.market.terms)
  BY DEF CatalogTypeOK, Rows
<1>1. CASE \E name \in Teams : CreateTeam(name)
  <2>1. PICK name \in Teams : CreateTeam(name)
    BY <1>1
  <2>2. /\ teams' = teams \cup {name}
        /\ games' = games /\ link' = link /\ seen' = seen /\ market' = market /\ quotes' = quotes
    BY <2>1 DEF CreateTeam
  <2>3. teams' \subseteq Teams /\ teams \subseteq teams'
    BY <1>0, <2>2
  <2>4. games' \in Seq(Rows(teams'))
    BY <1>0, <2>2, <2>3, RowsOfMoreTeams
  <2>5. CatalogTypeOK'
    BY <1>0, <2>2, <2>3, <2>4 DEF CatalogTypeOK, Rows
  <2>6. Kept
    BY <2>2 DEF Kept
  <2> QED
    BY <2>2, <2>5, <2>6, SameQuotes
<1>2. CASE \E home, away \in Teams, at \in Times : CreateGame(home, away, at)
  <2>1. PICK home \in Teams, away \in Teams, at \in Times : CreateGame(home, away, at)
    BY <1>2
  <2>2. PICK new : new = NewGame(home, away, at)
    OBVIOUS
  <2>3. /\ games' = Append(games, new) /\ home # away /\ home \in teams /\ away \in teams
        /\ teams' = teams /\ link' = link /\ seen' = seen /\ market' = market /\ quotes' = quotes
    BY <2>1, <2>2 DEF CreateGame
  <2>4. new \in Rows(teams) /\ new.home # new.away
    BY <2>2, <2>3 DEF NewGame, Rows
  <2>5. games' \in Seq(Rows(teams)) /\ Len(games') = Len(games) + 1 /\ DOMAIN games' = 1 .. Len(games) + 1
    BY <1>0, <2>3, <2>4
  <2>6. DOMAIN games \subseteq DOMAIN games'
    BY <1>0, <2>5
  <2>7. \A g \in DOMAIN games' : games'[g].home # games'[g].away
    <3>1. \A g \in DOMAIN games' : games'[g] = IF g = Len(games) + 1 THEN new ELSE games[g]
      BY <1>0, <2>3, <2>4, <2>5
    <3>2. \A g \in DOMAIN games' : g = Len(games) + 1 \/ g \in DOMAIN games
      BY <1>0, <2>5
    <3> QED
      BY <1>0, <2>4, <3>1, <3>2
  <2>8. CatalogTypeOK'
    BY <1>0, <2>3, <2>5, <2>6, <2>7 DEF CatalogTypeOK, Rows
  <2>9. Kept
    BY <2>3, <2>6 DEF Kept
  <2> QED
    BY <2>3, <2>8, <2>9, SameQuotes
<1>3. CASE \E m \in Markets : CreateMarket(m)
  <2>1. PICK m \in Markets : CreateMarket(m)
    BY <1>3
  <2>2. /\ market' = WithMarket(m)
        /\ teams' = teams /\ games' = games /\ link' = link /\ seen' = seen /\ quotes' = quotes
    BY <2>1 DEF CreateMarket
  <2>3. /\ DOMAIN market' = DOMAIN market \cup {m}
        /\ \A n \in DOMAIN market' : market'[n] = IF n \in DOMAIN market THEN market[n] ELSE "DRAFT"
    BY <2>2 DEF WithMarket
  <2>4. CatalogTypeOK'
    BY <1>0, <2>2, <2>3 DEF CatalogTypeOK, Rows, Markets
  <2>5. Kept
    BY <2>2 DEF Kept
  <2> QED
    BY <2>2, <2>4, <2>5, SameQuotes
<1>4. CASE \E m \in DOMAIN market, selection \in {"HOME", "AWAY", "OVER", "UNDER"}, odds \in Odds :
             CreateQuote(m, selection, odds)
  <2>1. PICK m \in DOMAIN market, selection \in {"HOME", "AWAY", "OVER", "UNDER"}, odds \in Odds :
          CreateQuote(m, selection, odds)
    BY <1>4
  <2>2. PICK new : new = Quote(m, selection, odds, {})
    OBVIOUS
  <2>3. /\ quotes' = quotes \cup {new} /\ selection \in Expected(m.terms)
        /\ market' = market \/ market' = [market EXCEPT ![m] = "OPEN"]
        /\ teams' = teams /\ games' = games /\ link' = link /\ seen' = seen
    BY <2>1, <2>2 DEF CreateQuote
  <2>4. new.market = m /\ new.selection = selection /\ new.from = {}
    BY <2>2 DEF Quote
  <2>5. /\ DOMAIN market' = DOMAIN market
        /\ \A n \in DOMAIN market : market'[n] = market[n] \/ market'[n] = "OPEN"
    BY <2>3
  <2>6. CatalogTypeOK'
    BY <1>0, <2>3, <2>4, <2>5 DEF CatalogTypeOK, Rows
  <2>7. Kept
    BY <2>3 DEF Kept
  <2>8. QuotesFollowLinks' /\ PayloadsAreQuotes'
    BY <2>3, <2>4 DEF QuotesFollowLinks, PayloadsAreQuotes
  <2>9. SeenGamesAreLinked'
    BY <2>3 DEF SeenGamesAreLinked
  <2>10. SeenQuotesAreStored'
    <3> SUFFICES ASSUME NEW r \in seen, r \in QuoteRecord
                 PROVE  QuoteOf(r)' \in quotes'
      BY <2>3 DEF SeenQuotesAreStored, QuoteOf
    <3>1. QuoteOf(r) \in quotes /\ r.event \in Events
      BY DEF SeenQuotesAreStored, QuoteOf, QuoteRecord
    <3> QED
      BY <2>7, <3>1, QuoteKept
  <2> QED
    BY <2>6, <2>7, <2>8, <2>9, <2>10
<1>5. CASE \E g \in DOMAIN games : FinishGame(g)
  <2>1. PICK g \in DOMAIN games : FinishGame(g)
    BY <1>5
  <2>2. PICK row : row = [games[g] EXCEPT !.status = "FINAL"]
    OBVIOUS
  <2>3. /\ games' = [games EXCEPT ![g] = row]
        /\ teams' = teams /\ link' = link /\ seen' = seen /\ market' = market /\ quotes' = quotes
    BY <2>1, <2>2 DEF FinishGame
  <2>4. games[g] \in Rows(teams)
    BY <1>0
  <2>5. row \in Rows(teams) /\ row.home = games[g].home /\ row.away = games[g].away
    BY <2>2, <2>4 DEF Rows
  <2>6. /\ games' \in Seq(Rows(teams)) /\ DOMAIN games' = DOMAIN games
        /\ \A i \in DOMAIN games : games'[i] = IF i = g THEN row ELSE games[i]
    BY <1>0, <2>3, <2>5
  <2>7. CatalogTypeOK'
    BY <1>0, <2>3, <2>5, <2>6 DEF CatalogTypeOK, Rows
  <2>8. Kept
    BY <2>3, <2>6 DEF Kept
  <2> QED
    BY <2>3, <2>7, <2>8, SameQuotes
<1> QED
  BY <1>1, <1>2, <1>3, <1>4, <1>5 DEF Requests

LEMMA SyncGamesStep ==
  ASSUME CatalogInv, NEW feed \in Seq(GameRecord), SyncGames(feed)
  PROVE  /\ CatalogInv' /\ Kept /\ quotes' = quotes
         /\ \A i \in DOMAIN feed : link'[feed[i].event] # None
<1> USE DEF CatalogInv
<1>1. PICK t \in GamesAfter(feed)[Len(feed)] :
        teams' = t.teams /\ games' = t.games /\ link' = t.link /\ seen' = t.seen
  BY DEF SyncGames
<1>2. /\ teams' = t.teams /\ games' = t.games /\ link' = t.link /\ seen' = t.seen
      /\ market' = market /\ quotes' = quotes
  BY <1>1 DEF SyncGames
<1>3. GamesTaken(feed, Len(feed), t)
  <2>1. GamesAccepted(feed)
    BY DEF SyncGames
  <2> QED
    BY <1>1, <2>1, GamesImport
<1>4. GameTablesOK(t) /\ Grown(GameTables, t)
  BY <1>3 DEF GamesTaken
<1>5. Kept
  BY <1>2, <1>4 DEF Kept, Grown, GameTables
<1>6. CatalogTypeOK'
  <2>1. \A m \in DOMAIN market : m \in [game : DOMAIN games', terms : Lines]
    BY <1>5 DEF Kept, CatalogTypeOK
  <2> QED
    BY <1>2, <1>4, <2>1 DEF CatalogTypeOK, GameTablesOK, Rows
<1>7. DOMAIN feed = 1 .. Len(feed) /\ \A i \in DOMAIN feed : feed[i] \in GameRecord
  OBVIOUS
<1>8. \A i \in DOMAIN feed : link'[feed[i].event] # None
  BY <1>2, <1>3, <1>7 DEF GamesTaken
<1>9. \A r \in seen' \ seen : r \in GameRecord /\ link'[r.event] # None
  <2>1. seen' \subseteq seen \cup {feed[j] : j \in DOMAIN feed}
    BY <1>2, <1>3, <1>7 DEF GamesTaken
  <2> QED
    BY <1>7, <1>8, <2>1
<1> QED
  BY <1>2, <1>5, <1>6, <1>8, <1>9, SameQuotes

LEMMA SyncQuotesStep ==
  ASSUME CatalogInv, NEW feed \in Seq(QuoteRecord), SyncQuotes(feed),
         \A i \in DOMAIN feed : feed[i].selection \in Expected(feed[i].terms)
  PROVE  /\ CatalogInv' /\ Kept
         /\ \A i \in DOMAIN feed : QuoteOf(feed[i])' \in quotes'
<1> USE DEF CatalogInv
<1>1. PICK t : t = QuotesAfter(feed)[Len(feed)]
  OBVIOUS
<1>2. /\ market' = t.market /\ quotes' = t.visible \cup t.pending
      /\ seen' = seen \cup {feed[i] : i \in DOMAIN feed}
      /\ teams' = teams /\ games' = games /\ link' = link
  BY <1>1 DEF SyncQuotes
<1>3. QuotesAccepted(feed)
  BY DEF SyncQuotes
<1>4. QuotesTaken(feed, Len(feed), t)
  BY <1>1, <1>3, QuotesImport
<1>5. DOMAIN feed = 1 .. Len(feed) /\ \A i \in DOMAIN feed : feed[i] \in QuoteRecord
  OBVIOUS
<1>6. /\ DOMAIN market \subseteq DOMAIN market' /\ quotes \subseteq quotes'
      /\ \A m \in DOMAIN market' :
           m \in [game : DOMAIN games, terms : Lines] /\ market'[m] \in {"DRAFT", "OPEN"}
      /\ \A i \in DOMAIN feed : QuoteOf(feed[i]) \in quotes'
  BY <1>2, <1>4, <1>5 DEF QuotesTaken
<1>7. \A q \in quotes' \ quotes :
        \E i \in DOMAIN feed : q = QuoteOf(feed[i]) /\ q.market \in DOMAIN market'
  BY <1>2, <1>4, <1>5 DEF QuotesTaken
<1>8. \A r : /\ QuoteOf(r).market = MarketOf(r) /\ QuoteOf(r).selection = r.selection
             /\ QuoteOf(r).from = {r} /\ QuoteOf(r)' = QuoteOf(r)
             /\ MarketOf(r).game = link[r.event] /\ MarketOf(r).terms = r.terms
  BY <1>2 DEF QuoteOf, Quote, MarketOf
<1>9. Kept
  BY <1>2, <1>6 DEF Kept
<1>10. CatalogTypeOK'
  <2>1. \A q \in quotes' : q.market \in DOMAIN market' /\ q.selection \in Expected(q.market.terms)
    <3> SUFFICES ASSUME NEW q \in quotes'
                 PROVE  q.market \in DOMAIN market' /\ q.selection \in Expected(q.market.terms)
      OBVIOUS
    <3>1. CASE q \in quotes
      BY <1>6, <3>1 DEF CatalogTypeOK
    <3>2. CASE q \notin quotes
      <4>1. PICK i \in DOMAIN feed : q = QuoteOf(feed[i]) /\ q.market \in DOMAIN market'
        BY <1>7, <3>2
      <4> QED
        BY <1>8, <4>1
    <3> QED
      BY <3>1, <3>2
  <2> QED
    BY <1>2, <1>6, <2>1 DEF CatalogTypeOK
<1>11. QuotesFollowLinks' /\ PayloadsAreQuotes'
  <2> SUFFICES ASSUME NEW q \in quotes'
               PROVE  q.from \subseteq QuoteRecord /\ \A r \in q.from : q.market.game = link[r.event]
    BY <1>2 DEF QuotesFollowLinks, PayloadsAreQuotes
  <2>1. CASE q \in quotes
    BY <2>1 DEF QuotesFollowLinks, PayloadsAreQuotes
  <2>2. CASE q \notin quotes
    <3>1. PICK i \in DOMAIN feed : q = QuoteOf(feed[i])
      BY <1>7, <2>2
    <3>2. PICK r \in QuoteRecord : r = feed[i]
      BY <1>5
    <3>3. q.from = {r} /\ q.market.game = link[r.event]
      BY <1>8, <3>1, <3>2
    <3> QED
      BY <3>3
  <2> QED
    BY <2>1, <2>2
<1>12. SeenGamesAreLinked'
  BY <1>2, <1>3 DEF SeenGamesAreLinked, QuotesAccepted
<1>13. SeenQuotesAreStored'
  <2> SUFFICES ASSUME NEW r \in seen', r \in QuoteRecord
               PROVE  QuoteOf(r)' \in quotes'
    BY DEF SeenQuotesAreStored, QuoteOf
  <2>1. CASE r \in seen
    BY <1>6, <1>8, <2>1 DEF SeenQuotesAreStored, QuoteOf
  <2>2. CASE r \notin seen
    BY <1>2, <1>6, <1>8, <2>2
  <2> QED
    BY <2>1, <2>2
<1> QED
  BY <1>6, <1>8, <1>9, <1>10, <1>11, <1>12, <1>13

-----------------------------------------------------------------------------
(* Steps of the commands. *)

(* A step that keeps the catalogue keeps what was imported of a day. *)
LEMMA ImportedStaysImported ==
  ASSUME CatalogInv, Kept, NEW d \in 1 .. LastDay
  PROVE  /\ GamesImported(d) => GamesImported(d)'
         /\ QuotesImported(d) => QuotesImported(d)'
<1>0. Snapshots[d].games \in Seq(GameRecord) /\ Snapshots[d].quotes \in Seq(QuoteRecord)
  BY BackfillAssumption
<1>1. \A i \in DOMAIN Snapshots[d].games : Snapshots[d].games[i].event \in Events
  <2>1. PICK feed \in Seq(GameRecord) : feed = Snapshots[d].games
    BY <1>0
  <2>2. \A i \in DOMAIN feed : feed[i] \in GameRecord
    OBVIOUS
  <2> QED
    BY <2>1, <2>2 DEF GameRecord
<1>2. \A i \in DOMAIN Snapshots[d].quotes : Snapshots[d].quotes[i].event \in Events
  <2>1. PICK feed \in Seq(QuoteRecord) : feed = Snapshots[d].quotes
    BY <1>0
  <2>2. \A i \in DOMAIN feed : feed[i] \in QuoteRecord
    OBVIOUS
  <2> QED
    BY <2>1, <2>2 DEF QuoteRecord
<1>3. GamesImported(d) => GamesImported(d)'
  BY <1>1 DEF GamesImported, Kept
<1>4. ASSUME QuotesImported(d)
      PROVE  QuotesImported(d)'
  <2>1. ASSUME NEW i \in DOMAIN Snapshots[d].quotes
        PROVE  QuoteOf(Snapshots[d].quotes[i])' \in quotes'
    <3>1. QuoteOf(Snapshots[d].quotes[i]) \in quotes
      BY <1>4 DEF QuotesImported, QuoteOf
    <3> QED
      BY <1>2, <3>1, QuoteKept DEF CatalogInv
  <2> QED
    BY <2>1 DEF QuotesImported, QuoteOf
<1> QED
  BY <1>3, <1>4

LEMMA CompletedByParts ==
  CompletedDaysAreImported <=>
    \A d \in 1 .. LastDay : checkpoint[d] = "COMPLETED" => GamesImported(d) /\ QuotesImported(d)
BY DEF CompletedDaysAreImported, GamesImported, QuotesImported

(* What the commands keep, when the checkpoints are as before. *)
LEMMA CheckpointsStand ==
  ASSUME BInv, CatalogInv', Kept, checkpoint' = checkpoint
  PROVE  CompletedDaysAreImported'
<1>1. \A d \in 1 .. LastDay : checkpoint[d] = "COMPLETED" => GamesImported(d) /\ QuotesImported(d)
  BY CompletedByParts DEF BInv
<1>2. ASSUME NEW d \in 1 .. LastDay, checkpoint'[d] = "COMPLETED"
      PROVE  GamesImported(d)' /\ QuotesImported(d)'
  BY <1>1, <1>2, ImportedStaysImported DEF BInv
<1>3. (\A d \in 1 .. LastDay : checkpoint[d] = "COMPLETED" => GamesImported(d) /\ QuotesImported(d))'
  BY <1>2
<1> QED
  BY <1>3, CompletedByParts, PTL

LEMMA UnchangedCatalog ==
  ASSUME CatalogInv, UNCHANGED catalogVars
  PROVE  CatalogInv' /\ Kept
<1>1. /\ teams' = teams /\ games' = games /\ link' = link /\ seen' = seen
      /\ market' = market /\ quotes' = quotes
  BY DEF catalogVars
<1>2. CatalogTypeOK'
  BY <1>1 DEF CatalogInv, CatalogTypeOK
<1>3. Kept
  BY <1>1 DEF Kept
<1>4. \A r \in seen' \ seen : r \in GameRecord /\ link'[r.event] # None
  BY <1>1
<1> QED
  BY <1>1, <1>2, <1>3, <1>4, SameQuotes DEF CatalogInv

(* The catalogue moves on, or a new day begins, while the commands stand. *)
LEMMA CommandsStand ==
  ASSUME BInv, CatalogInv', Kept, UNCHANGED <<checkpoint, job>>, today' \in 1 .. LastDay
  PROVE  BInv'
<1>1. JobTypeOK'
  BY DEF BInv, JobTypeOK
<1>2. CompletedDaysAreImported'
  BY CheckpointsStand
<1>3. JobIsWhereItSays'
  <2>1. CASE job = Idle
    BY <2>1 DEF JobIsWhereItSays
  <2>2. CASE job # Idle
    <3>1. job.day \in 1 .. LastDay
      BY <2>2 DEF BInv, JobTypeOK, Job
    <3>2. job' = job /\ JobIsWhereItSays /\ CatalogInv
      BY DEF BInv
    <3>3. PICK d \in 1 .. LastDay : d = job.day
      BY <3>1
    <3>4. (GamesImported(d) => GamesImported(d)') /\ (QuotesImported(d) => QuotesImported(d)')
      BY <3>2, ImportedStaysImported
    <3>5. /\ job.from <= d /\ d <= job.to
          /\ job.step \in {"quotes", "complete"} => GamesImported(d)
          /\ job.step = "complete" => QuotesImported(d)
      BY <2>2, <3>2, <3>3 DEF JobIsWhereItSays
    <3>6. job'.day = d /\ job'.from = job.from /\ job'.to = job.to /\ job'.step = job.step
      BY <3>2, <3>3
    <3>7. GamesImported(job.day)' <=> GamesImported(d)'
      BY <3>6 DEF GamesImported
    <3>8. QuotesImported(job.day)' <=> QuotesImported(d)'
      BY <3>6 DEF QuotesImported, Quote, MarketOf
    <3> QED
      BY <3>4, <3>5, <3>6, <3>7, <3>8 DEF JobIsWhereItSays
  <2> QED
    BY <2>1, <2>2
<1>4. NoDayIsPassedOver'
  BY DEF BInv, NoDayIsPassedOver
<1> QED
  BY <1>1, <1>2, <1>3, <1>4 DEF BInv

LEMMA JobFields ==
  ASSUME JobTypeOK, job # Idle
  PROVE  /\ job \in Job
         /\ job.kind \in {"sync", "backfill"}
         /\ job.from \in 1 .. LastDay /\ job.day \in 1 .. LastDay /\ job.to \in 1 .. LastDay
         /\ job.step \in {"begin", "games", "quotes", "complete"}
BY DEF JobTypeOK, Job

(* A job goes on to a step, or to the next day, that is one of its own. *)
LEMMA StepFields ==
  ASSUME NEW j \in Job, NEW step \in {"begin", "games", "quotes", "complete"}, NEW k,
         k = [j EXCEPT !.step = step]
  PROVE  /\ k \in Job /\ k # Idle /\ k.step = step
         /\ k.kind = j.kind /\ k.from = j.from /\ k.day = j.day /\ k.to = j.to
BY BackfillAssumption DEF Job

LEMMA NextDayFields ==
  ASSUME NEW j \in Job, j.day < j.to, NEW k,
         k = [j EXCEPT !.day = @ + 1, !.step = "begin"]
  PROVE  /\ k \in Job /\ k # Idle /\ k.step = "begin"
         /\ k.kind = j.kind /\ k.from = j.from /\ k.day = j.day + 1 /\ k.to = j.to
<1>1. /\ j.day \in 1 .. LastDay /\ j.to \in 1 .. LastDay /\ LastDay \in Nat
      /\ j.from \in 1 .. LastDay /\ j.kind \in {"sync", "backfill"}
      /\ j = [kind |-> j.kind, from |-> j.from, day |-> j.day, to |-> j.to, step |-> j.step]
  BY BackfillAssumption DEF Job
<1>2. j.day + 1 \in 1 .. LastDay
  BY <1>1
<1>3. k = [kind |-> j.kind, from |-> j.from, day |-> j.day + 1, to |-> j.to, step |-> "begin"]
  BY <1>1
<1>4. k \in Job
  BY <1>1, <1>2, <1>3 DEF Job
<1>5. /\ k.step = "begin" /\ k.kind = j.kind /\ k.from = j.from /\ k.day = j.day + 1
      /\ k.to = j.to
  BY <1>3
<1> QED
  BY <1>4, <1>5, BackfillAssumption

(* A command that ends leaves nothing half done that its checkpoint does   *)
(* not show.                                                               *)
LEMMA JobEnds ==
  ASSUME BInv, job' = Idle, UNCHANGED <<catalogVars, today>>,
         checkpoint' \in [1 .. LastDay -> {"none", "RUNNING", "COMPLETED", "FAILED"}],
         \A d \in 1 .. LastDay :
           checkpoint'[d] = "COMPLETED" => GamesImported(d) /\ QuotesImported(d)
  PROVE  BInv'
<1>1. CatalogInv' /\ Kept
  BY UnchangedCatalog DEF BInv
<1>2. JobTypeOK'
  BY DEF BInv, JobTypeOK
<1>3. JobIsWhereItSays' /\ NoDayIsPassedOver'
  BY DEF JobIsWhereItSays, NoDayIsPassedOver
<1>4. (\A d \in 1 .. LastDay : checkpoint[d] = "COMPLETED" => GamesImported(d) /\ QuotesImported(d))'
  BY <1>1, ImportedStaysImported DEF BInv
<1>5. CompletedDaysAreImported'
  BY <1>4, CompletedByParts, PTL
<1> QED
  BY <1>1, <1>2, <1>3, <1>5 DEF BInv

(* It goes on to a day whose games are not imported yet, and every day     *)
(* behind it is completed.                                                 *)
LEMMA JobGoesOn ==
  ASSUME BInv, UNCHANGED <<catalogVars, today>>, job' \in Job,
         job'.from <= job'.day, job'.day <= job'.to, job'.step \in {"begin", "games"},
         checkpoint' \in [1 .. LastDay -> {"none", "RUNNING", "COMPLETED", "FAILED"}],
         \A d \in 1 .. LastDay :
           checkpoint'[d] = "COMPLETED" => GamesImported(d) /\ QuotesImported(d),
         job'.kind = "backfill" =>
           \A d \in job'.from .. job'.day - 1 : checkpoint'[d] = "COMPLETED"
  PROVE  BInv'
<1>1. CatalogInv' /\ Kept
  BY UnchangedCatalog DEF BInv
<1>2. JobTypeOK'
  BY DEF BInv, JobTypeOK
<1>3. JobIsWhereItSays' /\ NoDayIsPassedOver'
  BY DEF JobIsWhereItSays, NoDayIsPassedOver
<1>4. (\A d \in 1 .. LastDay : checkpoint[d] = "COMPLETED" => GamesImported(d) /\ QuotesImported(d))'
  BY <1>1, ImportedStaysImported DEF BInv
<1>5. CompletedDaysAreImported'
  BY <1>4, CompletedByParts, PTL
<1> QED
  BY <1>1, <1>2, <1>3, <1>5 DEF BInv

LEMMA InitBInv == Init => BInv
<1> SUFFICES ASSUME Init
             PROVE  BInv
  OBVIOUS
<1>1. /\ teams = {} /\ games = <<>> /\ link = [e \in Events |-> None] /\ seen = {}
      /\ market = <<>> /\ quotes = {}
      /\ today = 1 /\ checkpoint = [d \in 1 .. LastDay |-> "none"] /\ job = Idle
  BY DEF Init, CatalogInit
<1>2. CatalogTypeOK
  BY <1>1 DEF CatalogTypeOK
<1>3. CatalogInv
  BY <1>1, <1>2 DEF CatalogInv, QuotesFollowLinks, PayloadsAreQuotes, SeenGamesAreLinked, SeenQuotesAreStored
<1>4. JobTypeOK
  BY <1>1, BackfillAssumption DEF JobTypeOK
<1>5. JobIsWhereItSays /\ NoDayIsPassedOver
  BY <1>1 DEF JobIsWhereItSays, NoDayIsPassedOver
<1>6. CompletedDaysAreImported
  BY <1>1 DEF CompletedDaysAreImported
<1> QED
  BY <1>3, <1>4, <1>5, <1>6 DEF BInv

LEMMA BeginDayStep ==
  ASSUME BInv, BeginDay
  PROVE  BInv'
<1>1. /\ CatalogInv /\ JobTypeOK /\ job # Idle /\ job.step = "begin"
      /\ UNCHANGED <<catalogVars, today>>
  BY DEF BInv, BeginDay, At
<1>2. PICK j \in Job : j = job
  BY <1>1, JobFields
<1>3. /\ j.from \in 1 .. LastDay /\ j.day \in 1 .. LastDay /\ j.to \in 1 .. LastDay
      /\ LastDay \in Nat /\ j.from <= j.day /\ j.day <= j.to
  BY <1>1, <1>2, BackfillAssumption DEF Job, BInv, JobIsWhereItSays
<1>4. checkpoint \in [1 .. LastDay -> {"none", "RUNNING", "COMPLETED", "FAILED"}]
  BY <1>1 DEF JobTypeOK
<1>5. \A d \in 1 .. LastDay : checkpoint[d] = "COMPLETED" => GamesImported(d) /\ QuotesImported(d)
  BY CompletedByParts DEF BInv
<1>6. j.kind = "backfill" => \A d \in j.from .. j.day - 1 : checkpoint[d] = "COMPLETED"
  BY <1>1, <1>2 DEF BInv, NoDayIsPassedOver
<1>7. CASE checkpoint[j.day] = "COMPLETED"
  <2>1. checkpoint' = checkpoint /\ job' = NextDay
    BY <1>2, <1>7 DEF BeginDay
  <2>2. CASE j.day < j.to
    <3>1. job' = [j EXCEPT !.day = @ + 1, !.step = "begin"]
      BY <1>2, <2>1, <2>2 DEF NextDay
    <3>2. /\ job' \in Job /\ job'.step = "begin" /\ job'.kind = j.kind
          /\ job'.from = j.from /\ job'.day = j.day + 1 /\ job'.to = j.to
      BY <2>2, <3>1, NextDayFields
    <3>3. job'.from <= job'.day /\ job'.day <= job'.to
      BY <1>3, <2>2, <3>2
    <3>4. \A d \in j.from .. j.day : d = j.day \/ d \in j.from .. j.day - 1
      BY <1>3
    <3>5. job'.day - 1 = j.day
      BY <1>3, <3>2
    <3>6. job'.kind = "backfill" => \A d \in job'.from .. job'.day - 1 : checkpoint'[d] = "COMPLETED"
      BY <1>6, <1>7, <2>1, <3>2, <3>4, <3>5
    <3> QED
      BY <1>1, <1>4, <1>5, <2>1, <3>2, <3>3, <3>6, JobGoesOn
  <2>3. CASE ~ (j.day < j.to)
    <3>1. job' = Idle
      BY <1>2, <2>1, <2>3 DEF NextDay
    <3> QED
      BY <1>1, <1>4, <1>5, <2>1, <3>1, JobEnds
  <2> QED
    BY <2>2, <2>3
<1>8. CASE checkpoint[j.day] # "COMPLETED"
  <2>1. checkpoint' = [checkpoint EXCEPT ![j.day] = "RUNNING"] /\ job' = [j EXCEPT !.step = "games"]
    BY <1>2, <1>8 DEF BeginDay
  <2>2. /\ checkpoint' \in [1 .. LastDay -> {"none", "RUNNING", "COMPLETED", "FAILED"}]
        /\ \A d \in 1 .. LastDay : checkpoint'[d] = IF d = j.day THEN "RUNNING" ELSE checkpoint[d]
    BY <1>3, <1>4, <2>1
  <2>3. /\ job' \in Job /\ job'.step = "games" /\ job'.kind = j.kind
        /\ job'.from = j.from /\ job'.day = j.day /\ job'.to = j.to
    BY <2>1, StepFields
  <2>4. job'.from <= job'.day /\ job'.day <= job'.to
    BY <1>3, <2>3
  <2>5. \A d \in j.from .. j.day - 1 : d \in 1 .. LastDay /\ d # j.day
    BY <1>3
  <2>6. job'.kind = "backfill" => \A d \in job'.from .. job'.day - 1 : checkpoint'[d] = "COMPLETED"
    BY <1>6, <2>2, <2>3, <2>5
  <2>7. \A d \in 1 .. LastDay : checkpoint'[d] = "COMPLETED" => GamesImported(d) /\ QuotesImported(d)
    BY <1>5, <2>2
  <2> QED
    BY <1>1, <2>2, <2>3, <2>4, <2>6, <2>7, JobGoesOn
<1> QED
  BY <1>7, <1>8

LEMMA CompleteDayStep ==
  ASSUME BInv, CompleteDay
  PROVE  BInv'
<1>1. /\ CatalogInv /\ JobTypeOK /\ job # Idle /\ job.step = "complete"
      /\ UNCHANGED <<catalogVars, today>>
      /\ checkpoint' = [checkpoint EXCEPT ![job.day] = "COMPLETED"]
      /\ job' \in {NextDay, Idle}
  BY DEF BInv, CompleteDay, At
<1>2. PICK j \in Job : j = job
  BY <1>1, JobFields
<1>3. /\ j.from \in 1 .. LastDay /\ j.day \in 1 .. LastDay /\ j.to \in 1 .. LastDay
      /\ LastDay \in Nat /\ j.from <= j.day /\ j.day <= j.to
  BY <1>1, <1>2, BackfillAssumption DEF Job, BInv, JobIsWhereItSays
<1>4. /\ checkpoint' \in [1 .. LastDay -> {"none", "RUNNING", "COMPLETED", "FAILED"}]
      /\ \A d \in 1 .. LastDay : checkpoint'[d] = IF d = j.day THEN "COMPLETED" ELSE checkpoint[d]
  BY <1>1, <1>2, <1>3 DEF JobTypeOK
<1>5. GamesImported(j.day) /\ QuotesImported(j.day)
  BY <1>1, <1>2 DEF BInv, JobIsWhereItSays
<1>6. \A d \in 1 .. LastDay : checkpoint[d] = "COMPLETED" => GamesImported(d) /\ QuotesImported(d)
  BY CompletedByParts DEF BInv
<1>7. \A d \in 1 .. LastDay : checkpoint'[d] = "COMPLETED" => GamesImported(d) /\ QuotesImported(d)
  BY <1>4, <1>5, <1>6
<1>8. j.kind = "backfill" => \A d \in j.from .. j.day - 1 : checkpoint[d] = "COMPLETED"
  BY <1>1, <1>2 DEF BInv, NoDayIsPassedOver
<1>9. CASE job' = Idle
  BY <1>1, <1>4, <1>7, <1>9, JobEnds
<1>10. CASE job' # Idle
  <2>1. j.day < j.to /\ job' = [j EXCEPT !.day = @ + 1, !.step = "begin"]
    BY <1>1, <1>2, <1>10 DEF NextDay
  <2>2. /\ job' \in Job /\ job'.step = "begin" /\ job'.kind = j.kind
        /\ job'.from = j.from /\ job'.day = j.day + 1 /\ job'.to = j.to
    BY <2>1, NextDayFields
  <2>3. job'.from <= job'.day /\ job'.day <= job'.to
    BY <1>3, <2>1, <2>2
  <2>4. \A d \in j.from .. j.day : d \in 1 .. LastDay /\ (d = j.day \/ d \in j.from .. j.day - 1)
    BY <1>3
  <2>5. job'.day - 1 = j.day
    BY <1>3, <2>2
  <2>6. job'.kind = "backfill" => \A d \in job'.from .. job'.day - 1 : checkpoint'[d] = "COMPLETED"
    BY <1>4, <1>8, <2>2, <2>4, <2>5
  <2> QED
    BY <1>1, <1>4, <1>7, <2>2, <2>3, <2>6, JobGoesOn
<1> QED
  BY <1>9, <1>10

LEMMA StartStep ==
  ASSUME BInv, StartSync \/ \E from, to \in Days : StartBackfill(from, to)
  PROVE  BInv'
<1>1. /\ CatalogInv /\ JobTypeOK /\ UNCHANGED <<catalogVars, today, checkpoint>>
      /\ today \in 1 .. LastDay /\ LastDay \in Nat
  BY BackfillAssumption DEF BInv, JobTypeOK, StartSync, StartBackfill
<1>2. PICK kind \in {"sync", "backfill"}, from \in Days, to \in Days,
             step \in {"begin", "games"} :
        /\ from <= to
        /\ job' = [kind |-> kind, from |-> from, day |-> from, to |-> to, step |-> step]
  <2>1. CASE StartSync
    <3>1. job' = [kind |-> "sync", from |-> today, day |-> today, to |-> today, step |-> "games"]
      BY <2>1 DEF StartSync
    <3>2. today \in Days /\ today <= today
      BY <1>1 DEF Days
    <3> QED
      BY <3>1, <3>2
  <2>2. CASE \E from, to \in Days : StartBackfill(from, to)
    BY <2>2 DEF StartBackfill
  <2> QED
    BY <2>1, <2>2
<1>3. from \in 1 .. LastDay /\ to \in 1 .. LastDay
  BY <1>1 DEF Days
<1>4. job' \in Job
  BY <1>2, <1>3 DEF Job
<1>5. /\ job'.from = from /\ job'.day = from /\ job'.to = to /\ job'.step \in {"begin", "games"}
  BY <1>2
<1>6. \A d \in 1 .. LastDay : checkpoint'[d] = "COMPLETED" => GamesImported(d) /\ QuotesImported(d)
  BY <1>1, CompletedByParts DEF BInv
<1>7. job'.from <= job'.day /\ job'.day <= job'.to
  BY <1>2, <1>3, <1>5
<1>8. \A d \in job'.from .. job'.day - 1 : checkpoint'[d] = "COMPLETED"
  BY <1>3, <1>5
<1>9. checkpoint' \in [1 .. LastDay -> {"none", "RUNNING", "COMPLETED", "FAILED"}]
  BY <1>1 DEF JobTypeOK
<1> QED
  BY <1>1, <1>4, <1>5, <1>6, <1>7, <1>8, <1>9, JobGoesOn

(* An import, whether its job goes on or ends with it. *)
LEMMA ImportStep ==
  ASSUME BInv, CatalogInv', Kept, UNCHANGED <<today, checkpoint>>, NEW j \in Job, j = job,
         NEW step \in {"quotes", "complete"},
         job' = Idle \/ job' = [j EXCEPT !.step = step],
         GamesImported(j.day)', step = "complete" => QuotesImported(j.day)'
  PROVE  BInv'
<1>1. CompletedDaysAreImported'
  BY CheckpointsStand
<1>2. CASE job' = Idle
  BY <1>1, <1>2 DEF BInv, JobTypeOK, JobIsWhereItSays, NoDayIsPassedOver
<1>3. CASE job' = [j EXCEPT !.step = step]
  <2>1. /\ job' \in Job /\ job' # Idle /\ job'.step = step
        /\ job'.kind = j.kind /\ job'.from = j.from /\ job'.day = j.day /\ job'.to = j.to
    BY <1>3, StepFields
  <2>2. job # Idle /\ j.from <= j.day /\ j.day <= j.to
    BY BackfillAssumption DEF BInv, JobIsWhereItSays
  <2>3. (GamesImported(job.day)' <=> GamesImported(j.day)') /\ (QuotesImported(job.day)' <=> QuotesImported(j.day)')
    BY <2>1 DEF GamesImported, QuotesImported, Quote, MarketOf
  <2>4. JobIsWhereItSays'
    BY <2>1, <2>2, <2>3 DEF JobIsWhereItSays
  <2>5. NoDayIsPassedOver'
    BY <2>1, <2>2 DEF BInv, NoDayIsPassedOver
  <2>6. JobTypeOK'
    BY <2>1 DEF BInv, JobTypeOK
  <2> QED
    BY <1>1, <2>4, <2>5, <2>6 DEF BInv
<1> QED
  BY <1>2, <1>3

LEMMA ImportGamesStep ==
  ASSUME BInv, ImportGames
  PROVE  BInv' /\ quotes' = quotes
<1>1. PICK j \in Job : j = job
  BY JobFields DEF BInv, ImportGames, At
<1>2. j.day \in 1 .. LastDay
  BY DEF Job
<1>3. PICK feed \in Seq(GameRecord) : feed = Snapshots[j.day].games
  BY <1>2, BackfillAssumption
<1>4. SyncGames(feed) /\ job' = [j EXCEPT !.step = "quotes"] /\ UNCHANGED <<today, checkpoint>>
  BY <1>1, <1>3 DEF ImportGames
<1>5. /\ CatalogInv' /\ Kept /\ quotes' = quotes
      /\ \A i \in DOMAIN feed : link'[feed[i].event] # None
  BY <1>4, SyncGamesStep DEF BInv
<1>6. GamesImported(j.day)'
  BY <1>3, <1>5 DEF GamesImported
<1> QED
  BY <1>1, <1>4, <1>5, <1>6, ImportStep

LEMMA ImportQuotesStep ==
  ASSUME BInv, ImportQuotes
  PROVE  BInv'
<1>1. PICK j \in Job : j = job
  BY JobFields DEF BInv, ImportQuotes, At
<1>2. j.day \in 1 .. LastDay
  BY DEF Job
<1>3. PICK feed \in Seq(QuoteRecord) : feed = Snapshots[j.day].quotes
  BY <1>2, BackfillAssumption
<1>4. \A i \in DOMAIN feed : feed[i].selection \in Expected(feed[i].terms)
  BY <1>2, <1>3, BackfillAssumption
<1>5. /\ SyncQuotes(feed) /\ UNCHANGED <<today, checkpoint>>
      /\ job' = Idle \/ job' = [j EXCEPT !.step = "complete"]
  BY <1>1, <1>3 DEF ImportQuotes
<1>6. /\ CatalogInv' /\ Kept
      /\ \A i \in DOMAIN feed : QuoteOf(feed[i])' \in quotes'
  BY <1>4, <1>5, SyncQuotesStep DEF BInv
<1>7. QuotesImported(j.day)'
  BY <1>3, <1>6 DEF QuotesImported, QuoteOf
<1>8. GamesImported(j.day)'
  <2>1. GamesImported(j.day)
    BY <1>1, BackfillAssumption DEF BInv, JobIsWhereItSays, ImportQuotes, At
  <2> QED
    BY <1>2, <1>6, <2>1, ImportedStaysImported DEF BInv
<1> QED
  BY <1>1, <1>5, <1>6, <1>7, <1>8, ImportStep

LEMMA FailDayStep ==
  ASSUME BInv, FailDay \/ Crash
  PROVE  BInv'
<1>1. /\ JobTypeOK /\ job # Idle /\ job' = Idle /\ UNCHANGED <<catalogVars, today>>
      /\ checkpoint' = checkpoint \/ checkpoint' = [checkpoint EXCEPT ![job.day] = "FAILED"]
  BY DEF BInv, FailDay, Crash
<1>2. job.day \in 1 .. LastDay
  BY <1>1, JobFields
<1>3. /\ checkpoint' \in [1 .. LastDay -> {"none", "RUNNING", "COMPLETED", "FAILED"}]
      /\ \A d \in 1 .. LastDay : checkpoint'[d] = checkpoint[d] \/ checkpoint'[d] = "FAILED"
  BY <1>1, <1>2 DEF JobTypeOK
<1>4. \A d \in 1 .. LastDay : checkpoint[d] = "COMPLETED" => GamesImported(d) /\ QuotesImported(d)
  BY CompletedByParts DEF BInv
<1>5. \A d \in 1 .. LastDay : checkpoint'[d] = "COMPLETED" => GamesImported(d) /\ QuotesImported(d)
  BY <1>3, <1>4
<1> QED
  BY <1>1, <1>3, <1>5, JobEnds

LEMMA StepBInv == BInv /\ [Next]_vars => BInv'
<1> SUFFICES ASSUME BInv, [Next]_vars
             PROVE  BInv'
  OBVIOUS
<1>1. CASE Requests /\ UNCHANGED <<today, checkpoint, job>>
  <2>1. CatalogInv' /\ Kept
    BY <1>1, RequestStep DEF BInv
  <2>2. today' \in 1 .. LastDay
    BY <1>1 DEF BInv, JobTypeOK
  <2> QED
    BY <1>1, <2>1, <2>2, CommandsStand
<1>2. CASE StartSync \/ \E from, to \in Days : StartBackfill(from, to)
  BY <1>2, StartStep
<1>3. CASE BeginDay
  BY <1>3, BeginDayStep
<1>4. CASE ImportGames
  BY <1>4, ImportGamesStep
<1>5. CASE ImportQuotes
  BY <1>5, ImportQuotesStep
<1>6. CASE CompleteDay
  BY <1>6, CompleteDayStep
<1>7. CASE FailDay \/ Crash
  BY <1>7, FailDayStep
<1>8. CASE PassDay
  <2>1. CatalogInv' /\ Kept
    BY <1>8, UnchangedCatalog DEF BInv, PassDay
  <2>2. today' \in 1 .. LastDay
    BY <1>8, BackfillAssumption DEF BInv, JobTypeOK, PassDay
  <2> QED
    BY <1>8, <2>1, <2>2, CommandsStand DEF PassDay
<1>9. CASE UNCHANGED vars
  <2>1. UNCHANGED <<catalogVars, today, checkpoint, job>>
    BY <1>9 DEF vars, catalogVars
  <2>2. CatalogInv' /\ Kept
    BY <2>1, UnchangedCatalog DEF BInv
  <2>3. today' \in 1 .. LastDay
    BY <2>1 DEF BInv, JobTypeOK
  <2> QED
    BY <2>1, <2>2, <2>3, CommandsStand
<1> QED
  BY <1>1, <1>2, <1>3, <1>4, <1>5, <1>6, <1>7, <1>8, <1>9 DEF Next

(* The invariant holds in every behaviour. *)
LEMMA BInvHolds == Spec => []BInv
BY InitBInv, StepBInv, PTL DEF Spec

-----------------------------------------------------------------------------
(* The catalogue's rows refer to rows that exist: markets to games, quotes *)
(* to markets, links to games of two teams that are entered (the foreign   *)
(* keys and checks of cfb/models.py and ingestion/models.py), and a job    *)
(* works on a day of its range.                                            *)
THEOREM TypesHold == Spec => []TypeOK
<1>1. BInv => TypeOK
  BY DEF BInv, CatalogInv, JobTypeOK, TypeOK
<1> QED
  BY <1>1, BInvHolds, PTL

(* Every quote of an event stays on a market of the event's one game,      *)
(* whatever is entered by hand meanwhile and however the event moves:      *)
(* sync_games never links an event twice.                                  *)
THEOREM LinksAreFollowed == Spec => []QuotesFollowLinks
<1>1. BInv => QuotesFollowLinks
  BY DEF BInv, CatalogInv
<1> QED
  BY <1>1, BInvHolds, PTL

(* A day whose checkpoint says COMPLETED, which a rerun skips, has all its *)
(* games and quotes in the catalogue, whatever failed, died, was rerun or  *)
(* ran as a sync on the way.                                               *)
THEOREM CompletedIsImported == Spec => []CompletedDaysAreImported
<1>1. BInv => CompletedDaysAreImported
  BY DEF BInv
<1> QED
  BY <1>1, BInvHolds, PTL

(* A backfill never goes on to a day while one behind it in its range is   *)
(* not completed.                                                          *)
THEOREM DaysInOrder == Spec => []NoDayIsPassedOver
<1>1. BInv => NoDayIsPassedOver
  BY DEF BInv
<1> QED
  BY <1>1, BInvHolds, PTL

(* A quote that completes two stored sides opens its market, by hand       *)
(* (create_quote) and by import (sync_quotes), and no later record of the  *)
(* same import takes the market back to DRAFT.                             *)
THEOREM SidesOpen == Spec => StoredSidesOpen
<1> DEFINE Opens == \A q \in quotes' \ quotes :
                      Expected(q.market.terms) \subseteq SidesQuoted(q.market, quotes) \cup {q.selection}
                        => market'[q.market] = "OPEN"
<1>1. ASSUME BInv, [Next]_vars
      PROVE  Opens
  <2>1. CASE \E m \in DOMAIN market, selection \in {"HOME", "AWAY", "OVER", "UNDER"}, odds \in Odds :
               CreateQuote(m, selection, odds)
    <3>1. PICK m \in DOMAIN market, selection \in {"HOME", "AWAY", "OVER", "UNDER"}, odds \in Odds :
            CreateQuote(m, selection, odds)
      BY <2>1
    <3>2. PICK new : new = Quote(m, selection, odds, {})
      OBVIOUS
    <3>3. new.market = m /\ new.selection = selection
      BY <3>2 DEF Quote
    <3>4. quotes' = quotes \cup {new}
      BY <3>1, <3>2 DEF CreateQuote
    <3>5. SidesQuoted(m, quotes) \cup {selection} \subseteq SidesQuoted(m, quotes')
      BY <3>3, <3>4 DEF SidesQuoted
    <3>6. Expected(m.terms) \subseteq SidesQuoted(m, quotes') => market'[m] = "OPEN"
      BY <3>1 DEF CreateQuote
    <3> QED
      BY <3>3, <3>4, <3>5, <3>6
  <2>2. CASE ImportQuotes
    <3>1. PICK j \in Job : j = job
      BY <1>1, <2>2, JobFields DEF BInv, ImportQuotes, At
    <3>2. j.day \in 1 .. LastDay
      BY DEF Job
    <3>3. PICK feed \in Seq(QuoteRecord) : feed = Snapshots[j.day].quotes
      BY <3>2, BackfillAssumption
    <3>4. SyncQuotes(feed)
      BY <2>2, <3>1, <3>3 DEF ImportQuotes
    <3>5. PICK t : t = QuotesAfter(feed)[Len(feed)]
      OBVIOUS
    <3>6. QuotesTaken(feed, Len(feed), t)
      BY <1>1, <3>4, <3>5, QuotesImport DEF BInv, CatalogInv, SyncQuotes
    <3>7. market' = t.market /\ quotes' = t.visible \cup t.pending
      BY <3>4, <3>5 DEF SyncQuotes
    <3> QED
      BY <3>6, <3>7 DEF QuotesTaken, MakesTwoSides
  <2>3. CASE quotes' = quotes
    BY <2>3
  <2>4. CASE Requests
    <3>1. \/ quotes' = quotes
          \/ \E m \in DOMAIN market, selection \in {"HOME", "AWAY", "OVER", "UNDER"}, odds \in Odds :
               CreateQuote(m, selection, odds)
      BY <2>4 DEF Requests, CreateTeam, CreateGame, CreateMarket, FinishGame
    <3> QED
      BY <2>1, <2>3, <3>1
  <2>5. CASE ImportGames
    BY <1>1, <2>3, <2>5, ImportGamesStep
  <2>6. CASE UNCHANGED catalogVars
    BY <2>3, <2>6 DEF catalogVars
  <2>7. CASE \/ StartSync \/ \E from, to \in Days : StartBackfill(from, to)
             \/ BeginDay \/ CompleteDay \/ FailDay \/ Crash \/ PassDay
    <3>1. UNCHANGED catalogVars
      BY <2>7 DEF StartSync, StartBackfill, BeginDay, CompleteDay, FailDay, Crash, PassDay
    <3> QED
      BY <2>6, <3>1
  <2>8. CASE UNCHANGED vars
    BY <2>3, <2>8 DEF vars
  <2> QED
    BY <1>1, <2>2, <2>4, <2>5, <2>7, <2>8 DEF Next
<1>2. BInv /\ [Next]_vars => [Opens]_catalogVars
  BY <1>1
<1> QED
  BY <1>2, BInvHolds, PTL DEF Spec, StoredSidesOpen
=============================================================================
