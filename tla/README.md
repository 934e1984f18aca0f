# Edgebook in TLA+

Edgebook is a simulated sportsbook for college football: users hold accounts in a double-entry ledger, place bets at
quoted American odds, and win or lose when a game gets its final score, which users record by hand or which providers
report and a job settles. It is a FastAPI application over SQLAlchemy and PostgreSQL (SQLite in development) with a
few commands run by cron.

This directory holds TLA+ models of the parts in which money, bets, prices and scores change, TLC configurations that
check them on small instances, and TLAPS proofs of what matters most for all instances.

    tlc -workers 2 -config MCWagering.cfg MCWagering     # one run; PROJECT.json lists all of them
    tlapm Wagering_proofs.tla                            # one module's proofs

`PROJECT.json` maps every definition to the source lines it models, and names for every property of a passing run a
faulty variant of one definition that breaks it. Those variants stand in the modules next to what they vary, marked
"Faulty variant"; no specification uses them. Paths below are relative to `src/src/edgebook/`.

## The system

| Component | State | Operations | Correct when |
|---|---|---|---|
| Ledger (`ledger/`) | accounts with a materialised balance; journal entries of two postings; one capital account | open an account, deposit, withdraw; stake, payout and adjustment for wagers; reconcile | every entry balances; a balance is the sum of its postings; what users hold is what capital owes |
| Wagering (`wagering/services.py`) | bets; a game's status and score; score corrections | place a bet, record a result, correct a score | every bet is charged once and paid what the present score gives it; a key never buys two bets; a final score changes only with a correction row |
| Reviews (`wagering/reviews.py`) | one review per bet | claim, claim in bulk, complete | one reviewer per review; a completed review stays |
| Catalogue (`cfb/`) | teams, games, markets, quotes | create team, game, market, quote | one market per type and line, open once both sides are quoted |
| Ingestion (`ingestion/services.py`, `cli.py`) | provider observations, event links, score observations, run records, backfill checkpoints | import games, quotes and scores; daily sync; backfill of past days | imports are all or nothing; an event keeps its game; a completed day lacks nothing; the sync state of a game reflects all reports |
| Operations (`application/operations.py`) | none of its own | settle confirmed games, resolve a score conflict | only agreed or decided scores settle games; every confirmed game is settled |
| Authentication (`auth/`) | users | register, set a role, find the current user | a name and an account have one user |
| Adapters (`ingestion/adapters.py`) | none | fetch and translate provider payloads | lines and selections mean what settlement takes them to mean |
| Analytics (`analytics/`) | none | reports over settled bets and transactions | reports agree with the ledger and with each other |
| API, pages, observability | none that the program reads back | | |

How they interact: every HTTP request runs in a thread and a database session of its own and makes one call to a
service. Services of different components share the session: placing a bet posts to the ledger, settling a game posts
a payout per winner, resolving a conflict settles the game, and the caller commits. There are no callbacks and no
messages between components; what they share is the database. Commands (`ingestion/cli.py`) are processes of their
own over the same database. Imports take an advisory lock there, but not when an HTTP endpoint starts them.

What is hard to get right:

* **Interleaving.** READ COMMITTED, no row locks on reads, no version columns. Balances are read, added to in Python
  and written as absolute values; checks (game not final, key not used, no such market, state confirmed) precede the
  write by several statements; the session's identity map returns rows as first read.
* **Failure in the middle.** A service that posts to the ledger and then inserts a bet relies on one commit; the
  settlement job and the backfill commit piece by piece; registration commits the account before the user.
* **Crashes.** A backfill that dies leaves a day half imported and its checkpoint RUNNING.
* **Deadlock.** A settlement locks one account row after another and the shared capital row.
* **Stale reads within a session.** With autoflush off, queries do not see what the same import has changed before;
  objects in the identity map are not read again.
* **Order of events.** Results before the cutoff, rescheduling, corrections after payouts were spent, reports after a
  result, sources that correct themselves, quotes of two sides in one feed or at one time.
* **Arithmetic.** Signs of lines, half points, half cents, pushes, odds of both signs; periods that meet at instants.

`PROJECT.json` lists these hazards at the lines where they bite, with the properties that cover them.

## The modules

| Module | Models | Proofs |
|---|---|---|
| `Payout` | result of a bet and payout in cents, as operators | `Payout_proofs` |
| `Feeds` (extends `Payout`) | what the adapters make of a bookmaker's offer, as operators | |
| `Settlement` (extends `Feeds`) | one bet, from the offer to the cents, under every score | `Settlement_proofs` |
| `Ledger` | accounts, balanced postings, materialised balances | `Wagering_proofs` |
| `Finality` | abstract: a game's score is final once, then corrected with a trace | |
| `Wagering` (extends `Payout`, `Ledger`) | bets, settlement, corrections; each request is one step | `Wagering_proofs` |
| `Sessions` (extends `Wagering`) | the same requests, split into the statements of database sessions | `Wagering_proofs` |
| `Scores` | import of provider reports, agreement, settlement job, conflict resolution | `Scores_proofs` |
| `Catalog` | teams, games, markets, quotes, links, memory of payloads; imports of games and quotes | `Backfill_proofs` |
| `Backfill` (extends `Catalog`) | the sync and backfill commands, day by day, with crashes | `Backfill_proofs` |
| `Pricing` | creation, quoting and import of markets, split into the statements of overlapping requests | `Pricing_proofs` |
| `Users` | registration, roles | |
| `Reviews` (extends `Users`) | claims and completion of reviews in overlapping requests | `Reviews_proofs` |
| `Reports` | the analytics over a history of transactions and bets | `Reports_proofs` |

**Payout, Feeds, Settlement.** `Comparison` is the quantity whose sign decides a bet, `ResultForBet` the result,
`WinningPayoutCents` the payout, with `Decimal.quantize(ROUND_HALF_UP)` as an integer formula (`HalfUp`). The line of a
spread is from the home side's view, as settlement takes it. `Feeds` starts from a book, that is, what a bookmaker
offers, puts it into each provider's payload, and follows the adapters from there. Points are counted in quarters.
`Settlement` composes the two: it says what a bet at an imported quote is paid, against what the book meant.

**Ledger.** The journal is kept as the sums of postings per account and type, which is all the program reads of it
(balances, `reconcile_account_balance`); balances and the capital account are separate variables, because the code
updates them separately.

**Wagering.** `PlaceBet`, `RecordGameResult` and `CorrectGameResult` are `place_bet`, `record_game_result` and
`correct_game_result`, each with its postings and its commit. Requests that are refused, or that repeat an earlier one
(same key, same score), change nothing and are no steps. Open markets' quotes are constants; a bet copies its quote, as
the code does. Time is one bit per game, before or after the cutoff, which `Reschedule` (an import) can turn back.
`GamesFinalizeOnce` is the specification of `Finality` with `status` for `life` and `audit` for `trail`.

**Sessions.** The variables of `Wagering` are the committed database; `sess` and `lock` are added. A request
authenticates (and thereby reads its user's account row), checks, reads what it will update, and posts entry by entry:
reading rows it does not have (`Load`), locking them in the order of the flush (`LockRow`), adding to what it read
(`Post`). `Commit` writes everything at once and `Fail` can strike anywhere before. Unique constraints are judged at
commit. Simplifications: the order in which one flush updates rows is fixed (`Rows`); bet rows are written at commit
and not locked (settlements that meet on bets meet on the capital row first, when they post anything); accounts are
open from the start and no cutoff passes. `Wagering` is the abstract specification: each step of one session at a time,
failures included, is a step of `Wagering` or changes nothing committed (`CommitsAreRequests`, which the run `requests`
checks and `LoneCommitsAreRequests` proves).

**Scores.** An import (`BeginImport`, `CommitImport`, `FailImport`) is one transaction that computes its verdicts from
what it can see and commits them with its rows; the object-relational mapper writes a verdict only if it differs from
the state first read. The settlement job (`ListConfirmed`, `ReadReport`, `PassFinalGame`, `SettleGame`, `FailJob`)
lists games once and then reads and settles them one by one; the first is still as the listing read it. Results by hand
and decisions of conflicts check the game (`BeginResult`, `BeginDecision`) and write at their commit (`CommitResult`,
`CommitDecision`), without a lock in between: `request` is what each caller is about to write, and `resolution` all
decisions committed for a game, for which no constraint allows only one. `listed` remembers which reports there were
when a run listed its games; only a property reads it. `Locked` says whether imports exclude each other. Corrections of
final scores are left to `Wagering`.

**Catalog.** Markets are known by game and terms, quotes carry the records they came from (`from`). An import is a loop
over its feed, a recursive function of how many records were taken (`GamesAfter`, `QuotesAfter`): `AfterGame` finds the
game of an event by its link, or by teams and time, and otherwise makes one; `AfterQuote` finds or makes the market and
opens it if the sides it can see are both there. The session has autoflush off, so an import does not see what it has
itself changed until something new is flushed, and everything with it. For games, `stored` are the rows as queries see
them and `games` as they will be written: an event is looked up by the kickoff before it was moved in this import, and
if several games match, the query may give any one (`GamesFor`), so `GamesAfter` is a set of outcomes. A new team or a
new game flushes (`Flushed`, `WithGame`). For quotes, `visible` and `pending` are the same distinction, and a new market
flushes. A payload that was seen before is skipped. Requests by hand are single steps.

**Backfill.** `job` is the one command that has the advisory lock, at its next step. `BeginDay`, `ImportGames`,
`ImportQuotes` and `CompleteDay` commit one by one; `FailDay` is the error handler of `main`, `Crash` the end of the
process anywhere. A day's feed is a constant; the days' feeds contain a moved game and a changed quote.

**Pricing.** What `Catalog` leaves out: requests that look and then insert, with other commits in between. Rows are in
order of their commits, copies included. An import is followed on the records of one market's terms; records of other
terms appear as what they do to these, a flush (`ImportElsewhere`). The endpoint of an import takes no lock, so imports
overlap too. Payloads are not remembered here, which only allows more imports than the code.

**Users, Reviews.** `create_user` is three steps: it looks the name up, commits the account with its credit, and
inserts the user, which the unique constraint may refuse. `claim_review` is one statement; `claim_pending_reviews` and
`complete_review` read (`ListPending`, `ReadForCompletion`) and write later, the latter only the columns that differ
from what was read. A summary is known by the label of who wrote it.

**Reports.** The journal is a sequence with times here, and each function of `analytics/services.py` an operator over
it and the bets: `Summary`, `BySport` and the other breakdowns, `Calibration`, `MaxDrawdown`, `BalanceSeries`. What a
query selects is a set of indices, over which amounts are summed; `Points` is the loop over the rows of the journal,
with the balance and its peak after each, from which the drawdown and the daily balances are read off. Actions make the
history: `Transact`, `PlaceBet`, `Settle` (results and corrections, with reversals, also when a correction leaves a
bet's result as it was) and `Tick`. A period begins at a moment that the caller writes with an offset from UTC
(`Offsets`): the moment selects rows, but the chart's first day is its date by the caller's clock (`FirstDay`), where the
days of transactions are dates in UTC, as PostgreSQL returns them to a server that runs in UTC. (SQLite drops offsets in
comparisons as well; that is not modelled.) Percentages of the calibration are exact here and floats in the code, so a
bet exactly at a boundary may be one bucket lower there; every bet is in one bucket either way.

## The runs

| Run | Asks | Instance |
|---|---|---|
| `payouts` | two sides of a market never both win; profits are the nearest cent; better terms never pay less; what a book offers is settled as the book means it | `Settlement`: lines with and without half points, odds on both sides of 100, stakes to 7, scores to 3 |
| `away_lines` (violation) | ... spreads of the away side included? | as above |
| `wagering` | the books and the bets stay consistent in every order of requests; games finalize once (refinement) | 2 accounts, 2 bets, 2 games, 1 key, 2 corrections per game |
| `requests` | is each commit one request, whole? | 1 session, 2 accounts, 2 bets, 1 correction |
| `overlap` | keys, stakes and "settled means final" under overlap | 2 sessions, 1 account, 2 bets, 2 scores, 1 correction |
| `requests_end` | does every request end, though flushes deadlock? | 2 sessions, 2 accounts, 1 score |
| `lost_update` (violation) | is a balance the sum of its postings under overlap? | 2 sessions, 1 account |
| `scores` | truth of the sync state; which score the job may settle; who can still replace a final score; are confirmed games settled? | 2 games, 2 providers, 4 possible reports each, 2 scores, 1 job, 2 callers who record scores of one game |
| `intake` | completed days are whole, days are not passed over, events keep their game, the second side opens a market | 2 days, 3 events, 2 teams, 2 times, 1 game by hand |
| `pricing` | open markets have both sides; copies are bounded by the requests at a time | 2 requests at a time, 1 moneyline, 2 feeds, markets asked for below 3, quotes below 4 |
| `desk` | names and accounts are distinct, completed reviews stand, claims are kept | 2 requests at a time, 2 names, 3 accounts, 2 roles, 2 labels, 2 bets |
| `reports` | profit, periods, breakdowns, drawdown and daily points agree with the ledger and each other; the past stands | 3 moments of 2 days, 2 bets, 4 transactions, every period, offsets of half a day either way |

Why these bounds are enough to be interesting. Two accounts and two bets give a winner and a loser of one game, two
bets of one user under one key, and bets on different games; the two scores of `MCWagering` turn a win into a loss
and a win into a push, and one payout is rounded. Two corrections are the least in which a correction reverses what a
correction paid. Two sessions suffice for every race found here, since each is a race of two transactions; two accounts
and the capital row are the least on which two flushes deadlock. In `scores`, one game can be reported with both scores
and at two times (agreement, disagreement, self-correction, repetition) and a second game makes a run of the job go on
after its first game; all their reports fit, no bound cuts the imports off; two callers are the least of which one
replaces what the other recorded, and the other game is left to the job (`Recorded`), which bounds the run. In `intake`, the second day moves a game to a time at which two more events of the
same teams are listed behind it, so that one is looked up before the move is flushed and the other one finds two games;
two days are the least of which one can be passed over, and a game by hand can get in the way of an imported one. In `pricing`, two requests pass the check of `create_market` at once and a third is
refused; a feed of one side and one of both meet quotes by hand. In `desk`, the names race, a failed registration
leaves an account, and the batch and a completion meet on one review. In `reports`, three moments give an empty, a
partial and a full period and a correction in a later one.

`MaxDeposited`, `MaxCorrections`, `MaxGames`, `MaxMarkets`, `MaxQuotes`, `MaxAccounts`, `MaxBets`, `MaxRows`,
`LastMoment` and `LastDay` are the bounds on counters, each in a guard; `Permutations` symmetry is used for identifiers
no other constant mentions, and never with liveness. Some runs switch the deadlock check off: the bounded systems
really may stop there, when every deposit, bet and correction the bounds allow has been made, every game is final and
every report in, or the last moment has come.

## What the violations show

* `lost_update`: a posting committed while another session holds the balance it read disappears from the balance.
  `reconcile_account_balance` would report the difference.
* `away_lines`: the adapters store an away spread under the away team's point, and settlement reads it as the home
  team's: AWAY +3 loses where it should win.

More counterexamples are kept as configurations beside the runs of `PROJECT.json`, one property each. Every property
is a sentence of the repository, and every one is violated:

| Configuration | Property, and where it is said | What happens |
|---|---|---|
| `MCSessions_twofinals.cfg` | `FinalScoreStands` (`wagering/services.py:232`) | two results at the same time, the second replaces the first without a correction row, and both pay |
| `MCScores_overwrite.cfg` | `FinalScoresAreNotReplaced` (`wagering/services.py:232`) | the job replaces a result recorded since its listing, again without a correction row |
| `MCScores_confirmed.cfg` | `SettlesOnlyConfirmed` (`application/operations.py:24`) | a report between listing and settling makes the game CONFLICTED, and is, if it is the latest, the score settled, though one source only stands behind it |
| `MCScores_held.cfg` | `HeldGamesAreOpen` (`docs/runbook.md:156`) | a report after the game is final holds a game that no decision can release |
| `MCScores_unlocked.cfg` | `DisagreementIsHeld` (`ingestion/services.py:440`) | overlapping imports of scores do not see each other's reports |
| `MCWagering_pending.cfg` | `NoPendingBetOnFinalGame` (`docs/data/dictionary.md:75`) | a result before the cutoff leaves bets open that only a correction settles |
| `MCBackfill_quoted.cfg` | `QuotedMarketsOpen` (`docs/data/contracts.md:182`) | both sides of a new market in one feed leave it DRAFT until another quote arrives |
| `MCPricing_pairs.cfg` | `PairsOpen` (`docs/data/contracts.md:182`) | two requests that quote the two sides at the same time miss each other's quote; the market stays DRAFT, and another manual quote of either side is refused |
| `MCPricing_copies.cfg` | `OneMarketPerTerms` (`docs/data/contracts.md:181`) | two requests that look for a market before either commits both create it |
| `MCReviews_orphans.cfg` | `AccountsHaveUsers` (`auth/services.py:105`) | a registration fails after its account was committed, which stays behind with its credit |
| `MCReviews_terminal.cfg` | `TerminalReviewsAreKept` (`wagering/reviews.py:198`) | a batch reopens a review completed since the batch was listed |
| `MCReviews_claimants.cfg` | `OnlyClaimantsComplete` (`wagering/reviews.py:202`) | a reviewer completes a review that another one has claimed since it was read |
| `MCReports_returns.cfg` | `SummaryIsReturned` (`docs/api/README.md:68`) | two bets with the same return per stake have no deviation, and `compute_summary` divides by it |
| `MCReports_zones.cfg` | `ChartsCloseInEveryZone` (`api/analytics.py:200`) | a period that begins on another date by the caller's clock than in UTC has its opening balance on a day that closed at another |

What survives these races is stated too, and in the passing runs. No stake is lost or charged twice and no key buys two
bets (`overlap`). The job settles only games that two sources had reported alike at its listing, with their score or
with one reported since; a final score is replaced only by those that had found the game open, each at most once, and
nobody joins them (`scores`). A market never opens on a quote that is rolled back, and there are never more copies of it
than requests at a time (`pricing`). An account is never another user's, and a terminal review changes, or a claim is
lost, only by a request that had read the review before (`desk`). Chart points on days with transactions close their day
for every offset (`reports`).

`MCPricing_types.cfg` and `MCReports_types.cfg` check the type invariants of these two modules, and hold. The models
also contain, without a property of its own, a schedule change back to an earlier time, which is a payload already seen
and skipped.

## Fairness

`requests_end` assumes that threads run and PostgreSQL's deadlock detector runs (weak fairness of `Proceed` and
`BreakDeadlock`) and that the queue of a row lock is first come, first served (strong fairness of `LockRow`). Nothing
obliges a request to start or to succeed. `scores` assumes that the settlement command is run again and again and does
not fail for ever at the same place (strong fairness of its steps); `docs/runbook.md` gives the command to the operator,
nothing in the code schedules it. No fairness is assumed of imports, operators or users, and none in the other modules:
nothing there promises progress without somebody's asking for it.

## The proofs

Everything below holds for all values of the constants that satisfy the named assumptions (finite sets, distinct
markers, positive stakes, quotes that are well formed and have odds other than 0); the assumptions are evaluated in
every run.

* `Payout_proofs`: for every line and score one side wins exactly when the other loses; every payout is the nearest cent
  and never below the stake. Also what all other modules use: sums over finite sets (one or several summands change,
  groups, renamed members) and loops over rows, each by a smallest counterexample instead of an induction scheme.
* `Settlement_proofs`: these as invariants, that payouts grow with the odds and the stake (over both formulas and the
  jump between them), and that a quote an adapter reports, once stored, settles on every score as what the book
  offered, but for the away side of a spread.
* `Wagering_proofs`, three parts. Serial requests: every balanced entry keeps balances and capital in step, and for
  `Wagering` an inductive invariant `IInv`, from which all safety properties of the run `wagering` and the
  reconciliation of balances follow. Its parts need each other: reversals are right only if a bet's stored payout is
  what was posted for it (`JournalMatchesBets`), corrections settle rightly only if a final game has a score
  (`ScoredWhenFinal`), and overdrafts are bounded only because payouts and reversals pair up. One lemma per action; the
  three settling actions share `SettlementKeepsTheBooks`. `FinalityIsImplemented` shows that `Wagering` implements
  `Finality`: initial states map to initial states, every action to a step of one game or to a stutter.

  Overlapping requests: for any number of sessions that interleave and fail, what the run `overlap` checks. The invariant
  `SInv` says of each session what it will commit: a waiting one posts nothing, a betting one carries one new bet and
  exactly its stake, a settling one no stake at all, and its bets get a result only along with its game's. Balances do
  not occur in it; they are what overlap breaks.

  One session at a time: `LoneCommitsAreRequests` proves the refinement of `Wagering`, for any accounts, bets and
  games. `AloneInv` says that a balance the session has in hand is the committed one but for the session's own
  postings; that what it has posted together with what it has still to post is the entry of one request of `Wagering`,
  whose guard holds; and that the rows it will write are that request's. So a commit, when nothing is left to post, is
  that request, and every other step changes nothing committed. `IInv` carries over: `LoneRequestsKeepTheBooks` is,
  without overlap, what `lost_update` refutes with it. The hypothesis `Sessions = {s}` is the absence of overlap; one
  session makes any number of requests, one after the other.
* `Scores_proofs`: types; for imports that run one at a time, that the sync state is what all reports amount to
  (`StatesFollowReports`) and is released only by an operator (`HoldsNeedDecisions`). The invariant adds to the property
  that the one import under way has seen every committed row, and that since it began a state can only have gone from
  CONFLICTED to RESOLVED, which is why a verdict that is not written is still right. Without the lock the first part
  fails. `AgreedScoresSettle` needs the lock too: a listed game was CONFIRMED, so by `StatesFollowReports` two of the
  reports remembered in `listed` agree and none differs, and later ones are only added. `FinalityIsClosed` does not: once
  a game is final nobody new finds it open, and every write of its score ends one of those that had (`Writers`).
* `Reviews_proofs`: users have names and accounts of their own for any number of requests, because each request under way
  owns the account it has opened; terminal reviews and claims change only by a request that had read them before.
* `Pricing_proofs`: `CopiesStayBounded` counts. The rows of the same terms and the requests about to add one are together
  at most as many as sessions (`CInv`): a request joins them only if it saw no row, and then there are none but theirs;
  a commit turns one request into one row. `OpenMarketsHaveBothSides` carries along with every request that will open
  a market the quotes it counts on (`Backed`): committed, or part of its own commit.
* `Backfill_proofs`: types, and what the run `intake` checks, for feeds of any length, any number of days, requests by
  hand, failures and crashes in between. What holds before a feed and is kept by each record (`AfterGame`, `AfterQuote`)
  holds after it: if not, there would be a first record after which it does not. It holds whichever game `GamesFor` gives
  an event, since all that counts is that the link made then is followed. `CatalogInv` adds to
  `QuotesFollowLinks` that every remembered payload has had its effect, a link or a stored quote: that is why a feed
  imported a second time, after a crash, may skip records and still leaves a whole day. `BInv` says of a job at each
  step which part of its day is in the catalogue. `StoredSidesOpen` looks at one import, whose quotes so far may or may
  not be visible yet.
* `Reports_proofs`: types, and what the run `reports` checks, for every history of an account, every period, grouping
  and list of boundaries. `RInv` holds the two tables the reports read against each other: the journal is in the order
  of time, unsettled bets have been paid nothing, and the balance is what was moved by hand plus payouts less stakes.
  `DaysClose` is for any offset, with the first point excepted where the caller's date and UTC's differ.
  Before a row, `Points` is the sum of the rows selected so far and its peak the greatest such sum (an induction over
  the journal), so the drawdown found in one pass is the greatest fall. `PastIsKept` is an action property: settling
  appends at the present moment, so the rows of past periods remain.

Only model-checked: liveness (`ConfirmedGamesSettle`, `RequestsEnd`), which is outside the prover's reach. Every other
property of a passing run is a theorem.

## Not modelled

* Pages, HTTP validation and formatting: they change no state. The rounding and formatting of amounts does not enter any
  decision of the services. Queries that only list (quote comparison, odds history, review summaries).
* Password hashing and tokens, pure functions; the HTTP transport of providers with its retries and quotas, which keep
  nothing; run records, written for reports and read by no decision; metrics, webhooks and logs.
* The creation of the capital account by the first registrations, which races (`ledger/services.py:54`); every model
  takes it to exist.
* Which pooled connection holds the advisory lock after a commit (`ingestion/services.py:59`): decided by the pool.
* The 32-bit width of cents columns in PostgreSQL: an overflow raises and rolls back.

## Next

1. The capital account as a row that requests look up and create, in `Users`.
2. Which balances overlap leaves right: those of accounts to which no two sessions post at a time.
