------------------------------ MODULE Backfill ------------------------------
(***************************************************************************)
(* The ingestion commands (src/edgebook/ingestion/cli.py): the daily sync  *)
(* of the current odds and the backfill of past days, day by day with a    *)
(* checkpoint each.  They run one at a time under the advisory lock; any   *)
(* step may fail, and a process may die between any two.  Requests go on   *)
(* meanwhile (Catalog).                                                    *)
(***************************************************************************)
EXTENDS Catalog

CONSTANTS
  LastDay,         \* bound: the last day
  Snapshots,       \* Snapshots[d]: the feeds [games, quotes] a provider has of day d
  Idle             \* no job holds the lock

Job == [kind : {"sync", "backfill"}, from : 1 .. LastDay, day : 1 .. LastDay, to : 1 .. LastDay,
        step : {"begin", "games", "quotes", "complete"}]

(* The adapters of the providers quote a side that the market has, and no  *)
(* feed names an event, or has a quote, twice.                             *)
ASSUME BackfillAssumption ==
  /\ LastDay \in Nat \ {0}
  /\ Idle \notin Job
  /\ \A d \in 1 .. LastDay :
       /\ Snapshots[d].games \in Seq(GameRecord)
       /\ Snapshots[d].quotes \in Seq(QuoteRecord)
       /\ \A i \in DOMAIN Snapshots[d].quotes :
            Snapshots[d].quotes[i].selection \in Expected(Snapshots[d].quotes[i].terms)
       /\ \A i, j \in DOMAIN Snapshots[d].games :
            Snapshots[d].games[i].event = Snapshots[d].games[j].event => i = j
       /\ \A i, j \in DOMAIN Snapshots[d].quotes :
            Snapshots[d].quotes[i] = Snapshots[d].quotes[j] => i = j

VARIABLES
  today,
  checkpoint,      \* checkpoint[d]: status of day d's backfill checkpoint, or "none"
  job              \* the job that holds the lock: what it is, its day and next step

vars == <<teams, games, link, seen, market, quotes, today, checkpoint, job>>

Days == 1 .. today

TypeOK ==
  /\ CatalogTypeOK
  /\ today \in 1 .. LastDay
  /\ checkpoint \in [1 .. LastDay -> {"none", "RUNNING", "COMPLETED", "FAILED"}]
  /\ job \in Job \cup {Idle}

Init ==
  /\ CatalogInit
  /\ today = 1
  /\ checkpoint = [d \in 1 .. LastDay |-> "none"]
  /\ job = Idle

(* pg_try_advisory_lock: a command that does not get the lock gives up. *)
StartSync ==
  /\ job = Idle
  /\ job' = [kind |-> "sync", from |-> today, day |-> today, to |-> today, step |-> "games"]
  /\ UNCHANGED <<catalogVars, today, checkpoint>>

StartBackfill(from, to) ==
  /\ job = Idle
  /\ from <= to
  /\ job' = [kind |-> "backfill", from |-> from, day |-> from, to |-> to, step |-> "begin"]
  /\ UNCHANGED <<catalogVars, today, checkpoint>>

(* Faulty variant: the day after the last is taken too. *)
NextDayPast == IF job.day <= job.to THEN [job EXCEPT !.day = @ + 1, !.step = "begin"] ELSE Idle

(* What the backfill does after a day: the next one, or the end. *)
NextDay == IF job.day < job.to THEN [job EXCEPT !.day = @ + 1, !.step = "begin"] ELSE Idle

At(step) == job # Idle /\ job.step = step

(* Faulty variant: a day that was begun is taken to be done. *)
BeginDayOnce ==
  /\ At("begin")
  /\ IF checkpoint[job.day] \in {"RUNNING", "COMPLETED"}
     THEN job' = NextDay /\ UNCHANGED checkpoint
     ELSE /\ checkpoint' = [checkpoint EXCEPT ![job.day] = "RUNNING"]
          /\ job' = [job EXCEPT !.step = "games"]
  /\ UNCHANGED <<catalogVars, today>>

(* begin_backfill_checkpoint: a completed day is skipped, any other one    *)
(* is taken up again.                                                      *)
BeginDay ==
  /\ At("begin")
  /\ IF checkpoint[job.day] = "COMPLETED"
     THEN job' = NextDay /\ UNCHANGED checkpoint
     ELSE /\ checkpoint' = [checkpoint EXCEPT ![job.day] = "RUNNING"]
          /\ job' = [job EXCEPT !.step = "games"]
  /\ UNCHANGED <<catalogVars, today>>

ImportGames ==
  /\ At("games")
  /\ SyncGames(Snapshots[job.day].games)
  /\ job' = [job EXCEPT !.step = "quotes"]
  /\ UNCHANGED <<today, checkpoint>>

(* The daily sync ends with sync_scores, which Scores models. *)
ImportQuotes ==
  /\ At("quotes")
  /\ SyncQuotes(Snapshots[job.day].quotes)
  /\ job' = IF job.kind = "sync" THEN Idle ELSE [job EXCEPT !.step = "complete"]
  /\ UNCHANGED <<today, checkpoint>>

(* complete_backfill_checkpoint; a low quota then ends the run. *)
CompleteDay ==
  /\ At("complete")
  /\ checkpoint' = [checkpoint EXCEPT ![job.day] = "COMPLETED"]
  /\ job' \in {NextDay, Idle}
  /\ UNCHANGED <<catalogVars, today>>

(* Faulty variant: the error of a day is noted after it was completed. *)
FailDayCompleted ==
  /\ job # Idle
  /\ job.step # "begin"
  /\ checkpoint' = IF job.kind = "sync" THEN checkpoint
                   ELSE [checkpoint EXCEPT ![job.day] = "COMPLETED"]
  /\ job' = Idle
  /\ UNCHANGED <<catalogVars, today>>

(* The provider or the database fails a step: the checkpoint says so and   *)
(* the command ends.                                                       *)
FailDay ==
  /\ job # Idle
  /\ job.step # "begin"
  /\ checkpoint' = IF job.kind = "sync" THEN checkpoint
                   ELSE [checkpoint EXCEPT ![job.day] = "FAILED"]
  /\ job' = Idle
  /\ UNCHANGED <<catalogVars, today>>

(* The process dies; its connection closes, and the lock is free. *)
Crash ==
  /\ job # Idle
  /\ job' = Idle
  /\ UNCHANGED <<catalogVars, today, checkpoint>>

PassDay ==
  /\ today < LastDay
  /\ today' = today + 1
  /\ UNCHANGED <<catalogVars, checkpoint, job>>

Next ==
  \/ Requests /\ UNCHANGED <<today, checkpoint, job>>
  \/ StartSync
  \/ \E from, to \in Days : StartBackfill(from, to)
  \/ BeginDay \/ ImportGames \/ ImportQuotes \/ CompleteDay \/ FailDay \/ Crash
  \/ PassDay

Spec == Init /\ [][Next]_vars

-----------------------------------------------------------------------------
(* docs/runbook.md: "rerunning the same range skips completed days".  That *)
(* loses nothing: every game and every quote the provider had of such a    *)
(* day is in the catalogue, whatever failed or died on the way.            *)
CompletedDaysAreImported ==
  \A d \in 1 .. LastDay : checkpoint[d] = "COMPLETED" =>
    /\ \A i \in DOMAIN Snapshots[d].games : link[Snapshots[d].games[i].event] # None
    /\ \A i \in DOMAIN Snapshots[d].quotes :
         LET r == Snapshots[d].quotes[i]
         IN  Quote(MarketOf(r), r.selection, r.odds, {r}) \in quotes

(* ... "and resumes failed ones", those a dead process left RUNNING too:   *)
(* a backfill never goes on to a day while one behind it is not completed. *)
NoDayIsPassedOver ==
  job # Idle /\ job.kind = "backfill" =>
    \A d \in job.from .. job.day - 1 : checkpoint[d] = "COMPLETED"
=============================================================================
