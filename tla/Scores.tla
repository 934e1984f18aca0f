------------------------------- MODULE Scores -------------------------------
(***************************************************************************)
(* How a game gets its final score (src/edgebook/ingestion/services.py,    *)
(* application/operations.py).  Providers' reports are imported one feed   *)
(* at a time; each import sums up in games.score_sync_state whether the    *)
(* sources agree.  A job settles the games they agree on, an operator      *)
(* decides the others, and either may be overtaken by a result that a user *)
(* records by hand.                                                        *)
(*                                                                         *)
(* An import, the settlement of one game and a request that records a      *)
(* result or a decision are transactions under READ COMMITTED that read    *)
(* before they write and lock nothing, so they have two steps each.  The   *)
(* bets settled with the score are the subject of Wagering and Sessions,   *)
(* as are corrections of a final score.                                    *)
(***************************************************************************)
EXTENDS FiniteSets, Naturals, Sequences, SequencesExt

CONSTANTS
  Games, Providers,
  Scores,       \* final scores
  NoScore,      \* home_score and away_score of a scheduled game
  Reports,      \* what the records of a feed may say: a game, its score and
                \* the time of the report, which is the provider's to choose
  Jobs,         \* runs of settle_confirmed_games
  Callers,      \* who record results and decisions: bounds the requests at a time
  Recorded,     \* bound: the games whose results and decisions they record
  Locked        \* whether imports run one at a time: every command takes
                \* ingestion_lock, the HTTP endpoint does not

ASSUME ScoresAssumption ==
  /\ IsFiniteSet(Games) /\ IsFiniteSet(Providers) /\ IsFiniteSet(Scores)
  /\ NoScore \notin Scores
  /\ Callers \cap Jobs = {}
  /\ Reports \subseteq [game : Games, score : Scores, at : Nat]
  /\ Locked \in BOOLEAN

VARIABLES
  status,       \* status[g]: games.status
  score,        \* score[g]: games.home_score, games.away_score
  syncState,    \* syncState[g]: games.score_sync_state
  observed,     \* rows of score_observations
  resolution,   \* resolution[g]: the score_resolutions rows of g, as committed
  import,       \* import[p]: the uncommitted import of a feed of p, or NoImport
  job,          \* job[j]: what remains of a run of settle_confirmed_games
  request       \* request[c]: what c is about to record, or NoRequest

gameVars == <<status, score, resolution>>
vars == <<status, score, syncState, observed, resolution, import, job, request>>

SyncStates == {"UNCONFIRMED", "CONFIRMED", "CONFLICTED", "RESOLVED"}
Observation == [game : Games, source : Providers, score : Scores, at : Nat]
Import == [rows : SUBSET Observation, seen : [Games -> SyncStates]]
NoImport == [rows |-> {}, seen |-> <<>>]

(* `listed` remembers the reports there were when the run listed its games; *)
(* only properties look at it.                                             *)
Run == [queue : Seq(Games), fresh : BOOLEAN, choice : Scores \cup {NoScore},
        listed : SUBSET Observation]
Done == [queue |-> <<>>, fresh |-> FALSE, choice |-> NoScore, listed |-> {}]

Request == [kind : {"result", "decision"}, game : Games, score : Scores]
NoRequest == [kind |-> "none"]

TypeOK ==
  /\ status \in [Games -> {"SCHEDULED", "FINAL"}]
  /\ score \in [Games -> Scores \cup {NoScore}]
  /\ syncState \in [Games -> SyncStates]
  /\ observed \subseteq Observation
  /\ resolution \in [Games -> Seq(Scores)]
  /\ import \in [Providers -> Import \cup {NoImport}]
  /\ job \in [Jobs -> Run]
  /\ request \in [Callers -> Request \cup {NoRequest}]

Init ==
  /\ status = [g \in Games |-> "SCHEDULED"]
  /\ score = [g \in Games |-> NoScore]
  /\ syncState = [g \in Games |-> "UNCONFIRMED"]
  /\ observed = {}
  /\ resolution = [g \in Games |-> <<>>]
  /\ import = [p \in Providers |-> NoImport]
  /\ job = [j \in Jobs |-> Done]
  /\ request = [c \in Callers |-> NoRequest]

On(g, rows) == {o \in rows : o.game = g}
SourcesDisagree(g, rows) == \E o, other \in On(g, rows) : o.score # other.score
TwoSourcesReport(g, rows) == \E o, other \in On(g, rows) : o.source # other.source

(* Faulty variant: a source that corrects itself no longer disagrees. *)
VerdictOfLatest(g, rows) ==
  LET latest == {o \in On(g, rows) :
                   \A other \in On(g, rows) : other.source = o.source => other.at <= o.at}
  IN IF SourcesDisagree(g, latest) THEN "CONFLICTED"
     ELSE IF TwoSourcesReport(g, latest) THEN "CONFIRMED" ELSE "UNCONFIRMED"

(* What the reports of game g in `rows` amount to.  That the game may be   *)
(* final or resolved already is not looked at.                             *)
Verdict(g, rows) ==
  IF SourcesDisagree(g, rows) THEN "CONFLICTED"
  ELSE IF TwoSourcesReport(g, rows) THEN "CONFIRMED" ELSE "UNCONFIRMED"

(* Faulty variant: the rows do not say whose they are. *)
FreshUnattributed(p, feed) == feed \ observed

(* Reports of a feed that are new.  A report is known by its content, time *)
(* included, but a row by game, source and score: a score reported again   *)
(* with another time passes the one test and fails the other, and then     *)
(* nothing of the feed is kept.                                            *)
Fresh(p, feed) ==
  {[game |-> r.game, source |-> p, score |-> r.score, at |-> r.at] : r \in feed} \ observed

Insertable(rows) ==
  \A o \in observed, new \in rows :
    ~ (o.game = new.game /\ o.source = new.source /\ o.score = new.score)

BeginImport(p, feed) ==
  /\ import[p] = NoImport
  /\ Locked => \A q \in Providers : import[q] = NoImport
  /\ Fresh(p, feed) # {}
  /\ Insertable(Fresh(p, feed))
  /\ import' = [import EXCEPT ![p] = [rows |-> observed \cup Fresh(p, feed), seen |-> syncState]]
  /\ UNCHANGED <<gameVars, syncState, observed, job, request>>

(* The rows become visible with the verdicts on the games they touch, each *)
(* reached from the rows the import could see.  The object-relational      *)
(* mapper writes a verdict only if it differs from the state first read.   *)
CommitImport(p) ==
  LET mine == {o \in import[p].rows : o.source = p} \ observed
      changed(g) == On(g, mine) # {} /\ Verdict(g, import[p].rows) # import[p].seen[g]
  IN /\ import[p] # NoImport
     /\ observed' = observed \cup mine
     /\ syncState' = [g \in Games |-> IF changed(g) THEN Verdict(g, import[p].rows) ELSE syncState[g]]
     /\ import' = [import EXCEPT ![p] = NoImport]
     /\ UNCHANGED <<gameVars, job, request>>

FailImport(p) ==
  /\ import[p] # NoImport
  /\ import' = [import EXCEPT ![p] = NoImport]
  /\ UNCHANGED <<gameVars, syncState, observed, job, request>>

Idle(c) == request[c] = NoRequest

Asks(c, kind, g, s) == request' = [request EXCEPT ![c] = [kind |-> kind, game |-> g, score |-> s]]

(* A user gives the final score by hand, whatever the sources say.  The    *)
(* game is read here and written when the request commits.                 *)
BeginResult(c, g, s) ==
  /\ Idle(c)
  /\ g \in Recorded
  /\ status[g] = "SCHEDULED"
  /\ Asks(c, "result", g, s)
  /\ UNCHANGED <<gameVars, syncState, observed, import, job>>

(* Faulty variant: whether the game is still open is not asked. *)
DecideAnyConflict(c, g, s) ==
  /\ Idle(c)
  /\ g \in Recorded
  /\ syncState[g] = "CONFLICTED"
  /\ Asks(c, "decision", g, s)
  /\ UNCHANGED <<gameVars, syncState, observed, import, job>>

(* An operator decides the score of a game whose sources disagree. *)
BeginDecision(c, g, s) ==
  /\ Idle(c)
  /\ g \in Recorded
  /\ status[g] = "SCHEDULED"
  /\ syncState[g] = "CONFLICTED"
  /\ Asks(c, "decision", g, s)
  /\ UNCHANGED <<gameVars, syncState, observed, import, job>>

Finalize(g, s) ==
  /\ status' = [status EXCEPT ![g] = "FINAL"]
  /\ score' = [score EXCEPT ![g] = s]

EndRequest(c) == request' = [request EXCEPT ![c] = NoRequest]

CommitResult(c) ==
  /\ request[c].kind = "result"
  /\ Finalize(request[c].game, request[c].score)
  /\ EndRequest(c)
  /\ UNCHANGED <<syncState, observed, resolution, import, job>>

CommitDecision(c) ==
  /\ request[c].kind = "decision"
  /\ Finalize(request[c].game, request[c].score)
  /\ syncState' = [syncState EXCEPT ![request[c].game] = "RESOLVED"]
  /\ resolution' = [resolution EXCEPT ![request[c].game] = Append(@, request[c].score)]
  /\ EndRequest(c)
  /\ UNCHANGED <<observed, import, job>>

FailRequest(c) ==
  /\ ~ Idle(c)
  /\ EndRequest(c)
  /\ UNCHANGED <<gameVars, syncState, observed, import, job>>

(* Faulty variant: one report is enough. *)
SettleableIfReported == {g \in Games : status[g] = "SCHEDULED" /\ On(g, observed) # {}}

Settleable == {g \in Games : status[g] = "SCHEDULED" /\ syncState[g] = "CONFIRMED"}

(* The games to settle are listed once, in any order. *)
ListConfirmed(j) ==
  /\ job[j] = Done
  /\ Settleable # {}
  /\ \E order \in SetToSeqs(Settleable) :
       job' = [job EXCEPT ![j] = [queue |-> order, fresh |-> TRUE, choice |-> NoScore,
                               listed |-> observed]]
  /\ UNCHANGED <<gameVars, syncState, observed, import, request>>

Latest(g) == {o.score : o \in {n \in On(g, observed) : \A other \in On(g, observed) : other.at <= n.at}}

(* What is left of the run of j once the first game of its queue is done. *)
Advanced(j) ==
  IF Len(job[j].queue) = 1 THEN Done
  ELSE [job[j] EXCEPT !.queue = Tail(@), !.fresh = FALSE, !.choice = NoScore]

(* Whether the job finds its next game final.  The first game of a run is  *)
(* still as the listing read it, the later ones are read again, because    *)
(* every commit expires the session's objects.                             *)
FinalWhenRead(j) == ~ job[j].fresh /\ status[Head(job[j].queue)] = "FINAL"

(* The next game and its latest report are read; the state of the sources  *)
(* is not.                                                                 *)
ReadReport(j, s) ==
  /\ job[j].queue # <<>>
  /\ job[j].choice = NoScore
  /\ ~ FinalWhenRead(j)
  /\ s \in Latest(Head(job[j].queue))
  /\ job' = [job EXCEPT ![j].choice = s]
  /\ UNCHANGED <<gameVars, syncState, observed, import, request>>

(* A game that has become final is skipped if the scores agree; if they do *)
(* not, the conflict ends the run.                                         *)
PassFinalGame(j, s) ==
  /\ job[j].queue # <<>>
  /\ job[j].choice = NoScore
  /\ FinalWhenRead(j)
  /\ s \in Latest(Head(job[j].queue))
  /\ job' = [job EXCEPT ![j] = IF s = score[Head(job[j].queue)] THEN Advanced(j) ELSE Done]
  /\ UNCHANGED <<gameVars, syncState, observed, import, request>>

(* Faulty variant: the settlement of a game is never committed. *)
SettleGameUncommitted(j) ==
  /\ job[j].choice # NoScore
  /\ job' = [job EXCEPT ![j] = Advanced(j)]
  /\ UNCHANGED <<gameVars, syncState, observed, import, request>>

SettleGame(j) ==
  /\ job[j].choice # NoScore
  /\ Finalize(Head(job[j].queue), job[j].choice)
  /\ job' = [job EXCEPT ![j] = Advanced(j)]
  /\ UNCHANGED <<syncState, observed, resolution, import, request>>

(* Settling a game may fail at any statement; what was committed stays. *)
FailJob(j) ==
  /\ job[j] # Done
  /\ job' = [job EXCEPT ![j] = Done]
  /\ UNCHANGED <<gameVars, syncState, observed, import, request>>

(* A feed reports each game at most once. *)
Feeds == {feed \in SUBSET Reports : \A r, q \in feed : r.game = q.game => r = q}

Next ==
  \/ \E p \in Providers, feed \in Feeds : BeginImport(p, feed)
  \/ \E p \in Providers : CommitImport(p) \/ FailImport(p)
  \/ \E c \in Callers, g \in Games, s \in Scores : BeginResult(c, g, s) \/ BeginDecision(c, g, s)
  \/ \E c \in Callers : CommitResult(c) \/ CommitDecision(c) \/ FailRequest(c)
  \/ \E j \in Jobs : ListConfirmed(j) \/ SettleGame(j) \/ FailJob(j)
  \/ \E j \in Jobs, s \in Scores : ReadReport(j, s) \/ PassFinalGame(j, s)

Spec == Init /\ [][Next]_vars

(* The job is run again and again, and does not fail for ever at the same  *)
(* place.                                                                  *)
FairSpec ==
  /\ Spec
  /\ \A j \in Jobs :
       /\ SF_vars(ListConfirmed(j))
       /\ SF_vars(SettleGame(j))
       /\ SF_vars(\E s \in Scores : ReadReport(j, s))
       /\ WF_vars(\E s \in Scores : PassFinalGame(j, s))

-----------------------------------------------------------------------------
(* score_sync_state tells the truth about all committed reports: a game is *)
(* held exactly while they disagree, unless an operator has decided it and *)
(* made it final, and confirmed exactly when two sources agree.            *)
SyncStateIsAccurate ==
  \A g \in Games :
    /\ syncState[g] \in {"CONFLICTED", "RESOLVED"} <=> SourcesDisagree(g, observed)
    /\ syncState[g] = "CONFIRMED" <=> TwoSourcesReport(g, observed) /\ ~ SourcesDisagree(g, observed)
    /\ syncState[g] = "RESOLVED" => status[g] = "FINAL" /\ resolution[g] # <<>>

(* Reports are never withdrawn, so only an operator's decision ends a      *)
(* disagreement: no later import makes a held game settle by itself.       *)
HeldUntilDecided ==
  \A g \in Games :
    syncState[g] \in {"CONFLICTED", "RESOLVED"} => syncState'[g] \in {"CONFLICTED", "RESOLVED"}

OnlyDecisionsRelease == [][HeldUntilDecided]_vars

(* The job settles only games that two sources had reported, and none      *)
(* otherwise, when it listed them, and with the score they agreed on; only *)
(* a report that came since, with a time as late as any, can change that   *)
(* score.  (It can: the verdict is not read again.  SettlesOnlyConfirmed   *)
(* says what that breaks.)                                                 *)
SettlesAgreed ==
  \A j \in Jobs :
    SettleGame(j) =>
      LET g == Head(job[j].queue)
          listed == On(g, job[j].listed)
          later == {o \in On(g, observed) \ listed : \A old \in listed : old.at <= o.at}
      IN  /\ TwoSourcesReport(g, listed) /\ ~ SourcesDisagree(g, listed)
          /\ \E o \in listed \cup later : o.score = job[j].choice

SettlesWhatWasAgreed == [][SettlesAgreed]_vars

(* Who can still write g's score: requests that found it open, and runs of *)
(* the job that did, the first game of a run as it was listed.             *)
Writers(g) ==
  {c \in Callers : ~ Idle(c) /\ request[c].game = g}
    \cup {j \in Jobs : /\ job[j].queue # <<>> /\ Head(job[j].queue) = g
                       /\ job[j].fresh \/ job[j].choice # NoScore}

(* Nothing locks a game between the check that it is open and the write,   *)
(* so a final score may be replaced, by a result, a decision or the job;   *)
(* but only by one that had found the game open, each at most once, and    *)
(* none joins them: the number of later scores and decisions is bounded    *)
(* by those under way when the game became final.                          *)
FinalityCloses ==
  \A g \in Games : status[g] = "FINAL" =>
    /\ status'[g] = "FINAL"
    /\ Writers(g)' \subseteq Writers(g)
    /\ score'[g] # score[g] \/ resolution'[g] # resolution[g] => Writers(g)' # Writers(g)

OnlyEarlyReadersOverwrite == [][FinalityCloses]_vars

(* A game whose sources agree is settled, unless a later report disagrees. *)
ConfirmedGamesSettle ==
  \A g \in Games :
    syncState[g] = "CONFIRMED" ~> status[g] = "FINAL" \/ syncState[g] # "CONFIRMED"

(* application/operations.py:24: "Settle only games independently          *)
(* confirmed by external score sources."                                   *)
SettlesConfirmed ==
  \A j \in Jobs : SettleGame(j) => syncState[Head(job[j].queue)] = "CONFIRMED"

SettlesOnlyConfirmed == [][SettlesConfirmed]_vars

(* docs/runbook.md:156: "Score disagreements remain held in `CONFLICTED`   *)
(* state and must be resolved through the local score-resolution API       *)
(* before settlement."                                                     *)
HeldGamesAreOpen == \A g \in Games : syncState[g] = "CONFLICTED" => status[g] = "SCHEDULED"

(* wagering/services.py:232: "A finalized game cannot be assigned a        *)
(* different score".                                                       *)
FinalScoresAreNotReplaced ==
  [][\A g \in Games : status[g] = "FINAL" => score'[g] = score[g]]_vars

(* ingestion/services.py:440: "Persist score observations and hold games   *)
(* where sources disagree."                                                *)
DisagreementIsHeld ==
  \A g \in Games : SourcesDisagree(g, observed) => syncState[g] \in {"CONFLICTED", "RESOLVED"}
=============================================================================
