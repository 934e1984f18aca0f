---------------------------- MODULE Scores_proofs ----------------------------
(***************************************************************************)
(* What imports that run one at a time guarantee about score_sync_state,   *)
(* for any games, providers, reports and settlement jobs.                  *)
(***************************************************************************)
EXTENDS Scores, FiniteSetTheorems, TLAPS

(* The import under way saw every committed row and adds only its own, and *)
(* since it began only operators have changed the state of a game.         *)
ImportsAreUpToDate ==
  \A p \in Providers : import[p] # NoImport =>
    /\ observed \subseteq import[p].rows
    /\ \A o \in import[p].rows \ observed : o.source = p
    /\ \A g \in Games : \/ syncState[g] = import[p].seen[g]
                        \/ import[p].seen[g] = "CONFLICTED" /\ syncState[g] = "RESOLVED"

OneImport ==
  \A p, q \in Providers : import[p] # NoImport /\ import[q] # NoImport => p = q

(* More rows can only add a disagreement or a second source. *)
LEMMA MoreReports ==
  ASSUME NEW g, NEW old, NEW new, old \subseteq new
  PROVE  /\ SourcesDisagree(g, old) => SourcesDisagree(g, new)
         /\ TwoSourcesReport(g, old) => TwoSourcesReport(g, new)
  BY DEF SourcesDisagree, TwoSourcesReport, On

(* Rows of other games do not count. *)
LEMMA ReportsOfTheGame ==
  ASSUME NEW g, NEW old, NEW new, On(g, old) = On(g, new)
  PROVE  /\ SourcesDisagree(g, old) <=> SourcesDisagree(g, new)
         /\ TwoSourcesReport(g, old) <=> TwoSourcesReport(g, new)
  BY DEF SourcesDisagree, TwoSourcesReport

LEMMA VerdictIsASyncState ==
  ASSUME NEW g, NEW rows
  PROVE  Verdict(g, rows) \in SyncStates
  BY DEF Verdict, SyncStates

(* An order of some games is a sequence of them. *)
LEMMA OrdersOfSets ==
  ASSUME NEW S \in SUBSET Games, NEW order \in SetToSeqs(S)
  PROVE  order \in Seq(S)
<1>1. IsFiniteSet(S)
  BY ScoresAssumption, FS_Subset
<1>2. Cardinality(S) \in Nat
  BY <1>1, FS_CardinalityType
<1>3. order \in [1 .. Cardinality(S) -> S]
  BY DEF SetToSeqs
<1> QED
  BY <1>2, <1>3

LEMMA AdvancedIsARun ==
  ASSUME TypeOK, NEW j \in Jobs, job[j].queue # <<>>
  PROVE  Advanced(j) \in Run
<1>1. Done \in Run
  BY ScoresAssumption DEF Done, Run
<1>2. job[j].queue \in Seq(Games)
  BY DEF TypeOK, Run
<1>3. Tail(job[j].queue) \in Seq(Games)
  BY <1>2
<1>4. [job[j] EXCEPT !.queue = Tail(@), !.fresh = FALSE, !.choice = NoScore] \in Run
  BY <1>3 DEF TypeOK, Run
<1> QED
  BY <1>1, <1>4 DEF Advanced

(* The steps of a request. *)
RequestStep(c) ==
  \/ \E g \in Games, s \in Scores : BeginResult(c, g, s) \/ BeginDecision(c, g, s)
  \/ CommitResult(c) \/ CommitDecision(c) \/ FailRequest(c)

LEMMA RequestsAreOnGames ==
  ASSUME TypeOK, NEW c \in Callers
  PROVE  /\ request[c].kind \in {"result", "decision"} => ~ Idle(c)
         /\ ~ Idle(c) => request[c].game \in Games /\ request[c].score \in Scores
  BY DEF TypeOK, Request, NoRequest, Idle

(* A run has chosen a score only for a game it still has to settle. *)
ChoiceHasAGame == \A j \in Jobs : job[j].choice # NoScore => job[j].queue # <<>>

RunInv == TypeOK /\ ChoiceHasAGame

-----------------------------------------------------------------------------
LEMMA InitRuns == Init => RunInv
<1> SUFFICES ASSUME Init PROVE RunInv
  OBVIOUS
<1>1. Done \in Run
  BY DEF Done, Run
<1>2. TypeOK
  BY <1>1 DEF Init, TypeOK, SyncStates
<1>3. ChoiceHasAGame
  BY DEF Init, ChoiceHasAGame, Done
<1> QED
  BY <1>2, <1>3 DEF RunInv

LEMMA ImportStepsKeepTypes ==
  ASSUME TypeOK, NEW p \in Providers,
         (\E feed \in Feeds : BeginImport(p, feed)) \/ CommitImport(p) \/ FailImport(p)
  PROVE  TypeOK'
<1>1. ASSUME NEW feed \in Feeds, BeginImport(p, feed)
      PROVE  TypeOK'
  <2>1. Fresh(p, feed) \subseteq Observation
    BY ScoresAssumption DEF Feeds, Fresh, Observation
  <2>2. [rows |-> observed \cup Fresh(p, feed), seen |-> syncState] \in Import
    BY <2>1 DEF TypeOK, Import
  <2>3. import' \in [Providers -> Import \cup {NoImport}]
    BY <1>1, <2>2 DEF TypeOK, BeginImport
  <2> QED
    BY <1>1, <2>3 DEF TypeOK, BeginImport, gameVars
<1>2. ASSUME CommitImport(p)
      PROVE  TypeOK'
  <2>1. import[p].rows \subseteq Observation
    BY <1>2 DEF TypeOK, Import, CommitImport
  <2>2. observed' \subseteq Observation
    BY <1>2, <2>1 DEF TypeOK, CommitImport
  <2>3. syncState' \in [Games -> SyncStates]
    BY <1>2, VerdictIsASyncState DEF TypeOK, CommitImport
  <2>4. import' \in [Providers -> Import \cup {NoImport}]
    BY <1>2 DEF TypeOK, CommitImport
  <2> QED
    BY <1>2, <2>2, <2>3, <2>4 DEF TypeOK, CommitImport, gameVars
<1>3. ASSUME FailImport(p)
      PROVE  TypeOK'
  <2>1. import' \in [Providers -> Import \cup {NoImport}]
    BY <1>3 DEF TypeOK, FailImport
  <2> QED
    BY <1>3, <2>1 DEF TypeOK, FailImport, gameVars
<1> QED
  BY <1>1, <1>2, <1>3

LEMMA RequestsKeepTypes ==
  ASSUME TypeOK, NEW c \in Callers, RequestStep(c)
  PROVE  TypeOK'
<1>1. ASSUME NEW r \in Request \cup {NoRequest}, request' = [request EXCEPT ![c] = r]
      PROVE  request' \in [Callers -> Request \cup {NoRequest}]
  BY <1>1 DEF TypeOK
<1>2. ASSUME NEW g \in Games, NEW s \in Scores, BeginResult(c, g, s) \/ BeginDecision(c, g, s)
      PROVE  TypeOK'
  <2>1. [kind |-> "result", game |-> g, score |-> s] \in Request
        /\ [kind |-> "decision", game |-> g, score |-> s] \in Request
    BY DEF Request
  <2>2. request' \in [Callers -> Request \cup {NoRequest}]
    BY <1>1, <1>2, <2>1 DEF BeginResult, BeginDecision, Asks
  <2> QED
    BY <1>2, <2>2 DEF TypeOK, BeginResult, BeginDecision, gameVars
<1>3. CASE CommitResult(c) \/ CommitDecision(c)
  <2> DEFINE g == request[c].game
             s == request[c].score
  <2>1. g \in Games /\ s \in Scores
    BY <1>3, RequestsAreOnGames DEF CommitResult, CommitDecision
  <2> HIDE DEF g, s
  <2>2. status' = [status EXCEPT ![g] = "FINAL"] /\ score' = [score EXCEPT ![g] = s]
    BY <1>3 DEF CommitResult, CommitDecision, Finalize, g, s
  <2>3. request' \in [Callers -> Request \cup {NoRequest}]
    BY <1>1, <1>3 DEF CommitResult, CommitDecision, EndRequest
  <2>4. UNCHANGED syncState \/ syncState' = [syncState EXCEPT ![g] = "RESOLVED"]
    BY <1>3 DEF CommitResult, CommitDecision, g
  <2>5. syncState' \in [Games -> SyncStates]
    BY <2>4 DEF TypeOK, SyncStates
  <2>6. resolution' = resolution \/ resolution' = [resolution EXCEPT ![g] = Append(resolution[g], s)]
    BY <1>3 DEF CommitResult, CommitDecision, g, s
  <2>7. Append(resolution[g], s) \in Seq(Scores)
    BY <2>1 DEF TypeOK
  <2>8. resolution' \in [Games -> Seq(Scores)]
    BY <2>6, <2>7 DEF TypeOK
  <2> QED
    BY <1>3, <2>1, <2>2, <2>3, <2>5, <2>8 DEF TypeOK, CommitResult, CommitDecision
<1>4. CASE FailRequest(c)
  <2>1. request' \in [Callers -> Request \cup {NoRequest}]
    BY <1>1, <1>4 DEF FailRequest, EndRequest
  <2> QED
    BY <1>4, <2>1 DEF TypeOK, FailRequest, gameVars
<1> QED
  BY <1>2, <1>3, <1>4 DEF RequestStep

(* The steps of a run change its own record and perhaps its game's score. *)
LEMMA JobStepsKeepRuns ==
  ASSUME RunInv, NEW j \in Jobs,
         \/ ListConfirmed(j) \/ SettleGame(j) \/ FailJob(j)
         \/ \E s \in Scores : ReadReport(j, s) \/ PassFinalGame(j, s)
  PROVE  RunInv'
<1> USE DEF RunInv
<1>0. Done \in Run /\ Done.choice = NoScore
  BY DEF Done, Run
<1>1. ASSUME NEW r \in Run, job' = [job EXCEPT ![j] = r], r.choice # NoScore => r.queue # <<>>
      PROVE  job' \in [Jobs -> Run] /\ ChoiceHasAGame'
  BY <1>1 DEF TypeOK, ChoiceHasAGame
<1>2. ASSUME job[j].queue # <<>>
      PROVE  Advanced(j) \in Run /\ Advanced(j).choice = NoScore
  <2>1. [job[j] EXCEPT !.queue = Tail(@), !.fresh = FALSE, !.choice = NoScore].choice = NoScore
    BY DEF TypeOK, Run
  <2> QED
    BY <1>0, <1>2, <2>1, AdvancedIsARun DEF Advanced
<1>3. ASSUME ListConfirmed(j)
      PROVE  RunInv'
  <2>1. PICK order \in SetToSeqs(Settleable) :
          job' = [job EXCEPT ![j] = [queue |-> order, fresh |-> TRUE, choice |-> NoScore, listed |-> observed]]
    BY <1>3 DEF ListConfirmed
  <2>2. order \in Seq(Settleable)
    BY OrdersOfSets DEF Settleable
  <2>3. order \in Seq(Games)
    BY <2>2 DEF Settleable
  <2>4. [queue |-> order, fresh |-> TRUE, choice |-> NoScore, listed |-> observed] \in Run
    BY <2>3 DEF Run, TypeOK
  <2> QED
    BY <1>1, <1>3, <2>1, <2>4 DEF ListConfirmed, TypeOK, gameVars
<1>4. ASSUME SettleGame(j)
      PROVE  RunInv'
  <2>1. job[j].queue # <<>> /\ job[j].choice \in Scores
    BY <1>4 DEF SettleGame, ChoiceHasAGame, TypeOK, Run
  <2>2. job' \in [Jobs -> Run] /\ ChoiceHasAGame'
    BY <1>1, <1>2, <1>4, <2>1 DEF SettleGame
  <2>3. status' \in [Games -> {"SCHEDULED", "FINAL"}]
    BY <1>4 DEF SettleGame, Finalize, TypeOK
  <2>4. score' \in [Games -> Scores \cup {NoScore}]
    BY <1>4, <2>1 DEF SettleGame, Finalize, TypeOK
  <2> QED
    BY <1>4, <2>2, <2>3, <2>4 DEF SettleGame, TypeOK
<1>5. ASSUME FailJob(j)
      PROVE  RunInv'
  BY <1>0, <1>1, <1>5 DEF FailJob, TypeOK, gameVars
<1>6. ASSUME NEW s \in Scores, ReadReport(j, s)
      PROVE  RunInv'
  <2>1. [job[j] EXCEPT !.choice = s] \in Run
    BY DEF TypeOK, Run
  <2>2. [job[j] EXCEPT !.choice = s].queue # <<>>
    BY <1>6 DEF ReadReport, TypeOK, Run
  <2>3. job' \in [Jobs -> Run] /\ ChoiceHasAGame'
    BY <1>1, <1>6, <2>1, <2>2 DEF ReadReport
  <2> QED
    BY <1>6, <2>3 DEF ReadReport, TypeOK, gameVars
<1>7. ASSUME NEW s \in Scores, PassFinalGame(j, s)
      PROVE  RunInv'
  <2>1. job' \in [Jobs -> Run] /\ ChoiceHasAGame'
    BY <1>0, <1>1, <1>2, <1>7 DEF PassFinalGame
  <2> QED
    BY <1>7, <2>1 DEF PassFinalGame, TypeOK, gameVars
<1> QED
  BY <1>3, <1>4, <1>5, <1>6, <1>7

LEMMA NextRuns == RunInv /\ [Next]_vars => RunInv'
<1> SUFFICES ASSUME RunInv, [Next]_vars PROVE RunInv'
  OBVIOUS
<1>1. ASSUME NEW p \in Providers,
             (\E feed \in Feeds : BeginImport(p, feed)) \/ CommitImport(p) \/ FailImport(p)
      PROVE  RunInv'
  <2>1. TypeOK'
    BY <1>1, ImportStepsKeepTypes DEF RunInv
  <2>2. job' = job
    BY <1>1 DEF BeginImport, CommitImport, FailImport
  <2> QED
    BY <2>1, <2>2 DEF RunInv, ChoiceHasAGame
<1>2. ASSUME NEW c \in Callers, RequestStep(c)
      PROVE  RunInv'
  <2>1. TypeOK'
    BY <1>2, RequestsKeepTypes DEF RunInv
  <2>2. job' = job
    BY <1>2 DEF RequestStep, BeginResult, BeginDecision, CommitResult, CommitDecision, FailRequest
  <2> QED
    BY <2>1, <2>2 DEF RunInv, ChoiceHasAGame
<1>3. CASE UNCHANGED vars
  BY <1>3 DEF RunInv, TypeOK, ChoiceHasAGame, vars, gameVars
<1> QED
  BY <1>1, <1>2, <1>3, JobStepsKeepRuns DEF Next, RequestStep

(* Every reachable state is well typed. *)
THEOREM TypeCorrect == Spec => []TypeOK
<1>1. RunInv => TypeOK
  BY DEF RunInv
<1> QED
  BY <1>1, InitRuns, NextRuns, PTL DEF Spec

-----------------------------------------------------------------------------
(* With one import at a time, the states of the games follow the reports.  *)
(* A decision is under way only where reports disagree, and they go on     *)
(* disagreeing until it commits.                                           *)
DecisionsAreNeeded ==
  \A c \in Callers : request[c].kind = "decision" => SourcesDisagree(request[c].game, observed)

SyncInv == RunInv /\ ImportsAreUpToDate /\ OneImport /\ SyncStateIsAccurate /\ DecisionsAreNeeded

LEMMA InitSync == Init => SyncInv
<1> SUFFICES ASSUME Init PROVE SyncInv
  OBVIOUS
<1>1. ImportsAreUpToDate /\ OneImport
  BY DEF Init, ImportsAreUpToDate, OneImport
<1>2. SyncStateIsAccurate
  BY DEF Init, SyncStateIsAccurate, SourcesDisagree, TwoSourcesReport, On
<1>3. DecisionsAreNeeded
  BY DEF Init, DecisionsAreNeeded, NoRequest
<1> QED
  BY <1>1, <1>2, <1>3, InitRuns DEF SyncInv

(* A new import is the only one, and saw everything there is. *)
LEMMA BeginKeepsSync ==
  ASSUME Locked, SyncInv, NEW p \in Providers, NEW feed \in Feeds, BeginImport(p, feed)
  PROVE  ImportsAreUpToDate' /\ OneImport' /\ SyncStateIsAccurate'
<1> DEFINE new == [rows |-> observed \cup Fresh(p, feed), seen |-> syncState]
<1>1. \A q \in Providers : import[q] = NoImport
  BY DEF BeginImport
<1>2. import' = [import EXCEPT ![p] = new] /\ UNCHANGED <<observed, syncState, status, resolution>>
  BY DEF BeginImport, gameVars
<1>3. \A q \in Providers : import'[q] # NoImport => q = p /\ import'[q] = new
  BY <1>1, <1>2 DEF SyncInv, RunInv, TypeOK
<1>4. OneImport'
  BY <1>3 DEF OneImport
<1>5. \A o \in Fresh(p, feed) : o.source = p
  BY DEF Fresh
<1>6. ImportsAreUpToDate'
  BY <1>2, <1>3, <1>5 DEF ImportsAreUpToDate
<1>7. SyncStateIsAccurate'
  BY <1>2 DEF SyncInv, SyncStateIsAccurate, SourcesDisagree, TwoSourcesReport, On
<1> QED
  BY <1>4, <1>6, <1>7

(* Since an import ends by forgetting itself, no other is left. *)
LEMMA EndingLeavesNone ==
  ASSUME SyncInv, NEW p \in Providers, import[p] # NoImport,
         import' = [import EXCEPT ![p] = NoImport]
  PROVE  ImportsAreUpToDate' /\ OneImport'
<1>1. \A q \in Providers : import'[q] = NoImport
  BY DEF SyncInv, RunInv, TypeOK, OneImport
<1> QED
  BY <1>1 DEF ImportsAreUpToDate, OneImport

(* The committed verdict is the verdict on all rows; a verdict that is not *)
(* written was reached before, or the game has been decided meanwhile.     *)
LEMMA CommitKeepsSync ==
  ASSUME SyncInv, NEW p \in Providers, CommitImport(p)
  PROVE  ImportsAreUpToDate' /\ OneImport' /\ SyncStateIsAccurate'
<1> DEFINE mine == {o \in import[p].rows : o.source = p} \ observed
           changed(g) == On(g, mine) # {} /\ Verdict(g, import[p].rows) # import[p].seen[g]
<1>0. /\ import[p] # NoImport
      /\ observed' = observed \cup mine
      /\ syncState' = [g \in Games |-> IF changed(g) THEN Verdict(g, import[p].rows) ELSE syncState[g]]
      /\ import' = [import EXCEPT ![p] = NoImport]
      /\ UNCHANGED <<status, resolution>>
  BY DEF CommitImport, gameVars
<1>1. observed' = import[p].rows
  BY <1>0 DEF SyncInv, ImportsAreUpToDate
<1>2. ASSUME NEW g \in Games
      PROVE  /\ syncState'[g] \in {"CONFLICTED", "RESOLVED"} <=> SourcesDisagree(g, observed')
             /\ syncState'[g] = "CONFIRMED" <=> /\ TwoSourcesReport(g, observed')
                                               /\ ~ SourcesDisagree(g, observed')
             /\ syncState'[g] = "RESOLVED" => syncState[g] = "RESOLVED"
  <2>1. \/ syncState[g] = import[p].seen[g]
        \/ import[p].seen[g] = "CONFLICTED" /\ syncState[g] = "RESOLVED"
    BY <1>0 DEF SyncInv, ImportsAreUpToDate
  <2>2. /\ syncState[g] \in {"CONFLICTED", "RESOLVED"} <=> SourcesDisagree(g, observed)
        /\ syncState[g] = "CONFIRMED" <=> TwoSourcesReport(g, observed) /\ ~ SourcesDisagree(g, observed)
    BY DEF SyncInv, SyncStateIsAccurate
  <2>3. syncState[g] \in SyncStates
    BY DEF SyncInv, RunInv, TypeOK
  <2>4. CASE On(g, mine) = {}
    <3>1. On(g, observed) = On(g, observed')
      BY <1>0, <2>4 DEF On
    <3>2. /\ SourcesDisagree(g, observed) <=> SourcesDisagree(g, observed')
          /\ TwoSourcesReport(g, observed) <=> TwoSourcesReport(g, observed')
      BY <3>1, ReportsOfTheGame
    <3>3. syncState'[g] = syncState[g]
      BY <1>0, <2>4
    <3> QED
      BY <2>2, <3>2, <3>3
  <2>5. CASE changed(g)
    <3>1. syncState'[g] = Verdict(g, observed')
      BY <1>0, <1>1, <2>5
    <3> QED
      BY <3>1 DEF Verdict
  <2>6. CASE Verdict(g, import[p].rows) = import[p].seen[g]
    <3>1. syncState'[g] = syncState[g]
      BY <1>0, <2>6
    <3>2. Verdict(g, observed') = import[p].seen[g]
      BY <1>1, <2>6
    <3> QED
      BY <2>1, <3>1, <3>2 DEF Verdict
  <2> QED
    BY <2>4, <2>5, <2>6
<1>3. SyncStateIsAccurate'
  BY <1>0, <1>2 DEF SyncInv, SyncStateIsAccurate
<1> QED
  BY <1>0, <1>3, EndingLeavesNone

(* A result by hand leaves the sources' state alone; a decision turns a    *)
(* held game into a final one.                                             *)
LEMMA RequestsKeepSync ==
  ASSUME SyncInv, NEW c \in Callers, RequestStep(c)
  PROVE  ImportsAreUpToDate' /\ OneImport' /\ SyncStateIsAccurate' /\ DecisionsAreNeeded'
<1>1. UNCHANGED <<observed, import>>
  BY DEF RequestStep, BeginResult, BeginDecision, CommitResult, CommitDecision, FailRequest
<1>2. OneImport'
  BY <1>1 DEF SyncInv, OneImport
<1>3. ASSUME NEW g \in Games, NEW s \in Scores, BeginResult(c, g, s) \/ BeginDecision(c, g, s)
      PROVE  ImportsAreUpToDate' /\ SyncStateIsAccurate' /\ DecisionsAreNeeded'
  <2>1. UNCHANGED <<observed, import, syncState, status, resolution>>
    BY <1>3 DEF BeginResult, BeginDecision, gameVars
  <2>2. ImportsAreUpToDate' /\ SyncStateIsAccurate'
    BY <2>1 DEF SyncInv, ImportsAreUpToDate, SyncStateIsAccurate
  <2>3. request'[c].kind = "decision" => syncState[g] = "CONFLICTED" /\ request'[c].game = g
    BY <1>3 DEF BeginResult, BeginDecision, Asks, SyncInv, RunInv, TypeOK
  <2>4. syncState[g] = "CONFLICTED" => SourcesDisagree(g, observed)
    BY DEF SyncInv, SyncStateIsAccurate
  <2>5. \A b \in Callers : b = c \/ request'[b] = request[b]
    BY <1>3 DEF BeginResult, BeginDecision, Asks, SyncInv, RunInv, TypeOK
  <2>6. DecisionsAreNeeded'
    BY <2>1, <2>3, <2>4, <2>5 DEF SyncInv, DecisionsAreNeeded
  <2> QED
    BY <2>2, <2>6
<1>4. ASSUME EndRequest(c)
      PROVE  DecisionsAreNeeded'
  <2>1. \A b \in Callers : request'[b] = NoRequest \/ request'[b] = request[b]
    BY <1>4 DEF EndRequest, SyncInv, RunInv, TypeOK
  <2>2. NoRequest.kind = "none"
    BY DEF NoRequest
  <2> QED
    BY <1>1, <2>1, <2>2 DEF SyncInv, DecisionsAreNeeded
<1>5. CASE CommitResult(c)
  <2>1. request[c].game \in Games
    BY <1>5, RequestsAreOnGames DEF CommitResult, SyncInv, RunInv
  <2>2. status' = [status EXCEPT ![request[c].game] = "FINAL"] /\ UNCHANGED <<syncState, resolution>>
    BY <1>5 DEF CommitResult, Finalize
  <2>3. ImportsAreUpToDate'
    BY <1>1, <2>2 DEF SyncInv, ImportsAreUpToDate
  <2>4. SyncStateIsAccurate'
    BY <1>1, <2>1, <2>2 DEF SyncInv, RunInv, TypeOK, SyncStateIsAccurate
  <2> QED
    BY <1>2, <1>4, <1>5, <2>3, <2>4 DEF CommitResult
<1>6. CASE CommitDecision(c)
  <2> DEFINE g == request[c].game
             s == request[c].score
  <2>1. g \in Games /\ s \in Scores
    BY <1>6, RequestsAreOnGames DEF CommitDecision, SyncInv, RunInv
  <2>2. SourcesDisagree(g, observed)
    BY <1>6 DEF CommitDecision, SyncInv, DecisionsAreNeeded
  <2> HIDE DEF g, s
  <2>3. /\ status' = [status EXCEPT ![g] = "FINAL"]
        /\ syncState' = [syncState EXCEPT ![g] = "RESOLVED"]
        /\ resolution' = [resolution EXCEPT ![g] = Append(resolution[g], s)]
    BY <1>6 DEF CommitDecision, Finalize, g, s
  <2>4. syncState[g] \in {"CONFLICTED", "RESOLVED"}
    BY <2>1, <2>2 DEF SyncInv, SyncStateIsAccurate
  <2>5. ImportsAreUpToDate'
    BY <1>1, <2>1, <2>3, <2>4 DEF SyncInv, RunInv, TypeOK, ImportsAreUpToDate
  <2>6. Append(resolution[g], s) # <<>>
    <3>1. resolution[g] \in Seq(Scores)
      BY <2>1 DEF SyncInv, RunInv, TypeOK
    <3>2. Len(Append(resolution[g], s)) = Len(resolution[g]) + 1 /\ Len(resolution[g]) \in Nat
      BY <2>1, <3>1
    <3> QED
      BY <3>2
  <2>7. SyncStateIsAccurate'
    BY <1>1, <2>1, <2>2, <2>3, <2>6 DEF SyncInv, RunInv, TypeOK, SyncStateIsAccurate
  <2> QED
    BY <1>2, <1>4, <1>6, <2>5, <2>7 DEF CommitDecision
<1>7. CASE FailRequest(c)
  <2>1. ImportsAreUpToDate' /\ SyncStateIsAccurate'
    BY <1>1, <1>7 DEF FailRequest, gameVars, SyncInv, ImportsAreUpToDate, SyncStateIsAccurate
  <2> QED
    BY <1>2, <1>4, <1>7, <2>1 DEF FailRequest
<1> QED
  BY <1>2, <1>3, <1>5, <1>6, <1>7 DEF RequestStep

(* Reports are never withdrawn, so what other steps do not touch stands.   *)
LEMMA DecisionsStayNeeded ==
  ASSUME SyncInv, observed \subseteq observed', UNCHANGED request
  PROVE  DecisionsAreNeeded'
<1>1. \A g : SourcesDisagree(g, observed) => SourcesDisagree(g, observed')
  BY MoreReports
<1> QED
  BY <1>1 DEF SyncInv, DecisionsAreNeeded

(* A run of the settlement job only makes games final. *)
LEMMA JobStepsKeepSync ==
  ASSUME SyncInv, NEW j \in Jobs,
         \/ ListConfirmed(j) \/ SettleGame(j) \/ FailJob(j)
         \/ \E s \in Scores : ReadReport(j, s) \/ PassFinalGame(j, s)
  PROVE  ImportsAreUpToDate' /\ OneImport' /\ SyncStateIsAccurate'
<1>1. UNCHANGED <<observed, import, syncState, resolution>>
  BY DEF ListConfirmed, SettleGame, FailJob, ReadReport, PassFinalGame, gameVars
<1>2. \A g \in Games : status[g] = "FINAL" => status'[g] = "FINAL"
  BY DEF ListConfirmed, SettleGame, Finalize, FailJob, ReadReport, PassFinalGame, gameVars,
         SyncInv, RunInv, TypeOK
<1>3. ImportsAreUpToDate' /\ OneImport'
  BY <1>1 DEF SyncInv, ImportsAreUpToDate, OneImport
<1>4. SyncStateIsAccurate'
  BY <1>1, <1>2 DEF SyncInv, SyncStateIsAccurate
<1> QED
  BY <1>3, <1>4

LEMMA NextSync == Locked /\ SyncInv /\ [Next]_vars => SyncInv'
<1> SUFFICES ASSUME Locked, SyncInv, [Next]_vars PROVE SyncInv'
  OBVIOUS
<1>1. RunInv'
  BY NextRuns DEF SyncInv
<1>2. ASSUME NEW p \in Providers, FailImport(p)
      PROVE  ImportsAreUpToDate' /\ OneImport' /\ SyncStateIsAccurate'
  <2>1. SyncStateIsAccurate'
    BY <1>2 DEF FailImport, gameVars, SyncInv, SyncStateIsAccurate
  <2> QED
    BY <1>2, <2>1, EndingLeavesNone DEF FailImport
<1>3. CASE UNCHANGED vars
  BY <1>1, <1>3 DEF vars, gameVars, SyncInv, ImportsAreUpToDate, OneImport, SyncStateIsAccurate,
                    DecisionsAreNeeded
<1>4. CASE Next
  <2>1. ASSUME NEW c \in Callers, RequestStep(c)
        PROVE  SyncInv'
    BY <1>1, <2>1, RequestsKeepSync DEF SyncInv
  <2>2. ASSUME NEW p \in Providers,
               (\E feed \in Feeds : BeginImport(p, feed)) \/ CommitImport(p) \/ FailImport(p)
        PROVE  SyncInv'
    <3>1. ImportsAreUpToDate' /\ OneImport' /\ SyncStateIsAccurate'
      BY <1>2, <2>2, BeginKeepsSync, CommitKeepsSync
    <3>2. observed \subseteq observed' /\ UNCHANGED request
      BY <2>2 DEF BeginImport, CommitImport, FailImport
    <3> QED
      BY <1>1, <3>1, <3>2, DecisionsStayNeeded DEF SyncInv
  <2>3. ASSUME NEW j \in Jobs,
               \/ ListConfirmed(j) \/ SettleGame(j) \/ FailJob(j)
               \/ \E s \in Scores : ReadReport(j, s) \/ PassFinalGame(j, s)
        PROVE  SyncInv'
    <3>1. ImportsAreUpToDate' /\ OneImport' /\ SyncStateIsAccurate'
      BY <2>3, JobStepsKeepSync
    <3>2. UNCHANGED <<observed, request>>
      BY <2>3 DEF ListConfirmed, SettleGame, FailJob, ReadReport, PassFinalGame
    <3> QED
      BY <1>1, <3>1, <3>2, DecisionsStayNeeded DEF SyncInv
  <2> QED
    BY <1>4, <2>1, <2>2, <2>3 DEF Next, RequestStep
<1> QED
  BY <1>3, <1>4

(* Under ingestion_lock, a game is held exactly while the committed        *)
(* reports disagree and confirmed exactly when two sources agree, for any  *)
(* number of providers and reports.                                        *)
THEOREM StatesFollowReports ==
  ASSUME Locked
  PROVE  Spec => []SyncStateIsAccurate
<1>1. SyncInv => SyncStateIsAccurate
  BY DEF SyncInv
<1>2. SyncInv /\ [Next]_vars => SyncInv'
  BY NextSync
<1> QED
  BY <1>1, <1>2, InitSync, PTL DEF Spec

(* Under ingestion_lock, a disagreement is only ever ended by an operator. *)
THEOREM HoldsNeedDecisions ==
  ASSUME Locked
  PROVE  Spec => OnlyDecisionsRelease
<1>1. ASSUME SyncInv, [Next]_vars
      PROVE  observed \subseteq observed'
  BY <1>1 DEF Next, vars, gameVars, BeginImport, CommitImport, FailImport, BeginResult,
              BeginDecision, CommitResult, CommitDecision, FailRequest, ListConfirmed, SettleGame, FailJob, ReadReport, PassFinalGame
<1>2. ASSUME SyncInv, [Next]_vars
      PROVE  [HeldUntilDecided]_vars
  <2>1. SyncInv'
    BY <1>2, NextSync
  <2>2. \A g \in Games : SourcesDisagree(g, observed) => SourcesDisagree(g, observed')
    BY <1>1, <1>2, MoreReports
  <2> QED
    BY <1>2, <2>1, <2>2 DEF SyncInv, SyncStateIsAccurate, HeldUntilDecided, SourcesDisagree, On
<1>3. SyncInv /\ [Next]_vars => SyncInv'
  BY NextSync
<1> QED
  BY <1>2, <1>3, InitSync, PTL DEF Spec, OnlyDecisionsRelease

(* Once a game is final, a step of a request neither reopens it nor adds   *)
(* to those who may still write its score, and one that writes leaves.     *)
LEMMA RequestsCloseGames ==
  ASSUME RunInv, NEW g \in Games, status[g] = "FINAL", NEW c \in Callers, RequestStep(c)
  PROVE  /\ status'[g] = "FINAL"
         /\ Writers(g)' \subseteq Writers(g)
         /\ score'[g] # score[g] \/ resolution'[g] # resolution[g] => Writers(g)' # Writers(g)
<1> USE DEF RunInv
<1>1. UNCHANGED job /\ c \notin Jobs
  BY ScoresAssumption
     DEF RequestStep, BeginResult, BeginDecision, CommitResult, CommitDecision, FailRequest
<1>2. ASSUME NEW h \in Games, NEW s \in Scores, BeginResult(c, h, s) \/ BeginDecision(c, h, s)
      PROVE  /\ UNCHANGED <<status, score, resolution>>
             /\ Writers(g)' \subseteq Writers(g)
  <2>1. h # g /\ UNCHANGED <<status, score, resolution>>
    BY <1>2 DEF BeginResult, BeginDecision, gameVars
  <2>2. request'[c].game = h /\ \A b \in Callers : b = c \/ request'[b] = request[b]
    BY <1>2 DEF BeginResult, BeginDecision, Asks, TypeOK
  <2> QED
    BY <1>1, <2>1, <2>2 DEF Writers, Idle
<1>3. ASSUME EndRequest(c)
      PROVE  Writers(g)' \subseteq Writers(g) /\ c \notin Writers(g)'
  <2>1. request'[c] = NoRequest /\ \A b \in Callers : b = c \/ request'[b] = request[b]
    BY <1>3 DEF EndRequest, TypeOK
  <2> QED
    BY <1>1, <2>1 DEF Writers, Idle
<1>4. CASE CommitResult(c) \/ CommitDecision(c)
  <2>1. request[c].game \in Games /\ ~ Idle(c)
    BY <1>4, RequestsAreOnGames DEF CommitResult, CommitDecision
  <2>2. Writers(g)' \subseteq Writers(g) /\ c \notin Writers(g)'
    BY <1>3, <1>4 DEF CommitResult, CommitDecision
  <2>3. status'[g] = "FINAL"
    BY <1>4, <2>1 DEF CommitResult, CommitDecision, Finalize, TypeOK
  <2>4. request[c].game # g => score'[g] = score[g] /\ resolution'[g] = resolution[g]
    BY <1>4, <2>1 DEF CommitResult, CommitDecision, Finalize, TypeOK
  <2>5. request[c].game = g => c \in Writers(g)
    BY <2>1 DEF Writers
  <2> QED
    BY <2>2, <2>3, <2>4, <2>5
<1>5. CASE FailRequest(c)
  BY <1>3, <1>5 DEF FailRequest, gameVars
<1> QED
  BY <1>2, <1>4, <1>5 DEF RequestStep

(* The same of a run of the job.                                           *)
LEMMA RunsCloseGames ==
  ASSUME RunInv, NEW g \in Games, status[g] = "FINAL", NEW j \in Jobs,
         \/ ListConfirmed(j) \/ SettleGame(j) \/ FailJob(j)
         \/ \E s \in Scores : ReadReport(j, s) \/ PassFinalGame(j, s)
  PROVE  /\ status'[g] = "FINAL"
         /\ Writers(g)' \subseteq Writers(g)
         /\ score'[g] # score[g] \/ resolution'[g] # resolution[g] => Writers(g)' # Writers(g)
<1> USE DEF RunInv
<1> DEFINE Writes(k) == /\ job[k].queue # <<>> /\ Head(job[k].queue) = g
                        /\ job[k].fresh \/ job[k].choice # NoScore
<1>0. UNCHANGED <<request, resolution>> /\ j \notin Callers
  BY ScoresAssumption DEF ListConfirmed, SettleGame, FailJob, ReadReport, PassFinalGame, gameVars
<1>1. ASSUME NEW r, job' = [job EXCEPT ![j] = r],
             r.queue # <<>> /\ Head(r.queue) = g /\ (r.fresh \/ r.choice # NoScore) => Writes(j)
      PROVE  Writers(g)' \subseteq Writers(g)
  <2>1. job'[j] = r /\ \A k \in Jobs : k = j \/ job'[k] = job[k]
    BY <1>1 DEF TypeOK
  <2> QED
    BY <1>0, <1>1, <2>1 DEF Writers, Idle
<1>2. ASSUME NEW r, job' = [job EXCEPT ![j] = r], ~ r.fresh, r.choice = NoScore
      PROVE  Writers(g)' \subseteq Writers(g) /\ j \notin Writers(g)'
  <2>1. job'[j] = r
    BY <1>2 DEF TypeOK
  <2>2. j \notin Writers(g)'
    BY <1>0, <1>2, <2>1 DEF Writers
  <2> QED
    BY <1>1, <1>2, <2>2
<1>3. ~ Done.fresh /\ Done.choice = NoScore
  BY DEF Done
<1>4. ~ Advanced(j).fresh /\ Advanced(j).choice = NoScore
  BY <1>3 DEF Advanced, TypeOK, Run
<1>5. ASSUME ListConfirmed(j)
      PROVE  Writers(g)' \subseteq Writers(g) /\ UNCHANGED <<status, score>>
  <2>1. PICK order \in SetToSeqs(Settleable) :
          job' = [job EXCEPT ![j] = [queue |-> order, fresh |-> TRUE, choice |-> NoScore, listed |-> observed]]
    BY <1>5 DEF ListConfirmed
  <2>2. g \notin Settleable
    BY DEF Settleable
  <2>3. order \in Seq(Settleable)
    BY OrdersOfSets DEF Settleable
  <2>4. order # <<>> => Head(order) # g
    BY <2>2, <2>3
  <2> QED
    BY <1>1, <1>5, <2>1, <2>4 DEF ListConfirmed, gameVars
<1>6. ASSUME SettleGame(j)
      PROVE  /\ status'[g] = "FINAL"
             /\ Writers(g)' \subseteq Writers(g)
             /\ score'[g] # score[g] => Writers(g)' # Writers(g)
  <2>1. Writers(g)' \subseteq Writers(g) /\ j \notin Writers(g)'
    BY <1>2, <1>4, <1>6 DEF SettleGame
  <2>2. job[j].queue # <<>> /\ job[j].queue \in Seq(Games) /\ job[j].choice # NoScore
    BY <1>6 DEF SettleGame, ChoiceHasAGame, TypeOK, Run
  <2>3. Head(job[j].queue) \in Games
    BY <2>2
  <2>4. status'[g] = "FINAL" /\ (Head(job[j].queue) # g => score'[g] = score[g])
    BY <1>6, <2>3 DEF SettleGame, Finalize, TypeOK
  <2>5. Head(job[j].queue) = g => j \in Writers(g)
    BY <2>2 DEF Writers
  <2> QED
    BY <2>1, <2>4, <2>5
<1>7. ASSUME FailJob(j)
      PROVE  Writers(g)' \subseteq Writers(g) /\ UNCHANGED <<status, score>>
  BY <1>2, <1>3, <1>7 DEF FailJob, gameVars
<1>8. ASSUME NEW s \in Scores, ReadReport(j, s)
      PROVE  Writers(g)' \subseteq Writers(g) /\ UNCHANGED <<status, score>>
  <2> DEFINE r == [job[j] EXCEPT !.choice = s]
  <2>1. r.queue = job[j].queue /\ r.fresh = job[j].fresh
    BY DEF TypeOK, Run
  <2>2. job' = [job EXCEPT ![j] = r] /\ job[j].queue # <<>>
    BY <1>8 DEF ReadReport
  <2>3. Head(job[j].queue) = g => job[j].fresh
    BY <1>8 DEF ReadReport, FinalWhenRead
  <2> HIDE DEF r
  <2>4. r.queue # <<>> /\ Head(r.queue) = g /\ (r.fresh \/ r.choice # NoScore) => Writes(j)
    BY <2>1, <2>2, <2>3
  <2> HIDE DEF Writes
  <2>5. Writers(g)' \subseteq Writers(g)
    BY <1>1, <2>2, <2>4
  <2> QED
    BY <1>8, <2>5 DEF ReadReport, gameVars
<1>9. ASSUME NEW s \in Scores, PassFinalGame(j, s)
      PROVE  Writers(g)' \subseteq Writers(g) /\ UNCHANGED <<status, score>>
  <2>1. job' = [job EXCEPT ![j] = Advanced(j)] \/ job' = [job EXCEPT ![j] = Done]
    BY <1>9 DEF PassFinalGame
  <2> QED
    BY <1>2, <1>3, <1>4, <1>9, <2>1 DEF PassFinalGame, gameVars
<1> QED
  BY <1>0, <1>5, <1>6, <1>7, <1>8, <1>9

(* With or without the lock, for any number of requests and runs: a game   *)
(* stays final, and its score and its decisions change only by one that    *)
(* had found it open before, and that is done with it then.                *)
THEOREM FinalityIsClosed == Spec => OnlyEarlyReadersOverwrite
<1>1. ASSUME RunInv, [Next]_vars
      PROVE  [FinalityCloses]_vars
  <2> SUFFICES ASSUME NEW g \in Games, status[g] = "FINAL"
               PROVE  /\ status'[g] = "FINAL"
                      /\ Writers(g)' \subseteq Writers(g)
                      /\ score'[g] # score[g] \/ resolution'[g] # resolution[g]
                           => Writers(g)' # Writers(g)
    BY DEF FinalityCloses
  <2>1. ASSUME UNCHANGED <<gameVars, job, request>>
        PROVE  /\ Writers(g)' = Writers(g)
               /\ status'[g] = "FINAL" /\ score'[g] = score[g] /\ resolution'[g] = resolution[g]
    BY <2>1 DEF gameVars, Writers, Idle
  <2>2. ASSUME NEW p \in Providers,
               (\E feed \in Feeds : BeginImport(p, feed)) \/ CommitImport(p) \/ FailImport(p)
        PROVE  UNCHANGED <<gameVars, job, request>>
    BY <2>2 DEF BeginImport, CommitImport, FailImport, gameVars
  <2>3. CASE UNCHANGED vars
    BY <2>1, <2>3 DEF vars, gameVars
  <2>4. CASE Next
    BY <1>1, <2>1, <2>2, <2>4, RequestsCloseGames, RunsCloseGames DEF Next, RequestStep
  <2> QED
    BY <1>1, <2>3, <2>4
<1> QED
  BY <1>1, InitRuns, NextRuns, PTL DEF Spec, OnlyEarlyReadersOverwrite

-----------------------------------------------------------------------------
(* What the settlement job relies on: its games were agreed upon when it   *)
(* listed them, and a choice is as late a report as any of those.          *)

AgreedOn(rows, g) == TwoSourcesReport(g, rows) /\ ~ SourcesDisagree(g, rows)

ListedInv ==
  \A j \in Jobs :
    /\ \A i \in 1 .. Len(job[j].queue) : AgreedOn(job[j].listed, job[j].queue[i])
    /\ job[j].choice # NoScore =>
         \E o \in On(Head(job[j].queue), observed) :
           /\ o.score = job[j].choice
           /\ \A old \in On(Head(job[j].queue), job[j].listed) : old.at <= o.at
    /\ job[j].listed \subseteq observed

AgreementInv == SyncInv /\ ListedInv

LEMMA InitAgreement == Init => AgreementInv
<1> SUFFICES ASSUME Init PROVE ListedInv
  BY InitSync DEF AgreementInv
<1> QED
  BY DEF Init, Done, ListedInv

(* What has been reported stays reported.                                  *)
LEMMA MoreReportsKeepListed ==
  ASSUME ListedInv, observed \subseteq observed', UNCHANGED job
  PROVE  ListedInv'
<1>1. \A g : On(g, observed) \subseteq On(g, observed')
  BY DEF On
<1> SUFFICES ASSUME NEW j \in Jobs
             PROVE  /\ \A i \in 1 .. Len(job[j].queue) : AgreedOn(job[j].listed, job[j].queue[i])
                    /\ job[j].choice # NoScore =>
                         \E o \in On(Head(job[j].queue), observed') :
                           /\ o.score = job[j].choice
                           /\ \A old \in On(Head(job[j].queue), job[j].listed) : old.at <= o.at
                    /\ job[j].listed \subseteq observed'
  BY DEF ListedInv, AgreedOn, TwoSourcesReport, SourcesDisagree, On
<1> QED
  BY <1>1 DEF ListedInv

(* The job queues games confirmed, and chooses among their latest reports. *)
LEMMA RunsKeepListed ==
  ASSUME AgreementInv, NEW j \in Jobs,
         \/ ListConfirmed(j) \/ SettleGame(j) \/ FailJob(j)
         \/ \E s \in Scores : ReadReport(j, s) \/ PassFinalGame(j, s)
  PROVE  ListedInv'
<1> USE DEF AgreementInv, SyncInv, RunInv
<1>1. UNCHANGED observed
  BY DEF ListConfirmed, SettleGame, FailJob, ReadReport, PassFinalGame
<1> DEFINE Fine(r) ==
      /\ \A i \in 1 .. Len(r.queue) : AgreedOn(r.listed, r.queue[i])
      /\ r.choice # NoScore =>
           \E o \in On(Head(r.queue), observed) :
             /\ o.score = r.choice
             /\ \A old \in On(Head(r.queue), r.listed) : old.at <= o.at
      /\ r.listed \subseteq observed
<1>2. \A k \in Jobs : Fine(job[k])
  BY DEF ListedInv
<1>3. (\A k \in Jobs : Fine(job'[k])) => ListedInv'
  BY <1>1 DEF ListedInv, AgreedOn, TwoSourcesReport, SourcesDisagree, On
<1> HIDE DEF Fine
<1>4. ASSUME NEW r, job' = [job EXCEPT ![j] = r], Fine(r)
      PROVE  ListedInv'
  <2>1. \A k \in Jobs : (job'[k] = r /\ k = j) \/ job'[k] = job[k]
    BY <1>4 DEF TypeOK
  <2> QED
    BY <1>2, <1>3, <1>4, <2>1
<1>5. job[j].queue \in Seq(Games)
  BY DEF TypeOK, Run
<1>6. Fine(Done)
  BY DEF Fine, Done
<1>7. ASSUME job[j].queue # <<>>
      PROVE  Fine(Advanced(j))
  <2>1. CASE Len(job[j].queue) = 1
    BY <1>6, <2>1 DEF Advanced
  <2>2. CASE Len(job[j].queue) # 1
    <3> DEFINE r == [job[j] EXCEPT !.queue = Tail(@), !.fresh = FALSE, !.choice = NoScore]
    <3>1. r.queue = Tail(job[j].queue) /\ r.choice = NoScore /\ r.listed = job[j].listed
      BY DEF TypeOK, Run
    <3>2. Advanced(j) = r
      BY <2>2 DEF Advanced
    <3> HIDE DEF r
    <3>3. \A i \in 1 .. Len(Tail(job[j].queue)) :
            i + 1 \in 1 .. Len(job[j].queue) /\ Tail(job[j].queue)[i] = job[j].queue[i + 1]
      BY <1>5, <1>7
    <3>4. \A i \in 1 .. Len(r.queue) : AgreedOn(r.listed, r.queue[i])
      BY <1>2, <3>1, <3>3 DEF Fine
    <3>5. r.listed \subseteq observed
      BY <1>2, <3>1 DEF Fine
    <3> QED
      BY <3>1, <3>2, <3>4, <3>5 DEF Fine
  <2> QED
    BY <2>1, <2>2
<1>8. ASSUME ListConfirmed(j)
      PROVE  ListedInv'
  <2> DEFINE Listing(order) == [queue |-> order, fresh |-> TRUE, choice |-> NoScore, listed |-> observed]
  <2>1. PICK order \in SetToSeqs(Settleable) : job' = [job EXCEPT ![j] = Listing(order)]
    BY <1>8 DEF ListConfirmed
  <2>2. order \in Seq(Settleable)
    BY OrdersOfSets DEF Settleable
  <2>3. \A g \in Settleable : AgreedOn(observed, g)
    BY DEF SyncStateIsAccurate, Settleable, AgreedOn
  <2>4. Fine(Listing(order))
    BY <2>2, <2>3 DEF Fine
  <2> QED
    BY <1>4, <2>1, <2>4
<1>9. ASSUME SettleGame(j)
      PROVE  ListedInv'
  <2>1. job[j].queue # <<>>
    BY <1>9 DEF SettleGame, ChoiceHasAGame
  <2> QED
    BY <1>4, <1>7, <1>9, <2>1 DEF SettleGame
<1>10. ASSUME FailJob(j)
       PROVE  ListedInv'
  BY <1>4, <1>6, <1>10 DEF FailJob
<1>11. ASSUME NEW s \in Scores, ReadReport(j, s)
       PROVE  ListedInv'
  <2> DEFINE r == [job[j] EXCEPT !.choice = s]
             g == Head(job[j].queue)
  <2>1. job' = [job EXCEPT ![j] = r]
    BY <1>11 DEF ReadReport
  <2>2. r.queue = job[j].queue /\ r.choice = s /\ r.listed = job[j].listed
    BY DEF TypeOK, Run
  <2> HIDE DEF r
  <2>3. PICK o \in On(g, observed) : o.score = s /\ \A other \in On(g, observed) : other.at <= o.at
    BY <1>11 DEF ReadReport, Latest
  <2>4. job[j].listed \subseteq observed
    BY <1>2 DEF Fine
  <2>5. On(g, job[j].listed) \subseteq On(g, observed)
    BY <2>4 DEF On
  <2>6. Fine(r)
    BY <1>2, <2>2, <2>3, <2>4, <2>5 DEF Fine
  <2> QED
    BY <1>4, <2>1, <2>6
<1>12. ASSUME NEW s \in Scores, PassFinalGame(j, s)
       PROVE  ListedInv'
  <2>1. job' = [job EXCEPT ![j] = Advanced(j)] \/ job' = [job EXCEPT ![j] = Done]
    BY <1>12 DEF PassFinalGame
  <2>2. job[j].queue # <<>>
    BY <1>12 DEF PassFinalGame
  <2> QED
    BY <1>4, <1>6, <1>7, <2>1, <2>2
<1> QED
  BY <1>8, <1>9, <1>10, <1>11, <1>12

LEMMA NextAgreement == Locked /\ AgreementInv /\ [Next]_vars => AgreementInv'
<1> SUFFICES ASSUME Locked, AgreementInv, [Next]_vars PROVE AgreementInv'
  OBVIOUS
<1>1. SyncInv'
  BY NextSync DEF AgreementInv
<1>2. ASSUME NEW p \in Providers,
             (\E feed \in Feeds : BeginImport(p, feed)) \/ CommitImport(p) \/ FailImport(p)
      PROVE  observed \subseteq observed' /\ UNCHANGED job
  BY <1>2 DEF BeginImport, CommitImport, FailImport
<1>3. ASSUME NEW c \in Callers, RequestStep(c)
      PROVE  UNCHANGED <<observed, job>>
  BY <1>3 DEF RequestStep, BeginResult, BeginDecision, CommitResult, CommitDecision, FailRequest
<1>4. CASE UNCHANGED vars
  BY <1>1, <1>4, MoreReportsKeepListed DEF vars, AgreementInv
<1>5. CASE Next
  <2>1. ListedInv'
    BY <1>2, <1>3, <1>5, MoreReportsKeepListed, RunsKeepListed DEF Next, RequestStep, AgreementInv
  <2> QED
    BY <1>1, <2>1 DEF AgreementInv
<1> QED
  BY <1>4, <1>5

(* Under ingestion_lock: the job settles only what two sources agreed upon *)
(* when it listed its games, and with that score, unless a report as late  *)
(* as any came since.                                                      *)
THEOREM AgreedScoresSettle ==
  ASSUME Locked
  PROVE  Spec => SettlesWhatWasAgreed
<1>1. ASSUME AgreementInv
      PROVE  SettlesAgreed
  <2> SUFFICES ASSUME NEW j \in Jobs, SettleGame(j),
                      NEW g, g = Head(job[j].queue),
                      NEW listed, listed = On(g, job[j].listed)
               PROVE  /\ TwoSourcesReport(g, listed) /\ ~ SourcesDisagree(g, listed)
                      /\ \E o \in listed \cup {n \in On(g, observed) \ listed :
                                               \A old \in listed : old.at <= n.at} :
                           o.score = job[j].choice
    BY DEF SettlesAgreed
  <2>1. job[j].choice # NoScore /\ job[j].queue # <<>>
    BY <1>1 DEF SettleGame, AgreementInv, SyncInv, RunInv, ChoiceHasAGame
  <2>2. job[j].queue \in Seq(Games)
    BY <1>1 DEF AgreementInv, SyncInv, RunInv, TypeOK, Run
  <2>3. 1 \in 1 .. Len(job[j].queue) /\ g = job[j].queue[1]
    BY <2>1, <2>2
  <2>4. AgreedOn(job[j].listed, g)
    BY <1>1, <2>3 DEF AgreementInv, ListedInv
  <2>5. On(g, listed) = On(g, job[j].listed)
    BY DEF On
  <2>6. TwoSourcesReport(g, listed) /\ ~ SourcesDisagree(g, listed)
    BY <2>4, <2>5, ReportsOfTheGame DEF AgreedOn
  <2>7. PICK o \in On(g, observed) : o.score = job[j].choice /\ \A old \in listed : old.at <= o.at
    BY <1>1, <2>1 DEF AgreementInv, ListedInv
  <2> QED
    BY <2>6, <2>7
<1>2. AgreementInv => [SettlesAgreed]_vars
  BY <1>1
<1>3. AgreementInv /\ [Next]_vars => AgreementInv'
  BY NextAgreement
<1> QED
  BY <1>2, <1>3, InitAgreement, PTL DEF Spec, SettlesWhatWasAgreed
=============================================================================
