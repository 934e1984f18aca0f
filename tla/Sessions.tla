------------------------------ MODULE Sessions ------------------------------
(***************************************************************************)
(* The requests of Wagering as the database sees them: each runs in a      *)
(* session of its own (core/database.py), in a thread of its own, and the  *)
(* statements of several sessions interleave.  The production database     *)
(* runs READ COMMITTED: a SELECT sees what is committed when it runs, an   *)
(* UPDATE locks its row until the transaction ends, and nothing notices    *)
(* that a row read earlier has changed since.                              *)
(*                                                                         *)
(* The variables of Wagering are the committed database.  A session holds  *)
(* what the ORM keeps for it: the balances it has read (autoflush is off   *)
(* and a row is read once per transaction), the postings it still has to   *)
(* make, and the rows its commit will write.  Bet rows are written whole,  *)
(* at commit.                                                              *)
(*                                                                         *)
(* The accounts are open and the clock stands before every cutoff: opening *)
(* accounts and passing the cutoff are left to Wagering.                   *)
(***************************************************************************)
EXTENDS Wagering, SequencesExt

CONSTANTS
  Sessions,     \* requests in progress at the same time, at most
  Capital,      \* the row of the capital account
  Rows,         \* all account rows, in the order one flush updates them
  NoGame,       \* a session that finalizes no game
  Opening       \* balance of every account at the start

ASSUME SessionsAssumption ==
  /\ Capital \notin Accounts
  /\ Rows \in Seq(Accounts \cup {Capital})
  /\ ToSet(Rows) = Accounts \cup {Capital}
  /\ NoGame \notin Games
  /\ Opening \in Nat

VARIABLES
  sess,         \* sess[s]: what session s has read and is about to write
  lock          \* lock[r]: the sessions (one or none) that hold row r's lock

sessionVars == <<sess, lock>>
allVars == <<vars, sess, lock>>

(* A session with nothing to do, and what every request starts from. *)
Idle == [phase |-> "idle", seen |-> <<>>, todo |-> <<>>,
         posted |-> [a \in Accounts |-> [t \in PostingTypes |-> 0]],
         rows |-> <<>>, game |-> NoGame, score |-> NoScore, trail |-> <<>>]

SessionsInit ==
  /\ account = [a \in Accounts |-> "active"]
  /\ balance = [a \in Accounts |-> Opening]
  /\ posted = [a \in Accounts |-> [t \in PostingTypes |-> IF t = "DEPOSIT" THEN Opening ELSE 0]]
  /\ capital = -(Opening * Cardinality(Accounts))
  /\ bet = [b \in Bets |-> NoBet]
  /\ status = [g \in Games |-> "SCHEDULED"]
  /\ score = [g \in Games |-> NoScore]
  /\ beforeCutoff = [g \in Games |-> TRUE]
  /\ audit = [g \in Games |-> <<>>]
  /\ sess = [s \in Sessions |-> Idle]
  /\ lock = [r \in ToSet(Rows) |-> {}]

Committed(r) == IF r = Capital THEN capital ELSE balance[r]

(* What a session holds once it has read row r as well. *)
WithRow(seen, r) ==
  [x \in DOMAIN seen \cup {r} |-> IF x = r THEN Committed(r) ELSE seen[x]]

(* The account rows the session's next posting updates. *)
Touched(s) == {sess[s].todo[1].account, Capital}

-----------------------------------------------------------------------------
(* get_current_user joins the user's account to the user: the balance is   *)
(* read here, and not again before the request ends.                       *)
Authenticate(s, a) ==
  /\ sess[s].phase = "idle"
  /\ sess' = [sess EXCEPT ![s] = [Idle EXCEPT !.phase = "authenticated",
                                              !.seen = WithRow(<<>>, a)]]
  /\ UNCHANGED <<vars, lock>>

(* record_manual_transaction up to its posting. *)
RequestManual(s, a, t, amount) ==
  /\ sess[s].phase = "authenticated"
  /\ a \in DOMAIN sess[s].seen
  /\ IF t = "DEPOSIT" THEN posted[a][t] + amount <= MaxDeposited
                      ELSE sess[s].seen[a] >= amount
  /\ sess' = [sess EXCEPT ![s].phase = "posting",
                          ![s].todo = <<[account |-> a, type |-> t,
                                         amount |-> IF t = "DEPOSIT" THEN amount ELSE -amount]>>]
  /\ UNCHANGED <<vars, lock>>

(* place_bet up to the posting of its stake.  Bet identifiers are fresh.   *)
RequestBet(s, b, a, q, stake, key) ==
  /\ sess[s].phase = "authenticated"
  /\ a \in DOMAIN sess[s].seen
  /\ b \notin Placed /\ \A r \in Sessions : b \notin DOMAIN sess[r].rows
  /\ KeyUnused(a, key)
  /\ beforeCutoff[q.game]
  /\ sess[s].seen[a] >= stake
  /\ sess' = [sess EXCEPT
       ![s].phase = "posting",
       ![s].todo = <<[account |-> a, type |-> "WAGER_STAKE", amount |-> -stake]>>,
       ![s].rows = [new \in {b} |->
                      [account |-> a, quote |-> q, key |-> key, stake |-> stake,
                       status |-> "PENDING", payout |-> 0]]]
  /\ UNCHANGED <<vars, lock>>

(* The request fails its checks, or only reads. *)
Refuse(s) ==
  /\ sess[s].phase = "authenticated"
  /\ sess' = [sess EXCEPT ![s] = Idle]
  /\ UNCHANGED <<vars, lock>>

(* record_game_result and correct_game_result read the game first          *)
(* (the result may be recorded without authenticating) ...                 *)
BeginResult(s, g, final) ==
  /\ sess[s].phase \in {"idle", "authenticated"}
  /\ \/ /\ status[g] # "FINAL"
        /\ sess' = [sess EXCEPT ![s].phase = "record", ![s].game = g, ![s].score = final]
     \/ /\ status[g] = "FINAL" /\ score[g] # final /\ Len(audit[g]) < MaxCorrections
        /\ sess' = [sess EXCEPT ![s].phase = "correct", ![s].game = g, ![s].score = final,
                                ![s].trail = <<CorrectionRow(g, final)>>]
  /\ UNCHANGED <<vars, lock>>

(* A posting of zero cents is left out. *)
Due(todo) ==
  LET zeros == {i \in DOMAIN todo : \A j \in 1 .. i : todo[j].amount = 0}
  IN  SubSeq(todo, Cardinality(zeros) + 1, Len(todo))

(* ... and its bets next, in any order.  All reversals come before the     *)
(* first payout.                                                           *)
ReadBets(s) ==
  \E order \in SetToSeqs(IF sess[s].phase = "record" THEN PendingOn(sess[s].game)
                                                     ELSE BetsOn(sess[s].game)) :
    LET after(b)   == Settled(b, sess[s].score)
        reversals  == [i \in DOMAIN order |->
                         [account |-> bet[order[i]].account, type |-> "ADJUSTMENT",
                          amount |-> -bet[order[i]].payout]]
        payouts    == [i \in DOMAIN order |->
                         [account |-> bet[order[i]].account, type |-> "WAGER_PAYOUT",
                          amount |-> after(order[i]).payout]]
    IN  /\ sess[s].phase \in {"record", "correct"}
        /\ sess' = [sess EXCEPT ![s].phase = "posting",
                                ![s].todo = Due(reversals \o payouts),
                                ![s].rows = [b \in ToSet(order) |-> after(b)]]
        /\ UNCHANGED <<vars, lock>>

(* Before a posting, the account row and then the capital row are read,    *)
(* unless this session has them already.                                   *)
Load(s) ==
  LET to   == sess[s].todo[1].account
      next == IF to \notin DOMAIN sess[s].seen THEN to ELSE Capital
  IN  /\ sess[s].phase = "posting" /\ sess[s].todo # <<>>
      /\ next \notin DOMAIN sess[s].seen
      /\ sess' = [sess EXCEPT ![s].seen = WithRow(@, next)]
      /\ UNCHANGED <<vars, lock>>

(* The flush of a posting updates both rows, one after the other: it waits *)
(* for the first of them that is not its own.                              *)
NextRow(s) ==
  SelectInSeq(Rows, LAMBDA r : r \in Touched(s) /\ s \notin lock[r])

Flushing(s) ==
  /\ sess[s].phase = "posting" /\ sess[s].todo # <<>>
  /\ Touched(s) \subseteq DOMAIN sess[s].seen

LockRow(s) ==
  /\ Flushing(s)
  /\ NextRow(s) # 0
  /\ lock[Rows[NextRow(s)]] = {}
  /\ lock' = [lock EXCEPT ![Rows[NextRow(s)]] = {s}]
  /\ UNCHANGED <<vars, sess>>

(* Faulty variants: the capital account is left out; the ledger commits    *)
(* its own posting; or it commits the session's bet rows along with it.    *)
PostOneLeg(s) ==
  /\ Flushing(s)
  /\ NextRow(s) = 0
  /\ LET p == sess[s].todo[1]
     IN  sess' = [sess EXCEPT ![s].seen[p.account] = @ + p.amount,
                              ![s].posted[p.account][p.type] = @ + p.amount,
                              ![s].todo = Due(Tail(@))]
  /\ UNCHANGED <<vars, lock>>

PostAndCommit(s) ==
  /\ Flushing(s)
  /\ NextRow(s) = 0
  /\ LET p == sess[s].todo[1]
     IN  /\ posted' = [posted EXCEPT ![p.account][p.type] = @ + p.amount]
         /\ sess' = [sess EXCEPT ![s].seen[p.account] = @ + p.amount,
                                 ![s].seen[Capital] = @ - p.amount,
                                 ![s].todo = Due(Tail(@))]
  /\ UNCHANGED <<account, balance, capital, bet, gameVars, lock>>

PostAndCommitRows(s) ==
  /\ Flushing(s)
  /\ NextRow(s) = 0
  /\ bet' = [b \in Bets |-> IF b \in DOMAIN sess[s].rows THEN sess[s].rows[b] ELSE bet[b]]
  /\ sess' = [sess EXCEPT ![s].todo = Due(Tail(@))]
  /\ UNCHANGED <<account, balance, posted, capital, gameVars, lock>>

(* _post_balanced_entry adds to the balances the session has read, and     *)
(* writes the sums: whatever was committed in between is overwritten.      *)
Post(s) ==
  LET p == sess[s].todo[1]
  IN  /\ Flushing(s)
      /\ NextRow(s) = 0
      /\ sess' = [sess EXCEPT ![s] =
                     [sess[s] EXCEPT !.seen[p.account] = @ + p.amount, !.seen[Capital] = @ - p.amount,
                                     !.posted[p.account][p.type] = @ + p.amount, !.todo = Due(Tail(@))]]
      /\ UNCHANGED <<vars, lock>>

(* Faulty variant: the end of a transaction leaves its locks behind. *)
ReleaseNothing(s) == UNCHANGED lock

Release(s) == lock' = [r \in DOMAIN lock |-> lock[r] \ {s}]

(* Faulty variant: the table has no unique constraint. *)
KeysUnconstrained(s) == TRUE

(* The unique constraint on account and key refuses the row of a bet whose *)
(* key was free when place_bet looked, and has been used since.            *)
KeysStillUnused(s) ==
  \A b \in DOMAIN sess[s].rows \ Placed :
    KeyUnused(sess[s].rows[b].account, sess[s].rows[b].key)

(* Of the two scores of a game, the ORM writes those that differ from what *)
(* the session read: both on the first result, one or both on a correction *)
(* (whose correction row holds the scores it read).                        *)
WrittenScore(s) ==
  LET me == sess[s]
  IN  [i \in {1, 2} |-> IF me.trail # <<>> /\ me.trail[1].original[i] = me.score[i]
                         THEN score[me.game][i] ELSE me.score[i]]

Commit(s) ==
  LET me      == sess[s]
      now(r)  == IF s \in lock[r] /\ r \in DOMAIN me.seen THEN me.seen[r] ELSE Committed(r)
  IN  /\ me.phase = "posting" /\ me.todo = <<>>
      /\ KeysStillUnused(s)
      /\ balance' = [a \in Accounts |-> now(a)]
      /\ capital' = now(Capital)
      /\ posted' = [a \in Accounts |-> [t \in PostingTypes |-> posted[a][t] + me.posted[a][t]]]
      /\ bet' = [b \in Bets |-> IF b \in DOMAIN me.rows THEN me.rows[b] ELSE bet[b]]
      /\ status' = [g \in Games |-> IF g = me.game THEN "FINAL" ELSE status[g]]
      /\ score' = [g \in Games |-> IF g = me.game THEN WrittenScore(s) ELSE score[g]]
      /\ audit' = [g \in Games |-> IF g = me.game THEN audit[g] \o me.trail ELSE audit[g]]
      /\ sess' = [sess EXCEPT ![s] = Idle]
      /\ Release(s)
      /\ UNCHANGED <<account, beforeCutoff>>

Rollback(s) ==
  /\ sess' = [sess EXCEPT ![s] = Idle]
  /\ Release(s)
  /\ UNCHANGED vars

(* The key was used meanwhile: IntegrityError, and the handler rolls back. *)
Reject(s) ==
  /\ sess[s].phase = "posting" /\ sess[s].todo = <<>>
  /\ ~ KeysStillUnused(s)
  /\ Rollback(s)

(* s waits for a row whose lock t holds. *)
WaitsFor(s, t) ==
  Flushing(s) /\ NextRow(s) # 0 /\ t # s /\ t \in lock[Rows[NextRow(s)]]

(* The database's deadlock detector makes one of two waiting sessions fail. *)
BreakDeadlock(s) ==
  /\ \E t \in Sessions : WaitsFor(s, t) /\ WaitsFor(t, s)
  /\ Rollback(s)

(* Any other error, a lost connection or the end of the process. *)
Fail(s) ==
  /\ sess[s].phase # "idle"
  /\ Rollback(s)

Ask(s) ==
  \/ \E a \in Accounts, t \in {"DEPOSIT", "WITHDRAWAL"}, amount \in Amounts :
       RequestManual(s, a, t, amount)
  \/ \E b \in Bets, a \in Accounts, q \in Quotes, stake \in Stakes, key \in Keys \cup {NoKey} :
       RequestBet(s, b, a, q, stake, key)
  \/ Refuse(s)

Proceed(s) == Ask(s) \/ ReadBets(s) \/ Load(s) \/ Post(s) \/ Commit(s) \/ Reject(s)

SessionsNext ==
  \E s \in Sessions :
    \/ \E a \in Accounts : Authenticate(s, a)
    \/ \E g \in Games, final \in Scores : BeginResult(s, g, final)
    \/ Proceed(s)
    \/ LockRow(s)
    \/ BreakDeadlock(s)
    \/ Fail(s)

SessionsSpec == SessionsInit /\ [][SessionsNext]_allVars

(* Threads run and the deadlock detector runs (weak fairness); the lock    *)
(* queue of a row is first come, first served, so a waiting session is not *)
(* passed over for ever (strong fairness).  Nothing makes a request start. *)
SessionsFairness ==
  \A s \in Sessions : WF_allVars(Proceed(s)) /\ SF_allVars(LockRow(s))
                        /\ WF_allVars(BreakDeadlock(s))

FairSessionsSpec == SessionsSpec /\ SessionsFairness

-----------------------------------------------------------------------------
(* Each commit is one request of Wagering, complete and on top of          *)
(* everything committed before.  It is so while sessions do not overlap,   *)
(* whatever fails in between.                                              *)
CommitsAreRequests == [][Next]_vars

(* Whatever overlaps, no stake is lost or charged twice: an account is     *)
(* charged the stakes of the bets it has.                                  *)
StakesAreCharged ==
  \A a \in Accounts :
    posted[a]["WAGER_STAKE"] = -SumOfBets(a, Placed, [b \in Placed |-> bet[b].stake])

(* Whatever overlaps, a settled bet's game is final.                       *)
SettledMeansFinal ==
  \A b \in Placed : bet[b].status # "PENDING" => status[bet[b].quote.game] = "FINAL"

(* Every request ends: no session waits for ever for a row, though flushes *)
(* of several postings may deadlock.                                       *)
RequestsEnd == \A s \in Sessions : sess[s].phase # "idle" ~> sess[s].phase = "idle"

(* The message of record_game_result: "A finalized game cannot be assigned *)
(* a different score"; a new score comes with a correction row.            *)
FinalScoreStands ==
  [][\A g \in Games : status[g] = "FINAL" /\ score'[g] # score[g] => audit'[g] # audit[g]]_vars
=============================================================================
