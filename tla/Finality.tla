------------------------------ MODULE Finality ------------------------------
(***************************************************************************)
(* What the application promises about the scores of games: a game is      *)
(* scheduled until it gets a final score, it gets that once, and from then *)
(* on the score changes only by a correction, which leaves a trace.        *)
(*                                                                         *)
(* Wagering implements this, with all it does to bets and balances.        *)
(***************************************************************************)
EXTENDS Sequences

CONSTANTS Games, Scores, NoScore

VARIABLES
  life,     \* life[g]: "SCHEDULED" or "FINAL"
  score,    \* score[g]: the score of a final game, else NoScore
  trail     \* trail[g]: the corrections of g, oldest first

gameVars == <<life, score, trail>>

Init ==
  /\ life = [g \in Games |-> "SCHEDULED"]
  /\ score = [g \in Games |-> NoScore]
  /\ trail = [g \in Games |-> <<>>]

Finalize(g, s) ==
  /\ life[g] = "SCHEDULED"
  /\ life' = [life EXCEPT ![g] = "FINAL"]
  /\ score' = [score EXCEPT ![g] = s]
  /\ UNCHANGED trail

Correct(g, s) ==
  /\ life[g] = "FINAL"
  /\ s # score[g]
  /\ score' = [score EXCEPT ![g] = s]
  /\ trail' = [trail EXCEPT ![g] = Append(@, [original |-> score[g], corrected |-> s])]
  /\ UNCHANGED life

Next == \E g \in Games, s \in Scores : Finalize(g, s) \/ Correct(g, s)

Spec == Init /\ [][Next]_gameVars
=============================================================================
