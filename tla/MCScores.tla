------------------------------ MODULE MCScores ------------------------------
(* Instances of Scores for TLC. *)
EXTENDS Scores

CONSTANTS g1, g2, s1, s2

Report(g, s, t) == [game |-> g, score |-> s, at |-> t]

(* Sources may disagree about g1, correct themselves, at the same time or   *)
(* at a later one, and repeat themselves; g2 is there for a run of the job  *)
(* to have a second game.                                                   *)
MCReports == {Report(g1, s1, 1), Report(g1, s2, 1), Report(g1, s2, 2), Report(g2, s1, 1)}
=============================================================================
