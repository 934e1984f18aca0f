---------------------------- MODULE MCBackfill -----------------------------
(***************************************************************************)
(* An instance of Backfill for TLC: an event that is moved from one day's  *)
(* snapshot to the next, where two more events of the same teams are at    *)
(* its new time; events are quoted, while the same game may be entered by  *)
(* hand.  The second event does not find the game just moved, the third    *)
(* may be given either.                                                    *)
(***************************************************************************)
EXTENDS Backfill

CONSTANTS e1, e2, e3

Moneyline == [type |-> "MONEYLINE", line |-> None]

MCLines == {Moneyline}

Offer(event, selection, day) ==
  [event |-> event, source |-> "x", terms |-> Moneyline, selection |-> selection,
   odds |-> 100, observed |-> day]

Listed(event, at) == [event |-> event, home |-> "A", away |-> "B", at |-> at]

MCSnapshots ==
  << [games |-> <<Listed(e1, 1)>>, quotes |-> <<Offer(e1, "HOME", 1), Offer(e1, "AWAY", 1)>>],
     [games |-> <<Listed(e1, 2), Listed(e2, 2), Listed(e3, 2)>>, quotes |-> <<Offer(e2, "AWAY", 2)>>] >>
=============================================================================
