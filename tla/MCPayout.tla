------------------------------ MODULE MCPayout ------------------------------
(***************************************************************************)
(* An instance of Settlement for TLC: lines with and without a half point  *)
(* on both sides of 0, odds on both sides of 100.                          *)
(***************************************************************************)
EXTENDS Settlement

MCLines == {-1500, -1000, 0, 1000, 2500}

MCOdds == {-250, -110, -101, -100, 100, 101, 150}
=============================================================================
