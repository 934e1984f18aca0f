----------------------------- MODULE MCReports -----------------------------
(***************************************************************************)
(* An instance of Reports for TLC: two bets that differ in what a report   *)
(* groups by and in their odds, two days of two moments each, and stakes   *)
(* that are exactly at a boundary of the buckets.                          *)
(***************************************************************************)
EXTENDS Reports

MCTerms ==
  { [sport |-> "CFB", type |-> "TOTAL", category |-> "LINE_VALUE", odds |-> -200],
    [sport |-> "CFB", type |-> "SPREAD", category |-> "none", odds |-> 150] }

MCBucketLists == { <<25>>, <<34, 50>>, <<50, 25>>, <<0, 25>> }

(* Half a day behind UTC, UTC, and half a day ahead. *)
MCOffsets == {-1, 0, 1}
=============================================================================
