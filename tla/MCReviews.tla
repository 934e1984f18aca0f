------------------------------ MODULE MCReviews ------------------------------
(***************************************************************************)
(* An instance of Reviews for TLC: two names to register, two requests at  *)
(* a time, two reviewers.                                                  *)
(***************************************************************************)
EXTENDS Reviews, TLC

Interchangeable == Permutations(Names) \cup Permutations(Sessions) \cup Permutations(Labels)
=============================================================================
