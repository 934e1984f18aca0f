------------------------------- MODULE Reviews -------------------------------
(***************************************************************************)
(* Human reviews of bets (src/edgebook/wagering/reviews.py): every bet has *)
(* one, reviewers claim and complete them, and a job claims pending ones   *)
(* in batches.  A review is claimed in one statement; the job and the      *)
(* completion read first and write later, and other requests commit in     *)
(* between.                                                                *)
(*                                                                         *)
(* A review's summary stands for all a reviewer writes; it is known by the *)
(* label of the reviewer who wrote it.                                     *)
(***************************************************************************)
EXTENDS Users

CONSTANTS
  Labels,          \* labels reviewers give themselves
  Limit,           \* size of the job's batch
  MaxBets          \* bound on the bets placed

ASSUME ReviewsAssumption ==
  /\ None \notin Labels
  /\ Limit \in Nat \ {0}
  /\ MaxBets \in Nat

VARIABLE reviews   \* reviews[b]: the review of bet b, in the order of placement

vars == <<users, accounts, req, reviews>>

Statuses == {"PENDING", "IN_REVIEW", "COMPLETED", "NOT_APPLICABLE"}

Review == [status : Statuses, label : Labels \cup {None}, summary : Labels \cup {None}]

Completion == [step : {"complete"}, bet : 1 .. MaxBets, read : Review, label : Labels]

Batch == [step : {"claim"}, bets : SUBSET (1 .. MaxBets)]

TypeOK ==
  /\ UsersTypeOK
  /\ req \in [Sessions -> Registrations \cup Completion \cup Batch \cup {None}]
  /\ reviews \in Seq(Review)
  /\ Len(reviews) <= MaxBets

Init == UsersInit /\ reviews = <<>>

Reviewers == {"OPERATOR", "ADMIN"}

(* place_bet, by any user: a bet without any rationale needs no review.    *)
PlaceBet(explained) ==
  /\ users # {}
  /\ Len(reviews) < MaxBets
  /\ reviews' = Append(reviews, [status |-> IF explained THEN "PENDING" ELSE "NOT_APPLICABLE",
                                 label |-> None, summary |-> None])
  /\ UNCHANGED <<userVars, req>>

(* claim_review: one UPDATE, of a review that is pending. *)
ClaimReview(b, label) ==
  /\ SomeoneIs(Reviewers)
  /\ reviews[b].status = "PENDING"
  /\ reviews' = [reviews EXCEPT ![b].status = "IN_REVIEW", ![b].label = label]
  /\ UNCHANGED <<userVars, req>>

(* claim_pending_reviews reads the oldest pending reviews ... *)
ListPending(s) ==
  LET pending == {b \in DOMAIN reviews : reviews[b].status = "PENDING"}
      batch == {b \in pending : \E n \in 0 .. Limit - 1 : n = Len(SelectSeq(
                 [i \in 1 .. b - 1 |-> i], LAMBDA i : i \in pending))}
  IN  /\ pending # {}
      /\ Begin(s, [step |-> "claim", bets |-> batch])
      /\ UNCHANGED <<userVars, reviews>>

(* ... and writes their status, whatever it has become. *)
ClaimBatch(s) ==
  /\ At(s, "claim")
  /\ reviews' = [b \in DOMAIN reviews |->
                   IF b \in req[s].bets THEN [reviews[b] EXCEPT !.status = "IN_REVIEW"] ELSE reviews[b]]
  /\ End(s)
  /\ UNCHANGED userVars

(* Faulty variants: a completed review can be completed again; anybody can *)
(* complete a claimed one.                                                 *)
CompletableAgain(r, label) == r.status # "NOT_APPLICABLE" /\ (r.label = None \/ r.label = label)

CompletableByAll(r, label) == r.status \notin {"COMPLETED", "NOT_APPLICABLE"}

(* What complete_review demands of the review it has read. *)
Completable(r, label) ==
  /\ r.status \notin {"COMPLETED", "NOT_APPLICABLE"}
  /\ r.label = None \/ r.label = label

ReadForCompletion(s, b, label) ==
  /\ SomeoneIs(Reviewers)
  /\ Completable(reviews[b], label)
  /\ Begin(s, [step |-> "complete", bet |-> b, read |-> reviews[b], label |-> label])
  /\ UNCHANGED <<userVars, reviews>>

(* The ORM writes the columns that differ from what the request has read.  *)
Complete(s) ==
  LET Column(f, new) == IF req[s].read[f] = new THEN reviews[req[s].bet][f] ELSE new
  IN  /\ At(s, "complete")
      /\ reviews' = [reviews EXCEPT ![req[s].bet] =
                       [status |-> "COMPLETED", label |-> Column("label", req[s].label),
                        summary |-> Column("summary", req[s].label)]]
      /\ End(s)
      /\ UNCHANGED userVars

Next ==
  \/ UsersNext /\ UNCHANGED reviews
  \/ \E explained \in BOOLEAN : PlaceBet(explained)
  \/ \E b \in DOMAIN reviews, label \in Labels : ClaimReview(b, label)
  \/ \E s \in Sessions :
       \/ ListPending(s) \/ ClaimBatch(s) \/ Complete(s)
       \/ \E b \in DOMAIN reviews, label \in Labels : ReadForCompletion(s, b, label)

Spec == Init /\ [][Next]_vars

-----------------------------------------------------------------------------
(* A request of session s has read review b in another state than it is    *)
(* in now: its write is of a past that is gone.                            *)
Late(s, b) ==
  \/ At(s, "claim") /\ b \in req[s].bets /\ reviews[b].status # "PENDING"
  \/ At(s, "complete") /\ req[s].bet = b /\ req[s].read # reviews[b]

(* "Review is already terminal": what a reviewer completed stays as it is, *)
(* and so does a bet without rationale.  The one exception the code leaves *)
(* is a request that had read the review before it was completed.          *)
TerminalReviewsStand ==
  [][\A b \in DOMAIN reviews :
       reviews[b].status \in {"COMPLETED", "NOT_APPLICABLE"} /\ reviews'[b] # reviews[b] =>
         reviews[b].status = "COMPLETED" /\ \E s \in Sessions : Late(s, b) /\ req'[s] = None]_vars

(* "Only the claiming reviewer can complete this review": a claim is lost  *)
(* only to a request that had read the review before it was claimed, and   *)
(* without such a race a review is signed by who claimed it.               *)
ClaimsAreKept ==
  [][\A b \in DOMAIN reviews :
       /\ reviews[b].label # None /\ reviews'[b].label # reviews[b].label =>
            \E s \in Sessions : Late(s, b) /\ req'[s] = None
       /\ reviews'[b].summary # reviews[b].summary /\ reviews'[b].summary # reviews'[b].label =>
            \E s \in Sessions : Late(s, b) /\ req'[s] = None]_vars

(* complete_review refuses to write once a "Review is already terminal"    *)
(* (reviews.py:198): no request changes one, whenever it has read it.      *)
TerminalReviewsAreKept ==
  [][\A b \in DOMAIN reviews :
       reviews[b].status \in {"COMPLETED", "NOT_APPLICABLE"} => reviews'[b] = reviews[b]]_vars

(* complete_review: "Only the claiming reviewer can complete this review"  *)
(* (reviews.py:202).  What is written on a claimed review is written by    *)
(* whom it is claimed by.                                                  *)
OnlyClaimantsComplete ==
  [][\A b \in DOMAIN reviews :
       reviews[b].label # None /\ reviews'[b].summary # reviews[b].summary =>
         reviews'[b].summary = reviews[b].label]_vars
=============================================================================
