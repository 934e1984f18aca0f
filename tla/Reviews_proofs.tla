--------------------------- MODULE Reviews_proofs ---------------------------
(***************************************************************************)
(* What holds of users and reviews for any number of names, sessions,      *)
(* labels and bets, however requests overlap and fail.                     *)
(***************************************************************************)
EXTENDS Reviews, TLAPS

(* A registration that has its account holds one of its own, in its name,  *)
(* that no user and no other registration has.                             *)
AccountsAreHeld ==
  \A s \in Sessions : At(s, "user") =>
    /\ accounts[req[s].account] = req[s].name
    /\ \A u \in users : u.account # req[s].account
    /\ \A t \in Sessions \ {s} : At(t, "user") => req[t].account # req[s].account

Inv == TypeOK /\ UsersAreDistinct /\ AccountsAreHeld

Requests == Registrations \cup Completion \cup Batch \cup {None}

(* Whatever a session in a step holds is of that step's kind.              *)
LEMMA KindOfRequest ==
  ASSUME NEW s \in Sessions, TypeOK
  PROVE  /\ At(s, "account") => req[s] \in [step : {"account"}, name : Names, role : GivenRoles]
         /\ At(s, "user") => req[s] \in [step : {"user"}, name : Names, role : GivenRoles,
                                         account : DOMAIN accounts]
         /\ At(s, "complete") => req[s] \in Completion
         /\ At(s, "claim") => req[s] \in Batch
BY DEF TypeOK, At, Registrations, Completion, Batch

LEMMA Starts == Init => Inv
BY UsersAssumption, ReviewsAssumption DEF Init, UsersInit, Inv, TypeOK, UsersTypeOK, UsersAreDistinct, AccountsAreHeld,
   At, Registrations

(* Steps that leave the users alone, and hold no new account.              *)
LEMMA UsersUndisturbed ==
  ASSUME UsersAreDistinct, AccountsAreHeld, UNCHANGED userVars,
         \A s \in Sessions : At(s, "user")' => At(s, "user") /\ req'[s] = req[s]
  PROVE  UsersAreDistinct' /\ AccountsAreHeld'
BY DEF UsersAreDistinct, AccountsAreHeld, userVars, At

(* A step that changes one session's request to r, of a known kind.        *)
LEMMA OneRequest ==
  ASSUME TypeOK, NEW s \in Sessions, NEW r, req' = [req EXCEPT ![s] = r]
  PROVE  /\ req'[s] = r
         /\ \A t \in Sessions \ {s} : req'[t] = req[t]
         /\ DOMAIN req' = Sessions
BY DEF TypeOK

(* The tables of users keep their types while accounts only grow.          *)
LEMMA AccountsGrow ==
  ASSUME TypeOK, NEW n \in Names, accounts' = Append(accounts, n), Len(accounts) < MaxAccounts
  PROVE  /\ accounts' \in Seq(Names) /\ Len(accounts') <= MaxAccounts
         /\ Len(accounts) + 1 \in DOMAIN accounts'
         /\ DOMAIN accounts \subseteq DOMAIN accounts'
         /\ \A i \in DOMAIN accounts : accounts'[i] = accounts[i]
         /\ accounts'[Len(accounts) + 1] = n
         /\ Len(accounts) + 1 \notin DOMAIN accounts
BY UsersAssumption DEF TypeOK, UsersTypeOK

LEMMA CheckNameKeeps ==
  ASSUME Inv, NEW s \in Sessions, NEW name \in Names, NEW role \in GivenRoles,
         CheckName(s, name, role), UNCHANGED reviews
  PROVE  Inv'
<1> DEFINE r == [step |-> "account", name |-> name, role |-> role]
<1>1. r \in Registrations
  BY DEF Registrations
<1>2. req' = [req EXCEPT ![s] = r] /\ req' \in [Sessions -> Requests]
  BY <1>1 DEF CheckName, Begin, Inv, TypeOK, Requests
<1>3. TypeOK'
  BY <1>2 DEF CheckName, Inv, TypeOK, UsersTypeOK, userVars, Requests, Registrations
<1>4. UsersAreDistinct' /\ AccountsAreHeld'
  <2>1. \A t \in Sessions : At(t, "user")' => At(t, "user") /\ req'[t] = req[t]
    BY <1>2 DEF At, Inv, TypeOK
  <2> QED
    BY <2>1, UsersUndisturbed DEF Inv, CheckName
<1> QED
  BY <1>3, <1>4 DEF Inv

LEMMA CommitAccountKeeps ==
  ASSUME Inv, NEW s \in Sessions, CommitAccount(s), UNCHANGED reviews
  PROVE  Inv'
<1> DEFINE n == req[s].name
           new == Len(accounts) + 1
           r == [step |-> "user", name |-> n, role |-> req[s].role, account |-> new]
<1>1. req[s] \in [step : {"account"}, name : Names, role : GivenRoles]
  BY KindOfRequest DEF CommitAccount, Inv
<1>2. n \in Names /\ accounts' = Append(accounts, n) /\ users' = users /\ reviews' = reviews
      /\ req' = [req EXCEPT ![s] = r] /\ Len(accounts) < MaxAccounts
  BY <1>1 DEF CommitAccount
<1> HIDE DEF n
<1>3. /\ accounts' \in Seq(Names) /\ Len(accounts') <= MaxAccounts
      /\ new \in DOMAIN accounts'
      /\ DOMAIN accounts \subseteq DOMAIN accounts'
      /\ \A i \in DOMAIN accounts : accounts'[i] = accounts[i]
      /\ accounts'[new] = n
      /\ new \notin DOMAIN accounts
  BY <1>2, AccountsGrow DEF Inv
<1> HIDE DEF new
<1>4. r \in Registrations'
  BY <1>1, <1>2, <1>3 DEF Registrations
<1>5. req'[s] = r /\ \A t \in Sessions \ {s} : req'[t] = req[t]
  BY <1>2 DEF Inv, TypeOK
<1>6. TypeOK'
  <2>1. Registrations \subseteq Registrations'
    BY <1>3 DEF Registrations
  <2>2. req' \in [Sessions -> Registrations' \cup Completion \cup Batch \cup {None}]
    BY <1>2, <1>4, <2>1 DEF Inv, TypeOK
  <2>3. UsersTypeOK'
    BY <1>2, <1>3 DEF Inv, TypeOK, UsersTypeOK
  <2> QED
    BY <1>2, <2>2, <2>3 DEF Inv, TypeOK
<1>7. UsersAreDistinct'
  BY <1>2, <1>3 DEF Inv, TypeOK, UsersTypeOK, UsersAreDistinct
<1>8. AccountsAreHeld'
  <2> SUFFICES ASSUME NEW t \in Sessions, At(t, "user")'
               PROVE  /\ accounts'[req'[t].account] = req'[t].name
                      /\ \A u \in users' : u.account # req'[t].account
                      /\ \A v \in Sessions \ {t} : At(v, "user")' => req'[v].account # req'[t].account
    BY DEF AccountsAreHeld
  <2>1. \A u \in users : u.account \in DOMAIN accounts
    BY DEF Inv, TypeOK, UsersTypeOK
  <2>2. \A v \in Sessions \ {s} : At(v, "user")' =>
          At(v, "user") /\ req'[v] = req[v] /\ req[v].account \in DOMAIN accounts
    BY <1>5, KindOfRequest DEF At, Inv
  <2>3. CASE t = s
    BY <2>1, <2>2, <2>3, <1>2, <1>3, <1>5 DEF At
  <2>4. CASE t # s
    <3>1. accounts'[req'[t].account] = req'[t].name
      BY <2>2, <2>4, <1>3 DEF Inv, AccountsAreHeld
    <3>2. \A u \in users' : u.account # req'[t].account
      BY <2>2, <2>4, <1>2 DEF Inv, AccountsAreHeld
    <3>3. \A v \in Sessions \ {t} : At(v, "user")' => req'[v].account # req'[t].account
      BY <2>2, <2>4, <1>3, <1>5 DEF Inv, AccountsAreHeld
    <3> QED
      BY <3>1, <3>2, <3>3
  <2> QED
    BY <2>3, <2>4
<1> QED
  BY <1>6, <1>7, <1>8 DEF Inv

LEMMA AddUserKeeps ==
  ASSUME Inv, NEW s \in Sessions, AddUser(s), UNCHANGED reviews
  PROVE  Inv'
<1> DEFINE new == [name |-> req[s].name, role |-> req[s].role, account |-> req[s].account]
<1>1. req[s] \in [step : {"user"}, name : Names, role : GivenRoles, account : DOMAIN accounts]
  BY KindOfRequest DEF AddUser, Inv
<1>2. new \in [name : Names, role : GivenRoles, account : DOMAIN accounts]
  BY <1>1
<1>3. /\ accounts' = accounts /\ reviews' = reviews
      /\ req' = [req EXCEPT ![s] = None]
      /\ users' = IF NameFree(req[s].name) THEN users \cup {new} ELSE users
  BY DEF AddUser, End
<1>4. req'[s] = None /\ \A t \in Sessions \ {s} : req'[t] = req[t]
  BY <1>3 DEF Inv, TypeOK
<1>5. TypeOK'
  <2>1. UsersTypeOK'
    BY <1>2, <1>3 DEF Inv, TypeOK, UsersTypeOK
  <2>2. req' \in [Sessions -> Requests']
    BY <1>3 DEF Inv, TypeOK, Requests, Registrations
  <2> QED
    BY <1>3, <2>1, <2>2 DEF Inv, TypeOK, Requests
<1>6. UsersAreDistinct'
  <2>1. /\ accounts[new.account] = new.name
        /\ \A u \in users : u.account # new.account
    BY DEF Inv, AccountsAreHeld, AddUser
  <2>2. CASE NameFree(req[s].name)
    BY <1>3, <2>1, <2>2 DEF Inv, UsersAreDistinct, NameFree
  <2>3. CASE ~ NameFree(req[s].name)
    BY <1>3, <2>3 DEF Inv, UsersAreDistinct
  <2> QED
    BY <2>2, <2>3
<1>7. AccountsAreHeld'
  <2>1. \A t \in Sessions : At(t, "user")' => t # s /\ At(t, "user") /\ req'[t] = req[t]
    BY <1>4 DEF At
  <2>2. \A u \in users' : u \in users \/ u.account = req[s].account
    BY <1>3
  <2>3. At(s, "user")
    BY DEF AddUser
  <2> QED
    BY <1>3, <2>1, <2>2, <2>3 DEF Inv, AccountsAreHeld
<1> QED
  BY <1>5, <1>6, <1>7 DEF Inv

LEMMA SetRoleKeeps ==
  ASSUME Inv, NEW user \in users, NEW role \in GivenRoles, SetRole(user, role), UNCHANGED reviews
  PROVE  Inv'
<1> DEFINE new == [user EXCEPT !.role = role]
<1>1. user \in [name : Names, role : GivenRoles, account : DOMAIN accounts]
  BY DEF Inv, TypeOK, UsersTypeOK
<1>2. /\ new \in [name : Names, role : GivenRoles, account : DOMAIN accounts]
      /\ new.name = user.name /\ new.account = user.account
  BY <1>1
<1>3. users' = (users \ {user}) \cup {new} /\ accounts' = accounts /\ req' = req /\ reviews' = reviews
  BY DEF SetRole
<1> HIDE DEF new
<1>4. TypeOK'
  BY <1>2, <1>3 DEF Inv, TypeOK, UsersTypeOK, Registrations
<1>5. UsersAreDistinct'
  BY <1>2, <1>3 DEF Inv, UsersAreDistinct
<1>6. AccountsAreHeld'
  BY <1>2, <1>3 DEF Inv, AccountsAreHeld, At
<1> QED
  BY <1>4, <1>5, <1>6 DEF Inv

(* Steps of reviews that leave the users alone.                            *)
LEMMA ReviewStep ==
  ASSUME Inv, UNCHANGED userVars, reviews' \in Seq(Review), Len(reviews') <= MaxBets,
         req' \in [Sessions -> Requests],
         \A s \in Sessions : At(s, "user")' => At(s, "user") /\ req'[s] = req[s]
  PROVE  Inv'
<1>1. TypeOK'
  BY DEF Inv, TypeOK, UsersTypeOK, userVars, Requests, Registrations
<1> QED
  BY <1>1, UsersUndisturbed DEF Inv

LEMMA EndsKeep ==
  ASSUME Inv, NEW s \in Sessions, End(s)
  PROVE  /\ req' \in [Sessions -> Requests]
         /\ \A t \in Sessions : At(t, "user")' => At(t, "user") /\ req'[t] = req[t]
BY DEF End, Inv, TypeOK, Requests, At

LEMMA BeginsKeep ==
  ASSUME Inv, NEW s \in Sessions, NEW r \in Completion \cup Batch, Begin(s, r)
  PROVE  /\ req' \in [Sessions -> Requests]
         /\ \A t \in Sessions : At(t, "user")' => At(t, "user") /\ req'[t] = req[t]
BY DEF Begin, Inv, TypeOK, Requests, At, Completion, Batch

(* What is in progress concerns reviews that exist and are needed.         *)
WorkIsSound ==
  /\ \A b \in DOMAIN reviews : reviews[b].status = "PENDING" => reviews[b].label = None
  /\ \A s \in Sessions : At(s, "claim") =>
       \A b \in req[s].bets : b \in DOMAIN reviews /\ reviews[b].status # "NOT_APPLICABLE"
  /\ \A s \in Sessions : At(s, "complete") =>
       /\ req[s].bet \in DOMAIN reviews /\ reviews[req[s].bet].status # "NOT_APPLICABLE"
       /\ Completable(req[s].read, req[s].label)

LEMMA PlaceBetKeeps ==
  ASSUME Inv, WorkIsSound, NEW explained \in BOOLEAN, PlaceBet(explained)
  PROVE  Inv' /\ WorkIsSound'
<1> DEFINE r == [status |-> IF explained THEN "PENDING" ELSE "NOT_APPLICABLE",
                 label |-> None, summary |-> None]
<1>1. r \in Review /\ r.label = None
  BY DEF Review, Statuses
<1>2. reviews' = Append(reviews, r) /\ Len(reviews) < MaxBets /\ UNCHANGED <<userVars, req>>
  BY DEF PlaceBet
<1> HIDE DEF r
<1>3. /\ reviews' \in Seq(Review) /\ Len(reviews') <= MaxBets
      /\ DOMAIN reviews' = DOMAIN reviews \cup {Len(reviews) + 1}
      /\ \A b \in DOMAIN reviews : reviews'[b] = reviews[b]
      /\ reviews'[Len(reviews) + 1] = r
  BY <1>1, <1>2, ReviewsAssumption DEF Inv, TypeOK
<1>4. Inv'
  BY <1>2, <1>3, ReviewStep DEF Inv, TypeOK, Requests, At
<1>5. WorkIsSound'
  BY <1>1, <1>2, <1>3 DEF WorkIsSound, At
<1> QED
  BY <1>4, <1>5

LEMMA ClaimReviewKeeps ==
  ASSUME Inv, WorkIsSound, NEW b \in DOMAIN reviews, NEW label \in Labels, ClaimReview(b, label)
  PROVE  Inv' /\ WorkIsSound'
<1> DEFINE r == [reviews[b] EXCEPT !.status = "IN_REVIEW", !.label = label]
<1>1. reviews[b] \in Review
  BY DEF Inv, TypeOK
<1>2. r \in Review /\ r.status = "IN_REVIEW"
  BY <1>1 DEF Review, Statuses
<1>3. reviews' = [reviews EXCEPT ![b] = r] /\ UNCHANGED <<userVars, req>>
  BY <1>1 DEF ClaimReview, Review
<1> HIDE DEF r
<1>4. /\ reviews' \in Seq(Review) /\ Len(reviews') <= MaxBets /\ DOMAIN reviews' = DOMAIN reviews
      /\ \A c \in DOMAIN reviews : reviews'[c] = IF c = b THEN r ELSE reviews[c]
  BY <1>2, <1>3 DEF Inv, TypeOK
<1>5. Inv'
  BY <1>3, <1>4, ReviewStep DEF Inv, TypeOK, Requests, At
<1>6. WorkIsSound'
  BY <1>2, <1>3, <1>4 DEF WorkIsSound, At
<1> QED
  BY <1>5, <1>6

LEMMA ListPendingKeeps ==
  ASSUME Inv, WorkIsSound, NEW s \in Sessions, ListPending(s)
  PROVE  Inv' /\ WorkIsSound'
<1>1. PICK batch \in SUBSET {b \in DOMAIN reviews : reviews[b].status = "PENDING"} :
        Begin(s, [step |-> "claim", bets |-> batch])
  BY DEF ListPending
<1> DEFINE r == [step |-> "claim", bets |-> batch]
<1>2. DOMAIN reviews \subseteq 1 .. MaxBets
  BY ReviewsAssumption DEF Inv, TypeOK
<1>3. r \in Batch
  BY <1>2 DEF Batch
<1>4. UNCHANGED <<userVars, reviews>>
  BY DEF ListPending
<1>5. Inv'
  BY <1>1, <1>3, <1>4, BeginsKeep, ReviewStep DEF Inv, TypeOK
<1>6. req'[s] = r /\ \A t \in Sessions \ {s} : req'[t] = req[t]
  BY <1>1 DEF Begin, Inv, TypeOK
<1>7. WorkIsSound'
  BY <1>1, <1>4, <1>6 DEF WorkIsSound, At
<1> QED
  BY <1>5, <1>7

LEMMA ClaimBatchKeeps ==
  ASSUME Inv, WorkIsSound, NEW s \in Sessions, ClaimBatch(s)
  PROVE  Inv' /\ WorkIsSound'
<1>1. /\ reviews' = [b \in DOMAIN reviews |->
                      IF b \in req[s].bets THEN [reviews[b] EXCEPT !.status = "IN_REVIEW"] ELSE reviews[b]]
      /\ End(s) /\ UNCHANGED userVars
  BY DEF ClaimBatch
<1>2. \A b \in DOMAIN reviews :
        /\ reviews[b] \in Review
        /\ [reviews[b] EXCEPT !.status = "IN_REVIEW"] \in Review
        /\ [reviews[b] EXCEPT !.status = "IN_REVIEW"].status = "IN_REVIEW"
  <2> TAKE b \in DOMAIN reviews
  <2>1. reviews[b] \in Review
    BY DEF Inv, TypeOK
  <2>2. "IN_REVIEW" \in Statuses
    BY DEF Statuses
  <2> QED
    BY <2>1, <2>2 DEF Review
<1>3. /\ DOMAIN reviews' = DOMAIN reviews
      /\ \A b \in DOMAIN reviews :
           reviews'[b] \in Review /\ (reviews'[b] = reviews[b] \/ reviews'[b].status = "IN_REVIEW")
  BY <1>1, <1>2
<1>4. reviews' \in Seq(Review) /\ Len(reviews') <= MaxBets
  <2>1. DOMAIN reviews = 1 .. Len(reviews) /\ Len(reviews) \in Nat /\ Len(reviews) <= MaxBets
    BY DEF Inv, TypeOK
  <2> DEFINE new(b) == IF b \in req[s].bets THEN [reviews[b] EXCEPT !.status = "IN_REVIEW"]
                       ELSE reviews[b]
  <2>2. reviews' = [b \in 1 .. Len(reviews) |-> new(b)]
    BY <1>1, <2>1
  <2>3. \A b \in 1 .. Len(reviews) : new(b) \in Review
    BY <1>2, <2>1
  <2> HIDE DEF new
  <2>4. reviews' \in Seq(Review) /\ Len(reviews') = Len(reviews)
    BY <2>1, <2>2, <2>3
  <2> QED
    BY <2>1, <2>4
<1>5. Inv'
  BY <1>1, <1>4, EndsKeep, ReviewStep
<1>6. req'[s] = None /\ \A t \in Sessions \ {s} : req'[t] = req[t]
  BY <1>1 DEF End, Inv, TypeOK
<1>7. WorkIsSound'
  BY <1>3, <1>6 DEF WorkIsSound, At
<1> QED
  BY <1>5, <1>7

LEMMA ReadForCompletionKeeps ==
  ASSUME Inv, WorkIsSound, NEW s \in Sessions, NEW b \in DOMAIN reviews, NEW label \in Labels,
         ReadForCompletion(s, b, label)
  PROVE  Inv' /\ WorkIsSound'
<1> DEFINE r == [step |-> "complete", bet |-> b, read |-> reviews[b], label |-> label]
<1>1. r \in Completion
  BY ReviewsAssumption DEF Inv, TypeOK, Completion
<1>2. Begin(s, r) /\ UNCHANGED <<userVars, reviews>> /\ Completable(reviews[b], label)
  BY DEF ReadForCompletion
<1>3. Inv'
  BY <1>1, <1>2, BeginsKeep, ReviewStep DEF Inv, TypeOK
<1>4. req'[s] = r /\ \A t \in Sessions \ {s} : req'[t] = req[t]
  BY <1>2 DEF Begin, Inv, TypeOK
<1>5. reviews[b].status # "NOT_APPLICABLE"
  BY <1>2 DEF Completable
<1>6. WorkIsSound'
  BY <1>2, <1>4, <1>5 DEF WorkIsSound, At
<1> QED
  BY <1>3, <1>6

(* What a completion writes: its label and its summary where they differ   *)
(* from what it has read.                                                  *)
Written(s) ==
  [status |-> "COMPLETED",
   label |-> IF req[s].read.label = req[s].label THEN reviews[req[s].bet].label ELSE req[s].label,
   summary |-> IF req[s].read.summary = req[s].label THEN reviews[req[s].bet].summary
               ELSE req[s].label]

LEMMA CompleteWrites ==
  ASSUME Inv, WorkIsSound, NEW s \in Sessions, Complete(s)
  PROVE  /\ Written(s) \in Review
         /\ reviews' \in Seq(Review) /\ Len(reviews') <= MaxBets /\ DOMAIN reviews' = DOMAIN reviews
         /\ \A c \in DOMAIN reviews : reviews'[c] = IF c = req[s].bet THEN Written(s) ELSE reviews[c]
         /\ End(s) /\ UNCHANGED userVars /\ At(s, "complete")
<1>1. At(s, "complete") /\ req[s] \in Completion
  BY KindOfRequest DEF Complete, Inv
<1>2. req[s].bet \in DOMAIN reviews /\ reviews[req[s].bet] \in Review /\ req[s].label \in Labels
  BY <1>1 DEF WorkIsSound, Completion, Inv, TypeOK
<1>3. Written(s) \in Review
  BY <1>2 DEF Written, Review, Statuses
<1>4. reviews' = [reviews EXCEPT ![req[s].bet] = Written(s)]
  BY DEF Complete, Written
<1>5. End(s) /\ UNCHANGED userVars
  BY DEF Complete
<1> QED
  BY <1>1, <1>2, <1>3, <1>4, <1>5 DEF Inv, TypeOK

LEMMA CompleteKeeps ==
  ASSUME Inv, WorkIsSound, NEW s \in Sessions, Complete(s)
  PROVE  Inv' /\ WorkIsSound'
<1>1. Inv'
  BY CompleteWrites, EndsKeep, ReviewStep
<1>2. req'[s] = None /\ \A t \in Sessions \ {s} : req'[t] = req[t]
  BY DEF Complete, End, Inv, TypeOK
<1>3. Written(s).status = "COMPLETED"
  BY DEF Written
<1>4. WorkIsSound'
  BY <1>2, <1>3, CompleteWrites DEF WorkIsSound, At
<1> QED
  BY <1>1, <1>4

LEMMA FailKeeps ==
  ASSUME Inv, WorkIsSound, NEW s \in Sessions, Fail(s), UNCHANGED reviews
  PROVE  Inv' /\ WorkIsSound'
<1>1. End(s) /\ UNCHANGED userVars
  BY DEF Fail
<1>2. Inv'
  BY <1>1, EndsKeep, ReviewStep DEF Inv, TypeOK
<1>3. req'[s] = None /\ \A t \in Sessions \ {s} : req'[t] = req[t]
  BY <1>1 DEF End, Inv, TypeOK
<1>4. WorkIsSound'
  BY <1>3 DEF WorkIsSound, At
<1> QED
  BY <1>2, <1>4

(* The steps of registration do not touch what is in progress on reviews.  *)
LEMMA RegistrationsApart ==
  ASSUME Inv, WorkIsSound, UNCHANGED reviews, NEW s \in Sessions, NEW r, req' = [req EXCEPT ![s] = r],
         r = None \/ r.step \in {"account", "user"}
  PROVE  WorkIsSound'
<1>1. req'[s] = r /\ \A t \in Sessions \ {s} : req'[t] = req[t]
  BY OneRequest DEF Inv
<1> QED
  BY <1>1 DEF WorkIsSound, At

LEMMA NextKeeps == Inv /\ WorkIsSound /\ [Next]_vars => Inv' /\ WorkIsSound'
<1> SUFFICES ASSUME Inv, WorkIsSound, [Next]_vars PROVE Inv' /\ WorkIsSound'
  OBVIOUS
<1>1. ASSUME NEW s \in Sessions, NEW name \in Names, NEW role \in GivenRoles,
             CheckName(s, name, role), UNCHANGED reviews
      PROVE  Inv' /\ WorkIsSound'
  BY <1>1, CheckNameKeeps, RegistrationsApart DEF CheckName, Begin
<1>2. ASSUME NEW s \in Sessions, CommitAccount(s), UNCHANGED reviews PROVE Inv' /\ WorkIsSound'
  BY <1>2, CommitAccountKeeps, RegistrationsApart DEF CommitAccount
<1>3. ASSUME NEW s \in Sessions, AddUser(s), UNCHANGED reviews PROVE Inv' /\ WorkIsSound'
  BY <1>3, AddUserKeeps, RegistrationsApart DEF AddUser, End
<1>4. ASSUME NEW user \in users, NEW role \in GivenRoles, SetRole(user, role), UNCHANGED reviews
      PROVE  Inv' /\ WorkIsSound'
  BY <1>4, SetRoleKeeps DEF SetRole, WorkIsSound, At
<1>5. CASE UNCHANGED vars
  <2>1. UNCHANGED <<users, accounts, req, reviews>>
    BY <1>5 DEF vars
  <2> QED
    BY <2>1 DEF Inv, TypeOK, UsersTypeOK, Registrations, UsersAreDistinct, AccountsAreHeld, At, WorkIsSound
<1>6. CASE UsersNext /\ UNCHANGED reviews
  BY <1>1, <1>2, <1>3, <1>4, <1>6, FailKeeps DEF UsersNext
<1> QED
  BY <1>5, <1>6, PlaceBetKeeps, ClaimReviewKeeps, ListPendingKeeps, ClaimBatchKeeps,
     ReadForCompletionKeeps, CompleteKeeps DEF Next

LEMMA Invariants == Spec => [](Inv /\ WorkIsSound)
<1>1. Init => Inv /\ WorkIsSound
  BY Starts DEF Init, UsersInit, WorkIsSound, At
<1> QED
  BY <1>1, NextKeeps, PTL DEF Spec

(* Every reachable state of users, requests and reviews is well typed:     *)
(* users refer to accounts that exist, requests in progress too.           *)
THEOREM TypeCorrect == Spec => []TypeOK
<1>1. Inv => TypeOK
  BY DEF Inv
<1> QED
  BY <1>1, Invariants, PTL

(* create_user: however many registrations overlap, no two users share a   *)
(* name or an account, and each has the account opened for it.             *)
THEOREM UsersHaveTheirOwn == Spec => []UsersAreDistinct
<1>1. Inv => UsersAreDistinct
  BY DEF Inv
<1> QED
  BY <1>1, Invariants, PTL

-----------------------------------------------------------------------------
TerminalStands(b) ==
  reviews[b].status \in {"COMPLETED", "NOT_APPLICABLE"} /\ reviews'[b] # reviews[b] =>
    reviews[b].status = "COMPLETED" /\ \E s \in Sessions : Late(s, b) /\ req'[s] = None

ClaimKept(b) ==
  /\ reviews[b].label # None /\ reviews'[b].label # reviews[b].label =>
       \E s \in Sessions : Late(s, b) /\ req'[s] = None
  /\ reviews'[b].summary # reviews[b].summary /\ reviews'[b].summary # reviews'[b].label =>
       \E s \in Sessions : Late(s, b) /\ req'[s] = None

LEMMA ReviewsKept ==
  ASSUME Inv, WorkIsSound, [Next]_vars, NEW b \in DOMAIN reviews
  PROVE  TerminalStands(b) /\ ClaimKept(b)
<1>1. ASSUME reviews'[b] = reviews[b] PROVE TerminalStands(b) /\ ClaimKept(b)
  BY <1>1 DEF TerminalStands, ClaimKept
<1>2. ASSUME NEW c \in DOMAIN reviews, NEW label \in Labels, ClaimReview(c, label)
      PROVE  TerminalStands(b) /\ ClaimKept(b)
  <2>1. CASE b # c
    <3>1. reviews'[b] = reviews[b]
      BY <1>2, <2>1 DEF ClaimReview, Inv, TypeOK
    <3> QED
      BY <3>1, <1>1
  <2>2. CASE b = c
    <3>1. reviews[b] \in Review
      BY DEF Inv, TypeOK
    <3>2. /\ reviews[b].status = "PENDING"
          /\ reviews'[b] = [reviews[b] EXCEPT !.status = "IN_REVIEW", !.label = label]
      BY <1>2, <2>2 DEF ClaimReview, Inv, TypeOK
    <3>3. reviews[b].label = None
      BY <3>2 DEF WorkIsSound
    <3>4. reviews'[b].summary = reviews[b].summary
      BY <3>1, <3>2 DEF Review
    <3> QED
      BY <3>2, <3>3, <3>4 DEF TerminalStands, ClaimKept
  <2> QED
    BY <2>1, <2>2
<1>3. ASSUME NEW s \in Sessions, ClaimBatch(s) PROVE TerminalStands(b) /\ ClaimKept(b)
  <2>1. req'[s] = None /\ At(s, "claim")
    BY <1>3 DEF ClaimBatch, End, Inv, TypeOK
  <2>2. CASE b \notin req[s].bets
    <3>1. reviews'[b] = reviews[b]
      BY <1>3, <2>2 DEF ClaimBatch
    <3> QED
      BY <3>1, <1>1
  <2>3. CASE b \in req[s].bets
    <3>1. reviews[b] \in Review /\ reviews'[b] = [reviews[b] EXCEPT !.status = "IN_REVIEW"]
      BY <1>3, <2>3 DEF ClaimBatch, Inv, TypeOK
    <3>2. reviews'[b].label = reviews[b].label /\ reviews'[b].summary = reviews[b].summary
      BY <3>1 DEF Review
    <3>3. reviews[b].status # "NOT_APPLICABLE"
      BY <2>1, <2>3 DEF WorkIsSound
    <3>4. reviews[b].status = "COMPLETED" => Late(s, b)
      BY <2>1, <2>3 DEF Late
    <3> QED
      BY <2>1, <3>2, <3>3, <3>4 DEF TerminalStands, ClaimKept
  <2> QED
    BY <2>2, <2>3
<1>4. ASSUME NEW s \in Sessions, Complete(s) PROVE TerminalStands(b) /\ ClaimKept(b)
  <2>1. req'[s] = None
    BY <1>4 DEF Complete, End, Inv, TypeOK
  <2>2. /\ At(s, "complete")
        /\ reviews'[b] = IF b = req[s].bet THEN Written(s) ELSE reviews[b]
    BY <1>4, CompleteWrites
  <2>3. CASE b # req[s].bet
    BY <2>2, <2>3, <1>1
  <2>4. CASE b = req[s].bet
    <3>1. reviews[b].status # "NOT_APPLICABLE" /\ Completable(req[s].read, req[s].label)
      BY <2>2, <2>4 DEF WorkIsSound
    <3>2. CASE req[s].read # reviews[b]
      <4>1. Late(s, b)
        BY <2>2, <2>4, <3>2 DEF Late
      <4> QED
        BY <2>1, <3>1, <4>1 DEF TerminalStands, ClaimKept
    <3>3. CASE req[s].read = reviews[b]
      <4>1. reviews[b].status # "COMPLETED" /\ (reviews[b].label = None \/ reviews[b].label = req[s].label)
        BY <3>1, <3>3 DEF Completable
      <4>2. reviews'[b].label = req[s].label /\ reviews'[b].summary = req[s].label
        BY <2>2, <2>4, <3>3 DEF Written
      <4> QED
        BY <3>1, <4>1, <4>2 DEF TerminalStands, ClaimKept
    <3> QED
      BY <3>2, <3>3
  <2> QED
    BY <2>3, <2>4
<1>5. ASSUME NEW explained \in BOOLEAN, PlaceBet(explained) PROVE TerminalStands(b) /\ ClaimKept(b)
  <2>1. reviews'[b] = reviews[b]
    BY <1>5 DEF PlaceBet, Inv, TypeOK
  <2> QED
    BY <2>1, <1>1
<1>6. CASE UNCHANGED reviews
  BY <1>6, <1>1
<1> QED
  BY <1>2, <1>3, <1>4, <1>5, <1>6 DEF Next, vars, ListPending, ReadForCompletion

(* complete_review: only a request that had read a review before it was    *)
(* completed can change it afterwards.                                     *)
THEOREM CompletedReviewsStand == Spec => TerminalReviewsStand
<1>1. Inv /\ WorkIsSound /\ [Next]_vars =>
        [\A b \in DOMAIN reviews :
          reviews[b].status \in {"COMPLETED", "NOT_APPLICABLE"} /\ reviews'[b] # reviews[b] =>
            reviews[b].status = "COMPLETED" /\ \E s \in Sessions : Late(s, b) /\ req'[s] = None]_vars
  BY ReviewsKept DEF TerminalStands
<1> QED
  BY <1>1, Invariants, PTL DEF Spec, TerminalReviewsStand

(* claim_review and complete_review: only such a request takes a review    *)
(* from who claimed it, or signs what another wrote.                       *)
THEOREM ReviewersKeepClaims == Spec => ClaimsAreKept
<1>1. Inv /\ WorkIsSound /\ [Next]_vars =>
        [\A b \in DOMAIN reviews :
          /\ reviews[b].label # None /\ reviews'[b].label # reviews[b].label =>
               \E s \in Sessions : Late(s, b) /\ req'[s] = None
          /\ reviews'[b].summary # reviews[b].summary /\ reviews'[b].summary # reviews'[b].label =>
               \E s \in Sessions : Late(s, b) /\ req'[s] = None]_vars
  BY ReviewsKept DEF ClaimKept
<1> QED
  BY <1>1, Invariants, PTL DEF Spec, ClaimsAreKept

=============================================================================
