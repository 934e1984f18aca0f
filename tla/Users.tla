-------------------------------- MODULE Users --------------------------------
(***************************************************************************)
(* Users and their accounts: registration (create_user of                  *)
(* src/edgebook/auth/services.py, which calls create_account of the        *)
(* ledger), roles, and the check of a role before a request is served.     *)
(*                                                                         *)
(* The opening credit is Ledger's; the capital account it is drawn on is   *)
(* taken to exist.                                                         *)
(*                                                                         *)
(* Requests run at the same time, each in a session of its own: req[s] is  *)
(* what the request of session s has read and goes on from.  A request     *)
(* that fails, or a process that dies, leaves what it has committed.       *)
(***************************************************************************)
EXTENDS Integers, Sequences

CONSTANTS
  Names,           \* usernames, normalised
  GivenRoles,      \* roles users are given
  Sessions,        \* requests in progress at the same time, at most
  MaxAccounts,     \* bound on the accounts opened
  None             \* no request, no label

Roles == {"USER", "OPERATOR", "ADMIN"}

ASSUME UsersAssumption == GivenRoles \subseteq Roles /\ MaxAccounts \in Nat

VARIABLES
  users,           \* rows of auth_users, records [name, role, account]
  accounts,        \* accounts[i]: the owner of account i, opened with its credit
  req              \* req[s]: the request of session s, or None

userVars == <<users, accounts>>

Registrations ==
  [step : {"account"}, name : Names, role : GivenRoles]
  \cup [step : {"user"}, name : Names, role : GivenRoles, account : DOMAIN accounts]

UsersTypeOK ==
  /\ users \subseteq [name : Names, role : GivenRoles, account : DOMAIN accounts]
  /\ accounts \in Seq(Names)
  /\ Len(accounts) <= MaxAccounts

UsersInit ==
  /\ users = {}
  /\ accounts = <<>>
  /\ req = [s \in Sessions |-> None]

Begin(s, request) == req[s] = None /\ req' = [req EXCEPT ![s] = request]

At(s, step) == req[s] # None /\ req[s].step = step

End(s) == req' = [req EXCEPT ![s] = None]

-----------------------------------------------------------------------------
(* create_user first looks the name up; the command line names a role.     *)
CheckName(s, name, role) ==
  /\ \A u \in users : u.name # name
  /\ Begin(s, [step |-> "account", name |-> name, role |-> role])
  /\ UNCHANGED userVars

(* Faulty variant: the account is flushed, and its commit forgotten. *)
CommitAccountNever(s) ==
  /\ At(s, "account")
  /\ Len(accounts) < MaxAccounts
  /\ req' = [req EXCEPT ![s] = [step |-> "user", name |-> req[s].name, role |-> req[s].role,
                                account |-> Len(accounts) + 1]]
  /\ UNCHANGED userVars

(* create_account commits the account with its opening entry. *)
CommitAccount(s) ==
  /\ At(s, "account")
  /\ Len(accounts) < MaxAccounts
  /\ accounts' = Append(accounts, req[s].name)
  /\ req' = [req EXCEPT ![s] = [step |-> "user", name |-> req[s].name, role |-> req[s].role,
                                account |-> Len(accounts) + 1]]
  /\ UNCHANGED users

(* Faulty variant: the column is not unique. *)
NameUnconstrained(name) == TRUE

(* The unique constraint on the username. *)
NameFree(name) == \A u \in users : u.name # name

(* The user is inserted in a transaction of its own; if the name was taken *)
(* meanwhile, only that is rolled back.                                    *)
AddUser(s) ==
  /\ At(s, "user")
  /\ users' = IF NameFree(req[s].name)
              THEN users \cup {[name |-> req[s].name, role |-> req[s].role, account |-> req[s].account]}
              ELSE users
  /\ End(s)
  /\ UNCHANGED accounts

(* "promote" of the command line sets a role, higher or lower. *)
SetRole(user, role) ==
  /\ users' = (users \ {user}) \cup {[user EXCEPT !.role = role]}
  /\ UNCHANGED <<accounts, req>>

(* RoleChecker: the role is read when the request arrives. *)
SomeoneIs(roles) == \E u \in users : u.role \in roles

(* An error, a lost connection or the end of the process. *)
Fail(s) ==
  /\ req[s] # None
  /\ End(s)
  /\ UNCHANGED userVars

UsersNext ==
  \/ \E s \in Sessions :
       \/ \E name \in Names, role \in GivenRoles : CheckName(s, name, role)
       \/ CommitAccount(s) \/ AddUser(s) \/ Fail(s)
  \/ \E user \in users, role \in GivenRoles : SetRole(user, role)

-----------------------------------------------------------------------------
(* However registrations overlap and fail, a name and an account have at   *)
(* most one user, and a user's account is one opened in the user's name:   *)
(* nobody logs in to another's money.                                      *)
UsersAreDistinct ==
  /\ \A u, v \in users : u.name = v.name \/ u.account = v.account => u = v
  /\ \A u \in users : accounts[u.account] = u.name

(* create_user: "Atomically create a user and their double-entry ledger    *)
(* account" (auth/services.py:105).  An account, with its credit, is that  *)
(* of a user, or of one whose registration goes on.                        *)
AccountsHaveUsers ==
  \A i \in DOMAIN accounts :
    \/ \E u \in users : u.account = i
    \/ \E s \in Sessions : At(s, "user") /\ req[s].account = i
=============================================================================
