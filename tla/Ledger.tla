------------------------------- MODULE Ledger -------------------------------
(***************************************************************************)
(* The double-entry simulation ledger (src/edgebook/ledger/services.py),   *)
(* as one serial client sees it: each operation is the database            *)
(* transaction it commits.                                                 *)
(*                                                                         *)
(* The journal is kept as what the program ever reads of it, the sums of   *)
(* the postings per account and transaction type.  Next to them stand the  *)
(* materialised balances, updated separately by _post_balanced_entry.      *)
(* Sessions opens the operations up into the statements that concurrent    *)
(* sessions interleave.                                                    *)
(***************************************************************************)
EXTENDS Integers, FiniteSets, Functions

CONSTANTS
  Accounts,       \* identifiers of user accounts (kind USER_ASSET)
  Bankrolls,      \* starting bankrolls an account may be opened with
  Amounts,        \* amounts of manual deposits and withdrawals
  MaxDeposited    \* bound: total an account may have deposited

ASSUME LedgerAssumption ==
  /\ IsFiniteSet(Accounts)
  /\ Bankrolls \subseteq Nat
  /\ Amounts \subseteq Nat \ {0}
  /\ MaxDeposited \in Nat

VARIABLES
  account,        \* account[a]: "absent", "active" or "inactive"
  balance,        \* balance[a]: accounts.current_balance_cents
  posted,         \* posted[a][t]: SUM(amount_cents) of a's postings of type t
  capital         \* current_balance_cents of the simulation-capital account

ledgerVars == <<account, balance, posted, capital>>

PostingTypes == {"DEPOSIT", "WITHDRAWAL", "WAGER_STAKE", "WAGER_PAYOUT", "ADJUSTMENT"}

(* The sum of one account's postings, over all transaction types. *)
Total(byType) ==
  byType["DEPOSIT"] + byType["WITHDRAWAL"] + byType["WAGER_STAKE"]
    + byType["WAGER_PAYOUT"] + byType["ADJUSTMENT"]

LedgerTypeOK ==
  /\ account \in [Accounts -> {"absent", "active", "inactive"}]
  /\ balance \in [Accounts -> Int]
  /\ posted \in [Accounts -> [PostingTypes -> Int]]
  /\ capital \in Int

LedgerInit ==
  /\ account = [a \in Accounts |-> "absent"]
  /\ balance = [a \in Accounts |-> 0]
  /\ posted = [a \in Accounts |-> [t \in PostingTypes |-> 0]]
  /\ capital = 0

(* All journal entries of one database transaction: entry[a][t] is posted  *)
(* to account a under type t, and every entry's other leg to the capital   *)
(* account.  Postings and materialised balances move together.             *)
PostBalancedEntries(entry) ==
  /\ posted' = [a \in Accounts |-> [t \in PostingTypes |-> posted[a][t] + entry[a][t]]]
  /\ balance' = [a \in Accounts |-> balance[a] + Total(entry[a])]
  /\ capital' = capital - SumFunctionOnSet([a \in Accounts |-> Total(entry[a])], Accounts)

(* One posting of `amount` to account a, and nothing to the others. *)
Single(a, t, amount) ==
  [x \in Accounts |-> [u \in PostingTypes |-> IF x = a /\ u = t THEN amount ELSE 0]]

CreateAccount(a, bankroll) ==
  /\ account[a] = "absent"
  /\ bankroll <= MaxDeposited
  /\ account' = [account EXCEPT ![a] = "active"]
  /\ PostBalancedEntries(Single(a, "DEPOSIT", bankroll))

Deposit(a, amount) ==
  /\ account[a] = "active"
  /\ posted[a]["DEPOSIT"] + amount <= MaxDeposited
  /\ PostBalancedEntries(Single(a, "DEPOSIT", amount))
  /\ UNCHANGED account

(* Faulty variant: a withdrawal without the balance check. *)
WithdrawUnchecked(a, amount) ==
  /\ account[a] = "active"
  /\ posted[a]["WITHDRAWAL"] > -MaxDeposited
  /\ PostBalancedEntries(Single(a, "WITHDRAWAL", -amount))
  /\ UNCHANGED account

Withdraw(a, amount) ==
  /\ account[a] = "active"
  /\ balance[a] >= amount
  /\ PostBalancedEntries(Single(a, "WITHDRAWAL", -amount))
  /\ UNCHANGED account

(* accounts.is_active has no service that clears it; operators do. *)
Deactivate(a) ==
  /\ account[a] = "active"
  /\ account' = [account EXCEPT ![a] = "inactive"]
  /\ UNCHANGED <<balance, posted, capital>>

LedgerNext ==
  \E a \in Accounts :
    \/ \E bankroll \in Bankrolls : CreateAccount(a, bankroll)
    \/ \E amount \in Amounts : Deposit(a, amount) \/ Withdraw(a, amount)
    \/ Deactivate(a)

-----------------------------------------------------------------------------
(* reconcile_account_balance finds no discrepancy: each materialised       *)
(* balance is the sum of the account's postings.                           *)
BalanceIsSumOfPostings == \A a \in Accounts : balance[a] = Total(posted[a])

(* Double entry: whatever the users hold, the capital account owes. *)
CapitalMirrorsUsers == capital = -SumFunctionOnSet(balance, Accounts)
=============================================================================
