------------------------------- MODULE Ledger -------------------------------
(***************************************************************************)
(* One account's row in customer_balances together with its rows in        *)
(* balance_transactions, and what makes the two agree.  A ledger row holds *)
(* the signed amount of the movement and the balance it left; rows of one  *)
(* account are kept in the order in which they were written.               *)
(***************************************************************************)
EXTENDS Models, Sequences

CONSTANTS
    References,     \* payment references
    UsageIds,       \* ids of usage records
    Opening         \* balances the host created outside the library

ASSUME OpeningIsNatural == Opening \in [Account -> Nat]

ASSUME NoneIsNoId == None \notin References \union UsageIds

Entry ==
    [amount : Int,
     balance_after : Int,
     type : TransactionTypes,
     source : UsageIds \union {None},           \* source_usage_id
     reference : References \union {None}]      \* payment_reference

(* row: whether customer_balances has a row for the account. *)
AccountState == [row : BOOLEAN, amount : Int, entries : Seq(Entry)]

(***************************************************************************)
(* A monthly grant sets the balance to its amount; any other movement adds *)
(* its signed amount to the balance before it.                             *)
(***************************************************************************)
Follows(before, entry) ==
    entry.balance_after =
        IF entry.type = "monthly_grant" THEN entry.amount ELSE before + entry.amount

BalanceBefore(a, entries, i) ==
    IF i = 1 THEN Opening[a] ELSE entries[i - 1].balance_after

Chained(a, entries) ==
    \A i \in 1..Len(entries) : Follows(BalanceBefore(a, entries, i), entries[i])

Closing(a, entries) == BalanceBefore(a, entries, Len(entries) + 1)

(* The ledger explains the balance, and the balance is not overdrawn. *)
Sound(a, account) ==
    /\ Chained(a, account.entries)
    /\ account.amount = Closing(a, account.entries)
    /\ account.amount >= 0

(* The total of a sequence of numbers. *)
Total(numbers) ==
    LET total[n \in 0..Len(numbers)] == IF n = 0 THEN 0 ELSE total[n - 1] + numbers[n]
    IN  total[Len(numbers)]

(* What the usage rows have taken, row by row and in all. *)
Taken(entries) ==
    [i \in 1..Len(entries) |-> IF entries[i].type = "usage" THEN -entries[i].amount ELSE 0]

Spend(entries) == Total(Taken(entries))

Extends(old, new) ==
    /\ Len(old) <= Len(new)
    /\ \A i \in 1..Len(old) : new[i] = old[i]
=============================================================================
