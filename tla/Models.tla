------------------------------- MODULE Models -------------------------------
(***************************************************************************)
(* The vocabulary of models.py that every other module shares.             *)
(*                                                                         *)
(* An account is a (customer, asset) pair: the unique key of the           *)
(* customer_balances table, and a field of a customer's hash in the cache. *)
(***************************************************************************)
EXTENDS Integers

CONSTANTS
    None,           \* Python's None
    Customers,
    Assets

Account == Customers \X Assets

(* models.py also declares "expiration", which nothing in the library writes. *)
TransactionTypes == {"usage", "refund", "top_up", "monthly_grant"}

BillingStatuses == {"pending", "processed", "failed", "skipped"}
=============================================================================
