----------------------------- MODULE CacheView -----------------------------
(***************************************************************************)
(* The materialised views of a customer kept in the cache: the asset       *)
(* amounts, and the month's spend per asset.  Each operator is one cache   *)
(* call, atomic as in cache.py, where it runs under the cache's lock.      *)
(* can_transact is recomputed by the same calls from the same amounts and  *)
(* so is left out, and so are the activity feed and the stats other than   *)
(* the spend.                                                              *)
(***************************************************************************)
EXTENDS Models

CONSTANT SpentCap       \* bound at which the counted spend saturates

ASSUME SpentCapIsNatural == SpentCap \in Nat

VARIABLES
    view,       \* amount of an asset in the customer's hash, None if missing
    spent       \* the "asset:" counters of increment_stats

viewVars == <<view, spent>>

ViewTypeOK ==
    /\ view \in [Account -> Int \union {None}]
    /\ spent \in [Account -> Nat]

ViewInit ==
    /\ view = [a \in Account |-> None]
    /\ spent = [a \in Account |-> 0]

(* A mutant: setdefault where the field should be overwritten. *)
UpdateSingleBalanceOnce(a, new_amount) ==
    /\ view' = [view EXCEPT ![a] = IF @ = None THEN new_amount ELSE @]
    /\ UNCHANGED spent

UpdateSingleBalance(a, new_amount) ==
    /\ view' = [view EXCEPT ![a] = new_amount]
    /\ UNCHANGED spent

(***************************************************************************)
(* set_balances replaces the customer's hash by rows, a function from      *)
(* assets to amounts with None for an asset without a row.  With no rows   *)
(* at all refresh_customer_balance_cache calls delete_balances, which      *)
(* leaves the same view.                                                   *)
(***************************************************************************)
SetBalances(customer, rows) ==
    /\ view' = [a \in Account |-> IF a[1] = customer THEN rows[a[2]] ELSE view[a]]
    /\ UNCHANGED spent

(* A mutant: the counter takes the signed amount of the ledger row. *)
IncrementStatsSigned(a, amount) ==
    /\ spent' = [spent EXCEPT ![a] = @ - amount]
    /\ UNCHANGED view

(* A mutant: the counter is set instead of incremented. *)
IncrementStatsSetting(a, amount) ==
    /\ spent' = [spent EXCEPT ![a] = amount]
    /\ UNCHANGED view

IncrementStats(a, amount) ==
    /\ spent' = [spent EXCEPT ![a] = IF @ + amount > SpentCap THEN SpentCap ELSE @ + amount]
    /\ UNCHANGED view
=============================================================================
