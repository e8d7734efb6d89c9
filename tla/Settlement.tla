----------------------------- MODULE Settlement -----------------------------
(***************************************************************************)
(* What the usage queue promises, seen from outside: a record enters the   *)
(* queue once, is settled once, and is charged exactly if it is settled as *)
(* processed.  Settling is atomic: there is no moment at which a record is *)
(* charged and still pending, or processed and not charged.  UsageWorker   *)
(* implements this.                                                        *)
(***************************************************************************)
EXTENDS Models

CONSTANT UsageIds

VARIABLES
    status,         \* [UsageIds -> BillingStatuses \union {None}], None before create
    charges         \* [UsageIds -> Nat], the usage rows of the ledger per record

Init ==
    /\ status = [u \in UsageIds |-> None]
    /\ charges = [u \in UsageIds |-> 0]

Create(u) ==
    /\ status[u] = None
    /\ status' = [status EXCEPT ![u] = "pending"]
    /\ UNCHANGED charges

(* One worker cycle settles the records of its batch together. *)
Settle(batch) ==
    /\ \A u \in batch : status[u] = "pending"
    /\ \A u \in UsageIds \ batch : status'[u] = status[u]
    /\ \A u \in batch : status'[u] \in BillingStatuses \ {"pending"}
    /\ charges' = [u \in UsageIds |->
          IF u \in batch /\ status'[u] = "processed" THEN charges[u] + 1 ELSE charges[u]]

Changed == {u \in UsageIds : status'[u] # status[u]}

Next == (\E u \in UsageIds : Create(u)) \/ Settle(Changed)

Spec == Init /\ [][Next]_<<status, charges>>
=============================================================================
