---------------------------- MODULE MemoryStore ----------------------------
(***************************************************************************)
(* InMemoryBillingRepository and InMemoryUsageRepository                   *)
(* (adapters/memory.py): dictionaries and lists that the tasks of one      *)
(* event loop share.  No method suspends, since the repository's lock is   *)
(* never held across an await, so that all the calls that a task makes     *)
(* between two suspensions are one step: the operators below are functions *)
(* from one state of the store to the next.  A session is ignored, and     *)
(* nothing is ever rolled back.                                            *)
(***************************************************************************)
EXTENDS Ledger, Waterfall, Queue

CONSTANTS
    Usages,         \* kinds of usage records
    UsageData,      \* kind -> customer, service, reference, metrics, created_at
    MaxRecords      \* bound on the records of a behaviour

ASSUME UsageIdsArePositions == MaxRecords \in Nat /\ UsageIds = 1..MaxRecords

VARIABLES
    accounts,       \* balances and transactions, by account
    next_id,        \* _next_transaction_id
    records         \* the list of usage records: its kind, id and billing_status

memoryVars == <<accounts, next_id, records>>

Strategies == {"top_up", "monthly_quota", "unknown"}
Product == [asset : Assets, amount : Nat, strategy : Strategies]

Transaction ==
    [id : Nat,
     amount : Int,
     balance_after : Int,
     type : TransactionTypes,
     source : UsageIds \union {None},
     reference : References \union {None}]

MemoryAccount == [row : BOOLEAN, amount : Int, entries : Seq(Transaction)]

Record == [usage : Usages, id : UsageIds \union {None}, status : BillingStatuses]

MemoryTypeOK ==
    /\ accounts \in [Account -> MemoryAccount]
    /\ next_id \in Nat
    /\ records \in Seq(Record)

(* The host fills repo.balances; an account with no money has no key. *)
MemoryInit ==
    /\ accounts =
          [a \in Account |-> [row |-> Opening[a] > 0, amount |-> Opening[a], entries |-> <<>>]]
    /\ next_id = 1
    /\ records = <<>>

-----------------------------------------------------------------------------
(* Balances and the ledger.  A missing balance counts as 0.                *)

DecrementBalance(book, a, deduction) ==
    [book EXCEPT ![a].row = TRUE, ![a].amount = @ - deduction]

(* A mutant: the addition replaces the balance. *)
IncrementBalanceReplacing(book, a, addition) ==
    [book EXCEPT ![a].row = TRUE, ![a].amount = addition]

IncrementBalance(book, a, addition) ==
    [book EXCEPT ![a].row = TRUE, ![a].amount = @ + addition]

UpsertBalance(book, a, amount) ==
    [book EXCEPT ![a].row = TRUE, ![a].amount = amount]

(* balance_after is the balance that the repository call before it left. *)
CreateTransaction(book, a, id, type, amount, source, reference) ==
    [book EXCEPT ![a].entries = Append(@,
        [id |-> id, amount |-> amount, balance_after |-> book[a].amount, type |-> type,
         source |-> source, reference |-> reference])]

(* The movements of service.py, each a balance call and its ledger row. *)
Charged(book, a, id, amount, source) ==
    CreateTransaction(DecrementBalance(book, a, amount), a, id, "usage", -amount, source, None)

Refunded(book, a, id, amount, source) ==
    CreateTransaction(IncrementBalance(book, a, amount), a, id, "refund", amount, source, None)

Granted(book, a, id, product, reference) ==
    IF product.strategy = "top_up"
    THEN CreateTransaction(IncrementBalance(book, a, product.amount), a, id, "top_up",
                           product.amount, None, reference)
    ELSE CreateTransaction(UpsertBalance(book, a, product.amount), a, id, "monthly_grant",
                           product.amount, None, reference)

GetTransactionByReference(reference) ==
    \E a \in Account : \E i \in 1..Len(accounts[a].entries) :
        accounts[a].entries[i].reference = reference

(* A mutant: the records of the service, whatever their reference. *)
RecordIdsOfService(reference, service) ==
    {records[i].id : i \in {j \in 1..Len(records) :
        UsageData[records[j].usage].service = service}}

RecordIds(reference, service) ==
    {records[i].id : i \in {j \in 1..Len(records) :
        /\ UsageData[records[j].usage].reference = reference
        /\ UsageData[records[j].usage].service = service}}

(***************************************************************************)
(* get_transaction_for_usage: the last of the customer's charges for such  *)
(* a record.  A record without an id makes the charges without a source    *)
(* candidates too.                                                         *)
(***************************************************************************)
GetTransactionForUsage(book, reference, service, customer) ==
    LET ids == RecordIds(reference, service)
        Id(l) == book[l[1]].entries[l[2]].id
        candidates ==
            UNION {{<<a, i>> : i \in {j \in 1..Len(book[a].entries) :
                                        /\ book[a].entries[j].source \in ids
                                        /\ book[a].entries[j].type = "usage"}} :
                   a \in {b \in Account : b[1] = customer}}
    IN  {l \in candidates : \A m \in candidates : Id(m) <= Id(l)}

-----------------------------------------------------------------------------
(* The queue of usage records, by their positions in the list.             *)

GetPendingRecords(limit) ==
    Oldest({i \in 1..Len(records) : records[i].status = "pending"}, limit)

SetStatus(position, status) == [records EXCEPT ![position].status = status]

(***************************************************************************)
(* get_usage_records: of the customer's records that match, newest first   *)
(* and those without created_at last, the records at limit places from     *)
(* offset on, as a set; and how many match.  The sort is stable in the     *)
(* order of the list, so that records of one moment come oldest first.     *)
(* get_by_customer is the query without from_date and service.             *)
(***************************************************************************)
CreatedAt(i) == OrZero(UsageData[records[i].usage].created_at)

Newer(i, j) == CreatedAt(i) > CreatedAt(j) \/ (CreatedAt(i) = CreatedAt(j) /\ i < j)

(* A mutant: only the records that are still in the queue are listed. *)
FilteredPending(query) ==
    {i \in 1..Len(records) :
        /\ UsageData[records[i].usage].customer = query.customer
        /\ query.service \in {None, UsageData[records[i].usage].service}
        /\ query.from_date = None \/ CreatedAt(i) >= query.from_date
        /\ records[i].status = "pending"}

(* A record without created_at never passes a from_date, which is positive. *)
Filtered(query) ==
    {i \in 1..Len(records) :
        /\ UsageData[records[i].usage].customer = query.customer
        /\ query.service \in {None, UsageData[records[i].usage].service}
        /\ query.from_date = None \/ CreatedAt(i) >= query.from_date}

Offset(query, i) == Cardinality({j \in Filtered(query) : Newer(j, i)})

GetUsageRecords(query, offset, limit) ==
    [page |-> {i \in Filtered(query) : Offset(query, i) \in offset..(offset + limit - 1)},
     total |-> Cardinality(Filtered(query))]
=============================================================================
