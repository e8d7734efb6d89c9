---------------------------- MODULE LocalBackend ----------------------------
(***************************************************************************)
(* An event loop over the in-memory repository: BillingWorker.run, which   *)
(* polls until stop is called, beside host tasks that call charge, refund, *)
(* fund_customer, refresh_customer_balance_cache and get_usage_snapshot,   *)
(* and that page through usage records.  Only cache calls and sleep        *)
(* suspend; between two suspensions a task keeps the loop to itself.       *)
(*                                                                         *)
(* The cache is any implementation of the BillingCache port whose calls    *)
(* take effect at once and may suspend before they do; the in-memory cache *)
(* never suspends, and so has the behaviours in which each effect follows  *)
(* its call directly.                                                      *)
(*                                                                         *)
(* pc of the worker, which has the loop in its hands at head and record:   *)
(*   new            run() is scheduled and has not begun                   *)
(*   head, record   at the head of while, and of the loop over the batch   *)
(*   refund_view, view, stats                                              *)
(*                  in a cache call of process_record                      *)
(*   sleep, ended   in asyncio.sleep; run() has returned                   *)
(* pc of a host task:                                                      *)
(*   idle           between two calls                                      *)
(*   cache, stats   in a cache call of a movement                          *)
(*   rows           in set_balances, with the rows that it read            *)
(*   balances, counters                                                    *)
(*                  in the two reads of a snapshot                         *)
(*   paging         between two pages of usage records                     *)
(***************************************************************************)
EXTENDS MemoryStore, CacheView

CONSTANTS
    Worker, Hosts,      \* tasks
    RulesFor,           \* service -> its active rules
    BatchSize,
    Amounts,            \* amounts of charges and refunds
    PaymentCustomer,    \* payment reference -> customer
    PaymentProducts,    \* payment reference -> its products, in the order of the list
    Queries,            \* filters of get_usage_records, with the host's page size
    Arrivals,           \* bound: what the host may append at each position
    HostCalls,          \* bound: the operations that each host task calls
    MaxCalls,           \* bound on the calls of hosts in a behaviour
    CacheFailsAt        \* the pcs at which a cache call may raise

Tasks == Hosts \union {Worker}

ASSUME WorkerIsNoHost == Worker \notin Hosts

ASSUME AmountsArePositive == Amounts \subseteq Nat \ {0}

ASSUME ArrivalsAreTyped ==
    \A i \in UsageIds :
        Arrivals[i] \subseteq [usage : Usages, id : {None, i}, status : {"pending"}]

ASSUME BatchSizeIsPositive == BatchSize \in Nat \ {0}

ASSUME PaymentsAreTyped ==
    /\ PaymentCustomer \in [References -> Customers]
    /\ PaymentProducts \in [References -> Seq(Product)]

ASSUME QueriesAreTyped == \A query \in Queries : query.limit \in Nat \ {0}

(* The pcs at which a task is in a call of the cache. *)
ASSUME OnlyCacheCallsFail ==
    CacheFailsAt \subseteq {"refund_view", "view", "stats", "cache", "rows", "balances",
                           "counters"}

(***************************************************************************)
(* A record belongs to a customer, its service has a list of rules, each   *)
(* on an asset, and a rule of a known metric prices it in whole units.     *)
(***************************************************************************)
ASSUME UsagesAreRated ==
    \A kind \in Usages :
        LET data == UsageData[kind]
            rules == RulesFor[data.service]
        IN  /\ data.customer \in Customers
            /\ data.created_at \in Nat \union {None}
            /\ Len(rules) \in Nat
            /\ \A i \in Positions(rules) :
                  /\ rules[i].asset \in Assets
                  /\ Raises(rules[i]) \/ CalculateCost(rules[i], data) \in Int

VARIABLES
    running,    \* _running
    pc,
    batch,      \* records that the cycle has still to process
    fetched,    \* how many the cycle began with
    call,       \* the movement whose cache calls are under way
    back,       \* the account and the balance of process_record's refund
    rows,       \* what refresh_customer_balance_cache read
    snapshot,
    listing,    \* the query of a host, its offset, what it has seen and must see
    calls,
    blurred     \* history: a view update was lost, or may have arrived out of order

locals == <<batch, fetched, call, back, rows, snapshot, listing>>
vars == <<memoryVars, viewVars, running, pc, locals, calls, blurred>>

InCacheCall == {"refund_view", "view", "stats", "cache", "rows"}
Holding == {"head", "record"}
Labels == InCacheCall \union Holding
            \union {"new", "sleep", "ended", "idle", "balances", "counters", "paging"}

(* account, the balance to tell the cache, the amount to count, and what is
   left of a payment. *)
Call == [account : Account \union {None}, balance : Int, amount : Int,
         op : {"none", "charge", "refund", "fund"},
         reference : References \union {None}, todo : Seq(Product)]

NoCall == [account |-> None, balance |-> 0, amount |-> 0, op |-> "none",
           reference |-> None, todo |-> <<>>]
(* A charge or refund whose balance the cache has still to be told. *)
Movement(op, a, amount, balance) ==
    [account |-> a, balance |-> balance, amount |-> amount, op |-> op, reference |-> None,
     todo |-> <<>>]

NoBack == [account |-> None, balance |-> 0]
NoAmounts == [asset \in Assets |-> None]
NoRows == [customer |-> None, amounts |-> NoAmounts]
NoSnapshot == [customer |-> None, start |-> 0, clear |-> FALSE, amounts |-> NoAmounts]
NoListing == [query |-> None, offset |-> 0, seen |-> {}, due |-> {}]

TypeOK ==
    /\ MemoryTypeOK
    /\ ViewTypeOK
    /\ running \in BOOLEAN
    /\ pc \in [Tasks -> Labels]
    /\ batch \in Seq(UsageIds)
    /\ fetched \in 0..BatchSize
    /\ call \in [Tasks -> Call]
    /\ back \in [account : Account \union {None}, balance : Int]
    /\ rows \in [Hosts ->
          [customer : Customers \union {None}, amounts : [Assets -> Int \union {None}]]]
    /\ snapshot \in [Hosts ->
          [customer : Customers \union {None}, start : Nat, clear : BOOLEAN,
           amounts : [Assets -> Int \union {None}]]]
    /\ listing \in [Hosts ->
          [query : Queries \union {None}, offset : Nat, seen : SUBSET UsageIds,
           due : SUBSET UsageIds]]
    /\ calls \in Nat
    /\ blurred \in BOOLEAN

Init ==
    /\ MemoryInit
    /\ ViewInit
    /\ running = FALSE
    /\ pc = [t \in Tasks |-> IF t = Worker THEN "new" ELSE "idle"]
    /\ batch = <<>>
    /\ fetched = 0
    /\ call = [t \in Tasks |-> NoCall]
    /\ back = NoBack
    /\ rows = [h \in Hosts |-> NoRows]
    /\ snapshot = [h \in Hosts |-> NoSnapshot]
    /\ listing = [h \in Hosts |-> NoListing]
    /\ calls = 0
    /\ blurred = FALSE

-----------------------------------------------------------------------------

(* Nobody else runs while the worker is between two suspensions. *)
LoopIsFree == pc[Worker] \notin Holding

GoTo(t, label) == pc' = [pc EXCEPT ![t] = label]

Overlaps(t) == \E u \in Tasks \ {t} : pc[u] \in InCacheCall

(* t begins to update a view while other updates are under way. *)
Blur(t) == blurred' = (blurred \/ Overlaps(t))

-----------------------------------------------------------------------------
(* BillingWorker.run and run_once.                                         *)

(* run() sets _running: a stop() that came before it is forgotten. *)
StartRun ==
    /\ LoopIsFree
    /\ pc[Worker] = "new"
    /\ running' = TRUE
    /\ GoTo(Worker, "head")
    /\ UNCHANGED <<memoryVars, viewVars, locals, calls, blurred>>

Stop ==
    /\ LoopIsFree
    /\ running
    /\ running' = FALSE
    /\ UNCHANGED <<memoryVars, viewVars, pc, locals, calls, blurred>>

EndRun ==
    /\ pc[Worker] = "head"
    /\ ~running
    /\ GoTo(Worker, "ended")
    /\ UNCHANGED <<memoryVars, viewVars, running, locals, calls, blurred>>

(* A mutant: the pause is for empty cycles only. *)
AfterCycleUnlessEmpty(count) == IF count = 0 THEN "sleep" ELSE "head"

(* The sleep ends at once when a full batch hints at more records. *)
AfterCycle(count) == IF count < BatchSize THEN "sleep" ELSE "head"

BeginCycle ==
    /\ pc[Worker] = "head"
    /\ running
    /\ \E pending \in GetPendingRecords(BatchSize) :
          /\ batch' = pending
          /\ fetched' = Len(pending)
          /\ GoTo(Worker, IF pending = <<>> THEN AfterCycle(0) ELSE "record")
    /\ UNCHANGED <<memoryVars, viewVars, running, call, back, rows, snapshot, listing, calls,
                   blurred>>

Wake ==
    /\ LoopIsFree
    /\ pc[Worker] = "sleep"
    /\ GoTo(Worker, "head")
    /\ UNCHANGED <<memoryVars, viewVars, running, locals, calls, blurred>>

Current == records[Head(batch)]
Data == UsageData[Current.usage]
Rules == RulesFor[Data.service]

BalanceSheet(customer) == [asset \in Assets |-> accounts[<<customer, asset>>].amount]

Decision == Evaluate(Rules, Data, BalanceSheet(Data.customer))

(* The loop takes up the next record, or the cycle ends. *)
NextRecord ==
    /\ batch' = Tail(batch)
    /\ GoTo(Worker, IF Len(batch) = 1 THEN AfterCycle(fetched) ELSE "record")
    /\ fetched' = IF Len(batch) = 1 THEN 0 ELSE fetched
    /\ call' = [call EXCEPT ![Worker] = NoCall]
    /\ back' = NoBack
    /\ UNCHANGED <<rows, snapshot, listing>>

(* mark_record_processed, or the error that a record without an id raises. *)
MarkProcessed(usage) ==
    \/ /\ Current.id = None
       /\ NextRecord
       /\ UNCHANGED records
    \/ /\ Current.id # None
       /\ records' = SetStatus(Head(batch), "processed")
       /\ GoTo(Worker, "view")
       /\ call' = [call EXCEPT ![Worker] = usage]
       /\ UNCHANGED <<batch, fetched, back, rows, snapshot, listing>>

(* The rule that the waterfall chooses for the record, if any. *)
Chosen == {Rules[d.rule] : d \in {e \in {Decision} : e.verdict = "matched"}}

(* The charge that a refund record gives back, if any. *)
Originals(book, rule) ==
    IF rule.refund = None \/ Data.reference = None THEN {}
    ELSE GetTransactionForUsage(book, Data.reference, rule.refund, Data.customer)

(***************************************************************************)
(* process_record up to its first cache call.  The balances cannot change  *)
(* between the choice of the rule and the deduction.                       *)
(***************************************************************************)
Deducted(rule) ==
    Charged(accounts, <<Data.customer, rule.asset>>, next_id, CalculateCost(rule, Data), Current.id)

Usage(rule, book) ==
    LET a == <<Data.customer, rule.asset>>
    IN  Movement("charge", a, CalculateCost(rule, Data), book[a].amount)

ChargeRecord ==
    /\ pc[Worker] = "record"
    /\ \E rule \in Chosen : \E book \in {Deducted(rule)} :
          /\ Originals(book, rule) = {}
          /\ accounts' = book
          /\ MarkProcessed(Usage(rule, book))
    /\ next_id' = next_id + 1
    /\ blurred' = (blurred \/ Current.id = None \/ Overlaps(Worker))
    /\ UNCHANGED <<viewVars, running, calls>>

(* _handle_refund: the older balance of the account will reach the cache last. *)
ChargeAndRefund ==
    /\ pc[Worker] = "record"
    /\ \E rule \in Chosen : \E book \in {Deducted(rule)} : \E l \in Originals(book, rule) :
          LET amount == -book[l[1]].entries[l[2]].amount
          IN  /\ accounts' = Refunded(book, l[1], next_id + 1, amount, Current.id)
              /\ back' = [account |-> l[1], balance |-> book[l[1]].amount + amount]
              /\ call' = [call EXCEPT ![Worker] = Usage(rule, book)]
              /\ blurred' = (blurred \/ Current.id = None \/ Overlaps(Worker)
                                \/ l[1] = <<Data.customer, rule.asset>>)
    /\ next_id' = next_id + 2
    /\ GoTo(Worker, "refund_view")
    /\ UNCHANGED <<records, batch, fetched, rows, snapshot, listing, viewVars, running, calls>>

(* The worker's handlers of NoBillableUsageError and of the other BillingErrors. *)
SettleUnpaid ==
    /\ pc[Worker] = "record"
    /\ \E verdict \in {Decision.verdict} \ {"matched", "unexpected"} :
          LET status == IF verdict = "no_billable" THEN "skipped" ELSE "failed"
          IN  records' = IF Current.id = None THEN records ELSE SetStatus(Head(batch), status)
    /\ NextRecord
    /\ UNCHANGED <<accounts, next_id, viewVars, running, calls, blurred>>

(* An unknown metric: the record stays pending. *)
RetryRecord ==
    /\ pc[Worker] = "record"
    /\ Decision.verdict = "unexpected"
    /\ NextRecord
    /\ UNCHANGED <<memoryVars, viewVars, running, calls, blurred>>

RefundView ==
    /\ LoopIsFree
    /\ pc[Worker] = "refund_view"
    /\ UpdateSingleBalance(back.account, back.balance)
    /\ MarkProcessed(call[Worker])
    /\ UNCHANGED <<accounts, next_id, running, calls, blurred>>

SyncView ==
    /\ LoopIsFree
    /\ pc[Worker] = "view"
    /\ UpdateSingleBalance(call[Worker].account, call[Worker].balance)
    /\ GoTo(Worker, "stats")
    /\ UNCHANGED <<memoryVars, running, locals, calls, blurred>>

SyncStats ==
    /\ LoopIsFree
    /\ pc[Worker] = "stats"
    /\ IncrementStats(call[Worker].account, call[Worker].amount)
    /\ NextRecord
    /\ UNCHANGED <<memoryVars, running, calls, blurred>>

(* A mutant: the error of the cache puts the record back into the queue. *)
CacheFailureRequeueing ==
    /\ LoopIsFree
    /\ pc[Worker] \in CacheFailsAt
    /\ records' = SetStatus(Head(batch), "pending")
    /\ blurred' = TRUE
    /\ NextRecord
    /\ UNCHANGED <<accounts, next_id, viewVars, running, calls>>

(* The cycle counts the record as retried; what it wrote so far stays. *)
CacheFailure ==
    /\ LoopIsFree
    /\ pc[Worker] \in CacheFailsAt
    /\ blurred' = TRUE
    /\ NextRecord
    /\ UNCHANGED <<memoryVars, viewVars, running, calls>>

WorkerStep ==
    \/ StartRun \/ EndRun \/ BeginCycle \/ Wake
    \/ ChargeRecord \/ ChargeAndRefund \/ SettleUnpaid \/ RetryRecord
    \/ RefundView \/ SyncView \/ SyncStats \/ CacheFailure

-----------------------------------------------------------------------------
(* The host.                                                               *)

(* InMemoryUsageRepository.create, or a record that the host appends itself. *)
CreateRecord ==
    /\ LoopIsFree
    /\ Len(records) < MaxRecords
    /\ \E record \in Arrivals[Len(records) + 1] : records' = Append(records, record)
    /\ UNCHANGED <<accounts, next_id, viewVars, running, pc, locals, calls, blurred>>

Begin(h, operation) ==
    /\ LoopIsFree
    /\ pc[h] = "idle"
    /\ operation \in HostCalls[h]
    /\ calls < MaxCalls
    /\ calls' = calls + 1
    /\ UNCHANGED <<records, viewVars, running>>

Return(h) ==
    /\ GoTo(h, "idle")
    /\ call' = [call EXCEPT ![h] = NoCall]
    /\ rows' = [rows EXCEPT ![h] = NoRows]
    /\ snapshot' = [snapshot EXCEPT ![h] = NoSnapshot]
    /\ listing' = [listing EXCEPT ![h] = NoListing]
    /\ UNCHANGED <<batch, fetched, back>>

(* The movement is in the store, and its cache update under way. *)
Moved(h, book, movement) ==
    /\ accounts' = book
    /\ next_id' = next_id + 1
    /\ call' = [call EXCEPT ![h] = movement]
    /\ GoTo(h, "cache")
    /\ Blur(h)
    /\ UNCHANGED <<batch, fetched, back, rows, snapshot, listing>>

(* A charge that the balance does not cover raises and leaves no trace. *)
BeginCharge(h) ==
    /\ Begin(h, "charge")
    /\ \E a \in Account, amount \in Amounts :
          /\ accounts[a].amount >= amount
          /\ Moved(h, Charged(accounts, a, next_id, amount, None),
                   Movement("charge", a, amount, accounts[a].amount - amount))

BeginRefund(h) ==
    /\ Begin(h, "refund")
    /\ \E a \in Account, amount \in Amounts :
          Moved(h, Refunded(accounts, a, next_id, amount, None),
                Movement("refund", a, amount, accounts[a].amount + amount))

CanGrant(products) == products # <<>> /\ Head(products).strategy # "unknown"

(* fund_customer's loop: an unknown strategy raises, after the grants before it. *)
Grant(h, customer, products, reference) ==
    \/ /\ ~CanGrant(products)
       /\ Return(h)
       /\ UNCHANGED <<accounts, next_id, blurred>>
    \/ /\ CanGrant(products)
       /\ LET a == <<customer, Head(products).asset>>
              book == Granted(accounts, a, next_id, Head(products), reference)
          IN  Moved(h, book, [account |-> a, balance |-> book[a].amount, amount |-> 0,
                              op |-> "fund", reference |-> reference, todo |-> Tail(products)])

(* A mutant: the reference is not looked up. *)
BeginFundUnchecked(h) ==
    /\ Begin(h, "fund")
    /\ \E reference \in References :
          Grant(h, PaymentCustomer[reference], PaymentProducts[reference], reference)

(* The first grant follows the look-up of the reference without a suspension. *)
BeginFund(h) ==
    /\ Begin(h, "fund")
    /\ \E reference \in References :
          Grant(h, PaymentCustomer[reference],
                IF GetTransactionByReference(reference) THEN <<>>
                ELSE PaymentProducts[reference], reference)

(* The rest of a movement, once the cache has taken the balance. *)
AfterView(h) ==
    \/ /\ call[h].op = "charge"
       /\ GoTo(h, "stats")
       /\ UNCHANGED <<accounts, next_id, locals, blurred>>
    \/ /\ call[h].op = "refund"
       /\ Return(h)
       /\ UNCHANGED <<accounts, next_id, blurred>>
    \/ /\ call[h].op = "fund"
       /\ Grant(h, call[h].account[1], call[h].todo, call[h].reference)

UpdateView(h) ==
    /\ LoopIsFree
    /\ pc[h] = "cache"
    /\ UpdateSingleBalance(call[h].account, call[h].balance)
    /\ AfterView(h)
    /\ UNCHANGED <<records, running, calls>>

(* A mutant: a direct charge is not counted. *)
CountSpendForgotten(h) ==
    /\ LoopIsFree
    /\ pc[h] = "stats"
    /\ Return(h)
    /\ UNCHANGED <<memoryVars, viewVars, running, calls, blurred>>

CountSpend(h) ==
    /\ LoopIsFree
    /\ pc[h] = "stats"
    /\ IncrementStats(call[h].account, call[h].amount)
    /\ Return(h)
    /\ UNCHANGED <<memoryVars, running, calls, blurred>>

(* The error reaches the host; what was written so far stays. *)
HostCacheFailure(h) ==
    /\ LoopIsFree
    /\ pc[h] \in CacheFailsAt
    /\ blurred' = TRUE
    /\ Return(h)
    /\ UNCHANGED <<memoryVars, viewVars, running, calls>>

(* refresh_customer_balance_cache, in its two halves. *)
BeginRefresh(h) ==
    /\ Begin(h, "refresh")
    /\ \E customer \in Customers :
          LET Row(asset) == accounts[<<customer, asset>>]
          IN  rows' = [rows EXCEPT ![h] = [customer |-> customer,
                  amounts |-> [x \in Assets |-> IF Row(x).row THEN Row(x).amount ELSE None]]]
    /\ GoTo(h, "rows")
    /\ Blur(h)
    /\ UNCHANGED <<accounts, next_id, batch, fetched, call, back, snapshot, listing>>

WriteRows(h) ==
    /\ LoopIsFree
    /\ pc[h] = "rows"
    /\ SetBalances(rows[h].customer, rows[h].amounts)
    /\ Return(h)
    /\ UNCHANGED <<memoryVars, running, calls, blurred>>

(***************************************************************************)
(* get_usage_snapshot reads the view and then the counters.  The snapshot  *)
(* is clear if it began when no update of the views was under way or lost. *)
(***************************************************************************)
BeginSnapshot(h) ==
    /\ Begin(h, "snapshot")
    /\ \E customer \in Customers :
          snapshot' = [snapshot EXCEPT ![h] = [NoSnapshot EXCEPT
              !.customer = customer, !.start = next_id, !.clear = ~blurred /\ ~Overlaps(h)]]
    /\ GoTo(h, "balances")
    /\ UNCHANGED <<accounts, next_id, batch, fetched, call, back, rows, listing, blurred>>

GetBalances(h) ==
    /\ LoopIsFree
    /\ pc[h] = "balances"
    /\ snapshot' = [snapshot EXCEPT ![h].amounts =
                        [asset \in Assets |-> view[<<snapshot[h].customer, asset>>]]]
    /\ GoTo(h, "counters")
    /\ UNCHANGED <<memoryVars, viewVars, running, batch, fetched, call, back, rows, listing,
                   calls, blurred>>

GetStats(h) ==
    /\ LoopIsFree
    /\ pc[h] = "counters"
    /\ Return(h)
    /\ UNCHANGED <<memoryVars, viewVars, running, calls, blurred>>

(* What the snapshot says of an asset, once GetStats has read the counters. *)
UsageMetric(h, asset) ==
    LET used == spent[<<snapshot[h].customer, asset>>]
        amount == OrZero(snapshot[h].amounts[asset])
    IN  [used |-> used, total |-> used + (IF amount > 0 THEN amount ELSE 0)]

(* The host pages through get_usage_records, a page at a time. *)
BeginListing(h) ==
    /\ Begin(h, "listing")
    /\ \E query \in Queries :
          listing' = [listing EXCEPT ![h] = [query |-> query, offset |-> 0, seen |-> {},
                                             due |-> Filtered(query)]]
    /\ GoTo(h, "paging")
    /\ UNCHANGED <<accounts, next_id, batch, fetched, call, back, rows, snapshot, blurred>>

Answer(h) == GetUsageRecords(listing[h].query, listing[h].offset, listing[h].query.limit)

Seen(h) == listing[h].seen \union Answer(h).page

ReadPage(h) ==
    /\ LoopIsFree
    /\ pc[h] = "paging"
    /\ LET next == listing[h].offset + listing[h].query.limit
       IN  \/ /\ next >= Answer(h).total
              /\ Return(h)
           \/ /\ next < Answer(h).total
              /\ listing' = [listing EXCEPT ![h].offset = next, ![h].seen = Seen(h)]
              /\ UNCHANGED <<pc, batch, fetched, call, back, rows, snapshot>>
    /\ UNCHANGED <<memoryVars, viewVars, running, calls, blurred>>

HostStep(h) ==
    \/ BeginCharge(h) \/ BeginRefund(h) \/ BeginFund(h)
    \/ UpdateView(h) \/ CountSpend(h) \/ HostCacheFailure(h)
    \/ BeginRefresh(h) \/ WriteRows(h)
    \/ BeginSnapshot(h) \/ GetBalances(h) \/ GetStats(h)
    \/ BeginListing(h) \/ ReadPage(h)

Next == WorkerStep \/ Stop \/ CreateRecord \/ \E h \in Hosts : HostStep(h)

Spec == Init /\ [][Next]_vars

(* run() is awaited, and asyncio resumes a task that is ready. *)
FairSpec == Spec /\ WF_vars(WorkerStep)

-----------------------------------------------------------------------------

(***************************************************************************)
(* What a posting leaves in the dictionaries is a book of accounts: every  *)
(* balance is explained by its ledger rows and none is overdrawn, even     *)
(* when a cache call raises between the movements of one operation.        *)
(***************************************************************************)
Book == INSTANCE LedgerBook WITH book <- accounts

PostsToBook == Book!BookSpec

(* The ledger rows, as pairs of an account and a position. *)
Lines == UNION {{<<a, i>> : i \in 1..Len(accounts[a].entries)} : a \in Account}
Line(l) == accounts[l[1]].entries[l[2]]

(***************************************************************************)
(* A payment grants each of its products at most once: one delivery of it  *)
(* is under way at most, and what it has still to grant is what nobody has *)
(* granted yet.  Neither a lock nor a unique index guards the look-up of   *)
(* the reference: two deliveries at once rely on the first grant following *)
(* the look-up without a suspension.                                       *)
(***************************************************************************)
FundedOnce ==
    \A reference \in References :
        LET granted == {l \in Lines : Line(l).reference = reference}
            granting == {h \in Hosts : call[h].op = "fund" /\ call[h].reference = reference}
            products == PaymentProducts[reference]
        IN  /\ Cardinality(granted) <= Len(products)
            /\ \A h \in granting :
                  /\ granting = {h}
                  /\ Cardinality(granted) + Len(call[h].todo) = Len(products)

(***************************************************************************)
(* A record is charged exactly once if it is processed, or is about to be  *)
(* once the cache has taken its refund, and never otherwise; what fails in *)
(* the cache afterwards does not bring it back into the queue.  A record   *)
(* without an id is never taken out of the queue: service.py charges it    *)
(* before it finds that there is no id to mark.                            *)
(***************************************************************************)
ChargedIfProcessed ==
    \A i \in 1..Len(records) :
        LET charges == {l \in Lines : Line(l).source = i /\ Line(l).type = "usage"}
            refunding == pc[Worker] = "refund_view" /\ Head(batch) = i
        IN  IF records[i].id = None THEN records[i].status = "pending"
            ELSE Cardinality(charges) = IF records[i].status = "processed" \/ refunding THEN 1
                                        ELSE 0

(***************************************************************************)
(* What a refund record gives back is an earlier charge on that account of *)
(* a record with its reference, unless a record without an id carries the  *)
(* same reference: then any charge made without a record may be given back.*)
(***************************************************************************)
RefundsGiveBackACharge ==
    \A l \in Lines : Line(l).type = "refund" /\ Line(l).source # None =>
        LET Reference(i) == UsageData[records[i].usage].reference
            wanted == Reference(Line(l).source)
            Backs(source) == IF source # None THEN Reference(source) = wanted
                             ELSE \E i \in 1..Len(records) :
                                     records[i].id = None /\ Reference(i) = wanted
        IN  \E m \in Lines :
               /\ m[1] = l[1] /\ m[2] < l[2]
               /\ Line(m).type = "usage"
               /\ Line(m).amount = -Line(l).amount
               /\ Backs(Line(m).source)

(***************************************************************************)
(* A snapshot that began with every update of the views delivered, in      *)
(* order, and that no movement has crossed tells what the ledger has       *)
(* charged and, for an asset in the view, what is left of it in the        *)
(* balances, although it reads the two views one after the other.          *)
(***************************************************************************)
Consumed(a) == Spend(accounts[a].entries)

SnapshotIsExact ==
    [][\A h \in Hosts, asset \in Assets :
          LET a == <<snapshot[h].customer, asset>>
          IN  /\ pc[h] = "counters" /\ pc'[h] = "idle"
              /\ snapshot[h].clear /\ snapshot[h].start = next_id
              /\ snapshot[h].amounts[asset] # None
              => UsageMetric(h, asset) = [used |-> Consumed(a),
                                          total |-> Consumed(a) + accounts[a].amount]]_vars

(***************************************************************************)
(* A host that follows offset and total to the end sees every record that  *)
(* matched when it began, although records are appended and billed between *)
(* its pages.                                                              *)
(***************************************************************************)
PagingMissesNothing ==
    [][\A h \in Hosts : pc[h] = "paging" /\ pc'[h] = "idle" => listing[h].due \subseteq Seen(h)]_vars

Stopped == ~running /\ pc[Worker] # "new"

(***************************************************************************)
(* The worker gives the loop back again and again, also while records stay *)
(* in the queue and every cache call returns at once, so that other tasks  *)
(* run; and once stop() has found it running, run() returns.               *)
(***************************************************************************)
StopEndsRun == []<>(LoopIsFree /\ (Stopped => pc[Worker] = "ended"))
=============================================================================
