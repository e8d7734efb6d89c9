--------------------------- MODULE BalanceService ---------------------------
(***************************************************************************)
(* BillingService as its hosts call it (service.py): charge and refund,    *)
(* either in a transaction of their own or in the caller's, fund_customer, *)
(* which always joins the caller's, and refresh_customer_balance_cache.    *)
(*                                                                         *)
(* A session is a task of the host.  pc[s] names the await it is at:       *)
(*   idle      no transaction                                              *)
(*   open      inside the caller's transaction, between two calls          *)
(*   balance, insert, ledger, commit, cache, stats                         *)
(*             the steps of one balance movement                           *)
(*   check, next                                                           *)
(*             fund_customer before its loop, and at the head of the loop  *)
(*   refresh   the balances are read and not yet written to the cache      *)
(*   abort     an exception is on its way out of the transaction           *)
(* Each await is a step, so that the steps of sessions interleave.         *)
(***************************************************************************)
EXTENDS Store, CacheView

CONSTANTS
    Amounts,            \* amounts of charges and refunds
    Modes,              \* "own": no session argument; "caller": a session
    Funders,            \* the sessions that handle payment webhooks
    PaymentCustomer,    \* payment reference -> customer
    PaymentProducts,    \* payment reference -> its active products
    CacheMayFail,       \* whether a cache call may raise
    MaxCalls            \* bound on the calls made in a behaviour

Strategies == {"top_up", "monthly_quota", "unknown"}
Product == [asset : Assets, amount : Nat, strategy : Strategies]

ASSUME AmountsArePositive == Amounts \subseteq Nat \ {0}

ASSUME PaymentsAreTyped ==
    /\ PaymentCustomer \in [References -> Customers]
    /\ \A r \in References :
          PaymentProducts[r] \subseteq Product /\ IsFiniteSet(PaymentProducts[r])

ASSUME ModesAreKnown == Modes \subseteq {"own", "caller"}

VARIABLES
    pc,
    call,       \* the arguments of the call in progress
    after,      \* new_balance, the local of charge and refund
    todo,       \* products that fund_customer has still to grant
    rows,       \* the rows read by refresh_customer_balance_cache
    calls       \* number of calls begun, for the bound

locals == <<pc, call, after, todo, rows, calls>>
vars == <<storeVars, viewVars, locals>>

Moving == {"balance", "insert", "ledger", "commit", "cache", "stats"}
Labels == Moving \union {"idle", "open", "check", "next", "refresh", "abort"}

Movements == {"charge", "refund", "top_up", "monthly_quota"}

Call ==
    [op : Movements \union {"none", "refresh", "fund"},
     account : Account \union {None},
     amount : Nat,
     reference : References \union {None},
     customer : Customers \union {None},
     mode : {"own", "caller"}]

NoCall == [op |-> "none", account |-> None, amount |-> 0, reference |-> None,
           customer |-> None, mode |-> "own"]
NoRows == [asset \in Assets |-> None]

TypeOK ==
    /\ StoreTypeOK
    /\ ViewTypeOK
    /\ pc \in [Sessions -> Labels]
    /\ call \in [Sessions -> Call]
    /\ after \in [Sessions -> Int]
    /\ todo \in [Sessions -> SUBSET Product]
    /\ rows \in [Sessions -> [Assets -> Int \union {None}]]
    /\ calls \in Nat

Init ==
    /\ StoreInit
    /\ ViewInit
    /\ pc = [s \in Sessions |-> "idle"]
    /\ call = [s \in Sessions |-> NoCall]
    /\ after = [s \in Sessions |-> 0]
    /\ todo = [s \in Sessions |-> {}]
    /\ rows = [s \in Sessions |-> NoRows]
    /\ calls = 0

-----------------------------------------------------------------------------

GoTo(s, label) == pc' = [pc EXCEPT ![s] = label]

(* The exception or the end of the transaction drops the call's locals. *)
Clear(s, label) ==
    /\ GoTo(s, label)
    /\ call' = [call EXCEPT ![s] = NoCall]
    /\ after' = [after EXCEPT ![s] = 0]
    /\ todo' = [todo EXCEPT ![s] = {}]
    /\ rows' = [rows EXCEPT ![s] = NoRows]
    /\ UNCHANGED calls

(* A call returns to its host, inside the caller's transaction if it has one. *)
Return(s) == Clear(s, IF call[s].mode = "own" THEN "idle" ELSE "open")

(* A call starts outside a transaction or, with a session, inside one. *)
Begin(s, label, request) ==
    /\ calls < MaxCalls
    /\ request.mode \in Modes
    /\ pc[s] = "idle" \/ (pc[s] = "open" /\ request.mode = "caller")
    /\ GoTo(s, label)
    /\ call' = [call EXCEPT ![s] = request]
    /\ calls' = calls + 1
    /\ UNCHANGED <<storeVars, viewVars, after, todo, rows>>

BeginMovement(s, op) ==
    \E a \in Account, amount \in Amounts, mode \in Modes :
        Begin(s, "balance", [NoCall EXCEPT !.op = op, !.account = a,
                                           !.amount = amount, !.mode = mode])

BeginCharge(s) == BeginMovement(s, "charge")
BeginRefund(s) == BeginMovement(s, "refund")

BeginFund(s) ==
    /\ s \in Funders
    /\ \E r \in References :
          Begin(s, "check", [NoCall EXCEPT !.op = "fund", !.reference = r, !.mode = "caller",
                                           !.customer = PaymentCustomer[r]])

(* refresh_customer_balance_cache reads the rows of the customer. *)
BeginRefresh(s) ==
    \E c \in Customers, mode \in Modes :
        /\ calls < MaxCalls
        /\ pc[s] = "idle" \/ (pc[s] = "open" /\ mode = "caller")
        /\ GoTo(s, "refresh")
        /\ call' = [call EXCEPT ![s] = [NoCall EXCEPT !.op = "refresh", !.customer = c,
                                                      !.mode = mode]]
        /\ rows' = [rows EXCEPT ![s] =
              [asset \in Assets |-> LET account == Visible(s, <<c, asset>>)
                                    IN  IF account.row THEN account.amount ELSE None]]
        /\ calls' = calls + 1
        /\ UNCHANGED <<storeVars, viewVars, after, todo>>

Refresh(s) ==
    /\ pc[s] = "refresh"
    /\ SetBalances(call[s].customer, rows[s])
    /\ Return(s)
    /\ UNCHANGED storeVars

-----------------------------------------------------------------------------

(***************************************************************************)
(* The movement in progress: how it changes a balance, and its ledger row. *)
(***************************************************************************)
Moved(before, request) ==
    CASE request.op = "charge"        -> before - request.amount
      [] request.op = "monthly_quota" -> request.amount
      [] OTHER                        -> before + request.amount

(* A mutant: the ledger row is typed with the name of the operation. *)
TypeOfOperation(op) == op

TypeOf(op) ==
    CASE op = "charge"        -> "usage"
      [] op = "refund"        -> "refund"
      [] op = "top_up"        -> "top_up"
      [] op = "monthly_quota" -> "monthly_grant"

(* A mutant: charge logs the amount instead of its negation. *)
LedgerRowUnsigned(request, balance_after) ==
    [amount |-> request.amount,
     balance_after |-> balance_after,
     type |-> TypeOf(request.op),
     source |-> None,
     reference |-> request.reference]

LedgerRow(request, balance_after) ==
    [amount |-> IF request.op = "charge" THEN -request.amount ELSE request.amount,
     balance_after |-> balance_after,
     type |-> TypeOf(request.op),
     source |-> None,
     reference |-> request.reference]

(* The repository call has changed the balance and returned the new one. *)
Continue(s, label) ==
    /\ GoTo(s, label)
    /\ after' = [after EXCEPT ![s] = Moved(Visible(s, call[s].account).amount, call[s])]
    /\ UNCHANGED <<viewVars, call, todo, rows, calls>>

Deduct(s) ==
    /\ pc[s] = "balance" /\ call[s].op = "charge"
    /\ DecrementBalance(s, call[s].account, call[s].amount)
    /\ Continue(s, "ledger")

(* InsufficientFundsError; a caller may catch it and keep its transaction. *)
Refuse(s) ==
    /\ pc[s] = "balance" /\ call[s].op = "charge"
    /\ DecrementRefused(s, call[s].account, call[s].amount)
    /\ Clear(s, "abort") \/ (call[s].mode = "caller" /\ Clear(s, "open"))
    /\ UNCHANGED viewVars

Restore(s) ==
    /\ pc[s] = "balance" /\ call[s].op \in {"refund", "top_up"}
    /\ IncrementBalance(s, call[s].account, call[s].amount)
    /\ Continue(s, "ledger")

ResetQuota(s) ==
    /\ pc[s] = "balance" /\ call[s].op = "monthly_quota"
    /\ UpsertBalance(s, call[s].account, call[s].amount)
    /\ Continue(s, "ledger")

FindNoRow(s) ==
    /\ pc[s] = "balance" /\ call[s].op # "charge"
    /\ ~FindsRow(s, call[s].account)
    /\ GoTo(s, "insert")
    /\ UNCHANGED <<storeVars, viewVars, call, after, todo, rows, calls>>

Insert(s) ==
    /\ pc[s] = "insert"
    /\ InsertBalance(s, call[s].account, call[s].amount)
    /\ Continue(s, "ledger")

IntegrityError(s) ==
    /\ pc[s] = "insert"
    /\ InsertConflict(s, call[s].account)
    /\ GoTo(s, "abort")
    /\ UNCHANGED <<storeVars, viewVars, call, after, todo, rows, calls>>

(* A mutant: the transaction of an own call is left without a commit. *)
WriteLedgerUncommitted(s) ==
    /\ pc[s] = "ledger"
    /\ CreateTransaction(s, call[s].account, LedgerRow(call[s], after[s]))
    /\ GoTo(s, "cache")
    /\ UNCHANGED <<viewVars, call, after, todo, rows, calls>>

(* Written in the same transaction; the caller's transaction stays open. *)
WriteLedger(s) ==
    /\ pc[s] = "ledger"
    /\ CreateTransaction(s, call[s].account, LedgerRow(call[s], after[s]))
    /\ GoTo(s, IF call[s].mode = "own" THEN "commit" ELSE "cache")
    /\ UNCHANGED <<viewVars, call, after, todo, rows, calls>>

(* The end of _run_in_transaction. *)
CommitOwn(s) ==
    /\ pc[s] = "commit"
    /\ Commit(s)
    /\ GoTo(s, "cache")
    /\ UNCHANGED <<viewVars, call, after, todo, rows, calls>>

-----------------------------------------------------------------------------

(* A mutant: a refund is counted in the statistics as a charge is. *)
UpdateViewCountingRefunds(s) ==
    /\ pc[s] = "cache"
    /\ UpdateSingleBalance(call[s].account, after[s])
    /\ GoTo(s, IF call[s].op \in {"charge", "refund"} THEN "stats" ELSE "next")
    /\ UNCHANGED <<storeVars, call, after, todo, rows, calls>>

(***************************************************************************)
(* After the cache update a charge counts its spend, a grant goes on with  *)
(* the next product, and a refund returns.                                 *)
(***************************************************************************)
UpdateView(s) ==
    /\ pc[s] = "cache"
    /\ UpdateSingleBalance(call[s].account, after[s])
    /\ CASE call[s].op = "charge" ->
              GoTo(s, "stats") /\ UNCHANGED <<call, after, todo, rows, calls>>
         [] call[s].op = "refund" -> Return(s)
         [] OTHER -> GoTo(s, "next") /\ UNCHANGED <<call, after, todo, rows, calls>>
    /\ UNCHANGED storeVars

CountSpend(s) ==
    /\ pc[s] = "stats"
    /\ IncrementStats(call[s].account, call[s].amount)
    /\ Return(s)
    /\ UNCHANGED storeVars

(* A cache call raises: after an own commit the caller just sees the error. *)
CacheFailure(s) ==
    /\ CacheMayFail
    /\ pc[s] \in {"cache", "stats", "refresh"}
    /\ IF call[s].mode = "own" THEN Clear(s, "idle") ELSE Clear(s, "abort")
    /\ UNCHANGED <<storeVars, viewVars>>

-----------------------------------------------------------------------------

(* fund_customer: the reference is looked up once, before the loop. *)
CheckReference(s) ==
    /\ pc[s] = "check"
    /\ GetTransactionByReference(s, call[s].reference)
    /\ Return(s)
    /\ UNCHANGED <<storeVars, viewVars>>

(* A mutant: the products are granted without looking for the reference. *)
GetProductsUnchecked(s) ==
    /\ pc[s] = "check"
    /\ GoTo(s, "next")
    /\ todo' = [todo EXCEPT ![s] = PaymentProducts[call[s].reference]]
    /\ UNCHANGED <<storeVars, viewVars, call, after, rows, calls>>

GetProducts(s) ==
    /\ pc[s] = "check"
    /\ ~GetTransactionByReference(s, call[s].reference)
    /\ GoTo(s, "next")
    /\ todo' = [todo EXCEPT ![s] = PaymentProducts[call[s].reference]]
    /\ UNCHANGED <<storeVars, viewVars, call, after, rows, calls>>

(* The head of the loop; the database returns the products in any order. *)
GrantProduct(s) ==
    /\ pc[s] = "next"
    /\ \E p \in todo[s] :
          /\ p.strategy # "unknown"
          /\ GoTo(s, "balance")
          /\ call' = [call EXCEPT ![s].op = p.strategy, ![s].amount = p.amount,
                                  ![s].account = <<call[s].customer, p.asset>>]
          /\ todo' = [todo EXCEPT ![s] = @ \ {p}]
    /\ UNCHANGED <<storeVars, viewVars, after, rows, calls>>

(* A mutant: a product with an unknown strategy is passed over. *)
UnknownStrategyIgnored(s) ==
    /\ pc[s] = "next"
    /\ \E p \in todo[s] :
          /\ p.strategy = "unknown"
          /\ todo' = [todo EXCEPT ![s] = @ \ {p}]
    /\ UNCHANGED <<storeVars, viewVars, pc, call, after, rows, calls>>

(* BillingConfigurationError, after some products may have been granted. *)
UnknownStrategy(s) ==
    /\ pc[s] = "next"
    /\ \E p \in todo[s] : p.strategy = "unknown"
    /\ Clear(s, "abort")
    /\ UNCHANGED <<storeVars, viewVars>>

FundDone(s) ==
    /\ pc[s] = "next"
    /\ todo[s] = {}
    /\ Return(s)
    /\ UNCHANGED <<storeVars, viewVars>>

-----------------------------------------------------------------------------

(* The caller's transaction ends well. *)
CommitCaller(s) ==
    /\ pc[s] = "open"
    /\ Commit(s)
    /\ Clear(s, "idle")
    /\ UNCHANGED viewVars

(* A mutant: the error path leaves the transaction open. *)
AbortWithoutRollback(s) ==
    /\ pc[s] = "abort"
    /\ Clear(s, "idle")
    /\ UNCHANGED <<storeVars, viewVars>>

(* An exception leaves the transaction, which rolls back. *)
Abort(s) ==
    /\ pc[s] = "abort"
    /\ Rollback(s)
    /\ Clear(s, "idle")
    /\ UNCHANGED viewVars

(***************************************************************************)
(* The task is cancelled, its process dies, the connection is lost, the    *)
(* commit fails, or the caller raises: whatever is not committed is gone.  *)
(***************************************************************************)
Crash(s) ==
    /\ pc[s] # "idle"
    /\ Rollback(s)
    /\ Clear(s, "idle")
    /\ UNCHANGED viewVars

(* The account whose lock the next statement of s needs. *)
WaitsFor ==
    [s \in Sessions |->
        IF \/ pc[s] = "insert"
           \/ pc[s] = "balance" /\ FindsRow(s, call[s].account)
        THEN IF Lockable(s, call[s].account) THEN None ELSE owner[call[s].account]
        ELSE None]

(* The database picks s out of a cycle of waiting sessions. *)
DeadlockVictim(s) ==
    /\ InWaitCycle(s, WaitsFor)
    /\ Clear(s, "abort")
    /\ UNCHANGED <<storeVars, viewVars>>

Step(s) ==
    \/ Refresh(s)
    \/ Deduct(s) \/ Refuse(s) \/ Restore(s) \/ ResetQuota(s)
    \/ FindNoRow(s) \/ Insert(s) \/ IntegrityError(s)
    \/ WriteLedger(s) \/ CommitOwn(s) \/ UpdateView(s) \/ CountSpend(s)
    \/ CheckReference(s) \/ GetProducts(s) \/ GrantProduct(s) \/ UnknownStrategy(s)
    \/ FundDone(s)
    \/ Abort(s) \/ DeadlockVictim(s)

(* No call is in progress and the bound on calls is reached. *)
Quiet ==
    /\ calls = MaxCalls
    /\ \A s \in Sessions : pc[s] = "idle"
    /\ UNCHANGED vars

Next ==
    \/ \E s \in Sessions :
          \/ BeginCharge(s) \/ BeginRefund(s) \/ BeginFund(s) \/ BeginRefresh(s)
          \/ Step(s)
          \/ CommitCaller(s)
          \/ CacheFailure(s)
          \/ Crash(s)
    \/ Quiet

Spec == Init /\ [][Next]_vars

(***************************************************************************)
(* A task that can run does run, and a host ends the transactions that it  *)
(* opened.  Nothing says that hosts make calls or that anything fails.     *)
(***************************************************************************)
FairSpec ==
    Spec /\ \A s \in Sessions : WF_vars(Step(s)) /\ WF_vars(CommitCaller(s))

-----------------------------------------------------------------------------

(***************************************************************************)
(* Whatever calls race, fail or are cut short, the committed ledger        *)
(* explains the committed balance of every account, row by row, and no     *)
(* account is overdrawn (decrement_balance and create_transaction in one   *)
(* transaction: service.py lines 346 to 357, repositories.py 95 to 149).   *)
(***************************************************************************)
LedgerExplainsBalance == \A a \in Account : Sound(a, committed[a])

Grants(a, reference) ==
    Cardinality({i \in 1..Len(committed[a].entries) :
                    committed[a].entries[i].reference = reference})

Due(a, reference) ==
    IF a[1] = PaymentCustomer[reference]
    THEN Cardinality({p \in PaymentProducts[reference] : p.asset = a[2]})
    ELSE 0

(***************************************************************************)
(* fund_customer is idempotent on payment_reference: no account ever gets  *)
(* more grants for a payment than the payment bought, however often the    *)
(* provider delivers the event (docs/concepts.md lines 53 and 54).         *)
(***************************************************************************)
FundedOnce == \A a \in Account, r \in References : Grants(a, r) <= Due(a, r)

(***************************************************************************)
(* A payment is granted as a whole or not at all: one product of a         *)
(* reference without the others would never be made up for, since the      *)
(* reference is then taken (service.py lines 151 and 158 to 203).          *)
(***************************************************************************)
PaymentWhole ==
    \A r \in References :
        \/ \A a \in Account : Grants(a, r) = 0
        \/ \A a \in Account : Grants(a, r) >= Due(a, r)

CommittedBalances(a) ==
    (IF a \in Seeded THEN {Opening[a]} ELSE {})
        \union {committed[a].entries[i].balance_after : i \in 1..Len(committed[a].entries)}

(***************************************************************************)
(* The cache never shows a balance that the database never committed.  It  *)
(* holds when charge and refund run in transactions of their own, because  *)
(* these commit before they touch the cache (service.py lines 227 to 232). *)
(***************************************************************************)
ViewIsCommitted == \A a \in Account : view[a] \in CommittedBalances(a) \union {None}

(***************************************************************************)
(* The statistics never count money that was not taken: a failure between  *)
(* the commit and increment_stats loses a count, and nothing adds one.     *)
(***************************************************************************)
SpendIsBacked == \A a \in Account : spent[a] <= Spend(committed[a].entries)

(* The committed state is a LedgerBook: history is posted, never rewritten. *)
Book == INSTANCE LedgerBook WITH book <- committed
PostsToBook == Book!BookSpec

(***************************************************************************)
(* Every call comes to an end, and so does its transaction: no group of    *)
(* sessions waits for each other's row locks for ever.                     *)
(***************************************************************************)
CallsEnd == \A s \in Sessions : pc[s] # "idle" ~> pc[s] = "idle"
=============================================================================
