----------------------------- MODULE UsageWorker -----------------------------
(***************************************************************************)
(* The usage queue: hosts create pending usage records, and the sessions,  *)
(* here the workers, drain them (worker.py run_once, service.py            *)
(* process_record).  A worker fetches a batch with FOR UPDATE SKIP LOCKED, *)
(* processes its records one after the other in a single transaction, and  *)
(* commits at the end.  pc[w] names the await of worker w:                 *)
(*   idle      between two cycles                                          *)
(*   evaluate  at the head of the loop, Head(batch[w]) is the record       *)
(*   deduct, ledger                                                        *)
(*             the balance and the ledger row of the usage                 *)
(*   lookup, restore, refund_ledger, refund_view                           *)
(*             _handle_refund                                              *)
(*   mark, view, stats                                                     *)
(*             mark_record_processed and _sync_cache                       *)
(*   fail, skip                                                            *)
(*             the worker's handlers of the billing errors                 *)
(*   commit    the end of the batch                                        *)
(***************************************************************************)
EXTENDS Store, CacheView, Waterfall, Queue

CONSTANTS
    UsageRecords,       \* id -> customer, service, reference and metrics
    RulesFor,           \* service -> its active rules
    BatchSize,
    CacheFailsAt,       \* the awaits of process_record whose cache call may raise
    MaxCrashes          \* bound on the crashes of workers in a behaviour

ASSUME IdsAreCreationOrder == UsageIds \subseteq Nat

ASSUME CacheCalls == CacheFailsAt \subseteq {"refund_view", "view", "stats"}

ASSUME NoneIsNoStatus == None \notin BillingStatuses

ASSUME BatchSizeIsPositive == BatchSize \in Nat \ {0}

(***************************************************************************)
(* A record belongs to a customer, its service has a list of rules, each   *)
(* on an asset, and a rule of a known metric prices it in whole units.     *)
(***************************************************************************)
ASSUME RecordsAreRated ==
    \A u \in UsageIds :
        LET rules == RulesFor[UsageRecords[u].service]
        IN  /\ UsageRecords[u].customer \in Customers
            /\ Len(rules) \in Nat
            /\ \A i \in Positions(rules) :
                  /\ rules[i].asset \in Assets
                  /\ Raises(rules[i]) \/ CalculateCost(rules[i], UsageRecords[u]) \in Int

VARIABLES
    status,     \* committed billing_status, None before the record exists
    mark,       \* the status its holder has written and not yet committed
    holder,     \* the worker that fetched the record and locks its row
    pc,
    batch,      \* the records that the worker has still to process
    result,     \* the verdict of the waterfall for the current record
    after,      \* new_amount of process_record: the balance the usage left
    original,   \* the usage entry that is being refunded and the balance that left
    crashes

queueVars == <<status, mark, holder>>
locals == <<pc, batch, result, after, original>>
vars == <<storeVars, viewVars, queueVars, locals, crashes>>

Labels == {"idle", "evaluate", "deduct", "ledger", "lookup", "restore", "refund_ledger",
           "refund_view", "mark", "view", "stats", "fail", "skip", "commit"}

NoResult == Verdict("none", NoRule)
NoOriginal == [account |-> None, amount |-> 0, balance |-> 0]

TypeOK ==
    /\ StoreTypeOK
    /\ ViewTypeOK
    /\ status \in [UsageIds -> BillingStatuses \union {None}]
    /\ mark \in [UsageIds -> BillingStatuses \union {None}]
    /\ holder \in [UsageIds -> Sessions \union {None}]
    /\ pc \in [Sessions -> Labels]
    /\ batch \in [Sessions -> Seq(UsageIds)]
    /\ result \in [Sessions -> [verdict : {"none", "matched"}, rule : Nat]]
    /\ after \in [Sessions -> Int]
    /\ original \in [Sessions ->
          [account : Account \union {None}, amount : Nat, balance : Int]]
    /\ crashes \in Nat

Init ==
    /\ StoreInit
    /\ ViewInit
    /\ status = [u \in UsageIds |-> None]
    /\ mark = [u \in UsageIds |-> None]
    /\ holder = [u \in UsageIds |-> None]
    /\ pc = [w \in Sessions |-> "idle"]
    /\ batch = [w \in Sessions |-> <<>>]
    /\ result = [w \in Sessions |-> NoResult]
    /\ after = [w \in Sessions |-> 0]
    /\ original = [w \in Sessions |-> NoOriginal]
    /\ crashes = 0

-----------------------------------------------------------------------------

Current(w) == UsageRecords[Head(batch[w])]
Rule(w) == RulesFor[Current(w).service][result[w].rule]
Cost(w) == CalculateCost(Rule(w), Current(w))
Target(w) == <<Current(w).customer, Rule(w).asset>>

GoTo(w, label) ==
    /\ pc' = [pc EXCEPT ![w] = label]
    /\ UNCHANGED <<batch, result, after, original>>

(* The loop drops the locals of a record and takes up the next one. *)
NextRecord(w) ==
    /\ batch' = [batch EXCEPT ![w] = Tail(@)]
    /\ pc' = [pc EXCEPT ![w] = IF Len(batch[w]) = 1 THEN "commit" ELSE "evaluate"]
    /\ result' = [result EXCEPT ![w] = NoResult]
    /\ after' = [after EXCEPT ![w] = 0]
    /\ original' = [original EXCEPT ![w] = NoOriginal]

(***************************************************************************)
(* A host commits a new record.  created_at orders the records by their    *)
(* ids, but they may become visible in any order.                          *)
(***************************************************************************)
CreateRecord(u) ==
    /\ status[u] = None
    /\ status' = [status EXCEPT ![u] = "pending"]
    /\ UNCHANGED <<storeVars, viewVars, mark, holder, locals, crashes>>

(* A mutant: SKIP LOCKED without FOR UPDATE sees the locked records too. *)
PendingRecordsUnlocked(w) ==
    Oldest({u \in UsageIds : status[u] = "pending"}, BatchSize)

(* The oldest pending records that no other worker has locked. *)
GetPendingRecords(w) ==
    Oldest({u \in UsageIds : status[u] = "pending" /\ holder[u] = None}, BatchSize)

(* An empty fetch ends the cycle without effect. *)
Fetch(w) ==
    /\ pc[w] = "idle"
    /\ \E queue \in GetPendingRecords(w) :
          /\ queue # <<>>
          /\ batch' = [batch EXCEPT ![w] = queue]
          /\ holder' = [u \in UsageIds |-> IF u \in ToSet(queue) THEN w ELSE holder[u]]
    /\ pc' = [pc EXCEPT ![w] = "evaluate"]
    /\ UNCHANGED <<storeVars, viewVars, status, mark, result, after, original, crashes>>

BalanceSheet(w, customer) ==
    [asset \in Assets |-> LET account == Visible(w, <<customer, asset>>)
                          IN  IF account.row THEN account.amount ELSE 0]

(* What process_record decides for the record under the balances it can see. *)
Decision(w) ==
    Evaluate(RulesFor[Current(w).service], Current(w), BalanceSheet(w, Current(w).customer))

(* A mutant: a record that raises ends the batch. *)
EvaluateRecordOrStop(w) ==
    /\ pc[w] = "evaluate"
    /\ LET decision == Decision(w)
       IN  CASE decision.verdict = "matched" ->
                  /\ pc' = [pc EXCEPT ![w] = "deduct"]
                  /\ result' = [result EXCEPT ![w] = decision]
                  /\ UNCHANGED <<batch, after, original>>
             [] decision.verdict = "no_billable" -> GoTo(w, "skip")
             [] decision.verdict \in {"rule_not_found", "insufficient"} -> GoTo(w, "fail")
             [] decision.verdict = "unexpected" -> GoTo(w, "commit")
    /\ UNCHANGED <<storeVars, viewVars, queueVars, crashes>>

(***************************************************************************)
(* The balances are read without a lock; the deduction comes later.  An    *)
(* unknown metric leaves the record pending and the loop goes on.          *)
(***************************************************************************)
EvaluateRecord(w) ==
    /\ pc[w] = "evaluate"
    /\ LET decision == Decision(w)
       IN  CASE decision.verdict = "matched" ->
                  /\ pc' = [pc EXCEPT ![w] = "deduct"]
                  /\ result' = [result EXCEPT ![w] = decision]
                  /\ UNCHANGED <<batch, after, original>>
             [] decision.verdict = "no_billable" -> GoTo(w, "skip")
             [] decision.verdict \in {"rule_not_found", "insufficient"} -> GoTo(w, "fail")
             [] decision.verdict = "unexpected" -> NextRecord(w)
    /\ UNCHANGED <<storeVars, viewVars, queueVars, crashes>>

DeductUsage(w) ==
    /\ pc[w] = "deduct"
    /\ DecrementBalance(w, Target(w), Cost(w))
    /\ pc' = [pc EXCEPT ![w] = "ledger"]
    /\ after' = [after EXCEPT ![w] = Visible(w, Target(w)).amount - Cost(w)]
    /\ UNCHANGED <<viewVars, queueVars, batch, result, original, crashes>>

(* The balance has shrunk since it was read: the record fails. *)
RefuseUsage(w) ==
    /\ pc[w] = "deduct"
    /\ DecrementRefused(w, Target(w), Cost(w))
    /\ GoTo(w, "fail")
    /\ UNCHANGED <<viewVars, queueVars, crashes>>

LedgerRow(w, type, amount, balance_after) ==
    [amount |-> amount, balance_after |-> balance_after, type |-> type,
     source |-> Head(batch[w]), reference |-> None]

WriteUsage(w) ==
    /\ pc[w] = "ledger"
    /\ CreateTransaction(w, Target(w), LedgerRow(w, "usage", -Cost(w), after[w]))
    /\ GoTo(w, IF Rule(w).refund # None /\ Current(w).reference # None
               THEN "lookup" ELSE "mark")
    /\ UNCHANGED <<viewVars, queueVars, crashes>>

-----------------------------------------------------------------------------

(* A mutant: the lookup does not join on the service of the original. *)
IsOriginalOfAnyService(w, a, entry) ==
    /\ a[1] = Current(w).customer
    /\ entry.type = "usage"
    /\ entry.source # None
    /\ UsageRecords[entry.source].reference = Current(w).reference

(* The join of get_transaction_for_usage. *)
IsOriginal(w, a, entry) ==
    /\ a[1] = Current(w).customer
    /\ entry.type = "usage"
    /\ entry.source # None
    /\ UsageRecords[entry.source].reference = Current(w).reference
    /\ UsageRecords[entry.source].service = Rule(w).refund

(***************************************************************************)
(* created_at is the start of a transaction, so entries of one batch tie   *)
(* and entries of overlapping batches come in any order: the lookup may    *)
(* return any of the matching entries.                                     *)
(***************************************************************************)
LookUpOriginal(w) ==
    /\ pc[w] = "lookup"
    /\ \E a \in Account : \E i \in 1..Len(Visible(w, a).entries) :
          /\ IsOriginal(w, a, Visible(w, a).entries[i])
          /\ original' = [original EXCEPT ![w].account = a,
                                          ![w].amount = -Visible(w, a).entries[i].amount]
    /\ pc' = [pc EXCEPT ![w] = "restore"]
    /\ UNCHANGED <<storeVars, viewVars, queueVars, batch, result, after, crashes>>

FindNoOriginal(w) ==
    /\ pc[w] = "lookup"
    /\ \A a \in Account : \A i \in 1..Len(Visible(w, a).entries) :
          ~IsOriginal(w, a, Visible(w, a).entries[i])
    /\ GoTo(w, "mark")
    /\ UNCHANGED <<storeVars, viewVars, queueVars, crashes>>

(* The account has a row, since the original was taken from it. *)
RestoreOriginal(w) ==
    /\ pc[w] = "restore"
    /\ IncrementBalance(w, original[w].account, original[w].amount)
    /\ pc' = [pc EXCEPT ![w] = "refund_ledger"]
    /\ original' = [original EXCEPT ![w].balance =
          Visible(w, original[w].account).amount + original[w].amount]
    /\ UNCHANGED <<viewVars, queueVars, batch, result, after, crashes>>

(* A mutant: the refund's row records the balance that the usage left. *)
WriteRefundOfUsage(w) ==
    /\ pc[w] = "refund_ledger"
    /\ CreateTransaction(w, original[w].account,
                         LedgerRow(w, "refund", original[w].amount, after[w]))
    /\ GoTo(w, "refund_view")
    /\ UNCHANGED <<viewVars, queueVars, crashes>>

WriteRefund(w) ==
    /\ pc[w] = "refund_ledger"
    /\ CreateTransaction(w, original[w].account,
                         LedgerRow(w, "refund", original[w].amount, original[w].balance))
    /\ GoTo(w, "refund_view")
    /\ UNCHANGED <<viewVars, queueVars, crashes>>

RefundView(w) ==
    /\ pc[w] = "refund_view"
    /\ UpdateSingleBalance(original[w].account, original[w].balance)
    /\ GoTo(w, "mark")
    /\ UNCHANGED <<storeVars, queueVars, crashes>>

-----------------------------------------------------------------------------

MarkRecord(w, outcome) ==
    /\ mark' = [mark EXCEPT ![Head(batch[w])] = outcome]
    /\ UNCHANGED <<storeVars, viewVars, status, holder, crashes>>

MarkProcessed(w) ==
    /\ pc[w] = "mark"
    /\ MarkRecord(w, "processed")
    /\ GoTo(w, "view")

(* A mutant: the handler of InsufficientFundsError only counts. *)
MarkFailedNowhere(w) ==
    /\ pc[w] = "fail"
    /\ NextRecord(w)
    /\ UNCHANGED <<storeVars, viewVars, queueVars, crashes>>

(* A mutant: the status is the label that the metrics use. *)
MarkFailedWithLabel(w) ==
    /\ pc[w] = "fail"
    /\ MarkRecord(w, "failed_insufficient_funds")
    /\ NextRecord(w)

MarkFailed(w) ==
    /\ pc[w] = "fail"
    /\ MarkRecord(w, "failed")
    /\ NextRecord(w)

MarkSkipped(w) ==
    /\ pc[w] = "skip"
    /\ MarkRecord(w, "skipped")
    /\ NextRecord(w)

(* _sync_cache writes the balance that the usage left, after any refund. *)
SyncView(w) ==
    /\ pc[w] = "view"
    /\ UpdateSingleBalance(Target(w), after[w])
    /\ GoTo(w, "stats")
    /\ UNCHANGED <<storeVars, queueVars, crashes>>

SyncStats(w) ==
    /\ pc[w] = "stats"
    /\ IncrementStats(Target(w), Cost(w))
    /\ NextRecord(w)
    /\ UNCHANGED <<storeVars, queueVars, crashes>>

(* A mutant: the worker puts a record that raised back to pending. *)
CacheFailureRequeues(w) ==
    /\ pc[w] \in CacheFailsAt
    /\ MarkRecord(w, "pending")
    /\ NextRecord(w)

(***************************************************************************)
(* A cache call raises.  The worker counts the record as retried and goes  *)
(* on in the same transaction, with everything that the record has done    *)
(* so far.                                                                 *)
(***************************************************************************)
CacheFailure(w) ==
    /\ pc[w] \in CacheFailsAt
    /\ NextRecord(w)
    /\ UNCHANGED <<storeVars, viewVars, queueVars, crashes>>

-----------------------------------------------------------------------------

(* The worker's record locks and uncommitted statuses are gone. *)
ReleaseRecords(w) ==
    /\ mark' = [u \in UsageIds |-> IF holder[u] = w THEN None ELSE mark[u]]
    /\ holder' = [u \in UsageIds |-> IF holder[u] = w THEN None ELSE holder[u]]

EndCycle(w) ==
    /\ pc' = [pc EXCEPT ![w] = "idle"]
    /\ batch' = [batch EXCEPT ![w] = <<>>]
    /\ result' = [result EXCEPT ![w] = NoResult]
    /\ after' = [after EXCEPT ![w] = 0]
    /\ original' = [original EXCEPT ![w] = NoOriginal]

CommitBatch(w) ==
    /\ pc[w] = "commit"
    /\ Commit(w)
    /\ status' = [u \in UsageIds |->
          IF holder[u] = w /\ mark[u] # None THEN mark[u] ELSE status[u]]
    /\ ReleaseRecords(w)
    /\ EndCycle(w)
    /\ UNCHANGED <<viewVars, crashes>>

RollbackBatch(w) ==
    /\ Rollback(w)
    /\ ReleaseRecords(w)
    /\ EndCycle(w)
    /\ UNCHANGED <<viewVars, status>>

(* The worker dies, loses its connection or fails to commit; another starts. *)
Crash(w) ==
    /\ crashes < MaxCrashes
    /\ pc[w] # "idle"
    /\ RollbackBatch(w)
    /\ crashes' = crashes + 1

(* The account whose row lock the next statement of w asks for. *)
Wanted(w) ==
    CASE pc[w] = "deduct"  -> {Target(w)}
      [] pc[w] = "restore" -> {original[w].account}
      [] OTHER             -> {}

WaitsFor ==
    [w \in Sessions |->
        IF \E a \in Wanted(w) : FindsRow(w, a) /\ ~Lockable(w, a)
        THEN owner[CHOOSE a \in Wanted(w) : TRUE] ELSE None]

(***************************************************************************)
(* The database ends the transaction of a deadlock victim.  Its worker     *)
(* catches the error, fails in the same way on every other record of the   *)
(* batch, and its commit of the dead transaction does nothing.             *)
(***************************************************************************)
DeadlockVictim(w) ==
    /\ InWaitCycle(w, WaitsFor)
    /\ RollbackBatch(w)
    /\ UNCHANGED crashes

Step(w) ==
    \/ Fetch(w) \/ EvaluateRecord(w)
    \/ DeductUsage(w) \/ RefuseUsage(w) \/ WriteUsage(w)
    \/ LookUpOriginal(w) \/ FindNoOriginal(w) \/ RestoreOriginal(w) \/ WriteRefund(w)
    \/ RefundView(w)
    \/ MarkProcessed(w) \/ MarkFailed(w) \/ MarkSkipped(w)
    \/ SyncView(w) \/ SyncStats(w)
    \/ CommitBatch(w) \/ DeadlockVictim(w)

(* Everything is created and settled. *)
Drained ==
    /\ \A u \in UsageIds : status[u] \notin {None, "pending"}
    /\ \A w \in Sessions : pc[w] = "idle"
    /\ UNCHANGED vars

Next ==
    \/ \E u \in UsageIds : CreateRecord(u)
    \/ \E w \in Sessions : Step(w) \/ CacheFailure(w) \/ Crash(w)
    \/ Drained

Spec == Init /\ [][Next]_vars

(* The statement of w that locks the row of a. *)
Acquire(w, a) ==
    /\ a \in Wanted(w)
    /\ DeductUsage(w) \/ RefuseUsage(w) \/ RestoreOriginal(w)

(***************************************************************************)
(* The workers poll for ever, and the database hands a released row lock   *)
(* to a session that waits for it, even if others keep coming for the same *)
(* lock.  Nothing says that hosts create records.                          *)
(***************************************************************************)
FairSpec ==
    /\ Spec
    /\ \A w \in Sessions : WF_vars(Step(w))
    /\ \A w \in Sessions, a \in Account : SF_vars(Acquire(w, a))

-----------------------------------------------------------------------------

(* Positions of the committed ledger rows of a kind written for a record. *)
RowsOf(u, a, type) ==
    {i \in 1..Len(committed[a].entries) :
        committed[a].entries[i].type = type /\ committed[a].entries[i].source = u}

ChargesOf(u) == UNION {{<<a, i>> : i \in RowsOf(u, a, "usage")} : a \in Account}

Charges == [u \in UsageIds |-> Cardinality(ChargesOf(u))]

(***************************************************************************)
(* No record is charged twice, whatever its retries: the batch's charges   *)
(* and statuses are committed together (worker.py lines 60 to 86).         *)
(***************************************************************************)
ChargedAtMostOnce == \A u \in UsageIds : Charges[u] <= 1

(***************************************************************************)
(* The queue settles records: what a cycle commits is for every record of  *)
(* it either nothing, or a final status with a charge exactly if the       *)
(* status is processed.                                                    *)
(***************************************************************************)
Queue == INSTANCE Settlement WITH charges <- Charges
SettlesRecords == Queue!Spec

(***************************************************************************)
(* The batches of concurrent workers leave a ledger that explains the      *)
(* balances, and post to the same book as BalanceService.                  *)
(***************************************************************************)
Book == INSTANCE LedgerBook WITH book <- committed
PostsToBook == Book!BookSpec

(***************************************************************************)
(* Every refund in the ledger gives back exactly the charge of another     *)
(* record of the same customer, on the asset that paid for it.  It was     *)
(* asked for by a record that the queue has processed and that has itself  *)
(* paid a positive price, and no record gives back more than one charge.   *)
(***************************************************************************)
RefundsAreBacked ==
    \A u \in UsageIds, a \in Account : \A i \in RowsOf(u, a, "refund") :
        /\ status[u] = "processed"
        /\ \E b \in Account : \E j \in RowsOf(u, b, "usage") : committed[b].entries[j].amount < 0
        /\ \A b \in Account : \A j \in RowsOf(u, b, "refund") : <<b, j>> = <<a, i>>
        /\ \E v \in UsageIds : \E j \in RowsOf(v, a, "usage") :
              /\ UsageRecords[v].customer = UsageRecords[u].customer
              /\ UsageRecords[v].reference = UsageRecords[u].reference
              /\ \E k \in Positions(RulesFor[UsageRecords[u].service]) :
                    RulesFor[UsageRecords[u].service][k].refund = UsageRecords[v].service
              /\ committed[a].entries[i].amount = -committed[a].entries[j].amount

(***************************************************************************)
(* An account that no transaction is changing is shown as it is: workers   *)
(* update the cache before they commit, but under the account's row lock,  *)
(* so the updates arrive in the order of the commits.  It needs batches    *)
(* that do not roll back and cache calls that do not fail.                 *)
(***************************************************************************)
ViewIsCurrent ==
    crashes = 0 =>
        \A a \in Account : owner[a] = None => view[a] \in {None, committed[a].amount}

(***************************************************************************)
(* Under the same conditions the counted spend is the spend of the ledger. *)
(***************************************************************************)
SpendIsComplete ==
    crashes = 0 =>
        \A a \in Account : owner[a] = None => spent[a] = Spend(committed[a].entries)

Faulted(u) == LET rules == RulesFor[UsageRecords[u].service]
              IN  \E i \in Positions(rules) : Faulty(rules, UsageRecords[u], i)

(***************************************************************************)
(* Every record whose rules do not raise is settled, also behind records   *)
(* that stay pending for ever, and although batches may deadlock or crash. *)
(* It needs fewer raising records than a batch holds.                      *)
(***************************************************************************)
RecordsAreSettled ==
    \A u \in UsageIds :
        ~Faulted(u) => (status[u] = "pending" ~> status[u] \in {"processed", "failed", "skipped"})
=============================================================================
