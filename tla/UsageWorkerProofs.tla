-------------------------- MODULE UsageWorkerProofs --------------------------
(***************************************************************************)
(* Theorems about UsageWorker, for every set of records, rules, customers, *)
(* assets and workers and any number of cycles: the state is well typed,   *)
(* the committed ledger is a LedgerBook and every refund in it gives back  *)
(* a charge; if no cache call of a refund fails, no record is charged      *)
(* twice and the queue settles records as Settlement says; and if no cache *)
(* call fails and no batch is rolled back, the cache shows the balances    *)
(* and counts the spend of the committed ledger.                           *)
(*                                                                         *)
(* The argument has four parts.  LedgerInv is about the owner of an        *)
(* account, as in BalanceServiceProofs.  QueueInv says that a record in a  *)
(* batch is pending and held by that batch's worker alone.  LinesInv joins *)
(* the two: a ledger row that is not committed belongs to a record that    *)
(* the owner of the account holds, and a record that is held has its rows  *)
(* in the holder's view of the ledger exactly from the statement that      *)
(* writes them on.  ViewInv and SpendInv relate the cache to what the      *)
(* owner of an account sees of it.                                         *)
(***************************************************************************)
EXTENDS UsageWorker, StoreLemmas, SequenceTheorems, FiniteSetTheorems

(* The awaits of _handle_refund, and those at which a rule has been chosen. *)
Refunding == {"lookup", "restore", "refund_ledger", "refund_view"}
Priced == {"deduct", "ledger", "mark", "view", "stats"} \union Refunding

(***************************************************************************)
(* What the locals of a worker hold at each of its awaits.                 *)
(***************************************************************************)
LocalsOf(w) ==
    /\ batch[w] = <<>> <=> pc[w] \in {"idle", "commit"}
    /\ pc[w] \in Priced =>
          /\ result[w].rule \in Positions(RulesFor[Current(w).service])
          /\ ~Raises(Rule(w))
          /\ Cost(w) > 0
    /\ pc[w] \in Refunding => Rule(w).refund # None
    /\ pc[w] \in Refunding \ {"lookup"} => original[w].account \in Account

LocalsInv == \A w \in Sessions : LocalsOf(w)

(* Between its balance and its ledger statement a worker is about to write a row. *)
Midway(w) == pc[w] \in {"ledger", "refund_ledger"}

DueAccount(w) == IF pc[w] = "ledger" THEN Target(w) ELSE original[w].account

DueRow(w) ==
    IF pc[w] = "ledger" THEN LedgerRow(w, "usage", -Cost(w), after[w])
    ELSE LedgerRow(w, "refund", original[w].amount, original[w].balance)

(* The account is sound but for the row that is due. *)
HalfDone(a, account, row) ==
    /\ Chained(a, account.entries)
    /\ Follows(Closing(a, account.entries), row)
    /\ account.amount = row.balance_after
    /\ account.amount >= 0

(* The row of a refund gives back the charge of a record like its own. *)
GivesBack(refund, charge) ==
    LET u == refund.source
        v == charge.source
    IN  /\ charge.type = "usage"
        /\ UsageRecords[v].customer = UsageRecords[u].customer
        /\ UsageRecords[v].reference = UsageRecords[u].reference
        /\ \E k \in Positions(RulesFor[UsageRecords[u].service]) :
              RulesFor[UsageRecords[u].service][k].refund = UsageRecords[v].service
        /\ refund.amount = -charge.amount

RowsOfRecords(a, rows) ==
    \A i \in 1..Len(rows) :
        /\ rows[i].source \in UsageIds
        /\ rows[i].type = "usage" =>
              rows[i].amount < 0 /\ UsageRecords[rows[i].source].customer = a[1]
        /\ rows[i].type = "refund" => \E j \in 1..Len(rows) : GivesBack(rows[i], rows[j])

InMidst(a) == Midway(owner[a]) /\ DueAccount(owner[a]) = a

OwnedInv(a) ==
    owner[a] # None =>
        /\ Extends(committed[a].entries, working[a].entries)
        /\ working[a].row
        /\ RowsOfRecords(a, working[a].entries)
        /\ IF InMidst(a) THEN HalfDone(a, working[a], DueRow(owner[a])) ELSE Sound(a, working[a])

CommittedInv(a) == Sound(a, committed[a]) /\ RowsOfRecords(a, committed[a].entries)

(* The charge that is being refunded stays visible. *)
OriginalOf(w) ==
    LET a == original[w].account
        rows == Visible(w, a).entries
    IN  \E i \in 1..Len(rows) :
           IsOriginal(w, a, rows[i]) /\ original[w].amount = -rows[i].amount

AccountsInv ==
    /\ \A a \in Account : CommittedInv(a) /\ OwnedInv(a)
    /\ \A w \in Sessions : Midway(w) => owner[DueAccount(w)] = w

OriginalInv == \A w \in Sessions : pc[w] \in {"restore", "refund_ledger"} => OriginalOf(w)

LedgerInv == AccountsInv /\ OriginalInv

BatchInv(w) ==
    /\ \A i \in 1..Len(batch[w]) :
          /\ holder[batch[w][i]] = w
          /\ i > 1 \/ pc[w] \notin {"view", "stats"} => mark[batch[w][i]] = None
    /\ \A i, j \in 1..Len(batch[w]) : i # j => batch[w][i] # batch[w][j]
    /\ pc[w] \in {"view", "stats"} => mark[Head(batch[w])] = "processed"

RecordInv(u) ==
    /\ mark[u] # None => holder[u] # None /\ mark[u] # "pending"
    /\ holder[u] # None => status[u] = "pending"

QueueInv == (\A u \in UsageIds : RecordInv(u)) /\ (\A w \in Sessions : BatchInv(w))

IInv == TypeOK /\ LocalsInv /\ LedgerInv /\ QueueInv

-----------------------------------------------------------------------------
(* Typing.                                                                 *)

LEMMA Constants ==
    /\ None \notin Sessions
    /\ None \notin UsageIds
    /\ UsageIds \subseteq Nat
    /\ Opening \in [Account -> Nat]
    /\ SpentCap \in Nat
    /\ BatchSize \in Nat
BY NoneIsNoSession, NoneIsNoId, IdsAreCreationOrder, OpeningIsNatural, SpentCapIsNatural,
   BatchSizeIsPositive

LEMMA RowsAreTyped == \A e \in Entry : e.balance_after \in Int /\ e.amount \in Int
BY DEF Entry

(* The waterfall's answer names a rule that costs something. *)
LEMMA MatchedRule ==
    ASSUME NEW rules, NEW record, NEW balances,
           Evaluate(rules, record, balances).verdict = "matched"
    PROVE  LET i == Evaluate(rules, record, balances).rule
           IN  /\ i \in Positions(rules)
               /\ ~Raises(rules[i])
               /\ CalculateCost(rules[i], record) > 0
<1> DEFINE c == CHOOSE i \in Positions(rules) : FirstDecisive(rules, record, balances, i)
<1>1. /\ Len(rules) # 0
      /\ \E i \in Positions(rules) : FirstDecisive(rules, record, balances, i)
  BY DEF Evaluate, Verdict
<1>2. c \in Positions(rules) /\ FirstDecisive(rules, record, balances, c)
  BY <1>1, Zenon
<1> HIDE DEF c
<1>3. Evaluate(rules, record, balances) =
        Verdict(IF Faulty(rules, record, c) THEN "unexpected" ELSE "matched", c)
  BY <1>1, Zenon DEF Evaluate, c
<1>4. Evaluate(rules, record, balances).rule = c /\ ~Faulty(rules, record, c)
  BY <1>3 DEF Verdict
<1>5. Funded(rules, record, balances, c)
  BY <1>2, <1>4 DEF FirstDecisive, Decisive
<1> QED
  BY <1>2, <1>4, <1>5 DEF Funded, Billable

LEMMA VerdictsOfEvaluate ==
    ASSUME NEW rules, NEW record, NEW balances
    PROVE  Evaluate(rules, record, balances).verdict
              \in {"matched", "unexpected", "rule_not_found", "insufficient", "no_billable"}
BY DEF Evaluate, Verdict

LEMMA HeadIsARecord ==
    ASSUME TypeOK, NEW w \in Sessions, batch[w] # <<>>
    PROVE  /\ batch[w] \in Seq(UsageIds) /\ Len(batch[w]) \in Nat \ {0}
           /\ Head(batch[w]) \in UsageIds /\ Head(batch[w]) = batch[w][1]
           /\ Current(w) = UsageRecords[Head(batch[w])]
           /\ Current(w).customer \in Customers
           /\ Len(RulesFor[Current(w).service]) \in Nat
<1>1. batch[w] \in Seq(UsageIds)
  BY DEF TypeOK
<1>2. Len(batch[w]) \in Nat \ {0} /\ Head(batch[w]) \in UsageIds /\ Head(batch[w]) = batch[w][1]
  BY <1>1
<1> QED
  BY <1>1, <1>2, RecordsAreRated DEF Current

(* What a worker deducts, and from where. *)
LEMMA PriceTyped ==
    ASSUME TypeOK, NEW w \in Sessions, LocalsOf(w), pc[w] \in Priced
    PROVE  /\ Head(batch[w]) \in UsageIds
           /\ Target(w) \in Account
           /\ Cost(w) \in Nat \ {0}
           /\ Target(w)[1] = UsageRecords[Head(batch[w])].customer
<1>1. batch[w] # <<>>
  BY DEF LocalsOf, Priced, Refunding
<1>2. /\ result[w].rule \in Positions(RulesFor[Current(w).service])
      /\ ~Raises(Rule(w)) /\ Cost(w) > 0
  BY DEF LocalsOf
<1>3. Rule(w).asset \in Assets /\ Cost(w) \in Int
  BY <1>1, <1>2, HeadIsARecord, RecordsAreRated DEF Rule, Cost, Current
<1>4. Target(w) \in Account
  BY <1>1, <1>3, HeadIsARecord DEF Target, Account
<1> QED
  BY <1>1, <1>2, <1>3, <1>4, HeadIsARecord DEF Target

LEMMA VisibleTyped ==
    ASSUME TypeOK, NEW w \in Sessions, NEW a \in Account
    PROVE  /\ Visible(w, a) \in AccountState
           /\ Visible(w, a).row \in BOOLEAN
           /\ Visible(w, a).amount \in Int
           /\ Visible(w, a).entries \in Seq(Entry)
<1>1. Visible(w, a) \in AccountState
  BY DEF TypeOK, StoreTypeOK, Visible
<1> QED
  BY <1>1 DEF AccountState

LEMMA WriteTyped ==
    ASSUME TypeOK, NEW w \in Sessions, NEW a \in Account, NEW amount \in Int,
           Write(w, a, Reads(w, a, amount))
    PROVE  StoreTypeOK'
<1>1. Reads(w, a, amount) \in AccountState
  BY VisibleTyped DEF Reads, AccountState
<1> QED
  BY <1>1 DEF Write, TypeOK, StoreTypeOK

LEMMA CommitTyped ==
    ASSUME TypeOK, NEW w \in Sessions, Commit(w) \/ Rollback(w)
    PROVE  StoreTypeOK'
<1>1. Released(w) \in [Account -> Sessions \union {None}]
  BY DEF TypeOK, StoreTypeOK, Released
<1>2. CASE Commit(w)
  BY <1>1, <1>2, VisibleTyped DEF Commit, TypeOK, StoreTypeOK
<1>3. CASE Rollback(w)
  BY <1>1, <1>3 DEF Rollback, TypeOK, StoreTypeOK
<1> QED
  BY <1>2, <1>3

(* The row of a movement of the current record. *)
LEMMA LedgerRowTyped ==
    ASSUME NEW w \in Sessions, NEW type \in {"usage", "refund"}, NEW amount \in Int,
           NEW balance \in Int, Head(batch[w]) \in UsageIds
    PROVE  LedgerRow(w, type, amount, balance) \in Entry
BY DEF LedgerRow, Entry, TransactionTypes

LEMMA DueRowTyped ==
    ASSUME TypeOK, NEW w \in Sessions, LocalsOf(w), Midway(w)
    PROVE  DueAccount(w) \in Account /\ DueRow(w) \in Entry
<1>1. pc[w] \in Priced /\ after[w] \in Int /\ original[w].amount \in Int /\ original[w].balance \in Int
  BY DEF Midway, Priced, Refunding, TypeOK
<1>2. Head(batch[w]) \in UsageIds /\ Target(w) \in Account /\ -Cost(w) \in Int
  BY <1>1, PriceTyped
<1>3. CASE pc[w] = "ledger"
  BY <1>1, <1>2, <1>3, LedgerRowTyped DEF DueAccount, DueRow
<1>4. CASE pc[w] = "refund_ledger"
  BY <1>1, <1>2, <1>4, LedgerRowTyped DEF DueAccount, DueRow, LocalsOf, Refunding
<1> QED
  BY <1>3, <1>4 DEF Midway

LEMMA GoToTyped ==
    ASSUME TypeOK, StoreTypeOK', ViewTypeOK', NEW w \in Sessions, NEW label \in Labels,
           GoTo(w, label), UNCHANGED <<queueVars, crashes>>
    PROVE  TypeOK'
BY DEF TypeOK, GoTo, queueVars

LEMMA NoLocalsTyped ==
    /\ NoResult \in [verdict : {"none", "matched"}, rule : Nat]
    /\ NoOriginal \in [account : Account \union {None}, amount : Nat, balance : Int]
BY DEF NoResult, Verdict, NoRule, NoOriginal

LEMMA NextRecordTyped ==
    ASSUME TypeOK, NEW w \in Sessions, batch[w] # <<>>, NextRecord(w)
    PROVE  /\ pc' \in [Sessions -> Labels]
           /\ batch' \in [Sessions -> Seq(UsageIds)]
           /\ result' \in [Sessions -> [verdict : {"none", "matched"}, rule : Nat]]
           /\ after' \in [Sessions -> Int]
           /\ original' \in [Sessions ->
                 [account : Account \union {None}, amount : Nat, balance : Int]]
<1>1. Tail(batch[w]) \in Seq(UsageIds)
  BY HeadIsARecord
<1>2. pc' \in [Sessions -> Labels]
  BY DEF NextRecord, TypeOK, Labels
<1> QED
  BY <1>1, <1>2, NoLocalsTyped DEF NextRecord, TypeOK

LEMMA MarkTyped ==
    ASSUME TypeOK, NEW w \in Sessions, batch[w] # <<>>,
           NEW outcome \in {"processed", "failed", "skipped"}, MarkRecord(w, outcome)
    PROVE  /\ mark' \in [UsageIds -> BillingStatuses \union {None}]
           /\ StoreTypeOK' /\ ViewTypeOK'
           /\ UNCHANGED <<status, holder, crashes>>
<1>1. Head(batch[w]) \in UsageIds
  BY HeadIsARecord
<1> QED
  BY <1>1 DEF MarkRecord, TypeOK, StoreTypeOK, ViewTypeOK, storeVars, viewVars, BillingStatuses

LEMMA EndCycleTyped ==
    ASSUME TypeOK, NEW w \in Sessions, EndCycle(w), ReleaseRecords(w)
    PROVE  /\ pc' \in [Sessions -> Labels]
           /\ batch' \in [Sessions -> Seq(UsageIds)]
           /\ result' \in [Sessions -> [verdict : {"none", "matched"}, rule : Nat]]
           /\ after' \in [Sessions -> Int]
           /\ original' \in [Sessions ->
                 [account : Account \union {None}, amount : Nat, balance : Int]]
           /\ mark' \in [UsageIds -> BillingStatuses \union {None}]
           /\ holder' \in [UsageIds -> Sessions \union {None}]
<1>1. <<>> \in Seq(UsageIds)
  OBVIOUS
<1> QED
  BY <1>1, NoLocalsTyped DEF EndCycle, ReleaseRecords, TypeOK, Labels

(* A batch is a sequence of different records that nobody holds. *)
LEMMA FetchedBatch ==
    ASSUME NEW w \in Sessions, NEW queue \in GetPendingRecords(w)
    PROVE  /\ queue \in Seq(UsageIds)
           /\ \A i \in 1..Len(queue) : status[queue[i]] = "pending" /\ holder[queue[i]] = None
           /\ \A i, j \in 1..Len(queue) : i # j => queue[i] # queue[j]
           /\ ToSet(queue) = {queue[i] : i \in 1..Len(queue)}
<1> DEFINE pending == {u \in UsageIds : status[u] = "pending" /\ holder[u] = None}
<1>1. /\ queue \in Seq(pending)
      /\ \A i \in 1..Len(queue) : queue[i] \in pending
      /\ \A i, j \in 1..Len(queue) : i # j => queue[i] # queue[j]
      /\ ToSet(queue) = {queue[i] : i \in 1..Len(queue)}
  BY Constants, OldestIsABatch DEF GetPendingRecords
<1> QED
  BY <1>1

LEMMA FetchTyped ==
    ASSUME TypeOK, NEW w \in Sessions, Fetch(w)
    PROVE  TypeOK'
<1>1. PICK queue \in GetPendingRecords(w) :
        /\ batch' = [batch EXCEPT ![w] = queue]
        /\ holder' = [u \in UsageIds |-> IF u \in ToSet(queue) THEN w ELSE holder[u]]
  BY DEF Fetch
<1>2. queue \in Seq(UsageIds)
  BY FetchedBatch
<1>3. batch' \in [Sessions -> Seq(UsageIds)] /\ holder' \in [UsageIds -> Sessions \union {None}]
  BY <1>1, <1>2 DEF TypeOK
<1> QED
  BY <1>3 DEF Fetch, TypeOK, StoreTypeOK, ViewTypeOK, storeVars, viewVars, Labels

(* The branches of the evaluation. *)
LEMMA EvaluateBranches ==
    ASSUME TypeOK, NEW w \in Sessions, LocalsOf(w), EvaluateRecord(w)
    PROVE  /\ pc[w] = "evaluate" /\ batch[w] # <<>>
           /\ UNCHANGED <<storeVars, viewVars, queueVars, crashes>>
           /\ \/ /\ pc' = [pc EXCEPT ![w] = "deduct"]
                 /\ \E rule \in Positions(RulesFor[Current(w).service]) :
                       LET chosen == RulesFor[Current(w).service][rule]
                       IN  /\ rule \in Nat
                           /\ ~Raises(chosen) /\ CalculateCost(chosen, Current(w)) > 0
                           /\ result' = [result EXCEPT ![w] = Verdict("matched", rule)]
                 /\ UNCHANGED <<batch, after, original>>
              \/ \E label \in {"skip", "fail"} : GoTo(w, label)
              \/ NextRecord(w)
<1>1. pc[w] = "evaluate" /\ batch[w] # <<>>
  BY DEF EvaluateRecord, LocalsOf
<1>2. Decision(w).verdict
        \in {"matched", "unexpected", "rule_not_found", "insufficient", "no_billable"}
  BY VerdictsOfEvaluate DEF Decision
<1>3. CASE Decision(w).verdict = "matched"
  <2> DEFINE rule == Decision(w).rule
  <2>1. /\ rule \in Positions(RulesFor[Current(w).service])
        /\ ~Raises(RulesFor[Current(w).service][rule])
        /\ CalculateCost(RulesFor[Current(w).service][rule], Current(w)) > 0
    BY <1>3, MatchedRule DEF Decision
  <2>2. Decision(w) = Verdict("matched", rule)
    BY <1>3 DEF Decision, Evaluate, Verdict
  <2>3. Len(RulesFor[Current(w).service]) \in Nat
    BY <1>1, HeadIsARecord
  <2>4. rule \in Nat
    BY <2>1, <2>3 DEF Positions
  <2>5. /\ pc' = [pc EXCEPT ![w] = "deduct"]
        /\ result' = [result EXCEPT ![w] = Decision(w)]
        /\ UNCHANGED <<batch, after, original>>
    BY <1>3 DEF EvaluateRecord
  <2> HIDE DEF rule
  <2> QED
    BY <1>1, <2>1, <2>2, <2>4, <2>5 DEF EvaluateRecord
<1>4. CASE Decision(w).verdict = "no_billable"
  BY <1>1, <1>4 DEF EvaluateRecord
<1>5. CASE Decision(w).verdict \in {"rule_not_found", "insufficient"}
  BY <1>1, <1>5 DEF EvaluateRecord
<1>6. CASE Decision(w).verdict = "unexpected"
  BY <1>1, <1>6 DEF EvaluateRecord
<1> QED
  BY <1>2, <1>3, <1>4, <1>5, <1>6

LEMMA EvaluateTyped ==
    ASSUME TypeOK, NEW w \in Sessions, LocalsOf(w), EvaluateRecord(w)
    PROVE  TypeOK'
<1>1. StoreTypeOK' /\ ViewTypeOK' /\ UNCHANGED <<queueVars, crashes>>
  BY EvaluateBranches DEF TypeOK, StoreTypeOK, ViewTypeOK, storeVars, viewVars
<1>2. CASE NextRecord(w)
  BY <1>1, <1>2, NextRecordTyped, EvaluateBranches DEF TypeOK, queueVars
<1>3. CASE \E label \in {"skip", "fail"} : GoTo(w, label)
  BY <1>1, <1>3, GoToTyped DEF Labels
<1>4. ASSUME pc' = [pc EXCEPT ![w] = "deduct"],
             NEW rule \in Nat, result' = [result EXCEPT ![w] = Verdict("matched", rule)],
             UNCHANGED <<batch, after, original>>
      PROVE  TypeOK'
  <2>1. Verdict("matched", rule) \in [verdict : {"none", "matched"}, rule : Nat]
    BY DEF Verdict
  <2> QED
    BY <1>1, <1>4, <2>1 DEF TypeOK, Labels, queueVars
<1> QED
  BY <1>2, <1>3, <1>4, EvaluateBranches

(* The balance statements of the usage and of its refund. *)
LEMMA MoveBranches ==
    ASSUME TypeOK, NEW w \in Sessions, LocalsOf(w), DeductUsage(w) \/ RestoreOriginal(w)
    PROVE  \E a \in Account, new \in Int :
              /\ FindsRow(w, a) /\ Lockable(w, a)
              /\ Write(w, a, Reads(w, a, new))
              /\ UNCHANGED <<viewVars, queueVars, batch, result, crashes>>
              /\ \/ /\ pc[w] = "deduct" /\ pc' = [pc EXCEPT ![w] = "ledger"]
                    /\ a = Target(w) /\ new = Visible(w, a).amount - Cost(w)
                    /\ new >= 0 /\ Cost(w) \in Nat
                    /\ after' = [after EXCEPT ![w] = new]
                    /\ UNCHANGED original
                 \/ /\ pc[w] = "restore" /\ pc' = [pc EXCEPT ![w] = "refund_ledger"]
                    /\ a = original[w].account
                    /\ new = Visible(w, a).amount + original[w].amount
                    /\ original[w].amount \in Nat
                    /\ original' = [original EXCEPT ![w].balance = new]
                    /\ UNCHANGED after
<1>1. CASE DeductUsage(w)
  <2>1. pc[w] \in Priced
    BY <1>1 DEF DeductUsage, Priced
  <2>2. Target(w) \in Account /\ Cost(w) \in Nat
    BY <2>1, PriceTyped
  <2>3. Visible(w, Target(w)).amount \in Int
    BY <2>2, VisibleTyped
  <2> DEFINE a == Target(w)
             new == Visible(w, a).amount - Cost(w)
  <2>4. new \in Int /\ a \in Account
    BY <2>2, <2>3
  <2>5. Visible(w, a).amount >= Cost(w)
    BY <1>1 DEF DeductUsage, DecrementBalance
  <2>6. new >= 0
    BY <2>2, <2>3, <2>5
  <2>7. /\ FindsRow(w, a) /\ Lockable(w, a)
        /\ Write(w, a, Reads(w, a, new))
        /\ UNCHANGED <<viewVars, queueVars, batch, result, crashes>>
        /\ pc[w] = "deduct" /\ pc' = [pc EXCEPT ![w] = "ledger"]
        /\ after' = [after EXCEPT ![w] = new]
        /\ UNCHANGED original
    BY <1>1 DEF DeductUsage, DecrementBalance
  <2>8. a = Target(w) /\ new = Visible(w, a).amount - Cost(w)
    OBVIOUS
  <2> HIDE DEF a, new
  <2> QED
    BY <2>2, <2>4, <2>6, <2>7, <2>8
<1>2. CASE RestoreOriginal(w)
  <2> DEFINE a == original[w].account
             new == Visible(w, a).amount + original[w].amount
  <2>1. a \in Account /\ original[w].amount \in Nat
    BY <1>2 DEF RestoreOriginal, LocalsOf, Refunding, TypeOK
  <2>2. new \in Int
    BY <2>1, VisibleTyped
  <2>3. /\ FindsRow(w, a) /\ Lockable(w, a)
        /\ Write(w, a, Reads(w, a, new))
        /\ UNCHANGED <<viewVars, queueVars, batch, result, crashes>>
        /\ pc[w] = "restore" /\ pc' = [pc EXCEPT ![w] = "refund_ledger"]
        /\ original' = [original EXCEPT ![w].balance = new]
        /\ UNCHANGED after
    BY <1>2 DEF RestoreOriginal, IncrementBalance
  <2>4. a = original[w].account /\ new = Visible(w, a).amount + original[w].amount
    OBVIOUS
  <2> HIDE DEF a, new
  <2> QED
    BY <2>1, <2>2, <2>3, <2>4
<1> QED
  BY <1>1, <1>2

LEMMA MoveTyped ==
    ASSUME TypeOK, NEW w \in Sessions, LocalsOf(w), DeductUsage(w) \/ RestoreOriginal(w)
    PROVE  TypeOK'
<1>1. PICK a \in Account, new \in Int :
        /\ Write(w, a, Reads(w, a, new))
        /\ UNCHANGED <<viewVars, queueVars, batch, result, crashes>>
        /\ \/ /\ pc' = [pc EXCEPT ![w] = "ledger"]
              /\ after' = [after EXCEPT ![w] = new]
              /\ UNCHANGED original
           \/ /\ pc' = [pc EXCEPT ![w] = "refund_ledger"]
              /\ original' = [original EXCEPT ![w].balance = new]
              /\ UNCHANGED after
  BY MoveBranches
<1>2. StoreTypeOK'
  BY <1>1, WriteTyped
<1>3. [original[w] EXCEPT !.balance = new] \in
        [account : Account \union {None}, amount : Nat, balance : Int]
  BY DEF TypeOK
<1>4. original' \in [Sessions ->
        [account : Account \union {None}, amount : Nat, balance : Int]]
  <2>1. original \in [Sessions ->
          [account : Account \union {None}, amount : Nat, balance : Int]]
    BY DEF TypeOK
  <2>2. original' = original \/ original' = [original EXCEPT ![w].balance = new]
    BY <1>1
  <2>3. CASE original' = original
    BY <2>1, <2>3
  <2>4. CASE original' = [original EXCEPT ![w].balance = new]
    BY <1>3, <2>1, <2>4
  <2> QED
    BY <2>2, <2>3, <2>4
<1>5. pc' \in [Sessions -> Labels] /\ after' \in [Sessions -> Int]
  <2>1. \/ pc' = [pc EXCEPT ![w] = "ledger"] /\ after' = [after EXCEPT ![w] = new]
        \/ pc' = [pc EXCEPT ![w] = "refund_ledger"] /\ after' = after
    BY <1>1
  <2>2. pc \in [Sessions -> Labels] /\ after \in [Sessions -> Int]
    BY DEF TypeOK
  <2>3. pc' \in [Sessions -> Labels]
    BY <2>1, <2>2 DEF Labels
  <2>4. after' \in [Sessions -> Int]
    BY <2>1, <2>2
  <2> QED
    BY <2>3, <2>4
<1>6. ViewTypeOK' /\ UNCHANGED <<queueVars, batch, result, crashes>>
  BY <1>1 DEF TypeOK, ViewTypeOK, viewVars
<1> QED
  BY <1>2, <1>4, <1>5, <1>6 DEF TypeOK, queueVars

LEMMA AppendTyped ==
    ASSUME TypeOK, NEW w \in Sessions, NEW a \in Account, NEW e \in Entry,
           CreateTransaction(w, a, e)
    PROVE  StoreTypeOK'
<1>1. working[a] \in AccountState
  BY DEF TypeOK, StoreTypeOK
<1>2. Append(working[a].entries, e) \in Seq(Entry)
  BY <1>1 DEF AccountState
<1>3. [working[a] EXCEPT !.entries = Append(@, e)] \in AccountState
  <2>1. PICK q \in Seq(Entry) : q = Append(working[a].entries, e)
    BY <1>2
  <2>2. [working[a] EXCEPT !.entries = q] \in AccountState
    BY <1>1 DEF AccountState
  <2> QED
    BY <2>1, <2>2
<1> QED
  BY <1>3 DEF CreateTransaction, TypeOK, StoreTypeOK

(* The ledger statements write the row that is due. *)
LEMMA WriteBranches ==
    ASSUME NEW w \in Sessions, WriteUsage(w) \/ WriteRefund(w)
    PROVE  /\ Midway(w)
           /\ CreateTransaction(w, DueAccount(w), DueRow(w))
           /\ UNCHANGED <<viewVars, queueVars, crashes>>
           /\ \/ /\ pc[w] = "refund_ledger" /\ GoTo(w, "refund_view")
              \/ /\ pc[w] = "ledger" /\ Rule(w).refund # None /\ GoTo(w, "lookup")
              \/ /\ pc[w] = "ledger" /\ GoTo(w, "mark")
BY DEF WriteUsage, WriteRefund, Midway, DueAccount, DueRow

LEMMA WriteRowTyped ==
    ASSUME TypeOK, NEW w \in Sessions, LocalsOf(w), WriteUsage(w) \/ WriteRefund(w)
    PROVE  TypeOK'
<1>1. StoreTypeOK'
  BY WriteBranches, DueRowTyped, AppendTyped
<1>2. ViewTypeOK' /\ UNCHANGED <<queueVars, crashes>>
  BY WriteBranches DEF TypeOK, ViewTypeOK, viewVars
<1>3. \E label \in {"refund_view", "lookup", "mark"} : GoTo(w, label)
  BY WriteBranches
<1> QED
  BY <1>1, <1>2, <1>3, GoToTyped DEF Labels

LEMMA RefuseBranches ==
    ASSUME TypeOK, NEW w \in Sessions, LocalsOf(w), RefuseUsage(w)
    PROVE  /\ pc[w] = "deduct" /\ GoTo(w, "fail")
           /\ UNCHANGED <<viewVars, queueVars, crashes>>
           /\ \/ UNCHANGED storeVars
              \/ \E a \in Account : FindsRow(w, a) /\ Lockable(w, a) /\ Write(w, a, Visible(w, a))
<1>1. pc[w] \in Priced
  BY DEF RefuseUsage, Priced
<1> QED
  BY <1>1, PriceTyped DEF RefuseUsage, DecrementRefused

LEMMA RefuseTyped ==
    ASSUME TypeOK, NEW w \in Sessions, LocalsOf(w), RefuseUsage(w)
    PROVE  TypeOK'
<1>1. StoreTypeOK'
  <2>1. CASE UNCHANGED storeVars
    BY <2>1 DEF TypeOK, StoreTypeOK, storeVars
  <2>2. ASSUME NEW a \in Account, Write(w, a, Visible(w, a)) PROVE StoreTypeOK'
    BY <2>2, VisibleTyped DEF Write, TypeOK, StoreTypeOK
  <2> QED
    BY <2>1, <2>2, RefuseBranches
<1>2. ViewTypeOK'
  BY RefuseBranches DEF TypeOK, ViewTypeOK, viewVars
<1> QED
  BY <1>1, <1>2, RefuseBranches, GoToTyped DEF Labels

(* The charge that the lookup finds, with a positive amount to give back. *)
LEMMA LookUpBranches ==
    ASSUME TypeOK, LedgerInv, NEW w \in Sessions, LookUpOriginal(w)
    PROVE  \E a \in Account : \E i \in 1..Len(Visible(w, a).entries) :
              LET amount == -Visible(w, a).entries[i].amount
              IN  /\ IsOriginal(w, a, Visible(w, a).entries[i])
                  /\ amount \in Nat
                  /\ original' = [original EXCEPT ![w].account = a, ![w].amount = amount]
<1>1. PICK a \in Account : \E i \in 1..Len(Visible(w, a).entries) :
          /\ IsOriginal(w, a, Visible(w, a).entries[i])
          /\ original' = [original EXCEPT ![w].account = a,
                                          ![w].amount = -Visible(w, a).entries[i].amount]
  BY DEF LookUpOriginal
<1>2. PICK i \in 1..Len(Visible(w, a).entries) :
          /\ IsOriginal(w, a, Visible(w, a).entries[i])
          /\ original' = [original EXCEPT ![w].account = a,
                                          ![w].amount = -Visible(w, a).entries[i].amount]
  BY <1>1
<1>3. Visible(w, a).entries \in Seq(Entry)
  BY VisibleTyped
<1>4. Visible(w, a).entries[i] \in Entry
  BY <1>2, <1>3
<1>5. RowsOfRecords(a, Visible(w, a).entries)
  BY Constants DEF LedgerInv, AccountsInv, CommittedInv, OwnedInv, Visible
<1>6. Visible(w, a).entries[i].amount < 0 /\ Visible(w, a).entries[i].amount \in Int
  BY <1>2, <1>4, <1>5, RowsAreTyped DEF RowsOfRecords, IsOriginal
<1>7. -Visible(w, a).entries[i].amount \in Nat
  BY <1>6
<1> QED
  BY <1>2, <1>7

LEMMA LookUpTyped ==
    ASSUME TypeOK, LedgerInv, NEW w \in Sessions, LookUpOriginal(w)
    PROVE  TypeOK'
<1>1. PICK a \in Account, amount \in Nat :
        original' = [original EXCEPT ![w].account = a, ![w].amount = amount]
  BY LookUpBranches
<1>2. [original[w] EXCEPT !.account = a, !.amount = amount] \in
        [account : Account \union {None}, amount : Nat, balance : Int]
  BY DEF TypeOK
<1>3. original' \in [Sessions ->
        [account : Account \union {None}, amount : Nat, balance : Int]]
  BY <1>1, <1>2 DEF TypeOK
<1> QED
  BY <1>3 DEF LookUpOriginal, TypeOK, StoreTypeOK, ViewTypeOK, storeVars, viewVars, queueVars,
              Labels

LEMMA ViewStepTyped ==
    ASSUME TypeOK, NEW w \in Sessions, LocalsOf(w),
           FindNoOriginal(w) \/ RefundView(w) \/ SyncView(w)
    PROVE  TypeOK'
<1>1. StoreTypeOK' /\ UNCHANGED <<queueVars, crashes>>
  BY DEF FindNoOriginal, RefundView, SyncView, TypeOK, StoreTypeOK, storeVars
<1>2. ViewTypeOK'
  <2>1. CASE FindNoOriginal(w)
    BY <2>1 DEF FindNoOriginal, TypeOK, ViewTypeOK, viewVars
  <2>2. CASE RefundView(w)
    <3>1. original[w].account \in Account /\ original[w].balance \in Int
      BY <2>2 DEF RefundView, LocalsOf, Refunding, TypeOK
    <3> QED
      BY <2>2, <3>1 DEF RefundView, UpdateSingleBalance, TypeOK, ViewTypeOK
  <2>3. CASE SyncView(w)
    <3>1. pc[w] \in Priced /\ after[w] \in Int
      BY <2>3 DEF SyncView, Priced, TypeOK
    <3>2. Target(w) \in Account
      BY <3>1, PriceTyped
    <3> QED
      BY <2>3, <3>1, <3>2 DEF SyncView, UpdateSingleBalance, TypeOK, ViewTypeOK
  <2> QED
    BY <2>1, <2>2, <2>3
<1>3. \E label \in Labels : GoTo(w, label)
  BY DEF FindNoOriginal, RefundView, SyncView, Labels
<1> QED
  BY <1>1, <1>2, <1>3, GoToTyped

(* The steps that leave a record for the next one, with or without a status. *)
LEMMA LeaveBranches ==
    ASSUME TypeOK, NEW w \in Sessions, LocalsOf(w),
           MarkFailed(w) \/ MarkSkipped(w) \/ SyncStats(w) \/ CacheFailure(w)
    PROVE  /\ batch[w] # <<>> /\ NextRecord(w)
           /\ UNCHANGED <<storeVars, status, holder, crashes>>
           /\ \/ /\ pc[w] \in {"fail", "skip"}
                 /\ \E outcome \in {"failed", "skipped"} : MarkRecord(w, outcome)
              \/ pc[w] \in CacheFailsAt \union {"stats"} /\ mark' = mark
<1>1. pc[w] \in {"fail", "skip", "stats", "refund_view", "view"}
  BY CacheCalls DEF MarkFailed, MarkSkipped, SyncStats, CacheFailure
<1>2. batch[w] # <<>>
  BY <1>1 DEF LocalsOf
<1> QED
  BY <1>1, <1>2 DEF MarkFailed, MarkSkipped, SyncStats, CacheFailure, MarkRecord, queueVars

LEMMA LeaveTyped ==
    ASSUME TypeOK, NEW w \in Sessions, LocalsOf(w),
           MarkFailed(w) \/ MarkSkipped(w) \/ SyncStats(w) \/ CacheFailure(w)
    PROVE  TypeOK'
<1>1. batch[w] # <<>> /\ NextRecord(w) /\ UNCHANGED <<storeVars, status, holder, crashes>>
  BY LeaveBranches
<1>2. mark' \in [UsageIds -> BillingStatuses \union {None}]
  BY <1>1, LeaveBranches, MarkTyped DEF TypeOK
<1>3. ViewTypeOK'
  <2>1. CASE SyncStats(w)
    <3>1. Target(w) \in Account /\ Cost(w) \in Nat
      BY <2>1, PriceTyped DEF SyncStats, Priced
    <3> QED
      BY <2>1, <3>1, Constants DEF SyncStats, IncrementStats, TypeOK, ViewTypeOK
  <2>2. CASE MarkFailed(w) \/ MarkSkipped(w) \/ CacheFailure(w)
    BY <2>2 DEF MarkFailed, MarkSkipped, CacheFailure, MarkRecord, TypeOK, ViewTypeOK, viewVars
  <2> QED
    BY <2>1, <2>2
<1> QED
  BY <1>1, <1>2, <1>3, NextRecordTyped DEF TypeOK, StoreTypeOK, storeVars

LEMMA MarkProcessedTyped ==
    ASSUME TypeOK, NEW w \in Sessions, LocalsOf(w), MarkProcessed(w)
    PROVE  TypeOK'
<1>1. batch[w] # <<>>
  BY DEF LocalsOf, MarkProcessed
<1>2. MarkRecord(w, "processed") /\ GoTo(w, "view")
  BY DEF MarkProcessed
<1>3. /\ mark' \in [UsageIds -> BillingStatuses \union {None}]
      /\ StoreTypeOK' /\ ViewTypeOK'
      /\ UNCHANGED <<status, holder, crashes>>
  BY <1>1, <1>2, MarkTyped
<1> QED
  BY <1>2, <1>3 DEF GoTo, TypeOK, Labels

LEMMA EndTyped ==
    ASSUME TypeOK, NEW w \in Sessions, CommitBatch(w) \/ Crash(w) \/ DeadlockVictim(w)
    PROVE  TypeOK'
<1>1. StoreTypeOK'
  BY CommitTyped DEF CommitBatch, Crash, DeadlockVictim, RollbackBatch
<1>2. EndCycle(w) /\ ReleaseRecords(w) /\ UNCHANGED viewVars
  BY DEF CommitBatch, Crash, DeadlockVictim, RollbackBatch
<1>3. status' \in [UsageIds -> BillingStatuses \union {None}] /\ crashes' \in Nat
  <2>1. CASE CommitBatch(w)
    BY <2>1 DEF CommitBatch, TypeOK
  <2>2. CASE Crash(w) \/ DeadlockVictim(w)
    BY <2>2 DEF Crash, DeadlockVictim, RollbackBatch, TypeOK
  <2> QED
    BY <2>1, <2>2
<1> QED
  BY <1>1, <1>2, <1>3, EndCycleTyped DEF TypeOK, ViewTypeOK, viewVars

LEMMA TypeStep ==
    ASSUME TypeOK, LocalsInv, LedgerInv, [Next]_vars
    PROVE  TypeOK'
<1>1. CASE UNCHANGED vars
  BY <1>1 DEF vars, locals, queueVars, TypeOK, StoreTypeOK, ViewTypeOK, storeVars, viewVars
<1>2. ASSUME NEW u \in UsageIds, CreateRecord(u) PROVE TypeOK'
  BY <1>2 DEF CreateRecord, locals, TypeOK, StoreTypeOK, ViewTypeOK, storeVars, viewVars,
              BillingStatuses
<1>3. ASSUME NEW w \in Sessions, Step(w) \/ CacheFailure(w) \/ Crash(w) PROVE TypeOK'
  <2>1. LocalsOf(w)
    BY DEF LocalsInv
  <2>2. CASE Fetch(w) \/ EvaluateRecord(w)
    BY <2>1, <2>2, FetchTyped, EvaluateTyped
  <2>3. CASE DeductUsage(w) \/ RestoreOriginal(w) \/ RefuseUsage(w)
    BY <2>1, <2>3, MoveTyped, RefuseTyped
  <2>4. CASE WriteUsage(w) \/ WriteRefund(w) \/ LookUpOriginal(w)
    BY <2>1, <2>4, WriteRowTyped, LookUpTyped
  <2>5. CASE FindNoOriginal(w) \/ RefundView(w) \/ SyncView(w) \/ MarkProcessed(w)
    BY <2>1, <2>5, ViewStepTyped, MarkProcessedTyped
  <2>6. CASE MarkFailed(w) \/ MarkSkipped(w) \/ SyncStats(w) \/ CacheFailure(w)
    BY <2>1, <2>6, LeaveTyped
  <2>7. CASE CommitBatch(w) \/ Crash(w) \/ DeadlockVictim(w)
    BY <2>7, EndTyped
  <2> QED
    BY <1>3, <2>2, <2>3, <2>4, <2>5, <2>6, <2>7 DEF Step
<1> QED
  BY <1>1, <1>2, <1>3 DEF Next, Drained

-----------------------------------------------------------------------------
(* The locals of the workers.                                              *)

(* A step of w moves the locals of w alone. *)
OthersKeep(w) ==
    \A v \in Sessions \ {w} :
        /\ pc'[v] = pc[v] /\ batch'[v] = batch[v] /\ result'[v] = result[v]
        /\ after'[v] = after[v] /\ original'[v] = original[v]

LEMMA GoToEffect ==
    ASSUME TypeOK, NEW w \in Sessions, NEW label, GoTo(w, label)
    PROVE  /\ OthersKeep(w)
           /\ pc'[w] = label
           /\ UNCHANGED <<batch, result, after, original>>
BY DEF TypeOK, GoTo, OthersKeep

LEMMA NextRecordEffect ==
    ASSUME TypeOK, NEW w \in Sessions, batch[w] # <<>>, NextRecord(w)
    PROVE  /\ OthersKeep(w)
           /\ batch'[w] = Tail(batch[w])
           /\ pc'[w] \in {"evaluate", "commit"}
           /\ batch'[w] = <<>> <=> pc'[w] = "commit"
<1>1. /\ OthersKeep(w)
      /\ batch'[w] = Tail(batch[w])
      /\ pc'[w] = IF Len(batch[w]) = 1 THEN "commit" ELSE "evaluate"
  BY DEF NextRecord, TypeOK, OthersKeep
<1>2. batch[w] \in Seq(UsageIds) /\ Len(batch[w]) \in Nat \ {0}
  BY HeadIsARecord
<1>3. Tail(batch[w]) = <<>> <=> Len(batch[w]) = 1
  <2>1. PICK rest \in Seq(UsageIds) : rest = Tail(batch[w]) /\ Len(rest) = Len(batch[w]) - 1
    BY <1>2, HeadTailProperties
  <2>2. rest = <<>> <=> Len(rest) = 0
    BY EmptySeq
  <2>3. Len(rest) = 0 <=> Len(batch[w]) = 1
    BY <1>2, <2>1
  <2> QED
    BY <2>1, <2>2, <2>3
<1> QED
  BY <1>1, <1>3

LEMMA EndCycleEffect ==
    ASSUME TypeOK, NEW w \in Sessions, EndCycle(w)
    PROVE  OthersKeep(w) /\ pc'[w] = "idle" /\ batch'[w] = <<>>
BY DEF TypeOK, EndCycle, OthersKeep

LEMMA LocalsFrame ==
    ASSUME LocalsInv, NEW w \in Sessions, OthersKeep(w), LocalsOf(w)'
    PROVE  LocalsInv'
BY DEF LocalsInv, LocalsOf, OthersKeep, Current, Rule, Cost

(* A worker that goes on with the same record and rule. *)
LEMMA SamePrice ==
    ASSUME NEW w \in Sessions, batch'[w] = batch[w], result'[w] = result[w]
    PROVE  /\ Current(w)' = Current(w)
           /\ Rule(w)' = Rule(w) /\ Cost(w)' = Cost(w) /\ Target(w)' = Target(w)
BY DEF Current, Rule, Cost, Target

LEMMA GoOnLocals ==
    ASSUME TypeOK, LocalsInv, NEW w \in Sessions, OthersKeep(w), pc[w] \notin {"idle", "commit"},
           batch'[w] = batch[w], result'[w] = result[w],
           pc'[w] \notin {"idle", "commit"},
           pc'[w] \in Priced => pc[w] \in Priced,
           pc'[w] \in Refunding => Rule(w).refund # None,
           pc'[w] \in Refunding \ {"lookup"} => original'[w].account \in Account
    PROVE  LocalsInv'
<1>1. LocalsOf(w)
  BY DEF LocalsInv
<1>2. LocalsOf(w)'
  BY <1>1, SamePrice DEF LocalsOf
<1> QED
  BY <1>2, LocalsFrame

(* A worker between two records, or between two cycles, needs no locals. *)
LEMMA FreshLocals ==
    ASSUME TypeOK, LocalsInv, NEW w \in Sessions, OthersKeep(w), pc'[w] \in {"idle", "evaluate", "commit"},
           batch'[w] = <<>> <=> pc'[w] \in {"idle", "commit"}
    PROVE  LocalsInv'
<1>1. LocalsOf(w)'
  BY DEF LocalsOf, Priced, Refunding
<1> QED
  BY <1>1, LocalsFrame

LEMMA FetchEffect ==
    ASSUME TypeOK, NEW w \in Sessions, Fetch(w)
    PROVE  OthersKeep(w) /\ pc'[w] = "evaluate" /\ batch'[w] # <<>>
BY DEF Fetch, TypeOK, OthersKeep

LEMMA EvaluateLocals ==
    ASSUME TypeOK, LocalsInv, NEW w \in Sessions, EvaluateRecord(w)
    PROVE  LocalsInv' /\ OthersKeep(w) /\ ~Midway(w)'
           /\ pc'[w] \in {"deduct", "skip", "fail", "evaluate", "commit"}
<1>1. LocalsOf(w)
  BY DEF LocalsInv
<1>2. pc[w] = "evaluate" /\ batch[w] # <<>>
  BY <1>1, EvaluateBranches
<1>3. CASE NextRecord(w)
  BY <1>2, <1>3, NextRecordEffect, FreshLocals DEF Midway
<1>4. ASSUME NEW label \in {"skip", "fail"}, GoTo(w, label)
      PROVE  LocalsInv' /\ OthersKeep(w) /\ ~Midway(w)' /\ pc'[w] = label
  <2>1. OthersKeep(w) /\ pc'[w] = label /\ UNCHANGED <<batch, result, after, original>>
    BY <1>4, GoToEffect
  <2> QED
    BY <1>2, <2>1, GoOnLocals DEF Priced, Refunding, Midway
<1>5. ASSUME NEW rule \in Positions(RulesFor[Current(w).service]),
             pc' = [pc EXCEPT ![w] = "deduct"],
             LET chosen == RulesFor[Current(w).service][rule]
             IN  ~Raises(chosen) /\ CalculateCost(chosen, Current(w)) > 0,
             result' = [result EXCEPT ![w] = Verdict("matched", rule)],
             UNCHANGED <<batch, after, original>>
      PROVE  LocalsInv' /\ OthersKeep(w) /\ ~Midway(w)' /\ pc'[w] = "deduct"
  <2>1. /\ OthersKeep(w) /\ pc'[w] = "deduct" /\ batch'[w] = batch[w]
        /\ result'[w].rule = rule
    BY <1>5 DEF TypeOK, OthersKeep, Verdict
  <2>2. Current(w)' = Current(w) /\ Rule(w)' = RulesFor[Current(w).service][rule]
    BY <2>1 DEF Current, Rule
  <2>3. LocalsOf(w)'
    BY <1>2, <1>5, <2>1, <2>2 DEF LocalsOf, Cost, Refunding
  <2> QED
    BY <2>1, <2>3, LocalsFrame DEF Midway
<1> QED
  BY <1>1, <1>3, <1>4, <1>5, EvaluateBranches

(* The steps that leave a record or a cycle. *)
LEMMA LeaveLocals ==
    ASSUME TypeOK, LocalsInv, NEW w \in Sessions,
           MarkFailed(w) \/ MarkSkipped(w) \/ SyncStats(w) \/ CacheFailure(w)
    PROVE  /\ LocalsInv' /\ OthersKeep(w) /\ pc'[w] \in {"evaluate", "commit"}
           /\ batch'[w] = Tail(batch[w])
BY LeaveBranches, NextRecordEffect, FreshLocals DEF LocalsInv

LEMMA EndLocals ==
    ASSUME TypeOK, LocalsInv, NEW w \in Sessions, EndCycle(w)
    PROVE  LocalsInv' /\ OthersKeep(w) /\ pc'[w] = "idle" /\ batch'[w] = <<>>
BY EndCycleEffect, FreshLocals

LEMMA MoveLocals ==
    ASSUME TypeOK, LocalsInv, NEW w \in Sessions, DeductUsage(w) \/ RestoreOriginal(w)
    PROVE  /\ LocalsInv' /\ OthersKeep(w)
           /\ UNCHANGED <<batch, result>>
           /\ \/ pc[w] = "deduct" /\ pc'[w] = "ledger"
              \/ pc[w] = "restore" /\ pc'[w] = "refund_ledger"
<1>1. LocalsOf(w)
  BY DEF LocalsInv
<1>2. PICK new \in Int :
        /\ UNCHANGED <<batch, result>>
        /\ \/ /\ pc[w] = "deduct" /\ pc' = [pc EXCEPT ![w] = "ledger"]
              /\ after' = [after EXCEPT ![w] = new]
              /\ UNCHANGED original
           \/ /\ pc[w] = "restore" /\ pc' = [pc EXCEPT ![w] = "refund_ledger"]
              /\ original' = [original EXCEPT ![w].balance = new]
              /\ UNCHANGED after
  BY <1>1, MoveBranches
<1>3. /\ OthersKeep(w)
      /\ \/ pc[w] = "deduct" /\ pc'[w] = "ledger"
         \/ pc[w] = "restore" /\ pc'[w] = "refund_ledger"
      /\ original'[w].account = original[w].account
  BY <1>2 DEF TypeOK, OthersKeep
<1>4. LocalsInv'
  BY <1>1, <1>2, <1>3, GoOnLocals DEF Priced, Refunding, LocalsOf
<1> QED
  BY <1>2, <1>3, <1>4

(* The steps of a record that only move on, and the lookup. *)
LEMMA GoToLocals ==
    ASSUME TypeOK, LocalsInv, NEW w \in Sessions,
           \/ RefuseUsage(w) \/ WriteUsage(w) \/ WriteRefund(w) \/ FindNoOriginal(w)
           \/ RefundView(w) \/ SyncView(w) \/ MarkProcessed(w)
    PROVE  /\ LocalsInv' /\ OthersKeep(w)
           /\ UNCHANGED <<batch, result, after, original>>
           /\ <<pc[w], pc'[w]>> \in
                 {<<"deduct", "fail">>, <<"ledger", "lookup">>, <<"ledger", "mark">>,
                  <<"refund_ledger", "refund_view">>, <<"lookup", "mark">>,
                  <<"refund_view", "mark">>, <<"view", "stats">>, <<"mark", "view">>}
<1>1. LocalsOf(w)
  BY DEF LocalsInv
<1>2. PICK label \in Labels :
        /\ GoTo(w, label)
        /\ <<pc[w], label>> \in
              {<<"deduct", "fail">>, <<"ledger", "lookup">>, <<"ledger", "mark">>,
               <<"refund_ledger", "refund_view">>, <<"lookup", "mark">>,
               <<"refund_view", "mark">>, <<"view", "stats">>, <<"mark", "view">>}
        /\ label = "lookup" => Rule(w).refund # None
  <2>1. CASE WriteUsage(w) \/ WriteRefund(w)
    BY <2>1, WriteBranches DEF Labels
  <2>2. CASE RefuseUsage(w) \/ FindNoOriginal(w)
    BY <2>2 DEF RefuseUsage, FindNoOriginal, Labels
  <2>3. CASE RefundView(w) \/ SyncView(w) \/ MarkProcessed(w)
    BY <2>3 DEF RefundView, SyncView, MarkProcessed, Labels
  <2> QED
    BY <2>1, <2>2, <2>3
<1>3. /\ OthersKeep(w) /\ pc'[w] = label
      /\ UNCHANGED <<batch, result, after, original>>
  BY <1>2, GoToEffect
<1>4. LocalsInv'
  BY <1>1, <1>2, <1>3, GoOnLocals DEF Priced, Refunding, LocalsOf
<1> QED
  BY <1>2, <1>3, <1>4

LEMMA LookUpLocals ==
    ASSUME TypeOK, LocalsInv, LedgerInv, NEW w \in Sessions, LookUpOriginal(w)
    PROVE  /\ LocalsInv' /\ OthersKeep(w) /\ pc[w] = "lookup" /\ pc'[w] = "restore"
           /\ UNCHANGED <<batch, result>>
<1>1. PICK a \in Account, amount \in Nat :
        original' = [original EXCEPT ![w].account = a, ![w].amount = amount]
  BY LookUpBranches
<1>2. /\ OthersKeep(w) /\ pc[w] = "lookup" /\ pc'[w] = "restore"
      /\ UNCHANGED <<batch, result>>
      /\ original'[w].account = a
  BY <1>1 DEF LookUpOriginal, TypeOK, OthersKeep
<1>3. LocalsOf(w)
  BY DEF LocalsInv
<1>4. LocalsInv'
  BY <1>2, <1>3, GoOnLocals DEF Priced, Refunding, LocalsOf
<1> QED
  BY <1>2, <1>4

-----------------------------------------------------------------------------
(* The ledger.                                                             *)

(* Between two movements everything a worker sees is sound. *)
LEMMA VisibleSound ==
    ASSUME TypeOK, AccountsInv, NEW w \in Sessions, NEW a \in Account, ~Midway(w)
    PROVE  /\ Sound(a, Visible(w, a))
           /\ RowsOfRecords(a, Visible(w, a).entries)
           /\ Extends(committed[a].entries, Visible(w, a).entries)
           /\ committed[a].row => Visible(w, a).row
<1>1. committed[a].entries \in Seq(Entry)
  BY DEF TypeOK, StoreTypeOK, AccountState
<1>2. CASE owner[a] = w
  BY <1>2, Constants DEF AccountsInv, OwnedInv, InMidst, Visible
<1>3. CASE owner[a] # w
  BY <1>1, <1>3, ExtendsItself DEF AccountsInv, CommittedInv, Visible
<1> QED
  BY <1>2, <1>3

(* What another worker owns, and what it is about to write, stays. *)
LEMMA OthersOwned ==
    ASSUME TypeOK, AccountsInv, NEW w \in Sessions, OthersKeep(w), NEW a \in Account,
           owner[a] # w, owner'[a] = owner[a], working'[a] = working[a],
           committed'[a] = committed[a]
    PROVE  OwnedInv(a)'
<1> SUFFICES ASSUME owner[a] # None PROVE OwnedInv(a)'
  BY DEF OwnedInv
<1>1. PICK v \in Sessions \ {w} : v = owner[a]
  BY DEF TypeOK, StoreTypeOK
<1>2. /\ owner[a] = v /\ owner'[a] = v
      /\ pc'[v] = pc[v] /\ batch'[v] = batch[v] /\ result'[v] = result[v]
      /\ after'[v] = after[v] /\ original'[v] = original[v]
  BY <1>1 DEF OthersKeep
<1>3. Target(v)' = Target(v) /\ Cost(v)' = Cost(v)
  BY <1>1, <1>2, SamePrice
<1>4. DueRow(v)' = DueRow(v) /\ DueAccount(v)' = DueAccount(v) /\ Midway(v)' = Midway(v)
  BY <1>2, <1>3 DEF DueRow, DueAccount, LedgerRow, Midway
<1>5. InMidst(a)' = InMidst(a) /\ DueRow(owner[a])' = DueRow(owner[a])
  BY <1>2, <1>4 DEF InMidst
<1>6. HalfDone(a, working[a], DueRow(owner[a]))' = HalfDone(a, working[a], DueRow(owner[a]))
  BY <1>5 DEF HalfDone
<1>7. OwnedInv(a)
  BY DEF AccountsInv
<1> QED
  BY <1>5, <1>6, <1>7 DEF OwnedInv

(* Nor does a step of w touch what others are about to write. *)
LEMMA OthersMidway ==
    ASSUME NEW w \in Sessions, OthersKeep(w), NEW v \in Sessions \ {w}
    PROVE  /\ Midway(v)' = Midway(v)
           /\ DueAccount(v)' = DueAccount(v)
<1>1. pc'[v] = pc[v] /\ batch'[v] = batch[v] /\ result'[v] = result[v] /\ original'[v] = original[v]
  BY DEF OthersKeep
<1>2. Target(v)' = Target(v)
  BY <1>1, SamePrice
<1> QED
  BY <1>1, <1>2 DEF Midway, DueAccount

LEMMA AccountsFrame ==
    ASSUME TypeOK, AccountsInv, NEW w \in Sessions, OthersKeep(w), UNCHANGED storeVars,
           ~Midway(w), ~Midway(w)'
    PROVE  AccountsInv'
<1> USE DEF storeVars
<1>1. \A a \in Account : CommittedInv(a)'
  BY DEF AccountsInv, CommittedInv
<1>2. ASSUME NEW v \in Sessions, Midway(v)' PROVE (owner[DueAccount(v)])' = v
  BY <1>2, OthersMidway DEF AccountsInv
<1>3. ASSUME NEW a \in Account PROVE OwnedInv(a)'
  <2>1. CASE owner[a] # w
    BY <2>1, OthersOwned
  <2>2. CASE owner[a] = w
    BY <2>2, Constants DEF AccountsInv, OwnedInv, InMidst
  <2> QED
    BY <2>1, <2>2
<1> QED
  BY <1>1, <1>2, <1>3 DEF AccountsInv

(* A movement starts: the worker sees a sound account and changes its balance. *)
LEMMA MoveBalance ==
    ASSUME TypeOK, AccountsInv, NEW w \in Sessions, OthersKeep(w), NEW a \in Account,
           NEW new \in Int, Lockable(w, a), Write(w, a, Reads(w, a, new)),
           ~Midway(w), Midway(w)', DueAccount(w)' = a,
           new >= 0, DueRow(w)'.balance_after = new,
           Follows(Visible(w, a).amount, DueRow(w)')
    PROVE  AccountsInv'
<1> DEFINE old == Visible(w, a)
           row == DueRow(w)'
<1>1. /\ old \in AccountState /\ Sound(a, old)
      /\ RowsOfRecords(a, old.entries)
      /\ Extends(committed[a].entries, old.entries)
  BY VisibleTyped, VisibleSound
<1>2. /\ Reads(w, a, new).entries = old.entries
      /\ Reads(w, a, new).amount = new
      /\ Reads(w, a, new).row
  BY <1>1 DEF Reads, AccountState
<1>3. /\ committed' = committed
      /\ working'[a] = Reads(w, a, new) /\ owner'[a] = w
      /\ \A b \in Account \ {a} : working'[b] = working[b] /\ owner'[b] = owner[b]
  BY DEF Write, TypeOK, StoreTypeOK
<1>4. row.balance_after = new /\ Follows(old.amount, row)
  OBVIOUS
<1>5. (DueRow(owner[a]))' = row /\ (Midway(owner[a]))' /\ (DueAccount(owner[a]))' = a
  BY <1>3
<1> HIDE DEF old, row
<1>6. OwnedInv(a)'
  <2>1. InMidst(a)'
    BY <1>5 DEF InMidst
  <2>2. HalfDone(a, working'[a], row)
    BY <1>1, <1>2, <1>3, <1>4 DEF HalfDone, Sound
  <2>3. (HalfDone(a, working[a], DueRow(owner[a])))'
    BY <1>5, <2>2 DEF HalfDone
  <2> QED
    BY <1>1, <1>2, <1>3, <2>1, <2>3 DEF OwnedInv
<1>7. ASSUME NEW b \in Account \ {a} PROVE OwnedInv(b)'
  <2>1. CASE owner[b] # w
    BY <1>3, <2>1, OthersOwned
  <2>2. CASE owner[b] = w
    <3>1. Sound(b, working[b]) /\ ~InMidst(b)'
      BY <1>3, <1>5, <2>2, Constants DEF AccountsInv, OwnedInv, InMidst
    <3> QED
      BY <1>3, <2>2, <3>1, Constants DEF AccountsInv, OwnedInv
  <2> QED
    BY <2>1, <2>2
<1>8. ASSUME NEW v \in Sessions, Midway(v)' PROVE owner'[DueAccount(v)'] = v
  <2>1. CASE v = w
    BY <1>3, <2>1
  <2>2. CASE v # w
    <3>1. owner[DueAccount(v)] = v /\ DueAccount(v)' = DueAccount(v)
      BY <1>8, <2>2, OthersMidway DEF AccountsInv
    <3>2. DueAccount(v) # a
      BY <2>2, <3>1, Constants DEF Lockable
    <3> QED
      BY <1>3, <3>1, <3>2 DEF Write, TypeOK, StoreTypeOK
  <2> QED
    BY <2>1, <2>2
<1>9. \A b \in Account : CommittedInv(b)'
  BY <1>3 DEF AccountsInv, CommittedInv
<1> QED
  BY <1>6, <1>7, <1>8, <1>9 DEF AccountsInv

(* A refused deduction keeps the lock of the row that it has read. *)
LEMMA LockRow ==
    ASSUME TypeOK, AccountsInv, NEW w \in Sessions, OthersKeep(w), NEW a \in Account,
           FindsRow(w, a), Lockable(w, a), Write(w, a, Visible(w, a)),
           ~Midway(w), ~Midway(w)'
    PROVE  AccountsInv'
<1>1. /\ committed' = committed
      /\ working'[a] = Visible(w, a) /\ owner'[a] = w
      /\ \A b \in Account \ {a} : working'[b] = working[b] /\ owner'[b] = owner[b]
  BY DEF Write, TypeOK, StoreTypeOK
<1>2. OwnedInv(a)'
  BY <1>1, VisibleSound DEF OwnedInv, InMidst, FindsRow
<1>3. ASSUME NEW b \in Account \ {a} PROVE OwnedInv(b)'
  <2>1. CASE owner[b] # w
    BY <1>1, <2>1, OthersOwned
  <2>2. CASE owner[b] = w
    BY <1>1, <2>2, Constants DEF AccountsInv, OwnedInv, InMidst
  <2> QED
    BY <2>1, <2>2
<1>4. ASSUME NEW v \in Sessions, Midway(v)' PROVE owner'[DueAccount(v)'] = v
  <2>1. v # w /\ owner[DueAccount(v)] = v /\ DueAccount(v)' = DueAccount(v)
    BY <1>4, OthersMidway DEF AccountsInv
  <2>2. DueAccount(v) # a
    BY <2>1, Constants DEF Lockable
  <2> QED
    BY <2>1, <2>2 DEF Write, TypeOK, StoreTypeOK
<1>5. \A b \in Account : CommittedInv(b)'
  BY <1>1 DEF AccountsInv, CommittedInv
<1> QED
  BY <1>2, <1>3, <1>4, <1>5 DEF AccountsInv

(* The row of a movement follows the balance before it. *)
LEMMA UsageFollows ==
    ASSUME NEW w, NEW before \in Int, NEW cost \in Int
    PROVE  Follows(before, LedgerRow(w, "usage", -cost, before - cost))
BY DEF Follows, LedgerRow

LEMMA RefundFollows ==
    ASSUME NEW w, NEW before \in Int, NEW amount \in Int
    PROVE  Follows(before, LedgerRow(w, "refund", amount, before + amount))
BY DEF Follows, LedgerRow

LEMMA MoveKeepsAccounts ==
    ASSUME IInv, NEW w \in Sessions, DeductUsage(w) \/ RestoreOriginal(w)
    PROVE  AccountsInv'
<1>1. TypeOK /\ AccountsInv /\ LocalsInv /\ LocalsOf(w)
  BY DEF IInv, LedgerInv, LocalsInv
<1>2. OthersKeep(w) /\ UNCHANGED <<batch, result>> /\ ~Midway(w) /\ Midway(w)'
  BY <1>1, MoveLocals DEF Midway
<1>3. Target(w)' = Target(w) /\ Cost(w)' = Cost(w)
  BY <1>2, SamePrice
<1>4. PICK a \in Account, new \in Int :
        /\ Lockable(w, a)
        /\ Write(w, a, Reads(w, a, new))
        /\ \/ /\ pc[w] = "deduct" /\ pc' = [pc EXCEPT ![w] = "ledger"]
              /\ a = Target(w) /\ new = Visible(w, a).amount - Cost(w)
              /\ new >= 0 /\ Cost(w) \in Nat
              /\ after' = [after EXCEPT ![w] = new]
           \/ /\ pc[w] = "restore" /\ pc' = [pc EXCEPT ![w] = "refund_ledger"]
              /\ a = original[w].account
              /\ new = Visible(w, a).amount + original[w].amount
              /\ original[w].amount \in Nat
              /\ original' = [original EXCEPT ![w].balance = new]
  BY <1>1, MoveBranches
<1>5. Visible(w, a).amount \in Int /\ Visible(w, a).amount >= 0
  BY <1>1, <1>2, VisibleTyped, VisibleSound DEF Sound
<1>6. CASE pc[w] = "deduct"
  <2>1. /\ pc'[w] = "ledger" /\ after'[w] = new /\ a = Target(w)
        /\ new = Visible(w, a).amount - Cost(w) /\ new >= 0 /\ Cost(w) \in Nat
    BY <1>1, <1>4, <1>6 DEF TypeOK
  <2>2. DueAccount(w)' = a
    BY <1>3, <2>1 DEF DueAccount
  <2>3. DueRow(w)' = LedgerRow(w, "usage", -Cost(w), new)
    BY <1>2, <1>3, <2>1 DEF DueRow, LedgerRow
  <2>4. DueRow(w)'.balance_after = new /\ Follows(Visible(w, a).amount, DueRow(w)')
    BY <1>5, <2>1, <2>3, UsageFollows DEF LedgerRow
  <2> QED
    BY <1>1, <1>2, <1>4, <2>1, <2>2, <2>4, MoveBalance
<1>7. CASE pc[w] = "restore"
  <2>1. /\ pc'[w] = "refund_ledger" /\ a = original[w].account
        /\ new = Visible(w, a).amount + original[w].amount /\ original[w].amount \in Nat
        /\ original'[w].account = a /\ original'[w].amount = original[w].amount
        /\ original'[w].balance = new
    BY <1>1, <1>4, <1>7 DEF TypeOK
  <2>2. DueAccount(w)' = a
    BY <2>1 DEF DueAccount
  <2>3. DueRow(w)' = LedgerRow(w, "refund", original[w].amount, new)
    BY <1>2, <2>1 DEF DueRow, LedgerRow
  <2>4. DueRow(w)'.balance_after = new /\ Follows(Visible(w, a).amount, DueRow(w)')
    BY <1>5, <2>1, <2>3, RefundFollows DEF LedgerRow
  <2> QED
    BY <1>1, <1>2, <1>4, <1>5, <2>1, <2>2, <2>4, MoveBalance
<1> QED
  BY <1>4, <1>6, <1>7

(* The row that is due names a charge of its account, or gives one back. *)
LEMMA DueRowBelongs ==
    ASSUME IInv, NEW w \in Sessions, Midway(w), NEW a, a = DueAccount(w)
    PROVE  /\ DueRow(w).source \in UsageIds /\ DueRow(w).source = Head(batch[w])
           /\ DueRow(w).type = "usage" =>
                 DueRow(w).amount < 0 /\ UsageRecords[DueRow(w).source].customer = a[1]
           /\ DueRow(w).type = "refund" =>
                 \E j \in 1..Len(working[a].entries) : GivesBack(DueRow(w), working[a].entries[j])
<1>1. TypeOK /\ AccountsInv /\ OriginalInv /\ LocalsOf(w) /\ pc[w] \in Priced
  BY DEF IInv, LedgerInv, LocalsInv, Midway, Priced, Refunding
<1>2. Head(batch[w]) \in UsageIds /\ DueRow(w).source = Head(batch[w])
  BY <1>1, PriceTyped DEF DueRow, LedgerRow
<1>3. CASE pc[w] = "ledger"
  <2>1. /\ Cost(w) \in Nat \ {0}
        /\ DueRow(w).amount = -Cost(w) /\ DueRow(w).type = "usage"
        /\ a[1] = UsageRecords[Head(batch[w])].customer
    BY <1>1, <1>3, PriceTyped DEF DueRow, LedgerRow, DueAccount
  <2> QED
    BY <1>2, <2>1
<1>4. CASE pc[w] = "refund_ledger"
  <2>1. /\ a = original[w].account /\ a \in Account
        /\ DueRow(w).type = "refund" /\ DueRow(w).amount = original[w].amount
    BY <1>1, <1>4 DEF DueRow, LedgerRow, DueAccount, LocalsOf, Refunding
  <2>2. owner[a] = w /\ Visible(w, a) = working[a]
    BY DEF IInv, LedgerInv, AccountsInv, Visible
  <2>3. PICK i \in 1..Len(working[a].entries) :
          IsOriginal(w, a, working[a].entries[i]) /\ original[w].amount = -working[a].entries[i].amount
    BY <1>1, <1>4, <2>1, <2>2 DEF OriginalInv, OriginalOf
  <2>4. RowsOfRecords(a, working[a].entries)
    BY <1>1, <2>1, <2>2, Constants DEF AccountsInv, OwnedInv
  <2> DEFINE charge == working[a].entries[i]
  <2>5. /\ charge.type = "usage" /\ a[1] = UsageRecords[Head(batch[w])].customer
        /\ UsageRecords[charge.source].customer = a[1]
        /\ UsageRecords[charge.source].reference = UsageRecords[Head(batch[w])].reference
        /\ UsageRecords[charge.source].service = Rule(w).refund
    BY <2>3, <2>4 DEF IsOriginal, RowsOfRecords, Current
  <2>6. \E k \in Positions(RulesFor[UsageRecords[Head(batch[w])].service]) :
           RulesFor[UsageRecords[Head(batch[w])].service][k].refund = UsageRecords[charge.source].service
    BY <1>1, <2>5 DEF LocalsOf, Rule, Current
  <2>7. DueRow(w).amount = -charge.amount
    BY <2>1, <2>3
  <2> HIDE DEF charge
  <2>8. GivesBack(DueRow(w), charge)
    BY <1>2, <2>5, <2>6, <2>7 DEF GivesBack
  <2> QED
    BY <1>2, <2>1, <2>8 DEF charge
<1> QED
  BY <1>3, <1>4 DEF Midway

LEMMA RowsAppend ==
    ASSUME NEW a \in Account, NEW q \in Seq(Entry), NEW e \in Entry, RowsOfRecords(a, q),
           e.source \in UsageIds,
           e.type = "usage" => e.amount < 0 /\ UsageRecords[e.source].customer = a[1],
           e.type = "refund" => \E j \in 1..Len(q) : GivesBack(e, q[j])
    PROVE  RowsOfRecords(a, Append(q, e))
<1>1. PICK r : r = Append(q, e)
  OBVIOUS
<1>2. /\ Len(r) = Len(q) + 1 /\ Len(q) \in Nat
      /\ r[Len(q) + 1] = e
      /\ \A i \in 1..Len(q) : r[i] = q[i]
  BY <1>1
<1>3. \A j \in 1..Len(q) : j \in 1..Len(r)
  BY <1>2
<1>4. ASSUME NEW i \in 1..Len(q)
      PROVE  /\ r[i].source \in UsageIds
             /\ r[i].type = "usage" =>
                   r[i].amount < 0 /\ UsageRecords[r[i].source].customer = a[1]
             /\ r[i].type = "refund" => \E j \in 1..Len(r) : GivesBack(r[i], r[j])
  BY <1>2, <1>3 DEF RowsOfRecords
<1>5. e.type = "refund" => \E j \in 1..Len(r) : GivesBack(e, r[j])
  BY <1>2, <1>3
<1>6. \A i \in 1..Len(r) : i \in 1..Len(q) \/ i = Len(q) + 1
  BY <1>2
<1>7. RowsOfRecords(a, r)
  BY <1>2, <1>4, <1>5, <1>6 DEF RowsOfRecords
<1> QED
  BY <1>1, <1>7

(* The ledger row makes the account of the movement sound again. *)
LEMMA WriteRow ==
    ASSUME IInv, NEW w \in Sessions, OthersKeep(w), NEW a, a = DueAccount(w),
           NEW e, e = DueRow(w), Midway(w), ~Midway(w)', CreateTransaction(w, a, e)
    PROVE  AccountsInv'
<1>1. TypeOK /\ AccountsInv /\ LocalsOf(w)
  BY DEF IInv, LedgerInv, LocalsInv
<1>2. a \in Account /\ e \in Entry /\ owner[a] = w /\ InMidst(a)
  BY <1>1, DueRowTyped DEF AccountsInv, InMidst
<1>3. PICK q \in Seq(Entry) : q = working[a].entries
  BY <1>1, <1>2 DEF TypeOK, StoreTypeOK, AccountState
<1>4. /\ Extends(committed[a].entries, q) /\ working[a].row /\ RowsOfRecords(a, q)
      /\ HalfDone(a, working[a], e)
  BY <1>1, <1>2, <1>3, Constants DEF AccountsInv, OwnedInv
<1>5. /\ Chained(a, q) /\ Follows(Closing(a, q), e)
      /\ working[a].amount = e.balance_after /\ working[a].amount >= 0
  BY <1>3, <1>4 DEF HalfDone
<1>6. /\ committed' = committed /\ owner' = owner
      /\ working'[a] = [working[a] EXCEPT !.entries = Append(q, e)]
      /\ \A b \in Account \ {a} : working'[b] = working[b]
  BY <1>1, <1>2, <1>3 DEF CreateTransaction, TypeOK, StoreTypeOK
<1>7. working[a] \in AccountState /\ committed[a].entries \in Seq(Entry)
  BY <1>1, <1>2 DEF TypeOK, StoreTypeOK, AccountState
<1>8. /\ working'[a].entries = Append(q, e)
      /\ working'[a].amount = working[a].amount
      /\ working'[a].row = working[a].row
  BY <1>6, <1>7 DEF AccountState
<1>9. Sound(a, working'[a])
  BY <1>2, <1>5, <1>8, SoundAppend
<1>10. RowsOfRecords(a, working'[a].entries)
  BY <1>2, <1>3, <1>4, <1>8, DueRowBelongs, RowsAppend
<1>11. Extends(committed[a].entries, working'[a].entries)
  BY <1>2, <1>4, <1>7, <1>8, ExtendsAppend
<1>12. OwnedInv(a)'
  <2>1. ~InMidst(a)'
    BY <1>2, <1>6 DEF InMidst
  <2> QED
    BY <1>4, <1>6, <1>8, <1>9, <1>10, <1>11, <2>1 DEF OwnedInv
<1>13. ASSUME NEW b \in Account \ {a} PROVE OwnedInv(b)'
  <2>1. CASE owner[b] # w
    BY <1>1, <1>6, <2>1, OthersOwned
  <2>2. CASE owner[b] = w
    <3>1. ~InMidst(b) /\ ~InMidst(b)'
      BY <1>6, <2>2 DEF InMidst
    <3> QED
      BY <1>1, <1>6, <2>2, <3>1, Constants DEF AccountsInv, OwnedInv
  <2> QED
    BY <2>1, <2>2
<1>14. ASSUME NEW v \in Sessions, Midway(v)' PROVE owner'[DueAccount(v)'] = v
  BY <1>1, <1>6, <1>14, OthersMidway DEF AccountsInv
<1>15. \A b \in Account : CommittedInv(b)'
  BY <1>1, <1>6 DEF AccountsInv, CommittedInv
<1>16. \A b \in Account : OwnedInv(b)'
  BY <1>12, <1>13
<1> QED
  BY <1>14, <1>15, <1>16 DEF AccountsInv

(* A worker that is not in the middle of a movement publishes sound accounts. *)
LEMMA CommitAccounts ==
    ASSUME TypeOK, AccountsInv, NEW w \in Sessions, ~Midway(w), Commit(w)
    PROVE  \A a \in Account :
              /\ Sound(a, committed'[a])
              /\ RowsOfRecords(a, committed'[a].entries)
              /\ Extends(committed[a].entries, committed'[a].entries)
              /\ committed[a].row => committed'[a].row
BY VisibleSound DEF Commit

LEMMA EndTransaction ==
    ASSUME TypeOK, LocalsInv, AccountsInv, NEW w \in Sessions, OthersKeep(w), ~Midway(w)',
           (Commit(w) /\ ~Midway(w)) \/ Rollback(w)
    PROVE  AccountsInv'
<1>1. \A a \in Account : CommittedInv(a)'
  BY CommitAccounts DEF Rollback, AccountsInv, CommittedInv
<1>2. \A a \in Account : owner'[a] = IF owner[a] = w THEN None ELSE owner[a]
  BY DEF Commit, Rollback, Released
<1>3. ASSUME NEW v \in Sessions, Midway(v)' PROVE owner'[DueAccount(v)'] = v
  <2>1. v # w /\ Midway(v) /\ owner[DueAccount(v)] = v /\ DueAccount(v)' = DueAccount(v)
    BY <1>3, OthersMidway DEF AccountsInv
  <2>2. DueAccount(v) \in Account
    BY <2>1, DueRowTyped DEF LocalsInv
  <2> QED
    BY <1>2, <2>1, <2>2
<1>4. ASSUME NEW a \in Account PROVE OwnedInv(a)'
  <2>1. CASE owner[a] = w
    BY <1>2, <2>1 DEF OwnedInv
  <2>2. CASE owner[a] # w
    <3>1. committed'[a] = committed[a] /\ working'[a] = working[a] /\ owner'[a] = owner[a]
      BY <1>2, <2>2 DEF Commit, Rollback, Visible
    <3> QED
      BY <2>2, <3>1, OthersOwned
  <2> QED
    BY <2>1, <2>2
<1> QED
  BY <1>1, <1>3, <1>4 DEF AccountsInv

(* The statements of a worker leave alone what the other workers see. *)
LEMMA OthersSee ==
    ASSUME TypeOK, NEW w \in Sessions, NEW v \in Sessions \ {w}, NEW a \in Account,
           \/ UNCHANGED storeVars
           \/ Rollback(w)
           \/ \E b \in Account : Lockable(w, b) /\ \E account : Write(w, b, account)
           \/ \E b \in Account : \E e : CreateTransaction(w, b, e)
    PROVE  Visible(v, a)' = Visible(v, a)
<1>1. CASE UNCHANGED storeVars
  BY <1>1 DEF storeVars, Visible
<1>2. CASE Rollback(w)
  BY <1>2, Constants DEF Rollback, Released, Visible, TypeOK, StoreTypeOK
<1>3. ASSUME NEW b \in Account, NEW account, Lockable(w, b), Write(w, b, account)
      PROVE  Visible(v, a)' = Visible(v, a)
  BY <1>3, Constants DEF Write, Lockable, Visible, TypeOK, StoreTypeOK
<1>4. ASSUME NEW b \in Account, NEW e, CreateTransaction(w, b, e)
      PROVE  Visible(v, a)' = Visible(v, a)
  BY <1>4 DEF CreateTransaction, Visible, TypeOK, StoreTypeOK
<1> QED
  BY <1>1, <1>2, <1>3, <1>4

(* They see a commit, which adds rows to the accounts of its worker. *)
LEMMA OthersSeeCommit ==
    ASSUME TypeOK, AccountsInv, NEW w \in Sessions, ~Midway(w), Commit(w),
           NEW v \in Sessions \ {w}, NEW a \in Account
    PROVE  /\ Visible(v, a)' = IF owner[a] = v THEN working[a] ELSE committed'[a]
           /\ Extends(Visible(v, a).entries, (Visible(v, a).entries)')
<1>1. Visible(v, a)' = IF owner[a] = v THEN working[a] ELSE committed'[a]
  BY Constants DEF Commit, Released, Visible, TypeOK, StoreTypeOK
<1>2. /\ working[a].entries \in Seq(Entry)
      /\ Extends(committed[a].entries, committed'[a].entries)
  BY CommitAccounts DEF TypeOK, StoreTypeOK, AccountState
<1>3. CASE owner[a] = v
  BY <1>1, <1>2, <1>3, ExtendsItself DEF Visible
<1>4. CASE owner[a] # v
  BY <1>1, <1>2, <1>4 DEF Visible
<1> QED
  BY <1>1, <1>3, <1>4

(* A charge that is found stays found in a history that extends the one it was found in. *)
LEMMA OriginalKept ==
    ASSUME NEW v \in Sessions, OriginalOf(v), NEW a, a = original[v].account,
           batch'[v] = batch[v], result'[v] = result[v],
           original'[v].account = a, original'[v].amount = original[v].amount,
           NEW p \in Seq(Entry), p = Visible(v, a).entries,
           NEW q \in Seq(Entry), q = (Visible(v, a).entries)', Extends(p, q)
    PROVE  OriginalOf(v)'
<1>1. PICK i \in 1..Len(p) : IsOriginal(v, a, p[i]) /\ original[v].amount = -p[i].amount
  BY DEF OriginalOf
<1>2. i \in 1..Len(q) /\ q[i] = p[i]
  <2>1. Len(p) \in Nat /\ Len(q) \in Nat /\ Len(p) <= Len(q) /\ q[i] = p[i]
    BY <1>1 DEF Extends
  <2> QED
    BY <2>1
<1>3. PICK e : e = p[i]
  OBVIOUS
<1>4. IsOriginal(v, a, e)' = IsOriginal(v, a, e)
  BY SamePrice DEF IsOriginal
<1>5. /\ IsOriginal(v, a, e)' /\ original'[v].amount = -e.amount
      /\ i \in 1..Len((Visible(v, a).entries)') /\ ((Visible(v, a).entries)')[i] = e
  BY <1>1, <1>2, <1>3, <1>4
<1> QED
  BY <1>5 DEF OriginalOf

LEMMA OriginalStep ==
    ASSUME IInv, StoreTypeOK', NEW w \in Sessions, OthersKeep(w),
           \/ UNCHANGED storeVars
           \/ Rollback(w)
           \/ \E b \in Account : Lockable(w, b) /\ \E account : Write(w, b, account)
           \/ \E b \in Account : \E e : CreateTransaction(w, b, e)
           \/ Commit(w) /\ ~Midway(w),
           pc'[w] \in {"restore", "refund_ledger"} => OriginalOf(w)'
    PROVE  OriginalInv'
<1> SUFFICES ASSUME NEW v \in Sessions \ {w}, pc'[v] \in {"restore", "refund_ledger"}
             PROVE  OriginalOf(v)'
  BY DEF OriginalInv
<1>1. TypeOK /\ AccountsInv /\ OriginalInv /\ LocalsOf(v)
  BY DEF IInv, LedgerInv, LocalsInv
<1>2. /\ pc'[v] = pc[v] /\ batch'[v] = batch[v] /\ result'[v] = result[v]
      /\ original'[v] = original[v]
  BY DEF OthersKeep
<1>3. OriginalOf(v) /\ original[v].account \in Account
  BY <1>1, <1>2 DEF OriginalInv, LocalsOf, Refunding
<1>4. PICK b \in Account : b = original[v].account
  BY <1>3
<1>5. Visible(v, b).entries \in Seq(Entry)
  BY <1>1, VisibleTyped
<1>6. (Visible(v, b).entries)' \in Seq(Entry)
  BY DEF StoreTypeOK, AccountState, Visible
<1>7. Extends(Visible(v, b).entries, (Visible(v, b).entries)')
  <2>1. CASE Commit(w) /\ ~Midway(w)
    BY <1>1, <2>1, OthersSeeCommit
  <2>2. CASE ~(Commit(w) /\ ~Midway(w))
    <3>1. Visible(v, b)' = Visible(v, b)
      BY <1>1, <2>2, OthersSee
    <3> QED
      BY <1>5, <3>1, ExtendsItself
  <2> QED
    BY <2>1, <2>2
<1> QED
  BY <1>2, <1>3, <1>4, <1>5, <1>6, <1>7, OriginalKept

-----------------------------------------------------------------------------
(* The queue.                                                              *)

LEMMA BatchFrame ==
    ASSUME NEW w \in Sessions, OthersKeep(w), NEW v \in Sessions \ {w}, TypeOK, LocalsInv,
           BatchInv(v),
           \A u \in UsageIds : holder[u] = v => holder'[u] = v /\ mark'[u] = mark[u]
    PROVE  BatchInv(v)'
<1>1. pc'[v] = pc[v] /\ batch'[v] = batch[v]
  BY DEF OthersKeep
<1>2. \A i \in 1..Len(batch[v]) : batch[v][i] \in UsageIds /\ holder[batch[v][i]] = v
  <2>1. batch[v] \in Seq(UsageIds)
    BY DEF TypeOK
  <2> QED
    BY <2>1 DEF BatchInv
<1>3. CASE pc[v] \in {"view", "stats"}
  <2>1. Head(batch[v]) \in UsageIds /\ holder[Head(batch[v])] = v
    <3>1. batch[v] # <<>>
      BY <1>3 DEF LocalsInv, LocalsOf
    <3>2. /\ Len(batch[v]) \in Nat \ {0}
          /\ Head(batch[v]) \in UsageIds /\ Head(batch[v]) = batch[v][1]
      BY <3>1, HeadIsARecord
    <3> QED
      BY <1>2, <3>2
  <2> QED
    BY <1>1, <1>2, <2>1 DEF BatchInv
<1>4. CASE pc[v] \notin {"view", "stats"}
  BY <1>1, <1>2, <1>4 DEF BatchInv
<1> QED
  BY <1>3, <1>4

(* The records of a batch behind its head, and the head itself. *)
LEMMA BatchHead ==
    ASSUME TypeOK, QueueInv, NEW w \in Sessions, batch[w] # <<>>
    PROVE  /\ Head(batch[w]) \in UsageIds /\ holder[Head(batch[w])] = w
           /\ pc[w] \notin {"view", "stats"} => mark[Head(batch[w])] = None
           /\ \A i \in 2..Len(batch[w]) :
                 /\ batch[w][i] \in UsageIds /\ holder[batch[w][i]] = w
                 /\ batch[w][i] # Head(batch[w]) /\ mark[batch[w][i]] = None
<1>1. /\ batch[w] \in Seq(UsageIds) /\ Len(batch[w]) \in Nat \ {0}
      /\ Head(batch[w]) \in UsageIds /\ Head(batch[w]) = batch[w][1]
  BY HeadIsARecord
<1>2. BatchInv(w)
  BY DEF QueueInv
<1>3. 1 \in 1..Len(batch[w]) /\ \A i \in 2..Len(batch[w]) : i \in 1..Len(batch[w]) /\ i > 1 /\ i # 1
  BY <1>1
<1> QED
  BY <1>1, <1>2, <1>3 DEF BatchInv

LEMMA TailOfBatch ==
    ASSUME TypeOK, NEW w \in Sessions, batch[w] # <<>>
    PROVE  \A i \in 1..Len(Tail(batch[w])) :
              Tail(batch[w])[i] = batch[w][i + 1] /\ i + 1 \in 2..Len(batch[w])
<1>1. PICK q \in Seq(UsageIds) : q = batch[w]
  BY HeadIsARecord
<1>2. Len(q) \in Nat \ {0} /\ Len(Tail(q)) = Len(q) - 1
  BY <1>1, HeadIsARecord, HeadTailProperties
<1>3. ASSUME NEW i \in 1..(Len(q) - 1) PROVE Tail(q)[i] = q[i + 1] /\ i + 1 \in 2..Len(q)
  BY <1>2
<1> QED
  BY <1>1, <1>2, <1>3

(* A worker takes up the next record; the one it leaves may get a status. *)
LEMMA TailKeepsQueue ==
    ASSUME TypeOK, LocalsInv, QueueInv, NEW w \in Sessions, batch[w] # <<>>, OthersKeep(w),
           UNCHANGED <<status, holder>>, batch'[w] = Tail(batch[w]),
           pc'[w] \in {"evaluate", "commit"},
           \A u \in UsageIds :
              \/ mark'[u] = mark[u]
              \/ u = Head(batch[w]) /\ mark'[u] \in {"failed", "skipped"}
    PROVE  QueueInv'
<1>1. /\ Head(batch[w]) \in UsageIds /\ holder[Head(batch[w])] = w
      /\ \A i \in 2..Len(batch[w]) :
            /\ batch[w][i] \in UsageIds /\ holder[batch[w][i]] = w
            /\ batch[w][i] # Head(batch[w]) /\ mark[batch[w][i]] = None
  BY BatchHead
<1>2. ASSUME NEW u \in UsageIds PROVE RecordInv(u)'
  BY <1>1, Constants DEF QueueInv, RecordInv
<1>3. BatchInv(w)'
  <2>1. \A i \in 1..Len(batch'[w]) :
          batch'[w][i] = batch[w][i + 1] /\ i + 1 \in 2..Len(batch[w])
    BY TailOfBatch
  <2>2. \A i \in 1..Len(batch'[w]) : holder'[batch'[w][i]] = w /\ mark'[batch'[w][i]] = None
    BY <1>1, <2>1
  <2>3. Len(batch[w]) \in Nat /\ \A i \in 2..Len(batch[w]) : i \in 1..Len(batch[w])
    BY HeadIsARecord
  <2>4. ASSUME NEW i \in 1..Len(batch'[w]), NEW j \in 1..Len(batch'[w]), i # j
        PROVE  batch'[w][i] # batch'[w][j]
    <3>1. i + 1 # j + 1
      BY <2>4
    <3>2. BatchInv(w) /\ i + 1 \in 1..Len(batch[w]) /\ j + 1 \in 1..Len(batch[w])
      BY <2>1, <2>3 DEF QueueInv
    <3> QED
      BY <2>1, <3>1, <3>2 DEF BatchInv
  <2> QED
    BY <2>2, <2>4 DEF BatchInv
<1>4. ASSUME NEW v \in Sessions \ {w} PROVE BatchInv(v)'
  <2>1. \A u \in UsageIds : holder[u] = v => holder'[u] = v /\ mark'[u] = mark[u]
    BY <1>1
  <2> QED
    BY <2>1, BatchFrame DEF QueueInv
<1> QED
  BY <1>2, <1>3, <1>4 DEF QueueInv

LEMMA LeaveKeepsQueue ==
    ASSUME TypeOK, LocalsInv, QueueInv, NEW w \in Sessions,
           MarkFailed(w) \/ MarkSkipped(w) \/ SyncStats(w) \/ CacheFailure(w)
    PROVE  QueueInv'
<1>1. /\ batch[w] # <<>> /\ UNCHANGED <<status, holder>>
      /\ OthersKeep(w) /\ batch'[w] = Tail(batch[w]) /\ pc'[w] \in {"evaluate", "commit"}
  BY LeaveBranches, LeaveLocals DEF LocalsInv
<1>2. Head(batch[w]) \in UsageIds
  BY <1>1, BatchHead
<1>3. \A u \in UsageIds :
        \/ mark'[u] = mark[u]
        \/ u = Head(batch[w]) /\ mark'[u] \in {"failed", "skipped"}
  <2>1. \/ \E outcome \in {"failed", "skipped"} : MarkRecord(w, outcome)
        \/ mark' = mark
    BY LeaveBranches DEF LocalsInv
  <2>2. ASSUME NEW outcome \in {"failed", "skipped"}, MarkRecord(w, outcome), NEW u \in UsageIds
        PROVE  mark'[u] = mark[u] \/ (u = Head(batch[w]) /\ mark'[u] \in {"failed", "skipped"})
    BY <1>2, <2>2 DEF MarkRecord, TypeOK
  <2> QED
    BY <2>1, <2>2
<1> QED
  BY <1>1, <1>3, TailKeepsQueue

LEMMA MarkProcessedKeepsQueue ==
    ASSUME TypeOK, LocalsInv, QueueInv, NEW w \in Sessions, MarkProcessed(w)
    PROVE  QueueInv'
<1>1. /\ batch[w] # <<>> /\ UNCHANGED <<status, holder, batch>>
      /\ OthersKeep(w) /\ pc[w] = "mark" /\ pc'[w] = "view"
      /\ mark' = [mark EXCEPT ![Head(batch[w])] = "processed"]
  BY GoToLocals DEF MarkProcessed, MarkRecord, LocalsInv, LocalsOf
<1>2. /\ Head(batch[w]) \in UsageIds /\ holder[Head(batch[w])] = w
      /\ \A i \in 2..Len(batch[w]) :
            /\ batch[w][i] \in UsageIds /\ holder[batch[w][i]] = w
            /\ batch[w][i] # Head(batch[w]) /\ mark[batch[w][i]] = None
  BY <1>1, BatchHead
<1>3. \A u \in UsageIds : mark'[u] = IF u = Head(batch[w]) THEN "processed" ELSE mark[u]
  BY <1>1, <1>2 DEF TypeOK
<1>4. ASSUME NEW u \in UsageIds PROVE RecordInv(u)'
  BY <1>1, <1>2, <1>3, Constants DEF QueueInv, RecordInv
<1>5. BatchInv(w)'
  <2>1. Len(batch[w]) \in Nat /\ \A i \in 1..Len(batch[w]) : i > 1 => i \in 2..Len(batch[w])
    BY <1>1, HeadIsARecord
  <2> QED
    BY <1>1, <1>2, <1>3, <2>1 DEF QueueInv, BatchInv
<1>6. ASSUME NEW v \in Sessions \ {w} PROVE BatchInv(v)'
  <2>1. \A u \in UsageIds : holder[u] = v => holder'[u] = v /\ mark'[u] = mark[u]
    BY <1>1, <1>2, <1>3
  <2> QED
    BY <1>1, <2>1, BatchFrame DEF QueueInv
<1> QED
  BY <1>4, <1>5, <1>6 DEF QueueInv

LEMMA FetchKeepsQueue ==
    ASSUME TypeOK, LocalsInv, QueueInv, NEW w \in Sessions, Fetch(w)
    PROVE  QueueInv'
<1>1. PICK queue \in GetPendingRecords(w) :
        /\ batch' = [batch EXCEPT ![w] = queue]
        /\ holder' = [u \in UsageIds |-> IF u \in ToSet(queue) THEN w ELSE holder[u]]
  BY DEF Fetch
<1>2. /\ queue \in Seq(UsageIds)
      /\ \A i \in 1..Len(queue) : status[queue[i]] = "pending" /\ holder[queue[i]] = None
      /\ \A i, j \in 1..Len(queue) : i # j => queue[i] # queue[j]
      /\ ToSet(queue) = {queue[i] : i \in 1..Len(queue)}
  BY FetchedBatch
<1>3. /\ OthersKeep(w) /\ pc'[w] = "evaluate" /\ UNCHANGED <<status, mark>>
      /\ batch'[w] = queue
  BY <1>1, FetchEffect DEF Fetch, TypeOK
<1>4. \A i \in 1..Len(queue) : queue[i] \in UsageIds
  BY <1>2
<1>5. ASSUME NEW u \in UsageIds PROVE RecordInv(u)'
  BY <1>1, <1>2, <1>3, Constants DEF QueueInv, RecordInv
<1>6. BatchInv(w)'
  <2>1. \A i \in 1..Len(queue) : mark[queue[i]] = None /\ holder'[queue[i]] = w
    BY <1>1, <1>2, <1>4 DEF QueueInv, RecordInv
  <2> QED
    BY <1>2, <1>3, <2>1 DEF BatchInv
<1>7. ASSUME NEW v \in Sessions \ {w} PROVE BatchInv(v)'
  <2>1. \A u \in UsageIds : holder[u] = v => holder'[u] = v /\ mark'[u] = mark[u]
    BY <1>1, <1>2, <1>3, Constants
  <2> QED
    BY <1>3, <2>1, BatchFrame DEF QueueInv
<1> QED
  BY <1>5, <1>6, <1>7 DEF QueueInv

LEMMA EndKeepsQueue ==
    ASSUME TypeOK, LocalsInv, QueueInv, NEW w \in Sessions,
           CommitBatch(w) \/ Crash(w) \/ DeadlockVictim(w)
    PROVE  QueueInv'
<1>1. EndCycle(w) /\ ReleaseRecords(w)
  BY DEF CommitBatch, Crash, DeadlockVictim, RollbackBatch
<1>2. \A u \in UsageIds :
        /\ holder[u] = w => holder'[u] = None /\ mark'[u] = None
        /\ holder[u] # w => holder'[u] = holder[u] /\ mark'[u] = mark[u]
  BY <1>1 DEF ReleaseRecords
<1>3. \A u \in UsageIds : holder[u] # w => status'[u] = status[u]
  BY DEF CommitBatch, Crash, DeadlockVictim, RollbackBatch
<1>4. OthersKeep(w) /\ pc'[w] = "idle" /\ batch'[w] = <<>>
  BY <1>1, EndLocals
<1>5. ASSUME NEW u \in UsageIds PROVE RecordInv(u)'
  BY <1>2, <1>3 DEF QueueInv, RecordInv
<1>6. BatchInv(w)'
  BY <1>4 DEF BatchInv
<1>7. ASSUME NEW v \in Sessions \ {w} PROVE BatchInv(v)'
  <2>1. \A u \in UsageIds : holder[u] = v => holder'[u] = v /\ mark'[u] = mark[u]
    BY <1>2
  <2> QED
    BY <1>4, <2>1, BatchFrame DEF QueueInv
<1> QED
  BY <1>5, <1>6, <1>7 DEF QueueInv

(* The steps that touch neither the queue nor the batch. *)
LEMMA QueueFrame ==
    ASSUME TypeOK, LocalsInv, QueueInv, NEW w \in Sessions, OthersKeep(w),
           UNCHANGED queueVars, batch'[w] = batch[w],
           pc'[w] \in {"view", "stats"} <=> pc[w] \in {"view", "stats"}
    PROVE  QueueInv'
<1>1. \A u \in UsageIds : RecordInv(u)'
  BY DEF QueueInv, RecordInv, queueVars
<1>2. BatchInv(w)'
  BY DEF QueueInv, BatchInv, queueVars
<1>3. ASSUME NEW v \in Sessions \ {w} PROVE BatchInv(v)'
  BY BatchFrame DEF QueueInv, queueVars
<1> QED
  BY <1>1, <1>2, <1>3 DEF QueueInv

LEMMA EvaluateKeepsQueue ==
    ASSUME TypeOK, LocalsInv, QueueInv, NEW w \in Sessions, EvaluateRecord(w)
    PROVE  QueueInv'
<1>1. /\ pc[w] = "evaluate" /\ batch[w] # <<>> /\ UNCHANGED queueVars
      /\ OthersKeep(w) /\ pc'[w] \in {"deduct", "skip", "fail", "evaluate", "commit"}
  BY EvaluateBranches, EvaluateLocals DEF LocalsInv
<1>2. CASE NextRecord(w)
  BY <1>1, <1>2, NextRecordEffect, TailKeepsQueue DEF queueVars
<1>3. CASE batch' = batch
  BY <1>1, <1>3, QueueFrame
<1> QED
  BY <1>2, <1>3, EvaluateBranches DEF LocalsInv, GoTo

-----------------------------------------------------------------------------
(* The inductive invariant.                                                *)

LEMMA InitInv == Init => IInv
<1> SUFFICES ASSUME Init PROVE IInv
  OBVIOUS
<1>1. TypeOK
  <2>1. StoreTypeOK
    BY Constants DEF Init, StoreInit, StoreTypeOK, AccountState
  <2>2. ViewTypeOK
    BY DEF Init, ViewInit, ViewTypeOK
  <2>3. <<>> \in Seq(UsageIds)
    OBVIOUS
  <2> QED
    BY <2>1, <2>2, <2>3, NoLocalsTyped DEF Init, TypeOK, Labels
<1>2. LocalsInv
  BY DEF Init, LocalsInv, LocalsOf, Priced, Refunding
<1>3. ASSUME NEW a \in Account PROVE CommittedInv(a) /\ OwnedInv(a)
  <2>1. committed[a].entries = <<>> /\ committed[a].amount = Opening[a] /\ owner[a] = None
    BY DEF Init, StoreInit
  <2> QED
    BY <2>1, OpeningIsSound DEF CommittedInv, OwnedInv, RowsOfRecords
<1>4. LedgerInv
  BY <1>3 DEF LedgerInv, AccountsInv, OriginalInv, Midway, Init
<1>5. QueueInv
  BY DEF Init, QueueInv, RecordInv, BatchInv
<1> QED
  BY <1>1, <1>2, <1>4, <1>5 DEF IInv

LEMMA CreateKeeps ==
    ASSUME IInv, NEW u \in UsageIds, CreateRecord(u)
    PROVE  LocalsInv' /\ LedgerInv' /\ QueueInv'
<1> USE DEF CreateRecord, storeVars, locals
<1>1. LocalsInv'
  BY DEF IInv, LocalsInv, LocalsOf, Current, Rule, Cost
<1>2. AccountsInv'
  BY ZenonT(60) DEF IInv, LedgerInv, AccountsInv, CommittedInv, OwnedInv, InMidst, Midway, DueAccount,
         DueRow, Target, Current, Rule, Cost, LedgerRow, HalfDone
<1>3. OriginalInv'
  BY ZenonT(60) DEF IInv, LedgerInv, OriginalInv, OriginalOf, IsOriginal, Current, Rule, Visible
<1>4. \A v \in UsageIds : RecordInv(v)'
  BY Constants DEF IInv, TypeOK, QueueInv, RecordInv
<1>5. \A w \in Sessions : BatchInv(w)'
  BY DEF IInv, QueueInv, BatchInv
<1> QED
  BY <1>1, <1>2, <1>3, <1>4, <1>5 DEF LedgerInv, QueueInv

(* The steps that leave the database alone. *)
LEMMA QuietKeeps ==
    ASSUME IInv, TypeOK', NEW w \in Sessions,
           \/ Fetch(w) \/ EvaluateRecord(w) \/ FindNoOriginal(w) \/ RefundView(w)
           \/ MarkProcessed(w) \/ MarkFailed(w) \/ MarkSkipped(w)
           \/ SyncView(w) \/ SyncStats(w) \/ CacheFailure(w)
    PROVE  LocalsInv' /\ LedgerInv' /\ QueueInv'
<1>1. TypeOK /\ LocalsInv /\ LedgerInv /\ QueueInv
  BY DEF IInv
<1>2. /\ LocalsInv' /\ OthersKeep(w) /\ UNCHANGED storeVars
      /\ pc[w] \notin {"ledger", "refund_ledger"}
      /\ pc'[w] \notin {"ledger", "restore", "refund_ledger"}
      /\ QueueInv'
  <2>1. CASE Fetch(w)
    BY <1>1, <2>1, FetchEffect, FreshLocals, FetchKeepsQueue DEF Fetch
  <2>2. CASE EvaluateRecord(w)
    BY <1>1, <2>2, EvaluateLocals, EvaluateKeepsQueue DEF EvaluateRecord
  <2>3. CASE FindNoOriginal(w) \/ RefundView(w) \/ SyncView(w)
    <3>1. /\ UNCHANGED <<storeVars, queueVars>>
          /\ LocalsInv' /\ OthersKeep(w) /\ UNCHANGED batch
          /\ <<pc[w], pc'[w]>> \in {<<"lookup", "mark">>, <<"refund_view", "mark">>, <<"view", "stats">>}
      BY <1>1, <2>3, GoToLocals DEF FindNoOriginal, RefundView, SyncView
    <3> QED
      BY <1>1, <3>1, QueueFrame
  <2>4. CASE MarkProcessed(w)
    BY <1>1, <2>4, GoToLocals, MarkProcessedKeepsQueue DEF MarkProcessed, MarkRecord
  <2>5. CASE MarkFailed(w) \/ MarkSkipped(w) \/ SyncStats(w) \/ CacheFailure(w)
    <3>1. UNCHANGED storeVars /\ pc[w] \in {"fail", "skip", "stats"} \union CacheFailsAt
      BY <1>1, <2>5, LeaveBranches DEF LocalsInv
    <3> QED
      BY <1>1, <2>5, <3>1, CacheCalls, LeaveLocals, LeaveKeepsQueue
  <2> QED
    BY <2>1, <2>2, <2>3, <2>4, <2>5
<1>3. AccountsInv'
  BY <1>1, <1>2, AccountsFrame DEF LedgerInv, Midway
<1>4. OriginalInv'
  BY <1>2, OriginalStep DEF TypeOK
<1> QED
  BY <1>2, <1>3, <1>4 DEF LedgerInv

LEMMA MoveKeeps ==
    ASSUME IInv, TypeOK', NEW w \in Sessions, DeductUsage(w) \/ RestoreOriginal(w)
    PROVE  LocalsInv' /\ LedgerInv' /\ QueueInv'
<1>1. TypeOK /\ LocalsInv /\ LocalsOf(w) /\ LedgerInv /\ QueueInv
  BY DEF IInv, LocalsInv
<1>2. /\ LocalsInv' /\ OthersKeep(w) /\ UNCHANGED <<batch, result>>
      /\ \/ pc[w] = "deduct" /\ pc'[w] = "ledger"
         \/ pc[w] = "restore" /\ pc'[w] = "refund_ledger"
  BY <1>1, MoveLocals
<1>3. PICK a \in Account, new \in Int :
        /\ Lockable(w, a) /\ Write(w, a, Reads(w, a, new))
        /\ UNCHANGED queueVars
        /\ pc[w] = "restore" =>
              /\ a = original[w].account
              /\ original' = [original EXCEPT ![w].balance = new]
  BY <1>1, MoveBranches
<1>4. QueueInv'
  BY <1>1, <1>2, <1>3, QueueFrame
<1>5. pc'[w] \in {"restore", "refund_ledger"} => OriginalOf(w)'
  <2> SUFFICES ASSUME pc[w] = "restore" PROVE OriginalOf(w)'
    BY <1>2
  <2>1. OriginalOf(w) /\ a = original[w].account
    BY <1>1, <1>3 DEF LedgerInv, OriginalInv
  <2>2. original'[w].account = a /\ original'[w].amount = original[w].amount
    BY <1>1, <1>3 DEF TypeOK
  <2>3. Visible(w, a).entries \in Seq(Entry)
    BY <1>1, VisibleTyped
  <2>4. (Visible(w, a).entries)' = Visible(w, a).entries
    BY <1>1, <1>3, VisibleTyped DEF Write, Reads, Visible, TypeOK, StoreTypeOK, AccountState
  <2> QED
    BY <1>2, <2>1, <2>2, <2>3, <2>4, ExtendsItself, OriginalKept
<1>6. OriginalInv'
  BY <1>2, <1>3, <1>5, OriginalStep DEF TypeOK
<1> QED
  BY <1>2, <1>4, <1>6, MoveKeepsAccounts DEF LedgerInv

LEMMA RefuseKeeps ==
    ASSUME IInv, TypeOK', NEW w \in Sessions, RefuseUsage(w)
    PROVE  LocalsInv' /\ LedgerInv' /\ QueueInv'
<1>1. TypeOK /\ LocalsInv /\ LocalsOf(w) /\ AccountsInv /\ QueueInv
  BY DEF IInv, LocalsInv, LedgerInv
<1>2. /\ LocalsInv' /\ OthersKeep(w) /\ UNCHANGED <<batch, queueVars>>
      /\ pc[w] = "deduct" /\ pc'[w] = "fail"
  BY <1>1, GoToLocals, RefuseBranches
<1>3. /\ ~Midway(w) /\ ~Midway(w)'
      /\ \/ UNCHANGED storeVars
         \/ \E a \in Account : FindsRow(w, a) /\ Lockable(w, a) /\ Write(w, a, Visible(w, a))
  BY <1>1, <1>2, RefuseBranches DEF Midway
<1>4. AccountsInv'
  BY <1>1, <1>2, <1>3, AccountsFrame, LockRow
<1>5. OriginalInv'
  BY <1>2, <1>3, OriginalStep DEF TypeOK
<1> QED
  BY <1>1, <1>2, <1>4, <1>5, QueueFrame DEF LedgerInv

LEMMA WriteKeeps ==
    ASSUME IInv, TypeOK', NEW w \in Sessions, WriteUsage(w) \/ WriteRefund(w)
    PROVE  LocalsInv' /\ LedgerInv' /\ QueueInv'
<1>1. TypeOK /\ LocalsInv /\ LocalsOf(w) /\ AccountsInv /\ QueueInv
  BY DEF IInv, LocalsInv, LedgerInv
<1>2. /\ LocalsInv' /\ OthersKeep(w) /\ UNCHANGED batch
      /\ pc'[w] \in {"lookup", "mark", "refund_view"}
  BY <1>1, GoToLocals, WriteBranches DEF Midway
<1>3. PICK a, e : a = DueAccount(w) /\ e = DueRow(w)
  OBVIOUS
<1>4. /\ Midway(w) /\ CreateTransaction(w, a, e) /\ UNCHANGED queueVars
      /\ a \in Account
  BY <1>1, <1>3, WriteBranches, DueRowTyped
<1>5. AccountsInv'
  BY <1>2, <1>3, <1>4, WriteRow DEF Midway
<1>6. OriginalInv'
  BY <1>2, <1>4, OriginalStep DEF TypeOK
<1>7. QueueInv'
  BY <1>1, <1>2, <1>4, QueueFrame DEF Midway
<1> QED
  BY <1>2, <1>5, <1>6, <1>7 DEF LedgerInv

LEMMA LookUpKeeps ==
    ASSUME IInv, TypeOK', NEW w \in Sessions, LookUpOriginal(w)
    PROVE  LocalsInv' /\ LedgerInv' /\ QueueInv'
<1>1. TypeOK /\ LocalsInv /\ LedgerInv /\ AccountsInv /\ QueueInv
  BY DEF IInv, LedgerInv
<1>2. /\ LocalsInv' /\ OthersKeep(w) /\ pc[w] = "lookup" /\ pc'[w] = "restore"
      /\ UNCHANGED <<batch, result, storeVars, queueVars>>
  BY <1>1, LookUpLocals DEF LookUpOriginal
<1>3. PICK a \in Account : \E i \in 1..Len(Visible(w, a).entries) :
        LET amount == -Visible(w, a).entries[i].amount
        IN  /\ IsOriginal(w, a, Visible(w, a).entries[i])
            /\ original' = [original EXCEPT ![w].account = a, ![w].amount = amount]
  BY <1>1, LookUpBranches
<1>4. PICK i \in 1..Len(Visible(w, a).entries) :
        /\ IsOriginal(w, a, Visible(w, a).entries[i])
        /\ original' = [original EXCEPT ![w].account = a,
                                        ![w].amount = -Visible(w, a).entries[i].amount]
  BY <1>3
<1>5. PICK e : e = Visible(w, a).entries[i]
  OBVIOUS
<1>6. original'[w].account = a /\ original'[w].amount = -e.amount
  BY <1>1, <1>4, <1>5 DEF TypeOK
<1>7. IsOriginal(w, a, e)'
  BY <1>2, <1>4, <1>5, SamePrice DEF IsOriginal
<1>8. Visible(w, a)' = Visible(w, a)
  BY <1>2 DEF Visible, storeVars
<1>9. OriginalOf(w)'
  BY <1>4, <1>5, <1>6, <1>7, <1>8 DEF OriginalOf
<1>10. OriginalInv'
  BY <1>2, <1>9, OriginalStep DEF TypeOK
<1>11. AccountsInv'
  BY <1>1, <1>2, AccountsFrame DEF Midway
<1> QED
  BY <1>1, <1>2, <1>10, <1>11, QueueFrame DEF LedgerInv

LEMMA EndKeeps ==
    ASSUME IInv, TypeOK', NEW w \in Sessions, CommitBatch(w) \/ Crash(w) \/ DeadlockVictim(w)
    PROVE  LocalsInv' /\ LedgerInv' /\ QueueInv'
<1>1. TypeOK /\ LocalsInv /\ AccountsInv /\ QueueInv
  BY DEF IInv, LedgerInv
<1>2. /\ EndCycle(w)
      /\ (Commit(w) /\ ~Midway(w)) \/ Rollback(w)
  BY DEF CommitBatch, Crash, DeadlockVictim, RollbackBatch, Midway
<1>3. LocalsInv' /\ OthersKeep(w) /\ pc'[w] = "idle"
  BY <1>1, <1>2, EndLocals
<1>4. AccountsInv'
  BY <1>1, <1>2, <1>3, EndTransaction DEF Midway
<1>5. OriginalInv'
  BY <1>2, <1>3, OriginalStep DEF TypeOK
<1> QED
  BY <1>1, <1>3, <1>4, <1>5, EndKeepsQueue DEF LedgerInv

LEMMA InvStep ==
    ASSUME IInv, [Next]_vars
    PROVE  IInv'
<1>1. TypeOK'
  BY TypeStep DEF IInv
<1>2. CASE UNCHANGED vars
  <2> USE <1>2 DEF vars, storeVars, viewVars, queueVars, locals
  <2>1. LocalsInv'
    BY DEF IInv, LocalsInv, LocalsOf, Current, Rule, Cost
  <2>2. AccountsInv'
    BY ZenonT(60) DEF IInv, LedgerInv, AccountsInv, CommittedInv, OwnedInv, InMidst, Midway, DueAccount,
           DueRow, Target, Current, Rule, Cost, LedgerRow, HalfDone
  <2>3. OriginalInv'
    BY ZenonT(60) DEF IInv, LedgerInv, OriginalInv, OriginalOf, IsOriginal, Current, Rule, Visible
  <2>4. QueueInv'
    BY DEF IInv, QueueInv, RecordInv, BatchInv
  <2> QED
    BY <1>1, <2>1, <2>2, <2>3, <2>4 DEF IInv, LedgerInv
<1>3. ASSUME NEW u \in UsageIds, CreateRecord(u) PROVE IInv'
  BY <1>1, <1>3, CreateKeeps DEF IInv
<1>4. ASSUME NEW w \in Sessions, Step(w) \/ CacheFailure(w) \/ Crash(w) PROVE IInv'
  <2>1. CASE \/ Fetch(w) \/ EvaluateRecord(w) \/ FindNoOriginal(w) \/ RefundView(w)
             \/ MarkProcessed(w) \/ MarkFailed(w) \/ MarkSkipped(w)
             \/ SyncView(w) \/ SyncStats(w) \/ CacheFailure(w)
    BY <1>1, <2>1, QuietKeeps DEF IInv
  <2>2. CASE DeductUsage(w) \/ RestoreOriginal(w)
    BY <1>1, <2>2, MoveKeeps DEF IInv
  <2>3. CASE RefuseUsage(w)
    BY <1>1, <2>3, RefuseKeeps DEF IInv
  <2>4. CASE WriteUsage(w) \/ WriteRefund(w)
    BY <1>1, <2>4, WriteKeeps DEF IInv
  <2>5. CASE LookUpOriginal(w)
    BY <1>1, <2>5, LookUpKeeps DEF IInv
  <2>6. CASE CommitBatch(w) \/ Crash(w) \/ DeadlockVictim(w)
    BY <1>1, <2>6, EndKeeps DEF IInv
  <2> QED
    BY <1>4, <2>1, <2>2, <2>3, <2>4, <2>5, <2>6 DEF Step
<1> QED
  BY <1>2, <1>3, <1>4 DEF Next, Drained

LEMMA InvHolds == Spec => []IInv
BY InitInv, InvStep, PTL DEF Spec

(***************************************************************************)
(* Every variable keeps its type: in particular the record, the rule and   *)
(* the original charge that a statement uses are those that an earlier     *)
(* await of the same record has chosen.                                    *)
(***************************************************************************)
THEOREM WorkerIsTyped == Spec => []TypeOK
<1>1. IInv => TypeOK
  BY DEF IInv
<1> QED
  BY <1>1, InvHolds, PTL

-----------------------------------------------------------------------------
(* The refinement of LedgerBook.                                           *)

LEMMA BookOperators ==
    /\ Book!Account = Account
    /\ \A a, account : Book!Sound(a, account) = Sound(a, account)
    /\ \A old, new : Book!Extends(old, new) = Extends(old, new)
BY DEF Book!Account, Account, Book!Extends, Extends, Book!Sound, Sound, Book!Chained, Chained,
       Book!Closing, Closing, Book!BalanceBefore, BalanceBefore, Book!Follows, Follows

LEMMA BookStarts == Init => Book!BookInit
BY BookOperators DEF Init, StoreInit, Book!BookInit

(* Only the commit of a batch changes what is committed, and what is settled. *)
LEMMA OnlyCommitsPublish ==
    ASSUME IInv, [Next]_vars
    PROVE  \/ committed' = committed /\ status' = status
           \/ committed' = committed /\ \E u \in UsageIds : CreateRecord(u)
           \/ \E w \in Sessions : CommitBatch(w)
<1>1. ASSUME NEW w \in Sessions, Step(w) \/ CacheFailure(w) \/ Crash(w), ~CommitBatch(w)
      PROVE  committed' = committed /\ status' = status
  <2> USE DEF storeVars, queueVars
  <2>1. LocalsOf(w) /\ TypeOK
    BY DEF IInv, LocalsInv
  <2>2. CASE Fetch(w) \/ LookUpOriginal(w) \/ FindNoOriginal(w) \/ RefundView(w) \/ SyncView(w)
    BY <2>2 DEF Fetch, LookUpOriginal, FindNoOriginal, RefundView, SyncView
  <2>3. CASE EvaluateRecord(w)
    BY <2>1, <2>3, EvaluateBranches
  <2>4. CASE DeductUsage(w) \/ RestoreOriginal(w) \/ RefuseUsage(w)
    BY <2>4 DEF DeductUsage, RestoreOriginal, RefuseUsage, DecrementBalance, IncrementBalance,
                DecrementRefused, Write
  <2>5. CASE WriteUsage(w) \/ WriteRefund(w)
    BY <2>5 DEF WriteUsage, WriteRefund, CreateTransaction
  <2>6. CASE MarkProcessed(w) \/ MarkFailed(w) \/ MarkSkipped(w) \/ SyncStats(w) \/ CacheFailure(w)
    BY <2>6 DEF MarkProcessed, MarkFailed, MarkSkipped, MarkRecord, SyncStats, CacheFailure
  <2>7. CASE DeadlockVictim(w) \/ Crash(w)
    BY <2>7 DEF DeadlockVictim, Crash, RollbackBatch, Rollback
  <2> QED
    BY <1>1, <2>2, <2>3, <2>4, <2>5, <2>6, <2>7 DEF Step
<1>2. ASSUME NEW u \in UsageIds, CreateRecord(u) PROVE committed' = committed
  BY <1>2 DEF CreateRecord, storeVars
<1>3. ASSUME UNCHANGED vars PROVE committed' = committed /\ status' = status
  BY <1>3 DEF vars, storeVars, queueVars
<1> QED
  BY <1>1, <1>2, <1>3 DEF Next, Drained

(* The commit of a batch posts to the book. *)
LEMMA CommitPosts ==
    ASSUME IInv, NEW w \in Sessions, CommitBatch(w)
    PROVE  Book!Post
<1>1. Commit(w) /\ ~Midway(w) /\ TypeOK /\ AccountsInv
  BY DEF CommitBatch, Midway, IInv, LedgerInv
<1> QED
  BY <1>1, CommitAccounts, BookOperators DEF Book!Post

(***************************************************************************)
(* Whatever the workers do, what is committed is a LedgerBook: a batch     *)
(* posts new rows and leaves every account sound and not overdrawn, and no *)
(* step rewrites history or shows half of a record (worker.py: one         *)
(* transaction per batch).  No condition on the cache is needed.           *)
(***************************************************************************)
THEOREM WorkerPostsToBook == Spec => PostsToBook
<1>1. IInv /\ [Next]_vars => [Book!Post]_committed
  BY OnlyCommitsPublish, CommitPosts
<1> QED
  BY <1>1, BookStarts, InvHolds, PTL DEF Spec, PostsToBook, Book!BookSpec

-----------------------------------------------------------------------------
(* The rows of a record.                                                   *)

Line(book, a, i, u, type) ==
    /\ i \in 1..Len(book[a].entries)
    /\ book[a].entries[i].type = type
    /\ book[a].entries[i].source = u

NoLine(book, u, type) == \A a \in Account : \A i \in Nat : ~Line(book, a, i, u, type)

SomeLine(book, u, type) == \E a \in Account : \E i \in Nat : Line(book, a, i, u, type)

NoTwoLines(book, u, type) ==
    \A a, b \in Account : \A i, j \in Nat :
        Line(book, a, i, u, type) /\ Line(book, b, j, u, type) => a = b /\ i = j

(* The ledger as a worker sees it. *)
Seen(w) == [a \in Account |-> Visible(w, a)]

(* Whether w has written the usage, and maybe the refund, of the record u. *)
UsageWritten(w, u) ==
    \/ mark[u] = "processed"
    \/ pc[w] \in Refunding \union {"mark"} /\ u = Head(batch[w])

RefundWritten(w, u) ==
    \/ mark[u] = "processed"
    \/ pc[w] \in {"refund_view", "mark"} /\ u = Head(batch[w])

HeldLines(w, u) ==
    /\ UsageWritten(w, u) => SomeLine(Seen(w), u, "usage")
    /\ ~UsageWritten(w, u) => NoLine(Seen(w), u, "usage")
    /\ NoTwoLines(Seen(w), u, "usage")
    /\ ~RefundWritten(w, u) => NoLine(Seen(w), u, "refund")
    /\ NoTwoLines(Seen(w), u, "refund")

SettledLines(u) ==
    /\ status[u] = "processed" => SomeLine(committed, u, "usage")
    /\ status[u] # "processed" => NoLine(committed, u, "usage") /\ NoLine(committed, u, "refund")
    /\ NoTwoLines(committed, u, "usage")
    /\ NoTwoLines(committed, u, "refund")

(* A row that is not committed is a row of a record that the account's owner holds. *)
UncommittedRows(a) ==
    owner[a] # None =>
        \A i \in 1..Len(working[a].entries) :
            \/ i <= Len(committed[a].entries)
            \/ holder[working[a].entries[i].source] = owner[a]

SettledInv == \A u \in UsageIds : SettledLines(u)
UncommittedInv == \A a \in Account : UncommittedRows(a)
HeldInv == \A w \in Sessions : \A u \in UsageIds : holder[u] = w => HeldLines(w, u)

LinesInv == SettledInv /\ UncommittedInv /\ HeldInv

SameLines(book, next, u) ==
    \A a \in Account : \A i \in Nat : \A type \in {"usage", "refund"} :
        Line(next, a, i, u, type) <=> Line(book, a, i, u, type)

LEMMA SameLinesSameFacts ==
    ASSUME NEW book, NEW next, NEW u, SameLines(book, next, u), NEW type \in {"usage", "refund"}
    PROVE  /\ NoLine(book, u, type) => NoLine(next, u, type)
           /\ SomeLine(book, u, type) => SomeLine(next, u, type)
           /\ NoTwoLines(book, u, type) => NoTwoLines(next, u, type)
BY DEF SameLines, NoLine, SomeLine, NoTwoLines

LEMMA SameEntriesSameLines ==
    ASSUME NEW book, NEW next, NEW u, \A a \in Account : next[a].entries = book[a].entries
    PROVE  SameLines(book, next, u)
BY DEF SameLines, Line

LEMMA NoLineNoTwoLines ==
    ASSUME NEW book, NEW u, NEW type, NoLine(book, u, type)
    PROVE  NoTwoLines(book, u, type)
BY DEF NoLine, NoTwoLines

(* One more row: the record it is written for has one line more. *)
LEMMA AppendedLine ==
    ASSUME NEW book, NEW next, NEW a \in Account, NEW q \in Seq(Entry), NEW e \in Entry,
           book[a].entries = q, next[a].entries = Append(q, e),
           \A b \in Account \ {a} : next[b].entries = book[b].entries,
           NEW u, NEW type, NEW b \in Account, NEW i \in Nat
    PROVE  Line(next, b, i, u, type) <=>
              \/ Line(book, b, i, u, type)
              \/ b = a /\ i = Len(q) + 1 /\ u = e.source /\ type = e.type
<1>1. PICK r : r = Append(q, e)
  OBVIOUS
<1>2. /\ Len(q) \in Nat /\ Len(r) = Len(q) + 1 /\ r[Len(q) + 1] = e
      /\ \A k \in 1..Len(q) : r[k] = q[k]
  BY <1>1
<1>3. CASE b = a
  BY <1>1, <1>2, <1>3 DEF Line
<1>4. CASE b # a
  BY <1>4 DEF Line
<1> QED
  BY <1>3, <1>4

(* One account has a row more in next than in book. *)
RowAdded(book, next, a, q, e) ==
    /\ book[a].entries = q /\ next[a].entries = Append(q, e)
    /\ \A b \in Account \ {a} : next[b].entries = book[b].entries

LEMMA LinesOfOthers ==
    ASSUME NEW book, NEW next, NEW a \in Account, NEW q \in Seq(Entry), NEW e \in Entry,
           RowAdded(book, next, a, q, e),
           NEW u, NEW type, u # e.source \/ type # e.type
    PROVE  /\ NoLine(book, u, type) => NoLine(next, u, type)
           /\ SomeLine(book, u, type) => SomeLine(next, u, type)
           /\ NoTwoLines(book, u, type) => NoTwoLines(next, u, type)
<1>1. \A b \in Account : \A i \in Nat : Line(next, b, i, u, type) <=> Line(book, b, i, u, type)
  BY AppendedLine DEF RowAdded
<1> QED
  BY <1>1 DEF NoLine, SomeLine, NoTwoLines

LEMMA FirstLine ==
    ASSUME NEW book, NEW next, NEW a \in Account, NEW q \in Seq(Entry), NEW e \in Entry,
           RowAdded(book, next, a, q, e), NoLine(book, e.source, e.type)
    PROVE  SomeLine(next, e.source, e.type) /\ NoTwoLines(next, e.source, e.type)
<1>1. PICK n \in Nat : n = Len(q) + 1
  OBVIOUS
<1>2. \A b \in Account : \A i \in Nat :
         Line(next, b, i, e.source, e.type) <=> b = a /\ i = n
  <2> SUFFICES ASSUME NEW b \in Account, NEW i \in Nat
               PROVE  Line(next, b, i, e.source, e.type) <=> b = a /\ i = n
    OBVIOUS
  <2>1. ~Line(book, b, i, e.source, e.type)
    BY DEF NoLine
  <2>2. Line(next, b, i, e.source, e.type) <=>
           \/ Line(book, b, i, e.source, e.type)
           \/ b = a /\ i = Len(q) + 1 /\ e.source = e.source /\ e.type = e.type
    BY AppendedLine DEF RowAdded
  <2> QED
    BY <1>1, <2>1, <2>2
<1> QED
  BY <1>2 DEF SomeLine, NoTwoLines

(* A worker sees no rows but the committed ones of a record that it does not hold. *)
LEMMA StrangersLines ==
    ASSUME TypeOK, AccountsInv, UncommittedInv, NEW w \in Sessions, NEW u, holder[u] # w
    PROVE  SameLines(committed, Seen(w), u)
<1> SUFFICES ASSUME NEW a \in Account, NEW i \in Nat, NEW type \in {"usage", "refund"}
             PROVE  Line(Seen(w), a, i, u, type) <=> Line(committed, a, i, u, type)
  BY DEF SameLines
<1>1. CASE owner[a] # w
  BY <1>1 DEF Line, Seen, Visible
<1>2. CASE owner[a] = w
  <2>1. Extends(committed[a].entries, working[a].entries)
    BY <1>2, Constants DEF AccountsInv, OwnedInv
  <2>2. Len(committed[a].entries) \in Nat /\ Len(working[a].entries) \in Nat
    BY DEF TypeOK, StoreTypeOK, AccountState
  <2>3. \A k \in 1..Len(working[a].entries) :
           k <= Len(committed[a].entries) \/ holder[working[a].entries[k].source] = w
    BY <1>2, Constants DEF UncommittedInv, UncommittedRows
  <2>4. i \in 1..Len(committed[a].entries) =>
           i \in 1..Len(working[a].entries) /\ working[a].entries[i] = committed[a].entries[i]
    BY <2>1, <2>2 DEF Extends
  <2>5. Seen(w)[a] = working[a]
    BY <1>2 DEF Seen, Visible
  <2>6. CASE i \in 1..Len(committed[a].entries)
    BY <2>4, <2>5, <2>6 DEF Line
  <2>7. CASE i \notin 1..Len(committed[a].entries)
    <3>1. ~Line(committed, a, i, u, type)
      BY <2>7 DEF Line
    <3>2. ~Line(Seen(w), a, i, u, type)
      BY <2>2, <2>3, <2>5, <2>7 DEF Line
    <3> QED
      BY <3>1, <3>2
  <2> QED
    BY <2>6, <2>7
<1> QED
  BY <1>1, <1>2

(* Rows that are not committed stay rows of records that are held. *)
LEMMA UncommittedFrame ==
    ASSUME TypeOK, AccountsInv, UncommittedInv, NEW w \in Sessions,
           \A u \in UsageIds : holder[u] # None => holder'[u] = holder[u],
           \/ UNCHANGED storeVars
           \/ \E b \in Account : \E account :
                 account.entries = Visible(w, b).entries /\ Write(w, b, account)
           \/ \E b \in Account, e \in Entry :
                 e.source \in UsageIds /\ holder[e.source] = w /\ CreateTransaction(w, b, e)
    PROVE  UncommittedInv'
<1> SUFFICES ASSUME NEW a \in Account PROVE UncommittedRows(a)'
  BY DEF UncommittedInv
<1>1. ASSUME owner[a] # None, NEW i \in 1..Len(working[a].entries), i > Len(committed[a].entries)
      PROVE  holder'[working[a].entries[i].source] = owner[a]
  <2>1. working[a].entries[i].source \in UsageIds
    BY <1>1 DEF AccountsInv, OwnedInv, RowsOfRecords
  <2>2. Len(committed[a].entries) \in Nat /\ Len(working[a].entries) \in Nat
    BY DEF TypeOK, StoreTypeOK, AccountState
  <2>3. holder[working[a].entries[i].source] = owner[a]
    BY <1>1, <2>2 DEF UncommittedInv, UncommittedRows
  <2> QED
    BY <1>1, <2>1, <2>3
<1>2. Len(committed[a].entries) \in Nat /\ Len(working[a].entries) \in Nat
  BY DEF TypeOK, StoreTypeOK, AccountState
<1>3. ASSUME working'[a].entries = working[a].entries, owner'[a] = owner[a],
             committed'[a] = committed[a]
      PROVE  UncommittedRows(a)'
  BY <1>1, <1>2, <1>3 DEF UncommittedRows
<1>4. CASE UNCHANGED storeVars
  BY <1>3, <1>4 DEF storeVars
<1>5. ASSUME NEW b \in Account, NEW account,
             account.entries = Visible(w, b).entries, Write(w, b, account)
      PROVE  UncommittedRows(a)'
  <2>1. CASE a # b
    BY <1>3, <1>5, <2>1 DEF Write, TypeOK, StoreTypeOK
  <2>2. CASE a = b
    <3>1. /\ working'[a].entries = Visible(w, a).entries /\ owner'[a] = w
          /\ committed' = committed
      BY <1>5, <2>2 DEF Write, TypeOK, StoreTypeOK
    <3>2. CASE owner[a] = w
      BY <1>3, <3>1, <3>2 DEF Visible
    <3>3. CASE owner[a] # w
      BY <1>2, <3>1, <3>3 DEF Visible, UncommittedRows
    <3> QED
      BY <3>2, <3>3
  <2> QED
    BY <2>1, <2>2
<1>6. ASSUME NEW b \in Account, NEW e \in Entry,
             e.source \in UsageIds, holder[e.source] = w, CreateTransaction(w, b, e)
      PROVE  UncommittedRows(a)'
  <2>1. CASE a # b
    BY <1>3, <1>6, <2>1 DEF CreateTransaction, TypeOK, StoreTypeOK
  <2>2. CASE a = b
    <3>1. PICK q \in Seq(Entry) : q = working[a].entries
      BY DEF TypeOK, StoreTypeOK, AccountState
    <3>2. /\ working'[a].entries = Append(q, e) /\ owner' = owner /\ owner[a] = w
          /\ committed' = committed
      BY <1>6, <2>2, <3>1 DEF CreateTransaction, TypeOK, StoreTypeOK, AccountState
    <3>3. PICK r : r = Append(q, e)
      OBVIOUS
    <3>4. /\ Len(q) \in Nat /\ Len(r) = Len(q) + 1 /\ r[Len(q) + 1] = e
          /\ \A i \in 1..Len(q) : r[i] = q[i]
      BY <3>3
    <3>5. holder'[e.source] = w
      BY <1>6, Constants
    <3>6. ASSUME NEW i \in 1..Len(r), i > Len(committed[a].entries)
          PROVE  holder'[r[i].source] = w
      <4>1. CASE i = Len(q) + 1
        BY <3>4, <3>5, <4>1
      <4>2. CASE i # Len(q) + 1
        <5>1. i \in 1..Len(q)
          BY <3>4, <4>2
        <5> QED
          BY <1>1, <3>1, <3>2, <3>4, <3>6, <5>1, Constants
      <4> QED
        BY <4>1, <4>2
    <3> QED
      BY <1>2, <3>2, <3>3, <3>4, <3>6 DEF UncommittedRows
  <2> QED
    BY <2>1, <2>2
<1> QED
  BY <1>4, <1>5, <1>6

LEMMA UncommittedEnd ==
    ASSUME TypeOK, AccountsInv, UncommittedInv, NEW w \in Sessions,
           Commit(w) \/ Rollback(w), ReleaseRecords(w)
    PROVE  UncommittedInv'
<1> SUFFICES ASSUME NEW a \in Account PROVE UncommittedRows(a)'
  BY DEF UncommittedInv
<1>1. owner'[a] = IF owner[a] = w THEN None ELSE owner[a]
  BY DEF Commit, Rollback, Released
<1>2. CASE owner[a] \in {w, None}
  BY <1>1, <1>2 DEF UncommittedRows
<1>3. CASE owner[a] \notin {w, None}
  <2>1. committed'[a] = committed[a] /\ working'[a] = working[a] /\ owner'[a] = owner[a]
    BY <1>1, <1>3 DEF Commit, Rollback, Visible
  <2>2. \A i \in 1..Len(working[a].entries) : working[a].entries[i].source \in UsageIds
    BY <1>3 DEF AccountsInv, OwnedInv, RowsOfRecords
  <2>3. \A u \in UsageIds : holder[u] # w => holder'[u] = holder[u]
    BY DEF ReleaseRecords
  <2>4. \A i \in 1..Len(working[a].entries) :
          \/ i <= Len(committed[a].entries)
          \/ holder'[working[a].entries[i].source] = owner[a]
    BY <1>3, <2>2, <2>3 DEF UncommittedInv, UncommittedRows
  <2> QED
    BY <2>1, <2>4 DEF UncommittedRows
<1> QED
  BY <1>2, <1>3

(* A worker that sees the same rows of a record, as far on with it. *)
LEMMA HeldFrame ==
    ASSUME NEW w, NEW u, HeldLines(w, u), NEW next, next = Seen(w)',
           SameLines(Seen(w), next, u),
           UsageWritten(w, u)' <=> UsageWritten(w, u),
           RefundWritten(w, u) => RefundWritten(w, u)'
    PROVE  HeldLines(w, u)'
<1>1. /\ UsageWritten(w, u) => SomeLine(next, u, "usage")
      /\ ~UsageWritten(w, u) => NoLine(next, u, "usage")
      /\ NoTwoLines(next, u, "usage")
      /\ ~RefundWritten(w, u) => NoLine(next, u, "refund")
      /\ NoTwoLines(next, u, "refund")
  BY SameLinesSameFacts DEF HeldLines
<1> QED
  BY <1>1 DEF HeldLines

(* The same for a worker that sees the same ledger. *)
LEMMA HeldSame ==
    ASSUME NEW w, NEW u, HeldLines(w, u),
           \A a \in Account : (Visible(w, a).entries)' = Visible(w, a).entries,
           UsageWritten(w, u)' <=> UsageWritten(w, u),
           RefundWritten(w, u) => RefundWritten(w, u)'
    PROVE  HeldLines(w, u)'
<1>1. PICK next : next = Seen(w)'
  OBVIOUS
<1>2. \A a \in Account : next[a].entries = Seen(w)[a].entries
  BY <1>1 DEF Seen
<1> QED
  BY <1>1, <1>2, SameEntriesSameLines, HeldFrame

(* The records of the other workers, at a step that publishes nothing. *)
LEMMA OthersHeld ==
    ASSUME TypeOK, HeldInv, NEW w \in Sessions, OthersKeep(w), NEW v \in Sessions \ {w},
           NEW u \in UsageIds, holder[u] = v, mark'[u] = mark[u],
           \/ UNCHANGED storeVars
           \/ Rollback(w)
           \/ \E b \in Account : Lockable(w, b) /\ \E account : Write(w, b, account)
           \/ \E b \in Account : \E e : CreateTransaction(w, b, e)
    PROVE  HeldLines(v, u)'
<1>1. \A a \in Account : Visible(v, a)' = Visible(v, a)
  BY OthersSee
<1>2. \A a \in Account : (Visible(v, a).entries)' = Visible(v, a).entries
  BY <1>1
<1>3. /\ UsageWritten(v, u)' <=> UsageWritten(v, u)
      /\ RefundWritten(v, u)' <=> RefundWritten(v, u)
  BY DEF OthersKeep, UsageWritten, RefundWritten
<1>4. HeldLines(v, u)
  BY DEF HeldInv
<1> QED
  BY <1>2, <1>3, <1>4, HeldSame

(* And at a commit, which publishes rows of other records. *)
LEMMA OthersHeldCommit ==
    ASSUME TypeOK, AccountsInv, UncommittedInv, HeldInv, NEW w \in Sessions, OthersKeep(w),
           ~Midway(w), Commit(w), NEW v \in Sessions \ {w},
           NEW u \in UsageIds, holder[u] = v, mark'[u] = mark[u]
    PROVE  HeldLines(v, u)'
<1>1. PICK next : next = Seen(v)'
  OBVIOUS
<1>2. SameLines(Seen(v), next, u)
  <2>1. SameLines(committed, Seen(w), u)
    BY StrangersLines
  <2>2. ASSUME NEW a \in Account, owner[a] = v PROVE next[a] = Seen(v)[a]
    BY <1>1, <2>2, OthersSeeCommit DEF Seen, Visible
  <2>3. ASSUME NEW a \in Account, owner[a] # v PROVE next[a] = Seen(w)[a] /\ Seen(v)[a] = committed[a]
    BY <1>1, <2>3, OthersSeeCommit DEF Seen, Visible, Commit
  <2> SUFFICES ASSUME NEW a \in Account, NEW i \in Nat, NEW type \in {"usage", "refund"}
               PROVE  Line(next, a, i, u, type) <=> Line(Seen(v), a, i, u, type)
    BY DEF SameLines
  <2>4. CASE owner[a] = v
    BY <2>2, <2>4 DEF Line
  <2>5. CASE owner[a] # v
    <3>1. Line(next, a, i, u, type) <=> Line(Seen(w), a, i, u, type)
      BY <2>3, <2>5 DEF Line
    <3>2. Line(Seen(v), a, i, u, type) <=> Line(committed, a, i, u, type)
      BY <2>3, <2>5 DEF Line
    <3> QED
      BY <2>1, <3>1, <3>2 DEF SameLines
  <2> QED
    BY <2>4, <2>5
<1>3. /\ UsageWritten(v, u)' <=> UsageWritten(v, u)
      /\ RefundWritten(v, u)' <=> RefundWritten(v, u)
  BY DEF OthersKeep, UsageWritten, RefundWritten
<1>4. HeldLines(v, u)
  BY DEF HeldInv
<1> QED
  BY <1>1, <1>2, <1>3, <1>4, HeldFrame

(* The records of w itself, and of the others, at a step that publishes nothing. *)
LEMMA HeldStep ==
    ASSUME TypeOK, HeldInv, NEW w \in Sessions, OthersKeep(w),
           \/ UNCHANGED storeVars
           \/ Rollback(w)
           \/ \E b \in Account : Lockable(w, b) /\ \E account : Write(w, b, account)
           \/ \E b \in Account : \E e : CreateTransaction(w, b, e),
           \A v \in Sessions \ {w} : \A u \in UsageIds :
              holder'[u] = v => holder[u] = v /\ mark'[u] = mark[u],
           \A u \in UsageIds : holder'[u] = w => HeldLines(w, u)'
    PROVE  HeldInv'
BY OthersHeld DEF HeldInv

(* A statement of a record that goes on with it. *)
LEMMA WrittenOn ==
    ASSUME NEW w \in Sessions, batch'[w] = batch[w], mark' = mark,
           pc'[w] \in Refunding \union {"mark"} <=> pc[w] \in Refunding \union {"mark"},
           pc[w] \in {"refund_view", "mark"} => pc'[w] \in {"refund_view", "mark"},
           NEW u
    PROVE  /\ UsageWritten(w, u)' <=> UsageWritten(w, u)
           /\ RefundWritten(w, u) => RefundWritten(w, u)'
BY DEF UsageWritten, RefundWritten

(* The end of a record: what is written is what its status says. *)
LEMMA WrittenLeave ==
    ASSUME TypeOK, QueueInv, NEW w \in Sessions, batch[w] # <<>>,
           pc[w] \in {"evaluate", "fail", "skip", "view", "stats"},
           pc'[w] \in {"evaluate", "commit"}, NEW u \in UsageIds,
           \/ mark'[u] = mark[u]
           \/ /\ u = Head(batch[w]) /\ mark'[u] \in {"failed", "skipped"}
              /\ pc[w] \in {"fail", "skip"}
    PROVE  /\ UsageWritten(w, u)' <=> UsageWritten(w, u)
           /\ RefundWritten(w, u) => RefundWritten(w, u)'
<1>1. u = Head(batch[w]) /\ pc[w] \in {"fail", "skip"} => mark[u] # "processed"
  BY BatchHead, NoneIsNoStatus DEF BillingStatuses
<1> QED
  BY <1>1 DEF UsageWritten, RefundWritten, Refunding, TypeOK, BillingStatuses

LEMMA WrittenMark ==
    ASSUME TypeOK, QueueInv, NEW w \in Sessions, batch[w] # <<>>, pc[w] = "mark", pc'[w] = "view",
           mark' = [mark EXCEPT ![Head(batch[w])] = "processed"], NEW u \in UsageIds
    PROVE  /\ UsageWritten(w, u)' <=> UsageWritten(w, u)
           /\ RefundWritten(w, u) => RefundWritten(w, u)'
<1>1. Head(batch[w]) \in UsageIds
  BY BatchHead
<1> QED
  BY <1>1 DEF UsageWritten, RefundWritten, Refunding, TypeOK

LEMMA LeaveHeld ==
    ASSUME IInv, "refund_view" \notin CacheFailsAt, NEW w \in Sessions, NEW u \in UsageIds,
           MarkFailed(w) \/ MarkSkipped(w) \/ SyncStats(w) \/ CacheFailure(w)
    PROVE  /\ UsageWritten(w, u)' <=> UsageWritten(w, u)
           /\ RefundWritten(w, u) => RefundWritten(w, u)'
<1>1. TypeOK /\ LocalsInv /\ LocalsOf(w) /\ QueueInv
  BY DEF IInv, LocalsInv
<1>2. batch[w] # <<>> /\ pc'[w] \in {"evaluate", "commit"}
  BY <1>1, LeaveBranches, LeaveLocals
<1>3. Head(batch[w]) \in UsageIds
  BY <1>1, <1>2, BatchHead
<1>4. /\ pc[w] \in {"fail", "skip", "view", "stats"}
      /\ \/ mark' = mark
         \/ /\ pc[w] \in {"fail", "skip"}
            /\ \E outcome \in {"failed", "skipped"} : MarkRecord(w, outcome)
  BY <1>1, LeaveBranches, CacheCalls
<1>5. \/ mark'[u] = mark[u]
      \/ /\ u = Head(batch[w]) /\ mark'[u] \in {"failed", "skipped"}
         /\ pc[w] \in {"fail", "skip"}
  BY <1>1, <1>3, <1>4 DEF MarkRecord, TypeOK
<1> QED
  BY <1>1, <1>2, <1>4, <1>5, WrittenLeave

LEMMA EvaluateHeld ==
    ASSUME IInv, NEW w \in Sessions, NEW u \in UsageIds, EvaluateRecord(w)
    PROVE  /\ UsageWritten(w, u)' <=> UsageWritten(w, u)
           /\ RefundWritten(w, u) => RefundWritten(w, u)'
<1>1. TypeOK /\ LocalsInv /\ LocalsOf(w) /\ QueueInv
  BY DEF IInv, LocalsInv
<1>2. pc[w] = "evaluate" /\ mark' = mark /\ pc'[w] \in {"deduct", "skip", "fail", "evaluate", "commit"}
  BY <1>1, EvaluateBranches, EvaluateLocals DEF queueVars
<1> QED
  BY <1>2 DEF UsageWritten, RefundWritten, Refunding

(* The fetch of a record finds no row of it, and the worker sees none. *)
LEMMA FetchHeld ==
    ASSUME IInv, LinesInv, NEW w \in Sessions, Fetch(w), NEW u \in UsageIds, holder'[u] = w
    PROVE  HeldLines(w, u)'
<1>1. TypeOK /\ AccountsInv /\ QueueInv
  BY DEF IInv, LedgerInv
<1>2. PICK queue \in GetPendingRecords(w) :
        /\ batch' = [batch EXCEPT ![w] = queue]
        /\ holder' = [t \in UsageIds |-> IF t \in ToSet(queue) THEN w ELSE holder[t]]
  BY DEF Fetch
<1>3. /\ pc[w] = "idle" /\ pc'[w] = "evaluate" /\ mark' = mark /\ UNCHANGED storeVars
  BY FetchEffect, <1>1 DEF Fetch
<1>4. /\ UsageWritten(w, u)' <=> mark[u] = "processed"
      /\ RefundWritten(w, u)' <=> mark[u] = "processed"
      /\ UsageWritten(w, u) <=> mark[u] = "processed"
      /\ RefundWritten(w, u) <=> mark[u] = "processed"
  BY <1>3 DEF UsageWritten, RefundWritten, Refunding
<1>5. PICK next : next = Seen(w)'
  OBVIOUS
<1>6. next = Seen(w)
  BY <1>3, <1>5 DEF Seen, Visible, storeVars
<1>7. CASE holder[u] = w
  <2>1. HeldLines(w, u)
    BY <1>7 DEF LinesInv, HeldInv
  <2>2. \A a \in Account : (Visible(w, a).entries)' = Visible(w, a).entries
    BY <1>3 DEF Visible, storeVars
  <2> QED
    BY <1>4, <2>1, <2>2, HeldSame
<1>8. CASE holder[u] # w
  <2>1. u \in ToSet(queue)
    BY <1>2, <1>8
  <2>2. status[u] = "pending" /\ holder[u] = None
    BY <2>1, FetchedBatch
  <2>3. mark[u] # "processed"
    BY <1>1, <2>2, NoneIsNoStatus DEF QueueInv, RecordInv, BillingStatuses
  <2>4. SameLines(committed, next, u)
    BY <1>1, <1>6, <1>8, StrangersLines DEF LinesInv
  <2>5. NoLine(committed, u, "usage") /\ NoLine(committed, u, "refund")
    BY <2>2 DEF LinesInv, SettledInv, SettledLines
  <2>6. NoLine(next, u, "usage") /\ NoLine(next, u, "refund")
    BY <2>4, <2>5, SameLinesSameFacts
  <2>7. NoTwoLines(next, u, "usage") /\ NoTwoLines(next, u, "refund")
    BY <2>6, NoLineNoTwoLines
  <2> QED
    BY <1>4, <1>5, <2>3, <2>6, <2>7 DEF HeldLines
<1> QED
  BY <1>7, <1>8

(* The ledger statements write the first usage and the first refund of a record. *)
LEMMA WriteHeld ==
    ASSUME IInv, LinesInv, NEW w \in Sessions, WriteUsage(w) \/ WriteRefund(w),
           NEW u \in UsageIds, holder[u] = w
    PROVE  HeldLines(w, u)'
<1>1. TypeOK /\ LocalsInv /\ LocalsOf(w) /\ AccountsInv /\ QueueInv /\ HeldLines(w, u)
  BY DEF IInv, LocalsInv, LedgerInv, LinesInv, HeldInv
<1>2. PICK a, e : a = DueAccount(w) /\ e = DueRow(w)
  OBVIOUS
<1>3. Midway(w) /\ CreateTransaction(w, a, e) /\ mark' = mark
  BY <1>2, WriteBranches DEF queueVars
<1>4. a \in Account /\ e \in Entry /\ e.source = Head(batch[w])
  BY <1>1, <1>2, <1>3, DueRowTyped, DueRowBelongs
<1>5. PICK q \in Seq(Entry) : q = working[a].entries
  BY <1>1, <1>4 DEF TypeOK, StoreTypeOK, AccountState
<1>6. /\ working'[a].entries = Append(q, e) /\ owner' = owner /\ owner[a] = w
      /\ committed' = committed /\ \A b \in Account \ {a} : working'[b] = working[b]
  BY <1>1, <1>3, <1>4, <1>5 DEF CreateTransaction, TypeOK, StoreTypeOK, AccountState
<1>7. PICK next : next = Seen(w)'
  OBVIOUS
<1>8. /\ Seen(w)[a].entries = q /\ next[a].entries = Append(q, e)
      /\ \A b \in Account \ {a} : next[b].entries = Seen(w)[b].entries
  BY <1>4, <1>5, <1>6, <1>7 DEF Seen, Visible
<1>9. ASSUME NEW type \in {"usage", "refund"}, u # Head(batch[w]) \/ type # e.type
      PROVE  /\ NoLine(Seen(w), u, type) => NoLine(next, u, type)
             /\ SomeLine(Seen(w), u, type) => SomeLine(next, u, type)
             /\ NoTwoLines(Seen(w), u, type) => NoTwoLines(next, u, type)
  <2>1. u # e.source \/ type # e.type
    BY <1>4, <1>9
  <2>2. PICK old : old = Seen(w)
    OBVIOUS
  <2>3. RowAdded(old, next, a, q, e)
    BY <1>8, <2>2 DEF RowAdded
  <2>4. /\ NoLine(old, u, type) => NoLine(next, u, type)
        /\ SomeLine(old, u, type) => SomeLine(next, u, type)
        /\ NoTwoLines(old, u, type) => NoTwoLines(next, u, type)
    BY <1>4, <2>1, <2>3, LinesOfOthers
  <2> QED
    BY <2>2, <2>4
<1>10. ASSUME u = Head(batch[w]), NoLine(Seen(w), u, e.type)
       PROVE  SomeLine(next, u, e.type) /\ NoTwoLines(next, u, e.type)
  <2>1. PICK old : old = Seen(w)
    OBVIOUS
  <2>2. RowAdded(old, next, a, q, e) /\ NoLine(old, e.source, e.type) /\ u = e.source
    BY <1>4, <1>8, <1>10, <2>1 DEF RowAdded
  <2> QED
    BY <1>4, <2>2, FirstLine
<1>11. batch'[w] = batch[w]
  BY <1>1, GoToLocals
<1>12. CASE pc[w] = "ledger"
  <2>1. e.type = "usage"
    BY <1>2, <1>12 DEF DueRow, LedgerRow
  <2>2. pc'[w] \in {"lookup", "mark"}
    BY <1>1, <1>12, GoToLocals
  <2>3. /\ UsageWritten(w, u) <=> mark[u] = "processed"
        /\ RefundWritten(w, u) <=> mark[u] = "processed"
        /\ UsageWritten(w, u)' <=> mark[u] = "processed" \/ u = Head(batch[w])
        /\ RefundWritten(w, u) => RefundWritten(w, u)'
    BY <1>3, <1>11, <1>12, <2>2 DEF UsageWritten, RefundWritten, Refunding
  <2>4. NoTwoLines(next, u, "refund") /\ (~RefundWritten(w, u)' => NoLine(next, u, "refund"))
    BY <1>1, <1>9, <2>1, <2>3 DEF HeldLines
  <2>5. CASE u # Head(batch[w])
    BY <1>1, <1>7, <1>9, <2>3, <2>4, <2>5 DEF HeldLines
  <2>6. CASE u = Head(batch[w])
    <3>1. batch[w] # <<>>
      BY <1>1, <1>12 DEF LocalsOf
    <3>2. mark[u] = None
      BY <1>1, <1>12, <2>6, <3>1, BatchHead
    <3>3. mark[u] # "processed"
      BY <1>1, <3>2, NoneIsNoStatus DEF BillingStatuses
    <3>4. NoLine(Seen(w), u, "usage")
      BY <1>1, <2>3, <3>3 DEF HeldLines
    <3>5. SomeLine(next, u, "usage") /\ NoTwoLines(next, u, "usage")
      BY <1>10, <2>1, <2>6, <3>4
    <3> QED
      BY <1>7, <2>3, <2>4, <2>6, <3>5 DEF HeldLines
  <2> QED
    BY <2>5, <2>6
<1>13. CASE pc[w] = "refund_ledger"
  <2>1. e.type = "refund" /\ pc'[w] = "refund_view"
    BY <1>1, <1>2, <1>13, GoToLocals DEF DueRow, LedgerRow
  <2>2. /\ UsageWritten(w, u)' <=> UsageWritten(w, u)
        /\ RefundWritten(w, u) <=> mark[u] = "processed"
        /\ RefundWritten(w, u)' <=> mark[u] = "processed" \/ u = Head(batch[w])
    BY <1>3, <1>11, <1>13, <2>1 DEF UsageWritten, RefundWritten, Refunding
  <2>3. /\ UsageWritten(w, u) => SomeLine(next, u, "usage")
        /\ ~UsageWritten(w, u) => NoLine(next, u, "usage")
        /\ NoTwoLines(next, u, "usage")
    BY <1>1, <1>9, <2>1 DEF HeldLines
  <2>4. CASE u # Head(batch[w])
    BY <1>1, <1>7, <1>9, <2>2, <2>3, <2>4 DEF HeldLines
  <2>5. CASE u = Head(batch[w])
    <3>1. batch[w] # <<>>
      BY <1>1, <1>13 DEF LocalsOf
    <3>2. mark[u] = None
      BY <1>1, <1>13, <2>5, <3>1, BatchHead
    <3>3. mark[u] # "processed"
      BY <1>1, <3>2, NoneIsNoStatus DEF BillingStatuses
    <3>4. NoLine(Seen(w), u, "refund")
      BY <1>1, <2>2, <3>3 DEF HeldLines
    <3>5. NoTwoLines(next, u, "refund")
      BY <1>10, <2>1, <2>5, <3>4
    <3> QED
      BY <1>7, <2>2, <2>3, <2>5, <3>5 DEF HeldLines
  <2> QED
    BY <2>4, <2>5
<1> QED
  BY <1>3, <1>12, <1>13 DEF Midway

(* A step writes the status of a record of its own worker, and fetches free ones. *)
LEMMA OthersMarks ==
    ASSUME IInv, NEW w \in Sessions,
           \/ Fetch(w) \/ EvaluateRecord(w) \/ FindNoOriginal(w) \/ RefundView(w)
           \/ MarkProcessed(w) \/ MarkFailed(w) \/ MarkSkipped(w)
           \/ SyncView(w) \/ SyncStats(w) \/ CacheFailure(w)
    PROVE  /\ UNCHANGED <<storeVars, status>>
           /\ \A u \in UsageIds : holder[u] # None => holder'[u] = holder[u]
           /\ \A v \in Sessions \ {w} : \A u \in UsageIds :
                 holder'[u] = v => holder[u] = v /\ mark'[u] = mark[u]
<1>1. TypeOK /\ LocalsInv /\ LocalsOf(w) /\ QueueInv
  BY DEF IInv, LocalsInv
<1>2. CASE Fetch(w)
  <2>1. PICK queue \in GetPendingRecords(w) :
          holder' = [u \in UsageIds |-> IF u \in ToSet(queue) THEN w ELSE holder[u]]
    BY <1>2 DEF Fetch
  <2>2. \A u \in ToSet(queue) : holder[u] = None
    BY FetchedBatch
  <2>3. UNCHANGED <<storeVars, status, mark>>
    BY <1>2 DEF Fetch
  <2> QED
    BY <2>1, <2>2, <2>3
<1>3. CASE \/ EvaluateRecord(w) \/ FindNoOriginal(w) \/ RefundView(w) \/ SyncView(w)
           \/ SyncStats(w) \/ CacheFailure(w)
  BY <1>3 DEF EvaluateRecord, FindNoOriginal, RefundView, SyncView, SyncStats, CacheFailure,
              queueVars
<1>4. CASE MarkProcessed(w) \/ MarkFailed(w) \/ MarkSkipped(w)
  <2>1. batch[w] # <<>>
    BY <1>1, <1>4 DEF MarkProcessed, MarkFailed, MarkSkipped, LocalsOf
  <2>2. Head(batch[w]) \in UsageIds /\ holder[Head(batch[w])] = w
    BY <1>1, <2>1, BatchHead
  <2>3. UNCHANGED <<storeVars, status, holder>> /\ \E outcome : mark' = [mark EXCEPT ![Head(batch[w])] = outcome]
    BY <1>4 DEF MarkProcessed, MarkFailed, MarkSkipped, MarkRecord
  <2>4. \A u \in UsageIds : u # Head(batch[w]) => mark'[u] = mark[u]
    BY <1>1, <2>3 DEF TypeOK
  <2> QED
    BY <2>2, <2>3, <2>4
<1> QED
  BY <1>2, <1>3, <1>4

LEMMA SettledSame ==
    ASSUME SettledInv, committed' = committed, status' = status
    PROVE  SettledInv'
<1>1. ASSUME NEW u \in UsageIds PROVE SettledLines(u)'
  BY DEF SettledInv, SettledLines, NoLine, SomeLine, NoTwoLines, Line
<1> QED
  BY <1>1 DEF SettledInv

LEMMA LinesQuiet ==
    ASSUME "refund_view" \notin CacheFailsAt, IInv, LinesInv, NEW w \in Sessions,
           \/ Fetch(w) \/ EvaluateRecord(w) \/ FindNoOriginal(w) \/ RefundView(w)
           \/ MarkProcessed(w) \/ MarkFailed(w) \/ MarkSkipped(w)
           \/ SyncView(w) \/ SyncStats(w) \/ CacheFailure(w)
    PROVE  LinesInv'
<1>1. TypeOK /\ LocalsInv /\ LocalsOf(w) /\ AccountsInv /\ QueueInv
  BY DEF IInv, LocalsInv, LedgerInv
<1>2. /\ UNCHANGED <<storeVars, status>>
      /\ \A u \in UsageIds : holder[u] # None => holder'[u] = holder[u]
      /\ \A v \in Sessions \ {w} : \A u \in UsageIds :
            holder'[u] = v => holder[u] = v /\ mark'[u] = mark[u]
  BY OthersMarks
<1>3. SettledInv' /\ UncommittedInv'
  BY <1>1, <1>2, SettledSame, UncommittedFrame DEF LinesInv, storeVars
<1>4. OthersKeep(w)
  BY <1>1, FetchEffect, EvaluateLocals, GoToLocals, LeaveLocals
<1>5. ASSUME NEW u \in UsageIds, holder'[u] = w PROVE HeldLines(w, u)'
  <2>1. CASE Fetch(w)
    BY <1>5, <2>1, FetchHeld
  <2>2. CASE ~Fetch(w)
    <3>1. holder' = holder
      BY <2>2 DEF EvaluateRecord, FindNoOriginal, RefundView, SyncView, SyncStats, CacheFailure,
                  MarkProcessed, MarkFailed, MarkSkipped, MarkRecord, queueVars
    <3>2. HeldLines(w, u)
      BY <1>5, <3>1 DEF LinesInv, HeldInv
    <3>3. \A a \in Account : (Visible(w, a).entries)' = Visible(w, a).entries
      BY <1>2 DEF Visible, storeVars
    <3>4. /\ UsageWritten(w, u)' <=> UsageWritten(w, u)
          /\ RefundWritten(w, u) => RefundWritten(w, u)'
      <4>1. CASE EvaluateRecord(w)
        BY <4>1, EvaluateHeld
      <4>2. CASE MarkFailed(w) \/ MarkSkipped(w) \/ SyncStats(w) \/ CacheFailure(w)
        BY <4>2, LeaveHeld
      <4>3. CASE FindNoOriginal(w) \/ RefundView(w) \/ SyncView(w)
        <5>1. /\ batch'[w] = batch[w] /\ mark' = mark
              /\ <<pc[w], pc'[w]>> \in {<<"lookup", "mark">>, <<"refund_view", "mark">>, <<"view", "stats">>}
          BY <1>1, <4>3, GoToLocals DEF FindNoOriginal, RefundView, SyncView, queueVars
        <5> QED
          BY <5>1, WrittenOn DEF Refunding
      <4>4. CASE MarkProcessed(w)
        <5>1. /\ batch[w] # <<>> /\ pc[w] = "mark" /\ pc'[w] = "view"
              /\ mark' = [mark EXCEPT ![Head(batch[w])] = "processed"]
          BY <1>1, <4>4, GoToLocals DEF MarkProcessed, MarkRecord, LocalsOf
        <5> QED
          BY <1>1, <5>1, WrittenMark
      <4> QED
        BY <2>2, <4>1, <4>2, <4>3, <4>4
    <3> QED
      BY <3>2, <3>3, <3>4, HeldSame
  <2> QED
    BY <2>1, <2>2
<1>6. HeldInv'
  BY <1>1, <1>2, <1>4, <1>5, HeldStep DEF LinesInv
<1> QED
  BY <1>3, <1>6 DEF LinesInv

LEMMA LinesLookUp ==
    ASSUME IInv, LinesInv, NEW w \in Sessions, LookUpOriginal(w)
    PROVE  LinesInv'
<1>1. TypeOK /\ LocalsInv /\ LedgerInv /\ AccountsInv
  BY DEF IInv, LedgerInv
<1>2. /\ OthersKeep(w) /\ pc[w] = "lookup" /\ pc'[w] = "restore" /\ UNCHANGED batch
      /\ UNCHANGED <<storeVars, status, mark, holder>>
  BY <1>1, LookUpLocals DEF LookUpOriginal, queueVars
<1>3. SettledInv' /\ UncommittedInv'
  BY <1>1, <1>2, SettledSame, UncommittedFrame DEF LinesInv, storeVars
<1>4. ASSUME NEW u \in UsageIds, holder'[u] = w PROVE HeldLines(w, u)'
  <2>1. HeldLines(w, u)
    BY <1>2, <1>4 DEF LinesInv, HeldInv
  <2>2. \A a \in Account : (Visible(w, a).entries)' = Visible(w, a).entries
    BY <1>2 DEF Visible, storeVars
  <2> QED
    BY <1>2, <2>1, <2>2, WrittenOn, HeldSame DEF Refunding
<1>5. HeldInv'
  BY <1>1, <1>2, <1>4, HeldStep DEF LinesInv
<1> QED
  BY <1>3, <1>5 DEF LinesInv

(* The statements on a balance write no row. *)
LEMMA LinesMove ==
    ASSUME IInv, LinesInv, NEW w \in Sessions,
           DeductUsage(w) \/ RestoreOriginal(w) \/ RefuseUsage(w)
    PROVE  LinesInv'
<1>1. TypeOK /\ LocalsInv /\ LocalsOf(w) /\ AccountsInv
  BY DEF IInv, LocalsInv, LedgerInv
<1>2. /\ OthersKeep(w) /\ batch'[w] = batch[w]
      /\ pc'[w] \in Refunding \union {"mark"} <=> pc[w] \in Refunding \union {"mark"}
      /\ pc[w] \in {"refund_view", "mark"} => pc'[w] \in {"refund_view", "mark"}
  <2>1. CASE DeductUsage(w) \/ RestoreOriginal(w)
    BY <1>1, <2>1, MoveLocals DEF Refunding
  <2>2. CASE RefuseUsage(w)
    BY <1>1, <2>2, GoToLocals, RefuseBranches DEF Refunding
  <2> QED
    BY <2>1, <2>2
<1>3. /\ UNCHANGED <<status, mark, holder>>
      /\ \/ UNCHANGED storeVars
         \/ \E a \in Account : \E account :
               /\ account.entries = Visible(w, a).entries
               /\ Lockable(w, a) /\ Write(w, a, account)
  <2>1. CASE DeductUsage(w) \/ RestoreOriginal(w)
    <3>1. PICK a \in Account, new \in Int :
            Lockable(w, a) /\ Write(w, a, Reads(w, a, new)) /\ UNCHANGED queueVars
      BY <1>1, <2>1, MoveBranches
    <3>2. Reads(w, a, new).entries = Visible(w, a).entries
      BY <1>1, VisibleTyped DEF Reads, AccountState
    <3> QED
      BY <3>1, <3>2 DEF queueVars
  <2>2. CASE RefuseUsage(w)
    BY <1>1, <2>2, RefuseBranches DEF queueVars
  <2> QED
    BY <2>1, <2>2
<1>4. SettledInv'
  BY <1>3, SettledSame DEF LinesInv, storeVars, Write
<1>5. UncommittedInv'
  BY <1>1, <1>3, UncommittedFrame DEF LinesInv
<1>6. \A a \in Account : (Visible(w, a).entries)' = Visible(w, a).entries
  <2>1. CASE UNCHANGED storeVars
    BY <2>1 DEF Visible, storeVars
  <2>2. ASSUME NEW b \in Account, NEW account, account.entries = Visible(w, b).entries,
               Write(w, b, account), NEW a \in Account
        PROVE  (Visible(w, a).entries)' = Visible(w, a).entries
    BY <1>1, <2>2 DEF Write, Visible, TypeOK, StoreTypeOK
  <2> QED
    BY <1>3, <2>1, <2>2
<1>7. ASSUME NEW u \in UsageIds, holder'[u] = w PROVE HeldLines(w, u)'
  <2>1. HeldLines(w, u)
    BY <1>3, <1>7 DEF LinesInv, HeldInv
  <2> QED
    BY <1>2, <1>3, <1>6, <2>1, WrittenOn, HeldSame
<1>8. HeldInv'
  BY <1>1, <1>2, <1>3, <1>7, HeldStep DEF LinesInv
<1> QED
  BY <1>4, <1>5, <1>8 DEF LinesInv

LEMMA LinesWrite ==
    ASSUME IInv, LinesInv, NEW w \in Sessions, WriteUsage(w) \/ WriteRefund(w)
    PROVE  LinesInv'
<1>1. TypeOK /\ LocalsInv /\ LocalsOf(w) /\ AccountsInv /\ QueueInv
  BY DEF IInv, LocalsInv, LedgerInv
<1>2. OthersKeep(w)
  BY <1>1, GoToLocals
<1>3. PICK a, e : a = DueAccount(w) /\ e = DueRow(w)
  OBVIOUS
<1>4. Midway(w) /\ CreateTransaction(w, a, e) /\ UNCHANGED <<status, mark, holder>>
  BY <1>3, WriteBranches DEF queueVars
<1>5. a \in Account /\ e \in Entry /\ e.source \in UsageIds /\ e.source = Head(batch[w])
  BY <1>1, <1>3, <1>4, DueRowTyped, DueRowBelongs
<1>6. holder[e.source] = w
  <2>1. batch[w] # <<>>
    BY <1>1, <1>4 DEF LocalsOf, Midway
  <2> QED
    BY <1>1, <1>5, <2>1, BatchHead
<1>7. SettledInv'
  BY <1>4, SettledSame DEF LinesInv, CreateTransaction
<1>8. UncommittedInv'
  BY <1>1, <1>4, <1>5, <1>6, UncommittedFrame DEF LinesInv
<1>9. HeldInv'
  BY <1>1, <1>2, <1>4, <1>5, WriteHeld, HeldStep DEF LinesInv
<1> QED
  BY <1>7, <1>8, <1>9 DEF LinesInv

(* The commit settles the records of the batch together with their rows. *)
LEMMA CommitSettles ==
    ASSUME IInv, LinesInv, NEW w \in Sessions, CommitBatch(w)
    PROVE  SettledInv'
<1>1. TypeOK /\ AccountsInv /\ QueueInv /\ pc[w] = "commit" /\ UncommittedInv
  BY DEF IInv, LedgerInv, CommitBatch, LinesInv
<1>2. PICK next : next = committed'
  OBVIOUS
<1>3. \A a \in Account : next[a].entries = Seen(w)[a].entries
  BY <1>2 DEF CommitBatch, Commit, Seen
<1> SUFFICES ASSUME NEW u \in UsageIds PROVE SettledLines(u)'
  BY DEF SettledInv
<1>4. /\ status'[u] = "processed" => SomeLine(next, u, "usage")
      /\ status'[u] # "processed" => NoLine(next, u, "usage") /\ NoLine(next, u, "refund")
      /\ NoTwoLines(next, u, "usage")
      /\ NoTwoLines(next, u, "refund")
  <2>1. SameLines(Seen(w), next, u)
    BY <1>3, SameEntriesSameLines
  <2>2. CASE holder[u] = w
    <3>1. /\ HeldLines(w, u) /\ status[u] = "pending"
          /\ mark[u] = "processed" <=> status'[u] = "processed"
      BY <1>1, <2>2, Constants, NoneIsNoStatus
         DEF LinesInv, HeldInv, QueueInv, RecordInv, CommitBatch, TypeOK, BillingStatuses
    <3>2. /\ UsageWritten(w, u) <=> mark[u] = "processed"
          /\ RefundWritten(w, u) <=> mark[u] = "processed"
      BY <1>1 DEF UsageWritten, RefundWritten, Refunding
    <3> QED
      BY <2>1, <3>1, <3>2, SameLinesSameFacts DEF HeldLines
  <2>3. CASE holder[u] # w
    <3>1. SettledLines(u) /\ status'[u] = status[u]
      BY <2>3 DEF LinesInv, SettledInv, CommitBatch
    <3>2. SameLines(committed, Seen(w), u)
      BY <1>1, <2>3, StrangersLines
    <3>3. SameLines(committed, next, u)
      BY <2>1, <3>2 DEF SameLines
    <3> QED
      BY <3>1, <3>3, SameLinesSameFacts DEF SettledLines
  <2> QED
    BY <2>2, <2>3
<1> QED
  BY <1>2, <1>4 DEF SettledLines

LEMMA LinesEnd ==
    ASSUME IInv, LinesInv, NEW w \in Sessions, CommitBatch(w) \/ Crash(w) \/ DeadlockVictim(w)
    PROVE  LinesInv'
<1>1. TypeOK /\ LocalsInv /\ AccountsInv /\ QueueInv
  BY DEF IInv, LedgerInv
<1>2. /\ EndCycle(w) /\ ReleaseRecords(w)
      /\ (Commit(w) /\ ~Midway(w)) \/ Rollback(w)
  BY DEF CommitBatch, Crash, DeadlockVictim, RollbackBatch, Midway
<1>3. OthersKeep(w)
  BY <1>1, <1>2, EndLocals
<1>4. UncommittedInv'
  BY <1>1, <1>2, UncommittedEnd DEF LinesInv
<1>5. SettledInv'
  <2>1. CASE CommitBatch(w)
    BY <2>1, CommitSettles
  <2>2. CASE Crash(w) \/ DeadlockVictim(w)
    BY <2>2, SettledSame DEF LinesInv, Crash, DeadlockVictim, RollbackBatch, Rollback
  <2> QED
    BY <2>1, <2>2
<1>6. \A u \in UsageIds :
        /\ holder'[u] # w
        /\ \A v \in Sessions \ {w} : holder'[u] = v => holder[u] = v /\ mark'[u] = mark[u]
  BY <1>2, Constants DEF ReleaseRecords
<1>7. HeldInv'
  <2>1. CASE Commit(w) /\ ~Midway(w)
    BY <1>1, <1>3, <1>6, <2>1, OthersHeldCommit DEF LinesInv, HeldInv
  <2>2. CASE Rollback(w)
    BY <1>1, <1>3, <1>6, <2>2, HeldStep DEF LinesInv
  <2> QED
    BY <1>2, <2>1, <2>2
<1> QED
  BY <1>4, <1>5, <1>7 DEF LinesInv

(* A record that a host creates has no rows yet. *)
LEMMA LinesCreate ==
    ASSUME LinesInv, NEW u \in UsageIds, CreateRecord(u), TypeOK
    PROVE  LinesInv'
<1>1. /\ \A t \in UsageIds : status'[t] = "processed" <=> status[t] = "processed"
      /\ UNCHANGED <<committed, working, owner, mark, holder, pc, batch>>
  BY NoneIsNoStatus DEF CreateRecord, storeVars, locals, TypeOK, BillingStatuses
<1>2. SettledInv'
  <2> SUFFICES ASSUME NEW t \in UsageIds PROVE SettledLines(t)'
    BY DEF SettledInv
  <2>1. SettledLines(t)
    BY DEF LinesInv, SettledInv
  <2>2. /\ NoLine(committed, t, "usage")' <=> NoLine(committed, t, "usage")
        /\ NoLine(committed, t, "refund")' <=> NoLine(committed, t, "refund")
        /\ SomeLine(committed, t, "usage")' <=> SomeLine(committed, t, "usage")
    BY <1>1 DEF NoLine, SomeLine, Line
  <2>3. /\ NoTwoLines(committed, t, "usage")' <=> NoTwoLines(committed, t, "usage")
        /\ NoTwoLines(committed, t, "refund")' <=> NoTwoLines(committed, t, "refund")
    BY <1>1 DEF NoTwoLines, Line
  <2>4. status'[t] = "processed" <=> status[t] = "processed"
    BY <1>1
  <2> QED
    BY <2>1, <2>2, <2>3, <2>4 DEF SettledLines
<1>3. UncommittedInv'
  BY <1>1 DEF LinesInv, UncommittedInv, UncommittedRows
<1>4. HeldInv'
  BY <1>1 DEF LinesInv, HeldInv, HeldLines, UsageWritten, RefundWritten, NoLine, SomeLine,
              NoTwoLines, Line, Seen, Visible
<1> QED
  BY <1>2, <1>3, <1>4 DEF LinesInv

LEMMA LinesInit == Init => LinesInv
<1> SUFFICES ASSUME Init PROVE LinesInv
  OBVIOUS
<1>1. /\ \A a \in Account : committed[a].entries = <<>> /\ owner[a] = None
      /\ \A u \in UsageIds : holder[u] = None /\ status[u] = None
  BY DEF Init, StoreInit
<1>2. \A u \in UsageIds : \A type \in {"usage", "refund"} :
         NoLine(committed, u, type) /\ NoTwoLines(committed, u, type)
  BY <1>1 DEF NoLine, NoTwoLines, Line
<1>3. SettledInv
  BY <1>1, <1>2, NoneIsNoStatus DEF SettledInv, SettledLines, BillingStatuses
<1> QED
  BY <1>1, <1>3, Constants DEF LinesInv, UncommittedInv, UncommittedRows, HeldInv

LEMMA LinesStep ==
    ASSUME "refund_view" \notin CacheFailsAt, IInv, LinesInv, [Next]_vars
    PROVE  LinesInv'
<1>1. CASE UNCHANGED vars
  <2> USE <1>1 DEF vars, storeVars, queueVars, locals
  <2>1. SettledInv'
    BY SettledSame DEF LinesInv
  <2>2. UncommittedInv'
    BY DEF LinesInv, UncommittedInv, UncommittedRows
  <2>3. HeldInv'
    BY DEF LinesInv, HeldInv, HeldLines, UsageWritten, RefundWritten, NoLine, SomeLine,
           NoTwoLines, Line, Seen, Visible
  <2> QED
    BY <2>1, <2>2, <2>3 DEF LinesInv
<1>2. ASSUME NEW u \in UsageIds, CreateRecord(u) PROVE LinesInv'
  BY <1>2, LinesCreate DEF IInv
<1>3. ASSUME NEW w \in Sessions, Step(w) \/ CacheFailure(w) \/ Crash(w) PROVE LinesInv'
  BY <1>3, LinesQuiet, LinesLookUp, LinesMove, LinesWrite, LinesEnd DEF Step
<1> QED
  BY <1>1, <1>2, <1>3 DEF Next, Drained

LEMMA LinesHold ==
    ASSUME "refund_view" \notin CacheFailsAt
    PROVE  Spec => [](IInv /\ LinesInv)
<1>1. Init => IInv /\ LinesInv
  BY InitInv, LinesInit
<1>2. (IInv /\ LinesInv) /\ [Next]_vars => (IInv /\ LinesInv)'
  BY InvStep, LinesStep
<1> QED
  BY <1>1, <1>2, PTL DEF Spec

(* The charges of a record, counted. *)
LEMMA ChargesAreSettled ==
    ASSUME LinesInv, NEW u \in UsageIds
    PROVE  Charges[u] = IF status[u] = "processed" THEN 1 ELSE 0
<1>1. SettledLines(u)
  BY DEF LinesInv, SettledInv
<1>2. \A c : c \in ChargesOf(u) <=>
         \E a \in Account : \E i \in Nat : c = <<a, i>> /\ Line(committed, a, i, u, "usage")
  BY DEF ChargesOf, RowsOf, Line
<1>3. Charges[u] = Cardinality(ChargesOf(u))
  BY DEF Charges
<1>4. CASE status[u] = "processed"
  <2>1. PICK a \in Account, i \in Nat : Line(committed, a, i, u, "usage")
    BY <1>1, <1>4 DEF SettledLines, SomeLine
  <2>2. ChargesOf(u) = {<<a, i>>}
    BY <1>1, <1>2, <2>1 DEF SettledLines, NoTwoLines
  <2> QED
    BY <1>3, <1>4, <2>2, FS_Singleton
<1>5. CASE status[u] # "processed"
  <2>1. ChargesOf(u) = {}
    BY <1>1, <1>2, <1>5 DEF SettledLines, NoLine
  <2> QED
    BY <1>3, <1>5, <2>1, FS_EmptySet
<1> QED
  BY <1>4, <1>5

(***************************************************************************)
(* No record is charged twice, whatever is retried, crashes or deadlocks,  *)
(* if the cache call of a refund does not raise (worker.py lines 60 to 86: *)
(* a record that raised keeps what it has done and stays pending; the run  *)
(* RefundChargedTwice shows what happens if that call does raise).         *)
(***************************************************************************)
THEOREM WorkerChargesOnce ==
    ASSUME "refund_view" \notin CacheFailsAt
    PROVE  Spec => []ChargedAtMostOnce
<1>1. LinesInv => ChargedAtMostOnce
  BY ChargesAreSettled DEF ChargedAtMostOnce
<1> QED
  BY <1>1, LinesHold, PTL

(***************************************************************************)
(* Every refund in the ledger gives back exactly the charge of another     *)
(* record of the same customer and asset, was asked for by a record that   *)
(* is processed and has paid itself, and no record gives back two charges  *)
(* (service.py _handle_refund), under the same condition.                  *)
(***************************************************************************)
THEOREM WorkerBacksRefunds ==
    ASSUME "refund_view" \notin CacheFailsAt
    PROVE  Spec => []RefundsAreBacked
<1>1. ASSUME IInv, LinesInv PROVE RefundsAreBacked
  <2> SUFFICES ASSUME NEW u \in UsageIds, NEW a \in Account, NEW i \in RowsOf(u, a, "refund")
               PROVE  /\ status[u] = "processed"
                      /\ \E b \in Account : \E j \in RowsOf(u, b, "usage") :
                            committed[b].entries[j].amount < 0
                      /\ \A b \in Account : \A j \in RowsOf(u, b, "refund") : <<b, j>> = <<a, i>>
                      /\ \E v \in UsageIds : \E j \in RowsOf(v, a, "usage") :
                            /\ UsageRecords[v].customer = UsageRecords[u].customer
                            /\ UsageRecords[v].reference = UsageRecords[u].reference
                            /\ \E k \in Positions(RulesFor[UsageRecords[u].service]) :
                                  RulesFor[UsageRecords[u].service][k].refund = UsageRecords[v].service
                            /\ committed[a].entries[i].amount = -committed[a].entries[j].amount
    BY DEF RefundsAreBacked
  <2>1. SettledLines(u) /\ \A b \in Account : RowsOfRecords(b, committed[b].entries)
    BY <1>1 DEF LinesInv, SettledInv, IInv, LedgerInv, AccountsInv, CommittedInv
  <2>2. \A b \in Account : \A j, type :
           j \in RowsOf(u, b, type) <=> j \in Nat /\ Line(committed, b, j, u, type)
    BY DEF RowsOf, Line
  <2>3. Line(committed, a, i, u, "refund") /\ i \in Nat
    BY <2>2
  <2>4. status[u] = "processed"
    BY <2>1, <2>3 DEF SettledLines, NoLine
  <2>5. \E b \in Account : \E j \in RowsOf(u, b, "usage") : committed[b].entries[j].amount < 0
    <3>1. PICK b \in Account, j \in Nat : Line(committed, b, j, u, "usage")
      BY <2>1, <2>4 DEF SettledLines, SomeLine
    <3>2. j \in RowsOf(u, b, "usage")
      BY <2>2, <3>1
    <3>3. committed[b].entries[j].amount < 0
      BY <2>1, <3>1 DEF RowsOfRecords, Line
    <3> QED
      BY <3>2, <3>3
  <2>6. \A b \in Account : \A j \in RowsOf(u, b, "refund") : <<b, j>> = <<a, i>>
    BY <2>1, <2>2, <2>3 DEF SettledLines, NoTwoLines
  <2>7. PICK j \in 1..Len(committed[a].entries) :
          GivesBack(committed[a].entries[i], committed[a].entries[j])
    BY <2>1, <2>3 DEF RowsOfRecords, Line
  <2>8. PICK v \in UsageIds : v = committed[a].entries[j].source
    BY <2>1, <2>7 DEF RowsOfRecords
  <2>9. j \in RowsOf(v, a, "usage") /\ committed[a].entries[i].source = u
    BY <2>3, <2>7, <2>8 DEF RowsOf, Line, GivesBack
  <2>10. /\ UsageRecords[v].customer = UsageRecords[u].customer
         /\ UsageRecords[v].reference = UsageRecords[u].reference
         /\ \E k \in Positions(RulesFor[UsageRecords[u].service]) :
               RulesFor[UsageRecords[u].service][k].refund = UsageRecords[v].service
         /\ committed[a].entries[i].amount = -committed[a].entries[j].amount
    BY <2>7, <2>8, <2>9 DEF GivesBack
  <2> QED
    BY <2>4, <2>5, <2>6, <2>9, <2>10
<1> QED
  BY <1>1, LinesHold, PTL

-----------------------------------------------------------------------------
(* The refinement of Settlement.                                           *)

ChargesInv == Charges = [u \in UsageIds |-> IF status[u] = "processed" THEN 1 ELSE 0]

LEMMA ChargesFollowStatus ==
    ASSUME LinesInv
    PROVE  ChargesInv
BY ChargesAreSettled DEF Charges, ChargesInv

LEMMA QueueStarts ==
    ASSUME Init, ChargesInv
    PROVE  Queue!Init
BY NoneIsNoStatus DEF Init, Queue!Init, BillingStatuses, ChargesInv

LEMMA QueueStep ==
    ASSUME IInv, ChargesInv, ChargesInv', [Next]_vars
    PROVE  [Queue!Next]_<<status, Charges>>
<1>1. /\ Charges = [u \in UsageIds |-> IF status[u] = "processed" THEN 1 ELSE 0]
      /\ Charges' = [u \in UsageIds |-> IF status'[u] = "processed" THEN 1 ELSE 0]
  BY DEF ChargesInv
<1>2. TypeOK /\ QueueInv
  BY DEF IInv
<1>3. CASE status' = status
  BY <1>1, <1>3
<1>4. ASSUME NEW u \in UsageIds, CreateRecord(u) PROVE Queue!Next
  <2>1. status[u] = None /\ status' = [status EXCEPT ![u] = "pending"]
    BY <1>4 DEF CreateRecord
  <2>2. \A t \in UsageIds : status'[t] = "processed" <=> status[t] = "processed"
    BY <1>2, <2>1, NoneIsNoStatus DEF TypeOK, BillingStatuses
  <2>3. Charges' = Charges
    BY <1>1, <2>2
  <2> QED
    BY <2>1, <2>3 DEF Queue!Next, Queue!Create
<1>5. ASSUME NEW w \in Sessions, CommitBatch(w) PROVE Queue!Next
  <2>1. \A u \in UsageIds :
           status'[u] = IF holder[u] = w /\ mark[u] # None THEN mark[u] ELSE status[u]
    BY <1>5 DEF CommitBatch
  <2>2. PICK changed : changed = {u \in UsageIds : status'[u] # status[u]}
    OBVIOUS
  <2>3. ASSUME NEW u \in changed
        PROVE  /\ u \in UsageIds /\ status[u] = "pending"
               /\ status'[u] \in BillingStatuses \ {"pending"}
    <3>1. u \in UsageIds /\ status'[u] # status[u]
      BY <2>2
    <3>2. holder[u] = w /\ mark[u] # None /\ status'[u] = mark[u]
      BY <2>1, <3>1
    <3>3. RecordInv(u) /\ mark[u] \in BillingStatuses \union {None}
      BY <1>2, <3>1 DEF QueueInv, TypeOK
    <3> QED
      BY <3>1, <3>2, <3>3, Constants DEF RecordInv
  <2>4. ASSUME NEW u \in UsageIds
        PROVE  Charges'[u] = IF u \in changed /\ status'[u] = "processed"
                             THEN Charges[u] + 1 ELSE Charges[u]
    <3>1. CASE u \in changed
      <4>1. status[u] # "processed" /\ Charges[u] = 0
        BY <1>1, <2>3, <3>1
      <4> QED
        BY <1>1, <3>1, <4>1
    <3>2. CASE u \notin changed
      BY <1>1, <2>2, <3>2
    <3> QED
      BY <3>1, <3>2
  <2>5. Charges' = [u \in UsageIds |-> IF u \in changed /\ status'[u] = "processed"
                                      THEN Charges[u] + 1 ELSE Charges[u]]
    BY <1>1, <2>4
  <2>6. \A u \in UsageIds \ changed : status'[u] = status[u]
    BY <2>2
  <2>7. Queue!Settle(changed)
    BY <2>3, <2>5, <2>6 DEF Queue!Settle, Queue!BillingStatuses, BillingStatuses
  <2>8. changed = Queue!Changed
    BY <2>2 DEF Queue!Changed
  <2> QED
    BY <2>7, <2>8 DEF Queue!Next
<1> QED
  BY <1>3, <1>4, <1>5, OnlyCommitsPublish

(***************************************************************************)
(* The queue settles records as Settlement says: a record enters once and  *)
(* is settled once, and the same commit that makes it processed publishes  *)
(* its one charge (repositories.py mark_record_processed, worker.py: one   *)
(* transaction per batch), under the same condition on the refund's call.  *)
(***************************************************************************)
THEOREM WorkerSettlesRecords ==
    ASSUME "refund_view" \notin CacheFailsAt
    PROVE  Spec => SettlesRecords
<1>1. LinesInv => ChargesInv
  BY ChargesFollowStatus
<1>2. Init /\ ChargesInv => Queue!Init
  BY QueueStarts
<1>3. IInv /\ ChargesInv /\ ChargesInv' /\ [Next]_vars => [Queue!Next]_<<status, Charges>>
  BY QueueStep
<1> QED
  BY <1>1, <1>2, <1>3, LinesHold, PTL DEF Spec, SettlesRecords, Queue!Spec
-----------------------------------------------------------------------------
(* The view.                                                               *)

(* The refund under way gives back a charge on another account than the    *)
(* one that its own record has just been charged on.                       *)
RefundsElsewhere ==
    \A w \in Sessions :
        pc[w] \in {"restore", "refund_ledger", "refund_view"} => original[w].account # Target(w)

(* The accounts that w has changed in the store and not yet in the cache. *)
Charging == {"ledger", "mark", "view"} \union Refunding
Restoring == {"refund_ledger", "refund_view"}

Unsynced(w, a) ==
    \/ pc[w] \in Charging /\ a = Target(w)
    \/ pc[w] \in Restoring /\ a = original[w].account

(* What w is going to write to the cache is what it has written to the store. *)
ToBeSynced(w) ==
    /\ pc[w] \in Charging =>
          owner[Target(w)] = w /\ after[w] = working[Target(w)].amount
    /\ pc[w] \in Restoring =>
          /\ owner[original[w].account] = w
          /\ original[w].balance = working[original[w].account].amount

Shown(a) ==
    /\ owner[a] = None => view[a] \in {None, committed[a].amount}
    /\ \A s \in Sessions :
          owner[a] = s => Unsynced(s, a) \/ view[a] \in {None, working[a].amount}

ViewInv ==
    /\ \A w \in Sessions : ToBeSynced(w)
    /\ crashes = 0 => \A a \in Account : Shown(a)

(* A step of w leaves the accounts of the other workers alone. *)
OthersAccounts(w) ==
    \A a \in Account :
        owner[a] \notin {None, w} =>
            owner'[a] = owner[a] /\ working'[a] = working[a] /\ view'[a] = view[a]

LEMMA ChargingIsPriced == Charging \subseteq Priced /\ Restoring \subseteq Refunding \ {"lookup"}
BY DEF Charging, Restoring, Priced, Refunding

(* The accounts that w is about to sync. *)
LEMMA UnsyncedAccounts ==
    ASSUME TypeOK, NEW w \in Sessions, LocalsOf(w)
    PROVE  /\ pc[w] \in Charging => Target(w) \in Account
           /\ pc[w] \in Restoring => original[w].account \in Account
<1>1. pc[w] \in Charging => Target(w) \in Account
  BY ChargingIsPriced, PriceTyped
<1>2. pc[w] \in Restoring => original[w].account \in Account
  BY ChargingIsPriced DEF LocalsOf
<1> QED
  BY <1>1, <1>2

LEMMA OthersUnsynced ==
    ASSUME NEW w \in Sessions, OthersKeep(w), NEW v \in Sessions \ {w}
    PROVE  /\ pc'[v] = pc[v] /\ after'[v] = after[v] /\ original'[v] = original[v]
           /\ Target(v)' = Target(v)
           /\ \A a : Unsynced(v, a)' <=> Unsynced(v, a)
<1>1. /\ pc'[v] = pc[v] /\ after'[v] = after[v] /\ original'[v] = original[v]
      /\ batch'[v] = batch[v] /\ result'[v] = result[v]
  BY DEF OthersKeep
<1>2. Target(v)' = Target(v)
  BY <1>1, SamePrice
<1> QED
  BY <1>1, <1>2 DEF Unsynced

LEMMA OthersToBeSynced ==
    ASSUME TypeOK, LocalsInv, ViewInv, NEW w \in Sessions, OthersKeep(w), OthersAccounts(w),
           NEW v \in Sessions \ {w}
    PROVE  ToBeSynced(v)'
<1>1. LocalsOf(v) /\ ToBeSynced(v) /\ v # None
  BY Constants DEF LocalsInv, ViewInv
<1>2. /\ pc'[v] = pc[v] /\ after'[v] = after[v] /\ original'[v] = original[v]
      /\ Target(v)' = Target(v)
  BY OthersUnsynced
<1>3. ASSUME pc[v] \in Charging
      PROVE  owner'[Target(v)] = v /\ after[v] = working'[Target(v)].amount
  BY <1>1, <1>3, UnsyncedAccounts DEF ToBeSynced, OthersAccounts
<1>4. ASSUME pc[v] \in Restoring
      PROVE  /\ owner'[original[v].account] = v
             /\ original[v].balance = working'[original[v].account].amount
  BY <1>1, <1>4, UnsyncedAccounts DEF ToBeSynced, OthersAccounts
<1> QED
  BY <1>2, <1>3, <1>4 DEF ToBeSynced

(* What a step of w has to keep. *)
LEMMA ViewStep ==
    ASSUME TypeOK, LocalsInv, ViewInv, NEW w \in Sessions, OthersKeep(w), OthersAccounts(w),
           ToBeSynced(w)', crashes' = 0 => crashes = 0,
           ASSUME NEW a \in Account, owner[a] \in {None, w}, crashes' = 0, Shown(a)
           PROVE  Shown(a)'
    PROVE  ViewInv'
<1>1. ASSUME NEW v \in Sessions PROVE ToBeSynced(v)'
  BY OthersToBeSynced
<1>2. ASSUME NEW a \in Account, crashes' = 0 PROVE Shown(a)'
  <2>1. Shown(a)
    BY <1>2 DEF ViewInv
  <2>2. CASE owner[a] \in {None, w}
    BY <1>2, <2>1, <2>2
  <2>3. CASE owner[a] \notin {None, w}
    <3>1. owner'[a] = owner[a] /\ working'[a] = working[a] /\ view'[a] = view[a]
      BY <2>3 DEF OthersAccounts
    <3>2. PICK v \in Sessions \ {w} : owner[a] = v
      BY <2>3 DEF TypeOK, StoreTypeOK
    <3>3. Unsynced(v, a)' <=> Unsynced(v, a)
      BY OthersUnsynced
    <3> QED
      BY <2>1, <2>3, <3>1, <3>2, <3>3 DEF Shown
  <2> QED
    BY <2>2, <2>3
<1> QED
  BY <1>1, <1>2 DEF ViewInv

(* A step that touches neither the accounts nor the cache. *)
LEMMA ViewQuiet ==
    ASSUME TypeOK, LocalsInv, ViewInv, NEW w \in Sessions, OthersKeep(w),
           UNCHANGED <<storeVars, viewVars, crashes>>, ToBeSynced(w)',
           \A a \in Account : Unsynced(w, a) => Unsynced(w, a)'
    PROVE  ViewInv'
<1>1. OthersAccounts(w)
  BY DEF OthersAccounts, storeVars, viewVars
<1>2. ASSUME NEW a \in Account, owner[a] \in {None, w}, Shown(a) PROVE Shown(a)'
  <2>1. owner' = owner /\ committed' = committed /\ working' = working /\ view' = view
    BY DEF storeVars, viewVars
  <2>2. w # None
    BY Constants
  <2> QED
    BY <1>2, <2>1, <2>2, Constants DEF Shown
<1> QED
  BY <1>1, <1>2, ViewStep

(* A worker that goes on with its record, and has the same accounts to sync. *)
LEMMA SameToBeSynced ==
    ASSUME ViewInv, NEW w \in Sessions, batch'[w] = batch[w], result'[w] = result[w],
           after'[w] = after[w], original'[w] = original[w],
           pc'[w] \in Charging <=> pc[w] \in Charging,
           pc'[w] \in Restoring <=> pc[w] \in Restoring
    PROVE  /\ UNCHANGED <<owner, working>> => ToBeSynced(w)'
           /\ \A a : Unsynced(w, a)' <=> Unsynced(w, a)
<1>1. Target(w)' = Target(w)
  BY SamePrice
<1>2. ToBeSynced(w)
  BY DEF ViewInv
<1>3. \A a : Unsynced(w, a)' <=> Unsynced(w, a)
  BY <1>1 DEF Unsynced
<1>4. ASSUME UNCHANGED <<owner, working>> PROVE ToBeSynced(w)'
  BY <1>1, <1>2, <1>4 DEF ToBeSynced
<1> QED
  BY <1>3, <1>4

(* A worker with nothing to sync. *)
LEMMA NothingToSync ==
    ASSUME NEW w \in Sessions, pc'[w] \notin Charging
    PROVE  ToBeSynced(w)' /\ \A a : ~Unsynced(w, a)'
<1>1. pc'[w] \notin Restoring
  BY DEF Charging, Restoring, Refunding
<1> QED
  BY <1>1 DEF ToBeSynced, Unsynced

LEMMA QuietKeepsView ==
    ASSUME IInv, ViewInv, NEW w \in Sessions,
           \/ Fetch(w) \/ EvaluateRecord(w) \/ FindNoOriginal(w) \/ LookUpOriginal(w)
           \/ MarkProcessed(w) \/ MarkFailed(w) \/ MarkSkipped(w)
    PROVE  ViewInv'
<1>1. TypeOK /\ LocalsInv /\ LedgerInv /\ LocalsOf(w)
  BY DEF IInv, LocalsInv
<1>2. UNCHANGED <<storeVars, viewVars, crashes>>
  <2>1. CASE EvaluateRecord(w)
    BY <1>1, <2>1, EvaluateBranches
  <2>2. CASE ~EvaluateRecord(w)
    BY <2>2 DEF Fetch, FindNoOriginal, LookUpOriginal, MarkProcessed, MarkFailed, MarkSkipped,
                MarkRecord
  <2> QED
    BY <2>1, <2>2
<1>3. UNCHANGED <<owner, working>>
  BY <1>2 DEF storeVars
<1>4. CASE Fetch(w) \/ EvaluateRecord(w) \/ MarkFailed(w) \/ MarkSkipped(w)
  <2>1. OthersKeep(w) /\ pc'[w] \in {"deduct", "skip", "fail", "evaluate", "commit"}
    BY <1>1, <1>4, FetchEffect, EvaluateLocals, LeaveLocals
  <2>2. pc[w] \in {"idle", "evaluate", "fail", "skip"}
    BY <1>4 DEF Fetch, EvaluateRecord, MarkFailed, MarkSkipped
  <2>3. pc[w] \notin Charging /\ pc[w] \notin Restoring /\ pc'[w] \notin Charging
    BY <2>1, <2>2 DEF Charging, Restoring, Refunding
  <2>4. \A a : ~Unsynced(w, a)
    BY <2>3 DEF Unsynced
  <2> QED
    BY <1>1, <1>2, <2>1, <2>3, <2>4, NothingToSync, ViewQuiet
<1>5. CASE FindNoOriginal(w) \/ MarkProcessed(w)
  <2>1. /\ OthersKeep(w) /\ UNCHANGED <<batch, result, after, original>>
        /\ <<pc[w], pc'[w]>> \in {<<"lookup", "mark">>, <<"mark", "view">>}
    BY <1>1, <1>5, GoToLocals DEF FindNoOriginal, MarkProcessed
  <2>2. /\ pc'[w] \in Charging <=> pc[w] \in Charging
        /\ pc'[w] \in Restoring <=> pc[w] \in Restoring
    BY <2>1 DEF Charging, Restoring, Refunding
  <2> QED
    BY <1>1, <1>2, <1>3, <2>1, <2>2, SameToBeSynced, ViewQuiet
<1>6. CASE LookUpOriginal(w)
  <2>1. /\ OthersKeep(w) /\ UNCHANGED <<batch, result>> /\ after' = after
        /\ pc[w] = "lookup" /\ pc'[w] = "restore"
    BY <1>1, <1>6, LookUpLocals DEF LookUpOriginal
  <2>2. /\ pc[w] \in Charging /\ pc'[w] \in Charging
        /\ pc[w] \notin Restoring /\ pc'[w] \notin Restoring
    BY <2>1 DEF Charging, Restoring, Refunding
  <2>3. Target(w)' = Target(w)
    BY <2>1, SamePrice
  <2>4. ToBeSynced(w)'
    BY <1>3, <2>1, <2>2, <2>3 DEF ViewInv, ToBeSynced
  <2>5. \A a \in Account : Unsynced(w, a) => Unsynced(w, a)'
    BY <2>2, <2>3 DEF Unsynced
  <2> QED
    BY <1>1, <1>2, <2>1, <2>4, <2>5, ViewQuiet
<1> QED
  BY <1>4, <1>5, <1>6

(* The balance of an account moves: its view is behind until it is synced. *)
LEMMA MoveKeepsView ==
    ASSUME IInv, ViewInv, RefundsElsewhere, NEW w \in Sessions,
           DeductUsage(w) \/ RestoreOriginal(w)
    PROVE  ViewInv'
<1>1. TypeOK /\ LocalsInv /\ LocalsOf(w) /\ ToBeSynced(w) /\ w # None
  BY Constants DEF IInv, LocalsInv, ViewInv
<1>2. OthersKeep(w) /\ UNCHANGED <<batch, result>>
  BY <1>1, MoveLocals
<1>3. Target(w)' = Target(w)
  BY <1>2, SamePrice
<1>4. PICK a \in Account, new \in Int :
        /\ Lockable(w, a)
        /\ Write(w, a, Reads(w, a, new))
        /\ UNCHANGED <<viewVars, queueVars, batch, result, crashes>>
        /\ \/ /\ pc[w] = "deduct" /\ pc' = [pc EXCEPT ![w] = "ledger"]
              /\ a = Target(w)
              /\ after' = [after EXCEPT ![w] = new]
              /\ UNCHANGED original
           \/ /\ pc[w] = "restore" /\ pc' = [pc EXCEPT ![w] = "refund_ledger"]
              /\ a = original[w].account
              /\ original' = [original EXCEPT ![w].balance = new]
              /\ UNCHANGED after
  BY <1>1, MoveBranches
<1>5. /\ owner'[a] = w /\ working'[a].amount = new
      /\ \A b \in Account \ {a} : owner'[b] = owner[b] /\ working'[b] = working[b]
      /\ committed' = committed /\ view' = view /\ crashes' = crashes
      /\ owner[a] \in {None, w}
  <2>1. Visible(w, a) \in AccountState
    BY VisibleTyped, <1>1
  <2>2. Reads(w, a, new).amount = new
    BY <2>1 DEF Reads, AccountState
  <2> QED
    BY <1>1, <1>4, <2>2 DEF Write, Lockable, TypeOK, StoreTypeOK, viewVars
<1>6. OthersAccounts(w)
  BY <1>5 DEF OthersAccounts
<1>7. /\ ToBeSynced(w)' /\ Unsynced(w, a)'
      /\ \A b \in Account \ {a} : Unsynced(w, b) => Unsynced(w, b)'
  <2>1. CASE pc[w] = "deduct"
    <3>1. pc'[w] = "ledger" /\ a = Target(w) /\ after'[w] = new
      BY <1>1, <1>4, <2>1 DEF TypeOK
    <3>2. /\ pc[w] \notin Charging /\ pc[w] \notin Restoring
          /\ pc'[w] \in Charging /\ pc'[w] \notin Restoring
      BY <2>1, <3>1 DEF Charging, Restoring, Refunding
    <3> QED
      BY <1>3, <1>5, <3>1, <3>2 DEF ToBeSynced, Unsynced
  <2>2. CASE pc[w] = "restore"
    <3>1. /\ pc'[w] = "refund_ledger" /\ a = original[w].account /\ after' = after
          /\ original'[w].account = a /\ original'[w].balance = new
      BY <1>1, <1>4, <2>2 DEF TypeOK
    <3>2. pc[w] \in Charging /\ pc'[w] \in Charging /\ pc'[w] \in Restoring /\ pc[w] \notin Restoring
      BY <2>2, <3>1 DEF Charging, Restoring, Refunding
    <3>3. Target(w) \in Account \ {a}
      BY <1>1, <2>2, <3>1, <3>2, UnsyncedAccounts DEF RefundsElsewhere
    <3>4. owner'[Target(w)] = w /\ after'[w] = working'[Target(w)].amount
      BY <1>1, <1>5, <3>1, <3>2, <3>3 DEF ToBeSynced
    <3> QED
      BY <1>3, <1>5, <3>1, <3>2, <3>4 DEF ToBeSynced, Unsynced
  <2> QED
    BY <1>4, <2>1, <2>2
<1>8. ASSUME NEW b \in Account, owner[b] \in {None, w}, Shown(b) PROVE Shown(b)'
  <2>1. CASE b = a
    BY <1>1, <1>5, <1>7, <2>1, Constants DEF Shown
  <2>2. CASE b # a
    BY <1>1, <1>5, <1>7, <1>8, <2>2, Constants DEF Shown
  <2> QED
    BY <2>1, <2>2
<1> QED
  BY <1>1, <1>2, <1>5, <1>6, <1>7, <1>8, ViewStep

(* A refused deduction has locked the row, and changed nothing. *)
LEMMA RefuseKeepsView ==
    ASSUME IInv, ViewInv, NEW w \in Sessions, RefuseUsage(w)
    PROVE  ViewInv'
<1>1. TypeOK /\ LocalsInv /\ LocalsOf(w) /\ w # None
  BY Constants DEF IInv, LocalsInv
<1>2. /\ pc[w] = "deduct" /\ pc'[w] = "fail" /\ OthersKeep(w)
      /\ UNCHANGED <<viewVars, queueVars, crashes>>
      /\ \/ UNCHANGED storeVars
         \/ \E a \in Account : FindsRow(w, a) /\ Lockable(w, a) /\ Write(w, a, Visible(w, a))
  BY <1>1, RefuseBranches, GoToEffect
<1>3. pc[w] \notin Charging /\ pc[w] \notin Restoring /\ pc'[w] \notin Charging
  BY <1>2 DEF Charging, Restoring, Refunding
<1>4. ToBeSynced(w)' /\ \A a : ~Unsynced(w, a)
  BY <1>3, NothingToSync DEF Unsynced
<1>5. CASE UNCHANGED storeVars
  BY <1>1, <1>2, <1>4, <1>5, ViewQuiet
<1>6. ASSUME NEW a \in Account, Lockable(w, a), Write(w, a, Visible(w, a)) PROVE ViewInv'
  <2>1. /\ owner'[a] = w /\ working'[a] = Visible(w, a)
        /\ \A b \in Account \ {a} : owner'[b] = owner[b] /\ working'[b] = working[b]
        /\ committed' = committed /\ view' = view /\ crashes' = crashes
        /\ owner[a] \in {None, w}
    BY <1>1, <1>2, <1>6 DEF Write, Lockable, TypeOK, StoreTypeOK, viewVars
  <2>2. OthersAccounts(w)
    BY <2>1 DEF OthersAccounts
  <2>3. ASSUME NEW b \in Account, owner[b] \in {None, w}, Shown(b) PROVE Shown(b)'
    <3>1. CASE b = a
      <4>1. view[a] \in {None, Visible(w, a).amount}
        BY <1>1, <1>4, <2>1, <2>3, <3>1 DEF Shown, Visible
      <4> QED
        BY <1>1, <2>1, <3>1, <4>1, Constants DEF Shown
    <3>2. CASE b # a
      BY <1>1, <1>4, <2>1, <2>3, <3>2, Constants DEF Shown
    <3> QED
      BY <3>1, <3>2
  <2> QED
    BY <1>1, <1>2, <1>4, <2>1, <2>2, <2>3, ViewStep
<1> QED
  BY <1>2, <1>5, <1>6

(* A ledger row does not change the balance. *)
LEMMA WriteKeepsView ==
    ASSUME IInv, ViewInv, NEW w \in Sessions, WriteUsage(w) \/ WriteRefund(w)
    PROVE  ViewInv'
<1>1. TypeOK /\ LocalsInv /\ LocalsOf(w) /\ w # None /\ ToBeSynced(w)
  BY Constants DEF IInv, LocalsInv, ViewInv
<1>2. PICK a, e : a = DueAccount(w) /\ e = DueRow(w)
  OBVIOUS
<1>3. Midway(w) /\ CreateTransaction(w, a, e) /\ UNCHANGED <<viewVars, queueVars, crashes>>
  BY <1>2, WriteBranches
<1>4. a \in Account /\ owner[a] = w
  BY <1>1, <1>2, <1>3, DueRowTyped DEF CreateTransaction
<1>5. /\ owner' = owner /\ committed' = committed /\ view' = view /\ crashes' = crashes
      /\ \A b \in Account \ {a} : working'[b] = working[b]
      /\ working'[a].amount = working[a].amount
  BY <1>1, <1>3, <1>4 DEF CreateTransaction, TypeOK, StoreTypeOK, AccountState, viewVars
<1>6. \A b \in Account : working'[b].amount = working[b].amount
  BY <1>5
<1>7. /\ OthersKeep(w) /\ UNCHANGED <<batch, result, after, original>>
      /\ <<pc[w], pc'[w]>> \in {<<"ledger", "lookup">>, <<"ledger", "mark">>,
                                <<"refund_ledger", "refund_view">>}
  BY <1>1, <1>3, GoToLocals DEF Midway
<1>8. /\ pc'[w] \in Charging <=> pc[w] \in Charging
      /\ pc'[w] \in Restoring <=> pc[w] \in Restoring
  BY <1>7 DEF Charging, Restoring, Refunding
<1>9. \A b : Unsynced(w, b)' <=> Unsynced(w, b)
  BY <1>7, <1>8, SameToBeSynced
<1>10. ToBeSynced(w)'
  <2>1. Target(w)' = Target(w)
    BY <1>7, SamePrice
  <2>2. pc[w] \in Charging => Target(w) \in Account
    BY <1>1, UnsyncedAccounts
  <2>3. pc[w] \in Restoring => original[w].account \in Account
    BY <1>1, UnsyncedAccounts
  <2> QED
    BY <1>1, <1>5, <1>6, <1>7, <1>8, <2>1, <2>2, <2>3 DEF ToBeSynced
<1>11. OthersAccounts(w)
  BY <1>4, <1>5 DEF OthersAccounts
<1>12. ASSUME NEW b \in Account, owner[b] \in {None, w}, Shown(b) PROVE Shown(b)'
  BY <1>1, <1>5, <1>6, <1>9, <1>12, Constants DEF Shown
<1> QED
  BY <1>1, <1>5, <1>7, <1>10, <1>11, <1>12, ViewStep

(* The cache calls write what the store has, while the account is locked. *)
LEMMA SyncKeepsView ==
    ASSUME IInv, ViewInv, RefundsElsewhere, NEW w \in Sessions,
           RefundView(w) \/ SyncView(w) \/ SyncStats(w)
    PROVE  ViewInv'
<1>1. TypeOK /\ LocalsInv /\ LocalsOf(w) /\ w # None /\ ToBeSynced(w)
  BY Constants DEF IInv, LocalsInv, ViewInv
<1>2. CASE SyncStats(w)
  <2>1. OthersKeep(w) /\ pc'[w] \in {"evaluate", "commit"} /\ pc[w] = "stats"
    BY <1>1, <1>2, LeaveLocals DEF SyncStats
  <2>2. pc[w] \notin Charging /\ pc[w] \notin Restoring /\ pc'[w] \notin Charging
    BY <2>1 DEF Charging, Restoring, Refunding
  <2>3. ToBeSynced(w)' /\ \A a : ~Unsynced(w, a)
    BY <2>2, NothingToSync DEF Unsynced
  <2>4. UNCHANGED <<committed, working, owner, view, crashes>>
    BY <1>2 DEF SyncStats, IncrementStats, storeVars
  <2>5. OthersAccounts(w)
    BY <2>4 DEF OthersAccounts
  <2>6. ASSUME NEW a \in Account, owner[a] \in {None, w}, Shown(a) PROVE Shown(a)'
    BY <1>1, <2>3, <2>4, <2>6, Constants DEF Shown
  <2> QED
    BY <1>1, <2>1, <2>3, <2>4, <2>5, <2>6, ViewStep
<1>3. CASE SyncView(w)
  <2>1. /\ OthersKeep(w) /\ UNCHANGED <<batch, result, after, original>>
        /\ pc[w] = "view" /\ pc'[w] = "stats"
    BY <1>1, <1>3, GoToLocals DEF SyncView
  <2>2. pc[w] \in Charging /\ pc[w] \notin Restoring /\ pc'[w] \notin Charging
    BY <2>1 DEF Charging, Restoring, Refunding
  <2>3. PICK a \in Account : a = Target(w)
    BY <1>1, <2>2, UnsyncedAccounts
  <2>4. owner[a] = w /\ after[w] = working[a].amount
    BY <1>1, <2>2, <2>3 DEF ToBeSynced
  <2>5. /\ UNCHANGED <<committed, working, owner, crashes>> /\ view'[a] = working[a].amount
        /\ \A b \in Account \ {a} : view'[b] = view[b] /\ ~Unsynced(w, b)
    BY <1>1, <1>3, <2>2, <2>3, <2>4
       DEF SyncView, UpdateSingleBalance, storeVars, TypeOK, ViewTypeOK, Unsynced
  <2>6. OthersAccounts(w)
    BY <2>4, <2>5 DEF OthersAccounts
  <2>7. ASSUME NEW b \in Account, owner[b] \in {None, w}, Shown(b) PROVE Shown(b)'
    <3>1. CASE b = a
      BY <1>1, <2>4, <2>5, <3>1, Constants DEF Shown
    <3>2. CASE b # a
      BY <1>1, <2>5, <2>7, <3>2, Constants DEF Shown
    <3> QED
      BY <3>1, <3>2
  <2> QED
    BY <1>1, <2>1, <2>2, <2>5, <2>6, <2>7, NothingToSync, ViewStep
<1>4. CASE RefundView(w)
  <2>1. /\ OthersKeep(w) /\ UNCHANGED <<batch, result, after, original>>
        /\ pc[w] = "refund_view" /\ pc'[w] = "mark"
    BY <1>1, <1>4, GoToLocals DEF RefundView
  <2>2. pc[w] \in Charging /\ pc[w] \in Restoring /\ pc'[w] \in Charging /\ pc'[w] \notin Restoring
    BY <2>1 DEF Charging, Restoring, Refunding
  <2>3. PICK a \in Account : a = original[w].account
    BY <1>1, <2>2, UnsyncedAccounts
  <2>4. owner[a] = w /\ original[w].balance = working[a].amount
    BY <1>1, <2>2, <2>3 DEF ToBeSynced
  <2>5. /\ UNCHANGED <<committed, working, owner, crashes>> /\ view'[a] = working[a].amount
        /\ \A b \in Account \ {a} : view'[b] = view[b]
    BY <1>1, <1>4, <2>3, <2>4
       DEF RefundView, UpdateSingleBalance, storeVars, TypeOK, ViewTypeOK
  <2>6. OthersAccounts(w)
    BY <2>4, <2>5 DEF OthersAccounts
  <2>7. Target(w)' = Target(w)
    BY <2>1, SamePrice
  <2>8. ToBeSynced(w)'
    BY <1>1, <2>1, <2>2, <2>5, <2>7 DEF ToBeSynced
  <2>9. \A b \in Account \ {a} : Unsynced(w, b) => Unsynced(w, b)'
    BY <2>2, <2>3, <2>7 DEF Unsynced
  <2>10. ASSUME NEW b \in Account, owner[b] \in {None, w}, Shown(b) PROVE Shown(b)'
    <3>1. CASE b = a
      BY <1>1, <2>4, <2>5, <3>1, Constants DEF Shown
    <3>2. CASE b # a
      BY <1>1, <2>5, <2>9, <2>10, <3>2, Constants DEF Shown
    <3> QED
      BY <3>1, <3>2
  <2> QED
    BY <1>1, <2>1, <2>5, <2>6, <2>8, <2>10, ViewStep
<1> QED
  BY <1>2, <1>3, <1>4

(* A commit publishes accounts that the view shows already. *)
LEMMA EndKeepsView ==
    ASSUME IInv, ViewInv, NEW w \in Sessions, CommitBatch(w) \/ Crash(w)
    PROVE  ViewInv'
<1>1. TypeOK /\ LocalsInv /\ w # None
  BY Constants DEF IInv
<1>2. OthersKeep(w) /\ pc'[w] = "idle" /\ view' = view
  BY <1>1, EndLocals DEF CommitBatch, Crash, RollbackBatch, viewVars
<1>3. ToBeSynced(w)'
  <2>1. pc'[w] \notin Charging
    BY <1>2 DEF Charging, Refunding
  <2> QED
    BY <2>1, NothingToSync
<1>4. \A a \in Account : owner'[a] = IF owner[a] = w THEN None ELSE owner[a]
  BY <1>1 DEF CommitBatch, Crash, RollbackBatch, Commit, Rollback, Released, TypeOK, StoreTypeOK
<1>5. OthersAccounts(w)
  BY <1>1, <1>2, <1>4 DEF OthersAccounts, CommitBatch, Crash, RollbackBatch, Commit, Rollback,
                          TypeOK, StoreTypeOK
<1>6. CASE Crash(w)
  <2>1. crashes' # 0
    BY <1>1, <1>6 DEF Crash, TypeOK
  <2> QED
    BY <1>1, <1>2, <1>3, <1>5, <2>1, ViewStep
<1>7. CASE CommitBatch(w)
  <2>1. pc[w] = "commit" /\ crashes' = crashes
    BY <1>7 DEF CommitBatch
  <2>2. \A a : ~Unsynced(w, a)
    BY <2>1 DEF Unsynced, Charging, Restoring, Refunding
  <2>3. \A a \in Account : committed'[a] = Visible(w, a)
    BY <1>7 DEF CommitBatch, Commit
  <2>4. ASSUME NEW a \in Account, owner[a] \in {None, w}, Shown(a) PROVE Shown(a)'
    <3>1. owner'[a] = None
      BY <1>4, <2>4
    <3>2. view[a] \in {None, committed'[a].amount}
      BY <1>1, <2>2, <2>3, <2>4 DEF Shown, Visible
    <3> QED
      BY <1>1, <1>2, <3>1, <3>2, Constants DEF Shown
  <2> QED
    BY <1>1, <1>2, <1>3, <1>5, <2>1, <2>4, ViewStep
<1> QED
  BY <1>6, <1>7

LEMMA ViewFrame ==
    ASSUME ViewInv, UNCHANGED <<storeVars, viewVars, locals, crashes>>
    PROVE  ViewInv'
<1>1. /\ UNCHANGED <<committed, working, owner, view, pc, batch, result, after, original, crashes>>
  BY DEF storeVars, viewVars, locals
<1>2. \A w \in Sessions : Target(w)' = Target(w)
  BY <1>1, SamePrice
<1>3. \A w \in Sessions : ToBeSynced(w)'
  BY <1>1, <1>2 DEF ViewInv, ToBeSynced
<1>4. \A w \in Sessions : \A a : Unsynced(w, a)' <=> Unsynced(w, a)
  BY <1>1, <1>2 DEF Unsynced
<1>5. \A a \in Account : Shown(a) => Shown(a)'
  BY <1>1, <1>4 DEF Shown
<1> QED
  BY <1>1, <1>3, <1>5 DEF ViewInv

NoVictim == \A w \in Sessions : ~DeadlockVictim(w)

LEMMA ViewInvStep ==
    ASSUME CacheFailsAt = {}, IInv, ViewInv, RefundsElsewhere, [Next]_vars, [NoVictim]_vars
    PROVE  ViewInv'
<1>1. CASE UNCHANGED vars \/ Drained
  BY <1>1, ViewFrame DEF vars, Drained
<1>2. ASSUME NEW u \in UsageIds, CreateRecord(u) PROVE ViewInv'
  BY <1>2, ViewFrame DEF CreateRecord
<1>3. ASSUME NEW w \in Sessions, Step(w) \/ CacheFailure(w) \/ Crash(w), ~UNCHANGED vars
      PROVE  ViewInv'
  <2>1. ~CacheFailure(w) /\ ~DeadlockVictim(w)
    BY <1>3 DEF CacheFailure, NoVictim
  <2> QED
    BY <1>3, <2>1, QuietKeepsView, MoveKeepsView, RefuseKeepsView, WriteKeepsView, SyncKeepsView,
       EndKeepsView DEF Step
<1> QED
  BY <1>1, <1>2, <1>3 DEF Next

LEMMA ViewStarts == Init => ViewInv
<1> SUFFICES ASSUME Init PROVE ViewInv
  OBVIOUS
<1>1. /\ \A w \in Sessions : pc[w] = "idle"
      /\ \A a \in Account : owner[a] = None /\ view[a] = None
  BY DEF Init, StoreInit, ViewInit
<1>2. \A w \in Sessions : ToBeSynced(w)
  BY <1>1 DEF ToBeSynced, Charging, Restoring, Refunding
<1>3. \A a \in Account : Shown(a)
  BY <1>1, Constants DEF Shown
<1> QED
  BY <1>2, <1>3 DEF ViewInv

(***************************************************************************)
(* An account that no transaction is changing is shown as it is, or not at *)
(* all: workers update the cache before they commit, but while they hold   *)
(* the account's row lock (service.py _sync_cache and _handle_refund).     *)
(* The conditions are those under which the code keeps the promise: no     *)
(* cache call fails, the database rolls no batch back, and a refund gives  *)
(* back a charge on another account than the one its record pays from.     *)
(***************************************************************************)
THEOREM WorkerShowsCommitted ==
    ASSUME CacheFailsAt = {}
    PROVE  Spec /\ []RefundsElsewhere /\ [][NoVictim]_vars => []ViewIsCurrent
<1>1. Init => ViewInv
  BY ViewStarts
<1>2. IInv /\ ViewInv /\ RefundsElsewhere /\ [Next]_vars /\ [NoVictim]_vars => ViewInv'
  BY ViewInvStep
<1>3. ViewInv => ViewIsCurrent
  BY DEF ViewInv, Shown, ViewIsCurrent
<1> QED
  BY <1>1, <1>2, <1>3, InvHolds, PTL DEF Spec
-----------------------------------------------------------------------------
(* The counted spend.                                                      *)

(* Nothing has counted so far what the ledger has from the current record. *)
Uncounted == {"mark", "view", "stats"} \union Refunding

PendingSpend(w, a) == IF pc[w] \in Uncounted /\ a = Target(w) THEN Cost(w) ELSE 0

Owns(w) == pc[w] \in Uncounted => owner[Target(w)] = w

(* What is counted, and is going to be, is the spend of the rows that w sees. *)
Counted(w, a) == spent[a] + PendingSpend(w, a) = Spend(Visible(w, a).entries)

SpendOf(a) ==
    /\ owner[a] = None => spent[a] = Spend(committed[a].entries)
    /\ \A s \in Sessions : owner[a] = s => Counted(s, a)

SpendInv ==
    /\ \A w \in Sessions : Owns(w)
    /\ crashes = 0 => \A a \in Account : SpendOf(a)

(* The bound of the model on the counters is not reached. *)
Uncapped == \A a \in Account : spent[a] < SpentCap

(* A step of w leaves the accounts of the other workers alone. *)
OthersBooks(w) ==
    \A a \in Account :
        owner[a] \notin {None, w} =>
            owner'[a] = owner[a] /\ working'[a] = working[a] /\ spent'[a] = spent[a]

(* A worker with a price, and what it has not counted. *)
LEMMA PendingTyped ==
    ASSUME TypeOK, NEW w \in Sessions, LocalsOf(w)
    PROVE  /\ pc[w] \in Uncounted => Target(w) \in Account /\ Cost(w) \in Nat
           /\ \A a : PendingSpend(w, a) \in Nat
<1>1. pc[w] \in Uncounted => pc[w] \in Priced
  BY DEF Uncounted, Priced
<1> QED
  BY <1>1, PriceTyped DEF PendingSpend

(* A free account, as any worker sees it. *)
LEMMA FreeIsCounted ==
    ASSUME NEW w \in Sessions, NEW a, Owns(w), owner[a] = None, spent[a] \in Nat
    PROVE  /\ Visible(w, a) = committed[a]
           /\ Counted(w, a) <=> spent[a] = Spend(committed[a].entries)
<1>1. w # None
  BY Constants
<1>2. PendingSpend(w, a) = 0
  BY <1>1 DEF Owns, PendingSpend
<1>3. Visible(w, a) = committed[a]
  BY <1>1 DEF Visible
<1> QED
  BY <1>2, <1>3 DEF Counted

LEMMA FreeIsCountedAfter ==
    ASSUME NEW w \in Sessions, NEW a, Owns(w)', owner'[a] = None, spent'[a] \in Nat
    PROVE  Counted(w, a)' <=> spent'[a] = Spend(committed'[a].entries)
<1>1. w # None
  BY Constants
<1>2. PendingSpend(w, a)' = 0
  BY <1>1 DEF Owns, PendingSpend
<1>3. Visible(w, a)' = committed'[a]
  BY <1>1 DEF Visible
<1> QED
  BY <1>2, <1>3 DEF Counted

LEMMA OthersSpend ==
    ASSUME NEW w \in Sessions, OthersKeep(w), NEW v \in Sessions \ {w}
    PROVE  /\ Target(v)' = Target(v) /\ pc'[v] = pc[v]
           /\ \A a : PendingSpend(v, a)' = PendingSpend(v, a)
<1>1. pc'[v] = pc[v] /\ batch'[v] = batch[v] /\ result'[v] = result[v]
  BY DEF OthersKeep
<1>2. Target(v)' = Target(v) /\ Cost(v)' = Cost(v)
  BY <1>1, SamePrice
<1> QED
  BY <1>1, <1>2 DEF PendingSpend

(* What a step of w has to keep. *)
LEMMA SpendStep ==
    ASSUME TypeOK, TypeOK', LocalsInv, SpendInv, NEW w \in Sessions, OthersKeep(w), OthersBooks(w),
           Owns(w)', crashes' = 0 => crashes = 0,
           ASSUME NEW a \in Account, owner[a] \in {None, w}, crashes' = 0, Counted(w, a)
           PROVE  owner'[a] \in {None, w} /\ Counted(w, a)'
    PROVE  SpendInv'
<1>1. ASSUME NEW v \in Sessions \ {w} PROVE Owns(v)'
  <2>1. Owns(v) /\ LocalsOf(v) /\ v # None
    BY Constants DEF SpendInv, LocalsInv
  <2>2. Target(v)' = Target(v) /\ pc'[v] = pc[v]
    BY OthersSpend
  <2>3. pc[v] \in Uncounted => Target(v) \in Account
    BY <2>1, PendingTyped
  <2> QED
    BY <2>1, <2>2, <2>3 DEF Owns, OthersBooks
<1>2. ASSUME NEW a \in Account, crashes' = 0 PROVE SpendOf(a)'
  <2>1. SpendOf(a) /\ Owns(w) /\ w # None
    BY <1>2, Constants DEF SpendInv
  <2>2. CASE owner[a] \in {None, w}
    <3>1. spent[a] \in Nat /\ spent'[a] \in Nat
      BY DEF TypeOK, ViewTypeOK
    <3>2. Counted(w, a)
      BY <2>1, <2>2, <3>1, FreeIsCounted DEF SpendOf
    <3>3. owner'[a] \in {None, w} /\ Counted(w, a)'
      BY <1>2, <2>2, <3>2
    <3>4. owner'[a] = None => spent'[a] = Spend(committed'[a].entries)
      BY <3>1, <3>3, FreeIsCountedAfter
    <3> QED
      BY <3>3, <3>4, Constants DEF SpendOf
  <2>3. CASE owner[a] \notin {None, w}
    <3>1. owner'[a] = owner[a] /\ working'[a] = working[a] /\ spent'[a] = spent[a]
      BY <2>3 DEF OthersBooks
    <3>2. PICK v \in Sessions \ {w} : owner[a] = v
      BY <2>3 DEF TypeOK, StoreTypeOK
    <3>3. PendingSpend(v, a)' = PendingSpend(v, a)
      BY OthersSpend
    <3>4. Visible(v, a)' = Visible(v, a)
      BY <3>1, <3>2 DEF Visible
    <3>5. Counted(v, a)'
      BY <2>1, <3>1, <3>2, <3>3, <3>4 DEF SpendOf, Counted
    <3> QED
      BY <2>3, <3>1, <3>2, <3>5 DEF SpendOf
  <2> QED
    BY <2>2, <2>3
<1> QED
  BY <1>1, <1>2 DEF SpendInv

(* Steps that leave what the worker has still to count as it is. *)
SamePending(w) ==
    \/ pc[w] \notin Uncounted /\ pc'[w] \notin Uncounted
    \/ /\ pc[w] \in Uncounted /\ pc'[w] \in Uncounted
       /\ batch'[w] = batch[w] /\ result'[w] = result[w]

LEMMA SamePendingSpend ==
    ASSUME TypeOK, LocalsInv, SpendInv, NEW w \in Sessions, SamePending(w),
           \A a \in Account : owner[a] = w => owner'[a] = w
    PROVE  /\ \A a : PendingSpend(w, a)' = PendingSpend(w, a)
           /\ Owns(w)'
<1>1. CASE pc[w] \notin Uncounted /\ pc'[w] \notin Uncounted
  BY <1>1 DEF PendingSpend, Owns
<1>2. CASE /\ pc[w] \in Uncounted /\ pc'[w] \in Uncounted
           /\ batch'[w] = batch[w] /\ result'[w] = result[w]
  <2>1. Target(w)' = Target(w) /\ Cost(w)' = Cost(w)
    BY <1>2, SamePrice
  <2>2. Target(w) \in Account /\ owner[Target(w)] = w
    BY <1>2, PendingTyped DEF SpendInv, LocalsInv, Owns
  <2> QED
    BY <1>2, <2>1, <2>2 DEF PendingSpend, Owns
<1> QED
  BY <1>1, <1>2 DEF SamePending

(* A step that adds no charge to the ledger and none to the counters. *)
LEMMA NothingSpent ==
    ASSUME TypeOK, TypeOK', LocalsInv, SpendInv, NEW w \in Sessions, OthersKeep(w),
           SamePending(w), UNCHANGED <<spent, crashes>>,
           \A a \in Account : owner[a] \notin {None, w} =>
               owner'[a] = owner[a] /\ working'[a] = working[a],
           \A a \in Account : owner[a] \in {None, w} =>
               /\ owner'[a] \in {owner[a], w}
               /\ Spend(Visible(w, a)'.entries) = Spend(Visible(w, a).entries)
    PROVE  SpendInv'
<1>1. OthersBooks(w)
  BY DEF OthersBooks
<1>2. Owns(w)' /\ \A a : PendingSpend(w, a)' = PendingSpend(w, a)
  BY SamePendingSpend
<1>3. ASSUME NEW a \in Account, owner[a] \in {None, w}, Counted(w, a)
      PROVE  owner'[a] \in {None, w} /\ Counted(w, a)'
  BY <1>2, <1>3 DEF Counted
<1> QED
  BY <1>1, <1>2, <1>3, SpendStep

(* What a movement or a lock does to the accounts. *)
LEMMA WrittenAccount ==
    ASSUME TypeOK, NEW w \in Sessions, NEW a \in Account, NEW account, Lockable(w, a),
           Write(w, a, account), account.entries = Visible(w, a).entries
    PROVE  /\ \A b \in Account : owner[b] \notin {None, w} =>
                 owner'[b] = owner[b] /\ working'[b] = working[b]
           /\ \A b \in Account : owner[b] \in {None, w} =>
                 /\ owner'[b] \in {owner[b], w}
                 /\ Visible(w, b)'.entries = Visible(w, b).entries
<1>1. /\ owner'[a] = w /\ working'[a] = account /\ owner[a] \in {None, w}
      /\ \A b \in Account \ {a} : owner'[b] = owner[b] /\ working'[b] = working[b]
      /\ committed' = committed
  BY DEF Write, Lockable, TypeOK, StoreTypeOK
<1>2. Visible(w, a)' = account
  BY <1>1 DEF Visible
<1>3. \A b \in Account \ {a} : Visible(w, b)' = Visible(w, b)
  BY <1>1 DEF Visible
<1> QED
  BY <1>1, <1>2, <1>3

LEMMA QuietKeepsSpend ==
    ASSUME IInv, TypeOK', SpendInv, NEW w \in Sessions,
           \/ Fetch(w) \/ EvaluateRecord(w) \/ FindNoOriginal(w) \/ LookUpOriginal(w)
           \/ MarkProcessed(w) \/ MarkFailed(w) \/ MarkSkipped(w) \/ RefundView(w) \/ SyncView(w)
    PROVE  SpendInv'
<1>1. TypeOK /\ LocalsInv /\ LedgerInv /\ LocalsOf(w)
  BY DEF IInv, LocalsInv
<1>2. UNCHANGED <<committed, working, owner, spent, crashes>>
  <2>1. CASE EvaluateRecord(w)
    BY <1>1, <2>1, EvaluateBranches DEF storeVars, viewVars
  <2>2. CASE ~EvaluateRecord(w)
    BY <2>2 DEF Fetch, FindNoOriginal, LookUpOriginal, MarkProcessed, MarkFailed, MarkSkipped,
                MarkRecord, RefundView, SyncView, UpdateSingleBalance, storeVars, viewVars
  <2> QED
    BY <2>1, <2>2
<1>3. OthersKeep(w) /\ SamePending(w)
  <2>1. CASE Fetch(w) \/ EvaluateRecord(w) \/ MarkFailed(w) \/ MarkSkipped(w)
    <3>1. OthersKeep(w) /\ pc'[w] \in {"deduct", "skip", "fail", "evaluate", "commit"}
      BY <1>1, <2>1, FetchEffect, EvaluateLocals, LeaveLocals
    <3>2. pc[w] \in {"idle", "evaluate", "fail", "skip"}
      BY <2>1 DEF Fetch, EvaluateRecord, MarkFailed, MarkSkipped
    <3> QED
      BY <3>1, <3>2 DEF SamePending, Uncounted, Refunding
  <2>2. CASE FindNoOriginal(w) \/ MarkProcessed(w) \/ RefundView(w) \/ SyncView(w)
    <3>1. /\ OthersKeep(w) /\ UNCHANGED <<batch, result, after, original>>
          /\ <<pc[w], pc'[w]>> \in {<<"lookup", "mark">>, <<"mark", "view">>,
                                    <<"refund_view", "mark">>, <<"view", "stats">>}
      BY <1>1, <2>2, GoToLocals DEF FindNoOriginal, MarkProcessed, RefundView, SyncView
    <3> QED
      BY <3>1 DEF SamePending, Uncounted, Refunding
  <2>3. CASE LookUpOriginal(w)
    BY <1>1, <2>3, LookUpLocals DEF SamePending, Uncounted, Refunding
  <2> QED
    BY <2>1, <2>2, <2>3
<1>4. \A a \in Account : Visible(w, a)' = Visible(w, a)
  BY <1>2 DEF Visible
<1> QED
  BY <1>1, <1>2, <1>3, <1>4, NothingSpent

(* A balance moves, or a row is locked, before anything is in the ledger. *)
LEMMA MoveKeepsSpend ==
    ASSUME IInv, TypeOK', SpendInv, NEW w \in Sessions,
           DeductUsage(w) \/ RestoreOriginal(w) \/ RefuseUsage(w)
    PROVE  SpendInv'
<1>1. TypeOK /\ LocalsInv /\ LocalsOf(w)
  BY DEF IInv, LocalsInv
<1>2. OthersKeep(w) /\ SamePending(w)
  <2>1. CASE DeductUsage(w) \/ RestoreOriginal(w)
    <3>1. /\ OthersKeep(w) /\ UNCHANGED <<batch, result>>
          /\ <<pc[w], pc'[w]>> \in {<<"deduct", "ledger">>, <<"restore", "refund_ledger">>}
      BY <1>1, <2>1, MoveLocals
    <3> QED
      BY <3>1 DEF SamePending, Uncounted, Refunding
  <2>2. CASE RefuseUsage(w)
    <3>1. OthersKeep(w) /\ pc[w] = "deduct" /\ pc'[w] = "fail"
      BY <1>1, <2>2, RefuseBranches, GoToEffect
    <3> QED
      BY <3>1 DEF SamePending, Uncounted, Refunding
  <2> QED
    BY <2>1, <2>2
<1>3. UNCHANGED <<spent, crashes>>
  BY <1>1, MoveBranches, RefuseBranches DEF viewVars
<1>4. \/ UNCHANGED storeVars
      \/ \E a \in Account : \E account :
            Lockable(w, a) /\ Write(w, a, account) /\ account.entries = Visible(w, a).entries
  <2>1. CASE DeductUsage(w) \/ RestoreOriginal(w)
    <3>1. PICK a \in Account, new \in Int : Lockable(w, a) /\ Write(w, a, Reads(w, a, new))
      BY <1>1, <2>1, MoveBranches
    <3>2. Visible(w, a) \in AccountState
      BY <1>1, VisibleTyped
    <3>3. Reads(w, a, new).entries = Visible(w, a).entries
      BY <3>2 DEF Reads, AccountState
    <3> QED
      BY <3>1, <3>3
  <2>2. CASE RefuseUsage(w)
    BY <1>1, <2>2, RefuseBranches
  <2> QED
    BY <2>1, <2>2
<1>5. CASE UNCHANGED storeVars
  <2>1. \A a \in Account : Visible(w, a)' = Visible(w, a)
    BY <1>5 DEF Visible, storeVars
  <2> QED
    BY <1>1, <1>2, <1>3, <1>5, <2>1, NothingSpent DEF storeVars
<1>6. ASSUME NEW a \in Account, NEW account, Lockable(w, a), Write(w, a, account),
             account.entries = Visible(w, a).entries
      PROVE  SpendInv'
  <2>1. /\ \A b \in Account : owner[b] \notin {None, w} =>
               owner'[b] = owner[b] /\ working'[b] = working[b]
        /\ \A b \in Account : owner[b] \in {None, w} =>
               /\ owner'[b] \in {owner[b], w}
               /\ Visible(w, b)'.entries = Visible(w, b).entries
    BY <1>1, <1>6, WrittenAccount
  <2> QED
    BY <1>1, <1>2, <1>3, <2>1, NothingSpent
<1> QED
  BY <1>4, <1>5, <1>6

(* The ledger statement adds the row e to what w sees of the account a. *)
AddsRow(w, a, e) ==
    /\ owner[a] = w
    /\ UNCHANGED <<owner, committed, spent, crashes>>
    /\ \A b \in Account \ {a} : working'[b] = working[b] /\ Visible(w, b)' = Visible(w, b)
    /\ Visible(w, a)'.entries = Append(Visible(w, a).entries, e)
    /\ Visible(w, a).entries \in Seq(Entry)

LEMMA WrittenRow ==
    ASSUME TypeOK, NEW w \in Sessions, LocalsOf(w), WriteUsage(w) \/ WriteRefund(w)
    PROVE  \E a \in Account, e \in Entry :
              a = DueAccount(w) /\ e = DueRow(w) /\ AddsRow(w, a, e)
<1>1. Midway(w) /\ CreateTransaction(w, DueAccount(w), DueRow(w)) /\ UNCHANGED <<spent, crashes>>
  BY WriteBranches DEF viewVars
<1>2. PICK a, e : a = DueAccount(w) /\ e = DueRow(w)
  OBVIOUS
<1>3. a \in Account /\ e \in Entry /\ owner[a] = w
  BY <1>1, <1>2, DueRowTyped DEF CreateTransaction
<1>4. /\ owner' = owner /\ committed' = committed
      /\ \A b \in Account \ {a} : working'[b] = working[b]
      /\ working'[a].entries = Append(working[a].entries, e)
  BY <1>1, <1>2, <1>3 DEF CreateTransaction, TypeOK, StoreTypeOK, AccountState
<1>5. /\ Visible(w, a) = working[a] /\ Visible(w, a)' = working'[a]
      /\ \A b \in Account \ {a} : Visible(w, b)' = Visible(w, b)
  BY <1>3, <1>4 DEF Visible
<1>6. Visible(w, a).entries \in Seq(Entry)
  BY <1>3, VisibleTyped
<1>7. AddsRow(w, a, e)
  BY <1>1, <1>3, <1>4, <1>5, <1>6 DEF AddsRow
<1> QED
  BY <1>2, <1>3, <1>7

(* The row of a refund is no spend. *)
LEMMA RefundKeepsSpend ==
    ASSUME IInv, TypeOK', SpendInv, NEW w \in Sessions, WriteRefund(w)
    PROVE  SpendInv'
<1>1. TypeOK /\ LocalsInv /\ LocalsOf(w)
  BY DEF IInv, LocalsInv
<1>2. /\ OthersKeep(w) /\ UNCHANGED <<batch, result, after, original>>
      /\ pc[w] = "refund_ledger" /\ pc'[w] = "refund_view"
  BY <1>1, GoToLocals DEF WriteRefund
<1>3. SamePending(w)
  BY <1>2 DEF SamePending, Uncounted, Refunding
<1>4. PICK a \in Account, e \in Entry : e = DueRow(w) /\ AddsRow(w, a, e)
  BY <1>1, WrittenRow
<1>5. e.type # "usage"
  BY <1>2, <1>4 DEF DueRow, LedgerRow
<1>6. Spend(Append(Visible(w, a).entries, e)) = Spend(Visible(w, a).entries)
  BY <1>4, <1>5, RowsAreTyped, SpendAppend DEF AddsRow
<1>7. \A b \in Account : owner[b] \notin {None, w} =>
         owner'[b] = owner[b] /\ working'[b] = working[b]
  BY <1>4 DEF AddsRow
<1>8. \A b \in Account : owner[b] \in {None, w} =>
         /\ owner'[b] \in {owner[b], w}
         /\ Spend(Visible(w, b)'.entries) = Spend(Visible(w, b).entries)
  BY <1>4, <1>6 DEF AddsRow
<1>9. UNCHANGED <<spent, crashes>>
  BY <1>4 DEF AddsRow
<1> QED
  BY <1>1, <1>2, <1>3, <1>7, <1>8, <1>9, NothingSpent

(* The row of a usage is spent, and remains to be counted. *)
LEMMA UsageKeepsSpend ==
    ASSUME IInv, TypeOK', SpendInv, NEW w \in Sessions, WriteUsage(w)
    PROVE  SpendInv'
<1>1. TypeOK /\ LocalsInv /\ LocalsOf(w)
  BY DEF IInv, LocalsInv
<1>2. /\ OthersKeep(w) /\ UNCHANGED <<batch, result, after, original>>
      /\ pc[w] = "ledger" /\ pc'[w] \in {"lookup", "mark"}
  BY <1>1, GoToLocals DEF WriteUsage
<1>3. pc[w] \notin Uncounted /\ pc'[w] \in Uncounted
  BY <1>2 DEF Uncounted, Refunding
<1>4. Target(w)' = Target(w) /\ Cost(w)' = Cost(w)
  BY <1>2, SamePrice
<1>5. PICK a \in Account, e \in Entry :
        a = DueAccount(w) /\ e = DueRow(w) /\ AddsRow(w, a, e)
  BY <1>1, WrittenRow
<1>6. a = Target(w) /\ e.type = "usage" /\ e.amount = -Cost(w)
  BY <1>2, <1>5 DEF DueAccount, DueRow, LedgerRow
<1>7. PICK c \in Nat : c = Cost(w)
  BY <1>1, <1>2, PriceTyped DEF Priced
<1>8. /\ owner[a] = w /\ UNCHANGED <<owner, committed, spent, crashes>>
      /\ \A b \in Account \ {a} : working'[b] = working[b] /\ Visible(w, b)' = Visible(w, b)
      /\ Visible(w, a)'.entries = Append(Visible(w, a).entries, e)
  BY <1>5 DEF AddsRow
<1>9. PICK q \in Seq(Entry) : q = Visible(w, a).entries
  BY <1>5 DEF AddsRow
<1>10. Spend(q) \in Int /\ Spend(Append(q, e)) = Spend(q) + c
  <2>1. Spend(q) \in Int /\ Spend(Append(q, e)) = Spend(q) - e.amount
    BY <1>6, <1>8, RowsAreTyped, SpendAppend
  <2>2. PICK x \in Int : x = Spend(q)
    BY <2>1
  <2> QED
    BY <1>6, <1>7, <2>1, <2>2
<1>11. Owns(w)'
  BY <1>4, <1>6, <1>8 DEF Owns
<1>12. OthersBooks(w)
  BY <1>8 DEF OthersBooks
<1>13. ASSUME NEW b \in Account, owner[b] \in {None, w}, Counted(w, b)
       PROVE  owner'[b] \in {None, w} /\ Counted(w, b)'
  <2>1. PendingSpend(w, b) = 0
    BY <1>3 DEF PendingSpend
  <2>2. PendingSpend(w, b)' = IF b = a THEN c ELSE 0
    BY <1>3, <1>4, <1>6, <1>7 DEF PendingSpend
  <2>3. PICK s \in Nat : s = spent[b] /\ s = spent'[b]
    BY <1>1, <1>8 DEF TypeOK, ViewTypeOK
  <2>4. CASE b = a
    <3>1. s = Spend(q)
      BY <1>9, <1>13, <2>1, <2>3, <2>4 DEF Counted
    <3>2. s + c = Spend(Append(q, e))
      BY <1>10, <3>1
    <3>3. Spend(Visible(w, b)'.entries) = Spend(Append(q, e))
      BY <1>8, <1>9, <2>4
    <3> QED
      BY <1>8, <2>2, <2>3, <2>4, <3>2, <3>3 DEF Counted
  <2>5. CASE b # a
    <3>1. Visible(w, b)' = Visible(w, b)
      BY <1>8, <2>5
    <3> QED
      BY <1>8, <1>13, <2>1, <2>2, <2>3, <2>5, <3>1 DEF Counted
  <2> QED
    BY <2>4, <2>5
<1> QED
  BY <1>1, <1>2, <1>8, <1>11, <1>12, <1>13, SpendStep

(* The counter takes up the price of the current record. *)
LEMMA CountKeepsSpend ==
    ASSUME IInv, TypeOK', SpendInv, Uncapped', NEW w \in Sessions, SyncStats(w)
    PROVE  SpendInv'
<1>1. TypeOK /\ LocalsInv /\ LocalsOf(w) /\ Owns(w)
  BY DEF IInv, LocalsInv, SpendInv
<1>2. OthersKeep(w) /\ pc'[w] \in {"evaluate", "commit"} /\ pc[w] = "stats"
  BY <1>1, LeaveLocals DEF SyncStats
<1>3. pc[w] \in Uncounted /\ pc'[w] \notin Uncounted
  BY <1>2 DEF Uncounted, Refunding
<1>4. PICK a \in Account : a = Target(w) /\ owner[a] = w
  BY <1>1, <1>3, PendingTyped DEF Owns
<1>5. PICK c \in Nat : c = Cost(w)
  BY <1>1, <1>3, PendingTyped
<1>6. /\ UNCHANGED <<committed, working, owner, crashes>>
      /\ \A b \in Account \ {a} : spent'[b] = spent[b]
      /\ spent'[a] = spent[a] + c
  <2>1. /\ UNCHANGED <<committed, working, owner, crashes>>
        /\ spent' = [spent EXCEPT ![a] = IF @ + c > SpentCap THEN SpentCap ELSE @ + c]
    BY <1>4, <1>5 DEF SyncStats, IncrementStats, storeVars
  <2>2. /\ \A b \in Account \ {a} : spent'[b] = spent[b]
        /\ spent'[a] = IF spent[a] + c > SpentCap THEN SpentCap ELSE spent[a] + c
    BY <1>1, <2>1 DEF TypeOK, ViewTypeOK
  <2>3. spent'[a] < SpentCap
    BY DEF Uncapped
  <2> QED
    BY <2>1, <2>2, <2>3, Constants
<1>7. OthersBooks(w) /\ Owns(w)'
  BY <1>3, <1>4, <1>6 DEF OthersBooks, Owns
<1>8. ASSUME NEW b \in Account, owner[b] \in {None, w}, Counted(w, b)
      PROVE  owner'[b] \in {None, w} /\ Counted(w, b)'
  <2>1. PendingSpend(w, b) = IF b = a THEN c ELSE 0
    BY <1>3, <1>4, <1>5 DEF PendingSpend
  <2>2. PendingSpend(w, b)' = 0
    BY <1>3 DEF PendingSpend
  <2>3. Visible(w, b)' = Visible(w, b)
    BY <1>6 DEF Visible
  <2>4. PICK s \in Nat : s = spent[b]
    BY <1>1 DEF TypeOK, ViewTypeOK
  <2>5. spent'[b] + 0 = s + (IF b = a THEN c ELSE 0)
    BY <1>6, <2>4
  <2> QED
    BY <1>6, <1>8, <2>1, <2>2, <2>3, <2>4, <2>5 DEF Counted
<1> QED
  BY <1>1, <1>2, <1>6, <1>7, <1>8, SpendStep

(* A commit publishes the ledger that has been counted. *)
LEMMA EndKeepsSpend ==
    ASSUME IInv, TypeOK', SpendInv, NEW w \in Sessions, CommitBatch(w) \/ Crash(w)
    PROVE  SpendInv'
<1>1. TypeOK /\ LocalsInv /\ w # None
  BY Constants DEF IInv
<1>2. OthersKeep(w) /\ pc'[w] = "idle" /\ spent' = spent
  BY <1>1, EndLocals DEF CommitBatch, Crash, RollbackBatch, viewVars
<1>3. pc'[w] \notin Uncounted
  BY <1>2 DEF Uncounted, Refunding
<1>4. Owns(w)' /\ \A a : PendingSpend(w, a)' = 0
  BY <1>3 DEF Owns, PendingSpend
<1>5. \A a \in Account : owner'[a] = IF owner[a] = w THEN None ELSE owner[a]
  BY <1>1 DEF CommitBatch, Crash, RollbackBatch, Commit, Rollback, Released, TypeOK, StoreTypeOK
<1>6. OthersBooks(w)
  BY <1>1, <1>2, <1>5 DEF OthersBooks, CommitBatch, Crash, RollbackBatch, Commit, Rollback,
                          TypeOK, StoreTypeOK
<1>7. CASE Crash(w)
  <2>1. crashes' # 0
    BY <1>1, <1>7 DEF Crash, TypeOK
  <2> QED
    BY <1>1, <1>2, <1>4, <1>6, <2>1, SpendStep
<1>8. CASE CommitBatch(w)
  <2>1. pc[w] = "commit" /\ crashes' = crashes
    BY <1>8 DEF CommitBatch
  <2>2. \A a : PendingSpend(w, a) = 0
    BY <2>1 DEF PendingSpend, Uncounted, Refunding
  <2>3. ASSUME NEW a \in Account, owner[a] \in {None, w}, Counted(w, a)
        PROVE  owner'[a] \in {None, w} /\ Counted(w, a)'
    <3>1. owner'[a] = None
      BY <1>5, <2>3
    <3>2. Visible(w, a)' = Visible(w, a)
      BY <1>1, <1>8, <3>1 DEF CommitBatch, Commit, Visible
    <3> QED
      BY <1>2, <1>4, <2>2, <2>3, <3>1, <3>2 DEF Counted
  <2> QED
    BY <1>1, <1>2, <1>4, <1>6, <2>1, <2>3, SpendStep
<1> QED
  BY <1>7, <1>8

LEMMA SpendFrame ==
    ASSUME SpendInv, UNCHANGED <<storeVars, viewVars, locals, crashes>>
    PROVE  SpendInv'
<1>1. UNCHANGED <<committed, working, owner, spent, pc, batch, result, crashes>>
  BY DEF storeVars, viewVars, locals
<1>2. \A w \in Sessions : Target(w)' = Target(w) /\ Cost(w)' = Cost(w)
  BY <1>1, SamePrice
<1>3. \A w \in Sessions : Owns(w)'
  BY <1>1, <1>2 DEF SpendInv, Owns
<1>4. \A w \in Sessions : \A a : PendingSpend(w, a)' = PendingSpend(w, a)
  BY <1>1, <1>2 DEF PendingSpend
<1>5. \A w \in Sessions : \A a : Visible(w, a)' = Visible(w, a)
  BY <1>1 DEF Visible
<1>6. \A a \in Account : SpendOf(a) => SpendOf(a)'
  BY <1>1, <1>4, <1>5 DEF SpendOf, Counted
<1> QED
  BY <1>1, <1>3, <1>6 DEF SpendInv

LEMMA SpendInvStep ==
    ASSUME CacheFailsAt = {}, IInv, TypeOK', SpendInv, Uncapped', [Next]_vars, [NoVictim]_vars
    PROVE  SpendInv'
<1>1. CASE UNCHANGED vars \/ Drained
  BY <1>1, SpendFrame DEF vars, Drained
<1>2. ASSUME NEW u \in UsageIds, CreateRecord(u) PROVE SpendInv'
  BY <1>2, SpendFrame DEF CreateRecord
<1>3. ASSUME NEW w \in Sessions, Step(w) \/ CacheFailure(w) \/ Crash(w), ~UNCHANGED vars
      PROVE  SpendInv'
  <2>1. ~CacheFailure(w) /\ ~DeadlockVictim(w)
    BY <1>3 DEF CacheFailure, NoVictim
  <2> QED
    BY <1>3, <2>1, QuietKeepsSpend, MoveKeepsSpend, RefundKeepsSpend, UsageKeepsSpend,
       CountKeepsSpend, EndKeepsSpend DEF Step
<1> QED
  BY <1>1, <1>2, <1>3 DEF Next

LEMMA SpendStarts == Init => SpendInv
<1> SUFFICES ASSUME Init PROVE SpendInv
  OBVIOUS
<1>1. /\ \A w \in Sessions : pc[w] = "idle"
      /\ \A a \in Account : owner[a] = None /\ spent[a] = 0 /\ committed[a].entries = <<>>
  BY DEF Init, StoreInit, ViewInit
<1>2. \A w \in Sessions : Owns(w)
  BY <1>1 DEF Owns, Uncounted, Refunding
<1>3. \A a \in Account : SpendOf(a)
  BY <1>1, Constants, SpendEmpty DEF SpendOf
<1> QED
  BY <1>2, <1>3 DEF SpendInv

(***************************************************************************)
(* The counted spend of an account that no transaction is changing is what *)
(* the ledger has taken from it for usage: a record is counted under its   *)
(* account's row lock (service.py _sync_cache), before the commit that     *)
(* publishes its ledger row.  The conditions are those under which the     *)
(* code keeps the promise: no cache call fails and the database rolls no   *)
(* batch back; Uncapped is about the model's bound on the counters.        *)
(***************************************************************************)
THEOREM WorkerCountsSpend ==
    ASSUME CacheFailsAt = {}
    PROVE  Spec /\ []Uncapped /\ [][NoVictim]_vars => []SpendIsComplete
<1>1. Init => SpendInv
  BY SpendStarts
<1>2. IInv /\ IInv' /\ SpendInv /\ Uncapped' /\ [Next]_vars /\ [NoVictim]_vars => SpendInv'
  <2>1. IInv' => TypeOK'
    BY DEF IInv
  <2> QED
    BY <2>1, SpendInvStep
<1>3. SpendInv => SpendIsComplete
  BY DEF SpendInv, SpendOf, SpendIsComplete
<1> QED
  BY <1>1, <1>2, <1>3, InvHolds, PTL DEF Spec
=============================================================================
