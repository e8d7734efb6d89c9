--------------------------- MODULE LocalBackendProofs ---------------------------
(***************************************************************************)
(* Theorems about LocalBackend, for every list of records, rules, payment  *)
(* and query, any number of host tasks and any number of calls: the state  *)
(* is well typed, the dictionaries are a LedgerBook, a payment is granted  *)
(* once, every refund gives back a charge, paging misses no record, and a  *)
(* snapshot that nothing disturbed is exact; and, if no cache call of a    *)
(* refund fails, a record is charged exactly if it is processed.           *)
(*                                                                         *)
(* No step is ever taken back, so that the ledger is described by what one *)
(* posting adds to a book: Posted(book, a, row).  LoopInv says what the    *)
(* tasks hold when they are suspended and how a batch fits the records;    *)
(* the other parts of the invariant relate the rows to the records         *)
(* (LedgerInv, ChargesInv, RefundsInv), to the deliveries that are under   *)
(* way (PaymentsInv), to the pages read so far (ListingInv) and to what    *)
(* the cache has been told and snapshots have read of it (OrderInv,        *)
(* SnapshotInv).                                                           *)
(***************************************************************************)
EXTENDS LocalBackend, StoreLemmas, SequenceTheorems, FiniteSetTheorems

WorkerCalls == {"refund_view", "view", "stats"}

(* What the worker holds when it is suspended. *)
WorkerInv ==
    /\ pc[Worker] \in {"new", "sleep", "ended"} \union Holding \union WorkerCalls
    /\ batch # <<>> <=> pc[Worker] \in {"record"} \union WorkerCalls
    /\ pc[Worker] \in WorkerCalls => call[Worker].account \in Account /\ call[Worker].amount >= 0
    /\ pc[Worker] = "refund_view" => back.account \in Account

(* What a host task holds at each of its pcs. *)
HostInv(h) ==
    /\ pc[h] \in {"idle", "cache", "stats", "rows", "balances", "counters", "paging"}
    /\ pc[h] \in {"cache", "stats"} => call[h].account \in Account
    /\ pc[h] = "stats" => call[h].op = "charge"
    /\ call[h].op = "charge" => call[h].amount >= 0
    /\ call[h].op = "fund" => pc[h] = "cache" /\ call[h].reference \in References
    /\ pc[h] = "balances" => snapshot[h].customer \in Customers
    /\ pc[h] = "paging" => listing[h].query \in Queries

LocalsInv == WorkerInv /\ \A h \in Hosts : HostInv(h)

(* A record without an id is never taken out of the queue. *)
RecordsInv ==
    /\ Len(records) <= MaxRecords
    /\ \A i \in 1..Len(records) :
          /\ records[i].id \in {None, i}
          /\ records[i].id = None => records[i].status = "pending"

(* The batch is made of different pending records; the one whose cache
   updates are under way is processed. *)
BatchInv ==
    /\ \A i \in 1..Len(batch) :
          /\ batch[i] \in 1..Len(records)
          /\ i > 1 \/ pc[Worker] \notin {"view", "stats"} => records[batch[i]].status = "pending"
    /\ \A i, j \in 1..Len(batch) : i # j => batch[i] # batch[j]
    /\ pc[Worker] \in {"view", "stats"} => records[Head(batch)].status = "processed"

LoopInv == TypeOK /\ LocalsInv /\ RecordsInv /\ BatchInv

-----------------------------------------------------------------------------
(* The rows of a book, which is a value that accounts may have.            *)

Books == [Account -> MemoryAccount]

(* A balance call, and a posting: a balance call with its ledger row. *)
Moving(book, a, after) ==
    [book EXCEPT ![a] = [row |-> TRUE, amount |-> after, entries |-> book[a].entries]]

Posted(book, a, row) ==
    [book EXCEPT ![a] = [row |-> TRUE, amount |-> row.balance_after,
                         entries |-> Append(book[a].entries, row)]]

NewRow(id, type, amount, after, source, reference) ==
    [id |-> id, amount |-> amount, balance_after |-> after, type |-> type,
     source |-> source, reference |-> reference]

LinesOf(book) == UNION {{<<a, i>> : i \in 1..Len(book[a].entries)} : a \in Account}
LineOf(book, l) == book[l[1]].entries[l[2]]

ChargesOf(book, i) ==
    {l \in LinesOf(book) : LineOf(book, l).source = i /\ LineOf(book, l).type = "usage"}

GrantsOf(book, reference) == {l \in LinesOf(book) : LineOf(book, l).reference = reference}

(* A row names a record that has this id, and a charge takes money. *)
RowsOfRecords(book, list) ==
    \A l \in LinesOf(book) :
        /\ LineOf(book, l).source # None =>
              /\ LineOf(book, l).source \in 1..Len(list)
              /\ list[LineOf(book, l).source].id = LineOf(book, l).source
        /\ LineOf(book, l).type = "usage" => LineOf(book, l).amount < 0

BookIsSound(book) == \A a \in Account : Sound(a, book[a])

LedgerInv == BookIsSound(accounts) /\ RowsOfRecords(accounts, records)

(* Whether the worker is about to mark the record once its refund is shown. *)
IsRefunding(i) == pc[Worker] = "refund_view" /\ Head(batch) = i

Settled(i) ==
    /\ i <= Len(records)
    /\ records[i].id # None
    /\ records[i].status = "processed" \/ IsRefunding(i)

ChargesInv ==
    \A i \in UsageIds :
        IF Settled(i) THEN \E l : ChargesOf(accounts, i) = {l} ELSE ChargesOf(accounts, i) = {}

ReferenceOf(list, i) == UsageData[list[i].usage].reference

Backs(list, source, wanted) ==
    IF source # None THEN ReferenceOf(list, source) = wanted
    ELSE \E i \in 1..Len(list) : list[i].id = None /\ ReferenceOf(list, i) = wanted

GivesBack(book, list, l, m) ==
    /\ m[1] = l[1] /\ m[2] < l[2]
    /\ LineOf(book, m).type = "usage"
    /\ LineOf(book, m).amount = -LineOf(book, l).amount
    /\ Backs(list, LineOf(book, m).source, ReferenceOf(list, LineOf(book, l).source))

RefundsBacked(book, list) ==
    \A l \in LinesOf(book) :
        LineOf(book, l).type = "refund" /\ LineOf(book, l).source # None =>
            \E m \in LinesOf(book) : GivesBack(book, list, l, m)

RefundsInv == RefundsBacked(accounts, records)

Granting(h, reference) == call[h].op = "fund" /\ call[h].reference = reference

(* While a delivery is under way its reference is in the ledger, which is
   what turns the other deliveries away. *)
PaymentInv(reference) ==
    LET granted == GrantsOf(accounts, reference)
        products == PaymentProducts[reference]
    IN  /\ IsFiniteSet(granted)
        /\ Cardinality(granted) <= Len(products)
        /\ \A h \in Hosts : Granting(h, reference) =>
              /\ granted # {}
              /\ Cardinality(granted) + Len(call[h].todo) = Len(products)
        /\ \A g, h \in Hosts : Granting(g, reference) /\ Granting(h, reference) => g = h

PaymentsInv == \A reference \in References : PaymentInv(reference)

(* What a listing must show lies in the query's records, and what lies
   before its offset has been seen. *)
ListingInv ==
    \A h \in Hosts : pc[h] = "paging" =>
        LET query == listing[h].query
        IN  /\ listing[h].due \subseteq Filtered(query)
            /\ \A i \in listing[h].due :
                  Offset(query, i) < listing[h].offset => i \in listing[h].seen

-----------------------------------------------------------------------------
(* What a posting adds to a book.                                          *)

LEMMA Constants ==
    /\ None \notin UsageIds
    /\ None \notin References
    /\ UsageIds = 1..MaxRecords /\ MaxRecords \in Nat
    /\ Opening \in [Account -> Nat]
    /\ SpentCap \in Nat
    /\ BatchSize \in Nat \ {0}
    /\ Worker \notin Hosts
    /\ Worker \in Tasks
    /\ \A h \in Hosts : h \in Tasks /\ h # Worker
BY NoneIsNoId, UsageIdsArePositions, OpeningIsNatural, SpentCapIsNatural, BatchSizeIsPositive,
   WorkerIsNoHost DEF Tasks

LEMMA RowsAreTyped == \A row \in Transaction : row.balance_after \in Int /\ row.amount \in Int
BY DEF Transaction

LEMMA BookTyped ==
    ASSUME NEW book \in Books, NEW a \in Account
    PROVE  /\ book[a] \in MemoryAccount
           /\ book[a].row \in BOOLEAN
           /\ book[a].amount \in Int
           /\ book[a].entries \in Seq(Transaction)
           /\ Len(book[a].entries) \in Nat
<1>1. book[a] \in MemoryAccount
  BY DEF Books
<1>2. book[a].entries \in Seq(Transaction)
  BY <1>1 DEF MemoryAccount
<1> QED
  BY <1>1, <1>2 DEF MemoryAccount

(* The fields that one call of the repository assigns. *)
LEMMA RowsAssigned ==
    ASSUME NEW account \in MemoryAccount, NEW entries
    PROVE  [account EXCEPT !.entries = entries] =
             [row |-> account.row, amount |-> account.amount, entries |-> entries]
BY DEF MemoryAccount

LEMMA BalanceAssigned ==
    ASSUME NEW account \in MemoryAccount, NEW after
    PROVE  [account EXCEPT !.row = TRUE, !.amount = after] =
             [row |-> TRUE, amount |-> after, entries |-> account.entries]
<1> DEFINE kept == [account EXCEPT !.row = TRUE]
<1>1. kept \in MemoryAccount /\ kept.entries = account.entries /\ kept.row = TRUE
  BY DEF MemoryAccount
<1>2. [kept EXCEPT !.amount = after] =
        [row |-> kept.row, amount |-> after, entries |-> kept.entries]
  <2> HIDE DEF kept
  <2> QED
    BY <1>1 DEF MemoryAccount
<1> QED
  BY <1>1, <1>2

LEMMA BalanceMoves ==
    ASSUME NEW book \in Books, NEW a \in Account, NEW after \in Int
    PROVE  [book EXCEPT ![a].row = TRUE, ![a].amount = after] = Moving(book, a, after)
<1>1. [book[a] EXCEPT !.row = TRUE, !.amount = after] =
        [row |-> TRUE, amount |-> after, entries |-> book[a].entries]
  BY BookTyped, BalanceAssigned
<1> QED
  BY <1>1 DEF Books, Moving

(* A balance call, and then the ledger row with the balance that it left. *)
LEMMA EntryPosts ==
    ASSUME NEW book \in Books, NEW a \in Account, NEW after \in Int, NEW id, NEW type, NEW amount,
           NEW source, NEW reference
    PROVE  CreateTransaction(Moving(book, a, after), a, id, type, amount, source, reference) =
             Posted(book, a, NewRow(id, type, amount, after, source, reference))
<1> DEFINE row == NewRow(id, type, amount, after, source, reference)
           moved == Moving(book, a, after)
           posted == CreateTransaction(moved, a, id, type, amount, source, reference)
<1>1. /\ moved[a] \in MemoryAccount
      /\ moved[a].row = TRUE
      /\ moved[a].amount = after
      /\ moved[a].entries = book[a].entries
  BY BookTyped DEF Books, MemoryAccount, Moving
<1>2. posted = [moved EXCEPT ![a] = [moved[a] EXCEPT !.entries = Append(moved[a].entries, row)]]
  BY <1>1 DEF CreateTransaction, NewRow
<1>3. row.balance_after = after
  BY DEF NewRow
<1> HIDE DEF row, moved, posted
<1>4. [moved[a] EXCEPT !.entries = Append(moved[a].entries, row)] =
        [row |-> moved[a].row, amount |-> moved[a].amount,
         entries |-> Append(moved[a].entries, row)]
  BY <1>1, RowsAssigned, Zenon
<1>5. posted = [moved EXCEPT ![a] =
                  [row |-> TRUE, amount |-> after, entries |-> Append(book[a].entries, row)]]
  BY <1>1, <1>2, <1>4
<1>6. posted = [book EXCEPT ![a] =
                  [row |-> TRUE, amount |-> after, entries |-> Append(book[a].entries, row)]]
  BY <1>5 DEF Books, moved, Moving
<1> QED
  BY <1>3, <1>6 DEF Posted, posted, moved, row

(* The movements of the service are postings. *)
LEMMA ChargedPosts ==
    ASSUME NEW book \in Books, NEW a \in Account, NEW id, NEW amount \in Int, NEW source
    PROVE  Charged(book, a, id, amount, source) =
             Posted(book, a, NewRow(id, "usage", -amount, book[a].amount - amount, source, None))
<1>1. book[a].amount - amount \in Int
  BY BookTyped
<1>2. DecrementBalance(book, a, amount) = Moving(book, a, book[a].amount - amount)
  BY <1>1, BalanceMoves DEF DecrementBalance
<1> QED
  BY <1>1, <1>2, EntryPosts DEF Charged

LEMMA RefundedPosts ==
    ASSUME NEW book \in Books, NEW a \in Account, NEW id, NEW amount \in Int, NEW source
    PROVE  Refunded(book, a, id, amount, source) =
             Posted(book, a, NewRow(id, "refund", amount, book[a].amount + amount, source, None))
<1>1. book[a].amount + amount \in Int
  BY BookTyped
<1>2. IncrementBalance(book, a, amount) = Moving(book, a, book[a].amount + amount)
  BY <1>1, BalanceMoves DEF IncrementBalance
<1> QED
  BY <1>1, <1>2, EntryPosts DEF Refunded

LEMMA GrantedPosts ==
    ASSUME NEW book \in Books, NEW a \in Account, NEW id, NEW product \in Product, NEW reference
    PROVE  \E type \in {"top_up", "monthly_grant"} :
             LET after == IF type = "top_up" THEN book[a].amount + product.amount
                          ELSE product.amount
             IN  Granted(book, a, id, product, reference) =
                   Posted(book, a, NewRow(id, type, product.amount, after, None, reference))
<1>1. product.amount \in Int /\ book[a].amount + product.amount \in Int
  BY BookTyped DEF Product
<1>2. IncrementBalance(book, a, product.amount) =
        Moving(book, a, book[a].amount + product.amount)
  BY <1>1, BalanceMoves DEF IncrementBalance
<1>3. UpsertBalance(book, a, product.amount) = Moving(book, a, product.amount)
  BY <1>1, BalanceMoves DEF UpsertBalance
<1>4. CASE product.strategy = "top_up"
  <2>1. Granted(book, a, id, product, reference) =
          Posted(book, a, NewRow(id, "top_up", product.amount, book[a].amount + product.amount,
                                 None, reference))
    BY <1>1, <1>2, <1>4, EntryPosts DEF Granted
  <2> QED
    BY <2>1
<1>5. CASE product.strategy # "top_up"
  <2>1. Granted(book, a, id, product, reference) =
          Posted(book, a, NewRow(id, "monthly_grant", product.amount, product.amount, None,
                                 reference))
    BY <1>1, <1>3, <1>5, EntryPosts DEF Granted
  <2> QED
    BY <2>1
<1> QED
  BY <1>4, <1>5

LEMMA PostedIs ==
    ASSUME NEW book \in Books, NEW a \in Account, NEW row \in Transaction
    PROVE  /\ Posted(book, a, row) \in Books
           /\ \A b \in Account \ {a} : Posted(book, a, row)[b] = book[b]
           /\ Posted(book, a, row)[a].row = TRUE
           /\ Posted(book, a, row)[a].amount = row.balance_after
           /\ Posted(book, a, row)[a].entries = Append(book[a].entries, row)
<1>1. [row |-> TRUE, amount |-> row.balance_after, entries |-> Append(book[a].entries, row)]
        \in MemoryAccount
  BY BookTyped, RowsAreTyped DEF MemoryAccount
<1> QED
  BY <1>1 DEF Posted, Books

LEMMA LinesAre ==
    ASSUME NEW book \in Books, NEW l
    PROVE  l \in LinesOf(book) <=>
             \E a \in Account : \E i \in 1..Len(book[a].entries) : l = <<a, i>>
BY DEF LinesOf

(* Every row stays where it was, and the new one comes last in its account. *)
LEMMA PostedLines ==
    ASSUME NEW book \in Books, NEW a \in Account, NEW row \in Transaction
    PROVE  LET after == Posted(book, a, row)
               l == <<a, Len(book[a].entries) + 1>>
           IN  /\ l \notin LinesOf(book)
               /\ LinesOf(after) = LinesOf(book) \union {l}
               /\ LineOf(after, l) = row
               /\ \A m \in LinesOf(book) : LineOf(after, m) = LineOf(book, m)
               /\ \A m \in LinesOf(book) : m[1] = a => m[2] < l[2]
<1> DEFINE after == Posted(book, a, row)
           n == Len(book[a].entries)
           l == <<a, n + 1>>
<1>1. /\ after \in Books /\ n \in Nat
      /\ \A b \in Account \ {a} : after[b] = book[b]
      /\ after[a].entries = Append(book[a].entries, row)
      /\ Len(after[a].entries) = n + 1
      /\ after[a].entries[n + 1] = row
      /\ \A i \in 1..n : after[a].entries[i] = book[a].entries[i]
  <2>1. /\ after \in Books
        /\ \A b \in Account \ {a} : after[b] = book[b]
        /\ after[a].entries = Append(book[a].entries, row)
    BY PostedIs
  <2>2. book[a].entries \in Seq(Transaction) /\ n \in Nat
    BY BookTyped
  <2> HIDE DEF after
  <2> QED
    BY <2>1, <2>2
<1> HIDE DEF after
<1>2. ASSUME NEW m \in LinesOf(book)
      PROVE  /\ m \in LinesOf(after) /\ LineOf(after, m) = LineOf(book, m)
             /\ m # l
             /\ m[1] = a => m[2] < n + 1
  <2>1. PICK b \in Account : \E i \in 1..Len(book[b].entries) : m = <<b, i>>
    BY <1>2, LinesAre
  <2>2. Len(book[b].entries) \in Nat
    BY BookTyped
  <2>3. CASE b = a
    <3>1. PICK i \in 1..n : m = <<a, i>>
      BY <2>1, <2>3
    <3>2. m[1] = a /\ m[2] = i /\ i \in Nat /\ i < n + 1 /\ i \in 1..Len(after[a].entries)
      BY <1>1, <3>1
    <3>3. m \in LinesOf(after)
      BY <1>1, <3>1, <3>2, LinesAre
    <3>4. LineOf(after, m) = LineOf(book, m)
      BY <1>1, <3>1, <3>2 DEF LineOf
    <3>5. m # l
      BY <1>1, <3>2
    <3> QED
      BY <3>2, <3>3, <3>4, <3>5
  <2>4. CASE b # a
    BY <1>1, <2>1, <2>2, <2>4, LinesAre DEF LineOf
  <2> QED
    BY <2>3, <2>4
<1>3. l \in LinesOf(after) /\ LineOf(after, l) = row
  BY <1>1, LinesAre DEF LineOf
<1>4. ASSUME NEW m \in LinesOf(after)
      PROVE  m \in LinesOf(book) \/ m = l
  <2>1. PICK b \in Account : \E i \in 1..Len(after[b].entries) : m = <<b, i>>
    BY <1>1, <1>4, LinesAre
  <2>2. CASE b = a
    BY <1>1, <2>1, <2>2, LinesAre
  <2>3. CASE b # a
    BY <1>1, <2>1, <2>3, LinesAre
  <2> QED
    BY <2>2, <2>3
<1>5. LinesOf(after) = LinesOf(book) \union {l}
  BY <1>2, <1>3, <1>4
<1> HIDE DEF l, n
<1> QED
  BY <1>2, <1>3, <1>5 DEF after, l, n

(* A row that follows the balance keeps the book sound and extends history. *)
LEMMA PostedIsSound ==
    ASSUME NEW book \in Books, BookIsSound(book), NEW a \in Account, NEW row \in Transaction,
           Follows(book[a].amount, row), row.balance_after >= 0
    PROVE  /\ BookIsSound(Posted(book, a, row))
           /\ \A b \in Account :
                 /\ Extends(book[b].entries, Posted(book, a, row)[b].entries)
                 /\ book[b].row => Posted(book, a, row)[b].row
<1> DEFINE after == Posted(book, a, row)
<1>1. /\ \A b \in Account \ {a} : after[b] = book[b]
      /\ after[a].row = TRUE
      /\ after[a].amount = row.balance_after
      /\ after[a].entries = Append(book[a].entries, row)
  BY PostedIs
<1>2. book[a].entries \in Seq(Transaction) /\ Chained(a, book[a].entries)
        /\ book[a].amount = Closing(a, book[a].entries)
  BY BookTyped DEF BookIsSound, Sound
<1> HIDE DEF after
<1>3. Sound(a, after[a])
  BY <1>1, <1>2, SoundAppend
<1>4. BookIsSound(after)
  BY <1>1, <1>3 DEF BookIsSound
<1>5. Extends(book[a].entries, after[a].entries)
  BY <1>1, <1>2, ExtendsItself, ExtendsAppend
<1>6. \A b \in Account \ {a} : Extends(book[b].entries, after[b].entries)
  BY <1>1, BookTyped, ExtendsItself
<1> QED
  BY <1>1, <1>4, <1>5, <1>6 DEF after

(* A row for nobody, or for a record with this id. *)
RowFits(row, list) ==
    /\ row.source # None => row.source \in 1..Len(list) /\ list[row.source].id = row.source
    /\ row.type = "usage" => row.amount < 0

LEMMA PostedRowsOfRecords ==
    ASSUME NEW book \in Books, NEW list, RowsOfRecords(book, list), NEW a \in Account,
           NEW row \in Transaction, RowFits(row, list)
    PROVE  RowsOfRecords(Posted(book, a, row), list)
<1> DEFINE after == Posted(book, a, row)
           l == <<a, Len(book[a].entries) + 1>>
<1>1. /\ LinesOf(after) = LinesOf(book) \union {l}
      /\ LineOf(after, l) = row
      /\ \A m \in LinesOf(book) : LineOf(after, m) = LineOf(book, m)
  BY PostedLines
<1> HIDE DEF after, l
<1> QED
  BY <1>1 DEF RowsOfRecords, RowFits, after

LEMMA PostedCharges ==
    ASSUME NEW book \in Books, NEW a \in Account, NEW row \in Transaction, NEW i
    PROVE  LET l == <<a, Len(book[a].entries) + 1>>
           IN  ChargesOf(Posted(book, a, row), i) =
                 IF row.source = i /\ row.type = "usage" THEN ChargesOf(book, i) \union {l}
                 ELSE ChargesOf(book, i)
<1> DEFINE after == Posted(book, a, row)
           l == <<a, Len(book[a].entries) + 1>>
<1>1. /\ l \notin LinesOf(book)
      /\ LinesOf(after) = LinesOf(book) \union {l}
      /\ LineOf(after, l) = row
      /\ \A m \in LinesOf(book) : LineOf(after, m) = LineOf(book, m)
  BY PostedLines
<1> HIDE DEF after, l
<1> QED
  BY <1>1 DEF ChargesOf, after, l

LEMMA PostedGrants ==
    ASSUME NEW book \in Books, NEW a \in Account, NEW row \in Transaction, NEW reference
    PROVE  LET l == <<a, Len(book[a].entries) + 1>>
           IN  /\ l \notin GrantsOf(book, reference)
               /\ GrantsOf(Posted(book, a, row), reference) =
                    IF row.reference = reference THEN GrantsOf(book, reference) \union {l}
                    ELSE GrantsOf(book, reference)
<1> DEFINE after == Posted(book, a, row)
           l == <<a, Len(book[a].entries) + 1>>
<1>1. /\ l \notin LinesOf(book)
      /\ LinesOf(after) = LinesOf(book) \union {l}
      /\ LineOf(after, l) = row
      /\ \A m \in LinesOf(book) : LineOf(after, m) = LineOf(book, m)
  BY PostedLines
<1> HIDE DEF after, l
<1> QED
  BY <1>1 DEF GrantsOf, after, l

(* The number of a payment's grants goes up by one. *)
LEMMA GrantCounted ==
    ASSUME NEW book \in Books, NEW a \in Account, NEW row \in Transaction, NEW reference,
           row.reference = reference, IsFiniteSet(GrantsOf(book, reference))
    PROVE  LET after == GrantsOf(Posted(book, a, row), reference)
           IN  /\ IsFiniteSet(after)
               /\ after # {}
               /\ Cardinality(after) = Cardinality(GrantsOf(book, reference)) + 1
               /\ Cardinality(GrantsOf(book, reference)) \in Nat
<1> DEFINE l == <<a, Len(book[a].entries) + 1>>
<1>1. /\ l \notin GrantsOf(book, reference)
      /\ GrantsOf(Posted(book, a, row), reference) = GrantsOf(book, reference) \union {l}
  BY PostedGrants
<1> HIDE DEF l
<1> QED
  BY <1>1, FS_AddElement, FS_CardinalityType

LEMMA PostedRefunds ==
    ASSUME NEW book \in Books, NEW list, RefundsBacked(book, list), NEW a \in Account,
           NEW row \in Transaction,
           row.type = "refund" /\ row.source # None =>
              \E m \in LinesOf(book) :
                 /\ m[1] = a
                 /\ LineOf(book, m).type = "usage"
                 /\ LineOf(book, m).amount = -row.amount
                 /\ Backs(list, LineOf(book, m).source, ReferenceOf(list, row.source))
    PROVE  RefundsBacked(Posted(book, a, row), list)
<1> DEFINE after == Posted(book, a, row)
           l == <<a, Len(book[a].entries) + 1>>
<1>1. /\ LinesOf(after) = LinesOf(book) \union {l}
      /\ LineOf(after, l) = row
      /\ \A m \in LinesOf(book) : LineOf(after, m) = LineOf(book, m)
      /\ \A m \in LinesOf(book) : m[1] = a => m[2] < l[2]
      /\ l[1] = a
  BY PostedLines
<1> HIDE DEF after, l
<1>2. ASSUME NEW n \in LinesOf(book), LineOf(after, n).type = "refund", LineOf(after, n).source # None
      PROVE  \E m \in LinesOf(after) : GivesBack(after, list, n, m)
  <2>1. PICK m \in LinesOf(book) : GivesBack(book, list, n, m)
    BY <1>1, <1>2 DEF RefundsBacked
  <2>2. GivesBack(after, list, n, m)
    BY <1>1, <2>1 DEF GivesBack
  <2> QED
    BY <1>1, <2>2
<1>3. ASSUME row.type = "refund", row.source # None
      PROVE  \E m \in LinesOf(after) : GivesBack(after, list, l, m)
  <2>1. PICK m \in LinesOf(book) :
          /\ m[1] = a
          /\ LineOf(book, m).type = "usage"
          /\ LineOf(book, m).amount = -row.amount
          /\ Backs(list, LineOf(book, m).source, ReferenceOf(list, row.source))
    BY <1>3
  <2> QED
    BY <1>1, <2>1 DEF GivesBack
<1> QED
  BY <1>1, <1>2, <1>3 DEF RefundsBacked, after

(* The list grows, and its records keep what they are. *)
Grows(old, new) ==
    /\ Len(old) \in Nat /\ Len(new) \in Nat /\ Len(old) <= Len(new)
    /\ \A i \in 1..Len(old) : new[i].usage = old[i].usage /\ new[i].id = old[i].id

LEMMA GrowingKeepsRows ==
    ASSUME NEW book, NEW old, NEW new, RowsOfRecords(book, old), Grows(old, new)
    PROVE  RowsOfRecords(book, new)
BY DEF RowsOfRecords, Grows

LEMMA GrowingKeepsRefunds ==
    ASSUME NEW book, NEW old, NEW new, RowsOfRecords(book, old), RefundsBacked(book, old),
           Grows(old, new)
    PROVE  RefundsBacked(book, new)
<1> SUFFICES ASSUME NEW l \in LinesOf(book), LineOf(book, l).type = "refund",
                    LineOf(book, l).source # None
             PROVE  \E m \in LinesOf(book) : GivesBack(book, new, l, m)
  BY DEF RefundsBacked
<1>1. PICK m \in LinesOf(book) : GivesBack(book, old, l, m)
  BY DEF RefundsBacked
<1>2. /\ LineOf(book, l).source \in 1..Len(old)
      /\ LineOf(book, m).source # None => LineOf(book, m).source \in 1..Len(old)
  BY DEF RowsOfRecords
<1>3. \A i \in 1..Len(old) : i \in 1..Len(new) /\ ReferenceOf(new, i) = ReferenceOf(old, i)
                               /\ new[i].id = old[i].id
  BY DEF Grows, ReferenceOf
<1>4. Backs(new, LineOf(book, m).source, ReferenceOf(new, LineOf(book, l).source))
  BY <1>1, <1>2, <1>3 DEF GivesBack, Backs
<1> QED
  BY <1>1, <1>4 DEF GivesBack

-----------------------------------------------------------------------------
(* What the waterfall and the lookup of a refund return.                   *)

(* The waterfall's answer names a rule that the balances pay for. *)
LEMMA MatchedRule ==
    ASSUME NEW list, NEW record, NEW balances,
           Evaluate(list, record, balances).verdict = "matched"
    PROVE  LET i == Evaluate(list, record, balances).rule
           IN  /\ i \in Positions(list)
               /\ ~Raises(list[i])
               /\ CalculateCost(list[i], record) > 0
               /\ balances[list[i].asset] >= CalculateCost(list[i], record)
<1> DEFINE c == CHOOSE i \in Positions(list) : FirstDecisive(list, record, balances, i)
<1>1. /\ Len(list) # 0
      /\ \E i \in Positions(list) : FirstDecisive(list, record, balances, i)
  BY DEF Evaluate, Verdict
<1>2. c \in Positions(list) /\ FirstDecisive(list, record, balances, c)
  BY <1>1, Zenon
<1> HIDE DEF c
<1>3. Evaluate(list, record, balances) =
        Verdict(IF Faulty(list, record, c) THEN "unexpected" ELSE "matched", c)
  BY <1>1, Zenon DEF Evaluate, c
<1>4. Evaluate(list, record, balances).rule = c /\ ~Faulty(list, record, c)
  BY <1>3 DEF Verdict
<1>5. Funded(list, record, balances, c)
  BY <1>2, <1>4 DEF FirstDecisive, Decisive
<1> QED
  BY <1>2, <1>4, <1>5 DEF Funded, Billable

LEMMA HeadIsARecord ==
    ASSUME TypeOK, WorkerInv, BatchInv, pc[Worker] \in {"record"} \union WorkerCalls
    PROVE  /\ batch # <<>> /\ batch \in Seq(UsageIds) /\ Len(batch) \in Nat \ {0}
           /\ Head(batch) = batch[1]
           /\ Head(batch) \in 1..Len(records) /\ Head(batch) \in UsageIds
           /\ Current \in Record /\ Current = records[Head(batch)]
           /\ Data = UsageData[Current.usage]
           /\ Data.customer \in Customers
           /\ Len(Rules) \in Nat
<1>1. batch # <<>> /\ batch \in Seq(UsageIds)
  BY DEF WorkerInv, TypeOK
<1>2. Len(batch) \in Nat \ {0} /\ Head(batch) = batch[1] /\ 1 \in 1..Len(batch)
        /\ Head(batch) \in UsageIds
  BY <1>1
<1>3. Head(batch) \in 1..Len(records)
  BY <1>2 DEF BatchInv
<1>4. Current \in Record
  BY <1>3 DEF Current, TypeOK, MemoryTypeOK
<1>5. Current.usage \in Usages
  BY <1>4 DEF Record
<1> QED
  BY <1>1, <1>2, <1>3, <1>4, <1>5, UsagesAreRated DEF Data, Rules, Current

(* What the worker charges, for a rule that the waterfall has chosen. *)
LEMMA ChosenRule ==
    ASSUME TypeOK, WorkerInv, BatchInv, pc[Worker] = "record", NEW rule \in Chosen
    PROVE  LET a == <<Data.customer, rule.asset>>
               cost == CalculateCost(rule, Data)
           IN  /\ a \in Account
               /\ cost \in Nat \ {0}
               /\ accounts[a].amount >= cost
               /\ Deducted(rule) =
                    Posted(accounts, a, NewRow(next_id, "usage", -cost, accounts[a].amount - cost,
                                               Current.id, None))
               /\ NewRow(next_id, "usage", -cost, accounts[a].amount - cost, Current.id, None)
                    \in Transaction
               /\ Deducted(rule) \in Books
<1> DEFINE a == <<Data.customer, rule.asset>>
           cost == CalculateCost(rule, Data)
           row == NewRow(next_id, "usage", -cost, accounts[a].amount - cost, Current.id, None)
<1>1. Decision.verdict = "matched" /\ rule = Rules[Decision.rule]
  BY DEF Chosen
<1>2. /\ Decision.rule \in Positions(Rules)
      /\ ~Raises(rule)
      /\ cost > 0
      /\ BalanceSheet(Data.customer)[rule.asset] >= cost
  BY <1>1, MatchedRule DEF Decision
<1>3. Current \in Record /\ Data = UsageData[Current.usage] /\ Data.customer \in Customers
  BY HeadIsARecord
<1>4. rule.asset \in Assets /\ cost \in Int
  BY <1>1, <1>2, <1>3, UsagesAreRated DEF Record, Rules
<1>5. a \in Account /\ cost \in Nat \ {0}
  BY <1>2, <1>3, <1>4 DEF Account
<1>6. accounts[a].amount >= cost
  BY <1>2, <1>4 DEF BalanceSheet
<1>7. accounts \in Books /\ next_id \in Nat /\ Current.id \in UsageIds \union {None}
  BY <1>3 DEF TypeOK, MemoryTypeOK, Books, Record
<1>8. accounts[a].amount - cost \in Int /\ -cost \in Int
  BY <1>5, <1>7, BookTyped
<1>9. row \in Transaction
  BY <1>7, <1>8 DEF NewRow, Transaction, TransactionTypes
<1>10. Deducted(rule) = Posted(accounts, a, row)
  BY <1>5, <1>7, ChargedPosts DEF Deducted
<1> HIDE DEF a, cost, row
<1>11. Deducted(rule) \in Books
  BY <1>5, <1>7, <1>9, <1>10, PostedIs
<1> QED
  BY <1>5, <1>6, <1>9, <1>10, <1>11 DEF a, cost, row

(* The charge that a refund gives back. *)
LEMMA OriginalIsACharge ==
    ASSUME NEW book \in Books, NEW rule, NEW l \in Originals(book, rule)
    PROVE  /\ l \in LinesOf(book) /\ l[1] \in Account /\ l[1][1] = Data.customer
           /\ LineOf(book, l) = book[l[1]].entries[l[2]]
           /\ LineOf(book, l) \in Transaction
           /\ LineOf(book, l).type = "usage"
           /\ Data.reference # None
           /\ LineOf(book, l).source \in RecordIds(Data.reference, rule.refund)
<1>1. l \in GetTransactionForUsage(book, Data.reference, rule.refund, Data.customer)
        /\ Data.reference # None
  BY DEF Originals
<1>2. PICK a \in {b \in Account : b[1] = Data.customer} :
        \E i \in {j \in 1..Len(book[a].entries) :
                    /\ book[a].entries[j].source \in RecordIds(Data.reference, rule.refund)
                    /\ book[a].entries[j].type = "usage"} : l = <<a, i>>
  BY <1>1 DEF GetTransactionForUsage
<1>3. PICK i \in 1..Len(book[a].entries) :
        /\ l = <<a, i>>
        /\ book[a].entries[i].source \in RecordIds(Data.reference, rule.refund)
        /\ book[a].entries[i].type = "usage"
  BY <1>2
<1>4. l \in LinesOf(book) /\ l[1] = a /\ l[2] = i
  BY <1>3, LinesAre
<1>5. book[a].entries[i] \in Transaction
  BY BookTyped, <1>3
<1> QED
  BY <1>1, <1>2, <1>3, <1>4, <1>5 DEF LineOf

-----------------------------------------------------------------------------
(* LoopInv: the worker.                                                    *)

KeepsHosts ==
    \A h \in Hosts : /\ pc'[h] = pc[h] /\ call'[h] = call[h]
                     /\ snapshot'[h] = snapshot[h] /\ listing'[h] = listing[h]

LEMMA HostsStay ==
    ASSUME LocalsInv, KeepsHosts
    PROVE  \A h \in Hosts : HostInv(h)'
BY DEF LocalsInv, HostInv, KeepsHosts

LEMMA NothingTyped ==
    /\ NoCall \in Call /\ NoCall.op = "none"
    /\ NoBack \in [account : Account \union {None}, balance : Int]
    /\ NoAmounts \in [Assets -> Int \union {None}]
    /\ NoRows \in [customer : Customers \union {None}, amounts : [Assets -> Int \union {None}]]
    /\ NoSnapshot \in [customer : Customers \union {None}, start : Nat, clear : BOOLEAN,
                       amounts : [Assets -> Int \union {None}]]
    /\ NoListing \in [query : Queries \union {None}, offset : Nat, seen : SUBSET UsageIds,
                      due : SUBSET UsageIds]
BY DEF NoCall, Call, NoBack, NoAmounts, NoRows, NoSnapshot, NoListing

(* Only the record at the head of the batch has changed. *)
OnlyHead ==
    /\ records' \in Seq(Record)
    /\ Len(records') = Len(records)
    /\ \A i \in 1..Len(records) : i # Head(batch) => records'[i] = records[i]
    /\ Grows(records, records')

LEMMA SameRecords ==
    ASSUME TypeOK, UNCHANGED records
    PROVE  OnlyHead
BY DEF OnlyHead, Grows, TypeOK, MemoryTypeOK

LEMMA StatusSet ==
    ASSUME LoopInv, NEW i \in 1..Len(records), records[i].id # None,
           NEW status \in BillingStatuses, NEW list, list = SetStatus(i, status)
    PROVE  /\ list \in Seq(Record)
           /\ Len(list) = Len(records)
           /\ \A k \in 1..Len(records) : k # i => list[k] = records[k]
           /\ list[i].status = status
           /\ Grows(records, list)
           /\ \A k \in 1..Len(list) :
                 /\ list[k].id \in {None, k}
                 /\ list[k].id = None => list[k].status = "pending"
<1>1. records \in Seq(Record) /\ records[i] \in Record /\ Len(records) \in Nat
  BY DEF LoopInv, TypeOK, MemoryTypeOK
<1>2. [records[i] EXCEPT !.status = status] \in Record
  BY <1>1 DEF Record
<1>3. /\ [records[i] EXCEPT !.status = status].status = status
      /\ [records[i] EXCEPT !.status = status].id = records[i].id
      /\ [records[i] EXCEPT !.status = status].usage = records[i].usage
  BY <1>1 DEF Record
<1>4. list = [records EXCEPT ![i] = [records[i] EXCEPT !.status = status]]
  BY DEF SetStatus
<1> DEFINE marked == [records[i] EXCEPT !.status = status]
<1> HIDE DEF marked
<1>5. /\ list \in Seq(Record) /\ Len(list) = Len(records)
      /\ \A k \in 1..Len(records) : k # i => list[k] = records[k]
      /\ list[i] = marked
  BY <1>1, <1>2, <1>4 DEF marked
<1>6. marked.status = status /\ marked.id = records[i].id /\ marked.usage = records[i].usage
  BY <1>3 DEF marked
<1>7. Grows(records, list)
  BY <1>1, <1>5, <1>6 DEF Grows
<1>8. \A k \in 1..Len(list) :
         /\ list[k].id \in {None, k}
         /\ list[k].id = None => list[k].status = "pending"
  BY <1>5, <1>6 DEF LoopInv, RecordsInv
<1> QED
  BY <1>5, <1>6, <1>7, <1>8

(* The loop takes up the next record, whatever became of this one. *)
LEMMA NextRecordKeepsLoop ==
    ASSUME LoopInv, pc[Worker] \in {"record"} \union WorkerCalls, NextRecord,
           OnlyHead, RecordsInv', accounts' \in Books, next_id' \in Nat, ViewTypeOK',
           UNCHANGED <<running, calls>>, blurred' \in BOOLEAN
    PROVE  LoopInv'
<1>1. /\ batch # <<>> /\ batch \in Seq(UsageIds) /\ Len(batch) \in Nat \ {0}
      /\ Head(batch) = batch[1] /\ Head(batch) \in 1..Len(records)
  BY HeadIsARecord DEF LoopInv, LocalsInv
<1>2. /\ Tail(batch) \in Seq(UsageIds) /\ Len(Tail(batch)) = Len(batch) - 1
      /\ \A i \in 1..(Len(batch) - 1) : Tail(batch)[i] = batch[i + 1]
      /\ Tail(batch) = <<>> <=> Len(batch) = 1
  <2>1. /\ Tail(batch) \in Seq(UsageIds) /\ Len(Tail(batch)) = Len(batch) - 1
        /\ \A i \in 1..(Len(batch) - 1) : Tail(batch)[i] = batch[i + 1]
    BY <1>1, HeadTailProperties
  <2>2. Tail(batch) = <<>> <=> Len(Tail(batch)) = 0
    BY <2>1, EmptySeq
  <2> QED
    BY <1>1, <2>1, <2>2
<1>3. PICK label \in {"sleep", "head", "record"} :
        /\ pc' = [pc EXCEPT ![Worker] = label]
        /\ label = "record" <=> Len(batch) # 1
  BY DEF NextRecord, GoTo, AfterCycle
<1>4. pc' \in [Tasks -> Labels] /\ pc'[Worker] = label /\ label \in Labels
  BY <1>3, Constants DEF LoopInv, TypeOK, Labels, Holding
<1>5. /\ call' = [call EXCEPT ![Worker] = NoCall] /\ back' = NoBack
      /\ batch' = Tail(batch) /\ fetched' \in {0, fetched}
      /\ UNCHANGED <<rows, snapshot, listing>>
  BY DEF NextRecord
<1>6. TypeOK'
  <2>1. fetched' \in 0..BatchSize
    BY <1>5, Constants DEF LoopInv, TypeOK
  <2> QED
    BY <1>2, <1>4, <1>5, <2>1, NothingTyped DEF LoopInv, TypeOK, MemoryTypeOK, OnlyHead, Books
<1>7. WorkerInv'
  BY <1>2, <1>3, <1>4, <1>5 DEF WorkerInv, WorkerCalls, Holding
<1>8. KeepsHosts
  BY <1>3, <1>5, Constants DEF KeepsHosts, LoopInv, TypeOK
<1>9. BatchInv'
  <2>1. ASSUME NEW i \in 1..Len(batch')
        PROVE  /\ batch'[i] \in 1..Len(records')
               /\ records'[batch'[i]].status = "pending"
    <3>1. i + 1 \in 1..Len(batch) /\ batch'[i] = batch[i + 1] /\ i + 1 > 1 /\ 1 \in 1..Len(batch)
            /\ i + 1 # 1
      BY <1>1, <1>2, <1>5, <2>1
    <3>2. /\ batch[i + 1] \in 1..Len(records)
          /\ records[batch[i + 1]].status = "pending"
          /\ batch[i + 1] # batch[1]
      BY <3>1 DEF LoopInv, BatchInv
    <3> QED
      BY <1>1, <3>1, <3>2 DEF OnlyHead
  <2>2. ASSUME NEW i \in 1..Len(batch'), NEW k \in 1..Len(batch'), i # k
        PROVE  batch'[i] # batch'[k]
    <3>1. /\ i + 1 \in 1..Len(batch) /\ batch'[i] = batch[i + 1]
          /\ k + 1 \in 1..Len(batch) /\ batch'[k] = batch[k + 1]
          /\ i + 1 # k + 1
      BY <1>1, <1>2, <1>5, <2>2
    <3> QED
      BY <3>1 DEF LoopInv, BatchInv
  <2> QED
    BY <1>4, <2>1, <2>2 DEF BatchInv
<1> QED
  BY <1>6, <1>7, <1>8, <1>9, HostsStay DEF LoopInv, LocalsInv

(* The worker goes on with the same record, in a call of the cache. *)
LEMMA CallKeepsLoop ==
    ASSUME LoopInv, pc[Worker] \in {"record"} \union WorkerCalls, NEW label \in WorkerCalls,
           GoTo(Worker, label), UNCHANGED <<batch, fetched, rows, snapshot, listing>>,
           OnlyHead, RecordsInv', accounts' \in Books, next_id' \in Nat, ViewTypeOK',
           UNCHANGED <<running, calls>>, blurred' \in BOOLEAN,
           NEW movement \in Call, call' = [call EXCEPT ![Worker] = movement],
           movement.account \in Account, movement.amount >= 0,
           back' \in [account : Account \union {None}, balance : Int],
           label = "refund_view" =>
              /\ back'.account \in Account
              /\ records'[Head(batch)].status = "pending",
           label # "refund_view" => records'[Head(batch)].status = "processed"
    PROVE  LoopInv'
<1>1. /\ batch # <<>> /\ batch \in Seq(UsageIds) /\ Len(batch) \in Nat \ {0}
      /\ Head(batch) = batch[1] /\ Head(batch) \in 1..Len(records)
  BY HeadIsARecord DEF LoopInv, LocalsInv
<1>2. /\ pc' = [pc EXCEPT ![Worker] = label] /\ pc' \in [Tasks -> Labels] /\ pc'[Worker] = label
      /\ call'[Worker] = movement
  BY Constants DEF GoTo, LoopInv, TypeOK, Labels, WorkerCalls, InCacheCall
<1>3. TypeOK'
  BY <1>2 DEF LoopInv, TypeOK, MemoryTypeOK, OnlyHead, Books
<1>4. WorkerInv'
  BY <1>1, <1>2 DEF WorkerInv
<1>5. KeepsHosts
  BY <1>2, Constants DEF KeepsHosts, LoopInv, TypeOK
<1>6. BatchInv'
  <2>1. ASSUME NEW i \in 1..Len(batch)
        PROVE  batch[i] \in 1..Len(records') /\ (i > 1 => records'[batch[i]].status = "pending")
    <3>1. 1 \in 1..Len(batch) /\ batch[i] \in 1..Len(records)
            /\ (i > 1 => batch[i] # batch[1] /\ records[batch[i]].status = "pending")
      BY <1>1 DEF LoopInv, BatchInv
    <3> QED
      BY <1>1, <3>1 DEF OnlyHead
  <2>2. label = "refund_view" => records'[batch[1]].status = "pending"
    BY <1>1
  <2>3. label # "refund_view" => records'[Head(batch)].status = "processed"
    OBVIOUS
  <2>4. ASSUME NEW i \in 1..Len(batch), i > 1 \/ label \notin {"view", "stats"}
        PROVE  records'[batch[i]].status = "pending"
    <3>1. CASE i > 1
      BY <2>1, <3>1
    <3>2. CASE ~(i > 1)
      <4>1. i = 1 /\ label = "refund_view"
        BY <1>1, <2>4, <3>2 DEF WorkerCalls
      <4> QED
        BY <2>2, <4>1
    <3> QED
      BY <3>1, <3>2
  <2>5. \A i, k \in 1..Len(batch) : i # k => batch[i] # batch[k]
    BY DEF LoopInv, BatchInv
  <2> QED
    BY <1>2, <2>1, <2>3, <2>4, <2>5 DEF BatchInv
<1> QED
  BY <1>3, <1>4, <1>5, <1>6, HostsStay DEF LoopInv, LocalsInv

LEMMA StoreStays ==
    ASSUME LoopInv
    PROVE  accounts \in Books /\ next_id \in Nat
BY DEF LoopInv, TypeOK, MemoryTypeOK, Books

(* The status of a record at the head that has an id is written. *)
LEMMA HeadStatusSet ==
    ASSUME LoopInv, pc[Worker] \in {"record"} \union WorkerCalls, Current.id # None,
           NEW status \in BillingStatuses, records' = SetStatus(Head(batch), status)
    PROVE  OnlyHead /\ RecordsInv' /\ records'[Head(batch)].status = status
<1>1. Head(batch) \in 1..Len(records) /\ records[Head(batch)].id # None
  BY HeadIsARecord DEF LoopInv, LocalsInv, Current
<1> DEFINE i == Head(batch)
<1> HIDE DEF i
<1>2. /\ records' \in Seq(Record)
      /\ Len(records') = Len(records)
      /\ \A k \in 1..Len(records) : k # i => records'[k] = records[k]
      /\ records'[i].status = status
      /\ Grows(records, records')
      /\ \A k \in 1..Len(records') :
            /\ records'[k].id \in {None, k}
            /\ records'[k].id = None => records'[k].status = "pending"
  BY <1>1, StatusSet DEF i
<1>3. RecordsInv'
  BY <1>2 DEF RecordsInv, LoopInv
<1> QED
  BY <1>2, <1>3 DEF OnlyHead, i

LEMMA MarkKeepsLoop ==
    ASSUME LoopInv, pc[Worker] \in {"record", "refund_view"}, NEW usage \in Call,
           usage.account \in Account, usage.amount >= 0, MarkProcessed(usage),
           accounts' \in Books, next_id' \in Nat, ViewTypeOK',
           UNCHANGED <<running, calls>>, blurred' \in BOOLEAN
    PROVE  LoopInv'
<1>1. CASE Current.id = None /\ NextRecord /\ UNCHANGED records
  <2>1. OnlyHead /\ RecordsInv'
    BY <1>1, SameRecords DEF LoopInv, RecordsInv
  <2> QED
    BY <1>1, <2>1, NextRecordKeepsLoop DEF WorkerCalls
<1>2. CASE /\ Current.id # None
           /\ records' = SetStatus(Head(batch), "processed")
           /\ GoTo(Worker, "view")
           /\ call' = [call EXCEPT ![Worker] = usage]
           /\ UNCHANGED <<batch, fetched, back, rows, snapshot, listing>>
  <2>1. OnlyHead /\ RecordsInv' /\ records'[Head(batch)].status = "processed"
    BY <1>2, HeadStatusSet DEF BillingStatuses, WorkerCalls
  <2>2. back' \in [account : Account \union {None}, balance : Int]
    BY <1>2 DEF LoopInv, TypeOK
  <2> QED
    BY <1>2, <2>1, <2>2, CallKeepsLoop DEF WorkerCalls
<1> QED
  BY <1>1, <1>2 DEF MarkProcessed

LEMMA ViewUpdated ==
    ASSUME LoopInv, NEW a \in Account, NEW amount \in Int, UpdateSingleBalance(a, amount)
    PROVE  ViewTypeOK'
BY DEF LoopInv, TypeOK, ViewTypeOK, UpdateSingleBalance

LEMMA StatsCounted ==
    ASSUME LoopInv, NEW a \in Account, NEW amount \in Int, amount >= 0, IncrementStats(a, amount)
    PROVE  ViewTypeOK'
<1>1. spent[a] \in Nat /\ spent[a] + amount \in Nat
  BY DEF LoopInv, TypeOK, ViewTypeOK
<1> QED
  BY <1>1, Constants DEF LoopInv, TypeOK, ViewTypeOK, IncrementStats

LEMMA BlurredTyped ==
    ASSUME LoopInv
    PROVE  blurred \in BOOLEAN /\ \A t : Overlaps(t) \in BOOLEAN
BY DEF LoopInv, TypeOK, Overlaps

(* What a movement tells the cache. *)
LEMMA MovementTyped ==
    ASSUME NEW a \in Account, NEW op \in {"charge", "refund"}, NEW amount \in Int,
           NEW balance \in Int
    PROVE  LET m == Movement(op, a, amount, balance)
           IN  /\ m \in Call /\ m.op = op /\ m.account = a
               /\ m.amount = amount /\ m.balance = balance
BY EmptySeq DEF Movement, Call

(* What process_record tells the cache of its charge. *)
LEMMA UsageTyped ==
    ASSUME LoopInv, pc[Worker] = "record", NEW rule \in Chosen
    PROVE  /\ Usage(rule, Deducted(rule)) \in Call
           /\ Usage(rule, Deducted(rule)).account \in Account
           /\ Usage(rule, Deducted(rule)).amount >= 0
           /\ Usage(rule, Deducted(rule)).op = "charge"
<1> DEFINE a == <<Data.customer, rule.asset>>
           cost == CalculateCost(rule, Data)
           book == Deducted(rule)
<1>1. a \in Account /\ cost \in Nat \ {0} /\ book \in Books
  BY ChosenRule DEF LoopInv, LocalsInv
<1> HIDE DEF a, cost, book
<1>2. book[a].amount \in Int
  BY <1>1, BookTyped
<1>3. Usage(rule, book) = Movement("charge", a, cost, book[a].amount)
  BY DEF Usage, a, cost
<1>4. cost \in Int /\ cost >= 0
  BY <1>1
<1> QED
  BY <1>1, <1>2, <1>3, <1>4, MovementTyped DEF book

(* The row of a refund. *)
LEMMA RefundPosts ==
    ASSUME LoopInv, pc[Worker] = "record", NEW rule \in Chosen, NEW book, book = Deducted(rule),
           NEW l \in Originals(book, rule)
    PROVE  LET amount == -book[l[1]].entries[l[2]].amount
               row == NewRow(next_id + 1, "refund", amount, book[l[1]].amount + amount,
                             Current.id, None)
           IN  /\ l[1] \in Account /\ amount \in Int /\ book[l[1]].amount + amount \in Int
               /\ row \in Transaction
               /\ Refunded(book, l[1], next_id + 1, amount, Current.id) = Posted(book, l[1], row)
               /\ Posted(book, l[1], row) \in Books
<1> DEFINE amount == -book[l[1]].entries[l[2]].amount
           row == NewRow(next_id + 1, "refund", amount, book[l[1]].amount + amount, Current.id, None)
<1>1. book \in Books
  BY ChosenRule DEF LoopInv, LocalsInv
<1>2. l[1] \in Account /\ book[l[1]].entries[l[2]] \in Transaction
  <2>1. /\ l[1] \in Account
        /\ LineOf(book, l) = book[l[1]].entries[l[2]]
        /\ LineOf(book, l) \in Transaction
    BY <1>1, OriginalIsACharge
  <2> QED
    BY <2>1
<1>3. amount \in Int /\ book[l[1]].amount + amount \in Int
  <2>1. book[l[1]].entries[l[2]].amount \in Int
    BY <1>2, RowsAreTyped
  <2>2. book[l[1]].amount \in Int
    BY <1>1, <1>2, BookTyped
  <2> QED
    BY <2>1, <2>2
<1>4. next_id + 1 \in Nat /\ Current.id \in UsageIds \union {None}
  BY HeadIsARecord, StoreStays DEF LoopInv, LocalsInv, Record
<1>5. row \in Transaction
  BY <1>3, <1>4 DEF NewRow, Transaction, TransactionTypes
<1>6. Refunded(book, l[1], next_id + 1, amount, Current.id) = Posted(book, l[1], row)
  BY <1>1, <1>2, <1>3, RefundedPosts
<1> HIDE DEF amount, row
<1>7. Posted(book, l[1], row) \in Books
  BY <1>1, <1>2, <1>5, PostedIs
<1> QED
  BY <1>2, <1>3, <1>5, <1>6, <1>7 DEF amount, row

LEMMA ChargeRecordKeepsLoop ==
    ASSUME LoopInv, ChargeRecord
    PROVE  LoopInv'
<1>1. PICK rule \in Chosen : \E book \in {Deducted(rule)} :
        /\ accounts' = book
        /\ MarkProcessed(Usage(rule, book))
  BY DEF ChargeRecord
<1>2. /\ pc[Worker] = "record"
      /\ accounts' = Deducted(rule)
      /\ MarkProcessed(Usage(rule, Deducted(rule)))
  BY <1>1 DEF ChargeRecord
<1>3. accounts' \in Books
  BY <1>2, ChosenRule DEF LoopInv, LocalsInv
<1>4. /\ Usage(rule, Deducted(rule)) \in Call
      /\ Usage(rule, Deducted(rule)).account \in Account
      /\ Usage(rule, Deducted(rule)).amount >= 0
  BY <1>2, UsageTyped
<1>5. next_id' \in Nat /\ ViewTypeOK' /\ UNCHANGED <<running, calls>> /\ blurred' \in BOOLEAN
  BY StoreStays, BlurredTyped DEF ChargeRecord, LoopInv, TypeOK, ViewTypeOK, viewVars
<1> QED
  BY <1>2, <1>3, <1>4, <1>5, MarkKeepsLoop

LEMMA ChargeAndRefundKeepsLoop ==
    ASSUME LoopInv, ChargeAndRefund
    PROVE  LoopInv'
<1>1. PICK rule \in Chosen : \E book \in {Deducted(rule)} : \E l \in Originals(book, rule) :
        LET amount == -book[l[1]].entries[l[2]].amount
        IN  /\ accounts' = Refunded(book, l[1], next_id + 1, amount, Current.id)
            /\ back' = [account |-> l[1], balance |-> book[l[1]].amount + amount]
            /\ call' = [call EXCEPT ![Worker] = Usage(rule, book)]
  BY DEF ChargeAndRefund
<1>2. PICK book \in {Deducted(rule)} : \E l \in Originals(book, rule) :
        LET amount == -book[l[1]].entries[l[2]].amount
        IN  /\ accounts' = Refunded(book, l[1], next_id + 1, amount, Current.id)
            /\ back' = [account |-> l[1], balance |-> book[l[1]].amount + amount]
            /\ call' = [call EXCEPT ![Worker] = Usage(rule, book)]
  BY <1>1
<1>3. PICK l \in Originals(book, rule) :
        LET amount == -book[l[1]].entries[l[2]].amount
        IN  /\ accounts' = Refunded(book, l[1], next_id + 1, amount, Current.id)
            /\ back' = [account |-> l[1], balance |-> book[l[1]].amount + amount]
            /\ call' = [call EXCEPT ![Worker] = Usage(rule, book)]
  BY <1>2
<1>4. pc[Worker] = "record" /\ book = Deducted(rule)
  BY <1>2 DEF ChargeAndRefund
<1>5. accounts' \in Books
  BY <1>3, <1>4, RefundPosts
<1>6. back' \in [account : Account \union {None}, balance : Int] /\ back'.account \in Account
  BY <1>3, <1>4, RefundPosts
<1>7. /\ Usage(rule, book) \in Call
      /\ Usage(rule, book).account \in Account
      /\ Usage(rule, book).amount >= 0
  BY <1>4, UsageTyped
<1>8. /\ next_id' \in Nat /\ ViewTypeOK' /\ UNCHANGED <<running, calls>> /\ blurred' \in BOOLEAN
      /\ UNCHANGED <<records, batch, fetched, rows, snapshot, listing>>
      /\ GoTo(Worker, "refund_view")
  BY StoreStays, BlurredTyped DEF ChargeAndRefund, LoopInv, TypeOK, ViewTypeOK, viewVars
<1>9. OnlyHead /\ RecordsInv'
  BY <1>8, SameRecords DEF LoopInv, RecordsInv
<1>10. records'[Head(batch)].status = "pending"
  <2>1. 1 \in 1..Len(batch) /\ Head(batch) = batch[1]
    BY <1>4, HeadIsARecord DEF LoopInv, LocalsInv
  <2> QED
    BY <1>4, <1>8, <2>1 DEF LoopInv, BatchInv
<1> QED
  BY <1>3, <1>4, <1>5, <1>6, <1>7, <1>8, <1>9, <1>10, CallKeepsLoop DEF WorkerCalls

LEMMA SettleUnpaidKeepsLoop ==
    ASSUME LoopInv, SettleUnpaid
    PROVE  LoopInv'
<1>1. PICK status \in {"skipped", "failed"} :
        records' = IF Current.id = None THEN records ELSE SetStatus(Head(batch), status)
  BY DEF SettleUnpaid
<1>2. pc[Worker] = "record" /\ NextRecord
        /\ UNCHANGED <<accounts, next_id, viewVars, running, calls, blurred>>
  BY DEF SettleUnpaid
<1>3. OnlyHead /\ RecordsInv'
  <2>1. CASE Current.id = None
    BY <1>1, <2>1, SameRecords DEF LoopInv, RecordsInv
  <2>2. CASE Current.id # None
    BY <1>1, <1>2, <2>2, HeadStatusSet DEF BillingStatuses
  <2> QED
    BY <2>1, <2>2
<1>4. accounts' \in Books /\ next_id' \in Nat /\ ViewTypeOK' /\ blurred' \in BOOLEAN
  BY <1>2, StoreStays, BlurredTyped DEF LoopInv, TypeOK, ViewTypeOK, viewVars
<1> QED
  BY <1>2, <1>3, <1>4, NextRecordKeepsLoop

(* The steps that leave the store alone and end the work on a record. *)
LEMMA DropRecordKeepsLoop ==
    ASSUME LoopInv, RetryRecord \/ SyncStats \/ CacheFailure
    PROVE  LoopInv'
<1>1. pc[Worker] \in {"record"} \union WorkerCalls
  BY OnlyCacheCallsFail DEF RetryRecord, SyncStats, CacheFailure, LoopInv, LocalsInv, WorkerInv, WorkerCalls,
     Holding
<1>2. /\ NextRecord /\ UNCHANGED <<memoryVars, running, calls>>
      /\ blurred' \in {blurred, TRUE}
  BY DEF RetryRecord, SyncStats, CacheFailure
<1>3. ViewTypeOK'
  <2>1. CASE UNCHANGED viewVars
    BY <2>1 DEF LoopInv, TypeOK, ViewTypeOK, viewVars
  <2>2. CASE SyncStats
    <3>1. /\ IncrementStats(call[Worker].account, call[Worker].amount)
          /\ call[Worker].account \in Account /\ call[Worker].amount >= 0
      BY <2>2 DEF SyncStats, LoopInv, LocalsInv, WorkerInv, WorkerCalls
    <3>2. call[Worker].amount \in Int
      BY Constants DEF LoopInv, TypeOK, Call
    <3> QED
      BY <3>1, <3>2, StatsCounted
  <2> QED
    BY <2>1, <2>2 DEF RetryRecord, CacheFailure
<1>4. OnlyHead /\ RecordsInv'
  BY <1>2, SameRecords DEF memoryVars, LoopInv, RecordsInv
<1>5. accounts' \in Books /\ next_id' \in Nat /\ blurred' \in BOOLEAN
  BY <1>2, StoreStays, BlurredTyped DEF memoryVars
<1> QED
  BY <1>1, <1>2, <1>3, <1>4, <1>5, NextRecordKeepsLoop

LEMMA RefundViewKeepsLoop ==
    ASSUME LoopInv, RefundView
    PROVE  LoopInv'
<1>1. /\ pc[Worker] = "refund_view"
      /\ UpdateSingleBalance(back.account, back.balance)
      /\ MarkProcessed(call[Worker])
      /\ UNCHANGED <<accounts, next_id, running, calls, blurred>>
  BY DEF RefundView
<1>2. /\ back.account \in Account /\ back.balance \in Int
      /\ call[Worker] \in Call /\ call[Worker].account \in Account /\ call[Worker].amount >= 0
  BY <1>1, Constants DEF LoopInv, TypeOK, LocalsInv, WorkerInv, WorkerCalls
<1>3. ViewTypeOK'
  BY <1>1, <1>2, ViewUpdated
<1>4. accounts' \in Books /\ next_id' \in Nat /\ blurred' \in BOOLEAN
  BY <1>1, StoreStays, BlurredTyped
<1> QED
  BY <1>1, <1>2, <1>3, <1>4, MarkKeepsLoop

LEMMA SyncViewKeepsLoop ==
    ASSUME LoopInv, SyncView
    PROVE  LoopInv'
<1>1. /\ pc[Worker] = "view"
      /\ UpdateSingleBalance(call[Worker].account, call[Worker].balance)
      /\ GoTo(Worker, "stats")
      /\ UNCHANGED <<memoryVars, running, locals, calls, blurred>>
  BY DEF SyncView
<1>2. /\ call[Worker] \in Call /\ call[Worker].account \in Account /\ call[Worker].amount >= 0
      /\ call[Worker].balance \in Int
      /\ call' = [call EXCEPT ![Worker] = call[Worker]]
      /\ back' \in [account : Account \union {None}, balance : Int]
  BY <1>1, Constants DEF LoopInv, TypeOK, LocalsInv, WorkerInv, WorkerCalls, Call, locals
<1>3. ViewTypeOK'
  BY <1>1, <1>2, ViewUpdated
<1>4. OnlyHead /\ RecordsInv' /\ records'[Head(batch)].status = "processed"
  BY <1>1, SameRecords DEF memoryVars, LoopInv, RecordsInv, BatchInv
<1>5. accounts' \in Books /\ next_id' \in Nat /\ blurred' \in BOOLEAN
  BY <1>1, StoreStays, BlurredTyped DEF memoryVars
<1> QED
  BY <1>1, <1>2, <1>3, <1>4, <1>5, CallKeepsLoop DEF WorkerCalls, locals

(* A step of the loop around the batches, or one that appends a record. *)
LEMMA BetweenBatches ==
    ASSUME LoopInv, NEW label \in {"new", "sleep", "ended", "head"},
           pc[Worker] \in {"new", "sleep", "ended", "head"},
           pc' = [pc EXCEPT ![Worker] = label],
           running' \in BOOLEAN,
           UNCHANGED <<memoryVars, viewVars, locals, calls, blurred>>
    PROVE  LoopInv'
<1>1. /\ pc' \in [Tasks -> Labels] /\ pc'[Worker] = label /\ batch = <<>>
      /\ \A h \in Hosts : pc'[h] = pc[h]
  BY Constants DEF LoopInv, TypeOK, LocalsInv, WorkerInv, Labels, Holding, WorkerCalls
<1>2. TypeOK'
  BY <1>1 DEF LoopInv, TypeOK, MemoryTypeOK, ViewTypeOK, memoryVars, viewVars, locals
<1>3. WorkerInv'
  BY <1>1 DEF WorkerInv, WorkerCalls, Holding, locals
<1>4. KeepsHosts
  BY <1>1 DEF KeepsHosts, locals
<1>5. BatchInv' /\ RecordsInv'
  BY <1>1, EmptySeq DEF BatchInv, RecordsInv, LoopInv, memoryVars, locals
<1> QED
  BY <1>2, <1>3, <1>4, <1>5, HostsStay DEF LoopInv, LocalsInv

LEMMA StopKeepsLoop ==
    ASSUME LoopInv, Stop
    PROVE  LoopInv'
<1>1. UNCHANGED <<memoryVars, viewVars, pc, locals, calls, blurred>> /\ running' = FALSE
  BY DEF Stop
<1>2. TypeOK'
  BY <1>1 DEF LoopInv, TypeOK, MemoryTypeOK, ViewTypeOK, memoryVars, viewVars, locals
<1>3. LocalsInv'
  BY <1>1 DEF LoopInv, LocalsInv, WorkerInv, HostInv, locals
<1>4. RecordsInv' /\ BatchInv'
  BY <1>1 DEF LoopInv, RecordsInv, BatchInv, memoryVars, locals
<1> QED
  BY <1>2, <1>3, <1>4 DEF LoopInv

(* A cycle begins with different pending records of the list. *)
LEMMA BeginCycleKeepsLoop ==
    ASSUME LoopInv, BeginCycle
    PROVE  LoopInv'
<1>1. PICK queue \in GetPendingRecords(BatchSize) :
        /\ batch' = queue
        /\ fetched' = Len(queue)
        /\ GoTo(Worker, IF queue = <<>> THEN AfterCycle(0) ELSE "record")
  BY DEF BeginCycle
<1>2. /\ pc[Worker] = "head"
      /\ UNCHANGED <<memoryVars, viewVars, running, call, back, rows, snapshot, listing, calls,
                     blurred>>
  BY DEF BeginCycle
<1> DEFINE pending == {i \in 1..Len(records) : records[i].status = "pending"}
<1>3. Len(records) \in Nat /\ pending \in SUBSET Nat /\ pending \subseteq UsageIds
  <2>1. Len(records) \in Nat /\ Len(records) <= MaxRecords
    BY DEF LoopInv, TypeOK, MemoryTypeOK, RecordsInv
  <2> QED
    BY <2>1, Constants
<1>4. /\ queue \in Seq(pending) /\ Len(queue) <= BatchSize /\ Len(queue) \in Nat
      /\ \A i \in 1..Len(queue) : queue[i] \in pending
      /\ \A i, j \in 1..Len(queue) : i # j => queue[i] # queue[j]
  <2>1. queue \in Oldest(pending, BatchSize)
    BY DEF GetPendingRecords
  <2>2. BatchSize \in Nat
    BY Constants
  <2> HIDE DEF pending
  <2>3. /\ queue \in Seq(pending)
        /\ Len(queue) <= BatchSize
        /\ \A i \in 1..Len(queue) : queue[i] \in pending
        /\ \A i, j \in 1..Len(queue) : i # j => queue[i] # queue[j]
    BY <1>3, <2>1, <2>2, OldestIsABatch
  <2>4. Len(queue) \in Nat
    BY <2>3
  <2> QED
    BY <2>3, <2>4
<1>5. queue \in Seq(UsageIds) /\ Len(queue) \in 0..BatchSize
  <2> HIDE DEF pending
  <2>1. Len(queue) \in 0..BatchSize
    BY <1>4, Constants
  <2>2. queue \in Seq(UsageIds)
    BY <1>3, <1>4, SeqMonotonic
  <2> QED
    BY <2>1, <2>2
<1>6. PICK label \in {"sleep", "head", "record"} :
        /\ pc' = [pc EXCEPT ![Worker] = label]
        /\ label = "record" <=> queue # <<>>
  BY <1>1 DEF GoTo, AfterCycle
<1>7. /\ pc' \in [Tasks -> Labels] /\ pc'[Worker] = label
      /\ \A h \in Hosts : pc'[h] = pc[h]
  BY <1>6, Constants DEF LoopInv, TypeOK, Labels, Holding
<1>8. TypeOK'
  BY <1>1, <1>2, <1>5, <1>7 DEF LoopInv, TypeOK, MemoryTypeOK, ViewTypeOK, memoryVars, viewVars
<1>9. WorkerInv'
  BY <1>1, <1>2, <1>6, <1>7 DEF WorkerInv, WorkerCalls, Holding
<1>10. KeepsHosts
  BY <1>2, <1>7 DEF KeepsHosts
<1>11. BatchInv'
  BY <1>1, <1>2, <1>4, <1>7 DEF BatchInv, memoryVars
<1>12. RecordsInv'
  BY <1>2 DEF LoopInv, RecordsInv, memoryVars
<1> QED
  BY <1>8, <1>9, <1>10, <1>11, <1>12, HostsStay DEF LoopInv, LocalsInv

LEMMA WorkerStepKeepsLoop ==
    ASSUME LoopInv, WorkerStep
    PROVE  LoopInv'
<1>1. CASE StartRun \/ EndRun \/ Wake
  <2>1. PICK label \in {"head", "ended"} :
          /\ GoTo(Worker, label)
          /\ pc[Worker] \in {"new", "head", "sleep"}
          /\ UNCHANGED <<memoryVars, viewVars, locals, calls, blurred>>
          /\ running' \in {TRUE, running}
    BY <1>1 DEF StartRun, EndRun, Wake
  <2>2. running' \in BOOLEAN
    BY <2>1 DEF LoopInv, TypeOK
  <2> QED
    BY <2>1, <2>2, BetweenBatches DEF GoTo
<1>2. CASE BeginCycle
  BY <1>2, BeginCycleKeepsLoop
<1>3. CASE ChargeRecord
  BY <1>3, ChargeRecordKeepsLoop
<1>4. CASE ChargeAndRefund
  BY <1>4, ChargeAndRefundKeepsLoop
<1>5. CASE SettleUnpaid
  BY <1>5, SettleUnpaidKeepsLoop
<1>6. CASE RetryRecord \/ SyncStats \/ CacheFailure
  BY <1>6, DropRecordKeepsLoop
<1>7. CASE RefundView
  BY <1>7, RefundViewKeepsLoop
<1>8. CASE SyncView
  BY <1>8, SyncViewKeepsLoop
<1> QED
  BY <1>1, <1>2, <1>3, <1>4, <1>5, <1>6, <1>7, <1>8 DEF WorkerStep
-----------------------------------------------------------------------------
(* LoopInv: the hosts.                                                     *)

(* What a step of h leaves alone. *)
HostFrame(h) ==
    /\ UNCHANGED <<records, batch, fetched, back>>
    /\ pc'[Worker] = pc[Worker] /\ call'[Worker] = call[Worker]
    /\ \A g \in Hosts \ {h} : /\ pc'[g] = pc[g] /\ call'[g] = call[g]
                              /\ snapshot'[g] = snapshot[g] /\ listing'[g] = listing[g]

LEMMA FrameKeepsLoop ==
    ASSUME LoopInv, NEW h \in Hosts, TypeOK', HostInv(h)', HostFrame(h)
    PROVE  LoopInv'
<1>1. WorkerInv'
  BY DEF LoopInv, LocalsInv, WorkerInv, HostFrame
<1>2. \A g \in Hosts : HostInv(g)'
  BY DEF LoopInv, LocalsInv, HostInv, HostFrame
<1>3. RecordsInv' /\ BatchInv'
  BY DEF LoopInv, RecordsInv, BatchInv, HostFrame
<1> QED
  BY <1>1, <1>2, <1>3 DEF LoopInv, LocalsInv

LEMMA LabelTyped ==
    ASSUME LoopInv, NEW h \in Hosts, NEW label \in Labels, GoTo(h, label)
    PROVE  /\ pc' \in [Tasks -> Labels] /\ pc'[h] = label /\ pc'[Worker] = pc[Worker]
           /\ \A g \in Hosts \ {h} : pc'[g] = pc[g]
BY Constants DEF GoTo, LoopInv, TypeOK

LEMMA ReturnKeepsLoop ==
    ASSUME LoopInv, NEW h \in Hosts, Return(h), UNCHANGED <<memoryVars, running>>,
           ViewTypeOK', calls' \in Nat, blurred' \in BOOLEAN
    PROVE  LoopInv' /\ HostFrame(h)
<1>1. /\ pc' \in [Tasks -> Labels] /\ pc'[h] = "idle" /\ pc'[Worker] = pc[Worker]
      /\ \A g \in Hosts \ {h} : pc'[g] = pc[g]
  BY LabelTyped DEF Return, Labels
<1>2. /\ call' \in [Tasks -> Call] /\ call'[h] = NoCall /\ call'[Worker] = call[Worker]
      /\ \A g \in Hosts \ {h} : call'[g] = call[g]
  BY NothingTyped, Constants DEF Return, LoopInv, TypeOK
<1>3. UNCHANGED <<records, batch, fetched, back>>
  BY DEF Return, memoryVars
<1>4. TypeOK'
  BY <1>1, <1>2, <1>3, NothingTyped DEF Return, LoopInv, TypeOK, MemoryTypeOK, memoryVars
<1>5. HostFrame(h)
  BY <1>1, <1>2, <1>3 DEF Return, HostFrame, LoopInv, TypeOK
<1>6. HostInv(h)'
  BY <1>1, <1>2, NothingTyped DEF HostInv
<1> QED
  BY <1>4, <1>5, <1>6, FrameKeepsLoop

LEMMA MovedKeepsLoop ==
    ASSUME LoopInv, NEW h \in Hosts, NEW book \in Books, NEW movement \in Call,
           movement.account \in Account,
           movement.op = "charge" => movement.amount >= 0,
           movement.op = "fund" => movement.reference \in References,
           Moved(h, book, movement), UNCHANGED <<records, running>>, ViewTypeOK', calls' \in Nat
    PROVE  LoopInv' /\ HostFrame(h)
<1>1. /\ pc' \in [Tasks -> Labels] /\ pc'[h] = "cache" /\ pc'[Worker] = pc[Worker]
      /\ \A g \in Hosts \ {h} : pc'[g] = pc[g]
  BY LabelTyped DEF Moved, Labels, InCacheCall
<1>2. /\ call' \in [Tasks -> Call] /\ call'[h] = movement /\ call'[Worker] = call[Worker]
      /\ \A g \in Hosts \ {h} : call'[g] = call[g]
  BY Constants DEF Moved, LoopInv, TypeOK
<1>3. UNCHANGED <<records, batch, fetched, back, rows, snapshot, listing>>
        /\ accounts' \in Books /\ next_id' \in Nat /\ blurred' \in BOOLEAN
  BY StoreStays, BlurredTyped DEF Moved, Blur
<1>4. TypeOK'
  BY <1>1, <1>2, <1>3 DEF LoopInv, TypeOK, MemoryTypeOK, Books
<1>5. HostFrame(h)
  BY <1>1, <1>2, <1>3 DEF HostFrame
<1>6. HostInv(h)'
  BY <1>1, <1>2 DEF HostInv
<1> QED
  BY <1>4, <1>5, <1>6, FrameKeepsLoop

(* A step of h that writes neither the store nor its movement. *)
ReadsTyped ==
    /\ rows \in [Hosts ->
          [customer : Customers \union {None}, amounts : [Assets -> Int \union {None}]]]
    /\ snapshot \in [Hosts ->
          [customer : Customers \union {None}, start : Nat, clear : BOOLEAN,
           amounts : [Assets -> Int \union {None}]]]
    /\ listing \in [Hosts ->
          [query : Queries \union {None}, offset : Nat, seen : SUBSET UsageIds,
           due : SUBSET UsageIds]]

LEMMA ReadKeepsLoop ==
    ASSUME LoopInv, NEW h \in Hosts, pc[h] # "cache", NEW label \in {"rows", "balances", "counters", "paging"},
           GoTo(h, label),
           UNCHANGED <<memoryVars, viewVars, running, batch, fetched, call, back>>,
           ReadsTyped', calls' \in Nat, blurred' \in BOOLEAN,
           \A g \in Hosts \ {h} : snapshot'[g] = snapshot[g] /\ listing'[g] = listing[g],
           label = "balances" => snapshot'[h].customer \in Customers,
           label = "paging" => listing'[h].query \in Queries
    PROVE  LoopInv' /\ HostFrame(h)
<1>1. /\ pc' \in [Tasks -> Labels] /\ pc'[h] = label /\ pc'[Worker] = pc[Worker]
      /\ \A g \in Hosts \ {h} : pc'[g] = pc[g]
  BY LabelTyped DEF Labels, InCacheCall
<1>2. TypeOK'
  BY <1>1 DEF LoopInv, TypeOK, MemoryTypeOK, ViewTypeOK, memoryVars, viewVars, ReadsTyped
<1>3. HostFrame(h)
  BY <1>1 DEF HostFrame, memoryVars
<1>4. HostInv(h)'
  BY <1>1 DEF HostInv, LoopInv, LocalsInv
<1> QED
  BY <1>2, <1>3, <1>4, FrameKeepsLoop

LEMMA BeginRefreshKeepsLoop ==
    ASSUME LoopInv, NEW h \in Hosts, BeginRefresh(h)
    PROVE  LoopInv' /\ HostFrame(h)
<1>1. PICK customer \in Customers :
        rows' = [rows EXCEPT ![h] = [customer |-> customer,
            amounts |-> [asset \in Assets |->
                IF accounts[<<customer, asset>>].row THEN accounts[<<customer, asset>>].amount
                ELSE None]]]
  BY DEF BeginRefresh
<1> DEFINE amounts == [asset \in Assets |->
                IF accounts[<<customer, asset>>].row THEN accounts[<<customer, asset>>].amount
                ELSE None]
<1>2. amounts \in [Assets -> Int \union {None}]
  <2>1. \A asset \in Assets : accounts[<<customer, asset>>].amount \in Int
    BY StoreStays, BookTyped DEF Account
  <2> QED
    BY <2>1
<1>3. [customer |-> customer, amounts |-> amounts] \in
        [customer : Customers \union {None}, amounts : [Assets -> Int \union {None}]]
  BY <1>2
<1> HIDE DEF amounts
<1>4. rows' = [rows EXCEPT ![h] = [customer |-> customer, amounts |-> amounts]]
  BY <1>1 DEF amounts
<1>5. /\ pc[h] = "idle" /\ GoTo(h, "rows")
      /\ UNCHANGED <<memoryVars, viewVars, running, batch, fetched, call, back, snapshot, listing>>
      /\ calls' \in Nat /\ blurred' \in BOOLEAN
  BY BlurredTyped DEF BeginRefresh, Begin, Blur, memoryVars, viewVars, LoopInv, TypeOK
<1>6. ReadsTyped'
  BY <1>3, <1>4, <1>5 DEF ReadsTyped, LoopInv, TypeOK
<1> QED
  BY <1>5, <1>6, ReadKeepsLoop

LEMMA BeginSnapshotKeepsLoop ==
    ASSUME LoopInv, NEW h \in Hosts, BeginSnapshot(h)
    PROVE  LoopInv' /\ HostFrame(h)
<1>1. PICK customer \in Customers :
        snapshot' = [snapshot EXCEPT ![h] = [NoSnapshot EXCEPT
            !.customer = customer, !.start = next_id, !.clear = ~blurred /\ ~Overlaps(h)]]
  BY DEF BeginSnapshot
<1> DEFINE Snapshots == [customer : Customers \union {None}, start : Nat, clear : BOOLEAN,
                         amounts : [Assets -> Int \union {None}]]
           named == [NoSnapshot EXCEPT !.customer = customer]
           started == [named EXCEPT !.start = next_id]
           begun == [started EXCEPT !.clear = ~blurred /\ ~Overlaps(h)]
<1>2. snapshot' = [snapshot EXCEPT ![h] = begun]
  BY <1>1
<1> HIDE DEF begun
<1>3. begun \in Snapshots /\ begun.customer = customer
  <2>1. named \in Snapshots /\ named.customer = customer
    BY NothingTyped
  <2> HIDE DEF named
  <2>2. started \in Snapshots /\ started.customer = customer
    BY <2>1, StoreStays
  <2> HIDE DEF started
  <2> QED
    BY <2>2 DEF begun
<1>4. snapshot \in [Hosts -> Snapshots]
  BY DEF LoopInv, TypeOK
<1>5. /\ pc[h] = "idle" /\ GoTo(h, "balances")
      /\ UNCHANGED <<memoryVars, viewVars, running, batch, fetched, call, back, rows, listing>>
      /\ calls' \in Nat /\ blurred' \in BOOLEAN
  BY BlurredTyped DEF BeginSnapshot, Begin, memoryVars, viewVars, LoopInv, TypeOK
<1>6. /\ snapshot' \in [Hosts -> Snapshots] /\ snapshot'[h].customer \in Customers
      /\ \A g \in Hosts \ {h} : snapshot'[g] = snapshot[g]
  BY <1>2, <1>3, <1>4
<1>7. ReadsTyped'
  BY <1>5, <1>6 DEF ReadsTyped, LoopInv, TypeOK
<1> QED
  BY <1>5, <1>6, <1>7, ReadKeepsLoop

LEMMA GetBalancesKeepsLoop ==
    ASSUME LoopInv, NEW h \in Hosts, GetBalances(h)
    PROVE  LoopInv' /\ HostFrame(h)
<1> DEFINE amounts == [asset \in Assets |-> view[<<snapshot[h].customer, asset>>]]
           Snapshots == [customer : Customers \union {None}, start : Nat, clear : BOOLEAN,
                         amounts : [Assets -> Int \union {None}]]
<1>1. /\ pc[h] = "balances" /\ GoTo(h, "counters")
      /\ snapshot' = [snapshot EXCEPT ![h].amounts = amounts]
      /\ UNCHANGED <<memoryVars, viewVars, running, batch, fetched, call, back, rows, listing,
                     calls, blurred>>
  BY DEF GetBalances
<1>2. snapshot[h].customer \in Customers /\ snapshot[h] \in Snapshots
  BY <1>1 DEF LoopInv, LocalsInv, HostInv, TypeOK
<1>3. amounts \in [Assets -> Int \union {None}]
  BY <1>2 DEF LoopInv, TypeOK, ViewTypeOK, Account
<1> HIDE DEF amounts
<1>4. [snapshot[h] EXCEPT !.amounts = amounts] \in Snapshots
  BY <1>2, <1>3
<1>5. snapshot' \in [Hosts -> Snapshots] /\ \A g \in Hosts \ {h} : snapshot'[g] = snapshot[g]
  BY <1>1, <1>4 DEF LoopInv, TypeOK
<1>6. ReadsTyped' /\ calls' \in Nat /\ blurred' \in BOOLEAN
  BY <1>1, <1>5 DEF ReadsTyped, LoopInv, TypeOK
<1> QED
  BY <1>1, <1>5, <1>6, ReadKeepsLoop

LEMMA BeginListingKeepsLoop ==
    ASSUME LoopInv, NEW h \in Hosts, BeginListing(h)
    PROVE  LoopInv' /\ HostFrame(h)
<1>1. PICK query \in Queries :
        listing' = [listing EXCEPT ![h] = [query |-> query, offset |-> 0, seen |-> {},
                                           due |-> Filtered(query)]]
  BY DEF BeginListing
<1>2. Filtered(query) \in SUBSET UsageIds
  <2>1. Len(records) \in Nat /\ Len(records) <= MaxRecords
    BY DEF LoopInv, TypeOK, MemoryTypeOK, RecordsInv
  <2> QED
    BY <2>1, Constants DEF Filtered
<1>3. /\ pc[h] = "idle" /\ GoTo(h, "paging")
      /\ UNCHANGED <<memoryVars, viewVars, running, batch, fetched, call, back, rows, snapshot>>
      /\ calls' \in Nat /\ blurred' \in BOOLEAN
  BY BlurredTyped DEF BeginListing, Begin, memoryVars, viewVars, LoopInv, TypeOK
<1>4. /\ ReadsTyped'
      /\ listing'[h].query \in Queries
      /\ \A g \in Hosts \ {h} : listing'[g] = listing[g]
  BY <1>1, <1>2, <1>3 DEF ReadsTyped, LoopInv, TypeOK
<1> QED
  BY <1>3, <1>4, ReadKeepsLoop

(* The host reads on: its offset moves to the next page. *)
LEMMA PageRead ==
    ASSUME LoopInv, NEW h \in Hosts, pc[h] = "paging", NEW next \in Nat,
           listing' = [listing EXCEPT ![h].offset = next, ![h].seen = Seen(h)]
    PROVE  /\ listing' \in [Hosts -> [query : Queries \union {None}, offset : Nat,
                                      seen : SUBSET UsageIds, due : SUBSET UsageIds]]
           /\ listing'[h] = [query |-> listing[h].query, offset |-> next, seen |-> Seen(h),
                             due |-> listing[h].due]
           /\ \A g \in Hosts \ {h} : listing'[g] = listing[g]
<1> DEFINE Listings == [query : Queries \union {None}, offset : Nat, seen : SUBSET UsageIds,
                        due : SUBSET UsageIds]
           first == [listing[h] EXCEPT !.offset = next]
           second == [first EXCEPT !.seen = Seen(h)]
<1>1. listing \in [Hosts -> Listings] /\ listing[h] \in Listings
  BY DEF LoopInv, TypeOK
<1>2. Seen(h) \in SUBSET UsageIds
  <2>1. Len(records) \in Nat /\ Len(records) <= MaxRecords
    BY DEF LoopInv, TypeOK, MemoryTypeOK, RecordsInv
  <2>2. Answer(h).page \in SUBSET UsageIds
    BY <2>1, Constants DEF Answer, GetUsageRecords, Filtered
  <2> QED
    BY <1>1, <2>2 DEF Seen
<1>3. /\ first \in Listings /\ first.query = listing[h].query /\ first.offset = next
      /\ first.due = listing[h].due
  BY <1>1
<1>4. listing' = [listing EXCEPT ![h] = second]
  BY <1>1
<1> HIDE DEF first
<1>5. /\ second \in Listings
      /\ second = [query |-> listing[h].query, offset |-> next, seen |-> Seen(h),
                   due |-> listing[h].due]
  BY <1>2, <1>3
<1> HIDE DEF second
<1>6. listing \in [Hosts -> Listings] /\ second \in Listings
  BY <1>1, <1>5
<1> HIDE DEF Listings
<1>7. /\ listing' \in [Hosts -> Listings] /\ listing'[h] = second
      /\ \A g \in Hosts \ {h} : listing'[g] = listing[g]
  BY <1>4, <1>6
<1> QED
  BY <1>5, <1>7 DEF Listings

LEMMA ReadPageKeepsLoop ==
    ASSUME LoopInv, NEW h \in Hosts, ReadPage(h)
    PROVE  LoopInv' /\ HostFrame(h)
<1> DEFINE next == listing[h].offset + listing[h].query.limit
<1>1. /\ pc[h] = "paging"
      /\ UNCHANGED <<memoryVars, viewVars, running, calls, blurred>>
  BY DEF ReadPage
<1>2. ViewTypeOK' /\ calls' \in Nat /\ blurred' \in BOOLEAN
  BY <1>1 DEF LoopInv, TypeOK, ViewTypeOK, viewVars
<1>3. CASE Return(h)
  BY <1>1, <1>2, <1>3, ReturnKeepsLoop
<1>4. CASE /\ listing' = [listing EXCEPT ![h].offset = next, ![h].seen = Seen(h)]
           /\ UNCHANGED <<pc, batch, fetched, call, back, rows, snapshot>>
  <2>1. listing[h].query \in Queries
    BY <1>1 DEF LoopInv, LocalsInv, HostInv
  <2>2. next \in Nat
    BY <2>1, QueriesAreTyped DEF LoopInv, TypeOK
  <2> HIDE DEF next
  <2>5. listing' = [listing EXCEPT ![h].offset = next, ![h].seen = Seen(h)]
    BY <1>4
  <2>6. /\ listing' \in [Hosts -> [query : Queries \union {None}, offset : Nat,
                                   seen : SUBSET UsageIds, due : SUBSET UsageIds]]
        /\ listing'[h] = [query |-> listing[h].query, offset |-> next, seen |-> Seen(h),
                          due |-> listing[h].due]
        /\ \A g \in Hosts \ {h} : listing'[g] = listing[g]
    BY <1>1, <2>2, <2>5, PageRead
  <2>3. /\ ReadsTyped'
        /\ listing'[h].query \in Queries
        /\ \A g \in Hosts \ {h} : listing'[g] = listing[g]
    BY <1>4, <2>1, <2>6 DEF ReadsTyped, LoopInv, TypeOK
  <2>4. GoTo(h, "paging")
    BY <1>1, <1>4 DEF GoTo, LoopInv, TypeOK
  <2> QED
    BY <1>1, <1>2, <1>4, <2>3, <2>4, ReadKeepsLoop
<1> QED
  BY <1>3, <1>4 DEF ReadPage

(* A host has granted the next product of a payment that it is delivering,
   or the first one of a payment that nobody has delivered. *)
Delivers(h) ==
    LET reference == call'[h].reference
    IN  IF call[h].op = "fund"
        THEN call[h].reference = reference /\ Len(call[h].todo) = Len(call'[h].todo) + 1
        ELSE /\ GrantsOf(accounts, reference) = {}
             /\ Len(PaymentProducts[reference]) = Len(call'[h].todo) + 1

(* What h hands to the cache once the row is in the ledger. *)
Announces(h, a, row) ==
    /\ next_id' = next_id + 1 /\ UNCHANGED <<rows, snapshot>>
    /\ pc'[h] = "cache"
    /\ call'[h].account = a /\ call'[h].balance = row.balance_after
    /\ call'[h].op = "charge" <=> row.type = "usage"
    /\ row.type = "usage" => call'[h].amount = -row.amount
    /\ blurred' = (blurred \/ Overlaps(h))

(* What a host's movement adds to the ledger. *)
HostPosts(h, a, row) ==
    /\ Announces(h, a, row)
    /\ accounts' = Posted(accounts, a, row)
    /\ Follows(accounts[a].amount, row)
    /\ accounts[a].amount >= 0 => row.balance_after >= 0
    /\ row.source = None
    /\ row.type = "usage" => row.amount < 0
    /\ IF call'[h].op = "fund" THEN row.reference = call'[h].reference /\ Delivers(h)
       ELSE row.reference = None

HostStores(h) ==
    \/ \E a \in Account : \E row \in Transaction : HostPosts(h, a, row)
    \/ UNCHANGED <<accounts, next_id>> /\ call'[h].op # "fund"

(* What the lemmas below show of every step of a host. *)
HostKeeps(h) == LoopInv' /\ HostFrame(h) /\ HostStores(h)

LEMMA Begun ==
    ASSUME LoopInv, NEW h \in Hosts, NEW operation, Begin(h, operation)
    PROVE  /\ pc[h] = "idle" /\ call[h].op # "fund"
           /\ UNCHANGED <<records, running>> /\ ViewTypeOK' /\ calls' \in Nat
BY DEF Begin, LoopInv, LocalsInv, HostInv, TypeOK, ViewTypeOK, viewVars

LEMMA CallAssigned ==
    ASSUME LoopInv, NEW h \in Hosts, NEW movement \in Call, call' = [call EXCEPT ![h] = movement]
    PROVE  call'[h] = movement
BY Constants DEF LoopInv, TypeOK

LEMMA BeginChargeKeeps ==
    ASSUME LoopInv, NEW h \in Hosts, BeginCharge(h)
    PROVE  HostKeeps(h)
<1>1. PICK a \in Account, amount \in Amounts :
        /\ accounts[a].amount >= amount
        /\ Moved(h, Charged(accounts, a, next_id, amount, None),
                 Movement("charge", a, amount, accounts[a].amount - amount))
  BY DEF BeginCharge
<1> DEFINE balance == accounts[a].amount
           row == NewRow(next_id, "usage", -amount, balance - amount, None, None)
           movement == Movement("charge", a, amount, balance - amount)
<1>2. amount \in Nat \ {0} /\ amount \in Int /\ balance \in Int /\ accounts \in Books
        /\ next_id \in Nat
  BY AmountsArePositive, StoreStays, BookTyped
<1>3. row \in Transaction
  BY <1>2 DEF NewRow, Transaction, TransactionTypes
<1>4. Charged(accounts, a, next_id, amount, None) = Posted(accounts, a, row)
  BY <1>2, ChargedPosts
<1>5. /\ movement \in Call /\ movement.op = "charge" /\ movement.account = a
      /\ movement.amount = amount /\ movement.balance = balance - amount
  BY <1>2, MovementTyped
<1>6. /\ row.source = None /\ row.reference = None /\ row.amount < 0
      /\ row.type = "usage" /\ amount = -row.amount
      /\ row.balance_after = balance - amount /\ row.balance_after >= 0
      /\ Follows(balance, row)
  BY <1>1, <1>2 DEF NewRow, Follows
<1>7. Moved(h, Posted(accounts, a, row), movement)
  BY <1>1, <1>4
<1> HIDE DEF row, movement, balance
<1>8. Posted(accounts, a, row) \in Books
  BY <1>2, <1>3, PostedIs
<1>9. UNCHANGED <<records, running>> /\ ViewTypeOK' /\ calls' \in Nat
  BY Begun DEF BeginCharge
<1>10. LoopInv' /\ HostFrame(h)
  BY <1>2, <1>5, <1>7, <1>8, <1>9, MovedKeepsLoop
<1>11. accounts' = Posted(accounts, a, row) /\ call'[h] = movement
  BY <1>5, <1>7, CallAssigned DEF Moved
<1>12. Announces(h, a, row)
  BY <1>5, <1>6, <1>7, <1>11, LabelTyped DEF Announces, Moved, Blur, Labels, InCacheCall
<1>13. HostPosts(h, a, row)
  BY <1>5, <1>6, <1>11, <1>12 DEF HostPosts, balance
<1> QED
  BY <1>3, <1>10, <1>13 DEF HostKeeps, HostStores

LEMMA BeginRefundKeeps ==
    ASSUME LoopInv, NEW h \in Hosts, BeginRefund(h)
    PROVE  HostKeeps(h)
<1>1. PICK a \in Account, amount \in Amounts :
        Moved(h, Refunded(accounts, a, next_id, amount, None),
              Movement("refund", a, amount, accounts[a].amount + amount))
  BY DEF BeginRefund
<1> DEFINE balance == accounts[a].amount
           row == NewRow(next_id, "refund", amount, balance + amount, None, None)
           movement == Movement("refund", a, amount, balance + amount)
<1>2. amount \in Nat \ {0} /\ amount \in Int /\ balance \in Int /\ accounts \in Books
        /\ next_id \in Nat
  BY AmountsArePositive, StoreStays, BookTyped
<1>3. row \in Transaction
  BY <1>2 DEF NewRow, Transaction, TransactionTypes
<1>4. Refunded(accounts, a, next_id, amount, None) = Posted(accounts, a, row)
  BY <1>2, RefundedPosts
<1>5. /\ movement \in Call /\ movement.op = "refund" /\ movement.account = a
      /\ movement.balance = balance + amount
  <2>1. PICK after \in Int : after = balance + amount
    BY <1>2
  <2> HIDE DEF balance
  <2> QED
    BY <1>2, <2>1, MovementTyped
<1>6. /\ row.source = None /\ row.reference = None /\ row.type # "usage"
      /\ row.balance_after = balance + amount /\ (balance >= 0 => row.balance_after >= 0)
      /\ Follows(balance, row)
  BY <1>2 DEF NewRow, Follows
<1>7. Moved(h, Posted(accounts, a, row), movement)
  BY <1>1, <1>4
<1> HIDE DEF row, movement, balance
<1>8. Posted(accounts, a, row) \in Books
  BY <1>2, <1>3, PostedIs
<1>9. UNCHANGED <<records, running>> /\ ViewTypeOK' /\ calls' \in Nat
  BY Begun DEF BeginRefund
<1>10. LoopInv' /\ HostFrame(h)
  BY <1>5, <1>7, <1>8, <1>9, MovedKeepsLoop
<1>11. accounts' = Posted(accounts, a, row) /\ call'[h] = movement
  BY <1>5, <1>7, CallAssigned DEF Moved
<1>12. Announces(h, a, row)
  BY <1>5, <1>6, <1>7, <1>11, LabelTyped DEF Announces, Moved, Blur, Labels, InCacheCall
<1>13. HostPosts(h, a, row)
  BY <1>5, <1>6, <1>11, <1>12 DEF HostPosts, balance
<1> QED
  BY <1>3, <1>10, <1>13 DEF HostKeeps, HostStores

(* One turn of fund_customer's loop, for the rest of a payment. *)
LEMMA GrantKeeps ==
    ASSUME LoopInv, NEW h \in Hosts, NEW customer \in Customers, NEW products \in Seq(Product),
           NEW reference \in References, Grant(h, customer, products, reference),
           UNCHANGED <<records, running>>, ViewTypeOK', calls' \in Nat,
           IF call[h].op = "fund"
           THEN call[h].reference = reference /\ Len(call[h].todo) = Len(products)
           ELSE products # <<>> =>
                  /\ GrantsOf(accounts, reference) = {}
                  /\ Len(PaymentProducts[reference]) = Len(products)
    PROVE  HostKeeps(h)
<1>1. CASE Return(h) /\ UNCHANGED <<accounts, next_id, blurred>>
  <2>1. LoopInv' /\ HostFrame(h)
    BY <1>1, ReturnKeepsLoop, BlurredTyped DEF memoryVars
  <2>2. call'[h] = NoCall
    BY <1>1, NothingTyped, CallAssigned DEF Return
  <2> QED
    BY <1>1, <2>1, <2>2, NothingTyped DEF HostKeeps, HostStores
<1>2. CASE CanGrant(products)
  <2> DEFINE product == Head(products)
             a == <<customer, product.asset>>
             book == Granted(accounts, a, next_id, product, reference)
             movement == [account |-> a, balance |-> book[a].amount, amount |-> 0,
                          op |-> "fund", reference |-> reference, todo |-> Tail(products)]
  <2>1. /\ products # <<>> /\ product \in Product
        /\ Tail(products) \in Seq(Product) /\ Len(products) = Len(Tail(products)) + 1
    <3>1. products # <<>>
      BY <1>2 DEF CanGrant
    <3>2. Len(Tail(products)) = Len(products) - 1 /\ Tail(products) \in Seq(Product)
            /\ product \in Product
      BY <3>1, HeadTailProperties
    <3> QED
      BY <3>1, <3>2
  <2>2. a \in Account /\ product.amount \in Nat
    BY <2>1 DEF Account, Product
  <2>3. accounts \in Books /\ next_id \in Nat /\ accounts[a].amount \in Int
    BY <2>2, StoreStays, BookTyped
  <2>4. Moved(h, book, movement)
    <3>1. CASE ~CanGrant(products)
      BY <1>2, <3>1
    <3> QED
      BY <3>1 DEF Grant
  <2> HIDE DEF product, a, movement, book
  <2>5. PICK type \in {"top_up", "monthly_grant"} :
          LET after == IF type = "top_up" THEN accounts[a].amount + product.amount
                       ELSE product.amount
          IN  book = Posted(accounts, a, NewRow(next_id, type, product.amount, after, None, reference))
    BY <2>1, <2>2, <2>3, GrantedPosts DEF book
  <2> DEFINE after == IF type = "top_up" THEN accounts[a].amount + product.amount
                      ELSE product.amount
             row == NewRow(next_id, type, product.amount, after, None, reference)
  <2>6. after \in Int /\ (accounts[a].amount >= 0 => after >= 0)
    BY <2>2, <2>3
  <2>7. /\ row \in Transaction
        /\ row.source = None /\ row.reference = reference /\ row.type # "usage"
        /\ row.balance_after = after /\ Follows(accounts[a].amount, row)
    BY <2>2, <2>3, <2>6 DEF NewRow, Transaction, TransactionTypes, Follows
  <2>8. book = Posted(accounts, a, row)
    BY <2>5
  <2> HIDE DEF after, row
  <2>9. book \in Books /\ book[a].amount \in Int
    BY <2>2, <2>3, <2>6, <2>7, <2>8, PostedIs
  <2>10. /\ movement \in Call /\ movement.account = a /\ movement.op = "fund"
         /\ movement.balance = book[a].amount /\ movement.reference = reference /\ movement.todo = Tail(products)
    BY <2>1, <2>2, <2>9 DEF movement, Call
  <2>11. LoopInv' /\ HostFrame(h)
    BY <2>2, <2>4, <2>9, <2>10, MovedKeepsLoop
  <2>12. accounts' = Posted(accounts, a, row) /\ call'[h] = movement
    BY <2>4, <2>8, <2>10, CallAssigned DEF Moved
  <2>13. Delivers(h)
    BY <2>1, <2>10, <2>12 DEF Delivers
  <2>14. Announces(h, a, row)
    <3>1. book[a].amount = row.balance_after
      BY <2>2, <2>3, <2>7, <2>8, PostedIs
    <3> QED
      BY <2>4, <2>7, <2>10, <2>12, <3>1, LabelTyped DEF Announces, Moved, Blur, Labels, InCacheCall
  <2>15. HostPosts(h, a, row)
    BY <2>6, <2>7, <2>10, <2>12, <2>13, <2>14 DEF HostPosts
  <2> QED
    BY <2>2, <2>7, <2>11, <2>15 DEF HostKeeps, HostStores
<1> QED
  BY <1>1, <1>2 DEF Grant

(* The look-up of a reference finds any of its grants. *)
LEMMA LookUpFinds ==
    ASSUME LoopInv, NEW reference \in References
    PROVE  GetTransactionByReference(reference) <=> GrantsOf(accounts, reference) # {}
<1>1. accounts \in Books
  BY StoreStays
<1>2. ASSUME NEW a \in Account, NEW i \in 1..Len(accounts[a].entries)
      PROVE  <<a, i>> \in LinesOf(accounts) /\ LineOf(accounts, <<a, i>>) = accounts[a].entries[i]
  BY <1>1, LinesAre DEF LineOf
<1>3. ASSUME GetTransactionByReference(reference)
      PROVE  GrantsOf(accounts, reference) # {}
  <2>1. PICK a \in Account : \E i \in 1..Len(accounts[a].entries) :
          accounts[a].entries[i].reference = reference
    BY <1>3 DEF GetTransactionByReference
  <2>2. PICK i \in 1..Len(accounts[a].entries) : accounts[a].entries[i].reference = reference
    BY <2>1
  <2>3. <<a, i>> \in GrantsOf(accounts, reference)
    BY <1>2, <2>2 DEF GrantsOf
  <2> QED
    BY <2>3
<1>4. ASSUME NEW l \in GrantsOf(accounts, reference)
      PROVE  GetTransactionByReference(reference)
  <2>1. l \in LinesOf(accounts) /\ LineOf(accounts, l).reference = reference
    BY DEF GrantsOf
  <2>2. PICK a \in Account : \E i \in 1..Len(accounts[a].entries) : l = <<a, i>>
    BY <1>1, <2>1, LinesAre
  <2>3. PICK i \in 1..Len(accounts[a].entries) : l = <<a, i>>
    BY <2>2
  <2>4. accounts[a].entries[i].reference = reference
    BY <1>2, <2>1, <2>3
  <2> QED
    BY <2>4 DEF GetTransactionByReference
<1> QED
  BY <1>3, <1>4

LEMMA BeginFundKeeps ==
    ASSUME LoopInv, NEW h \in Hosts, BeginFund(h)
    PROVE  HostKeeps(h)
<1>1. PICK reference \in References :
        Grant(h, PaymentCustomer[reference],
              IF GetTransactionByReference(reference) THEN <<>>
              ELSE PaymentProducts[reference], reference)
  BY DEF BeginFund
<1> DEFINE products == IF GetTransactionByReference(reference) THEN <<>>
                       ELSE PaymentProducts[reference]
<1>2. PaymentCustomer[reference] \in Customers /\ products \in Seq(Product)
  BY PaymentsAreTyped, EmptySeq
<1>3. /\ call[h].op # "fund"
      /\ UNCHANGED <<records, running>> /\ ViewTypeOK' /\ calls' \in Nat
  BY Begun DEF BeginFund
<1>4. products # <<>> => /\ GrantsOf(accounts, reference) = {}
                         /\ Len(PaymentProducts[reference]) = Len(products)
  BY LookUpFinds
<1>5. Grant(h, PaymentCustomer[reference], products, reference)
  BY <1>1
<1> HIDE DEF products
<1> QED
  BY <1>2, <1>3, <1>4, <1>5, GrantKeeps

LEMMA UpdateViewKeeps ==
    ASSUME LoopInv, NEW h \in Hosts, UpdateView(h)
    PROVE  HostKeeps(h)
<1>1. /\ pc[h] = "cache"
      /\ UpdateSingleBalance(call[h].account, call[h].balance)
      /\ AfterView(h)
      /\ UNCHANGED <<records, running, calls>>
  BY DEF UpdateView
<1>2. /\ call[h] \in Call /\ call[h].account \in Account /\ call[h].balance \in Int
      /\ call[h].todo \in Seq(Product)
  BY <1>1, Constants DEF LoopInv, LocalsInv, HostInv, TypeOK, Call
<1>3. ViewTypeOK' /\ calls' \in Nat
  BY <1>1, <1>2, ViewUpdated DEF LoopInv, TypeOK
<1>4. CASE /\ call[h].op = "charge"
           /\ GoTo(h, "stats")
           /\ UNCHANGED <<accounts, next_id, locals, blurred>>
  <2>1. /\ pc' \in [Tasks -> Labels] /\ pc'[h] = "stats" /\ pc'[Worker] = pc[Worker]
        /\ \A g \in Hosts \ {h} : pc'[g] = pc[g]
    BY <1>4, LabelTyped DEF Labels, InCacheCall
  <2>2. TypeOK'
    BY <1>1, <1>3, <1>4, <2>1 DEF LoopInv, TypeOK, MemoryTypeOK, locals
  <2>3. HostFrame(h)
    BY <1>1, <1>4, <2>1 DEF HostFrame, locals
  <2>4. HostInv(h)'
    BY <1>1, <1>4, <2>1 DEF HostInv, LoopInv, LocalsInv, locals
  <2>5. LoopInv'
    BY <2>2, <2>3, <2>4, FrameKeepsLoop
  <2>6. UNCHANGED <<accounts, next_id>> /\ call'[h].op # "fund"
    BY <1>4 DEF locals
  <2> QED
    BY <2>3, <2>5, <2>6 DEF HostKeeps, HostStores
<1>5. CASE Return(h) /\ UNCHANGED <<accounts, next_id, blurred>>
  <2>1. LoopInv' /\ HostFrame(h)
    BY <1>1, <1>3, <1>5, ReturnKeepsLoop, BlurredTyped DEF memoryVars
  <2>2. call'[h] = NoCall
    BY <1>5, NothingTyped, CallAssigned DEF Return
  <2> QED
    BY <1>5, <2>1, <2>2, NothingTyped DEF HostKeeps, HostStores
<1>6. CASE /\ call[h].op = "fund"
           /\ Grant(h, call[h].account[1], call[h].todo, call[h].reference)
  <2>1. call[h].account[1] \in Customers /\ call[h].reference \in References
    BY <1>2, <1>6 DEF Account, LoopInv, LocalsInv, HostInv
  <2> QED
    BY <1>1, <1>2, <1>3, <1>6, <2>1, GrantKeeps
<1> QED
  BY <1>1, <1>4, <1>5, <1>6 DEF AfterView

(* A step that ends a host's call without a movement. *)
LEMMA ReturnKeeps ==
    ASSUME LoopInv, NEW h \in Hosts,
           CountSpend(h) \/ HostCacheFailure(h) \/ WriteRows(h) \/ GetStats(h)
    PROVE  HostKeeps(h)
<1>1. Return(h) /\ UNCHANGED <<memoryVars, running, calls>> /\ blurred' \in {blurred, TRUE}
  BY DEF CountSpend, HostCacheFailure, WriteRows, GetStats
<1>2. ViewTypeOK'
  <2>1. CASE UNCHANGED viewVars
    BY <2>1 DEF LoopInv, TypeOK, ViewTypeOK, viewVars
  <2>2. CASE CountSpend(h)
    <3>1. /\ IncrementStats(call[h].account, call[h].amount)
          /\ call[h].account \in Account /\ call[h].amount >= 0
      BY <2>2 DEF CountSpend, LoopInv, LocalsInv, HostInv
    <3>2. call[h].amount \in Int
      BY Constants DEF LoopInv, TypeOK, Call
    <3> QED
      BY <3>1, <3>2, StatsCounted
  <2>3. CASE WriteRows(h)
    <3>1. rows[h].amounts \in [Assets -> Int \union {None}]
      BY DEF LoopInv, TypeOK
    <3>2. \A a \in Account : rows[h].amounts[a[2]] \in Int \union {None}
      BY <3>1 DEF Account
    <3> QED
      BY <2>3, <3>2 DEF WriteRows, SetBalances, LoopInv, TypeOK, ViewTypeOK
  <2> QED
    BY <2>1, <2>2, <2>3 DEF HostCacheFailure, GetStats
<1>3. calls' \in Nat /\ blurred' \in BOOLEAN
  BY <1>1, BlurredTyped DEF LoopInv, TypeOK
<1>4. LoopInv' /\ HostFrame(h)
  BY <1>1, <1>2, <1>3, ReturnKeepsLoop
<1>5. call'[h] = NoCall /\ UNCHANGED <<accounts, next_id>>
  BY <1>1, NothingTyped, CallAssigned DEF Return, memoryVars
<1> QED
  BY <1>4, <1>5, NothingTyped DEF HostKeeps, HostStores

(* A step of a host that only reads. *)
LEMMA ReadKeeps ==
    ASSUME LoopInv, NEW h \in Hosts,
           BeginRefresh(h) \/ BeginSnapshot(h) \/ GetBalances(h) \/ BeginListing(h) \/ ReadPage(h)
    PROVE  HostKeeps(h)
<1>1. LoopInv' /\ HostFrame(h)
  BY BeginRefreshKeepsLoop, BeginSnapshotKeepsLoop, GetBalancesKeepsLoop, BeginListingKeepsLoop,
     ReadPageKeepsLoop
<1>2. UNCHANGED <<accounts, next_id>>
  BY DEF BeginRefresh, BeginSnapshot, GetBalances, BeginListing, ReadPage, memoryVars
<1>3. call[h].op # "fund" /\ (UNCHANGED call \/ Return(h))
  BY DEF BeginRefresh, BeginSnapshot, GetBalances, BeginListing, ReadPage, Begin, LoopInv,
         LocalsInv, HostInv
<1>4. call'[h].op # "fund"
  <2>1. CASE Return(h)
    BY <2>1, NothingTyped, CallAssigned DEF Return
  <2> QED
    BY <1>3, <2>1
<1> QED
  BY <1>1, <1>2, <1>4 DEF HostKeeps, HostStores

LEMMA HostStepKeeps ==
    ASSUME LoopInv, NEW h \in Hosts, HostStep(h)
    PROVE  HostKeeps(h)
BY BeginChargeKeeps, BeginRefundKeeps, BeginFundKeeps, UpdateViewKeeps, ReturnKeeps, ReadKeeps
   DEF HostStep

-----------------------------------------------------------------------------
(* LoopInv: new records, and every step.                                   *)

(* A record is appended, and nothing else moves. *)
Appends ==
    /\ records' \in Seq(Record)
    /\ Len(records') = Len(records) + 1 /\ Len(records) < MaxRecords
    /\ \A i \in 1..Len(records) : records'[i] = records[i]
    /\ records'[Len(records')].id \in {None, Len(records')}
    /\ records'[Len(records')].status = "pending"
    /\ Grows(records, records')

LEMMA CreateAppends ==
    ASSUME LoopInv, CreateRecord
    PROVE  Appends
<1> DEFINE n == Len(records) + 1
<1>1. PICK record \in Arrivals[n] : records' = Append(records, record)
  BY DEF CreateRecord
<1>2. records \in Seq(Record) /\ Len(records) \in Nat /\ Len(records) < MaxRecords /\ n \in UsageIds
  BY Constants DEF CreateRecord, LoopInv, TypeOK, MemoryTypeOK
<1>3. record \in [usage : Usages, id : {None, n}, status : {"pending"}]
  BY <1>2, ArrivalsAreTyped
<1>4. record \in Record /\ record.id \in {None, n} /\ record.status = "pending"
  BY <1>2, <1>3 DEF Record, BillingStatuses
<1>5. /\ records' \in Seq(Record) /\ Len(records') = n
      /\ \A i \in 1..Len(records) : records'[i] = records[i]
      /\ records'[n] = record
  BY <1>1, <1>2, <1>4
<1> QED
  BY <1>2, <1>4, <1>5 DEF Appends, Grows

LEMMA CreateRecordKeepsLoop ==
    ASSUME LoopInv, CreateRecord
    PROVE  LoopInv'
<1>1. Appends
  BY CreateAppends
<1>2. UNCHANGED <<accounts, next_id, viewVars, running, pc, locals, calls, blurred>>
  BY DEF CreateRecord
<1>3. Len(records) \in Nat
  BY DEF LoopInv, TypeOK, MemoryTypeOK
<1>4. TypeOK'
  BY <1>1, <1>2 DEF Appends, LoopInv, TypeOK, MemoryTypeOK, ViewTypeOK, viewVars, locals
<1>5. LocalsInv'
  BY <1>2 DEF LoopInv, LocalsInv, WorkerInv, HostInv, locals
<1>6. RecordsInv'
  <2>1. Len(records') <= MaxRecords
    BY <1>1, <1>3, Constants DEF Appends
  <2>2. ASSUME NEW i \in 1..Len(records')
        PROVE  /\ records'[i].id \in {None, i}
               /\ records'[i].id = None => records'[i].status = "pending"
    <3>1. CASE i \in 1..Len(records)
      BY <1>1, <3>1 DEF Appends, LoopInv, RecordsInv
    <3>2. CASE i = Len(records')
      BY <1>1, <3>2 DEF Appends
    <3> QED
      BY <1>1, <1>3, <3>1, <3>2 DEF Appends
  <2> QED
    BY <2>1, <2>2 DEF RecordsInv
<1>7. BatchInv'
  <2>1. batch' = batch /\ pc' = pc
    BY <1>2 DEF locals
  <2>2. ASSUME NEW i \in 1..Len(batch)
        PROVE  batch[i] \in 1..Len(records') /\ records'[batch[i]] = records[batch[i]]
    <3>1. batch[i] \in 1..Len(records)
      BY DEF LoopInv, BatchInv
    <3> QED
      BY <1>1, <1>3, <3>1 DEF Appends
  <2>3. pc[Worker] \in {"view", "stats"} => records'[Head(batch)] = records[Head(batch)]
    <3>1. CASE pc[Worker] \in {"view", "stats"}
      <4>1. Head(batch) \in 1..Len(records)
        BY <3>1, HeadIsARecord DEF LoopInv, LocalsInv, WorkerCalls
      <4> QED
        BY <1>1, <4>1 DEF Appends
    <3> QED
      BY <3>1
  <2> QED
    BY <2>1, <2>2, <2>3 DEF LoopInv, BatchInv
<1> QED
  BY <1>4, <1>5, <1>6, <1>7 DEF LoopInv

LEMMA InitHolds ==
    ASSUME Init
    PROVE  LoopInv
<1>1. /\ pc = [t \in Tasks |-> IF t = Worker THEN "new" ELSE "idle"]
      /\ call = [t \in Tasks |-> NoCall]
      /\ rows = [h \in Hosts |-> NoRows]
      /\ snapshot = [h \in Hosts |-> NoSnapshot]
      /\ listing = [h \in Hosts |-> NoListing]
      /\ batch = <<>> /\ fetched = 0 /\ back = NoBack /\ calls = 0 /\ blurred = FALSE
      /\ running = FALSE /\ records = <<>> /\ next_id = 1
  BY DEF Init, MemoryInit
<1>2. /\ pc \in [Tasks -> Labels] /\ pc[Worker] = "new"
      /\ \A h \in Hosts : pc[h] = "idle"
  BY <1>1, Constants DEF Labels
<1>3. call \in [Tasks -> Call] /\ \A t \in Tasks : call[t] = NoCall
  BY <1>1, NothingTyped
<1>4. MemoryTypeOK
  <2>1. \A a \in Account : [row |-> Opening[a] > 0, amount |-> Opening[a], entries |-> <<>>]
                             \in MemoryAccount
    BY Constants, EmptySeq DEF MemoryAccount
  <2>2. accounts \in [Account -> MemoryAccount]
    BY <2>1 DEF Init, MemoryInit
  <2> QED
    BY <1>1, <2>2, EmptySeq DEF MemoryTypeOK
<1>5. ViewTypeOK
  BY DEF Init, ViewInit, ViewTypeOK
<1>6. ReadsTyped
  BY <1>1, NothingTyped DEF ReadsTyped
<1>7. fetched \in 0..BatchSize /\ batch \in Seq(UsageIds)
  BY <1>1, Constants, EmptySeq
<1>8. TypeOK
  BY <1>1, <1>2, <1>3, <1>4, <1>5, <1>6, <1>7, NothingTyped DEF TypeOK, ReadsTyped
<1>9. LocalsInv
  BY <1>1, <1>2, <1>3, NothingTyped, Constants DEF LocalsInv, WorkerInv, HostInv, WorkerCalls,
     Holding
<1>10. RecordsInv /\ BatchInv
  BY <1>1, <1>2, Constants, EmptySeq DEF RecordsInv, BatchInv
<1> QED
  BY <1>8, <1>9, <1>10 DEF LoopInv

LEMMA NextKeepsLoop ==
    ASSUME LoopInv, [Next]_vars
    PROVE  LoopInv'
<1>1. CASE WorkerStep
  BY <1>1, WorkerStepKeepsLoop
<1>2. CASE Stop
  BY <1>2, StopKeepsLoop
<1>3. CASE CreateRecord
  BY <1>3, CreateRecordKeepsLoop
<1>4. ASSUME NEW h \in Hosts, HostStep(h)
      PROVE  LoopInv'
  BY <1>4, HostStepKeeps DEF HostKeeps
<1>5. CASE UNCHANGED vars
  <2>1. UNCHANGED <<memoryVars, viewVars, running, pc, locals, calls, blurred>>
    BY <1>5 DEF vars
  <2>2. TypeOK'
    BY <2>1 DEF LoopInv, TypeOK, MemoryTypeOK, ViewTypeOK, memoryVars, viewVars, locals
  <2>3. LocalsInv'
    BY <2>1 DEF LoopInv, LocalsInv, WorkerInv, HostInv, locals
  <2>4. RecordsInv' /\ BatchInv'
    BY <2>1 DEF LoopInv, RecordsInv, BatchInv, memoryVars, locals
  <2> QED
    BY <2>2, <2>3, <2>4 DEF LoopInv
<1> QED
  BY <1>1, <1>2, <1>3, <1>4, <1>5 DEF Next

LEMMA LoopHolds == Spec => []LoopInv
<1>1. Init => LoopInv
  BY InitHolds
<1>2. LoopInv /\ [Next]_vars => LoopInv'
  BY NextKeepsLoop
<1> QED
  BY <1>1, <1>2, PTL DEF Spec

(* Every variable keeps its type: in particular what the tasks hand to the
   cache is always an account and whole amounts, and the queue's positions
   stay within the list of records. *)
THEOREM BackendIsTyped == Spec => []TypeOK
<1>1. LoopInv => TypeOK
  BY DEF LoopInv
<1> QED
  BY <1>1, LoopHolds, PTL

-----------------------------------------------------------------------------
(* LedgerInv: what the steps post.                                         *)

(* A row that the book can take. *)
Fits(book, a, row) ==
    /\ Follows(book[a].amount, row)
    /\ row.balance_after >= 0
    /\ RowFits(row, records)

LEMMA FittingKeepsLedger ==
    ASSUME NEW book \in Books, BookIsSound(book), RowsOfRecords(book, records), NEW a \in Account,
           NEW row \in Transaction, Fits(book, a, row)
    PROVE  /\ Posted(book, a, row) \in Books
           /\ BookIsSound(Posted(book, a, row))
           /\ RowsOfRecords(Posted(book, a, row), records)
           /\ \A b \in Account :
                 /\ Extends(book[b].entries, Posted(book, a, row)[b].entries)
                 /\ book[b].row => Posted(book, a, row)[b].row
BY PostedIs, PostedIsSound, PostedRowsOfRecords DEF Fits

LEMMA SoundIsCovered ==
    ASSUME NEW book \in Books, BookIsSound(book), NEW a \in Account
    PROVE  book[a].amount \in Int /\ book[a].amount >= 0
BY BookTyped DEF BookIsSound, Sound

(* The record at the head of the batch, if it has an id, is the one with this id. *)
LEMMA CurrentFits ==
    ASSUME LoopInv, pc[Worker] = "record"
    PROVE  /\ Head(batch) \in 1..Len(records) /\ Head(batch) \in UsageIds
           /\ Current = records[Head(batch)] /\ Current.status = "pending"
           /\ Current.id \in {None, Head(batch)}
           /\ Current.id # None =>
                 Current.id \in 1..Len(records) /\ records[Current.id].id = Current.id
<1>1. /\ Head(batch) \in 1..Len(records) /\ Head(batch) \in UsageIds
      /\ Current = records[Head(batch)] /\ Len(batch) \in Nat \ {0} /\ Head(batch) = batch[1]
  BY HeadIsARecord DEF LoopInv, LocalsInv
<1>2. Current.id \in {None, Head(batch)}
  BY <1>1 DEF LoopInv, RecordsInv
<1>3. Current.status = "pending"
  <2>1. 1 \in 1..Len(batch)
    BY <1>1
  <2> QED
    BY <1>1, <2>1 DEF LoopInv, BatchInv
<1> QED
  BY <1>1, <1>2, <1>3

(* The charge of a record. *)
ChargesRow(row) == row.type = "usage" /\ row.source = Current.id /\ row.reference = None

LEMMA ChargeFits ==
    ASSUME LoopInv, LedgerInv, pc[Worker] = "record", NEW rule \in Chosen
    PROVE  \E a \in Account : \E row \in Transaction :
              /\ Deducted(rule) = Posted(accounts, a, row)
              /\ Fits(accounts, a, row) /\ ChargesRow(row)
<1> DEFINE a == <<Data.customer, rule.asset>>
           cost == CalculateCost(rule, Data)
           row == NewRow(next_id, "usage", -cost, accounts[a].amount - cost, Current.id, None)
<1>1. /\ a \in Account /\ cost \in Nat \ {0} /\ accounts[a].amount >= cost
      /\ Deducted(rule) = Posted(accounts, a, row) /\ row \in Transaction
  BY ChosenRule DEF LoopInv, LocalsInv
<1>2. accounts[a].amount \in Int
  BY <1>1, StoreStays, BookTyped
<1> HIDE DEF a, cost
<1>3. Follows(accounts[a].amount, row) /\ row.balance_after >= 0 /\ row.amount < 0
  BY <1>1, <1>2 DEF NewRow, Follows
<1>4. ChargesRow(row)
  BY DEF ChargesRow, NewRow
<1>5. Fits(accounts, a, row)
  BY <1>3, <1>4, CurrentFits DEF Fits, RowFits, ChargesRow
<1> HIDE DEF row
<1> QED
  BY <1>1, <1>4, <1>5

LEMMA ChargeRecordPosts ==
    ASSUME LoopInv, LedgerInv, ChargeRecord
    PROVE  \E a \in Account : \E row \in Transaction :
              /\ accounts' = Posted(accounts, a, row)
              /\ Fits(accounts, a, row) /\ ChargesRow(row)
<1>1. PICK rule \in Chosen : \E book \in {Deducted(rule)} : accounts' = book
  BY DEF ChargeRecord
<1>2. accounts' = Deducted(rule) /\ pc[Worker] = "record"
  BY <1>1 DEF ChargeRecord
<1> QED
  BY <1>2, ChargeFits

(* The refund that follows a charge, of the amount that an earlier charge took. *)
RefundsRow(book, l, row) ==
    /\ row.type = "refund" /\ row.source = Current.id /\ row.reference = None
    /\ row.amount = -LineOf(book, l).amount

LEMMA RefundFits ==
    ASSUME LoopInv, pc[Worker] = "record", NEW rule \in Chosen,
           NEW book \in Books, book = Deducted(rule), BookIsSound(book),
           RowsOfRecords(book, records), NEW l \in Originals(book, rule)
    PROVE  \E row \in Transaction :
              /\ Refunded(book, l[1], next_id + 1, -book[l[1]].entries[l[2]].amount, Current.id) =
                   Posted(book, l[1], row)
              /\ l[1] \in Account
              /\ Fits(book, l[1], row) /\ RefundsRow(book, l, row)
<1> DEFINE amount == -book[l[1]].entries[l[2]].amount
           row == NewRow(next_id + 1, "refund", amount, book[l[1]].amount + amount, Current.id, None)
<1>1. /\ l[1] \in Account /\ amount \in Int /\ row \in Transaction
      /\ Refunded(book, l[1], next_id + 1, amount, Current.id) = Posted(book, l[1], row)
  BY RefundPosts
<1>2. /\ l \in LinesOf(book) /\ LineOf(book, l) = book[l[1]].entries[l[2]]
      /\ LineOf(book, l).type = "usage" /\ LineOf(book, l).amount \in Int
  BY OriginalIsACharge, RowsAreTyped
<1>3. amount > 0 /\ amount = -LineOf(book, l).amount
  BY <1>2 DEF RowsOfRecords
<1>4. book[l[1]].amount \in Int /\ book[l[1]].amount >= 0
  BY <1>1, SoundIsCovered
<1> HIDE DEF amount
<1>5. Follows(book[l[1]].amount, row) /\ row.balance_after >= 0 /\ row.type # "usage"
  BY <1>1, <1>3, <1>4 DEF NewRow, Follows
<1>6. RefundsRow(book, l, row)
  BY <1>3 DEF RefundsRow, NewRow
<1>7. Fits(book, l[1], row)
  BY <1>5, <1>6, CurrentFits DEF Fits, RowFits, RefundsRow
<1> HIDE DEF row
<1> QED
  BY <1>1, <1>6, <1>7 DEF amount

(* A charge, and the refund that it makes of the row at l of the book it leaves. *)
PostsTwice(a, row, rule, l, paid_back) ==
    LET book == Posted(accounts, a, row)
    IN  /\ Fits(accounts, a, row) /\ ChargesRow(row)
        /\ l \in Originals(book, rule) /\ l[1] \in Account
        /\ Fits(book, l[1], paid_back) /\ RefundsRow(book, l, paid_back)
        /\ accounts' = Posted(book, l[1], paid_back)

LEMMA ChargeAndRefundPosts ==
    ASSUME LoopInv, LedgerInv, ChargeAndRefund
    PROVE  \E a \in Account, row, paid_back \in Transaction : \E rule, l :
              PostsTwice(a, row, rule, l, paid_back)
<1>1. PICK rule \in Chosen : \E book \in {Deducted(rule)} : \E l \in Originals(book, rule) :
        accounts' = Refunded(book, l[1], next_id + 1, -book[l[1]].entries[l[2]].amount, Current.id)
  BY DEF ChargeAndRefund
<1>2. PICK book \in {Deducted(rule)} : \E l \in Originals(book, rule) :
        accounts' = Refunded(book, l[1], next_id + 1, -book[l[1]].entries[l[2]].amount, Current.id)
  BY <1>1
<1>3. PICK l \in Originals(book, rule) :
        accounts' = Refunded(book, l[1], next_id + 1, -book[l[1]].entries[l[2]].amount, Current.id)
  BY <1>2
<1>4. pc[Worker] = "record" /\ book = Deducted(rule) /\ accounts \in Books
  BY <1>2, StoreStays DEF ChargeAndRefund
<1>5. PICK a \in Account : \E row \in Transaction :
        /\ Deducted(rule) = Posted(accounts, a, row)
        /\ Fits(accounts, a, row) /\ ChargesRow(row)
  BY <1>4, ChargeFits
<1>6. PICK row \in Transaction :
        /\ Deducted(rule) = Posted(accounts, a, row)
        /\ Fits(accounts, a, row) /\ ChargesRow(row)
  BY <1>5
<1>7. book \in Books /\ BookIsSound(book) /\ RowsOfRecords(book, records)
  BY <1>4, <1>6, FittingKeepsLedger DEF LedgerInv
<1>8. PICK paid_back \in Transaction :
        /\ Refunded(book, l[1], next_id + 1, -book[l[1]].entries[l[2]].amount, Current.id) =
             Posted(book, l[1], paid_back)
        /\ l[1] \in Account
        /\ Fits(book, l[1], paid_back) /\ RefundsRow(book, l, paid_back)
  BY <1>4, <1>7, RefundFits
<1>9. PostsTwice(a, row, rule, l, paid_back)
  BY <1>3, <1>4, <1>6, <1>8 DEF PostsTwice
<1> QED
  BY <1>9

(* Which steps of the loop leave the ledger alone. *)
LEMMA OthersPostNothing ==
    ASSUME WorkerStep \/ Stop \/ CreateRecord \/ UNCHANGED vars, ~ChargeRecord, ~ChargeAndRefund
    PROVE  UNCHANGED accounts
BY DEF WorkerStep, Stop, CreateRecord, StartRun, EndRun, BeginCycle, Wake, SettleUnpaid,
       RetryRecord, RefundView, SyncView, SyncStats, CacheFailure, vars, memoryVars

(* The list of records only grows. *)
LEMMA StepGrows ==
    ASSUME LoopInv, [Next]_vars
    PROVE  Grows(records, records')
<1>1. CASE UNCHANGED records
  BY <1>1, SameRecords DEF LoopInv, OnlyHead
<1>2. CASE CreateRecord
  BY <1>2, CreateAppends DEF Appends
<1>3. ASSUME pc[Worker] \in {"record"} \union WorkerCalls, Current.id # None,
             NEW status \in BillingStatuses, records' = SetStatus(Head(batch), status)
      PROVE  Grows(records, records')
  BY <1>3, HeadStatusSet DEF OnlyHead
<1>4. CASE ChargeRecord \/ RefundView
  <2>1. PICK usage : MarkProcessed(usage)
    BY <1>4 DEF ChargeRecord, RefundView
  <2>2. pc[Worker] \in {"record"} \union WorkerCalls
    BY <1>4 DEF ChargeRecord, RefundView, WorkerCalls
  <2> QED
    BY <1>1, <1>3, <2>1, <2>2 DEF MarkProcessed, BillingStatuses
<1>5. CASE SettleUnpaid
  BY <1>1, <1>3, <1>5 DEF SettleUnpaid, BillingStatuses
<1>6. CASE \E h \in Hosts : HostStep(h)
  BY <1>1, <1>6, HostStepKeeps DEF HostKeeps, HostFrame
<1> QED
  BY <1>1, <1>2, <1>4, <1>5, <1>6 DEF Next, WorkerStep, Stop, StartRun, EndRun, BeginCycle, Wake,
     ChargeAndRefund, RetryRecord, SyncView, SyncStats, CacheFailure, vars, memoryVars

Advances ==
    \A b \in Account :
        /\ Extends(accounts[b].entries, accounts'[b].entries)
        /\ accounts[b].row => accounts'[b].row

LEMMA StepPostsFitting ==
    ASSUME LoopInv, LedgerInv, [Next]_vars
    PROVE  BookIsSound(accounts') /\ RowsOfRecords(accounts', records) /\ Advances
<1>1. accounts \in Books /\ accounts' \in Books
  BY StoreStays, NextKeepsLoop DEF LoopInv, TypeOK, MemoryTypeOK, Books
<1>2. BookIsSound(accounts') /\ RowsOfRecords(accounts', records) /\ Advances
  <2>1. CASE UNCHANGED accounts
    BY <1>1, <2>1, BookTyped, ExtendsItself DEF LedgerInv, Advances
  <2>2. CASE ChargeRecord
    BY <1>1, <2>2, ChargeRecordPosts, FittingKeepsLedger DEF LedgerInv, Advances
  <2>3. CASE ChargeAndRefund
    <3>1. PICK a \in Account, row \in Transaction, paid_back \in Transaction :
            \E rule, l : PostsTwice(a, row, rule, l, paid_back)
      BY <2>3, ChargeAndRefundPosts
    <3>2. PICK rule, l : PostsTwice(a, row, rule, l, paid_back)
      BY <3>1
    <3> DEFINE book == Posted(accounts, a, row)
    <3>4. Fits(book, l[1], paid_back) /\ accounts' = Posted(book, l[1], paid_back)
      BY <3>2 DEF PostsTwice
    <3>5. Fits(accounts, a, row) /\ l[1] \in Account
      BY <3>2 DEF PostsTwice
    <3>6. /\ book \in Books /\ BookIsSound(book) /\ RowsOfRecords(book, records)
          /\ \A b \in Account : /\ Extends(accounts[b].entries, book[b].entries)
                                /\ accounts[b].row => book[b].row
      BY <1>1, <3>5, FittingKeepsLedger DEF LedgerInv
    <3> HIDE DEF book
    <3>7. /\ BookIsSound(accounts') /\ RowsOfRecords(accounts', records)
          /\ \A b \in Account : /\ Extends(book[b].entries, accounts'[b].entries)
                                /\ book[b].row => accounts'[b].row
      BY <3>4, <3>5, <3>6, FittingKeepsLedger
    <3>8. \A b \in Account : /\ accounts[b].entries \in Seq(Transaction)
                             /\ book[b].entries \in Seq(Transaction)
                             /\ accounts'[b].entries \in Seq(Transaction)
      BY <1>1, <3>6, BookTyped
    <3>9. Advances
      BY <3>6, <3>7, <3>8, ExtendsIsTransitive DEF Advances
    <3> QED
      BY <3>7, <3>9
  <2>4. ASSUME NEW h \in Hosts, HostStep(h), ~UNCHANGED accounts
        PROVE  BookIsSound(accounts') /\ RowsOfRecords(accounts', records) /\ Advances
    <3>1. PICK a \in Account : \E row \in Transaction : HostPosts(h, a, row)
      BY <2>4, HostStepKeeps DEF HostKeeps, HostStores
    <3>2. PICK row \in Transaction : HostPosts(h, a, row)
      BY <3>1
    <3>3. Fits(accounts, a, row) /\ accounts' = Posted(accounts, a, row)
      BY <1>1, <3>2, SoundIsCovered DEF HostPosts, Fits, RowFits, LedgerInv
    <3> QED
      BY <1>1, <3>3, FittingKeepsLedger DEF LedgerInv, Advances
  <2> QED
    BY <2>1, <2>2, <2>3, <2>4, OthersPostNothing DEF Next
<1> QED
  BY <1>2

LEMMA StepKeepsLedger ==
    ASSUME LoopInv, LedgerInv, [Next]_vars
    PROVE  LedgerInv' /\ Advances
BY StepPostsFitting, StepGrows, GrowingKeepsRows DEF LedgerInv

(* The book's operators are the ledger's own. *)
LEMMA BookOperators ==
    /\ Book!Account = Account
    /\ \A a, account : Book!Sound(a, account) = Sound(a, account)
    /\ \A old, new : Book!Extends(old, new) = Extends(old, new)
BY DEF Book!Account, Account, Book!Extends, Extends, Book!Sound, Sound, Book!Chained, Chained,
       Book!Closing, Closing, Book!BalanceBefore, BalanceBefore, Book!Follows, Follows

LEMMA LedgerStarts ==
    ASSUME Init
    PROVE  LedgerInv /\ Book!BookInit
<1>1. \A a \in Account : accounts[a].entries = <<>> /\ accounts[a].amount = Opening[a]
  BY DEF Init, MemoryInit
<1>2. BookIsSound(accounts)
  BY <1>1, OpeningIsSound DEF BookIsSound
<1>3. LinesOf(accounts) = {}
  BY <1>1, EmptySeq DEF LinesOf
<1>4. Book!BookInit
  BY <1>1, BookOperators DEF Book!BookInit
<1> QED
  BY <1>2, <1>3, <1>4 DEF LedgerInv, RowsOfRecords

LEMMA LedgerHolds == Spec => [](LoopInv /\ LedgerInv)
<1>1. Init => LoopInv /\ LedgerInv
  BY InitHolds, LedgerStarts
<1>2. LoopInv /\ LedgerInv /\ [Next]_vars => (LoopInv /\ LedgerInv)'
  BY NextKeepsLoop, StepKeepsLedger
<1> QED
  BY <1>1, <1>2, PTL DEF Spec

(* The in-memory repository is a book of accounts: whatever the worker and
   the hosts do between two suspensions extends the ledger, leaves every
   balance explained by its rows, and overdraws no account. *)
THEOREM BackendPostsToBook == Spec => PostsToBook
<1>1. Init => Book!BookInit
  BY LedgerStarts
<1>2. LoopInv /\ LedgerInv /\ [Next]_vars => [Book!Post]_accounts
  BY StepKeepsLedger, BookOperators DEF LedgerInv, Advances, BookIsSound, Book!Post
<1> QED
  BY <1>1, <1>2, LedgerHolds, PTL DEF Spec, PostsToBook, Book!BookSpec

-----------------------------------------------------------------------------
(* RefundsInv.                                                             *)

(* The reference by which a refund finds its charge is the one of its record. *)
LEMMA OriginalBacks ==
    ASSUME LoopInv, pc[Worker] = "record", NEW book \in Books, NEW rule, NEW l \in Originals(book, rule),
           Current.id # None
    PROVE  Backs(records, LineOf(book, l).source, ReferenceOf(records, Current.id))
<1>1. LineOf(book, l).source \in RecordIds(Data.reference, rule.refund)
  BY OriginalIsACharge
<1>2. PICK i \in 1..Len(records) :
        /\ UsageData[records[i].usage].reference = Data.reference
        /\ LineOf(book, l).source = records[i].id
  BY <1>1 DEF RecordIds
<1>3. records[i].id \in {None, i}
  BY DEF LoopInv, RecordsInv
<1>4. ReferenceOf(records, Current.id) = Data.reference
  BY CurrentFits DEF ReferenceOf, Data
<1> QED
  BY <1>2, <1>3, <1>4 DEF Backs, ReferenceOf

LEMMA StepKeepsRefunds ==
    ASSUME LoopInv, LedgerInv, RefundsInv, [Next]_vars
    PROVE  RefundsInv'
<1>1. accounts \in Books /\ RefundsBacked(accounts, records) /\ RowsOfRecords(accounts', records)
  BY StoreStays, StepPostsFitting DEF RefundsInv
<1>2. RefundsBacked(accounts', records)
  <2>1. CASE UNCHANGED accounts
    BY <1>1, <2>1
  <2>2. ASSUME NEW a \in Account, NEW row \in Transaction, accounts' = Posted(accounts, a, row),
               row.type # "refund" \/ row.source = None
        PROVE  RefundsBacked(accounts', records)
    BY <1>1, <2>2, PostedRefunds
  <2>3. CASE ChargeRecord
    BY <2>2, <2>3, ChargeRecordPosts DEF ChargesRow
  <2>4. CASE ChargeAndRefund
    <3>1. PICK a \in Account, row \in Transaction, paid_back \in Transaction :
            \E rule, l : PostsTwice(a, row, rule, l, paid_back)
      BY <2>4, ChargeAndRefundPosts
    <3>2. PICK rule, l : PostsTwice(a, row, rule, l, paid_back)
      BY <3>1
    <3> DEFINE book == Posted(accounts, a, row)
    <3>4. RefundsRow(book, l, paid_back) /\ accounts' = Posted(book, l[1], paid_back)
      BY <3>2 DEF PostsTwice
    <3>5. ChargesRow(row) /\ l \in Originals(book, rule) /\ l[1] \in Account
      BY <3>2 DEF PostsTwice
    <3>6. book \in Books /\ RefundsBacked(book, records)
      BY <1>1, <3>5, PostedIs, PostedRefunds DEF ChargesRow
    <3> HIDE DEF book
    <3>7. /\ l \in LinesOf(book)
          /\ LineOf(book, l).type = "usage" /\ LineOf(book, l).amount \in Int
      BY <3>5, <3>6, OriginalIsACharge, RowsAreTyped
    <3>8. /\ paid_back.source = Current.id
          /\ LineOf(book, l).amount = -paid_back.amount
      BY <3>4, <3>7 DEF RefundsRow
    <3>9. paid_back.source # None =>
            Backs(records, LineOf(book, l).source, ReferenceOf(records, paid_back.source))
      BY <2>4, <3>5, <3>6, <3>8, OriginalBacks DEF ChargeAndRefund
    <3> QED
      BY <3>4, <3>5, <3>6, <3>7, <3>8, <3>9, PostedRefunds
  <2>5. ASSUME NEW h \in Hosts, HostStep(h), ~UNCHANGED accounts
        PROVE  RefundsBacked(accounts', records)
    <3>1. PICK a \in Account : \E row \in Transaction : HostPosts(h, a, row)
      BY <2>5, HostStepKeeps DEF HostKeeps, HostStores
    <3> QED
      BY <2>2, <3>1 DEF HostPosts
  <2> QED
    BY <2>1, <2>3, <2>4, <2>5, OthersPostNothing DEF Next
<1> QED
  BY <1>1, <1>2, StepGrows, GrowingKeepsRefunds DEF RefundsInv

LEMMA LinesAreRows ==
    /\ Lines = LinesOf(accounts)
    /\ \A l : Line(l) = LineOf(accounts, l)
BY DEF Lines, LinesOf, Line, LineOf

(* A refund record gives back what an earlier charge on its account took,
   and that charge was made for a record with the same reference, whatever
   the hosts charge and refund meanwhile; the exception is a record without
   an id, whose charges cannot be told from direct ones. *)
THEOREM BackendBacksRefunds == Spec => []RefundsGiveBackACharge
<1>1. Init => RefundsInv
  BY LedgerStarts, EmptySeq DEF Init, MemoryInit, RefundsInv, RefundsBacked, LinesOf
<1>2. LoopInv /\ LedgerInv /\ RefundsInv /\ [Next]_vars => RefundsInv'
  BY StepKeepsRefunds
<1>3. RefundsInv => RefundsGiveBackACharge
  <2> SUFFICES ASSUME RefundsInv, NEW l \in Lines, Line(l).type = "refund", Line(l).source # None
               PROVE  \E m \in LinesOf(accounts) : GivesBack(accounts, records, l, m)
    BY LinesAreRows DEF RefundsGiveBackACharge, GivesBack, Backs, ReferenceOf
  <2> QED
    BY LinesAreRows DEF RefundsInv, RefundsBacked
<1> QED
  BY <1>1, <1>2, <1>3, LedgerHolds, PTL DEF Spec

-----------------------------------------------------------------------------
(* PaymentsInv.                                                            *)

(* A row for no payment, or for another one, grants nothing of this one. *)
LEMMA OtherRowGrantsNothing ==
    ASSUME NEW book \in Books, NEW a \in Account, NEW row \in Transaction, NEW reference,
           row.reference # reference
    PROVE  GrantsOf(Posted(book, a, row), reference) = GrantsOf(book, reference)
<1> DEFINE l == <<a, Len(book[a].entries) + 1>>
<1>1. /\ l \notin GrantsOf(book, reference)
      /\ GrantsOf(Posted(book, a, row), reference) =
           IF row.reference = reference THEN GrantsOf(book, reference) \union {l}
           ELSE GrantsOf(book, reference)
  BY PostedGrants
<1> HIDE DEF l
<1> QED
  BY <1>1

(* The worker's rows name no payment. *)
LEMMA WorkerGrantsNothing ==
    ASSUME LoopInv, LedgerInv, ChargeRecord \/ ChargeAndRefund, NEW reference \in References
    PROVE  GrantsOf(accounts', reference) = GrantsOf(accounts, reference)
<1>1. accounts \in Books /\ reference # None
  BY StoreStays, Constants
<1>2. CASE ChargeRecord
  BY <1>1, <1>2, ChargeRecordPosts, OtherRowGrantsNothing DEF ChargesRow
<1>3. CASE ChargeAndRefund
  <2>1. PICK a \in Account, row \in Transaction, paid_back \in Transaction :
          \E rule, l : PostsTwice(a, row, rule, l, paid_back)
    BY <1>3, ChargeAndRefundPosts
  <2>2. PICK rule, l : PostsTwice(a, row, rule, l, paid_back)
    BY <2>1
  <2> DEFINE book == Posted(accounts, a, row)
  <2>3. ChargesRow(row) /\ l[1] \in Account
    BY <2>2 DEF PostsTwice
  <2>4. RefundsRow(book, l, paid_back) /\ accounts' = Posted(book, l[1], paid_back)
    BY <2>2 DEF PostsTwice
  <2>5. book \in Books /\ GrantsOf(book, reference) = GrantsOf(accounts, reference)
    <3>1. row.reference # reference
      BY <1>1, <2>3 DEF ChargesRow
    <3>2. book \in Books
      BY <1>1, PostedIs
    <3> QED
      BY <1>1, <3>1, <3>2, OtherRowGrantsNothing
  <2> HIDE DEF book
  <2>6. GrantsOf(accounts', reference) = GrantsOf(book, reference)
    BY <1>1, <2>3, <2>4, <2>5, OtherRowGrantsNothing DEF RefundsRow
  <2> QED
    BY <2>5, <2>6
<1> QED
  BY <1>2, <1>3

(* The deliveries that are under way do not change. *)
LEMMA PaymentsStay ==
    ASSUME PaymentsInv, \A h \in Hosts : call'[h] = call[h],
           \A reference \in References : GrantsOf(accounts', reference) = GrantsOf(accounts, reference)
    PROVE  PaymentsInv'
BY DEF PaymentsInv, PaymentInv, Granting

LEMMA HostStepKeepsPayments ==
    ASSUME LoopInv, PaymentsInv, NEW h \in Hosts, HostStep(h)
    PROVE  PaymentsInv'
<1>1. HostFrame(h) /\ HostStores(h) /\ LoopInv' /\ accounts \in Books
  BY HostStepKeeps, StoreStays DEF HostKeeps
<1>2. \A g \in Hosts \ {h} : call'[g] = call[g]
  BY <1>1 DEF HostFrame
<1>3. call[h].op = "fund" => call[h].reference \in References
  BY DEF LoopInv, LocalsInv, HostInv
<1>4. CASE UNCHANGED accounts /\ call'[h].op # "fund"
  BY <1>2, <1>4 DEF PaymentsInv, PaymentInv, Granting
<1>5. ASSUME NEW a \in Account, NEW row \in Transaction, HostPosts(h, a, row)
      PROVE  PaymentsInv'
  <2>1. accounts' = Posted(accounts, a, row)
    BY <1>5 DEF HostPosts
  <2>2. CASE call'[h].op # "fund"
    <3>1. row.reference = None
      BY <1>5, <2>2 DEF HostPosts
    <3>2. \A reference \in References :
             GrantsOf(accounts', reference) = GrantsOf(accounts, reference)
      BY <1>1, <2>1, <3>1, OtherRowGrantsNothing, Constants
    <3> QED
      BY <1>2, <2>2, <3>2 DEF PaymentsInv, PaymentInv, Granting
  <2>3. CASE call'[h].op = "fund"
    <3>1. row.reference = call'[h].reference /\ Delivers(h)
      BY <1>5, <2>3 DEF HostPosts
    <3>2. call'[h].reference \in References /\ call'[h].todo \in Seq(Product) /\ call[h].todo \in Seq(Product)
      BY <1>1, <2>3, Constants DEF LoopInv, LocalsInv, HostInv, TypeOK, Call
    <3> SUFFICES ASSUME NEW reference \in References
                 PROVE  PaymentInv(reference)'
      BY DEF PaymentsInv
    <3>3. CASE reference # call'[h].reference
      <4>1. GrantsOf(accounts', reference) = GrantsOf(accounts, reference)
        BY <1>1, <2>1, <3>1, <3>3, OtherRowGrantsNothing
      <4>2. \A g \in Hosts : Granting(g, reference)' => Granting(g, reference) /\ call'[g] = call[g]
        BY <1>2, <2>3, <3>3 DEF Granting
      <4> QED
        BY <4>1, <4>2 DEF PaymentsInv, PaymentInv
    <3>4. CASE reference = call'[h].reference
      <4> DEFINE granted == GrantsOf(accounts, reference)
                 after == GrantsOf(accounts', reference)
                 total == Len(PaymentProducts[reference])
      <4>1. /\ IsFiniteSet(granted)
            /\ \A g \in Hosts : Granting(g, reference) =>
                  granted # {} /\ Cardinality(granted) + Len(call[g].todo) = total
            /\ \A g, i \in Hosts : Granting(g, reference) /\ Granting(i, reference) => g = i
        BY DEF PaymentsInv, PaymentInv
      <4>2. total \in Nat /\ Len(call'[h].todo) \in Nat /\ Len(call[h].todo) \in Nat
        BY <3>2, PaymentsAreTyped
      <4>3. /\ IsFiniteSet(after) /\ after # {}
            /\ Cardinality(after) = Cardinality(granted) + 1
            /\ Cardinality(granted) \in Nat
        BY <1>1, <2>1, <3>1, <3>4, <4>1, GrantCounted
      <4>4. /\ Cardinality(after) + Len(call'[h].todo) = total
            /\ \A g \in Hosts \ {h} : ~Granting(g, reference)
        <5>1. CASE call[h].op = "fund"
          <6>1. Granting(h, reference) /\ Len(call[h].todo) = Len(call'[h].todo) + 1
            BY <3>1, <3>4, <5>1 DEF Delivers, Granting
          <6>2. Cardinality(granted) + Len(call[h].todo) = total
            BY <4>1, <6>1
          <6>3. \A g \in Hosts \ {h} : ~Granting(g, reference)
            BY <4>1, <6>1
          <6> HIDE DEF granted, after, total
          <6>4. PICK k, m, n \in Nat :
                   /\ k = Cardinality(granted) /\ m = Len(call[h].todo) /\ n = Len(call'[h].todo)
            BY <4>2, <4>3
          <6>5. Cardinality(after) = k + 1 /\ m = n + 1 /\ k + m = total
            BY <4>3, <6>1, <6>2, <6>4
          <6>6. Cardinality(after) + n = total
            BY <6>4, <6>5, SMTT(30)
          <6> QED
            BY <6>3, <6>4, <6>6
        <5>2. CASE call[h].op # "fund"
          <6>1. granted = {} /\ total = Len(call'[h].todo) + 1
            BY <3>1, <3>4, <5>2 DEF Delivers
          <6>2. Cardinality(granted) = 0
            BY <6>1, FS_EmptySet
          <6>3. \A g \in Hosts : ~Granting(g, reference)
            BY <4>1, <6>1
          <6> HIDE DEF granted, after, total
          <6>4. Cardinality(after) + Len(call'[h].todo) = total
            BY <4>2, <4>3, <6>1, <6>2
          <6> QED
            BY <6>3, <6>4
        <5> QED
          BY <5>1, <5>2
      <4>5. \A g \in Hosts \ {h} : ~Granting(g, reference)'
        BY <1>2, <4>4 DEF Granting
      <4>6. Cardinality(after) <= total
        <5> HIDE DEF granted, after, total
        <5> QED
          BY <4>2, <4>3, <4>4
      <4> QED
        BY <4>3, <4>4, <4>5, <4>6 DEF PaymentInv
    <3> QED
      BY <3>3, <3>4
  <2> QED
    BY <2>2, <2>3
<1> QED
  BY <1>1, <1>4, <1>5 DEF HostStores

(* What the hosts are doing does not change. *)
HostsWait ==
    \A h \in Hosts : /\ pc'[h] = pc[h] /\ call'[h] = call[h] /\ listing'[h] = listing[h]
                     /\ rows'[h] = rows[h] /\ snapshot'[h] = snapshot[h]

(* The worker's own steps, and those that nobody takes part in, leave what
   the hosts are doing alone. *)
LEMMA OthersLeaveHosts ==
    ASSUME LoopInv, WorkerStep \/ Stop \/ CreateRecord \/ UNCHANGED vars
    PROVE  HostsWait
<1> USE DEF HostsWait
<1>1. CASE NextRecord
  BY <1>1, Constants DEF NextRecord, GoTo, LoopInv, TypeOK
<1>2. ASSUME NEW usage, MarkProcessed(usage)
      PROVE  HostsWait
  BY <1>1, <1>2, Constants DEF MarkProcessed, GoTo, LoopInv, TypeOK
<1>3. CASE StartRun \/ EndRun \/ BeginCycle \/ Wake \/ SyncView
  BY <1>3, Constants DEF StartRun, EndRun, BeginCycle, Wake, SyncView, GoTo, locals, LoopInv,
         TypeOK
<1>4. CASE ChargeAndRefund
  BY <1>4, Constants DEF ChargeAndRefund, GoTo, LoopInv, TypeOK
<1>5. CASE Stop \/ CreateRecord \/ UNCHANGED vars
  BY <1>5 DEF Stop, CreateRecord, vars, locals
<1>6. CASE SettleUnpaid \/ RetryRecord \/ SyncStats \/ CacheFailure
  BY <1>1, <1>6 DEF SettleUnpaid, RetryRecord, SyncStats, CacheFailure
<1>7. CASE ChargeRecord \/ RefundView
  BY <1>2, <1>7 DEF ChargeRecord, RefundView
<1> QED
  BY <1>3, <1>4, <1>5, <1>6, <1>7 DEF WorkerStep

LEMMA StepKeepsPayments ==
    ASSUME LoopInv, LedgerInv, PaymentsInv, [Next]_vars
    PROVE  PaymentsInv'
<1>1. ASSUME NEW h \in Hosts, HostStep(h)
      PROVE  PaymentsInv'
  BY <1>1, HostStepKeepsPayments
<1>2. CASE WorkerStep \/ Stop \/ CreateRecord \/ UNCHANGED vars
  <2>1. \A reference \in References : GrantsOf(accounts', reference) = GrantsOf(accounts, reference)
    BY <1>2, WorkerGrantsNothing, OthersPostNothing
  <2> QED
    BY <1>2, <2>1, OthersLeaveHosts, PaymentsStay DEF HostsWait
<1> QED
  BY <1>1, <1>2 DEF Next

LEMMA PaymentsStart ==
    ASSUME Init
    PROVE  PaymentsInv
<1>1. \A h \in Hosts : call[h].op # "fund"
  BY NothingTyped, Constants DEF Init
<1>2. \A reference : GrantsOf(accounts, reference) = {}
  BY EmptySeq DEF Init, MemoryInit, GrantsOf, LinesOf
<1>3. \A reference \in References : 0 <= Len(PaymentProducts[reference])
  BY PaymentsAreTyped
<1>4. IsFiniteSet({}) /\ Cardinality({}) = 0
  BY FS_EmptySet
<1> SUFFICES ASSUME NEW reference \in References
             PROVE  PaymentInv(reference)
  BY DEF PaymentsInv
<1>5. \A h \in Hosts : ~Granting(h, reference)
  BY <1>1 DEF Granting
<1> QED
  BY <1>2, <1>3, <1>4, <1>5, Zenon DEF PaymentInv

(* However many deliveries of a payment arrive at once, each of its products
   is granted at most once, and a delivery that is under way is the only one
   and has granted exactly the products that it has not still to grant. *)
THEOREM BackendFundsOnce == Spec => []FundedOnce
<1>1. Init => PaymentsInv
  BY PaymentsStart
<1>2. LoopInv /\ LedgerInv /\ PaymentsInv /\ [Next]_vars => PaymentsInv'
  BY StepKeepsPayments
<1>3. PaymentsInv => FundedOnce
  <2> SUFFICES ASSUME PaymentsInv, NEW reference \in References
               PROVE  LET granted == {l \in Lines : Line(l).reference = reference}
                          granting == {h \in Hosts : call[h].op = "fund"
                                                       /\ call[h].reference = reference}
                          products == PaymentProducts[reference]
                      IN  /\ Cardinality(granted) <= Len(products)
                          /\ \A h \in granting :
                                /\ granting = {h}
                                /\ Cardinality(granted) + Len(call[h].todo) = Len(products)
    BY DEF FundedOnce
  <2>1. {l \in Lines : Line(l).reference = reference} = GrantsOf(accounts, reference)
    BY LinesAreRows DEF GrantsOf
  <2>2. PaymentInv(reference)
    BY DEF PaymentsInv
  <2> QED
    BY <2>1, <2>2 DEF PaymentInv, Granting
<1> QED
  BY <1>1, <1>2, <1>3, LedgerHolds, PTL DEF Spec

-----------------------------------------------------------------------------
(* ListingInv.                                                             *)

LEMMA RecordsAreDated ==
    ASSUME LoopInv, NEW i \in 1..Len(records)
    PROVE  CreatedAt(i) \in Nat
<1>1. records[i] \in Record
  BY DEF LoopInv, TypeOK, MemoryTypeOK
<1>2. UsageData[records[i].usage].created_at \in Nat \union {None}
  BY <1>1, UsagesAreRated DEF Record
<1> QED
  BY <1>2 DEF CreatedAt, OrZero

LEMMA PlacesAreFinite ==
    ASSUME NEW n \in Nat, NEW S \in SUBSET (1..n)
    PROVE  IsFiniteSet(S) /\ Cardinality(S) \in Nat
<1>1. IsFiniteSet(1..n)
  BY FS_Interval
<1> QED
  BY <1>1, FS_Subset, FS_CardinalityType

LEMMA FilteredIsFinite ==
    ASSUME LoopInv, NEW query
    PROVE  /\ IsFiniteSet(Filtered(query)) /\ Filtered(query) \subseteq 1..Len(records)
           /\ \A i : /\ IsFiniteSet({j \in Filtered(query) : Newer(j, i)})
                     /\ Offset(query, i) \in Nat
<1>1. Len(records) \in Nat
  BY DEF LoopInv, TypeOK, MemoryTypeOK
<1>2. Filtered(query) \in SUBSET (1..Len(records))
  BY DEF Filtered
<1>3. ASSUME NEW i
      PROVE  /\ IsFiniteSet({j \in Filtered(query) : Newer(j, i)})
             /\ Offset(query, i) \in Nat
  <2>1. {j \in Filtered(query) : Newer(j, i)} \in SUBSET (1..Len(records))
    BY <1>2
  <2> QED
    BY <1>1, <2>1, PlacesAreFinite DEF Offset
<1> QED
  BY <1>1, <1>2, <1>3, PlacesAreFinite

(* Records that are appended move no record that matches to an earlier page. *)
LEMMA GrowingMovesDown ==
    ASSUME LoopInv, LoopInv', Grows(records, records'), NEW query
    PROVE  /\ Filtered(query) \subseteq Filtered(query)'
           /\ \A i \in Filtered(query) :
                 Offset(query, i) <= Offset(query, i)' /\ Offset(query, i)' \in Nat
<1>1. \A i \in 1..Len(records) :
         i \in 1..Len(records') /\ records'[i].usage = records[i].usage /\ CreatedAt(i)' = CreatedAt(i)
  BY DEF Grows, CreatedAt
<1>2. Filtered(query) \subseteq Filtered(query)'
  BY <1>1 DEF Filtered
<1>3. ASSUME NEW i \in Filtered(query)
      PROVE  Offset(query, i) <= Offset(query, i)' /\ Offset(query, i)' \in Nat
  <2> DEFINE before == {j \in Filtered(query) : Newer(j, i)}
             after == {j \in Filtered(query)' : Newer(j, i)'}
  <2>1. i \in 1..Len(records) /\ \A j \in Filtered(query) : j \in 1..Len(records)
    BY DEF Filtered
  <2>2. \A j \in Filtered(query) : Newer(j, i) => Newer(j, i)'
    BY <1>1, <2>1 DEF Newer
  <2>3. before \in SUBSET after
    BY <1>2, <2>2
  <2>4. IsFiniteSet(after) /\ Cardinality(after) \in Nat
    <3>1. Len(records') \in Nat
      BY DEF LoopInv, TypeOK, MemoryTypeOK
    <3>2. after \in SUBSET (1..Len(records'))
      BY DEF Filtered
    <3> QED
      BY <3>1, <3>2, PlacesAreFinite
  <2>5. Cardinality(before) <= Cardinality(after)
    BY <2>3, <2>4, FS_Subset
  <2> QED
    BY <2>4, <2>5 DEF Offset
<1> QED
  BY <1>2, <1>3

(* A record that matches has its place before the number of those that match. *)
LEMMA OffsetBelowTotal ==
    ASSUME LoopInv, NEW query, NEW i \in Filtered(query)
    PROVE  Offset(query, i) < Cardinality(Filtered(query))
<1> DEFINE newer == {j \in Filtered(query) : Newer(j, i)}
<1>1. CreatedAt(i) \in Nat /\ i \in Nat
  BY FilteredIsFinite, RecordsAreDated
<1>2. ~Newer(i, i)
  BY <1>1 DEF Newer
<1>3. newer \in SUBSET Filtered(query) /\ newer # Filtered(query)
  BY <1>2
<1>4. IsFiniteSet(Filtered(query)) /\ IsFiniteSet(newer)
  BY FilteredIsFinite
<1>5. Cardinality(newer) <= Cardinality(Filtered(query))
        /\ Cardinality(newer) # Cardinality(Filtered(query))
  BY <1>3, <1>4, FS_Subset
<1>6. Cardinality(newer) \in Nat /\ Cardinality(Filtered(query)) \in Nat
  BY <1>4, FS_CardinalityType
<1>7. Offset(query, i) = Cardinality(newer)
  BY DEF Offset
<1> HIDE DEF newer
<1> QED
  BY <1>5, <1>6, <1>7

(* What one host's listing must show, and has shown. *)
ListedInv(h) ==
    LET query == listing[h].query
    IN  /\ listing[h].due \subseteq Filtered(query)
        /\ \A i \in listing[h].due :
              Offset(query, i) < listing[h].offset => i \in listing[h].seen

LEMMA ListedStays ==
    ASSUME LoopInv, LoopInv', Grows(records, records'), NEW h \in Hosts, ListedInv(h),
           listing'[h] = listing[h]
    PROVE  ListedInv(h)'
<1> DEFINE query == listing[h].query
           due == listing[h].due
           offset == listing[h].offset
           seen == listing[h].seen
<1>1. /\ listing'[h].query = query /\ listing'[h].due = due
      /\ listing'[h].offset = offset /\ listing'[h].seen = seen /\ offset \in Nat
  BY DEF LoopInv, TypeOK
<1>2. /\ due \subseteq Filtered(query)
      /\ \A i \in due : Offset(query, i) < offset => i \in seen
  BY DEF ListedInv
<1>3. PICK q : q = query
  OBVIOUS
<1>4. /\ Filtered(q) \subseteq Filtered(q)'
      /\ \A i \in Filtered(q) : Offset(q, i) <= Offset(q, i)' /\ Offset(q, i)' \in Nat
      /\ \A i : Offset(q, i) \in Nat
  BY GrowingMovesDown, FilteredIsFinite
<1> HIDE DEF query, due, offset, seen
<1>5. /\ due \subseteq Filtered(q)'
      /\ \A i \in due : Offset(q, i)' < offset => i \in seen
  BY <1>1, <1>2, <1>3, <1>4
<1> QED
  BY <1>1, <1>3, <1>5 DEF ListedInv

(* The pages read so far are all the places before the offset. *)
LEMMA ReadPageKeepsListed ==
    ASSUME LoopInv, NEW h \in Hosts, ReadPage(h), ListedInv(h), pc'[h] = "paging"
    PROVE  ListedInv(h)'
<1> DEFINE next == listing[h].offset + listing[h].query.limit
<1>1. /\ listing' = [listing EXCEPT ![h].offset = next, ![h].seen = Seen(h)]
      /\ UNCHANGED records /\ pc[h] = "paging"
  BY Constants DEF ReadPage, Return, GoTo, LoopInv, TypeOK, memoryVars
<1>2. listing[h].offset \in Nat /\ listing[h].query.limit \in Nat \ {0} /\ next \in Nat
  BY <1>1, QueriesAreTyped DEF LoopInv, LocalsInv, HostInv, TypeOK
<1>3. listing'[h] = [query |-> listing[h].query, offset |-> next, seen |-> Seen(h),
                     due |-> listing[h].due]
  <2> HIDE DEF next
  <2> QED
    BY <1>1, <1>2, PageRead
<1>4. PICK q : q = listing[h].query
  OBVIOUS
<1>5. Filtered(q)' = Filtered(q) /\ \A i : Offset(q, i)' = Offset(q, i)
  BY <1>1 DEF Filtered, Offset, Newer, CreatedAt
<1>6. ASSUME NEW i \in listing[h].due, Offset(q, i) < next
      PROVE  i \in Seen(h)
  <2>1. i \in Filtered(q) /\ Offset(q, i) \in Nat
    BY <1>4, FilteredIsFinite DEF ListedInv
  <2>2. CASE Offset(q, i) < listing[h].offset
    BY <1>4, <2>2 DEF ListedInv, Seen
  <2>3. CASE Offset(q, i) \in listing[h].offset..(listing[h].offset + listing[h].query.limit - 1)
    BY <1>4, <2>1, <2>3 DEF Seen, Answer, GetUsageRecords
  <2> QED
    BY <1>2, <1>6, <2>1, <2>2, <2>3
<1>7. listing[h].due \subseteq Filtered(q)
  BY <1>4 DEF ListedInv
<1>8. /\ listing'[h].due = listing[h].due /\ listing'[h].query = q
      /\ listing'[h].seen = Seen(h) /\ listing'[h].offset = next
  BY <1>3, <1>4
<1> HIDE DEF next
<1> QED
  BY <1>5, <1>6, <1>7, <1>8 DEF ListedInv

LEMMA HostStepKeepsListed ==
    ASSUME LoopInv, NEW h \in Hosts, HostStep(h), pc'[h] = "paging",
           pc[h] = "paging" => ListedInv(h)
    PROVE  ListedInv(h)'
<1>1. CASE ReadPage(h)
  BY <1>1, ReadPageKeepsListed DEF ReadPage
<1>2. CASE BeginListing(h)
  <2>1. PICK query \in Queries :
          listing' = [listing EXCEPT ![h] = [query |-> query, offset |-> 0, seen |-> {},
                                             due |-> Filtered(query)]]
    BY <1>2 DEF BeginListing
  <2>2. listing'[h] = [query |-> query, offset |-> 0, seen |-> {}, due |-> Filtered(query)]
          /\ UNCHANGED records
    BY <1>2, <2>1 DEF BeginListing, Begin, LoopInv, TypeOK
  <2>3. /\ Filtered(query)' = Filtered(query)
        /\ \A i : Offset(query, i)' = Offset(query, i) /\ Offset(query, i) \in Nat
    BY <2>2, FilteredIsFinite DEF Filtered, Offset, Newer, CreatedAt
  <2>4. /\ listing'[h].query = query /\ listing'[h].offset = 0
        /\ listing'[h].due = Filtered(query)
    BY <2>2
  <2> QED
    BY <2>3, <2>4 DEF ListedInv
<1>3. CASE ~ReadPage(h) /\ ~BeginListing(h)
  <2>1. \E label \in Labels \ {"paging"} : GoTo(h, label)
    BY <1>3 DEF HostStep, BeginCharge, BeginRefund, BeginFund, UpdateView, AfterView, Grant, Moved,
       Return, CountSpend, HostCacheFailure, BeginRefresh, WriteRows, BeginSnapshot, GetBalances,
       GetStats, Labels, InCacheCall
  <2> QED
    BY <2>1, LabelTyped
<1> QED
  BY <1>1, <1>2, <1>3

LEMMA StepKeepsListings ==
    ASSUME LoopInv, ListingInv, [Next]_vars
    PROVE  ListingInv'
<1>1. LoopInv' /\ Grows(records, records')
  BY NextKeepsLoop, StepGrows
<1>2. ASSUME NEW h \in Hosts, pc'[h] = "paging"
      PROVE  ListedInv(h)'
  <2>1. CASE pc[h] = "paging" /\ listing'[h] = listing[h]
    BY <1>1, <2>1, ListedStays DEF ListingInv, ListedInv
  <2>2. CASE HostStep(h)
    BY <1>2, <2>2, HostStepKeepsListed DEF ListingInv, ListedInv
  <2>3. ASSUME NEW g \in Hosts \ {h}, HostStep(g)
        PROVE  ListedInv(h)'
    BY <1>2, <2>1, <2>3, HostStepKeeps DEF HostKeeps, HostFrame
  <2>4. CASE WorkerStep \/ Stop \/ CreateRecord \/ UNCHANGED vars
    BY <1>2, <2>1, <2>4, OthersLeaveHosts DEF HostsWait
  <2> QED
    BY <2>2, <2>3, <2>4 DEF Next
<1> QED
  BY <1>2 DEF ListingInv, ListedInv

LEMMA ListingEnds ==
    ASSUME LoopInv, ListingInv, [Next]_vars, NEW h \in Hosts, pc[h] = "paging", pc'[h] = "idle"
    PROVE  listing[h].due \subseteq Seen(h)
<1>1. HostStep(h)
  <2>1. ASSUME NEW g \in Hosts \ {h}, HostStep(g)
        PROVE  FALSE
    BY <2>1, HostStepKeeps DEF HostKeeps, HostFrame
  <2>2. CASE WorkerStep \/ Stop \/ CreateRecord \/ UNCHANGED vars
    BY <2>2, OthersLeaveHosts DEF HostsWait
  <2> QED
    BY <2>1, <2>2 DEF Next
<1>2. ReadPage(h)
  BY <1>1, OnlyCacheCallsFail DEF HostStep, BeginCharge, BeginRefund, BeginFund, UpdateView,
     CountSpend, HostCacheFailure, BeginRefresh, WriteRows, BeginSnapshot, GetBalances,
     GetStats, BeginListing, Begin
<1> DEFINE next == listing[h].offset + listing[h].query.limit
<1>3. next >= Answer(h).total
  <2>1. CASE Return(h)
    <3>1. next >= Answer(h).total \/ next < Answer(h).total
      BY <1>2 DEF ReadPage
    <3>2. ASSUME next < Answer(h).total, UNCHANGED pc
          PROVE  FALSE
      BY <3>2
    <3> QED
      BY <1>2, <3>2 DEF ReadPage
  <2> QED
    BY <1>2, <2>1 DEF ReadPage
<1>4. PICK q : q = listing[h].query
  OBVIOUS
<1>5. /\ Answer(h).total = Cardinality(Filtered(q))
      /\ Answer(h).page = {i \in Filtered(q) :
            Offset(q, i) \in listing[h].offset..(listing[h].offset + q.limit - 1)}
  BY <1>4 DEF Answer, GetUsageRecords
<1>6. q.limit \in Nat \ {0} /\ listing[h].offset \in Nat
  BY <1>4, QueriesAreTyped DEF LoopInv, LocalsInv, HostInv, TypeOK
<1>7. /\ listing[h].due \subseteq Filtered(q)
      /\ \A i \in listing[h].due : Offset(q, i) < listing[h].offset => i \in listing[h].seen
  BY <1>4 DEF ListingInv
<1> SUFFICES ASSUME NEW i \in listing[h].due
             PROVE  i \in Seen(h)
  OBVIOUS
<1>8. i \in Filtered(q)
  BY <1>7
<1>9. Offset(q, i) \in Nat /\ Offset(q, i) < Cardinality(Filtered(q))
        /\ Cardinality(Filtered(q)) \in Nat
  BY <1>8, FilteredIsFinite, OffsetBelowTotal, FS_CardinalityType
<1>10. CASE Offset(q, i) < listing[h].offset
  BY <1>7, <1>10 DEF Seen
<1>11. CASE Offset(q, i) \in listing[h].offset..(listing[h].offset + q.limit - 1)
  BY <1>5, <1>8, <1>11 DEF Seen
<1>12. next = listing[h].offset + q.limit
  BY <1>4
<1> HIDE DEF next
<1> QED
  BY <1>3, <1>5, <1>6, <1>9, <1>10, <1>11, <1>12

(* A host that asks for the pages of a query until the total is reached has
   then been shown every record that matched when it began, although records
   are appended and billed between its pages. *)
THEOREM BackendPagesMissNothing == Spec => PagingMissesNothing
<1>1. Init => ListingInv
  BY Constants DEF Init, ListingInv
<1>2. LoopInv /\ ListingInv /\ [Next]_vars => ListingInv'
  BY StepKeepsListings
<1>3. LoopInv /\ ListingInv /\ [Next]_vars =>
        [\A h \in Hosts :
            pc[h] = "paging" /\ pc'[h] = "idle" => listing[h].due \subseteq Seen(h)]_vars
  BY ListingEnds
<1> QED
  BY <1>1, <1>2, <1>3, LoopHolds, PTL DEF Spec, PagingMissesNothing

-----------------------------------------------------------------------------
(* ChargesInv.                                                             *)

LEMMA ChargesStay ==
    ASSUME ChargesInv, \A i \in UsageIds : Settled(i)' <=> Settled(i),
           \A i \in UsageIds : ChargesOf(accounts', i) = ChargesOf(accounts, i)
    PROVE  ChargesInv'
BY DEF ChargesInv

(* A row that charges no record. *)
LEMMA OtherRowChargesNothing ==
    ASSUME NEW book \in Books, NEW a \in Account, NEW row \in Transaction, NEW i,
           row.source # i \/ row.type # "usage"
    PROVE  ChargesOf(Posted(book, a, row), i) = ChargesOf(book, i)
<1> DEFINE l == <<a, Len(book[a].entries) + 1>>
<1>1. ChargesOf(Posted(book, a, row), i) =
        IF row.source = i /\ row.type = "usage" THEN ChargesOf(book, i) \union {l}
        ELSE ChargesOf(book, i)
  BY PostedCharges
<1> HIDE DEF l
<1> QED
  BY <1>1

(* The charge of a record that nothing has charged. *)
LEMMA FirstCharge ==
    ASSUME NEW book \in Books, NEW a \in Account, NEW row \in Transaction, NEW i,
           row.source = i, row.type = "usage", ChargesOf(book, i) = {}
    PROVE  ChargesOf(Posted(book, a, row), i) = {<<a, Len(book[a].entries) + 1>>}
<1> DEFINE l == <<a, Len(book[a].entries) + 1>>
<1>1. ChargesOf(Posted(book, a, row), i) =
        IF row.source = i /\ row.type = "usage" THEN ChargesOf(book, i) \union {l}
        ELSE ChargesOf(book, i)
  BY PostedCharges
<1> QED
  BY <1>1

(* When the worker leaves a record that is not about to be marked, whatever
   status it may write, the record is settled after as before. *)
LEMMA LeavingSettles ==
    ASSUME LoopInv, pc[Worker] \in {"record", "view", "stats"}, pc'[Worker] # "refund_view",
           OnlyHead,
           records'[Head(batch)].status = "processed" <=>
              records[Head(batch)].status = "processed"
    PROVE  \A i \in UsageIds : Settled(i)' <=> Settled(i)
<1>1. /\ Len(records) \in Nat /\ Len(records') = Len(records)
      /\ \A i \in 1..Len(records) : records'[i].id = records[i].id
      /\ \A i \in 1..Len(records) : i # Head(batch) => records'[i] = records[i]
  BY DEF OnlyHead, Grows
<1>2. \A i \in UsageIds : i \in Nat /\ i >= 1
  BY Constants
<1>3. \A i : ~IsRefunding(i) /\ ~IsRefunding(i)'
  BY DEF IsRefunding
<1> SUFFICES ASSUME NEW i \in UsageIds, i <= Len(records)
             PROVE  Settled(i)' <=> Settled(i)
  BY <1>1 DEF Settled
<1>4. i \in 1..Len(records)
  BY <1>1, <1>2
<1>5. records'[i].id = records[i].id
        /\ (records'[i].status = "processed" <=> records[i].status = "processed")
  BY <1>1, <1>4
<1> QED
  BY <1>1, <1>3, <1>4, <1>5 DEF Settled

LEMMA LeavingLabel ==
    ASSUME LoopInv, NextRecord
    PROVE  pc'[Worker] \in {"record", "sleep", "head"}
BY Constants DEF NextRecord, GoTo, AfterCycle, LoopInv, TypeOK

(* A charge of the current record leaves every other record alone. *)
LEMMA CurrentCharged ==
    ASSUME LoopInv, ChargesInv, pc[Worker] = "record", NEW a \in Account, NEW row \in Transaction,
           ChargesRow(row)
    PROVE  /\ \A i \in UsageIds : i # Current.id =>
                 ChargesOf(Posted(accounts, a, row), i) = ChargesOf(accounts, i)
           /\ Current.id # None => \E l : ChargesOf(Posted(accounts, a, row), Current.id) = {l}
<1>1. accounts \in Books
  BY StoreStays
<1>2. \A i \in UsageIds : i # Current.id =>
         ChargesOf(Posted(accounts, a, row), i) = ChargesOf(accounts, i)
  BY <1>1, OtherRowChargesNothing DEF ChargesRow
<1>3. ASSUME Current.id # None
      PROVE  \E l : ChargesOf(Posted(accounts, a, row), Current.id) = {l}
  <2>1. /\ Current.id \in UsageIds
        /\ records[Current.id].status = "pending"
    BY <1>3, CurrentFits
  <2>2. ~Settled(Current.id)
    BY <2>1 DEF Settled, IsRefunding
  <2>3. PICK k \in UsageIds : k = Current.id
    BY <2>1
  <2>4. ChargesOf(accounts, k) = {} /\ row.source = k /\ row.type = "usage"
    BY <2>2, <2>3 DEF ChargesInv, ChargesRow
  <2>5. ChargesOf(Posted(accounts, a, row), k) = {<<a, Len(accounts[a].entries) + 1>>}
    BY <1>1, <2>4, FirstCharge
  <2> QED
    BY <2>3, <2>5
<1> QED
  BY <1>2, <1>3

LEMMA ChargeRecordKeepsCharges ==
    ASSUME LoopInv, LedgerInv, ChargesInv, ChargeRecord
    PROVE  ChargesInv'
<1>1. PICK a \in Account : \E row \in Transaction :
        accounts' = Posted(accounts, a, row) /\ ChargesRow(row)
  BY ChargeRecordPosts
<1>2. PICK row \in Transaction : accounts' = Posted(accounts, a, row) /\ ChargesRow(row)
  BY <1>1
<1>3. pc[Worker] = "record" /\ \E usage : MarkProcessed(usage)
  BY DEF ChargeRecord
<1>4. /\ \A i \in UsageIds : i # Current.id => ChargesOf(accounts', i) = ChargesOf(accounts, i)
      /\ Current.id # None => \E l : ChargesOf(accounts', Current.id) = {l}
  BY <1>2, <1>3, CurrentCharged
<1>5. /\ Head(batch) \in 1..Len(records) /\ Len(records) \in Nat
      /\ Current = records[Head(batch)] /\ Current.status = "pending"
      /\ Current.id \in {None, Head(batch)} /\ Head(batch) \in UsageIds
  BY <1>3, CurrentFits DEF LoopInv, TypeOK, MemoryTypeOK
<1>6. CASE Current.id = None
  <2>1. NextRecord /\ UNCHANGED records
    BY <1>3, <1>6 DEF MarkProcessed
  <2>2. \A i \in UsageIds : Settled(i)' <=> Settled(i)
    BY <1>3, <2>1, LeavingSettles, LeavingLabel, SameRecords DEF LoopInv
  <2> QED
    BY <1>4, <1>6, <2>2, ChargesStay, Constants
<1>7. CASE Current.id # None
  <2>1. records' = SetStatus(Head(batch), "processed") /\ GoTo(Worker, "view")
    BY <1>3, <1>7 DEF MarkProcessed
  <2>2. OnlyHead /\ records'[Head(batch)].status = "processed"
    BY <1>3, <1>7, <2>1, HeadStatusSet DEF BillingStatuses
  <2>3. pc'[Worker] = "view"
    BY <2>1, Constants DEF GoTo, LoopInv, TypeOK
  <2>4. PICK k \in UsageIds : k = Current.id /\ k = Head(batch)
    BY <1>5, <1>7
  <2>5. Settled(k)'
    <3>1. k <= Len(records) /\ Len(records') = Len(records)
      BY <1>5, <2>2, <2>4 DEF OnlyHead
    <3>2. records'[k].id # None
      BY <1>5, <1>7, <2>2, <2>4 DEF OnlyHead, Grows
    <3>3. records'[k].status = "processed"
      BY <2>2, <2>4
    <3> QED
      BY <3>1, <3>2, <3>3 DEF Settled
  <2>6. ASSUME NEW i \in UsageIds, i # k
        PROVE  Settled(i)' <=> Settled(i)
    <3>1. i \in Nat /\ i >= 1 /\ ~IsRefunding(i) /\ ~IsRefunding(i)'
      BY <1>3, <2>3, Constants DEF IsRefunding
    <3>2. i <= Len(records) => records'[i] = records[i]
      BY <1>5, <2>2, <2>4, <2>6, <3>1 DEF OnlyHead
    <3> QED
      BY <2>2, <3>1, <3>2 DEF Settled, OnlyHead
  <2> QED
    BY <1>4, <1>7, <2>4, <2>5, <2>6 DEF ChargesInv
<1> QED
  BY <1>6, <1>7

LEMMA ChargeAndRefundKeepsCharges ==
    ASSUME LoopInv, LedgerInv, ChargesInv, ChargeAndRefund
    PROVE  ChargesInv'
<1>1. PICK a \in Account, row \in Transaction, paid_back \in Transaction :
        \E rule, l : PostsTwice(a, row, rule, l, paid_back)
  BY ChargeAndRefundPosts
<1>2. PICK rule, l : PostsTwice(a, row, rule, l, paid_back)
  BY <1>1
<1> DEFINE book == Posted(accounts, a, row)
<1>3. ChargesRow(row) /\ l[1] \in Account
  BY <1>2 DEF PostsTwice
<1>4. paid_back.type # "usage" /\ accounts' = Posted(book, l[1], paid_back)
  BY <1>2 DEF PostsTwice, RefundsRow
<1>5. pc[Worker] = "record" /\ UNCHANGED <<records, batch>> /\ GoTo(Worker, "refund_view")
  BY DEF ChargeAndRefund
<1>6. book \in Books
  BY StoreStays, PostedIs
<1>7. /\ \A i \in UsageIds : i # Current.id => ChargesOf(book, i) = ChargesOf(accounts, i)
      /\ Current.id # None => \E m : ChargesOf(book, Current.id) = {m}
  BY <1>3, <1>5, CurrentCharged
<1> HIDE DEF book
<1>8. \A i : ChargesOf(accounts', i) = ChargesOf(book, i)
  BY <1>3, <1>4, <1>6, OtherRowChargesNothing
<1>9. pc'[Worker] = "refund_view"
  BY <1>5, Constants DEF GoTo, LoopInv, TypeOK
<1>10. /\ Head(batch) \in 1..Len(records) /\ Len(records) \in Nat
       /\ Current = records[Head(batch)]
       /\ Current.id \in {None, Head(batch)}
  BY <1>5, CurrentFits DEF LoopInv, TypeOK, MemoryTypeOK
<1>11. PICK k : k = Current.id
  OBVIOUS
<1>12. k # None => Settled(k)'
  BY <1>5, <1>9, <1>10, <1>11 DEF Settled, IsRefunding
<1>13. ASSUME NEW i \in UsageIds, i # k
       PROVE  Settled(i)' <=> Settled(i)
  <2>1. ~IsRefunding(i)
    BY <1>5 DEF IsRefunding
  <2>2. CASE i # Head(batch)
    BY <1>5, <2>1, <2>2 DEF Settled, IsRefunding
  <2>3. CASE i = Head(batch)
    <3>1. records[i].id = None
      BY <1>10, <1>11, <1>13, <2>3
    <3> QED
      BY <1>5, <3>1 DEF Settled
  <2> QED
    BY <2>2, <2>3
<1>14. \A i \in UsageIds : i # None
  BY Constants
<1> QED
  BY <1>7, <1>8, <1>11, <1>12, <1>13, <1>14 DEF ChargesInv

(* process_record marks the record that it has charged and refunded. *)
LEMMA RefundViewKeepsCharges ==
    ASSUME LoopInv, ChargesInv, RefundView
    PROVE  ChargesInv'
<1>1. pc[Worker] = "refund_view" /\ MarkProcessed(call[Worker]) /\ UNCHANGED accounts
  BY DEF RefundView
<1>2. Head(batch) \in 1..Len(records) /\ Len(records) \in Nat /\ Current = records[Head(batch)]
  BY <1>1, HeadIsARecord DEF LoopInv, LocalsInv, WorkerCalls, TypeOK, MemoryTypeOK
<1>3. OnlyHead /\ pc'[Worker] # "refund_view"
  <2>1. CASE Current.id = None
    BY <1>1, <2>1, LeavingLabel, SameRecords DEF MarkProcessed, LoopInv
  <2>2. CASE Current.id # None
    <3>1. records' = SetStatus(Head(batch), "processed") /\ GoTo(Worker, "view")
      BY <1>1, <2>2 DEF MarkProcessed
    <3>2. OnlyHead
      BY <1>1, <2>2, <3>1, HeadStatusSet DEF BillingStatuses, WorkerCalls
    <3> QED
      BY <3>1, <3>2, Constants DEF GoTo, LoopInv, TypeOK
  <2> QED
    BY <2>1, <2>2
<1>4. Current.id # None => records'[Head(batch)].status = "processed"
  BY <1>1, HeadStatusSet DEF MarkProcessed, BillingStatuses, WorkerCalls
<1>5. ASSUME NEW i \in UsageIds
      PROVE  Settled(i)' <=> Settled(i)
  <2>1. i \in Nat /\ i >= 1 /\ ~IsRefunding(i)' /\ (IsRefunding(i) <=> i = Head(batch))
    BY <1>1, <1>3, Constants DEF IsRefunding
  <2>2. CASE i = Head(batch)
    BY <1>2, <1>3, <1>4, <2>1, <2>2 DEF Settled, OnlyHead, Grows
  <2>3. CASE i # Head(batch)
    <3>1. i <= Len(records) => records'[i] = records[i]
      BY <1>2, <1>3, <2>1, <2>3 DEF OnlyHead
    <3> QED
      BY <1>3, <2>1, <2>3, <3>1 DEF Settled, OnlyHead
  <2> QED
    BY <2>2, <2>3
<1> QED
  BY <1>1, <1>5, ChargesStay

(* A record that the cycle leaves, paid or not. *)
LEMMA LeavingKeepsCharges ==
    ASSUME LoopInv, ChargesInv, "refund_view" \notin CacheFailsAt,
           SettleUnpaid \/ RetryRecord \/ SyncStats \/ CacheFailure
    PROVE  ChargesInv'
<1>1. pc[Worker] \in {"record", "view", "stats"} /\ NextRecord /\ UNCHANGED accounts
  BY OnlyCacheCallsFail DEF SettleUnpaid, RetryRecord, SyncStats, CacheFailure, memoryVars, LoopInv,
     LocalsInv, WorkerInv, WorkerCalls, Holding
<1>2. /\ OnlyHead
      /\ records'[Head(batch)].status = "processed" <=>
           records[Head(batch)].status = "processed"
  <2>1. CASE UNCHANGED records
    BY <2>1, SameRecords DEF LoopInv
  <2>2. ASSUME NEW status \in {"skipped", "failed"}, pc[Worker] = "record", Current.id # None,
               records' = SetStatus(Head(batch), status)
        PROVE  /\ OnlyHead
               /\ records'[Head(batch)].status = "processed" <=>
                    records[Head(batch)].status = "processed"
    <3>1. OnlyHead /\ records'[Head(batch)].status = status
      BY <2>2, HeadStatusSet DEF BillingStatuses
    <3>2. records[Head(batch)].status = "pending"
      BY <2>2, CurrentFits
    <3> QED
      BY <3>1, <3>2
  <2> QED
    BY <2>1, <2>2 DEF SettleUnpaid, RetryRecord, SyncStats, CacheFailure, memoryVars
<1> QED
  BY <1>1, <1>2, LeavingLabel, LeavingSettles, ChargesStay

(* The other steps of the worker are about the loop. *)
LEMMA LoopKeepsCharges ==
    ASSUME LoopInv, ChargesInv,
           StartRun \/ EndRun \/ BeginCycle \/ Wake \/ SyncView \/ Stop \/ UNCHANGED vars
    PROVE  ChargesInv'
<1>1. /\ UNCHANGED <<accounts, records>>
      /\ pc[Worker] = "refund_view" <=> pc'[Worker] = "refund_view"
      /\ pc[Worker] = "refund_view" => batch' = batch
  <2>1. CASE StartRun \/ EndRun \/ Wake \/ SyncView
    BY <2>1, Constants DEF StartRun, EndRun, Wake, SyncView, GoTo, memoryVars, LoopInv, TypeOK
  <2>2. CASE BeginCycle
    <3>1. PICK label \in {"sleep", "head", "record"} : GoTo(Worker, label)
      BY <2>2 DEF BeginCycle, AfterCycle
    <3> QED
      BY <2>2, <3>1, Constants DEF BeginCycle, GoTo, memoryVars, LoopInv, TypeOK
  <2>3. CASE Stop \/ UNCHANGED vars
    BY <2>3 DEF Stop, vars, memoryVars, locals
  <2> QED
    BY <2>1, <2>2, <2>3
<1>2. \A i \in UsageIds : Settled(i)' <=> Settled(i)
  BY <1>1 DEF Settled, IsRefunding
<1> QED
  BY <1>1, <1>2, ChargesStay

LEMMA CreateRecordKeepsCharges ==
    ASSUME LoopInv, ChargesInv, CreateRecord
    PROVE  ChargesInv'
<1>1. Appends
  BY CreateAppends
<1>2. UNCHANGED <<accounts, pc, batch>> /\ Len(records) \in Nat
  BY DEF CreateRecord, locals, LoopInv, TypeOK, MemoryTypeOK
<1>3. ASSUME NEW i \in UsageIds
      PROVE  Settled(i)' <=> Settled(i)
  <2>1. i \in Nat /\ i >= 1 /\ (IsRefunding(i)' <=> IsRefunding(i))
    BY <1>2, Constants DEF IsRefunding
  <2>2. CASE i <= Len(records)
    <3>1. i \in 1..Len(records)
      BY <1>2, <2>1, <2>2
    <3>2. records'[i] = records[i] /\ i <= Len(records')
      BY <1>1, <1>2, <2>1, <3>1 DEF Appends
    <3> QED
      BY <2>1, <2>2, <3>2 DEF Settled
  <2>3. CASE i = Len(records) + 1
    <3>1. records'[i].status = "pending"
      BY <1>1, <2>3 DEF Appends
    <3>2. ~IsRefunding(i)
      <4>1. CASE pc[Worker] = "refund_view"
        <5>1. Head(batch) \in 1..Len(records)
          BY <4>1, HeadIsARecord DEF LoopInv, LocalsInv, WorkerCalls
        <5> QED
          BY <1>2, <2>3, <5>1 DEF IsRefunding
      <4> QED
        BY <4>1 DEF IsRefunding
    <3>3. ~Settled(i)'
      BY <2>1, <3>1, <3>2 DEF Settled
    <3> QED
      BY <1>2, <2>3, <3>3 DEF Settled
  <2>4. CASE i > Len(records) + 1
    BY <1>1, <1>2, <2>1, <2>4 DEF Settled, Appends
  <2> QED
    BY <1>2, <2>1, <2>2, <2>3, <2>4
<1> QED
  BY <1>2, <1>3, ChargesStay

(* A host charges for no record. *)
LEMMA HostStepKeepsCharges ==
    ASSUME LoopInv, ChargesInv, NEW h \in Hosts, HostStep(h)
    PROVE  ChargesInv'
<1>1. HostFrame(h) /\ HostStores(h) /\ accounts \in Books
  BY HostStepKeeps, StoreStays DEF HostKeeps
<1>2. \A i \in UsageIds : ChargesOf(accounts', i) = ChargesOf(accounts, i)
  <2>1. CASE UNCHANGED accounts
    BY <2>1
  <2>2. ASSUME NEW a \in Account, NEW row \in Transaction, HostPosts(h, a, row), NEW i \in UsageIds
        PROVE  ChargesOf(accounts', i) = ChargesOf(accounts, i)
    <3>1. accounts' = Posted(accounts, a, row) /\ row.source # i
      BY <2>2, Constants DEF HostPosts
    <3> QED
      BY <1>1, <3>1, OtherRowChargesNothing
  <2> QED
    BY <1>1, <2>1, <2>2 DEF HostStores
<1>3. \A i \in UsageIds : Settled(i)' <=> Settled(i)
  BY <1>1 DEF HostFrame, Settled, IsRefunding
<1> QED
  BY <1>2, <1>3, ChargesStay

LEMMA StepKeepsCharges ==
    ASSUME LoopInv, LedgerInv, ChargesInv, "refund_view" \notin CacheFailsAt, [Next]_vars
    PROVE  ChargesInv'
BY ChargeRecordKeepsCharges, ChargeAndRefundKeepsCharges, RefundViewKeepsCharges,
   LeavingKeepsCharges, LoopKeepsCharges, CreateRecordKeepsCharges, HostStepKeepsCharges
   DEF Next, WorkerStep

LEMMA ChargesStart ==
    ASSUME Init
    PROVE  ChargesInv
<1>1. \A i : ChargesOf(accounts, i) = {}
  BY EmptySeq DEF Init, MemoryInit, ChargesOf, LinesOf
<1>2. Len(records) = 0 /\ \A i \in UsageIds : i \in Nat /\ i >= 1
  BY EmptySeq, Constants DEF Init, MemoryInit
<1>3. \A i \in UsageIds : ~Settled(i)
  BY <1>2 DEF Settled
<1> QED
  BY <1>1, <1>3 DEF ChargesInv

(* If the cache takes the balance of every refund, a record with an id has
   exactly one charge in the ledger once process_record has charged it, and
   none before, if it is skipped, or if it fails; a record without an id is
   never taken out of the queue.  Without the assumption a refund record is
   charged again in every cycle whose cache call raises. *)
THEOREM BackendChargesProcessed ==
    ASSUME "refund_view" \notin CacheFailsAt
    PROVE  Spec => []ChargedIfProcessed
<1>1. Init => ChargesInv
  BY ChargesStart
<1>2. LoopInv /\ LedgerInv /\ ChargesInv /\ [Next]_vars => ChargesInv'
  BY StepKeepsCharges
<1>3. LoopInv /\ ChargesInv => ChargedIfProcessed
  <2> SUFFICES ASSUME LoopInv, ChargesInv, NEW i \in 1..Len(records)
               PROVE  IF records[i].id = None THEN records[i].status = "pending"
                      ELSE Cardinality(ChargesOf(accounts, i)) =
                             IF records[i].status = "processed" \/ IsRefunding(i) THEN 1 ELSE 0
    BY LinesAreRows DEF ChargedIfProcessed, ChargesOf, IsRefunding
  <2>1. CASE records[i].id = None
    BY <2>1 DEF LoopInv, RecordsInv
  <2>2. CASE records[i].id # None
    <3>1. i \in UsageIds /\ i <= Len(records)
      BY Constants DEF LoopInv, RecordsInv, TypeOK, MemoryTypeOK
    <3>2. Settled(i) <=> records[i].status = "processed" \/ IsRefunding(i)
      BY <2>2, <3>1 DEF Settled
    <3>3. CASE Settled(i)
      BY <2>2, <3>1, <3>2, <3>3, FS_Singleton DEF ChargesInv
    <3>4. CASE ~Settled(i)
      BY <2>2, <3>1, <3>2, <3>4, FS_EmptySet DEF ChargesInv
    <3> QED
      BY <3>3, <3>4
  <2> QED
    BY <2>1, <2>2
<1> QED
  BY <1>1, <1>2, <1>3, LedgerHolds, PTL DEF Spec
-----------------------------------------------------------------------------
(***************************************************************************)
(* The views, while every update of them has been delivered in its order.  *)
(* The task that is updating them, if any, is alone, and what it has still *)
(* to tell the cache is all that the views lack.                           *)
(***************************************************************************)

(* t has the balance of a, or its charge, still to hand to the cache. *)
Tells(t, a) == pc[t] \in {"cache", "refund_view", "view"} /\ call[t].account = a

TellsBack(a) == pc[Worker] = "refund_view" /\ back.account = a

Owes(t, a) ==
    /\ call[t].account = a
    /\ \/ pc[t] \in {"refund_view", "view", "stats"}
       \/ pc[t] = "cache" /\ call[t].op = "charge"

Shows(a) == view[a] \in {None, accounts[a].amount}

Alone == \A t, u \in Tasks : pc[t] \in InCacheCall /\ pc[u] \in InCacheCall => t = u

TellsTruth ==
    \A a \in Account :
        /\ \A t \in Tasks : Tells(t, a) => call[t].balance = accounts[a].amount
        /\ TellsBack(a) => back.balance = accounts[a].amount

RowsTrue ==
    \A h \in Hosts : pc[h] = "rows" =>
        \A asset \in Assets :
            rows[h].amounts[asset] \in {None, accounts[<<rows[h].customer, asset>>].amount}

ViewsLack ==
    \A a \in Account :
        /\ Shows(a) \/ TellsBack(a) \/ \E t \in Tasks : Tells(t, a)
        /\ (\A t \in Tasks : ~Owes(t, a)) => spent[a] = Consumed(a)
        /\ \A t \in Tasks : Owes(t, a) => spent[a] + call[t].amount = Consumed(a)

(* The record of a refund has an id: process_record will tell the charge too. *)
WillMark == pc[Worker] = "refund_view" => Current.id # None

Ordered == Alone /\ TellsTruth /\ RowsTrue /\ ViewsLack /\ WillMark

OrderInv == ~blurred => Ordered

(* No movement is under way, and the views tell what the store holds. *)
Still ==
    /\ \A t \in Tasks : pc[t] \in InCacheCall => pc[t] = "rows"
    /\ RowsTrue
    /\ \A a \in Account : Shows(a) /\ spent[a] = Consumed(a)

(* A clear snapshot that no movement has crossed. *)
SnapshotInv ==
    \A h \in Hosts : pc[h] \in {"balances", "counters"} =>
        /\ snapshot[h].start <= next_id
        /\ snapshot[h].customer \in Customers
        /\ snapshot[h].clear /\ snapshot[h].start = next_id =>
              /\ Still
              /\ pc[h] = "counters" => \A asset \in Assets :
                    snapshot[h].amounts[asset] \in
                        {None, accounts[<<snapshot[h].customer, asset>>].amount}

(* The model's counters stay below the bound at which they saturate. *)
Uncapped == \A a \in Account : spent[a] < SpentCap

(* Neither the store nor the views change, and no update of them begins or
   ends, unless it is lost. *)
Rests ==
    /\ UNCHANGED <<accounts, next_id, view, spent>>
    /\ \A t \in Tasks : pc'[t] \in InCacheCall => pc'[t] = pc[t] /\ call'[t] = call[t]
    /\ \A h \in Hosts : pc'[h] = "rows" => rows'[h] = rows[h]
    /\ pc'[Worker] = "refund_view" => back' = back
    /\ ~blurred' => ~blurred /\ \A t \in Tasks : pc[t] \in InCacheCall => pc'[t] = pc[t]

LEMMA RestKeepsStill ==
    ASSUME Still, Rests
    PROVE  Still'
<1>1. \A a \in Account : Shows(a)' /\ spent'[a] = Consumed(a)'
  BY DEF Still, Rests, Shows, Consumed
<1>2. RowsTrue'
  <2> SUFFICES ASSUME NEW h \in Hosts, pc'[h] = "rows", NEW asset \in Assets
               PROVE  rows'[h].amounts[asset] \in
                        {None, accounts'[<<rows'[h].customer, asset>>].amount}
    BY DEF RowsTrue
  <2>1. pc[h] = "rows" /\ rows'[h] = rows[h]
    BY DEF Rests, InCacheCall, Tasks
  <2> QED
    BY <2>1 DEF Still, RowsTrue, Rests
<1>3. \A t \in Tasks : pc'[t] \in InCacheCall => pc'[t] = "rows"
  BY DEF Still, Rests
<1> QED
  BY <1>1, <1>2, <1>3 DEF Still

LEMMA RestKeepsOrder ==
    ASSUME LoopInv, OrderInv, Rests, WillMark => WillMark'
    PROVE  OrderInv'
<1> SUFFICES ASSUME ~blurred' PROVE Ordered'
  BY DEF OrderInv
<1>1. Ordered
  BY DEF Rests, OrderInv
<1>2. \A t \in Tasks : pc[t] \in InCacheCall \/ pc'[t] \in InCacheCall =>
                        pc'[t] = pc[t] /\ call'[t] = call[t]
  BY DEF Rests
<1>3. Worker \in Tasks
  BY DEF Tasks
<1>4. \A a : /\ TellsBack(a)' <=> TellsBack(a)
             /\ TellsBack(a) => back' = back
             /\ \A t \in Tasks : /\ Tells(t, a)' <=> Tells(t, a)
                                 /\ Owes(t, a)' <=> Owes(t, a)
                                 /\ Tells(t, a) \/ Owes(t, a) => call'[t] = call[t]
  BY <1>2, <1>3 DEF Rests, TellsBack, Tells, Owes, InCacheCall
<1>5. Alone'
  BY <1>1, <1>2 DEF Ordered, Alone
<1>6. TellsTruth'
  BY <1>1, <1>4 DEF Ordered, TellsTruth, Rests
<1>7. RowsTrue'
  <2> SUFFICES ASSUME NEW h \in Hosts, pc'[h] = "rows", NEW asset \in Assets
               PROVE  rows'[h].amounts[asset] \in
                        {None, accounts'[<<rows'[h].customer, asset>>].amount}
    BY DEF RowsTrue
  <2>1. pc[h] = "rows" /\ rows'[h] = rows[h]
    BY DEF Rests, InCacheCall, Tasks
  <2> QED
    BY <1>1, <2>1 DEF Ordered, RowsTrue, Rests
<1>8. ViewsLack'
  <2>1. \A a \in Account : (Shows(a)' <=> Shows(a)) /\ spent'[a] = spent[a] /\ Consumed(a)' = Consumed(a)
    BY DEF Rests, Shows, Consumed
  <2> QED
    BY <1>1, <1>4, <2>1 DEF Ordered, ViewsLack
<1> QED
  BY <1>1, <1>5, <1>6, <1>7, <1>8 DEF Ordered

(* The worker takes up another record, or goes around the loop. *)
LEMMA WorkerRests ==
    ASSUME LoopInv, \/ StartRun \/ EndRun \/ BeginCycle \/ Wake \/ SettleUnpaid \/ RetryRecord
                    \/ CacheFailure \/ Stop \/ CreateRecord \/ UNCHANGED vars
    PROVE  Rests
<1>1. HostsWait /\ Worker \notin Hosts
  BY OthersLeaveHosts, Constants DEF WorkerStep
<1>2. UNCHANGED <<accounts, next_id, view, spent>>
  BY DEF StartRun, EndRun, BeginCycle, Wake, SettleUnpaid, RetryRecord, CacheFailure, Stop,
         CreateRecord, vars, memoryVars, viewVars
<1>3. CASE Stop \/ CreateRecord \/ UNCHANGED vars
  BY <1>2, <1>3 DEF Rests, Stop, CreateRecord, vars, locals
<1>4. ASSUME NEW label \in {"head", "ended", "record", "sleep"}, GoTo(Worker, label)
      PROVE  pc'[Worker] = label /\ pc'[Worker] \notin InCacheCall
  BY <1>4, Constants DEF GoTo, LoopInv, TypeOK, InCacheCall
<1>5. CASE \/ StartRun \/ EndRun \/ BeginCycle \/ Wake \/ SettleUnpaid \/ RetryRecord
           \/ CacheFailure
  <2>1. pc'[Worker] \notin InCacheCall
    BY <1>4, <1>5 DEF StartRun, EndRun, BeginCycle, Wake, SettleUnpaid, RetryRecord, CacheFailure,
                      NextRecord, AfterCycle
  <2>2. \/ pc[Worker] \notin InCacheCall /\ blurred' = blurred
        \/ blurred'
    BY <1>5 DEF StartRun, EndRun, BeginCycle, Wake, SettleUnpaid, RetryRecord, CacheFailure,
                InCacheCall
  <2>3. \A t \in Tasks : t = Worker \/ t \in Hosts
    BY DEF Tasks
  <2> QED
    BY <1>1, <1>2, <2>1, <2>2, <2>3 DEF Rests, HostsWait, InCacheCall
<1> QED
  BY <1>3, <1>5

(* A host begins or ends to read, or its cache call fails. *)
LEMMA HostRests ==
    ASSUME LoopInv, NEW h \in Hosts, HostStep(h),
           \/ HostCacheFailure(h) \/ BeginSnapshot(h) \/ GetBalances(h) \/ GetStats(h)
           \/ BeginListing(h) \/ ReadPage(h) \/ (BeginFund(h) /\ next_id' = next_id)
    PROVE  Rests /\ (pc[h] = "counters" => pc'[h] = "idle")
<1>1. HostFrame(h) /\ h \in Tasks /\ h # Worker /\ \A t \in Tasks : t = Worker \/ t \in Hosts
  BY HostStepKeeps, Constants DEF HostKeeps, Tasks
<1>2. CASE BeginFund(h) /\ next_id' = next_id
  <2>1. UNCHANGED accounts /\ UNCHANGED viewVars /\ pc[h] = "idle"
    BY <1>2, SMTT(30) DEF BeginFund, Begin, Grant, Moved, LoopInv, TypeOK, MemoryTypeOK
  <2>2. Return(h) /\ blurred' = blurred
    BY <1>2, SMTT(30) DEF BeginFund, Begin, Grant, Moved, LoopInv, TypeOK, MemoryTypeOK
  <2>3. pc'[h] = "idle" /\ rows' = [rows EXCEPT ![h] = NoRows]
    BY <2>2, LabelTyped DEF Return, Labels
  <2> QED
    BY <1>1, <1>2, <2>1, <2>2, <2>3
       DEF Rests, HostFrame, viewVars, InCacheCall, LoopInv, TypeOK
<1>3. CASE HostCacheFailure(h) \/ GetStats(h)
  <2>1. /\ Return(h) /\ UNCHANGED <<accounts, next_id, view, spent>>
        /\ blurred' \/ (blurred' = blurred /\ pc[h] \notin InCacheCall)
    BY <1>3 DEF HostCacheFailure, GetStats, memoryVars, viewVars, InCacheCall
  <2>2. pc'[h] = "idle" /\ rows' = [rows EXCEPT ![h] = NoRows]
    BY <2>1, LabelTyped DEF Return, Labels
  <2>3. \A t \in Tasks : pc'[t] \in InCacheCall => pc'[t] = pc[t] /\ call'[t] = call[t]
    BY <1>1, <2>2 DEF HostFrame, InCacheCall
  <2>4. /\ \A g \in Hosts : pc'[g] = "rows" => rows'[g] = rows[g]
        /\ back' = back
    BY <1>1, <2>2 DEF HostFrame, LoopInv, TypeOK
  <2>5. ~blurred' => ~blurred /\ \A t \in Tasks : pc[t] \in InCacheCall => pc'[t] = pc[t]
    BY <1>1, <2>1 DEF HostFrame
  <2> QED
    BY <2>1, <2>2, <2>3, <2>4, <2>5 DEF Rests
<1>4. CASE BeginSnapshot(h) \/ GetBalances(h) \/ BeginListing(h)
  <2>1. /\ UNCHANGED <<accounts, next_id, view, spent, rows, blurred>>
        /\ pc[h] \in {"idle", "balances"}
    BY <1>4 DEF BeginSnapshot, GetBalances, BeginListing, Begin, memoryVars, viewVars
  <2>2. pc'[h] \in {"balances", "counters", "paging"}
    BY <1>4, LabelTyped DEF BeginSnapshot, GetBalances, BeginListing, Labels
  <2> QED
    BY <1>1, <2>1, <2>2 DEF Rests, HostFrame, InCacheCall
<1>5. CASE ReadPage(h)
  <2>1. UNCHANGED <<accounts, next_id, view, spent, blurred>> /\ pc[h] = "paging"
    BY <1>5 DEF ReadPage, memoryVars, viewVars
  <2>2. \/ pc'[h] = "idle" /\ rows' = [rows EXCEPT ![h] = NoRows]
        \/ pc'[h] = "paging" /\ rows' = rows
    BY <1>5, <2>1, LabelTyped DEF ReadPage, Return, Labels
  <2> QED
    BY <1>1, <2>1, <2>2 DEF Rests, HostFrame, InCacheCall, LoopInv, TypeOK
<1> QED
  BY <1>2, <1>3, <1>4, <1>5

(* What a posting adds to the spend of its account. *)
LEMMA PostedSpends ==
    ASSUME NEW book \in Books, NEW a \in Account, NEW row \in Transaction
    PROVE  /\ \A b \in Account : Spend(book[b].entries) \in Int
           /\ \A b \in Account \ {a} :
                 Spend(Posted(book, a, row)[b].entries) = Spend(book[b].entries)
           /\ row.type = "usage" =>
                 Spend(Posted(book, a, row)[a].entries) = Spend(book[a].entries) - row.amount
           /\ row.type # "usage" =>
                 Spend(Posted(book, a, row)[a].entries) = Spend(book[a].entries)
<1>1. \A e \in Transaction : e.amount \in Int
  BY RowsAreTyped
<1>2. \A b \in Account : book[b].entries \in Seq(Transaction)
  BY BookTyped
<1>3. \A q \in Seq(Transaction) :
         /\ Spend(q) \in Int
         /\ row.type = "usage" => Spend(Append(q, row)) = Spend(q) - row.amount
         /\ row.type # "usage" => Spend(Append(q, row)) = Spend(q)
  BY <1>1, SpendAppend
<1>4. /\ \A b \in Account \ {a} : Posted(book, a, row)[b] = book[b]
      /\ Posted(book, a, row)[a].entries = Append(book[a].entries, row)
  BY PostedIs
<1> QED
  BY <1>2, <1>3, <1>4

(* t has the views to itself, and they tell what is in the store. *)
Freed(t) ==
    /\ \A u \in Tasks \ {t} : pc'[u] = pc[u] /\ pc[u] \notin InCacheCall
    /\ \A b \in Account : view'[b] \in {None, accounts[b].amount} /\ spent'[b] = Consumed(b)

(* A movement of t, whose balance it has then to tell. *)
LEMMA MoveOrders ==
    ASSUME LoopInv, NEW t \in Tasks, NEW a \in Account, NEW row \in Transaction,
           accounts' = Posted(accounts, a, row), Freed(t),
           pc'[t] \in {"cache", "view"},
           call'[t].account = a, call'[t].balance = row.balance_after,
           pc'[t] = "view" \/ call'[t].op = "charge" <=> row.type = "usage",
           row.type = "usage" => call'[t].amount = -row.amount
    PROVE  Ordered'
<1>1. \A u \in Tasks : pc'[u] \in InCacheCall => u = t
  BY DEF Freed
<1>2. Worker \in Tasks /\ \A h \in Hosts : h \in Tasks
  BY Constants
<1>3. pc'[Worker] # "refund_view" /\ \A h \in Hosts : pc'[h] # "rows"
  BY <1>1, <1>2 DEF InCacheCall
<1>4. /\ \A b \in Account \ {a} : accounts'[b] = accounts[b]
      /\ accounts'[a].amount = row.balance_after
  BY StoreStays, PostedIs, ZenonT(60)
<1>5. \A u \in Tasks, b \in Account : /\ Tells(u, b)' <=> u = t /\ b = a
                                      /\ Owes(u, b)' <=> u = t /\ b = a /\ row.type = "usage"
  BY <1>1 DEF Tells, Owes, InCacheCall
<1>6. Alone' /\ RowsTrue' /\ WillMark'
  BY <1>1, <1>3 DEF Alone, RowsTrue, WillMark
<1>7. TellsTruth'
  BY <1>3, <1>4, <1>5 DEF TellsTruth, TellsBack
<1>8. \A b \in Account : Consumed(b) \in Int /\ (b # a => Consumed(b)' = Consumed(b))
  BY StoreStays, PostedSpends DEF Consumed
<1>9. \A b \in Account : Shows(b)' \/ Tells(t, b)'
  BY <1>4, <1>5 DEF Freed, Shows
<1>10. row.type # "usage" => Consumed(a)' = Consumed(a)
  BY StoreStays, PostedSpends DEF Consumed
<1>11. ASSUME row.type = "usage" PROVE spent'[a] + call'[t].amount = Consumed(a)'
  <2>1. PICK x \in Int : x = row.amount
    BY RowsAreTyped
  <2>2. PICK y \in Int : y = Consumed(a)
    BY <1>8
  <2>3. Consumed(a)' = y - x
    BY <1>11, <2>1, <2>2, StoreStays, PostedSpends DEF Consumed
  <2>4. spent'[a] = y /\ call'[t].amount = -x
    BY <1>11, <2>1, <2>2 DEF Freed
  <2>5. y + (-x) = y - x
    BY <2>1, <2>2
  <2> QED
    BY <2>3, <2>4, <2>5
<1>12. ViewsLack'
  BY <1>5, <1>8, <1>9, <1>10, <1>11 DEF ViewsLack, Freed
<1> QED
  BY <1>6, <1>7, <1>12 DEF Ordered

LEMMA HostMoveKeepsOrder ==
    ASSUME LoopInv, OrderInv, NEW h \in Hosts, HostStep(h), HostFrame(h),
           NEW a \in Account, NEW row \in Transaction, HostPosts(h, a, row)
    PROVE  OrderInv'
<1> SUFFICES ASSUME ~blurred' PROVE Ordered'
  BY DEF OrderInv
<1>1. Announces(h, a, row) /\ accounts' = Posted(accounts, a, row)
  BY DEF HostPosts
<1>2. Ordered /\ ~Overlaps(h) /\ next_id' # next_id
  BY <1>1, BlurredTyped, StoreStays DEF Announces, OrderInv
<1>3. h \in Tasks /\ h # Worker /\ Worker \in Tasks /\ \A t \in Tasks : t = Worker \/ t \in Hosts
  BY Constants DEF Tasks
<1>4. \A u \in Tasks \ {h} : pc'[u] = pc[u] /\ pc[u] \notin InCacheCall
  BY <1>2, <1>3 DEF Overlaps, HostFrame
<1>5. \A b \in Account, u \in Tasks \ {h} : ~Tells(u, b) /\ ~Owes(u, b) /\ ~TellsBack(b)
  BY <1>3, <1>4 DEF Tells, Owes, TellsBack, InCacheCall
<1>6. \/ pc[h] = "idle" /\ UNCHANGED viewVars
      \/ UpdateView(h) /\ call[h].op = "fund"
  BY <1>2 DEF HostStep, BeginCharge, BeginRefund, BeginFund, Begin, UpdateView, AfterView, Return,
              CountSpend, HostCacheFailure, BeginRefresh, WriteRows, BeginSnapshot, GetBalances,
              GetStats, BeginListing, ReadPage, memoryVars
<1>7. ASSUME NEW b \in Account
      PROVE  view'[b] \in {None, accounts[b].amount} /\ spent'[b] = Consumed(b)
  <2>1. ~Owes(h, b)
    BY <1>6 DEF Owes, UpdateView
  <2>2. spent[b] = Consumed(b)
    BY <1>2, <1>5, <2>1 DEF Ordered, ViewsLack
  <2>3. CASE pc[h] = "idle" /\ UNCHANGED viewVars
    <3>1. ~Tells(h, b)
      BY <2>3 DEF Tells
    <3>2. Shows(b)
      BY <1>2, <1>5, <3>1, <1>3 DEF Ordered, ViewsLack
    <3> QED
      BY <2>2, <2>3, <3>2 DEF Shows, viewVars
  <2>4. CASE UpdateView(h)
    <3>1. spent' = spent /\ view' = [view EXCEPT ![call[h].account] = call[h].balance] /\ pc[h] = "cache"
      BY <2>4 DEF UpdateView, UpdateSingleBalance
    <3>2. CASE b = call[h].account
      BY <1>2, <1>3, <2>2, <3>1, <3>2 DEF Tells, Ordered, TellsTruth, LoopInv, TypeOK, ViewTypeOK
    <3>3. CASE b # call[h].account
      <4>1. Shows(b)
        BY <1>2, <1>3, <1>5, <3>3 DEF Tells, Ordered, ViewsLack
      <4> QED
        BY <2>2, <3>1, <3>3, <4>1 DEF Shows, LoopInv, TypeOK, ViewTypeOK
    <3> QED
      BY <3>2, <3>3
  <2> QED
    BY <1>6, <2>3, <2>4
<1>8. Freed(h)
  BY <1>4, <1>7 DEF Freed
<1> QED
  BY <1>1, <1>3, <1>8, MoveOrders DEF Announces

(* Nobody has anything to tell: the views are up to date. *)
LEMMA QuietIsStill ==
    ASSUME Ordered, \A t \in Tasks : pc[t] \notin InCacheCall
    PROVE  Still
<1>1. /\ \A b \in Account, t \in Tasks : ~Tells(t, b) /\ ~Owes(t, b)
      /\ \A b \in Account : ~TellsBack(b)
  BY Constants DEF Tells, Owes, TellsBack, InCacheCall
<1> QED
  BY <1>1 DEF Still, Ordered, ViewsLack

(* What process_record tells of its charge, and that nobody is in its way. *)
LEMMA ChargeAnnounces ==
    ASSUME LoopInv, OrderInv, pc[Worker] = "record", NEW rule \in Chosen, ~blurred, ~Overlaps(Worker)
    PROVE  /\ Still /\ \A t \in Tasks : pc[t] \notin InCacheCall
           /\ \E a \in Account : \E row \in Transaction :
                 /\ a = <<Data.customer, rule.asset>>
                 /\ Deducted(rule) = Posted(accounts, a, row)
                 /\ row.type = "usage"
                 /\ LET usage == Usage(rule, Deducted(rule))
                    IN  /\ usage \in Call
                        /\ usage.account = a /\ usage.balance = row.balance_after
                        /\ usage.amount = -row.amount
<1>1. \A t \in Tasks : pc[t] \notin InCacheCall
  BY DEF Overlaps, InCacheCall
<1>2. Still
  BY <1>1, QuietIsStill DEF OrderInv
<1> DEFINE a == <<Data.customer, rule.asset>>
           cost == CalculateCost(rule, Data)
           row == NewRow(next_id, "usage", -cost, accounts[a].amount - cost, Current.id, None)
           usage == Usage(rule, Deducted(rule))
<1>3. /\ a \in Account /\ cost \in Nat \ {0} /\ row \in Transaction
      /\ Deducted(rule) = Posted(accounts, a, row)
  BY ChosenRule DEF LoopInv, LocalsInv
<1>4. usage \in Call /\ usage.account = a /\ usage.amount = cost
        /\ usage.balance = Deducted(rule)[a].amount
  BY UsageTyped DEF Usage, Movement
<1>5. row.type = "usage" /\ row.amount = -cost
  BY DEF NewRow
<1> HIDE DEF a, cost, row, usage
<1>6. usage.balance = row.balance_after
  <2>1. Posted(accounts, a, row)[a].amount = row.balance_after
    BY <1>3, StoreStays, PostedIs
  <2> QED
    BY <1>3, <1>4, <2>1
<1>7. usage.amount = -row.amount
  BY <1>3, <1>4, <1>5
<1> QED
  BY <1>1, <1>2, <1>3, <1>4, <1>5, <1>6, <1>7 DEF a, usage

LEMMA ChargeRecordKeepsOrder ==
    ASSUME LoopInv, OrderInv, ChargeRecord
    PROVE  OrderInv'
<1> SUFFICES ASSUME ~blurred' PROVE Ordered'
  BY DEF OrderInv
<1>1. PICK rule \in Chosen : \E book \in {Deducted(rule)} :
        accounts' = book /\ MarkProcessed(Usage(rule, book))
  BY DEF ChargeRecord
<1>2. accounts' = Deducted(rule) /\ MarkProcessed(Usage(rule, Deducted(rule)))
  BY <1>1
<1>3. /\ pc[Worker] = "record" /\ UNCHANGED viewVars
      /\ ~blurred /\ ~Overlaps(Worker) /\ Current.id # None
  BY DEF ChargeRecord
<1>4. Still /\ \A t \in Tasks : pc[t] \notin InCacheCall
  BY <1>3, ChargeAnnounces
<1>5. PICK a \in Account : \E row \in Transaction :
        /\ Deducted(rule) = Posted(accounts, a, row)
        /\ row.type = "usage"
        /\ LET usage == Usage(rule, Deducted(rule))
           IN  /\ usage \in Call
               /\ usage.account = a /\ usage.balance = row.balance_after
               /\ usage.amount = -row.amount
  BY <1>3, ChargeAnnounces
<1>6. PICK row \in Transaction :
        /\ Deducted(rule) = Posted(accounts, a, row)
        /\ row.type = "usage"
        /\ LET usage == Usage(rule, Deducted(rule))
           IN  /\ usage \in Call
               /\ usage.account = a /\ usage.balance = row.balance_after
               /\ usage.amount = -row.amount
  BY <1>5
<1>7. PICK usage : usage = Usage(rule, Deducted(rule))
  OBVIOUS
<1>8. /\ GoTo(Worker, "view") /\ call' = [call EXCEPT ![Worker] = usage]
  BY <1>2, <1>3, <1>7 DEF MarkProcessed
<1>9. pc'[Worker] = "view" /\ call'[Worker] = usage
  BY <1>8, Constants DEF GoTo, LoopInv, TypeOK
<1>10. Freed(Worker)
  <2>1. \A u \in Tasks \ {Worker} : pc'[u] = pc[u] /\ pc[u] \notin InCacheCall
    BY <1>4, <1>8 DEF GoTo, LoopInv, TypeOK
  <2> QED
    BY <1>3, <1>4, <2>1 DEF Freed, Still, Shows, viewVars
<1> QED
  BY <1>2, <1>6, <1>7, <1>9, <1>10, MoveOrders, Constants

LEMMA ChargeAndRefundKeepsOrder ==
    ASSUME LoopInv, OrderInv, ChargeAndRefund
    PROVE  OrderInv'
<1> SUFFICES ASSUME ~blurred' PROVE Ordered'
  BY DEF OrderInv
<1> DEFINE Does(rule, book, l, amount) ==
             /\ accounts' = Refunded(book, l[1], next_id + 1, amount, Current.id)
             /\ back' = [account |-> l[1], balance |-> book[l[1]].amount + amount]
             /\ call' = [call EXCEPT ![Worker] = Usage(rule, book)]
             /\ blurred' = (blurred \/ Current.id = None \/ Overlaps(Worker)
                               \/ l[1] = <<Data.customer, rule.asset>>)
<1>1. PICK rule \in Chosen : \E book \in {Deducted(rule)} : \E l \in Originals(book, rule) :
        Does(rule, book, l, -book[l[1]].entries[l[2]].amount)
  BY DEF ChargeAndRefund
<1>2. PICK book \in {Deducted(rule)} : \E l \in Originals(book, rule) :
        Does(rule, book, l, -book[l[1]].entries[l[2]].amount)
  BY <1>1
<1>3. PICK l \in Originals(book, rule) : Does(rule, book, l, -book[l[1]].entries[l[2]].amount)
  BY <1>2
<1>4. book = Deducted(rule) /\ pc[Worker] = "record"
        /\ UNCHANGED <<viewVars, records, batch>> /\ GoTo(Worker, "refund_view")
  BY <1>2 DEF ChargeAndRefund
<1>5. PICK c, amount : c = l[1] /\ amount = -book[l[1]].entries[l[2]].amount
  OBVIOUS
<1>6. /\ accounts' = Refunded(book, c, next_id + 1, amount, Current.id)
      /\ back' = [account |-> c, balance |-> book[c].amount + amount]
      /\ call' = [call EXCEPT ![Worker] = Usage(rule, book)]
      /\ ~blurred /\ Current.id # None /\ ~Overlaps(Worker) /\ c # <<Data.customer, rule.asset>>
  BY <1>3, <1>5
<1> HIDE DEF Does
<1>7. Still /\ \A t \in Tasks : pc[t] \notin InCacheCall
  BY <1>4, <1>6, ChargeAnnounces
<1>8. PICK a \in Account : \E row \in Transaction :
        /\ a = <<Data.customer, rule.asset>>
        /\ Deducted(rule) = Posted(accounts, a, row)
        /\ row.type = "usage"
        /\ LET usage == Usage(rule, Deducted(rule))
           IN  /\ usage.account = a /\ usage.balance = row.balance_after
               /\ usage.amount = -row.amount
  BY <1>4, <1>6, ChargeAnnounces
<1>9. PICK row \in Transaction :
        /\ Deducted(rule) = Posted(accounts, a, row)
        /\ row.type = "usage"
        /\ LET usage == Usage(rule, Deducted(rule))
           IN  /\ usage.account = a /\ usage.balance = row.balance_after
               /\ usage.amount = -row.amount
  BY <1>8
<1>10. PICK usage : usage = Usage(rule, Deducted(rule))
  OBVIOUS
<1>11. /\ usage.account = a /\ usage.balance = row.balance_after /\ usage.amount = -row.amount
       /\ book = Posted(accounts, a, row) /\ row.type = "usage" /\ a # c
  BY <1>4, <1>6, <1>8, <1>9, <1>10
<1>12. PICK paid_back : paid_back = NewRow(next_id + 1, "refund", amount, book[c].amount + amount,
                                           Current.id, None)
  OBVIOUS
<1>13. /\ c \in Account /\ paid_back \in Transaction /\ accounts' = Posted(book, c, paid_back)
  BY <1>4, <1>5, <1>6, <1>12, RefundPosts
<1>14. paid_back.type = "refund" /\ paid_back.balance_after = back'.balance /\ back'.account = c
  BY <1>6, <1>12 DEF NewRow
<1>15. /\ pc'[Worker] = "refund_view" /\ call'[Worker] = usage
       /\ \A u \in Tasks \ {Worker} : pc'[u] = pc[u] /\ pc'[u] \notin InCacheCall
  BY <1>4, <1>6, <1>7, <1>10, Constants DEF GoTo, LoopInv, TypeOK
<1>16. accounts \in Books /\ book \in Books
  BY <1>11, StoreStays, PostedIs
<1>17. /\ \A b \in Account \ {a, c} : accounts'[b] = accounts[b]
       /\ accounts'[a].amount = usage.balance /\ accounts'[c].amount = back'.balance
  <2>1. (\A b \in Account \ {a} : book[b] = accounts[b]) /\ book[a].amount = row.balance_after
    <3>1. /\ \A b \in Account \ {a} : Posted(accounts, a, row)[b] = accounts[b]
          /\ Posted(accounts, a, row)[a].amount = row.balance_after
      BY <1>16, PostedIs
    <3>2. book = Posted(accounts, a, row)
      BY <1>11
    <3> QED
      BY <3>1, <3>2
  <2>2. /\ \A b \in Account \ {c} : accounts'[b] = book[b]
        /\ accounts'[c].amount = paid_back.balance_after
    BY <1>13, <1>16, PostedIs, ZenonT(60)
  <2>3. a # c /\ usage.balance = row.balance_after /\ paid_back.balance_after = back'.balance
    BY <1>11, <1>14
  <2>4. accounts'[a] = book[a]
    BY <2>2, <2>3
  <2>5. \A b \in Account \ {a, c} : accounts'[b] = accounts[b]
    BY <2>1, <2>2
  <2> QED
    BY <2>1, <2>2, <2>3, <2>4, <2>5
<1>18. /\ \A u \in Tasks, b \in Account : /\ Tells(u, b)' <=> u = Worker /\ b = a
                                          /\ Owes(u, b)' <=> u = Worker /\ b = a
       /\ \A b \in Account : TellsBack(b)' <=> b = c
  BY <1>11, <1>14, <1>15 DEF Tells, Owes, TellsBack, InCacheCall
<1>19. TellsTruth'
  BY <1>11, <1>15, <1>17, <1>18 DEF TellsTruth
<1>20. Alone' /\ RowsTrue' /\ WillMark'
  <2>1. \A h \in Hosts : pc'[h] # "rows"
    BY <1>15, Constants DEF InCacheCall
  <2>2. Current' = Current
    BY <1>4 DEF Current
  <2> QED
    BY <1>6, <1>15, <2>1, <2>2 DEF Alone, RowsTrue, WillMark
<1>21. \A b \in Account : Shows(b)' \/ TellsBack(b)' \/ Tells(Worker, b)'
  BY <1>4, <1>7, <1>17, <1>18, Constants DEF Still, Shows, viewVars
<1>22. ASSUME NEW b \in Account \ {a} PROVE Consumed(b)' = Consumed(b)
  <2>1. Spend(accounts'[b].entries) = Spend(book[b].entries)
    BY <1>13, <1>14, <1>16, PostedSpends
  <2>2. Spend(book[b].entries) = Spend(accounts[b].entries)
    BY <1>11, <1>16, PostedSpends
  <2> QED
    BY <2>1, <2>2 DEF Consumed
<1>23. spent'[a] + usage.amount = Consumed(a)'
  <2>1. Spend(accounts'[a].entries) = Spend(book[a].entries)
    BY <1>11, <1>13, <1>16, PostedSpends
  <2>2. PICK x \in Int : x = row.amount
    BY RowsAreTyped
  <2>3. PICK y \in Int : y = Spend(accounts[a].entries)
    BY <1>16, PostedSpends
  <2>4. Spend(book[a].entries) = y - x
    BY <1>11, <1>16, <2>2, <2>3, PostedSpends
  <2>5. spent'[a] = y /\ usage.amount = -x
    BY <1>4, <1>7, <1>11, <2>2, <2>3 DEF Still, Consumed, viewVars
  <2>6. y + (-x) = y - x
    BY <2>2, <2>3
  <2> QED
    BY <2>1, <2>4, <2>5, <2>6 DEF Consumed
<1>24. \A b \in Account \ {a} : spent'[b] = Consumed(b)'
  BY <1>4, <1>7, <1>22 DEF Still, viewVars
<1>25. ViewsLack'
  BY <1>15, <1>18, <1>21, <1>23, <1>24, Constants DEF ViewsLack
<1> QED
  BY <1>19, <1>20, <1>25 DEF Ordered

(* t hands the cache a part of what it has to tell. *)
LEMMA TellOrders ==
    ASSUME NEW t \in Tasks, Ordered, UNCHANGED accounts,
           pc[t] \in InCacheCall, pc'[t] \notin {"rows", "refund_view"},
           \A u \in Tasks \ {t} : pc'[u] = pc[u],
           \A b \in Account :
              /\ Shows(b)' \/ Tells(t, b)'
              /\ Tells(t, b)' => call'[t].balance = accounts[b].amount
              /\ IF Owes(t, b)' THEN spent'[b] + call'[t].amount = Consumed(b)
                 ELSE spent'[b] = Consumed(b)
    PROVE  Ordered'
<1>1. \A u \in Tasks \ {t} : pc[u] \notin InCacheCall /\ pc'[u] \notin InCacheCall
  BY DEF Ordered, Alone
<1>2. Worker \in Tasks /\ \A h \in Hosts : h \in Tasks
  BY Constants
<1>3. pc'[Worker] # "refund_view" /\ \A h \in Hosts : pc'[h] # "rows"
  BY <1>1, <1>2 DEF InCacheCall
<1>4. \A u \in Tasks \ {t}, b \in Account : ~Tells(u, b)' /\ ~Owes(u, b)'
  BY <1>1 DEF Tells, Owes, InCacheCall
<1>5. Alone' /\ RowsTrue' /\ WillMark'
  BY <1>1, <1>3 DEF Alone, RowsTrue, WillMark
<1>6. TellsTruth'
  BY <1>3, <1>4 DEF TellsTruth, TellsBack
<1>7. \A b \in Account : Consumed(b)' = Consumed(b)
  BY DEF Consumed
<1>8. ViewsLack'
  BY <1>4, <1>7 DEF ViewsLack
<1> QED
  BY <1>5, <1>6, <1>8 DEF Ordered

(* The rest of what a task tells, when it is in a call of the cache. *)
LEMMA AloneTells ==
    ASSUME Ordered, NEW t \in Tasks, pc[t] \in InCacheCall, NEW b \in Account
    PROVE  /\ Shows(b) \/ TellsBack(b) \/ Tells(t, b)
           /\ IF Owes(t, b) THEN spent[b] + call[t].amount = Consumed(b)
              ELSE spent[b] = Consumed(b)
<1>1. \A u \in Tasks \ {t} : ~Tells(u, b) /\ ~Owes(u, b)
  BY DEF Ordered, Alone, Tells, Owes, InCacheCall
<1> QED
  BY <1>1 DEF Ordered, ViewsLack

LEMMA RefundViewKeepsOrder ==
    ASSUME LoopInv, OrderInv, RefundView
    PROVE  OrderInv'
<1> SUFFICES ASSUME ~blurred' PROVE Ordered'
  BY DEF OrderInv
<1>1. /\ pc[Worker] = "refund_view" /\ UNCHANGED <<accounts, spent>>
      /\ view' = [view EXCEPT ![back.account] = back.balance]
      /\ MarkProcessed(call[Worker]) /\ ~blurred
  BY DEF RefundView, UpdateSingleBalance
<1>2. Ordered /\ Current.id # None /\ Worker \in Tasks
  BY <1>1, Constants DEF OrderInv, Ordered, WillMark
<1>3. GoTo(Worker, "view") /\ call' = [call EXCEPT ![Worker] = call[Worker]]
  BY <1>1, <1>2 DEF MarkProcessed
<1>4. /\ pc'[Worker] = "view" /\ call'[Worker] = call[Worker]
      /\ \A u \in Tasks \ {Worker} : pc'[u] = pc[u]
  BY <1>2, <1>3 DEF GoTo, LoopInv, TypeOK
<1>5. ASSUME NEW b \in Account
      PROVE  /\ Shows(b)' \/ Tells(Worker, b)'
             /\ Tells(Worker, b)' => call'[Worker].balance = accounts[b].amount
             /\ IF Owes(Worker, b)' THEN spent'[b] + call'[Worker].amount = Consumed(b)
                ELSE spent'[b] = Consumed(b)
  <2>1. /\ Shows(b) \/ TellsBack(b) \/ Tells(Worker, b)
        /\ IF Owes(Worker, b) THEN spent[b] + call[Worker].amount = Consumed(b)
           ELSE spent[b] = Consumed(b)
    BY <1>1, <1>2, AloneTells DEF InCacheCall
  <2>2. (Tells(Worker, b)' <=> Tells(Worker, b)) /\ (Owes(Worker, b)' <=> Owes(Worker, b))
    BY <1>1, <1>4 DEF Tells, Owes
  <2>3. TellsBack(b) => Shows(b)'
    BY <1>1, <1>2 DEF TellsBack, Shows, Ordered, TellsTruth, LoopInv, TypeOK, ViewTypeOK
  <2>4. ~TellsBack(b) /\ Shows(b) => Shows(b)'
    BY <1>1 DEF TellsBack, Shows, LoopInv, TypeOK, ViewTypeOK
  <2>5. Tells(Worker, b)' => call'[Worker].balance = accounts[b].amount
    BY <1>2, <1>4, <2>2 DEF Ordered, TellsTruth
  <2>6. IF Owes(Worker, b)' THEN spent'[b] + call'[Worker].amount = Consumed(b)
        ELSE spent'[b] = Consumed(b)
    BY <1>1, <1>4, <2>1, <2>2
  <2> QED
    BY <2>1, <2>2, <2>3, <2>4, <2>5, <2>6
<1>6. pc[Worker] \in InCacheCall /\ pc'[Worker] \notin {"rows", "refund_view"}
  BY <1>1, <1>4 DEF InCacheCall
<1> QED
  BY <1>1, <1>2, <1>4, <1>5, <1>6, TellOrders

(* The balance that t hands over is shown, and t goes on or is done. *)
LEMMA BalanceTold ==
    ASSUME LoopInv, Ordered, NEW t \in Tasks, pc[t] \in {"cache", "view"}, UNCHANGED accounts,
           UpdateSingleBalance(call[t].account, call[t].balance),
           pc'[t] \in {"stats", "idle"}, \A u \in Tasks \ {t} : pc'[u] = pc[u],
           IF pc[t] = "view" \/ call[t].op = "charge"
           THEN pc'[t] = "stats" /\ call'[t] = call[t]
           ELSE pc'[t] = "idle"
    PROVE  Ordered'
<1>1. view' = [view EXCEPT ![call[t].account] = call[t].balance] /\ spent' = spent
  BY DEF UpdateSingleBalance
<1>2. pc[t] \in InCacheCall /\ pc'[t] \notin {"rows", "refund_view"}
  BY DEF InCacheCall
<1>3. \A h \in Hosts : h \in Tasks /\ h # Worker
  BY Constants
<1>4. \A b \in Account : ~TellsBack(b)
  BY <1>2, Constants DEF Ordered, Alone, TellsBack, InCacheCall
<1>5. ASSUME NEW b \in Account
      PROVE  /\ Shows(b)' \/ Tells(t, b)'
             /\ Tells(t, b)' => call'[t].balance = accounts[b].amount
             /\ IF Owes(t, b)' THEN spent'[b] + call'[t].amount = Consumed(b)
                ELSE spent'[b] = Consumed(b)
  <2>1. /\ Shows(b) \/ Tells(t, b)
        /\ IF Owes(t, b) THEN spent[b] + call[t].amount = Consumed(b)
           ELSE spent[b] = Consumed(b)
    BY <1>2, <1>4, AloneTells
  <2>2. ~Tells(t, b)'
    BY DEF Tells
  <2>3. Tells(t, b) => Shows(b)'
    BY <1>1 DEF Tells, Shows, Ordered, TellsTruth, LoopInv, TypeOK, ViewTypeOK
  <2>4. ~Tells(t, b) => view'[b] = view[b]
    BY <1>1 DEF Tells, LoopInv, TypeOK, ViewTypeOK
  <2>5. Shows(b)'
    BY <2>1, <2>3, <2>4 DEF Shows
  <2>6. IF Owes(t, b)' THEN spent'[b] + call'[t].amount = Consumed(b)
        ELSE spent'[b] = Consumed(b)
    <3>1. CASE pc[t] = "view" \/ call[t].op = "charge"
      <4>1. Owes(t, b)' <=> Owes(t, b)
        BY <3>1 DEF Owes
      <4> QED
        BY <1>1, <2>1, <3>1, <4>1
    <3>2. CASE ~(pc[t] = "view" \/ call[t].op = "charge")
      <4>1. ~Owes(t, b)' /\ ~Owes(t, b)
        BY <3>2 DEF Owes
      <4> QED
        BY <1>1, <2>1, <4>1
    <3> QED
      BY <3>1, <3>2
  <2> QED
    BY <2>2, <2>5, <2>6
<1> QED
  BY <1>2, <1>5, TellOrders

(* The charge that t hands over is counted, and t is done. *)
LEMMA ChargeTold ==
    ASSUME LoopInv, Ordered, Uncapped', NEW t \in Tasks, pc[t] = "stats", UNCHANGED accounts,
           call[t].account \in Account, IncrementStats(call[t].account, call[t].amount),
           pc'[t] \notin InCacheCall, \A u \in Tasks \ {t} : pc'[u] = pc[u]
    PROVE  Ordered'
<1>1. pc[t] \in InCacheCall /\ pc'[t] \notin {"rows", "refund_view"}
  BY DEF InCacheCall
<1>2. \A b \in Account : ~TellsBack(b) /\ ~Tells(t, b)
  BY <1>1, Constants DEF Ordered, Alone, TellsBack, Tells, InCacheCall
<1>3. PICK a \in Account : a = call[t].account
  OBVIOUS
<1>4. UNCHANGED view /\ \A b \in Account \ {a} : spent'[b] = spent[b]
  BY <1>3 DEF IncrementStats, LoopInv, TypeOK, ViewTypeOK
<1>5. spent'[a] = spent[a] + call[t].amount
  <2>1. spent'[a] = IF spent[a] + call[t].amount > SpentCap THEN SpentCap
                    ELSE spent[a] + call[t].amount
    BY <1>3 DEF IncrementStats, LoopInv, TypeOK, ViewTypeOK
  <2>2. PICK x \in Int : x = spent[a] + call[t].amount
    BY DEF LoopInv, TypeOK, ViewTypeOK, Call
  <2>3. spent'[a] < SpentCap /\ SpentCap \in Nat
    BY Constants DEF Uncapped
  <2> QED
    BY <2>1, <2>2, <2>3
<1>6. ASSUME NEW b \in Account
      PROVE  /\ Shows(b)' \/ Tells(t, b)'
             /\ Tells(t, b)' => call'[t].balance = accounts[b].amount
             /\ IF Owes(t, b)' THEN spent'[b] + call'[t].amount = Consumed(b)
                ELSE spent'[b] = Consumed(b)
  <2>1. /\ Shows(b)
        /\ IF Owes(t, b) THEN spent[b] + call[t].amount = Consumed(b)
           ELSE spent[b] = Consumed(b)
    BY <1>1, <1>2, AloneTells
  <2>2. Owes(t, b) <=> b = a
    BY <1>3 DEF Owes
  <2>3. ~Tells(t, b)' /\ ~Owes(t, b)'
    BY DEF Tells, Owes, InCacheCall
  <2>4. spent'[b] = Consumed(b)
    BY <1>4, <1>5, <2>1, <2>2
  <2>5. Shows(b)'
    BY <1>4, <2>1 DEF Shows
  <2> QED
    BY <2>3, <2>4, <2>5
<1> QED
  BY <1>1, <1>6, TellOrders

LEMMA SyncKeepsOrder ==
    ASSUME LoopInv, OrderInv, Uncapped', SyncView \/ SyncStats
    PROVE  OrderInv'
<1> SUFFICES ASSUME ~blurred' PROVE Ordered'
  BY DEF OrderInv
<1>1. UNCHANGED <<accounts, blurred>> /\ Worker \in Tasks /\ Ordered
  BY Constants DEF SyncView, SyncStats, memoryVars, OrderInv
<1>2. CASE SyncView
  <2>1. /\ pc[Worker] = "view" /\ GoTo(Worker, "stats") /\ call' = call
        /\ UpdateSingleBalance(call[Worker].account, call[Worker].balance)
    BY <1>2 DEF SyncView, locals
  <2>2. pc'[Worker] = "stats" /\ \A u \in Tasks \ {Worker} : pc'[u] = pc[u]
    BY <1>1, <2>1 DEF GoTo, LoopInv, TypeOK
  <2> QED
    BY <1>1, <2>1, <2>2, BalanceTold
<1>3. CASE SyncStats
  <2>1. /\ pc[Worker] = "stats" /\ NextRecord
        /\ IncrementStats(call[Worker].account, call[Worker].amount)
    BY <1>3 DEF SyncStats
  <2>2. PICK label \in {"record", "sleep", "head"} : GoTo(Worker, label)
    BY <2>1 DEF NextRecord, AfterCycle
  <2>3. pc'[Worker] \notin InCacheCall /\ \A u \in Tasks \ {Worker} : pc'[u] = pc[u]
    BY <1>1, <2>2 DEF GoTo, LoopInv, TypeOK, InCacheCall
  <2>4. call[Worker].account \in Account
    BY <2>1 DEF LoopInv, LocalsInv, WorkerInv, WorkerCalls
  <2> QED
    BY <1>1, <2>1, <2>3, <2>4, ChargeTold
<1> QED
  BY <1>2, <1>3

(* A host's movement is told, and no other movement follows at once. *)
LEMMA UpdateViewKeepsOrder ==
    ASSUME LoopInv, OrderInv, NEW h \in Hosts, UpdateView(h), HostFrame(h), next_id' = next_id
    PROVE  OrderInv'
<1> SUFFICES ASSUME ~blurred' PROVE Ordered'
  BY DEF OrderInv
<1>1. /\ pc[h] = "cache" /\ AfterView(h) /\ h \in Tasks
      /\ UpdateSingleBalance(call[h].account, call[h].balance)
  BY Constants DEF UpdateView
<1>2. \/ call[h].op = "charge" /\ GoTo(h, "stats") /\ UNCHANGED <<accounts, locals, blurred>>
      \/ call[h].op # "charge" /\ Return(h) /\ UNCHANGED <<accounts, blurred>>
  BY <1>1 DEF AfterView, Grant, Moved, LoopInv, TypeOK, MemoryTypeOK
<1>3. UNCHANGED accounts /\ Ordered
  BY <1>2 DEF OrderInv
<1>4. \A u \in Tasks \ {h} : pc'[u] = pc[u]
  BY DEF HostFrame, Tasks
<1>5. CASE call[h].op = "charge"
  <2>1. pc'[h] = "stats" /\ call'[h] = call[h]
    BY <1>2, <1>5, LabelTyped DEF locals, Labels, InCacheCall
  <2> QED
    BY <1>1, <1>3, <1>4, <1>5, <2>1, BalanceTold
<1>6. CASE call[h].op # "charge"
  <2>1. pc'[h] = "idle"
    BY <1>2, <1>6, LabelTyped DEF Return, Labels
  <2> QED
    BY <1>1, <1>3, <1>4, <1>6, <2>1, BalanceTold
<1> QED
  BY <1>5, <1>6

LEMMA CountSpendKeepsOrder ==
    ASSUME LoopInv, OrderInv, Uncapped', NEW h \in Hosts, CountSpend(h), HostFrame(h)
    PROVE  OrderInv'
<1> SUFFICES ASSUME ~blurred' PROVE Ordered'
  BY DEF OrderInv
<1>1. /\ pc[h] = "stats" /\ Return(h) /\ h \in Tasks /\ UNCHANGED <<accounts, blurred>>
      /\ IncrementStats(call[h].account, call[h].amount)
  BY Constants DEF CountSpend, memoryVars
<1>2. pc'[h] = "idle" /\ \A u \in Tasks \ {h} : pc'[u] = pc[u]
  BY <1>1, LabelTyped DEF Return, Labels, HostFrame, Tasks
<1>3. call[h].account \in Account /\ pc'[h] \notin InCacheCall
  BY <1>1, <1>2 DEF LoopInv, LocalsInv, HostInv, InCacheCall
<1> QED
  BY <1>1, <1>2, <1>3, ChargeTold DEF OrderInv

(* What a refresh has read and now writes. *)
LEMMA RowsShow ==
    ASSUME LoopInv, RowsTrue, NEW h \in Hosts, WriteRows(h), NEW b \in Account
    PROVE  (Shows(b) => Shows(b)') /\ UNCHANGED <<accounts, spent>>
<1>1. /\ pc[h] = "rows" /\ UNCHANGED <<accounts, spent>>
      /\ view'[b] = IF b[1] = rows[h].customer THEN rows[h].amounts[b[2]] ELSE view[b]
  BY DEF WriteRows, SetBalances, memoryVars
<1>2. b[2] \in Assets /\ b = <<b[1], b[2]>>
  BY DEF Account
<1>3. CASE b[1] = rows[h].customer
  <2>1. rows[h].amounts[b[2]] \in {None, accounts[b].amount}
    BY <1>1, <1>2, <1>3 DEF RowsTrue
  <2> QED
    BY <1>1, <1>3, <2>1 DEF Shows
<1> QED
  BY <1>1, <1>3 DEF Shows

LEMMA WriteRowsKeeps ==
    ASSUME LoopInv, NEW h \in Hosts, WriteRows(h), HostFrame(h)
    PROVE  (OrderInv => OrderInv') /\ (Still => Still')
<1>1. /\ pc[h] = "rows" /\ pc'[h] = "idle" /\ h \in Tasks
      /\ UNCHANGED blurred /\ rows' = [rows EXCEPT ![h] = NoRows]
  BY LabelTyped, Constants DEF WriteRows, Return, Labels
<1>2. \A u \in Tasks \ {h} : pc'[u] = pc[u]
  BY DEF HostFrame, Tasks
<1>3. ASSUME OrderInv, ~blurred' PROVE Ordered'
  <2>1. Ordered /\ UNCHANGED accounts
    BY <1>1, <1>3 DEF OrderInv, WriteRows, memoryVars
  <2>2. pc[h] \in InCacheCall /\ pc'[h] \notin {"rows", "refund_view"}
    BY <1>1 DEF InCacheCall
  <2>3. ASSUME NEW b \in Account
        PROVE  /\ Shows(b)' \/ Tells(h, b)'
               /\ Tells(h, b)' => call'[h].balance = accounts[b].amount
               /\ IF Owes(h, b)' THEN spent'[b] + call'[h].amount = Consumed(b)
                  ELSE spent'[b] = Consumed(b)
    <3>1. ~Tells(h, b) /\ ~Owes(h, b) /\ ~Tells(h, b)' /\ ~Owes(h, b)'
      BY <1>1 DEF Tells, Owes
    <3>2. ~TellsBack(b)
      BY <1>1, <2>1, <2>2, Constants DEF Ordered, Alone, TellsBack, InCacheCall
    <3>3. Shows(b) /\ spent[b] = Consumed(b)
      BY <1>1, <2>1, <2>2, <3>1, <3>2, AloneTells
    <3>4. Shows(b)' /\ spent' = spent
      BY <2>1, <3>3, RowsShow DEF Ordered
    <3> QED
      BY <3>1, <3>3, <3>4
  <2> QED
    BY <1>1, <1>2, <2>1, <2>2, <2>3, TellOrders
<1>4. ASSUME Still PROVE Still'
  <2>1. \A b \in Account : Shows(b)' /\ spent'[b] = Consumed(b)'
    BY <1>4, RowsShow DEF Still, Consumed
  <2>2. UNCHANGED accounts
    BY DEF WriteRows, memoryVars
  <2>3. \A g \in Hosts : pc'[g] = "rows" => pc[g] = "rows" /\ rows'[g] = rows[g]
    BY <1>1, <1>2, Constants DEF LoopInv, TypeOK
  <2>4. RowsTrue'
    BY <1>4, <2>2, <2>3 DEF Still, RowsTrue
  <2>5. \A t \in Tasks : pc'[t] \in InCacheCall => pc'[t] = "rows"
    BY <1>1, <1>2, <1>4 DEF Still, InCacheCall
  <2> QED
    BY <2>1, <2>4, <2>5 DEF Still
<1> QED
  BY <1>3, <1>4 DEF OrderInv

LEMMA BeginRefreshKeeps ==
    ASSUME LoopInv, NEW h \in Hosts, BeginRefresh(h), HostFrame(h)
    PROVE  (OrderInv => OrderInv') /\ (Still => Still')
<1>1. PICK customer \in Customers :
        LET Row(asset) == accounts[<<customer, asset>>]
        IN  rows' = [rows EXCEPT ![h] = [customer |-> customer,
                amounts |-> [x \in Assets |-> IF Row(x).row THEN Row(x).amount ELSE None]]]
  BY DEF BeginRefresh
<1>2. /\ rows'[h].customer = customer
      /\ \A asset \in Assets : rows'[h].amounts[asset] \in {None, accounts[<<customer, asset>>].amount}
      /\ \A g \in Hosts \ {h} : rows'[g] = rows[g]
  BY <1>1 DEF LoopInv, TypeOK
<1>3. /\ UNCHANGED <<accounts, view, spent>> /\ pc'[h] = "rows" /\ pc[h] = "idle" /\ h \in Tasks
      /\ blurred' = (blurred \/ Overlaps(h))
  BY LabelTyped, Constants DEF BeginRefresh, Begin, Blur, viewVars, Labels, InCacheCall
<1>4. \A u \in Tasks \ {h} : pc'[u] = pc[u]
  BY DEF HostFrame, Tasks
<1>5. RowsTrue => RowsTrue'
  <2>1. ASSUME RowsTrue, NEW g \in Hosts, pc'[g] = "rows", NEW asset \in Assets
        PROVE  rows'[g].amounts[asset] \in {None, accounts'[<<rows'[g].customer, asset>>].amount}
    <3>1. CASE g = h
      BY <1>2, <1>3, <3>1
    <3>2. CASE g # h
      <4>1. pc[g] = "rows" /\ rows'[g] = rows[g]
        BY <1>2, <1>4, <2>1, <3>2, Constants
      <4> QED
        BY <1>3, <2>1, <4>1 DEF RowsTrue
    <3> QED
      BY <3>1, <3>2
  <2> QED
    BY <2>1 DEF RowsTrue
<1>6. ASSUME Still PROVE Still'
  <2>1. \A b \in Account : Shows(b)' /\ spent'[b] = Consumed(b)'
    BY <1>3, <1>6 DEF Still, Shows, Consumed
  <2> QED
    BY <1>3, <1>4, <1>5, <1>6, <2>1 DEF Still
<1>7. ASSUME OrderInv, ~blurred' PROVE Ordered'
  <2>1. Ordered /\ \A t \in Tasks : pc[t] \notin InCacheCall
    BY <1>3, <1>7 DEF OrderInv, Overlaps, InCacheCall
  <2>2. Still'
    BY <1>6, <2>1, QuietIsStill
  <2>3. \A t \in Tasks : pc'[t] \in InCacheCall => t = h
    BY <1>4, <2>1
  <2>4. Worker # h /\ Worker \in Tasks
    BY Constants
  <2>5. \A t \in Tasks, b \in Account : ~Tells(t, b)' /\ ~Owes(t, b)'
    BY <1>3, <2>3 DEF Tells, Owes, InCacheCall
  <2>6. pc'[Worker] # "refund_view"
    BY <2>3, <2>4 DEF InCacheCall
  <2>7. Alone' /\ WillMark' /\ TellsTruth'
    BY <2>3, <2>5, <2>6 DEF Alone, WillMark, TellsTruth, TellsBack
  <2>8. ViewsLack'
    BY <2>2, <2>5 DEF Still, ViewsLack
  <2> QED
    BY <2>2, <2>7, <2>8 DEF Ordered, Still
<1> QED
  BY <1>6, <1>7 DEF OrderInv

(* The record of a refund that is under way keeps its id. *)
LEMMA MarkStays ==
    ASSUME LoopInv, [Next]_vars, WillMark, batch' = batch, pc'[Worker] = pc[Worker]
    PROVE  WillMark'
<1> SUFFICES ASSUME pc[Worker] = "refund_view" PROVE Current'.id # None
  BY DEF WillMark
<1>1. /\ Head(batch) \in 1..Len(records) /\ Current = records[Head(batch)]
      /\ Current' = records'[Head(batch)]
  BY HeadIsARecord DEF LoopInv, LocalsInv, WorkerCalls, Current
<1>2. records'[Head(batch)].id = records[Head(batch)].id
  BY <1>1, StepGrows DEF Grows
<1> QED
  BY <1>1, <1>2 DEF WillMark

LEMMA WorkerRestKeepsOrder ==
    ASSUME LoopInv, OrderInv, [Next]_vars,
           \/ StartRun \/ EndRun \/ BeginCycle \/ Wake \/ SettleUnpaid \/ RetryRecord
           \/ CacheFailure \/ Stop \/ CreateRecord \/ UNCHANGED vars
    PROVE  OrderInv'
<1>1. Rests
  BY WorkerRests
<1>2. CASE Stop \/ CreateRecord \/ UNCHANGED vars
  <2>1. batch' = batch /\ pc'[Worker] = pc[Worker]
    BY <1>2 DEF Stop, CreateRecord, vars, locals
  <2> QED
    BY <1>1, <2>1, MarkStays, RestKeepsOrder
<1>3. CASE \/ StartRun \/ EndRun \/ BeginCycle \/ Wake \/ SettleUnpaid \/ RetryRecord
           \/ CacheFailure
  <2>1. PICK label \in {"head", "ended", "record", "sleep"} : GoTo(Worker, label)
    BY <1>3 DEF StartRun, EndRun, BeginCycle, Wake, SettleUnpaid, RetryRecord, CacheFailure,
                NextRecord, AfterCycle
  <2>2. pc'[Worker] # "refund_view"
    BY <2>1, Constants DEF GoTo, LoopInv, TypeOK
  <2> QED
    BY <1>1, <2>2, RestKeepsOrder DEF WillMark
<1> QED
  BY <1>2, <1>3

LEMMA HostStepKeepsOrder ==
    ASSUME LoopInv, OrderInv, Uncapped', [Next]_vars, NEW h \in Hosts, HostStep(h)
    PROVE  OrderInv'
<1>1. HostFrame(h) /\ HostStores(h)
  BY HostStepKeeps DEF HostKeeps
<1>2. WillMark => WillMark'
  BY <1>1, MarkStays DEF HostFrame
<1>3. CASE \E a \in Account : \E row \in Transaction : HostPosts(h, a, row)
  BY <1>1, <1>3, HostMoveKeepsOrder
<1>4. CASE next_id' = next_id
  <2>1. CASE \/ HostCacheFailure(h) \/ BeginSnapshot(h) \/ GetBalances(h) \/ GetStats(h)
             \/ BeginListing(h) \/ ReadPage(h) \/ BeginFund(h)
    BY <1>2, <1>4, <2>1, HostRests, RestKeepsOrder
  <2>2. CASE BeginCharge(h) \/ BeginRefund(h)
    BY <1>4, <2>2 DEF BeginCharge, BeginRefund, Moved, LoopInv, TypeOK, MemoryTypeOK
  <2>3. CASE UpdateView(h)
    BY <1>1, <1>4, <2>3, UpdateViewKeepsOrder
  <2>4. CASE CountSpend(h) \/ WriteRows(h) \/ BeginRefresh(h)
    BY <1>1, <2>4, CountSpendKeepsOrder, WriteRowsKeeps, BeginRefreshKeeps
  <2> QED
    BY <2>1, <2>2, <2>3, <2>4 DEF HostStep
<1> QED
  BY <1>1, <1>3, <1>4 DEF HostStores

LEMMA StepKeepsOrder ==
    ASSUME LoopInv, OrderInv, Uncapped', [Next]_vars
    PROVE  OrderInv'
BY WorkerRestKeepsOrder, ChargeRecordKeepsOrder, ChargeAndRefundKeepsOrder, RefundViewKeepsOrder,
   SyncKeepsOrder, HostStepKeepsOrder DEF Next, WorkerStep

(* Every movement takes a number of its own from the store. *)
LEMMA NumbersRise ==
    ASSUME LoopInv, [Next]_vars
    PROVE  /\ next_id \in Nat /\ next_id' \in Nat /\ next_id' >= next_id
           /\ next_id' = next_id => UNCHANGED accounts
<1>1. next_id \in Nat
  BY DEF LoopInv, TypeOK, MemoryTypeOK
<1>2. CASE ChargeRecord \/ ChargeAndRefund
  BY <1>1, <1>2 DEF ChargeRecord, ChargeAndRefund
<1>3. CASE \E h \in Hosts : HostStep(h)
  <2>1. PICK h \in Hosts : HostStep(h)
    BY <1>3
  <2>2. HostStores(h)
    BY <2>1, HostStepKeeps DEF HostKeeps
  <2>3. next_id' = next_id + 1 \/ UNCHANGED <<accounts, next_id>>
    BY <2>2 DEF HostStores, HostPosts, Announces
  <2> QED
    BY <1>1, <2>3
<1>4. CASE /\ ~ChargeRecord /\ ~ChargeAndRefund
           /\ WorkerStep \/ Stop \/ CreateRecord \/ UNCHANGED vars
  <2>1. UNCHANGED <<accounts, next_id>>
    BY <1>4 DEF WorkerStep, Stop, CreateRecord, StartRun, EndRun, BeginCycle, Wake, SettleUnpaid,
           RetryRecord, RefundView, SyncView, SyncStats, CacheFailure, vars, memoryVars
  <2> QED
    BY <1>1, <1>4, <2>1
<1> QED
  BY <1>2, <1>3, <1>4 DEF Next

LEMMA StepKeepsStill ==
    ASSUME LoopInv, Still, [Next]_vars, next_id' = next_id
    PROVE  Still'
<1>1. next_id \in Nat /\ next_id + 1 # next_id /\ next_id + 2 # next_id
  BY DEF LoopInv, TypeOK, MemoryTypeOK
<1>2. CASE \/ StartRun \/ EndRun \/ BeginCycle \/ Wake \/ SettleUnpaid \/ RetryRecord
           \/ CacheFailure \/ Stop \/ CreateRecord \/ UNCHANGED vars
  BY <1>2, WorkerRests, RestKeepsStill
<1>3. ~ChargeRecord /\ ~ChargeAndRefund
  BY <1>1 DEF ChargeRecord, ChargeAndRefund
<1>4. ~RefundView /\ ~SyncView /\ ~SyncStats
  BY Constants DEF RefundView, SyncView, SyncStats, Still, InCacheCall
<1>5. ASSUME NEW h \in Hosts, HostStep(h) PROVE Still'
  <2>1. HostFrame(h)
    BY <1>5, HostStepKeeps DEF HostKeeps
  <2>2. ~UpdateView(h) /\ ~CountSpend(h)
    BY Constants DEF UpdateView, CountSpend, Still, InCacheCall
  <2>3. ~BeginCharge(h) /\ ~BeginRefund(h)
    BY <1>1 DEF BeginCharge, BeginRefund, Moved
  <2>4. CASE WriteRows(h) \/ BeginRefresh(h)
    BY <2>1, <2>4, WriteRowsKeeps, BeginRefreshKeeps
  <2>5. CASE ~WriteRows(h) /\ ~BeginRefresh(h)
    BY <1>5, <2>2, <2>3, <2>5, HostRests, RestKeepsStill DEF HostStep
  <2> QED
    BY <2>4, <2>5
<1> QED
  BY <1>2, <1>3, <1>4, <1>5 DEF Next, WorkerStep

(* What SnapshotInv says of one host. *)
SnapshotOf(h) ==
    pc[h] \in {"balances", "counters"} =>
        /\ snapshot[h].start <= next_id
        /\ snapshot[h].customer \in Customers
        /\ snapshot[h].clear /\ snapshot[h].start = next_id =>
              /\ Still
              /\ pc[h] = "counters" => \A asset \in Assets :
                    snapshot[h].amounts[asset] \in
                        {None, accounts[<<snapshot[h].customer, asset>>].amount}

LEMMA SnapshotStays ==
    ASSUME LoopInv, [Next]_vars, NEW h \in Hosts, SnapshotOf(h),
           pc'[h] = pc[h], snapshot'[h] = snapshot[h]
    PROVE  SnapshotOf(h)'
<1> SUFFICES ASSUME pc[h] \in {"balances", "counters"} PROVE SnapshotOf(h)'
  BY DEF SnapshotOf
<1>1. PICK start \in Nat : start = snapshot[h].start
  BY DEF LoopInv, TypeOK
<1>2. start <= next_id' /\ (start = next_id' => start = next_id /\ next_id' = next_id)
  BY <1>1, NumbersRise DEF SnapshotOf
<1>3. ASSUME snapshot[h].clear, start = next_id'
      PROVE  /\ Still'
             /\ pc[h] = "counters" => \A asset \in Assets :
                   snapshot[h].amounts[asset] \in
                       {None, accounts'[<<snapshot[h].customer, asset>>].amount}
  <2>1. Still /\ next_id' = next_id /\ start = next_id
    BY <1>1, <1>2, <1>3 DEF SnapshotOf
  <2>2. Still' /\ UNCHANGED accounts
    BY <2>1, StepKeepsStill, NumbersRise
  <2> QED
    BY <1>1, <1>3, <2>1, <2>2 DEF SnapshotOf
<1> QED
  BY <1>1, <1>2, <1>3 DEF SnapshotOf

LEMMA SnapshotBegins ==
    ASSUME LoopInv, OrderInv, [Next]_vars, NEW h \in Hosts, BeginSnapshot(h)
    PROVE  SnapshotOf(h)'
<1>1. PICK customer \in Customers :
        snapshot' = [snapshot EXCEPT ![h] = [NoSnapshot EXCEPT
            !.customer = customer, !.start = next_id, !.clear = ~blurred /\ ~Overlaps(h)]]
  BY DEF BeginSnapshot
<1>2. PICK clear \in BOOLEAN : clear = (~blurred /\ ~Overlaps(h))
  OBVIOUS
<1> DEFINE named == [NoSnapshot EXCEPT !.customer = customer]
           started == [named EXCEPT !.start = next_id]
           begun == [started EXCEPT !.clear = clear]
<1>3. begun.customer = customer /\ begun.start = next_id /\ begun.clear = clear
  <2> DEFINE Snapshots == [customer : Customers \union {None}, start : Nat, clear : BOOLEAN,
                           amounts : [Assets -> Int \union {None}]]
  <2>1. named \in Snapshots /\ named.customer = customer
    BY NothingTyped
  <2> HIDE DEF named
  <2>2. started \in Snapshots /\ started.customer = customer /\ started.start = next_id
    BY <2>1 DEF LoopInv, TypeOK, MemoryTypeOK
  <2> HIDE DEF started
  <2> QED
    BY <2>2
<1>4. /\ snapshot'[h].customer = customer /\ snapshot'[h].start = next_id
      /\ snapshot'[h].clear = clear
  <2>1. snapshot' = [snapshot EXCEPT ![h] = begun]
    BY <1>1, <1>2
  <2> HIDE DEF begun
  <2> QED
    BY <1>3, <2>1 DEF LoopInv, TypeOK
<1>5. pc[h] = "idle" /\ pc'[h] = "balances" /\ next_id' = next_id /\ next_id \in Nat
  BY LabelTyped DEF BeginSnapshot, Begin, Labels, LoopInv, TypeOK, MemoryTypeOK
<1>6. ASSUME clear PROVE Still'
  <2>1. ~blurred /\ \A t \in Tasks : pc[t] \notin InCacheCall
    BY <1>2, <1>5, <1>6 DEF Overlaps, InCacheCall
  <2>2. Still
    BY <2>1, QuietIsStill DEF OrderInv
  <2> QED
    BY <1>5, <2>2, StepKeepsStill
<1> QED
  BY <1>4, <1>5, <1>6 DEF SnapshotOf

LEMMA SnapshotReads ==
    ASSUME LoopInv, [Next]_vars, NEW h \in Hosts, SnapshotOf(h), GetBalances(h)
    PROVE  SnapshotOf(h)'
<1> DEFINE amounts == [asset \in Assets |-> view[<<snapshot[h].customer, asset>>]]
<1>1. /\ pc[h] = "balances" /\ pc'[h] = "counters"
      /\ snapshot' = [snapshot EXCEPT ![h].amounts = amounts]
      /\ UNCHANGED <<accounts, next_id>>
  BY LabelTyped DEF GetBalances, Labels, memoryVars
<1>2. snapshot'[h].amounts = amounts /\ snapshot'[h].start = snapshot[h].start
        /\ snapshot'[h].clear = snapshot[h].clear /\ snapshot'[h].customer = snapshot[h].customer
  <2> HIDE DEF amounts
  <2> QED
    BY <1>1 DEF LoopInv, TypeOK
<1>3. PICK customer \in Customers : customer = snapshot[h].customer
  BY <1>1 DEF SnapshotOf
<1>4. ASSUME snapshot[h].clear, snapshot[h].start = next_id
      PROVE  /\ Still'
             /\ \A asset \in Assets : amounts[asset] \in {None, accounts[<<customer, asset>>].amount}
  <2>1. Still
    BY <1>1, <1>4 DEF SnapshotOf
  <2>2. Still'
    BY <1>1, <2>1, StepKeepsStill
  <2>3. \A asset \in Assets : <<customer, asset>> \in Account
    BY DEF Account
  <2> QED
    BY <1>3, <2>1, <2>2, <2>3 DEF Still, Shows
<1> HIDE DEF amounts
<1> QED
  BY <1>1, <1>2, <1>3, <1>4 DEF SnapshotOf

LEMMA StepKeepsSnapshots ==
    ASSUME LoopInv, OrderInv, SnapshotInv, [Next]_vars
    PROVE  SnapshotInv'
<1> SUFFICES ASSUME NEW h \in Hosts PROVE SnapshotOf(h)'
  BY DEF SnapshotInv, SnapshotOf
<1>1. SnapshotOf(h)
  BY DEF SnapshotInv, SnapshotOf
<1>2. CASE WorkerStep \/ Stop \/ CreateRecord \/ UNCHANGED vars
  BY <1>1, <1>2, OthersLeaveHosts, SnapshotStays DEF HostsWait
<1>3. ASSUME NEW g \in Hosts \ {h}, HostStep(g) PROVE SnapshotOf(h)'
  BY <1>1, <1>3, HostStepKeeps, SnapshotStays DEF HostKeeps, HostFrame
<1>4. CASE HostStep(h)
  <2>1. CASE BeginSnapshot(h)
    BY <2>1, SnapshotBegins
  <2>2. CASE GetBalances(h)
    BY <1>1, <2>2, SnapshotReads
  <2>3. CASE BeginCharge(h) \/ BeginRefund(h) \/ BeginRefresh(h) \/ BeginListing(h)
    <3>1. PICK label \in {"cache", "rows", "paging"} : GoTo(h, label)
      BY <2>3 DEF BeginCharge, BeginRefund, Moved, BeginRefresh, BeginListing
    <3>2. pc'[h] = label
      BY <3>1, LabelTyped DEF Labels, InCacheCall
    <3> QED
      BY <3>2 DEF SnapshotOf
  <2>4. CASE BeginFund(h) \/ UpdateView(h)
    <3>1. PICK label \in {"cache", "stats", "idle"} : GoTo(h, label)
      BY <2>4 DEF BeginFund, UpdateView, AfterView, Grant, Moved, Return
    <3>2. pc'[h] = label
      BY <3>1, LabelTyped DEF Labels, InCacheCall
    <3> QED
      BY <3>2 DEF SnapshotOf
  <2>5. CASE CountSpend(h) \/ HostCacheFailure(h) \/ WriteRows(h) \/ GetStats(h) \/ ReadPage(h)
    <3>1. GoTo(h, "idle") \/ (pc[h] = "paging" /\ pc' = pc)
      BY <2>5 DEF CountSpend, HostCacheFailure, WriteRows, GetStats, ReadPage, Return
    <3>2. pc'[h] \in {"idle", "paging"}
      BY <3>1, LabelTyped DEF Labels
    <3> QED
      BY <3>2 DEF SnapshotOf
  <2> QED
    BY <1>4, <2>1, <2>2, <2>3, <2>4, <2>5 DEF HostStep
<1> QED
  BY <1>2, <1>3, <1>4 DEF Next

LEMMA ViewsStart ==
    ASSUME Init
    PROVE  OrderInv /\ SnapshotInv
<1>1. \A t \in Tasks : pc[t] \in {"new", "idle"} /\ pc[t] \notin InCacheCall
  BY DEF Init, InCacheCall
<1>2. \A a \in Account : view[a] = None /\ spent[a] = 0 /\ Consumed(a) = 0
  BY SpendEmpty DEF Init, ViewInit, MemoryInit, Consumed
<1>3. Alone /\ TellsTruth /\ RowsTrue /\ WillMark
  BY <1>1, Constants DEF Alone, TellsTruth, RowsTrue, WillMark, Tells, TellsBack, InCacheCall
<1>4. ViewsLack
  BY <1>1, <1>2 DEF ViewsLack, Shows, Owes, InCacheCall
<1>5. SnapshotInv
  BY <1>1, Constants DEF SnapshotInv
<1> QED
  BY <1>3, <1>4, <1>5 DEF OrderInv, Ordered

(* What a clear snapshot answers is what the store holds. *)
LEMMA SnapshotTells ==
    ASSUME LoopInv, LedgerInv, SnapshotInv, NEW h \in Hosts, NEW asset \in Assets,
           pc[h] = "counters", snapshot[h].clear, snapshot[h].start = next_id,
           snapshot[h].amounts[asset] # None
    PROVE  LET a == <<snapshot[h].customer, asset>>
           IN  UsageMetric(h, asset) = [used |-> Consumed(a), total |-> Consumed(a) + accounts[a].amount]
<1>1. PICK a : a = <<snapshot[h].customer, asset>>
  OBVIOUS
<1>2. a \in Account /\ spent[a] = Consumed(a) /\ snapshot[h].amounts[asset] = accounts[a].amount
  BY <1>1 DEF SnapshotInv, Still, Account
<1>3. PICK n \in Int : n = accounts[a].amount /\ n >= 0
  BY <1>2, StoreStays, SoundIsCovered DEF LedgerInv
<1>4. PICK x \in Nat : x = spent[a]
  BY <1>2 DEF LoopInv, TypeOK, ViewTypeOK
<1>5. OrZero(snapshot[h].amounts[asset]) = n
  BY <1>2, <1>3 DEF OrZero
<1>6. (IF n > 0 THEN n ELSE 0) = n
  BY <1>3
<1>7. UsageMetric(h, asset) = [used |-> x, total |-> x + n]
  BY <1>1, <1>4, <1>5, <1>6 DEF UsageMetric
<1> QED
  BY <1>1, <1>2, <1>3, <1>4, <1>7

(* While the model's counters have room, a snapshot that began with every
   update of the views delivered and in order, and that no movement has
   crossed, tells what the ledger has charged and what is left, although
   get_usage_snapshot reads the balances and the counters in two calls
   between which other tasks run (snapshot.py lines 49 to 60). *)
THEOREM BackendSnapshotsAreExact == Spec /\ []Uncapped => SnapshotIsExact
<1>1. Init => OrderInv /\ SnapshotInv
  BY ViewsStart
<1>2. LoopInv /\ OrderInv /\ SnapshotInv /\ Uncapped' /\ [Next]_vars => (OrderInv /\ SnapshotInv)'
  BY StepKeepsOrder, StepKeepsSnapshots
<1>3. LoopInv /\ LedgerInv /\ SnapshotInv /\ [Next]_vars =>
        [\A h \in Hosts, asset \in Assets :
            LET a == <<snapshot[h].customer, asset>>
            IN  /\ pc[h] = "counters" /\ pc'[h] = "idle"
                /\ snapshot[h].clear /\ snapshot[h].start = next_id
                /\ snapshot[h].amounts[asset] # None
                => UsageMetric(h, asset) = [used |-> Consumed(a),
                                            total |-> Consumed(a) + accounts[a].amount]]_vars
  BY SnapshotTells
<1> QED
  BY <1>1, <1>2, <1>3, LedgerHolds, PTL DEF Spec, SnapshotIsExact
=============================================================================
