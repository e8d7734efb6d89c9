---------------------------- MODULE PaymentProofs ----------------------------
(***************************************************************************)
(* Theorems about the payments of BalanceService: if one session handles   *)
(* the webhooks, every payment is granted once and as a whole, whatever    *)
(* the other sessions do and wherever a delivery fails or crashes.  The    *)
(* run funding_race shows that two handlers grant a payment twice.         *)
(*                                                                         *)
(* The argument counts, in what a session sees of the ledger, the grants   *)
(* of a reference.  While the handler works on a payment, the grants that  *)
(* it sees, the one in progress and those still to do add up to what the   *)
(* payment has bought; for every other reference it sees nothing or the    *)
(* whole.  Other sessions write no rows with a reference, so that they     *)
(* neither change the count nor publish a part of a payment.               *)
(***************************************************************************)
EXTENDS BalanceServiceProofs, FiniteSetTheorems

(* The grants of a reference in an account's rows. *)
GrantRows(entries, reference) == {i \in 1..Len(entries) : entries[i].reference = reference}
Granted(account, reference) == Cardinality(GrantRows(account.entries, reference))

(* Between the look-up of the reference and the end of the loop. *)
Funding(s) ==
    pc[s] = "next" \/ (pc[s] \in Moving /\ call[s].op \in {"top_up", "monthly_quota"})

Bought(a, customer, products) ==
    IF a[1] = customer THEN {p \in products : p.asset = a[2]} ELSE {}

InProgress(s, a) ==
    IF pc[s] \in {"balance", "insert", "ledger"} /\ call[s].account = a THEN 1 ELSE 0

NoneGranted(s, reference) == \A a \in Account : Granted(Visible(s, a), reference) = 0
AllGranted(s, reference) ==
    \A a \in Account : Granted(Visible(s, a), reference) = Due(a, reference)

(* What the handler of a payment has seen granted and has still to grant. *)
HalfGranted(s, reference) ==
    \A a \in Account :
        Granted(Visible(s, a), reference) + InProgress(s, a)
            + Cardinality(Bought(a, call[s].customer, todo[s])) = Due(a, reference)

GrantsOf(s) ==
    /\ pc[s] = "check" \/ Funding(s) =>
          /\ s \in Funders
          /\ call[s].op \in {"fund", "top_up", "monthly_quota"}
          /\ call[s].mode = "caller"
          /\ call[s].reference \in References
          /\ call[s].customer = PaymentCustomer[call[s].reference]
    /\ Funding(s) => todo[s] \subseteq PaymentProducts[call[s].reference]
    /\ pc[s] = "commit" => call[s].mode = "own"
    /\ pc[s] = "stats" => call[s].op = "charge"
    /\ pc[s] \in Moving /\ call[s].op \in {"charge", "refund"} => call[s].reference = None

GrantsInv == \A s \in Sessions : GrantsOf(s)

(* Sessions that handle no payments write no rows of one. *)
ForeignInv ==
    \A a \in Account, reference \in References :
        owner[a] \in Sessions \ Funders =>
            Granted(working[a], reference) = Granted(committed[a], reference)

(* An exception that is on its way out ends in a rollback. *)
SeenOf(s) ==
    pc[s] # "abort" =>
        \A reference \in References :
            IF Funding(s) /\ call[s].reference = reference
            THEN HalfGranted(s, reference)
            ELSE NoneGranted(s, reference) \/ AllGranted(s, reference)

SeenInv == \A s \in Sessions \intersect Funders : SeenOf(s)

NoneCommitted(reference) == \A a \in Account : Granted(committed[a], reference) = 0
AllCommitted(reference) == \A a \in Account : Granted(committed[a], reference) = Due(a, reference)

CommittedWhole == \A reference \in References : NoneCommitted(reference) \/ AllCommitted(reference)

OneFunder == \A s, t \in Funders : s = t

PaymentsInv == GrantsInv /\ ForeignInv /\ SeenInv /\ CommittedWhole

-----------------------------------------------------------------------------
(* Counting.                                                               *)

LEMMA GrantedIsNatural ==
    ASSUME NEW entries \in Seq(Entry), NEW reference
    PROVE  /\ IsFiniteSet(GrantRows(entries, reference))
           /\ Cardinality(GrantRows(entries, reference)) \in Nat
<1>1. Len(entries) \in Nat /\ GrantRows(entries, reference) \subseteq 1..Len(entries)
  BY DEF GrantRows
<1>2. IsFiniteSet(1..Len(entries))
  BY <1>1, FS_Interval
<1>3. IsFiniteSet(GrantRows(entries, reference))
  BY <1>1, <1>2, FS_Subset
<1> QED
  BY <1>3, FS_CardinalityType

LEMMA GrantedAppend ==
    ASSUME NEW q \in Seq(Entry), NEW e \in Entry, NEW reference
    PROVE  Cardinality(GrantRows(Append(q, e), reference)) =
              IF e.reference = reference THEN Cardinality(GrantRows(q, reference)) + 1
              ELSE Cardinality(GrantRows(q, reference))
<1> DEFINE r == Append(q, e)
<1>1. /\ Len(r) = Len(q) + 1 /\ Len(q) \in Nat
      /\ r[Len(q) + 1] = e
      /\ \A i \in 1..Len(q) : r[i] = q[i]
  OBVIOUS
<1> HIDE DEF r
<1>2. \A i : i \in 1..Len(r) <=> i \in 1..Len(q) \/ i = Len(q) + 1
  BY <1>1
<1>3. CASE e.reference = reference
  <2>1. GrantRows(r, reference) = GrantRows(q, reference) \union {Len(q) + 1}
    BY <1>1, <1>2, <1>3 DEF GrantRows
  <2>2. Len(q) + 1 \notin GrantRows(q, reference)
    BY <1>1 DEF GrantRows
  <2>3. IsFiniteSet(GrantRows(q, reference))
    BY GrantedIsNatural
  <2>4. Cardinality(GrantRows(r, reference)) = Cardinality(GrantRows(q, reference)) + 1
    BY <2>1, <2>2, <2>3, FS_AddElement
  <2> QED
    BY <1>3, <2>4 DEF r
<1>4. CASE e.reference # reference
  <2>1. GrantRows(r, reference) = GrantRows(q, reference)
    BY <1>1, <1>2, <1>4 DEF GrantRows
  <2> QED
    BY <1>4, <2>1 DEF r
<1> QED
  BY <1>3, <1>4

(* Products are bought once each, and a grant takes one of them off the list. *)
LEMMA BoughtIsFinite ==
    ASSUME NEW reference \in References, NEW products \in SUBSET PaymentProducts[reference],
           NEW a, NEW customer
    PROVE  /\ IsFiniteSet(Bought(a, customer, products))
           /\ Cardinality(Bought(a, customer, products)) \in Nat
<1>1. Bought(a, customer, products) \subseteq PaymentProducts[reference]
  BY DEF Bought
<1> QED
  BY <1>1, PaymentsAreTyped, FS_Subset, FS_CardinalityType

LEMMA BoughtIsDue ==
    ASSUME NEW reference \in References, NEW a
    PROVE  /\ Due(a, reference) =
                 Cardinality(Bought(a, PaymentCustomer[reference], PaymentProducts[reference]))
           /\ Due(a, reference) \in Nat
<1>1. Due(a, reference) =
        Cardinality(Bought(a, PaymentCustomer[reference], PaymentProducts[reference]))
  BY FS_EmptySet DEF Due, Bought
<1> QED
  BY <1>1, BoughtIsFinite

LEMMA BoughtWithout ==
    ASSUME NEW reference \in References, NEW products \in SUBSET PaymentProducts[reference],
           NEW a \in Account, NEW customer, NEW p \in products
    PROVE  Cardinality(Bought(a, customer, products)) =
              IF a = <<customer, p.asset>>
              THEN Cardinality(Bought(a, customer, products \ {p})) + 1
              ELSE Cardinality(Bought(a, customer, products \ {p}))
<1>1. a = <<a[1], a[2]>>
  BY DEF Account
<1>2. CASE a = <<customer, p.asset>>
  <2>1. a[1] = customer /\ a[2] = p.asset
    BY <1>2
  <2>2. Bought(a, customer, products) = Bought(a, customer, products \ {p}) \union {p}
    BY <2>1 DEF Bought
  <2>3. p \notin Bought(a, customer, products \ {p})
    BY DEF Bought
  <2>4. products \ {p} \in SUBSET PaymentProducts[reference]
    OBVIOUS
  <2>5. IsFiniteSet(Bought(a, customer, products \ {p}))
    BY <2>4, BoughtIsFinite
  <2>6. Cardinality(Bought(a, customer, products \ {p}) \union {p}) =
          Cardinality(Bought(a, customer, products \ {p})) + 1
    BY <2>3, <2>5, FS_AddElement
  <2> QED
    BY <1>2, <2>2, <2>6
<1>3. CASE a # <<customer, p.asset>>
  <2>1. a[1] # customer \/ a[2] # p.asset
    BY <1>1, <1>3
  <2>2. Bought(a, customer, products) = Bought(a, customer, products \ {p})
    BY <2>1 DEF Bought
  <2> QED
    BY <1>3, <2>2
<1> QED
  BY <1>2, <1>3

-----------------------------------------------------------------------------
(* What the sessions see of the ledger after a statement.                  *)

(* A statement that moves a balance adds no rows. *)
LEMMA WriteSees ==
    ASSUME TypeOK, NEW s \in Sessions, NEW b \in Account, NEW account,
           account.entries = Visible(s, b).entries, Lockable(s, b), Write(s, b, account),
           NEW t \in Sessions, NEW a \in Account
    PROVE  (Visible(t, a).entries)' = Visible(t, a).entries
<1>1. /\ committed' = committed
      /\ working' = [working EXCEPT ![b] = account] /\ owner' = [owner EXCEPT ![b] = s]
  BY DEF Write
<1>2. CASE a = b
  <2>1. working'[a] = account /\ owner'[a] = s
    BY <1>1, <1>2 DEF TypeOK, StoreTypeOK
  <2> QED
    BY <1>1, <1>2, <2>1, Constants DEF Visible, Lockable
<1>3. CASE a # b
  <2>1. working'[a] = working[a] /\ owner'[a] = owner[a]
    BY <1>1, <1>3 DEF TypeOK, StoreTypeOK
  <2> QED
    BY <1>1, <2>1 DEF Visible
<1> QED
  BY <1>2, <1>3

LEMMA AppendSees ==
    ASSUME TypeOK, NEW s \in Sessions, NEW b \in Account, NEW e, CreateTransaction(s, b, e),
           NEW t \in Sessions, NEW a \in Account
    PROVE  (Visible(t, a).entries)' =
              IF t = s /\ a = b THEN Append(Visible(t, a).entries, e) ELSE Visible(t, a).entries
<1>1. /\ committed' = committed /\ owner' = owner /\ owner[b] = s
      /\ working' = [working EXCEPT ![b].entries = Append(@, e)]
  BY DEF CreateTransaction
<1>2. CASE a = b
  <2>1. working'[a] = [working[a] EXCEPT !.entries = Append(@, e)] /\ working[a] \in AccountState
    BY <1>1, <1>2 DEF TypeOK, StoreTypeOK
  <2>2. working'[a].entries = Append(working[a].entries, e)
    BY <2>1 DEF AccountState
  <2> QED
    BY <1>1, <1>2, <2>2 DEF Visible
<1>3. CASE a # b
  <2>1. working'[a] = working[a]
    BY <1>1, <1>3 DEF TypeOK, StoreTypeOK
  <2> QED
    BY <1>1, <1>3, <2>1 DEF Visible
<1> QED
  BY <1>2, <1>3

LEMMA CommitSees ==
    ASSUME TypeOK, NEW s \in Sessions, Commit(s), NEW t \in Sessions, NEW a \in Account
    PROVE  /\ committed'[a] = Visible(s, a)
           /\ Visible(t, a)' = IF owner[a] = s THEN Visible(s, a) ELSE Visible(t, a)
BY Constants DEF Commit, Released, Visible, TypeOK, StoreTypeOK

LEMMA RollbackSees ==
    ASSUME TypeOK, NEW s \in Sessions, Rollback(s), NEW t \in Sessions, NEW a \in Account
    PROVE  /\ committed' = committed
           /\ Visible(t, a)' = IF t = s THEN committed[a] ELSE Visible(t, a)
BY Constants DEF Rollback, Released, Visible, TypeOK, StoreTypeOK

(* The statements that move a balance or lock a row, and add no ledger row. *)
WritesNoRow(s) ==
    \E b \in Account : \E account :
        /\ account.entries = Visible(s, b).entries
        /\ Lockable(s, b) /\ Write(s, b, account)

LEMMA MovesWriteNoRow ==
    ASSUME IInv, NEW s \in Sessions, Deduct(s) \/ Restore(s) \/ ResetQuota(s) \/ Insert(s)
    PROVE  WritesNoRow(s)
<1>1. PICK a \in Account : a = call[s].account
  BY DEF IInv, LocalsInv, LocalsOf, Deduct, Restore, ResetQuota, Insert, Moving
<1>2. PICK new : Lockable(s, a) /\ Write(s, a, Reads(s, a, new))
  BY <1>1 DEF Deduct, Restore, ResetQuota, Insert, DecrementBalance, IncrementBalance,
              UpsertBalance, InsertBalance
<1>3. Reads(s, a, new).entries = Visible(s, a).entries
  BY VisibleTyped DEF Reads, AccountState, IInv
<1> QED
  BY <1>2, <1>3 DEF WritesNoRow

LEMMA RefusalWritesNoRow ==
    ASSUME IInv, NEW s \in Sessions, Refuse(s)
    PROVE  UNCHANGED storeVars \/ WritesNoRow(s)
<1>1. PICK a \in Account : a = call[s].account
  BY DEF IInv, LocalsInv, LocalsOf, Refuse, Moving
<1>2. UNCHANGED storeVars \/ (Lockable(s, a) /\ Write(s, a, Visible(s, a)))
  BY <1>1 DEF Refuse, DecrementRefused
<1> QED
  BY <1>2 DEF WritesNoRow

(* What a step does to the database. *)
LEMMA ActsStore ==
    ASSUME IInv, NEW s \in Sessions, Acts(s)
    PROVE  \/ UNCHANGED storeVars
           \/ WritesNoRow(s)
           \/ WriteLedger(s) \/ CommitOwn(s) \/ CommitCaller(s)
           \/ Abort(s) \/ Crash(s)
<1>1. CASE Deduct(s) \/ Restore(s) \/ ResetQuota(s) \/ Insert(s)
  BY <1>1, MovesWriteNoRow
<1>2. CASE Refuse(s)
  BY <1>2, RefusalWritesNoRow
<1>3. CASE \/ Refresh(s) \/ FindNoRow(s) \/ IntegrityError(s) \/ UpdateView(s)
           \/ CountSpend(s) \/ CheckReference(s) \/ GetProducts(s) \/ GrantProduct(s)
           \/ UnknownStrategy(s) \/ FundDone(s) \/ DeadlockVictim(s) \/ CacheFailure(s)
  BY <1>3 DEF Refresh, FindNoRow, IntegrityError, UpdateView, CountSpend, CheckReference,
              GetProducts, GrantProduct, UnknownStrategy, FundDone, DeadlockVictim, CacheFailure
<1>4. CASE BeginCharge(s) \/ BeginRefund(s) \/ BeginFund(s) \/ BeginRefresh(s)
  BY <1>4 DEF BeginCharge, BeginRefund, BeginMovement, BeginFund, Begin, BeginRefresh
<1> QED
  BY <1>1, <1>2, <1>3, <1>4 DEF Acts, Step

(* A session that handles no payments writes rows without a reference. *)
LEMMA ForeignRow ==
    ASSUME IInv, GrantsInv, NEW s \in Sessions \ Funders, pc[s] = "ledger"
    PROVE  call[s].reference = None
<1>1. call[s].op \in Movements /\ ~Funding(s)
  BY DEF IInv, LocalsInv, LocalsOf, GrantsInv, GrantsOf, Moving
<1> QED
  BY <1>1 DEF GrantsInv, GrantsOf, Funding, Moving, Movements

(* The row that WriteLedger appends. *)
LEMMA RowOfCall ==
    ASSUME IInv, NEW s \in Sessions, WriteLedger(s)
    PROVE  /\ call[s].account \in Account
           /\ LedgerRow(call[s], after[s]) \in Entry
           /\ LedgerRow(call[s], after[s]).reference = call[s].reference
           /\ CreateTransaction(s, call[s].account, LedgerRow(call[s], after[s]))
<1>1. call[s].account \in Account /\ call[s].op \in Movements /\ call[s] \in Call /\ after[s] \in Int
  BY DEF IInv, LocalsInv, LocalsOf, TypeOK, WriteLedger, Moving
<1>2. LedgerRow(call[s], after[s]) \in Entry
  BY <1>1, LedgerRowTyped
<1> QED
  BY <1>1, <1>2 DEF WriteLedger, LedgerRow

(* The grants that t sees after a step of s which is not t's. *)
SameGrants(t) ==
    \A a \in Account, reference \in References :
        Granted(Visible(t, a), reference)' = Granted(Visible(t, a), reference)

LEMMA OthersSeeGrants ==
    ASSUME IInv, GrantsInv, ForeignInv, NEW s \in Sessions \ Funders, Acts(s),
           NEW t \in Sessions \ {s}
    PROVE  SameGrants(t)
<1> SUFFICES ASSUME NEW a \in Account, NEW reference \in References
             PROVE  Granted(Visible(t, a), reference)' = Granted(Visible(t, a), reference)
  BY DEF SameGrants
<1>1. CASE UNCHANGED storeVars
  BY <1>1 DEF storeVars, Visible, Granted, GrantRows
<1>2. CASE WritesNoRow(s)
  <2>1. (Visible(t, a).entries)' = Visible(t, a).entries
    BY <1>2, WriteSees DEF IInv, WritesNoRow
  <2> QED
    BY <2>1 DEF Granted, GrantRows
<1>3. CASE WriteLedger(s)
  <2>1. (Visible(t, a).entries)' = Visible(t, a).entries
    BY <1>3, RowOfCall, AppendSees DEF IInv
  <2> QED
    BY <2>1 DEF Granted, GrantRows
<1>4. CASE CommitOwn(s) \/ CommitCaller(s)
  <2>1. Visible(t, a)' = IF owner[a] = s THEN Visible(s, a) ELSE Visible(t, a)
    BY <1>4, CommitSees DEF CommitOwn, CommitCaller, IInv
  <2>2. CASE owner[a] = s
    <3>1. Visible(s, a) = working[a] /\ Visible(t, a) = committed[a]
      BY <2>2 DEF Visible
    <3>2. Granted(working[a], reference) = Granted(committed[a], reference)
      BY <2>2 DEF ForeignInv
    <3> QED
      BY <2>1, <2>2, <3>1, <3>2 DEF Granted, GrantRows
  <2>3. CASE owner[a] # s
    BY <2>1, <2>3 DEF Granted, GrantRows
  <2> QED
    BY <2>2, <2>3
<1>5. CASE Abort(s) \/ Crash(s)
  <2>1. Visible(t, a)' = Visible(t, a)
    BY <1>5, RollbackSees DEF Abort, Crash, IInv
  <2> QED
    BY <2>1 DEF Granted, GrantRows
<1> QED
  BY <1>1, <1>2, <1>3, <1>4, <1>5, ActsStore

LEMMA ForeignStep ==
    ASSUME IInv, GrantsInv, ForeignInv, NEW s \in Sessions, Acts(s)
    PROVE  ForeignInv'
<1> SUFFICES ASSUME NEW a \in Account, NEW reference \in References,
                    owner'[a] \in Sessions \ Funders
             PROVE  Granted(working'[a], reference) = Granted(committed'[a], reference)
  BY DEF ForeignInv, Granted, GrantRows
<1>1. CASE UNCHANGED storeVars
  BY <1>1 DEF storeVars, ForeignInv
<1>2. ASSUME NEW b \in Account, NEW account, account.entries = Visible(s, b).entries,
             Lockable(s, b), Write(s, b, account)
      PROVE  Granted(working'[a], reference) = Granted(committed'[a], reference)
  <2>1. committed' = committed
    BY <1>2 DEF Write
  <2>2. CASE a = b
    <3>1. working'[a] = account /\ owner'[a] = s
      BY <1>2, <2>2 DEF Write, IInv, TypeOK, StoreTypeOK
    <3>2. Granted(Visible(s, a), reference) = Granted(committed[a], reference)
      BY <3>1 DEF ForeignInv, Visible
    <3> QED
      BY <1>2, <2>1, <2>2, <3>1, <3>2 DEF Granted, GrantRows
  <2>3. CASE a # b
    <3>1. working'[a] = working[a] /\ owner'[a] = owner[a]
      BY <1>2, <2>3 DEF Write, IInv, TypeOK, StoreTypeOK
    <3> QED
      BY <2>1, <3>1 DEF ForeignInv
  <2> QED
    BY <2>2, <2>3
<1>3. CASE WriteLedger(s)
  <2> DEFINE b == call[s].account
             e == LedgerRow(call[s], after[s])
  <2>1. b \in Account /\ e \in Entry /\ e.reference = call[s].reference /\ CreateTransaction(s, b, e)
    BY <1>3, RowOfCall
  <2> HIDE DEF b, e
  <2>2. /\ committed' = committed /\ owner' = owner /\ owner[b] = s
        /\ working' = [working EXCEPT ![b].entries = Append(@, e)]
    BY <2>1 DEF CreateTransaction
  <2>3. CASE a = b
    <3>1. e.reference # reference
      BY <1>3, <2>1, <2>2, <2>3, ForeignRow, NoneIsNoId DEF WriteLedger
    <3>2. working[a] \in AccountState /\ working'[a] = [working[a] EXCEPT !.entries = Append(@, e)]
      BY <2>2, <2>3 DEF IInv, TypeOK, StoreTypeOK
    <3>3. working[a].entries \in Seq(Entry) /\ working'[a].entries = Append(working[a].entries, e)
      BY <3>2 DEF AccountState
    <3>4. Granted(working'[a], reference) = Granted(working[a], reference)
      BY <2>1, <3>1, <3>3, GrantedAppend DEF Granted
    <3> QED
      BY <2>2, <3>4 DEF ForeignInv
  <2>4. CASE a # b
    <3>1. working'[a] = working[a]
      BY <2>2, <2>4 DEF IInv, TypeOK, StoreTypeOK
    <3> QED
      BY <2>2, <3>1 DEF ForeignInv
  <2> QED
    BY <2>3, <2>4
<1>4. CASE CommitOwn(s) \/ CommitCaller(s) \/ Abort(s) \/ Crash(s)
  <2>1. Commit(s) \/ Rollback(s)
    BY <1>4 DEF CommitOwn, CommitCaller, Abort, Crash
  <2>2. owner[a] # s /\ owner'[a] = owner[a]
    BY <2>1, Constants DEF Commit, Rollback, Released
  <2>3. working'[a] = working[a] /\ committed'[a] = committed[a]
    BY <2>1, <2>2 DEF Commit, Rollback, Visible
  <2> QED
    BY <2>2, <2>3 DEF ForeignInv
<1> QED
  BY <1>1, <1>2, <1>3, <1>4, ActsStore DEF WritesNoRow

(* A session commits between two payments, or has nothing of one to commit. *)
LEMMA CommitsNoHalf ==
    ASSUME GrantsInv, NEW s \in Sessions, CommitOwn(s) \/ CommitCaller(s)
    PROVE  ~Funding(s) /\ pc[s] # "abort"
BY DEF GrantsInv, GrantsOf, CommitOwn, CommitCaller, Funding, Moving

LEMMA CommittedStep ==
    ASSUME IInv, PaymentsInv, NEW s \in Sessions, Acts(s)
    PROVE  CommittedWhole'
<1>1. CASE committed' = committed
  BY <1>1 DEF PaymentsInv, CommittedWhole, NoneCommitted, AllCommitted, Granted, GrantRows
<1>2. CASE CommitOwn(s) \/ CommitCaller(s)
  <2> SUFFICES ASSUME NEW reference \in References
               PROVE  NoneCommitted(reference)' \/ AllCommitted(reference)'
    BY DEF CommittedWhole
  <2>1. \A a \in Account : committed'[a] = Visible(s, a)
    BY <1>2, CommitSees DEF CommitOwn, CommitCaller, IInv
  <2>2. CASE s \in Funders
    <3>1. NoneGranted(s, reference) \/ AllGranted(s, reference)
      BY <1>2, <2>2, CommitsNoHalf DEF PaymentsInv, SeenInv, SeenOf
    <3> QED
      BY <2>1, <3>1 DEF NoneGranted, AllGranted, NoneCommitted, AllCommitted, Granted, GrantRows
  <2>3. CASE s \notin Funders
    <3>1. \A a \in Account :
             Granted(Visible(s, a), reference) = Granted(committed[a], reference)
      BY <2>3 DEF PaymentsInv, ForeignInv, Visible
    <3>2. \A a \in Account :
             Granted(committed'[a], reference) = Granted(committed[a], reference)
      BY <2>1, <3>1
    <3>3. NoneCommitted(reference) \/ AllCommitted(reference)
      BY DEF PaymentsInv, CommittedWhole
    <3> QED
      BY <3>2, <3>3 DEF NoneCommitted, AllCommitted, Granted, GrantRows
  <2> QED
    BY <2>2, <2>3
<1> QED
  BY <1>1, <1>2, ActsPublish

-----------------------------------------------------------------------------
(* The call of the session itself.                                         *)

LEMMA GrantsBegin ==
    ASSUME IInv, NEW s \in Sessions,
           BeginCharge(s) \/ BeginRefund(s) \/ BeginFund(s) \/ BeginRefresh(s)
    PROVE  GrantsOf(s)' /\ ~Funding(s) /\ ~Funding(s)' /\ pc[s] # "abort"
<1>1. CASE BeginCharge(s) \/ BeginRefund(s)
  <2>1. PICK op \in {"charge", "refund"}, a \in Account, amount \in Amounts, mode \in Modes :
          Begin(s, "balance", [NoCall EXCEPT !.op = op, !.account = a,
                                             !.amount = amount, !.mode = mode])
    BY <1>1 DEF BeginCharge, BeginRefund, BeginMovement
  <2> DEFINE request == [NoCall EXCEPT !.op = op, !.account = a, !.amount = amount, !.mode = mode]
  <2>2. request.op = op /\ request.reference = None
    BY DEF NoCall
  <2>3. pc[s] \in {"idle", "open"} /\ pc'[s] = "balance" /\ call'[s] = request
    BY <2>1, BeginEffect DEF IInv
  <2> HIDE DEF request
  <2> QED
    BY <2>2, <2>3 DEF GrantsOf, Funding, Moving
<1>2. CASE BeginFund(s)
  <2>1. PICK r \in References :
          Begin(s, "check", [NoCall EXCEPT !.op = "fund", !.reference = r, !.mode = "caller",
                                           !.customer = PaymentCustomer[r]])
    BY <1>2 DEF BeginFund
  <2> DEFINE request == [NoCall EXCEPT !.op = "fund", !.reference = r, !.mode = "caller",
                                       !.customer = PaymentCustomer[r]]
  <2>2. /\ request.op = "fund" /\ request.reference = r /\ request.mode = "caller"
        /\ request.customer = PaymentCustomer[r]
    BY DEF NoCall
  <2>3. pc[s] \in {"idle", "open"} /\ pc'[s] = "check" /\ call'[s] = request
    BY <2>1, BeginEffect DEF IInv
  <2> HIDE DEF request
  <2> QED
    BY <1>2, <2>2, <2>3 DEF GrantsOf, Funding, Moving, BeginFund
<1>3. CASE BeginRefresh(s)
  BY <1>3 DEF BeginRefresh, GoTo, GrantsOf, Funding, Moving, IInv, TypeOK
<1> QED
  BY <1>1, <1>2, <1>3

LEMMA GrantsClear ==
    ASSUME IInv, NEW s \in Sessions, NEW label \in {"idle", "open", "abort"}, Clear(s, label)
    PROVE  GrantsOf(s)' /\ ~Funding(s)' /\ pc'[s] = label
<1>1. pc'[s] = label
  BY ClearEffect DEF IInv
<1> QED
  BY <1>1 DEF GrantsOf, Funding, Moving

(* From one await of a movement to the next one of the same movement. *)
LEMMA GrantsGoOn ==
    ASSUME NEW s \in Sessions, GrantsOf(s), pc[s] \in Moving, pc'[s] \in Moving,
           call'[s] = call[s], todo'[s] = todo[s],
           pc'[s] = "commit" => call[s].mode = "own",
           pc'[s] = "stats" => call[s].op = "charge"
    PROVE  GrantsOf(s)' /\ (Funding(s)' <=> Funding(s))
BY DEF GrantsOf, Funding, Moving

LEMMA GrantsFetch ==
    ASSUME NEW s \in Sessions, IInv, GrantsOf(s), GetProducts(s)
    PROVE  /\ GrantsOf(s)' /\ Funding(s)' /\ ~Funding(s)
           /\ call' = call /\ todo'[s] = PaymentProducts[call[s].reference]
<1>1. /\ pc[s] = "check" /\ pc'[s] = "next" /\ call' = call
      /\ todo'[s] = PaymentProducts[call[s].reference]
  BY DEF GetProducts, GoTo, IInv, TypeOK
<1> QED
  BY <1>1 DEF GrantsOf, Funding, Moving

(* The head of the loop takes a product off the list. *)
TakesProduct(s, p) ==
    /\ p \in todo[s] /\ p.strategy \in {"top_up", "monthly_quota"}
    /\ pc[s] = "next" /\ pc'[s] = "balance"
    /\ call'[s].op = p.strategy /\ call'[s].account = <<call[s].customer, p.asset>>
    /\ call'[s].customer = call[s].customer /\ call'[s].reference = call[s].reference
    /\ call'[s].mode = call[s].mode
    /\ todo'[s] = todo[s] \ {p}

LEMMA GrantsTake ==
    ASSUME NEW s \in Sessions, IInv, GrantsOf(s), GrantProduct(s)
    PROVE  GrantsOf(s)' /\ Funding(s)' /\ Funding(s) /\ \E p : TakesProduct(s, p)
<1>1. PICK p \in todo[s] :
        /\ p.strategy # "unknown"
        /\ call' = [call EXCEPT ![s].op = p.strategy, ![s].amount = p.amount,
                                ![s].account = <<call[s].customer, p.asset>>]
        /\ todo' = [todo EXCEPT ![s] = @ \ {p}]
  BY DEF GrantProduct
<1>2. p \in Product /\ call[s] \in Call
  BY DEF IInv, TypeOK
<1>3. p.strategy \in {"top_up", "monthly_quota"}
  BY <1>1, <1>2 DEF Product, Strategies
<1>4. call'[s] = [call[s] EXCEPT !.op = p.strategy, !.amount = p.amount,
                                 !.account = <<call[s].customer, p.asset>>]
  BY <1>1 DEF IInv, TypeOK
<1>5. /\ call'[s].op = p.strategy /\ call'[s].customer = call[s].customer
      /\ call'[s].account = <<call[s].customer, p.asset>>
      /\ call'[s].reference = call[s].reference /\ call'[s].mode = call[s].mode
  BY <1>2, <1>4 DEF Call
<1>6. pc[s] = "next" /\ pc'[s] = "balance" /\ todo'[s] = todo[s] \ {p}
  BY <1>1 DEF GrantProduct, GoTo, IInv, TypeOK
<1>7. TakesProduct(s, p)
  BY <1>1, <1>3, <1>5, <1>6 DEF TakesProduct
<1> QED
  BY <1>3, <1>5, <1>6, <1>7 DEF GrantsOf, Funding, Moving

-----------------------------------------------------------------------------
(* What the handler of a payment sees after a step of its own.             *)

LEMMA OwnSeesSame ==
    ASSUME IInv, NEW s \in Sessions, UNCHANGED storeVars \/ WritesNoRow(s) \/ Commit(s)
    PROVE  SameGrants(s)
<1> SUFFICES ASSUME NEW a \in Account, NEW reference \in References
             PROVE  Granted(Visible(s, a), reference)' = Granted(Visible(s, a), reference)
  BY DEF SameGrants
<1>1. CASE UNCHANGED storeVars
  BY <1>1 DEF storeVars, Visible, Granted, GrantRows
<1>2. CASE WritesNoRow(s)
  <2>1. (Visible(s, a).entries)' = Visible(s, a).entries
    BY <1>2, WriteSees DEF IInv, WritesNoRow
  <2> QED
    BY <2>1 DEF Granted, GrantRows
<1>3. CASE Commit(s)
  <2>1. Visible(s, a)' = Visible(s, a)
    BY <1>3, CommitSees DEF IInv
  <2> QED
    BY <2>1 DEF Granted, GrantRows
<1> QED
  BY <1>1, <1>2, <1>3

(* Nothing is granted and nothing is taken off the list. *)
LEMMA SteadySeen ==
    ASSUME NEW s \in Sessions, SeenOf(s), SameGrants(s), pc[s] # "abort",
           Funding(s)' <=> Funding(s),
           Funding(s) => /\ call'[s] = call[s] /\ todo'[s] = todo[s]
                         /\ \A a \in Account : InProgress(s, a)' = InProgress(s, a)
    PROVE  SeenOf(s)'
<1> SUFFICES ASSUME NEW reference \in References
             PROVE  IF Funding(s)' /\ call'[s].reference = reference
                    THEN HalfGranted(s, reference)'
                    ELSE NoneGranted(s, reference)' \/ AllGranted(s, reference)'
  BY DEF SeenOf
<1>1. \A a \in Account :
         Granted(Visible(s, a), reference)' = Granted(Visible(s, a), reference)
  BY DEF SameGrants
<1>2. CASE Funding(s) /\ call[s].reference = reference
  <2>1. HalfGranted(s, reference)
    BY <1>2 DEF SeenOf
  <2>2. HalfGranted(s, reference)'
    BY <1>1, <1>2, <2>1 DEF HalfGranted, Bought
  <2> QED
    BY <1>2, <2>2
<1>3. CASE ~(Funding(s) /\ call[s].reference = reference)
  <2>1. NoneGranted(s, reference) \/ AllGranted(s, reference)
    BY <1>3 DEF SeenOf
  <2>2. NoneGranted(s, reference)' \/ AllGranted(s, reference)'
    BY <1>1, <2>1 DEF NoneGranted, AllGranted
  <2> QED
    BY <1>3, <2>2
<1> QED
  BY <1>2, <1>3

(* After a rollback it sees what is committed. *)
LEMMA RollbackSeen ==
    ASSUME IInv, CommittedWhole, NEW s \in Sessions, Rollback(s), ~Funding(s)'
    PROVE  SeenOf(s)'
<1>1. \A a \in Account : Visible(s, a)' = committed[a]
  BY RollbackSees DEF IInv
<1>2. ASSUME NEW reference \in References
      PROVE  NoneGranted(s, reference)' \/ AllGranted(s, reference)'
  BY <1>1 DEF CommittedWhole, NoneCommitted, AllCommitted, NoneGranted, AllGranted
<1> QED
  BY <1>2 DEF SeenOf

(* The reference is not found: all that was bought is still to be granted. *)
LEMMA FetchSeen ==
    ASSUME NEW s \in Sessions, IInv, GrantsOf(s), SeenOf(s), GetProducts(s)
    PROVE  SeenOf(s)'
<1>1. PICK r \in References : r = call[s].reference /\ call[s].customer = PaymentCustomer[r]
  BY DEF GrantsOf, GetProducts
<1>2. /\ ~Funding(s) /\ Funding(s)' /\ call' = call /\ pc[s] # "abort" /\ pc'[s] = "next"
      /\ todo'[s] = PaymentProducts[r]
  BY <1>1, GrantsFetch DEF GetProducts, GoTo, IInv, TypeOK
<1>3. SameGrants(s)
  BY OwnSeesSame DEF GetProducts
<1>4. HalfGranted(s, r)'
  <2> SUFFICES ASSUME NEW a \in Account
               PROVE  Granted(Visible(s, a), r)' + InProgress(s, a)'
                         + Cardinality(Bought(a, call[s].customer, PaymentProducts[r]))
                         = Due(a, r)
    BY <1>2 DEF HalfGranted
  <2>1. InProgress(s, a)' = 0
    BY <1>2 DEF InProgress
  <2>2. Granted(Visible(s, a), r) = 0
    <3>1. \A i \in 1..Len(Visible(s, a).entries) : Visible(s, a).entries[i].reference # r
      BY <1>1 DEF GetProducts, GetTransactionByReference
    <3>2. GrantRows(Visible(s, a).entries, r) = {}
      BY <3>1 DEF GrantRows
    <3> QED
      BY <3>2, FS_EmptySet DEF Granted
  <2>3. Granted(Visible(s, a), r)' = 0
    BY <1>3, <2>2 DEF SameGrants
  <2> QED
    BY <1>1, <2>1, <2>3, BoughtIsDue
<1>5. ASSUME NEW reference \in References
      PROVE  NoneGranted(s, reference)' \/ AllGranted(s, reference)'
                \/ reference = r
  <2>1. NoneGranted(s, reference) \/ AllGranted(s, reference)
    BY <1>2 DEF SeenOf
  <2> QED
    BY <1>3, <2>1 DEF NoneGranted, AllGranted, SameGrants
<1> QED
  BY <1>1, <1>2, <1>4, <1>5 DEF SeenOf

(* A product goes from the list into the movement in progress. *)
LEMMA TakeSeen ==
    ASSUME NEW s \in Sessions, IInv, GrantsOf(s), SeenOf(s), GrantProduct(s)
    PROVE  SeenOf(s)'
<1>1. PICK p : TakesProduct(s, p)
  BY GrantsTake
<1>2. Funding(s) /\ Funding(s)' /\ pc[s] = "next"
  BY GrantsTake DEF GrantProduct
<1>3. PICK r \in References : r = call[s].reference /\ todo[s] \subseteq PaymentProducts[r]
  BY <1>2 DEF GrantsOf
<1>4. SameGrants(s)
  BY OwnSeesSame DEF GrantProduct
<1>5. HalfGranted(s, r) /\ call'[s].reference = r
  BY <1>1, <1>2, <1>3 DEF SeenOf, TakesProduct
<1>6. HalfGranted(s, r)'
  <2> SUFFICES ASSUME NEW a \in Account
               PROVE  Granted(Visible(s, a), r)' + InProgress(s, a)'
                         + Cardinality(Bought(a, call'[s].customer, todo'[s]))
                         = Due(a, r)
    BY DEF HalfGranted
  <2>1. Granted(Visible(s, a), r)' = Granted(Visible(s, a), r)
    BY <1>4 DEF SameGrants
  <2>2. /\ InProgress(s, a) = 0
        /\ InProgress(s, a)' = IF a = <<call[s].customer, p.asset>> THEN 1 ELSE 0
    BY <1>1, <1>2 DEF InProgress, TakesProduct
  <2>3. /\ Bought(a, call'[s].customer, todo'[s]) = Bought(a, call[s].customer, todo[s] \ {p})
        /\ p \in todo[s]
    BY <1>1 DEF TakesProduct
  <2>4. Cardinality(Bought(a, call[s].customer, todo[s])) =
           IF a = <<call[s].customer, p.asset>>
           THEN Cardinality(Bought(a, call[s].customer, todo[s] \ {p})) + 1
           ELSE Cardinality(Bought(a, call[s].customer, todo[s] \ {p}))
    BY <1>3, <2>3, BoughtWithout
  <2>5. Cardinality(Bought(a, call[s].customer, todo[s] \ {p})) \in Nat
    BY <1>3, BoughtIsFinite
  <2>6. Visible(s, a).entries \in Seq(Entry)
    BY VisibleTyped DEF IInv
  <2>7. Granted(Visible(s, a), r) \in Nat
    BY <2>6, GrantedIsNatural DEF Granted
  <2>8. Granted(Visible(s, a), r) + InProgress(s, a)
           + Cardinality(Bought(a, call[s].customer, todo[s])) = Due(a, r)
    BY <1>5 DEF HalfGranted
  <2> QED
    BY <2>1, <2>2, <2>3, <2>4, <2>5, <2>7, <2>8
<1>7. ASSUME NEW reference \in References, reference # r
      PROVE  NoneGranted(s, reference)' \/ AllGranted(s, reference)'
  <2>1. NoneGranted(s, reference) \/ AllGranted(s, reference)
    BY <1>2, <1>3, <1>7 DEF SeenOf
  <2> QED
    BY <1>4, <2>1 DEF NoneGranted, AllGranted, SameGrants
<1> QED
  BY <1>2, <1>5, <1>6, <1>7 DEF SeenOf

(* The ledger row turns the movement in progress into a grant. *)
LEMMA RowSeen ==
    ASSUME NEW s \in Sessions, IInv, GrantsOf(s), SeenOf(s), WriteLedger(s)
    PROVE  GrantsOf(s)' /\ SeenOf(s)'
<1> DEFINE b == call[s].account
           e == LedgerRow(call[s], after[s])
<1>1. b \in Account /\ e \in Entry /\ e.reference = call[s].reference /\ CreateTransaction(s, b, e)
  BY RowOfCall
<1> HIDE DEF e
<1>2. /\ pc[s] = "ledger" /\ call'[s] = call[s] /\ todo'[s] = todo[s]
      /\ pc'[s] = IF call[s].mode = "own" THEN "commit" ELSE "cache"
  BY DEF WriteLedger, GoTo, IInv, TypeOK
<1>3. GrantsOf(s)' /\ (Funding(s)' <=> Funding(s))
  BY <1>2, GrantsGoOn DEF Moving
<1>4. ASSUME NEW a \in Account, NEW reference \in References
      PROVE  /\ Granted(Visible(s, a), reference) \in Nat
             /\ Granted(Visible(s, a), reference)' =
                   IF a = b /\ call[s].reference = reference
                   THEN Granted(Visible(s, a), reference) + 1
                   ELSE Granted(Visible(s, a), reference)
  <2>1. PICK q \in Seq(Entry) : q = Visible(s, a).entries
    BY VisibleTyped DEF IInv
  <2>2. (Visible(s, a).entries)' = IF a = b THEN Append(q, e) ELSE q
    BY <1>1, <2>1, AppendSees DEF IInv
  <2>3. Granted(Visible(s, a), reference)' =
           Cardinality(GrantRows(IF a = b THEN Append(q, e) ELSE q, reference))
    BY <2>2 DEF Granted, GrantRows
  <2>4. Granted(Visible(s, a), reference) = Cardinality(GrantRows(q, reference))
    BY <2>1 DEF Granted
  <2> QED
    BY <1>1, <2>1, <2>3, <2>4, GrantedAppend, GrantedIsNatural
<1>5. ASSUME NEW reference \in References, Funding(s), call[s].reference = reference
      PROVE  HalfGranted(s, reference)'
  <2>1. HalfGranted(s, reference)
    BY <1>2, <1>5 DEF SeenOf
  <2> SUFFICES ASSUME NEW a \in Account
               PROVE  Granted(Visible(s, a), reference)' + InProgress(s, a)'
                         + Cardinality(Bought(a, call[s].customer, todo[s]))
                         = Due(a, reference)
    BY <1>2 DEF HalfGranted
  <2>2. /\ InProgress(s, a) = IF a = b THEN 1 ELSE 0
        /\ InProgress(s, a)' = 0
    BY <1>2 DEF InProgress
  <2>3. Granted(Visible(s, a), reference) + InProgress(s, a)
           + Cardinality(Bought(a, call[s].customer, todo[s])) = Due(a, reference)
    BY <2>1 DEF HalfGranted
  <2>4. Granted(Visible(s, a), reference)' =
           IF a = b THEN Granted(Visible(s, a), reference) + 1
           ELSE Granted(Visible(s, a), reference)
    BY <1>4, <1>5
  <2>5. Granted(Visible(s, a), reference) \in Nat
    BY <1>4
  <2> HIDE DEF b
  <2> QED
    BY <2>2, <2>3, <2>4, <2>5
<1>6. ASSUME NEW reference \in References, ~(Funding(s) /\ call[s].reference = reference)
      PROVE  NoneGranted(s, reference)' \/ AllGranted(s, reference)'
  <2>1. call[s].reference # reference
    <3>1. ~Funding(s) => call[s].op \in {"charge", "refund"}
      BY <1>2 DEF IInv, LocalsInv, LocalsOf, Funding, Moving, Movements
    <3> QED
      BY <1>2, <1>6, <3>1, NoneIsNoId DEF GrantsOf, Moving
  <2>2. NoneGranted(s, reference) \/ AllGranted(s, reference)
    BY <1>2, <1>6 DEF SeenOf
  <2>3. \A a \in Account : Granted(Visible(s, a), reference)' = Granted(Visible(s, a), reference)
    BY <1>4, <2>1
  <2> QED
    BY <2>2, <2>3 DEF NoneGranted, AllGranted
<1> QED
  BY <1>2, <1>3, <1>5, <1>6 DEF SeenOf

(* Nothing is left on the list: the payment is granted as a whole. *)
LEMMA DoneSeen ==
    ASSUME NEW s \in Sessions, IInv, GrantsOf(s), SeenOf(s), FundDone(s)
    PROVE  GrantsOf(s)' /\ SeenOf(s)'
<1>1. pc[s] = "next" /\ todo[s] = {} /\ Return(s)
  BY DEF FundDone
<1>2. GrantsOf(s)' /\ ~Funding(s)'
  BY <1>1, GrantsClear DEF Return
<1>3. SameGrants(s)
  BY OwnSeesSame DEF FundDone
<1>4. ASSUME NEW reference \in References
      PROVE  NoneGranted(s, reference) \/ AllGranted(s, reference)
  <2>1. CASE call[s].reference = reference
    <3>1. HalfGranted(s, reference)
      BY <1>1, <2>1 DEF SeenOf, Funding
    <3>2. ASSUME NEW a \in Account PROVE Granted(Visible(s, a), reference) = Due(a, reference)
      <4>1. InProgress(s, a) = 0
        BY <1>1 DEF InProgress
      <4>2. Cardinality(Bought(a, call[s].customer, todo[s])) = 0
        BY <1>1, FS_EmptySet DEF Bought
      <4>3. Visible(s, a).entries \in Seq(Entry)
        BY VisibleTyped DEF IInv
      <4>4. Granted(Visible(s, a), reference) \in Nat
        BY <4>3, GrantedIsNatural DEF Granted
      <4>5. Granted(Visible(s, a), reference) + InProgress(s, a)
               + Cardinality(Bought(a, call[s].customer, todo[s])) = Due(a, reference)
        BY <3>1 DEF HalfGranted
      <4> QED
        BY <4>1, <4>2, <4>4, <4>5
    <3> QED
      BY <3>2 DEF AllGranted
  <2>2. CASE call[s].reference # reference
    BY <1>1, <2>2 DEF SeenOf
  <2> QED
    BY <2>1, <2>2
<1>5. \A reference \in References : NoneGranted(s, reference)' \/ AllGranted(s, reference)'
  BY <1>3, <1>4 DEF NoneGranted, AllGranted, SameGrants
<1> QED
  BY <1>2, <1>5 DEF SeenOf

(* One await of a movement to the next, without a ledger row. *)
LEMMA GoOnSeen ==
    ASSUME NEW s \in Sessions, IInv, GrantsOf(s), SeenOf(s),
           \/ Deduct(s) \/ Restore(s) \/ ResetQuota(s) \/ Insert(s)
           \/ FindNoRow(s) \/ CommitOwn(s) \/ (UpdateView(s) /\ ~Return(s))
    PROVE  GrantsOf(s)' /\ SeenOf(s)'
<1>1. CASE Deduct(s) \/ Restore(s) \/ ResetQuota(s) \/ Insert(s) \/ FindNoRow(s)
  <2>1. /\ pc[s] \in {"balance", "insert"} /\ pc'[s] \in {"insert", "ledger"}
        /\ call'[s] = call[s] /\ todo'[s] = todo[s]
    BY <1>1 DEF Deduct, Restore, ResetQuota, Insert, FindNoRow, Continue, GoTo, IInv, TypeOK
  <2>2. SameGrants(s)
    BY <1>1, MovesWriteNoRow, OwnSeesSame DEF FindNoRow
  <2>3. GrantsOf(s)' /\ (Funding(s)' <=> Funding(s))
    BY <2>1, GrantsGoOn DEF Moving
  <2>4. \A a \in Account : InProgress(s, a)' = InProgress(s, a)
    BY <2>1 DEF InProgress
  <2> QED
    BY <2>1, <2>2, <2>3, <2>4, SteadySeen
<1>2. CASE CommitOwn(s)
  <2>1. pc[s] = "commit" /\ pc'[s] = "cache" /\ call'[s] = call[s] /\ todo'[s] = todo[s]
    BY <1>2 DEF CommitOwn, GoTo, IInv, TypeOK
  <2>2. SameGrants(s)
    BY <1>2, OwnSeesSame DEF CommitOwn
  <2>3. GrantsOf(s)' /\ (Funding(s)' <=> Funding(s))
    BY <2>1, GrantsGoOn DEF Moving
  <2>4. \A a \in Account : InProgress(s, a)' = InProgress(s, a)
    BY <2>1 DEF InProgress
  <2> QED
    BY <2>1, <2>2, <2>3, <2>4, SteadySeen
<1>3. CASE UpdateView(s) /\ ~Return(s)
  <2>1. /\ pc[s] = "cache" /\ call'[s] = call[s] /\ todo'[s] = todo[s]
        /\ pc'[s] = IF call[s].op = "charge" THEN "stats" ELSE "next"
        /\ call[s].op # "refund"
    BY <1>3 DEF UpdateView, GoTo, IInv, TypeOK
  <2>2. SameGrants(s)
    BY <1>3, OwnSeesSame DEF UpdateView
  <2>3. GrantsOf(s)' /\ (Funding(s)' <=> Funding(s))
    <3>1. CASE call[s].op = "charge"
      BY <2>1, <3>1, GrantsGoOn DEF Moving
    <3>2. CASE call[s].op # "charge"
      <4>1. call[s].op \in {"top_up", "monthly_quota"}
        BY <2>1, <3>2 DEF IInv, LocalsInv, LocalsOf, Moving, Movements
      <4> QED
        BY <2>1, <3>2, <4>1 DEF GrantsOf, Funding, Moving
    <3> QED
      BY <3>1, <3>2
  <2>4. \A a \in Account : InProgress(s, a)' = InProgress(s, a)
    BY <2>1 DEF InProgress
  <2> QED
    BY <2>1, <2>2, <2>3, <2>4, SteadySeen
<1> QED
  BY <1>1, <1>2, <1>3

(* A call that is no delivery returns, or an exception leaves any call. *)
LEMMA ReturnSeen ==
    ASSUME NEW s \in Sessions, IInv, GrantsOf(s), SeenOf(s),
           NEW label \in {"idle", "open", "abort"}, Clear(s, label),
           \/ label = "abort"
           \/ /\ ~Funding(s) /\ pc[s] # "abort"
              /\ UNCHANGED storeVars \/ WritesNoRow(s) \/ Commit(s)
    PROVE  GrantsOf(s)' /\ SeenOf(s)'
<1>1. GrantsOf(s)' /\ ~Funding(s)' /\ pc'[s] = label
  BY GrantsClear
<1>2. CASE label = "abort"
  BY <1>1, <1>2 DEF SeenOf
<1>3. CASE ~Funding(s) /\ pc[s] # "abort" /\ (UNCHANGED storeVars \/ WritesNoRow(s) \/ Commit(s))
  BY <1>1, <1>3, OwnSeesSame, SteadySeen
<1> QED
  BY <1>1, <1>2, <1>3

LEMMA OwnPayment ==
    ASSUME NEW s \in Sessions, IInv, GrantsOf(s), CommittedWhole, SeenOf(s), Acts(s)
    PROVE  GrantsOf(s)' /\ SeenOf(s)'
<1> USE DEF Return
<1>1. CASE BeginCharge(s) \/ BeginRefund(s) \/ BeginFund(s) \/ BeginRefresh(s)
  <2>1. UNCHANGED storeVars
    BY <1>1 DEF BeginCharge, BeginRefund, BeginMovement, BeginFund, Begin, BeginRefresh
  <2> QED
    BY <1>1, <2>1, GrantsBegin, OwnSeesSame, SteadySeen
<1>2. CASE \/ Deduct(s) \/ Restore(s) \/ ResetQuota(s) \/ Insert(s)
           \/ FindNoRow(s) \/ CommitOwn(s) \/ (UpdateView(s) /\ ~Return(s))
  BY <1>2, GoOnSeen
<1>3. CASE UpdateView(s) /\ Return(s)
  <2>1. pc[s] = "cache" /\ call[s].op \notin {"top_up", "monthly_quota"} /\ UNCHANGED storeVars
    <3>1. pc[s] = "cache" /\ UNCHANGED storeVars
      BY <1>3 DEF UpdateView
    <3>2. call'[s] = NoCall /\ pc'[s] \in {"idle", "open"}
      BY <1>3, ReturnEffect DEF IInv
    <3>3. call[s].op \in {"top_up", "monthly_quota"} => pc'[s] = "next"
      BY <1>3 DEF UpdateView, GoTo, IInv, TypeOK
    <3> QED
      BY <3>1, <3>2, <3>3
  <2>2. ~Funding(s)
    BY <2>1 DEF Funding
  <2> QED
    BY <1>3, <2>1, <2>2, ReturnSeen
<1>4. CASE WriteLedger(s)
  BY <1>4, RowSeen
<1>5. CASE FundDone(s)
  BY <1>5, DoneSeen
<1>6. CASE GetProducts(s)
  BY <1>6, FetchSeen, GrantsFetch
<1>7. CASE GrantProduct(s)
  BY <1>7, TakeSeen, GrantsTake
<1>8. CASE Refuse(s)
  <2>1. ~Funding(s) /\ pc[s] # "abort"
    BY <1>8 DEF Refuse, Funding
  <2>2. \E label \in {"abort", "open"} : Clear(s, label)
    BY <1>8 DEF Refuse
  <2> QED
    BY <1>8, <2>1, <2>2, RefusalWritesNoRow, ReturnSeen
<1>9. CASE IntegrityError(s)
  <2>1. pc'[s] = "abort"
    BY <1>9 DEF IntegrityError, GoTo, IInv, TypeOK
  <2> QED
    BY <2>1 DEF GrantsOf, SeenOf, Funding, Moving
<1>10. CASE UnknownStrategy(s) \/ DeadlockVictim(s)
  BY <1>10, ReturnSeen DEF UnknownStrategy, DeadlockVictim
<1>11. CASE Refresh(s) \/ CountSpend(s) \/ CheckReference(s) \/ CommitCaller(s)
  <2>1. ~Funding(s) /\ pc[s] # "abort"
    BY <1>11 DEF Refresh, CountSpend, CheckReference, CommitCaller, GrantsOf, Funding, Moving
  <2>2. UNCHANGED storeVars \/ Commit(s)
    BY <1>11 DEF Refresh, CountSpend, CheckReference, CommitCaller
  <2>3. Clear(s, "idle") \/ Clear(s, "open")
    BY <1>11 DEF Refresh, CountSpend, CheckReference, CommitCaller
  <2> QED
    BY <2>1, <2>2, <2>3, ReturnSeen
<1>12. CASE CacheFailure(s)
  <2>1. pc[s] # "abort" /\ UNCHANGED storeVars
    BY <1>12 DEF CacheFailure
  <2>2. Clear(s, "abort") \/ (Clear(s, "idle") /\ call[s].mode = "own")
    BY <1>12 DEF CacheFailure
  <2>3. call[s].mode = "own" => ~Funding(s)
    BY DEF GrantsOf
  <2> QED
    BY <2>1, <2>2, <2>3, ReturnSeen
<1>13. CASE Abort(s) \/ Crash(s)
  <2>1. Rollback(s) /\ Clear(s, "idle")
    BY <1>13 DEF Abort, Crash
  <2> QED
    BY <2>1, GrantsClear, RollbackSeen
<1> QED
  BY <1>1, <1>2, <1>3, <1>4, <1>5, <1>6, <1>7, <1>8, <1>9, <1>10, <1>11, <1>12, <1>13
     DEF Acts, Step

-----------------------------------------------------------------------------
(* The inductive invariant of the payments.                                *)

LEMMA PaymentsStart == Init => PaymentsInv
<1> SUFFICES ASSUME Init PROVE PaymentsInv
  OBVIOUS
<1>1. GrantsInv
  BY DEF Init, GrantsInv, GrantsOf, Funding, Moving
<1>2. ASSUME NEW a \in Account
      PROVE  committed[a].entries = <<>> /\ owner[a] = None
  BY DEF Init, StoreInit
<1>3. ForeignInv
  BY <1>2, Constants DEF ForeignInv
<1>4. \A a \in Account, reference \in References : Granted(committed[a], reference) = 0
  <2>1. \A reference : GrantRows(<<>>, reference) = {}
    BY DEF GrantRows
  <2> QED
    BY <1>2, <2>1, FS_EmptySet DEF Granted
<1>5. CommittedWhole
  BY <1>4 DEF CommittedWhole, NoneCommitted
<1>6. ASSUME NEW s \in Sessions PROVE SeenOf(s)
  <2>1. ~Funding(s)
    BY DEF Init, Funding, Moving
  <2>2. \A a \in Account : Visible(s, a) = committed[a]
    BY <1>2, Constants DEF Visible
  <2> QED
    BY <1>4, <2>1, <2>2 DEF SeenOf, NoneGranted
<1> QED
  BY <1>1, <1>3, <1>5, <1>6 DEF PaymentsInv, SeenInv

(* A session that handles no payments sees the grants that are committed. *)
LEMMA ForeignSees ==
    ASSUME PaymentsInv, NEW s \in Sessions \ Funders
    PROVE  SeenOf(s)
<1>1. ~Funding(s)
  BY DEF PaymentsInv, GrantsInv, GrantsOf
<1>2. ASSUME NEW reference \in References
      PROVE  NoneGranted(s, reference) \/ AllGranted(s, reference)
  <2>1. \A a \in Account :
           Granted(Visible(s, a), reference) = Granted(committed[a], reference)
    BY DEF PaymentsInv, ForeignInv, Visible
  <2> QED
    BY <2>1 DEF PaymentsInv, CommittedWhole, NoneCommitted, AllCommitted, NoneGranted, AllGranted
<1> QED
  BY <1>1, <1>2 DEF SeenOf

LEMMA OthersPayment ==
    ASSUME IInv, PaymentsInv, OneFunder, NEW s \in Sessions, Acts(s), NEW t \in Sessions \ {s}
    PROVE  GrantsOf(t)' /\ (t \in Funders => SeenOf(t)')
<1>1. /\ pc'[t] = pc[t] /\ call'[t] = call[t] /\ todo'[t] = todo[t]
  BY ActsLocals DEF IInv, LocalsStay
<1>2. GrantsOf(t)' /\ (Funding(t)' <=> Funding(t))
  BY <1>1 DEF PaymentsInv, GrantsInv, GrantsOf, Funding
<1>3. ASSUME t \in Funders PROVE SeenOf(t)'
  <2>1. s \notin Funders
    BY <1>3 DEF OneFunder
  <2>2. SameGrants(t)
    BY <2>1, OthersSeeGrants DEF PaymentsInv
  <2>3. \A a \in Account : InProgress(t, a)' = InProgress(t, a)
    BY <1>1 DEF InProgress
  <2>4. SeenOf(t)
    BY <1>3 DEF PaymentsInv, SeenInv
  <2>5. CASE pc[t] = "abort"
    BY <1>1, <2>5 DEF SeenOf
  <2>6. CASE pc[t] # "abort"
    BY <1>1, <1>2, <2>2, <2>3, <2>4, <2>6, SteadySeen
  <2> QED
    BY <2>5, <2>6
<1> QED
  BY <1>2, <1>3

LEMMA PaymentsStep ==
    ASSUME OneFunder, IInv, PaymentsInv, [Next]_vars
    PROVE  PaymentsInv'
<1>1. CASE UNCHANGED vars
  BY <1>1 DEF vars, storeVars, viewVars, locals, PaymentsInv, GrantsInv, GrantsOf, Funding,
              ForeignInv, SeenInv, SeenOf, HalfGranted, NoneGranted, AllGranted, InProgress,
              Visible, CommittedWhole, NoneCommitted, AllCommitted, Granted, GrantRows
<1>2. ASSUME NEW s \in Sessions, Acts(s) PROVE PaymentsInv'
  <2>1. GrantsOf(s) /\ SeenOf(s)
    BY ForeignSees DEF PaymentsInv, GrantsInv, SeenInv
  <2>2. GrantsOf(s)' /\ SeenOf(s)'
    BY <1>2, <2>1, OwnPayment DEF PaymentsInv
  <2>3. \A t \in Sessions : GrantsOf(t)' /\ (t \in Funders => SeenOf(t)')
    BY <1>2, <2>2, OthersPayment
  <2>4. ForeignInv' /\ CommittedWhole'
    BY <1>2, ForeignStep, CommittedStep DEF PaymentsInv
  <2> QED
    BY <2>3, <2>4 DEF PaymentsInv, GrantsInv, SeenInv
<1> QED
  BY <1>1, <1>2, NextActs

LEMMA PaymentsHold == ASSUME OneFunder PROVE Spec => []PaymentsInv
<1>1. IInv /\ PaymentsInv /\ [Next]_vars => PaymentsInv'
  BY PaymentsStep
<1> QED
  BY <1>1, PaymentsStart, InvHolds, PTL DEF Spec

(***************************************************************************)
(* If one session handles the webhooks, no account ever gets more grants   *)
(* for a payment than it has bought, however often its events come and     *)
(* wherever a delivery fails (service.py lines 151 to 203).                *)
(***************************************************************************)
THEOREM ServiceFundsOnce ==
    ASSUME OneFunder
    PROVE  Spec => []FundedOnce
<1>1. ASSUME PaymentsInv PROVE FundedOnce
  <2> SUFFICES ASSUME NEW a \in Account, NEW reference \in References
               PROVE  Grants(a, reference) <= Due(a, reference)
    BY DEF FundedOnce
  <2>1. Grants(a, reference) = Granted(committed[a], reference)
    BY DEF Grants, Granted, GrantRows
  <2>2. Due(a, reference) \in Nat
    BY BoughtIsDue
  <2> QED
    BY <1>1, <2>1, <2>2 DEF PaymentsInv, CommittedWhole, NoneCommitted, AllCommitted
<1> QED
  BY <1>1, PaymentsHold, PTL

(***************************************************************************)
(* Under the same condition a payment is granted as a whole or not at all: *)
(* a delivery that fails between two grants leaves nothing behind that     *)
(* would make a later delivery skip the rest.                              *)
(***************************************************************************)
THEOREM ServicePaysWhole ==
    ASSUME OneFunder
    PROVE  Spec => []PaymentWhole
<1>1. ASSUME PaymentsInv PROVE PaymentWhole
  <2> SUFFICES ASSUME NEW reference \in References
               PROVE  \/ \A a \in Account : Grants(a, reference) = 0
                      \/ \A a \in Account : Grants(a, reference) >= Due(a, reference)
    BY DEF PaymentWhole
  <2>1. \A a \in Account : Grants(a, reference) = Granted(committed[a], reference)
    BY DEF Grants, Granted, GrantRows
  <2>2. \A a \in Account : Due(a, reference) \in Nat
    BY BoughtIsDue
  <2> QED
    BY <1>1, <2>1, <2>2 DEF PaymentsInv, CommittedWhole, NoneCommitted, AllCommitted
<1> QED
  BY <1>1, PaymentsHold, PTL
=============================================================================
