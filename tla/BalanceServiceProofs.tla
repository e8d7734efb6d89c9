------------------------ MODULE BalanceServiceProofs ------------------------
(***************************************************************************)
(* Theorems about BalanceService, for every set of customers, assets,      *)
(* sessions and payments and any number of calls: the state is well typed, *)
(* the committed ledger explains every balance, no account is overdrawn,   *)
(* and what is committed is a LedgerBook; and, if every call runs in a     *)
(* transaction of its own, the cache shows only committed balances and     *)
(* counts no spend that the committed ledger has not taken.                *)
(*                                                                         *)
(* The argument is about the owner of an account.  Between the balance     *)
(* statement and the ledger statement of a movement the owner's version    *)
(* of the account is out of step by exactly that movement (Midway); at any *)
(* other time it is as sound as the committed one, and it always extends   *)
(* the committed history.  A commit finds no account of its session        *)
(* midway, because a session commits only between movements.  For the      *)
(* statistics, each charge that is committed and not yet counted has a     *)
(* row of its own (BackedInv).                                             *)
(***************************************************************************)
EXTENDS BalanceService, StoreLemmas

LEMMA Constants ==
    /\ Amounts \subseteq Nat \ {0}
    /\ PaymentCustomer \in [References -> Customers]
    /\ \A r \in References : PaymentProducts[r] \subseteq Product
    /\ None \notin Sessions
    /\ Opening \in [Account -> Nat]
    /\ SpentCap \in Nat
    /\ Modes \subseteq {"own", "caller"}
BY AmountsArePositive, PaymentsAreTyped, NoneIsNoSession, OpeningIsNatural,
   SpentCapIsNatural, ModesAreKnown

(***************************************************************************)
(* What the locals of a session hold at each of its awaits.                *)
(***************************************************************************)
LocalsOf(s) ==
    /\ pc[s] \in Moving => call[s].account \in Account /\ call[s].op \in Movements
    /\ pc[s] \in Moving /\ call[s].op \in {"top_up", "monthly_quota"} =>
          call[s].customer \in Customers
    /\ pc[s] = "insert" => call[s].op # "charge"
    /\ pc[s] \in {"check", "next", "refresh"} => call[s].customer \in Customers
    /\ pc[s] = "check" => call[s].reference \in References

LocalsInv == \A s \in Sessions : LocalsOf(s)

(* The owner of a has moved its balance and not yet written the ledger row. *)
InMidst(a) == pc[owner[a]] = "ledger" /\ call[owner[a]].account = a

Midway(a) ==
    /\ Chained(a, working[a].entries)
    /\ working[a].amount = after[owner[a]]
    /\ working[a].amount >= 0
    /\ working[a].amount = Moved(Closing(a, working[a].entries), call[owner[a]])

OwnedInv(a) ==
    owner[a] # None =>
        /\ Extends(committed[a].entries, working[a].entries)
        /\ working[a].row
        /\ IF InMidst(a) THEN Midway(a) ELSE Sound(a, working[a])

(* An account without a row has no money, so that an INSERT adds to nothing. *)
CommittedInv(a) ==
    /\ Sound(a, committed[a])
    /\ committed[a].row \/ committed[a].amount = 0

LedgerInv ==
    /\ \A a \in Account : CommittedInv(a)
    /\ \A s \in Sessions : pc[s] = "ledger" => owner[call[s].account] = s
    /\ \A a \in Account : OwnedInv(a)

IInv == TypeOK /\ LocalsInv /\ LedgerInv

-----------------------------------------------------------------------------
(* Typing.                                                                 *)

LEMMA VisibleTyped ==
    ASSUME TypeOK, NEW s \in Sessions, NEW a \in Account
    PROVE  /\ Visible(s, a) \in AccountState
           /\ Visible(s, a).row \in BOOLEAN
           /\ Visible(s, a).amount \in Int
           /\ Visible(s, a).entries \in Seq(Entry)
<1>1. Visible(s, a) \in AccountState
  BY DEF TypeOK, StoreTypeOK, Visible
<1> QED
  BY <1>1 DEF AccountState

LEMMA WriteTyped ==
    ASSUME TypeOK, NEW s \in Sessions, NEW a \in Account, NEW amount \in Int,
           Write(s, a, Reads(s, a, amount))
    PROVE  StoreTypeOK'
<1>1. Reads(s, a, amount) \in AccountState
  BY VisibleTyped DEF Reads, AccountState
<1> QED
  BY <1>1 DEF Write, TypeOK, StoreTypeOK

LEMMA CommitTyped ==
    ASSUME TypeOK, NEW s \in Sessions, Commit(s) \/ Rollback(s)
    PROVE  StoreTypeOK'
<1>1. Released(s) \in [Account -> Sessions \union {None}]
  BY DEF TypeOK, StoreTypeOK, Released
<1>2. CASE Commit(s)
  BY <1>1, <1>2, VisibleTyped DEF Commit, TypeOK, StoreTypeOK
<1>3. CASE Rollback(s)
  BY <1>1, <1>3 DEF Rollback, TypeOK, StoreTypeOK
<1> QED
  BY <1>2, <1>3

LEMMA ClearTyped ==
    ASSUME TypeOK, NEW s \in Sessions, NEW label \in Labels, Clear(s, label)
    PROVE  /\ pc' \in [Sessions -> Labels]
           /\ call' \in [Sessions -> Call]
           /\ after' \in [Sessions -> Int]
           /\ todo' \in [Sessions -> SUBSET Product]
           /\ rows' \in [Sessions -> [Assets -> Int \union {None}]]
           /\ calls' \in Nat
<1>1. NoCall \in Call /\ NoRows \in [Assets -> Int \union {None}]
  BY DEF NoCall, Call, NoRows
<1> QED
  BY <1>1 DEF Clear, GoTo, TypeOK

LEMMA ReturnTyped ==
    ASSUME TypeOK, NEW s \in Sessions, Return(s)
    PROVE  /\ pc' \in [Sessions -> Labels]
           /\ call' \in [Sessions -> Call]
           /\ after' \in [Sessions -> Int]
           /\ todo' \in [Sessions -> SUBSET Product]
           /\ rows' \in [Sessions -> [Assets -> Int \union {None}]]
           /\ calls' \in Nat
BY ClearTyped DEF Return, Labels, Moving

LEMMA BeginTyped ==
    ASSUME TypeOK, NEW s \in Sessions, NEW label \in Labels, NEW request \in Call,
           Begin(s, label, request)
    PROVE  TypeOK'
BY DEF TypeOK, Begin, GoTo, StoreTypeOK, ViewTypeOK, storeVars, viewVars

(* The view keeps its type when a cache call is made. *)
LEMMA ViewTyped ==
    ASSUME TypeOK, NEW a \in Account, NEW amount \in Int
    PROVE  /\ UpdateSingleBalance(a, amount) => ViewTypeOK'
           /\ amount >= 0 /\ IncrementStats(a, amount) => ViewTypeOK'
<1>1. UpdateSingleBalance(a, amount) => ViewTypeOK'
  BY Constants DEF TypeOK, ViewTypeOK, UpdateSingleBalance
<1>2. amount >= 0 /\ IncrementStats(a, amount) => ViewTypeOK'
  BY Constants DEF TypeOK, ViewTypeOK, IncrementStats
<1> QED
  BY <1>1, <1>2

LEMMA MovedIsInt ==
    ASSUME NEW before \in Int, NEW request \in Call
    PROVE  Moved(before, request) \in Int
BY DEF Moved, Call

LEMMA LedgerRowTyped ==
    ASSUME NEW request \in Call, request.op \in Movements, NEW amount \in Int
    PROVE  LedgerRow(request, amount) \in Entry
<1>1. TypeOf(request.op) \in TransactionTypes
  BY DEF TypeOf, Movements, TransactionTypes
<1> QED
  BY <1>1 DEF LedgerRow, Call, Entry

LEMMA BeginMovementTyped ==
    ASSUME TypeOK, NEW s \in Sessions, BeginCharge(s) \/ BeginRefund(s)
    PROVE  TypeOK'
<1>1. PICK op \in {"charge", "refund"} : BeginMovement(s, op)
  BY DEF BeginCharge, BeginRefund
<1>2. PICK a \in Account, amount \in Amounts, mode \in Modes :
        Begin(s, "balance", [NoCall EXCEPT !.op = op, !.account = a,
                                           !.amount = amount, !.mode = mode])
  BY <1>1 DEF BeginMovement
<1>3. [NoCall EXCEPT !.op = op, !.account = a, !.amount = amount, !.mode = mode] \in Call
  BY Constants DEF NoCall, Call, Movements
<1> QED
  BY <1>2, <1>3, BeginTyped DEF Labels, Moving

LEMMA BeginFundTyped ==
    ASSUME TypeOK, NEW s \in Sessions, BeginFund(s)
    PROVE  TypeOK'
<1>1. PICK r \in References :
        Begin(s, "check", [NoCall EXCEPT !.op = "fund", !.reference = r, !.mode = "caller",
                                         !.customer = PaymentCustomer[r]])
  BY DEF BeginFund
<1>2. [NoCall EXCEPT !.op = "fund", !.reference = r, !.mode = "caller",
                     !.customer = PaymentCustomer[r]] \in Call
  BY Constants DEF NoCall, Call
<1> QED
  BY <1>1, <1>2, BeginTyped DEF Labels

LEMMA BeginRefreshTyped ==
    ASSUME TypeOK, NEW s \in Sessions, BeginRefresh(s)
    PROVE  TypeOK'
<1>1. PICK c \in Customers, mode \in Modes :
        /\ calls < MaxCalls
        /\ GoTo(s, "refresh")
        /\ call' = [call EXCEPT ![s] = [NoCall EXCEPT !.op = "refresh", !.customer = c,
                                                      !.mode = mode]]
        /\ rows' = [rows EXCEPT ![s] =
              [asset \in Assets |-> LET account == Visible(s, <<c, asset>>)
                                    IN  IF account.row THEN account.amount ELSE None]]
        /\ calls' = calls + 1
        /\ UNCHANGED <<storeVars, viewVars, after, todo>>
  BY DEF BeginRefresh
<1>2. [NoCall EXCEPT !.op = "refresh", !.customer = c, !.mode = mode] \in Call
  BY Constants DEF NoCall, Call
<1>3. [asset \in Assets |-> LET account == Visible(s, <<c, asset>>)
                            IN  IF account.row THEN account.amount ELSE None]
        \in [Assets -> Int \union {None}]
  BY VisibleTyped DEF Account
<1>4. rows' \in [Sessions -> [Assets -> Int \union {None}]]
  BY <1>1, <1>3 DEF TypeOK
<1>5. call' \in [Sessions -> Call]
  BY <1>1, <1>2 DEF TypeOK
<1> QED
  BY <1>1, <1>4, <1>5
     DEF TypeOK, GoTo, StoreTypeOK, ViewTypeOK, storeVars, viewVars, Labels

LEMMA RefreshTyped ==
    ASSUME TypeOK, LocalsInv, NEW s \in Sessions, Refresh(s)
    PROVE  TypeOK'
<1>1. call[s].customer \in Customers /\ rows[s] \in [Assets -> Int \union {None}]
  BY DEF LocalsInv, LocalsOf, Refresh, TypeOK
<1>2. ViewTypeOK'
  BY <1>1 DEF Refresh, SetBalances, ViewTypeOK, TypeOK, Account
<1> QED
  BY <1>2, ReturnTyped DEF Refresh, TypeOK, StoreTypeOK, storeVars

(* A step that moves the balance also remembers the new one. *)
LEMMA ContinueTyped ==
    ASSUME TypeOK, StoreTypeOK', NEW s \in Sessions, call[s].account \in Account,
           Continue(s, "ledger")
    PROVE  TypeOK'
<1>1. Moved(Visible(s, call[s].account).amount, call[s]) \in Int
  BY VisibleTyped, MovedIsInt DEF TypeOK
<1> QED
  BY <1>1 DEF Continue, GoTo, TypeOK, ViewTypeOK, viewVars, Labels, Moving

LEMMA MovementTyped ==
    ASSUME TypeOK, LocalsInv, NEW s \in Sessions,
           Deduct(s) \/ Restore(s) \/ ResetQuota(s) \/ Insert(s)
    PROVE  TypeOK'
<1> DEFINE a == call[s].account
           x == call[s].amount
<1>1. a \in Account /\ x \in Nat /\ Visible(s, a).amount \in Int
  BY VisibleTyped
     DEF LocalsInv, LocalsOf, TypeOK, Call, Deduct, Restore, ResetQuota, Insert, Moving
<1>2. \E amount \in Int : Write(s, a, Reads(s, a, amount))
  BY <1>1 DEF Deduct, Restore, ResetQuota, Insert,
              DecrementBalance, IncrementBalance, UpsertBalance, InsertBalance
<1>3. StoreTypeOK'
  BY <1>1, <1>2, WriteTyped
<1> QED
  BY <1>1, <1>3, ContinueTyped DEF Deduct, Restore, ResetQuota, Insert

LEMMA WriteLedgerTyped ==
    ASSUME TypeOK, LocalsInv, NEW s \in Sessions, WriteLedger(s)
    PROVE  TypeOK'
<1> DEFINE a == call[s].account
           e == LedgerRow(call[s], after[s])
<1>1. a \in Account /\ e \in Entry
  BY LedgerRowTyped DEF LocalsInv, LocalsOf, TypeOK, WriteLedger, Moving
<1>2. working' = [working EXCEPT ![a].entries = Append(@, e)] /\ UNCHANGED <<committed, owner>>
  BY DEF WriteLedger, CreateTransaction
<1> HIDE DEF a, e
<1>3. working[a] \in AccountState
  BY <1>1 DEF TypeOK, StoreTypeOK
<1>4. [working[a] EXCEPT !.entries = Append(@, e)] \in AccountState
  BY <1>1, <1>3 DEF AccountState
<1>5. StoreTypeOK'
  BY <1>1, <1>2, <1>4 DEF TypeOK, StoreTypeOK
<1> QED
  BY <1>5 DEF WriteLedger, GoTo, TypeOK, ViewTypeOK, viewVars, Labels, Moving

LEMMA RefuseTyped ==
    ASSUME TypeOK, LocalsInv, NEW s \in Sessions, Refuse(s)
    PROVE  TypeOK'
<1> DEFINE a == call[s].account
<1>1. a \in Account /\ Visible(s, a) \in AccountState
  BY VisibleTyped DEF LocalsInv, LocalsOf, Refuse, Moving
<1>2. StoreTypeOK'
  <2>1. CASE UNCHANGED storeVars
    BY <2>1 DEF TypeOK, StoreTypeOK, storeVars
  <2>2. CASE Write(s, a, Visible(s, a))
    BY <1>1, <2>2 DEF Write, TypeOK, StoreTypeOK
  <2> QED
    BY <2>1, <2>2 DEF Refuse, DecrementRefused
<1>3. Clear(s, "abort") \/ Clear(s, "open")
  BY DEF Refuse
<1> QED
  BY <1>2, <1>3, ClearTyped DEF Refuse, TypeOK, ViewTypeOK, viewVars, Labels

LEMMA CacheStepTyped ==
    ASSUME TypeOK, LocalsInv, NEW s \in Sessions, UpdateView(s) \/ CountSpend(s)
    PROVE  TypeOK'
<1>1. call[s].account \in Account /\ call[s].amount \in Nat /\ after[s] \in Int
  BY DEF LocalsInv, LocalsOf, TypeOK, Call, UpdateView, CountSpend, Moving
<1>2. ViewTypeOK'
  BY <1>1, ViewTyped DEF UpdateView, CountSpend
<1>3. StoreTypeOK'
  BY DEF UpdateView, CountSpend, storeVars, TypeOK, StoreTypeOK
<1>4. CASE Return(s)
  BY <1>2, <1>3, <1>4, ReturnTyped DEF TypeOK
<1>5. CASE \E label \in {"stats", "next"} : GoTo(s, label) /\ UNCHANGED <<call, after, todo, rows, calls>>
  BY <1>2, <1>3, <1>5 DEF TypeOK, GoTo, Labels, Moving
<1> QED
  BY <1>4, <1>5 DEF UpdateView, CountSpend

LEMMA GrantProductTyped ==
    ASSUME TypeOK, LocalsInv, NEW s \in Sessions, GrantProduct(s)
    PROVE  TypeOK'
<1>1. PICK p \in todo[s] :
        /\ p.strategy # "unknown"
        /\ call' = [call EXCEPT ![s].op = p.strategy, ![s].amount = p.amount,
                                ![s].account = <<call[s].customer, p.asset>>]
        /\ todo' = [todo EXCEPT ![s] = @ \ {p}]
  BY DEF GrantProduct
<1>2. p \in Product /\ call[s] \in Call /\ call[s].customer \in Customers
  BY DEF TypeOK, LocalsInv, LocalsOf, GrantProduct
<1>3. p.strategy \in Movements /\ p.amount \in Nat /\ <<call[s].customer, p.asset>> \in Account
  BY <1>1, <1>2 DEF Product, Strategies, Movements, Account
<1>4. [call[s] EXCEPT !.op = p.strategy, !.amount = p.amount,
                      !.account = <<call[s].customer, p.asset>>] \in Call
  BY <1>2, <1>3 DEF Call
<1>5. call' \in [Sessions -> Call]
  BY <1>1, <1>4 DEF TypeOK
<1>6. todo' \in [Sessions -> SUBSET Product]
  BY <1>1 DEF TypeOK
<1> QED
  BY <1>5, <1>6 DEF GrantProduct, GoTo, TypeOK, StoreTypeOK, ViewTypeOK, storeVars, viewVars,
                    Labels, Moving

LEMMA TypeStep ==
    ASSUME TypeOK, LocalsInv, [Next]_vars
    PROVE  TypeOK'
<1> USE DEF Labels, Moving
<1>1. CASE UNCHANGED vars
  BY <1>1 DEF vars, locals, TypeOK, StoreTypeOK, ViewTypeOK, storeVars, viewVars
<1>2. ASSUME NEW s \in Sessions, BeginCharge(s) \/ BeginRefund(s) PROVE TypeOK'
  BY <1>2, BeginMovementTyped
<1>3. ASSUME NEW s \in Sessions, BeginFund(s) PROVE TypeOK'
  BY <1>3, BeginFundTyped
<1>4. ASSUME NEW s \in Sessions, BeginRefresh(s) PROVE TypeOK'
  BY <1>4, BeginRefreshTyped
<1>5. ASSUME NEW s \in Sessions, Refresh(s) PROVE TypeOK'
  BY <1>5, RefreshTyped
<1>6. ASSUME NEW s \in Sessions, Deduct(s) \/ Restore(s) \/ ResetQuota(s) \/ Insert(s)
      PROVE TypeOK'
  BY <1>6, MovementTyped
<1>7. ASSUME NEW s \in Sessions, Refuse(s) PROVE TypeOK'
  BY <1>7, RefuseTyped
<1>8. ASSUME NEW s \in Sessions, FindNoRow(s) \/ IntegrityError(s) PROVE TypeOK'
  BY <1>8 DEF FindNoRow, IntegrityError, InsertConflict, GoTo, TypeOK, StoreTypeOK, ViewTypeOK,
              storeVars, viewVars
<1>9. ASSUME NEW s \in Sessions, WriteLedger(s) PROVE TypeOK'
  BY <1>9, WriteLedgerTyped
<1>10. ASSUME NEW s \in Sessions, CommitOwn(s) PROVE TypeOK'
  BY <1>10, CommitTyped DEF CommitOwn, GoTo, TypeOK, ViewTypeOK, viewVars
<1>11. ASSUME NEW s \in Sessions, UpdateView(s) \/ CountSpend(s) PROVE TypeOK'
  BY <1>11, CacheStepTyped
<1>12. ASSUME NEW s \in Sessions, GetProducts(s) PROVE TypeOK'
  <2>1. PaymentProducts[call[s].reference] \subseteq Product
    BY <1>12, Constants DEF GetProducts, LocalsInv, LocalsOf
  <2> QED
    BY <1>12, <2>1 DEF GetProducts, GoTo, TypeOK, StoreTypeOK, ViewTypeOK, storeVars, viewVars
<1>13. ASSUME NEW s \in Sessions, GrantProduct(s) PROVE TypeOK'
  BY <1>13, GrantProductTyped
<1>14. ASSUME NEW s \in Sessions,
              CheckReference(s) \/ FundDone(s) \/ UnknownStrategy(s) \/ CacheFailure(s)
                \/ DeadlockVictim(s)
       PROVE TypeOK'
  <2>1. \/ Return(s)
        \/ \E label \in {"idle", "abort"} : Clear(s, label)
    BY <1>14 DEF CheckReference, FundDone, UnknownStrategy, CacheFailure, DeadlockVictim
  <2>2. UNCHANGED <<storeVars, viewVars>>
    BY <1>14 DEF CheckReference, FundDone, UnknownStrategy, CacheFailure, DeadlockVictim
  <2> QED
    BY <2>1, <2>2, ReturnTyped, ClearTyped
       DEF TypeOK, StoreTypeOK, ViewTypeOK, storeVars, viewVars
<1>15. ASSUME NEW s \in Sessions, CommitCaller(s) \/ Abort(s) \/ Crash(s) PROVE TypeOK'
  BY <1>15, CommitTyped, ClearTyped
     DEF CommitCaller, Abort, Crash, TypeOK, ViewTypeOK, viewVars
<1> QED
  BY <1>1, <1>2, <1>3, <1>4, <1>5, <1>6, <1>7, <1>8, <1>9, <1>10, <1>11, <1>12, <1>13,
     <1>14, <1>15 DEF Next, Step, Quiet

-----------------------------------------------------------------------------
(* The locals of the sessions.                                             *)

(* A step of s moves the pc and the arguments of s alone. *)
OthersKeep(s) ==
    \A t \in Sessions \ {s} : pc'[t] = pc[t] /\ call'[t] = call[t] /\ after'[t] = after[t]

LEMMA ClearEffect ==
    ASSUME TypeOK, NEW s \in Sessions, NEW label, Clear(s, label)
    PROVE  OthersKeep(s) /\ pc'[s] = label /\ call'[s] = NoCall
BY DEF Clear, GoTo, OthersKeep, TypeOK

LEMMA ReturnEffect ==
    ASSUME TypeOK, NEW s \in Sessions, Return(s)
    PROVE  OthersKeep(s) /\ pc'[s] \in {"idle", "open"} /\ call'[s] = NoCall
<1>1. \E label \in {"idle", "open"} : Clear(s, label)
  BY DEF Return
<1> QED
  BY <1>1, ClearEffect

LEMMA BeginEffect ==
    ASSUME TypeOK, NEW s \in Sessions, NEW label, NEW request, Begin(s, label, request)
    PROVE  /\ OthersKeep(s) /\ pc[s] \in {"idle", "open"}
           /\ pc'[s] = label /\ call'[s] = request
           /\ UNCHANGED storeVars
BY DEF Begin, GoTo, OthersKeep, TypeOK

(* A step that only moves on within its call. *)
LEMMA GoToEffect ==
    ASSUME TypeOK, NEW s \in Sessions, NEW label, GoTo(s, label), UNCHANGED <<call, after>>
    PROVE  OthersKeep(s) /\ pc'[s] = label /\ call'[s] = call[s]
BY DEF GoTo, OthersKeep, TypeOK

LEMMA ContinueEffect ==
    ASSUME TypeOK, NEW s \in Sessions, Continue(s, "ledger")
    PROVE  /\ OthersKeep(s) /\ pc'[s] = "ledger" /\ call'[s] = call[s]
           /\ after'[s] = Moved(Visible(s, call[s].account).amount, call[s])
BY DEF Continue, GoTo, OthersKeep, TypeOK

LEMMA LocalsFrame ==
    ASSUME LocalsInv, NEW s \in Sessions, OthersKeep(s), LocalsOf(s)'
    PROVE  LocalsInv'
BY DEF LocalsInv, LocalsOf, OthersKeep

LEMMA BeginMovementLocals ==
    ASSUME TypeOK, NEW s \in Sessions, BeginCharge(s) \/ BeginRefund(s)
    PROVE  OthersKeep(s) /\ LocalsOf(s)' /\ pc[s] \in {"idle", "open"} /\ pc'[s] = "balance"
           /\ UNCHANGED storeVars
<1>1. PICK op \in {"charge", "refund"}, a \in Account, amount \in Amounts, mode \in Modes :
        Begin(s, "balance", [NoCall EXCEPT !.op = op, !.account = a,
                                           !.amount = amount, !.mode = mode])
  BY DEF BeginCharge, BeginRefund, BeginMovement
<1> DEFINE request == [NoCall EXCEPT !.op = op, !.account = a, !.amount = amount, !.mode = mode]
<1>2. request.op = op /\ request.account = a
  BY DEF NoCall
<1>3. pc'[s] = "balance" /\ call'[s] = request
  BY <1>1, BeginEffect
<1> HIDE DEF request
<1>4. LocalsOf(s)'
  BY <1>2, <1>3 DEF LocalsOf, Moving, Movements
<1> QED
  BY <1>1, <1>4, BeginEffect

LEMMA BeginFundLocals ==
    ASSUME TypeOK, NEW s \in Sessions, BeginFund(s)
    PROVE  OthersKeep(s) /\ LocalsOf(s)' /\ pc[s] \in {"idle", "open"} /\ pc'[s] = "check"
           /\ UNCHANGED storeVars
<1>1. PICK r \in References :
        Begin(s, "check", [NoCall EXCEPT !.op = "fund", !.reference = r, !.mode = "caller",
                                         !.customer = PaymentCustomer[r]])
  BY DEF BeginFund
<1> DEFINE request == [NoCall EXCEPT !.op = "fund", !.reference = r, !.mode = "caller",
                                     !.customer = PaymentCustomer[r]]
<1>2. request.reference = r /\ request.customer = PaymentCustomer[r]
  BY DEF NoCall
<1>3. pc'[s] = "check" /\ call'[s] = request
  BY <1>1, BeginEffect
<1> HIDE DEF request
<1>4. LocalsOf(s)'
  BY <1>2, <1>3, Constants DEF LocalsOf, Moving
<1> QED
  BY <1>1, <1>4, BeginEffect

LEMMA BeginRefreshLocals ==
    ASSUME TypeOK, NEW s \in Sessions, BeginRefresh(s)
    PROVE  OthersKeep(s) /\ LocalsOf(s)' /\ pc[s] \in {"idle", "open"} /\ pc'[s] = "refresh"
           /\ UNCHANGED storeVars
<1>1. PICK c \in Customers, mode \in Modes :
        call' = [call EXCEPT ![s] = [NoCall EXCEPT !.op = "refresh", !.customer = c,
                                                   !.mode = mode]]
  BY DEF BeginRefresh
<1> DEFINE request == [NoCall EXCEPT !.op = "refresh", !.customer = c, !.mode = mode]
<1>2. request.customer = c
  BY DEF NoCall
<1>3. pc'[s] = "refresh" /\ call'[s] = request
  BY <1>1 DEF BeginRefresh, GoTo, TypeOK
<1>4. OthersKeep(s)
  BY <1>1 DEF BeginRefresh, GoTo, OthersKeep, TypeOK
<1> HIDE DEF request
<1>5. LocalsOf(s)'
  BY <1>2, <1>3 DEF LocalsOf, Moving
<1> QED
  BY <1>3, <1>4, <1>5 DEF BeginRefresh

-----------------------------------------------------------------------------
(* The ledger.                                                             *)

(* Between two movements everything a session sees is sound. *)
LEMMA VisibleSound ==
    ASSUME TypeOK, LedgerInv, NEW s \in Sessions, NEW a \in Account, pc[s] # "ledger"
    PROVE  /\ Sound(a, Visible(s, a))
           /\ Extends(committed[a].entries, Visible(s, a).entries)
           /\ committed[a].row => Visible(s, a).row
           /\ Visible(s, a).row \/ Visible(s, a).amount = 0
<1>1. committed[a].entries \in Seq(Entry)
  BY DEF TypeOK, StoreTypeOK, AccountState
<1>2. CASE owner[a] = s
  BY <1>2, Constants DEF LedgerInv, OwnedInv, InMidst, Visible
<1>3. CASE owner[a] # s
  BY <1>1, <1>3, ExtendsItself DEF LedgerInv, CommittedInv, Visible
<1> QED
  BY <1>2, <1>3

(* What another session owns is not touched by a step of s. *)
LEMMA OthersOwned ==
    ASSUME TypeOK, LedgerInv, NEW s \in Sessions, OthersKeep(s), NEW a \in Account,
           owner[a] # s, owner'[a] = owner[a], working'[a] = working[a],
           committed'[a] = committed[a]
    PROVE  OwnedInv(a)'
<1> SUFFICES ASSUME owner[a] # None PROVE OwnedInv(a)'
  BY DEF OwnedInv
<1>1. owner[a] \in Sessions \ {s}
  BY DEF TypeOK, StoreTypeOK
<1>2. /\ pc'[owner'[a]] = pc[owner[a]]
      /\ call'[owner'[a]] = call[owner[a]]
      /\ after'[owner'[a]] = after[owner[a]]
  BY <1>1 DEF OthersKeep
<1>3. InMidst(a)' = InMidst(a)
  BY <1>2 DEF InMidst
<1>4. Midway(a)' = Midway(a)
  BY <1>2 DEF Midway
<1>5. OwnedInv(a)
  BY DEF LedgerInv
<1> QED
  BY <1>3, <1>4, <1>5 DEF OwnedInv

LEMMA LedgerFrame ==
    ASSUME TypeOK, LedgerInv, NEW s \in Sessions, OthersKeep(s), UNCHANGED storeVars,
           pc[s] # "ledger", pc'[s] # "ledger"
    PROVE  LedgerInv'
<1> USE DEF storeVars
<1>1. \A a \in Account : CommittedInv(a)'
  BY DEF LedgerInv, CommittedInv
<1>2. \A t \in Sessions : pc'[t] = "ledger" => owner'[call'[t].account] = t
  BY DEF LedgerInv, OthersKeep
<1>3. ASSUME NEW a \in Account PROVE OwnedInv(a)'
  <2>1. CASE owner[a] # s
    BY <2>1, OthersOwned
  <2>2. CASE owner[a] = s
    BY <2>2, Constants DEF LedgerInv, OwnedInv, InMidst
  <2> QED
    BY <2>1, <2>2
<1> QED
  BY <1>1, <1>2, <1>3 DEF LedgerInv

(* A movement starts: the session sees a sound account and changes its balance. *)
LEMMA MoveBalance ==
    ASSUME TypeOK, LedgerInv, NEW s \in Sessions, OthersKeep(s), NEW a \in Account,
           NEW new \in Int, Lockable(s, a), Write(s, a, Reads(s, a, new)),
           pc[s] # "ledger", pc'[s] = "ledger", call[s].account = a,
           call'[s] = call[s], after'[s] = new,
           new >= 0, new = Moved(Visible(s, a).amount, call[s])
    PROVE  LedgerInv'
<1> DEFINE old == Visible(s, a)
<1>1. /\ old \in AccountState /\ Sound(a, old)
      /\ Extends(committed[a].entries, old.entries)
  BY VisibleTyped, VisibleSound
<1>2. /\ Reads(s, a, new).entries = old.entries
      /\ Reads(s, a, new).amount = new
      /\ Reads(s, a, new).row
  BY <1>1 DEF Reads, AccountState
<1>3. /\ committed' = committed
      /\ working'[a] = Reads(s, a, new) /\ owner'[a] = s
      /\ \A b \in Account \ {a} : working'[b] = working[b] /\ owner'[b] = owner[b]
  BY DEF Write, TypeOK, StoreTypeOK
<1> HIDE DEF old
<1>4. OwnedInv(a)'
  <2>1. InMidst(a)'
    BY <1>3 DEF InMidst
  <2>2. Midway(a)'
    BY <1>1, <1>2, <1>3 DEF Midway, Sound, old
  <2> QED
    BY <1>1, <1>2, <1>3, <2>1, <2>2 DEF OwnedInv
<1>5. ASSUME NEW b \in Account \ {a} PROVE OwnedInv(b)'
  <2>1. CASE owner[b] # s
    BY <1>3, <2>1, OthersOwned
  <2>2. CASE owner[b] = s
    <3>1. Sound(b, working[b]) /\ ~InMidst(b)'
      BY <1>3, <2>2, Constants DEF LedgerInv, OwnedInv, InMidst
    <3> QED
      BY <1>3, <2>2, <3>1, Constants DEF LedgerInv, OwnedInv
  <2> QED
    BY <2>1, <2>2
<1>6. ASSUME NEW t \in Sessions, pc'[t] = "ledger" PROVE owner'[call'[t].account] = t
  <2>1. CASE t = s
    BY <1>3, <2>1
  <2>2. CASE t # s
    <3>1. pc[t] = "ledger" /\ call'[t] = call[t] /\ owner[call[t].account] = t
      BY <1>6, <2>2 DEF OthersKeep, LedgerInv
    <3>2. call[t].account # a
      BY <2>2, <3>1, Constants DEF Lockable
    <3> QED
      BY <1>3, <3>1, <3>2 DEF Write, TypeOK, StoreTypeOK
  <2> QED
    BY <2>1, <2>2
<1>7. \A b \in Account : CommittedInv(b)'
  BY <1>3 DEF LedgerInv, CommittedInv
<1> QED
  BY <1>4, <1>5, <1>6, <1>7 DEF LedgerInv

(* A refused charge keeps the lock of the row that it has read. *)
LEMMA LockRow ==
    ASSUME TypeOK, LedgerInv, NEW s \in Sessions, OthersKeep(s), NEW a \in Account,
           FindsRow(s, a), Lockable(s, a), Write(s, a, Visible(s, a)),
           pc[s] # "ledger", pc'[s] # "ledger"
    PROVE  LedgerInv'
<1>1. /\ committed' = committed
      /\ working'[a] = Visible(s, a) /\ owner'[a] = s
      /\ \A b \in Account \ {a} : working'[b] = working[b] /\ owner'[b] = owner[b]
  BY DEF Write, TypeOK, StoreTypeOK
<1>2. OwnedInv(a)'
  BY <1>1, VisibleSound DEF OwnedInv, InMidst, FindsRow
<1>3. ASSUME NEW b \in Account \ {a} PROVE OwnedInv(b)'
  <2>1. CASE owner[b] # s
    BY <1>1, <2>1, OthersOwned
  <2>2. CASE owner[b] = s
    BY <1>1, <2>2, Constants DEF LedgerInv, OwnedInv, InMidst
  <2> QED
    BY <2>1, <2>2
<1>4. ASSUME NEW t \in Sessions, pc'[t] = "ledger" PROVE owner'[call'[t].account] = t
  <2>1. t # s /\ pc[t] = "ledger" /\ call'[t] = call[t] /\ owner[call[t].account] = t
    BY <1>4 DEF OthersKeep, LedgerInv
  <2>2. call[t].account # a
    BY <2>1, Constants DEF Lockable
  <2> QED
    BY <2>1, <2>2 DEF Write, TypeOK, StoreTypeOK
<1>5. \A b \in Account : CommittedInv(b)'
  BY <1>1 DEF LedgerInv, CommittedInv
<1> QED
  BY <1>2, <1>3, <1>4, <1>5 DEF LedgerInv

(* A ledger row follows the balance before its movement. *)
LEMMA LedgerRowFollows ==
    ASSUME NEW before \in Int, NEW request \in Call, request.op \in Movements
    PROVE  Follows(before, LedgerRow(request, Moved(before, request)))
BY DEF Follows, LedgerRow, Moved, TypeOf, Movements, Call

(* The ledger row makes the account of the movement sound again. *)
LEMMA WriteRow ==
    ASSUME TypeOK, LocalsInv, LedgerInv, NEW s \in Sessions, OthersKeep(s),
           NEW a \in Account, call[s].account = a, NEW e, e = LedgerRow(call[s], after[s]),
           pc[s] = "ledger", pc'[s] # "ledger", CreateTransaction(s, a, e)
    PROVE  LedgerInv'
<1> DEFINE q == working[a].entries
<1>1. call[s] \in Call /\ call[s].op \in Movements /\ after[s] \in Int
  BY DEF TypeOK, LocalsInv, LocalsOf, Moving
<1>2. e \in Entry /\ working[a] \in AccountState /\ q \in Seq(Entry) /\ Closing(a, q) \in Int
  <2>1. e \in Entry /\ working[a] \in AccountState /\ q \in Seq(Entry)
    BY <1>1, LedgerRowTyped DEF TypeOK, StoreTypeOK, AccountState
  <2>2. \A x \in Entry : x.balance_after \in Int
    BY DEF Entry
  <2> QED
    BY <2>1, <2>2, ClosingIsInt
<1>3. owner[a] = s
  BY DEF LedgerInv
<1>4. Midway(a) /\ Extends(committed[a].entries, q) /\ working[a].row
  BY <1>1, <1>3, Constants DEF LedgerInv, OwnedInv, InMidst
<1>5. after[s] = Moved(Closing(a, q), call[s]) /\ Chained(a, q)
      /\ working[a].amount = after[s] /\ after[s] >= 0
  BY <1>3, <1>4 DEF Midway
<1>6. Follows(Closing(a, q), e) /\ e.balance_after = after[s]
  BY <1>1, <1>2, <1>5, LedgerRowFollows DEF LedgerRow
<1>7. /\ committed' = committed /\ owner' = owner
      /\ working'[a] = [working[a] EXCEPT !.entries = Append(q, e)]
      /\ \A b \in Account \ {a} : working'[b] = working[b]
  BY <1>1 DEF CreateTransaction, TypeOK, StoreTypeOK
<1> HIDE DEF q
<1>8. /\ working'[a].entries = Append(q, e)
      /\ working'[a].amount = working[a].amount
      /\ working'[a].row = working[a].row
  BY <1>2, <1>7 DEF AccountState
<1>9. Sound(a, working'[a])
  BY <1>1, <1>2, <1>5, <1>6, <1>8, ChainedAppend DEF Sound
<1>10. committed[a].entries \in Seq(Entry)
  BY <1>1 DEF TypeOK, StoreTypeOK, AccountState
<1>11. OwnedInv(a)'
  <2>1. ~InMidst(a)'
    BY <1>3, <1>7 DEF InMidst
  <2>2. Extends(committed'[a].entries, working'[a].entries)
    BY <1>2, <1>4, <1>7, <1>8, <1>10, ExtendsAppend
  <2>3. working'[a].row
    BY <1>4, <1>7, <1>8
  <2> QED
    BY <1>9, <2>1, <2>2, <2>3 DEF OwnedInv
<1>12. ASSUME NEW b \in Account \ {a} PROVE OwnedInv(b)'
  <2>1. CASE owner[b] # s
    BY <1>7, <2>1, OthersOwned
  <2>2. CASE owner[b] = s
    <3>1. ~InMidst(b) /\ ~InMidst(b)'
      BY <1>7, <2>2 DEF InMidst
    <3> QED
      BY <1>7, <2>2, <3>1, Constants DEF LedgerInv, OwnedInv
  <2> QED
    BY <2>1, <2>2
<1>13. \A t \in Sessions : pc'[t] = "ledger" => owner'[call'[t].account] = t
  BY <1>7 DEF LedgerInv, OthersKeep
<1>14. \A b \in Account : OwnedInv(b)'
  BY <1>11, <1>12
<1>15. \A b \in Account : CommittedInv(b)'
  BY <1>7 DEF LedgerInv, CommittedInv
<1> QED
  BY <1>13, <1>14, <1>15 DEF LedgerInv

(* A session that is not in the middle of a movement publishes sound accounts. *)
LEMMA CommitAccounts ==
    ASSUME TypeOK, LedgerInv, NEW s \in Sessions, pc[s] # "ledger", Commit(s)
    PROVE  \A a \in Account :
              /\ Sound(a, committed'[a])
              /\ Extends(committed[a].entries, committed'[a].entries)
              /\ committed[a].row => committed'[a].row
              /\ committed'[a].row \/ committed'[a].amount = 0
BY VisibleSound DEF Commit

LEMMA EndTransaction ==
    ASSUME TypeOK, LocalsInv, LedgerInv, NEW s \in Sessions, OthersKeep(s), pc'[s] # "ledger",
           (Commit(s) /\ pc[s] # "ledger") \/ Rollback(s)
    PROVE  LedgerInv'
<1>1. \A a \in Account : CommittedInv(a)'
  BY CommitAccounts DEF Rollback, LedgerInv, CommittedInv
<1>2. \A a \in Account : owner'[a] = IF owner[a] = s THEN None ELSE owner[a]
  BY DEF Commit, Rollback, Released
<1>3. \A t \in Sessions : pc'[t] = "ledger" => owner'[call'[t].account] = t
  <2> SUFFICES ASSUME NEW t \in Sessions \ {s}, pc[t] = "ledger"
               PROVE  owner'[call[t].account] = t
    BY DEF OthersKeep
  <2>1. owner[call[t].account] = t /\ call[t].account \in Account
    BY DEF LedgerInv, LocalsInv, LocalsOf, Moving
  <2> QED
    BY <1>2, <2>1
<1>4. ASSUME NEW a \in Account PROVE OwnedInv(a)'
  <2>1. CASE owner[a] = s
    BY <1>2, <2>1 DEF OwnedInv
  <2>2. CASE owner[a] # s
    <3>1. committed'[a] = committed[a] /\ working'[a] = working[a] /\ owner'[a] = owner[a]
      BY <2>2, <1>2 DEF Commit, Rollback, Visible
    <3> QED
      BY <2>2, <3>1, OthersOwned
  <2> QED
    BY <2>1, <2>2
<1> QED
  BY <1>1, <1>3, <1>4 DEF LedgerInv

-----------------------------------------------------------------------------
(* Every action keeps the locals and the ledger.                           *)

LEMMA BeginKeeps ==
    ASSUME IInv, NEW s \in Sessions,
           BeginCharge(s) \/ BeginRefund(s) \/ BeginFund(s) \/ BeginRefresh(s)
    PROVE  LocalsInv' /\ LedgerInv'
<1>1. /\ OthersKeep(s) /\ LocalsOf(s)' /\ UNCHANGED storeVars
      /\ pc[s] # "ledger" /\ pc'[s] # "ledger"
  BY BeginMovementLocals, BeginFundLocals, BeginRefreshLocals DEF IInv
<1> QED
  BY <1>1, LocalsFrame, LedgerFrame DEF IInv

(* The four ways in which a movement changes a balance. *)
LEMMA MovementKeeps ==
    ASSUME IInv, NEW s \in Sessions, Deduct(s) \/ Restore(s) \/ ResetQuota(s) \/ Insert(s)
    PROVE  LocalsInv' /\ LedgerInv'
<1>1. PICK a \in Account : a = call[s].account
  BY DEF IInv, LocalsInv, LocalsOf, Deduct, Restore, ResetQuota, Insert, Moving
<1>2. /\ pc[s] \in {"balance", "insert"}
      /\ call[s] \in Call /\ call[s].amount \in Nat /\ call[s].op \in Movements
      /\ pc[s] = "insert" => call[s].op # "charge"
      /\ LocalsOf(s)
  BY DEF IInv, TypeOK, Call, LocalsInv, LocalsOf, Deduct, Restore, ResetQuota, Insert, Moving
<1>3. Continue(s, "ledger")
  BY DEF Deduct, Restore, ResetQuota, Insert
<1>4. /\ OthersKeep(s) /\ pc'[s] = "ledger" /\ call'[s] = call[s]
      /\ after'[s] = Moved(Visible(s, a).amount, call[s])
  BY <1>1, <1>3, ContinueEffect DEF IInv
<1>5. Visible(s, a).amount \in Int /\ Visible(s, a).amount >= 0
  BY <1>2, VisibleTyped, VisibleSound DEF IInv, Sound
<1>6. Visible(s, a).row \/ Visible(s, a).amount = 0
  BY <1>2, VisibleSound DEF IInv
<1>7. PICK new \in Int : new = Moved(Visible(s, a).amount, call[s])
  BY <1>2, <1>5, MovedIsInt
<1>8. Lockable(s, a) /\ Write(s, a, Reads(s, a, new)) /\ new >= 0
  <2>1. CASE Deduct(s)
    BY <1>1, <1>2, <1>5, <1>7, <2>1 DEF Deduct, DecrementBalance, Moved
  <2>2. CASE Restore(s)
    BY <1>1, <1>2, <1>5, <1>7, <2>2 DEF Restore, IncrementBalance, Moved
  <2>3. CASE ResetQuota(s)
    BY <1>1, <1>2, <1>5, <1>7, <2>3 DEF ResetQuota, UpsertBalance, Moved
  <2>4. CASE Insert(s)
    <3>1. Visible(s, a).amount = 0
      BY <1>1, <1>6, <2>4 DEF Insert, InsertBalance, FindsRow
    <3>2. new = call[s].amount
      BY <1>2, <1>7, <2>4, <3>1 DEF Moved, Insert
    <3> QED
      BY <1>1, <1>2, <2>4, <3>2 DEF Insert, InsertBalance
  <2> QED
    BY <2>1, <2>2, <2>3, <2>4
<1>9. LedgerInv'
  BY <1>1, <1>2, <1>4, <1>7, <1>8, MoveBalance DEF IInv
<1>10. LocalsOf(s)'
  BY <1>2, <1>4 DEF LocalsOf, Moving
<1> QED
  BY <1>4, <1>9, <1>10, LocalsFrame DEF IInv

LEMMA WriteLedgerKeeps ==
    ASSUME IInv, NEW s \in Sessions, WriteLedger(s)
    PROVE  LocalsInv' /\ LedgerInv'
<1>1. PICK a \in Account : a = call[s].account
  BY DEF IInv, LocalsInv, LocalsOf, WriteLedger, Moving
<1>2. PICK e : e = LedgerRow(call[s], after[s])
  OBVIOUS
<1>3. pc[s] = "ledger" /\ CreateTransaction(s, a, e) /\ UNCHANGED <<call, after>>
  BY <1>1, <1>2 DEF WriteLedger
<1>4. PICK label \in {"commit", "cache"} : GoTo(s, label)
  BY DEF WriteLedger
<1>5. OthersKeep(s) /\ pc'[s] = label /\ call'[s] = call[s]
  BY <1>3, <1>4, GoToEffect DEF IInv
<1>6. LedgerInv'
  BY <1>1, <1>2, <1>3, <1>5, WriteRow DEF IInv
<1>7. LocalsOf(s)'
  BY <1>3, <1>5 DEF IInv, LocalsInv, LocalsOf, Moving
<1> QED
  BY <1>5, <1>6, <1>7, LocalsFrame DEF IInv

(* A call that has returned, and one that failed, need nothing any more. *)
LEMMA AtRestLocals ==
    ASSUME NEW s \in Sessions, pc'[s] \in {"idle", "open", "abort"}
    PROVE  LocalsOf(s)'
BY DEF LocalsOf, Moving

LEMMA RefuseKeeps ==
    ASSUME IInv, NEW s \in Sessions, Refuse(s)
    PROVE  LocalsInv' /\ LedgerInv'
<1>1. PICK a \in Account : a = call[s].account
  BY DEF IInv, LocalsInv, LocalsOf, Refuse, Moving
<1>2. pc[s] = "balance" /\ \E label \in {"abort", "open"} : Clear(s, label)
  BY DEF Refuse
<1>3. OthersKeep(s) /\ pc'[s] \in {"abort", "open"}
  BY <1>2, ClearEffect DEF IInv
<1>4. LedgerInv'
  <2>1. CASE UNCHANGED storeVars
    BY <1>2, <1>3, <2>1, LedgerFrame DEF IInv
  <2>2. CASE FindsRow(s, a) /\ Lockable(s, a) /\ Write(s, a, Visible(s, a))
    BY <1>2, <1>3, <2>2, LockRow DEF IInv
  <2> QED
    BY <1>1, <2>1, <2>2 DEF Refuse, DecrementRefused
<1> QED
  BY <1>3, <1>4, AtRestLocals, LocalsFrame DEF IInv

LEMMA EndKeeps ==
    ASSUME IInv, NEW s \in Sessions, CommitCaller(s) \/ Abort(s) \/ Crash(s)
    PROVE  LocalsInv' /\ LedgerInv'
<1>1. OthersKeep(s) /\ pc'[s] = "idle"
  BY ClearEffect DEF IInv, CommitCaller, Abort, Crash
<1>2. (Commit(s) /\ pc[s] # "ledger") \/ Rollback(s)
  BY DEF CommitCaller, Abort, Crash
<1>3. LedgerInv'
  BY <1>1, <1>2, EndTransaction DEF IInv
<1> QED
  BY <1>1, <1>3, AtRestLocals, LocalsFrame DEF IInv

LEMMA CommitOwnKeeps ==
    ASSUME IInv, NEW s \in Sessions, CommitOwn(s)
    PROVE  LocalsInv' /\ LedgerInv'
<1>1. pc[s] = "commit" /\ OthersKeep(s) /\ pc'[s] = "cache" /\ call'[s] = call[s]
  BY GoToEffect DEF IInv, CommitOwn
<1>2. LedgerInv'
  BY <1>1, EndTransaction DEF IInv, CommitOwn
<1>3. LocalsOf(s)'
  BY <1>1 DEF IInv, LocalsInv, LocalsOf, Moving
<1> QED
  BY <1>1, <1>2, <1>3, LocalsFrame DEF IInv

(* A session that waits in a cycle is at a statement that needs a lock. *)
LEMMA WaitsAtALock ==
    ASSUME NEW s \in Sessions, InWaitCycle(s, WaitsFor)
    PROVE  pc[s] \in {"balance", "insert"}
<1>1. PICK cycle \in SUBSET Sessions : s \in cycle /\ {WaitsFor[t] : t \in cycle} = cycle
  BY DEF InWaitCycle
<1>2. WaitsFor[s] \in Sessions
  BY <1>1
<1>3. WaitsFor[s] # None
  BY <1>2, Constants
<1> QED
  BY <1>3 DEF WaitsFor

(* The steps that leave the database alone and end or abandon a call. *)
LEMMA ReturnKeeps ==
    ASSUME IInv, NEW s \in Sessions, UNCHANGED storeVars, pc[s] # "ledger",
           Return(s) \/ \E label \in {"idle", "open", "abort"} : Clear(s, label)
    PROVE  LocalsInv' /\ LedgerInv'
<1>1. OthersKeep(s) /\ pc'[s] \in {"idle", "open", "abort"}
  BY ReturnEffect, ClearEffect DEF IInv
<1> QED
  BY <1>1, AtRestLocals, LocalsFrame, LedgerFrame DEF IInv

(* The steps that leave the database alone and go on with the call. *)
LEMMA GoOnKeeps ==
    ASSUME IInv, NEW s \in Sessions, NEW label, UNCHANGED storeVars,
           pc[s] # "ledger", label # "ledger", GoTo(s, label), UNCHANGED <<call, after>>,
           pc'[s] = label /\ call'[s] = call[s] => LocalsOf(s)'
    PROVE  LocalsInv' /\ LedgerInv'
<1>1. OthersKeep(s) /\ pc'[s] = label /\ call'[s] = call[s]
  BY GoToEffect DEF IInv
<1> QED
  BY <1>1, LocalsFrame, LedgerFrame DEF IInv

LEMMA InsertOrAbortKeeps ==
    ASSUME IInv, NEW s \in Sessions, FindNoRow(s) \/ IntegrityError(s) \/ GetProducts(s)
    PROVE  LocalsInv' /\ LedgerInv'
<1>1. LocalsOf(s)
  BY DEF IInv, LocalsInv
<1>2. CASE FindNoRow(s)
  <2>1. pc'[s] = "insert" /\ call'[s] = call[s] => LocalsOf(s)'
    BY <1>1, <1>2 DEF FindNoRow, LocalsOf, Moving
  <2> QED
    BY <1>2, <2>1, GoOnKeeps DEF FindNoRow
<1>3. CASE IntegrityError(s)
  BY <1>3, AtRestLocals, GoOnKeeps DEF IntegrityError
<1>4. CASE GetProducts(s)
  <2>1. pc'[s] = "next" /\ call'[s] = call[s] => LocalsOf(s)'
    BY <1>1, <1>4 DEF GetProducts, LocalsOf, Moving
  <2> QED
    BY <1>4, <2>1, GoOnKeeps DEF GetProducts
<1> QED
  BY <1>2, <1>3, <1>4

LEMMA UpdateViewKeeps ==
    ASSUME IInv, NEW s \in Sessions, UpdateView(s)
    PROVE  LocalsInv' /\ LedgerInv'
<1>1. pc[s] = "cache" /\ LocalsOf(s) /\ call[s].op \in Movements /\ UNCHANGED storeVars
  BY DEF UpdateView, IInv, LocalsInv, LocalsOf, Moving
<1>2. CASE Return(s)
  BY <1>1, <1>2, ReturnKeeps
<1>3. CASE call[s].op = "charge"
  <2>1. pc'[s] = "stats" /\ call'[s] = call[s] => LocalsOf(s)'
    BY <1>1 DEF LocalsOf, Moving
  <2> QED
    BY <1>1, <1>3, <2>1, GoOnKeeps DEF UpdateView
<1>4. CASE call[s].op \in {"top_up", "monthly_quota"}
  <2>1. pc'[s] = "next" /\ call'[s] = call[s] => LocalsOf(s)'
    BY <1>1, <1>4 DEF LocalsOf, Moving
  <2> QED
    BY <1>1, <1>4, <2>1, GoOnKeeps DEF UpdateView
<1> QED
  BY <1>1, <1>2, <1>3, <1>4 DEF UpdateView, Movements

LEMMA GrantProductKeeps ==
    ASSUME IInv, NEW s \in Sessions, GrantProduct(s)
    PROVE  LocalsInv' /\ LedgerInv'
<1>1. PICK p \in todo[s] :
        /\ p.strategy # "unknown"
        /\ call' = [call EXCEPT ![s].op = p.strategy, ![s].amount = p.amount,
                                ![s].account = <<call[s].customer, p.asset>>]
  BY DEF GrantProduct
<1>2. p \in Product /\ call[s] \in Call /\ call[s].customer \in Customers
  BY DEF IInv, TypeOK, LocalsInv, LocalsOf, GrantProduct
<1>3. p.strategy \in Movements /\ <<call[s].customer, p.asset>> \in Account
  BY <1>1, <1>2 DEF Product, Strategies, Movements, Account
<1>4. /\ call'[s].op = p.strategy /\ call'[s].customer = call[s].customer
      /\ call'[s].account = <<call[s].customer, p.asset>>
  BY <1>1, <1>2 DEF IInv, TypeOK, Call
<1>5. pc[s] = "next" /\ pc'[s] = "balance" /\ UNCHANGED storeVars /\ OthersKeep(s)
  BY <1>1 DEF GrantProduct, GoTo, OthersKeep, IInv, TypeOK
<1>6. LocalsOf(s)'
  BY <1>2, <1>3, <1>4, <1>5 DEF LocalsOf, Moving
<1> QED
  BY <1>5, <1>6, LocalsFrame, LedgerFrame DEF IInv

-----------------------------------------------------------------------------
(* The inductive invariant.                                                *)

LEMMA InitInv == Init => IInv
<1> SUFFICES ASSUME Init PROVE IInv
  OBVIOUS
<1>1. TypeOK
  <2>1. StoreTypeOK
    BY Constants DEF Init, StoreInit, StoreTypeOK, AccountState
  <2>2. ViewTypeOK
    BY DEF Init, ViewInit, ViewTypeOK
  <2>3. NoCall \in Call /\ NoRows \in [Assets -> Int \union {None}]
    BY DEF NoCall, Call, NoRows
  <2> QED
    BY <2>1, <2>2, <2>3 DEF Init, TypeOK, Labels
<1>2. LocalsInv
  BY DEF Init, LocalsInv, LocalsOf, Moving
<1>3. ASSUME NEW a \in Account PROVE CommittedInv(a) /\ OwnedInv(a)
  <2>1. /\ committed[a].entries = <<>> /\ committed[a].amount = Opening[a]
        /\ committed[a].row = (a \in Seeded)
        /\ owner[a] = None
    BY DEF Init, StoreInit
  <2>2. Sound(a, committed[a])
    BY <2>1, Constants DEF Sound, Chained, Closing, BalanceBefore
  <2>3. committed[a].row \/ committed[a].amount = 0
    BY <2>1, SeededAccounts
  <2> QED
    BY <2>1, <2>2, <2>3 DEF CommittedInv, OwnedInv
<1> QED
  BY <1>1, <1>2, <1>3 DEF IInv, LedgerInv, Init

LEMMA InvStep ==
    ASSUME IInv, [Next]_vars
    PROVE  IInv'
<1>1. TypeOK'
  BY TypeStep DEF IInv
<1>2. LocalsInv' /\ LedgerInv'
  <2>1. CASE UNCHANGED vars
    BY <2>1 DEF vars, storeVars, viewVars, locals, IInv, LocalsInv, LocalsOf, LedgerInv,
                CommittedInv, OwnedInv, InMidst, Midway
  <2>2. ASSUME NEW s \in Sessions,
               BeginCharge(s) \/ BeginRefund(s) \/ BeginFund(s) \/ BeginRefresh(s)
        PROVE  LocalsInv' /\ LedgerInv'
    BY <2>2, BeginKeeps
  <2>3. ASSUME NEW s \in Sessions, Deduct(s) \/ Restore(s) \/ ResetQuota(s) \/ Insert(s)
        PROVE  LocalsInv' /\ LedgerInv'
    BY <2>3, MovementKeeps
  <2>4. ASSUME NEW s \in Sessions, Refuse(s) PROVE LocalsInv' /\ LedgerInv'
    BY <2>4, RefuseKeeps
  <2>5. ASSUME NEW s \in Sessions, FindNoRow(s) \/ IntegrityError(s) \/ GetProducts(s)
        PROVE  LocalsInv' /\ LedgerInv'
    BY <2>5, InsertOrAbortKeeps
  <2>6. ASSUME NEW s \in Sessions, WriteLedger(s) PROVE LocalsInv' /\ LedgerInv'
    BY <2>6, WriteLedgerKeeps
  <2>7. ASSUME NEW s \in Sessions, CommitOwn(s) PROVE LocalsInv' /\ LedgerInv'
    BY <2>7, CommitOwnKeeps
  <2>8. ASSUME NEW s \in Sessions, UpdateView(s) PROVE LocalsInv' /\ LedgerInv'
    BY <2>8, UpdateViewKeeps
  <2>9. ASSUME NEW s \in Sessions, GrantProduct(s) PROVE LocalsInv' /\ LedgerInv'
    BY <2>9, GrantProductKeeps
  <2>10. ASSUME NEW s \in Sessions,
                \/ Refresh(s) \/ CountSpend(s) \/ CheckReference(s) \/ FundDone(s)
                \/ UnknownStrategy(s) \/ CacheFailure(s)
         PROVE  LocalsInv' /\ LedgerInv'
    BY <2>10, ReturnKeeps DEF Refresh, CountSpend, CheckReference, FundDone,
                              UnknownStrategy, CacheFailure
  <2>11. ASSUME NEW s \in Sessions, DeadlockVictim(s) PROVE LocalsInv' /\ LedgerInv'
    BY <2>11, WaitsAtALock, ReturnKeeps DEF DeadlockVictim
  <2>12. ASSUME NEW s \in Sessions, CommitCaller(s) \/ Abort(s) \/ Crash(s)
         PROVE  LocalsInv' /\ LedgerInv'
    BY <2>12, EndKeeps
  <2> QED
    BY <2>1, <2>2, <2>3, <2>4, <2>5, <2>6, <2>7, <2>8, <2>9, <2>10, <2>11, <2>12
       DEF Next, Step, Quiet
<1> QED
  BY <1>1, <1>2 DEF IInv

LEMMA InvHolds == Spec => []IInv
BY InitInv, InvStep, PTL DEF Spec

(***************************************************************************)
(* Every variable keeps its type: in particular the locals that a step     *)
(* uses are those that an earlier await of the same call has set.          *)
(***************************************************************************)
THEOREM ServiceIsTyped == Spec => []TypeOK
<1>1. IInv => TypeOK
  BY DEF IInv
<1> QED
  BY <1>1, InvHolds, PTL

(***************************************************************************)
(* The committed ledger explains the committed balance of every account,   *)
(* row by row, and no account is overdrawn, however the calls interleave,  *)
(* fail or crash (decrement_balance and create_transaction inside one      *)
(* transaction).                                                           *)
(***************************************************************************)
THEOREM ServiceLedgerExplainsBalance == Spec => []LedgerExplainsBalance
<1>1. IInv => LedgerExplainsBalance
  BY DEF IInv, LedgerInv, CommittedInv, LedgerExplainsBalance
<1> QED
  BY <1>1, InvHolds, PTL

-----------------------------------------------------------------------------
(* The refinement of LedgerBook.                                           *)

LEMMA BookOperators ==
    /\ Book!Account = Account
    /\ \A a, account : Book!Sound(a, account) = Sound(a, account)
    /\ \A old, new : Book!Extends(old, new) = Extends(old, new)
BY DEF Book!Account, Account, Book!Extends, Extends, Book!Sound, Sound, Book!Chained, Chained,
       Book!Closing, Closing, Book!BalanceBefore, BalanceBefore, Book!Follows, Follows

LEMMA BookStarts == Init => Book!BookInit
BY BookOperators DEF Init, StoreInit, Book!BookInit

(* Only a commit changes what is committed. *)
LEMMA OnlyCommitsPublish ==
    ASSUME IInv, [Next]_vars
    PROVE  \/ committed' = committed
           \/ \E s \in Sessions : Commit(s) /\ pc[s] # "ledger"
<1>1. ASSUME NEW s \in Sessions, Step(s)
      PROVE  committed' = committed \/ (Commit(s) /\ pc[s] # "ledger")
  <2> USE DEF storeVars, Write
  <2>1. CASE \/ Refresh(s) \/ FindNoRow(s) \/ IntegrityError(s) \/ UpdateView(s)
             \/ CountSpend(s) \/ CheckReference(s) \/ GetProducts(s) \/ GrantProduct(s)
             \/ UnknownStrategy(s) \/ FundDone(s) \/ DeadlockVictim(s)
    BY <2>1 DEF Refresh, FindNoRow, IntegrityError, UpdateView, CountSpend, CheckReference,
                GetProducts, GrantProduct, UnknownStrategy, FundDone, DeadlockVictim
  <2>2. CASE Deduct(s) \/ Restore(s) \/ ResetQuota(s) \/ Insert(s) \/ Refuse(s)
    BY <2>2 DEF Deduct, Restore, ResetQuota, Insert, Refuse, DecrementBalance,
                IncrementBalance, UpsertBalance, InsertBalance, DecrementRefused
  <2>3. CASE WriteLedger(s) \/ Abort(s) \/ CommitOwn(s)
    BY <2>3 DEF WriteLedger, CreateTransaction, Abort, Rollback, CommitOwn
  <2> QED
    BY <1>1, <2>1, <2>2, <2>3 DEF Step
<1>2. ASSUME NEW s \in Sessions,
             \/ BeginCharge(s) \/ BeginRefund(s) \/ BeginFund(s) \/ BeginRefresh(s)
             \/ CommitCaller(s) \/ CacheFailure(s) \/ Crash(s)
      PROVE  committed' = committed \/ (Commit(s) /\ pc[s] # "ledger")
  BY <1>2 DEF BeginCharge, BeginRefund, BeginMovement, BeginFund, BeginRefresh, Begin,
              CommitCaller, CacheFailure, Crash, Rollback, storeVars
<1> QED
  BY <1>1, <1>2 DEF Next, Quiet, vars, storeVars

(* A commit posts to the book. *)
LEMMA CommitPosts ==
    ASSUME IInv, NEW s \in Sessions, pc[s] # "ledger", Commit(s)
    PROVE  Book!Post
BY CommitAccounts, BookOperators DEF IInv, Book!Post

(***************************************************************************)
(* What is committed is a LedgerBook: a step that commits posts new rows   *)
(* and leaves every account sound, and no step rewrites history, takes a   *)
(* row of customer_balances away, or shows half of a movement.             *)
(***************************************************************************)
THEOREM ServicePostsToBook == Spec => PostsToBook
<1>1. IInv /\ [Next]_vars => [Book!Post]_committed
  BY OnlyCommitsPublish, CommitPosts
<1> QED
  BY <1>1, BookStarts, InvHolds, PTL DEF Spec, PostsToBook, Book!BookSpec

-----------------------------------------------------------------------------
(* What a step of one session leaves to the others.                        *)

Acts(s) ==
    \/ BeginCharge(s) \/ BeginRefund(s) \/ BeginFund(s) \/ BeginRefresh(s)
    \/ Step(s) \/ CommitCaller(s) \/ CacheFailure(s) \/ Crash(s)

LEMMA NextActs == [Next]_vars => UNCHANGED vars \/ \E s \in Sessions : Acts(s)
BY DEF Next, Acts, Quiet

LocalsStay(s) ==
    \A t \in Sessions \ {s} :
        /\ pc'[t] = pc[t] /\ call'[t] = call[t] /\ after'[t] = after[t]
        /\ todo'[t] = todo[t] /\ rows'[t] = rows[t]

(* An account that another session owns stays as it is. *)
AccountsStay(s) ==
    \A a \in Account :
        /\ owner'[a] \in {owner[a], s, None}
        /\ owner[a] \in Sessions \ {s} => owner'[a] = owner[a] /\ working'[a] = working[a]

LEMMA ClearStays ==
    ASSUME TypeOK, NEW s \in Sessions, NEW label, Clear(s, label)
    PROVE  LocalsStay(s)
BY DEF Clear, GoTo, LocalsStay, TypeOK

LEMMA ActsLocals ==
    ASSUME TypeOK, NEW s \in Sessions, Acts(s)
    PROVE  LocalsStay(s)
<1>1. CASE BeginCharge(s) \/ BeginRefund(s) \/ BeginFund(s) \/ BeginRefresh(s)
  BY <1>1 DEF BeginCharge, BeginRefund, BeginMovement, BeginFund, Begin, BeginRefresh, GoTo,
              LocalsStay, TypeOK
<1>2. CASE \E label : Clear(s, label)
  BY <1>2, ClearStays
<1>3. CASE Deduct(s) \/ Restore(s) \/ ResetQuota(s) \/ Insert(s)
  BY <1>3 DEF Deduct, Restore, ResetQuota, Insert, Continue, GoTo, LocalsStay, TypeOK
<1>4. CASE FindNoRow(s) \/ IntegrityError(s) \/ WriteLedger(s) \/ CommitOwn(s) \/ GetProducts(s)
             \/ GrantProduct(s)
  BY <1>4 DEF FindNoRow, IntegrityError, WriteLedger, CommitOwn, GetProducts, GrantProduct, GoTo,
              LocalsStay, TypeOK
<1>5. CASE UpdateView(s)
  <2>1. CASE Return(s)
    BY <1>2, <2>1 DEF Return
  <2>2. CASE \E label : GoTo(s, label) /\ UNCHANGED <<call, after, todo, rows, calls>>
    BY <2>2 DEF GoTo, LocalsStay, TypeOK
  <2> QED
    BY <1>5, <2>1, <2>2 DEF UpdateView
<1>6. CASE \/ Refresh(s) \/ Refuse(s) \/ CountSpend(s) \/ CheckReference(s) \/ UnknownStrategy(s)
           \/ FundDone(s) \/ Abort(s) \/ DeadlockVictim(s) \/ CommitCaller(s)
           \/ CacheFailure(s) \/ Crash(s)
  BY <1>2, <1>6 DEF Refresh, Refuse, CountSpend, CheckReference, UnknownStrategy, FundDone, Abort,
                    DeadlockVictim, CommitCaller, CacheFailure, Crash, Return
<1> QED
  BY <1>1, <1>3, <1>4, <1>5, <1>6 DEF Acts, Step

LEMMA WriteStays ==
    ASSUME TypeOK, NEW s \in Sessions, NEW a, NEW account, Lockable(s, a), Write(s, a, account)
    PROVE  AccountsStay(s)
BY Constants DEF Lockable, Write, AccountsStay, TypeOK, StoreTypeOK

LEMMA ActsAccounts ==
    ASSUME TypeOK, NEW s \in Sessions, Acts(s)
    PROVE  AccountsStay(s)
<1>1. CASE UNCHANGED storeVars
  BY <1>1 DEF AccountsStay, storeVars
<1>2. CASE \E a, account : Lockable(s, a) /\ Write(s, a, account)
  BY <1>2, WriteStays
<1>3. CASE \E a, e : CreateTransaction(s, a, e)
  BY <1>3 DEF CreateTransaction, AccountsStay, TypeOK, StoreTypeOK
<1>4. CASE Commit(s) \/ Rollback(s)
  BY <1>4 DEF Commit, Rollback, Released, AccountsStay
<1>5. CASE \/ Deduct(s) \/ Restore(s) \/ ResetQuota(s) \/ Insert(s) \/ Refuse(s)
  BY <1>1, <1>2, <1>5 DEF Deduct, Restore, ResetQuota, Insert, Refuse, DecrementBalance,
                          IncrementBalance, UpsertBalance, InsertBalance, DecrementRefused
<1>6. CASE \/ WriteLedger(s) \/ CommitOwn(s) \/ Abort(s) \/ CommitCaller(s) \/ Crash(s)
  BY <1>3, <1>4, <1>6 DEF WriteLedger, CommitOwn, Abort, CommitCaller, Crash
<1>7. CASE \/ Refresh(s) \/ FindNoRow(s) \/ IntegrityError(s) \/ UpdateView(s)
           \/ CountSpend(s) \/ CheckReference(s) \/ GetProducts(s) \/ GrantProduct(s)
           \/ UnknownStrategy(s) \/ FundDone(s) \/ DeadlockVictim(s) \/ CacheFailure(s)
  BY <1>1, <1>7 DEF Refresh, FindNoRow, IntegrityError, UpdateView, CountSpend, CheckReference,
                    GetProducts, GrantProduct, UnknownStrategy, FundDone, DeadlockVictim,
                    CacheFailure
<1>8. CASE BeginCharge(s) \/ BeginRefund(s) \/ BeginFund(s) \/ BeginRefresh(s)
  BY <1>1, <1>8 DEF BeginCharge, BeginRefund, BeginMovement, BeginFund, Begin, BeginRefresh
<1> QED
  BY <1>5, <1>6, <1>7, <1>8 DEF Acts, Step

LEMMA HistoryGrows ==
    ASSUME IInv, [Next]_vars, NEW a \in Account
    PROVE  Extends(committed[a].entries, committed'[a].entries)
<1>1. committed[a].entries \in Seq(Entry)
  BY DEF IInv, TypeOK, StoreTypeOK, AccountState
<1>2. CASE committed' = committed
  BY <1>1, <1>2, ExtendsItself
<1> QED
  BY <1>2, OnlyCommitsPublish, CommitAccounts DEF IInv

-----------------------------------------------------------------------------
(***************************************************************************)
(* The cache, when every call runs in a transaction of its own.  A session *)
(* then owns an account only between its balance statement and the end of  *)
(* its transaction, and what it carries to the cache after the commit is   *)
(* the closing balance of rows that are committed.                         *)
(***************************************************************************)
OwnCallsOnly == Modes \subseteq {"own"} /\ Funders = {}

Balances(a, entries) ==
    (IF a \in Seeded THEN {Opening[a]} ELSE {})
        \union {entries[i].balance_after : i \in 1..Len(entries)}

(* A balance row that the host did not open is committed with a ledger row. *)
RowsInv == \A a \in Account : committed[a].row => a \in Seeded \/ committed[a].entries # <<>>

OwnCallOf(s) ==
    /\ pc[s] \notin {"open", "check", "next"}
    /\ call[s].mode = "own"
    /\ pc[s] \in Moving => call[s].op \in {"charge", "refund"}
    /\ pc[s] \notin {"ledger", "commit", "abort"} => \A a \in Account : owner[a] # s
    /\ pc[s] \in {"ledger", "commit"} => \A a \in Account : owner[a] = s => a = call[s].account
    /\ pc[s] = "commit" =>
          /\ owner[call[s].account] = s
          /\ after[s] = working[call[s].account].amount
          /\ working[call[s].account].entries # <<>>

(* The amount and the rows that a session takes to the cache. *)
CarriedOf(s) ==
    /\ pc[s] = "cache" =>
          after[s] \in Balances(call[s].account, committed[call[s].account].entries)
    /\ pc[s] = "refresh" =>
          \A asset \in Assets :
              rows[s][asset] \in
                  Balances(<<call[s].customer, asset>>,
                           committed[<<call[s].customer, asset>>].entries) \union {None}

OwnCallsInv == \A s \in Sessions : OwnCallOf(s)
CarriedInv == \A s \in Sessions : CarriedOf(s)

ShownInv == \A a \in Account : view[a] \in Balances(a, committed[a].entries) \union {None}

ViewInv == RowsInv /\ OwnCallsInv /\ CarriedInv /\ ShownInv

LEMMA BalancesGrow ==
    ASSUME NEW S, NEW a, NEW p \in Seq(S), NEW q \in Seq(S), Extends(p, q)
    PROVE  Balances(a, p) \subseteq Balances(a, q)
<1>1. Len(p) \in Nat /\ Len(q) \in Nat
  OBVIOUS
<1>2. \A i \in 1..Len(p) : i \in 1..Len(q) /\ q[i] = p[i]
  BY <1>1 DEF Extends
<1> QED
  BY <1>2 DEF Balances

(* The balance of a row is the last that the ledger names, or the host's. *)
LEMMA ClosingIsABalance ==
    ASSUME NEW a \in Account, NEW account \in AccountState, Sound(a, account),
           a \in Seeded \/ account.entries # <<>>
    PROVE  account.amount \in Balances(a, account.entries)
<1>1. PICK q \in Seq(Entry) : q = account.entries
  BY DEF AccountState
<1>2. account.amount = Closing(a, q) /\ Len(q) \in Nat
  BY <1>1 DEF Sound
<1>3. CASE q = <<>>
  BY <1>1, <1>2, <1>3 DEF Closing, BalanceBefore, Balances
<1>4. CASE q # <<>>
  <2>1. Len(q) \in 1..Len(q) /\ Len(q) + 1 # 1 /\ (Len(q) + 1) - 1 = Len(q)
    BY <1>2, <1>4
  <2>2. Closing(a, q) = q[Len(q)].balance_after
    BY <2>1 DEF Closing, BalanceBefore
  <2> QED
    BY <1>1, <1>2, <2>1, <2>2 DEF Balances
<1> QED
  BY <1>3, <1>4

LEMMA CommittedIsABalance ==
    ASSUME IInv, RowsInv, NEW a \in Account, committed[a].row
    PROVE  committed[a].amount \in Balances(a, committed[a].entries)
BY ClosingIsABalance DEF IInv, LedgerInv, CommittedInv, RowsInv, TypeOK, StoreTypeOK

LEMMA CommittedBalancesGrow ==
    ASSUME IInv, IInv', [Next]_vars, NEW a \in Account
    PROVE  Balances(a, committed[a].entries) \subseteq Balances(a, committed'[a].entries)
<1>1. committed[a].entries \in Seq(Entry) /\ committed'[a].entries \in Seq(Entry)
  BY DEF IInv, TypeOK, StoreTypeOK, AccountState
<1> QED
  BY <1>1, HistoryGrows, BalancesGrow

LEMMA ViewStarts == Init => ViewInv
<1> SUFFICES ASSUME Init PROVE ViewInv
  OBVIOUS
<1>1. RowsInv
  BY DEF Init, StoreInit, RowsInv
<1>2. \A s \in Sessions : pc[s] = "idle" /\ call[s].mode = "own"
  BY DEF Init, NoCall
<1>3. \A a \in Account : owner[a] = None
  BY DEF Init, StoreInit
<1>4. OwnCallsInv
  BY <1>2, <1>3, Constants DEF OwnCallsInv, OwnCallOf, Moving
<1>5. CarriedInv
  BY <1>2 DEF CarriedInv, CarriedOf
<1>6. ShownInv
  BY DEF Init, ViewInit, ShownInv
<1> QED
  BY <1>1, <1>4, <1>5, <1>6 DEF ViewInv

(* The other sessions. *)
LEMMA OthersOwnCall ==
    ASSUME IInv, OwnCallsInv, NEW s \in Sessions, Acts(s), NEW t \in Sessions \ {s}
    PROVE  OwnCallOf(t)'
<1>1. LocalsStay(s) /\ AccountsStay(s)
  BY ActsLocals, ActsAccounts DEF IInv
<1>2. OwnCallOf(t) /\ t # s /\ t # None
  BY Constants DEF OwnCallsInv
<1>3. pc'[t] = pc[t] /\ call'[t] = call[t] /\ after'[t] = after[t]
  BY <1>1 DEF LocalsStay
<1>4. \A a \in Account : owner'[a] = t => owner[a] = t
  BY <1>1, <1>2 DEF AccountsStay
<1>5. \A a \in Account : owner[a] = t => owner'[a] = t /\ working'[a] = working[a]
  BY <1>1, <1>2 DEF AccountsStay
<1>6. pc[t] = "commit" => call[t].account \in Account
  BY DEF IInv, LocalsInv, LocalsOf, Moving
<1> QED
  BY <1>2, <1>3, <1>4, <1>5, <1>6 DEF OwnCallOf

LEMMA OthersCarry ==
    ASSUME IInv, IInv', CarriedInv, NEW s \in Sessions, Acts(s), [Next]_vars,
           NEW t \in Sessions \ {s}
    PROVE  CarriedOf(t)'
<1>1. pc'[t] = pc[t] /\ call'[t] = call[t] /\ after'[t] = after[t] /\ rows'[t] = rows[t]
  BY ActsLocals DEF IInv, LocalsStay
<1>2. CarriedOf(t)
  BY DEF CarriedInv
<1>3. CASE pc[t] = "cache"
  <2>1. PICK a \in Account : a = call[t].account
    BY <1>3 DEF IInv, LocalsInv, LocalsOf, Moving
  <2> QED
    BY <1>1, <1>2, <1>3, <2>1, CommittedBalancesGrow DEF CarriedOf
<1>4. CASE pc[t] = "refresh"
  <2>1. PICK c \in Customers : c = call[t].customer
    BY <1>4 DEF IInv, LocalsInv, LocalsOf
  <2>2. \A asset \in Assets : <<c, asset>> \in Account
    BY DEF Account
  <2>3. \A asset \in Assets :
           Balances(<<c, asset>>, committed[<<c, asset>>].entries)
              \subseteq Balances(<<c, asset>>, committed'[<<c, asset>>].entries)
    BY <2>2, CommittedBalancesGrow
  <2> QED
    BY <1>1, <1>2, <1>4, <2>1, <2>3 DEF CarriedOf
<1> QED
  BY <1>1, <1>3, <1>4 DEF CarriedOf

(* The session itself, action by action. *)
LEMMA OwnBegin ==
    ASSUME IInv, OwnCallsOnly, OwnCallsInv, NEW s \in Sessions, BeginCharge(s) \/ BeginRefund(s)
    PROVE  OwnCallOf(s)' /\ CarriedOf(s)'
<1>1. PICK op \in {"charge", "refund"}, a \in Account, amount \in Amounts, mode \in Modes :
        Begin(s, "balance", [NoCall EXCEPT !.op = op, !.account = a,
                                           !.amount = amount, !.mode = mode])
  BY DEF BeginCharge, BeginRefund, BeginMovement
<1> DEFINE request == [NoCall EXCEPT !.op = op, !.account = a, !.amount = amount, !.mode = mode]
<1>2. request.op = op /\ request.mode = "own"
  BY DEF NoCall, OwnCallsOnly
<1>3. pc[s] \in {"idle", "open"} /\ pc'[s] = "balance" /\ call'[s] = request /\ owner' = owner
  BY <1>1, BeginEffect DEF IInv, storeVars
<1> HIDE DEF request
<1>4. \A b \in Account : owner'[b] # s
  BY <1>3 DEF OwnCallsInv, OwnCallOf
<1> QED
  BY <1>2, <1>3, <1>4 DEF OwnCallOf, CarriedOf

LEMMA OwnBeginRefresh ==
    ASSUME IInv, OwnCallsOnly, RowsInv, OwnCallsInv, NEW s \in Sessions, BeginRefresh(s)
    PROVE  OwnCallOf(s)' /\ CarriedOf(s)'
<1>1. PICK c \in Customers, mode \in Modes :
        /\ pc[s] = "idle" \/ (pc[s] = "open" /\ mode = "caller")
        /\ GoTo(s, "refresh")
        /\ call' = [call EXCEPT ![s] = [NoCall EXCEPT !.op = "refresh", !.customer = c,
                                                      !.mode = mode]]
        /\ rows' = [rows EXCEPT ![s] =
              [asset \in Assets |-> LET account == Visible(s, <<c, asset>>)
                                    IN  IF account.row THEN account.amount ELSE None]]
        /\ UNCHANGED storeVars
  BY DEF BeginRefresh
<1> DEFINE request == [NoCall EXCEPT !.op = "refresh", !.customer = c, !.mode = mode]
<1>2. request.mode = "own" /\ request.customer = c
  BY DEF NoCall, OwnCallsOnly
<1>3. pc'[s] = "refresh" /\ call'[s] = request
  BY <1>1 DEF GoTo, IInv, TypeOK
<1> HIDE DEF request
<1>4. \A b \in Account : owner[b] # s /\ owner'[b] # s
  BY <1>1 DEF OwnCallsInv, OwnCallOf, storeVars
<1>5. ASSUME NEW asset \in Assets
      PROVE  rows'[s][asset] \in Balances(<<c, asset>>, committed'[<<c, asset>>].entries)
                                    \union {None}
  <2>1. PICK a \in Account : a = <<c, asset>>
    BY DEF Account
  <2>2. rows'[s][asset] = IF committed[a].row THEN committed[a].amount ELSE None
    BY <1>1, <1>4, <2>1 DEF Visible, IInv, TypeOK
  <2> QED
    BY <1>1, <2>1, <2>2, CommittedIsABalance DEF storeVars
<1> QED
  BY <1>2, <1>3, <1>4, <1>5 DEF OwnCallOf, CarriedOf, Moving

LEMMA OwnMove ==
    ASSUME IInv, OwnCallsInv, NEW s \in Sessions,
           Deduct(s) \/ Restore(s) \/ ResetQuota(s) \/ Insert(s)
    PROVE  OwnCallOf(s)' /\ CarriedOf(s)'
<1>1. PICK a \in Account : a = call[s].account
  BY DEF IInv, LocalsInv, LocalsOf, Deduct, Restore, ResetQuota, Insert, Moving
<1>2. /\ pc[s] \in {"balance", "insert"}
      /\ owner' = [owner EXCEPT ![a] = s]
      /\ Continue(s, "ledger")
  BY <1>1 DEF Deduct, Restore, ResetQuota, Insert, DecrementBalance, IncrementBalance,
              UpsertBalance, InsertBalance, Write
<1>3. pc'[s] = "ledger" /\ call'[s] = call[s]
  BY <1>2, ContinueEffect DEF IInv
<1>4. OwnCallOf(s)
  BY DEF OwnCallsInv
<1>5. \A b \in Account : owner'[b] = s => b = a
  BY <1>2, <1>4 DEF OwnCallOf, IInv, TypeOK, StoreTypeOK
<1> QED
  BY <1>1, <1>2, <1>3, <1>4, <1>5 DEF OwnCallOf, CarriedOf, Moving

(* The call is over, or its exception is on the way to the rollback. *)
LEMMA OwnClear ==
    ASSUME IInv, OwnCallsInv, NEW s \in Sessions, NEW label \in {"idle", "abort"},
           Clear(s, label), label = "idle" => \A a \in Account : owner'[a] # s
    PROVE  OwnCallOf(s)' /\ CarriedOf(s)'
<1>1. pc'[s] = label /\ call'[s] = NoCall
  BY ClearEffect DEF IInv
<1> QED
  BY <1>1 DEF OwnCallOf, CarriedOf, NoCall, Moving

LEMMA OwnReturn ==
    ASSUME IInv, OwnCallsInv, NEW s \in Sessions, UNCHANGED storeVars,
           pc[s] \in {"cache", "stats", "refresh"}, Return(s) \/ Clear(s, "idle")
    PROVE  OwnCallOf(s)' /\ CarriedOf(s)'
<1>1. Clear(s, "idle") /\ \A a \in Account : owner'[a] # s
  BY DEF OwnCallsInv, OwnCallOf, Return, storeVars
<1> QED
  BY <1>1, OwnClear

LEMMA OwnGoOn ==
    ASSUME IInv, OwnCallsInv, NEW s \in Sessions,
           FindNoRow(s) \/ IntegrityError(s) \/ (UpdateView(s) /\ ~Return(s))
    PROVE  OwnCallOf(s)' /\ CarriedOf(s)'
<1>1. OwnCallOf(s) /\ pc[s] \in {"balance", "insert", "cache"} /\ UNCHANGED storeVars
  BY DEF OwnCallsInv, FindNoRow, IntegrityError, UpdateView
<1>2. CASE FindNoRow(s) \/ IntegrityError(s)
  <2>1. pc'[s] \in {"insert", "abort"} /\ call'[s] = call[s]
    BY <1>2 DEF FindNoRow, IntegrityError, GoTo, IInv, TypeOK
  <2> QED
    BY <1>1, <2>1 DEF OwnCallOf, CarriedOf, Moving, storeVars
<1>3. CASE UpdateView(s) /\ ~Return(s)
  <2>1. call[s].op \in {"charge", "refund"}
    BY <1>1, <1>3 DEF OwnCallOf, UpdateView, Moving
  <2>2. pc'[s] = "stats" /\ call'[s] = call[s]
    BY <1>3, <2>1 DEF UpdateView, GoTo, IInv, TypeOK
  <2> QED
    BY <1>1, <2>1, <2>2 DEF OwnCallOf, CarriedOf, Moving, storeVars
<1> QED
  BY <1>2, <1>3

LEMMA OwnWriteLedger ==
    ASSUME IInv, OwnCallsInv, NEW s \in Sessions, WriteLedger(s)
    PROVE  OwnCallOf(s)' /\ CarriedOf(s)'
<1>1. PICK a \in Account : a = call[s].account
  BY DEF IInv, LocalsInv, LocalsOf, WriteLedger, Moving
<1>2. OwnCallOf(s) /\ pc[s] = "ledger" /\ owner[a] = s /\ UNCHANGED <<owner, call, after>>
  BY <1>1 DEF OwnCallsInv, WriteLedger, CreateTransaction
<1>3. pc'[s] = "commit"
  BY <1>2 DEF WriteLedger, GoTo, OwnCallOf, IInv, TypeOK
<1>4. working[a].amount = after[s] /\ working[a] \in AccountState
  BY <1>1, <1>2, Constants
     DEF IInv, LedgerInv, OwnedInv, InMidst, Midway, TypeOK, StoreTypeOK
<1>5. PICK e \in Entry : working' = [working EXCEPT ![a].entries = Append(@, e)]
  <2>1. LedgerRow(call[s], after[s]) \in Entry
    BY <1>2, LedgerRowTyped DEF IInv, TypeOK, LocalsInv, LocalsOf, Moving
  <2> QED
    BY <1>1, <2>1 DEF WriteLedger, CreateTransaction
<1>6. working'[a] = [working[a] EXCEPT !.entries = Append(@, e)]
  BY <1>5 DEF IInv, TypeOK, StoreTypeOK
<1>7. working'[a].amount = after[s] /\ working'[a].entries = Append(working[a].entries, e)
  BY <1>4, <1>6 DEF AccountState
<1>8. working[a].entries \in Seq(Entry)
  BY <1>4 DEF AccountState
<1>9. working'[a].entries # <<>>
  BY <1>7, <1>8
<1>10. call'[s] = call[s] /\ after'[s] = after[s] /\ owner' = owner
  BY <1>2
<1>11. call[s].mode = "own" /\ call[s].op \in {"charge", "refund"}
  BY <1>2 DEF OwnCallOf, Moving
<1>12. \A b \in Account : owner[b] = s => b = a
  BY <1>1, <1>2 DEF OwnCallOf
<1>13. OwnCallOf(s)'
  BY <1>1, <1>2, <1>3, <1>7, <1>9, <1>10, <1>11, <1>12 DEF OwnCallOf
<1>14. CarriedOf(s)'
  BY <1>3 DEF CarriedOf
<1> QED
  BY <1>13, <1>14

LEMMA OwnCommit ==
    ASSUME IInv, OwnCallsInv, NEW s \in Sessions, CommitOwn(s)
    PROVE  OwnCallOf(s)' /\ CarriedOf(s)'
<1>1. PICK a \in Account : a = call[s].account
  BY DEF IInv, LocalsInv, LocalsOf, CommitOwn, Moving
<1>2. /\ OwnCallOf(s) /\ pc[s] = "commit"
      /\ owner[a] = s /\ after[s] = working[a].amount /\ working[a].entries # <<>>
  BY <1>1 DEF OwnCallsInv, OwnCallOf, CommitOwn
<1>3. pc'[s] = "cache" /\ call'[s] = call[s] /\ after'[s] = after[s]
  BY DEF CommitOwn, GoTo, IInv, TypeOK
<1>4. \A b \in Account : owner'[b] # s
  BY Constants DEF CommitOwn, Commit, Released
<1>5. Sound(a, working[a]) /\ working[a] \in AccountState
  BY <1>2, Constants DEF IInv, LedgerInv, OwnedInv, InMidst, TypeOK, StoreTypeOK
<1>6. committed'[a] = working[a]
  BY <1>2 DEF CommitOwn, Commit, Visible
<1>7. after[s] \in Balances(a, committed'[a].entries)
  BY <1>2, <1>5, <1>6, ClosingIsABalance
<1> QED
  BY <1>1, <1>2, <1>3, <1>4, <1>7 DEF OwnCallOf, CarriedOf, Moving

LEMMA OwnStep ==
    ASSUME IInv, OwnCallsOnly, RowsInv, OwnCallsInv, NEW s \in Sessions, Acts(s)
    PROVE  OwnCallOf(s)' /\ CarriedOf(s)'
<1>1. OwnCallOf(s) /\ s \notin Funders
  BY DEF OwnCallsInv, OwnCallsOnly
<1>2. CASE BeginCharge(s) \/ BeginRefund(s)
  BY <1>2, OwnBegin
<1>3. CASE BeginRefresh(s)
  BY <1>3, OwnBeginRefresh
<1>4. CASE Deduct(s) \/ Restore(s) \/ ResetQuota(s) \/ Insert(s)
  BY <1>4, OwnMove
<1>5. CASE Refuse(s) \/ DeadlockVictim(s)
  BY <1>1, <1>5, OwnClear DEF Refuse, DeadlockVictim, OwnCallOf
<1>6. CASE FindNoRow(s) \/ IntegrityError(s) \/ UpdateView(s)
  BY <1>6, OwnGoOn, OwnReturn DEF UpdateView
<1>7. CASE Refresh(s) \/ CountSpend(s) \/ CacheFailure(s)
  BY <1>1, <1>7, OwnReturn DEF Refresh, CountSpend, CacheFailure, OwnCallOf
<1>8. CASE WriteLedger(s) \/ CommitOwn(s)
  BY <1>8, OwnWriteLedger, OwnCommit
<1>9. CASE Abort(s) \/ Crash(s)
  <2>1. Clear(s, "idle") /\ \A a \in Account : owner'[a] # s
    BY <1>9, Constants DEF Abort, Crash, Rollback, Released
  <2> QED
    BY <2>1, OwnClear
<1>10. CASE \/ BeginFund(s) \/ CheckReference(s) \/ GetProducts(s) \/ GrantProduct(s)
            \/ UnknownStrategy(s) \/ FundDone(s) \/ CommitCaller(s)
  BY <1>1, <1>10 DEF BeginFund, CheckReference, GetProducts, GrantProduct, UnknownStrategy,
                     FundDone, CommitCaller, OwnCallOf
<1> QED
  BY <1>2, <1>3, <1>4, <1>5, <1>6, <1>7, <1>8, <1>9, <1>10 DEF Acts, Step

(* What is committed, and the cache. *)
LEMMA ActsPublish ==
    ASSUME NEW s \in Sessions, Acts(s)
    PROVE  committed' = committed \/ CommitOwn(s) \/ CommitCaller(s)
<1> USE DEF storeVars, Write
<1>1. CASE \/ Refresh(s) \/ FindNoRow(s) \/ IntegrityError(s) \/ UpdateView(s)
           \/ CountSpend(s) \/ CheckReference(s) \/ GetProducts(s) \/ GrantProduct(s)
           \/ UnknownStrategy(s) \/ FundDone(s) \/ DeadlockVictim(s) \/ CacheFailure(s)
  BY <1>1 DEF Refresh, FindNoRow, IntegrityError, UpdateView, CountSpend, CheckReference,
              GetProducts, GrantProduct, UnknownStrategy, FundDone, DeadlockVictim, CacheFailure
<1>2. CASE Deduct(s) \/ Restore(s) \/ ResetQuota(s) \/ Insert(s) \/ Refuse(s)
  BY <1>2 DEF Deduct, Restore, ResetQuota, Insert, Refuse, DecrementBalance,
              IncrementBalance, UpsertBalance, InsertBalance, DecrementRefused
<1>3. CASE WriteLedger(s) \/ Abort(s) \/ Crash(s)
  BY <1>3 DEF WriteLedger, CreateTransaction, Abort, Crash, Rollback
<1>4. CASE BeginCharge(s) \/ BeginRefund(s) \/ BeginFund(s) \/ BeginRefresh(s)
  BY <1>4 DEF BeginCharge, BeginRefund, BeginMovement, BeginFund, Begin, BeginRefresh
<1> QED
  BY <1>1, <1>2, <1>3, <1>4 DEF Acts, Step

LEMMA RowsStep ==
    ASSUME IInv, RowsInv, OwnCallsInv, NEW s \in Sessions, Acts(s)
    PROVE  RowsInv'
<1>1. CASE committed' = committed
  BY <1>1 DEF RowsInv
<1>2. CASE CommitOwn(s)
  <2> SUFFICES ASSUME NEW a \in Account, committed'[a].row
               PROVE  a \in Seeded \/ committed'[a].entries # <<>>
    BY DEF RowsInv
  <2>1. committed'[a] = Visible(s, a)
    BY <1>2 DEF CommitOwn, Commit
  <2>2. CASE owner[a] = s
    BY <1>2, <2>1, <2>2 DEF OwnCallsInv, OwnCallOf, CommitOwn, Visible
  <2>3. CASE owner[a] # s
    BY <2>1, <2>3 DEF RowsInv, Visible
  <2> QED
    BY <2>2, <2>3
<1>3. ~CommitCaller(s)
  BY DEF CommitCaller, OwnCallsInv, OwnCallOf
<1> QED
  BY <1>1, <1>2, <1>3, ActsPublish

(* Only the end of a call and of a refresh write amounts to the cache. *)
LEMMA ActsView ==
    ASSUME NEW s \in Sessions, Acts(s)
    PROVE  view' = view \/ UpdateView(s) \/ Refresh(s)
<1> USE DEF viewVars
<1>1. CASE \/ FindNoRow(s) \/ IntegrityError(s) \/ CheckReference(s) \/ GetProducts(s)
           \/ GrantProduct(s) \/ UnknownStrategy(s) \/ FundDone(s) \/ DeadlockVictim(s)
           \/ CacheFailure(s) \/ CountSpend(s)
  BY <1>1 DEF FindNoRow, IntegrityError, CheckReference, GetProducts, GrantProduct,
              UnknownStrategy, FundDone, DeadlockVictim, CacheFailure, CountSpend, IncrementStats
<1>2. CASE Deduct(s) \/ Restore(s) \/ ResetQuota(s) \/ Insert(s) \/ Refuse(s)
  BY <1>2 DEF Deduct, Restore, ResetQuota, Insert, Refuse, Continue
<1>3. CASE WriteLedger(s) \/ Abort(s) \/ Crash(s) \/ CommitOwn(s) \/ CommitCaller(s)
  BY <1>3 DEF WriteLedger, Abort, Crash, CommitOwn, CommitCaller
<1>4. CASE BeginCharge(s) \/ BeginRefund(s) \/ BeginFund(s) \/ BeginRefresh(s)
  BY <1>4 DEF BeginCharge, BeginRefund, BeginMovement, BeginFund, Begin, BeginRefresh
<1> QED
  BY <1>1, <1>2, <1>3, <1>4 DEF Acts, Step

LEMMA ShownStep ==
    ASSUME IInv, IInv', CarriedInv, ShownInv, NEW s \in Sessions, Acts(s), [Next]_vars
    PROVE  ShownInv'
<1> SUFFICES ASSUME NEW a \in Account
             PROVE  view'[a] \in Balances(a, committed'[a].entries) \union {None}
  BY DEF ShownInv
<1>1. view[a] \in Balances(a, committed'[a].entries) \union {None}
  BY CommittedBalancesGrow DEF ShownInv
<1>2. CASE view' = view
  BY <1>1, <1>2
<1>3. CASE UpdateView(s)
  <2>1. /\ view' = [view EXCEPT ![call[s].account] = after[s]]
        /\ committed' = committed /\ pc[s] = "cache"
    BY <1>3 DEF UpdateView, UpdateSingleBalance, storeVars
  <2>2. a = call[s].account => after[s] \in Balances(a, committed[a].entries)
    BY <2>1 DEF CarriedInv, CarriedOf
  <2> QED
    BY <1>1, <2>1, <2>2 DEF IInv, TypeOK, ViewTypeOK
<1>4. CASE Refresh(s)
  <2>1. /\ view' = [b \in Account |-> IF b[1] = call[s].customer THEN rows[s][b[2]] ELSE view[b]]
        /\ committed' = committed /\ pc[s] = "refresh"
    BY <1>4 DEF Refresh, SetBalances, storeVars
  <2>2. a[2] \in Assets /\ a = <<a[1], a[2]>>
    BY DEF Account
  <2>3. a[1] = call[s].customer => rows[s][a[2]] \in Balances(a, committed[a].entries) \union {None}
    BY <2>1, <2>2 DEF CarriedInv, CarriedOf
  <2> QED
    BY <1>1, <2>1, <2>3
<1> QED
  BY <1>2, <1>3, <1>4, ActsView

LEMMA ViewStep ==
    ASSUME OwnCallsOnly, IInv, IInv', ViewInv, [Next]_vars
    PROVE  ViewInv'
<1>1. CASE UNCHANGED vars
  BY <1>1 DEF vars, storeVars, viewVars, locals, ViewInv, RowsInv, OwnCallsInv, OwnCallOf,
              CarriedInv, CarriedOf, ShownInv
<1>2. ASSUME NEW s \in Sessions, Acts(s) PROVE ViewInv'
  <2>1. \A t \in Sessions : OwnCallOf(t)' /\ CarriedOf(t)'
    BY <1>2, OwnStep, OthersOwnCall, OthersCarry DEF ViewInv
  <2>2. RowsInv' /\ ShownInv'
    BY <1>2, RowsStep, ShownStep DEF ViewInv
  <2> QED
    BY <2>1, <2>2 DEF ViewInv, OwnCallsInv, CarriedInv
<1> QED
  BY <1>1, <1>2, NextActs

(***************************************************************************)
(* If every call runs in a transaction of its own, the cache never shows a *)
(* balance that the database has not committed, however calls interleave,  *)
(* fail and crash (service.py lines 227 to 232).  With a caller's          *)
(* transaction this is not so: the cache is written before the commit.     *)
(***************************************************************************)
THEOREM ServiceViewIsCommitted ==
    ASSUME OwnCallsOnly
    PROVE  Spec => []ViewIsCommitted
<1>1. ViewInv => ViewIsCommitted
  BY DEF ViewInv, ShownInv, ViewIsCommitted, CommittedBalances, Balances
<1>2. IInv /\ IInv' /\ ViewInv /\ [Next]_vars => ViewInv'
  BY ViewStep
<1> QED
  BY <1>1, <1>2, ViewStarts, InvHolds, PTL DEF Spec
-----------------------------------------------------------------------------
(***************************************************************************)
(* The counted spend, when every call runs in a transaction of its own.    *)
(* Each charge that is committed and not yet counted has a usage row of    *)
(* its own in the committed ledger, and what is counted is at most the     *)
(* rest of the usage rows.                                                 *)
(***************************************************************************)

(* What an own transaction has written, and what stays to be counted. *)
FreshOf(s) ==
    LET a == call[s].account
    IN  /\ pc[s] = "ledger" => working[a].entries = committed[a].entries
        /\ pc[s] = "commit" =>
              working[a].entries = Append(committed[a].entries, LedgerRow(call[s], after[s]))
        /\ pc[s] = "stats" => call[s].op = "charge"

FreshInv == \A s \in Sessions : FreshOf(s)

Owes(s, a) == pc[s] \in {"cache", "stats"} /\ call[s].op = "charge" /\ call[s].account = a

(* The rows U are counted, and f is the row that a session owes. *)
CountedBy(a, r, U, f) ==
    /\ \A s \in Sessions :
          Owes(s, a) => f[s] \in (1..Len(r)) \ U /\ r[f[s]] = call[s].amount
    /\ \A s \in Sessions, t \in Sessions : Owes(s, a) /\ Owes(t, a) /\ f[s] = f[t] => s = t
    /\ spent[a] <= Total(Part(r, U))

TakenFrom(a) == Taken(committed[a].entries)

Backed(a) ==
    /\ \A i \in 1..Len(TakenFrom(a)) : TakenFrom(a)[i] >= 0
    /\ \E U \in SUBSET (1..Len(TakenFrom(a))), f \in [Sessions -> 0..Len(TakenFrom(a))] :
          CountedBy(a, TakenFrom(a), U, f)

BackedInv == \A a \in Account : Backed(a)

LEMMA EntryAmounts == \A e \in Entry : e.amount \in Int
BY DEF Entry

LEMMA TakenFromTyped ==
    ASSUME TypeOK, NEW a \in Account
    PROVE  /\ committed[a].entries \in Seq(Entry)
           /\ TakenFrom(a) \in Seq(Int) /\ Len(TakenFrom(a)) \in Nat
<1>1. committed[a].entries \in Seq(Entry)
  BY DEF TypeOK, StoreTypeOK, AccountState
<1> QED
  BY <1>1, EntryAmounts, TakenTyped DEF TakenFrom

(* A commit of s publishes the accounts that s owns. *)
LEMMA CommittedStays ==
    ASSUME NEW s \in Sessions, Acts(s), NEW a \in Account, owner[a] # s
    PROVE  committed'[a] = committed[a]
<1>1. CASE CommitOwn(s) \/ CommitCaller(s)
  BY <1>1 DEF CommitOwn, CommitCaller, Commit, Visible
<1> QED
  BY <1>1, ActsPublish

(* The awaits at which an own transaction writes, commits and counts. *)
LEMMA ActsLabels ==
    ASSUME TypeOK, NEW s \in Sessions, Acts(s)
    PROVE  \/ pc'[s] \notin {"ledger", "commit", "cache", "stats"}
           \/ Deduct(s) \/ Restore(s) \/ ResetQuota(s) \/ Insert(s)
           \/ WriteLedger(s) \/ CommitOwn(s) \/ UpdateView(s)
<1>1. CASE BeginCharge(s) \/ BeginRefund(s) \/ BeginFund(s) \/ BeginRefresh(s)
  BY <1>1 DEF BeginCharge, BeginRefund, BeginMovement, BeginFund, Begin, BeginRefresh, GoTo, TypeOK
<1>2. ASSUME NEW label \in {"idle", "open", "abort"}, Clear(s, label)
      PROVE  pc'[s] \notin {"ledger", "commit", "cache", "stats"}
  BY <1>2 DEF Clear, GoTo, TypeOK
<1>3. CASE FindNoRow(s) \/ IntegrityError(s) \/ GetProducts(s) \/ GrantProduct(s)
  BY <1>3 DEF FindNoRow, IntegrityError, GetProducts, GrantProduct, GoTo, TypeOK
<1>4. CASE \/ Refresh(s) \/ Refuse(s) \/ CountSpend(s) \/ CheckReference(s) \/ UnknownStrategy(s)
           \/ FundDone(s) \/ Abort(s) \/ DeadlockVictim(s) \/ CommitCaller(s)
           \/ CacheFailure(s) \/ Crash(s)
  BY <1>2, <1>4 DEF Refresh, Refuse, CountSpend, CheckReference, UnknownStrategy, FundDone, Abort,
                    DeadlockVictim, CommitCaller, CacheFailure, Crash, Return
<1> QED
  BY <1>1, <1>3, <1>4 DEF Acts, Step

LEMMA OthersFresh ==
    ASSUME IInv, OwnCallsInv, FreshInv, NEW s \in Sessions, Acts(s), NEW t \in Sessions \ {s}
    PROVE  FreshOf(t)'
<1>1. pc'[t] = pc[t] /\ call'[t] = call[t] /\ after'[t] = after[t]
  BY ActsLocals DEF IInv, LocalsStay
<1>2. FreshOf(t) /\ OwnCallOf(t)
  BY DEF FreshInv, OwnCallsInv
<1>3. PICK a : a = call[t].account
  OBVIOUS
<1>4. ASSUME pc[t] \in {"ledger", "commit"}
      PROVE  working'[a] = working[a] /\ committed'[a] = committed[a]
  <2>1. a \in Account
    BY <1>3, <1>4 DEF IInv, LocalsInv, LocalsOf, Moving
  <2>2. owner[a] = t
    BY <1>2, <1>3, <1>4 DEF IInv, LedgerInv, OwnCallOf
  <2>3. working'[a] = working[a]
    BY <2>1, <2>2, ActsAccounts DEF IInv, AccountsStay
  <2> QED
    BY <2>1, <2>2, <2>3, CommittedStays
<1>5. LedgerRow(call[t], after[t])' = LedgerRow(call[t], after[t])
  BY <1>1 DEF LedgerRow
<1> QED
  BY <1>1, <1>2, <1>3, <1>4, <1>5 DEF FreshOf

LEMMA OwnFresh ==
    ASSUME IInv, OwnCallsInv, FreshInv, NEW s \in Sessions, Acts(s)
    PROVE  FreshOf(s)'
<1>1. OwnCallOf(s) /\ FreshOf(s) /\ LocalsOf(s) /\ TypeOK
  BY DEF OwnCallsInv, FreshInv, IInv, LocalsInv
<1>2. CASE pc'[s] \notin {"ledger", "commit", "cache", "stats"}
  BY <1>2 DEF FreshOf
<1>3. CASE Deduct(s) \/ Restore(s) \/ ResetQuota(s) \/ Insert(s)
  <2>1. PICK a \in Account : a = call[s].account
    BY <1>1, <1>3 DEF LocalsOf, Deduct, Restore, ResetQuota, Insert, Moving
  <2>2. pc[s] \in {"balance", "insert"} /\ Continue(s, "ledger")
    BY <1>3 DEF Deduct, Restore, ResetQuota, Insert
  <2>3. \E amount : Write(s, a, Reads(s, a, amount))
    BY <1>3, <2>1 DEF Deduct, Restore, ResetQuota, Insert, DecrementBalance, IncrementBalance,
                      UpsertBalance, InsertBalance
  <2>4. pc'[s] = "ledger" /\ call'[s] = call[s]
    BY <1>1, <2>2, ContinueEffect
  <2>5. Visible(s, a) = committed[a] /\ committed[a] \in AccountState
    BY <1>1, <2>1, <2>2 DEF OwnCallOf, Visible, TypeOK, StoreTypeOK
  <2>6. working'[a].entries = committed[a].entries /\ committed' = committed
    BY <1>1, <2>1, <2>3, <2>5 DEF Write, Reads, TypeOK, StoreTypeOK, AccountState
  <2> QED
    BY <2>1, <2>4, <2>6 DEF FreshOf
<1>4. CASE WriteLedger(s)
  <2>1. PICK a \in Account : a = call[s].account
    BY <1>1, <1>4 DEF LocalsOf, WriteLedger, Moving
  <2>2. /\ pc[s] = "ledger" /\ pc'[s] = "commit"
        /\ call'[s] = call[s] /\ after'[s] = after[s] /\ committed' = committed
    BY <1>1, <1>4 DEF WriteLedger, CreateTransaction, GoTo, OwnCallOf, Moving, TypeOK
  <2>3. PICK e : e = LedgerRow(call[s], after[s])
    OBVIOUS
  <2>4. e = LedgerRow(call[s], after[s])'
    BY <2>2, <2>3 DEF LedgerRow
  <2>5. working' = [working EXCEPT ![a].entries = Append(@, e)]
    BY <1>4, <2>1, <2>3 DEF WriteLedger, CreateTransaction
  <2>6. working'[a].entries = Append(working[a].entries, e)
    BY <1>1, <2>5 DEF TypeOK, StoreTypeOK, AccountState
  <2>7. working[a].entries = committed[a].entries
    BY <1>1, <2>1, <2>2 DEF FreshOf
  <2> QED
    BY <2>1, <2>2, <2>4, <2>6, <2>7 DEF FreshOf
<1>5. CASE CommitOwn(s)
  <2>1. pc'[s] = "cache"
    BY <1>1, <1>5 DEF CommitOwn, GoTo, TypeOK
  <2> QED
    BY <2>1 DEF FreshOf
<1>6. CASE UpdateView(s)
  <2>1. CASE Return(s)
    BY <1>1, <2>1, ReturnEffect DEF FreshOf
  <2>2. CASE call[s].op = "charge"
    <3>1. pc'[s] = "stats" /\ call'[s] = call[s]
      BY <1>1, <1>6, <2>2 DEF UpdateView, GoTo, TypeOK
    <3> QED
      BY <2>2, <3>1 DEF FreshOf
  <2>3. CASE ~Return(s) /\ call[s].op # "charge"
    <3>1. pc'[s] = "next"
      BY <1>1, <1>6, <2>3 DEF UpdateView, GoTo, TypeOK
    <3> QED
      BY <3>1 DEF FreshOf
  <2> QED
    BY <2>1, <2>2, <2>3
<1> QED
  BY <1>1, <1>2, <1>3, <1>4, <1>5, <1>6, ActsLabels

(* Only the commit of a charge makes its session owe a count. *)
LEMMA OwesStays ==
    ASSUME IInv, OwnCallsInv, NEW s \in Sessions, Acts(s), ~CommitOwn(s), NEW a, NEW t \in Sessions,
           Owes(t, a)'
    PROVE  Owes(t, a) /\ call'[t] = call[t]
<1>1. CASE t # s
  <2>1. pc'[t] = pc[t] /\ call'[t] = call[t]
    BY <1>1, ActsLocals DEF IInv, LocalsStay
  <2> QED
    BY <2>1 DEF Owes
<1>2. CASE t = s
  <2>1. pc'[s] \in {"cache", "stats"} /\ call'[s].op = "charge" /\ OwnCallOf(s) /\ TypeOK
    BY <1>2 DEF Owes, OwnCallsInv, IInv
  <2>2. ~(Deduct(s) \/ Restore(s) \/ ResetQuota(s) \/ Insert(s))
    <3>1. Continue(s, "ledger") => pc'[s] = "ledger"
      BY <2>1, ContinueEffect
    <3> QED
      BY <2>1, <3>1 DEF Deduct, Restore, ResetQuota, Insert
  <2>3. ~WriteLedger(s)
    BY <2>1 DEF WriteLedger, GoTo, OwnCallOf, TypeOK
  <2>4. UpdateView(s)
    BY <2>1, <2>2, <2>3, ActsLabels
  <2>5. ~Return(s)
    BY <2>1, ReturnEffect
  <2>6. call'[s] = call[s] /\ pc[s] = "cache"
    BY <2>4, <2>5 DEF UpdateView
  <2> QED
    BY <1>2, <2>1, <2>6 DEF Owes
<1> QED
  BY <1>1, <1>2

LEMMA SpentStays ==
    ASSUME NEW s \in Sessions, Acts(s)
    PROVE  spent' = spent \/ CountSpend(s)
<1> USE DEF viewVars
<1>1. CASE \/ FindNoRow(s) \/ IntegrityError(s) \/ CheckReference(s) \/ GetProducts(s)
           \/ GrantProduct(s) \/ UnknownStrategy(s) \/ FundDone(s) \/ DeadlockVictim(s)
           \/ CacheFailure(s) \/ UpdateView(s) \/ Refresh(s)
  BY <1>1 DEF FindNoRow, IntegrityError, CheckReference, GetProducts, GrantProduct,
              UnknownStrategy, FundDone, DeadlockVictim, CacheFailure, UpdateView,
              UpdateSingleBalance, Refresh, SetBalances
<1>2. CASE Deduct(s) \/ Restore(s) \/ ResetQuota(s) \/ Insert(s) \/ Refuse(s)
  BY <1>2 DEF Deduct, Restore, ResetQuota, Insert, Refuse, Continue
<1>3. CASE WriteLedger(s) \/ Abort(s) \/ Crash(s) \/ CommitOwn(s) \/ CommitCaller(s)
  BY <1>3 DEF WriteLedger, Abort, Crash, CommitOwn, CommitCaller
<1>4. CASE BeginCharge(s) \/ BeginRefund(s) \/ BeginFund(s) \/ BeginRefresh(s)
  BY <1>4 DEF BeginCharge, BeginRefund, BeginMovement, BeginFund, Begin, BeginRefresh
<1> QED
  BY <1>1, <1>2, <1>3, <1>4 DEF Acts, Step

(* An account that nobody commits to or counts for. *)
LEMMA BackedSame ==
    ASSUME NEW a \in Account, Backed(a), committed'[a] = committed[a], spent'[a] = spent[a],
           \A t \in Sessions : Owes(t, a)' => Owes(t, a) /\ call'[t] = call[t]
    PROVE  Backed(a)'
<1>1. PICK r : r = TakenFrom(a) /\ r = TakenFrom(a)'
  BY DEF TakenFrom
<1>2. PICK U \in SUBSET (1..Len(r)), f \in [Sessions -> 0..Len(r)] : CountedBy(a, r, U, f)
  BY <1>1 DEF Backed
<1>3. CountedBy(a, r, U, f)'
  BY <1>2 DEF CountedBy
<1> QED
  BY <1>1, <1>2, <1>3 DEF Backed

(* The commit of a call adds its row, which the session owes if it is a charge. *)
LEMMA BackedCommit ==
    ASSUME IInv, OwnCallsInv, FreshInv, NEW s \in Sessions, CommitOwn(s),
           NEW a \in Account, a = call[s].account, Backed(a)
    PROVE  Backed(a)'
<1>1. TypeOK /\ OwnCallOf(s) /\ FreshOf(s) /\ LocalsOf(s) /\ pc[s] = "commit"
  BY DEF OwnCallsInv, FreshInv, IInv, LocalsInv, CommitOwn
<1>2. /\ pc'[s] = "cache" /\ UNCHANGED <<call, spent>>
      /\ \A t \in Sessions \ {s} : pc'[t] = pc[t]
  BY <1>1 DEF CommitOwn, GoTo, TypeOK, viewVars
<1>3. PICK e \in Entry : e = LedgerRow(call[s], after[s])
  <2>1. call[s] \in Call /\ call[s].op \in Movements /\ after[s] \in Int
    BY <1>1 DEF TypeOK, LocalsOf, Moving
  <2> QED
    BY <2>1, LedgerRowTyped
<1>4. committed'[a].entries = Append(committed[a].entries, e)
  <2>1. committed'[a] = working[a]
    BY <1>1 DEF CommitOwn, Commit, Visible, OwnCallOf
  <2> QED
    BY <1>1, <1>3, <2>1 DEF FreshOf
<1>5. PICK x \in Nat : /\ x = (IF e.type = "usage" THEN -e.amount ELSE 0)
                       /\ call[s].op = "charge" => x = call[s].amount
  <2>1. PICK m \in Nat : m = call[s].amount
    BY <1>1 DEF TypeOK, Call
  <2>2. CASE call[s].op = "charge"
    <3>1. e.type = "usage" /\ e.amount = -m
      BY <1>3, <2>1, <2>2 DEF LedgerRow, TypeOf
    <3>2. m = -e.amount
      BY <2>1, <3>1
    <3> QED
      BY <2>1, <3>1, <3>2
  <2>3. CASE call[s].op # "charge"
    <3>1. e.type # "usage"
      BY <1>1, <1>3, <2>3 DEF LedgerRow, TypeOf, LocalsOf, Moving, Movements
    <3> QED
      BY <2>3, <3>1
  <2> QED
    BY <2>2, <2>3
<1>6. PICK r \in Seq(Int) : r = TakenFrom(a) /\ Len(r) \in Nat
  BY <1>1, TakenFromTyped
<1>7. PICK q : q = Append(r, x)
  OBVIOUS
<1>8. TakenFrom(a)' = q
  <2>1. Taken(Append(committed[a].entries, e)) = Append(Taken(committed[a].entries), x)
    <3>1. PICK p \in Seq(Entry) : p = committed[a].entries
      BY <1>1, TakenFromTyped
    <3>2. Taken(Append(p, e)) = Append(Taken(p), IF e.type = "usage" THEN -e.amount ELSE 0)
      BY EntryAmounts, TakenAppend, Zenon
    <3> QED
      BY <1>5, <3>1, <3>2, Zenon
  <2> QED
    BY <1>4, <1>6, <1>7, <2>1 DEF TakenFrom
<1>9. /\ Len(q) = Len(r) + 1 /\ q[Len(r) + 1] = x
      /\ \A i \in 1..Len(r) : q[i] = r[i]
  <2>1. r \in Seq(Int) /\ x \in Int
    BY <1>6
  <2>2. Len(q) = Len(r) + 1
    BY <1>7, <2>1
  <2>3. q[Len(r) + 1] = x
    BY <1>7, <2>1
  <2>4. \A i \in 1..Len(r) : q[i] = r[i]
    BY <1>7, <2>1
  <2> QED
    BY <2>2, <2>3, <2>4
<1>10. \A i \in 1..Len(r) : r[i] >= 0
  BY <1>6 DEF Backed
<1>11. \A i \in 1..Len(q) : q[i] >= 0
  <2> SUFFICES ASSUME NEW i \in 1..Len(q) PROVE q[i] >= 0
    OBVIOUS
  <2>1. CASE i = Len(r) + 1
    BY <1>9, <2>1
  <2>2. CASE i # Len(r) + 1
    <3>1. i \in 1..Len(r)
      BY <1>6, <1>9, <2>2
    <3> QED
      BY <1>9, <1>10, <3>1
  <2> QED
    BY <2>1, <2>2
<1>12. PICK U \in SUBSET (1..Len(r)), f \in [Sessions -> 0..Len(r)] : CountedBy(a, r, U, f)
  BY <1>6 DEF Backed
<1>13. PICK n \in Nat : n = Len(r)
  BY <1>6
<1>14. PICK g : g = [f EXCEPT ![s] = n + 1]
  OBVIOUS
<1>15. U \in SUBSET (1..Len(q)) /\ g \in [Sessions -> 0..Len(q)]
  BY <1>9, <1>12, <1>13, <1>14
<1>16. g[s] = n + 1 /\ \A t \in Sessions \ {s} : g[t] = f[t]
  BY <1>12, <1>14
<1>17. \A t \in Sessions \ {s} : Owes(t, a)' <=> Owes(t, a)
  BY <1>2 DEF Owes
<1>18. Owes(s, a)' => call[s].op = "charge"
  BY <1>2 DEF Owes
<1>19. ASSUME NEW t \in Sessions, Owes(t, a)'
       PROVE  g[t] \in (1..Len(q)) \ U /\ q[g[t]] = call[t].amount
  <2>1. CASE t = s
    <3>1. g[t] = n + 1 /\ n + 1 \in (1..Len(q)) \ U
      BY <1>9, <1>12, <1>13, <1>16, <2>1
    <3>2. call[t].op = "charge"
      BY <1>18, <1>19, <2>1
    <3>3. q[n + 1] = x
      BY <1>9, <1>13
    <3>4. x = call[t].amount
      BY <1>5, <2>1, <3>2
    <3> QED
      BY <3>1, <3>3, <3>4
  <2>2. CASE t # s
    <3>1. g[t] = f[t] /\ f[t] \in (1..Len(r)) \ U /\ r[f[t]] = call[t].amount
      BY <1>12, <1>16, <1>17, <1>19, <2>2 DEF CountedBy
    <3> QED
      BY <1>9, <1>13, <3>1
  <2> QED
    BY <2>1, <2>2
<1>20. ASSUME NEW t \in Sessions, NEW u \in Sessions, Owes(t, a)', Owes(u, a)', g[t] = g[u]
       PROVE  t = u
  <2>1. \A v \in Sessions \ {s} : Owes(v, a)' => g[v] = f[v] /\ f[v] \in 1..n
    BY <1>12, <1>13, <1>16, <1>17 DEF CountedBy
  <2>2. \A v \in Sessions \ {s} : Owes(v, a)' => g[v] # n + 1
    BY <2>1
  <2>3. CASE t = s \/ u = s
    BY <1>16, <1>20, <2>2, <2>3
  <2>4. CASE t # s /\ u # s
    BY <1>12, <1>17, <1>20, <2>1, <2>4 DEF CountedBy
  <2> QED
    BY <2>3, <2>4
<1>21. spent'[a] <= Total(Part(q, U))
  <2>1. Total(Part(q, U)) = Total(Part(r, U))
    BY <1>6, <1>7, <1>12, PartAppend
  <2> QED
    BY <1>2, <1>12, <2>1 DEF CountedBy
<1>22. CountedBy(a, q, U, g)'
  BY <1>2, <1>19, <1>20, <1>21 DEF CountedBy
<1> QED
  BY <1>8, <1>11, <1>15, <1>22 DEF Backed

(* Counting a charge takes its row to the counted ones. *)
LEMMA BackedCount ==
    ASSUME IInv, OwnCallsInv, FreshInv, NEW s \in Sessions, CountSpend(s),
           NEW a \in Account, a = call[s].account, Backed(a)
    PROVE  Backed(a)'
<1>1. TypeOK /\ FreshOf(s) /\ pc[s] = "stats"
  BY DEF FreshInv, IInv, CountSpend
<1>2. /\ call'[s] = NoCall /\ committed' = committed
      /\ \A t \in Sessions \ {s} : pc'[t] = pc[t] /\ call'[t] = call[t]
  BY <1>1, ReturnEffect DEF CountSpend, storeVars, OthersKeep
<1>3. Owes(s, a)
  BY <1>1 DEF Owes, FreshOf
<1>4. PICK m \in Nat : m = call[s].amount
  BY <1>1 DEF TypeOK, Call
<1>5. PICK n \in Nat : n = spent[a]
  BY <1>1 DEF TypeOK, ViewTypeOK
<1>6. spent'[a] <= n + m /\ spent'[a] \in Int
  <2>1. spent'[a] = IF n + m > SpentCap THEN SpentCap ELSE n + m
    BY <1>1, <1>4, <1>5 DEF CountSpend, IncrementStats, TypeOK, ViewTypeOK
  <2> QED
    BY <2>1, Constants
<1>7. PICK r \in Seq(Int) : r = TakenFrom(a) /\ r = TakenFrom(a)' /\ Len(r) \in Nat
  BY <1>1, <1>2, TakenFromTyped DEF TakenFrom
<1>8. PICK U \in SUBSET (1..Len(r)), f \in [Sessions -> 0..Len(r)] : CountedBy(a, r, U, f)
  BY <1>7 DEF Backed
<1>9. PICK i \in (1..Len(r)) \ U : i = f[s] /\ r[i] = m
  BY <1>3, <1>4, <1>8 DEF CountedBy
<1>10. PICK V \in SUBSET (1..Len(r)) : V = U \union {i}
  BY <1>8, <1>9
<1>11. \A t \in Sessions : Owes(t, a)' => t # s /\ Owes(t, a) /\ call'[t] = call[t]
  BY <1>2 DEF Owes, NoCall
<1>12. ASSUME NEW t \in Sessions, Owes(t, a)'
       PROVE  f[t] \in (1..Len(r)) \ V /\ r[f[t]] = call'[t].amount
  <2>1. t # s /\ Owes(t, a) /\ call'[t] = call[t]
    BY <1>11, <1>12
  <2>2. f[t] \in (1..Len(r)) \ U /\ r[f[t]] = call[t].amount
    BY <1>8, <2>1 DEF CountedBy
  <2>3. f[t] # i
    BY <1>3, <1>8, <1>9, <2>1 DEF CountedBy
  <2> QED
    BY <1>10, <2>1, <2>2, <2>3
<1>13. \A t \in Sessions, u \in Sessions : Owes(t, a)' /\ Owes(u, a)' /\ f[t] = f[u] => t = u
  BY <1>8, <1>11 DEF CountedBy
<1>14. spent'[a] <= Total(Part(r, V))
  <2>1. Total(Part(r, V)) >= Total(Part(r, U)) + m
    BY <1>8, <1>9, <1>10, PartRises
  <2>2. n <= Total(Part(r, U))
    BY <1>5, <1>8 DEF CountedBy
  <2>3. PICK y \in Int : y = Total(Part(r, U))
    BY PartTyped
  <2>4. PICK z \in Int : z = Total(Part(r, V))
    BY PartTyped
  <2> QED
    BY <1>6, <2>1, <2>2, <2>3, <2>4
<1>15. CountedBy(a, r, V, f)'
  BY <1>12, <1>13, <1>14 DEF CountedBy
<1>16. \A j \in 1..Len(r) : r[j] >= 0
  BY <1>7 DEF Backed
<1> QED
  BY <1>7, <1>8, <1>10, <1>15, <1>16 DEF Backed

LEMMA BackedStep ==
    ASSUME IInv, OwnCallsInv, FreshInv, BackedInv, NEW s \in Sessions, Acts(s)
    PROVE  BackedInv'
<1> SUFFICES ASSUME NEW a \in Account PROVE Backed(a)'
  BY DEF BackedInv
<1>1. Backed(a) /\ TypeOK /\ OwnCallOf(s)
  BY DEF BackedInv, IInv, OwnCallsInv
<1>2. CASE CommitOwn(s)
  <2>1. CASE a = call[s].account
    BY <1>1, <1>2, <2>1, BackedCommit
  <2>2. CASE a # call[s].account
    <3>1. owner[a] # s
      BY <1>1, <1>2, <2>2 DEF OwnCallOf, CommitOwn
    <3>2. committed'[a] = committed[a] /\ spent' = spent /\ call' = call
      BY <1>2, <3>1 DEF CommitOwn, Commit, Visible, viewVars
    <3>3. \A t \in Sessions : Owes(t, a)' => Owes(t, a) /\ call'[t] = call[t]
      BY <1>1, <1>2, <2>2, <3>2 DEF CommitOwn, GoTo, Owes, TypeOK
    <3> QED
      BY <1>1, <3>2, <3>3, BackedSame
  <2> QED
    BY <2>1, <2>2
<1>3. CASE CountSpend(s)
  <2>1. CASE a = call[s].account
    BY <1>1, <1>3, <2>1, BackedCount
  <2>2. CASE a # call[s].account
    <3>1. committed' = committed /\ spent'[a] = spent[a] /\ ~CommitOwn(s)
      BY <1>1, <1>3, <2>2 DEF CountSpend, CommitOwn, IncrementStats, storeVars, TypeOK, ViewTypeOK
    <3> QED
      BY <1>1, <3>1, OwesStays, BackedSame
  <2> QED
    BY <2>1, <2>2
<1>4. CASE ~CommitOwn(s) /\ ~CountSpend(s)
  <2>1. spent' = spent /\ committed' = committed
    BY <1>1, <1>4, SpentStays, ActsPublish DEF OwnCallOf, CommitCaller
  <2> QED
    BY <1>1, <1>4, <2>1, OwesStays, BackedSame
<1> QED
  BY <1>2, <1>3, <1>4

SpendInv == ViewInv /\ FreshInv /\ BackedInv

LEMMA SpendStarts == Init => SpendInv
<1> SUFFICES ASSUME Init PROVE SpendInv
  OBVIOUS
<1>1. ViewInv
  BY ViewStarts
<1>2. /\ \A s \in Sessions : pc[s] = "idle"
      /\ \A a \in Account : committed[a].entries = <<>> /\ spent[a] = 0
  BY DEF Init, StoreInit, ViewInit
<1>3. FreshInv
  BY <1>2 DEF FreshInv, FreshOf
<1>4. ASSUME NEW a \in Account PROVE Backed(a)
  <2>1. TakenFrom(a) = <<>>
    BY <1>2 DEF TakenFrom, Taken
  <2>2. Part(<<>>, {}) = <<>> /\ Len(<<>>) = 0
    BY DEF Part
  <2>3. PICK f : f = [s \in Sessions |-> 0]
    OBVIOUS
  <2>4. spent[a] <= Total(Part(<<>>, {}))
    BY <1>2, <2>2, TotalEmpty
  <2>5. CountedBy(a, <<>>, {}, f)
    BY <1>2, <2>4 DEF CountedBy, Owes
  <2>6. {} \in SUBSET (1..Len(<<>>)) /\ f \in [Sessions -> 0..Len(<<>>)]
    BY <2>2, <2>3
  <2>7. \A i \in 1..Len(<<>>) : FALSE
    BY <2>2
  <2> QED
    BY <2>1, <2>5, <2>6, <2>7 DEF Backed
<1> QED
  BY <1>1, <1>3, <1>4 DEF SpendInv, BackedInv

LEMMA SpendStep ==
    ASSUME OwnCallsOnly, IInv, IInv', SpendInv, [Next]_vars
    PROVE  SpendInv'
<1>1. ViewInv'
  BY ViewStep DEF SpendInv
<1>2. CASE UNCHANGED vars
  <2>1. UNCHANGED <<committed, working, owner, spent, pc, call, after>>
    BY <1>2 DEF vars, storeVars, viewVars, locals
  <2>2. FreshInv'
    BY <2>1 DEF SpendInv, FreshInv, FreshOf, LedgerRow
  <2>3. \A a \in Account : \A t \in Sessions : Owes(t, a)' => Owes(t, a) /\ call'[t] = call[t]
    BY <2>1 DEF Owes
  <2>4. BackedInv'
    BY <2>1, <2>3, BackedSame DEF SpendInv, BackedInv
  <2> QED
    BY <1>1, <2>2, <2>4 DEF SpendInv
<1>3. ASSUME NEW s \in Sessions, Acts(s) PROVE SpendInv'
  <2>1. \A t \in Sessions : FreshOf(t)'
    BY <1>3, OwnFresh, OthersFresh DEF SpendInv, ViewInv
  <2>2. BackedInv'
    BY <1>3, BackedStep DEF SpendInv, ViewInv
  <2> QED
    BY <1>1, <2>1, <2>2 DEF SpendInv, FreshInv
<1> QED
  BY <1>2, <1>3, NextActs

LEMMA BackedIsEnough == ASSUME IInv, BackedInv PROVE SpendIsBacked
<1> SUFFICES ASSUME NEW a \in Account PROVE spent[a] <= Spend(committed[a].entries)
  BY DEF SpendIsBacked
<1>1. PICK r \in Seq(Int) : r = TakenFrom(a)
  BY TakenFromTyped DEF IInv
<1>2. (\A i \in 1..Len(r) : r[i] >= 0) /\ \E U : spent[a] <= Total(Part(r, U))
  BY <1>1 DEF BackedInv, Backed, CountedBy
<1>3. PICK U : spent[a] <= Total(Part(r, U))
  BY <1>2
<1>4. Total(Part(r, U)) <= Total(r)
  BY <1>2, PartBelow
<1>5. PICK x \in Int : x = Total(Part(r, U))
  BY PartTyped
<1>6. PICK y \in Int : y = Total(r)
  BY SumsOf
<1>7. PICK n \in Nat : n = spent[a]
  BY DEF IInv, TypeOK, ViewTypeOK
<1>8. Spend(committed[a].entries) = y
  BY <1>1, <1>6 DEF Spend, TakenFrom
<1> QED
  BY <1>3, <1>4, <1>5, <1>6, <1>7, <1>8

(***************************************************************************)
(* If every call runs in a transaction of its own, the statistics never    *)
(* count money that the committed ledger has not taken, however calls      *)
(* interleave, fail and crash: every count follows the commit of a charge  *)
(* of its own (service.py lines 227 to 245).                               *)
(***************************************************************************)
THEOREM ServiceSpendIsBacked ==
    ASSUME OwnCallsOnly
    PROVE  Spec => []SpendIsBacked
<1>1. IInv /\ SpendInv => SpendIsBacked
  BY BackedIsEnough DEF SpendInv
<1>2. IInv /\ IInv' /\ SpendInv /\ [Next]_vars => SpendInv'
  BY SpendStep
<1> QED
  BY <1>1, <1>2, SpendStarts, InvHolds, PTL DEF Spec
=============================================================================
