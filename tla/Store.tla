------------------------------- MODULE Store -------------------------------
(***************************************************************************)
(* SQLAlchemyBillingRepository over a READ COMMITTED database with row     *)
(* locks.  Each operator is one repository call made inside the            *)
(* transaction of a session; the locking SELECT and the UPDATE of a call   *)
(* are one step, since no other session can touch the row between them.    *)
(* An INSERT is a step of its own: a SELECT that finds no row locks        *)
(* nothing.                                                                *)
(*                                                                         *)
(* A session that changed or locked a row owns its account until it        *)
(* commits or rolls back; what it wrote is in working, and the other       *)
(* sessions read committed.                                                *)
(***************************************************************************)
EXTENDS Ledger, FiniteSets

CONSTANTS
    Sessions,       \* the database sessions, one per concurrent caller
    Seeded          \* accounts whose balance row exists at the start

ASSUME NoneIsNoSession == None \notin Sessions

ASSUME SeededAccounts ==
    Seeded \subseteq Account /\ \A a \in Account \ Seeded : Opening[a] = 0

VARIABLES
    committed,      \* [Account -> AccountState]
    working,        \* the owner's version of an account
    owner           \* who holds the account's row lock, or None

storeVars == <<committed, working, owner>>

StoreTypeOK ==
    /\ committed \in [Account -> AccountState]
    /\ working \in [Account -> AccountState]
    /\ owner \in [Account -> Sessions \union {None}]

StoreInit ==
    /\ committed =
          [a \in Account |-> [row |-> a \in Seeded, amount |-> Opening[a], entries |-> <<>>]]
    /\ working = committed
    /\ owner = [a \in Account |-> None]

(* What a statement of session s reads. *)
Visible(s, a) == IF owner[a] = s THEN working[a] ELSE committed[a]

(* SELECT ... FOR UPDATE of an existing row waits until this holds. *)
Lockable(s, a) == owner[a] \in {None, s}

FindsRow(s, a) == Visible(s, a).row

Write(s, a, account) ==
    /\ working' = [working EXCEPT ![a] = account]
    /\ owner' = [owner EXCEPT ![a] = s]
    /\ UNCHANGED committed

Reads(s, a, amount) == [Visible(s, a) EXCEPT !.row = TRUE, !.amount = amount]

-----------------------------------------------------------------------------

DecrementBalance(s, a, deduction) ==
    /\ FindsRow(s, a)
    /\ Lockable(s, a)
    /\ Visible(s, a).amount >= deduction
    /\ Write(s, a, Reads(s, a, Visible(s, a).amount - deduction))

(* InsufficientFundsError; a row that was read stays locked. *)
DecrementRefused(s, a, deduction) ==
    \/ /\ ~FindsRow(s, a)
       /\ UNCHANGED storeVars
    \/ /\ FindsRow(s, a)
       /\ Lockable(s, a)
       /\ Visible(s, a).amount < deduction
       /\ Write(s, a, Visible(s, a))

(* A mutant: the addition replaces the balance. *)
IncrementBalanceReplacing(s, a, addition) ==
    /\ FindsRow(s, a)
    /\ Lockable(s, a)
    /\ Write(s, a, Reads(s, a, addition))

IncrementBalance(s, a, addition) ==
    /\ FindsRow(s, a)
    /\ Lockable(s, a)
    /\ Write(s, a, Reads(s, a, Visible(s, a).amount + addition))

UpsertBalance(s, a, amount) ==
    /\ FindsRow(s, a)
    /\ Lockable(s, a)
    /\ Write(s, a, Reads(s, a, amount))

(***************************************************************************)
(* The INSERT of increment_balance and upsert_balance.  The unique key     *)
(* makes it wait for a concurrent insert of the same account and fail with *)
(* an IntegrityError when that insert was committed.                       *)
(***************************************************************************)
InsertBalance(s, a, amount) ==
    /\ Lockable(s, a)
    /\ ~FindsRow(s, a)
    /\ Write(s, a, Reads(s, a, amount))

InsertConflict(s, a) ==
    /\ Lockable(s, a)
    /\ FindsRow(s, a)

(* The ledger row is written by the session that has just moved the balance. *)
CreateTransaction(s, a, entry) ==
    /\ owner[a] = s
    /\ working' = [working EXCEPT ![a].entries = Append(@, entry)]
    /\ UNCHANGED <<committed, owner>>

GetTransactionByReference(s, reference) ==
    \E a \in Account : \E i \in 1..Len(Visible(s, a).entries) :
        Visible(s, a).entries[i].reference = reference

-----------------------------------------------------------------------------

Released(s) == [a \in Account |-> IF owner[a] = s THEN None ELSE owner[a]]

Commit(s) ==
    /\ committed' = [a \in Account |-> Visible(s, a)]
    /\ owner' = Released(s)
    /\ UNCHANGED working

Rollback(s) ==
    /\ working' = [a \in Account |-> IF owner[a] = s THEN committed[a] ELSE working[a]]
    /\ owner' = Released(s)
    /\ UNCHANGED committed

(***************************************************************************)
(* The database aborts a session that waits for itself through others.     *)
(* waitsFor[s] is the session whose lock s waits for, or None.             *)
(***************************************************************************)
InWaitCycle(s, waitsFor) ==
    \E cycle \in SUBSET Sessions :
        s \in cycle /\ {waitsFor[t] : t \in cycle} = cycle
=============================================================================
