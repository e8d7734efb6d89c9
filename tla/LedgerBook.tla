----------------------------- MODULE LedgerBook -----------------------------
(***************************************************************************)
(* The promise of the billing database, seen from outside: a book of       *)
(* accounts in which postings appear atomically, possibly on several       *)
(* accounts at once.  A posting never rewrites history, every balance is   *)
(* explained by the entries that led to it, and no account is overdrawn.   *)
(* BalanceService, UsageWorker and LocalBackend implement this book.       *)
(***************************************************************************)
EXTENDS Ledger

VARIABLE book       \* [Account -> AccountState]

(* Before the library has run: the host's rows, and an empty ledger. *)
BookInit ==
    \A a \in Account : book[a].entries = <<>> /\ book[a].amount = Opening[a]

Post ==
    \A a \in Account :
        /\ Extends(book[a].entries, book'[a].entries)
        /\ Sound(a, book'[a])
        /\ book[a].row => book'[a].row

BookSpec == BookInit /\ [][Post]_book
=============================================================================
