------------------------------ MODULE Requests ------------------------------
(***************************************************************************)
(* Requests of a host that are wrapped by BillingDecorators.consumes and   *)
(* that track their usage with BillingDecorators.session (decorators.py,   *)
(* context.py).  consumes charges before the operation and refunds when it *)
(* raises; session sets a context variable, and enqueues a usage record on *)
(* its way out.  Around them BillingMiddleware (integrations/fastapi.py)   *)
(* sets the context variable to the customer of the request's state; it    *)
(* runs them in a copy of its own context, which the model keeps as one    *)
(* variable, in which what a session leaves behind would show.             *)
(* pc[r] names the await of request r:                                     *)
(*   route                  between the middleware and the wrapper         *)
(*   charge, charge_view    the two halves of BillingService.charge        *)
(*   run                    inside the operation                           *)
(*   session                inside the operation and inside its session    *)
(*   write                  the session's write of the usage record        *)
(*   refund, refund_view    the two halves of BillingService.refund        *)
(*   respond                back in the middleware                         *)
(* A charge and a refund commit in transactions of their own before they   *)
(* touch the cache, so each is one step of the database and one of the     *)
(* cache; BalanceService has the steps inside them.                        *)
(***************************************************************************)
EXTENDS Models, FiniteSets

CONSTANTS
    Requests,
    Opening,        \* [Customers -> Nat], the balances in units of the charge
    Cancellable     \* the requests that may be cancelled

ASSUME OpeningIsNatural == Opening \in [Customers -> Nat]

ASSUME RequestsAreFinite == IsFiniteSet(Requests)

VARIABLES
    balance,        \* committed balance of a customer
    pc,
    payer,          \* customer_id, the local of the consumes wrapper
    ambient,        \* the context variable as the request found it
    context,        \* the context variable, as the customer of its context
    reported,       \* whether the session's metrics are not empty
    opted_out,      \* write_on_exception=False
    exit,           \* how the body of the session ended
    outcome,        \* how the request ended
    charged, refunded, recorded     \* what it left in the database

money == <<balance, charged, refunded>>
session == <<context, reported, opted_out, exit>>
vars == <<money, session, pc, payer, ambient, outcome, recorded>>

Labels == {"idle", "route", "respond", "charge", "charge_view", "run", "session", "write",
           "refund", "refund_view", "done"}
Exits == {"normal", "error", "cancelled"}
Outcomes == {"returned", "raised", "refund_failed", "cancelled", "not_run", "died"}

ASSUME NoneIsNoEnding == None \notin Exits \union Outcomes

TypeOK ==
    /\ balance \in [Customers -> Nat]
    /\ pc \in [Requests -> Labels]
    /\ payer \in [Requests -> Customers \union {None}]
    /\ ambient \in [Requests -> Customers \union {None}]
    /\ context \in [Requests -> Customers \union {None}]
    /\ reported \in [Requests -> BOOLEAN]
    /\ opted_out \in [Requests -> BOOLEAN]
    /\ exit \in [Requests -> Exits \union {None}]
    /\ outcome \in [Requests -> Outcomes \union {None}]
    /\ charged \in [Requests -> BOOLEAN]
    /\ refunded \in [Requests -> BOOLEAN]
    /\ recorded \in [Requests -> BOOLEAN]

Init ==
    /\ balance = Opening
    /\ pc = [r \in Requests |-> "idle"]
    /\ payer = [r \in Requests |-> None]
    /\ ambient = [r \in Requests |-> None]
    /\ context = [r \in Requests |-> None]
    /\ reported = [r \in Requests |-> FALSE]
    /\ opted_out = [r \in Requests |-> FALSE]
    /\ exit = [r \in Requests |-> None]
    /\ outcome = [r \in Requests |-> None]
    /\ charged = [r \in Requests |-> FALSE]
    /\ refunded = [r \in Requests |-> FALSE]
    /\ recorded = [r \in Requests |-> FALSE]

-----------------------------------------------------------------------------

GoTo(r, label) ==
    /\ pc' = [pc EXCEPT ![r] = label]
    /\ UNCHANGED <<payer, ambient, outcome>>

End(r, how) ==
    /\ pc' = [pc EXCEPT ![r] = "respond"]
    /\ outcome' = [outcome EXCEPT ![r] = how]
    /\ UNCHANGED <<payer, ambient>>

(* BillingMiddleware.dispatch, which lets a request without a customer pass. *)
Dispatch(r) ==
    /\ pc[r] = "idle"
    /\ \E customer_id \in Customers \union {None} :
          /\ context' = [context EXCEPT ![r] = customer_id]
          /\ ambient' = [ambient EXCEPT ![r] = customer_id]
    /\ pc' = [pc EXCEPT ![r] = "route"]
    /\ UNCHANGED <<money, reported, opted_out, exit, payer, outcome, recorded>>

(* The finally block of dispatch, whether the request returned or raised. *)
Respond(r) ==
    /\ pc[r] = "respond"
    /\ pc' = [pc EXCEPT ![r] = "done"]
    /\ context' = [context EXCEPT ![r] = None]
    /\ UNCHANGED <<money, reported, opted_out, exit, payer, ambient, outcome, recorded>>

(* The customer of the current context wins over the arguments of the call. *)
ResolveCustomerId(r, argument) == IF context[r] # None THEN context[r] ELSE argument

Enter(r) ==
    /\ pc[r] = "route"
    /\ \E argument \in Customers \union {None} :
          /\ ResolveCustomerId(r, argument) # None
          /\ payer' = [payer EXCEPT ![r] = ResolveCustomerId(r, argument)]
    /\ pc' = [pc EXCEPT ![r] = "charge"]
    /\ UNCHANGED <<money, session, ambient, outcome, recorded>>

(* Without a customer the wrapper answers 422 and runs nothing. *)
RefuseUnknown(r) ==
    /\ pc[r] = "route"
    /\ ResolveCustomerId(r, None) = None
    /\ End(r, "not_run")
    /\ UNCHANGED <<money, session, recorded>>

(* A mutant: the charge does not look at the balance. *)
ChargeOverdrawing(r) ==
    /\ pc[r] = "charge"
    /\ balance' = [balance EXCEPT ![payer[r]] = @ - 1]
    /\ charged' = [charged EXCEPT ![r] = TRUE]
    /\ GoTo(r, "charge_view")
    /\ UNCHANGED <<refunded, session, recorded>>

Charge(r) ==
    /\ pc[r] = "charge"
    /\ balance[payer[r]] > 0
    /\ balance' = [balance EXCEPT ![payer[r]] = @ - 1]
    /\ charged' = [charged EXCEPT ![r] = TRUE]
    /\ GoTo(r, "charge_view")
    /\ UNCHANGED <<refunded, session, recorded>>

(* InsufficientFundsError, or the transaction of the charge failed. *)
ChargeFails(r) ==
    /\ pc[r] = "charge"
    /\ End(r, "not_run")
    /\ UNCHANGED <<money, session, recorded>>

ChargeView(r) ==
    /\ pc[r] = "charge_view"
    /\ GoTo(r, "run")
    /\ UNCHANGED <<money, session, recorded>>

(* The charge is committed; the error leaves the wrapper before its try. *)
ChargeViewFails(r) ==
    /\ pc[r] = "charge_view"
    /\ End(r, "not_run")
    /\ UNCHANGED <<money, session, recorded>>

-----------------------------------------------------------------------------

OpenSession(r) ==
    /\ pc[r] = "run"
    /\ exit[r] = None
    /\ \E customer \in Customers, optOut \in BOOLEAN :
          /\ context' = [context EXCEPT ![r] = customer]
          /\ opted_out' = [opted_out EXCEPT ![r] = optOut]
    /\ GoTo(r, "session")
    /\ UNCHANGED <<money, reported, exit, recorded>>

Report(r) ==
    /\ pc[r] = "session"
    /\ reported' = [reported EXCEPT ![r] = TRUE]
    /\ UNCHANGED <<money, context, opted_out, exit, recorded, pc, payer, ambient, outcome>>

(***************************************************************************)
(* An exception that left the session goes on to consumes, unless the      *)
(* operation handles it.  CancelledError is no Exception: consumes lets it *)
(* through without a refund.                                               *)
(***************************************************************************)
Resume(r, how) ==
    CASE how = "normal"    -> GoTo(r, "run")
      [] how = "error"     -> GoTo(r, "run") \/ GoTo(r, "refund")
      [] how = "cancelled" -> End(r, "cancelled")

ToBeWritten(r, how) == reported[r] /\ (how # "error" \/ ~opted_out[r])

(* A mutant: the context is reset on a normal exit only. *)
LeaveSessionResettingIfNormal(r, how) ==
    /\ pc[r] = "session"
    /\ context' = [context EXCEPT ![r] = IF how = "normal" THEN ambient[r] ELSE context[r]]
    /\ exit' = [exit EXCEPT ![r] = how]
    /\ IF ToBeWritten(r, how) THEN GoTo(r, "write") ELSE Resume(r, how)
    /\ UNCHANGED <<money, reported, opted_out, recorded>>

(* The finally block of session: reset the context, then write the record. *)
LeaveSession(r, how) ==
    /\ pc[r] = "session"
    /\ context' = [context EXCEPT ![r] = ambient[r]]
    /\ exit' = [exit EXCEPT ![r] = how]
    /\ IF ToBeWritten(r, how) THEN GoTo(r, "write") ELSE Resume(r, how)
    /\ UNCHANGED <<money, reported, opted_out, recorded>>

WriteUsageRecord(r) ==
    /\ pc[r] = "write"
    /\ recorded' = [recorded EXCEPT ![r] = TRUE]
    /\ Resume(r, exit[r])
    /\ UNCHANGED <<money, session>>

(* Best effort: the error is swallowed, and the request goes on. *)
WriteFails(r) ==
    /\ pc[r] = "write"
    /\ Resume(r, exit[r])
    /\ UNCHANGED <<money, session, recorded>>

-----------------------------------------------------------------------------

ReturnFromOperation(r) ==
    /\ pc[r] = "run"
    /\ End(r, "returned")
    /\ UNCHANGED <<money, session, recorded>>

(* A mutant: an error of the operation is passed on without a refund. *)
OperationRaisesUnrefunded(r) ==
    /\ pc[r] = "run"
    /\ End(r, "raised")
    /\ UNCHANGED <<money, session, recorded>>

OperationRaises(r) ==
    /\ pc[r] = "run"
    /\ GoTo(r, "refund")
    /\ UNCHANGED <<money, session, recorded>>

(* The refund goes to the customer that the wrapper charged. *)
Refund(r) ==
    /\ pc[r] = "refund"
    /\ balance' = [balance EXCEPT ![payer[r]] = @ + 1]
    /\ refunded' = [refunded EXCEPT ![r] = TRUE]
    /\ GoTo(r, "refund_view")
    /\ UNCHANGED <<charged, session, recorded>>

(* The transaction of the refund failed; the error is raised all the same. *)
RefundFails(r) ==
    /\ pc[r] = "refund"
    /\ End(r, "refund_failed")
    /\ UNCHANGED <<money, session, recorded>>

(* A mutant: a refund whose cache update failed is tried again. *)
RefundViewOrRetry(r) ==
    /\ pc[r] = "refund_view"
    /\ End(r, "raised") \/ GoTo(r, "refund")
    /\ UNCHANGED <<money, session, recorded>>

(* Whether the cache update succeeds or not, an exception is raised. *)
RefundView(r) ==
    /\ pc[r] = "refund_view"
    /\ End(r, "raised")
    /\ UNCHANGED <<money, session, recorded>>

-----------------------------------------------------------------------------

(***************************************************************************)
(* The host cancels the request at its await.  In a session this runs the  *)
(* finally block first; a write that is cancelled may have been committed. *)
(***************************************************************************)
Cancel(r) ==
    /\ r \in Cancellable
    /\ \/ LeaveSession(r, "cancelled")
       \/ /\ pc[r] \in {"route", "charge", "charge_view", "run", "refund", "refund_view"}
          /\ End(r, "cancelled")
          /\ UNCHANGED <<money, session, recorded>>
       \/ /\ pc[r] = "write"
          /\ End(r, "cancelled")
          /\ \/ recorded' = [recorded EXCEPT ![r] = TRUE]
             \/ UNCHANGED recorded
          /\ UNCHANGED <<money, session>>

(* The process dies, and the context variable with it. *)
Die(r) ==
    /\ pc[r] \notin {"idle", "respond", "done"}
    /\ pc' = [pc EXCEPT ![r] = "done"]
    /\ outcome' = [outcome EXCEPT ![r] = "died"]
    /\ context' = [context EXCEPT ![r] = None]
    /\ UNCHANGED <<money, reported, opted_out, exit, payer, ambient, recorded>>

AllDone == (\A r \in Requests : pc[r] = "done") /\ UNCHANGED vars

Next ==
    \/ \E r \in Requests :
          \/ Dispatch(r) \/ Enter(r) \/ RefuseUnknown(r) \/ Respond(r)
          \/ Charge(r) \/ ChargeFails(r) \/ ChargeView(r) \/ ChargeViewFails(r)
          \/ OpenSession(r) \/ Report(r)
          \/ LeaveSession(r, "normal") \/ LeaveSession(r, "error")
          \/ WriteUsageRecord(r) \/ WriteFails(r)
          \/ ReturnFromOperation(r) \/ OperationRaises(r)
          \/ Refund(r) \/ RefundFails(r) \/ RefundView(r)
          \/ Cancel(r) \/ Die(r)
    \/ AllDone

Spec == Init /\ [][Next]_vars

-----------------------------------------------------------------------------

(* The requests that have charged c and not given it back. *)
Outstanding(c) == {r \in Requests : payer[r] = c /\ charged[r] /\ ~refunded[r]}

(***************************************************************************)
(* However requests of one customer interleave, fail and are cancelled, a  *)
(* balance has lost exactly the charges that were not given back, and the  *)
(* money went back to the customer that paid, whatever context the session *)
(* of the operation had set (decorators.py lines 134 to 160).              *)
(***************************************************************************)
BalancesAddUp == \A c \in Customers : balance[c] + Cardinality(Outstanding(c)) = Opening[c]

(***************************************************************************)
(* An operation that returned is paid for, and one that raised is not,     *)
(* unless the refund itself failed; a usage record that cannot be written  *)
(* changes neither.  The usage record, which is written on the way out,    *)
(* knows how the body ended: none is enqueued for a session that reported  *)
(* nothing, or that opted out and whose body raised an Exception.          *)
(***************************************************************************)
SettledByOutcome ==
    \A r \in Requests :
        /\ outcome[r] = "returned" => charged[r] /\ ~refunded[r]
        /\ outcome[r] = "raised" => charged[r] /\ refunded[r]
        /\ recorded[r] => reported[r] /\ ~(opted_out[r] /\ exit[r] = "error")

(***************************************************************************)
(* The context of a session is gone with the session, and that of the      *)
(* middleware with its request, however each of them ended: nothing later  *)
(* in the task is billed to the customer of either.                        *)
(***************************************************************************)
ContextRestored ==
    \A r \in Requests :
        pc[r] # "session" =>
            context[r] = IF pc[r] \in {"idle", "done"} THEN None ELSE ambient[r]
=============================================================================
