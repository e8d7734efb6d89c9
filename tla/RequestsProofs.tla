--------------------------- MODULE RequestsProofs ---------------------------
(***************************************************************************)
(* Theorems about Requests, for any customers, opening balances and finite *)
(* set of requests, of which any may be cancelled: the state is well typed,*)
(* the balances add up, every request is settled by its outcome, and no    *)
(* context outlives the session or the request that set it.                *)
(*                                                                         *)
(* Each is an invariant about one request at a time, because an action     *)
(* touches one request only.  Only the sum of the balances relates         *)
(* several: a charge adds its request to those outstanding of its payer,   *)
(* a refund takes it away, and nothing else changes that set.  For that    *)
(* the strengthening (Progress) says what has been charged, refunded and   *)
(* recorded at each await.                                                 *)
(***************************************************************************)
EXTENDS Requests, FiniteSetTheorems, TLAPS

(* The awaits of the wrapper, between its charge and its end. *)
Paid == {"charge_view", "run", "session", "write", "refund"}

Progress(r) ==
    /\ pc[r] \in {"charge"} \union Paid \union {"refund_view"} => payer[r] \in Customers
    /\ charged[r] => payer[r] \in Customers
    /\ refunded[r] => charged[r]
    /\ pc[r] \in {"idle", "route", "charge"} => ~charged[r]
    /\ pc[r] \in Paid => charged[r] /\ ~refunded[r]
    /\ pc[r] = "refund_view" => charged[r] /\ refunded[r]
    /\ pc[r] \notin {"respond", "done"} => outcome[r] = None
    /\ pc[r] = "session" => exit[r] = None
    /\ exit[r] = None => ~recorded[r]
    /\ pc[r] = "write" => exit[r] \in Exits /\ ToBeWritten(r, exit[r])

ProgressInv == \A r \in Requests : Progress(r)

(* One step of Next, of one request. *)
Action(r) ==
    \/ Dispatch(r) \/ Enter(r) \/ RefuseUnknown(r) \/ Respond(r)
    \/ Charge(r) \/ ChargeFails(r) \/ ChargeView(r) \/ ChargeViewFails(r)
    \/ OpenSession(r) \/ Report(r)
    \/ LeaveSession(r, "normal") \/ LeaveSession(r, "error")
    \/ WriteUsageRecord(r) \/ WriteFails(r)
    \/ ReturnFromOperation(r) \/ OperationRaises(r)
    \/ Refund(r) \/ RefundFails(r) \/ RefundView(r)
    \/ Cancel(r) \/ Die(r)

LEMMA NextIsAction ==
    ASSUME [Next]_vars
    PROVE  UNCHANGED vars \/ \E r \in Requests : Action(r)
BY DEF Next, Action, AllDone

LEMMA UpdateOfFlags ==
    ASSUME NEW flags \in [Requests -> BOOLEAN], NEW r \in Requests, NEW flag \in BOOLEAN
    PROVE  [flags EXCEPT ![r] = flag] \in [Requests -> BOOLEAN]
BY Zenon

LEMMA InitTypeOK ==
    ASSUME Init
    PROVE  TypeOK
BY OpeningIsNatural DEF Init, TypeOK, Labels

LEMMA StepTypeOK ==
    ASSUME TypeOK, ProgressInv, NEW r \in Requests, Action(r)
    PROVE  TypeOK'
<1> USE DEF TypeOK, GoTo, End, Labels, Exits, Outcomes, money, session
<1>1. CASE Dispatch(r) \/ Enter(r) \/ RefuseUnknown(r) \/ Respond(r)
  BY <1>1 DEF Dispatch, Enter, RefuseUnknown, Respond, ResolveCustomerId
<1>2. CASE Charge(r)
  <2>1. payer[r] \in Customers
    BY <1>2 DEF Charge, ProgressInv, Progress
  <2> QED
    BY <1>2, <2>1 DEF Charge
<1>3. CASE ChargeFails(r) \/ ChargeView(r) \/ ChargeViewFails(r)
  BY <1>3 DEF ChargeFails, ChargeView, ChargeViewFails
<1>4. CASE OpenSession(r)
  <2>1. opted_out' \in [Requests -> BOOLEAN]
    BY <1>4, UpdateOfFlags DEF OpenSession
  <2> QED
    BY <1>4, <2>1 DEF OpenSession
<1>5. CASE Report(r)
  BY <1>5 DEF Report
<1>6. ASSUME NEW how \in Exits, LeaveSession(r, how)
      PROVE  TypeOK'
  BY <1>6 DEF LeaveSession, Resume
<1>7. CASE WriteUsageRecord(r)
  <2>1. exit[r] \in {"normal", "error", "cancelled"}
    BY <1>7 DEF WriteUsageRecord, ProgressInv, Progress
  <2> QED
    BY <1>7, <2>1 DEF WriteUsageRecord, Resume
<1>8. CASE WriteFails(r)
  <2>1. exit[r] \in {"normal", "error", "cancelled"}
    BY <1>8 DEF WriteFails, ProgressInv, Progress
  <2> QED
    BY <1>8, <2>1 DEF WriteFails, Resume
<1>9. CASE ReturnFromOperation(r) \/ OperationRaises(r)
  BY <1>9 DEF ReturnFromOperation, OperationRaises
<1>10. CASE Refund(r)
  <2>1. payer[r] \in Customers
    BY <1>10 DEF Refund, ProgressInv, Progress, Paid
  <2> QED
    BY <1>10, <2>1 DEF Refund
<1>11. CASE RefundFails(r) \/ RefundView(r) \/ Die(r)
  BY <1>11 DEF RefundFails, RefundView, Die
<1>12. CASE Cancel(r)
  BY <1>6, <1>12 DEF Cancel
<1> QED
  BY <1>1, <1>2, <1>3, <1>4, <1>5, <1>6, <1>7, <1>8, <1>9, <1>10,
     <1>11, <1>12 DEF Action

-----------------------------------------------------------------------------

LEMMA InitProgress ==
    ASSUME Init
    PROVE  ProgressInv
BY NoneIsNoEnding DEF Init, ProgressInv, Progress, Paid

SameRequest(q) ==
    /\ pc'[q] = pc[q] /\ payer'[q] = payer[q] /\ outcome'[q] = outcome[q]
    /\ charged'[q] = charged[q] /\ refunded'[q] = refunded[q]
    /\ recorded'[q] = recorded[q] /\ reported'[q] = reported[q]
    /\ opted_out'[q] = opted_out[q] /\ exit'[q] = exit[q]
    /\ context'[q] = context[q] /\ ambient'[q] = ambient[q]

(* A request that leaves a session resumes its call, or ends. *)
LEMMA Resumed ==
    ASSUME TypeOK, NEW r \in Requests, NEW how \in Exits, Resume(r, how)
    PROVE  /\ \/ pc'[r] \in {"run", "refund"} /\ outcome'[r] = outcome[r]
              \/ pc'[r] = "respond"
           /\ payer' = payer /\ ambient' = ambient
           /\ \A q \in Requests \ {r} : pc'[q] = pc[q] /\ outcome'[q] = outcome[q]
<1> USE DEF TypeOK, GoTo, End
<1>1. CASE how = "normal"
  BY <1>1 DEF Resume
<1>2. CASE how = "error"
  BY <1>2 DEF Resume
<1>3. CASE how = "cancelled"
  BY <1>3 DEF Resume
<1> QED
  BY <1>1, <1>2, <1>3 DEF Exits

(* An action leaves the state of every other request alone. *)
LEMMA OthersUnchanged ==
    ASSUME TypeOK, NEW r \in Requests, NEW q \in Requests \ {r}, Action(r), Progress(r)
    PROVE  SameRequest(q)
<1> USE DEF TypeOK, GoTo, End, money, session, SameRequest
<1>1. ASSUME NEW how, Resume(r, how), how \in Exits
      PROVE  pc'[q] = pc[q] /\ payer'[q] = payer[q] /\ outcome'[q] = outcome[q]
             /\ ambient'[q] = ambient[q]
  BY <1>1, Resumed
<1>2. ASSUME NEW how \in Exits, LeaveSession(r, how)
      PROVE  SameRequest(q)
  <2>1. CASE Resume(r, how)
    BY <1>1, <1>2, <2>1 DEF LeaveSession
  <2>2. CASE ~Resume(r, how)
    BY <1>2, <2>2 DEF LeaveSession
  <2> QED
    BY <2>1, <2>2
<1>3. CASE Dispatch(r) \/ Enter(r) \/ RefuseUnknown(r) \/ Respond(r)
  BY <1>3 DEF Dispatch, Enter, RefuseUnknown, Respond
<1>4. CASE Charge(r) \/ ChargeFails(r) \/ ChargeView(r) \/ ChargeViewFails(r)
  BY <1>4 DEF Charge, ChargeFails, ChargeView, ChargeViewFails
<1>5. CASE OpenSession(r) \/ Report(r)
  BY <1>5 DEF OpenSession, Report
<1>6. CASE WriteUsageRecord(r) \/ WriteFails(r)
  <2>1. exit[r] \in Exits
    BY <1>6 DEF WriteUsageRecord, WriteFails, Progress
  <2> QED
    BY <1>1, <1>6, <2>1 DEF WriteUsageRecord, WriteFails
<1>7. CASE ReturnFromOperation(r) \/ OperationRaises(r)
  BY <1>7 DEF ReturnFromOperation, OperationRaises
<1>8. CASE Refund(r) \/ RefundFails(r) \/ RefundView(r)
  BY <1>8 DEF Refund, RefundFails, RefundView
<1>9. CASE Cancel(r) \/ Die(r)
  BY <1>2, <1>9 DEF Cancel, Die, Exits
<1> QED
  BY <1>2, <1>3, <1>4, <1>5, <1>6, <1>7, <1>8, <1>9 DEF Action, Exits

LEMMA LeaveProgress ==
    ASSUME TypeOK, NEW r \in Requests, Progress(r), NEW how \in Exits, LeaveSession(r, how)
    PROVE  Progress(r)'
<1>1. /\ pc[r] = "session" /\ exit'[r] = how /\ how # None
      /\ UNCHANGED <<charged, refunded, reported, opted_out, recorded>>
  BY NoneIsNoEnding DEF LeaveSession, TypeOK, money, Exits
<1>2. /\ payer[r] \in Customers /\ charged[r] /\ ~refunded[r] /\ outcome[r] = None
  BY <1>1 DEF Progress, Paid
<1>3. CASE ToBeWritten(r, how)
  <2>1. pc'[r] = "write" /\ payer' = payer /\ outcome' = outcome
    BY <1>3 DEF LeaveSession, GoTo, TypeOK
  <2>2. ToBeWritten(r, exit[r])'
    BY <1>1, <1>3 DEF ToBeWritten
  <2> QED
    BY <1>1, <1>2, <2>1, <2>2 DEF Progress, Paid
<1>4. CASE ~ToBeWritten(r, how)
  <2>1. Resume(r, how)
    BY <1>4 DEF LeaveSession
  <2>2. \/ pc'[r] \in {"run", "refund"} /\ outcome'[r] = outcome[r] /\ payer' = payer
        \/ pc'[r] = "respond" /\ payer' = payer
    BY <2>1, Resumed
  <2> QED
    BY <1>1, <1>2, <2>2 DEF Progress, Paid
<1> QED
  BY <1>3, <1>4

LEMMA WriteProgress ==
    ASSUME TypeOK, NEW r \in Requests, Progress(r), WriteUsageRecord(r) \/ WriteFails(r)
    PROVE  Progress(r)'
<1>1. pc[r] = "write" /\ Resume(r, exit[r]) /\ UNCHANGED <<money, session>>
  BY DEF WriteUsageRecord, WriteFails
<1>2. /\ exit[r] \in Exits /\ exit[r] # None /\ payer[r] \in Customers
      /\ charged[r] /\ ~refunded[r] /\ outcome[r] = None
  BY <1>1, NoneIsNoEnding DEF Progress, Paid, Exits
<1>3. PICK how \in Exits : how = exit[r]
  BY <1>2
<1>4. /\ \/ pc'[r] \in {"run", "refund"} /\ outcome'[r] = outcome[r]
         \/ pc'[r] = "respond"
      /\ payer' = payer
  BY <1>1, <1>3, Resumed
<1>5. UNCHANGED <<exit, charged, refunded>>
  BY <1>1 DEF money, session
<1> QED
  BY <1>2, <1>4, <1>5 DEF Progress, Paid

LEMMA OwnProgress ==
    ASSUME TypeOK, NEW r \in Requests, Action(r), Progress(r)
    PROVE  Progress(r)'
<1> USE NoneIsNoEnding DEF TypeOK, Progress, Paid, ToBeWritten, GoTo, End, money, session, Labels
<1>1. ASSUME NEW how \in Exits, LeaveSession(r, how)
      PROVE  Progress(r)'
  BY <1>1, LeaveProgress
<1>2. CASE Dispatch(r)
  BY <1>2 DEF Dispatch
<1>3. CASE Enter(r)
  <2>1. payer'[r] \in Customers
    BY <1>3 DEF Enter, ResolveCustomerId
  <2> QED
    BY <1>3, <2>1 DEF Enter
<1>4. CASE RefuseUnknown(r) \/ Respond(r)
  BY <1>4 DEF RefuseUnknown, Respond
<1>5. CASE Charge(r)
  BY <1>5 DEF Charge
<1>6. CASE ChargeFails(r) \/ ChargeView(r) \/ ChargeViewFails(r)
  BY <1>6 DEF ChargeFails, ChargeView, ChargeViewFails
<1>7. CASE OpenSession(r)
  BY <1>7 DEF OpenSession
<1>8. CASE Report(r)
  BY <1>8 DEF Report
<1>9. CASE WriteUsageRecord(r)
  BY <1>9, WriteProgress
<1>10. CASE WriteFails(r)
  BY <1>10, WriteProgress
<1>11. CASE ReturnFromOperation(r) \/ OperationRaises(r)
  <2>1. CASE ReturnFromOperation(r)
    BY <2>1, SMTT(30) DEF ReturnFromOperation
  <2>2. CASE OperationRaises(r)
    BY <2>2, SMTT(30) DEF OperationRaises
  <2> QED
    BY <1>11, <2>1, <2>2
<1>12. CASE Refund(r)
  BY <1>12 DEF Refund
<1>13. CASE RefundFails(r) \/ RefundView(r)
  BY <1>13 DEF RefundFails, RefundView
<1>14. CASE Cancel(r)
  BY <1>1, <1>14 DEF Cancel, Exits
<1>15. CASE Die(r)
  BY <1>15 DEF Die
<1> QED
  BY <1>1, <1>2, <1>3, <1>4, <1>5, <1>6, <1>7, <1>8, <1>9, <1>10, <1>11, <1>12, <1>13,
     <1>14, <1>15 DEF Action, Exits

LEMMA StepProgress ==
    ASSUME TypeOK, ProgressInv, NEW r \in Requests, Action(r)
    PROVE  ProgressInv'
<1> SUFFICES ASSUME NEW q \in Requests
             PROVE  Progress(q)'
  BY DEF ProgressInv
<1>1. CASE q = r
  BY <1>1, OwnProgress DEF ProgressInv
<1>2. CASE q # r
  BY <1>2, OthersUnchanged DEF ProgressInv, Progress, ToBeWritten, SameRequest
<1> QED
  BY <1>1, <1>2

LEMMA StutterProgress ==
    ASSUME TypeOK, ProgressInv, UNCHANGED vars
    PROVE  TypeOK' /\ ProgressInv'
BY DEF TypeOK, ProgressInv, Progress, ToBeWritten, vars, money, session

-----------------------------------------------------------------------------

(* SettledByOutcome and ContextRestored, of one request. *)
Settled(r) ==
    /\ outcome[r] = "returned" => charged[r] /\ ~refunded[r]
    /\ outcome[r] = "raised" => charged[r] /\ refunded[r]
    /\ recorded[r] => reported[r] /\ ~(opted_out[r] /\ exit[r] = "error")

Restored(r) ==
    pc[r] # "session" => context[r] = IF pc[r] \in {"idle", "done"} THEN None ELSE ambient[r]

LEMMA OwnSettled ==
    ASSUME TypeOK, NEW r \in Requests, Action(r), Progress(r), Settled(r)
    PROVE  Settled(r)'
<1> USE NoneIsNoEnding DEF TypeOK, Progress, Paid, ToBeWritten, Settled, GoTo, End, money, session,
                           Exits, Outcomes
<1>1. ASSUME NEW how \in Exits, LeaveSession(r, how)
      PROVE  Settled(r)'
  <2>1. CASE ToBeWritten(r, how)
    BY <1>1, <2>1 DEF LeaveSession
  <2>2. CASE ~ToBeWritten(r, how)
    BY <1>1, <2>2 DEF LeaveSession, Resume
  <2> QED
    BY <2>1, <2>2
<1>2. CASE Dispatch(r) \/ Enter(r) \/ RefuseUnknown(r) \/ Respond(r)
  BY <1>2 DEF Dispatch, Enter, RefuseUnknown, Respond
<1>3. CASE Charge(r)
  BY <1>3 DEF Charge
<1>4. CASE ChargeFails(r) \/ ChargeView(r) \/ ChargeViewFails(r)
  BY <1>4 DEF ChargeFails, ChargeView, ChargeViewFails
<1>5. CASE OpenSession(r)
  BY <1>5 DEF OpenSession
<1>6. CASE Report(r)
  BY <1>6 DEF Report
<1>7. CASE WriteUsageRecord(r)
  BY <1>7 DEF WriteUsageRecord, Resume
<1>8. CASE WriteFails(r)
  BY <1>8 DEF WriteFails, Resume
<1>9. CASE ReturnFromOperation(r) \/ OperationRaises(r)
  BY <1>9 DEF ReturnFromOperation, OperationRaises
<1>10. CASE Refund(r)
  BY <1>10 DEF Refund
<1>11. CASE RefundFails(r) \/ RefundView(r)
  BY <1>11 DEF RefundFails, RefundView
<1>12. CASE Cancel(r)
  BY <1>1, <1>12 DEF Cancel
<1>13. CASE Die(r)
  BY <1>13 DEF Die
<1> QED
  BY <1>1, <1>2, <1>3, <1>4, <1>5, <1>6, <1>7, <1>8, <1>9, <1>10, <1>11, <1>12, <1>13 DEF Action

LEMMA OwnRestored ==
    ASSUME TypeOK, NEW r \in Requests, Action(r), Progress(r), Restored(r)
    PROVE  Restored(r)'
<1> USE DEF TypeOK, Restored, GoTo, End, money, session, Exits
<1>1. ASSUME NEW how \in Exits, Resume(r, how)
      PROVE  pc'[r] \in {"run", "refund", "respond"} /\ ambient'[r] = ambient[r]
  BY <1>1 DEF Resume
<1>2. ASSUME NEW how \in Exits, LeaveSession(r, how)
      PROVE  Restored(r)'
  BY <1>1, <1>2 DEF LeaveSession
<1>3. CASE Dispatch(r) \/ Enter(r) \/ RefuseUnknown(r) \/ Respond(r)
  BY <1>3 DEF Dispatch, Enter, RefuseUnknown, Respond
<1>4. CASE Charge(r) \/ ChargeFails(r) \/ ChargeView(r) \/ ChargeViewFails(r)
  BY <1>4 DEF Charge, ChargeFails, ChargeView, ChargeViewFails
<1>5. CASE OpenSession(r) \/ Report(r)
  BY <1>5 DEF OpenSession, Report
<1>6. CASE WriteUsageRecord(r) \/ WriteFails(r)
  <2>1. exit[r] \in Exits
    BY <1>6 DEF WriteUsageRecord, WriteFails, Progress
  <2> QED
    BY <1>1, <1>6, <2>1 DEF WriteUsageRecord, WriteFails
<1>7. CASE ReturnFromOperation(r) \/ OperationRaises(r)
  BY <1>7 DEF ReturnFromOperation, OperationRaises
<1>8. CASE Refund(r) \/ RefundFails(r) \/ RefundView(r)
  BY <1>8 DEF Refund, RefundFails, RefundView
<1>9. CASE Cancel(r) \/ Die(r)
  BY <1>2, <1>9 DEF Cancel, Die
<1> QED
  BY <1>2, <1>3, <1>4, <1>5, <1>6, <1>7, <1>8, <1>9 DEF Action

-----------------------------------------------------------------------------

LEMMA OutstandingIsFinite ==
    ASSUME NEW c
    PROVE  IsFiniteSet(Outstanding(c)) /\ Cardinality(Outstanding(c)) \in Nat
BY RequestsAreFinite, FS_Subset, FS_CardinalityType DEF Outstanding

LEMMA InitAddsUp ==
    ASSUME Init
    PROVE  BalancesAddUp
<1> SUFFICES ASSUME NEW c \in Customers
             PROVE  balance[c] + Cardinality(Outstanding(c)) = Opening[c]
  BY DEF BalancesAddUp
<1>1. Outstanding(c) = {}
  BY DEF Init, Outstanding
<1> QED
  BY <1>1, FS_EmptySet, OpeningIsNatural DEF Init

(* Nothing but a charge and a refund moves money. *)
LEMMA MovesNoMoney ==
    ASSUME TypeOK, NEW r \in Requests, Action(r), Progress(r), ~Charge(r), ~Refund(r)
    PROVE  UNCHANGED money /\ (charged[r] => payer'[r] = payer[r])
<1> USE DEF TypeOK, GoTo, End, money, session
<1>1. ASSUME NEW how \in Exits, Resume(r, how)
      PROVE  payer'[r] = payer[r]
  BY <1>1 DEF Resume, Exits
<1>2. ASSUME NEW how \in Exits, LeaveSession(r, how)
      PROVE  UNCHANGED money /\ payer'[r] = payer[r]
  BY <1>1, <1>2 DEF LeaveSession
<1>3. CASE Dispatch(r) \/ Enter(r) \/ RefuseUnknown(r) \/ Respond(r)
  BY <1>3 DEF Dispatch, Enter, RefuseUnknown, Respond, Progress
<1>4. CASE ChargeFails(r) \/ ChargeView(r) \/ ChargeViewFails(r)
  BY <1>4 DEF ChargeFails, ChargeView, ChargeViewFails
<1>5. CASE OpenSession(r) \/ Report(r)
  BY <1>5 DEF OpenSession, Report
<1>6. CASE WriteUsageRecord(r) \/ WriteFails(r)
  <2>1. exit[r] \in Exits
    BY <1>6 DEF WriteUsageRecord, WriteFails, Progress
  <2> QED
    BY <1>1, <1>6, <2>1 DEF WriteUsageRecord, WriteFails
<1>7. CASE ReturnFromOperation(r) \/ OperationRaises(r)
  BY <1>7 DEF ReturnFromOperation, OperationRaises
<1>8. CASE RefundFails(r) \/ RefundView(r)
  BY <1>8 DEF RefundFails, RefundView
<1>9. CASE Cancel(r) \/ Die(r)
  BY <1>2, <1>9 DEF Cancel, Die, Exits
<1> QED
  BY <1>2, <1>3, <1>4, <1>5, <1>6, <1>7, <1>8, <1>9 DEF Action, Exits

LEMMA StepAddsUp ==
    ASSUME TypeOK, ProgressInv, BalancesAddUp, NEW r \in Requests, Action(r)
    PROVE  BalancesAddUp'
<1> SUFFICES ASSUME NEW c \in Customers
             PROVE  balance'[c] + Cardinality(Outstanding(c)') = Opening[c]
  BY DEF BalancesAddUp
<1>1. balance[c] \in Nat /\ balance[c] + Cardinality(Outstanding(c)) = Opening[c]
  BY DEF TypeOK, BalancesAddUp
<1>2. Progress(r)
  BY DEF ProgressInv
<1>3. \A q \in Requests \ {r} : SameRequest(q)
  BY <1>2, OthersUnchanged
<1>4. CASE Charge(r)
  <2>1. /\ payer'[r] = payer[r] /\ payer[r] \in Customers
        /\ ~charged[r] /\ charged'[r] /\ ~refunded[r] /\ ~refunded'[r]
        /\ balance' = [balance EXCEPT ![payer[r]] = @ - 1]
    BY <1>2, <1>4 DEF Charge, GoTo, Progress, TypeOK
  <2>2. CASE payer[r] = c
    <3>1. Outstanding(c)' = Outstanding(c) \union {r} /\ r \notin Outstanding(c)
      BY <1>3, <2>1, <2>2 DEF Outstanding, SameRequest
    <3>2. balance'[c] = balance[c] - 1
      BY <2>1, <2>2 DEF TypeOK
    <3>3. Cardinality(Outstanding(c) \union {r}) = Cardinality(Outstanding(c)) + 1
      BY <3>1, OutstandingIsFinite, FS_AddElement
    <3>4. Cardinality(Outstanding(c)) \in Nat
      BY OutstandingIsFinite
    <3> QED
      BY <1>1, <3>1, <3>2, <3>3, <3>4
  <2>3. CASE payer[r] # c
    <3>1. Outstanding(c)' = Outstanding(c)
      BY <1>3, <2>1, <2>3 DEF Outstanding, SameRequest
    <3> QED
      BY <1>1, <2>1, <2>3, <3>1 DEF TypeOK
  <2> QED
    BY <2>2, <2>3
<1>5. CASE Refund(r)
  <2>1. /\ payer'[r] = payer[r] /\ payer[r] \in Customers
        /\ charged[r] /\ ~refunded[r] /\ refunded'[r]
        /\ balance' = [balance EXCEPT ![payer[r]] = @ + 1]
    BY <1>2, <1>5 DEF Refund, GoTo, Progress, Paid, TypeOK
  <2>2. CASE payer[r] = c
    <3>1. Outstanding(c)' = Outstanding(c) \ {r} /\ r \in Outstanding(c)
      BY <1>3, <2>1, <2>2 DEF Outstanding, SameRequest
    <3>2. balance'[c] = balance[c] + 1
      BY <2>1, <2>2 DEF TypeOK
    <3>3. Cardinality(Outstanding(c) \ {r}) = Cardinality(Outstanding(c)) - 1
      BY <3>1, OutstandingIsFinite, FS_RemoveElement
    <3>4. Cardinality(Outstanding(c)) \in Nat
      BY OutstandingIsFinite
    <3> QED
      BY <1>1, <3>1, <3>2, <3>3, <3>4
  <2>3. CASE payer[r] # c
    <3>1. Outstanding(c)' = Outstanding(c)
      BY <1>3, <2>1, <2>3 DEF Outstanding, SameRequest
    <3> QED
      BY <1>1, <2>1, <2>3, <3>1 DEF TypeOK
  <2> QED
    BY <2>2, <2>3
<1>6. CASE ~Charge(r) /\ ~Refund(r)
  <2>1. UNCHANGED money /\ (charged[r] => payer'[r] = payer[r])
    BY <1>2, <1>6, MovesNoMoney
  <2>2. Outstanding(c)' = Outstanding(c)
    BY <1>3, <2>1 DEF Outstanding, SameRequest, money
  <2> QED
    BY <1>1, <2>1, <2>2 DEF money
<1> QED
  BY <1>4, <1>5, <1>6

-----------------------------------------------------------------------------

Inv == TypeOK /\ ProgressInv

THEOREM InvIsInvariant == Spec => []Inv
<1>1. Init => Inv
  BY InitTypeOK, InitProgress DEF Inv
<1>2. Inv /\ [Next]_vars => Inv'
  BY NextIsAction, StepTypeOK, StepProgress, StutterProgress DEF Inv
<1> QED
  BY <1>1, <1>2, PTL DEF Spec

(* The state of the requests is well typed. *)
THEOREM TypeCorrect == Spec => []TypeOK
<1>1. Inv => TypeOK
  BY DEF Inv
<1> QED
  BY <1>1, InvIsInvariant, PTL

(***************************************************************************)
(* Whatever the requests do, a balance has lost exactly the charges that   *)
(* were not given back to the customer who paid them.                      *)
(***************************************************************************)
THEOREM BalancesAlwaysAddUp == Spec => []BalancesAddUp
<1>1. Init => BalancesAddUp
  BY InitAddsUp
<1>2. Inv /\ BalancesAddUp /\ [Next]_vars => BalancesAddUp'
  <2> SUFFICES ASSUME Inv, BalancesAddUp, [Next]_vars
               PROVE  BalancesAddUp'
    OBVIOUS
  <2>1. CASE UNCHANGED vars
    BY <2>1 DEF BalancesAddUp, Outstanding, vars, money
  <2>2. CASE \E r \in Requests : Action(r)
    BY <2>2, StepAddsUp DEF Inv
  <2> QED
    BY <2>1, <2>2, NextIsAction
<1> QED
  BY <1>1, <1>2, InvIsInvariant, PTL DEF Spec

(***************************************************************************)
(* A request that returned has paid, one that raised has its money back,   *)
(* and a usage record is left only by a session that has something to bill.*)
(***************************************************************************)
THEOREM AlwaysSettledByOutcome == Spec => []SettledByOutcome
<1>1. Init => SettledByOutcome
  BY NoneIsNoEnding DEF Init, SettledByOutcome, Outcomes
<1>2. Inv /\ SettledByOutcome /\ [Next]_vars => SettledByOutcome'
  <2> SUFFICES ASSUME Inv, SettledByOutcome, [Next]_vars
               PROVE  SettledByOutcome'
    OBVIOUS
  <2>1. CASE UNCHANGED vars
    BY <2>1 DEF SettledByOutcome, vars, money, session
  <2>2. ASSUME NEW r \in Requests, Action(r), NEW q \in Requests
        PROVE  Settled(q)'
    <3>1. CASE q = r
      BY <2>2, <3>1, OwnSettled DEF Inv, ProgressInv, SettledByOutcome, Settled
    <3>2. CASE q # r
      BY <2>2, <3>2, OthersUnchanged DEF Inv, ProgressInv, SettledByOutcome, Settled, SameRequest
    <3> QED
      BY <3>1, <3>2
  <2> QED
    BY <2>1, <2>2, NextIsAction DEF SettledByOutcome, Settled
<1> QED
  BY <1>1, <1>2, InvIsInvariant, PTL DEF Spec

(***************************************************************************)
(* Neither the context of a session nor that of the middleware outlives    *)
(* what set it, on whatever path that ends.                                *)
(***************************************************************************)
THEOREM ContextAlwaysRestored == Spec => []ContextRestored
<1>1. Init => ContextRestored
  BY DEF Init, ContextRestored
<1>2. Inv /\ ContextRestored /\ [Next]_vars => ContextRestored'
  <2> SUFFICES ASSUME Inv, ContextRestored, [Next]_vars
               PROVE  ContextRestored'
    OBVIOUS
  <2>1. CASE UNCHANGED vars
    BY <2>1 DEF ContextRestored, vars, session
  <2>2. ASSUME NEW r \in Requests, Action(r), NEW q \in Requests
        PROVE  Restored(q)'
    <3>1. CASE q = r
      BY <2>2, <3>1, OwnRestored DEF Inv, ProgressInv, ContextRestored, Restored
    <3>2. CASE q # r
      BY <2>2, <3>2, OthersUnchanged DEF Inv, ProgressInv, ContextRestored, Restored, SameRequest
    <3> QED
      BY <3>1, <3>2
  <2> QED
    BY <2>1, <2>2, NextIsAction DEF ContextRestored, Restored
<1> QED
  BY <1>1, <1>2, InvIsInvariant, PTL DEF Spec
=============================================================================
