---------------------------- MODULE Wallet_proofs ----------------------------
(***************************************************************************)
(* Proofs about Recharge, and about AdminWallet on top of it, for any      *)
(* users, orders, amounts, names and callers.                              *)
(***************************************************************************)
EXTENDS AdminWallet, DataLemmas, TLAPS

\* A store operation by which a handler may change the rows.
StoreStep ==
    \/ UNCHANGED storeVars
    \/ \E o \in Orders : FinalizeRechargeOrder(o)
    \/ \E o \in Orders : \E row \in Order : SaveOrder(o, row)
    \/ \E u \in Users : \E n \in Nat : Debit(u, n)
    \/ \E r \in Requests, o \in Orders : \E n \in Nat :
            (r \in Orders => r = o) /\ CreateRefundRequest(r, o, n)
    \/ \E r \in Requests : \E d \in Decision : \E b \in BOOLEAN :
            (b => r \in Orders) /\ ApplyRefundDecision(r, d, b)

-----------------------------------------------------------------------------
\* The store's rows keep their types under every store operation.
LEMMA StoreTypeStep ==
    ASSUME StoreTypeOK, StoreStep
    PROVE  StoreTypeOK'
<1> USE StoreAssumption DEF StoreTypeOK
<1>1. CASE UNCHANGED storeVars
    BY <1>1 DEF storeVars
<1>2. CASE \E o \in Orders : FinalizeRechargeOrder(o)
    BY <1>2 DEF FinalizeRechargeOrder, storeVars, Order, OrderStatus
<1>3. CASE \E o \in Orders : \E row \in Order : SaveOrder(o, row)
    BY <1>3 DEF SaveOrder
<1>4. CASE \E u \in Users : \E n \in Nat : Debit(u, n)
    BY <1>4 DEF Debit
<1>5. CASE \E r \in Requests, o \in Orders : \E n \in Nat : CreateRefundRequest(r, o, n)
    BY <1>5 DEF CreateRefundRequest, Request
<1>6. CASE \E r \in Requests : \E d \in Decision : \E b \in BOOLEAN :
            ApplyRefundDecision(r, d, b)
  <2>1. PICK r \in Requests, d \in Decision, b \in BOOLEAN : ApplyRefundDecision(r, d, b)
    BY <1>6
  <2>2. requests[r] \in Request
    BY <2>1 DEF ApplyRefundDecision, Filed
  <2>3. CASE RecordDecision(r, d)
    BY <2>2, <2>3 DEF RecordDecision, Request
  <2>4. CASE SettleRefund(r, b)
    <3> DEFINE o == requests[r].order
               refunded == MinFen(orders[o].refunded + requests[r].amount, AmountFen[o])
    <3>1. o \in Orders /\ requests[r].amount \in Nat /\ AmountFen[o] \in Nat
        BY <2>2 DEF Request
    <3>2. Owner[o] \in Users /\ orders[o] \in Order
        BY <3>1
    <3>3. refunded \in Nat
        BY <3>1, <3>2 DEF MinFen, Order
    <3>4. balance' \in [Users -> Int] /\ payouts' \in [Requests -> Nat]
        BY <2>4, <3>1, <3>2 DEF SettleRefund
    <3>5. requests' \in [Requests -> Request \cup {NoRequest}]
        BY <2>2, <2>4 DEF SettleRefund, Request, Decision
    <3>6. orders' \in [Orders -> Order]
        BY <2>4, <3>1, <3>2, <3>3 DEF SettleRefund, Order, OrderStatus
    <3> QED BY <2>4, <3>4, <3>5, <3>6 DEF SettleRefund
  <2> QED BY <2>1, <2>3, <2>4 DEF ApplyRefundDecision
<1> QED BY <1>1, <1>2, <1>3, <1>4, <1>5, <1>6 DEF StoreStep

-----------------------------------------------------------------------------
\* What a running request has in its local variables at each step.
LEMMA CallFields ==
    ASSUME NEW k \in Call
    PROVE  /\ k.at \in {"query", "decide", "save"} => k.order \in Orders /\ k.snap \in Order
           /\ k.at = "decide" => k.report \in Report
           /\ k.at \in {"file", "create"} => k.order \in Orders /\ k.amount \in Nat
           /\ k.at \in {"settle", "reread"} => k.order \in Orders
           /\ k.at = "decision" => k.req \in Requests /\ k.status \in Decision
BY DEF Call, Idle

\* The refundable amount of a typed row that is not used up is a natural.
LEMMA RefundableNat ==
    ASSUME NEW o \in Orders, NEW row \in Order, ~(Refundable(o, row) <= 0)
    PROVE  Refundable(o, row) \in Nat
BY StoreAssumption DEF Refundable, Order

\* Every step of the system is one store operation, and leaves the variables
\* of the handlers typed.
LEMMA StepShape ==
    ASSUME TypeOK, Next
    PROVE  StoreStep /\ call' \in [Callers -> Call]
<1> USE StoreAssumption, RechargeAssumption DEF TypeOK, StoreTypeOK, Requests, Callers
<1>1. CASE \E o \in Orders : OnOrder(o)
    BY <1>1 DEF OnOrder, CreateRechargeOrder, UserPays, ProviderRefunds,
                HandleSuccessfulRechargeCallback, StoreStep, Order, OrderStatus
<1>2. CASE \E u \in Users : Spend(u)
  <2>1. PICK u \in Users : \E n \in 1..balance[u] : Debit(u, n)
    BY <1>2 DEF Spend
  <2>2. \E n \in Nat : Debit(u, n)
    BY <2>1
  <2> QED BY <1>2, <2>2 DEF Spend, StoreStep
<1>3. CASE \E c \in Reconcilers : Reconcile(c)
  <2>1. PICK c \in Reconcilers : Reconcile(c)
    BY <1>3
  <2> DEFINE k == call[c]
  <2>2. k \in Call
    OBVIOUS
  <2>3. CASE \E o \in Orders : ReconcileRechargeOrder(c, o)
    BY <2>3 DEF ReconcileRechargeOrder, Goto, Call, StoreStep
  <2>4. CASE QueryOrder(c)
    <3>1. k.order \in Orders /\ k.snap \in Order
        BY <2>2, <2>4, CallFields DEF QueryOrder
    <3>2. Reports(k.order) \subseteq Report
        BY DEF Reports, Report
    <3> QED BY <2>4, <3>1, <3>2 DEF QueryOrder, Goto, Call, StoreStep
  <2>5. CASE ReconcilePaid(c)
    <3>1. k.order \in Orders
        BY <2>2, <2>5, CallFields DEF ReconcilePaid
    <3> QED BY <2>5, <3>1 DEF ReconcilePaid, Goto, Call, Report, StoreStep
  <2>6. CASE ReconcileRefunded(c)
    <3>1. k.order \in Orders /\ k.snap \in Order
        BY <2>2, <2>6, CallFields DEF ReconcileRefunded
    <3>2. ~TakenBack(k) => Refundable(k.order, k.snap) \in Nat
        BY <3>1, RefundableNat DEF TakenBack
    <3> QED BY <2>6, <3>1, <3>2 DEF ReconcileRefunded, Goto, Call, Report, StoreStep
  <2>7. CASE FileReconcileRequest(c)
    <3>1. k.order \in Orders /\ k.amount \in Nat
        BY <2>2, <2>7, CallFields DEF FileReconcileRequest
    <3> QED BY <2>7, <3>1 DEF FileReconcileRequest, Goto, Call, StoreStep
  <2>8. CASE SettleReconcileRequest(c)
    <3>1. k.order \in Orders
        BY <2>2, <2>8, CallFields DEF SettleReconcileRequest
    <3> QED BY <2>8, <3>1 DEF SettleReconcileRequest, Goto, Call, Report, StoreStep, Decision
  <2>9. CASE RereadOrder(c)
    <3>1. k.order \in Orders /\ orders[k.order] \in Order /\ AmountFen[k.order] \in Nat
        BY <2>2, <2>9, CallFields DEF RereadOrder
    <3> DEFINE marked == [status |-> "refunded",
                          refunded |-> MaxFen(orders[k.order].refunded, AmountFen[k.order])]
    <3>2. marked \in Order
        BY <3>1 DEF Order, OrderStatus, MaxFen
    <3> QED BY <2>9, <3>1, <3>2 DEF RereadOrder, Goto, Call, StoreStep
  <2>10. CASE SaveReconciled(c)
    <3>1. k.order \in Orders /\ k.snap \in Order
        BY <2>2, <2>10, CallFields DEF SaveReconciled
    <3> QED BY <2>10, <3>1 DEF SaveReconciled, Goto, Call, StoreStep
  <2>11. CASE ReconcileStillPaid(c)
    <3>1. k.order \in Orders /\ k.snap \in Order
        BY <2>2, <2>11, CallFields DEF ReconcileStillPaid
    <3> QED BY <2>11, <3>1 DEF ReconcileStillPaid, Goto, Call, StoreStep
  <2>12. CASE ReconcileAdoptStatus(c)
    <3>1. k.order \in Orders /\ k.snap \in Order /\ k.report \in Report
        BY <2>2, <2>12, CallFields DEF ReconcileAdoptStatus
    <3>2. [k.snap EXCEPT !.status = k.report] \in Order
        BY <3>1 DEF Order, OrderStatus, Report
    <3> QED BY <2>12, <3>1, <3>2 DEF ReconcileAdoptStatus, Goto, Call, StoreStep
  <2> QED BY <2>1, <2>3, <2>4, <2>5, <2>6, <2>7, <2>8, <2>9, <2>10, <2>11, <2>12
          DEF Reconcile
<1>4. CASE \E c \in Handlers : HandleRefund(c)
  <2>1. PICK c \in Handlers : HandleRefund(c)
    BY <1>4
  <2> DEFINE k == call[c]
  <2>2. k \in Call
    OBVIOUS
  <2>3. CASE \E o \in Orders : \E n \in 1..AmountFen[o] : BeginCreateRefundRequest(c, o, n)
    BY <2>3 DEF BeginCreateRefundRequest, Goto, Call, StoreStep
  <2>4. CASE \E r \in UserRequests : InsertRefundRequest(c, r)
    <3>1. k.order \in Orders /\ k.amount \in Nat
        BY <2>2, <2>4, CallFields DEF InsertRefundRequest
    <3> QED BY <2>4, <3>1 DEF InsertRefundRequest, Goto, Call, StoreStep
  <2>5. CASE \E r \in Requests : ApproveRefundRequest(c, r)
    <3>1. \A outcome \in RefundOutcomes : DecisionAfter(outcome) \in Decision
        BY DEF DecisionAfter, Decision, RefundOutcome
    <3> QED BY <2>5, <3>1 DEF ApproveRefundRequest, Goto, Call, StoreStep
  <2>6. CASE ApplyApproval(c)
    <3>1. k.req \in Requests /\ k.status \in Decision
        BY <2>2, <2>6, CallFields DEF ApplyApproval
    <3> QED BY <2>6, <3>1 DEF ApplyApproval, Goto, Call, StoreStep
  <2> QED BY <2>1, <2>3, <2>4, <2>5, <2>6 DEF HandleRefund
<1>5. CASE \E r \in Requests : Review(r)
    BY <1>5 DEF Review, ReviewRefundRequest, MarkRefundSettled, StoreStep, Decision
<1>6. CASE \E c \in Callers : Abort(c)
    BY <1>6 DEF Abort, Goto, Call, StoreStep
<1> QED BY <1>1, <1>2, <1>3, <1>4, <1>5, <1>6 DEF Next

-----------------------------------------------------------------------------
\* What the provider has received and paid back keeps its type.
LEMMA ExternalType ==
    ASSUME TypeOK, Next
    PROVE  paid' \subseteq Orders /\ paidOut' \in [Orders -> Nat]
<1> USE StoreAssumption DEF TypeOK, external
<1>1. CASE \E o \in Orders : OnOrder(o)
    BY <1>1 DEF OnOrder, CreateRechargeOrder, UserPays, ProviderRefunds,
                HandleSuccessfulRechargeCallback
<1>2. CASE \E u \in Users : Spend(u)
    BY <1>2 DEF Spend
<1>3. CASE \E c \in Reconcilers : Reconcile(c)
    BY <1>3 DEF Reconcile, ReconcileRechargeOrder, QueryOrder, ReconcilePaid,
        ReconcileRefunded, FileReconcileRequest, SettleReconcileRequest, RereadOrder,
        SaveReconciled, ReconcileStillPaid, ReconcileAdoptStatus
<1>4. CASE \E c \in Handlers : \E r \in Requests : ApproveRefundRequest(c, r)
  <2>1. PICK r \in Requests, outcome \in RefundOutcomes :
            Filed(r) /\ Refund(r, outcome) /\ UNCHANGED paid
    BY <1>4 DEF ApproveRefundRequest
  <2>2. requests[r] \in Request
    BY <2>1 DEF Filed, StoreTypeOK
  <2> QED BY <2>1, <2>2 DEF Refund, Request
<1>5. CASE \E c \in Handlers : HandleRefund(c)
    BY <1>4, <1>5 DEF HandleRefund, BeginCreateRefundRequest, InsertRefundRequest,
                      ApplyApproval
<1>6. CASE \E r \in Requests : Review(r)
    BY <1>6 DEF Review, ReviewRefundRequest, MarkRefundSettled
<1>7. CASE \E c \in Callers : Abort(c)
    BY <1>7 DEF Abort
<1> QED BY <1>1, <1>2, <1>3, <1>5, <1>6, <1>7 DEF Next

LEMMA InitTyped == ASSUME Init PROVE TypeOK
BY StoreAssumption
DEF Init, StoreInit, TypeOK, StoreTypeOK, NoOrder, Order, OrderStatus, Call

LEMMA TypedStep == ASSUME TypeOK, Next PROVE TypeOK'
<1>1. StoreTypeOK' /\ call' \in [Callers -> Call]
    BY StepShape, StoreTypeStep DEF TypeOK
<1>2. paid' \subseteq Orders /\ paidOut' \in [Orders -> Nat]
    BY ExternalType
<1> QED BY <1>1, <1>2 DEF TypeOK

\* Every row and every handler keeps its type.
THEOREM TypeCorrect == Spec => []TypeOK
<1>1. TypeOK /\ [Next]_vars => TypeOK'
    BY TypedStep DEF vars, storeVars, TypeOK, StoreTypeOK
<1> QED BY <1>1, InitTyped, PTL DEF Spec

-----------------------------------------------------------------------------
\* With the unique ledger index of PostgreSQL, no interleaving of callbacks
\* and reconciliations credits a recharge order twice.
THEOREM CreditOnce ==
    ASSUME Backend = "pg"
    PROVE  Spec => []CreditedAtMostOnce
<1>1. Init => CreditedAtMostOnce
    BY DEF Init, StoreInit, CreditedAtMostOnce
<1>2. TypeOK /\ CreditedAtMostOnce /\ [Next]_vars => CreditedAtMostOnce'
  <2> SUFFICES ASSUME TypeOK, CreditedAtMostOnce, [Next]_vars
               PROVE  CreditedAtMostOnce'
    OBVIOUS
  <2>1. CASE UNCHANGED vars
    BY <2>1 DEF vars, storeVars, CreditedAtMostOnce
  <2>2. CASE Next
    <3>1. CASE \E o \in Orders : FinalizeRechargeOrder(o)
        BY <3>1, Backend = "pg"
        DEF FinalizeRechargeOrder, LedgerAccepts, CreditedAtMostOnce, storeVars,
            TypeOK, StoreTypeOK
    <3>2. CASE ~\E o \in Orders : FinalizeRechargeOrder(o)
      <4>1. UNCHANGED credits
        BY <2>2, <3>2, StepShape
        DEF StoreStep, storeVars, SaveOrder, Debit, CreateRefundRequest,
            ApplyRefundDecision, RecordDecision, SettleRefund
      <4> QED BY <4>1 DEF CreditedAtMostOnce
    <3> QED BY <3>1, <3>2
  <2> QED BY <2>1, <2>2
<1> QED BY <1>1, <1>2, TypeCorrect, PTL DEF Spec

-----------------------------------------------------------------------------
\* The inductive form of SettledOnce: the settled flag, which guards the
\* ledger row, goes with the status.
SettledInv ==
    \A r \in Requests :
        /\ Filed(r) => (requests[r].settled <=> requests[r].status = "refunded")
        /\ payouts[r] = (IF Filed(r) /\ requests[r].status = "refunded" THEN 1 ELSE 0)

LEMMA SettledStep ==
    ASSUME Backend = "pg", TypeOK, SettledInv, Next
    PROVE  SettledInv'
<1>1. CASE \E r \in Requests, o \in Orders : \E n \in Nat : CreateRefundRequest(r, o, n)
  <2>1. PICK r \in Requests, o \in Orders, n \in Nat : CreateRefundRequest(r, o, n)
    BY <1>1
  <2> DEFINE new == [status |-> "pending", order |-> o, amount |-> n, settled |-> FALSE]
  <2>2. ~Filed(r) /\ payouts[r] = 0 /\ UNCHANGED payouts
    BY <2>1, Backend = "pg" DEF CreateRefundRequest, SettledInv
  <2>3. requests' = [requests EXCEPT ![r] = new]
    BY <2>1 DEF CreateRefundRequest
  <2>4. new.status = "pending" /\ ~new.settled
    OBVIOUS
  <2> HIDE DEF new
  <2>5. \A q \in Requests : requests'[q] = IF q = r THEN new ELSE requests[q]
    BY <2>3 DEF TypeOK, StoreTypeOK
  <2> QED BY <2>2, <2>4, <2>5 DEF SettledInv, Filed
<1>2. CASE \E r \in Requests : \E d \in Decision : \E b \in BOOLEAN :
                ApplyRefundDecision(r, d, b)
  <2>1. PICK r \in Requests, d \in Decision, b \in BOOLEAN :
            ApplyRefundDecision(r, d, b)
    BY <1>2
  <2>2. requests[r] \in Request /\ ~requests[r].settled /\ payouts[r] = 0
    BY <2>1 DEF ApplyRefundDecision, SettledInv, OpenStatus, Filed, TypeOK, StoreTypeOK
  <2>3. CASE d # "refunded"
    <3>1. RecordDecision(r, d)
        BY <2>1, <2>3 DEF ApplyRefundDecision
    <3>2. requests'[r].status = d /\ ~requests'[r].settled
        BY <2>2, <3>1 DEF RecordDecision, Request, TypeOK, StoreTypeOK
    <3>3. \A q \in Requests \ {r} : requests'[q] = requests[q]
        BY <3>1 DEF RecordDecision, TypeOK, StoreTypeOK
    <3>4. UNCHANGED payouts
        BY <3>1 DEF RecordDecision
    <3> QED BY <2>2, <2>3, <3>2, <3>3, <3>4 DEF SettledInv, Filed
  <2>4. CASE d = "refunded"
    <3>1. SettleRefund(r, b)
        BY <2>1, <2>2, <2>4 DEF ApplyRefundDecision
    <3>2. requests'[r].status = "refunded" /\ requests'[r].settled /\ Filed(r)'
        BY <2>2, <3>1 DEF SettleRefund, Request, Filed, NoRequest, TypeOK, StoreTypeOK
    <3>3. \A q \in Requests \ {r} : requests'[q] = requests[q] /\ payouts'[q] = payouts[q]
        BY <3>1 DEF SettleRefund, TypeOK, StoreTypeOK
    <3>4. payouts'[r] = 1
        BY <2>2, <3>1 DEF SettleRefund, TypeOK, StoreTypeOK
    <3> QED BY <3>2, <3>3, <3>4 DEF SettledInv, Filed
  <2> QED BY <2>3, <2>4
<1>3. CASE UNCHANGED <<requests, payouts>>
    BY <1>3 DEF SettledInv, Filed
<1> QED BY <1>1, <1>2, <1>3, StepShape
        DEF StoreStep, storeVars, FinalizeRechargeOrder, SaveOrder, Debit

\* On PostgreSQL a refund request takes money from the wallet exactly once,
\* when it is decided "refunded".
THEOREM SettleOnce ==
    ASSUME Backend = "pg"
    PROVE  Spec => []SettledOnce
<1>1. Init => SettledInv
    BY DEF Init, StoreInit, SettledInv, Filed
<1>2. TypeOK /\ SettledInv /\ [Next]_vars => SettledInv'
    BY SettledStep, Backend = "pg" DEF vars, storeVars, SettledInv, Filed
<1>3. SettledInv => SettledOnce
    BY DEF SettledInv, SettledOnce
<1> QED BY <1>1, <1>2, <1>3, TypeCorrect, PTL DEF Spec

-----------------------------------------------------------------------------
(***************************************************************************)
(* PaidOrderWasCredited is not inductive: a handler may save a copy of the *)
(* order it read long ago.  The strengthening says the same of every copy  *)
(* and of every decision a handler has already taken.                      *)
(***************************************************************************)
IsCredited(o) == credits[o] > 0
RowCredited(o, row) ==
    /\ row.status # "closed"
    /\ row.status \in {"paid", "refunded"} => IsCredited(o)
CallCredited(k) ==
    /\ k.at \in {"query", "decide", "save"} => RowCredited(k.order, k.snap)
    /\ k.at \in {"query", "decide"} => k.snap.status # "none"
    /\ k.at = "decide" => k.report # "closed"
    /\ k.at \in {"create", "file", "settle"} => IsCredited(k.order)
    /\ k.at = "reread" /\ k.report = "refunded" => IsCredited(k.order)
OrdersCredited == \A o \in Orders : RowCredited(o, orders[o])
RequestsCredited == \A r \in Requests : Filed(r) => IsCredited(requests[r].order)
CallsCredited == \A c \in Callers : CallCredited(call[c])
CreditedInv == OrdersCredited /\ RequestsCredited /\ CallsCredited

\* No store operation removes a recharge credit.
LEMMA CreditsGrow ==
    ASSUME TypeOK, StoreStep, NEW o \in Orders, IsCredited(o)
    PROVE  IsCredited(o)'
<1>1. CASE \E q \in Orders : FinalizeRechargeOrder(q)
    BY <1>1 DEF IsCredited, TypeOK, StoreTypeOK, FinalizeRechargeOrder, storeVars
<1>2. CASE UNCHANGED credits
    BY <1>2 DEF IsCredited
<1> QED BY <1>1, <1>2 DEF StoreStep, storeVars, SaveOrder, Debit, CreateRefundRequest,
                          ApplyRefundDecision, RecordDecision, SettleRefund

\* A store operation that saves or files only what belongs to a credited order.
CreditedStep ==
    \/ UNCHANGED storeVars
    \/ \E o \in Orders : FinalizeRechargeOrder(o)
    \/ \E o \in Orders : \E row \in Order : SaveOrder(o, row) /\ RowCredited(o, row)
    \/ \E u \in Users : \E n \in Nat : Debit(u, n)
    \/ \E r \in Requests, o \in Orders : \E n \in Nat :
            CreateRefundRequest(r, o, n) /\ IsCredited(o)
    \/ \E r \in Requests : \E d \in Decision : \E b \in BOOLEAN :
            ApplyRefundDecision(r, d, b)

\* Such an operation keeps the stored orders and requests credited.
LEMMA RowsCredited ==
    ASSUME TypeOK, CreditedStep, OrdersCredited, RequestsCredited
    PROVE  OrdersCredited' /\ RequestsCredited'
<1> USE StoreAssumption DEF TypeOK, StoreTypeOK
<1>1. CASE UNCHANGED <<orders, requests, credits>>
    BY <1>1 DEF OrdersCredited, RequestsCredited, RowCredited, IsCredited, Filed
<1>2. CASE \E o \in Orders : FinalizeRechargeOrder(o)
  <2>1. PICK o \in Orders : FinalizeRechargeOrder(o)
    BY <1>2
  <2>2. CASE orders[o].status = "paid"
    BY <1>1, <2>1, <2>2 DEF FinalizeRechargeOrder, storeVars
  <2>3. CASE orders[o].status # "paid"
    <3>1. IsCredited(o)' /\ orders'[o].status = "paid" /\ UNCHANGED requests
        BY <2>1, <2>3 DEF FinalizeRechargeOrder, IsCredited, Order
    <3>2. \A q \in Orders \ {o} : orders'[q] = orders[q] /\ credits'[q] = credits[q]
        BY <2>1, <2>3 DEF FinalizeRechargeOrder
    <3>3. OrdersCredited'
        BY <3>1, <3>2 DEF OrdersCredited, RowCredited, IsCredited
    <3>4. ASSUME NEW r \in Requests, Filed(r)' PROVE IsCredited(requests[r].order)'
      <4>1. Filed(r) /\ requests[r] \in Request
        BY <3>1, <3>4 DEF Filed
      <4>2. requests[r].order \in Orders /\ IsCredited(requests[r].order)
        BY <4>1 DEF RequestsCredited, Request
      <4> QED BY <1>2, <3>1, <4>2, CreditsGrow DEF IsCredited, StoreStep
    <3> QED BY <3>3, <3>4 DEF RequestsCredited
  <2> QED BY <2>2, <2>3
<1>3. CASE \E o \in Orders : \E row \in Order : SaveOrder(o, row) /\ RowCredited(o, row)
  <2>1. PICK o \in Orders, row \in Order : SaveOrder(o, row) /\ RowCredited(o, row)
    BY <1>3
  <2>2. RowCredited(o, row)
    BY <2>1
  <2>3. UNCHANGED <<requests, credits>> /\ orders' = [orders EXCEPT ![o] = row]
    BY <2>1 DEF SaveOrder
  <2> QED BY <2>2, <2>3 DEF OrdersCredited, RequestsCredited, RowCredited, IsCredited, Filed
<1>4. CASE \E r \in Requests, o \in Orders : \E n \in Nat :
            CreateRefundRequest(r, o, n) /\ IsCredited(o)
  <2>1. PICK r \in Requests, o \in Orders, n \in Nat :
            CreateRefundRequest(r, o, n) /\ IsCredited(o)
    BY <1>4
  <2>2. IsCredited(o)
    BY <2>1
  <2>3. /\ UNCHANGED <<orders, credits>>
        /\ requests'[r].order = o
        /\ \A q \in Requests \ {r} : requests'[q] = requests[q]
    BY <2>1 DEF CreateRefundRequest
  <2> QED BY <2>2, <2>3 DEF OrdersCredited, RequestsCredited, RowCredited, IsCredited, Filed
<1>5. CASE \E r \in Requests : \E d \in Decision : \E b \in BOOLEAN :
            ApplyRefundDecision(r, d, b)
  <2>1. PICK r \in Requests, d \in Decision, b \in BOOLEAN : ApplyRefundDecision(r, d, b)
    BY <1>5
  <2>2. requests[r] \in Request /\ Filed(r)
    BY <2>1 DEF ApplyRefundDecision, Filed
  <2>3. requests[r].order \in Orders /\ IsCredited(requests[r].order)
    BY <2>2 DEF RequestsCredited, Request
  <2>4. UNCHANGED credits
    BY <2>1 DEF ApplyRefundDecision, RecordDecision, SettleRefund
  <2>5. /\ requests'[r].order = requests[r].order
        /\ \A q \in Requests \ {r} : requests'[q] = requests[q]
    BY <2>1, <2>2 DEF ApplyRefundDecision, RecordDecision, SettleRefund, Request
  <2>6. RequestsCredited'
    BY <2>3, <2>4, <2>5 DEF RequestsCredited, IsCredited, Filed
  <2>7. CASE RecordDecision(r, d)
    BY <2>4, <2>6, <2>7 DEF RecordDecision, OrdersCredited, RowCredited, IsCredited
  <2>8. CASE SettleRefund(r, b)
    <3> DEFINE o == requests[r].order
    <3>1. orders'[o].status \in {orders[o].status, "refunded"}
        BY <2>3, <2>8 DEF SettleRefund, Order
    <3>2. \A q \in Orders \ {o} : orders'[q] = orders[q]
        BY <2>3, <2>8 DEF SettleRefund
    <3>3. RowCredited(o, orders[o])
        BY <2>3 DEF OrdersCredited
    <3>4. OrdersCredited'
        BY <2>3, <2>4, <3>1, <3>2, <3>3 DEF OrdersCredited, RowCredited, IsCredited
    <3> QED BY <2>6, <3>4
  <2> QED BY <2>1, <2>7, <2>8 DEF ApplyRefundDecision
<1>6. CASE UNCHANGED storeVars \/ \E u \in Users : \E n \in Nat : Debit(u, n)
    BY <1>1, <1>6 DEF storeVars, Debit
<1> QED BY <1>2, <1>3, <1>4, <1>5, <1>6 DEF CreditedStep

\* What a handler knows to be credited stays credited under a store operation.
LEMMA CallsStayCredited ==
    ASSUME TypeOK, StoreStep, call' \in [Callers -> Call],
           \A c \in Callers : CallCredited(call'[c])
    PROVE  CallsCredited'
<1> SUFFICES ASSUME NEW c \in Callers PROVE CallCredited(call[c])'
    BY DEF CallsCredited
<1>1. CallCredited(call'[c]) /\ call'[c] \in Call
    OBVIOUS
<1>2. call'[c].at \in {"query", "decide", "save", "create", "file", "settle", "reread"}
        => call'[c].order \in Orders
    BY <1>1, CallFields
<1>3. \A o \in Orders : IsCredited(o) => IsCredited(o)'
    BY CreditsGrow
<1> QED BY <1>1, <1>2, <1>3 DEF CallCredited, RowCredited, IsCredited

\* A handler that moves on with a credited record keeps all records credited.
LEMMA OneCallMoves ==
    ASSUME TypeOK, CallsCredited, NEW c \in Callers, NEW STATE k,
           Goto(c, k), CallCredited(k)
    PROVE  \A d \in Callers : CallCredited(call'[d])
BY DEF Goto, CallsCredited, TypeOK

\* If the provider never reports an unpaid order as closed, every step saves
\* and files only what is credited, and every handler moves on credited.
LEMMA StepCredited ==
    ASSUME UnpaidReports \subseteq {"pending"}, TypeOK, CreditedInv, Next
    PROVE  CreditedStep /\ \A d \in Callers : CallCredited(call'[d])
<1> USE StoreAssumption, RechargeAssumption
        DEF TypeOK, StoreTypeOK, Requests, Callers, CreditedInv
<1>1. CASE \E o \in Orders : OnOrder(o)
  <2>1. UNCHANGED call
    BY <1>1 DEF OnOrder, CreateRechargeOrder, UserPays, ProviderRefunds,
                HandleSuccessfulRechargeCallback
  <2> DEFINE new == [status |-> "pending", refunded |-> 0]
  <2>2. new \in Order /\ \A o \in Orders : RowCredited(o, new)
    BY DEF Order, OrderStatus, RowCredited
  <2>3. CASE \E o \in Orders : SaveOrder(o, new)
    <3> HIDE DEF new
    <3> QED BY <2>1, <2>2, <2>3 DEF CreditedStep, CallsCredited
  <2>4. CASE UNCHANGED storeVars \/ \E o \in Orders : FinalizeRechargeOrder(o)
    BY <2>1, <2>4 DEF CreditedStep, CallsCredited
  <2> QED BY <1>1, <2>1, <2>3, <2>4
          DEF OnOrder, CreateRechargeOrder, UserPays, ProviderRefunds,
              HandleSuccessfulRechargeCallback, CallsCredited
<1>2. CASE \E u \in Users : Spend(u)
  <2>1. PICK u \in Users : (\E n \in 1..balance[u] : Debit(u, n)) /\ UNCHANGED call
    BY <1>2 DEF Spend
  <2>2. \E n \in Nat : Debit(u, n)
    BY <2>1
  <2> QED BY <2>1, <2>2 DEF CreditedStep, CallsCredited
<1>3. CASE \E c \in Reconcilers : Reconcile(c)
  <2>1. PICK c \in Reconcilers : Reconcile(c)
    BY <1>3
  <2> DEFINE k == call[c]
  <2>2. k \in Call /\ CallCredited(k)
    BY DEF CallsCredited
  <2>3. CASE \E o \in Orders : ReconcileRechargeOrder(c, o)
    <3>1. PICK o \in Orders : ReconcileRechargeOrder(c, o)
        BY <2>3
    <3> DEFINE next == [at |-> "query", order |-> o, snap |-> orders[o]]
    <3>2. CallCredited(next)
        BY <3>1 DEF ReconcileRechargeOrder, CallCredited, OrdersCredited, Exists
    <3> QED BY <3>1, <3>2, OneCallMoves DEF ReconcileRechargeOrder, CreditedStep
  <2>4. CASE QueryOrder(c)
    <3>1. k.order \in Orders /\ k.snap \in Order
        BY <2>2, <2>4, CallFields DEF QueryOrder
    <3>2. PICK report \in Reports(k.order) :
            Goto(c, [at |-> "decide", order |-> k.order, snap |-> k.snap, report |-> report])
        BY <2>4 DEF QueryOrder
    <3> DEFINE next == [at |-> "decide", order |-> k.order, snap |-> k.snap, report |-> report]
    <3>3. report # "closed"
        BY <3>2 DEF Reports
    <3>4. CallCredited(next)
        BY <2>2, <2>4, <3>3 DEF QueryOrder, CallCredited
    <3> QED BY <2>4, <3>2, <3>4, OneCallMoves DEF QueryOrder, CreditedStep
  <2>5. CASE ReconcilePaid(c)
    <3> DEFINE next == [at |-> "reread", order |-> k.order, report |-> "paid"]
    <3>1. k.order \in Orders /\ CallCredited(next)
        BY <2>2, <2>5, CallFields DEF ReconcilePaid, CallCredited
    <3> QED BY <2>5, <3>1, OneCallMoves DEF ReconcilePaid, CreditedStep
  <2>6. CASE ReconcileRefunded(c)
    <3>1. k.order \in Orders /\ k.snap \in Order /\ IsCredited(k.order)
        BY <2>2, <2>6, CallFields
        DEF ReconcileRefunded, CallCredited, RowCredited, RefundCase, FinalizeCase,
            SaysPaid, Order, OrderStatus
    <3> DEFINE next == IF TakenBack(k)
                       THEN [at |-> "reread", order |-> k.order, report |-> "refunded"]
                       ELSE IF Filed(k.order) THEN [at |-> "settle", order |-> k.order]
                       ELSE [at |-> "file", order |-> k.order,
                             amount |-> Refundable(k.order, k.snap)]
    <3>2. CallCredited(next)
        BY <3>1 DEF CallCredited
    <3>3. Goto(c, next) /\ UNCHANGED storeVars
        BY <2>6 DEF ReconcileRefunded
    <3> HIDE DEF next
    <3> QED BY <3>2, <3>3, OneCallMoves DEF CreditedStep
  <2>7. CASE FileReconcileRequest(c)
    <3> DEFINE next == [at |-> "settle", order |-> k.order]
    <3>1. k.order \in Orders /\ k.amount \in Nat /\ IsCredited(k.order)
        BY <2>2, <2>7, CallFields DEF FileReconcileRequest, CallCredited
    <3>2. CallCredited(next)
        BY <3>1 DEF CallCredited
    <3> QED BY <2>7, <3>1, <3>2, OneCallMoves DEF FileReconcileRequest, CreditedStep
  <2>8. CASE SettleReconcileRequest(c)
    <3> DEFINE next == [at |-> "reread", order |-> k.order, report |-> "refunded"]
    <3>1. k.order \in Orders /\ CallCredited(next)
        BY <2>2, <2>8, CallFields DEF SettleReconcileRequest, CallCredited
    <3> QED BY <2>8, <3>1, OneCallMoves DEF SettleReconcileRequest, CreditedStep, Decision
  <2>9. CASE RereadOrder(c)
    <3>1. k.order \in Orders /\ RowCredited(k.order, orders[k.order])
        BY <2>2, <2>9, CallFields DEF RereadOrder, OrdersCredited
    <3> DEFINE row == IF k.report = "refunded"
                      THEN [status |-> "refunded",
                            refunded |-> MaxFen(orders[k.order].refunded, AmountFen[k.order])]
                      ELSE orders[k.order]
               next == [at |-> "save", order |-> k.order, snap |-> row]
    <3>2. RowCredited(k.order, row)
        BY <2>2, <2>9, <3>1 DEF RereadOrder, CallCredited, RowCredited
    <3>3. Goto(c, next) /\ UNCHANGED storeVars
        BY <2>9 DEF RereadOrder
    <3> HIDE DEF row
    <3>4. CallCredited(next)
        BY <3>2 DEF CallCredited
    <3> HIDE DEF next
    <3> QED BY <3>3, <3>4, OneCallMoves DEF CreditedStep
  <2>10. CallCredited(Idle)
    BY DEF CallCredited, Idle
  <2>11. CASE SaveReconciled(c)
    <3>1. k.order \in Orders /\ k.snap \in Order /\ RowCredited(k.order, k.snap)
        BY <2>2, <2>11, CallFields DEF SaveReconciled, CallCredited
    <3> QED BY <2>10, <2>11, <3>1, OneCallMoves DEF SaveReconciled, CreditedStep
  <2>12. CASE ReconcileStillPaid(c)
    <3>1. k.order \in Orders /\ k.snap \in Order /\ RowCredited(k.order, k.snap)
        BY <2>2, <2>12, CallFields DEF ReconcileStillPaid, CallCredited
    <3> QED BY <2>10, <2>12, <3>1, OneCallMoves DEF ReconcileStillPaid, CreditedStep
  <2>13. CASE ReconcileAdoptStatus(c)
    <3> DEFINE row == [k.snap EXCEPT !.status = k.report]
    <3>1. k.order \in Orders /\ k.snap \in Order /\ k.report \in Report
        BY <2>2, <2>13, CallFields DEF ReconcileAdoptStatus
    <3>2. row \in Order /\ row.status = k.report
        BY <3>1 DEF Order, OrderStatus, Report
    <3>3. RowCredited(k.order, row)
        BY <2>2, <2>13, <3>1, <3>2
        DEF ReconcileAdoptStatus, AdoptCase, FinalizeCase, RefundCase, KeepPaidCase, SaysPaid,
            CallCredited, RowCredited, Order, OrderStatus, Report
    <3>4. SaveOrder(k.order, row) /\ Goto(c, Idle)
        BY <2>13 DEF ReconcileAdoptStatus
    <3> HIDE DEF row
    <3> QED BY <2>10, <3>1, <3>2, <3>3, <3>4, OneCallMoves DEF CreditedStep
  <2> QED BY <2>1, <2>3, <2>4, <2>5, <2>6, <2>7, <2>8, <2>9, <2>11, <2>12, <2>13
          DEF Reconcile
<1>4. CASE \E c \in Handlers : HandleRefund(c)
  <2>1. PICK c \in Handlers : HandleRefund(c)
    BY <1>4
  <2> DEFINE k == call[c]
  <2>2. k \in Call /\ CallCredited(k) /\ CallCredited(Idle)
    BY DEF CallsCredited, CallCredited, Idle
  <2>3. CASE \E o \in Orders : \E n \in 1..AmountFen[o] : BeginCreateRefundRequest(c, o, n)
    <3>1. PICK o \in Orders : \E n \in 1..AmountFen[o] : BeginCreateRefundRequest(c, o, n)
        BY <2>3
    <3>2. PICK n \in 1..AmountFen[o] : BeginCreateRefundRequest(c, o, n)
        BY <3>1
    <3> DEFINE next == [at |-> "create", order |-> o, amount |-> n]
    <3>3. CallCredited(next)
        BY <3>2 DEF BeginCreateRefundRequest, CallCredited, OrdersCredited, RowCredited
    <3> QED BY <3>2, <3>3, OneCallMoves DEF BeginCreateRefundRequest, CreditedStep
  <2>4. CASE \E r \in UserRequests : InsertRefundRequest(c, r)
    <3>1. k.order \in Orders /\ k.amount \in Nat /\ IsCredited(k.order)
        BY <2>2, <2>4, CallFields DEF InsertRefundRequest, CallCredited
    <3> QED BY <2>2, <2>4, <3>1, OneCallMoves DEF InsertRefundRequest, CreditedStep
  <2>5. CASE \E r \in Requests : ApproveRefundRequest(c, r)
    <3>1. PICK r \in Requests, outcome \in RefundOutcomes :
            /\ Goto(c, [at |-> "decision", req |-> r, status |-> DecisionAfter(outcome)])
            /\ UNCHANGED storeVars
        BY <2>5 DEF ApproveRefundRequest
    <3> DEFINE next == [at |-> "decision", req |-> r, status |-> DecisionAfter(outcome)]
    <3>2. CallCredited(next)
        BY DEF CallCredited
    <3> QED BY <3>1, <3>2, OneCallMoves DEF CreditedStep
  <2>6. CASE ApplyApproval(c)
    <3>1. k.req \in Requests /\ k.status \in Decision
        BY <2>2, <2>6, CallFields DEF ApplyApproval
    <3> QED BY <2>2, <2>6, <3>1, OneCallMoves DEF ApplyApproval, CreditedStep
  <2> QED BY <2>1, <2>3, <2>4, <2>5, <2>6 DEF HandleRefund
<1>5. CASE \E r \in Requests : Review(r)
    BY <1>5 DEF Review, ReviewRefundRequest, MarkRefundSettled, CreditedStep, Decision,
                CallsCredited
<1>6. CASE \E c \in Callers : Abort(c)
  <2>1. CallCredited(Idle)
    BY DEF CallCredited, Idle
  <2> QED BY <1>6, <2>1, OneCallMoves DEF Abort, CreditedStep
<1> QED BY <1>1, <1>2, <1>3, <1>4, <1>5, <1>6 DEF Next

\* If the provider never reports an unpaid order as closed, an order is shown
\* as paid or refunded only after its owner was credited, on both back ends.
THEOREM PaidMeansCredited ==
    ASSUME UnpaidReports \subseteq {"pending"}
    PROVE  Spec => []PaidOrderWasCredited
<1>1. Init => CreditedInv
    BY DEF Init, StoreInit, CreditedInv, OrdersCredited, RequestsCredited, CallsCredited,
           RowCredited, CallCredited, Filed, NoOrder, Idle
<1>2. TypeOK /\ CreditedInv /\ [Next]_vars => CreditedInv'
  <2> SUFFICES ASSUME TypeOK, CreditedInv, [Next]_vars PROVE CreditedInv'
    OBVIOUS
  <2>1. CASE UNCHANGED vars
    BY <2>1 DEF vars, storeVars, CreditedInv, OrdersCredited, RequestsCredited, CallsCredited,
                RowCredited, CallCredited, IsCredited, Filed
  <2>2. CASE Next
    <3>1. CreditedStep /\ \A d \in Callers : CallCredited(call'[d])
        BY <2>2, StepCredited, UnpaidReports \subseteq {"pending"}
    <3>2. StoreStep /\ call' \in [Callers -> Call]
        BY <2>2, StepShape
    <3>3. OrdersCredited' /\ RequestsCredited'
        BY <3>1, RowsCredited DEF CreditedInv
    <3>4. CallsCredited'
        BY <3>1, <3>2, CallsStayCredited
    <3> QED BY <3>3, <3>4 DEF CreditedInv
  <2> QED BY <2>1, <2>2
<1>3. CreditedInv => PaidOrderWasCredited
    BY DEF CreditedInv, OrdersCredited, RowCredited, IsCredited, PaidOrderWasCredited
<1> QED BY <1>1, <1>2, <1>3, TypeCorrect, PTL DEF Spec

-----------------------------------------------------------------------------
\* On PostgreSQL nothing, not even a second reconciliation that files the same
\* request, changes a refund request once it is refunded, rejected or failed.
THEOREM FinalDecisions ==
    ASSUME Backend = "pg"
    PROVE  Spec => DecisionsAreFinal
<1> DEFINE Final == \A r \in Requests :
        Filed(r) /\ requests[r].status \notin OpenStatus => requests'[r] = requests[r]
<1>1. TypeOK /\ [Next]_vars => [Final]_vars
  <2> SUFFICES ASSUME TypeOK, Next PROVE Final
    OBVIOUS
  <2>1. CASE \E r \in Requests, o \in Orders : \E n \in Nat : CreateRefundRequest(r, o, n)
    BY <2>1, Backend = "pg" DEF CreateRefundRequest, TypeOK, StoreTypeOK
  <2>2. CASE \E r \in Requests : \E d \in Decision : \E b \in BOOLEAN :
                ApplyRefundDecision(r, d, b)
    BY <2>2 DEF ApplyRefundDecision, RecordDecision, SettleRefund, TypeOK, StoreTypeOK
  <2>3. CASE UNCHANGED requests
    BY <2>3
  <2> QED BY <2>1, <2>2, <2>3, StepShape
          DEF StoreStep, storeVars, FinalizeRechargeOrder, SaveOrder, Debit
<1> QED BY <1>1, TypeCorrect, PTL DEF Spec, DecisionsAreFinal

-----------------------------------------------------------------------------
\* Administrators' adjustments.
Asked == {"wallet", "replay", "insert", "commit", "answered"}

\* Every request that was sent has a name and a row.
AdminTypeOK ==
    /\ adjustments \in [Names -> Row \cup {NoRow}]
    /\ DOMAIN admin = Admins
    /\ \A a \in Admins :
        /\ admin[a].at \in Asked \cup {"unsent"}
        /\ admin[a].at \in Asked => admin[a].name \in Names /\ admin[a].row \in Row

\* A request is replayed because a row has its name; the transactions that
\* may commit have inserted the first row of their names, each its own.
ReplayInv == \A a \in Admins :
    admin[a].at = "replay" => adjustments[admin[a].name] # NoRow
CommitInv == \A a \in Admins :
    admin[a].at = "commit" =>
        /\ adjustments[admin[a].name] = NoRow
        /\ \A b \in Admins \ {a} : admin[b].at = "commit" => admin[b].name # admin[a].name
AdminInv == AdminTypeOK /\ ReplayInv /\ CommitInv /\ AnswersAreTrue

LEMMA RowIsSomething == ASSUME NEW row \in Row PROVE row # NoRow
BY AdminAssumption DEF Row, NoRow

\* What one request may do to its own variables without touching the rows.
Stays(a, k) ==
    /\ k.at \in Asked /\ k.name \in Names /\ k.row \in Row
    /\ k.at = "replay" => adjustments[k.name] # NoRow
    /\ k.at = "commit" =>
        /\ adjustments[k.name] = NoRow
        /\ \A b \in Admins \ {a} : admin[b].at = "commit" => admin[b].name # k.name
    /\ k.at = "answered" =>
        /\ k.answer = "replayed" => adjustments[k.name] = k.row
        /\ k.answer = "conflict" => adjustments[k.name] \notin {NoRow, k.row}
        /\ k.answer # "applied"

LEMMA LocalStep ==
    ASSUME AdminInv, NEW a \in Admins, NEW k, Stays(a, k), AdminGoto(a, k),
           adjustments' = adjustments
    PROVE  AdminInv'
<1>1. DOMAIN admin' = Admins /\ admin'[a] = k
      /\ \A b \in Admins \ {a} : admin'[b] = admin[b]
    BY DEF AdminGoto, AdminInv, AdminTypeOK
<1>2. AdminTypeOK'
    BY <1>1 DEF AdminInv, AdminTypeOK, Stays
<1>3. ReplayInv'
    BY <1>1 DEF AdminInv, ReplayInv, Stays
<1>4. CommitInv'
    BY <1>1 DEF AdminInv, CommitInv, Stays
<1>5. AnswersAreTrue'
    BY <1>1 DEF AdminInv, AnswersAreTrue, Stays
<1> QED BY <1>2, <1>3, <1>4, <1>5 DEF AdminInv

\* The one step that moves money.
LEMMA CommitKeeps ==
    ASSUME AdminInv, NEW a \in Admins, Commit(a)
    PROVE  AdminInv'
<1> DEFINE k == admin[a]
           done == [at |-> "answered", name |-> k.name, row |-> k.row, answer |-> "applied"]
<1>1. k.at = "commit" /\ k.name \in Names /\ k.row \in Row /\ adjustments[k.name] = NoRow
      /\ \A b \in Admins \ {a} : admin[b].at = "commit" => admin[b].name # k.name
    BY DEF Commit, AdminInv, AdminTypeOK, CommitInv, Asked
<1>2. DOMAIN admin' = Admins /\ admin'[a] = done
      /\ \A b \in Admins \ {a} : admin'[b] = admin[b]
    BY DEF Commit, Answer, AdminGoto, AdminInv, AdminTypeOK
<1>3. /\ adjustments' \in [Names -> Row \cup {NoRow}]
      /\ adjustments'[k.name] = k.row
      /\ \A n \in Names : n # k.name => adjustments'[n] = adjustments[n]
    BY <1>1 DEF Commit, AdminInv, AdminTypeOK
<1>4. k.row # NoRow
    BY <1>1, RowIsSomething
<1>5. AdminTypeOK'
    BY <1>1, <1>2, <1>3 DEF AdminInv, AdminTypeOK, Asked
<1>6. \A b \in Admins \ {a} : admin[b].at \in Asked => admin[b].name \in Names /\ admin[b].row \in Row
    BY DEF AdminInv, AdminTypeOK
<1>7. ReplayInv'
  <2>1. ASSUME NEW b \in Admins, admin'[b].at = "replay"
        PROVE  adjustments'[admin'[b].name] # NoRow
    BY <1>2, <1>3, <1>4, <1>6, <2>1 DEF AdminInv, ReplayInv, Asked
  <2> QED BY <2>1 DEF ReplayInv
<1>8. CommitInv'
  <2>1. ASSUME NEW b \in Admins, admin'[b].at = "commit"
        PROVE  /\ adjustments'[admin'[b].name] = NoRow
               /\ \A c \in Admins \ {b} : admin'[c].at = "commit" => admin'[c].name # admin'[b].name
    BY <1>1, <1>2, <1>3, <1>6, <2>1 DEF AdminInv, CommitInv, Asked
  <2> QED BY <2>1 DEF CommitInv
<1>9. AnswersAreTrue'
  <2>1. ASSUME NEW b \in Admins, admin'[b].at = "answered"
        PROVE  /\ admin'[b].answer \in {"applied", "replayed"} => adjustments'[admin'[b].name] = admin'[b].row
               /\ admin'[b].answer = "conflict" => adjustments'[admin'[b].name] \notin {NoRow, admin'[b].row}
               /\ admin'[b].answer = "applied" =>
                    \A c \in Admins \ {b} : admin'[c].at = "answered" /\ admin'[c].name = admin'[b].name
                                              => admin'[c].answer # "applied"
    <3>1. \A c \in Admins \ {a} : admin[c].at = "answered" /\ admin[c].name = k.name
                                    => admin[c].answer \notin {"applied", "replayed", "conflict"}
      <4>1. ASSUME NEW c \in Admins \ {a}, admin[c].at = "answered", admin[c].name = k.name
            PROVE  admin[c].answer \notin {"applied", "replayed", "conflict"}
        <5>1. admin[c].row # NoRow
          BY <1>6, <4>1, RowIsSomething DEF Asked
        <5> QED BY <1>1, <4>1, <5>1 DEF AdminInv, AnswersAreTrue
      <4> QED BY <4>1
    <3>2. CASE b = a
      BY <1>2, <1>3, <3>1, <3>2
    <3>3. CASE b # a
      <4>1. admin'[b] = admin[b] /\ admin[b].name \in Names
        BY <1>2, <1>6, <2>1, <3>3 DEF Asked
      <4>2. CASE admin[b].name = k.name
        BY <2>1, <3>1, <3>3, <4>1, <4>2
      <4>3. CASE admin[b].name # k.name
        <5>1. adjustments'[admin[b].name] = adjustments[admin[b].name]
          BY <1>3, <4>1, <4>3
        <5>2. \A c \in Admins : admin'[c].at = "answered" /\ admin'[c].name = admin[b].name
                => admin'[c] = admin[c]
          BY <1>2, <4>3
        <5> QED BY <2>1, <4>1, <5>1, <5>2 DEF AdminInv, AnswersAreTrue
      <4> QED BY <4>2, <4>3
    <3> QED BY <3>2, <3>3
  <2> QED BY <2>1 DEF AnswersAreTrue
<1> QED BY <1>5, <1>7, <1>8, <1>9 DEF AdminInv

\* Every step of a request keeps the invariant.
LEMMA AdminStepKeeps ==
    ASSUME AdminInv, NEW a \in Admins, AdminStep(a)
    PROVE  AdminInv'
<1> DEFINE k == admin[a]
<1>1. k.at \in Asked => k.name \in Names /\ k.row \in Row
    BY DEF AdminInv, AdminTypeOK
<1>2. ASSUME NEW n \in Names, NEW row \in Row, ApplyAdminWalletMutation(a, n, row)
      PROVE  AdminInv'
  <2> DEFINE new == [at |-> IF adjustments[n] = NoRow THEN "wallet" ELSE "replay",
                     name |-> n, row |-> row]
  <2>1. AdminGoto(a, new) /\ adjustments' = adjustments
    BY <1>2 DEF ApplyAdminWalletMutation
  <2>2. Stays(a, new)
    BY DEF Stays, Asked
  <2> HIDE DEF new
  <2> QED BY <2>1, <2>2, LocalStep
<1>3. ASSUME NEW answer, k.at \in Asked, Answer(a, answer), adjustments' = adjustments,
             answer = "replayed" => adjustments[k.name] = k.row,
             answer = "conflict" => adjustments[k.name] \notin {NoRow, k.row},
             answer # "applied"
      PROVE  AdminInv'
  <2> DEFINE new == [at |-> "answered", name |-> k.name, row |-> k.row, answer |-> answer]
  <2>1. AdminGoto(a, new)
    BY <1>3 DEF Answer
  <2>2. Stays(a, new)
    BY <1>1, <1>3 DEF Stays, Asked
  <2> HIDE DEF new
  <2> QED BY <1>3, <2>1, <2>2, LocalStep
<1>4. CASE LockWallet(a)
  <2> DEFINE new == [at |-> "insert", name |-> k.name, row |-> k.row,
                     read |-> balance[k.row.user]]
  <2>1. k.at = "wallet" /\ k.at \in Asked /\ adjustments' = adjustments
    BY <1>4 DEF LockWallet, Asked
  <2>2. CASE Answer(a, "insufficient")
    BY <1>3, <2>1, <2>2
  <2>3. CASE AdminGoto(a, new)
    <3>1. Stays(a, new)
      BY <1>1, <2>1 DEF Stays, Asked
    <3> HIDE DEF new
    <3> QED BY <2>1, <2>3, <3>1, LocalStep
  <2> QED BY <1>4, <2>2, <2>3 DEF LockWallet
<1>5. CASE InsertRow(a)
  <2> DEFINE first == [k EXCEPT !.at = "commit"]
             late == [at |-> "replay", name |-> k.name, row |-> k.row]
  <2>1. k.at = "insert" /\ k.name \in Names /\ k.row \in Row /\ adjustments' = adjustments
    BY <1>1, <1>5 DEF InsertRow, Asked
  <2>2. CASE adjustments[k.name] = NoRow
    <3>1. AdminGoto(a, first)
      BY <1>5, <2>2 DEF InsertRow
    <3>2. first.at = "commit" /\ first.name = k.name /\ first.row = k.row
      BY <2>1
    <3>3. \A b \in Admins : admin[b].at = "commit" => admin[b].name # k.name
      BY <1>5 DEF InsertRow
    <3>4. Stays(a, first)
      BY <2>1, <2>2, <3>2, <3>3 DEF Stays, Asked
    <3> HIDE DEF first
    <3> QED BY <2>1, <3>1, <3>4, LocalStep
  <2>3. CASE adjustments[k.name] # NoRow
    <3>1. AdminGoto(a, late)
      BY <1>5, <2>3 DEF InsertRow, Stage
    <3>2. Stays(a, late)
      BY <2>1, <2>3 DEF Stays, Asked
    <3> HIDE DEF late
    <3> QED BY <2>1, <3>1, <3>2, LocalStep
  <2> QED BY <2>2, <2>3
<1>6. CASE Commit(a)
  BY <1>6, CommitKeeps
<1>7. CASE LoadReplay(a)
  <2>1. k.at = "replay" /\ k.at \in Asked /\ adjustments' = adjustments
        /\ adjustments[k.name] # NoRow
    BY <1>7 DEF LoadReplay, Asked, AdminInv, ReplayInv
  <2>2. CASE adjustments[k.name] = k.row
    <3>1. Answer(a, "replayed")
      BY <1>7, <2>2 DEF LoadReplay, MutationMatches
    <3> QED BY <1>3, <2>1, <2>2, <3>1
  <2>3. CASE adjustments[k.name] # k.row
    <3>1. Answer(a, "conflict")
      BY <1>7, <2>3 DEF LoadReplay, MutationMatches
    <3> QED BY <1>3, <2>1, <2>3, <3>1
  <2> QED BY <2>2, <2>3
<1>8. CASE AdminFails(a)
  <2>1. k.at \in Asked /\ Answer(a, "failed") /\ adjustments' = adjustments
    BY <1>8 DEF AdminFails, AdminInv, AdminTypeOK
  <2> QED BY <1>3, <2>1
<1> QED BY <1>2, <1>4, <1>5, <1>6, <1>7, <1>8 DEF AdminStep

LEMMA AdminInitInv == ASSUME AdminInit PROVE AdminInv
<1>1. \A a \in Admins : admin[a].at = "unsent"
    BY DEF AdminInit, Unsent
<1>2. AdminTypeOK
    BY <1>1 DEF AdminInit, AdminTypeOK, Asked
<1>3. ReplayInv /\ CommitInv /\ AnswersAreTrue
    BY <1>1 DEF ReplayInv, CommitInv, AnswersAreTrue
<1> QED BY <1>2, <1>3 DEF AdminInv

LEMMA AdminStaysInv == ASSUME AdminInv, UNCHANGED adminVars PROVE AdminInv'
BY DEF adminVars, AdminInv, AdminTypeOK, ReplayInv, CommitInv, AnswersAreTrue

\* Whatever administrators send, and send again, an answer says what the
\* ledger has, and a name is applied once (ApplyAdminWalletMutation).
THEOREM AnswersTrue == AdminSpec => []AnswersAreTrue
<1>1. AdminInv /\ [AdminNext]_allVars => AdminInv'
    BY AdminStaysInv, AdminStepKeeps DEF AdminNext, RechargeStep, allVars, adminVars
<1>2. AdminInv => AnswersAreTrue
    BY DEF AdminInv
<1> QED BY <1>1, <1>2, AdminInitInv, PTL DEF AdminSpec

-----------------------------------------------------------------------------
(***************************************************************************)
(* How much of an order was paid back is a sum over the requests that      *)
(* refer to it.  It is easier to follow as a sum over all requests, in     *)
(* which the others count for nothing.                                     *)
(***************************************************************************)
Shares(filed, paidFor, o) ==
    [r \in Requests |->
        IF filed[r] # NoRequest /\ filed[r].order = o THEN paidFor[r] * filed[r].amount ELSE 0]
Returned(filed, paidFor, o) == SumFunctionOnSet(Shares(filed, paidFor, o), Requests)

\* What each order's wallet gave back.
Back == [o \in Orders |-> PaidBack(o)]

LEMMA RequestsAreFinite == IsFiniteSet(Requests)
BY FiniteAssumption, FS_Union DEF Requests

LEMMA SharesAreNat ==
    ASSUME NEW filed \in [Requests -> Request \cup {NoRequest}],
           NEW paidFor \in [Requests -> Nat], NEW o
    PROVE  /\ \A r \in Requests : Shares(filed, paidFor, o)[r] \in Nat
           /\ Returned(filed, paidFor, o) \in Nat
<1>1. ASSUME NEW r \in Requests PROVE Shares(filed, paidFor, o)[r] \in Nat
  <2>1. CASE filed[r] = NoRequest
    BY <2>1 DEF Shares
  <2>2. CASE filed[r] \in Request
    <3>1. paidFor[r] \in Nat /\ filed[r].amount \in Nat
      BY <2>2 DEF Request
    <3>2. paidFor[r] * filed[r].amount \in Nat
      BY <3>1
    <3> QED BY <3>2 DEF Shares
  <2> QED BY <2>1, <2>2
<1> QED BY <1>1, SumNatural, RequestsAreFinite DEF Returned

LEMMA SumOfShares ==
    ASSUME NEW filed \in [Requests -> Request \cup {NoRequest}],
           NEW paidFor \in [Requests -> Nat], NEW o
    PROVE  SumFunction([r \in {q \in Requests : filed[q] # NoRequest /\ filed[q].order = o} |->
                paidFor[r] * filed[r].amount]) = Returned(filed, paidFor, o)
<1> DEFINE T == {q \in Requests : filed[q] # NoRequest /\ filed[q].order = o}
           f == [r \in T |-> paidFor[r] * filed[r].amount]
           g == Shares(filed, paidFor, o)
<1>1. T \subseteq Requests /\ DOMAIN f = T
    OBVIOUS
<1>2. \A r \in T : f[r] = g[r]
    BY DEF Shares
<1>3. \A r \in Requests \ T : g[r] = 0
    BY DEF Shares
<1>4. \A r \in Requests : g[r] \in Int
    BY SharesAreNat
<1>5. SumFunctionOnSet(f, T) = SumFunctionOnSet(g, Requests)
  <2> HIDE DEF T, f, g
  <2> QED BY <1>1, <1>2, <1>3, <1>4, RequestsAreFinite, SumWithZeros
<1> QED BY <1>1, <1>5 DEF SumFunction, Returned

LEMMA PaidBackIsReturned ==
    ASSUME StoreTypeOK, NEW o
    PROVE  PaidBack(o) = Returned(requests, payouts, o)
BY SumOfShares DEF StoreTypeOK, PaidBack, RefundsOf, Filed

LEMMA PaidBackIsReturnedNext ==
    ASSUME StoreTypeOK', NEW o
    PROVE  PaidBack(o)' = Returned(requests', payouts', o)
BY SumOfShares DEF StoreTypeOK, PaidBack, RefundsOf, Filed

LEMMA BackIsNat == ASSUME StoreTypeOK PROVE Back \in [Orders -> Nat]
BY PaidBackIsReturned, SharesAreNat DEF Back, StoreTypeOK

\* Rewriting requests that nothing was paid for pays nothing back.
LEMMA BackStays ==
    ASSUME StoreTypeOK, StoreTypeOK', payouts' = payouts,
           \A r \in Requests : requests'[r] = requests[r] \/ payouts[r] = 0
    PROVE  Back' = Back
<1> SUFFICES ASSUME NEW o \in Orders
             PROVE  Returned(requests', payouts', o) = Returned(requests, payouts, o)
    BY PaidBackIsReturned, PaidBackIsReturnedNext DEF Back
<1> DEFINE f == Shares(requests, payouts, o)
           g == Shares(requests', payouts', o)
<1>1. ASSUME NEW r \in Requests PROVE f[r] = g[r]
  <2>1. CASE requests'[r] = requests[r]
    BY <2>1 DEF Shares
  <2>2. CASE payouts[r] = 0
    <3>1. \A x \in Request : 0 * x.amount = 0
      BY DEF Request
    <3>2. f[r] = 0
      BY <2>2, <3>1 DEF Shares, StoreTypeOK
    <3>3. g[r] = 0
      BY <2>2, <3>1 DEF Shares, StoreTypeOK
    <3> QED BY <3>2, <3>3
  <2> QED BY <1>1, <2>1, <2>2
<1>2. \A r \in Requests : f[r] \in Int
    BY SharesAreNat DEF StoreTypeOK
<1> HIDE DEF f, g
<1>3. SumFunctionOnSet(f, Requests) = SumFunctionOnSet(g, Requests)
    BY <1>1, <1>2, RequestsAreFinite, SumEqual
<1> QED BY <1>3 DEF f, g, Returned

\* The first payout of a request pays its amount back to its order.
LEMMA ReturnedGrows ==
    ASSUME StoreTypeOK, StoreTypeOK', NEW r \in Requests, NEW o \in Orders,
           Filed(r), Filed(r)', payouts[r] = 0, payouts' = [payouts EXCEPT ![r] = @ + 1],
           requests'[r].order = requests[r].order, requests'[r].amount = requests[r].amount,
           \A q \in Requests \ {r} : requests'[q] = requests[q]
    PROVE  Returned(requests', payouts', o)
             = Returned(requests, payouts, o)
               + (IF o = requests[r].order THEN requests[r].amount ELSE 0)
<1> DEFINE b == requests[r].order
           n == requests[r].amount
           f == Shares(requests, payouts, o)
           g == Shares(requests', payouts', o)
<1>1. b \in Orders /\ n \in Nat
    BY DEF Filed, StoreTypeOK, Request
<1>2. \A q \in Requests \ {r} : g[q] = f[q]
    BY DEF Shares, StoreTypeOK
<1>3. f[r] = 0
    BY <1>1 DEF Shares, StoreTypeOK
<1>4. g[r] = IF o = b THEN n ELSE 0
  <2>1. payouts'[r] = 1 /\ requests'[r] # NoRequest
    BY DEF StoreTypeOK, Filed
  <2>2. 1 * n = n
    BY <1>1
  <2> QED BY <2>1, <2>2 DEF Shares
<1>5. \A q \in Requests : f[q] \in Int /\ g[q] \in Int
  <2>1. \A q \in Requests : f[q] \in Nat
    BY SharesAreNat DEF StoreTypeOK
  <2>2. requests' \in [Requests -> Request \cup {NoRequest}] /\ payouts' \in [Requests -> Nat]
    BY DEF StoreTypeOK
  <2>3. \A q \in Requests : g[q] \in Nat
    BY <2>2, SharesAreNat
  <2> HIDE DEF f, g
  <2> QED BY <2>1, <2>3
<1>6. SumFunctionOnSet(f, Requests) \in Int
    BY <1>5, RequestsAreFinite, SumInt
<1>7. SumFunctionOnSet(g, Requests) = SumFunctionOnSet(f, Requests) - f[r] + g[r]
  <2> HIDE DEF f, g
  <2> QED BY <1>2, <1>5, RequestsAreFinite, SumChange
<1>8. Returned(requests, payouts, o) \in Int
    BY <1>6 DEF Returned
<1> QED BY <1>1, <1>3, <1>4, <1>7, <1>8 DEF Returned

LEMMA BackGrows ==
    ASSUME StoreTypeOK, StoreTypeOK', NEW r \in Requests,
           Filed(r), Filed(r)', payouts[r] = 0, payouts' = [payouts EXCEPT ![r] = @ + 1],
           requests'[r].order = requests[r].order, requests'[r].amount = requests[r].amount,
           \A q \in Requests \ {r} : requests'[q] = requests[q]
    PROVE  Back' = [Back EXCEPT ![requests[r].order] = @ + requests[r].amount]
<1> DEFINE b == requests[r].order
           n == requests[r].amount
<1>1. b \in Orders /\ n \in Nat
    BY DEF Filed, StoreTypeOK, Request
<1>2. ASSUME NEW o \in Orders
      PROVE  Back'[o] = IF o = b THEN Back[o] + n ELSE Back[o]
  <2>1. Back[o] = Returned(requests, payouts, o) /\ Back[o] \in Nat
        /\ Back'[o] = Returned(requests', payouts', o)
    BY PaidBackIsReturned, PaidBackIsReturnedNext, BackIsNat DEF Back
  <2>2. Returned(requests', payouts', o)
          = Returned(requests, payouts, o) + (IF o = b THEN n ELSE 0)
    BY ReturnedGrows
  <2> QED BY <1>1, <2>1, <2>2
<1>3. Back' = [o \in Orders |-> Back'[o]] /\ Back = [o \in Orders |-> Back[o]]
    BY DEF Back
<1> QED BY <1>1, <1>2, <1>3

\* What the operations of the store on PostgreSQL pay back: one settles a
\* request, no other pays anything.
Settles(r, b) ==
    /\ Filed(r) /\ requests[r] \in Request /\ requests[r].status \in OpenStatus
    /\ b => r \in Orders
    /\ payouts[r] = 0 /\ SettleRefund(r, b)
    /\ Back' = [Back EXCEPT ![requests[r].order] = @ + requests[r].amount]

PaysNothing ==
    /\ Back' = Back /\ payouts' = payouts
    /\ \A r \in Requests : requests'[r] = requests[r] \/ payouts[r] = 0

LEMMA SettlesOrNot ==
    ASSUME Backend = "pg", StoreTypeOK, StoreTypeOK', SettledInv, StoreStep
    PROVE  \/ \E r \in Requests : \E b \in BOOLEAN : Settles(r, b)
           \/ PaysNothing
<1>1. CASE UNCHANGED <<requests, payouts>>
    BY <1>1, BackStays DEF PaysNothing
<1>2. ASSUME NEW r \in Requests, NEW o, NEW n, CreateRefundRequest(r, o, n)
      PROVE  PaysNothing
  <2>1. payouts[r] = 0
    BY <1>2, Backend = "pg" DEF CreateRefundRequest, SettledInv
  <2>2. payouts' = payouts /\ \A q \in Requests : requests'[q] = requests[q] \/ q = r
    BY <1>2 DEF CreateRefundRequest, StoreTypeOK
  <2> QED BY <2>1, <2>2, BackStays DEF PaysNothing
<1>3. ASSUME NEW r \in Requests, NEW d \in Decision, NEW b \in BOOLEAN, b => r \in Orders,
             ApplyRefundDecision(r, d, b)
      PROVE  Settles(r, b) \/ PaysNothing
  <2>1. Filed(r) /\ requests[r] \in Request /\ requests[r].status \in OpenStatus
        /\ ~requests[r].settled /\ payouts[r] = 0
    BY <1>3 DEF ApplyRefundDecision, SettledInv, StoreTypeOK, OpenStatus, Filed
  <2>2. CASE RecordDecision(r, d)
    <3>1. payouts' = payouts /\ \A q \in Requests : requests'[q] = requests[q] \/ q = r
      BY <2>2 DEF RecordDecision, StoreTypeOK
    <3> QED BY <2>1, <3>1, BackStays DEF PaysNothing
  <2>3. CASE SettleRefund(r, b)
    <3>1. /\ payouts' = [payouts EXCEPT ![r] = @ + 1]
          /\ requests' = [requests EXCEPT ![r].status = "refunded", ![r].settled = TRUE]
      BY <2>3 DEF SettleRefund
    <3>2. /\ requests'[r].order = requests[r].order /\ requests'[r].amount = requests[r].amount
          /\ requests'[r].status = "refunded"
          /\ \A q \in Requests \ {r} : requests'[q] = requests[q]
      BY <2>1, <3>1 DEF StoreTypeOK, Request
    <3>3. Filed(r)'
      BY <2>1, <3>1 DEF StoreTypeOK, Request, Filed, NoRequest
    <3>4. Back' = [Back EXCEPT ![requests[r].order] = @ + requests[r].amount]
      BY <2>1, <3>1, <3>2, <3>3, BackGrows
    <3> QED BY <1>3, <2>1, <2>3, <3>4 DEF Settles
  <2> QED BY <1>3, <2>2, <2>3 DEF ApplyRefundDecision
<1> QED BY <1>1, <1>2, <1>3
        DEF StoreStep, storeVars, FinalizeRechargeOrder, SaveOrder, Debit

LEMMA BackInit ==
    ASSUME StoreInit, StoreTypeOK
    PROVE  \A o \in Orders : Back[o] = 0
<1> SUFFICES ASSUME NEW o \in Orders PROVE Returned(requests, payouts, o) = 0
    BY PaidBackIsReturned DEF Back
<1> DEFINE f == Shares(requests, payouts, o)
<1>1. \A r \in Requests : f[r] = 0
    BY DEF Shares, StoreInit
<1> HIDE DEF f
<1>2. SumFunctionOnSet(f, Requests) = 0
    BY <1>1, RequestsAreFinite, SumZero
<1> QED BY <1>2 DEF f, Returned

-----------------------------------------------------------------------------
(***************************************************************************)
(* What administrators' requests do beside the rest of the wallet.         *)
(***************************************************************************)
Holds(k) == k.at \in {"insert", "commit"}

\* A request that holds the lock of a wallet has read its balance as it is,
\* and no other request holds the same lock.
LockInv == \A a \in Admins :
    Holds(admin[a]) =>
        /\ admin[a].read = balance[admin[a].row.user]
        /\ \A b \in Admins \ {a} : Holds(admin[b]) => admin[b].row.user # admin[a].row.user

\* A request that comes to hold a free lock, or lets one go, moving no money.
LEMMA LocalLock ==
    ASSUME LockInv, DOMAIN admin = Admins, NEW a \in Admins, NEW k, AdminGoto(a, k),
           UNCHANGED balance,
           Holds(k) => /\ k.read = balance[k.row.user]
                       /\ \A b \in Admins \ {a} : Holds(admin[b]) => admin[b].row.user # k.row.user
    PROVE  LockInv'
<1>1. admin'[a] = k /\ \A b \in Admins \ {a} : admin'[b] = admin[b]
    BY DEF AdminGoto
<1> QED BY <1>1 DEF LockInv

LEMMA LockStep ==
    ASSUME AdminTypeOK, LockInv, balance \in [Users -> Int], NEW a \in Admins, AdminStep(a)
    PROVE  LockInv' /\ balance' \in [Users -> Int]
<1> DEFINE k == admin[a]
<1>1. DOMAIN admin = Admins
    BY DEF AdminTypeOK
<1>2. ASSUME NEW answer, Answer(a, answer), UNCHANGED balance PROVE LockInv'
  <2> DEFINE new == [at |-> "answered", name |-> k.name, row |-> k.row, answer |-> answer]
  <2>1. AdminGoto(a, new) /\ ~Holds(new)
    BY <1>2 DEF Answer, Holds
  <2> HIDE DEF new
  <2> QED BY <1>1, <1>2, <2>1, LocalLock
<1>3. ASSUME NEW n \in Names, NEW row \in Row, ApplyAdminWalletMutation(a, n, row)
      PROVE  LockInv'
  <2> DEFINE new == [at |-> IF adjustments[n] = NoRow THEN "wallet" ELSE "replay",
                     name |-> n, row |-> row]
  <2>1. AdminGoto(a, new) /\ ~Holds(new) /\ UNCHANGED balance
    BY <1>3 DEF ApplyAdminWalletMutation, vars, storeVars, Holds
  <2> HIDE DEF new
  <2> QED BY <1>1, <2>1, LocalLock
<1>4. CASE LockWallet(a)
  <2> DEFINE new == [at |-> "insert", name |-> k.name, row |-> k.row,
                     read |-> balance[k.row.user]]
  <2>1. UNCHANGED balance /\ ~Locked(k.row.user)
    BY <1>4 DEF LockWallet, vars, storeVars
  <2>2. CASE Answer(a, "insufficient")
    BY <1>2, <2>1, <2>2
  <2>3. CASE AdminGoto(a, new)
    <3>1. new.read = balance[new.row.user]
          /\ \A b \in Admins \ {a} : Holds(admin[b]) => admin[b].row.user # new.row.user
      BY <2>1 DEF Locked, Holds
    <3> HIDE DEF new
    <3> QED BY <1>1, <2>1, <2>3, <3>1, LocalLock
  <2> QED BY <1>4, <2>2, <2>3 DEF LockWallet
<1>5. CASE InsertRow(a)
  <2> DEFINE first == [k EXCEPT !.at = "commit"]
             late == [at |-> "replay", name |-> k.name, row |-> k.row]
  <2>1. UNCHANGED balance /\ k.at = "insert"
    BY <1>5 DEF InsertRow, vars, storeVars
  <2>2. CASE AdminGoto(a, first)
    <3>1. first.read = k.read /\ first.row = k.row
      OBVIOUS
    <3>2. first.read = balance[first.row.user]
          /\ \A b \in Admins \ {a} : Holds(admin[b]) => admin[b].row.user # first.row.user
      BY <2>1, <3>1 DEF LockInv, Holds
    <3> HIDE DEF first
    <3> QED BY <1>1, <2>1, <2>2, <3>2, LocalLock
  <2>3. CASE AdminGoto(a, late)
    <3>1. ~Holds(late)
      BY DEF Holds
    <3> HIDE DEF late
    <3> QED BY <1>1, <2>1, <2>3, <3>1, LocalLock
  <2> QED BY <1>5, <2>2, <2>3 DEF InsertRow, Stage
<1>6. CASE Commit(a)
  <2>1. Holds(k) /\ k.read = balance[k.row.user] /\ k.row \in Row
        /\ \A b \in Admins \ {a} : Holds(admin[b]) => admin[b].row.user # k.row.user
    BY <1>6 DEF Commit, Holds, LockInv, AdminTypeOK, Asked
  <2>2. /\ balance' = [balance EXCEPT ![k.row.user] = k.read + k.row.fen]
        /\ ~Holds(admin'[a])
        /\ \A b \in Admins \ {a} : admin'[b] = admin[b]
    BY <1>1, <1>6 DEF Commit, Answer, AdminGoto, Holds
  <2>3. k.row.user \in Users /\ k.row.fen \in Int
    BY <2>1, AdminAssumption DEF Row
  <2>4. balance' \in [Users -> Int]
    BY <2>1, <2>2, <2>3
  <2>5. ASSUME NEW b \in Admins, Holds(admin[b]), b # a
        PROVE  balance'[admin[b].row.user] = balance[admin[b].row.user]
    BY <2>1, <2>2, <2>5
  <2>6. LockInv'
    BY <2>2, <2>5 DEF LockInv
  <2> QED BY <2>4, <2>6
<1>7. CASE LoadReplay(a)
    BY <1>2, <1>7 DEF LoadReplay, vars, storeVars
<1>8. CASE AdminFails(a)
    BY <1>2, <1>8 DEF AdminFails, vars, storeVars
<1>9. Commit(a) \/ UNCHANGED balance
    BY DEF AdminStep, ApplyAdminWalletMutation, LockWallet, InsertRow, LoadReplay, AdminFails,
           vars, storeVars
<1> QED BY <1>3, <1>4, <1>5, <1>6, <1>7, <1>8, <1>9 DEF AdminStep

\* Recharges, refunds and spending wait for the lock.
LEMMA LockRechargeStep ==
    ASSUME AdminTypeOK, LockInv, RechargeStep
    PROVE  LockInv'
<1>1. UNCHANGED admin
    BY DEF RechargeStep, adminVars
<1>2. ASSUME NEW a \in Admins, Holds(admin[a])
      PROVE  balance'[admin[a].row.user] = balance[admin[a].row.user]
  <2>1. Locked(admin[a].row.user) /\ admin[a].row \in Row
    BY <1>2 DEF Locked, Holds, AdminTypeOK, Asked
  <2> QED BY <2>1 DEF RechargeStep, Row
<1> QED BY <1>1, <1>2 DEF LockInv

-----------------------------------------------------------------------------
\* The rows of the ledger with those of the administrators.
LedgerInv == TypeOK /\ SettledInv /\ AdminInv /\ LockInv

LEMMA LedgerInit == ASSUME AdminInit PROVE LedgerInv
<1>1. TypeOK /\ SettledInv
    BY InitTyped DEF AdminInit, Init, StoreInit, SettledInv, Filed
<1>2. AdminInv
    BY AdminInitInv
<1>3. LockInv
    BY DEF AdminInit, Unsent, LockInv, Holds
<1> QED BY <1>1, <1>2, <1>3 DEF LedgerInv

\* A step of an administrator's request leaves all rows but the wallets' alone.
LEMMA AdminLeaves ==
    ASSUME NEW a \in Admins, AdminStep(a)
    PROVE  UNCHANGED <<orders, requests, credits, payouts, debits, paid, paidOut, call>>
BY DEF AdminStep, ApplyAdminWalletMutation, LockWallet, InsertRow, Commit, LoadReplay,
       AdminFails, vars, storeVars, external

LEMMA LedgerStep ==
    ASSUME LedgerInv, [AdminNext]_allVars
    PROVE  LedgerInv'
<1>1. CASE UNCHANGED allVars
    BY <1>1 DEF allVars, vars, storeVars, adminVars, LedgerInv, TypeOK, StoreTypeOK, SettledInv,
        Filed, AdminInv, AdminTypeOK, ReplayInv, CommitInv, AnswersAreTrue, LockInv
<1>2. CASE RechargeStep
  <2>1. TypeOK' /\ SettledInv'
    BY <1>2, TypedStep, SettledStep, AdminAssumption DEF RechargeStep, LedgerInv
  <2>2. AdminInv'
    BY <1>2, AdminStaysInv DEF RechargeStep, LedgerInv
  <2>3. LockInv'
    BY <1>2, LockRechargeStep DEF LedgerInv, AdminInv
  <2> QED BY <2>1, <2>2, <2>3 DEF LedgerInv
<1>3. ASSUME NEW a \in Admins, AdminStep(a)
      PROVE  LedgerInv'
  <2>1. AdminInv' /\ LockInv' /\ balance' \in [Users -> Int]
    BY <1>3, AdminStepKeeps, LockStep DEF LedgerInv, AdminInv, TypeOK, StoreTypeOK
  <2>2. UNCHANGED <<orders, requests, credits, payouts, debits, paid, paidOut, call>>
    BY <1>3, AdminLeaves
  <2>3. TypeOK' /\ SettledInv'
    BY <2>1, <2>2 DEF LedgerInv, TypeOK, StoreTypeOK, SettledInv, Filed
  <2> QED BY <2>1, <2>3 DEF LedgerInv
<1> QED BY <1>1, <1>2, <1>3 DEF AdminNext

LEMMA LedgerTyped == AdminSpec => []LedgerInv
BY LedgerInit, LedgerStep, PTL DEF AdminSpec

-----------------------------------------------------------------------------
\* How an order's row may change when nothing but callbacks and refunds do it.
LEMMA OrdersStep ==
    ASSUME Reconcilers = {}, TypeOK, Next
    PROVE  \/ orders' = orders
           \/ \E o \in Orders : FinalizeRechargeOrder(o)
           \/ \E o \in Orders : ~Exists(o) /\ SaveOrder(o, [status |-> "pending", refunded |-> 0])
           \/ \E r \in Requests : \E b \in BOOLEAN : SettleRefund(r, b)
<1>1. CASE \E o \in Orders : OnOrder(o)
    BY <1>1 DEF OnOrder, CreateRechargeOrder, UserPays, ProviderRefunds,
                HandleSuccessfulRechargeCallback, storeVars
<1>2. CASE \E u \in Users : Spend(u)
    BY <1>2 DEF Spend, Debit
<1>3. ASSUME NEW r \in Requests, NEW d, NEW b \in BOOLEAN, ApplyRefundDecision(r, d, b)
      PROVE  orders' = orders \/ SettleRefund(r, b)
    BY <1>3 DEF ApplyRefundDecision, RecordDecision
<1>4. CASE \E c \in Handlers : HandleRefund(c)
  <2>1. PICK c \in Handlers : HandleRefund(c)
    BY <1>4
  <2>2. CASE ApplyApproval(c)
    <3>1. call[c].req \in Requests
      BY <2>2, CallFields DEF ApplyApproval, TypeOK, Callers
    <3> QED BY <1>3, <2>2, <3>1 DEF ApplyApproval
  <2> QED BY <2>1, <2>2 DEF HandleRefund, BeginCreateRefundRequest, InsertRefundRequest,
             ApproveRefundRequest, CreateRefundRequest, storeVars
<1>5. CASE \E r \in Requests : Review(r)
    BY <1>3, <1>5 DEF Review, ReviewRefundRequest, MarkRefundSettled
<1>6. CASE \E c \in Callers : Abort(c)
    BY <1>6 DEF Abort, storeVars
<1> QED BY <1>1, <1>2, <1>4, <1>5, <1>6, Reconcilers = {} DEF Next

RefundsInv == \A o \in Orders :
    /\ orders[o].refunded = Back[o] /\ Back[o] <= AmountFen[o]
    /\ ~Exists(o) => Back[o] = 0

LEMMA RefundsStep ==
    ASSUME Reconcilers = {}, Backend = "pg", TypeOK, SettledInv, RefundsInv, Next
    PROVE  RefundsInv'
<1>1. StoreStep /\ StoreTypeOK /\ StoreTypeOK'
    BY StepShape, StoreTypeStep DEF TypeOK
<1>2. Back \in [Orders -> Nat] /\ orders \in [Orders -> Order] /\ AmountFen \in [Orders -> Nat]
    BY <1>1, BackIsNat, StoreAssumption DEF StoreTypeOK
<1>3. ASSUME NEW r \in Requests, NEW b \in BOOLEAN, Settles(r, b)
      PROVE  RefundsInv'
  <2> DEFINE o == requests[r].order
             n == requests[r].amount
             paidBack == MinFen(orders[o].refunded + n, AmountFen[o])
  <2>1. o \in Orders /\ n \in Nat /\ SettleRefund(r, b) /\ Back' = [Back EXCEPT ![o] = @ + n]
    BY <1>3 DEF Settles, Request
  <2>2. Exists(o) /\ n <= AmountFen[o] - orders[o].refunded /\ AmountFen[o] \in Nat
        /\ orders[o].refunded = Back[o] /\ Back[o] \in Nat
    BY <1>2, <2>1 DEF SettleRefund, Refundable, RefundsInv
  <2>3. paidBack = Back[o] + n
    BY <2>1, <2>2 DEF MinFen
  <2>4. Back'[o] = Back[o] + n /\ \A q \in Orders \ {o} : Back'[q] = Back[q]
    BY <1>2, <2>1
  <2>5. orders'[o].refunded = paidBack /\ orders'[o].status \in {"refunded", orders[o].status}
        /\ \A q \in Orders \ {o} : orders'[q] = orders[q]
    BY <1>2, <2>1 DEF SettleRefund
  <2> QED BY <2>1, <2>2, <2>3, <2>4, <2>5 DEF RefundsInv, Exists
<1>4. ASSUME PaysNothing
      PROVE  RefundsInv'
  <2>0. Back' = Back /\ payouts' = payouts
    BY <1>4 DEF PaysNothing
  <2>1. CASE orders' = orders
    BY <2>0, <2>1 DEF RefundsInv, Exists
  <2>2. CASE \E o \in Orders : FinalizeRechargeOrder(o)
    <3>1. PICK o \in Orders : FinalizeRechargeOrder(o)
      BY <2>2
    <3>2. orders'[o].refunded = orders[o].refunded /\ Exists(o)
          /\ orders'[o].status \in {"paid", orders[o].status}
          /\ \A q \in Orders \ {o} : orders'[q] = orders[q]
      BY <1>2, <3>1 DEF FinalizeRechargeOrder, storeVars, Order
    <3> QED BY <2>0, <3>2 DEF RefundsInv, Exists
  <2>3. ASSUME NEW o \in Orders, ~Exists(o), SaveOrder(o, [status |-> "pending", refunded |-> 0])
        PROVE  RefundsInv'
    <3>1. orders'[o] = [status |-> "pending", refunded |-> 0]
          /\ \A q \in Orders \ {o} : orders'[q] = orders[q]
      BY <1>2, <2>3 DEF SaveOrder
    <3>2. Back[o] = 0
      BY <2>3 DEF RefundsInv
    <3> QED BY <2>0, <3>1, <3>2 DEF RefundsInv, Exists
  <2>4. ASSUME NEW r \in Requests, NEW b \in BOOLEAN, SettleRefund(r, b)
        PROVE  FALSE
    <3>1. payouts'[r] = payouts[r] + 1 /\ payouts[r] \in Nat
      BY <1>1, <2>4 DEF SettleRefund, StoreTypeOK
    <3> QED BY <2>0, <3>1
  <2> QED BY <2>1, <2>2, <2>3, <2>4, OrdersStep, Reconcilers = {}
<1> QED BY <1>1, <1>3, <1>4, SettlesOrNot, Backend = "pg"

\* Unless reconciliation writes to it, an order's refunds, in whatever parts
\* and whoever decides them, add up to its refunded_fen and never to more than
\* its amount (SettleRefund), whatever administrators do to the wallets.
THEOREM RefundsWithin ==
    ASSUME Reconcilers = {}
    PROVE  AdminSpec => []RefundsWithinOrder
<1>1. AdminInit => RefundsInv
  <2> SUFFICES ASSUME AdminInit PROVE RefundsInv
    OBVIOUS
  <2>1. StoreTypeOK
    BY LedgerInit DEF LedgerInv, TypeOK
  <2>2. \A o \in Orders : orders[o] = NoOrder
    BY DEF AdminInit, Init, StoreInit
  <2>3. \A o \in Orders : Back[o] = 0
    BY <2>1, BackInit DEF AdminInit, Init
  <2> QED BY <2>2, <2>3, StoreAssumption DEF RefundsInv, NoOrder
<1>2. LedgerInv /\ RefundsInv /\ [AdminNext]_allVars => RefundsInv'
  <2> SUFFICES ASSUME LedgerInv, RefundsInv, [AdminNext]_allVars PROVE RefundsInv'
    OBVIOUS
  <2>1. ASSUME UNCHANGED <<orders, requests, payouts>> PROVE RefundsInv'
    BY <2>1 DEF RefundsInv, Back, PaidBack, RefundsOf, Filed, Exists
  <2>2. CASE Next
    BY <2>2, RefundsStep, AdminAssumption, Reconcilers = {} DEF LedgerInv
  <2> QED BY <2>1, <2>2, AdminLeaves DEF AdminNext, RechargeStep, allVars, vars, storeVars
<1>3. RefundsInv => RefundsWithinOrder
    BY DEF RefundsInv, RefundsWithinOrder, Back
<1> QED BY <1>1, <1>2, <1>3, LedgerTyped, PTL DEF AdminSpec

-----------------------------------------------------------------------------
(***************************************************************************)
(* A wallet's balance is the sum of its rows.  The balance that a request  *)
(* of an administrator commits was read under the lock, so that no row of  *)
(* another transaction is lost.                                            *)
(***************************************************************************)
OrderRows(u) == [o \in OrdersOf(u) |-> credits[o] * AmountFen[o] - Back[o]]
Earned(u) == SumFunctionOnSet(OrderRows(u), OrdersOf(u))
\* What the row of a name adds to a wallet.
Gives(row, u) == IF row # NoRow /\ row.user = u THEN row.fen ELSE 0
NameRows(rows, u) == [k \in Names |-> Gives(rows[k], u)]
Given(rows, u) == SumFunctionOnSet(NameRows(rows, u), Names)
RowsInv == \A u \in Users : balance[u] = Earned(u) + Given(adjustments, u) - debits[u]

LEMMA OrderRowsInt ==
    ASSUME StoreTypeOK, NEW u \in Users
    PROVE  /\ IsFiniteSet(OrdersOf(u))
           /\ \A o \in OrdersOf(u) : OrderRows(u)[o] \in Int
           /\ Earned(u) \in Int
<1>1. IsFiniteSet(OrdersOf(u))
    BY FiniteAssumption, FS_Subset DEF OrdersOf
<1>2. ASSUME NEW o \in OrdersOf(u) PROVE OrderRows(u)[o] \in Int
  <2>1. credits[o] \in Nat /\ AmountFen[o] \in Nat /\ Back[o] \in Nat
    BY BackIsNat, StoreAssumption DEF OrdersOf, StoreTypeOK
  <2>2. credits[o] * AmountFen[o] \in Nat
    BY <2>1
  <2> QED BY <2>1, <2>2 DEF OrderRows
<1> QED BY <1>1, <1>2, SumInt DEF Earned

LEMMA NameRowsInt ==
    ASSUME NEW rows \in [Names -> Row \cup {NoRow}], NEW u
    PROVE  /\ IsFiniteSet(Names)
           /\ \A k \in Names : NameRows(rows, u)[k] \in Int
           /\ Given(rows, u) \in Int
<1>1. ASSUME NEW k \in Names PROVE NameRows(rows, u)[k] \in Int
  <2>1. CASE rows[k] = NoRow
    BY <2>1 DEF NameRows, Gives
  <2>2. CASE rows[k] \in Row
    <3>1. rows[k].fen \in Int
      BY <2>2, AdminAssumption DEF Row
    <3> QED BY <3>1 DEF NameRows, Gives
  <2> QED BY <2>1, <2>2
<1> QED BY <1>1, AdminAssumption, SumInt DEF Given

\* The two sums of WalletIsItsRows.
LEMMA SumsOfRows ==
    ASSUME StoreTypeOK, adjustments \in [Names -> Row \cup {NoRow}], NEW u \in Users
    PROVE  /\ SumFunction([o \in OrdersOf(u) |-> credits[o] * AmountFen[o] - PaidBack(o)]) = Earned(u)
           /\ SumFunction([k \in AdjustmentsOf(u) |-> adjustments[k].fen]) = Given(adjustments, u)
<1> DEFINE e == [o \in OrdersOf(u) |-> credits[o] * AmountFen[o] - PaidBack(o)]
           f == [k \in AdjustmentsOf(u) |-> adjustments[k].fen]
           g == NameRows(adjustments, u)
<1>1. e = OrderRows(u) /\ DOMAIN e = OrdersOf(u)
    BY DEF OrderRows, Back, OrdersOf
<1>2. DOMAIN f = AdjustmentsOf(u) /\ AdjustmentsOf(u) \subseteq Names
    BY DEF AdjustmentsOf
<1>3. \A k \in AdjustmentsOf(u) : f[k] = g[k]
    BY DEF AdjustmentsOf, NameRows, Gives
<1>4. \A k \in Names \ AdjustmentsOf(u) : g[k] = 0
    BY DEF AdjustmentsOf, NameRows, Gives
<1>5. SumFunctionOnSet(f, AdjustmentsOf(u)) = SumFunctionOnSet(g, Names)
  <2> HIDE DEF f, g
  <2>1. IsFiniteSet(Names) /\ \A k \in Names : g[k] \in Int
    BY NameRowsInt DEF g
  <2> QED BY <1>2, <1>3, <1>4, <2>1, SumWithZeros
<1> HIDE DEF e
<1>6. SumFunction(e) = Earned(u)
    BY <1>1 DEF SumFunction, Earned
<1>7. SumFunction(f) = Given(adjustments, u)
    BY <1>2, <1>5 DEF SumFunction, Given
<1> QED BY <1>6, <1>7 DEF e

\* The rows of one order change: the sum of its owner changes by as much.
LEMMA EarnedStep ==
    ASSUME StoreTypeOK, StoreTypeOK', NEW o \in Orders, NEW n \in Int,
           \A q \in Orders \ {o} : credits'[q] = credits[q] /\ Back'[q] = Back[q],
           credits'[o] * AmountFen[o] - Back'[o] = credits[o] * AmountFen[o] - Back[o] + n
    PROVE  \A u \in Users : Earned(u)' = Earned(u) + (IF u = Owner[o] THEN n ELSE 0)
<1> SUFFICES ASSUME NEW u \in Users
             PROVE  Earned(u)' = Earned(u) + (IF u = Owner[o] THEN n ELSE 0)
    OBVIOUS
<1> DEFINE f == OrderRows(u)
           g == OrderRows(u)'
           S == OrdersOf(u)
<1>1. IsFiniteSet(S) /\ (\A q \in S : f[q] \in Int) /\ Earned(u) \in Int
    BY OrderRowsInt
<1>2. \A q \in S \ {o} : g[q] = f[q]
    BY DEF OrderRows, OrdersOf
<1>3. o \in S => g[o] = f[o] + n
    BY DEF OrderRows, OrdersOf
<1>4. o \in S <=> u = Owner[o]
    BY DEF OrdersOf
<1>5. \A q \in S : g[q] \in Int
  <2>1. ASSUME NEW q \in S PROVE g[q] \in Int
    <3>1. CASE q = o
      BY <1>1, <1>3, <3>1
    <3>2. CASE q # o
      BY <1>1, <1>2, <3>2
    <3> QED BY <3>1, <3>2
  <2> QED BY <2>1
<1>6. Earned(u) = SumFunctionOnSet(f, S) /\ Earned(u)' = SumFunctionOnSet(g, S)
    BY DEF Earned, OrdersOf
<1>7. CASE u = Owner[o]
  <2>1. SumFunctionOnSet(g, S) = SumFunctionOnSet(f, S) - f[o] + g[o]
    <3> HIDE DEF f, g, S
    <3> QED BY <1>1, <1>2, <1>4, <1>5, <1>7, SumChange
  <2>2. f[o] \in Int /\ g[o] = f[o] + n
    BY <1>1, <1>3, <1>4, <1>7
  <2> HIDE DEF f, g, S
  <2> QED BY <1>1, <1>6, <1>7, <2>1, <2>2
<1>8. CASE u # Owner[o]
  <2>1. SumFunctionOnSet(f, S) = SumFunctionOnSet(g, S)
    <3> HIDE DEF f, g, S
    <3> QED BY <1>1, <1>2, <1>4, <1>8, SumEqual
  <2> HIDE DEF f, g, S
  <2> QED BY <1>1, <1>6, <1>8, <2>1
<1> QED BY <1>7, <1>8

LEMMA EarnedStays ==
    ASSUME credits' = credits, Back' = Back
    PROVE  \A u \in Users : Earned(u)' = Earned(u)
BY DEF Earned, OrderRows, OrdersOf

\* The row of a name that had none.
LEMMA GivenStep ==
    ASSUME NEW rows \in [Names -> Row \cup {NoRow}], NEW k \in Names, rows[k] = NoRow,
           NEW row \in Row, NEW u
    PROVE  Given([rows EXCEPT ![k] = row], u)
             = Given(rows, u) + (IF u = row.user THEN row.fen ELSE 0)
<1> DEFINE now == [rows EXCEPT ![k] = row]
           f == NameRows(rows, u)
           g == NameRows(now, u)
<1>1. IsFiniteSet(Names) /\ (\A n \in Names : f[n] \in Int) /\ Given(rows, u) \in Int
    BY NameRowsInt
<1>2. now \in [Names -> Row \cup {NoRow}]
    OBVIOUS
<1>3. \A n \in Names : g[n] \in Int
  <2> HIDE DEF now
  <2> QED BY <1>2, NameRowsInt
<1>4. \A n \in Names \ {k} : g[n] = f[n]
    BY DEF NameRows
<1>5. f[k] = 0 /\ g[k] = IF u = row.user THEN row.fen ELSE 0
    BY RowIsSomething DEF NameRows, Gives
<1>6. SumFunctionOnSet(g, Names) = SumFunctionOnSet(f, Names) - f[k] + g[k]
  <2> HIDE DEF f, g
  <2> QED BY <1>1, <1>3, <1>4, SumChange
<1>7. row.fen \in Int
    BY AdminAssumption DEF Row
<1> HIDE DEF f, g, now
<1>8. Given(now, u) = SumFunctionOnSet(g, Names) /\ Given(rows, u) = SumFunctionOnSet(f, Names)
    BY DEF Given, f, g
<1> QED BY <1>1, <1>5, <1>6, <1>7, <1>8 DEF now

-----------------------------------------------------------------------------
\* A store operation moves a wallet's balance as it moves the rows.
LEMMA RowsStoreStep ==
    ASSUME Backend = "pg", TypeOK, StoreTypeOK', SettledInv, StoreStep,
           adjustments' = adjustments, adjustments \in [Names -> Row \cup {NoRow}], RowsInv
    PROVE  RowsInv'
<1> USE DEF TypeOK
<1>1. /\ \A u \in Users : Earned(u) \in Int /\ Given(adjustments, u) \in Int
      /\ balance \in [Users -> Int] /\ debits \in [Users -> Nat]
      /\ credits \in [Orders -> Nat] /\ Back \in [Orders -> Nat]
    BY OrderRowsInt, NameRowsInt, BackIsNat DEF StoreTypeOK
<1>2. AmountFen \in [Orders -> Nat] /\ Owner \in [Orders -> Users]
    BY StoreAssumption
<1>3. ASSUME NEW r \in Requests, NEW b \in BOOLEAN, Settles(r, b)
      PROVE  RowsInv'
  <2> DEFINE o == requests[r].order
             n == requests[r].amount
  <2>1. o \in Orders /\ n \in Nat /\ SettleRefund(r, b) /\ Back' = [Back EXCEPT ![o] = @ + n]
    BY <1>3 DEF Settles, Request
  <2>2. credits' = credits /\ debits' = debits
        /\ balance' = [balance EXCEPT ![Owner[o]] = @ - n]
    BY <2>1 DEF SettleRefund
  <2>3. \A q \in Orders \ {o} : credits'[q] = credits[q] /\ Back'[q] = Back[q]
    BY <1>1, <2>1, <2>2
  <2>4. credits'[o] * AmountFen[o] - Back'[o] = credits[o] * AmountFen[o] - Back[o] + (-n)
    <3>1. credits[o] * AmountFen[o] \in Int
      BY <1>1, <1>2, <2>1
    <3>2. Back'[o] = Back[o] + n /\ Back[o] \in Nat
      BY <1>1, <2>1
    <3> QED BY <2>1, <2>2, <3>1, <3>2
  <2>5. -n \in Int
    BY <2>1
  <2>6. \A u \in Users : Earned(u)' = Earned(u) + (IF u = Owner[o] THEN -n ELSE 0)
    BY <2>1, <2>3, <2>4, <2>5, EarnedStep
  <2> HIDE DEF o, n
  <2> QED BY <1>1, <1>2, <2>1, <2>2, <2>6 DEF RowsInv
<1>4. ASSUME PaysNothing
      PROVE  RowsInv'
  <2>0. Back' = Back /\ payouts' = payouts
    BY <1>4 DEF PaysNothing
  <2>1. ASSUME UNCHANGED <<balance, credits, debits>> PROVE RowsInv'
    BY <2>0, <2>1, EarnedStays DEF RowsInv
  <2>2. ASSUME NEW o \in Orders, FinalizeRechargeOrder(o), orders[o].status # "paid"
        PROVE  RowsInv'
    <3>1. /\ balance' = [balance EXCEPT ![Owner[o]] = @ + AmountFen[o]]
          /\ credits[o] = 0 /\ credits' = [credits EXCEPT ![o] = @ + 1] /\ debits' = debits
      BY <2>2, Backend = "pg" DEF FinalizeRechargeOrder, LedgerAccepts
    <3>2. \A q \in Orders \ {o} : credits'[q] = credits[q] /\ Back'[q] = Back[q]
      BY <1>1, <2>0, <3>1
    <3>3. credits'[o] * AmountFen[o] - Back'[o] = credits[o] * AmountFen[o] - Back[o] + AmountFen[o]
      <4>1. credits'[o] = 1 /\ AmountFen[o] \in Nat /\ Back[o] \in Nat /\ Back'[o] = Back[o]
        BY <1>1, <1>2, <2>0, <3>1
      <4>2. 1 * AmountFen[o] = AmountFen[o] /\ 0 * AmountFen[o] = 0
        BY <4>1
      <4> QED BY <3>1, <4>1, <4>2
    <3>4. \A u \in Users : Earned(u)' = Earned(u) + (IF u = Owner[o] THEN AmountFen[o] ELSE 0)
      BY <1>2, <3>2, <3>3, EarnedStep
    <3> QED BY <1>1, <1>2, <2>2, <3>1, <3>4 DEF RowsInv
  <2>3. ASSUME NEW u \in Users, NEW n \in Nat, Debit(u, n)
        PROVE  RowsInv'
    <3>1. balance' = [balance EXCEPT ![u] = @ - n] /\ debits' = [debits EXCEPT ![u] = @ + n]
          /\ credits' = credits
      BY <2>3 DEF Debit
    <3>2. \A v \in Users : Earned(v)' = Earned(v)
      BY <2>0, <3>1, EarnedStays
    <3> QED BY <1>1, <2>3, <3>1, <3>2 DEF RowsInv
  <2>4. ASSUME NEW r \in Requests, NEW b \in BOOLEAN, SettleRefund(r, b)
        PROVE  FALSE
    <3>1. payouts'[r] = payouts[r] + 1 /\ payouts[r] \in Nat
      BY <2>4 DEF SettleRefund, StoreTypeOK
    <3> QED BY <2>0, <3>1
  <2> QED BY <2>1, <2>2, <2>3, <2>4
          DEF StoreStep, storeVars, SaveOrder, CreateRefundRequest, ApplyRefundDecision,
              RecordDecision, FinalizeRechargeOrder
<1> QED BY <1>3, <1>4, SettlesOrNot, Backend = "pg"

\* An administrator's commit adds its row to the balance as it is.
LEMMA RowsCommit ==
    ASSUME LedgerInv, RowsInv, NEW a \in Admins, Commit(a)
    PROVE  RowsInv'
<1> DEFINE k == admin[a]
           u == k.row.user
<1>1. k.at = "commit" /\ k.name \in Names /\ k.row \in Row /\ adjustments[k.name] = NoRow
      /\ k.read = balance[u] /\ adjustments \in [Names -> Row \cup {NoRow}]
    BY DEF Commit, LedgerInv, AdminInv, AdminTypeOK, CommitInv, LockInv, Holds, Asked
<1>2. u \in Users /\ k.row.fen \in Int
    BY <1>1, AdminAssumption DEF Row
<1>3. /\ adjustments' = [adjustments EXCEPT ![k.name] = k.row]
      /\ balance' = [balance EXCEPT ![u] = @ + k.row.fen]
      /\ UNCHANGED <<orders, requests, credits, payouts, debits>>
    BY <1>1 DEF Commit
<1>4. Back' = Back
    BY <1>3 DEF Back, PaidBack, RefundsOf, Filed
<1>5. \A v \in Users : Earned(v)' = Earned(v)
    BY <1>3, <1>4, EarnedStays
<1>6. \A v \in Users : Given(adjustments, v)'
                         = Given(adjustments, v) + (IF v = u THEN k.row.fen ELSE 0)
  <2> HIDE DEF k
  <2> SUFFICES ASSUME NEW v \in Users
               PROVE  Given(adjustments', v)
                        = Given(adjustments, v) + (IF v = k.row.user THEN k.row.fen ELSE 0)
    OBVIOUS
  <2>1. Given([adjustments EXCEPT ![k.name] = k.row], v)
          = Given(adjustments, v) + (IF v = k.row.user THEN k.row.fen ELSE 0)
    BY <1>1, GivenStep
  <2> QED BY <1>3, <2>1
<1>7. StoreTypeOK
    BY DEF LedgerInv, TypeOK
<1>8. \A v \in Users : Earned(v) \in Int /\ Given(adjustments, v) \in Int
    BY <1>1, <1>7, OrderRowsInt, NameRowsInt
<1>9. balance \in [Users -> Int] /\ debits \in [Users -> Nat]
    BY <1>7 DEF StoreTypeOK
<1> HIDE DEF u, k
<1>10. ASSUME NEW v \in Users
       PROVE  balance'[v] = Earned(v)' + Given(adjustments', v) - debits'[v]
  <2>1. balance[v] = Earned(v) + Given(adjustments, v) - debits[v]
    BY DEF RowsInv
  <2>2. balance'[v] = balance[v] + (IF v = u THEN k.row.fen ELSE 0)
    BY <1>2, <1>3, <1>9
  <2>3. Given(adjustments', v) = Given(adjustments, v) + (IF v = u THEN k.row.fen ELSE 0)
    BY <1>6
  <2>4. Earned(v)' = Earned(v) /\ debits'[v] = debits[v]
    BY <1>3, <1>5
  <2>5. Earned(v) \in Int /\ Given(adjustments, v) \in Int /\ debits[v] \in Int /\ balance[v] \in Int
    BY <1>8, <1>9
  <2> QED BY <1>2, <2>1, <2>2, <2>3, <2>4, <2>5
<1> QED BY <1>10 DEF RowsInv

\* Recharges, refunds, spending and adjustments lose no update of a wallet:
\* its balance is always the sum of its rows (ApplyAdminWalletMutation writes
\* a balance it has read, under "for update").
THEOREM WalletSums == AdminSpec => []WalletIsItsRows
<1>1. AdminInit => RowsInv
  <2> SUFFICES ASSUME AdminInit, NEW u \in Users
               PROVE  balance[u] = Earned(u) + Given(adjustments, u) - debits[u]
    BY DEF RowsInv
  <2>1. StoreTypeOK /\ StoreInit
    BY LedgerInit DEF LedgerInv, TypeOK, AdminInit, Init
  <2>2. \A o \in OrdersOf(u) : OrderRows(u)[o] = 0
    <3>1. ASSUME NEW o \in OrdersOf(u) PROVE OrderRows(u)[o] = 0
      <4>1. Back[o] = 0 /\ credits[o] = 0 /\ AmountFen[o] \in Nat
        BY <2>1, BackInit, StoreAssumption DEF StoreInit, OrdersOf
      <4>2. 0 * AmountFen[o] = 0
        BY <4>1
      <4> QED BY <4>1, <4>2 DEF OrderRows
    <3> QED BY <3>1
  <2>3. Earned(u) = 0
    BY <2>1, <2>2, OrderRowsInt, SumZero DEF Earned
  <2>4. \A k \in Names : NameRows(adjustments, u)[k] = 0
    BY DEF AdminInit, NameRows, Gives
  <2>5. Given(adjustments, u) = 0
    BY <2>4, AdminAssumption, SumZero DEF Given
  <2> QED BY <2>1, <2>3, <2>5 DEF StoreInit
<1>2. LedgerInv /\ RowsInv /\ [AdminNext]_allVars => RowsInv'
  <2> SUFFICES ASSUME LedgerInv, RowsInv, [AdminNext]_allVars PROVE RowsInv'
    OBVIOUS
  <2>1. ASSUME UNCHANGED <<balance, requests, credits, payouts, debits, adjustments>>
        PROVE  RowsInv'
    <3>1. Back' = Back
      BY <2>1 DEF Back, PaidBack, RefundsOf, Filed
    <3> QED BY <2>1, <3>1, EarnedStays DEF RowsInv
  <2>2. CASE RechargeStep
    <3>1. StoreStep /\ StoreTypeOK' /\ TypeOK /\ SettledInv /\ adjustments' = adjustments
          /\ adjustments \in [Names -> Row \cup {NoRow}]
      BY <2>2, StepShape, StoreTypeStep
      DEF RechargeStep, adminVars, LedgerInv, TypeOK, AdminInv, AdminTypeOK
    <3> QED BY <3>1, RowsStoreStep, AdminAssumption
  <2>3. CASE \E a \in Admins : Commit(a)
    BY <2>3, RowsCommit
  <2> QED BY <2>1, <2>2, <2>3
          DEF AdminNext, AdminStep, ApplyAdminWalletMutation, LockWallet, InsertRow, LoadReplay,
              AdminFails, allVars, vars, storeVars, adminVars
<1>3. LedgerInv /\ RowsInv => WalletIsItsRows
  <2> SUFFICES ASSUME LedgerInv, RowsInv PROVE WalletIsItsRows
    OBVIOUS
  <2>1. StoreTypeOK /\ adjustments \in [Names -> Row \cup {NoRow}]
    BY DEF LedgerInv, TypeOK, AdminInv, AdminTypeOK
  <2> QED BY <2>1, SumsOfRows DEF RowsInv, WalletIsItsRows
<1> QED BY <1>1, <1>2, <1>3, LedgerTyped, PTL DEF AdminSpec

-----------------------------------------------------------------------------
(***************************************************************************)
(* An order marked refunded was taken back in full.  Reconciliation marks  *)
(* an order from what it read before it settled the rest, so the           *)
(* strengthening says what every copy, every amount computed from a copy   *)
(* and every request filed for the rest is worth.  What was taken back     *)
(* only grows, so that what was enough stays enough.                       *)
(***************************************************************************)
RowBacked(o, row, back) ==
    /\ row.refunded <= back[o]
    /\ row.status = "refunded" => back[o] >= AmountFen[o]
CallBacked(k, back) ==
    /\ k.at \in {"query", "decide", "save"} => RowBacked(k.order, k.snap, back)
    /\ k.at = "file" => k.amount + back[k.order] >= AmountFen[k.order]
    /\ k.at = "reread" /\ k.report = "refunded" => back[k.order] >= AmountFen[k.order]
OrdersBacked == \A o \in Orders : RowBacked(o, orders[o], Back)
\* The request that reconciliation files for an order takes back the rest.
FiledBacked ==
    \A o \in Orders : Filed(o) =>
        /\ requests[o].order = o
        /\ IF payouts[o] = 0 THEN requests[o].amount + Back[o] >= AmountFen[o]
           ELSE Back[o] >= AmountFen[o]
CallsBacked == \A c \in Callers : CallBacked(call[c], Back)
BackedInv == OrdersBacked /\ FiledBacked /\ CallsBacked

\* A store operation that saves or files only what is backed.
BackedStep ==
    \/ UNCHANGED storeVars
    \/ \E o \in Orders : FinalizeRechargeOrder(o)
    \/ \E o \in Orders : \E row \in Order : SaveOrder(o, row) /\ RowBacked(o, row, Back)
    \/ \E u \in Users : \E n \in Nat : Debit(u, n)
    \/ \E r \in Requests, o \in Orders : \E n \in Nat :
            /\ CreateRefundRequest(r, o, n)
            /\ r \in Orders => r = o /\ n + Back[o] >= AmountFen[o]
    \/ \E r \in Requests : \E d \in Decision : \E b \in BOOLEAN : ApplyRefundDecision(r, d, b)

LEMMA Backed ==
    ASSUME TypeOK
    PROVE  /\ Back \in [Orders -> Nat] /\ AmountFen \in [Orders -> Nat]
           /\ orders \in [Orders -> Order] /\ payouts \in [Requests -> Nat]
           /\ requests \in [Requests -> Request \cup {NoRequest}]
           /\ balance \in [Users -> Int]
BY BackIsNat, StoreAssumption DEF TypeOK, StoreTypeOK

\* What was taken back from an order is never given again.
LEMMA BackOnlyGrows ==
    ASSUME Backend = "pg", TypeOK, TypeOK', SettledInv, StoreStep, NEW o \in Orders
    PROVE  Back[o] <= Back'[o] /\ Back[o] \in Nat /\ Back'[o] \in Nat
<1>1. Back \in [Orders -> Nat] /\ Back' \in [Orders -> Nat]
  <2>1. Back \in [Orders -> Nat]
    BY Backed
  <2>2. StoreTypeOK'
    BY DEF TypeOK
  <2>3. ASSUME NEW q \in Orders PROVE Back'[q] \in Nat
    <3>1. Back'[q] = Returned(requests', payouts', q)
      BY <2>2, PaidBackIsReturnedNext DEF Back
    <3>2. requests' \in [Requests -> Request \cup {NoRequest}] /\ payouts' \in [Requests -> Nat]
      BY <2>2 DEF StoreTypeOK
    <3> QED BY <3>1, <3>2, SharesAreNat
  <2> QED BY <2>1, <2>3 DEF Back
<1>2. ASSUME NEW r \in Requests, NEW b \in BOOLEAN, Settles(r, b)
      PROVE  Back[o] <= Back'[o]
    BY <1>1, <1>2 DEF Settles, Request
<1>3. CASE Back' = Back
    BY <1>1, <1>3
<1> QED BY <1>1, <1>2, <1>3, SettlesOrNot, Backend = "pg" DEF TypeOK, PaysNothing

LEMMA RowsBacked ==
    ASSUME Backend = "pg", TypeOK, TypeOK', SettledInv, StoreStep, BackedStep,
           OrdersBacked, FiledBacked
    PROVE  OrdersBacked' /\ FiledBacked'
<1>1. /\ Back \in [Orders -> Nat] /\ AmountFen \in [Orders -> Nat]
      /\ orders \in [Orders -> Order] /\ payouts \in [Requests -> Nat]
      /\ requests \in [Requests -> Request \cup {NoRequest}]
    BY Backed
<1>2. \A o \in Orders : Back[o] <= Back'[o] /\ Back[o] \in Nat /\ Back'[o] \in Nat
    BY BackOnlyGrows, Backend = "pg"
<1>3. Orders \subseteq Requests
    BY DEF Requests
<1>4. ASSUME NEW r \in Requests, NEW b \in BOOLEAN, Settles(r, b)
      PROVE  OrdersBacked' /\ FiledBacked'
  <2> DEFINE o == requests[r].order
             n == requests[r].amount
             paidBack == MinFen(orders[o].refunded + n, AmountFen[o])
  <2>1. o \in Orders /\ n \in Nat /\ SettleRefund(r, b) /\ payouts[r] = 0
        /\ Back' = [Back EXCEPT ![o] = @ + n] /\ Filed(r)
    BY <1>4 DEF Settles, Request
  <2>2. /\ orders'[o].refunded = paidBack
        /\ orders'[o].status = IF paidBack = AmountFen[o] THEN "refunded" ELSE orders[o].status
        /\ \A q \in Orders \ {o} : orders'[q] = orders[q]
    BY <1>1, <2>1 DEF SettleRefund
  <2>3. Back'[o] = Back[o] + n
    BY <1>1, <2>1
  <2>4. orders[o].refunded \in Nat /\ AmountFen[o] \in Nat /\ Back[o] \in Nat
    BY <1>1, <2>1 DEF Order
  <2>5. RowBacked(o, orders[o], Back)
    BY <2>1 DEF OrdersBacked
  <2>6. RowBacked(o, orders'[o], Back')
    BY <2>1, <2>2, <2>3, <2>4, <2>5 DEF RowBacked, MinFen
  <2>7. ASSUME NEW q \in Orders \ {o} PROVE RowBacked(q, orders'[q], Back')
    BY <1>1, <2>1, <2>2 DEF OrdersBacked, RowBacked
  <2>8. OrdersBacked'
    BY <2>6, <2>7 DEF OrdersBacked
  <2>9. /\ requests'[r].order = o /\ requests'[r].amount = n /\ payouts'[r] = 1
        /\ \A q \in Requests \ {r} : requests'[q] = requests[q] /\ payouts'[q] = payouts[q]
    <3>1. requests[r] \in Request
      BY <1>4 DEF Settles
    <3> QED BY <1>1, <2>1, <3>1 DEF SettleRefund, Request
  <2>10. ASSUME NEW q \in Orders, Filed(q)'
         PROVE  /\ requests'[q].order = q
                /\ IF payouts'[q] = 0 THEN requests'[q].amount + Back'[q] >= AmountFen[q]
                   ELSE Back'[q] >= AmountFen[q]
    <3>1. CASE q = r
      <4>1. requests[q].order = q /\ requests[q].amount + Back[q] >= AmountFen[q]
        BY <2>1, <3>1 DEF FiledBacked
      <4>2. o = q
        BY <3>1, <4>1
      <4>3. n + Back[o] >= AmountFen[o] /\ Back'[o] >= AmountFen[o]
        BY <2>1, <2>3, <2>4, <3>1, <4>1, <4>2
      <4>4. requests'[q].order = q /\ payouts'[q] = 1
        BY <2>9, <3>1, <4>2
      <4> HIDE DEF o, n
      <4> QED BY <4>2, <4>3, <4>4
    <3>2. CASE q # r
      <4>1. Filed(q) /\ requests'[q] = requests[q] /\ payouts'[q] = payouts[q]
        BY <1>3, <2>9, <2>10, <3>2 DEF Filed
      <4>2. Back'[q] >= Back[q] /\ Back[q] \in Nat /\ Back'[q] \in Nat /\ AmountFen[q] \in Nat
        BY <1>1, <1>2
      <4>3. requests[q].amount \in Nat
        BY <1>1, <1>3, <4>1 DEF Filed, Request
      <4> QED BY <4>1, <4>2, <4>3 DEF FiledBacked
    <3> QED BY <3>1, <3>2
  <2> QED BY <2>8, <2>10 DEF FiledBacked
<1>5. ASSUME Back' = Back, payouts' = payouts
      PROVE  OrdersBacked' /\ FiledBacked'
  <2>1. ASSUME orders' = orders PROVE OrdersBacked'
    BY <1>5, <2>1 DEF OrdersBacked
  <2>2. ASSUME NEW o \in Orders, NEW row \in Order, SaveOrder(o, row), RowBacked(o, row, Back)
        PROVE  OrdersBacked'
    BY <1>1, <1>5, <2>2 DEF OrdersBacked, SaveOrder
  <2>3. ASSUME NEW o \in Orders, FinalizeRechargeOrder(o), orders[o].status # "paid"
        PROVE  OrdersBacked'
    <3>1. /\ orders'[o].status = "paid" /\ orders'[o].refunded = orders[o].refunded
          /\ \A q \in Orders \ {o} : orders'[q] = orders[q]
      BY <1>1, <2>3 DEF FinalizeRechargeOrder, Order
    <3>2. ASSUME NEW q \in Orders PROVE RowBacked(q, orders'[q], Back')
      BY <1>5, <3>1 DEF OrdersBacked, RowBacked
    <3> QED BY <3>2 DEF OrdersBacked
  <2>4. ASSUME requests' = requests PROVE FiledBacked'
    BY <1>5, <2>4 DEF FiledBacked, Filed
  <2>5. ASSUME NEW r \in Requests, NEW o \in Orders, NEW n \in Nat, CreateRefundRequest(r, o, n),
               r \in Orders => r = o /\ n + Back[o] >= AmountFen[o]
        PROVE  FiledBacked'
    <3>1. /\ ~Filed(r) /\ payouts[r] = 0
          /\ requests'[r].order = o /\ requests'[r].amount = n
          /\ \A q \in Requests \ {r} : requests'[q] = requests[q]
      BY <1>1, <2>5, Backend = "pg" DEF CreateRefundRequest, SettledInv
    <3>2. ASSUME NEW q \in Orders, Filed(q)'
          PROVE  /\ requests'[q].order = q
                 /\ IF payouts'[q] = 0 THEN requests'[q].amount + Back'[q] >= AmountFen[q]
                    ELSE Back'[q] >= AmountFen[q]
      <4>1. CASE q = r
        BY <1>5, <2>5, <3>1, <4>1
      <4>2. CASE q # r
        BY <1>3, <1>5, <3>1, <3>2, <4>2 DEF FiledBacked, Filed
      <4> QED BY <4>1, <4>2
    <3> QED BY <3>2 DEF FiledBacked
  <2>6. ASSUME NEW r \in Requests, NEW d \in Decision, RecordDecision(r, d), Filed(r)
        PROVE  FiledBacked'
    <3>1. /\ requests'[r].order = requests[r].order /\ requests'[r].amount = requests[r].amount
          /\ \A q \in Requests \ {r} : requests'[q] = requests[q]
      BY <1>1, <2>6 DEF RecordDecision, Request, Filed
    <3>2. ASSUME NEW q \in Orders, Filed(q)'
          PROVE  /\ requests'[q].order = q
                 /\ IF payouts'[q] = 0 THEN requests'[q].amount + Back'[q] >= AmountFen[q]
                    ELSE Back'[q] >= AmountFen[q]
      <4>1. requests'[q].order = requests[q].order /\ requests'[q].amount = requests[q].amount
            /\ Filed(q)
        BY <1>3, <2>6, <3>1, <3>2 DEF Filed
      <4> QED BY <1>5, <4>1 DEF FiledBacked
    <3> QED BY <3>2 DEF FiledBacked
  <2>7. ASSUME NEW r \in Requests, NEW b \in BOOLEAN, SettleRefund(r, b)
        PROVE  FALSE
    <3>1. payouts'[r] = payouts[r] + 1 /\ payouts[r] \in Nat
      BY <1>1, <2>7 DEF SettleRefund
    <3> QED BY <1>5, <3>1
  <2>8. OrdersBacked'
    BY <2>1, <2>2, <2>3, <2>7
    DEF BackedStep, storeVars, Debit, CreateRefundRequest, ApplyRefundDecision, RecordDecision,
        FinalizeRechargeOrder
  <2>9. FiledBacked'
    BY <2>4, <2>5, <2>6, <2>7
    DEF BackedStep, storeVars, Debit, SaveOrder, ApplyRefundDecision, FinalizeRechargeOrder
  <2> QED BY <2>8, <2>9
<1> QED BY <1>4, <1>5, SettlesOrNot, Backend = "pg" DEF TypeOK, PaysNothing

\* What is backed stays so as more is taken back.
LEMMA BackedStays ==
    ASSUME NEW k \in Call, NEW old \in [Orders -> Nat], NEW new \in [Orders -> Nat],
           \A o \in Orders : old[o] <= new[o], CallBacked(k, old)
    PROVE  CallBacked(k, new)
<1>1. k.at \in {"query", "decide", "save"} => k.order \in Orders /\ k.snap.refunded \in Nat
    BY CallFields DEF Order
<1>2. k.at \in {"file", "reread"} => k.order \in Orders
    BY CallFields
<1>3. k.at = "file" => k.amount \in Nat
    BY CallFields
<1>4. AmountFen \in [Orders -> Nat]
    BY StoreAssumption
<1>5. k.at \in {"query", "decide", "save"} => RowBacked(k.order, k.snap, new)
    BY <1>1, <1>4 DEF CallBacked, RowBacked
<1>6. k.at = "file" => k.amount + new[k.order] >= AmountFen[k.order]
    BY <1>2, <1>3, <1>4 DEF CallBacked
<1>7. k.at = "reread" /\ k.report = "refunded" => new[k.order] >= AmountFen[k.order]
    BY <1>2, <1>4 DEF CallBacked
<1> QED BY <1>5, <1>6, <1>7 DEF CallBacked

LEMMA OneCallBacked ==
    ASSUME TypeOK, CallsBacked, NEW c \in Callers, NEW STATE k,
           Goto(c, k), CallBacked(k, Back)
    PROVE  \A d \in Callers : CallBacked(call'[d], Back)
BY DEF Goto, CallsBacked, TypeOK

\* Every step saves and files only what is backed; of the handlers that move
\* on, the one that settles has taken back the rest by doing so.
LEMMA StepBacked ==
    ASSUME TypeOK, BackedInv, SettledInv, Next
    PROVE  /\ BackedStep
           /\ \/ \A d \in Callers : CallBacked(call'[d], Back)
              \/ \E c \in Reconcilers : SettleReconcileRequest(c)
<1> USE StoreAssumption, RechargeAssumption
        DEF TypeOK, StoreTypeOK, Requests, Callers, BackedInv
<1>1. Back \in [Orders -> Nat] /\ AmountFen \in [Orders -> Nat]
    BY Backed
<1>2. CASE \E o \in Orders : OnOrder(o)
  <2>1. UNCHANGED call
    BY <1>2 DEF OnOrder, CreateRechargeOrder, UserPays, ProviderRefunds,
                HandleSuccessfulRechargeCallback
  <2> DEFINE new == [status |-> "pending", refunded |-> 0]
  <2>2. new \in Order /\ \A o \in Orders : RowBacked(o, new, Back)
    BY <1>1 DEF Order, OrderStatus, RowBacked
  <2>3. CASE \E o \in Orders : SaveOrder(o, new)
    <3> HIDE DEF new
    <3> QED BY <2>1, <2>2, <2>3 DEF BackedStep, CallsBacked
  <2>4. CASE UNCHANGED storeVars \/ \E o \in Orders : FinalizeRechargeOrder(o)
    BY <2>1, <2>4 DEF BackedStep, CallsBacked
  <2> QED BY <1>2, <2>3, <2>4
          DEF OnOrder, CreateRechargeOrder, UserPays, ProviderRefunds,
              HandleSuccessfulRechargeCallback
<1>3. CASE \E u \in Users : Spend(u)
  <2>1. PICK u \in Users : (\E n \in 1..balance[u] : Debit(u, n)) /\ UNCHANGED call
    BY <1>3 DEF Spend
  <2>2. \E n \in Nat : Debit(u, n)
    BY <2>1
  <2> QED BY <2>1, <2>2 DEF BackedStep, CallsBacked
<1>4. CASE \E c \in Reconcilers : Reconcile(c)
  <2>1. PICK c \in Reconcilers : Reconcile(c)
    BY <1>4
  <2> DEFINE k == call[c]
  <2>2. k \in Call /\ CallBacked(k, Back)
    BY DEF CallsBacked
  <2>3. CASE \E o \in Orders : ReconcileRechargeOrder(c, o)
    <3>1. PICK o \in Orders : ReconcileRechargeOrder(c, o)
        BY <2>3
    <3> DEFINE next == [at |-> "query", order |-> o, snap |-> orders[o]]
    <3>2. CallBacked(next, Back)
        BY <3>1 DEF CallBacked, OrdersBacked
    <3> QED BY <3>1, <3>2, OneCallBacked DEF ReconcileRechargeOrder, BackedStep
  <2>4. CASE QueryOrder(c)
    <3>1. PICK report \in Reports(k.order) :
            Goto(c, [at |-> "decide", order |-> k.order, snap |-> k.snap, report |-> report])
        BY <2>4 DEF QueryOrder
    <3> DEFINE next == [at |-> "decide", order |-> k.order, snap |-> k.snap, report |-> report]
    <3>2. CallBacked(next, Back)
        BY <2>2, <2>4 DEF QueryOrder, CallBacked
    <3> QED BY <2>4, <3>1, <3>2, OneCallBacked DEF QueryOrder, BackedStep
  <2>5. CASE ReconcilePaid(c)
    <3> DEFINE next == [at |-> "reread", order |-> k.order, report |-> "paid"]
    <3>1. k.order \in Orders /\ CallBacked(next, Back)
        BY <2>2, <2>5, CallFields DEF ReconcilePaid, CallBacked
    <3> QED BY <2>5, <3>1, OneCallBacked DEF ReconcilePaid, BackedStep
  <2>6. CASE ReconcileRefunded(c)
    <3> DEFINE o == k.order
               rest == Refundable(o, k.snap)
               done == [at |-> "reread", order |-> o, report |-> "refunded"]
               settle == [at |-> "settle", order |-> o]
               file == [at |-> "file", order |-> o, amount |-> rest]
               next == IF TakenBack(k) THEN done ELSE IF Filed(o) THEN settle ELSE file
    <3>1. o \in Orders /\ k.snap \in Order /\ RowBacked(o, k.snap, Back)
        BY <2>2, <2>6, CallFields DEF ReconcileRefunded, CallBacked
    <3>2. k.snap.refunded \in Nat /\ AmountFen[o] \in Nat /\ Back[o] \in Nat
          /\ k.snap.refunded <= Back[o]
        BY <1>1, <3>1 DEF Order, RowBacked
    <3>3. TakenBack(k) => Back[o] >= AmountFen[o]
      <4>1. CASE Refundable(k.order, k.snap) <= 0
        BY <3>2, <4>1 DEF Refundable
      <4>2. CASE Filed(k.order) /\ requests[k.order].status = "refunded"
        BY <3>1, <4>2 DEF SettledInv, FiledBacked
      <4> QED BY <4>1, <4>2 DEF TakenBack
    <3>4. rest + Back[o] >= AmountFen[o]
        BY <3>2 DEF Refundable
    <3>5. TakenBack(k) => CallBacked(done, Back)
        BY <3>3 DEF CallBacked
    <3>6. CallBacked(settle, Back) /\ CallBacked(file, Back)
        BY <3>4 DEF CallBacked
    <3>7. Goto(c, next) /\ UNCHANGED storeVars
        BY <2>6 DEF ReconcileRefunded
    <3> HIDE DEF done, settle, file
    <3>8. CallBacked(next, Back)
        BY <3>5, <3>6
    <3> HIDE DEF next
    <3> QED BY <3>7, <3>8, OneCallBacked DEF BackedStep
  <2>7. CASE FileReconcileRequest(c)
    <3> DEFINE next == [at |-> "settle", order |-> k.order]
    <3>1. k.order \in Orders /\ k.amount \in Nat
          /\ k.amount + Back[k.order] >= AmountFen[k.order] /\ CallBacked(next, Back)
        BY <2>2, <2>7, CallFields DEF FileReconcileRequest, CallBacked
    <3>2. CreateRefundRequest(k.order, k.order, k.amount) /\ Goto(c, next)
        BY <2>7 DEF FileReconcileRequest
    <3>3. BackedStep
        BY <3>1, <3>2 DEF BackedStep
    <3> QED BY <3>1, <3>2, <3>3, OneCallBacked
  <2>8. CASE SettleReconcileRequest(c)
    <3>1. k.order \in Orders
        BY <2>2, <2>8, CallFields DEF SettleReconcileRequest
    <3> QED BY <2>8, <3>1 DEF SettleReconcileRequest, BackedStep, Decision
  <2>9. CASE RereadOrder(c)
    <3> DEFINE row == IF k.report = "refunded"
                      THEN [status |-> "refunded",
                            refunded |-> MaxFen(orders[k.order].refunded, AmountFen[k.order])]
                      ELSE orders[k.order]
               next == [at |-> "save", order |-> k.order, snap |-> row]
    <3>1. k.order \in Orders /\ RowBacked(k.order, orders[k.order], Back)
        BY <2>2, <2>9, CallFields DEF RereadOrder, OrdersBacked
    <3>2. RowBacked(k.order, row, Back)
        BY <1>1, <2>2, <2>9, <3>1 DEF RereadOrder, CallBacked, RowBacked, MaxFen
    <3>3. Goto(c, next) /\ UNCHANGED storeVars
        BY <2>9 DEF RereadOrder
    <3> HIDE DEF row
    <3>4. CallBacked(next, Back)
        BY <3>2 DEF CallBacked
    <3> HIDE DEF next
    <3> QED BY <3>3, <3>4, OneCallBacked DEF BackedStep
  <2>10. CallBacked(Idle, Back)
    BY DEF CallBacked, Idle
  <2>11. CASE SaveReconciled(c)
    <3>1. k.order \in Orders /\ k.snap \in Order /\ RowBacked(k.order, k.snap, Back)
        BY <2>2, <2>11, CallFields DEF SaveReconciled, CallBacked
    <3> QED BY <2>10, <2>11, <3>1, OneCallBacked DEF SaveReconciled, BackedStep
  <2>12. CASE ReconcileStillPaid(c)
    <3>1. k.order \in Orders /\ k.snap \in Order /\ RowBacked(k.order, k.snap, Back)
        BY <2>2, <2>12, CallFields DEF ReconcileStillPaid, CallBacked
    <3> QED BY <2>10, <2>12, <3>1, OneCallBacked DEF ReconcileStillPaid, BackedStep
  <2>13. CASE ReconcileAdoptStatus(c)
    <3> DEFINE row == [k.snap EXCEPT !.status = k.report]
    <3>1. k.order \in Orders /\ k.snap \in Order /\ k.report \in Report
          /\ RowBacked(k.order, k.snap, Back)
        BY <2>2, <2>13, CallFields DEF ReconcileAdoptStatus, CallBacked
    <3>2. row \in Order /\ row.status = k.report /\ row.refunded = k.snap.refunded
        BY <3>1 DEF Order, OrderStatus, Report
    <3>3. RowBacked(k.order, row, Back)
        BY <2>13, <3>1, <3>2 DEF ReconcileAdoptStatus, AdoptCase, RefundCase, RowBacked
    <3>4. SaveOrder(k.order, row) /\ Goto(c, Idle)
        BY <2>13 DEF ReconcileAdoptStatus
    <3> HIDE DEF row
    <3> QED BY <2>10, <3>1, <3>2, <3>3, <3>4, OneCallBacked DEF BackedStep
  <2> QED BY <2>1, <2>3, <2>4, <2>5, <2>6, <2>7, <2>8, <2>9, <2>11, <2>12, <2>13
          DEF Reconcile
<1>5. CASE \E c \in Handlers : HandleRefund(c)
  <2>1. PICK c \in Handlers : HandleRefund(c)
    BY <1>5
  <2> DEFINE k == call[c]
  <2>2. k \in Call /\ CallBacked(Idle, Back)
    BY DEF CallBacked, Idle
  <2>3. CASE \E o \in Orders : \E n \in 1..AmountFen[o] : BeginCreateRefundRequest(c, o, n)
    <3>1. PICK o \in Orders : \E n \in 1..AmountFen[o] : BeginCreateRefundRequest(c, o, n)
        BY <2>3
    <3>2. PICK n \in 1..AmountFen[o] : BeginCreateRefundRequest(c, o, n)
        BY <3>1
    <3> DEFINE next == [at |-> "create", order |-> o, amount |-> n]
    <3>3. CallBacked(next, Back)
        BY DEF CallBacked
    <3> QED BY <3>2, <3>3, OneCallBacked DEF BeginCreateRefundRequest, BackedStep
  <2>4. CASE \E r \in UserRequests : InsertRefundRequest(c, r)
    <3>1. k.order \in Orders /\ k.amount \in Nat
        BY <2>2, <2>4, CallFields DEF InsertRefundRequest
    <3>2. PICK r \in UserRequests : CreateRefundRequest(r, k.order, k.amount) /\ Goto(c, Idle)
        BY <2>4 DEF InsertRefundRequest
    <3>3. BackedStep
        BY <3>1, <3>2 DEF BackedStep
    <3> QED BY <2>2, <3>2, <3>3, OneCallBacked
  <2>5. CASE \E r \in Requests : ApproveRefundRequest(c, r)
    <3>1. PICK r \in Requests, outcome \in RefundOutcomes :
            /\ Goto(c, [at |-> "decision", req |-> r, status |-> DecisionAfter(outcome)])
            /\ UNCHANGED storeVars
        BY <2>5 DEF ApproveRefundRequest
    <3> DEFINE next == [at |-> "decision", req |-> r, status |-> DecisionAfter(outcome)]
    <3>2. CallBacked(next, Back)
        BY DEF CallBacked
    <3> QED BY <3>1, <3>2, OneCallBacked DEF BackedStep
  <2>6. CASE ApplyApproval(c)
    <3>1. k.req \in Requests /\ k.status \in Decision
        BY <2>2, <2>6, CallFields DEF ApplyApproval
    <3> QED BY <2>2, <2>6, <3>1, OneCallBacked DEF ApplyApproval, BackedStep
  <2> QED BY <2>1, <2>3, <2>4, <2>5, <2>6 DEF HandleRefund
<1>6. CASE \E r \in Requests : Review(r)
    BY <1>6 DEF Review, ReviewRefundRequest, MarkRefundSettled, BackedStep, Decision,
                CallsBacked
<1>7. CASE \E c \in Callers : Abort(c)
  <2>1. CallBacked(Idle, Back)
    BY DEF CallBacked, Idle
  <2> QED BY <1>7, <2>1, OneCallBacked DEF Abort, BackedStep
<1> QED BY <1>2, <1>3, <1>4, <1>5, <1>6, <1>7 DEF Next

LEMMA BackedInit == ASSUME Init PROVE BackedInv
<1>1. Back \in [Orders -> Nat] /\ AmountFen \in [Orders -> Nat]
    BY InitTyped, Backed
<1>2. OrdersBacked
    BY <1>1, StoreAssumption DEF OrdersBacked, RowBacked, Init, StoreInit, NoOrder
<1>3. FiledBacked
    BY DEF FiledBacked, Filed, Init, StoreInit, Requests
<1>4. CallsBacked
    BY DEF CallsBacked, CallBacked, Init, Idle
<1> QED BY <1>2, <1>3, <1>4 DEF BackedInv

LEMMA SettledByStep ==
    ASSUME StoreTypeOK, SettledInv, SettledInv', NEW r \in Requests, requests[r] \in Request,
           SettleRefund(r, TRUE)
    PROVE  Filed(r)' /\ payouts'[r] = 1
<1>1. requests'[r].status = "refunded"
    BY DEF SettleRefund, StoreTypeOK, Request
<1>2. Filed(r)'
    BY DEF SettleRefund, StoreTypeOK, Request, Filed, NoRequest
<1> QED BY <1>1, <1>2 DEF SettledInv

LEMMA BackedNext ==
    ASSUME Backend = "pg", TypeOK, SettledInv, BackedInv, Next
    PROVE  BackedInv'
<1>1. TypeOK' /\ SettledInv' /\ StoreStep
    BY TypedStep, SettledStep, StepShape, Backend = "pg"
<1>2. BackedStep /\ OrdersBacked' /\ FiledBacked'
    BY <1>1, StepBacked, RowsBacked, Backend = "pg" DEF BackedInv
<1>3. Back \in [Orders -> Nat] /\ Back' \in [Orders -> Nat]
      /\ \A o \in Orders : Back[o] <= Back'[o]
  <2>1. Back \in [Orders -> Nat] /\ Back' = [o \in Orders |-> Back'[o]]
    BY Backed DEF Back
  <2>2. \A o \in Orders : Back[o] <= Back'[o] /\ Back'[o] \in Nat
    BY <1>1, BackOnlyGrows, Backend = "pg"
  <2> QED BY <2>1, <2>2
<1>4. \A d \in Callers : call'[d] \in Call
    BY <1>1 DEF TypeOK
<1>5. CASE \A d \in Callers : CallBacked(call'[d], Back)
  <2>1. \A d \in Callers : CallBacked(call'[d], Back')
    BY <1>3, <1>4, <1>5, BackedStays
  <2> QED BY <1>2, <2>1 DEF BackedInv, CallsBacked
<1>6. ASSUME NEW c \in Reconcilers, SettleReconcileRequest(c)
      PROVE  BackedInv'
  <2>1. PICK o \in Orders : o = call[c].order
    BY <1>6, CallFields DEF SettleReconcileRequest, Callers, TypeOK
  <2> DEFINE next == [at |-> "reread", order |-> o, report |-> "refunded"]
  <2>2. c \in Callers /\ o \in Requests
    BY DEF Callers, Requests
  <2>3. ApplyRefundDecision(o, "refunded", TRUE) /\ Goto(c, next)
    BY <1>6, <2>1 DEF SettleReconcileRequest
  <2>4. requests[o] \in Request /\ SettleRefund(o, TRUE)
    BY <2>2, <2>3 DEF ApplyRefundDecision, SettledInv, OpenStatus, Filed, TypeOK, StoreTypeOK
  <2>5. Filed(o)' /\ payouts'[o] = 1
    BY <1>1, <2>2, <2>4, SettledByStep DEF TypeOK
  <2>6. Back'[o] >= AmountFen[o]
    BY <1>2, <2>5 DEF FiledBacked
  <2>7. CallBacked(next, Back')
    BY <2>6 DEF CallBacked
  <2>8. \A d \in Callers \ {c} : CallBacked(call'[d], Back')
    <3>1. \A d \in Callers \ {c} : call'[d] = call[d]
      BY <2>3 DEF Goto, TypeOK
    <3> QED BY <1>3, <1>4, <3>1, BackedStays DEF BackedInv, CallsBacked
  <2>9. call'[c] = next
    BY <2>2, <2>3 DEF Goto, TypeOK
  <2> HIDE DEF next
  <2> QED BY <1>2, <2>7, <2>8, <2>9 DEF BackedInv, CallsBacked
<1> QED BY <1>5, <1>6, StepBacked

LEMMA BackedAlways ==
    ASSUME Backend = "pg"
    PROVE  Spec => [](TypeOK /\ SettledInv /\ BackedInv)
<1> DEFINE I == TypeOK /\ SettledInv /\ BackedInv
<1>1. Init => I
    BY InitTyped, BackedInit DEF Init, StoreInit, SettledInv, Filed
<1>2. I /\ [Next]_vars => I'
  <2>1. CASE Next
    BY <2>1, TypedStep, SettledStep, BackedNext, Backend = "pg"
  <2>2. CASE UNCHANGED vars
    BY <2>2 DEF vars, storeVars, TypeOK, StoreTypeOK, SettledInv, Filed, BackedInv, OrdersBacked,
        FiledBacked, CallsBacked, Back, PaidBack, RefundsOf
  <2> QED BY <2>1, <2>2
<1> QED BY <1>1, <1>2, PTL DEF Spec

\* On PostgreSQL, however reconciliations and refunds interleave, an order is
\* marked refunded only when its whole amount was taken back from the wallet:
\* ReconcileRechargeOrder settles the rest before it marks the order.
THEOREM RefundedTakenBack ==
    ASSUME Backend = "pg"
    PROVE  Spec => []RefundedOrderWasTakenBack
<1>1. BackedInv => RefundedOrderWasTakenBack
    BY DEF BackedInv, OrdersBacked, RowBacked, Back, RefundedOrderWasTakenBack
<1> QED BY <1>1, BackedAlways, Backend = "pg", PTL

-----------------------------------------------------------------------------
\* What reconciliation recovered from a wallet.
Shortfalls(u) == [o \in OrdersOf(u) |->
    IF Filed(o) THEN payouts[o] * requests[o].amount ELSE 0]
Recovered(u) == SumFunctionOnSet(Shortfalls(u), OrdersOf(u))
OverdrawnInv == \A u \in Users : balance[u] + Recovered(u) >= 0

LEMMA ShortfallsAreNat ==
    ASSUME StoreTypeOK, NEW u
    PROVE  /\ IsFiniteSet(OrdersOf(u))
           /\ \A o \in OrdersOf(u) : Shortfalls(u)[o] \in Nat
           /\ Recovered(u) \in Nat
<1>1. IsFiniteSet(OrdersOf(u))
    BY FiniteAssumption, FS_Subset DEF OrdersOf
<1>2. ASSUME NEW o \in OrdersOf(u) PROVE Shortfalls(u)[o] \in Nat
  <2>1. o \in Requests
    BY DEF OrdersOf, Requests
  <2>2. CASE Filed(o)
    <3>1. payouts[o] \in Nat /\ requests[o].amount \in Nat
      BY <2>1, <2>2 DEF StoreTypeOK, Filed, Request
    <3>2. payouts[o] * requests[o].amount \in Nat
      BY <3>1
    <3> QED BY <2>2, <3>2 DEF Shortfalls
  <2>3. CASE ~Filed(o)
    BY <2>3 DEF Shortfalls
  <2> QED BY <2>2, <2>3
<1> QED BY <1>1, <1>2, SumNatural DEF Recovered

\* Rewriting requests that nothing was paid for recovers nothing.
LEMMA RecoveredStays ==
    ASSUME StoreTypeOK, StoreTypeOK', NEW u \in Users,
           \A o \in Orders : \/ requests'[o] = requests[o] /\ payouts'[o] = payouts[o]
                             \/ payouts[o] = 0 /\ payouts'[o] = 0
    PROVE  Recovered(u)' = Recovered(u)
<1> DEFINE f == Shortfalls(u)
           g == Shortfalls(u)'
<1>1. ASSUME NEW o \in OrdersOf(u) PROVE f[o] = g[o]
  <2>1. o \in Orders /\ o \in Requests
    BY DEF OrdersOf, Requests
  <2>2. CASE requests'[o] = requests[o] /\ payouts'[o] = payouts[o]
    BY <2>1, <2>2 DEF Shortfalls, Filed, OrdersOf
  <2>3. CASE payouts[o] = 0 /\ payouts'[o] = 0
    <3>1. \A x \in Request : 0 * x.amount = 0
      BY DEF Request
    <3>2. f[o] = 0
      BY <2>1, <2>3, <3>1 DEF Shortfalls, Filed, StoreTypeOK
    <3>3. g[o] = 0
      BY <2>1, <2>3, <3>1 DEF Shortfalls, Filed, StoreTypeOK, OrdersOf
    <3> QED BY <3>2, <3>3
  <2> QED BY <2>1, <2>2, <2>3
<1>2. IsFiniteSet(OrdersOf(u)) /\ \A o \in OrdersOf(u) : f[o] \in Nat
    BY ShortfallsAreNat
<1> HIDE DEF f, g
<1>3. SumFunctionOnSet(f, OrdersOf(u)) = SumFunctionOnSet(g, OrdersOf(u))
    BY <1>1, <1>2, SumEqual
<1> QED BY <1>3 DEF f, g, Recovered, OrdersOf

\* The request filed for an order recovers its amount from the order's owner.
LEMMA RecoveredGrows ==
    ASSUME StoreTypeOK, StoreTypeOK', NEW r \in Orders, NEW n \in Nat,
           payouts[r] = 0, payouts'[r] = 1, requests'[r].amount = n, Filed(r)',
           Filed(r), requests[r].amount = n,
           \A o \in Orders \ {r} : requests'[o] = requests[o] /\ payouts'[o] = payouts[o]
    PROVE  Recovered(Owner[r])' = Recovered(Owner[r]) + n
<1> DEFINE u == Owner[r]
           S == OrdersOf(u)
           f == Shortfalls(u)
           g == Shortfalls(u)'
<1>1. r \in S /\ S \subseteq Orders
    BY DEF OrdersOf
<1>2. IsFiniteSet(S) /\ (\A o \in S : f[o] \in Nat) /\ Recovered(u) \in Nat
    BY ShortfallsAreNat
<1>3. \A o \in S \ {r} : g[o] = f[o]
    BY DEF Shortfalls, OrdersOf, Filed
<1>4. f[r] = 0 /\ g[r] = n
    BY <1>1 DEF Shortfalls, OrdersOf
<1>5. \A o \in S : f[o] \in Int /\ g[o] \in Int
    BY <1>2, <1>3, <1>4
<1>6. SumFunctionOnSet(g, S) = SumFunctionOnSet(f, S) - f[r] + g[r]
  <2> HIDE DEF f, g, S
  <2> QED BY <1>1, <1>2, <1>3, <1>5, SumChange
<1>7. Recovered(u) = SumFunctionOnSet(f, S) /\ Recovered(u)' = SumFunctionOnSet(g, S)
    BY DEF Recovered, OrdersOf
<1> HIDE DEF f, g, S, u
<1> QED BY <1>2, <1>4, <1>6, <1>7 DEF u

LEMMA OverdrawnStep ==
    ASSUME Backend = "pg", TypeOK, StoreTypeOK', SettledInv, FiledBacked, StoreStep, OverdrawnInv
    PROVE  OverdrawnInv'
<1>1. /\ Back \in [Orders -> Nat] /\ AmountFen \in [Orders -> Nat]
      /\ payouts \in [Requests -> Nat] /\ balance \in [Users -> Int]
      /\ requests \in [Requests -> Request \cup {NoRequest}]
      /\ Owner \in [Orders -> Users] /\ StoreTypeOK
    BY Backed, StoreAssumption DEF TypeOK
<1>2. \A u \in Users : Recovered(u) \in Nat
    BY <1>1, ShortfallsAreNat
<1>3. Orders \subseteq Requests
    BY DEF Requests
<1>4. ASSUME NEW r \in Requests, NEW b \in BOOLEAN, Settles(r, b)
      PROVE  OverdrawnInv'
  <2> DEFINE o == requests[r].order
             n == requests[r].amount
  <2>1. o \in Orders /\ n \in Nat /\ SettleRefund(r, b) /\ payouts[r] = 0 /\ Filed(r)
        /\ requests[r] \in Request
    BY <1>4 DEF Settles, Request
  <2>2. balance' = [balance EXCEPT ![Owner[o]] = @ - n]
    BY <2>1 DEF SettleRefund
  <2>3. /\ requests'[r].amount = n /\ requests'[r].status = "refunded" /\ payouts'[r] = 1
        /\ \A q \in Requests \ {r} : requests'[q] = requests[q] /\ payouts'[q] = payouts[q]
    BY <1>1, <2>1 DEF SettleRefund, Request
  <2>4. Filed(r)'
    BY <1>1, <2>1 DEF SettleRefund, Request, Filed, NoRequest
  <2>5. \A u \in Users \ {Owner[o]} : balance'[u] = balance[u]
    BY <1>1, <2>1, <2>2
  <2>6. balance'[Owner[o]] = balance[Owner[o]] - n /\ Owner[o] \in Users
    BY <1>1, <2>1, <2>2
  <2>7. CASE r \in Orders
    <3>1. r = o
      BY <2>1, <2>7 DEF FiledBacked
    <3>2. Recovered(Owner[r])' = Recovered(Owner[r]) + n
      <4>1. \A q \in Orders \ {r} : requests'[q] = requests[q] /\ payouts'[q] = payouts[q]
        BY <1>3, <2>3
      <4> QED BY <1>1, <2>1, <2>3, <2>4, <2>7, <4>1, RecoveredGrows
    <3>3. ASSUME NEW u \in Users, u # Owner[r] PROVE Recovered(u)' = Recovered(u)
      <4> DEFINE f == Shortfalls(u)
                 g == Shortfalls(u)'
      <4>1. \A q \in OrdersOf(u) : f[q] = g[q]
        BY <1>3, <2>3, <3>1, <3>3 DEF Shortfalls, OrdersOf, Filed
      <4>2. IsFiniteSet(OrdersOf(u)) /\ \A q \in OrdersOf(u) : f[q] \in Nat
        BY <1>1, ShortfallsAreNat
      <4> HIDE DEF f, g
      <4>3. SumFunctionOnSet(f, OrdersOf(u)) = SumFunctionOnSet(g, OrdersOf(u))
        BY <4>1, <4>2, SumEqual
      <4> QED BY <4>3 DEF f, g, Recovered, OrdersOf
    <3>4. ASSUME NEW u \in Users PROVE balance'[u] + Recovered(u)' >= 0
      <4>1. balance[u] + Recovered(u) >= 0 /\ balance[u] \in Int /\ Recovered(u) \in Nat
        BY <1>1, <1>2 DEF OverdrawnInv
      <4>2. CASE u = Owner[r]
        <5>1. Recovered(u)' = Recovered(u) + n
          BY <3>2, <4>2
        <5>2. balance'[u] = balance[u] - n
          BY <2>6, <3>1, <4>2
        <5> QED BY <2>1, <4>1, <5>1, <5>2
      <4>3. CASE u # Owner[r]
        BY <2>5, <3>1, <3>3, <4>1, <4>3
      <4> QED BY <4>2, <4>3
    <3> QED BY <3>4 DEF OverdrawnInv
  <2>8. CASE r \notin Orders
    <3>1. \A u \in Users : Recovered(u)' = Recovered(u)
      <4>1. \A q \in Orders : requests'[q] = requests[q] /\ payouts'[q] = payouts[q]
        BY <1>3, <2>3, <2>8
      <4> QED BY <1>1, <4>1, RecoveredStays
    <3>2. balance[Owner[o]] >= n
      BY <1>4, <2>1, <2>8 DEF Settles, SettleRefund, Covered
    <3>3. ASSUME NEW u \in Users PROVE balance'[u] + Recovered(u)' >= 0
      <4>1. balance[u] + Recovered(u) >= 0 /\ balance[u] \in Int /\ Recovered(u) \in Nat
        BY <1>1, <1>2 DEF OverdrawnInv
      <4>2. CASE u = Owner[o]
        <5> HIDE DEF o, n
        <5> QED BY <2>1, <2>6, <3>1, <3>2, <4>1, <4>2
      <4>3. CASE u # Owner[o]
        BY <2>5, <3>1, <4>1, <4>3
      <4> QED BY <4>2, <4>3
    <3> QED BY <3>3 DEF OverdrawnInv
  <2> QED BY <2>7, <2>8
<1>5. ASSUME PaysNothing
      PROVE  OverdrawnInv'
  <2>1. \A u \in Users : Recovered(u)' = Recovered(u)
    <3>1. \A o \in Orders : \/ requests'[o] = requests[o] /\ payouts'[o] = payouts[o]
                            \/ payouts[o] = 0 /\ payouts'[o] = 0
      BY <1>3, <1>5 DEF PaysNothing
    <3> QED BY <1>1, <3>1, RecoveredStays
  <2>2. CASE balance' = balance
    BY <2>1, <2>2 DEF OverdrawnInv
  <2>3. ASSUME NEW o \in Orders, FinalizeRechargeOrder(o), orders[o].status # "paid"
        PROVE  OverdrawnInv'
    <3>1. balance' = [balance EXCEPT ![Owner[o]] = @ + AmountFen[o]]
      BY <2>3 DEF FinalizeRechargeOrder
    <3>2. \A u \in Users : balance'[u] >= balance[u] /\ balance[u] \in Int /\ balance'[u] \in Int
      BY <1>1, <3>1
    <3> QED BY <1>2, <2>1, <3>2 DEF OverdrawnInv
  <2>4. ASSUME NEW u \in Users, NEW n \in Nat, Debit(u, n)
        PROVE  OverdrawnInv'
    <3>1. balance[u] >= n /\ balance' = [balance EXCEPT ![u] = @ - n]
      BY <2>4 DEF Debit
    <3>2. \A v \in Users : balance'[v] \in Int
                           /\ (balance'[v] = balance[v] \/ balance'[v] >= 0)
      BY <1>1, <3>1
    <3> QED BY <1>1, <1>2, <2>1, <3>2 DEF OverdrawnInv
  <2>5. ASSUME NEW r \in Requests, NEW b \in BOOLEAN, SettleRefund(r, b)
        PROVE  FALSE
    <3>1. payouts'[r] = payouts[r] + 1 /\ payouts[r] \in Nat
      BY <1>1, <2>5 DEF SettleRefund
    <3> QED BY <1>5, <3>1 DEF PaysNothing
  <2> QED BY <2>2, <2>3, <2>4, <2>5
          DEF StoreStep, storeVars, SaveOrder, CreateRefundRequest, ApplyRefundDecision,
              RecordDecision, FinalizeRechargeOrder
<1> QED BY <1>1, <1>4, <1>5, SettlesOrNot, Backend = "pg"

\* On PostgreSQL a wallet is never overdrawn by more than reconciliation
\* recovered from it: users' spending and the refunds that administrators
\* decide look at the balance in the transaction that moves it.
THEOREM OverdrawnByRecovery ==
    ASSUME Backend = "pg"
    PROVE  Spec => []OverdrawnOnlyByRecovery
<1> DEFINE J == TypeOK /\ SettledInv /\ BackedInv
<1>1. Init => OverdrawnInv
  <2> SUFFICES ASSUME Init, NEW u \in Users PROVE balance[u] + Recovered(u) >= 0
    BY DEF OverdrawnInv
  <2>1. Recovered(u) \in Nat /\ balance[u] = 0
    BY InitTyped, ShortfallsAreNat DEF TypeOK, Init, StoreInit
  <2> QED BY <2>1
<1>2. J /\ OverdrawnInv /\ [Next]_vars => OverdrawnInv'
  <2>1. CASE UNCHANGED vars
    BY <2>1 DEF vars, storeVars, OverdrawnInv, Recovered, Shortfalls, Filed, OrdersOf
  <2>2. CASE Next
    BY <2>2, StepShape, TypedStep, OverdrawnStep, Backend = "pg" DEF TypeOK, BackedInv
  <2> QED BY <2>1, <2>2
<1>3. J /\ OverdrawnInv => OverdrawnOnlyByRecovery
  <2> SUFFICES ASSUME OverdrawnInv, NEW u \in Users
               PROVE  balance[u] + SumFunction(Shortfalls(u)) >= 0
    BY DEF OverdrawnOnlyByRecovery, Shortfalls
  <2>1. SumFunction(Shortfalls(u)) = Recovered(u)
    BY DEF SumFunction, Recovered, Shortfalls
  <2> QED BY <2>1 DEF OverdrawnInv
<1> QED BY <1>1, <1>2, <1>3, BackedAlways, Backend = "pg", PTL DEF Spec
=============================================================================
