------------------------------ MODULE Recharge ------------------------------
(***************************************************************************)
(* The life of a recharge order: created, paid at the payment provider,    *)
(* credited by the provider's callback or by reconciliation, refunded by   *)
(* an administrator or recovered when the provider refunded it.  A handler *)
(* of Platform/internal/service runs several store operations and provider *)
(* calls with no lock and no transaction around them, so handlers          *)
(* interleave between any two of them, and each may stop after any of them *)
(* (an error, a cancelled request, a restart of the server).               *)
(***************************************************************************)
EXTENDS WalletStore, FiniteSetsExt

CONSTANTS
    Reconcilers,    \* requests running ReconcileRechargeOrder
    Handlers,       \* requests running CreateRefundRequest or ApproveRefundRequest
    RefundOutcomes, \* what the provider's refund call may come back with
    UnpaidReports   \* how the provider reports an order nobody paid yet

RefundOutcome == {"succeeded", "pending", "unsupported", "failed", "lost"}

ASSUME RechargeAssumption ==
    /\ Reconcilers \cap Handlers = {}
    /\ RefundOutcomes \subseteq RefundOutcome
    /\ UnpaidReports \subseteq {"pending", "closed"}

VARIABLES
    paid,       \* external: orders whose payment the provider has received
    paidOut,    \* external: fen of the order the provider has paid back
    call        \* what each running request has in its local variables

vars == <<storeVars, paid, paidOut, call>>
Callers == Reconcilers \cup Handlers

Report == {"pending", "closed", "paid", "refunded"}
Idle == [at |-> "idle"]
Call ==
    {Idle}
    \cup [at : {"query"}, order : Orders, snap : Order]
    \cup [at : {"decide"}, order : Orders, snap : Order, report : Report]
    \cup [at : {"file"}, order : Orders, amount : Nat]
    \cup [at : {"settle"}, order : Orders]
    \cup [at : {"reread"}, order : Orders, report : Report]
    \cup [at : {"save"}, order : Orders, snap : Order]
    \cup [at : {"create"}, order : Orders, amount : Nat]
    \cup [at : {"decision"}, req : Requests, status : Decision]

\* Every row and every local variable has its type.
TypeOK ==
    /\ StoreTypeOK
    /\ paid \subseteq Orders
    /\ paidOut \in [Orders -> Nat]
    /\ call \in [Callers -> Call]

Init ==
    /\ StoreInit
    /\ paid = {}
    /\ paidOut = [o \in Orders |-> 0]
    /\ call = [c \in Callers |-> Idle]

external == <<paid, paidOut>>
Goto(c, next) == call' = [call EXCEPT ![c] = next]

-----------------------------------------------------------------------------
\* The payment provider.

UserPays(o) ==
    /\ Exists(o)
    /\ o \notin paid
    /\ paid' = paid \cup {o}
    /\ UNCHANGED <<storeVars, paidOut, call>>

\* The merchant refunds the whole order in the provider's own console.
ProviderRefunds(o) ==
    /\ o \in paid
    /\ paidOut[o] < AmountFen[o]
    /\ paidOut' = [paidOut EXCEPT ![o] = AmountFen[o]]
    /\ UNCHANGED <<storeVars, paid, call>>

\* What QueryOrder may answer.  A refunded order is reported as paid too.
Reports(o) ==
    IF o \notin paid THEN UnpaidReports
    ELSE IF paidOut[o] = AmountFen[o] THEN {"refunded"} ELSE {"paid"}

\* "lost": the refund was made but the answer did not arrive in time.
Refund(r, outcome) ==
    LET o == requests[r].order
        made == outcome \in {"succeeded", "lost"}
    IN  /\ made => o \in paid /\ paidOut[o] + requests[r].amount <= AmountFen[o]
        /\ paidOut' = [paidOut EXCEPT ![o] =
             IF made THEN @ + requests[r].amount ELSE @]

-----------------------------------------------------------------------------
\* Orders and the provider's callback.

CreateRechargeOrder(o) ==
    /\ ~Exists(o)
    /\ SaveOrder(o, [status |-> "pending", refunded |-> 0])
    /\ UNCHANGED <<external, call>>

\* The callback's amount is the order's; a provider repeats it at will.
HandleSuccessfulRechargeCallback(o) ==
    /\ o \in paid
    /\ FinalizeRechargeOrder(o)
    /\ UNCHANGED <<external, call>>

Spend(u) ==
    /\ \E n \in 1..balance[u] : Debit(u, n)
    /\ UNCHANGED <<external, call>>

-----------------------------------------------------------------------------
\* ReconcileRechargeOrder: read the order, ask the provider, decide on what
\* was read, then write.

ReconcileRechargeOrder(c, o) ==
    /\ call[c] = Idle
    /\ Exists(o)
    /\ Goto(c, [at |-> "query", order |-> o, snap |-> orders[o]])
    /\ UNCHANGED <<storeVars, external>>

QueryOrder(c) ==
    /\ call[c].at = "query"
    /\ \E report \in Reports(call[c].order) :
         Goto(c, [at |-> "decide", order |-> call[c].order,
                  snap |-> call[c].snap, report |-> report])
    /\ UNCHANGED <<storeVars, external>>

\* The four cases of the switch, in the order the code tries them.
SaysPaid(k) == k.report \in {"paid", "refunded"}
FinalizeCaseMissed(k) == SaysPaid(k) /\ k.snap.status = "none" \* Mutant: wrong status.
FinalizeCase(k) == SaysPaid(k) /\ k.snap.status = "pending"
RefundCase(k) ==
    ~FinalizeCase(k) /\ k.report = "refunded" /\ k.snap.status # "refunded"
KeepPaidCase(k) ==
    ~FinalizeCase(k) /\ k.report # "refunded" /\ k.snap.status = "paid"
AdoptCase(k) == ~FinalizeCase(k) /\ ~RefundCase(k) /\ ~KeepPaidCase(k)

ReconcilePaid(c) ==
    LET k == call[c] IN
    /\ k.at = "decide"
    /\ FinalizeCase(k)
    /\ FinalizeRechargeOrder(k.order)
    /\ Goto(c, [at |-> "reread", order |-> k.order, report |-> "paid"])
    /\ UNCHANGED external

\* Look for the request an earlier reconciliation filed; file it or settle it.
TakenBackUnfiled(k) == TRUE \* Mutant: the wallet is left alone.
TakenBack(k) ==
    \/ Refundable(k.order, k.snap) <= 0
    \/ Filed(k.order) /\ requests[k.order].status = "refunded"

ReconcileRefunded(c) ==
    LET k == call[c]
        o == k.order
    IN  /\ k.at = "decide"
        /\ RefundCase(k)
        /\ Goto(c,
             IF TakenBack(k) THEN [at |-> "reread", order |-> o, report |-> "refunded"]
             ELSE IF Filed(o) THEN [at |-> "settle", order |-> o]
             ELSE [at |-> "file", order |-> o, amount |-> Refundable(o, k.snap)])
        /\ UNCHANGED <<storeVars, external>>

FileReconcileRequest(c) ==
    LET k == call[c] IN
    /\ k.at = "file"
    /\ CreateRefundRequest(k.order, k.order, k.amount)
    /\ Goto(c, [at |-> "settle", order |-> k.order])
    /\ UNCHANGED external

SettleReconcileRequest(c) ==
    LET k == call[c] IN
    /\ k.at = "settle"
    /\ ApplyRefundDecision(k.order, "refunded", TRUE)
    /\ Goto(c, [at |-> "reread", order |-> k.order, report |-> "refunded"])
    /\ UNCHANGED external

\* The row is read again and, if the provider refunded it, marked refunded.
RereadOrder(c) ==
    LET k == call[c]
        row == orders[k.order]
    IN  /\ k.at = "reread"
        /\ Goto(c, [at |-> "save", order |-> k.order, snap |->
             IF k.report = "refunded"
             THEN [status |-> "refunded",
                   refunded |-> MaxFen(row.refunded, AmountFen[k.order])]
             ELSE row])
        /\ UNCHANGED <<storeVars, external>>

SaveReconciled(c) ==
    LET k == call[c] IN
    /\ k.at = "save"
    /\ SaveOrder(k.order, k.snap)
    /\ Goto(c, Idle)
    /\ UNCHANGED external

\* A paid order stays paid; only what the provider said of it is recorded.
ReconcileStillPaid(c) ==
    LET k == call[c] IN
    /\ k.at = "decide"
    /\ KeepPaidCase(k)
    /\ SaveOrder(k.order, k.snap)
    /\ Goto(c, Idle)
    /\ UNCHANGED external

ReconcileAdoptStatus(c) ==
    LET k == call[c] IN
    /\ k.at = "decide"
    /\ AdoptCase(k)
    /\ SaveOrder(k.order, [k.snap EXCEPT !.status = k.report])
    /\ Goto(c, Idle)
    /\ UNCHANGED external

-----------------------------------------------------------------------------
\* Refund requests of users and the decisions of administrators.

BeginCreateRefundRequest(c, o, n) ==
    /\ call[c] = Idle
    /\ orders[o].status = "paid"
    /\ n \in 1..Refundable(o, orders[o])
    /\ balance[Owner[o]] >= n
    /\ Goto(c, [at |-> "create", order |-> o, amount |-> n])
    /\ UNCHANGED <<storeVars, external>>

\* The identifier is fresh: it is the time of the request in nanoseconds.
InsertRefundRequest(c, r) ==
    LET k == call[c] IN
    /\ k.at = "create"
    /\ ~Filed(r)
    /\ CreateRefundRequest(r, k.order, k.amount)
    /\ Goto(c, Idle)
    /\ UNCHANGED external

\* Mutant: the store's alias for "refunded" is passed on.
DecisionAfterAlias(outcome) ==
    IF outcome = "failed" THEN "refund_failed" ELSE "approved"
DecisionAfter(outcome) ==
    CASE outcome = "succeeded" -> "refunded"
      [] outcome \in {"pending", "unsupported"} -> "approved_pending_payout"
      [] outcome \in {"failed", "lost"} -> "refund_failed"

\* The provider is asked to refund before the status of the request is looked
\* at; what it answers picks the decision to apply.
ApproveRefundRequest(c, r) ==
    /\ call[c] = Idle
    /\ Filed(r)
    /\ \E outcome \in RefundOutcomes :
         /\ Refund(r, outcome)
         /\ Goto(c, [at |-> "decision", req |-> r,
                     status |-> DecisionAfter(outcome)])
    /\ UNCHANGED <<storeVars, paid>>

ApplyApproval(c) ==
    LET k == call[c] IN
    /\ k.at = "decision"
    /\ ApplyRefundDecision(k.req, k.status, FALSE)
    /\ Goto(c, Idle)
    /\ UNCHANGED external

ReviewRefundRequest(r) ==
    /\ ApplyRefundDecision(r, "rejected", FALSE)
    /\ UNCHANGED <<external, call>>

MarkRefundSettled(r) ==
    /\ ApplyRefundDecision(r, "refunded", FALSE)
    /\ UNCHANGED <<external, call>>

\* Any error, refusal, cancelled request or restart ends a handler between
\* two of its steps; what it already did stays done.
Abort(c) ==
    /\ call[c] # Idle
    /\ Goto(c, Idle)
    /\ UNCHANGED <<storeVars, external>>

-----------------------------------------------------------------------------
Reconcile(c) ==
    \/ \E o \in Orders : ReconcileRechargeOrder(c, o)
    \/ QueryOrder(c)
    \/ ReconcilePaid(c)
    \/ ReconcileRefunded(c)
    \/ FileReconcileRequest(c)
    \/ SettleReconcileRequest(c)
    \/ RereadOrder(c)
    \/ SaveReconciled(c)
    \/ ReconcileStillPaid(c)
    \/ ReconcileAdoptStatus(c)

HandleRefund(c) ==
    \/ \E o \in Orders : \E n \in 1..AmountFen[o] : BeginCreateRefundRequest(c, o, n)
    \/ \E r \in UserRequests : InsertRefundRequest(c, r)
    \/ \E r \in Requests : ApproveRefundRequest(c, r)
    \/ ApplyApproval(c)

OnOrder(o) ==
    \/ CreateRechargeOrder(o)
    \/ UserPays(o)
    \/ ProviderRefunds(o)
    \/ HandleSuccessfulRechargeCallback(o)

Review(r) == ReviewRefundRequest(r) \/ MarkRefundSettled(r)

Next ==
    \/ \E o \in Orders : OnOrder(o)
    \/ \E u \in Users : Spend(u)
    \/ \E c \in Reconcilers : Reconcile(c)
    \/ \E c \in Handlers : HandleRefund(c)
    \/ \E r \in Requests : Review(r)
    \/ \E c \in Callers : Abort(c)

Spec == Init /\ [][Next]_vars

\* The provider repeats the callback of a paid order until it is accepted.
Fairness ==
    \A o \in Orders : WF_vars(HandleSuccessfulRechargeCallback(o))
FairSpec == Spec /\ Fairness

-----------------------------------------------------------------------------
(***************************************************************************)
(* What the ledger promises.                                               *)
(***************************************************************************)
RefundsOf(o) == {r \in Requests : Filed(r) /\ requests[r].order = o}
PaidBack(o) == SumFunction([r \in RefundsOf(o) |-> payouts[r] * requests[r].amount])
OrdersOf(u) == {o \in Orders : Owner[o] = u}

\* However callbacks and reconciliations interleave, a recharge order is
\* credited to its owner's wallet once at most.
CreditedAtMostOnce == \A o \in Orders : credits[o] <= 1

\* A refund request is settled exactly when it is decided "refunded", and one
\* ledger row, never two, takes the money from the wallet.
SettledOnce ==
    \A r \in Requests :
        payouts[r] = (IF Filed(r) /\ requests[r].status = "refunded" THEN 1 ELSE 0)

\* A wallet is overdrawn by no more than what reconciliation recovered for the
\* provider; spending and administrators' refunds never overdraw it.
OverdrawnOnlyByRecovery ==
    \A u \in Users :
        balance[u] + SumFunction([o \in OrdersOf(u) |->
            IF Filed(o) THEN payouts[o] * requests[o].amount ELSE 0]) >= 0

\* An order is shown as paid or refunded only after it was credited: no
\* handler may mark it paid and leave the wallet without the money.
PaidOrderWasCredited ==
    \A o \in Orders : orders[o].status \in {"paid", "refunded"} => credits[o] > 0

\* An order marked refunded has had its whole amount taken back.
RefundedOrderWasTakenBack ==
    \A o \in Orders : orders[o].status = "refunded" => PaidBack(o) >= AmountFen[o]

\* Whoever decides them, in whatever parts: the refunds settled for an order
\* never exceed what was paid for it, and refunded_fen, from which the rest is
\* computed, is their sum.
RefundsWithinOrder ==
    \A o \in Orders : PaidBack(o) <= AmountFen[o] /\ orders[o].refunded = PaidBack(o)

\* A request that was refunded, rejected or failed is never decided again.
DecisionsAreFinal ==
    [][\A r \in Requests :
        Filed(r) /\ requests[r].status \notin OpenStatus
            => requests'[r] = requests[r]]_vars

\* An order that was credited is never shown as unpaid again.
NeverDowngraded ==
    [][\A o \in Orders :
        orders[o].status \in {"paid", "refunded"}
            => orders'[o].status \in {"paid", "refunded"}]_vars

\* A payment the provider received ends up in the wallet.
PaymentIsCredited == \A o \in Orders : o \in paid ~> credits[o] > 0
=============================================================================
