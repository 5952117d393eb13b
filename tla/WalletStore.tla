---------------------------- MODULE WalletStore ----------------------------
(***************************************************************************)
(* The rows of the Platform store that carry money, and the store's        *)
(* operations on them.  Every operation of the store is one database       *)
(* transaction under row locks (Platform/internal/store/pg/store.go), or   *)
(* one critical section of MemoryStore.mu (memory_store.go), so each is    *)
(* one atomic step.  The two back ends differ in what they refuse:         *)
(* PostgreSQL has a unique index on wallet_transactions(reference_type,    *)
(* reference_id) and a primary key on refund_requests; the maps of         *)
(* MemoryStore overwrite.                                                  *)
(*                                                                         *)
(* An operation is enabled exactly when the store accepts it; a caller     *)
(* whose operation is refused gets an error and gives up (Recharge!Abort). *)
(***************************************************************************)
EXTENDS Integers, FiniteSets

CONSTANTS
    Users,          \* wallet owners
    Orders,         \* identifiers of recharge orders
    UserRequests,   \* identifiers of the refund requests users file
    Owner,          \* Owner[o]: the user who created order o
    AmountFen,      \* AmountFen[o]: what order o charges, never rewritten
    Backend,        \* "pg" or "memory"
    MaxCredits      \* bound: recharge credits explored per order

\* The request reconciliation files for an order has the identifier
\* "refund_reconcile_<order>"; here it is the order identifier itself.
Requests == UserRequests \cup Orders

ASSUME StoreAssumption ==
    /\ Owner \in [Orders -> Users]
    /\ AmountFen \in [Orders -> Nat \ {0}]
    /\ UserRequests \cap Orders = {}
    /\ Backend \in {"pg", "memory"}
    /\ MaxCredits \in Nat

\* However many there are; the sums of the ledger range over them.
ASSUME FiniteAssumption == IsFiniteSet(Orders) /\ IsFiniteSet(UserRequests)

VARIABLES
    balance,    \* wallet_accounts.balance_fen
    orders,     \* recharge_orders: status and refunded_fen
    requests,   \* refund_requests: status, order, amount, settled_at # null
    credits,    \* wallet_transactions rows that refer to the recharge order
    payouts,    \* wallet_transactions rows that refer to the refund request
    debits      \* sum of the unreferenced debit rows of a user

storeVars == <<balance, orders, requests, credits, payouts, debits>>

OrderStatus == {"none", "pending", "closed", "paid", "refunded"}
Order == [status : OrderStatus, refunded : Nat]
NoOrder == [status |-> "none", refunded |-> 0]

OpenStatus == {"pending", "approved_pending_payout"}
Decision == {"refunded", "rejected", "refund_failed", "approved_pending_payout"}
Request == [status : {"pending"} \cup Decision,
            order : Orders, amount : Nat, settled : BOOLEAN]
NoRequest == [status |-> "none"]

StoreTypeOK ==
    /\ balance \in [Users -> Int]
    /\ orders \in [Orders -> Order]
    /\ requests \in [Requests -> Request \cup {NoRequest}]
    /\ credits \in [Orders -> Nat]
    /\ payouts \in [Requests -> Nat]
    /\ debits \in [Users -> Nat]

StoreInit ==
    /\ balance = [u \in Users |-> 0]
    /\ orders = [o \in Orders |-> NoOrder]
    /\ requests = [r \in Requests |-> NoRequest]
    /\ credits = [o \in Orders |-> 0]
    /\ payouts = [r \in Requests |-> 0]
    /\ debits = [u \in Users |-> 0]

Exists(o) == orders[o].status # "none"
Filed(r) == requests[r] # NoRequest

\* Mutant: the refunds already made are forgotten.
RefundableWhole(o, row) == AmountFen[o]
Refundable(o, row) == AmountFen[o] - row.refunded
MaxFen(a, b) == IF a < b THEN b ELSE a
MinFen(a, b) == IF a < b THEN a ELSE b

-----------------------------------------------------------------------------
\* The columns an upsert writes are those of the caller's copy of the row,
\* whatever the row has become since the caller read it.
SaveOrder(o, row) ==
    /\ orders' = [orders EXCEPT ![o] = row]
    /\ UNCHANGED <<balance, requests, credits, payouts, debits>>

\* Inserting a second ledger row with the same reference fails in PostgreSQL
\* and rolls the transaction back.
LedgerAcceptsAll(rows) == TRUE \* Mutant: no unique index.
LedgerAccepts(rows) == Backend = "pg" => rows = 0

FinalizeRechargeOrder(o) ==
    /\ Exists(o)
    /\ IF orders[o].status = "paid"
       THEN UNCHANGED storeVars
       ELSE /\ LedgerAccepts(credits[o])
            /\ credits[o] < MaxCredits
            /\ orders' = [orders EXCEPT ![o].status = "paid"]
            /\ balance' = [balance EXCEPT ![Owner[o]] = @ + AmountFen[o]]
            /\ credits' = [credits EXCEPT ![o] = @ + 1]
            /\ UNCHANGED <<requests, payouts, debits>>

Debit(u, n) ==
    /\ balance[u] >= n
    /\ balance' = [balance EXCEPT ![u] = @ - n]
    /\ debits' = [debits EXCEPT ![u] = @ + n]
    /\ UNCHANGED <<orders, requests, credits, payouts>>

CreateRefundRequest(r, o, n) ==
    /\ Backend = "pg" => ~Filed(r)
    /\ requests' = [requests EXCEPT ![r] =
         [status |-> "pending", order |-> o, amount |-> n, settled |-> FALSE]]
    /\ UNCHANGED <<balance, orders, credits, payouts, debits>>

\* A decision other than "refunded", or a second "refunded", moves no money.
RecordDecision(r, status) ==
    /\ requests' = [requests EXCEPT ![r].status = status]
    /\ UNCHANGED <<balance, orders, credits, payouts, debits>>

\* A reviewer named "system:..." may overdraw the wallet, nobody else.
CoveredAlways(r, system) == TRUE \* Mutant: the wallet is not looked at.
Covered(r, system) ==
    system \/ balance[Owner[requests[r].order]] >= requests[r].amount

SettleRefund(r, system) ==
    LET o == requests[r].order
        n == requests[r].amount
        refunded == MinFen(orders[o].refunded + n, AmountFen[o])
    IN  /\ Exists(o)
        /\ n <= Refundable(o, orders[o])
        /\ Refundable(o, orders[o]) > 0
        /\ Covered(r, system)
        /\ LedgerAccepts(payouts[r])
        /\ balance' = [balance EXCEPT ![Owner[o]] = @ - n]
        /\ orders' = [orders EXCEPT ![o] =
             [status |-> IF refunded = AmountFen[o] THEN "refunded" ELSE @.status,
              refunded |-> refunded]]
        /\ payouts' = [payouts EXCEPT ![r] = @ + 1]
        /\ requests' = [requests EXCEPT ![r].status = "refunded",
                                        ![r].settled = TRUE]
        /\ UNCHANGED <<credits, debits>>

\* Mutant: the status of the request is not looked at.
ApplyRefundDecisionAnytime(r, status, system) ==
    /\ Filed(r)
    /\ IF status = "refunded" /\ ~requests[r].settled
       THEN SettleRefund(r, system)
       ELSE RecordDecision(r, status)

ApplyRefundDecision(r, status, system) ==
    /\ Filed(r)
    /\ requests[r].status \in OpenStatus
    /\ IF status = "refunded" /\ ~requests[r].settled
       THEN SettleRefund(r, system)
       ELSE RecordDecision(r, status)
=============================================================================
