----------------------------- MODULE AdminWallet -----------------------------
(***************************************************************************)
(* Wallet adjustments and manual recharges by administrators, beside the   *)
(* orders and refunds of Recharge and on the same wallets.  An             *)
(* administrator names each request; a request that is sent again, after a *)
(* lost answer or by a second click, must move no money.  The database     *)
(* transaction of ApplyAdminWalletMutation is not one step here: it looks  *)
(* for the name before it locks the wallet, so several requests of one     *)
(* name may all find nothing.  (MemoryStore does all of it under its       *)
(* mutex.)                                                                 *)
(***************************************************************************)
EXTENDS Recharge

CONSTANTS
    Admins,     \* requests of administrators
    Names,      \* (reference_type, reference_id): the endpoint and request_id
    Recharges,  \* the names of the manual recharge endpoint
    Fen         \* amounts entered

ASSUME AdminAssumption ==
    /\ Backend = "pg"
    /\ Recharges \subseteq Names /\ IsFiniteSet(Names)
    /\ Fen \subseteq Int \ {0}

VARIABLES
    adjustments,    \* the committed ledger row of each name
    admin           \* what each request has in its local variables: where it
                    \* is, the name and row asked for, the balance it has
                    \* read under the lock, or how it was answered

adminVars == <<adjustments, admin>>
allVars == <<vars, adminVars>>

Row == [user : Users, fen : Fen]
NoRow == [fen |-> 0]
Unsent == [at |-> "unsent"]

AdminInit ==
    /\ Init
    /\ adjustments = [k \in Names |-> NoRow]
    /\ admin = [a \in Admins |-> Unsent]

-----------------------------------------------------------------------------
\* select ... for update: the wallet row is locked until commit or rollback.
LockedNever(u) == FALSE \* Mutant: the wallet is read without "for update".
Locked(u) ==
    \E a \in Admins : admin[a].at \in {"insert", "commit"} /\ admin[a].row.user = u

AdminGoto(a, next) == admin' = [admin EXCEPT ![a] = next]
Stage(a, at) == [at |-> at, name |-> admin[a].name, row |-> admin[a].row]
Answer(a, answer) ==
    AdminGoto(a, [at |-> "answered", name |-> admin[a].name, row |-> admin[a].row,
                  answer |-> answer])

\* The name is looked up; if a row has it, the request is answered from that
\* row and without moving money.
ApplyAdminWalletMutation(a, k, row) ==
    /\ admin[a] = Unsent
    /\ k \in Recharges => row.fen > 0
    /\ AdminGoto(a, [at |-> IF adjustments[k] = NoRow THEN "wallet" ELSE "replay",
                     name |-> k, row |-> row])
    /\ UNCHANGED <<vars, adjustments>>

LockWallet(a) ==
    LET k == admin[a]
        u == k.row.user
    IN  /\ k.at = "wallet"
        /\ ~Locked(u)
        /\ IF balance[u] + k.row.fen < 0 /\ k.row.fen < 0
           THEN Answer(a, "insufficient")
           ELSE AdminGoto(a, [at |-> "insert", name |-> k.name, row |-> k.row,
                              read |-> balance[u]])
        /\ UNCHANGED <<vars, adjustments>>

\* insert ... on conflict do nothing waits for the transaction that inserted
\* the name first.  If that one committed, this one rolls back.
InsertRow(a) ==
    LET k == admin[a] IN
    /\ k.at = "insert"
    /\ ~\E b \in Admins : admin[b].at = "commit" /\ admin[b].name = k.name
    /\ AdminGoto(a, IF adjustments[k.name] = NoRow THEN [k EXCEPT !.at = "commit"]
                    ELSE Stage(a, "replay"))
    /\ UNCHANGED <<vars, adjustments>>

Commit(a) ==
    LET k == admin[a] IN
    /\ k.at = "commit"
    /\ balance' = [balance EXCEPT ![k.row.user] = k.read + k.row.fen]
    /\ adjustments' = [adjustments EXCEPT ![k.name] = k.row]
    /\ Answer(a, "applied")
    /\ UNCHANGED <<orders, requests, credits, payouts, debits, external, call>>

AnyReplay(existing, row) == TRUE \* Mutant: the row found is taken for the request's own.
MutationMatches(existing, row) == existing = row
LoadReplay(a) ==
    LET k == admin[a] IN
    /\ k.at = "replay"
    /\ Answer(a, IF MutationMatches(adjustments[k.name], k.row) THEN "replayed"
                 ELSE "conflict")
    /\ UNCHANGED <<vars, adjustments>>

\* An error, a cancelled request or a restart: the transaction is rolled back.
AdminFails(a) ==
    /\ admin[a].at \notin {"unsent", "answered"}
    /\ Answer(a, "failed")
    /\ UNCHANGED <<vars, adjustments>>

-----------------------------------------------------------------------------
AdminStep(a) ==
    \/ \E k \in Names, row \in Row : ApplyAdminWalletMutation(a, k, row)
    \/ LockWallet(a)
    \/ InsertRow(a)
    \/ Commit(a)
    \/ LoadReplay(a)
    \/ AdminFails(a)

\* The other transactions wait for the row of a wallet they change.
RechargeStep ==
    /\ Next
    /\ \A u \in Users : Locked(u) => balance'[u] = balance[u]
    /\ UNCHANGED adminVars

AdminNext == RechargeStep \/ \E a \in Admins : AdminStep(a)
AdminSpec == AdminInit /\ [][AdminNext]_allVars

-----------------------------------------------------------------------------
AdjustmentsOf(u) == {k \in Names : adjustments[k] # NoRow /\ adjustments[k].user = u}

\* With recharges, refunds, spending and adjustments on one wallet at a time,
\* its balance is the sum of its ledger rows: no update is lost.
WalletIsItsRows ==
    \A u \in Users :
        balance[u] = SumFunction([o \in OrdersOf(u) |-> credits[o] * AmountFen[o] - PaidBack(o)])
                     + SumFunction([k \in AdjustmentsOf(u) |-> adjustments[k].fen])
                     - debits[u]

\* What an administrator is told is so: "applied" or "replayed" means that the
\* ledger has this very adjustment under its name, "conflict" that it has
\* another, and of all requests with one name one was "applied" at most.
AnswersAreTrue ==
    \A a \in Admins : admin[a].at = "answered" =>
        LET k == admin[a] IN
        /\ k.answer \in {"applied", "replayed"} => adjustments[k.name] = k.row
        /\ k.answer = "conflict" => adjustments[k.name] \notin {NoRow, k.row}
        /\ k.answer = "applied" =>
             \A b \in Admins \ {a} : admin[b].at = "answered" /\ admin[b].name = k.name
                                       => admin[b].answer # "applied"
=============================================================================
