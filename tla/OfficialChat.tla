---------------------------- MODULE OfficialChat ----------------------------
(***************************************************************************)
(* Calls of the official models (ProxyOfficialChatRequest, and the older   *)
(* ProxyOfficialChat) in Platform/internal/service/service.go.  A call     *)
(* reserves money in the wallet, tries the model it asked for twice and    *)
(* then the other enabled models by priority, and settles the charge of    *)
(* the answer against the reserve, or pays the reserve back.  Nothing      *)
(* ties these steps together: calls of the same user interleave, the       *)
(* client may hang up, which cancels the context every later PostgreSQL    *)
(* operation runs under, and the server may stop between any two of them.  *)
(*                                                                         *)
(* A model that failed twice in a row is skipped for officialPrimary-      *)
(* CooldownDuration; how long the steps of a call take is left open, so a  *)
(* cooldown ends at any time.  The state of the cooldown is the server's   *)
(* own map (no OfficialPrimaryFailureStore configured).                    *)
(***************************************************************************)
EXTENDS Integers, FiniteSets, FiniteSetsExt

CONSTANTS
    Users,
    Calls,
    UserOf,         \* UserOf[c]: who makes call c
    Direct,         \* the calls made through ProxyOfficialChat
    Models,
    Priority,       \* Priority[m]: rank among the fallbacks, then the name
    Reserve,        \* Reserve[m]: reserveCharge of the model's pricing rule
    Charges,        \* what an answer may be charged, never less than 1 fen
    Catalogs,       \* the sets of models an administrator may list and enable
    StartBalance,
    MaxBalance,     \* bound: top-ups stop here
    Backend,        \* "pg" or "memory"
    Earlier         \* what earlier calls may have left in the failure counts

Threshold == 2      \* officialPrimaryFailureThreshold

ASSUME OfficialChatAssumption ==
    /\ UserOf \in [Calls -> Users]
    /\ Direct \subseteq Calls
    /\ Priority \in [Models -> Nat]
    /\ Reserve \in [Models -> Nat \ {0}]
    /\ Charges \subseteq Nat \ {0}
    /\ Catalogs \subseteq SUBSET Models
    /\ StartBalance \in Nat
    /\ MaxBalance \in Nat
    /\ Backend \in {"pg", "memory"}
    /\ Earlier \subseteq 0..Threshold

\* However many there are; sums of calls and the largest reserve range over them.
ASSUME FiniteAssumption == IsFiniteSet(Calls) /\ IsFiniteSet(Models)

VARIABLES
    balance,    \* wallet_accounts.balance_fen
    paid,       \* of each call: its debits less its credits in the ledger
    usage,      \* of each call: charged_fen of its usage record, 0 if none
    enabled,    \* Service.models
    failures,   \* Service.primaryFailures: consecutiveFailures, up to Threshold
    cooling,    \* models whose cooldownUntil lies ahead
    call,       \* the local variables of each call
    gone        \* calls whose client hung up

wallet == <<balance, paid, usage>>
failover == <<failures, cooling>>
vars == <<wallet, enabled, failover, call, gone>>

\* tries: attempts left for the model asked for; rest: fallbacks not tried.
Steps == {"new", "checking", "reserving", "trying", "settling", "recording",
          "refunding", "answered", "failed", "refused", "lost", "undelivered"}
Call == [at : Steps, model : Models, tries : 0..2, rest : SUBSET Models,
         reserve : Nat, charge : Nat]

\* Every row and every local variable has its type.
TypeOK ==
    /\ balance \in [Users -> Int]
    /\ paid \in [Calls -> Int]
    /\ usage \in [Calls -> Nat]
    /\ enabled \subseteq Models
    /\ failures \in [Models -> 0..Threshold]
    /\ cooling \subseteq Models
    /\ call \in [Calls -> Call]
    /\ gone \subseteq Calls

Init ==
    /\ balance = [u \in Users |-> StartBalance]
    /\ paid = [c \in Calls |-> 0]
    /\ usage = [c \in Calls |-> 0]
    /\ enabled \in Catalogs
    /\ failures \in [Models -> Earlier]
    /\ cooling = {m \in Models : failures[m] = Threshold}
    /\ call \in [Calls -> [at : {"new"}, model : Models, tries : {0},
                          rest : {{}}, reserve : {0}, charge : {0}]]
    /\ gone = {}

Finished == {"answered", "failed", "refused", "lost", "undelivered"}
Goto(c, next) == call' = [call EXCEPT ![c].at = next]

\* PostgreSQL refuses what runs under a cancelled context; MemoryStore does
\* not look at the context.
Unreachable(c) == Backend = "pg" /\ c \in gone

-----------------------------------------------------------------------------
\* Wallet operations: one transaction each, on behalf of a call.
DebitUnchecked(c, n) == \* Mutant: the balance is not looked at again.
    /\ balance' = [balance EXCEPT ![UserOf[c]] = @ - n]
    /\ paid' = [paid EXCEPT ![c] = @ + n]
Debit(c, n) ==
    /\ balance[UserOf[c]] >= n
    /\ balance' = [balance EXCEPT ![UserOf[c]] = @ - n]
    /\ paid' = [paid EXCEPT ![c] = @ + n]
Credit(c, n) ==
    /\ balance' = [balance EXCEPT ![UserOf[c]] = @ + n]
    /\ paid' = [paid EXCEPT ![c] = @ - n]

TopUp(u) ==
    /\ balance[u] < MaxBalance
    /\ balance' = [balance EXCEPT ![u] = @ + 1]
    /\ UNCHANGED <<paid, usage, enabled, failover, call, gone>>

-----------------------------------------------------------------------------
\* Candidates, cooldown and the size of the reserve.
Fallbacks(m) == enabled \ {m}
Skipped(m) == m \in cooling /\ Fallbacks(m) # {}
Largest(r, S) == r \in S /\ \A q \in S : q <= r

\* The model asked for counts towards the reserve even while it is skipped.
Admit(c) ==
    LET m == call[c].model
        direct == c \in Direct
        rest == IF direct THEN {} ELSE Fallbacks(m)
    IN  /\ call[c].at = "new"
        /\ m \in enabled
        /\ \E r \in {Reserve[n] : n \in rest \cup {m}} :
             /\ Largest(r, {Reserve[n] : n \in rest \cup {m}})
             /\ call' = [call EXCEPT ![c] =
                  [at |-> "checking", model |-> m, rest |-> rest, reserve |-> r,
                   tries |-> IF direct THEN 1 ELSE IF Skipped(m) THEN 0 ELSE 2,
                   charge |-> 0]]
        /\ UNCHANGED <<wallet, enabled, failover, gone>>

Refuse(c) ==
    /\ call[c].at = "new"
    /\ call[c].model \notin enabled
    /\ Goto(c, "refused")
    /\ UNCHANGED <<wallet, enabled, failover, gone>>

CheckWallet(c) ==
    /\ call[c].at = "checking"
    /\ Goto(c, IF ~Unreachable(c) /\ balance[UserOf[c]] >= call[c].reserve
               THEN "reserving" ELSE "refused")
    /\ UNCHANGED <<wallet, enabled, failover, gone>>

ReserveFunds(c) ==
    /\ call[c].at = "reserving"
    /\ ~Unreachable(c)
    /\ Debit(c, call[c].reserve)
    /\ Goto(c, "trying")
    /\ UNCHANGED <<usage, enabled, failover, gone>>

ReserveFails(c) ==
    /\ call[c].at = "reserving"
    /\ Unreachable(c) \/ balance[UserOf[c]] < call[c].reserve
    /\ Goto(c, "refused")
    /\ UNCHANGED <<wallet, enabled, failover, gone>>

-----------------------------------------------------------------------------
\* Attempts.  An attempt of a client that hung up fails like any other.
RecordPrimaryFailure(m) ==
    LET n == IF failures[m] < Threshold THEN failures[m] + 1 ELSE Threshold
    IN  /\ failures' = [failures EXCEPT ![m] = n]
        /\ cooling' = IF n = Threshold THEN cooling \cup {m} ELSE cooling
ClearPrimaryFailures(m) ==
    /\ failures' = [failures EXCEPT ![m] = 0]
    /\ cooling' = cooling \ {m}

Foremost(S) == {m \in S : \A n \in S : Priority[m] <= Priority[n]}

\* Mutant: the last fallback is never given up on.
AfterFailureStuck(k, rest) ==
    [k EXCEPT !.rest = rest, !.at = "trying"]
AfterFailure(k, rest) ==
    [k EXCEPT !.rest = rest, !.at = IF rest = {} THEN "refunding" ELSE "trying"]

PrimaryNextOffByOne(k) == k.tries >= 0 \* Mutant: one attempt too many.
PrimaryNext(k) == k.tries > 0

PrimaryFails(c) ==
    LET k == call[c]
        left == [k EXCEPT !.tries = @ - 1]
    IN  /\ k.at = "trying"
        /\ PrimaryNext(k)
        /\ call' = [call EXCEPT ![c] =
             IF left.tries > 0 THEN left ELSE AfterFailure(left, k.rest)]
        /\ IF c \in Direct THEN UNCHANGED failover ELSE RecordPrimaryFailure(k.model)
        /\ UNCHANGED <<wallet, enabled, gone>>

FallbackFails(c) ==
    LET k == call[c] IN
    /\ k.at = "trying"
    /\ ~PrimaryNext(k)
    /\ \E m \in Foremost(k.rest) :
         call' = [call EXCEPT ![c] = AfterFailure(k, k.rest \ {m})]
    /\ UNCHANGED <<wallet, enabled, failover, gone>>

ModelAnswers(c) ==
    LET k == call[c] IN
    /\ k.at = "trying"
    /\ PrimaryNext(k) \/ k.rest # {}
    /\ \E n \in Charges :
         call' = [call EXCEPT ![c] = [k EXCEPT !.at = "settling", !.charge = n]]
    /\ IF PrimaryNext(k) /\ c \notin Direct
       THEN ClearPrimaryFailures(k.model) ELSE UNCHANGED failover
    /\ UNCHANGED <<wallet, enabled, gone>>

-----------------------------------------------------------------------------
\* Settlement.  The reserve stays debited when the rest cannot be debited.
Overdue(k) == k.charge - k.reserve

SettleCharge(c) ==
    LET k == call[c] IN
    /\ k.at = "settling"
    /\ IF Overdue(k) > 0 THEN ~Unreachable(c) /\ Debit(c, Overdue(k))
       ELSE IF k.charge < k.reserve
            THEN ~Unreachable(c) /\ Credit(c, k.reserve - k.charge)
            ELSE UNCHANGED <<balance, paid>>
    /\ Goto(c, "recording")
    /\ UNCHANGED <<usage, enabled, failover, gone>>

SettleFails(c) ==
    LET k == call[c] IN
    /\ k.at = "settling"
    /\ \/ Unreachable(c) /\ k.charge # k.reserve
       \/ balance[UserOf[c]] < Overdue(k)
    /\ Goto(c, "failed")
    /\ UNCHANGED <<wallet, enabled, failover, gone>>

ChargedReserve(k) == k.reserve \* Mutant: the reserve is recorded.
ChargedFen(k) == k.charge

\* The error of RecordChatUsage is dropped: the answer is delivered anyway.
RecordChatUsage(c) ==
    /\ call[c].at = "recording"
    /\ usage' = IF Unreachable(c) THEN usage
                ELSE [usage EXCEPT ![c] = ChargedFen(call[c])]
    /\ Goto(c, "answered")
    /\ UNCHANGED <<balance, paid, enabled, failover, gone>>

\* Mutant: the reserve of the model asked for is paid back.
RefundOfPrimary(k) == Reserve[k.model]
RefundOf(k) == k.reserve

RefundReserve(c) ==
    /\ call[c].at = "refunding"
    /\ IF Unreachable(c) THEN UNCHANGED <<balance, paid>>
       ELSE Credit(c, RefundOf(call[c]))
    /\ Goto(c, "failed")
    /\ UNCHANGED <<usage, enabled, failover, gone>>

-----------------------------------------------------------------------------
\* What happens around the calls.
HangUp(c) ==
    /\ call[c].at \notin Finished \cup {"new"}
    /\ c \notin gone
    /\ gone' = gone \cup {c}
    /\ UNCHANGED <<wallet, enabled, failover, call>>

\* A model that is no longer listed starts afresh when it comes back.
SetOfficialModels(listed, S) ==
    /\ S \subseteq listed
    /\ enabled' = S
    /\ failures' = [m \in Models |-> IF m \in listed THEN failures[m] ELSE 0]
    /\ cooling' = cooling \cap listed
    /\ UNCHANGED <<wallet, call, gone>>

CooldownEnds(m) ==
    /\ m \in cooling
    /\ cooling' = cooling \ {m}
    /\ UNCHANGED <<wallet, enabled, failures, call, gone>>

\* The rows survive in PostgreSQL, the calls and the cooldowns do not.
InFlight == {c \in Calls : call[c].at \notin Finished \cup {"new"}}
Cut(k) == IF k.at = "recording" THEN "undelivered" ELSE "lost"
Restart ==
    /\ Backend = "pg"
    /\ InFlight # {}
    /\ call' = [c \in Calls |->
         IF c \in InFlight THEN [call[c] EXCEPT !.at = Cut(call[c])] ELSE call[c]]
    /\ failures' = [m \in Models |-> 0]
    /\ cooling' = {}
    /\ UNCHANGED <<wallet, enabled, gone>>

-----------------------------------------------------------------------------
Proceed(c) ==
    \/ CheckWallet(c)
    \/ ReserveFunds(c)
    \/ ReserveFails(c)
    \/ PrimaryFails(c)
    \/ FallbackFails(c)
    \/ ModelAnswers(c)
    \/ SettleCharge(c)
    \/ SettleFails(c)
    \/ RecordChatUsage(c)
    \/ RefundReserve(c)

Next ==
    \/ \E c \in Calls : Admit(c) \/ Refuse(c) \/ Proceed(c) \/ HangUp(c)
    \/ \E u \in Users : TopUp(u)
    \/ \E listed, S \in Catalogs : SetOfficialModels(listed, S)
    \/ \E m \in Models : CooldownEnds(m)
    \/ Restart

Spec == Init /\ [][Next]_vars

\* A request handler runs on; the upstream client ends every attempt.
FairSpec == Spec /\ \A c \in Calls : WF_vars(Proceed(c))

-----------------------------------------------------------------------------
(***************************************************************************)
(* What a call may cost.                                                   *)
(***************************************************************************)
Settled == {"recording", "answered", "undelivered"}

\* Calls of one user check the same balance before they reserve and settle,
\* yet together they never take more than the wallet holds.
NeverOverdrawn == \A u \in Users : balance[u] >= 0

\* The usage record of a call, when there is one, shows what the ledger took;
\* on MemoryStore every delivered answer has one.
UsageMatchesLedger ==
    \A c \in Calls :
        /\ usage[c] \in {0, paid[c]}
        /\ Backend = "memory" /\ call[c].at = "answered" => usage[c] = paid[c]

\* A settled answer has cost its charge, neither the reserve nor both; a call
\* all of whose attempts failed got its reserve back, unless the refund could
\* not be written because the client had hung up; and any other call has cost
\* nothing or its reserve.
Exhausted(k) == k.at = "failed" /\ k.tries = 0 /\ k.rest = {}
CallsPayTheirPrice ==
    \A c \in Calls :
        LET k == call[c] IN
        paid[c] \in CASE k.at \in Settled -> {k.charge}
                     [] Exhausted(k) /\ ~Unreachable(c) -> {0}
                     [] OTHER -> {0, k.reserve}

\* Whatever fails, a call that holds a reserve comes to an end.
EveryCallEnds ==
    \A c \in Calls : call[c].at = "trying" ~> call[c].at \in Finished

\* Reserving, retrying and settling look to a user like one payment made when
\* the answer is settled, out of what the wallet and the open reserves hold.
Open(c) == call[c].at \notin Finished \cup Settled
Held(u) == {c \in Calls : UserOf[c] = u /\ Open(c)}
LargestReserve == Max({Reserve[m] : m \in Models})
Funds == [u \in Users |-> balance[u] + SumFunctionOnSet(paid, Held(u))]
Outcome == [c \in Calls |-> IF Open(c) THEN "open"
                           ELSE IF call[c].at \in Settled THEN "charged" ELSE "failed"]
Price == [c \in Calls |-> IF Open(c) THEN 0 ELSE paid[c]]
Metered == INSTANCE MeteredCalls WITH
    MaxReserve <- LargestReserve, funds <- Funds, outcome <- Outcome, price <- Price
MeteredSpec == Metered!Spec
=============================================================================
