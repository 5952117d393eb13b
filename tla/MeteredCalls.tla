---------------------------- MODULE MeteredCalls ----------------------------
(***************************************************************************)
(* What a metered call of an official model promises to the user who pays  *)
(* for it: an answer takes its price from the user's funds in one step,    *)
(* and never more than the funds; a call without an answer takes at most   *)
(* the reserve set aside for it.  OfficialChat is the program that         *)
(* reserves, retries, settles and refunds behind this.                     *)
(***************************************************************************)
EXTENDS Integers, FiniteSetsExt

CONSTANTS Users, Calls, UserOf, MaxReserve

VARIABLES
    funds,      \* what a user owns and has not spent
    outcome,    \* of each call: "open", "charged" or "failed"
    price       \* what each finished call has cost

vars == <<funds, outcome, price>>

Init ==
    /\ funds \in [Users -> Nat]
    /\ outcome = [c \in Calls |-> "open"]
    /\ price = [c \in Calls |-> 0]

TopUp(u) ==
    /\ funds' = [funds EXCEPT ![u] = funds'[u]]
    /\ funds'[u] > funds[u]
    /\ UNCHANGED <<outcome, price>>

\* The calls that end in this step.  A server that stops ends many at once.
Ended == {c \in Calls : outcome[c] # outcome'[c]}
Cost(u) == SumFunctionOnSet(price', {c \in Ended : UserOf[c] = u})

\* A call ends once, and no call costs what its user does not own.
Finish ==
    /\ \A c \in Calls :
         \/ UNCHANGED <<outcome[c], price[c]>>
         \/ /\ outcome[c] = "open"
            /\ \/ outcome'[c] = "charged" /\ price'[c] > 0
               \/ outcome'[c] = "failed" /\ price'[c] \in 0..MaxReserve
    /\ \A u \in Users :
         /\ funds'[u] = funds[u] - Cost(u)
         /\ funds'[u] >= 0

Next == Finish \/ \E u \in Users : TopUp(u)

Spec == Init /\ [][Next]_vars
=============================================================================
