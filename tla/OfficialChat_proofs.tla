------------------------ MODULE OfficialChat_proofs ------------------------
(***************************************************************************)
(* Proofs about OfficialChat, for any users, calls, models, prices and     *)
(* catalogs, and for both stores.                                          *)
(***************************************************************************)
EXTENDS OfficialChat, DataLemmas, TLAPS

\* The actions that run for one call.
CallStep(c) == Admit(c) \/ Refuse(c) \/ Proceed(c) \/ HangUp(c)

LEMMA StepCases ==
    ASSUME Next,
           NEW P,
           ASSUME NEW c \in Calls, CallStep(c) PROVE P,
           ASSUME NEW u \in Users, TopUp(u) PROVE P,
           ASSUME NEW listed \in Catalogs, NEW S \in Catalogs,
                  SetOfficialModels(listed, S) PROVE P,
           ASSUME NEW m \in Models, CooldownEnds(m) PROVE P,
           ASSUME Restart PROVE P
    PROVE  P
BY DEF Next, CallStep

-----------------------------------------------------------------------------
LEMMA RecordPrimaryFailureType ==
    ASSUME failures \in [Models -> 0..Threshold], cooling \subseteq Models,
           NEW m \in Models, RecordPrimaryFailure(m)
    PROVE  failures' \in [Models -> 0..Threshold] /\ cooling' \subseteq Models
BY DEF RecordPrimaryFailure, Threshold

LEMMA AfterFailureType ==
    ASSUME NEW k \in Call, NEW rest \in SUBSET Models
    PROVE  AfterFailure(k, rest) \in Call
BY DEF AfterFailure, Call, Steps

\* Each step of a call keeps every row and local variable typed.
LEMMA TypeCallStep ==
    ASSUME TypeOK, NEW c \in Calls, CallStep(c)
    PROVE  TypeOK'
<1> USE OfficialChatAssumption DEF TypeOK
<1> DEFINE k == call[c]
<1>1. k \in Call
    OBVIOUS
<1>2. CASE Admit(c)
  <2>1. Fallbacks(k.model) \in SUBSET Models
    BY DEF Fallbacks
  <2>2. k.model \in Models
    BY <1>1 DEF Call
  <2>3. PICK r \in {Reserve[n] : n \in (IF c \in Direct THEN {} ELSE Fallbacks(k.model))
                                         \cup {k.model}} :
            call' = [call EXCEPT ![c] =
              [at |-> "checking", model |-> k.model,
               rest |-> IF c \in Direct THEN {} ELSE Fallbacks(k.model), reserve |-> r,
               tries |-> IF c \in Direct THEN 1 ELSE IF Skipped(k.model) THEN 0 ELSE 2,
               charge |-> 0]]
    BY <1>2 DEF Admit
  <2>4. r \in Nat
    BY <2>1, <2>2, <2>3
  <2>5. call' \in [Calls -> Call]
    BY <2>1, <2>2, <2>3, <2>4 DEF Call, Steps
  <2> QED BY <1>2, <2>5 DEF Admit, wallet, failover
<1>3. CASE Refuse(c)
    BY <1>1, <1>3 DEF Refuse, Goto, Call, Steps, wallet, failover
<1>4. CASE HangUp(c)
    BY <1>4 DEF HangUp, wallet, failover
<1>5. CASE CheckWallet(c)
    BY <1>1, <1>5 DEF CheckWallet, Goto, Call, Steps, wallet, failover
<1>6. CASE ReserveFunds(c)
  <2>1. k.reserve \in Nat /\ UserOf[c] \in Users
    BY <1>1 DEF Call
  <2>2. balance' \in [Users -> Int] /\ paid' \in [Calls -> Int]
    BY <1>6, <2>1 DEF ReserveFunds, Debit
  <2> QED BY <1>1, <1>6, <2>2 DEF ReserveFunds, Goto, Call, Steps, failover
<1>7. CASE ReserveFails(c)
    BY <1>1, <1>7 DEF ReserveFails, Goto, Call, Steps, wallet, failover
<1>8. CASE PrimaryFails(c)
  <2> DEFINE left == [k EXCEPT !.tries = @ - 1]
  <2>1. left \in Call /\ k.model \in Models /\ k.rest \in SUBSET Models
    BY <1>1, <1>8 DEF PrimaryFails, PrimaryNext, Call
  <2>2. AfterFailure(left, k.rest) \in Call
    BY <2>1, AfterFailureType
  <2>3. call' \in [Calls -> Call]
    BY <1>8, <2>1, <2>2 DEF PrimaryFails
  <2>4. failures' \in [Models -> 0..Threshold] /\ cooling' \subseteq Models
    BY <1>8, <2>1, RecordPrimaryFailureType DEF PrimaryFails, failover
  <2> QED BY <1>8, <2>3, <2>4 DEF PrimaryFails, wallet
<1>9. CASE FallbackFails(c)
  <2>1. PICK m : call' = [call EXCEPT ![c] = AfterFailure(k, k.rest \ {m})]
    BY <1>9 DEF FallbackFails
  <2>2. k.rest \ {m} \in SUBSET Models
    BY <1>1 DEF Call
  <2>3. AfterFailure(k, k.rest \ {m}) \in Call
    BY <1>1, <2>2, AfterFailureType
  <2> QED BY <1>9, <2>1, <2>3 DEF FallbackFails, wallet, failover
<1>10. CASE ModelAnswers(c)
  <2>1. call' \in [Calls -> Call]
    <3>1. PICK n \in Charges :
            call' = [call EXCEPT ![c] = [k EXCEPT !.at = "settling", !.charge = n]]
        BY <1>10 DEF ModelAnswers
    <3>2. [k EXCEPT !.at = "settling", !.charge = n] \in Call
        BY <1>1, <3>1 DEF Call, Steps
    <3> QED BY <3>1, <3>2
  <2>2. failures' \in [Models -> 0..Threshold] /\ cooling' \subseteq Models
    BY <1>10 DEF ModelAnswers, ClearPrimaryFailures, Threshold, failover
  <2> QED BY <1>10, <2>1, <2>2 DEF ModelAnswers, wallet
<1>11. CASE SettleCharge(c)
  <2>1. k.reserve \in Nat /\ k.charge \in Nat /\ UserOf[c] \in Users
    BY <1>1 DEF Call
  <2>2. balance' \in [Users -> Int] /\ paid' \in [Calls -> Int]
    BY <1>11, <2>1 DEF SettleCharge, Overdue, Debit, Credit
  <2> QED BY <1>1, <1>11, <2>2 DEF SettleCharge, Goto, Call, Steps, failover
<1>12. CASE SettleFails(c)
    BY <1>1, <1>12 DEF SettleFails, Goto, Call, Steps, wallet, failover
<1>13. CASE RecordChatUsage(c)
    BY <1>1, <1>13 DEF RecordChatUsage, ChargedFen, Goto, Call, Steps, failover
<1>14. CASE RefundReserve(c)
  <2>1. k.reserve \in Nat /\ UserOf[c] \in Users
    BY <1>1 DEF Call
  <2>2. balance' \in [Users -> Int] /\ paid' \in [Calls -> Int]
    BY <1>14, <2>1 DEF RefundReserve, RefundOf, Credit
  <2> QED BY <1>1, <1>14, <2>2 DEF RefundReserve, Goto, Call, Steps, failover
<1> QED
    BY <1>2, <1>3, <1>4, <1>5, <1>6, <1>7, <1>8, <1>9, <1>10, <1>11, <1>12, <1>13, <1>14
    DEF CallStep, Proceed

LEMMA TypeStep ==
    ASSUME TypeOK, [Next]_vars
    PROVE  TypeOK'
<1>1. CASE Next
  <2>1. ASSUME NEW u \in Users, TopUp(u) PROVE TypeOK'
    BY <2>1 DEF TypeOK, TopUp, failover
  <2>2. ASSUME NEW listed \in Catalogs, NEW S \in Catalogs, SetOfficialModels(listed, S)
        PROVE  TypeOK'
    BY <2>2, OfficialChatAssumption DEF TypeOK, SetOfficialModels, wallet, Threshold
  <2>3. ASSUME NEW m \in Models, CooldownEnds(m) PROVE TypeOK'
    BY <2>3 DEF TypeOK, CooldownEnds, wallet
  <2>4. ASSUME Restart PROVE TypeOK'
    <3>1. ASSUME NEW c \in Calls PROVE [call[c] EXCEPT !.at = Cut(call[c])] \in Call
        BY <3>1 DEF TypeOK, Cut, Call, Steps
    <3>2. call' \in [Calls -> Call]
        BY <2>4, <3>1 DEF Restart, TypeOK
    <3> QED BY <2>4, <3>2 DEF TypeOK, Restart, wallet, Threshold
  <2> QED BY <1>1, <2>1, <2>2, <2>3, <2>4, TypeCallStep, StepCases
<1>2. CASE UNCHANGED vars
    BY <1>2 DEF TypeOK, vars, wallet, failover
<1> QED BY <1>1, <1>2

LEMMA TypeInit ==
    ASSUME Init
    PROVE  TypeOK
<1>1. failures \in [Models -> 0..Threshold]
    BY OfficialChatAssumption DEF Init
<1>2. cooling \subseteq Models
    BY DEF Init
<1>3. call \in [Calls -> Call]
  <2>1. [at : {"new"}, model : Models, tries : {0}, rest : {{}}, reserve : {0},
         charge : {0}] \subseteq Call
    BY DEF Call, Steps
  <2> QED BY <2>1 DEF Init
<1> QED BY <1>1, <1>2, <1>3, OfficialChatAssumption DEF Init, TypeOK

\* The rows and the local variables of the calls are always typed.
THEOREM TypeCorrect == Spec => []TypeOK
<1>1. Init => TypeOK
    BY TypeInit
<1>2. TypeOK /\ [Next]_vars => TypeOK'
    BY TypeStep
<1> QED BY <1>1, <1>2, PTL DEF Spec

-----------------------------------------------------------------------------
(***************************************************************************)
(* What a call has cost follows from where it stands: nothing before the   *)
(* reserve, the reserve until it is settled or refunded, then the charge.  *)
(***************************************************************************)
Holding == {"trying", "settling", "refunding"}

CostsWhatItShould(c) ==
    LET k == call[c] IN
    /\ k.at \in {"new", "checking", "reserving", "refused"} => paid[c] = 0
    /\ k.at \in Holding => paid[c] = k.reserve
    /\ k.at \in {"failed", "lost"} => paid[c] \in {0, k.reserve}
    /\ k.at \in Settled => paid[c] = k.charge

\* Only a delivered answer may have a usage record.
RecordedOnlyIfAnswered(c) ==
    /\ call[c].at # "answered" => usage[c] = 0
    /\ usage[c] \in {0, call[c].charge}
    /\ Backend = "memory" /\ call[c].at = "answered" => usage[c] = call[c].charge

\* A call that still tries or was answered has a candidate left.
HasCandidate(k) == k.tries > 0 \/ k.rest # {}
CandidatesLeft(c) ==
    LET k == call[c] IN
    /\ k.at \in {"checking", "reserving", "trying", "settling"} => HasCandidate(k)
    /\ Exhausted(k) => paid[c] = 0 \/ Unreachable(c)

CallInv(c) == CostsWhatItShould(c) /\ RecordedOnlyIfAnswered(c) /\ CandidatesLeft(c)
CostInv == NeverOverdrawn /\ \A c \in Calls : CallInv(c)

\* A step that leaves a call's rows and variables alone keeps its part.
LEMMA Frame ==
    ASSUME NEW d, call'[d] = call[d], paid'[d] = paid[d], usage'[d] = usage[d],
           gone \subseteq gone', CallInv(d)
    PROVE  CallInv(d)'
BY DEF CallInv, CostsWhatItShould, RecordedOnlyIfAnswered, CandidatesLeft, Exhausted,
       HasCandidate, Holding, Settled, Unreachable

\* A step of one call keeps the wallets covered and the costs right.
LEMMA CostCallStep ==
    ASSUME TypeOK, CostInv, NEW c \in Calls, CallStep(c)
    PROVE  CostInv'
<1> USE OfficialChatAssumption DEF TypeOK, CostInv
<1> DEFINE k == call[c]
           u == UserOf[c]
<1>1. /\ k \in Call /\ u \in Users /\ k.reserve \in Nat /\ k.charge \in Nat
      /\ k.tries \in 0..2 /\ k.rest \subseteq Models
      /\ balance[u] \in Int /\ balance[u] >= 0 /\ paid[c] \in Int
    BY DEF Call, NeverOverdrawn
<1>2. CallInv(c)
    OBVIOUS
<1>3. ASSUME NEW d \in Calls \ {c} PROVE CallInv(d)'
  <2>1. /\ call'[d] = call[d] /\ paid'[d] = paid[d] /\ usage'[d] = usage[d]
    <3>1. CASE Admit(c) \/ Refuse(c) \/ HangUp(c)
        BY <3>1 DEF Admit, Refuse, HangUp, Goto, wallet
    <3>2. CASE Proceed(c)
        BY <3>2 DEF Proceed, CheckWallet, ReserveFunds, ReserveFails, PrimaryFails,
            FallbackFails, ModelAnswers, SettleCharge, SettleFails, RecordChatUsage,
            RefundReserve, Debit, Credit, Goto, wallet
    <3> QED BY <3>1, <3>2 DEF CallStep
  <2>2. gone \subseteq gone'
    <3>1. CASE Admit(c) \/ Refuse(c) \/ HangUp(c)
        BY <3>1 DEF Admit, Refuse, HangUp
    <3>2. CASE Proceed(c)
        BY <3>2 DEF Proceed, CheckWallet, ReserveFunds, ReserveFails, PrimaryFails,
            FallbackFails, ModelAnswers, SettleCharge, SettleFails, RecordChatUsage,
            RefundReserve
    <3> QED BY <3>1, <3>2 DEF CallStep
  <2> QED BY <2>1, <2>2, Frame
<1>4. ASSUME NeverOverdrawn', CallInv(c)' PROVE CostInv'
    BY <1>3, <1>4
<1> USE DEF CallInv, CostsWhatItShould, RecordedOnlyIfAnswered, CandidatesLeft,
            Exhausted, HasCandidate, Holding, Settled
<1>5. CASE Admit(c)
  <2>1. PICK r : call' = [call EXCEPT ![c] =
              [at |-> "checking", model |-> k.model,
               rest |-> IF c \in Direct THEN {} ELSE Fallbacks(k.model), reserve |-> r,
               tries |-> IF c \in Direct THEN 1 ELSE IF Skipped(k.model) THEN 0 ELSE 2,
               charge |-> 0]]
    BY <1>5 DEF Admit
  <2>2. HasCandidate(call'[c])
    BY <2>1 DEF Skipped
  <2>3. CallInv(c)'
    BY <1>2, <1>5, <2>1, <2>2 DEF Admit, wallet
  <2> QED BY <1>4, <1>5, <2>3 DEF Admit, wallet, NeverOverdrawn
<1>6. CASE Refuse(c)
  <2>1. CallInv(c)'
    BY <1>1, <1>2, <1>6 DEF Refuse, Goto, wallet
  <2> QED BY <1>4, <1>6, <2>1 DEF Refuse, wallet, NeverOverdrawn
<1>7. CASE HangUp(c)
  <2>1. CallInv(c)'
    BY <1>2, <1>7 DEF HangUp, wallet, Unreachable
  <2> QED BY <1>4, <1>7, <2>1 DEF HangUp, wallet, NeverOverdrawn
<1>8. CASE CheckWallet(c)
  <2>1. CallInv(c)'
    BY <1>1, <1>2, <1>8 DEF CheckWallet, Goto, wallet
  <2> QED BY <1>4, <1>8, <2>1 DEF CheckWallet, wallet, NeverOverdrawn
<1>9. CASE ReserveFunds(c)
  <2>1. CallInv(c)'
    BY <1>1, <1>2, <1>9 DEF ReserveFunds, Debit, Goto
  <2>2. NeverOverdrawn'
    BY <1>1, <1>9 DEF ReserveFunds, Debit, NeverOverdrawn
  <2> QED BY <1>4, <2>1, <2>2
<1>10. CASE ReserveFails(c)
  <2>1. CallInv(c)'
    BY <1>1, <1>2, <1>10 DEF ReserveFails, Goto, wallet
  <2> QED BY <1>4, <1>10, <2>1 DEF ReserveFails, wallet, NeverOverdrawn
<1>11. CASE PrimaryFails(c)
  <2>1. CallInv(c)'
    BY <1>1, <1>2, <1>11 DEF PrimaryFails, PrimaryNext, AfterFailure, Call, wallet
  <2> QED BY <1>4, <1>11, <2>1 DEF PrimaryFails, wallet, NeverOverdrawn
<1>12. CASE FallbackFails(c)
  <2>1. CallInv(c)'
    BY <1>1, <1>2, <1>12 DEF FallbackFails, PrimaryNext, AfterFailure, Call, wallet
  <2> QED BY <1>4, <1>12, <2>1 DEF FallbackFails, wallet, NeverOverdrawn
<1>13. CASE ModelAnswers(c)
  <2>1. PICK n : call' = [call EXCEPT ![c] = [k EXCEPT !.at = "settling", !.charge = n]]
    BY <1>13 DEF ModelAnswers
  <2>2. CallInv(c)'
    BY <1>1, <1>2, <1>13, <2>1 DEF ModelAnswers, PrimaryNext, Call, wallet
  <2> QED BY <1>4, <1>13, <2>2 DEF ModelAnswers, wallet, NeverOverdrawn
<1>14. CASE SettleCharge(c)
  <2>1. paid'[c] = k.charge
    BY <1>1, <1>2, <1>14 DEF SettleCharge, Overdue, Debit, Credit
  <2>2. CallInv(c)'
    BY <1>1, <1>2, <1>14, <2>1 DEF SettleCharge, Goto
  <2>3. NeverOverdrawn'
    BY <1>1, <1>14 DEF SettleCharge, Overdue, Debit, Credit, NeverOverdrawn
  <2> QED BY <1>4, <2>2, <2>3
<1>15. CASE SettleFails(c)
  <2>1. CallInv(c)'
    BY <1>1, <1>2, <1>15 DEF SettleFails, Goto, wallet
  <2> QED BY <1>4, <1>15, <2>1 DEF SettleFails, wallet, NeverOverdrawn
<1>16. CASE RecordChatUsage(c)
  <2>1. CallInv(c)'
    BY <1>1, <1>2, <1>16 DEF RecordChatUsage, ChargedFen, Unreachable, Goto
  <2> QED BY <1>4, <1>16, <2>1 DEF RecordChatUsage, NeverOverdrawn
<1>17. CASE RefundReserve(c)
  <2>1. CallInv(c)'
    BY <1>1, <1>2, <1>17 DEF RefundReserve, RefundOf, Credit, Unreachable, Goto
  <2>2. NeverOverdrawn'
    BY <1>1, <1>17 DEF RefundReserve, RefundOf, Credit, NeverOverdrawn
  <2> QED BY <1>4, <2>1, <2>2
<1> QED
    BY <1>5, <1>6, <1>7, <1>8, <1>9, <1>10, <1>11, <1>12, <1>13, <1>14, <1>15, <1>16, <1>17
    DEF CallStep, Proceed

LEMMA CostStep ==
    ASSUME TypeOK, CostInv, [Next]_vars
    PROVE  CostInv'
<1> USE DEF CostInv
<1>1. ASSUME UNCHANGED <<call, paid, usage, gone>>, NeverOverdrawn' PROVE CostInv'
    BY <1>1, Frame
<1>2. CASE Next
  <2>1. ASSUME NEW u \in Users, TopUp(u) PROVE CostInv'
    <3>1. NeverOverdrawn'
        BY <2>1 DEF TopUp, NeverOverdrawn, TypeOK
    <3> QED BY <1>1, <2>1, <3>1 DEF TopUp
  <2>2. ASSUME NEW listed \in Catalogs, NEW S \in Catalogs, SetOfficialModels(listed, S)
        PROVE  CostInv'
    BY <1>1, <2>2 DEF SetOfficialModels, wallet, NeverOverdrawn
  <2>3. ASSUME NEW m \in Models, CooldownEnds(m) PROVE CostInv'
    BY <1>1, <2>3 DEF CooldownEnds, wallet, NeverOverdrawn
  <2>4. ASSUME Restart PROVE CostInv'
    <3>1. ASSUME NEW c \in Calls PROVE CallInv(c)'
      <4>1. CASE c \in InFlight
        <5>1. call'[c] = [call[c] EXCEPT !.at = Cut(call[c])]
            BY <2>4, <4>1 DEF Restart
        <5>2. call[c] \in Call /\ CallInv(c)
            BY DEF TypeOK
        <5> QED BY <2>4, <4>1, <5>1, <5>2 DEF Restart, InFlight, Finished, Cut, wallet, Call,
                Steps, CallInv, CostsWhatItShould, RecordedOnlyIfAnswered, CandidatesLeft,
                Exhausted, HasCandidate, Holding, Settled
      <4>2. CASE c \notin InFlight
        BY <2>4, <4>2, Frame DEF Restart, wallet
      <4> QED BY <4>1, <4>2
    <3> QED BY <2>4, <3>1 DEF Restart, wallet, NeverOverdrawn
  <2> QED BY <1>2, <2>1, <2>2, <2>3, <2>4, CostCallStep, StepCases
<1>3. CASE UNCHANGED vars
    BY <1>1, <1>3 DEF vars, wallet, NeverOverdrawn
<1> QED BY <1>2, <1>3

LEMMA CostInit ==
    ASSUME Init
    PROVE  CostInv
BY OfficialChatAssumption DEF Init, CostInv, NeverOverdrawn, CallInv, CostsWhatItShould,
    RecordedOnlyIfAnswered, CandidatesLeft, Exhausted, HasCandidate, Holding, Settled

THEOREM CostCorrect == Spec => []CostInv
<1>1. Init => CostInv
    BY CostInit
<1>2. TypeOK /\ CostInv /\ [Next]_vars => CostInv'
    BY CostStep
<1> QED BY <1>1, <1>2, TypeCorrect, PTL DEF Spec

-----------------------------------------------------------------------------
\* Concurrent calls never take more than the wallet holds.
THEOREM CoveredAlways == Spec => []NeverOverdrawn
<1>1. CostInv => NeverOverdrawn
    BY DEF CostInv
<1> QED BY <1>1, CostCorrect, PTL

\* A settled answer has cost its charge, an exhausted call whose client stayed
\* nothing, any other call nothing or its reserve.
THEOREM CallsCostTheirPrice == Spec => []CallsPayTheirPrice
<1>1. ASSUME TypeOK, CostInv, NEW c \in Calls
      PROVE  /\ call[c].at \in Settled => paid[c] = call[c].charge
             /\ call[c].at \notin Settled => paid[c] \in {0, call[c].reserve}
             /\ Exhausted(call[c]) /\ ~Unreachable(c) => paid[c] = 0
  <2>1. call[c] \in Call /\ CallInv(c)
    BY <1>1 DEF TypeOK, CostInv
  <2> QED
    BY <2>1 DEF Call, Steps, CallInv, CostsWhatItShould, CandidatesLeft, Holding, Settled
<1>2. TypeOK /\ CostInv => CallsPayTheirPrice
    BY <1>1 DEF CallsPayTheirPrice, Exhausted, Settled
<1> QED BY <1>2, CostCorrect, TypeCorrect, PTL

\* The usage records agree with the ledger.
THEOREM UsageIsTheLedgers == Spec => []UsageMatchesLedger
<1>1. CostInv => UsageMatchesLedger
    BY DEF CostInv, CallInv, CostsWhatItShould, RecordedOnlyIfAnswered, Settled,
           UsageMatchesLedger
<1> QED BY <1>1, CostCorrect, PTL

-----------------------------------------------------------------------------
(***************************************************************************)
(* Reserving, retrying and settling implement MeteredCalls.  A step of the *)
(* program either stutters or ends calls there: it moves money between a   *)
(* wallet and the open calls of its user only, so that what the user loses *)
(* is what the calls that end have cost.                                   *)
(***************************************************************************)
Prices == {Reserve[m] : m \in Models}

LEMMA LargestReserveIs ==
    ASSUME Models # {}
    PROVE  LargestReserve \in Nat /\ \A m \in Models : Reserve[m] <= LargestReserve
<1>1. IsFiniteSet(Prices)
  <2>1. Reserve \in Surjection(Models, Prices)
    BY OfficialChatAssumption DEF Prices, Surjection
  <2> QED BY <2>1, FiniteAssumption, FS_Surjection
<1>2. Prices \subseteq Nat /\ Prices # {}
    BY OfficialChatAssumption DEF Prices
<1>3. \E x \in Prices : \A y \in Prices : y <= x
    BY <1>1, <1>2, GreatestExists
<1>4. LargestReserve \in Prices /\ \A y \in Prices : LargestReserve >= y
    BY <1>3 DEF LargestReserve, Max, Prices
<1>5. \A m \in Models : Reserve[m] \in Prices
    BY DEF Prices
<1> HIDE DEF Prices
<1> QED BY <1>2, <1>4, <1>5

\* A reserve is that of a model, and a charge that of an answer.
BoundsInv == \A c \in Calls :
    /\ call[c].reserve \in {0} \cup Prices
    /\ call[c].at \in {"settling"} \cup Settled => call[c].charge \in Charges

LEMMA BoundsStep ==
    ASSUME TypeOK, BoundsInv, [Next]_vars
    PROVE  BoundsInv'
<1> USE DEF TypeOK
<1>1. ASSUME NEW c \in Calls, CallStep(c)
      PROVE  BoundsInv'
  <2> DEFINE k == call[c]
  <2>1. k \in Call /\ k.reserve \in {0} \cup Prices
        /\ (k.at \in {"settling"} \cup Settled => k.charge \in Charges)
    BY DEF BoundsInv
  <2> SUFFICES ASSUME call' # call
               PROVE  /\ \A d \in Calls \ {c} : call'[d] = call[d]
                      /\ call'[c].reserve \in {0} \cup Prices
                      /\ call'[c].at \in {"settling"} \cup Settled => call'[c].charge \in Charges
    BY DEF BoundsInv
  <2>2. CASE Admit(c)
    <3>1. PICK r \in {Reserve[n] : n \in (IF c \in Direct THEN {} ELSE Fallbacks(k.model)) \cup {k.model}} :
            call' = [call EXCEPT ![c] =
                  [at |-> "checking", model |-> k.model,
                   rest |-> IF c \in Direct THEN {} ELSE Fallbacks(k.model), reserve |-> r,
                   tries |-> IF c \in Direct THEN 1 ELSE IF Skipped(k.model) THEN 0 ELSE 2,
                   charge |-> 0]]
      BY <2>2 DEF Admit
    <3>2. r \in Prices
      BY <2>1, <3>1 DEF Prices, Fallbacks, Call
    <3> QED BY <3>1, <3>2 DEF Settled
  <2>3. ASSUME NEW at \in Steps, Goto(c, at), at \notin {"settling"} \cup Settled
               \/ k.at \in {"settling"} \cup Settled
        PROVE  /\ \A d \in Calls \ {c} : call'[d] = call[d]
               /\ call'[c].reserve \in {0} \cup Prices
               /\ call'[c].at \in {"settling"} \cup Settled => call'[c].charge \in Charges
    BY <2>1, <2>3 DEF Goto, Call
  <2>4. CASE \/ Refuse(c) \/ CheckWallet(c) \/ ReserveFunds(c) \/ ReserveFails(c)
             \/ SettleCharge(c) \/ SettleFails(c) \/ RecordChatUsage(c) \/ RefundReserve(c)
    <3>1. CASE Refuse(c) \/ ReserveFails(c) \/ ReserveFunds(c) \/ SettleFails(c) \/ RefundReserve(c)
      <4>1. Goto(c, "refused") \/ Goto(c, "trying") \/ Goto(c, "failed")
        BY <3>1 DEF Refuse, ReserveFails, ReserveFunds, SettleFails, RefundReserve
      <4> QED BY <2>3, <4>1 DEF Steps, Settled
    <3>2. CASE CheckWallet(c)
      <4>1. Goto(c, "reserving") \/ Goto(c, "refused")
        BY <3>2 DEF CheckWallet
      <4> QED BY <2>3, <4>1 DEF Steps, Settled
    <3>3. CASE SettleCharge(c)
      <4>1. Goto(c, "recording") /\ k.at = "settling"
        BY <3>3 DEF SettleCharge
      <4> QED BY <2>3, <4>1 DEF Steps, Settled
    <3>4. CASE RecordChatUsage(c)
      <4>1. Goto(c, "answered") /\ k.at = "recording"
        BY <3>4 DEF RecordChatUsage
      <4> QED BY <2>3, <4>1 DEF Steps, Settled
    <3> QED BY <2>4, <3>1, <3>2, <3>3, <3>4
  <2>5. CASE PrimaryFails(c) \/ FallbackFails(c)
    <3>1. PICK tries, rest, at :
            /\ call' = [call EXCEPT ![c] = [k EXCEPT !.tries = tries, !.rest = rest, !.at = at]]
            /\ at \in {"refunding", "trying"}
      <4>1. CASE PrimaryFails(c)
        <5> DEFINE left == [k EXCEPT !.tries = @ - 1]
        <5>1. left = [k EXCEPT !.tries = k.tries - 1, !.rest = k.rest, !.at = "trying"]
          BY <2>1, <4>1 DEF PrimaryFails, Call
        <5>2. AfterFailure(left, k.rest) =
                 [k EXCEPT !.tries = k.tries - 1, !.rest = k.rest,
                           !.at = IF k.rest = {} THEN "refunding" ELSE "trying"]
          BY <2>1 DEF AfterFailure, Call
        <5>3. call' = [call EXCEPT ![c] = IF left.tries > 0 THEN left ELSE AfterFailure(left, k.rest)]
          BY <4>1 DEF PrimaryFails
        <5> HIDE DEF left
        <5> QED BY <5>1, <5>2, <5>3
      <4>2. CASE FallbackFails(c)
        <5>1. PICK m : call' = [call EXCEPT ![c] = AfterFailure(k, k.rest \ {m})]
          BY <4>2 DEF FallbackFails
        <5>2. AfterFailure(k, k.rest \ {m}) =
                 [k EXCEPT !.tries = k.tries, !.rest = k.rest \ {m},
                           !.at = IF k.rest \ {m} = {} THEN "refunding" ELSE "trying"]
          BY <2>1 DEF AfterFailure, Call
        <5> QED BY <5>1, <5>2
      <4> QED BY <2>5, <4>1, <4>2
    <3> DEFINE new == [k EXCEPT !.tries = tries, !.rest = rest, !.at = at]
    <3>2. new.reserve = k.reserve /\ new.at = at
      BY <2>1 DEF Call
    <3>3. call' = [call EXCEPT ![c] = new]
      BY <3>1
    <3> HIDE DEF new
    <3> QED BY <2>1, <3>1, <3>2, <3>3 DEF Settled
  <2>6. CASE ModelAnswers(c)
    <3>1. PICK n \in Charges : call' = [call EXCEPT ![c] = [k EXCEPT !.at = "settling", !.charge = n]]
      BY <2>6 DEF ModelAnswers
    <3> QED BY <2>1, <3>1 DEF Call
  <2>7. CASE HangUp(c)
    BY <2>7 DEF HangUp
  <2> QED BY <1>1, <2>2, <2>4, <2>5, <2>6, <2>7 DEF CallStep, Proceed
<1>2. ASSUME Restart PROVE BoundsInv'
  <2>1. ASSUME NEW c \in Calls
        PROVE  /\ call'[c].reserve \in {0} \cup Prices
               /\ call'[c].at \in {"settling"} \cup Settled => call'[c].charge \in Charges
    <3>1. call[c] \in Call
      OBVIOUS
    <3>2. call'[c] = call[c] \/ call'[c] = [call[c] EXCEPT !.at = Cut(call[c])]
      BY <1>2 DEF Restart
    <3> QED BY <3>1, <3>2 DEF Cut, BoundsInv, Settled, Call
  <2> QED BY <2>1 DEF BoundsInv
<1>3. CASE UNCHANGED call
    BY <1>3 DEF BoundsInv
<1>4. CASE Next
    BY <1>1, <1>2, <1>3, <1>4 DEF Next, CallStep, TopUp, SetOfficialModels, CooldownEnds
<1> QED BY <1>3, <1>4 DEF vars

-----------------------------------------------------------------------------
\* What every step but a top-up does to a call that is no longer open, and to
\* the money of a user and their open calls.
StaysEnded(c) ==
    ~Open(c) => /\ ~Open(c)' /\ paid'[c] = paid[c]
                /\ call'[c].at \in Settled <=> call[c].at \in Settled
Together(u) == balance[u] + SumFunctionOnSet(paid, Held(u))
KeepsFunds(u) == balance'[u] + SumFunctionOnSet(paid', Held(u)) = Together(u)

LEMMA HeldFinite ==
    ASSUME NEW u, paid \in [Calls -> Int]
    PROVE  /\ IsFiniteSet(Held(u)) /\ Held(u) \subseteq Calls
           /\ \A c \in Held(u) : paid[c] \in Int
           /\ SumFunctionOnSet(paid, Held(u)) \in Int
<1>1. Held(u) \subseteq Calls
    BY DEF Held
<1>2. IsFiniteSet(Held(u))
    BY <1>1, FiniteAssumption, FS_Subset
<1> QED BY <1>1, <1>2, SumInt

\* Money that leaves the wallet for an open call, or comes back from one.
LEMMA FundsMove ==
    ASSUME TypeOK, NEW c \in Calls, Open(c), NEW n \in Int,
           balance' = [balance EXCEPT ![UserOf[c]] = @ - n],
           paid' = [paid EXCEPT ![c] = @ + n]
    PROVE  \A u \in Users : KeepsFunds(u)
<1> SUFFICES ASSUME NEW u \in Users PROVE KeepsFunds(u)
    OBVIOUS
<1> DEFINE S == Held(u)
           f == paid
           g == paid'
<1>1. balance \in [Users -> Int] /\ paid \in [Calls -> Int] /\ UserOf[c] \in Users
    BY OfficialChatAssumption DEF TypeOK
<1>2. IsFiniteSet(S) /\ S \subseteq Calls /\ (\A d \in S : f[d] \in Int)
      /\ SumFunctionOnSet(f, S) \in Int
    BY <1>1, HeldFinite
<1>3. \A d \in S \ {c} : g[d] = f[d]
    BY <1>1, <1>2
<1>4. g[c] = f[c] + n /\ f[c] \in Int
    BY <1>1
<1>5. c \in S <=> u = UserOf[c]
    BY DEF Held
<1>6. \A d \in S : g[d] \in Int
    BY <1>2, <1>3, <1>4
<1>7. balance'[u] = IF u = UserOf[c] THEN balance[u] - n ELSE balance[u]
    BY <1>1
<1>8. SumFunctionOnSet(g, S) = SumFunctionOnSet(f, S) + (IF u = UserOf[c] THEN n ELSE 0)
  <2> HIDE DEF S, f, g
  <2>1. CASE u = UserOf[c]
    <3>1. SumFunctionOnSet(g, S) = SumFunctionOnSet(f, S) - f[c] + g[c]
      BY <1>2, <1>3, <1>5, <1>6, <2>1, SumChange
    <3> QED BY <1>2, <1>4, <2>1, <3>1
  <2>2. CASE u # UserOf[c]
    <3>1. SumFunctionOnSet(f, S) = SumFunctionOnSet(g, S)
      BY <1>2, <1>3, <1>5, <2>2, SumEqual
    <3> QED BY <1>2, <2>2, <3>1
  <2> QED BY <2>1, <2>2
<1>9. balance[u] \in Int
    BY <1>1
<1> HIDE DEF S, f, g
<1>10. balance'[u] + SumFunctionOnSet(g, S) = balance[u] + SumFunctionOnSet(f, S)
    BY <1>2, <1>7, <1>8, <1>9
<1> QED BY <1>10 DEF KeepsFunds, Together, S, f, g

LEMMA FundsStay ==
    ASSUME balance' = balance, paid' = paid
    PROVE  \A u \in Users : KeepsFunds(u)
BY DEF KeepsFunds, Together

LEMMA CallKeepsFunds ==
    ASSUME TypeOK, CostInv, NEW c \in Calls, CallStep(c)
    PROVE  (\A u \in Users : KeepsFunds(u)) /\ \A d \in Calls : StaysEnded(d)
<1> DEFINE k == call[c]
<1>1. k \in Call /\ k.reserve \in Nat /\ k.charge \in Nat /\ paid[c] \in Int /\ CallInv(c)
      /\ UserOf[c] \in Users /\ paid \in [Calls -> Int] /\ balance \in [Users -> Int]
    BY OfficialChatAssumption DEF TypeOK, CostInv, Call
<1>2. CASE balance' = balance /\ paid' = paid
  <2>1. \A u \in Users : KeepsFunds(u)
    BY <1>2, FundsStay
  <2>2. CASE Open(c) \/ call' = call
    <3>1. \A d \in Calls \ {c} : call'[d] = call[d]
      BY <2>2 DEF CallStep, Proceed, Admit, Refuse, HangUp, CheckWallet, ReserveFunds, ReserveFails,
         PrimaryFails, FallbackFails, ModelAnswers, SettleCharge, SettleFails, RecordChatUsage,
         RefundReserve, Goto, TypeOK
    <3> QED BY <1>2, <2>1, <2>2, <3>1 DEF StaysEnded, Open
  <2>3. CASE ~Open(c) /\ call' # call
    <3>1. RecordChatUsage(c)
      BY <2>3 DEF CallStep, Proceed, Admit, Refuse, HangUp, CheckWallet, ReserveFunds, ReserveFails,
         PrimaryFails, FallbackFails, ModelAnswers, SettleCharge, SettleFails, RefundReserve,
         Open, Finished, Settled
    <3>2. call[c].at = "recording" /\ call'[c].at = "answered"
          /\ \A d \in Calls \ {c} : call'[d] = call[d]
      BY <1>1, <3>1 DEF RecordChatUsage, Goto, Call, TypeOK
    <3> QED BY <1>2, <2>1, <3>2 DEF StaysEnded, Open, Finished, Settled
  <2> QED BY <2>2, <2>3
<1>3. ASSUME Open(c), NEW n \in Int, NEW at,
             balance' = [balance EXCEPT ![UserOf[c]] = @ - n],
             paid' = [paid EXCEPT ![c] = @ + n], Goto(c, at)
      PROVE  (\A u \in Users : KeepsFunds(u)) /\ \A d \in Calls : StaysEnded(d)
  <2>1. \A u \in Users : KeepsFunds(u)
    BY <1>3, FundsMove
  <2>2. \A d \in Calls \ {c} : call'[d] = call[d] /\ paid'[d] = paid[d]
    BY <1>1, <1>3 DEF Goto, TypeOK
  <2> QED BY <1>3, <2>1, <2>2 DEF StaysEnded, Open
<1>4. ASSUME Open(c), NEW n \in Int, NEW at, Credit(c, n), Goto(c, at)
      PROVE  (\A u \in Users : KeepsFunds(u)) /\ \A d \in Calls : StaysEnded(d)
  <2> DEFINE m == -n
  <2>1. m \in Int /\ \A x \in Int : x + n = x - m /\ x - n = x + m
    BY <1>4
  <2> HIDE DEF m
  <2>2. balance' = [balance EXCEPT ![UserOf[c]] = @ - m] /\ paid' = [paid EXCEPT ![c] = @ + m]
    BY <1>1, <1>4, <2>1 DEF Credit
  <2> QED BY <1>3, <1>4, <2>1, <2>2
<1>5. CASE ReserveFunds(c)
  <2>1. Open(c) /\ Goto(c, "trying") /\ k.reserve \in Int
    BY <1>1, <1>5 DEF ReserveFunds, Open, Finished, Settled
  <2> QED BY <1>3, <1>5, <2>1 DEF ReserveFunds, Debit
<1>6. CASE SettleCharge(c)
  <2>1. Open(c) /\ Goto(c, "recording") /\ Overdue(k) \in Int /\ k.reserve - k.charge \in Int
    BY <1>1, <1>6 DEF SettleCharge, Open, Finished, Settled, Overdue
  <2>2. CASE Debit(c, Overdue(k))
    BY <1>3, <2>1, <2>2 DEF Debit
  <2>3. CASE Credit(c, k.reserve - k.charge)
    BY <1>4, <2>1, <2>3
  <2> QED BY <1>2, <1>6, <2>2, <2>3 DEF SettleCharge
<1>7. CASE RefundReserve(c)
  <2>1. Open(c) /\ Goto(c, "failed") /\ RefundOf(k) \in Int
    BY <1>1, <1>7 DEF RefundReserve, RefundOf, Open, Finished, Settled
  <2> QED BY <1>2, <1>4, <1>7, <2>1 DEF RefundReserve
<1> QED BY <1>2, <1>5, <1>6, <1>7
        DEF CallStep, Proceed, Admit, Refuse, HangUp, CheckWallet, ReserveFails, PrimaryFails,
            FallbackFails, ModelAnswers, SettleFails, RecordChatUsage, wallet

LEMMA StepKeepsFunds ==
    ASSUME TypeOK, CostInv, [Next]_vars
    PROVE  \/ (\A u \in Users : KeepsFunds(u)) /\ \A d \in Calls : StaysEnded(d)
           \/ \E u \in Users : TopUp(u)
<1>1. CASE UNCHANGED <<balance, paid, call>>
    BY <1>1, FundsStay DEF StaysEnded, Open
<1>2. CASE Restart
  <2>1. ASSUME NEW c \in Calls PROVE StaysEnded(c)
    <3>1. call[c] \in Call /\ paid' = paid
      BY <1>2 DEF TypeOK, Restart, wallet
    <3>2. \/ call'[c] = call[c]
          \/ call[c].at \notin Finished /\ call'[c] = [call[c] EXCEPT !.at = Cut(call[c])]
      BY <1>2 DEF Restart, InFlight
    <3> QED BY <3>1, <3>2 DEF StaysEnded, Open, Finished, Settled, Cut, Call
  <2> QED BY <1>2, <2>1, FundsStay DEF Restart, wallet
<1> QED BY <1>1, <1>2, CallKeepsFunds
        DEF Next, CallStep, SetOfficialModels, CooldownEnds, wallet, vars

-----------------------------------------------------------------------------
\* The calls of a user that end in a step.
Closing(u) == {c \in Held(u) : ~Open(c)'}

LEMMA OutcomeSteps ==
    ASSUME NEW c \in Calls, StaysEnded(c)
    PROVE  /\ Outcome[c] # Outcome'[c] <=> Open(c) /\ ~Open(c)'
           /\ Open(c) /\ ~Open(c)' => /\ Outcome[c] = "open"
                                      /\ Price'[c] = paid'[c]
                                      /\ Outcome'[c] = IF call'[c].at \in Settled
                                                       THEN "charged" ELSE "failed"
           /\ ~(Open(c) /\ ~Open(c)') => UNCHANGED <<Outcome[c], Price[c]>>
<1>1. /\ Outcome[c] = IF Open(c) THEN "open"
                      ELSE IF call[c].at \in Settled THEN "charged" ELSE "failed"
      /\ Outcome'[c] = IF Open(c)' THEN "open"
                       ELSE IF call'[c].at \in Settled THEN "charged" ELSE "failed"
      /\ Price[c] = IF Open(c) THEN 0 ELSE paid[c]
      /\ Price'[c] = IF Open(c)' THEN 0 ELSE paid'[c]
    BY DEF Outcome, Price
<1>2. CASE Open(c) /\ Open(c)'
    BY <1>1, <1>2
<1>3. CASE Open(c) /\ ~Open(c)'
    BY <1>1, <1>3
<1>4. CASE ~Open(c)
    BY <1>1, <1>4 DEF StaysEnded
<1> QED BY <1>2, <1>3, <1>4

\* What a call that has ended has cost.
LEMMA FinalPrice ==
    ASSUME TypeOK', CostInv', BoundsInv', NEW c \in Calls, ~Open(c)'
    PROVE  /\ call'[c].at \in Settled => paid'[c] > 0
           /\ call'[c].at \notin Settled => paid'[c] \in 0..LargestReserve
<1>1. call'[c] \in Call /\ CostsWhatItShould(c)'
    BY DEF TypeOK, CostInv, CallInv
<1>2. /\ call'[c].reserve \in {0} \cup Prices
      /\ call'[c].at \in {"settling"} \cup Settled => call'[c].charge \in Charges
    BY DEF BoundsInv
<1>3. call'[c].model \in Models
    BY <1>1 DEF Call
<1>4. CASE call'[c].at \in Settled
  <2>1. paid'[c] = call'[c].charge /\ call'[c].charge \in Charges
    BY <1>1, <1>2, <1>4 DEF CostsWhatItShould
  <2>2. \A n \in Charges : n > 0
    BY OfficialChatAssumption
  <2>3. paid'[c] \in Charges
    BY <2>1
  <2> QED BY <1>4, <2>2, <2>3
<1>5. CASE call'[c].at \notin Settled
  <2>1. call'[c].at \in {"failed", "lost", "refused"}
    BY <1>5 DEF Open, Finished, Settled
  <2>2. paid'[c] \in {0, call'[c].reserve}
    BY <1>1, <2>1 DEF CostsWhatItShould
  <2>3. LargestReserve \in Nat /\ \A r \in Prices : r \in Nat /\ r <= LargestReserve
    BY <1>3, LargestReserveIs, OfficialChatAssumption DEF Prices
  <2> QED BY <1>2, <1>5, <2>2, <2>3
<1> QED BY <1>4, <1>5

\* The user's funds shrink by what the calls that end have cost, and the calls
\* that stay open have cost what the funds count.
LEMMA FundsPayTheEnded ==
    ASSUME TypeOK, TypeOK', CostInv', (\A v \in Users : KeepsFunds(v)),
           (\A c \in Calls : StaysEnded(c)), NEW u \in Users
    PROVE  /\ Funds'[u] = Funds[u] - SumFunctionOnSet(Price', Closing(u))
           /\ Funds'[u] >= 0
<1>1. PICK f : f = paid'
    OBVIOUS
<1>2. PICK H : H = Held(u)
    OBVIOUS
<1>3. PICK R : R = Held(u)'
    OBVIOUS
<1>4. PICK E : E = Closing(u)
    OBVIOUS
<1>5. PICK p : p = Price'
    OBVIOUS
<1>6. f \in [Calls -> Int] /\ balance'[u] \in Int /\ balance[u] \in Int /\ balance'[u] >= 0
    BY <1>1 DEF TypeOK, CostInv, NeverOverdrawn
<1>7. H \subseteq Calls /\ R \subseteq Calls /\ E \subseteq Calls /\ H = E \cup R /\ E \cap R = {}
  <2>1. H = {c \in Calls : UserOf[c] = u /\ Open(c)}
        /\ R = {c \in Calls : UserOf[c] = u /\ Open(c)'}
        /\ E = {c \in H : ~Open(c)'}
    BY <1>2, <1>3, <1>4 DEF Held, Closing
  <2>2. \A c \in Calls : ~Open(c) => ~Open(c)'
    BY DEF StaysEnded
  <2> QED BY <2>1, <2>2
<1>8. IsFiniteSet(H) /\ IsFiniteSet(R) /\ IsFiniteSet(E)
    BY <1>7, FiniteAssumption, FS_Subset
<1>9. \A c \in E : p[c] = f[c]
    BY <1>1, <1>2, <1>4, <1>5, OutcomeSteps DEF Closing, Held
<1>10. \A c \in R : f[c] \in Nat
  <2>1. ASSUME NEW c \in R PROVE f[c] \in Nat
    <3>1. c \in Calls /\ Open(c)'
      BY <1>3, <2>1 DEF Held
    <3>2. call'[c] \in Call /\ CostsWhatItShould(c)'
      BY <3>1 DEF TypeOK, CostInv, CallInv
    <3> QED BY <1>1, <3>1, <3>2 DEF Open, Finished, Settled, CostsWhatItShould, Holding, Call, Steps
  <2> QED BY <2>1
<1>11. Funds[u] = balance[u] + SumFunctionOnSet(paid, H)
    BY <1>2 DEF Funds
<1>12. Funds'[u] = balance'[u] + SumFunctionOnSet(f, R)
    BY <1>1, <1>3 DEF Funds
<1>13. balance'[u] + SumFunctionOnSet(f, H) = Funds[u]
    BY <1>1, <1>2, <1>11 DEF KeepsFunds, Together
<1>14. SumFunctionOnSet(f, H) = SumFunctionOnSet(f, E) + SumFunctionOnSet(f, R)
    BY <1>6, <1>7, <1>8, SumUnion
<1>15. SumFunctionOnSet(f, E) = SumFunctionOnSet(p, E)
    BY <1>6, <1>7, <1>8, <1>9, SumEqual
<1>16. SumFunctionOnSet(f, R) \in Nat
    BY <1>8, <1>10, SumNatural
<1>17. SumFunctionOnSet(f, E) \in Int
    BY <1>6, <1>7, <1>8, SumInt
<1> QED BY <1>4, <1>5, <1>6, <1>12, <1>13, <1>14, <1>15, <1>16, <1>17

\* MeteredCalls adds up with the same operator.
LEMMA MeteredSum ==
    ASSUME NEW f, NEW S
    PROVE  Metered!SumFunctionOnSet(f, S) = SumFunctionOnSet(f, S)
BY DEF Metered!SumFunctionOnSet, Metered!FoldFunctionOnSet, Metered!MapThenFoldSet,
       SumFunctionOnSet, FoldFunctionOnSet, MapThenFoldSet

LEMMA FinishStep ==
    ASSUME TypeOK, TypeOK', CostInv', BoundsInv', (\A u \in Users : KeepsFunds(u)),
           (\A c \in Calls : StaysEnded(c))
    PROVE  Metered!Finish
<1>1. ASSUME NEW c \in Calls
      PROVE  \/ UNCHANGED <<Outcome[c], Price[c]>>
             \/ /\ Outcome[c] = "open"
                /\ \/ Outcome'[c] = "charged" /\ Price'[c] > 0
                   \/ Outcome'[c] = "failed" /\ Price'[c] \in 0..LargestReserve
    BY <1>1, OutcomeSteps, FinalPrice
<1>2. ASSUME NEW u \in Users
      PROVE  /\ Funds'[u] = Funds[u] - Metered!Cost(u)
             /\ Funds'[u] >= 0
  <2>1. {c \in Metered!Ended : UserOf[c] = u} = Closing(u)
    BY OutcomeSteps DEF Metered!Ended, Closing, Held
  <2>2. Metered!Cost(u) = SumFunctionOnSet(Price', Closing(u))
    BY <2>1, MeteredSum DEF Metered!Cost
  <2> QED BY <1>2, <2>2, FundsPayTheEnded
<1> QED BY <1>1, <1>2 DEF Metered!Finish

LEMMA TopUpStep ==
    ASSUME TypeOK, NEW u \in Users, TopUp(u)
    PROVE  Metered!TopUp(u)
<1>1. call' = call /\ paid' = paid /\ balance' = [balance EXCEPT ![u] = @ + 1]
      /\ balance \in [Users -> Int]
    BY DEF TopUp, TypeOK
<1>2. \A c \in Calls : Open(c)' <=> Open(c)
    BY <1>1 DEF Open
<1>3. Outcome' = Outcome /\ Price' = Price
    BY <1>1, <1>2 DEF Outcome, Price
<1>4. \A v : Held(v)' = Held(v)
    BY <1>2 DEF Held
<1>5. ASSUME NEW v \in Users
      PROVE  Funds'[v] = balance'[v] + SumFunctionOnSet(paid, Held(v))
    BY <1>1, <1>4 DEF Funds
<1>6. ASSUME NEW v \in Users
      PROVE  Funds[v] = balance[v] + SumFunctionOnSet(paid, Held(v))
    BY DEF Funds
<1>7. paid \in [Calls -> Int]
    BY DEF TypeOK
<1>8. Funds'[u] > Funds[u]
  <2>1. SumFunctionOnSet(paid, Held(u)) \in Int
    BY <1>7, HeldFinite
  <2> QED BY <1>1, <1>5, <1>6, <2>1
<1>9. \A v \in Users : Funds'[v] = IF v = u THEN Funds'[u] ELSE Funds[v]
    BY <1>1, <1>5, <1>6
<1>10. Funds' = [v \in Users |-> Funds'[v]] /\ Funds = [v \in Users |-> Funds[v]]
    BY DEF Funds
<1>11. Funds' = [Funds EXCEPT ![u] = Funds'[u]]
    BY <1>9, <1>10
<1> QED BY <1>3, <1>8, <1>11 DEF Metered!TopUp

LEMMA MeteredStep ==
    ASSUME TypeOK, TypeOK', CostInv, CostInv', BoundsInv', [Next]_vars
    PROVE  Metered!Next
BY StepKeepsFunds, FinishStep, TopUpStep DEF Metered!Next

LEMMA MeteredInit ==
    ASSUME Init
    PROVE  Metered!Init
<1>1. TypeOK
    BY TypeInit
<1>2. \A c \in Calls : call[c].at = "new" /\ paid[c] = 0
    BY DEF Init
<1>3. \A c \in Calls : Open(c)
    BY <1>2 DEF Open, Finished, Settled
<1>4. Outcome = [c \in Calls |-> "open"] /\ Price = [c \in Calls |-> 0]
    BY <1>3 DEF Outcome, Price
<1>5. ASSUME NEW u \in Users PROVE balance[u] + SumFunctionOnSet(paid, Held(u)) \in Nat
  <2>1. IsFiniteSet(Held(u)) /\ Held(u) \subseteq Calls
    BY <1>1, HeldFinite DEF TypeOK
  <2>2. SumFunctionOnSet(paid, Held(u)) = 0
    BY <1>2, <2>1, SumZero
  <2> QED BY <2>2, OfficialChatAssumption DEF Init
<1>6. Funds \in [Users -> Nat]
    BY <1>5 DEF Funds
<1> QED BY <1>4, <1>6 DEF Metered!Init

LEMMA BoundsInit ==
    ASSUME Init
    PROVE  BoundsInv
BY DEF Init, BoundsInv, Settled

\* Seen from the wallet a call is one payment: reserving, retrying, settling and
\* refunding implement MeteredCalls.
THEOREM CallsAreMetered == Spec => MeteredSpec
<1>1. Init => TypeOK /\ CostInv /\ BoundsInv /\ Metered!Init
    BY TypeInit, CostInit, BoundsInit, MeteredInit
<1>2. TypeOK /\ BoundsInv /\ [Next]_vars => BoundsInv'
    BY BoundsStep
<1>3. TypeOK /\ TypeOK' /\ CostInv /\ CostInv' /\ BoundsInv' /\ [Next]_vars
      => [Metered!Next]_Metered!vars
    BY MeteredStep
<1> QED BY <1>1, <1>2, <1>3, TypeCorrect, CostCorrect, PTL DEF Spec, MeteredSpec, Metered!Spec
=============================================================================
