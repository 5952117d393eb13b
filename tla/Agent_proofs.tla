-------------------------- MODULE Agent_proofs --------------------------------
(***************************************************************************)
(* The agent's calls of models and its turns, for any models, callers and  *)
(* times, any stored history and any interleaving of turns: no failure     *)
(* shortens a rest, a chain of candidates gives up only when each failed   *)
(* or was resting, and no request holds an unpaired call or result.        *)
(***************************************************************************)
EXTENDS AgentLoop, ModelCalls, DataLemmas, SequenceTheorems, TLAPS

-----------------------------------------------------------------------------
(***************************************************************************)
(* Cooldowns.                                                              *)
(***************************************************************************)

\* A rest ends no later than the last failure and its count allow, so that a
\* later failure, which counts no less unless a whole window has passed, can
\* only move the end back.
EntryInv(e, t) ==
    /\ e \in Entry
    /\ e.last <= t
    /\ e.end <= e.last + StandardCooldown(e.errors)
    /\ e.disabled <= e.last + BillingCooldown(e.billing)
    /\ e.errors = 0 => e.end = 0 /\ e.disabled = 0
TrackerInv ==
    /\ now \in Nat
    /\ tracker \in [Models -> Entry]
    /\ \A m \in Models : EntryInv(tracker[m], now)

\* Longer counts give longer rests, never longer than the window.
LEMMA Cooldowns ==
    ASSUME NEW n \in Nat
    PROVE  /\ StandardCooldown(n) \in 1..60 /\ BillingCooldown(n) \in 300..FailureWindow
           /\ StandardCooldown(n) <= StandardCooldown(n + 1)
           /\ BillingCooldown(n) <= BillingCooldown(n + 1)
BY DEF StandardCooldown, BillingCooldown, FailureWindow

\* What a failure does to an entry.
Grows(e, f) == f.end >= e.end /\ f.disabled >= e.disabled

\* MarkFailure keeps the invariant and shortens nothing.
LEMMA FailureGrows ==
    ASSUME now \in Nat, NEW e, EntryInv(e, now), NEW reason
    PROVE  EntryInv(AfterFailure(e, reason), now) /\ Grows(e, AfterFailure(e, reason))
<1> DEFINE kept == IF now - e.last > FailureWindow
                   THEN [e EXCEPT !.errors = 0, !.billing = 0] ELSE e
           counted == Counted(e, reason)
<1>1. /\ e \in Entry /\ e.last <= now
      /\ e.errors \in Nat /\ e.billing \in Nat /\ e.end \in Nat /\ e.disabled \in Nat
      /\ e.last \in Nat
    BY DEF EntryInv, Entry
<1>2. /\ kept \in Entry /\ kept.end = e.end /\ kept.disabled = e.disabled
      /\ kept.errors \in Nat /\ kept.billing \in Nat
      /\ kept.end <= now + StandardCooldown(kept.errors)
      /\ kept.disabled <= now + BillingCooldown(kept.billing)
  <2>1. CASE now - e.last > FailureWindow
    <3>1. e.end <= now /\ e.disabled <= now
      <4>1. StandardCooldown(e.errors) \in 1..60 /\ BillingCooldown(e.billing) \in 300..FailureWindow
        BY <1>1, Cooldowns
      <4>2. e.end <= e.last + StandardCooldown(e.errors)
            /\ e.disabled <= e.last + BillingCooldown(e.billing)
        BY DEF EntryInv
      <4> HIDE DEF kept, counted
      <4> QED BY <1>1, <2>1, <4>1, <4>2 DEF FailureWindow
    <3>2. kept = [e EXCEPT !.errors = 0, !.billing = 0]
      BY <2>1
    <3>3. kept \in Entry /\ kept.end = e.end /\ kept.disabled = e.disabled
          /\ kept.errors = 0 /\ kept.billing = 0
      BY <1>1, <3>2 DEF Entry
    <3>4. StandardCooldown(kept.errors) \in Nat /\ BillingCooldown(kept.billing) \in Nat
      BY <3>3 DEF StandardCooldown, BillingCooldown
    <3> HIDE DEF kept, counted
    <3> QED BY <1>1, <3>1, <3>3, <3>4
  <2>2. CASE ~(now - e.last > FailureWindow)
    <3>1. kept = e
      BY <2>2
    <3>2. /\ e.end <= e.last + StandardCooldown(e.errors)
          /\ e.disabled <= e.last + BillingCooldown(e.billing)
      BY DEF EntryInv
    <3>3. StandardCooldown(e.errors) \in Nat /\ BillingCooldown(e.billing) \in Nat
      BY <1>1 DEF StandardCooldown, BillingCooldown
    <3> HIDE DEF kept, counted
    <3> QED BY <1>1, <3>1, <3>2, <3>3
  <2> HIDE DEF kept, counted
  <2> QED BY <2>1, <2>2
<1>3. counted = [kept EXCEPT !.errors = kept.errors + 1,
                             !.billing = IF reason = "billing" THEN kept.billing + 1 ELSE kept.billing,
                             !.last = now]
    BY DEF Counted
<1>4. /\ counted \in Entry /\ counted.last = now
      /\ counted.errors = kept.errors + 1 /\ counted.errors \in Nat
      /\ counted.billing \in {kept.billing, kept.billing + 1} /\ counted.billing \in Nat
      /\ counted.end = e.end /\ counted.disabled = e.disabled
  <2> HIDE DEF kept, counted
  <2> DEFINE b == IF reason = "billing" THEN kept.billing + 1 ELSE kept.billing
  <2>1. b \in Nat /\ b \in {kept.billing, kept.billing + 1}
    BY <1>2
  <2>2. counted = [kept EXCEPT !.errors = kept.errors + 1, !.billing = b, !.last = now]
    BY <1>3
  <2> HIDE DEF b
  <2>3. kept \in Entry /\ kept.errors + 1 \in Nat
    BY <1>2
  <2>4. /\ counted \in Entry
        /\ counted.errors = kept.errors + 1 /\ counted.billing = b /\ counted.last = now
        /\ counted.end = kept.end /\ counted.disabled = kept.disabled
    BY <2>1, <2>2, <2>3 DEF Entry
  <2> QED BY <1>2, <2>1, <2>3, <2>4
<1>5. /\ counted.end <= now + StandardCooldown(counted.errors)
      /\ counted.disabled <= now + BillingCooldown(counted.billing)
  <2> HIDE DEF kept, counted
  <2>1. /\ StandardCooldown(kept.errors) <= StandardCooldown(counted.errors)
        /\ BillingCooldown(kept.billing) <= BillingCooldown(counted.billing)
        /\ StandardCooldown(kept.errors) \in Nat /\ StandardCooldown(counted.errors) \in Nat
        /\ BillingCooldown(kept.billing) \in Nat /\ BillingCooldown(counted.billing) \in Nat
    BY <1>2, <1>4 DEF StandardCooldown, BillingCooldown
  <2> QED BY <1>1, <1>2, <1>4, <2>1
<1>6. CASE reason = "billing"
  <2> DEFINE f == [counted EXCEPT !.disabled = now + BillingCooldown(counted.billing)]
  <2>1. AfterFailure(e, reason) = f
    BY <1>6 DEF AfterFailure
  <2> HIDE DEF kept, counted
  <2>2. BillingCooldown(counted.billing) \in Nat
    BY <1>4 DEF BillingCooldown
  <2>3. /\ f \in Entry /\ f.last = now /\ f.errors = counted.errors
        /\ f.billing = counted.billing /\ f.end = counted.end
        /\ f.disabled = now + BillingCooldown(counted.billing)
    BY <1>4, <2>2 DEF Entry
  <2> HIDE DEF f
  <2> QED BY <1>1, <1>2, <1>4, <1>5, <2>1, <2>2, <2>3 DEF EntryInv, Grows
<1>7. CASE reason # "billing"
  <2> DEFINE f == [counted EXCEPT !.end = now + StandardCooldown(counted.errors)]
  <2>1. AfterFailure(e, reason) = f
    BY <1>7 DEF AfterFailure
  <2> HIDE DEF kept, counted
  <2>2. StandardCooldown(counted.errors) \in Nat
    BY <1>4 DEF StandardCooldown
  <2>3. /\ f \in Entry /\ f.last = now /\ f.errors = counted.errors
        /\ f.billing = counted.billing /\ f.disabled = counted.disabled
        /\ f.end = now + StandardCooldown(counted.errors)
    BY <1>4, <2>2 DEF Entry
  <2> HIDE DEF f
  <2> QED BY <1>1, <1>2, <1>4, <1>5, <2>1, <2>2, <2>3 DEF EntryInv, Grows
<1> QED BY <1>6, <1>7

\* MarkSuccess clears the entry.
LEMMA SuccessClears ==
    ASSUME now \in Nat, NEW e, EntryInv(e, now)
    PROVE  /\ EntryInv(AfterSuccess(e), now)
           /\ AfterSuccess(e).end = 0 /\ AfterSuccess(e).disabled = 0 /\ AfterSuccess(e).errors = 0
<1>1. /\ AfterSuccess(e) \in Entry /\ AfterSuccess(e).last = e.last
      /\ AfterSuccess(e).end = 0 /\ AfterSuccess(e).disabled = 0
      /\ AfterSuccess(e).errors = 0 /\ AfterSuccess(e).billing = 0
    BY DEF EntryInv, Entry, AfterSuccess
<1>2. e.last <= now /\ e.last \in Nat
    BY DEF EntryInv, Entry
<1> QED BY <1>1, <1>2 DEF EntryInv, StandardCooldown, BillingCooldown

\* What a step may do to the entry of a model.
Cleared(f) == f.end = 0 /\ f.disabled = 0 /\ f.errors = 0
Changes == \A m \in Models : Grows(tracker[m], tracker'[m]) \/ Cleared(tracker'[m])

LEMMA SameGrows ==
    ASSUME TrackerInv, tracker' = tracker
    PROVE  Changes
BY DEF TrackerInv, EntryInv, Entry, Changes, Grows

\* One MarkFailure, of whatever model, among the entries of all.
LEMMA MarkFailureKeeps ==
    ASSUME TrackerInv, NEW m, NEW reason, MarkFailure(m, reason), now' = now
    PROVE  TrackerInv' /\ Changes
<1>1. ASSUME NEW x \in Models
      PROVE  EntryInv(tracker'[x], now) /\ (Grows(tracker[x], tracker'[x]) \/ Cleared(tracker'[x]))
  <2>1. EntryInv(tracker[x], now) /\ now \in Nat
    BY DEF TrackerInv
  <2>2. CASE x = m
    <3>1. tracker'[x] = AfterFailure(tracker[x], reason)
      BY <2>2 DEF MarkFailure, TrackerInv
    <3> QED BY <2>1, <3>1, FailureGrows
  <2>3. CASE x # m
    <3>1. tracker'[x] = tracker[x]
      BY <2>3 DEF MarkFailure, TrackerInv
    <3> QED BY <2>1, <3>1 DEF EntryInv, Entry, Grows
  <2> QED BY <2>2, <2>3
<1>2. tracker' \in [Models -> Entry]
  <2>1. tracker' = [x \in Models |-> tracker'[x]]
    BY DEF MarkFailure, TrackerInv
  <2>2. \A x \in Models : tracker'[x] \in Entry
    BY <1>1 DEF EntryInv
  <2> QED BY <2>1, <2>2
<1> QED BY <1>1, <1>2 DEF TrackerInv, Changes

\* One MarkSuccess.
LEMMA MarkSuccessKeeps ==
    ASSUME TrackerInv, NEW m, MarkSuccess(m), now' = now
    PROVE  TrackerInv' /\ Changes
<1>1. ASSUME NEW x \in Models
      PROVE  EntryInv(tracker'[x], now) /\ (Grows(tracker[x], tracker'[x]) \/ Cleared(tracker'[x]))
  <2>1. EntryInv(tracker[x], now) /\ now \in Nat
    BY DEF TrackerInv
  <2>2. CASE x = m
    <3>1. tracker'[x] = AfterSuccess(tracker[x])
      BY <2>2 DEF MarkSuccess, TrackerInv
    <3> QED BY <2>1, <3>1, SuccessClears DEF Cleared
  <2>3. CASE x # m
    <3>1. tracker'[x] = tracker[x]
      BY <2>3 DEF MarkSuccess, TrackerInv
    <3> QED BY <2>1, <3>1 DEF EntryInv, Entry, Grows
  <2> QED BY <2>2, <2>3
<1>2. tracker' \in [Models -> Entry]
  <2>1. tracker' = [x \in Models |-> tracker'[x]]
    BY DEF MarkSuccess, TrackerInv
  <2>2. \A x \in Models : tracker'[x] \in Entry
    BY <1>1 DEF EntryInv
  <2> QED BY <2>1, <2>2
<1> QED BY <1>1, <1>2 DEF TrackerInv, Changes

\* Time only makes the last failure longer ago.
LEMMA TickKeeps ==
    ASSUME TrackerInv, Tick
    PROVE  TrackerInv' /\ Changes
<1>1. PICK d \in Jumps : now' = now + d
  BY DEF Tick
<1>2. now \in Nat /\ d \in Nat /\ now' \in Nat /\ now <= now' /\ tracker' = tracker
  BY <1>1, CallsAssumption DEF Tick, TrackerInv
<1>3. ASSUME NEW m \in Models
      PROVE  EntryInv(tracker'[m], now')
  BY <1>2 DEF TrackerInv, EntryInv, Entry
<1>4. TrackerInv'
  BY <1>2, <1>3 DEF TrackerInv
<1> QED BY <1>2, <1>4, SameGrows

\* TrackerInv is inductive, and every step only lengthens or clears a rest.
LEMMA TrackerStep == TrackerInv /\ [CallNext]_callVars => TrackerInv' /\ Changes
<1> SUFFICES ASSUME TrackerInv, [CallNext]_callVars
             PROVE  TrackerInv' /\ Changes
    OBVIOUS
<1>1. ASSUME now' = now, tracker' = tracker
      PROVE  TrackerInv' /\ Changes
    BY <1>1, SameGrows DEF TrackerInv, EntryInv
<1>2. ASSUME NEW c \in Calls, Proceed(c)
      PROVE  TrackerInv' /\ Changes
  <2>1. CASE CallLLM(c)
    BY <2>1, <1>1 DEF CallLLM
  <2>2. CASE ChooseCandidate(c)
    BY <2>2, <1>1 DEF ChooseCandidate
  <2>3. CASE ModelAnswers(c)
    BY <2>3, MarkSuccessKeeps DEF ModelAnswers
  <2>4. CASE GiveUp(c)
    BY <2>4, <1>1 DEF GiveUp
  <2>5. ASSUME NEW cause \in Recognised(c), AttemptFails(c, cause)
        PROVE  TrackerInv' /\ Changes
    BY <2>5, <1>1 DEF AttemptFails
  <2>6. ASSUME NEW cause \in Recognised(c), NEW reason \in Reasons, CandidateFails(c, reason, cause)
        PROVE  TrackerInv' /\ Changes
    BY <2>6, MarkFailureKeeps DEF CandidateFails
  <2>7. ASSUME NEW cause \in Recognised(c), Abort(c, cause)
        PROVE  TrackerInv' /\ Changes
    BY <2>7, <1>1 DEF Abort
  <2>8. CASE RetryTurn(c)
    BY <2>8, <1>1 DEF RetryTurn
  <2>9. CASE RetrySummary(c)
    BY <2>9, <1>1 DEF RetrySummary
  <2>10. CASE CallEnds(c)
    BY <2>10, <1>1 DEF CallEnds
  <2> QED
    BY <1>2, <2>1, <2>2, <2>3, <2>4, <2>5, <2>6, <2>7, <2>8, <2>9, <2>10 DEF Proceed
<1>3. CASE Tick
    BY <1>3, TickKeeps
<1>4. CASE UNCHANGED callVars
    BY <1>4, <1>1 DEF callVars
<1> QED BY <1>2, <1>3, <1>4 DEF CallNext

\* The bounds on the rests hold in every state.
THEOREM TrackerIsBounded == CallSpec => []TrackerInv
<1>1. CallInit => TrackerInv
  <2> SUFFICES ASSUME CallInit
               PROVE  TrackerInv
      OBVIOUS
  <2>1. now = 0 /\ tracker = [m \in Models |-> NoEntry]
      BY DEF CallInit
  <2>2. NoEntry \in Entry /\ EntryInv(NoEntry, 0)
      BY DEF NoEntry, Entry, EntryInv, StandardCooldown, BillingCooldown
  <2> QED BY <2>1, <2>2 DEF TrackerInv
<1>2. TrackerInv /\ [CallNext]_callVars => TrackerInv'
    BY TrackerStep
<1> QED BY <1>1, <1>2, PTL DEF CallSpec

\* A model that has not failed since its last success does not rest
\* (CooldownTracker.IsAvailable).
THEOREM RestsOnlyAfterFailure == CallSpec => []RestsAfterFailure
<1>1. TrackerInv => RestsAfterFailure
    BY DEF TrackerInv, EntryInv, RestsAfterFailure, IsAvailable
<1> QED BY <1>1, TrackerIsBounded, PTL

\* No failure brings the end of a rest forward, whatever calls interleave and
\* however time passes (CooldownTracker.MarkFailure, MarkSuccess).
THEOREM FailuresLengthenRests == CallSpec => CooldownsOnlyGrow
<1>1. TrackerInv /\ [CallNext]_callVars =>
        [\A m \in Models :
            \/ tracker'[m].end >= tracker[m].end /\ tracker'[m].disabled >= tracker[m].disabled
            \/ tracker'[m].end = 0 /\ tracker'[m].disabled = 0 /\ tracker'[m].errors = 0]_callVars
    BY TrackerStep DEF Changes, Grows, Cleared
<1> QED BY <1>1, TrackerIsBounded, PTL DEF CallSpec, CooldownsOnlyGrow

-----------------------------------------------------------------------------
(***************************************************************************)
(* The layers hold every candidate: Layer folds its rest into what came    *)
(* before it.                                                              *)
(***************************************************************************)
\* What Layer makes of one candidate more.
Kept(kept, m, first, layer) ==
    IF LayerOf(first, m) = layer THEN AppendUnique(kept, m) ELSE kept

LEMMA KeptIs ==
    ASSUME NEW kept \in Seq(Models), NEW m \in Models, NEW first, NEW layer
    PROVE  /\ Kept(kept, m, first, layer) \in Seq(Models)
           /\ Range(Kept(kept, m, first, layer)) =
                Range(kept) \cup (IF LayerOf(first, m) = layer THEN {m} ELSE {})
<1> DEFINE next == Append(kept, m)
           n == Len(kept)
<1>1. /\ next \in Seq(Models) /\ n \in Nat
      /\ DOMAIN kept = 1..n /\ DOMAIN next = 1..(n + 1)
      /\ next[n + 1] = m /\ \A i \in 1..n : next[i] = kept[i]
    OBVIOUS
<1>2. 1..(n + 1) = (1..n) \cup {n + 1}
    BY <1>1
<1>3. Range(next) = Range(kept) \cup {m}
  <2> HIDE DEF next, n
  <2> QED BY <1>1, <1>2 DEF Range
<1> QED BY <1>1, <1>3 DEF Kept, AppendUnique

\* The fold, taken apart.
LEMMA LayerUnrolls ==
    ASSUME NEW out \in Seq(Models), NEW candidates, NEW layer,
           Tail(candidates) \in Seq(Models)
    PROVE  LET s == Tail(candidates)
           IN  \E F : /\ F[0] = out
                      /\ \A i \in 1..Len(s) :
                            F[i] = Kept(F[i - 1], s[i], Head(candidates), layer)
                      /\ F[Len(s)] = Layer(out, candidates, layer)
<1> DEFINE s == Tail(candidates)
           n == Len(s)
           first == Head(candidates)
           V == Seq(Models)
           op(x, m) == Kept(x, m, first, layer)
           g == [i \in 1..n |-> [v \in V |-> op(v, s[i])]]
           Right(it) == it = [t \in SUBSET DOMAIN s |->
                            IF t = {} THEN out ELSE op(it[t \ {Max(t)}], s[Max(t)])]
           sum == CHOOSE it : Right(it)
<1>1. n \in Nat /\ DOMAIN s = 1..n /\ \A i \in 1..n : s[i] \in Models
    OBVIOUS
<1> HIDE DEF s, n, first
<1>2. \A i \in 1..n : \A v \in V : op(v, s[i]) \in V
    BY <1>1, KeptIs
<1> HIDE DEF V, op
<1>3. PICK it \in [SUBSET (1..n) -> V] : FoldsTo(it, out, g, n)
  <2>1. \A i \in 1..n : \A v \in V : g[i][v] \in V
    BY <1>2
  <2>2. out \in V
    BY DEF V
  <2> HIDE DEF g
  <2> QED BY <1>1, <2>1, <2>2, FoldExists
<1>4. ASSUME NEW t \in SUBSET (1..n), t # {}
      PROVE  Max(t) \in 1..n /\ it[t \ {Max(t)}] \in V
  <2>1. Max(t) \in t
    BY <1>1, <1>4, MaxIs
  <2> QED BY <1>3, <2>1
<1>5. Right(it)
  <2>1. ASSUME NEW t \in SUBSET (1..n), t # {}
        PROVE  it[t] = op(it[t \ {Max(t)}], s[Max(t)])
    <3>1. it[t] = g[Max(t)][it[t \ {Max(t)}]]
      BY <1>3, <2>1 DEF FoldsTo
    <3> QED BY <1>4, <2>1, <3>1
  <2>2. it[{}] = out
    BY <1>3 DEF FoldsTo
  <2>3. it = [t \in SUBSET (1..n) |-> it[t]]
    BY <1>3
  <2> HIDE DEF g
  <2> QED BY <1>1, <2>1, <2>2, <2>3
<1>6. Right(sum)
  <2> HIDE DEF Right
  <2> QED BY <1>5
<1>7. Layer(out, candidates, layer) = sum[DOMAIN s]
    BY DEF Layer, FoldLeft, MapThenFoldSet, op, Kept, s, first
<1> DEFINE F == [i \in 0..n |-> sum[1..i]]
<1> HIDE DEF sum
<1>8. F[0] = out
    BY <1>1, <1>6
<1>9. ASSUME NEW i \in 1..n PROVE F[i] = op(F[i - 1], s[i])
  <2>1. Max(1..i) = i /\ (1..i) \ {i} = 1..(i - 1)
    BY MaxUpTo
  <2>2. 1..i \in SUBSET DOMAIN s /\ 1..i # {}
    BY <1>1
  <2>3. sum[1..i] = op(sum[(1..i) \ {Max(1..i)}], s[Max(1..i)])
    BY <1>6, <2>2
  <2>4. F[i] = sum[1..i] /\ F[i - 1] = sum[1..(i - 1)]
    BY <1>1
  <2> HIDE DEF F, Right
  <2> QED BY <2>1, <2>3, <2>4
<1>10. F[n] = Layer(out, candidates, layer)
    BY <1>1, <1>7
<1> HIDE DEF F, Right
<1> QED BY <1>8, <1>9, <1>10 DEF op, s, n, first

LEMMA LayerIs ==
    ASSUME NEW out \in Seq(Models), NEW candidates, NEW layer,
           Tail(candidates) \in Seq(Models)
    PROVE  /\ Layer(out, candidates, layer) \in Seq(Models)
           /\ Range(Layer(out, candidates, layer)) =
                Range(out) \cup {m \in Range(Tail(candidates)) :
                                    LayerOf(Head(candidates), m) = layer}
<1> DEFINE s == Tail(candidates)
           n == Len(s)
           first == Head(candidates)
<1>1. PICK F : /\ F[0] = out
               /\ \A i \in 1..n : F[i] = Kept(F[i - 1], s[i], first, layer)
               /\ F[n] = Layer(out, candidates, layer)
    BY LayerUnrolls
<1>2. n \in Nat /\ DOMAIN s = 1..n /\ \A i \in 1..n : s[i] \in Models
    OBVIOUS
<1> HIDE DEF s, n, first
<1> DEFINE chosen(i) == {m \in {s[j] : j \in 1..i} : LayerOf(first, m) = layer}
           good == {i \in 0..n : F[i] \in Seq(Models) /\ Range(F[i]) = Range(out) \cup chosen(i)}
<1>3. 0 \in good
    BY <1>1, <1>2
<1>4. ASSUME NEW i \in 1..n, i - 1 \in good PROVE i \in good
  <2>1. F[i - 1] \in Seq(Models) /\ Range(F[i - 1]) = Range(out) \cup chosen(i - 1)
    BY <1>4
  <2>2. F[i] = Kept(F[i - 1], s[i], first, layer) /\ s[i] \in Models
    BY <1>1, <1>2
  <2>3. /\ F[i] \in Seq(Models)
        /\ Range(F[i]) = Range(F[i - 1]) \cup (IF LayerOf(first, s[i]) = layer THEN {s[i]} ELSE {})
    BY <2>1, <2>2, KeptIs
  <2>4. chosen(i) = chosen(i - 1) \cup (IF LayerOf(first, s[i]) = layer THEN {s[i]} ELSE {})
    <3>1. 1..i = (1..(i - 1)) \cup {i}
      BY <1>2
    <3>2. {s[j] : j \in 1..i} = {s[j] : j \in 1..(i - 1)} \cup {s[i]}
      BY <3>1
    <3> QED BY <3>2
  <2> QED BY <2>1, <2>3, <2>4
<1>5. n \in good
  <2> HIDE DEF good
  <2>1. n \in Nat /\ n \in 0..n
    BY <1>2
  <2>2. \A i \in 1..n : i - 1 \in good => i \in good
    BY <1>4
  <2>3. 0..n \subseteq good
    BY <1>3, <2>1, <2>2, UpTo
  <2> QED BY <2>1, <2>3
<1>6. {s[j] : j \in 1..n} = Range(s)
    BY <1>2 DEF Range
<1>7. F[n] \in Seq(Models) /\ Range(F[n]) = Range(out) \cup chosen(n)
    BY <1>5
<1> QED BY <1>1, <1>6, <1>7 DEF s, first

LEMMA HeadAndTail ==
    ASSUME NEW S, NEW q \in Seq(S), q # <<>>
    PROVE  /\ Head(q) \in S /\ Tail(q) \in Seq(S)
           /\ Range(q) = {Head(q)} \cup Range(Tail(q))
<1> DEFINE first == Head(q)
           t == Tail(q)
<1>1. \A i \in DOMAIN t : t[i] = q[i + 1] /\ i + 1 \in DOMAIN q
    OBVIOUS
<1>2. \A i \in DOMAIN q : i = 1 \/ (i - 1 \in DOMAIN t /\ t[i - 1] = q[i])
    OBVIOUS
<1>3. first = q[1] /\ 1 \in DOMAIN q /\ first \in S /\ t \in Seq(S)
    OBVIOUS
<1>4. Range(t) = {t[i] : i \in DOMAIN t} /\ Range(q) = {q[i] : i \in DOMAIN q}
    BY DEF Range
<1> HIDE DEF t, first
<1>5. ASSUME NEW m \in Range(t) PROVE m \in Range(q)
    BY <1>1, <1>4, <1>5
<1>6. ASSUME NEW m \in Range(q) PROVE m = first \/ m \in Range(t)
    BY <1>2, <1>3, <1>4, <1>6
<1>7. first \in Range(q)
    BY <1>3, <1>4
<1>8. Range(q) = {first} \cup Range(t)
    BY <1>5, <1>6, <1>7
<1> QED BY <1>3, <1>8 DEF first, t

\* buildLayeredCandidates orders the candidates and loses none.
LEMMA LayeredIs ==
    ASSUME NEW candidates \in Seq(Models), candidates # <<>>
    PROVE  /\ Layered(candidates) \in Seq(Models)
           /\ Range(Layered(candidates)) = Range(candidates)
<1> DEFINE first == Head(candidates)
           rest == Range(Tail(candidates))
           In(layer) == {m \in rest : LayerOf(first, m) = layer}
<1>1. /\ Tail(candidates) \in Seq(Models)
      /\ <<first>> \in Seq(Models) /\ Range(<<first>>) = {first}
    BY DEF Range
<1>2. Range(candidates) = {first} \cup rest
    BY HeadAndTail
<1>3. ASSUME NEW out \in Seq(Models), NEW layer
      PROVE  /\ Layer(out, candidates, layer) \in Seq(Models)
             /\ Range(Layer(out, candidates, layer)) = Range(out) \cup In(layer)
    BY <1>1, LayerIs
<1>4. PICK two : two = Layer(<<first>>, candidates, "other key")
    OBVIOUS
<1>5. PICK three : three = Layer(two, candidates, "other model")
    OBVIOUS
<1>6. Layered(candidates) = Layer(three, candidates, "other provider")
    BY <1>4, <1>5 DEF Layered
<1>7. In("other key") \cup In("other model") \cup In("other provider") = rest
  <2>1. \A m : LayerOf(first, m) \in {"other key", "other model", "other provider"}
    BY DEF LayerOf
  <2> QED BY <2>1
<1> HIDE DEF In, first, rest
<1>8. two \in Seq(Models) /\ Range(two) = {first} \cup In("other key")
    BY <1>1, <1>3, <1>4
<1>9. three \in Seq(Models) /\ Range(three) = Range(two) \cup In("other model")
    BY <1>3, <1>5, <1>8
<1>10. /\ Layered(candidates) \in Seq(Models)
       /\ Range(Layered(candidates)) = Range(three) \cup In("other provider")
    BY <1>3, <1>6, <1>9
<1> QED BY <1>2, <1>7, <1>8, <1>9, <1>10

-----------------------------------------------------------------------------
(***************************************************************************)
(* Every candidate of a call is still to come, was passed over or failed.  *)
(***************************************************************************)
\* A call that runs has its candidates accounted for, and asks one of them.
ChainInv(c, k) ==
    /\ k \in Call
    /\ k.at \in {"choosing", "asking"} =>
            k.skipped \cup k.failed \cup Range(k.queue) = Range(Candidates[c])
    /\ k.at = "asking" => k.queue # <<>>
ChainsInv ==
    /\ call \in [Calls -> Call] /\ jumps \in 0..MaxJumps
    /\ \A c \in Calls : ChainInv(c, call[c])

LEMMA NoCallTyped == NoCall \in Call /\ Done \in Call /\ NoCall.at = "idle" /\ Done.at = "done"
<1>1. <<>> \in Seq(Models)
    OBVIOUS
<1>2. 0 \in 0..MaxAttempts /\ 0 \in 0..MaxRounds
    BY DEF MaxAttempts, MaxRounds
<1>3. "other" \in Causes /\ "idle" \in CallSteps /\ "done" \in CallSteps
    BY DEF Causes, CallSteps
<1>4. NoCall \in Call /\ NoCall.at = "idle"
    BY <1>1, <1>2, <1>3 DEF NoCall, Call
<1>5. Done \in Call /\ Done.at = "done"
  <2> HIDE DEF NoCall
  <2> QED BY <1>3, <1>4 DEF Done, Call
<1> QED BY <1>4, <1>5

LEMMA AskedInv ==
    ASSUME NEW c \in Calls, NEW round \in 0..MaxRounds, NEW after \in Causes
    PROVE  ChainInv(c, Asked(c, round, after))
<1> DEFINE q == Layered(Candidates[c])
           k == [NoCall EXCEPT !.at = "choosing", !.queue = q, !.round = round, !.after = after]
<1>1. q \in Seq(Models) /\ Range(q) = Range(Candidates[c])
    BY CallsAssumption, LayeredIs
<1>2. Asked(c, round, after) = k
    BY DEF Asked
<1> HIDE DEF q
<1>3. NoCall \in Call /\ NoCall.skipped = {} /\ NoCall.failed = {}
    BY NoCallTyped DEF NoCall
<1>4. "choosing" \in CallSteps
    BY DEF CallSteps
<1>5. /\ k \in Call /\ k.at = "choosing" /\ k.queue = q
      /\ k.skipped = {} /\ k.failed = {}
  <2> HIDE DEF NoCall
  <2> QED BY <1>1, <1>3, <1>4 DEF Call
<1> HIDE DEF k
<1> QED BY <1>1, <1>2, <1>5 DEF ChainInv

LEMMA NamedTyped ==
    ASSUME NEW c \in Calls
    PROVE  /\ Recognised(c) \subseteq Causes
           /\ \A earlier, cause \in Causes : Named(earlier, cause) \in Causes
BY DEF Named, Recognised, Causes

\* What one step makes of its call.
LEMMA UpdateKeeps ==
    ASSUME ChainsInv, NEW c \in Calls, NEW k, UpdateCall(c, k), ChainInv(c, k), jumps' = jumps
    PROVE  ChainsInv'
<1>1. \A d \in Calls : call'[d] = IF d = c THEN k ELSE call[d]
    BY DEF ChainsInv, UpdateCall
<1>2. k \in Call
    BY DEF ChainInv
<1>3. call' \in [Calls -> Call]
    BY <1>2 DEF ChainsInv, UpdateCall
<1>4. ASSUME NEW d \in Calls PROVE ChainInv(d, call'[d])
    BY <1>1 DEF ChainsInv
<1>5. \A d \in Calls : ChainInv(d, call'[d])
    BY <1>4
<1> QED BY <1>3, <1>5 DEF ChainsInv

LEMMA ChainProceeds ==
    ASSUME ChainsInv, NEW c \in Calls, Proceed(c)
    PROVE  ChainsInv'
<1> DEFINE k == call[c]
           q == k.queue
<1>1. /\ k \in Call /\ ChainInv(c, k)
      /\ q \in Seq(Models) /\ k.attempt \in 0..MaxAttempts /\ k.round \in 0..MaxRounds
      /\ k.skipped \subseteq Models /\ k.failed \subseteq Models
      /\ k.cause \in Causes /\ k.after \in Causes
    BY DEF ChainsInv, Call
<1> DEFINE Goes(at) == at \in CallSteps
<1>0. Goes("choosing") /\ Goes("asking") /\ Goes("erred") /\ 0 \in 0..MaxAttempts /\ 1 \in 0..MaxAttempts
    BY DEF CallSteps, MaxAttempts
<1>2. CASE CallLLM(c)
  <2>1. 0 \in 0..MaxRounds /\ "other" \in Causes
    BY DEF MaxRounds, Causes
  <2>2. ChainInv(c, Asked(c, 0, "other"))
    BY <2>1, AskedInv
  <2> QED BY <1>2, <2>2, UpdateKeeps DEF CallLLM
<1>3. CASE ChooseCandidate(c)
  <2>1. q # <<>> /\ k.at = "choosing"
    BY <1>3 DEF ChooseCandidate
  <2>2. Head(q) \in Models /\ Tail(q) \in Seq(Models) /\ Range(q) = {Head(q)} \cup Range(Tail(q))
    BY <1>1, <2>1, HeadAndTail
  <2>3. CASE IsAvailable(Head(q))
    <3> DEFINE new == [k EXCEPT !.at = "asking", !.attempt = 1]
    <3>1. /\ new \in Call /\ new.queue = q /\ new.at = "asking"
          /\ new.skipped = k.skipped /\ new.failed = k.failed
      BY <1>0, <1>1 DEF Call
    <3>2. UpdateCall(c, new) /\ jumps' = jumps
      BY <1>3, <2>3 DEF ChooseCandidate
    <3> HIDE DEF new
    <3>3. ChainInv(c, new)
      BY <1>1, <2>1, <3>1 DEF ChainInv
    <3> QED BY <3>2, <3>3, UpdateKeeps
  <2>4. CASE ~IsAvailable(Head(q))
    <3> DEFINE new == [k EXCEPT !.queue = Tail(q), !.skipped = k.skipped \cup {Head(q)}]
    <3>1. /\ new \in Call /\ new.queue = Tail(q) /\ new.at = "choosing"
          /\ new.skipped = k.skipped \cup {Head(q)} /\ new.failed = k.failed
      BY <1>0, <1>1, <2>1, <2>2 DEF Call
    <3>2. UpdateCall(c, new) /\ jumps' = jumps
      BY <1>3, <2>4 DEF ChooseCandidate
    <3> HIDE DEF new
    <3>3. ChainInv(c, new)
      BY <1>1, <2>1, <2>2, <3>1 DEF ChainInv
    <3> QED BY <3>2, <3>3, UpdateKeeps
  <2> QED BY <2>3, <2>4
<1>4. ASSUME NEW new, UpdateCall(c, new), jumps' = jumps, new \in Call,
             new.at \notin {"choosing", "asking"}
      PROVE  ChainsInv'
  <2>1. ChainInv(c, new)
    BY <1>4 DEF ChainInv
  <2> QED BY <1>4, <2>1, UpdateKeeps
<1>5. CASE ModelAnswers(c)
  <2>1. PICK new \in {Done, [k EXCEPT !.at = "erred"]} : UpdateCall(c, new)
    BY <1>5 DEF ModelAnswers
  <2>2. new \in Call /\ new.at \notin {"choosing", "asking"}
    BY <1>0, <1>1, <2>1, NoCallTyped DEF Call
  <2> QED BY <1>4, <1>5, <2>1, <2>2 DEF ModelAnswers
<1>6. ASSUME NEW cause \in Causes, AttemptFails(c, cause) PROVE ChainsInv'
  <2> DEFINE new == [k EXCEPT !.attempt = k.attempt + 1, !.cause = Named(k.cause, cause)]
  <2>1. k.at = "asking" /\ k.attempt + 1 \in 0..MaxAttempts /\ Named(k.cause, cause) \in Causes
    BY <1>1, <1>6, NamedTyped DEF AttemptFails, MaxAttempts
  <2>2. /\ new \in Call /\ new.queue = q /\ new.at = "asking"
        /\ new.skipped = k.skipped /\ new.failed = k.failed
    BY <1>0, <1>1, <2>1 DEF Call
  <2>3. UpdateCall(c, new) /\ jumps' = jumps
    BY <1>6 DEF AttemptFails
  <2> HIDE DEF new
  <2>4. ChainInv(c, new)
    BY <1>1, <2>1, <2>2 DEF ChainInv
  <2> QED BY <2>3, <2>4, UpdateKeeps
<1>7. ASSUME NEW cause \in Causes, NEW reason, CandidateFails(c, reason, cause) PROVE ChainsInv'
  <2>1. k.at = "asking" /\ q # <<>> /\ Named(k.cause, cause) \in Causes
    BY <1>1, <1>7, NamedTyped DEF CandidateFails, ChainInv
  <2>2. Head(q) \in Models /\ Tail(q) \in Seq(Models) /\ Range(q) = {Head(q)} \cup Range(Tail(q))
    BY <1>1, <2>1, HeadAndTail
  <2> DEFINE new == [k EXCEPT !.at = "choosing", !.queue = Tail(q), !.attempt = 0,
                              !.failed = k.failed \cup {Head(q)}, !.cause = Named(k.cause, cause)]
  <2>3. /\ new \in Call /\ new.queue = Tail(q) /\ new.at = "choosing"
        /\ new.skipped = k.skipped /\ new.failed = k.failed \cup {Head(q)}
    BY <1>0, <1>1, <2>1, <2>2 DEF Call
  <2>4. UpdateCall(c, new) /\ jumps' = jumps
    BY <1>7 DEF CandidateFails
  <2> HIDE DEF new
  <2>5. ChainInv(c, new)
    BY <1>1, <2>1, <2>2, <2>3 DEF ChainInv
  <2> QED BY <2>4, <2>5, UpdateKeeps
<1>8. ASSUME NEW cause \in Causes, Abort(c, cause) PROVE ChainsInv'
  <2> DEFINE new == [k EXCEPT !.at = "erred", !.cause = cause]
  <2>1. new \in Call /\ new.at = "erred"
    BY <1>0, <1>1, <1>8 DEF Call
  <2>2. UpdateCall(c, new) /\ jumps' = jumps
    BY <1>8 DEF Abort
  <2> HIDE DEF new
  <2> QED BY <1>4, <2>1, <2>2
<1>9. CASE GiveUp(c)
  <2> DEFINE new == [k EXCEPT !.at = "erred"]
  <2>1. new \in Call /\ new.at = "erred"
    BY <1>0, <1>1 DEF Call
  <2>2. UpdateCall(c, new) /\ jumps' = jumps
    BY <1>9 DEF GiveUp
  <2> HIDE DEF new
  <2> QED BY <1>4, <2>1, <2>2
<1>10. ASSUME k.round < MaxRounds, NEW after \in Causes,
              UpdateCall(c, Asked(c, k.round + 1, after)), jumps' = jumps
       PROVE  ChainsInv'
  <2>1. k.round + 1 \in 0..MaxRounds
    BY <1>1, <1>10 DEF MaxRounds
  <2>2. ChainInv(c, Asked(c, k.round + 1, after))
    BY <1>10, <2>1, AskedInv
  <2> QED BY <1>10, <2>2, UpdateKeeps
<1>11. CASE RetryTurn(c)
    BY <1>1, <1>10, <1>11 DEF RetryTurn, TurnWorthAnother
<1>12. CASE RetrySummary(c)
    BY <1>10, <1>12 DEF RetrySummary, Causes
<1>13. CASE CallEnds(c)
    BY <1>4, <1>13, NoCallTyped DEF CallEnds
<1> QED BY <1>2, <1>3, <1>5, <1>6, <1>7, <1>8, <1>9, <1>11, <1>12, <1>13, NamedTyped DEF Proceed

LEMMA ChainStep == ChainsInv /\ [CallNext]_callVars => ChainsInv'
<1> SUFFICES ASSUME ChainsInv, [CallNext]_callVars PROVE ChainsInv'
    OBVIOUS
<1>1. CASE Tick
  <2>1. call' = call /\ jumps' \in 0..MaxJumps
    BY <1>1, CallsAssumption DEF Tick, ChainsInv
  <2> QED BY <2>1 DEF ChainsInv
<1>2. CASE UNCHANGED callVars
    BY <1>2 DEF callVars, ChainsInv
<1> QED BY <1>1, <1>2, ChainProceeds DEF CallNext

THEOREM ChainsAreAccounted == CallSpec => []ChainsInv
<1>1. CallInit => ChainsInv
  <2> SUFFICES ASSUME CallInit PROVE ChainsInv
    OBVIOUS
  <2>1. call = [c \in Calls |-> NoCall] /\ jumps = 0
    BY DEF CallInit
  <2>2. \A c \in Calls : call[c] = NoCall
    BY <2>1
  <2>3. call \in [Calls -> Call] /\ jumps \in 0..MaxJumps
    BY <2>1, NoCallTyped, CallsAssumption
  <2> QED BY <2>2, <2>3, NoCallTyped DEF ChainsInv, ChainInv
<1> QED BY <1>1, ChainStep, PTL DEF CallSpec

\* Times, entries and calls are always typed.
THEOREM CallTypeCorrect == CallSpec => []CallTypeOK
<1>1. ChainsInv /\ TrackerInv => CallTypeOK
    BY DEF ChainsInv, TrackerInv, CallTypeOK
<1> QED BY <1>1, ChainsAreAccounted, TrackerIsBounded, PTL

\* A chain that gives up has gone through every candidate of its call
\* (FallbackChain.Execute), and rests follow failures only.
THEOREM FailoverCorrect == CallSpec => []FailoverIsExact
<1>1. ASSUME ChainsInv, NEW c \in Calls, Exhausted(call[c])
      PROVE  call[c].skipped \cup call[c].failed = Range(Candidates[c])
  <2>1. ChainInv(c, call[c]) /\ call[c].at = "choosing" /\ call[c].queue = <<>>
    BY <1>1 DEF ChainsInv, Exhausted
  <2>2. Range(<<>>) = {}
    BY DEF Range
  <2> QED BY <2>1, <2>2 DEF ChainInv
<1>2. ChainsInv /\ RestsAfterFailure => FailoverIsExact
    BY <1>1 DEF FailoverIsExact
<1> QED BY <1>2, ChainsAreAccounted, RestsOnlyAfterFailure, PTL

-----------------------------------------------------------------------------
(***************************************************************************)
(* Pairing of tool calls and results, message by message.  A call turn at  *)
(* the end of a sequence may wait for results still to come.               *)
(***************************************************************************)
Answers(s, i) == UNION {s[j].calls : j \in ToolRun(s, i)}

\* Every result stands behind a call turn, and every call turn is answered, but
\* for the calls in ids, whose results may be missing at the end.
PairedBut(s, ids) ==
    \A i \in DOMAIN s :
        /\ s[i].role = "tool" => BelongsToCallTurn(SubSeq(s, 1, i - 1))
        /\ MakesCalls(s[i]) => \/ s[i].calls \subseteq Answers(s, i)
                               \/ /\ ToolRun(s, i) = (i + 1)..Len(s)
                                  /\ s[i].calls \subseteq Answers(s, i) \cup ids

LEMMA PairedButNothing ==
    ASSUME NEW s
    PROVE  PairedBut(s, {}) <=> WellPaired(s)
BY DEF PairedBut, WellPaired, Answered, Answers

LEMMA PairedButMore ==
    ASSUME NEW s, NEW ids, NEW more, PairedBut(s, ids), ids \subseteq more
    PROVE  PairedBut(s, more)
BY DEF PairedBut

\* What a message behind a sequence changes.
LEMMA AppendSays ==
    ASSUME NEW M, NEW s \in Seq(M), NEW m \in M
    PROVE  LET r == Append(s, m)
               n == Len(s) + 1
           IN  /\ r \in Seq(M) /\ n \in Nat \ {0} /\ Len(r) = n
               /\ DOMAIN s = 1..(n - 1) /\ DOMAIN r = 1..n
               /\ r[n] = m /\ SubSeq(r, 1, n - 1) = s
               /\ \A i \in 1..(n - 1) : r[i] = s[i] /\ SubSeq(r, 1, i - 1) = SubSeq(s, 1, i - 1)
<1> DEFINE r == Append(s, m)
           n == Len(s) + 1
<1>1. /\ r \in Seq(M) /\ n \in Nat \ {0} /\ Len(r) = n
      /\ DOMAIN s = 1..(n - 1) /\ DOMAIN r = 1..n
      /\ r[n] = m /\ \A i \in 1..(n - 1) : r[i] = s[i]
    OBVIOUS
<1>2. SubSeq(r, 1, n - 1) = s
    OBVIOUS
<1>3. ASSUME NEW i \in 1..(n - 1)
      PROVE  SubSeq(r, 1, i - 1) = SubSeq(s, 1, i - 1)
    OBVIOUS
<1> QED BY <1>1, <1>2, <1>3

\* The runs of tool messages in a sequence and in what is appended to.
LEMMA RunSays ==
    ASSUME NEW M, NEW s \in Seq(M), NEW m \in M
    PROVE  LET r == Append(s, m)
               n == Len(s) + 1
           IN  /\ ToolRun(r, n) = {}
               /\ \A i \in 1..(n - 1) : ToolRun(s, i) \subseteq ToolRun(r, i)
               /\ m.role = "tool" =>
                    \A i \in 1..(n - 1) : ToolRun(s, i) = (i + 1)..(n - 1) =>
                                            ToolRun(r, i) = (i + 1)..n
               /\ \A i \in 1..(n - 1) : \A ids : s[i].calls \subseteq Answers(s, i) \cup ids =>
                                           r[i].calls \subseteq Answers(r, i) \cup ids
<1> DEFINE r == Append(s, m)
           n == Len(s) + 1
<1>1. /\ n \in Nat \ {0} /\ Len(s) = n - 1 /\ Len(r) = n /\ r[n] = m
      /\ \A i \in 1..(n - 1) : r[i] = s[i]
    BY AppendSays
<1> HIDE DEF r, n
<1>2. ToolRun(r, n) = {}
    BY <1>1 DEF ToolRun
<1>3. ASSUME NEW i \in 1..(n - 1) PROVE ToolRun(s, i) \subseteq ToolRun(r, i)
  <2> SUFFICES ASSUME NEW j \in ToolRun(s, i) PROVE j \in ToolRun(r, i)
    OBVIOUS
  <2>1. j \in (i + 1)..(n - 1) /\ \A k \in (i + 1)..j : s[k].role = "tool"
    BY <1>1 DEF ToolRun
  <2>2. j \in (i + 1)..n /\ \A k \in (i + 1)..j : r[k] = s[k]
    BY <1>1, <2>1
  <2> QED BY <1>1, <2>1, <2>2 DEF ToolRun
<1>4. ASSUME m.role = "tool", NEW i \in 1..(n - 1), ToolRun(s, i) = (i + 1)..(n - 1)
      PROVE  ToolRun(r, i) = (i + 1)..n
  <2>1. \A k \in (i + 1)..(n - 1) : s[k].role = "tool"
    <3>1. ASSUME NEW k \in (i + 1)..(n - 1) PROVE s[k].role = "tool"
      <4>1. k \in ToolRun(s, i) /\ k \in (i + 1)..k
        BY <1>4
      <4> QED BY <4>1 DEF ToolRun
    <3> QED BY <3>1
  <2>2. \A k \in (i + 1)..n : r[k].role = "tool"
    <3>1. ASSUME NEW k \in (i + 1)..n PROVE r[k].role = "tool"
      <4>1. CASE k = n
        BY <1>1, <1>4, <4>1
      <4>2. CASE k # n
        <5>1. k \in (i + 1)..(n - 1) /\ k \in 1..(n - 1)
          BY <1>1, <4>2
        <5> QED BY <1>1, <2>1, <5>1
      <4> QED BY <4>1, <4>2
    <3> QED BY <3>1
  <2>3. \A j \in (i + 1)..n : (i + 1)..j \subseteq (i + 1)..n
    BY <1>1
  <2> QED BY <1>1, <2>2, <2>3 DEF ToolRun
<1>5. ASSUME NEW i \in 1..(n - 1), NEW ids, s[i].calls \subseteq Answers(s, i) \cup ids
      PROVE  r[i].calls \subseteq Answers(r, i) \cup ids
  <2>1. \A j \in ToolRun(s, i) : r[j] = s[j]
    BY <1>1 DEF ToolRun
  <2>2. Answers(s, i) \subseteq Answers(r, i)
    BY <1>3, <2>1 DEF Answers
  <2> QED BY <1>1, <1>5, <2>2
<1> QED BY <1>2, <1>3, <1>4, <1>5 DEF r, n

LEMMA BelongsSays ==
    ASSUME NEW M, NEW s \in Seq(M)
    PROVE  BelongsToCallTurn(s) <=>
             \E i \in 1..Len(s) : MakesCalls(s[i]) /\ ToolRun(s, i) = (i + 1)..Len(s)
BY DEF BelongsToCallTurn

\* A result that is waited for arrives.
LEMMA AppendTool ==
    ASSUME NEW M, NEW s \in Seq(M), NEW m \in M, NEW ids, m.role = "tool",
           PairedBut(s, m.calls \cup ids), BelongsToCallTurn(s)
    PROVE  PairedBut(Append(s, m), ids) /\ BelongsToCallTurn(Append(s, m))
<1> DEFINE r == Append(s, m)
           n == Len(s) + 1
<1>1. /\ r \in Seq(M) /\ n \in Nat \ {0} /\ Len(r) = n /\ Len(s) = n - 1
      /\ DOMAIN s = 1..(n - 1) /\ DOMAIN r = 1..n
      /\ r[n] = m /\ SubSeq(r, 1, n - 1) = s
      /\ \A i \in 1..(n - 1) : r[i] = s[i] /\ SubSeq(r, 1, i - 1) = SubSeq(s, 1, i - 1)
    BY AppendSays
<1>2. /\ ToolRun(r, n) = {}
      /\ \A i \in 1..(n - 1) : ToolRun(s, i) = (i + 1)..(n - 1) => ToolRun(r, i) = (i + 1)..n
      /\ \A i \in 1..(n - 1) : \A more : s[i].calls \subseteq Answers(s, i) \cup more =>
                                         r[i].calls \subseteq Answers(r, i) \cup more
    BY RunSays
<1> HIDE DEF r, n
<1>3. BelongsToCallTurn(r)
  <2>1. PICK i \in 1..(n - 1) : MakesCalls(s[i]) /\ ToolRun(s, i) = (i + 1)..(n - 1)
    BY <1>1, BelongsSays
  <2>2. i \in 1..n /\ MakesCalls(r[i]) /\ ToolRun(r, i) = (i + 1)..n
    BY <1>1, <1>2, <2>1
  <2> QED BY <1>1, <2>2, BelongsSays
<1>4. ASSUME NEW i \in 1..n
      PROVE  /\ r[i].role = "tool" => BelongsToCallTurn(SubSeq(r, 1, i - 1))
             /\ MakesCalls(r[i]) => \/ r[i].calls \subseteq Answers(r, i)
                                    \/ /\ ToolRun(r, i) = (i + 1)..n
                                       /\ r[i].calls \subseteq Answers(r, i) \cup ids
  <2>1. CASE i = n
    BY <1>1, <2>1 DEF MakesCalls
  <2>2. CASE i # n
    <3>1. i \in 1..(n - 1)
      BY <1>1, <2>2
    <3>2. /\ s[i].role = "tool" => BelongsToCallTurn(SubSeq(s, 1, i - 1))
          /\ MakesCalls(s[i]) => \/ s[i].calls \subseteq Answers(s, i)
                                 \/ /\ ToolRun(s, i) = (i + 1)..(n - 1)
                                    /\ s[i].calls \subseteq Answers(s, i) \cup (m.calls \cup ids)
      BY <1>1, <3>1 DEF PairedBut
    <3>3. r[i] = s[i] /\ SubSeq(r, 1, i - 1) = SubSeq(s, 1, i - 1)
      BY <1>1, <3>1
    <3>4. CASE ~MakesCalls(s[i])
      BY <3>2, <3>3, <3>4
    <3>5. CASE MakesCalls(s[i]) /\ s[i].calls \subseteq Answers(s, i)
      <4>1. r[i].calls \subseteq Answers(r, i) \cup {}
        BY <1>2, <3>1, <3>5
      <4> QED BY <3>2, <3>3, <4>1
    <3>6. CASE /\ ToolRun(s, i) = (i + 1)..(n - 1)
               /\ s[i].calls \subseteq Answers(s, i) \cup (m.calls \cup ids)
      <4>1. ToolRun(r, i) = (i + 1)..n
        BY <1>2, <3>1, <3>6
      <4>2. r[i].calls \subseteq Answers(r, i) \cup (m.calls \cup ids)
        BY <1>2, <3>1, <3>6
      <4>3. n \in ToolRun(r, i)
        BY <1>1, <3>1, <4>1
      <4>4. m.calls \subseteq Answers(r, i)
        BY <1>1, <4>3 DEF Answers
      <4> QED BY <3>2, <3>3, <4>1, <4>2, <4>4
    <3> QED BY <3>2, <3>4, <3>5, <3>6
  <2> QED BY <2>1, <2>2
<1>5. PairedBut(r, ids)
    BY <1>1, <1>4 DEF PairedBut
<1> QED BY <1>3, <1>5 DEF r

\* A call turn opens and waits for its results; any other message is complete.
LEMMA AppendOther ==
    ASSUME NEW M, NEW s \in Seq(M), NEW m \in M, m.role # "tool", WellPaired(s)
    PROVE  /\ MakesCalls(m) => PairedBut(Append(s, m), m.calls) /\ BelongsToCallTurn(Append(s, m))
           /\ ~MakesCalls(m) => WellPaired(Append(s, m))
<1> DEFINE r == Append(s, m)
           n == Len(s) + 1
<1>1. /\ r \in Seq(M) /\ n \in Nat \ {0} /\ Len(r) = n /\ Len(s) = n - 1
      /\ DOMAIN s = 1..(n - 1) /\ DOMAIN r = 1..n
      /\ r[n] = m /\ SubSeq(r, 1, n - 1) = s
      /\ \A i \in 1..(n - 1) : r[i] = s[i] /\ SubSeq(r, 1, i - 1) = SubSeq(s, 1, i - 1)
    BY AppendSays
<1>2. /\ ToolRun(r, n) = {}
      /\ \A i \in 1..(n - 1) : \A more : s[i].calls \subseteq Answers(s, i) \cup more =>
                                         r[i].calls \subseteq Answers(r, i) \cup more
    BY RunSays
<1> HIDE DEF r, n
<1>3. (n + 1)..n = {}
    BY <1>1
<1>4. ASSUME NEW i \in 1..(n - 1)
      PROVE  /\ r[i].role = "tool" => BelongsToCallTurn(SubSeq(r, 1, i - 1))
             /\ MakesCalls(r[i]) => r[i].calls \subseteq Answers(r, i)
  <2>1. PairedBut(s, {})
    BY PairedButNothing
  <2>2. /\ s[i].role = "tool" => BelongsToCallTurn(SubSeq(s, 1, i - 1))
        /\ MakesCalls(s[i]) => s[i].calls \subseteq Answers(s, i) \cup {}
    BY <1>1, <2>1 DEF PairedBut
  <2>3. r[i] = s[i] /\ SubSeq(r, 1, i - 1) = SubSeq(s, 1, i - 1)
    BY <1>1
  <2>4. s[i].calls \subseteq Answers(s, i) \cup {} => r[i].calls \subseteq Answers(r, i) \cup {}
    BY <1>2
  <2> QED BY <2>2, <2>3, <2>4
<1>5. \A i \in 1..n : i = n \/ i \in 1..(n - 1)
    BY <1>1
<1>6. CASE MakesCalls(m)
  <2>1. PairedBut(r, m.calls)
    BY <1>1, <1>2, <1>3, <1>4, <1>5 DEF PairedBut
  <2>2. n \in 1..Len(r) /\ MakesCalls(r[n]) /\ ToolRun(r, n) = (n + 1)..Len(r)
    BY <1>1, <1>2, <1>3, <1>6
  <2>3. BelongsToCallTurn(r)
    BY <1>1, <2>2, BelongsSays
  <2> QED BY <1>6, <2>1, <2>3 DEF r
<1>7. CASE ~MakesCalls(m)
  <2>1. PairedBut(r, {})
    BY <1>1, <1>4, <1>5, <1>7 DEF PairedBut
  <2> QED BY <1>7, <2>1, PairedButNothing DEF r
<1> QED BY <1>6, <1>7

LEMMA RunIsAll ==
    ASSUME NEW M, NEW s \in Seq(M), NEW i \in 1..Len(s)
    PROVE  ToolRun(s, i) = (i + 1)..Len(s) <=> \A k \in (i + 1)..Len(s) : s[k].role = "tool"
<1> DEFINE n == Len(s)
<1>1. n \in Nat /\ i \in 1..n
    OBVIOUS
<1> HIDE DEF n
<1>2. ToolRun(s, i) = {j \in (i + 1)..n : \A k \in (i + 1)..j : s[k].role = "tool"}
    BY DEF ToolRun, n
<1>3. ASSUME ToolRun(s, i) = (i + 1)..n, NEW k \in (i + 1)..n PROVE s[k].role = "tool"
  <2>1. k \in ToolRun(s, i) /\ k \in (i + 1)..k
    BY <1>1, <1>3
  <2> QED BY <1>2, <2>1
<1>4. ASSUME \A k \in (i + 1)..n : s[k].role = "tool" PROVE ToolRun(s, i) = (i + 1)..n
  <2>1. \A j \in (i + 1)..n : (i + 1)..j \subseteq (i + 1)..n
    BY <1>1
  <2> QED BY <1>2, <1>4, <2>1
<1> QED BY <1>3, <1>4 DEF n

\* A prefix ends in the run of a call turn.
LEMMA PrefixBelongs ==
    ASSUME NEW M, NEW s \in Seq(M), NEW n \in 0..Len(s)
    PROVE  BelongsToCallTurn(SubSeq(s, 1, n)) <=>
             \E i \in 1..n : MakesCalls(s[i]) /\ \A k \in (i + 1)..n : s[k].role = "tool"
<1> DEFINE t == SubSeq(s, 1, n)
<1>1. t \in Seq(M) /\ Len(t) = n /\ n \in Nat /\ \A i \in 1..n : t[i] = s[i]
    OBVIOUS
<1> HIDE DEF t
<1>2. ASSUME NEW i \in 1..n
      PROVE  ToolRun(t, i) = (i + 1)..n <=> \A k \in (i + 1)..n : s[k].role = "tool"
  <2>1. ToolRun(t, i) = (i + 1)..n <=> \A k \in (i + 1)..n : t[k].role = "tool"
    BY <1>1, RunIsAll
  <2>2. \A k \in (i + 1)..n : t[k] = s[k]
    BY <1>1
  <2> QED BY <2>1, <2>2
<1>3. BelongsToCallTurn(t) <=> \E i \in 1..n : MakesCalls(t[i]) /\ ToolRun(t, i) = (i + 1)..n
    BY <1>1, BelongsSays
<1> QED BY <1>1, <1>2, <1>3 DEF t

\* The sanitised history and the turn's own messages behind it.
LEMMA PairedTogether ==
    ASSUME NEW M, NEW a \in Seq(M), NEW b \in Seq(M), WellPaired(a), WellPaired(b)
    PROVE  WellPaired(a \o b)
<1> DEFINE r == a \o b
           p == Len(a)
           q == Len(b)
<1>1. /\ r \in Seq(M) /\ p \in Nat /\ q \in Nat /\ Len(r) = p + q
      /\ DOMAIN a = 1..p /\ DOMAIN b = 1..q /\ DOMAIN r = 1..(p + q)
      /\ \A i \in 1..p : r[i] = a[i]
      /\ \A i \in 1..q : r[p + i] = b[i]
    OBVIOUS
<1>2. Len(a) = p /\ Len(b) = q
    OBVIOUS
<1> HIDE DEF r, p, q
<1>3. PairedBut(a, {}) /\ PairedBut(b, {})
    BY PairedButNothing
<1>4. ASSUME NEW i \in 1..p
      PROVE  /\ r[i].role = "tool" => BelongsToCallTurn(SubSeq(r, 1, i - 1))
             /\ MakesCalls(r[i]) => r[i].calls \subseteq Answers(r, i)
  <2>1. /\ a[i].role = "tool" => BelongsToCallTurn(SubSeq(a, 1, i - 1))
        /\ MakesCalls(a[i]) => a[i].calls \subseteq Answers(a, i)
    BY <1>1, <1>3 DEF PairedBut
  <2>2. BelongsToCallTurn(SubSeq(a, 1, i - 1)) => BelongsToCallTurn(SubSeq(r, 1, i - 1))
    <3>1. i - 1 \in 0..Len(a) /\ i - 1 \in 0..Len(r)
      BY <1>1, <1>2
    <3>2. BelongsToCallTurn(SubSeq(a, 1, i - 1)) <=>
             \E j \in 1..(i - 1) : MakesCalls(a[j]) /\ \A k \in (j + 1)..(i - 1) : a[k].role = "tool"
      BY <3>1, PrefixBelongs
    <3>3. BelongsToCallTurn(SubSeq(r, 1, i - 1)) <=>
             \E j \in 1..(i - 1) : MakesCalls(r[j]) /\ \A k \in (j + 1)..(i - 1) : r[k].role = "tool"
      BY <1>1, <3>1, PrefixBelongs
    <3>4. \A j \in 1..(i - 1) : r[j] = a[j] /\ \A k \in (j + 1)..(i - 1) : r[k] = a[k]
      BY <1>1
    <3> QED BY <3>2, <3>3, <3>4
  <2>3. Answers(a, i) \subseteq Answers(r, i)
    <3>1. ASSUME NEW j \in ToolRun(a, i) PROVE j \in ToolRun(r, i) /\ r[j] = a[j]
      <4>1. j \in (i + 1)..p /\ \A k \in (i + 1)..j : a[k].role = "tool"
        BY <1>2 DEF ToolRun
      <4>2. j \in (i + 1)..(p + q) /\ r[j] = a[j] /\ \A k \in (i + 1)..j : r[k] = a[k]
        BY <1>1, <4>1
      <4> QED BY <1>1, <4>1, <4>2 DEF ToolRun
    <3> QED BY <3>1 DEF Answers
  <2> QED BY <1>1, <2>1, <2>2, <2>3
<1>5. ASSUME NEW i \in 1..q
      PROVE  /\ r[p + i].role = "tool" => BelongsToCallTurn(SubSeq(r, 1, p + i - 1))
             /\ MakesCalls(r[p + i]) => r[p + i].calls \subseteq Answers(r, p + i)
  <2>1. /\ b[i].role = "tool" => BelongsToCallTurn(SubSeq(b, 1, i - 1))
        /\ MakesCalls(b[i]) => b[i].calls \subseteq Answers(b, i)
    BY <1>1, <1>3 DEF PairedBut
  <2>2. ASSUME BelongsToCallTurn(SubSeq(b, 1, i - 1))
        PROVE  BelongsToCallTurn(SubSeq(r, 1, p + i - 1))
    <3>1. i - 1 \in 0..Len(b) /\ p + i - 1 \in 0..Len(r)
      BY <1>1, <1>2
    <3>2. PICK j \in 1..(i - 1) : MakesCalls(b[j]) /\ \A k \in (j + 1)..(i - 1) : b[k].role = "tool"
      BY <2>2, <3>1, PrefixBelongs
    <3>3. p + j \in 1..(p + i - 1) /\ MakesCalls(r[p + j])
      <4>1. j \in 1..q /\ p + j \in 1..(p + i - 1)
        BY <1>1, <3>2
      <4>2. r[p + j] = b[j]
        BY <1>1, <4>1
      <4> QED BY <3>2, <4>1, <4>2
    <3>4. ASSUME NEW k \in (p + j + 1)..(p + i - 1) PROVE r[k].role = "tool"
      <4>1. k - p \in (j + 1)..(i - 1) /\ k - p \in 1..q /\ p + (k - p) = k
        BY <1>1, <3>2
      <4>2. r[k] = b[k - p]
        BY <1>1, <4>1
      <4> QED BY <3>2, <4>1, <4>2
    <3> QED BY <1>1, <3>1, <3>3, <3>4, PrefixBelongs
  <2>3. Answers(b, i) \subseteq Answers(r, p + i)
    <3>1. ASSUME NEW j \in ToolRun(b, i) PROVE p + j \in ToolRun(r, p + i) /\ r[p + j] = b[j]
      <4>1. j \in (i + 1)..q /\ \A k \in (i + 1)..j : b[k].role = "tool"
        BY <1>2 DEF ToolRun
      <4>2. p + j \in (p + i + 1)..(p + q) /\ r[p + j] = b[j]
        BY <1>1, <4>1
      <4>3. ASSUME NEW k \in (p + i + 1)..(p + j) PROVE r[k].role = "tool"
        <5>1. k - p \in (i + 1)..j /\ k - p \in 1..q /\ p + (k - p) = k
          BY <1>1, <4>1
        <5>2. r[k] = b[k - p]
          BY <1>1, <5>1
        <5> QED BY <4>1, <5>1, <5>2
      <4> QED BY <1>1, <4>2, <4>3 DEF ToolRun
    <3> QED BY <3>1 DEF Answers
  <2> QED BY <1>1, <2>1, <2>2, <2>3
<1>6. ASSUME NEW i \in 1..(p + q)
      PROVE  /\ r[i].role = "tool" => BelongsToCallTurn(SubSeq(r, 1, i - 1))
             /\ MakesCalls(r[i]) => r[i].calls \subseteq Answers(r, i)
  <2>1. CASE i \in 1..p
    BY <1>4, <2>1
  <2>2. CASE i \notin 1..p
    <3> DEFINE d == i - p
    <3>1. d \in 1..q /\ i = p + d
      BY <1>1, <2>2
    <3> HIDE DEF d
    <3>2. /\ r[p + d].role = "tool" => BelongsToCallTurn(SubSeq(r, 1, p + d - 1))
          /\ MakesCalls(r[p + d]) => r[p + d].calls \subseteq Answers(r, p + d)
      BY <1>5, <3>1
    <3>3. /\ r[i] = r[p + d] /\ SubSeq(r, 1, i - 1) = SubSeq(r, 1, p + d - 1)
          /\ Answers(r, i) = Answers(r, p + d)
      BY <1>1, <3>1
    <3> QED BY <3>2, <3>3, Zenon
  <2> QED BY <2>1, <2>2
<1>7. PairedBut(r, {})
    BY <1>1, <1>6 DEF PairedBut
<1> QED BY <1>7, PairedButNothing DEF r

-----------------------------------------------------------------------------
(***************************************************************************)
(* sanitizeHistoryForProvider, message by message.                         *)
(***************************************************************************)
KeptFirst(kept, m) == IF MayFollow(kept, m) THEN Append(kept, m) ELSE kept

LEMMA FirstPassUnrolls ==
    ASSUME NEW M, NEW s \in Seq(M)
    PROVE  \E F : /\ F[0] = <<>>
                  /\ \A i \in 1..Len(s) : F[i] = KeptFirst(F[i - 1], s[i])
                  /\ F[Len(s)] = FirstPass(s)
<1> DEFINE n == Len(s)
           V == Seq(M)
           op(x, m) == KeptFirst(x, m)
           g == [i \in 1..n |-> [v \in V |-> op(v, s[i])]]
           Right(it) == it = [t \in SUBSET DOMAIN s |->
                            IF t = {} THEN <<>> ELSE op(it[t \ {Max(t)}], s[Max(t)])]
           sum == CHOOSE it : Right(it)
<1>1. n \in Nat /\ DOMAIN s = 1..n /\ \A i \in 1..n : s[i] \in M
    OBVIOUS
<1> HIDE DEF n
<1>2. \A i \in 1..n : \A v \in V : op(v, s[i]) \in V
    BY <1>1 DEF KeptFirst
<1> HIDE DEF op
<1>3. PICK it \in [SUBSET (1..n) -> V] : FoldsTo(it, <<>>, g, n)
  <2>1. \A i \in 1..n : \A v \in V : g[i][v] \in V
    BY <1>2
  <2>2. <<>> \in V
    OBVIOUS
  <2> HIDE DEF g, V
  <2> QED BY <1>1, <2>1, <2>2, FoldExists
<1> HIDE DEF V
<1>4. ASSUME NEW t \in SUBSET (1..n), t # {}
      PROVE  Max(t) \in 1..n /\ it[t \ {Max(t)}] \in V
  <2>1. Max(t) \in t
    BY <1>1, <1>4, MaxIs
  <2> QED BY <1>3, <2>1
<1>5. Right(it)
  <2>1. ASSUME NEW t \in SUBSET (1..n), t # {}
        PROVE  it[t] = op(it[t \ {Max(t)}], s[Max(t)])
    <3>1. it[t] = g[Max(t)][it[t \ {Max(t)}]]
      BY <1>3, <2>1 DEF FoldsTo
    <3> QED BY <1>4, <2>1, <3>1
  <2>2. it[{}] = <<>>
    BY <1>3 DEF FoldsTo
  <2>3. it = [t \in SUBSET (1..n) |-> it[t]]
    BY <1>3
  <2> HIDE DEF g
  <2> QED BY <1>1, <2>1, <2>2, <2>3
<1>6. Right(sum)
  <2> HIDE DEF Right
  <2> QED BY <1>5
<1>7. FirstPass(s) = sum[DOMAIN s]
    BY DEF FirstPass, FoldLeft, MapThenFoldSet, op, KeptFirst
<1> DEFINE F == [i \in 0..n |-> sum[1..i]]
<1> HIDE DEF sum
<1>8. F[0] = <<>>
    BY <1>1, <1>6
<1>9. ASSUME NEW i \in 1..n PROVE F[i] = op(F[i - 1], s[i])
  <2>1. Max(1..i) = i /\ (1..i) \ {i} = 1..(i - 1)
    BY MaxUpTo
  <2>2. 1..i \in SUBSET DOMAIN s /\ 1..i # {}
    <3>1. 1..i \subseteq 1..n /\ i \in 1..i
      BY <1>1
    <3> QED BY <1>1, <3>1
  <2>3. sum[1..i] = op(sum[(1..i) \ {Max(1..i)}], s[Max(1..i)])
    BY <1>6, <2>2
  <2>4. F[i] = sum[1..i] /\ F[i - 1] = sum[1..(i - 1)]
    BY <1>1
  <2> HIDE DEF F, Right
  <2> QED BY <2>1, <2>3, <2>4
<1>10. F[n] = FirstPass(s)
    BY <1>1, <1>7
<1> HIDE DEF F, Right
<1> QED BY <1>8, <1>9, <1>10 DEF op, n

\* After the first pass every result stands in the row behind some call turn.
Tied(s) == \A i \in DOMAIN s : s[i].role = "tool" => BelongsToCallTurn(SubSeq(s, 1, i - 1))

LEMMA FirstPassTies ==
    ASSUME NEW M, NEW s \in Seq(M)
    PROVE  FirstPass(s) \in Seq(M) /\ Tied(FirstPass(s))
<1> DEFINE n == Len(s)
<1>1. PICK F : /\ F[0] = <<>>
               /\ \A i \in 1..n : F[i] = KeptFirst(F[i - 1], s[i])
               /\ F[n] = FirstPass(s)
    BY FirstPassUnrolls
<1>2. n \in Nat /\ \A i \in 1..n : s[i] \in M
    OBVIOUS
<1> HIDE DEF n
<1> DEFINE good == {i \in 0..n : F[i] \in Seq(M) /\ Tied(F[i])}
<1>3. 0 \in good
  <2>1. <<>> \in Seq(M) /\ Tied(<<>>)
    BY DEF Tied
  <2>2. F[0] \in Seq(M) /\ Tied(F[0])
    BY <1>1, <2>1, Zenon
  <2> QED BY <1>2, <2>2
<1>4. ASSUME NEW i \in 1..n, i - 1 \in good PROVE i \in good
  <2>1. PICK k \in Seq(M) : k = F[i - 1] /\ Tied(k)
    BY <1>4
  <2>2. PICK m \in M : m = s[i] /\ F[i] = KeptFirst(k, m)
    BY <1>1, <1>2, <2>1
  <2>3. CASE ~MayFollow(k, m)
    BY <2>1, <2>2, <2>3 DEF KeptFirst
  <2>4. CASE MayFollow(k, m)
    <3> DEFINE r == Append(k, m)
               l == Len(k) + 1
    <3>1. /\ r \in Seq(M) /\ l \in Nat \ {0}
          /\ DOMAIN k = 1..(l - 1) /\ DOMAIN r = 1..l
          /\ r[l] = m /\ SubSeq(r, 1, l - 1) = k
          /\ \A j \in 1..(l - 1) : r[j] = k[j] /\ SubSeq(r, 1, j - 1) = SubSeq(k, 1, j - 1)
      BY AppendSays
    <3>2. F[i] = r
      BY <2>2, <2>4 DEF KeptFirst
    <3> HIDE DEF r, l
    <3>3. \A j \in 1..l : j = l \/ j \in 1..(l - 1)
      BY <3>1
    <3>4. Tied(r)
      BY <2>1, <2>4, <3>1, <3>3 DEF Tied, MayFollow
    <3> QED BY <3>1, <3>2, <3>4
  <2> QED BY <2>3, <2>4
<1>5. n \in good
  <2> HIDE DEF good
  <2>1. n \in Nat /\ n \in 0..n
    BY <1>2
  <2>2. \A i \in 1..n : i - 1 \in good => i \in good
    BY <1>4
  <2>3. 0..n \subseteq good
    BY <1>3, <2>1, <2>2, UpTo
  <2> QED BY <2>1, <2>3
<1> QED BY <1>1, <1>5

LEMMA SecondPassUnrolls ==
    ASSUME NEW M, NEW s \in Seq(M)
    PROVE  \E F : /\ F[0] = <<>>
                  /\ \A i \in 1..Len(s) : F[i] = IF i \in Incomplete(s) THEN F[i - 1]
                                                 ELSE Append(F[i - 1], s[i])
                  /\ F[Len(s)] = SecondPass(s)
<1> DEFINE n == Len(s)
           V == Seq(M)
           gone == Incomplete(s)
           op(x, i) == IF i \in gone THEN x ELSE Append(x, s[i])
           g == [i \in 1..n |-> [v \in V |-> op(v, i)]]
           places == [i \in DOMAIN s |-> i]
           Right(it) == it = [t \in SUBSET DOMAIN places |->
                            IF t = {} THEN <<>> ELSE op(it[t \ {Max(t)}], places[Max(t)])]
           sum == CHOOSE it : Right(it)
<1>1. n \in Nat /\ DOMAIN places = 1..n /\ \A i \in 1..n : s[i] \in M /\ places[i] = i
    OBVIOUS
<1> HIDE DEF n
<1>2. \A i \in 1..n : \A v \in V : op(v, i) \in V
    BY <1>1
<1> HIDE DEF op, gone
<1>3. PICK it \in [SUBSET (1..n) -> V] : FoldsTo(it, <<>>, g, n)
  <2>1. \A i \in 1..n : \A v \in V : g[i][v] \in V
    BY <1>2
  <2>2. <<>> \in V
    OBVIOUS
  <2> HIDE DEF g, V
  <2> QED BY <1>1, <2>1, <2>2, FoldExists
<1> HIDE DEF V
<1>4. ASSUME NEW t \in SUBSET (1..n), t # {}
      PROVE  Max(t) \in 1..n /\ it[t \ {Max(t)}] \in V
  <2>1. Max(t) \in t
    BY <1>1, <1>4, MaxIs
  <2> QED BY <1>3, <2>1
<1>5. Right(it)
  <2>1. ASSUME NEW t \in SUBSET (1..n), t # {}
        PROVE  it[t] = op(it[t \ {Max(t)}], places[Max(t)])
    <3>1. it[t] = g[Max(t)][it[t \ {Max(t)}]]
      BY <1>3, <2>1 DEF FoldsTo
    <3>2. Max(t) \in 1..n /\ it[t \ {Max(t)}] \in V
      BY <1>4, <2>1
    <3>3. it[t] = op(it[t \ {Max(t)}], Max(t))
      BY <3>1, <3>2
    <3>4. places[Max(t)] = Max(t)
      BY <1>1, <3>2
    <3> HIDE DEF places, g
    <3> QED BY <3>3, <3>4
  <2>2. it[{}] = <<>>
    BY <1>3 DEF FoldsTo
  <2>3. it = [t \in SUBSET (1..n) |-> it[t]]
    BY <1>3
  <2> HIDE DEF g, places
  <2> QED BY <1>1, <2>1, <2>2, <2>3
<1>6. Right(sum)
  <2> HIDE DEF Right
  <2> QED BY <1>5
<1>7. SecondPass(s) = sum[DOMAIN places]
    BY DEF SecondPass, FoldLeftDomain, FoldLeft, MapThenFoldSet, op, gone
<1> DEFINE F == [i \in 0..n |-> sum[1..i]]
<1> HIDE DEF sum, places
<1>8. F[0] = <<>>
    BY <1>1, <1>6
<1>9. ASSUME NEW i \in 1..n PROVE F[i] = op(F[i - 1], i)
  <2>1. Max(1..i) = i /\ (1..i) \ {i} = 1..(i - 1)
    BY MaxUpTo
  <2>2. 1..i \in SUBSET DOMAIN places /\ 1..i # {}
    <3>1. 1..i \subseteq 1..n /\ i \in 1..i
      BY <1>1
    <3> QED BY <1>1, <3>1
  <2>3. sum[1..i] = op(sum[(1..i) \ {Max(1..i)}], places[Max(1..i)])
    BY <1>6, <2>2
  <2>4. F[i] = sum[1..i] /\ F[i - 1] = sum[1..(i - 1)] /\ places[i] = i
    BY <1>1
  <2> HIDE DEF F, Right
  <2> QED BY <2>1, <2>3, <2>4
<1>10. F[n] = SecondPass(s)
    BY <1>1, <1>7
<1> HIDE DEF F, Right
<1> QED BY <1>8, <1>9, <1>10 DEF op, n, gone

-----------------------------------------------------------------------------
\* The results directly behind a position.
LEMMA ComingSays ==
    ASSUME NEW M, NEW s \in Seq(M), NEW k \in 1..Len(s)
    PROVE  /\ s[k].role = "tool" => Answers(s, k - 1) = s[k].calls \cup Answers(s, k)
           /\ s[k].role # "tool" => Answers(s, k - 1) = {}
<1> DEFINE n == Len(s)
<1>1. n \in Nat /\ k \in 1..n /\ k - 1 + 1 = k
    OBVIOUS
<1> HIDE DEF n
<1>2. /\ ToolRun(s, k - 1) = {j \in k..n : \A l \in k..j : s[l].role = "tool"}
      /\ ToolRun(s, k) = {j \in (k + 1)..n : \A l \in (k + 1)..j : s[l].role = "tool"}
    BY <1>1 DEF ToolRun, n
<1>3. CASE s[k].role = "tool"
  <2>1. ToolRun(s, k - 1) = {k} \cup ToolRun(s, k)
    <3>1. \A j \in k..n : k..j = {k} \cup ((k + 1)..j)
      BY <1>1
    <3>2. \A j \in k..n : j = k \/ j \in (k + 1)..n
      BY <1>1
    <3>3. k \in k..n /\ \A j \in (k + 1)..n : j \in k..n
      BY <1>1
    <3>4. \A l \in k..k : l = k
      BY <1>1
    <3> QED BY <1>2, <1>3, <3>1, <3>2, <3>3, <3>4
  <2> QED BY <1>3, <2>1 DEF Answers
<1>4. CASE s[k].role # "tool"
  <2>1. ToolRun(s, k - 1) = {}
    <3>1. \A j \in k..n : k \in k..j
      BY <1>1
    <3> QED BY <1>2, <1>4, <3>1
  <2> QED BY <1>4, <2>1 DEF Answers
<1> QED BY <1>3, <1>4

LEMMA NothingComes ==
    ASSUME NEW M, NEW s \in Seq(M)
    PROVE  Answers(s, Len(s)) = {}
<1>1. ToolRun(s, Len(s)) = {}
    BY DEF ToolRun
<1> QED BY <1>1 DEF Answers

\* The call turn before a position's results, if it is still there.
Opens(s, j, i) == MakesCalls(s[j]) /\ \A l \in (j + 1)..i : s[l].role = "tool"
Linked(s, i) == \E j \in 1..i : Opens(s, j, i) /\ j \notin Incomplete(s)

LEMMA GoneSays ==
    ASSUME NEW M, NEW s \in Seq(M), NEW k \in 1..Len(s)
    PROVE  k \in Incomplete(s) <=>
             \E j \in 1..k : ~Answered(s, j) /\ Opens(s, j, k)
<1> DEFINE n == Len(s)
<1>1. n \in Nat /\ k \in 1..n /\ DOMAIN s = 1..n
    OBVIOUS
<1>2. \A j : k \in ToolRun(s, j) <=> k \in (j + 1)..n /\ \A l \in (j + 1)..k : s[l].role = "tool"
    BY DEF ToolRun
<1> HIDE DEF n
<1>3. k \in Incomplete(s) <=> \E j \in 1..n : ~Answered(s, j) /\ (k = j \/ k \in ToolRun(s, j))
    BY <1>1 DEF Incomplete
<1>4. \A j \in 1..n : ~Answered(s, j) => MakesCalls(s[j])
    BY DEF Answered
<1>5. ASSUME NEW j \in 1..n, ~Answered(s, j), k = j \/ k \in ToolRun(s, j)
      PROVE  j \in 1..k /\ Opens(s, j, k)
  <2>1. CASE k = j
    <3>1. (j + 1)..k = {}
      BY <1>1, <2>1
    <3> QED BY <1>1, <1>4, <1>5, <2>1, <3>1 DEF Opens
  <2>2. CASE k \in ToolRun(s, j)
    <3>1. k \in (j + 1)..n /\ \A l \in (j + 1)..k : s[l].role = "tool"
      BY <1>2, <2>2
    <3>2. j \in 1..k
      BY <1>1, <3>1
    <3> QED BY <1>4, <1>5, <3>1, <3>2 DEF Opens
  <2> QED BY <1>5, <2>1, <2>2
<1>6. ASSUME NEW j \in 1..k, ~Answered(s, j), Opens(s, j, k)
      PROVE  j \in 1..n /\ (k = j \/ k \in ToolRun(s, j))
  <2>1. j \in 1..n /\ (k = j \/ k \in (j + 1)..n)
    BY <1>1
  <2> QED BY <1>2, <1>6, <2>1 DEF Opens
<1> QED BY <1>3, <1>5, <1>6

LEMMA OpensStep ==
    ASSUME NEW M, NEW s \in Seq(M), NEW k \in 1..Len(s), NEW j \in 1..k
    PROVE  /\ s[k].role = "tool" =>
                (Opens(s, j, k) <=> j \in 1..(k - 1) /\ Opens(s, j, k - 1))
           /\ s[k].role # "tool" => (Opens(s, j, k) <=> j = k /\ MakesCalls(s[k]))
<1>1. k \in Nat /\ j \in Nat /\ 1 <= j /\ j <= k
    OBVIOUS
<1>2. CASE j = k
  <2>1. (j + 1)..k = {} /\ j \notin 1..(k - 1)
    BY <1>1, <1>2
  <2> QED BY <1>2, <2>1 DEF Opens, MakesCalls
<1>3. CASE j # k
  <2>1. (j + 1)..k = ((j + 1)..(k - 1)) \cup {k} /\ j \in 1..(k - 1)
    BY <1>1, <1>3
  <2> QED BY <1>3, <2>1 DEF Opens
<1> QED BY <1>2, <1>3

\* Two call turns do not share the results behind them.
LEMMA OpensOnce ==
    ASSUME NEW M, NEW s \in Seq(M), NEW k \in 0..Len(s), NEW j \in 1..k, NEW l \in 1..k,
           Opens(s, j, k), Opens(s, l, k)
    PROVE  j = l
<1>1. k \in Nat /\ j \in 1..k /\ l \in 1..k
    OBVIOUS
<1>2. s[j].role # "tool" /\ s[l].role # "tool"
    BY DEF Opens, MakesCalls
<1>3. l \notin (j + 1)..k /\ j \notin (l + 1)..k
    BY <1>2 DEF Opens
<1> QED BY <1>1, <1>3

LEMMA CallTurnGone ==
    ASSUME NEW M, NEW s \in Seq(M), NEW k \in 1..Len(s), MakesCalls(s[k])
    PROVE  k \in Incomplete(s) <=> ~Answered(s, k)
<1>1. s[k].role # "tool"
    BY DEF MakesCalls
<1>2. k \in 1..k
    OBVIOUS
<1>3. \A j \in 1..k : Opens(s, j, k) <=> j = k
    BY <1>1, OpensStep
<1>4. k \in Incomplete(s) <=> \E j \in 1..k : ~Answered(s, j) /\ Opens(s, j, k)
    BY GoneSays
<1> QED BY <1>2, <1>3, <1>4

\* A result stays when the call turn it stands behind does.
LEMMA LinkedStep ==
    ASSUME NEW M, NEW s \in Seq(M), Tied(s), NEW k \in 1..Len(s)
    PROVE  /\ s[k].role = "tool" => /\ Linked(s, k) <=> k \notin Incomplete(s)
                                    /\ Linked(s, k - 1) <=> k \notin Incomplete(s)
           /\ s[k].role # "tool" => (Linked(s, k) <=> MakesCalls(s[k]) /\ k \notin Incomplete(s))
<1>1. k \in Nat /\ k \in 1..k /\ k - 1 \in 0..Len(s) /\ k \in DOMAIN s /\ k \in 0..Len(s)
    OBVIOUS
<1>2. \A j \in 1..k : j \in 1..Len(s)
    OBVIOUS
<1>3. CASE s[k].role = "tool"
  <2>1. PICK j \in 1..(k - 1) : Opens(s, j, k - 1)
    <3>1. BelongsToCallTurn(SubSeq(s, 1, k - 1))
      BY <1>1, <1>3 DEF Tied
    <3>2. \E i \in 1..(k - 1) : MakesCalls(s[i]) /\ \A l \in (i + 1)..(k - 1) : s[l].role = "tool"
      BY <1>1, <3>1, PrefixBelongs
    <3> QED BY <3>2 DEF Opens
  <2>2. j \in 1..k /\ j \in 1..Len(s)
    OBVIOUS
  <2>3. Opens(s, j, k)
    BY <1>3, <2>1, <2>2, OpensStep
  <2>4. \A i \in 1..k : Opens(s, i, k) <=> i = j
    BY <1>1, <2>2, <2>3, OpensOnce
  <2>5. \A i \in 1..(k - 1) : i \in 1..k
    BY <1>1
  <2>6. \A i \in 1..(k - 1) : Opens(s, i, k - 1) <=> i = j
    BY <1>3, <2>1, <2>4, <2>5, OpensStep
  <2>7. j \in Incomplete(s) <=> ~Answered(s, j)
    BY <2>1, <2>2, CallTurnGone DEF Opens
  <2>8. k \in Incomplete(s) <=> \E i \in 1..k : ~Answered(s, i) /\ Opens(s, i, k)
    BY GoneSays
  <2>9. k \in Incomplete(s) <=> j \in Incomplete(s)
    BY <2>2, <2>4, <2>7, <2>8
  <2>10. Linked(s, k) <=> j \notin Incomplete(s)
    BY <2>2, <2>4 DEF Linked
  <2>11. Linked(s, k - 1) <=> j \notin Incomplete(s)
    BY <2>1, <2>6 DEF Linked
  <2> QED BY <1>3, <2>9, <2>10, <2>11
<1>4. CASE s[k].role # "tool"
  <2>1. \A j \in 1..k : Opens(s, j, k) <=> j = k /\ MakesCalls(s[k])
    BY <1>4, OpensStep
  <2> QED BY <1>1, <1>4, <2>1 DEF Linked
<1> QED BY <1>3, <1>4

LEMMA SecondPassPairs ==
    ASSUME NEW M, NEW s \in Seq(M), Tied(s)
    PROVE  SecondPass(s) \in Seq(M) /\ WellPaired(SecondPass(s))
<1> DEFINE n == Len(s)
           Fits(k, i) == /\ k \in Seq(M)
                         /\ PairedBut(k, Answers(s, i))
                         /\ IF Linked(s, i) THEN BelongsToCallTurn(k) ELSE WellPaired(k)
<1>1. PICK F : /\ F[0] = <<>>
               /\ \A i \in 1..n : F[i] = IF i \in Incomplete(s) THEN F[i - 1]
                                         ELSE Append(F[i - 1], s[i])
               /\ F[n] = SecondPass(s)
    BY SecondPassUnrolls
<1>2. n \in Nat /\ \A i \in 1..n : s[i] \in M
    OBVIOUS
<1>3. Fits(<<>>, 0)
  <2>1. <<>> \in Seq(M) /\ PairedBut(<<>>, Answers(s, 0)) /\ WellPaired(<<>>)
    BY DEF PairedBut, WellPaired
  <2>2. ~Linked(s, 0)
    BY DEF Linked
  <2> QED BY <2>1, <2>2
<1>4. ASSUME NEW i \in 1..n, NEW k, Fits(k, i - 1)
      PROVE  Fits(IF i \in Incomplete(s) THEN k ELSE Append(k, s[i]), i)
  <2> DEFINE m == s[i]
  <2>1. m \in M /\ k \in Seq(M) /\ i \in 1..Len(s)
    BY <1>2, <1>4
  <2>2. Append(k, m) \in Seq(M)
    BY <2>1
  <2>3. /\ PairedBut(k, Answers(s, i - 1))
        /\ IF Linked(s, i - 1) THEN BelongsToCallTurn(k) ELSE WellPaired(k)
    BY <1>4
  <2>4. /\ m.role = "tool" => Answers(s, i - 1) = m.calls \cup Answers(s, i)
        /\ m.role # "tool" => Answers(s, i - 1) = {}
    BY <2>1, ComingSays
  <2>5. /\ m.role = "tool" => /\ Linked(s, i) <=> i \notin Incomplete(s)
                              /\ Linked(s, i - 1) <=> i \notin Incomplete(s)
        /\ m.role # "tool" => (Linked(s, i) <=> MakesCalls(m) /\ i \notin Incomplete(s))
    BY <2>1, LinkedStep
  <2>6. MakesCalls(m) /\ i \notin Incomplete(s) => m.calls \subseteq Answers(s, i)
    <3>1. MakesCalls(m) /\ i \notin Incomplete(s) => Answered(s, i)
      BY <2>1, CallTurnGone
    <3> QED BY <3>1 DEF Answered, Answers
  <2> HIDE DEF m, n
  <2>7. WellPaired(k) => PairedBut(k, Answers(s, i))
    BY PairedButNothing, PairedButMore
  <2>8. CASE m.role = "tool" /\ i \in Incomplete(s)
    BY <2>1, <2>3, <2>5, <2>7, <2>8
  <2>9. CASE m.role = "tool" /\ i \notin Incomplete(s)
    <3>1. PairedBut(k, m.calls \cup Answers(s, i)) /\ BelongsToCallTurn(k)
      BY <2>3, <2>4, <2>5, <2>9
    <3>2. PairedBut(Append(k, m), Answers(s, i)) /\ BelongsToCallTurn(Append(k, m))
      BY <2>1, <2>9, <3>1, AppendTool
    <3> QED BY <2>2, <2>5, <2>9, <3>2 DEF m
  <2>10. CASE m.role # "tool"
    <3>1. WellPaired(k)
      BY <2>3, <2>4, <2>10, PairedButNothing
    <3>2. CASE i \in Incomplete(s)
      BY <2>1, <2>5, <2>7, <2>10, <3>1, <3>2
    <3>3. CASE i \notin Incomplete(s) /\ MakesCalls(m)
      <4>1. PairedBut(Append(k, m), m.calls) /\ BelongsToCallTurn(Append(k, m))
        BY <2>1, <2>10, <3>1, <3>3, AppendOther
      <4>2. PairedBut(Append(k, m), Answers(s, i))
        BY <2>6, <3>3, <4>1, PairedButMore
      <4> QED BY <2>2, <2>5, <2>10, <3>3, <4>1, <4>2 DEF m
    <3>4. CASE i \notin Incomplete(s) /\ ~MakesCalls(m)
      <4>1. WellPaired(Append(k, m))
        BY <2>1, <2>10, <3>1, <3>4, AppendOther
      <4>2. PairedBut(Append(k, m), Answers(s, i))
        BY <4>1, PairedButNothing, PairedButMore
      <4> QED BY <2>2, <2>5, <2>10, <3>4, <4>1, <4>2 DEF m
    <3> QED BY <3>2, <3>3, <3>4
  <2> QED BY <2>8, <2>9, <2>10
<1> HIDE DEF Fits, n
<1> DEFINE good == {i \in 0..n : Fits(F[i], i)}
<1>5. 0 \in good
    BY <1>1, <1>2, <1>3
<1>6. ASSUME NEW i \in 1..n, i - 1 \in good PROVE i \in good
  <2>1. Fits(F[i - 1], i - 1)
    BY <1>6
  <2>2. Fits(F[i], i)
    BY <1>1, <1>4, <2>1
  <2> QED BY <1>2, <2>2
<1>7. Fits(F[n], n)
  <2> HIDE DEF good
  <2>1. 0..n \subseteq good
    BY <1>2, <1>5, <1>6, UpTo
  <2>2. n \in good
    BY <1>2, <2>1
  <2> QED BY <2>2 DEF good
<1>8. SecondPass(s) \in Seq(M) /\ PairedBut(SecondPass(s), {})
    BY <1>1, <1>7, NothingComes DEF Fits, n
<1> QED BY <1>8, PairedButNothing

LEMMA SanitizePairs ==
    ASSUME NEW M, NEW h \in Seq(M)
    PROVE  Sanitize(h) \in Seq(M) /\ WellPaired(Sanitize(h))
<1>1. FirstPass(h) \in Seq(M) /\ Tied(FirstPass(h))
    BY FirstPassTies
<1>2. SecondPass(FirstPass(h)) \in Seq(M) /\ WellPaired(SecondPass(FirstPass(h)))
    BY <1>1, SecondPassPairs
<1> QED BY <1>2 DEF Sanitize

-----------------------------------------------------------------------------
(***************************************************************************)
(* The turns.  What a turn added to its request is complete whenever no    *)
(* tool of it runs; while tools run, exactly the calls still to do lack    *)
(* their results.                                                          *)
(***************************************************************************)
Said == Message(Turns \cup {Past}, Ids)

\* A request is sent again, unchanged, and BuildMessages pairs what it takes
\* from the history, so only the turn's own part has to be kept.
Sound(k) ==
    /\ k.at # "answering" => k.iteration < Critical
    /\ k.at \in {"compressing", "rebuilding"} => k.retry < MaxRetries
    /\ k.at = "running" => /\ k.todo # <<>>
                           /\ PairedBut(k.msgs.own, Range(k.todo))
                           /\ BelongsToCallTurn(k.msgs.own)
    /\ k.at # "running" => WellPaired(k.msgs.own)
    /\ k.at \in {"calling", "compressing", "rebuilding"} => WellPaired(k.sent.own)

LoopInv == TypeOK /\ \A t \in Turns : Sound(turn[t])

LEMMA CriticalIs == Critical \in Nat \ {0}
<1>1. MaxIterations \in Nat \ {0}
    BY AgentAssumption
<1>2. (MaxIterations * 80) \div 100 \in Nat
    BY <1>1
<1> QED BY <1>2 DEF Critical

LEMMA SaidIs ==
    ASSUME NEW t \in Turns
    PROVE  /\ User(t) \in Said
           /\ \A ids \in SUBSET Ids : Assistant(t, ids) \in Said
           /\ \A id \in Ids : Result(t, id) \in Said
BY DEF User, Assistant, Result, Said, Message, Roles

LEMMA NothingSaid == None \in Requests /\ <<>> \in Messages /\ WellPaired(<<>>)
BY DEF None, Request, Requests, Messages, WellPaired

LEMMA IdleIs ==
    ASSUME NEW at \in {"waiting", "retrying", "closing", "done", "failed"}
    PROVE  Idle(at) \in Local /\ Sound(Idle(at))
<1>1. <<>> \in Seq(Ids) /\ 0 \in 0..Critical /\ 0 < Critical /\ 0 \in 0..MaxRetries /\ at \in Steps
    BY CriticalIs DEF MaxRetries, Steps, Ended
<1>2. Idle(at) \in Local
    BY <1>1, NothingSaid DEF Idle, Local
<1>3. None.own = <<>>
    BY DEF None, Request
<1>4. Sound(Idle(at))
    BY <1>1, <1>3, NothingSaid DEF Idle, Sound
<1> QED BY <1>2, <1>4

LEMMA AnswerIs ==
    ASSUME NEW M, NEW s \in Seq(M), NEW m \in M
    PROVE  Append(s, m) \in Seq(M)
OBVIOUS

LEMMA AddedIs ==
    ASSUME NEW r \in Requests, NEW m \in Said
    PROVE  Added(r, m) \in Requests /\ Added(r, m).own = Append(r.own, m)
<1>1. r.stored \in Messages /\ r.own \in Messages
    BY DEF Requests
<1>2. Append(r.own, m) \in Messages
    BY <1>1, AnswerIs DEF Messages, Said
<1> QED BY <1>2 DEF Requests, Added

LEMMA RequestIs ==
    ASSUME NEW h \in Messages, NEW own \in Messages
    PROVE  Request(h, own) \in Requests /\ Request(h, own).own = own
BY DEF Request, Requests

\* What is kept of a history that grew too long.
LEMMA CutIs ==
    ASSUME NEW h \in Messages, NEW n \in Nat
    PROVE  Truncate(h, n) \in Messages /\ Compress(h) \in Messages
<1>1. h \in Seq(Said) /\ Len(h) \in Nat
    BY DEF Messages, Said
<1>2. \A i \in 1..(Len(h) + 1) : SubSeq(h, i, Len(h)) \in Seq(Said)
    BY <1>1
<1>3. Truncate(h, n) \in Seq(Said)
    BY <1>1, <1>2 DEF Truncate
<1>4. Compress(h) \in Seq(Said)
  <2>1. CASE Len(h) <= 4
    BY <1>1, <2>1 DEF Compress
  <2>2. CASE ~(Len(h) <= 4)
    <3> DEFINE i == 2 + (Len(h) - 2) \div 2
    <3>1. i \in 1..(Len(h) + 1)
      BY <1>1, <2>2
    <3>2. <<Head(h)>> \in Seq(Said)
      BY <1>1, <2>2
    <3>3. SubSeq(h, i, Len(h)) \in Seq(Said)
      BY <1>2, <3>1
    <3> HIDE DEF i
    <3>4. <<Head(h)>> \o SubSeq(h, i, Len(h)) \in Seq(Said)
      BY <3>2, <3>3
    <3> QED BY <2>2, <3>4 DEF Compress, i
  <2> QED BY <2>1, <2>2
<1> QED BY <1>3, <1>4 DEF Messages, Said

LEMMA FirstUserIs ==
    ASSUME NEW h \in Messages, UserMessages(h) # {}
    PROVE  FirstUser(h) \in Said
<1>1. UserMessages(h) \in SUBSET Nat /\ UserMessages(h) \subseteq DOMAIN h
    BY DEF Messages, UserMessages
<1>2. \E i \in UserMessages(h) : \A j \in UserMessages(h) : i <= j
    BY <1>1, LeastExists
<1>3. (CHOOSE i \in UserMessages(h) : \A j \in UserMessages(h) : i <= j) \in DOMAIN h
    BY <1>1, <1>2
<1>4. \A i \in DOMAIN h : h[i] \in Said
    BY DEF Messages, Said
<1> QED BY <1>3, <1>4 DEF FirstUser

LEMMA LocalIs ==
    ASSUME LoopInv, NEW t \in Turns
    PROVE  /\ turn[t] \in Local /\ Sound(turn[t])
           /\ turn[t].msgs \in Requests /\ turn[t].sent \in Requests
           /\ turn[t].msgs.own \in Seq(Said) /\ turn[t].seen \in Messages
           /\ turn[t].todo \in Seq(Ids)
           /\ turn[t].iteration \in 0..Critical /\ turn[t].retry \in 0..MaxRetries
           /\ history \in Messages
           /\ \A m \in Said : Append(history, m) \in Messages
<1>1. turn[t] \in Local /\ Sound(turn[t]) /\ history \in Messages
    BY DEF LoopInv, TypeOK
<1>2. /\ turn[t].msgs \in Requests /\ turn[t].sent \in Requests
      /\ turn[t].seen \in Messages /\ turn[t].todo \in Seq(Ids)
      /\ turn[t].iteration \in 0..Critical /\ turn[t].retry \in 0..MaxRetries
    BY <1>1 DEF Local
<1>3. turn[t].msgs.own \in Seq(Said)
    BY <1>2 DEF Requests, Messages, Said
<1>4. \A m \in Said : Append(history, m) \in Messages
    BY <1>1, AnswerIs DEF Messages, Said
<1> QED BY <1>1, <1>2, <1>3, <1>4

\* A step of one turn keeps the invariant when what it leaves of its own is
\* sound.
LEMMA TurnKeeps ==
    ASSUME LoopInv, NEW t \in Turns, NEW new \in Local, Sound(new), Update(t, new),
           history' \in Messages, summariser' \in {"idle", "reading", "summarising"},
           retried' \in 0..MaxRetried
    PROVE  LoopInv'
<1>1. turn \in [Turns -> Local] /\ \A s \in Turns : Sound(turn[s])
    BY DEF LoopInv, TypeOK
<1>2. turn' = [turn EXCEPT ![t] = new]
    BY DEF Update
<1>3. turn' \in [Turns -> Local]
    BY <1>1, <1>2
<1>4. \A s \in Turns : turn'[s] = IF s = t THEN new ELSE turn[s]
    BY <1>1, <1>2
<1>5. \A s \in Turns : Sound(turn'[s])
    BY <1>1, <1>4
<1>6. TypeOK'
    BY <1>3 DEF TypeOK
<1> QED BY <1>5, <1>6 DEF LoopInv, Sound

LEMMA LoopInit == Init => LoopInv
<1> SUFFICES ASSUME Init PROVE LoopInv
    OBVIOUS
<1>1. Idle("waiting") \in Local /\ Sound(Idle("waiting"))
    BY IdleIs
<1>2. turn \in [Turns -> Local] /\ \A t \in Turns : turn[t] = Idle("waiting")
    BY <1>1 DEF Init
<1>3. history \in Messages /\ retried \in 0..MaxRetried
    BY AgentAssumption, LoadedAssumption DEF Init
<1> QED BY <1>1, <1>2, <1>3 DEF LoopInv, TypeOK, Init

LEMMA BeginEnterKeep ==
    ASSUME LoopInv, NEW t \in Turns, Begin(t) \/ Enter(t)
    PROVE  LoopInv'
<1> DEFINE k == turn[t]
           own == <<User(t)>>
<1>1. /\ k \in Local /\ Sound(k) /\ history \in Messages
      /\ \A m \in Said : Append(history, m) \in Messages
      /\ summariser \in {"idle", "reading", "summarising"} /\ retried \in 0..MaxRetried
    BY LocalIs DEF LoopInv, TypeOK
<1>2. User(t) \in Said
    BY SaidIs
<1>3. CASE Begin(t)
  <2> DEFINE req == Request(history, own)
             new == [k EXCEPT !.at = "entering", !.msgs = req]
  <2>1. own \in Messages /\ WellPaired(own)
    <3>1. own = Append(<<>>, User(t)) /\ <<>> \in Seq(Said) /\ WellPaired(<<>>)
      BY NothingSaid
    <3>2. User(t).role # "tool" /\ ~MakesCalls(User(t))
      BY DEF User, MakesCalls
    <3>3. WellPaired(Append(<<>>, User(t)))
      BY <1>2, <3>1, <3>2, AppendOther
    <3>4. own \in Messages
      BY <1>2 DEF Messages, Said
    <3> QED BY <3>1, <3>3, <3>4
  <2>2. req \in Requests /\ req.own = own
    BY <1>1, <2>1, RequestIs
  <2>3. k.at = "waiting" /\ Update(t, new)
        /\ history' = history /\ summariser' = summariser /\ retried' = retried
    BY <1>3 DEF Begin
  <2> HIDE DEF req, own
  <2>4. "entering" \in Steps
    BY DEF Steps
  <2>5. new \in Local
    BY <1>1, <2>2, <2>4 DEF Local
  <2>6. Sound(new)
    BY <1>1, <2>1, <2>2, <2>3 DEF Sound, Local
  <2> HIDE DEF new
  <2> QED BY <1>1, <2>3, <2>5, <2>6, TurnKeeps
<1>4. CASE Enter(t)
  <2> DEFINE new == [k EXCEPT !.at = "asking"]
  <2>1. k.at = "entering" /\ Update(t, new) /\ history' = Append(history, User(t))
        /\ summariser' = summariser /\ retried' = retried
    BY <1>4 DEF Enter
  <2>2. "asking" \in Steps
    BY DEF Steps
  <2>3. new \in Local
    BY <1>1, <2>2 DEF Local
  <2>4. Sound(new)
    BY <1>1, <2>1 DEF Sound, Local
  <2>5. history' \in Messages
    BY <1>1, <1>2, <2>1
  <2> HIDE DEF new
  <2> QED BY <1>1, <2>1, <2>3, <2>4, <2>5, TurnKeeps
<1> QED BY <1>3, <1>4

LEMMA AskKeeps ==
    ASSUME LoopInv, NEW t \in Turns, Ask(t)
    PROVE  LoopInv'
<1> DEFINE k == turn[t]
           new == [k EXCEPT !.at = "calling", !.iteration = @ + 1, !.retry = 0, !.sent = k.msgs]
<1>1. /\ k \in Local /\ Sound(k) /\ history \in Messages /\ k.msgs \in Requests
      /\ k.iteration \in 0..Critical
      /\ summariser \in {"idle", "reading", "summarising"} /\ retried \in 0..MaxRetried
    BY LocalIs DEF LoopInv, TypeOK
<1>2. /\ k.at = "asking" /\ k.iteration + 1 < Critical /\ Update(t, new)
      /\ history' = history /\ summariser' = summariser /\ retried' = retried
    BY DEF Ask, BelowCritical
<1>3. "calling" \in Steps /\ k.iteration + 1 \in 0..Critical /\ 0 \in 0..MaxRetries
    BY <1>1, <1>2, CriticalIs DEF Steps, MaxRetries
<1>4. new \in Local
    BY <1>1, <1>3 DEF Local
<1>5. new.at = "calling" /\ new.iteration = k.iteration + 1 /\ new.msgs = k.msgs /\ new.sent = k.msgs
    BY <1>1 DEF Local
<1>6. WellPaired(k.msgs.own)
    BY <1>1, <1>2 DEF Sound
<1> HIDE DEF new
<1>7. Sound(new)
    BY <1>2, <1>5, <1>6 DEF Sound
<1> QED BY <1>1, <1>2, <1>4, <1>7, TurnKeeps

LEMMA CheckpointKeeps ==
    ASSUME LoopInv, NEW t \in Turns, Checkpoint(t)
    PROVE  LoopInv'
<1> DEFINE k == turn[t]
           new == [k EXCEPT !.iteration = @ + 1, !.at = "answering"]
           said == k.msgs.stored \o k.msgs.own
<1>1. /\ k \in Local /\ Sound(k) /\ history \in Messages /\ k.msgs \in Requests
      /\ k.iteration \in 0..Critical
      /\ summariser \in {"idle", "reading", "summarising"} /\ retried \in 0..MaxRetried
    BY LocalIs DEF LoopInv, TypeOK
<1>2. /\ k.at = "asking" /\ Update(t, new)
      /\ history' = <<FirstQuestion(t), Assistant(t, {})>> \/ history' = history
      /\ summariser' = summariser /\ retried' = retried
    BY DEF Checkpoint
<1>3. k.iteration < Critical
    BY <1>1, <1>2 DEF Sound
<1>4. "answering" \in Steps /\ k.iteration + 1 \in 0..Critical
    BY <1>1, <1>3, CriticalIs DEF Steps
<1>5. new \in Local
    BY <1>1, <1>4 DEF Local
<1>6. new.at = "answering" /\ new.msgs = k.msgs
    BY <1>1 DEF Local
<1>7. WellPaired(k.msgs.own)
    BY <1>1, <1>2 DEF Sound
<1> HIDE DEF new
<1>8. Sound(new)
    BY <1>6, <1>7 DEF Sound
<1>9. FirstQuestion(t) \in Said
  <2>1. said \in Messages
    BY <1>1 DEF Requests, Messages
  <2>2. UserMessages(said) # {} => FirstUser(said) \in Said
    BY <2>1, FirstUserIs
  <2>3. User(t) \in Said
    BY SaidIs
  <2>4. FirstQuestion(t) = IF UserMessages(said) = {} THEN User(t) ELSE FirstUser(said)
    BY DEF FirstQuestion
  <2> HIDE DEF said
  <2> QED BY <2>2, <2>3, <2>4
<1>10. <<FirstQuestion(t), Assistant(t, {})>> \in Messages
  <2>1. Assistant(t, {}) \in Said
    BY SaidIs
  <2> QED BY <1>9, <2>1 DEF Messages, Said
<1> QED BY <1>1, <1>2, <1>5, <1>8, <1>10, TurnKeeps

\* The calls that fail, and what is tried after them.
LEMMA FailuresKeep ==
    ASSUME LoopInv, NEW t \in Turns,
           TimesOut(t) \/ CallFails(t) \/ TooLong(t) \/ ForceCompression(t) \/ Rebuild(t)
    PROVE  LoopInv'
<1> DEFINE k == turn[t]
<1>1. /\ k \in Local /\ Sound(k) /\ history \in Messages
      /\ k.seen \in Messages /\ k.retry \in 0..MaxRetries
      /\ summariser \in {"idle", "reading", "summarising"} /\ retried \in 0..MaxRetried
    BY LocalIs DEF LoopInv, TypeOK
<1>2. /\ {"calling", "compressing", "rebuilding"} \subseteq Steps
      /\ k.retry < MaxRetries => k.retry + 1 \in 0..MaxRetries
    BY <1>1 DEF Steps, MaxRetries
<1>3. Another => retried' \in 0..MaxRetried
    BY <1>1, AgentAssumption DEF Another
<1>4. CASE TimesOut(t)
  <2> DEFINE new == Again(k)
  <2>1. /\ k.at = "calling" /\ k.retry < MaxRetries /\ Another /\ Update(t, new)
        /\ history' = history /\ summariser' = summariser
    BY <1>4 DEF TimesOut, Retriable
  <2>2. new \in Local
    BY <1>1, <1>2, <2>1 DEF Again, Local
  <2>3. Sound(new)
    BY <1>1, <2>1 DEF Again, Sound, Local
  <2> HIDE DEF new
  <2> QED BY <1>1, <1>3, <2>1, <2>2, <2>3, TurnKeeps
<1>5. CASE CallFails(t)
  <2>1. /\ Update(t, Idle("failed"))
        /\ history' = history /\ summariser' = summariser /\ retried' = retried
    BY <1>5 DEF CallFails
  <2> QED BY <1>1, <2>1, IdleIs, TurnKeeps
<1>6. CASE TooLong(t)
  <2> DEFINE new == [k EXCEPT !.at = "compressing", !.seen = history]
  <2>1. /\ k.at = "calling" /\ k.retry < MaxRetries /\ Another /\ Update(t, new)
        /\ history' = history /\ summariser' = summariser
    BY <1>6 DEF TooLong, Retriable
  <2>2. new \in Local
    BY <1>1, <1>2 DEF Local
  <2>3. Sound(new)
    BY <1>1, <2>1 DEF Sound, Local
  <2> HIDE DEF new
  <2> QED BY <1>1, <1>3, <2>1, <2>2, <2>3, TurnKeeps
<1>7. CASE ForceCompression(t)
  <2> DEFINE new == [k EXCEPT !.at = "rebuilding", !.seen = <<>>]
  <2>1. /\ k.at = "compressing" /\ Update(t, new)
        /\ history' = history \/ history' = Compress(k.seen)
        /\ summariser' = summariser /\ retried' = retried
    BY <1>7 DEF ForceCompression
  <2>2. new \in Local
    BY <1>1, <1>2, NothingSaid DEF Local
  <2>3. Sound(new)
    BY <1>1, <2>1 DEF Sound, Local
  <2>4. history' \in Messages
    BY <1>1, <2>1, CutIs
  <2> HIDE DEF new
  <2> QED BY <1>1, <2>1, <2>2, <2>3, <2>4, TurnKeeps
<1>8. CASE Rebuild(t)
  <2> DEFINE req == Request(history, <<>>)
             new == [Again(k) EXCEPT !.at = "calling", !.msgs = req]
  <2>1. /\ k.at = "rebuilding" /\ Update(t, new)
        /\ history' = history /\ summariser' = summariser /\ retried' = retried
    BY <1>8 DEF Rebuild
  <2>2. req \in Requests /\ req.own = <<>>
    BY <1>1, NothingSaid, RequestIs
  <2> HIDE DEF req
  <2>3. k.retry + 1 \in 0..MaxRetries
    BY <1>1, <1>2, <2>1 DEF Sound
  <2>4. new \in Local
    BY <1>1, <1>2, <2>2, <2>3 DEF Again, Local
  <2>5. new.at = "calling" /\ new.msgs = req /\ new.sent = k.sent /\ new.iteration = k.iteration
    BY <1>1 DEF Again, Local
  <2>6. WellPaired(k.sent.own) /\ k.iteration < Critical /\ WellPaired(<<>>)
    BY <1>1, <2>1, NothingSaid DEF Sound
  <2> HIDE DEF new
  <2>7. Sound(new)
    BY <2>2, <2>5, <2>6 DEF Sound
  <2> QED BY <1>1, <2>1, <2>4, <2>7, TurnKeeps
<1> QED BY <1>4, <1>5, <1>6, <1>7, <1>8

\* A call turn is recorded: its tools are to do.
LEMMA CallToolsKeeps ==
    ASSUME LoopInv, NEW t \in Turns, CallTools(t)
    PROVE  LoopInv'
<1> DEFINE k == turn[t]
<1>1. /\ k \in Local /\ Sound(k) /\ k.msgs \in Requests /\ k.msgs.own \in Seq(Said)
      /\ \A m \in Said : Append(history, m) \in Messages
      /\ k.iteration \in 0..Critical
      /\ summariser \in {"idle", "reading", "summarising"} /\ retried \in 0..MaxRetried
    BY LocalIs DEF LoopInv, TypeOK
<1>2. PICK n \in Widths :
         LET ids == [i \in 1..n |-> [turn |-> t, iteration |-> k.iteration, n |-> i]]
             m == Assistant(t, {ids[i] : i \in 1..n})
         IN  /\ history' = Append(history, m)
             /\ Update(t, [k EXCEPT !.at = "running", !.todo = ids, !.retry = 0,
                                    !.msgs = Added(@, m), !.sent = None])
    BY DEF CallTools
<1> DEFINE ids == [i \in 1..n |-> [turn |-> t, iteration |-> k.iteration, n |-> i]]
           m == Assistant(t, {ids[i] : i \in 1..n})
           req == Added(k.msgs, m)
           new == [k EXCEPT !.at = "running", !.todo = ids, !.retry = 0, !.msgs = req, !.sent = None]
<1>3. history' = Append(history, m) /\ Update(t, new)
    BY <1>2
<1>4. k.at = "calling" /\ summariser' = summariser /\ retried' = retried
    BY DEF CallTools
<1>5. n \in Nat /\ n # 0
    BY AgentAssumption
<1>6. \A i \in 1..n : ids[i] \in Ids
    BY <1>1, CriticalIs DEF Ids
<1>7. ids \in Seq(Ids) /\ ids # <<>> /\ Range(ids) = {ids[i] : i \in 1..n} /\ ids[1] \in Range(ids)
  <2>1. DOMAIN ids = 1..n /\ 1 \in 1..n
    BY <1>5
  <2>2. Range(ids) = {ids[i] : i \in 1..n}
    BY <2>1 DEF Range
  <2>3. ids \in [1..n -> Ids]
    BY <1>6
  <2> HIDE DEF ids
  <2>4. ids \in Seq(Ids)
    BY <1>5, <2>3
  <2>5. ids # <<>>
    <3>1. Len(ids) = n
      BY <1>5, <2>1, <2>4
    <3> QED BY <1>5, <3>1
  <2> QED BY <2>1, <2>2, <2>4, <2>5
<1>8. Range(ids) \subseteq Ids /\ m = Assistant(t, Range(ids))
    BY <1>6, <1>7
<1> HIDE DEF ids, m
<1>9. m \in Said /\ m.role = "assistant" /\ m.calls = Range(ids)
    BY <1>8, SaidIs DEF Assistant
<1>10. m.role # "tool" /\ MakesCalls(m)
    BY <1>7, <1>9 DEF MakesCalls
<1>11. req \in Requests /\ req.own = Append(k.msgs.own, m)
    BY <1>1, <1>9, AddedIs
<1> HIDE DEF req
<1>12. "running" \in Steps /\ 0 \in 0..MaxRetries
    BY DEF Steps, MaxRetries
<1>13. new \in Local
    BY <1>1, <1>7, <1>11, <1>12, NothingSaid DEF Local
<1>14. new.at = "running" /\ new.todo = ids /\ new.msgs = req /\ new.iteration = k.iteration
    BY <1>1 DEF Local
<1>15. WellPaired(k.msgs.own) /\ k.iteration < Critical
    BY <1>1, <1>4 DEF Sound
<1> HIDE DEF new
<1>16. PairedBut(req.own, Range(ids)) /\ BelongsToCallTurn(req.own)
    BY <1>1, <1>9, <1>10, <1>11, <1>15, AppendOther
<1>17. Sound(new)
    BY <1>7, <1>14, <1>15, <1>16 DEF Sound
<1> QED BY <1>1, <1>3, <1>4, <1>9, <1>13, <1>17, TurnKeeps

\* A result is recorded: one call less to do.
LEMMA RecordResultKeeps ==
    ASSUME LoopInv, NEW t \in Turns, RecordResult(t)
    PROVE  LoopInv'
<1> DEFINE k == turn[t]
           m == Result(t, Head(k.todo))
           req == Added(k.msgs, m)
           next == IF Len(k.todo) = 1 THEN "asking" ELSE "running"
           new == [k EXCEPT !.todo = Tail(@), !.msgs = req, !.at = next]
<1>1. /\ k \in Local /\ Sound(k) /\ k.msgs \in Requests /\ k.msgs.own \in Seq(Said)
      /\ k.todo \in Seq(Ids)
      /\ \A r \in Said : Append(history, r) \in Messages
      /\ summariser \in {"idle", "reading", "summarising"} /\ retried \in 0..MaxRetried
    BY LocalIs DEF LoopInv, TypeOK
<1>2. /\ k.at = "running" /\ history' = Append(history, m) /\ Update(t, new)
      /\ summariser' = summariser /\ retried' = retried
    BY DEF RecordResult
<1>3. /\ k.todo # <<>> /\ PairedBut(k.msgs.own, Range(k.todo)) /\ BelongsToCallTurn(k.msgs.own)
      /\ k.iteration < Critical
    BY <1>1, <1>2 DEF Sound
<1>4. /\ Head(k.todo) \in Ids /\ Tail(k.todo) \in Seq(Ids)
      /\ Range(k.todo) = {Head(k.todo)} \cup Range(Tail(k.todo))
    BY <1>1, <1>3, HeadAndTail
<1>5. /\ Len(k.todo) = 1 => Tail(k.todo) = <<>>
      /\ Len(k.todo) # 1 => Tail(k.todo) # <<>>
  <2> DEFINE todo == k.todo
             rest == Tail(todo)
  <2>1. todo \in Seq(Ids) /\ todo # <<>>
    BY <1>1, <1>3
  <2> HIDE DEF todo
  <2>2. rest \in Seq(Ids) /\ Len(rest) = Len(todo) - 1 /\ Len(todo) \in Nat
    BY <2>1
  <2> HIDE DEF rest
  <2>3. Len(todo) = 1 => rest = <<>>
    BY <2>2
  <2>4. Len(todo) # 1 => rest # <<>>
    BY <2>2
  <2> QED BY <2>3, <2>4 DEF rest, todo
<1>6. m \in Said /\ m.role = "tool" /\ m.calls = {Head(k.todo)}
    BY <1>4, SaidIs DEF Result
<1> HIDE DEF m
<1>7. req \in Requests /\ req.own = Append(k.msgs.own, m)
    BY <1>1, <1>6, AddedIs
<1> HIDE DEF req
<1>8. PairedBut(req.own, Range(Tail(k.todo))) /\ BelongsToCallTurn(req.own)
  <2> DEFINE own == k.msgs.own
             ids == Range(Tail(k.todo))
  <2>1. own \in Seq(Said) /\ m \in Said /\ m.role = "tool" /\ BelongsToCallTurn(own)
    BY <1>1, <1>3, <1>6
  <2>2. PairedBut(own, m.calls \cup ids)
    BY <1>3, <1>4, <1>6
  <2>3. req.own = Append(own, m)
    BY <1>7
  <2> HIDE DEF own, ids
  <2>4. PairedBut(Append(own, m), ids) /\ BelongsToCallTurn(Append(own, m))
    BY <2>1, <2>2, AppendTool
  <2> QED BY <2>3, <2>4 DEF ids
<1>9. next \in Steps
    BY DEF Steps
<1> HIDE DEF next
<1>10. new \in Local
    BY <1>1, <1>4, <1>7, <1>9 DEF Local
<1>11. /\ new.at = next /\ new.todo = Tail(k.todo) /\ new.msgs = req
       /\ new.iteration = k.iteration
    BY <1>1 DEF Local
<1> HIDE DEF new
<1>12. CASE Len(k.todo) = 1
  <2>1. Range(Tail(k.todo)) = {}
    BY <1>5, <1>12 DEF Range
  <2>2. WellPaired(req.own) /\ next = "asking"
    BY <1>8, <1>12, <2>1, PairedButNothing DEF next
  <2>3. Sound(new)
    BY <1>3, <1>11, <2>2 DEF Sound
  <2> QED BY <1>1, <1>2, <1>6, <1>10, <2>3, TurnKeeps
<1>13. CASE Len(k.todo) # 1
  <2>1. next = "running" /\ Tail(k.todo) # <<>>
    BY <1>5, <1>13 DEF next
  <2>2. Sound(new)
    BY <1>3, <1>8, <1>11, <2>1 DEF Sound
  <2> QED BY <1>1, <1>2, <1>6, <1>10, <2>2, TurnKeeps
<1> QED BY <1>12, <1>13

\* The ends of a turn and what starts it again.
LEMMA EndsKeep ==
    ASSUME LoopInv, NEW t \in Turns, Nudge(t) \/ Retry(t) \/ Answer(t) \/ Close(t)
    PROVE  LoopInv'
<1> DEFINE k == turn[t]
<1>1. /\ k \in Local /\ Sound(k) /\ history \in Messages
      /\ \A m \in Said : Append(history, m) \in Messages
      /\ summariser \in {"idle", "reading", "summarising"} /\ retried \in 0..MaxRetried
    BY LocalIs DEF LoopInv, TypeOK
<1>2. Another => retried' \in 0..MaxRetried
    BY <1>1, AgentAssumption DEF Another
<1>3. User(t) \in Said /\ Assistant(t, {}) \in Said
    BY SaidIs
<1>4. CASE Nudge(t)
  <2> DEFINE new == [Idle("retrying") EXCEPT !.nudged = TRUE]
  <2>1. /\ Another /\ Update(t, new) /\ history' = Append(history, User(t))
        /\ summariser' = summariser
    BY <1>4 DEF Nudge
  <2>2. Idle("retrying") \in Local /\ Sound(Idle("retrying"))
    BY IdleIs
  <2>3. new \in Local /\ Sound(new)
    BY <2>2 DEF Local, Sound
  <2> HIDE DEF new
  <2> QED BY <1>1, <1>2, <1>3, <2>1, <2>3, TurnKeeps
<1>5. CASE Retry(t)
  <2> DEFINE req == Request(history, <<>>)
             new == [k EXCEPT !.at = "asking", !.msgs = req]
  <2>1. /\ k.at = "retrying" /\ Update(t, new)
        /\ history' = history /\ summariser' = summariser /\ retried' = retried
    BY <1>5 DEF Retry
  <2>2. req \in Requests /\ req.own = <<>> /\ WellPaired(<<>>)
    BY <1>1, NothingSaid, RequestIs
  <2> HIDE DEF req
  <2>3. "asking" \in Steps
    BY DEF Steps
  <2>4. new \in Local
    BY <1>1, <2>2, <2>3 DEF Local
  <2>5. new.at = "asking" /\ new.msgs = req /\ new.iteration = k.iteration
    BY <1>1 DEF Local
  <2>6. k.iteration < Critical
    BY <1>1, <2>1 DEF Sound
  <2> HIDE DEF new
  <2>7. Sound(new)
    BY <2>2, <2>5, <2>6 DEF Sound
  <2> QED BY <1>1, <2>1, <2>4, <2>7, TurnKeeps
<1>6. CASE Answer(t)
  <2>1. /\ Update(t, Idle("closing")) /\ history' = Append(history, Assistant(t, {}))
        /\ summariser' = summariser /\ retried' = retried
    BY <1>6 DEF Answer
  <2> QED BY <1>1, <1>3, <2>1, IdleIs, TurnKeeps
<1>7. CASE Close(t)
  <2>1. /\ Update(t, Idle("done")) /\ history' = history /\ retried' = retried
        /\ summariser' = "reading" \/ summariser' = summariser
    BY <1>7 DEF Close
  <2> QED BY <1>1, <2>1, IdleIs, TurnKeeps
<1> QED BY <1>4, <1>5, <1>6, <1>7

LEMMA SummaryKeeps ==
    ASSUME LoopInv, Summary
    PROVE  LoopInv'
<1>1. history \in Messages /\ turn \in [Turns -> Local] /\ retried \in 0..MaxRetried
      /\ \A t \in Turns : Sound(turn[t])
    BY DEF LoopInv, TypeOK
<1>2. /\ turn' = turn /\ retried' = retried
      /\ summariser' \in {"idle", "reading", "summarising"}
      /\ history' = history \/ history' = Truncate(history, KeepLast)
    BY DEF Summary, StartSummary, FinishSummary
<1>3. history' \in Messages
    BY <1>1, <1>2, CutIs DEF KeepLast
<1> QED BY <1>1, <1>2, <1>3 DEF LoopInv, TypeOK, Sound

LEMMA LoopNext == LoopInv /\ [Next]_vars => LoopInv'
<1> SUFFICES ASSUME LoopInv, [Next]_vars PROVE LoopInv'
    OBVIOUS
<1>1. CASE UNCHANGED vars
    BY <1>1 DEF vars, LoopInv, TypeOK, Sound
<1>2. CASE Summary
    BY <1>2, SummaryKeeps
<1>3. ASSUME NEW t \in Turns, Turn(t) PROVE LoopInv'
    BY <1>3, BeginEnterKeep, AskKeeps, CheckpointKeeps, FailuresKeep, CallToolsKeeps,
       RecordResultKeeps, EndsKeep DEF Turn
<1> QED BY <1>1, <1>2, <1>3 DEF Next

\* Every request that is sent is paired, because what BuildMessages takes from
\* the history is paired whatever the history is, and the turn's own messages
\* behind it are.
LEMMA LoopGives == LoopInv => TypeOK /\ RequestsPaired
<1> SUFFICES ASSUME LoopInv PROVE TypeOK /\ RequestsPaired
    OBVIOUS
<1>1. ASSUME NEW t \in Turns, turn[t].at = "calling"
      PROVE  WellPaired(Built(turn[t].sent))
  <2> DEFINE r == turn[t].sent
  <2>1. r \in Requests /\ WellPaired(r.own)
    BY <1>1, LocalIs DEF Sound
  <2> HIDE DEF r
  <2>2. r.stored \in Seq(Said) /\ r.own \in Seq(Said)
    BY <2>1 DEF Requests, Messages, Said
  <2>3. Sanitize(r.stored) \in Seq(Said) /\ WellPaired(Sanitize(r.stored))
    BY <2>2, SanitizePairs
  <2>4. WellPaired(Sanitize(r.stored) \o r.own)
    BY <2>1, <2>2, <2>3, PairedTogether
  <2> QED BY <2>4 DEF Built, r
<1> QED BY <1>1 DEF LoopInv, RequestsPaired

\* Every variable of the agent loop has its type, whatever is interleaved: the
\* counts of iterations and of retries in runLLMIteration stay within their
\* bounds.
THEOREM LoopTypeCorrect == Spec => []TypeOK
<1>1. Init => LoopInv
    BY LoopInit
<1>2. LoopInv /\ [Next]_vars => LoopInv'
    BY LoopNext
<1>3. LoopInv => TypeOK
    BY LoopGives
<1> QED BY <1>1, <1>2, <1>3, PTL DEF Spec

\* Whatever history was loaded, and however turns, tool results, summaries and
\* compressions interleave over it, in every request of runLLMIteration each
\* call turn is answered in full by the tool messages directly behind it, and
\* no tool message stands anywhere but in such a row behind some call turn.
THEOREM EveryRequestIsPaired == Spec => []RequestsPaired
<1>1. Init => LoopInv
    BY LoopInit
<1>2. LoopInv /\ [Next]_vars => LoopInv'
    BY LoopNext
<1>3. LoopInv => RequestsPaired
    BY LoopGives
<1> QED BY <1>1, <1>2, <1>3, PTL DEF Spec

\* sanitizeHistoryForProvider alone, for any messages: what it returns has no
\* call turn that is not answered in full by the tool messages directly behind
\* it, and no tool message that does not stand in such a row.
THEOREM SanitizedIsPaired ==
    ASSUME NEW h \in Messages
    PROVE  Sanitize(h) \in Messages /\ WellPaired(Sanitize(h))
BY SanitizePairs DEF Messages
=============================================================================
