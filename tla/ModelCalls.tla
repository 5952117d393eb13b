----------------------------- MODULE ModelCalls ------------------------------
(***************************************************************************)
(* How PinchBot asks a model: the chain of candidates (FallbackChain) over *)
(* the cooldowns all calls of one agent loop share (CooldownTracker), and  *)
(* the two loops that ask again when the chain gives up: the one of a turn *)
(* (runLLMIteration) and the one of a summary (retryLLMCall).              *)
(*                                                                         *)
(* Time is in minutes.  The waits between two attempts and before a turn   *)
(* asks again take seconds: time may pass in them, but need not.  An error *)
(* has a reason, for which the chain rests a model, and a text, in which a *)
(* turn looks for a cause; vendors word their errors as they like, and     *)
(* either goes with any other.                                             *)
(***************************************************************************)
EXTENDS Integers, SequencesExt

CONSTANTS
    TurnCalls, SummaryCalls,    \* the calls of turns and of summaries
    Models,             \* the keys "provider/model"
    Provider, Family,   \* of each model
    Candidates,         \* the models of each caller, preferred first
    Jumps, MaxJumps     \* bound: how far time moves at once, and how often

Calls == TurnCalls \cup SummaryCalls

ASSUME CallsAssumption ==
    /\ TurnCalls \cap SummaryCalls = {}
    /\ Candidates \in [Calls -> Seq(Models)]
    /\ \A c \in Calls : Candidates[c] # <<>>
    /\ Jumps \subseteq Nat
    /\ MaxJumps \in Nat

VARIABLES
    now,
    jumps,
    tracker,    \* CooldownTracker.entries
    call        \* how far each call is

callVars == <<now, jumps, tracker, call>>

-----------------------------------------------------------------------------
\* CooldownTracker.
FailureWindow == 1440
StandardCooldown(n) == IF n <= 1 THEN 1 ELSE IF n = 2 THEN 5 ELSE IF n = 3 THEN 25 ELSE 60
BillingCooldown(n) == IF n <= 1 THEN 300 ELSE IF n = 2 THEN 600 ELSE IF n = 3 THEN 1200 ELSE 1440

\* errors, billing: failures counted, of any kind and for want of money;
\* end, disabled: until when the model rests for them.
Entry == [errors : Nat, billing : Nat, end : Nat, disabled : Nat, last : Nat]
NoEntry == [errors |-> 0, billing |-> 0, end |-> 0, disabled |-> 0, last |-> 0]

IsAvailable(m) == now >= tracker[m].disabled /\ now >= tracker[m].end

Counted(e, reason) ==
    LET kept == IF now - e.last > FailureWindow
                THEN [e EXCEPT !.errors = 0, !.billing = 0] ELSE e
    IN  [kept EXCEPT !.errors = @ + 1,
                     !.billing = IF reason = "billing" THEN @ + 1 ELSE @,
                     !.last = now]
AfterFailureExclusive(e, reason) == \* Mutant: one kind of rest replaces the other.
    LET counted == Counted(e, reason)
    IN  IF reason = "billing"
        THEN [counted EXCEPT !.disabled = now + BillingCooldown(counted.billing), !.end = 0]
        ELSE [counted EXCEPT !.end = now + StandardCooldown(counted.errors), !.disabled = 0]
AfterFailure(e, reason) ==
    LET counted == Counted(e, reason)
    IN  IF reason = "billing"
        THEN [counted EXCEPT !.disabled = now + BillingCooldown(counted.billing)]
        ELSE [counted EXCEPT !.end = now + StandardCooldown(counted.errors)]
MarkFailure(m, reason) == tracker' = [tracker EXCEPT ![m] = AfterFailure(@, reason)]

AfterSuccessHalf(e) == [e EXCEPT !.errors = 0, !.billing = 0, !.end = 0] \* Mutant: the disabling is kept.
AfterSuccess(e) == [e EXCEPT !.errors = 0, !.billing = 0, !.end = 0, !.disabled = 0]
MarkSuccess(m) == tracker' = [tracker EXCEPT ![m] = AfterSuccess(@)]

-----------------------------------------------------------------------------
\* buildLayeredCandidates: the first, its other keys, other models of its
\* provider, other providers; no candidate twice.
LayerOf(first, m) ==
    IF Provider[m] # Provider[first] THEN "other provider"
    ELSE IF Family[m] # Family[first] THEN "other model" ELSE "other key"
AppendUnique(out, m) == IF m \in Range(out) THEN out ELSE Append(out, m)
Layer(out, candidates, layer) ==
    FoldLeft(LAMBDA kept, m : IF LayerOf(Head(candidates), m) = layer
                              THEN AppendUnique(kept, m) ELSE kept,
             out, Tail(candidates))
LayeredSameProvider(candidates) == \* Mutant: other models of the provider are left out.
    Layer(Layer(<<Head(candidates)>>, candidates, "other key"), candidates, "other provider")
Layered(candidates) ==
    Layer(Layer(Layer(<<Head(candidates)>>, candidates, "other key"),
                candidates, "other model"), candidates, "other provider")

\* The reasons that rest a model and let the chain go on: of all of them only
\* the want of money has a cooldown of its own.
Reasons == {"billing", "busy"}
\* What a text is recognised by: a time-out, or else a request too long.
Causes == {"timeout", "too long", "other"}
\* Nobody looks into the error of a summary.
Recognised(c) == IF c \in TurnCalls THEN Causes ELSE {"other"}
MaxAttempts == 2
MaxRounds == 2

\* queue: the candidates to come, the one in hand first; skipped, failed: the
\* candidates gone through; cause: what the text of the error to come will be
\* recognised by; after: the cause for which a turn has asked again.
CallSteps == {"idle", "choosing", "asking", "erred", "done"}
Call == [at : CallSteps, queue : Seq(Models), attempt : 0..MaxAttempts, round : 0..MaxRounds,
         skipped : SUBSET Models, failed : SUBSET Models,
         cause : Causes, after : Causes]
NoCall == [at |-> "idle", queue |-> <<>>, attempt |-> 0, round |-> 0,
           skipped |-> {}, failed |-> {}, cause |-> "other", after |-> "other"]
Done == [NoCall EXCEPT !.at = "done"]
Asked(c, round, after) ==
    [NoCall EXCEPT !.at = "choosing", !.queue = Layered(Candidates[c]),
                   !.round = round, !.after = after]

\* Every variable has its type.
CallTypeOK ==
    /\ now \in Nat /\ jumps \in 0..MaxJumps
    /\ tracker \in [Models -> Entry]
    /\ call \in [Calls -> Call]

CallInit ==
    /\ now = 0 /\ jumps = 0
    /\ tracker = [m \in Models |-> NoEntry]
    /\ call = [c \in Calls |-> NoCall]

\* The error of an exhausted chain quotes those of all attempts.
Named(earlier, cause) ==
    IF "timeout" \in {earlier, cause} THEN "timeout"
    ELSE IF "too long" \in {earlier, cause} THEN "too long" ELSE "other"

UpdateCall(c, k) == call' = [call EXCEPT ![c] = k]

-----------------------------------------------------------------------------
\* callLLMWithContext and FallbackChain.Execute.
CallLLM(c) ==
    /\ call[c].at = "idle"
    /\ UpdateCall(c, Asked(c, 0, "other"))
    /\ UNCHANGED <<now, jumps, tracker>>

\* A candidate in cooldown is passed over.
ChooseCandidate(c) ==
    LET k == call[c] IN
    /\ k.at = "choosing" /\ k.queue # <<>>
    /\ UpdateCall(c, IF IsAvailable(Head(k.queue))
                 THEN [k EXCEPT !.at = "asking", !.attempt = 1]
                 ELSE [k EXCEPT !.queue = Tail(@), !.skipped = @ \cup {Head(k.queue)}])
    /\ UNCHANGED <<now, jumps, tracker>>

ModelAnswers(c) ==
    /\ call[c].at = "asking"
    /\ MarkSuccess(Head(call[c].queue))
    /\ \/ UpdateCall(c, Done)
       \/ /\ c \in SummaryCalls    \* an empty answer is asked for again
          /\ UpdateCall(c, [call[c] EXCEPT !.at = "erred"])
    /\ UNCHANGED <<now, jumps>>

AttemptFails(c, cause) ==
    LET k == call[c] IN
    /\ k.at = "asking" /\ k.attempt < MaxAttempts
    /\ UpdateCall(c, [k EXCEPT !.attempt = @ + 1, !.cause = Named(@, cause)])
    /\ UNCHANGED <<now, jumps, tracker>>

CandidateFails(c, reason, cause) ==
    LET k == call[c] IN
    /\ k.at = "asking" /\ k.attempt = MaxAttempts
    /\ MarkFailure(Head(k.queue), reason)
    /\ UpdateCall(c, [k EXCEPT !.at = "choosing", !.queue = Tail(@), !.attempt = 0,
                           !.failed = @ \cup {Head(k.queue)}, !.cause = Named(@, cause)])
    /\ UNCHANGED <<now, jumps>>

\* Nothing is tried any more after an error nobody knows, one of the request
\* itself, or when the context is canceled, which names no cause.
Abort(c, cause) ==
    /\ call[c].at = "asking" \/ (call[c].at = "choosing" /\ call[c].queue # <<>> /\ cause = "other")
    /\ UpdateCall(c, [call[c] EXCEPT !.at = "erred", !.cause = cause])
    /\ UNCHANGED <<now, jumps, tracker>>

Exhausted(k) == k.at = "choosing" /\ k.queue = <<>>
GiveUp(c) ==
    /\ Exhausted(call[c])
    /\ UpdateCall(c, [call[c] EXCEPT !.at = "erred"])
    /\ UNCHANGED <<now, jumps, tracker>>

-----------------------------------------------------------------------------
\* A turn asks again after a time-out, and after the history of a request that
\* was too long has been compressed; a summary after anything.
TurnWorthAnotherAlways(c) == call[c].cause # "other" \* Mutant: asked again for ever.
TurnWorthAnother(c) == call[c].round < MaxRounds /\ call[c].cause # "other"
RetryTurn(c) ==
    /\ c \in TurnCalls
    /\ call[c].at = "erred"
    /\ TurnWorthAnother(c)
    /\ UpdateCall(c, Asked(c, call[c].round + 1, call[c].cause))
    /\ UNCHANGED <<now, jumps, tracker>>

RetrySummary(c) ==
    /\ c \in SummaryCalls
    /\ call[c].at = "erred"
    /\ call[c].round < MaxRounds
    /\ UpdateCall(c, Asked(c, call[c].round + 1, "other"))
    /\ UNCHANGED <<now, jumps, tracker>>

CallEnds(c) ==
    /\ call[c].at = "erred"
    /\ IF c \in TurnCalls THEN ~TurnWorthAnother(c) ELSE call[c].round = MaxRounds
    /\ UpdateCall(c, Done)
    /\ UNCHANGED <<now, jumps, tracker>>

Tick ==
    /\ jumps < MaxJumps
    /\ jumps' = jumps + 1
    /\ \E d \in Jumps : now' = now + d
    /\ UNCHANGED <<tracker, call>>

Proceed(c) ==
    \/ CallLLM(c) \/ ChooseCandidate(c) \/ ModelAnswers(c) \/ GiveUp(c)
    \/ \E cause \in Recognised(c) :
         \/ AttemptFails(c, cause) \/ Abort(c, cause)
         \/ \E reason \in Reasons : CandidateFails(c, reason, cause)
    \/ RetryTurn(c) \/ RetrySummary(c) \/ CallEnds(c)

CallNext == (\E c \in Calls : Proceed(c)) \/ Tick
CallSpec == CallInit /\ [][CallNext]_callVars

-----------------------------------------------------------------------------
\* However the failures of several calls interleave and however long they
\* took, no failure brings the end of a rest forward: a model that rests does
\* so to the end, unless a call of it that was under way succeeds, and then
\* nothing of the rest remains.
CooldownsOnlyGrow ==
    [][\A m \in Models :
        \/ tracker'[m].end >= tracker[m].end /\ tracker'[m].disabled >= tracker[m].disabled
        \/ tracker'[m].end = 0 /\ tracker'[m].disabled = 0 /\ tracker'[m].errors = 0]_callVars

\* The chain gives up only when every candidate has failed in this call or was
\* resting when its turn came; and no model rests that has not failed since
\* its last success.
RestsAfterFailure == \A m \in Models : tracker[m].errors = 0 => IsAvailable(m)
FailoverIsExact ==
    /\ \A c \in Calls :
        Exhausted(call[c]) =>
            call[c].skipped \cup call[c].failed = Range(Candidates[c])
    /\ RestsAfterFailure

\* "Timeout error, retrying after backoff": a turn that asks again after a
\* time-out asks at least one model.
TimeoutIsRetried ==
    \A t \in TurnCalls :
        Exhausted(call[t]) /\ call[t].after = "timeout" => call[t].failed # {}
=============================================================================
