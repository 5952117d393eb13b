----------------------------- MODULE AgentLoop ------------------------------
(***************************************************************************)
(* The turns an agent takes on one session.  Run's goroutine takes one     *)
(* message after the other from the bus; the cron service runs turns of    *)
(* its own on the same session beside it; a summariser started by an       *)
(* earlier turn cuts the history while later turns extend it.  The first   *)
(* history is what a restart loads: Save takes its snapshot between any    *)
(* two steps of a turn.                                                    *)
(*                                                                         *)
(* Every lock section of SessionManager is a step of its own.  The model's *)
(* answers and failures are choices of the environment.                    *)
(***************************************************************************)
EXTENDS Transcript

CONSTANTS
    Turns,          \* the messages that will be processed
    Cron,           \* those that are jobs of the cron service
    MaxIterations,  \* agents.defaults.max_tool_iterations
    Threshold,      \* SummarizeMessageThreshold
    Widths,         \* how many tools one answer may call
    MaxRetried,     \* bound: requests asked again, over all turns
    Past,           \* stands for the turns of an earlier process
    Loaded          \* the histories the session's file may hold at the start

ASSUME AgentAssumption ==
    /\ Cron \subseteq Turns
    /\ MaxIterations \in Nat \ {0}
    /\ Threshold \in Nat
    /\ Widths \subseteq Nat \ {0}
    /\ MaxRetried \in Nat
    /\ Past \notin Turns

VARIABLES
    history,    \* Session.Messages
    turn,       \* the local variables of each turn
    summariser, \* the goroutine maybeSummarize starts
    retried

vars == <<history, turn, summariser, retried>>

MaxRetries == 2
KeepLast == 4
\* CriticalThresholdPercent of the iterations, at least one.
Critical == IF (MaxIterations * 80) \div 100 < 1 THEN 1 ELSE (MaxIterations * 80) \div 100

Ids == [turn : Turns \cup {Past}, iteration : Nat, n : Nat]
Messages == Seq(Message(Turns \cup {Past}, Ids))
User(t) == [role |-> "user", of |-> t, calls |-> {}]
Assistant(t, ids) == [role |-> "assistant", of |-> t, calls |-> ids]
Result(t, id) == [role |-> "tool", of |-> t, calls |-> {id}]

ASSUME LoadedAssumption == Loaded \subseteq Messages

\* A request: the history it was built from, which BuildMessages sanitises, and
\* the turn's own messages behind it.
Request(h, own) == [stored |-> h, own |-> own]
Built(r) == Sanitize(r.stored) \o r.own
Added(r, m) == [r EXCEPT !.own = Append(@, m)]
None == Request(<<>>, <<>>)

\* msgs: the messages of the turn; sent: what the open request carries;
\* seen: a copy of the history read under the lock; todo: tool calls whose
\* results are not recorded yet.
Ended == {"done", "failed"}
Steps == Ended \cup
    {"waiting", "entering", "asking", "calling", "running", "compressing",
     "rebuilding", "retrying", "answering", "closing"}
Idle(at) == [at |-> at, iteration |-> 0, retry |-> 0, nudged |-> FALSE,
             msgs |-> None, sent |-> None, seen |-> <<>>, todo |-> <<>>]

Requests == [stored : Messages, own : Messages]
Local == [at : Steps, iteration : 0..Critical, retry : 0..MaxRetries, nudged : BOOLEAN,
          msgs : Requests, sent : Requests, seen : Messages, todo : Seq(Ids)]

\* Every variable has its type.
TypeOK ==
    /\ history \in Messages
    /\ turn \in [Turns -> Local]
    /\ summariser \in {"idle", "reading", "summarising"}
    /\ retried \in 0..MaxRetried

Init ==
    /\ history \in Loaded
    /\ turn = [t \in Turns |-> Idle("waiting")]
    /\ summariser = "idle"
    /\ retried = 0

-----------------------------------------------------------------------------
Update(t, new) == turn' = [turn EXCEPT ![t] = new]
InHand(t) == turn[t].at \notin Ended \cup {"waiting"}
\* Run's goroutine takes the messages of the bus, cron's its own jobs.
SameGoroutine(s, t) == s \in Cron <=> t \in Cron

\* runAgentLoop reads the history and builds the request ...
Begin(t) ==
    /\ turn[t].at = "waiting"
    /\ \A s \in Turns : SameGoroutine(s, t) => ~InHand(s)
    /\ Update(t, [turn[t] EXCEPT !.at = "entering",
                                 !.msgs = Request(history, <<User(t)>>)])
    /\ UNCHANGED <<history, summariser, retried>>

\* ... and then adds the user's message to the session.
Enter(t) ==
    /\ turn[t].at = "entering"
    /\ history' = Append(history, User(t))
    /\ Update(t, [turn[t] EXCEPT !.at = "asking"])
    /\ UNCHANGED <<summariser, retried>>

-----------------------------------------------------------------------------
\* runLLMIteration.
BelowCriticalLate(k) == k.iteration < Critical \* Mutant: the checkpoint comes one iteration late.
BelowCritical(k) == k.iteration + 1 < Critical

Ask(t) ==
    LET k == turn[t] IN
    /\ k.at = "asking"
    /\ BelowCritical(k)
    /\ Update(t, [k EXCEPT !.at = "calling", !.iteration = @ + 1, !.retry = 0,
                           !.sent = k.msgs])
    /\ UNCHANGED <<history, summariser, retried>>

\* Too many iterations: the session is cut down to the first question the
\* request holds (sanitising drops no user message) and a report, unless the
\* checkpoint cannot be written.
FirstQuestion(t) ==
    LET h == turn[t].msgs.stored \o turn[t].msgs.own
    IN  IF UserMessages(h) = {} THEN User(t) ELSE FirstUser(h)
Checkpoint(t) ==
    LET k == turn[t] IN
    /\ k.at = "asking"
    /\ ~BelowCritical(k)
    /\ \/ history' = <<FirstQuestion(t), Assistant(t, {})>>
       \/ UNCHANGED history
    /\ Update(t, [k EXCEPT !.iteration = @ + 1, !.at = "answering"])
    /\ UNCHANGED <<summariser, retried>>

Another == retried < MaxRetried /\ retried' = retried + 1
Retriable(k) == k.retry < MaxRetries /\ Another
Again(k) == [k EXCEPT !.retry = @ + 1]

TimesOut(t) ==
    LET k == turn[t] IN
    /\ k.at = "calling"
    /\ Retriable(k)
    /\ Update(t, Again(k))
    /\ UNCHANGED <<history, summariser>>

CallFails(t) ==
    /\ turn[t].at = "calling"
    /\ Update(t, Idle("failed"))
    /\ UNCHANGED <<history, summariser, retried>>

\* The request is too long: forceCompression reads the history, writes what
\* is left of it, saves, and the messages are built anew.  The retry sends
\* messagesForLLM, which is still the old request.
TooLong(t) ==
    LET k == turn[t] IN
    /\ k.at = "calling"
    /\ Retriable(k)
    /\ Update(t, [k EXCEPT !.at = "compressing", !.seen = history])
    /\ UNCHANGED <<history, summariser>>

ForceCompression(t) ==
    LET k == turn[t] IN
    /\ k.at = "compressing"
    /\ history' = IF Len(k.seen) <= 4 THEN history ELSE Compress(k.seen)
    /\ Update(t, [k EXCEPT !.at = "rebuilding", !.seen = <<>>])
    /\ UNCHANGED <<summariser, retried>>

Rebuild(t) ==
    /\ turn[t].at = "rebuilding"
    /\ Update(t, [Again(turn[t]) EXCEPT !.at = "calling", !.msgs = Request(history, <<>>)])
    /\ UNCHANGED <<history, summariser, retried>>

\* The model calls tools: the call turn is recorded, the tools run, and their
\* results are recorded one by one.
CallTools(t) ==
    LET k == turn[t] IN
    /\ k.at = "calling"
    /\ \E n \in Widths :
         LET ids == [i \in 1..n |-> [turn |-> t, iteration |-> k.iteration, n |-> i]]
             m == Assistant(t, {ids[i] : i \in 1..n})
         IN  /\ history' = Append(history, m)
             /\ Update(t, [k EXCEPT !.at = "running", !.todo = ids, !.retry = 0,
                                    !.msgs = Added(@, m), !.sent = None])
    /\ UNCHANGED <<summariser, retried>>

RecordResult(t) ==
    LET k == turn[t]
        m == Result(t, Head(k.todo))
    IN  /\ k.at = "running"
        /\ history' = Append(history, m)
        /\ Update(t, [k EXCEPT !.todo = Tail(@), !.msgs = Added(@, m),
                               !.at = IF Len(k.todo) = 1 THEN "asking" ELSE "running"])
        /\ UNCHANGED <<summariser, retried>>

\* The model answers, with a text or with nothing.  At the first iteration of
\* an empty or evasive answer the model is asked once more.
Nudge(t) ==
    LET k == turn[t] IN
    /\ k.at \in {"calling", "answering"}
    /\ k.iteration = 1 /\ ~k.nudged
    /\ Another
    /\ history' = Append(history, User(t))
    /\ Update(t, [Idle("retrying") EXCEPT !.nudged = TRUE])
    /\ UNCHANGED summariser

Retry(t) ==
    /\ turn[t].at = "retrying"
    /\ Update(t, [turn[t] EXCEPT !.at = "asking", !.msgs = Request(history, <<>>)])
    /\ UNCHANGED <<history, summariser, retried>>

Answer(t) ==
    /\ turn[t].at \in {"calling", "answering"}
    /\ history' = Append(history, Assistant(t, {}))
    /\ Update(t, Idle("closing"))
    /\ UNCHANGED <<summariser, retried>>

\* maybeSummarize, by the number of messages or by their size, unless a
\* summariser of the session runs; then the answer is published.
Close(t) ==
    /\ turn[t].at = "closing"
    /\ Update(t, Idle("done"))
    /\ \/ summariser = "idle" /\ summariser' = "reading"
       \/ /\ Len(history) <= Threshold \/ summariser # "idle"
          /\ UNCHANGED summariser
    /\ UNCHANGED <<history, retried>>

-----------------------------------------------------------------------------
\* summarizeSession: it reads the history, asks the model, and truncates
\* whatever the history is by then.
Worthwhile(h) == \E i \in 1..(Len(h) - KeepLast) : h[i].role # "tool"
StartSummary ==
    /\ summariser = "reading"
    /\ summariser' = IF Worthwhile(history) THEN "summarising" ELSE "idle"
    /\ UNCHANGED <<history, turn, retried>>

FinishSummary ==
    /\ summariser = "summarising"
    /\ history' \in {Truncate(history, KeepLast), history}
    /\ summariser' = "idle"
    /\ UNCHANGED <<turn, retried>>

-----------------------------------------------------------------------------
Turn(t) ==
    \/ Begin(t) \/ Enter(t)
    \/ Ask(t) \/ Checkpoint(t)
    \/ TimesOut(t) \/ CallFails(t)
    \/ TooLong(t) \/ ForceCompression(t) \/ Rebuild(t)
    \/ CallTools(t) \/ RecordResult(t)
    \/ Nudge(t) \/ Retry(t) \/ Answer(t) \/ Close(t)
Summary == StartSummary \/ FinishSummary

Next == (\E t \in Turns : Turn(t)) \/ Summary
Spec == Init /\ [][Next]_vars

-----------------------------------------------------------------------------
\* Whatever turns, summaries, compressions and restarts did to the history,
\* in a request every call turn is answered in full by the tool messages
\* directly behind it, and every tool message stands directly behind a call
\* turn and other tool messages: strict vendors refuse the session otherwise.
\* It need not be the call turn that it answers, for sanitising compares no
\* identifiers when it decides which tool messages stay.
WellPaired(s) ==
    \A i \in DOMAIN s :
        /\ Answered(s, i)
        /\ s[i].role = "tool" => BelongsToCallTurn(SubSeq(s, 1, i - 1))
RequestsPaired == \A t \in Turns : turn[t].at = "calling" => WellPaired(Built(turn[t].sent))
=============================================================================
