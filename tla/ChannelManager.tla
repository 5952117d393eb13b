--------------------------- MODULE ChannelManager ---------------------------
(***************************************************************************)
(* pkg/channels/manager.go: one dispatcher per lane (text, media) moves    *)
(* messages from the bus to the queues of the channels, one goroutine per  *)
(* queue sends them, and two calls that hold the manager's lock change the *)
(* set of channels under them: Reload, run by the gateway's reload         *)
(* goroutine, and StopAll, the end of the runtime's Stop.                  *)
(*                                                                         *)
(* A channel object and its worker live and die together, so both are      *)
(* called by one name.  The bus is a queue per lane, which is what         *)
(* MessageBus guarantees of it.                                            *)
(***************************************************************************)
EXTENDS Integers, SequencesExt

CONSTANTS
    Channels,
    ByName,         \* Channels in the order of their names
    Lanes,
    LaneOrder,      \* the order in which a worker's queues are closed
    MaxObjects,     \* bound: channel objects ever created
    None,
    QueueSize,      \* defaultChannelQueueSize
    maxRetries,
    Configs,        \* the channel configurations that may be loaded: a number
                    \* per channel stands for its hash, 0 is disabled
    MaxPublished    \* bound: messages per lane and channel

ASSUME ChannelManagerAssumption ==
    /\ ByName \in Seq(Channels) /\ ToSet(ByName) = Channels
    /\ LaneOrder \in Seq(Lanes) /\ ToSet(LaneOrder) = Lanes /\ Lanes # {}
    /\ QueueSize \in Nat \ {0} /\ maxRetries \in Nat
    /\ Configs \subseteq [Channels -> Nat] /\ MaxPublished \in [Lanes \X Channels -> Nat]
    /\ MaxObjects \in Nat /\ MaxObjects >= Len(ByName)
    /\ None \notin Nat /\ None \notin Channels

VARIABLES
    outbound,       \* the bus: messages waiting per lane
    published,      \* how many were published per lane and channel
    channelHashes,  \* the configuration of each channel
    channels,       \* m.channels: the object registered under a name
    workers,        \* m.workers: the object whose worker serves a name
    object,         \* name, configuration and status of each object
    line,           \* a worker's queue and goroutine, per object and lane
    background,     \* objects whose worker Reload started, on context.Background
    cancelled,      \* the context of StartAll is cancelled
    dispatcher,     \* per lane
    reload, stop,   \* progress of Reload and of the runtime's Stop
    attempts,       \* the messages Send was called with, per lane and channel
    panicked        \* a goroutine used a closed queue: the process is gone

vars == <<outbound, published, channelHashes, channels, workers, object, line,
          background, cancelled, dispatcher, reload, stop, attempts, panicked>>
busVars == <<outbound, published>>
tableVars == <<channelHashes, channels, workers>>
workVars == <<object, line, background, attempts>>

Objects == 1..MaxObjects
Message == Channels \X (Nat \ {0})
Unused == [name |-> None, version |-> 0, status |-> "unused"]
NoLine == [queue |-> <<>>, open |-> FALSE, pc |-> "none", msg |-> None, attempt |-> 0]
NewLine == [NoLine EXCEPT !.open = TRUE, !.pc = "waiting"]
NoReload == [stage |-> "idle", removing |-> {}, adding |-> {}, lane |-> 1]

\* Every variable has its type; a queue never holds more than its size.
TypeOK ==
    /\ outbound \in [Lanes -> Seq(Message)]
    /\ published \in [Lanes -> [Channels -> Nat]]
    /\ channelHashes \in [Channels -> Nat]
    /\ channels \in [Channels -> Objects \cup {None}]
    /\ workers \in [Channels -> Objects \cup {None}]
    /\ object \in [Objects -> [name : Channels \cup {None}, version : Nat,
                               status : {"unused", "new", "running", "stopped"}]]
    /\ line \in [Objects \X Lanes -> [queue : Seq(Message), open : BOOLEAN,
                    pc : {"none", "waiting", "sending", "calling", "done"},
                    msg : Message \cup {None}, attempt : 0..maxRetries]]
    /\ \A x \in Objects \X Lanes : Len(line[x].queue) <= QueueSize
    /\ background \subseteq Objects
    /\ cancelled \in BOOLEAN /\ panicked \in BOOLEAN
    /\ dispatcher \in [Lanes -> [pc : {"subscribe", "lookup", "enqueue", "stopped"},
                                 msg : Message \cup {None}, target : Objects \cup {None}]]
    /\ reload \in [stage : {"idle", "stop", "close", "wait"},
                   removing : SUBSET Channels, adding : SUBSET Channels,
                   lane : 1..Len(LaneOrder)]
    /\ stop \in [stage : {"none", "cancelled", "busClosed", "close", "wait", "stopped"},
                 lane : 1..Len(LaneOrder)]
    /\ attempts \in [Lanes -> [Channels -> Seq(Nat \ {0})]]

-----------------------------------------------------------------------------
\* Init is the manager after StartAll: a channel whose Start failed stays
\* registered and has no worker.
Place(c) == CHOOSE i \in 1..Len(ByName) : ByName[i] = c

Init ==
    \E up \in SUBSET Channels :
        LET Up(o) == \E c \in up : Place(c) = o IN
        /\ channels = [c \in Channels |-> Place(c)]
        /\ workers = [c \in Channels |-> IF c \in up THEN Place(c) ELSE None]
        /\ object = [o \in Objects |->
                       IF o > Len(ByName) THEN Unused
                       ELSE [name |-> ByName[o], version |-> 1,
                             status |-> IF Up(o) THEN "running" ELSE "new"]]
        /\ line = [x \in Objects \X Lanes |-> IF Up(x[1]) THEN NewLine ELSE NoLine]
        /\ outbound = [l \in Lanes |-> <<>>]
        /\ published = [l \in Lanes |-> [c \in Channels |-> 0]]
        /\ channelHashes = [c \in Channels |-> 1]
        /\ background = {}
        /\ cancelled = FALSE /\ panicked = FALSE
        /\ dispatcher = [l \in Lanes |-> [pc |-> "subscribe", msg |-> None, target |-> None]]
        /\ reload = NoReload
        /\ stop = [stage |-> "none", lane |-> 1]
        /\ attempts = [l \in Lanes |-> [c \in Channels |-> <<>>]]

\* StopAll holds the lock from its first statement to its last.
StopAllRuns == stop.stage \in {"close", "wait"}
LockFree == reload.stage = "idle" /\ ~StopAllRuns
BusClosed == stop.stage \notin {"none", "cancelled"}
\* m.dispatchTask # nil
Dispatching == stop.stage \in {"none", "cancelled", "busClosed"}

-----------------------------------------------------------------------------
\* The agent publishes a message for a channel.
Publish(l, c) ==
    /\ ~BusClosed
    /\ published[l][c] < MaxPublished[l, c]
    /\ published' = [published EXCEPT ![l][c] = @ + 1]
    /\ outbound' = [outbound EXCEPT ![l] = Append(@, <<c, published[l][c] + 1>>)]
    /\ UNCHANGED <<tableVars, workVars, cancelled, dispatcher, reload, stop, panicked>>

-----------------------------------------------------------------------------
\* dispatchLoop
At(l, pc) == dispatcher[l].pc = pc
Subscribing == [pc |-> "subscribe", msg |-> None, target |-> None]
Gone == [Subscribing EXCEPT !.pc = "stopped"]

Subscribe(l) ==
    /\ At(l, "subscribe")
    /\ outbound[l] # <<>>
    /\ outbound' = [outbound EXCEPT ![l] = Tail(@)]
    /\ dispatcher' = [dispatcher EXCEPT ![l].pc = "lookup", ![l].msg = Head(outbound[l])]
    /\ UNCHANGED <<published, tableVars, workVars, cancelled, reload, stop, panicked>>

\* Under the read lock, which is released before the message is queued.
LookUp(l) ==
    LET c == dispatcher[l].msg[1] IN
    /\ At(l, "lookup")
    /\ LockFree
    /\ dispatcher' = [dispatcher EXCEPT ![l] =
                        IF channels[c] = None \/ workers[c] = None THEN Subscribing
                        ELSE [@ EXCEPT !.pc = "enqueue", !.target = workers[c]]]
    /\ UNCHANGED <<busVars, tableVars, workVars, cancelled, reload, stop, panicked>>

Target(l) == <<dispatcher[l].target, l>>

\* Mutant: the dispatcher does not wait for room.
HasRoomAlways(x) == TRUE
HasRoom(x) == Len(line[x].queue) < QueueSize

Enqueue(l) ==
    /\ At(l, "enqueue")
    /\ line[Target(l)].open
    /\ HasRoom(Target(l))
    /\ line' = [line EXCEPT ![Target(l)].queue = Append(@, dispatcher[l].msg)]
    /\ dispatcher' = [dispatcher EXCEPT ![l] = Subscribing]
    /\ UNCHANGED <<busVars, tableVars, object, background, attempts, cancelled, reload,
                   stop, panicked>>

SendOnClosed(l) ==
    /\ At(l, "enqueue")
    /\ ~line[Target(l)].open
    /\ panicked' = TRUE
    /\ UNCHANGED <<busVars, tableVars, workVars, cancelled, dispatcher, reload, stop>>

StopDispatching(l) ==
    /\ \/ At(l, "subscribe") /\ (cancelled \/ BusClosed)
       \/ At(l, "enqueue") /\ cancelled
    /\ dispatcher' = [dispatcher EXCEPT ![l] = Gone]
    /\ UNCHANGED <<busVars, tableVars, workVars, cancelled, reload, stop, panicked>>

-----------------------------------------------------------------------------
\* runWorker, runMediaWorker and the sends with their retries.  A message is
\* one chunk of what was published.  The wait for the rate limit, and the one
\* before another attempt, end with the context.
ContextDone(o) == o \notin background /\ cancelled
Idle(x) == [line[x] EXCEPT !.pc = "waiting", !.msg = None, !.attempt = 0]

Take(x) ==
    /\ line[x].pc = "waiting"
    /\ line[x].queue # <<>>
    /\ line' = [line EXCEPT ![x].pc = "sending", ![x].msg = Head(line[x].queue),
                            ![x].queue = Tail(@)]
    /\ UNCHANGED <<busVars, tableVars, object, background, attempts, cancelled,
                   dispatcher, reload, stop, panicked>>

\* Mutant: the end of the queue is not noticed.
EndedByContext(x) == ContextDone(x[1])
\* The queue is closed and empty, or the select takes the context.
Ended(x) == (~line[x].open /\ line[x].queue = <<>>) \/ ContextDone(x[1])

Exit(x) ==
    /\ line[x].pc = "waiting"
    /\ Ended(x)
    /\ line' = [line EXCEPT ![x].pc = "done"]
    /\ UNCHANGED <<busVars, tableVars, object, background, attempts, cancelled,
                   dispatcher, reload, stop, panicked>>

Running(x) == object[x[1]].status = "running"

\* ch.Send is called.  What the service makes of an attempt is not known before
\* the call returns, and after a time-out not even then.
Attempt(x) ==
    LET m == line[x].msg IN
    /\ line[x].pc = "sending"
    /\ Running(x)
    /\ line' = [line EXCEPT ![x].pc = "calling"]
    /\ attempts' = [attempts EXCEPT ![x[2]][m[1]] = Append(@, m[2])]
    /\ UNCHANGED <<busVars, tableVars, object, background, cancelled, dispatcher, reload,
                   stop, panicked>>

\* ErrNotRunning, or the end of the context during a wait.
Abandon(x) ==
    /\ line[x].pc = "sending"
    /\ ~Running(x) \/ ContextDone(x[1])
    /\ line' = [line EXCEPT ![x] = Idle(x)]
    /\ UNCHANGED <<busVars, tableVars, object, background, attempts, cancelled,
                   dispatcher, reload, stop, panicked>>

\* The call returns without an error, with a permanent one, or with the last.
Conclude(x) ==
    /\ line[x].pc = "calling"
    /\ line' = [line EXCEPT ![x] = Idle(x)]
    /\ UNCHANGED <<busVars, tableVars, object, background, attempts, cancelled,
                   dispatcher, reload, stop, panicked>>

\* Mutant: a message that failed for now goes to the end of the queue.
RetryLast(x) ==
    /\ line[x].pc = "calling"
    /\ line' = [line EXCEPT ![x] = [Idle(x) EXCEPT !.queue = Append(@, line[x].msg)]]
    /\ UNCHANGED <<busVars, tableVars, object, background, attempts, cancelled,
                   dispatcher, reload, stop, panicked>>
\* Any other error: the same message again after a pause.
Retry(x) ==
    /\ line[x].pc = "calling"
    /\ line[x].attempt < maxRetries
    /\ line' = [line EXCEPT ![x].pc = "sending", ![x].attempt = @ + 1]
    /\ UNCHANGED <<busVars, tableVars, object, background, attempts, cancelled,
                   dispatcher, reload, stop, panicked>>

-----------------------------------------------------------------------------
\* Reload: one at a time (Service.reloading), under the lock throughout.
\* compareChannels: a channel that changed is both removed and added.
Enabled(config, c) == config[c] # 0
ChangedAny(config, c) == TRUE \* Mutant: hashes are not compared.
Changed(config, c) == channelHashes[c] # config[c]
Removed(config) == {c \in Channels : Enabled(channelHashes, c) /\ Changed(config, c)}
Added(config) == {c \in Channels : Enabled(config, c) /\ Changed(config, c)}
First(names) == CHOOSE c \in names : \A other \in names : Place(c) <= Place(other)
Fresh == {o \in Objects : object[o].status = "unused"}

BeginReload(config) ==
    /\ LockFree
    /\ Cardinality(Added(config)) <= Cardinality(Fresh)
    /\ channelHashes' = config
    /\ reload' = IF Removed(config) \cup Added(config) = {} THEN reload
                 ELSE [stage |-> "stop", removing |-> Removed(config),
                       adding |-> Added(config), lane |-> 1]
    /\ UNCHANGED <<busVars, channels, workers, workVars, cancelled, dispatcher, stop, panicked>>

Leaving == First(reload.removing)
\* The rest of Reload once the channel is gone from both maps.
AfterRemoval == [reload EXCEPT !.stage = "stop", !.removing = @ \ {Leaving}, !.lane = 1]
Forget(table) == [table EXCEPT ![Leaving] = None]

\* channel.Stop, and the end of unregisterChannelLocked if there is no worker.
StopChannel ==
    LET o == channels[Leaving] IN
    /\ reload.stage = "stop" /\ reload.removing # {}
    /\ object' = IF o = None THEN object ELSE [object EXCEPT ![o].status = "stopped"]
    /\ IF workers[Leaving] = None
       THEN /\ reload' = AfterRemoval
            /\ channels' = Forget(channels) /\ UNCHANGED workers
       ELSE /\ reload' = [reload EXCEPT !.stage = "close"]
            /\ UNCHANGED <<channels, workers>>
    /\ UNCHANGED <<busVars, channelHashes, line, background, attempts, cancelled,
                   dispatcher, stop, panicked>>

LeavingLine == <<workers[Leaving], LaneOrder[reload.lane]>>

\* close(w.queue): closing it twice panics.
CloseLine ==
    /\ reload.stage = "close"
    /\ panicked' = ~line[LeavingLine].open
    /\ line' = [line EXCEPT ![LeavingLine].open = FALSE]
    /\ reload' = [reload EXCEPT !.stage = "wait"]
    /\ UNCHANGED <<busVars, tableVars, object, background, attempts, cancelled,
                   dispatcher, stop>>

\* Mutant: the goroutine is not waited for.
FinishedAlways(x) == TRUE
Finished(x) == line[x].pc \in {"none", "done"}

WaitLine ==
    /\ reload.stage = "wait"
    /\ Finished(LeavingLine)
    /\ IF reload.lane < Len(LaneOrder)
       THEN /\ reload' = [reload EXCEPT !.stage = "close", !.lane = @ + 1]
            /\ UNCHANGED <<channels, workers>>
       ELSE /\ reload' = AfterRemoval
            /\ channels' = Forget(channels) /\ workers' = Forget(workers)
    /\ UNCHANGED <<busVars, channelHashes, workVars, cancelled, dispatcher, stop, panicked>>

\* initChannel fails, or the channel stays unstarted because StopAll has taken
\* the dispatchers away, or its Start fails, or it gets a worker of its own.
StartsLate == TRUE \* Mutant: dispatchTask is not looked at.
Starts == Dispatching

AddChannel ==
    LET c == First(reload.adding)
        o == CHOOSE new \in Fresh : \A other \in Fresh : new <= other
        Become(status) == object' = [object EXCEPT ![o] =
                            [name |-> c, version |-> channelHashes[c], status |-> status]]
    IN
    /\ reload.stage = "stop" /\ reload.removing = {} /\ reload.adding # {}
    /\ reload' = [reload EXCEPT !.adding = @ \ {c}]
    /\ \/ UNCHANGED <<channels, workers, object, line, background>>
       \/ /\ ~Starts
          /\ Become("new")
          /\ channels' = [channels EXCEPT ![c] = o]
          /\ UNCHANGED <<workers, line, background>>
       \/ /\ Starts
          /\ Become("running")
          /\ channels' = [channels EXCEPT ![c] = o]
          /\ workers' = [workers EXCEPT ![c] = o]
          /\ line' = [x \in Objects \X Lanes |-> IF x[1] = o THEN NewLine ELSE line[x]]
          /\ background' = background \cup {o}
    /\ UNCHANGED <<busVars, channelHashes, attempts, cancelled, dispatcher, stop, panicked>>

EndReload ==
    /\ reload.stage = "stop" /\ reload.removing = {} /\ reload.adding = {}
    /\ reload' = NoReload
    /\ UNCHANGED <<busVars, tableVars, workVars, cancelled, dispatcher, stop, panicked>>

-----------------------------------------------------------------------------
\* The runtime's Stop: cancel, msgBus.Close, then StopAll under the lock.
Cancel ==
    /\ stop.stage = "none"
    /\ cancelled' = TRUE
    /\ stop' = [stop EXCEPT !.stage = "cancelled"]
    /\ UNCHANGED <<busVars, tableVars, workVars, dispatcher, reload, panicked>>

CloseBus ==
    /\ stop.stage = "cancelled"
    /\ outbound' = [l \in Lanes |-> <<>>]
    /\ stop' = [stop EXCEPT !.stage = "busClosed"]
    /\ UNCHANGED <<published, tableVars, workVars, cancelled, dispatcher, reload, panicked>>

BeginStopAll ==
    /\ stop.stage = "busClosed"
    /\ LockFree
    /\ stop' = [stop EXCEPT !.stage = "close"]
    /\ UNCHANGED <<busVars, tableVars, workVars, cancelled, dispatcher, reload, panicked>>

Serving == {workers[c] : c \in Channels} \ {None}
LinesOf(k) == Serving \X {LaneOrder[k]}

CloseAllLines ==
    /\ stop.stage = "close"
    /\ panicked' = \E x \in LinesOf(stop.lane) : ~line[x].open
    /\ line' = [x \in Objects \X Lanes |->
                  IF x \in LinesOf(stop.lane) THEN [line[x] EXCEPT !.open = FALSE] ELSE line[x]]
    /\ stop' = [stop EXCEPT !.stage = "wait"]
    /\ UNCHANGED <<busVars, tableVars, object, background, attempts, cancelled,
                   dispatcher, reload>>

\* After the last lane the channels are stopped; the maps keep them.
WaitAllLines ==
    /\ stop.stage = "wait"
    /\ \A x \in LinesOf(stop.lane) : Finished(x)
    /\ IF stop.lane < Len(LaneOrder)
       THEN /\ stop' = [stage |-> "close", lane |-> stop.lane + 1]
            /\ UNCHANGED object
       ELSE /\ stop' = [stop EXCEPT !.stage = "stopped"]
            /\ object' = [o \in Objects |->
                            IF \E c \in Channels : channels[c] = o
                            THEN [object[o] EXCEPT !.status = "stopped"] ELSE object[o]]
    /\ UNCHANGED <<busVars, tableVars, line, background, attempts, cancelled,
                   dispatcher, reload, panicked>>

-----------------------------------------------------------------------------
Dispatch(l) == Subscribe(l) \/ LookUp(l) \/ Enqueue(l) \/ SendOnClosed(l) \/ StopDispatching(l)
Work(x) == Take(x) \/ Exit(x) \/ Attempt(x) \/ Abandon(x)
Return(x) == Conclude(x) \/ Retry(x)
ReloadStep == StopChannel \/ CloseLine \/ WaitLine \/ AddChannel \/ EndReload
StopStep == CloseBus \/ BeginStopAll \/ CloseAllLines \/ WaitAllLines

Step ==
    \/ \E l \in Lanes, c \in Channels : Publish(l, c)
    \/ \E l \in Lanes : Dispatch(l)
    \/ \E x \in Objects \X Lanes : Work(x) \/ Return(x)
    \/ \E config \in Configs : BeginReload(config)
    \/ Cancel
    \/ ReloadStep \/ StopStep

\* A panic ends the process.
Crashed == panicked /\ UNCHANGED vars
Next == (~panicked /\ Step) \/ Crashed

Spec == Init /\ [][Next]_vars

\* Goroutines that can run do.  A mutex passes to one that waits for it.
\* Nothing is assumed of a call of Send: its context has no deadline.
FairSpec ==
    /\ Spec
    /\ \A x \in Objects \X Lanes : WF_vars(~panicked /\ Work(x))
    /\ WF_vars(~panicked /\ ReloadStep)
    /\ SF_vars(~panicked /\ StopStep)

-----------------------------------------------------------------------------
\* Whatever Reload replaces on the way and whatever fails, a channel attempts
\* its messages in the order in which they were published: after an attempt of
\* a later message there is none of an earlier one, and no message is attempted
\* more than maxRetries + 1 times.
InOrder ==
    \A l \in Lanes, c \in Channels : LET d == attempts[l][c] IN
        \A i, j \in 1..Len(d) :
            /\ i < j => d[i] <= d[j]
            /\ i + maxRetries < j => d[i] < d[j]

\* At no moment do two goroutines send for the same channel and lane.
Sends(o, l) == line[<<o, l>>].pc \in {"waiting", "sending", "calling"}
OneSender ==
    \A o1, o2 \in Objects, l \in Lanes :
        Sends(o1, l) /\ Sends(o2, l) /\ object[o1].name = object[o2].name => o1 = o2

\* Between two calls of Reload every registered channel has the configuration
\* last loaded, none is registered that it disables, and a worker sends
\* through the object registered under its name; a channel that Reload added
\* has its worker, until StopAll takes over; yet Reload never stops a channel
\* whose configuration stayed as it was.
ReloadIsExact ==
    /\ reload.stage = "idle" =>
         \A c \in Channels :
            /\ channels[c] # None => object[channels[c]].version = channelHashes[c]
            /\ channelHashes[c] = 0 => channels[c] = None
            /\ workers[c] \in {None, channels[c]}
            /\ channels[c] \in Objects \ 1..Len(ByName) /\ Dispatching => workers[c] # None
    /\ stop.stage # "stopped" =>
         \A c \in Channels :
            channels[c] # None /\ object[channels[c]].version = channelHashes[c]
                => object[channels[c]].status # "stopped"

\* Once StopAll has returned no goroutine sends any more and no channel runs,
\* whatever Reload was doing before, or does afterwards.
StoppedIsQuiet ==
    stop.stage = "stopped" =>
        /\ \A o \in Objects, l \in Lanes : ~Sends(o, l)
        /\ \A o \in Objects : object[o].status # "running"

\* Every call of Send ends, which not every channel sees to.
SendsEnd == \A x \in Objects \X Lanes : []<>(line[x].pc # "calling")

\* Reload and StopAll wait for goroutines with the lock in their hands, and
\* yet both return if the calls of Send do, unless the process dies.
CallsReturn ==
    SendsEnd =>
        /\ reload.stage # "idle" ~> reload.stage = "idle" \/ panicked
        /\ stop.stage # "none" ~> stop.stage = "stopped" \/ panicked
=============================================================================
