----------------------------- MODULE MessageBus -----------------------------
(***************************************************************************)
(* pkg/bus/bus.go: three bounded channels between the chat channels and    *)
(* the agent, with any number of publishers and consumers, and a Close     *)
(* that may run at any time.  A publisher checks the closed flag first and *)
(* then waits in a select; Close sets the flag, closes done and empties    *)
(* the channels, and none of this excludes the others.                     *)
(***************************************************************************)
EXTENDS Integers, SequencesExt

CONSTANTS
    Lanes,          \* inbound, outbound, outboundMedia
    DrainOrder,     \* the order in which Close empties them
    Publishers, Consumers, Closers,
    LaneOf,         \* the lane a publisher or consumer uses
    Capacity,       \* defaultBusBufferSize
    MaxPublished    \* bound: publications explored per publisher

ASSUME MessageBusAssumption ==
    /\ DrainOrder \in Seq(Lanes) /\ ToSet(DrainOrder) = Lanes
    /\ LaneOf \in [Publishers \cup Consumers -> Lanes]
    /\ Capacity \in Nat \ {0}
    /\ MaxPublished \in Nat

VARIABLES
    buffer,     \* the contents of each Go channel
    closed,     \* the atomic flag
    done,       \* whether the done channel is closed
    publisher,  \* "idle" or "select"
    count,      \* publications a publisher has begun
    waiting,    \* consumers blocked in a receive
    closer,     \* progress of each call of Close: a number between NotCalled and Returned
    received,   \* what consumers got from each lane, in order
    drained,    \* what Close threw away
    accepted    \* what publishers were told is published

vars == <<buffer, closed, done, publisher, count, waiting, closer, received,
          drained, accepted>>
history == <<received, drained, accepted>>

Message == Publishers \X (1..MaxPublished)
Lane(p) == LaneOf[p]
Current(p) == <<p, count[p]>>

\* The stages of Close; Stage i + 1 empties DrainOrder[i].
NotCalled == 0
Swapped == 1
Draining == 2..(Len(DrainOrder) + 1)
Returned == Len(DrainOrder) + 2
LaneDrained(k) == DrainOrder[closer[k] - 1]

\* Every variable has its type, and no channel exceeds its capacity.
TypeOK ==
    /\ buffer \in [Lanes -> Seq(Message)]
    /\ \A l \in Lanes : Len(buffer[l]) <= Capacity
    /\ closed \in BOOLEAN /\ done \in BOOLEAN
    /\ publisher \in [Publishers -> {"idle", "select"}]
    /\ count \in [Publishers -> 0..MaxPublished]
    /\ waiting \subseteq Consumers
    /\ closer \in [Closers -> NotCalled..Returned]
    /\ received \in [Lanes -> Seq(Message)]
    /\ drained \subseteq Message
    /\ accepted \subseteq Message

Init ==
    /\ buffer = [l \in Lanes |-> <<>>]
    /\ closed = FALSE /\ done = FALSE
    /\ publisher = [p \in Publishers |-> "idle"]
    /\ count = [p \in Publishers |-> 0]
    /\ waiting = {}
    /\ closer = [k \in Closers |-> NotCalled]
    /\ received = [l \in Lanes |-> <<>>]
    /\ drained = {}
    /\ accepted = {}

-----------------------------------------------------------------------------
\* Publishing.  The flag is read before the select and not again.
ClosedSeenLate == FALSE \* Mutant: the flag is not read.
ClosedSeen == closed

Publish(p) ==
    /\ publisher[p] = "idle"
    /\ count[p] < MaxPublished
    /\ count' = [count EXCEPT ![p] = @ + 1]
    /\ publisher' = [publisher EXCEPT ![p] = IF ClosedSeen THEN "idle" ELSE "select"]
    /\ UNCHANGED <<buffer, closed, done, waiting, closer, history>>

\* Mutant: the send does not wait for room.
HasRoomAlways(l) == TRUE
HasRoom(l) == Len(buffer[l]) < Capacity

\* Mutant: a publisher that was accepted tries again.
EnqueueAgain(p) ==
    /\ publisher[p] = "select"
    /\ HasRoom(Lane(p))
    /\ buffer' = [buffer EXCEPT ![Lane(p)] = Append(@, Current(p))]
    /\ accepted' = accepted \cup {Current(p)}
    /\ UNCHANGED <<closed, done, publisher, count, waiting, closer, received, drained>>
\* Mutant: a full channel drops the message and reports success.
EnqueueLossy(p) ==
    /\ publisher[p] = "select"
    /\ buffer' = [buffer EXCEPT ![Lane(p)] = IF HasRoom(Lane(p)) THEN Append(@, Current(p)) ELSE @]
    /\ accepted' = accepted \cup {Current(p)}
    /\ publisher' = [publisher EXCEPT ![p] = "idle"]
    /\ UNCHANGED <<closed, done, count, waiting, closer, received, drained>>
Enqueue(p) ==
    /\ publisher[p] = "select"
    /\ HasRoom(Lane(p))
    /\ buffer' = [buffer EXCEPT ![Lane(p)] = Append(@, Current(p))]
    /\ accepted' = accepted \cup {Current(p)}
    /\ publisher' = [publisher EXCEPT ![p] = "idle"]
    /\ UNCHANGED <<closed, done, count, waiting, closer, received, drained>>

RefusePublish(p) ==
    /\ publisher[p] = "select"
    /\ done
    /\ publisher' = [publisher EXCEPT ![p] = "idle"]
    /\ UNCHANGED <<buffer, closed, done, count, waiting, closer, history>>

\* The caller's context ends.
CancelPublish(p) ==
    /\ publisher[p] = "select"
    /\ publisher' = [publisher EXCEPT ![p] = "idle"]
    /\ UNCHANGED <<buffer, closed, done, count, waiting, closer, history>>

-----------------------------------------------------------------------------
\* Consuming.  The select takes a message or done, whichever it likes.
Consume(c) ==
    /\ c \notin waiting
    /\ waiting' = waiting \cup {c}
    /\ UNCHANGED <<buffer, closed, done, publisher, count, closer, history>>

Dequeue(c) ==
    LET l == Lane(c) IN
    /\ c \in waiting
    /\ buffer[l] # <<>>
    /\ received' = [received EXCEPT ![l] = Append(@, Head(buffer[l]))]
    /\ buffer' = [buffer EXCEPT ![l] = Tail(@)]
    /\ waiting' = waiting \ {c}
    /\ UNCHANGED <<closed, done, publisher, count, closer, drained, accepted>>

StopConsuming(c) ==
    /\ c \in waiting
    /\ done
    /\ waiting' = waiting \ {c}
    /\ UNCHANGED <<buffer, closed, done, publisher, count, closer, history>>

-----------------------------------------------------------------------------
\* Close.  Only the call that sets the flag does the rest.
Swap(k) ==
    /\ closer[k] = NotCalled
    /\ closed' = TRUE
    /\ closer' = [closer EXCEPT ![k] = IF closed THEN Returned ELSE Swapped]
    /\ UNCHANGED <<buffer, done, publisher, count, waiting, history>>

DoneAfterSkipped == done \* Mutant: done is never closed.
DoneAfter == TRUE

CloseDone(k) ==
    /\ closer[k] = Swapped
    /\ done' = DoneAfter
    /\ closer' = [closer EXCEPT ![k] = @ + 1]
    /\ UNCHANGED <<buffer, closed, publisher, count, waiting, history>>

Drain(k) ==
    LET l == LaneDrained(k) IN
    /\ closer[k] \in Draining
    /\ buffer[l] # <<>>
    /\ drained' = drained \cup {Head(buffer[l])}
    /\ buffer' = [buffer EXCEPT ![l] = Tail(@)]
    /\ UNCHANGED <<closed, done, publisher, count, waiting, closer, received, accepted>>

NextLane(k) ==
    /\ closer[k] \in Draining
    /\ buffer[LaneDrained(k)] = <<>>
    /\ closer' = [closer EXCEPT ![k] = @ + 1]
    /\ UNCHANGED <<buffer, closed, done, publisher, count, waiting, history>>

-----------------------------------------------------------------------------
Publishing(p) == Publish(p) \/ Enqueue(p) \/ RefusePublish(p) \/ CancelPublish(p)
Receiving(c) == Dequeue(c) \/ StopConsuming(c)
Closing(k) == CloseDone(k) \/ Drain(k) \/ NextLane(k)

Next ==
    \/ \E p \in Publishers : Publishing(p)
    \/ \E c \in Consumers : Consume(c) \/ Receiving(c)
    \/ \E k \in Closers : Swap(k) \/ Closing(k)

Spec == Init /\ [][Next]_vars

\* A select with a ready case proceeds; Close runs on.
FairSpec ==
    /\ Spec
    /\ \A p \in Publishers : WF_vars(Enqueue(p) \/ RefusePublish(p))
    /\ \A c \in Consumers : WF_vars(Receiving(c))
    /\ \A k \in Closers : WF_vars(Closing(k))

-----------------------------------------------------------------------------
InBuffer(l) == ToSet(buffer[l])
InLane(l) == received[l] \o buffer[l]
Held(l) == InBuffer(l) \cup ToSet(received[l])

\* Consumers of a lane see the messages of each publisher in the order it
\* published them, and none twice, also while Close takes some away.
InOrder ==
    \A l \in Lanes : \A i, j \in 1..Len(InLane(l)) :
        i < j /\ InLane(l)[i][1] = InLane(l)[j][1] => InLane(l)[i][2] < InLane(l)[j][2]

\* A publication reported as accepted is in exactly one place: received, still
\* buffered or thrown away by Close, in one lane and once; and nothing that was
\* refused ever is.
OnlyOnce(l) ==
    /\ \A i, j \in 1..Len(InLane(l)) : InLane(l)[i] = InLane(l)[j] => i = j
    /\ drained \cap Held(l) = {}
    /\ \A k \in Lanes \ {l} : Held(k) \cap Held(l) = {}
AcceptedAccountedFor ==
    /\ accepted = drained \cup UNION {Held(l) : l \in Lanes}
    /\ \A l \in Lanes : OnlyOnce(l)

\* What Close may leave behind came through the door before it was shut: at
\* most one message of each publisher.
ClosedForGood ==
    /\ \E k \in Closers : closer[k] = Returned
    /\ \A k \in Closers : closer[k] \in {NotCalled, Returned}
AtMostOneStranded ==
    ClosedForGood => \A l \in Lanes : \A i, j \in 1..Len(buffer[l]) :
                        buffer[l][i][1] = buffer[l][j][1] => i = j

\* After Close nobody stays blocked on the bus, and Close itself returns.
EveryoneReleased ==
    /\ \A p \in Publishers : closed /\ publisher[p] = "select" ~> publisher[p] = "idle"
    /\ \A c \in Consumers : closed /\ c \in waiting ~> c \notin waiting
    /\ \A k \in Closers : closer[k] = Swapped ~> closer[k] = Returned
=============================================================================
