------------------------ MODULE ChannelManager_proofs ------------------------
(***************************************************************************)
(* That a channel sends in order, that one goroutine at most sends for a   *)
(* channel and lane, that between reloads the manager is what the last     *)
(* configuration says, and that it is quiet once StopAll has returned: for *)
(* any channels, lanes, queue sizes, configurations and interleavings.     *)
(***************************************************************************)
EXTENDS ChannelManager, DataLemmas, SequenceTheorems, TLAPS

-----------------------------------------------------------------------------
-----------------------------------------------------------------------------
\* Channels are taken in the order of their names.
LEMMA PlaceType ==
    ASSUME NEW c \in Channels
    PROVE  Place(c) \in 1..Len(ByName) /\ ByName[Place(c)] = c
<1>1. ByName \in Seq(Channels) /\ c \in ToSet(ByName) /\ DOMAIN ByName = 1..Len(ByName)
    BY ChannelManagerAssumption, LenProperties
<1>2. \E i \in 1..Len(ByName) : ByName[i] = c
    BY <1>1 DEF ToSet
<1> QED BY <1>2 DEF Place

LEMMA FirstMember ==
    ASSUME NEW names \in SUBSET Channels, names # {}
    PROVE  First(names) \in names
<1> DEFINE places == {Place(c) : c \in names}
<1>1. \A c \in names : Place(c) \in Nat
    BY PlaceType, ChannelManagerAssumption, LenProperties
<1>2. places \in SUBSET Nat /\ places # {}
    BY <1>1
<1>3. PICK x \in places : \A y \in places : x <= y
    BY <1>2, LeastExists
<1>4. \E c \in names : \A other \in names : Place(c) <= Place(other)
    BY <1>3
<1> QED BY <1>4 DEF First

LEMMA FiniteTables ==
    /\ IsFiniteSet(Channels) /\ IsFiniteSet(Fresh)
    /\ \A S \in SUBSET Channels : IsFiniteSet(S) /\ Cardinality(S) \in Nat
    /\ Cardinality(Fresh) \in Nat
<1> DEFINE f == [c \in Channels |-> Place(c)]
           n == Len(ByName)
<1>1. n \in Nat /\ IsFiniteSet(1..n)
    BY FS_Interval, ChannelManagerAssumption, LenProperties
<1>2. f \in Injection(Channels, 1..n)
    BY PlaceType DEF Injection, IsInjective
<1>3. IsFiniteSet(Channels)
    BY <1>1, <1>2, FS_Injection
<1>4. IsFiniteSet(Objects)
    BY FS_Interval, ChannelManagerAssumption DEF Objects
<1>5. IsFiniteSet(Fresh)
    BY <1>4, FS_Subset DEF Fresh
<1> QED BY <1>3, <1>5, FS_Subset, FS_CardinalityType

LEMMA FirstFresh ==
    ASSUME Fresh # {}
    PROVE  (CHOOSE new \in Fresh : \A other \in Fresh : new <= other) \in Fresh
<1>1. Fresh \in SUBSET Nat
    BY DEF Fresh, Objects
<1>2. \E new \in Fresh : \A other \in Fresh : new <= other
    BY <1>1, LeastExists
<1> QED BY <1>2

-----------------------------------------------------------------------------
\* A message that was taken from a queue and not let go.
InHand(r) == r.pc \in {"sending", "calling"}
LineRecord ==
    [queue : Seq(Message), open : BOOLEAN, pc : {"none", "waiting", "sending", "calling", "done"},
     msg : Message \cup {None}, attempt : 0..maxRetries]
GoodLine(r) ==
    /\ r \in LineRecord /\ Len(r.queue) <= QueueSize
    /\ InHand(r) => r.msg \in Message
ObjectRecord ==
    [name : Channels \cup {None}, version : Nat,
     status : {"unused", "new", "running", "stopped"}]
DispatcherRecord ==
    [pc : {"subscribe", "lookup", "enqueue", "stopped"}, msg : Message \cup {None},
     target : Objects \cup {None}]
GoodDispatcher(r) ==
    /\ r \in DispatcherRecord
    /\ r.pc \in {"lookup", "enqueue"} => r.msg \in Message
    /\ r.pc = "enqueue" => r.target \in Objects
ReloadRecord ==
    [stage : {"idle", "stop", "close", "wait"}, removing : SUBSET Channels,
     adding : SUBSET Channels, lane : 1..Len(LaneOrder)]
StopRecord ==
    [stage : {"none", "cancelled", "busClosed", "close", "wait", "stopped"},
     lane : 1..Len(LaneOrder)]

BusTypes ==
    /\ outbound \in [Lanes -> Seq(Message)]
    /\ published \in [Lanes -> [Channels -> Nat]]
TableTypes ==
    /\ channelHashes \in [Channels -> Nat]
    /\ channels \in [Channels -> Objects \cup {None}]
    /\ workers \in [Channels -> Objects \cup {None}]
WorkTypes ==
    /\ object \in [Objects -> ObjectRecord]
    /\ line \in [Objects \X Lanes -> LineRecord]
    /\ \A x \in Objects \X Lanes : GoodLine(line[x])
    /\ background \subseteq Objects
    /\ attempts \in [Lanes -> [Channels -> Seq(Nat \ {0})]]
FlowTypes ==
    /\ dispatcher \in [Lanes -> DispatcherRecord]
    /\ \A l \in Lanes : GoodDispatcher(dispatcher[l])
    /\ cancelled \in BOOLEAN /\ panicked \in BOOLEAN
    /\ stop \in StopRecord
ReloadTypes ==
    /\ reload \in ReloadRecord
    /\ \A c \in Channels : channels[c] # None => object[channels[c]].status # "unused"
    /\ Cardinality(reload.adding) <= Cardinality(Fresh)
    /\ reload.stage \in {"close", "wait"} => reload.removing # {}
TypeInv == BusTypes /\ TableTypes /\ WorkTypes /\ FlowTypes /\ ReloadTypes

LEMMA TypesMean == TypeInv => TypeOK
BY DEF TypeInv, BusTypes, TableTypes, WorkTypes, FlowTypes, ReloadTypes, TypeOK, LineRecord,
       ObjectRecord, DispatcherRecord, ReloadRecord, StopRecord, GoodLine

LEMMA LaneTypes ==
    /\ Len(LaneOrder) \in Nat \ {0}
    /\ \A k \in 1..Len(LaneOrder) : LaneOrder[k] \in Lanes
    /\ \A l \in Lanes : \E k \in 1..Len(LaneOrder) : LaneOrder[k] = l
<1>1. LaneOrder \in Seq(Lanes) /\ ToSet(LaneOrder) = Lanes /\ Lanes # {}
    BY ChannelManagerAssumption
<1>2. Len(LaneOrder) \in Nat /\ DOMAIN LaneOrder = 1..Len(LaneOrder)
    BY <1>1, LenProperties
<1>3. \A l \in Lanes : \E k \in 1..Len(LaneOrder) : LaneOrder[k] = l
    BY <1>1, <1>2 DEF ToSet
<1>4. \A k \in 1..Len(LaneOrder) : LaneOrder[k] \in Lanes
    BY <1>1, <1>2 DEF ToSet
<1> QED BY <1>1, <1>2, <1>3, <1>4

LEMMA EmptyQueue == <<>> \in Seq(Message) /\ Len(<<>>) = 0
BY EmptySeq

LEMMA Sizes == maxRetries \in Nat /\ QueueSize \in Nat \ {0} /\ MaxObjects \in Nat
BY ChannelManagerAssumption

\* What the senders, the dispatchers and the lock holders do to a line.
LEMMA LineChanges ==
    ASSUME NEW r, GoodLine(r)
    PROVE  /\ \A m \in Message : Len(r.queue) < QueueSize =>
                GoodLine([r EXCEPT !.queue = Append(@, m)])
           /\ r.queue # <<>> =>
                GoodLine([r EXCEPT !.pc = "sending", !.msg = Head(r.queue), !.queue = Tail(@)])
           /\ GoodLine([r EXCEPT !.pc = "done"])
           /\ GoodLine([r EXCEPT !.open = FALSE])
           /\ GoodLine([r EXCEPT !.pc = "waiting", !.msg = None, !.attempt = 0])
           /\ r.pc = "sending" => GoodLine([r EXCEPT !.pc = "calling"])
           /\ r.pc = "calling" /\ r.attempt < maxRetries =>
                GoodLine([r EXCEPT !.pc = "sending", !.attempt = @ + 1])
<1>1. r \in LineRecord /\ Len(r.queue) <= QueueSize /\ r.queue \in Seq(Message)
      /\ (InHand(r) => r.msg \in Message)
    BY DEF GoodLine, LineRecord
<1>2. ASSUME NEW m \in Message, Len(r.queue) < QueueSize
      PROVE  GoodLine([r EXCEPT !.queue = Append(@, m)])
  <2>1. Append(r.queue, m) \in Seq(Message) /\ Len(Append(r.queue, m)) = Len(r.queue) + 1
    BY <1>1, AppendProperties
  <2>2. Len(r.queue) \in Nat
    BY <1>1, LenProperties
  <2> QED BY <1>1, <1>2, <2>1, <2>2, Sizes DEF GoodLine, LineRecord, InHand
<1>3. ASSUME r.queue # <<>>
      PROVE  GoodLine([r EXCEPT !.pc = "sending", !.msg = Head(r.queue), !.queue = Tail(@)])
  <2>1. /\ Head(r.queue) \in Message /\ Tail(r.queue) \in Seq(Message)
        /\ Len(Tail(r.queue)) = Len(r.queue) - 1
    BY <1>1, <1>3, HeadTailProperties
  <2>2. Len(r.queue) \in Nat
    BY <1>1, LenProperties
  <2> DEFINE n == [r EXCEPT !.pc = "sending", !.msg = Head(r.queue)]
  <2>3. n \in LineRecord /\ n.msg = Head(r.queue)
    BY <1>1, <2>1 DEF LineRecord
  <2>4. [r EXCEPT !.pc = "sending", !.msg = Head(r.queue), !.queue = Tail(@)]
          = [n EXCEPT !.queue = Tail(r.queue)]
    OBVIOUS
  <2> HIDE DEF n
  <2>5. /\ [n EXCEPT !.queue = Tail(r.queue)] \in LineRecord
        /\ [n EXCEPT !.queue = Tail(r.queue)].queue = Tail(r.queue)
        /\ [n EXCEPT !.queue = Tail(r.queue)].msg = Head(r.queue)
    BY <2>1, <2>3 DEF LineRecord
  <2> QED BY <1>1, <2>1, <2>2, <2>4, <2>5, Sizes DEF GoodLine
<1>4. GoodLine([r EXCEPT !.pc = "done"]) /\ GoodLine([r EXCEPT !.open = FALSE])
    BY <1>1, Sizes DEF GoodLine, LineRecord, InHand
<1>5. GoodLine([r EXCEPT !.pc = "waiting", !.msg = None, !.attempt = 0])
  <2> DEFINE n == [r EXCEPT !.pc = "waiting", !.msg = None]
  <2>1. n \in LineRecord /\ n.queue = r.queue /\ n.pc = "waiting"
    BY <1>1 DEF LineRecord
  <2>2. [r EXCEPT !.pc = "waiting", !.msg = None, !.attempt = 0] = [n EXCEPT !.attempt = 0]
    OBVIOUS
  <2> HIDE DEF n
  <2>3. /\ [n EXCEPT !.attempt = 0] \in LineRecord
        /\ [n EXCEPT !.attempt = 0].queue = r.queue /\ [n EXCEPT !.attempt = 0].pc = "waiting"
    BY <2>1, Sizes DEF LineRecord
  <2> QED BY <1>1, <2>2, <2>3 DEF GoodLine, InHand
<1>6. r.pc = "sending" => GoodLine([r EXCEPT !.pc = "calling"])
    BY <1>1 DEF GoodLine, LineRecord, InHand
<1>7. ASSUME r.pc = "calling", r.attempt < maxRetries
      PROVE  GoodLine([r EXCEPT !.pc = "sending", !.attempt = @ + 1])
  <2> DEFINE n == [r EXCEPT !.pc = "sending"]
  <2>1. n \in LineRecord /\ n.queue = r.queue /\ n.msg = r.msg /\ r.msg \in Message
    BY <1>1, <1>7 DEF LineRecord, InHand
  <2>2. r.attempt + 1 \in 0..maxRetries
    BY <1>1, <1>7, Sizes DEF LineRecord
  <2>3. [r EXCEPT !.pc = "sending", !.attempt = @ + 1] = [n EXCEPT !.attempt = r.attempt + 1]
    OBVIOUS
  <2> HIDE DEF n
  <2>4. /\ [n EXCEPT !.attempt = r.attempt + 1] \in LineRecord
        /\ [n EXCEPT !.attempt = r.attempt + 1].queue = r.queue
        /\ [n EXCEPT !.attempt = r.attempt + 1].msg \in Message
    BY <2>1, <2>2 DEF LineRecord
  <2> QED BY <1>1, <2>3, <2>4 DEF GoodLine
<1> QED BY <1>2, <1>3, <1>4, <1>5, <1>6, <1>7

LEMMA NewLines == GoodLine(NoLine) /\ GoodLine(NewLine)
<1>1. NoLine \in LineRecord /\ NoLine.queue = <<>> /\ NoLine.pc = "none"
    BY Sizes, EmptyQueue DEF LineRecord, NoLine
<1>2. NewLine \in LineRecord /\ NewLine.queue = <<>> /\ NewLine.pc = "waiting"
  <2>1. NewLine \in LineRecord
    BY <1>1 DEF LineRecord, NewLine
  <2>2. NewLine.queue = <<>> /\ NewLine.pc = "waiting"
    BY DEF NewLine, NoLine
  <2> QED BY <2>1, <2>2
<1> QED BY <1>1, <1>2, Sizes, EmptyQueue DEF GoodLine, InHand

Lines == line \in [Objects \X Lanes -> LineRecord] /\ \A x \in Objects \X Lanes : GoodLine(line[x])

LEMMA LinePut ==
    ASSUME Lines, NEW x, NEW r, x \in Objects \X Lanes => GoodLine(r),
           line' = [line EXCEPT ![x] = r]
    PROVE  Lines'
BY DEF Lines, GoodLine

LEMMA TypeInit == Init => TypeInv
<1> SUFFICES ASSUME Init PROVE TypeInv
    OBVIOUS
<1> USE ChannelManagerAssumption
<1>1. BusTypes
    BY EmptySeq DEF Init, BusTypes
<1>2. Len(ByName) \in Nat /\ \A o \in 1..Len(ByName) : ByName[o] \in Channels
    BY LenProperties
<1>3. \A c \in Channels : Place(c) \in Objects
    BY <1>2, PlaceType DEF Objects
<1>4. TableTypes
    BY <1>3 DEF Init, TableTypes
<1>5. object \in [Objects -> ObjectRecord]
    BY <1>2 DEF Init, Objects, ObjectRecord, Unused
<1>6. Lines
    BY NewLines DEF Init, Lines, GoodLine
<1>7. WorkTypes
    BY <1>5, <1>6, EmptySeq DEF Init, WorkTypes, Lines
<1>8. FlowTypes
  <2> DEFINE d == [pc |-> "subscribe", msg |-> None, target |-> None]
  <2>1. GoodDispatcher(d) /\ d \in DispatcherRecord
    BY DEF DispatcherRecord, GoodDispatcher
  <2>2. stop \in StopRecord
    BY LaneTypes DEF Init, StopRecord
  <2>3. dispatcher = [l \in Lanes |-> d] /\ cancelled = FALSE /\ panicked = FALSE
    BY DEF Init
  <2> HIDE DEF d
  <2> QED BY <2>1, <2>2, <2>3 DEF FlowTypes
<1>9. \A c \in Channels : object[Place(c)].status # "unused"
    BY <1>2, <1>3, PlaceType DEF Init
<1>10. reload \in ReloadRecord /\ reload.adding = {} /\ reload.stage = "idle"
    BY LaneTypes DEF Init, NoReload, ReloadRecord
<1>11. ReloadTypes
  <2>1. Cardinality(reload.adding) <= Cardinality(Fresh)
    BY <1>10, FiniteTables, FS_EmptySet
  <2>2. \A c \in Channels : channels[c] = Place(c)
    BY DEF Init
  <2> QED BY <1>9, <1>10, <2>1, <2>2 DEF ReloadTypes
<1> QED BY <1>1, <1>4, <1>7, <1>8, <1>11 DEF TypeInv

-----------------------------------------------------------------------------
\* What a step leaves alone keeps its type.
LEMMA TypeFrame ==
    ASSUME TypeInv
    PROVE  /\ UNCHANGED busVars => BusTypes'
           /\ UNCHANGED tableVars => TableTypes'
           /\ UNCHANGED workVars => WorkTypes'
           /\ Lines' /\ UNCHANGED <<object, background, attempts>> => WorkTypes'
           /\ UNCHANGED <<cancelled, dispatcher, stop, panicked>> => FlowTypes'
           /\ UNCHANGED <<channels, object, reload>> => ReloadTypes'
           /\ Lines
<1>1. UNCHANGED busVars => BusTypes'
    BY DEF TypeInv, BusTypes, busVars
<1>2. UNCHANGED tableVars => TableTypes'
    BY DEF TypeInv, TableTypes, tableVars
<1>3. UNCHANGED workVars => WorkTypes'
    BY DEF TypeInv, WorkTypes, workVars
<1>4. Lines' /\ UNCHANGED <<object, background, attempts>> => WorkTypes'
    BY DEF TypeInv, WorkTypes, Lines
<1>5. UNCHANGED <<cancelled, dispatcher, stop, panicked>> => FlowTypes'
    BY DEF TypeInv, FlowTypes
<1>6. UNCHANGED <<channels, object, reload>> => ReloadTypes'
    BY DEF TypeInv, ReloadTypes, Fresh
<1>7. Lines
    BY DEF TypeInv, WorkTypes, Lines
<1> QED BY <1>1, <1>2, <1>3, <1>4, <1>5, <1>6, <1>7

LEMMA MessageParts ==
    ASSUME NEW m \in Message
    PROVE  m[1] \in Channels /\ m[2] \in Nat \ {0} /\ m = <<m[1], m[2]>>
BY DEF Message

LEMMA PublishTypes ==
    ASSUME TypeInv, NEW l \in Lanes, NEW c \in Channels, Publish(l, c)
    PROVE  TypeInv'
<1>1. UNCHANGED <<tableVars, workVars, cancelled, dispatcher, reload, stop, panicked>>
    BY DEF Publish
<1>2. published[l][c] \in Nat /\ outbound[l] \in Seq(Message)
    BY DEF TypeInv, BusTypes
<1>3. <<c, published[l][c] + 1>> \in Message
    BY <1>2 DEF Message
<1>4. Append(outbound[l], <<c, published[l][c] + 1>>) \in Seq(Message)
    BY <1>2, <1>3, AppendProperties
<1>5. published' = [published EXCEPT ![l] = [published[l] EXCEPT ![c] = published[l][c] + 1]]
      /\ outbound' = [outbound EXCEPT ![l] = Append(outbound[l], <<c, published[l][c] + 1>>)]
    BY DEF Publish, TypeInv, BusTypes
<1>6. BusTypes'
    BY <1>2, <1>4, <1>5 DEF TypeInv, BusTypes
<1> QED BY <1>1, <1>6, TypeFrame DEF TypeInv, tableVars, workVars

\* What dispatchLoop does to the state of its lane.
LEMMA DispatcherPut ==
    ASSUME TypeInv, NEW l \in Lanes, NEW r, GoodDispatcher(r),
           dispatcher' = [dispatcher EXCEPT ![l] = r], UNCHANGED <<cancelled, stop, panicked>>
    PROVE  FlowTypes'
BY DEF TypeInv, FlowTypes, GoodDispatcher

LEMMA DispatchTypes ==
    ASSUME TypeInv, NEW l \in Lanes, Dispatch(l)
    PROVE  TypeInv'
<1> DEFINE d == dispatcher[l]
<1>1. d \in DispatcherRecord /\ GoodDispatcher(d)
    BY DEF TypeInv, FlowTypes
<1>2. GoodDispatcher(Subscribing) /\ GoodDispatcher(Gone)
    BY DEF Subscribing, Gone, GoodDispatcher, DispatcherRecord
<1>3. CASE Subscribe(l)
  <2>1. outbound[l] \in Seq(Message) /\ outbound[l] # <<>>
    BY <1>3 DEF TypeInv, BusTypes, Subscribe
  <2>2. Head(outbound[l]) \in Message /\ Tail(outbound[l]) \in Seq(Message)
    BY <2>1, HeadTailProperties
  <2>3. GoodDispatcher([d EXCEPT !.pc = "lookup", !.msg = Head(outbound[l])])
    BY <1>1, <2>2 DEF GoodDispatcher, DispatcherRecord
  <2>4. /\ dispatcher' = [dispatcher EXCEPT ![l] = [d EXCEPT !.pc = "lookup", !.msg = Head(outbound[l])]]
        /\ outbound' = [outbound EXCEPT ![l] = Tail(outbound[l])]
        /\ UNCHANGED <<published, tableVars, workVars, cancelled, reload, stop, panicked>>
    BY <1>3 DEF Subscribe, TypeInv, FlowTypes, BusTypes
  <2>5. FlowTypes'
    BY <2>3, <2>4, DispatcherPut
  <2>6. BusTypes'
    BY <2>2, <2>4 DEF TypeInv, BusTypes
  <2> QED BY <2>4, <2>5, <2>6, TypeFrame DEF TypeInv, tableVars, workVars
<1>4. CASE LookUp(l)
  <2> DEFINE c == d.msg[1]
             found == [d EXCEPT !.pc = "enqueue", !.target = workers[c]]
  <2>1. d.pc = "lookup" /\ d.msg \in Message /\ c \in Channels
    BY <1>1, <1>4, MessageParts DEF LookUp, At, GoodDispatcher
  <2>2. workers[c] \in Objects \cup {None}
    BY <2>1 DEF TypeInv, TableTypes
  <2>3. workers[c] # None => GoodDispatcher(found)
    BY <1>1, <2>1, <2>2 DEF GoodDispatcher, DispatcherRecord
  <2>4. /\ \/ dispatcher' = [dispatcher EXCEPT ![l] = Subscribing]
           \/ workers[c] # None /\ dispatcher' = [dispatcher EXCEPT ![l] = found]
        /\ UNCHANGED <<busVars, tableVars, workVars, cancelled, reload, stop, panicked>>
    BY <1>4 DEF LookUp, TypeInv, FlowTypes
  <2> HIDE DEF found
  <2>5. FlowTypes'
    BY <1>2, <2>3, <2>4, DispatcherPut
  <2> QED BY <2>4, <2>5, TypeFrame DEF TypeInv, tableVars, workVars
<1>5. CASE Enqueue(l)
  <2> DEFINE x == Target(l)
             r == [line[x] EXCEPT !.queue = Append(line[x].queue, d.msg)]
  <2>1. d.pc = "enqueue" /\ d.msg \in Message /\ d.target \in Objects
    BY <1>1, <1>5 DEF Enqueue, At, GoodDispatcher
  <2>2. x \in Objects \X Lanes
    BY <2>1 DEF Target
  <2>3. GoodLine(line[x]) /\ Len(line[x].queue) < QueueSize
    BY <1>5, <2>2 DEF Enqueue, HasRoom, TypeInv, WorkTypes
  <2>4. GoodLine(r)
    BY <2>1, <2>3, LineChanges
  <2>5. line' = [line EXCEPT ![x] = r]
    BY <1>5, <2>2 DEF Enqueue, TypeInv, WorkTypes
  <2>6. /\ dispatcher' = [dispatcher EXCEPT ![l] = Subscribing]
        /\ UNCHANGED <<busVars, tableVars, object, background, attempts, cancelled, reload,
                       stop, panicked>>
    BY <1>5 DEF Enqueue
  <2> HIDE DEF r, x
  <2>7. WorkTypes'
    BY <2>4, <2>5, <2>6, LinePut, TypeFrame
  <2>8. FlowTypes'
    BY <1>2, <2>6, DispatcherPut
  <2> QED BY <2>6, <2>7, <2>8, TypeFrame DEF TypeInv, tableVars
<1>6. CASE SendOnClosed(l)
  <2>1. panicked' = TRUE
        /\ UNCHANGED <<busVars, tableVars, workVars, cancelled, dispatcher, reload, stop>>
    BY <1>6 DEF SendOnClosed
  <2>2. FlowTypes'
    BY <2>1 DEF TypeInv, FlowTypes
  <2> QED BY <2>1, <2>2, TypeFrame DEF TypeInv, tableVars, workVars
<1>7. CASE StopDispatching(l)
  <2>1. /\ dispatcher' = [dispatcher EXCEPT ![l] = Gone]
        /\ UNCHANGED <<busVars, tableVars, workVars, cancelled, reload, stop, panicked>>
    BY <1>7 DEF StopDispatching
  <2>2. FlowTypes'
    BY <1>2, <2>1, DispatcherPut
  <2> QED BY <2>1, <2>2, TypeFrame DEF TypeInv, tableVars, workVars
<1> QED BY <1>3, <1>4, <1>5, <1>6, <1>7 DEF Dispatch

\* What a sender does to its line and to what it attempted.
LEMMA WorkLine ==
    ASSUME TypeInv, NEW x \in Objects \X Lanes, Work(x) \/ Return(x)
    PROVE  /\ \E r : GoodLine(r) /\ line' = [line EXCEPT ![x] = r]
           /\ UNCHANGED <<busVars, tableVars, object, background, cancelled, dispatcher, reload,
                          stop, panicked>>
<1>1. line \in [Objects \X Lanes -> LineRecord] /\ GoodLine(line[x])
    BY DEF TypeInv, WorkTypes
<1>2. /\ line[x].queue # <<>> => GoodLine([line[x] EXCEPT !.pc = "sending", !.msg = Head(line[x].queue),
                                                         !.queue = Tail(@)])
      /\ GoodLine([line[x] EXCEPT !.pc = "done"]) /\ GoodLine(Idle(x))
      /\ line[x].pc = "sending" => GoodLine([line[x] EXCEPT !.pc = "calling"])
      /\ line[x].pc = "calling" /\ line[x].attempt < maxRetries =>
           GoodLine([line[x] EXCEPT !.pc = "sending", !.attempt = @ + 1])
    BY <1>1, LineChanges DEF Idle
<1>3. UNCHANGED <<busVars, tableVars, object, background, cancelled, dispatcher, reload, stop, panicked>>
    BY DEF Work, Return, Take, Exit, Attempt, Abandon, Conclude, Retry
<1>4. CASE Take(x)
    BY <1>1, <1>2, <1>3, <1>4 DEF Take
<1>5. CASE Exit(x)
    BY <1>1, <1>2, <1>3, <1>5 DEF Exit
<1>6. CASE Abandon(x) \/ Conclude(x)
    BY <1>2, <1>3, <1>6 DEF Abandon, Conclude
<1>7. CASE Retry(x)
    BY <1>1, <1>2, <1>3, <1>7 DEF Retry
<1>8. CASE Attempt(x)
    BY <1>1, <1>2, <1>3, <1>8 DEF Attempt
<1> QED BY <1>4, <1>5, <1>6, <1>7, <1>8 DEF Work, Return

LEMMA WorkerTypes ==
    ASSUME TypeInv, NEW x \in Objects \X Lanes, Work(x) \/ Return(x)
    PROVE  TypeInv'
<1>1. PICK r : GoodLine(r) /\ line' = [line EXCEPT ![x] = r]
    BY WorkLine
<1>2. UNCHANGED <<busVars, tableVars, object, background, cancelled, dispatcher, reload, stop, panicked>>
    BY WorkLine
<1>3. Lines'
    BY <1>1, LinePut, TypeFrame
<1>4. attempts' \in [Lanes -> [Channels -> Seq(Nat \ {0})]]
  <2>1. CASE UNCHANGED attempts
    BY <2>1 DEF TypeInv, WorkTypes
  <2>2. CASE Attempt(x)
    <3> DEFINE m == line[x].msg
               log == attempts[x[2]][m[1]]
    <3>1. m \in Message /\ x[2] \in Lanes
      BY <2>2 DEF Attempt, TypeInv, WorkTypes, GoodLine, InHand
    <3>2. m[1] \in Channels /\ m[2] \in Nat \ {0}
      BY <3>1, MessageParts
    <3>3. log \in Seq(Nat \ {0})
      BY <3>1, <3>2 DEF TypeInv, WorkTypes
    <3>4. Append(log, m[2]) \in Seq(Nat \ {0})
      BY <3>2, <3>3, AppendProperties
    <3>5. attempts' = [attempts EXCEPT ![x[2]] = [attempts[x[2]] EXCEPT ![m[1]] = Append(log, m[2])]]
      BY <2>2, <3>1 DEF Attempt, TypeInv, WorkTypes
    <3> HIDE DEF m, log
    <3> QED BY <3>1, <3>2, <3>4, <3>5 DEF TypeInv, WorkTypes
  <2> QED BY <2>1, <2>2 DEF Work, Return, Take, Exit, Abandon, Conclude, Retry
<1>5. WorkTypes'
    BY <1>2, <1>3, <1>4 DEF TypeInv, WorkTypes, Lines
<1> QED BY <1>2, <1>5, TypeFrame DEF TypeInv, tableVars

-----------------------------------------------------------------------------
\* Objects that were created stay created, so the objects left for the
\* channels to add stay as many.
LEMMA SameFresh ==
    ASSUME TypeInv, NEW o \in Objects, object[o].status # "unused",
           NEW s \in {"new", "running", "stopped"},
           object' = [object EXCEPT ![o].status = s]
    PROVE  /\ Fresh' = Fresh /\ object' \in [Objects -> ObjectRecord]
           /\ \A p \in Objects : object[p].status # "unused" => object'[p].status # "unused"
<1>1. object \in [Objects -> ObjectRecord]
    BY DEF TypeInv, WorkTypes
<1>2. object' \in [Objects -> ObjectRecord]
    BY <1>1 DEF ObjectRecord
<1>3. \A p \in Objects : object'[p].status = IF p = o THEN s ELSE object[p].status
    BY <1>1 DEF ObjectRecord
<1> QED BY <1>2, <1>3 DEF Fresh

LEMMA ReloadParts ==
    ASSUME TypeInv
    PROVE  /\ reload.stage \in {"idle", "stop", "close", "wait"}
           /\ reload.removing \in SUBSET Channels /\ reload.adding \in SUBSET Channels
           /\ reload.lane \in 1..Len(LaneOrder)
           /\ reload.removing # {} => Leaving \in Channels /\ Leaving \in reload.removing
           /\ AfterRemoval \in ReloadRecord /\ AfterRemoval.adding = reload.adding
           /\ AfterRemoval.stage = "stop"
<1>1. reload \in ReloadRecord
    BY DEF TypeInv, ReloadTypes
<1>2. reload.removing # {} => Leaving \in reload.removing
    BY <1>1, FirstMember DEF Leaving, ReloadRecord
<1>3. /\ AfterRemoval \in ReloadRecord /\ AfterRemoval.adding = reload.adding
      /\ AfterRemoval.stage = "stop"
  <2> DEFINE rest == reload.removing \ {Leaving}
             one == [reload EXCEPT !.stage = "stop"]
             two == [one EXCEPT !.removing = rest]
  <2>1. AfterRemoval = [two EXCEPT !.lane = 1]
    BY <1>1 DEF AfterRemoval, ReloadRecord
  <2>2. rest \in SUBSET Channels
    BY <1>1 DEF ReloadRecord
  <2>3. one \in ReloadRecord /\ one.adding = reload.adding /\ one.stage = "stop"
    BY <1>1 DEF ReloadRecord
  <2> HIDE DEF rest, one
  <2>4. two \in ReloadRecord /\ two.adding = reload.adding /\ two.stage = "stop"
    BY <2>2, <2>3 DEF ReloadRecord
  <2> HIDE DEF two
  <2> QED BY <2>1, <2>4, LaneTypes DEF ReloadRecord
<1> QED BY <1>1, <1>2, <1>3 DEF ReloadRecord

LEMMA BeginReloadTypes ==
    ASSUME TypeInv, NEW config \in Configs, BeginReload(config)
    PROVE  TypeInv'
<1>1. config \in [Channels -> Nat]
    BY ChannelManagerAssumption
<1>2. /\ UNCHANGED <<busVars, channels, workers, workVars, cancelled, dispatcher, stop, panicked>>
      /\ channelHashes' = config /\ Cardinality(Added(config)) <= Cardinality(Fresh)
    BY DEF BeginReload
<1>3. TableTypes'
    BY <1>1, <1>2 DEF TypeInv, TableTypes
<1>4. /\ reload' \in ReloadRecord /\ reload'.stage \in {"idle", "stop"}
      /\ reload'.adding = reload.adding \/ reload'.adding = Added(config)
  <2>1. Removed(config) \in SUBSET Channels /\ Added(config) \in SUBSET Channels
    BY DEF Removed, Added
  <2> QED BY <2>1, LaneTypes DEF BeginReload, LockFree, ReloadRecord, TypeInv, ReloadTypes
<1>5. Fresh' = Fresh
    BY <1>2 DEF Fresh, workVars
<1>6. ReloadTypes'
    BY <1>2, <1>4, <1>5 DEF TypeInv, ReloadTypes, workVars
<1> QED BY <1>2, <1>3, <1>6, TypeFrame DEF TypeInv

LEMMA StopChannelTypes ==
    ASSUME TypeInv, StopChannel
    PROVE  TypeInv'
<1> DEFINE o == channels[Leaving]
<1>1. Leaving \in Channels /\ Leaving \in reload.removing
    BY ReloadParts DEF StopChannel
<1>2. o \in Objects \cup {None} /\ (o # None => object[o].status # "unused")
    BY <1>1 DEF TypeInv, TableTypes, ReloadTypes
<1>3. /\ object' = IF o = None THEN object ELSE [object EXCEPT ![o].status = "stopped"]
      /\ UNCHANGED <<busVars, channelHashes, line, background, attempts, cancelled,
                     dispatcher, stop, panicked>>
      /\ channels' = channels \/ channels' = [channels EXCEPT ![Leaving] = None]
      /\ workers' = workers
      /\ reload' = AfterRemoval \/ reload' = [reload EXCEPT !.stage = "close"]
    BY DEF StopChannel, Forget
<1>4. /\ Fresh' = Fresh /\ object' \in [Objects -> ObjectRecord]
      /\ \A p \in Objects : object[p].status # "unused" => object'[p].status # "unused"
  <2>1. CASE o = None
    BY <2>1, <1>3 DEF Fresh, TypeInv, WorkTypes
  <2>2. CASE o # None
    BY <2>2, <1>2, <1>3, SameFresh
  <2> QED BY <2>1, <2>2
<1>5. /\ reload' \in ReloadRecord /\ reload'.adding = reload.adding
      /\ reload'.stage = "stop" \/ reload'.removing # {}
  <2>1. reload \in ReloadRecord /\ reload.removing # {}
    BY DEF TypeInv, ReloadTypes, StopChannel
  <2> QED BY <1>3, <2>1, ReloadParts DEF ReloadRecord
<1>6. TableTypes' /\ \A c \in Channels : channels'[c] \in {None, channels[c]}
    BY <1>1, <1>3 DEF TypeInv, TableTypes
<1>7. ReloadTypes'
    BY <1>4, <1>5, <1>6 DEF TypeInv, ReloadTypes, TableTypes
<1>8. WorkTypes'
    BY <1>3, <1>4 DEF TypeInv, WorkTypes
<1> QED BY <1>3, <1>6, <1>7, <1>8, TypeFrame DEF TypeInv

LEMMA LineOfWorker ==
    ASSUME TypeInv, NEW c \in Channels, NEW k \in 1..Len(LaneOrder), workers[c] # None
    PROVE  /\ <<workers[c], LaneOrder[k]>> \in Objects \X Lanes
           /\ workers[c] \in Serving
BY LaneTypes DEF TypeInv, TableTypes, Serving

LEMMA CloseLineTypes ==
    ASSUME TypeInv, CloseLine
    PROVE  TypeInv'
<1> DEFINE r == [line[LeavingLine] EXCEPT !.open = FALSE]
<1>1. /\ line' = [line EXCEPT ![LeavingLine] = r]
      /\ UNCHANGED <<busVars, tableVars, object, background, attempts, cancelled,
                     dispatcher, stop>>
      /\ panicked' \in BOOLEAN /\ reload' = [reload EXCEPT !.stage = "wait"]
    BY TypeFrame DEF CloseLine, Lines
<1>2. LeavingLine \in Objects \X Lanes => GoodLine(r)
    BY LineChanges DEF TypeInv, WorkTypes
<1> HIDE DEF r
<1>3. WorkTypes'
    BY <1>1, <1>2, LinePut, TypeFrame
<1>4. FlowTypes'
    BY <1>1 DEF TypeInv, FlowTypes
<1>5. ReloadTypes'
  <2>1. reload \in ReloadRecord /\ reload.removing # {}
    BY DEF TypeInv, ReloadTypes, CloseLine
  <2>2. /\ reload' \in ReloadRecord /\ reload'.adding = reload.adding
        /\ reload'.removing = reload.removing
    BY <1>1, <2>1 DEF ReloadRecord
  <2>3. Fresh' = Fresh /\ channels' = channels /\ object' = object
    BY <1>1 DEF Fresh, tableVars
  <2> QED BY <2>1, <2>2, <2>3 DEF TypeInv, ReloadTypes
<1> QED BY <1>1, <1>3, <1>4, <1>5, TypeFrame DEF TypeInv

LEMMA WaitLineTypes ==
    ASSUME TypeInv, WaitLine
    PROVE  TypeInv'
<1>0. reload.removing # {}
    BY DEF TypeInv, ReloadTypes, WaitLine
<1>1. /\ UNCHANGED <<busVars, channelHashes, workVars, cancelled, dispatcher, stop, panicked>>
      /\ \/ reload.lane < Len(LaneOrder)
            /\ reload' = [reload EXCEPT !.stage = "close", !.lane = @ + 1]
            /\ UNCHANGED <<channels, workers>>
         \/ reload' = AfterRemoval
            /\ channels' = [channels EXCEPT ![Leaving] = None]
            /\ workers' = [workers EXCEPT ![Leaving] = None]
    BY DEF WaitLine, Forget
<1>2. TableTypes' /\ \A c \in Channels : channels'[c] \in {None, channels[c]}
    BY <1>0, <1>1, ReloadParts DEF TypeInv, TableTypes
<1>3. /\ reload' \in ReloadRecord /\ reload'.adding = reload.adding
      /\ reload'.stage = "stop" \/ reload'.removing # {}
  <2>1. CASE reload' = AfterRemoval
    BY <2>1, ReloadParts
  <2>2. CASE reload.lane < Len(LaneOrder)
             /\ reload' = [reload EXCEPT !.stage = "close", !.lane = @ + 1]
    <3>1. reload \in ReloadRecord /\ reload.lane + 1 \in 1..Len(LaneOrder)
      BY <2>2, ReloadParts, LaneTypes DEF TypeInv, ReloadTypes
    <3>2. reload' = [[reload EXCEPT !.stage = "close"] EXCEPT !.lane = reload.lane + 1]
      BY <2>2, <3>1 DEF ReloadRecord
    <3> QED BY <1>0, <3>1, <3>2 DEF ReloadRecord
  <2> QED BY <1>1, <2>1, <2>2
<1>4. Fresh' = Fresh
    BY <1>1 DEF Fresh, workVars
<1>5. ReloadTypes'
    BY <1>1, <1>2, <1>3, <1>4 DEF TypeInv, ReloadTypes, TableTypes, workVars
<1>6. BusTypes' /\ WorkTypes' /\ FlowTypes'
    BY <1>1, TypeFrame
<1> QED BY <1>2, <1>5, <1>6 DEF TypeInv

LEMMA AddChannelTypes ==
    ASSUME TypeInv, AddChannel
    PROVE  TypeInv'
<1> DEFINE c == First(reload.adding)
           o == CHOOSE new \in Fresh : \A other \in Fresh : new <= other
           Became(s) == object' = [object EXCEPT ![o] =
                            [name |-> c, version |-> channelHashes[c], status |-> s]]
<1>1. /\ reload.stage = "stop" /\ reload.removing = {} /\ reload.adding # {}
      /\ reload.adding \in SUBSET Channels /\ reload \in ReloadRecord
    BY DEF AddChannel, TypeInv, ReloadTypes, ReloadRecord
<1>2. c \in reload.adding /\ c \in Channels
    BY <1>1, FirstMember
<1>3. /\ Cardinality(reload.adding \ {c}) = Cardinality(reload.adding) - 1
      /\ Cardinality(reload.adding) \in Nat /\ Cardinality(Fresh) \in Nat
    BY <1>1, <1>2, FiniteTables, FS_RemoveElement
<1>4. Fresh # {}
  <2> SUFFICES ASSUME Fresh = {} PROVE FALSE
    OBVIOUS
  <2>1. Cardinality(Fresh) = 0 /\ Cardinality(reload.adding) = 0
    BY <1>3, FS_EmptySet DEF TypeInv, ReloadTypes
  <2>2. reload.adding = {}
    BY <2>1, <1>1, FiniteTables, FS_EmptySet
  <2> QED BY <1>1, <2>2
<1>5. o \in Fresh /\ o \in Objects /\ object[o].status = "unused"
    BY <1>4, FirstFresh DEF Fresh
<1>6. Cardinality(Fresh \ {o}) = Cardinality(Fresh) - 1
    BY <1>5, FiniteTables, FS_RemoveElement
<1>7. /\ reload' = [reload EXCEPT !.adding = reload.adding \ {c}]
      /\ UNCHANGED <<busVars, channelHashes, attempts, cancelled, dispatcher, stop, panicked>>
      /\ \/ UNCHANGED <<channels, workers, object, line, background>>
         \/ /\ Became("new") /\ channels' = [channels EXCEPT ![c] = o]
            /\ UNCHANGED <<workers, line, background>>
         \/ /\ Became("running") /\ channels' = [channels EXCEPT ![c] = o]
            /\ workers' = [workers EXCEPT ![c] = o]
            /\ line' = [x \in Objects \X Lanes |-> IF x[1] = o THEN NewLine ELSE line[x]]
            /\ background' = background \cup {o}
    BY DEF AddChannel
<1> HIDE DEF c, o
<1>8. /\ reload' \in ReloadRecord /\ reload'.adding = reload.adding \ {c}
      /\ reload'.stage = "stop"
    BY <1>1, <1>7 DEF ReloadRecord
<1>9. TableTypes'
    BY <1>2, <1>5, <1>7 DEF TypeInv, TableTypes
<1>10. ASSUME NEW s \in {"new", "running"}, Became(s), channels' = [channels EXCEPT ![c] = o]
       PROVE  object' \in [Objects -> ObjectRecord] /\ ReloadTypes'
  <2>1. object \in [Objects -> ObjectRecord] /\ channelHashes[c] \in Nat
    BY <1>2 DEF TypeInv, WorkTypes, TableTypes
  <2>2. object' \in [Objects -> ObjectRecord]
    BY <1>2, <1>10, <2>1 DEF ObjectRecord
  <2>3. \A p \in Objects : object'[p].status = IF p = o THEN s ELSE object[p].status
    BY <1>10, <2>1 DEF ObjectRecord
  <2>4. Fresh' = Fresh \ {o}
    BY <2>3 DEF Fresh
  <2>5. \A d \in Channels : channels'[d] = IF d = c THEN o ELSE channels[d]
    BY <1>10 DEF TypeInv, TableTypes
  <2>6. \A d \in Channels : channels'[d] # None => object'[channels'[d]].status # "unused"
    BY <1>5, <1>9, <1>10, <2>3, <2>5 DEF TypeInv, TableTypes, ReloadTypes
  <2>7. Cardinality(reload'.adding) <= Cardinality(Fresh')
    BY <1>3, <1>6, <1>8, <2>4 DEF TypeInv, ReloadTypes
  <2> QED BY <1>8, <2>2, <2>6, <2>7 DEF ReloadTypes, Fresh
<1>11. object' \in [Objects -> ObjectRecord] /\ ReloadTypes'
  <2>1. CASE UNCHANGED <<channels, object>>
    <3>1. Fresh' = Fresh /\ object' = object /\ channels' = channels
      BY <2>1 DEF Fresh
    <3>2. Cardinality(reload'.adding) <= Cardinality(Fresh')
      BY <1>3, <1>8, <3>1 DEF TypeInv, ReloadTypes
    <3> QED BY <1>8, <3>1, <3>2 DEF TypeInv, WorkTypes, ReloadTypes
  <2>2. CASE Became("new") /\ channels' = [channels EXCEPT ![c] = o]
    BY <1>10, <2>2
  <2>3. CASE Became("running") /\ channels' = [channels EXCEPT ![c] = o]
    BY <1>10, <2>3
  <2> QED BY <1>7, <2>1, <2>2, <2>3
<1>12. Lines' /\ background' \subseteq Objects
  <2>1. CASE UNCHANGED <<line, background>>
    BY <2>1, TypeFrame DEF Lines, TypeInv, WorkTypes
  <2>2. CASE line' = [x \in Objects \X Lanes |-> IF x[1] = o THEN NewLine ELSE line[x]]
             /\ background' = background \cup {o}
    <3>1. \A x \in Objects \X Lanes : GoodLine(line'[x])
      BY <2>2, NewLines, TypeFrame DEF Lines
    <3>2. line' \in [Objects \X Lanes -> LineRecord]
      BY <2>2, NewLines, TypeFrame DEF Lines, GoodLine
    <3> QED BY <1>5, <2>2, <3>1, <3>2 DEF Lines, TypeInv, WorkTypes
  <2> QED BY <1>7, <2>1, <2>2
<1>13. WorkTypes'
    BY <1>7, <1>11, <1>12 DEF TypeInv, WorkTypes, Lines
<1>14. BusTypes' /\ FlowTypes'
    BY <1>7, TypeFrame
<1> QED BY <1>9, <1>11, <1>13, <1>14 DEF TypeInv

LEMMA EndReloadTypes ==
    ASSUME TypeInv, EndReload
    PROVE  TypeInv'
<1>1. /\ UNCHANGED <<busVars, tableVars, workVars, cancelled, dispatcher, stop, panicked>>
      /\ reload' = NoReload /\ reload.adding = {}
    BY DEF EndReload
<1>2. reload' \in ReloadRecord /\ reload'.adding = {} /\ reload'.stage = "idle"
    BY <1>1, LaneTypes DEF NoReload, ReloadRecord
<1>3. Fresh' = Fresh
    BY <1>1 DEF Fresh, workVars
<1>4. ReloadTypes'
    BY <1>1, <1>2, <1>3 DEF TypeInv, ReloadTypes, tableVars, workVars
<1> QED BY <1>1, <1>4, TypeFrame DEF TypeInv

\* The runtime's Stop.
LEMMA CancelTypes ==
    ASSUME TypeInv, Cancel \/ CloseBus \/ BeginStopAll
    PROVE  TypeInv'
<1>1. /\ stop' \in StopRecord /\ cancelled' \in BOOLEAN
      /\ UNCHANGED <<tableVars, workVars, dispatcher, reload, panicked>>
    BY DEF Cancel, CloseBus, BeginStopAll, TypeInv, FlowTypes, StopRecord
<1>2. FlowTypes'
    BY <1>1 DEF TypeInv, FlowTypes
<1>3. BusTypes'
    BY EmptyQueue DEF Cancel, CloseBus, BeginStopAll, TypeInv, BusTypes, busVars
<1> QED BY <1>1, <1>2, <1>3, TypeFrame DEF TypeInv, tableVars, workVars

LEMMA CloseAllTypes ==
    ASSUME TypeInv, CloseAllLines
    PROVE  TypeInv'
<1>1. /\ line' = [x \in Objects \X Lanes |->
                  IF x \in LinesOf(stop.lane) THEN [line[x] EXCEPT !.open = FALSE] ELSE line[x]]
      /\ UNCHANGED <<busVars, tableVars, object, background, attempts, cancelled,
                     dispatcher, reload>>
      /\ panicked' \in BOOLEAN /\ stop' = [stop EXCEPT !.stage = "wait"]
    BY DEF CloseAllLines
<1>2. \A x \in Objects \X Lanes : GoodLine([line[x] EXCEPT !.open = FALSE])
    BY LineChanges DEF TypeInv, WorkTypes
<1>3. Lines'
    BY <1>1, <1>2, TypeFrame DEF Lines, GoodLine
<1>4. WorkTypes'
    BY <1>1, <1>3, TypeFrame
<1>5. FlowTypes'
    BY <1>1 DEF TypeInv, FlowTypes, StopRecord
<1> QED BY <1>1, <1>4, <1>5, TypeFrame DEF TypeInv, tableVars

LEMMA WaitAllTypes ==
    ASSUME TypeInv, WaitAllLines
    PROVE  TypeInv'
<1>1. /\ UNCHANGED <<busVars, tableVars, line, background, attempts, cancelled,
                     dispatcher, reload, panicked>>
      /\ \/ /\ stop.lane < Len(LaneOrder) /\ stop' = [stage |-> "close", lane |-> stop.lane + 1]
            /\ object' = object
         \/ /\ stop' = [stop EXCEPT !.stage = "stopped"]
            /\ object' = [o \in Objects |->
                            IF \E c \in Channels : channels[c] = o
                            THEN [object[o] EXCEPT !.status = "stopped"] ELSE object[o]]
    BY DEF WaitAllLines
<1>2. stop' \in StopRecord
  <2>1. stop \in StopRecord /\ stop.lane \in 1..Len(LaneOrder) /\ Len(LaneOrder) \in Nat
    BY LaneTypes DEF TypeInv, FlowTypes, StopRecord
  <2>2. CASE stop.lane < Len(LaneOrder) /\ stop' = [stage |-> "close", lane |-> stop.lane + 1]
    <3>1. stop.lane + 1 \in 1..Len(LaneOrder)
      BY <2>1, <2>2
    <3> QED BY <2>2, <3>1 DEF StopRecord
  <2>3. CASE stop' = [stop EXCEPT !.stage = "stopped"]
    BY <2>1, <2>3 DEF StopRecord
  <2> QED BY <1>1, <2>2, <2>3
<1>3. FlowTypes'
    BY <1>1, <1>2 DEF TypeInv, FlowTypes
<1>4. object \in [Objects -> ObjectRecord]
    BY DEF TypeInv, WorkTypes
<1>5. /\ object' \in [Objects -> ObjectRecord]
      /\ \A o \in Objects :
            \/ object'[o].status = object[o].status
            \/ object'[o].status = "stopped" /\ (\E c \in Channels : channels[c] = o)
  <2>1. CASE object' = object
    BY <1>4, <2>1
  <2>2. CASE object' = [o \in Objects |->
                         IF \E c \in Channels : channels[c] = o
                         THEN [object[o] EXCEPT !.status = "stopped"] ELSE object[o]]
    <3>1. \A o \in Objects : /\ [object[o] EXCEPT !.status = "stopped"] \in ObjectRecord
                             /\ [object[o] EXCEPT !.status = "stopped"].status = "stopped"
      BY <1>4 DEF ObjectRecord
    <3> QED BY <1>4, <2>2, <3>1
  <2> QED BY <1>1, <2>1, <2>2
<1>6. Fresh' = Fresh
  <2>1. \A o \in Objects, c \in Channels : channels[c] = o => object[o].status # "unused"
    BY ChannelManagerAssumption DEF TypeInv, ReloadTypes, Objects
  <2> QED BY <1>5, <2>1 DEF Fresh
<1>7. ReloadTypes'
  <2>1. \A c \in Channels : channels[c] # None => object'[channels[c]].status # "unused"
    BY <1>5 DEF TypeInv, TableTypes, ReloadTypes
  <2>2. channels' = channels /\ reload' = reload
    BY <1>1 DEF tableVars
  <2> QED BY <1>6, <2>1, <2>2 DEF TypeInv, ReloadTypes
<1>8. WorkTypes'
    BY <1>1, <1>5 DEF TypeInv, WorkTypes
<1> QED BY <1>1, <1>3, <1>7, <1>8, TypeFrame DEF TypeInv, tableVars

LEMMA TypeStep == TypeInv /\ [Next]_vars => TypeInv'
<1> SUFFICES ASSUME TypeInv, [Next]_vars PROVE TypeInv'
    OBVIOUS
<1>1. CASE UNCHANGED vars
    BY <1>1, TypeFrame DEF vars, busVars, tableVars, workVars, TypeInv
<1>2. CASE Step
  <2>1. ASSUME NEW l \in Lanes, NEW c \in Channels, Publish(l, c) PROVE TypeInv'
    BY <2>1, PublishTypes
  <2>2. ASSUME NEW l \in Lanes, Dispatch(l) PROVE TypeInv'
    BY <2>2, DispatchTypes
  <2>3. ASSUME NEW x \in Objects \X Lanes, Work(x) \/ Return(x) PROVE TypeInv'
    BY <2>3, WorkerTypes
  <2>4. ASSUME NEW config \in Configs, BeginReload(config) PROVE TypeInv'
    BY <2>4, BeginReloadTypes
  <2>5. CASE ReloadStep
    BY <2>5, StopChannelTypes, CloseLineTypes, WaitLineTypes, AddChannelTypes, EndReloadTypes
    DEF ReloadStep
  <2>6. CASE Cancel \/ StopStep
    BY <2>6, CancelTypes, CloseAllTypes, WaitAllTypes DEF StopStep
  <2> QED BY <1>2, <2>1, <2>2, <2>3, <2>4, <2>5, <2>6 DEF Step
<1> QED BY <1>1, <1>2 DEF Next, Crashed

\* Every variable has its type and no queue is longer than its size, for any
\* channels, lanes and configurations; the objects left are enough for the
\* channels that Reload still has to add.
THEOREM TypeCorrect == Spec => []TypeOK
<1>1. Spec => []TypeInv
    BY TypeInit, TypeStep, PTL DEF Spec
<1> QED BY <1>1, TypesMean, PTL

-----------------------------------------------------------------------------
\* Who is registered: an object is registered under its own name and serves it
\* alone; an object that was not created has no goroutine; who sends is the
\* worker of its name, and who runs is registered.
Registered ==
    /\ \A c \in Channels :
         /\ channels[c] # None => object[channels[c]].name = c
         /\ workers[c] \in {None, channels[c]}
    /\ \A o \in Objects : object[o].status = "unused" => \A l \in Lanes : Finished(<<o, l>>)
    /\ \A o \in Objects, l \in Lanes : ~Finished(<<o, l>>) =>
         object[o].name \in Channels /\ workers[object[o].name] = o
    /\ \A o \in Objects : object[o].status = "running" =>
         object[o].name \in Channels /\ channels[object[o].name] = o

\* How far Reload is: what is not on its two lists is as the configuration
\* says, and what leaves was stopped first and is closed lane by lane.
Reloading ==
    /\ reload.stage = "idle" => reload.removing = {} /\ reload.adding = {}
    /\ reload.stage # "idle" => ~StopAllRuns
    /\ reload.stage = "stop" => reload.lane = 1
    /\ reload.stage \in {"close", "wait"} =>
         /\ workers[Leaving] # None
         /\ object[workers[Leaving]].status = "stopped"
         /\ \A k \in 1..Len(LaneOrder) : k < reload.lane =>
              Finished(<<workers[Leaving], LaneOrder[k]>>)
    /\ \A c \in Channels \ reload.removing :
         /\ channelHashes[c] = 0 => channels[c] = None
         /\ c \in reload.adding => channels[c] = None
    /\ \A c \in reload.adding : channelHashes[c] # 0

\* A registered channel is outdated exactly while Reload has to remove it, and
\* stands stopped only then or after StopAll.
Current ==
    \A c \in Channels : channels[c] # None =>
        /\ c \in reload.removing <=> object[channels[c]].version # channelHashes[c]
        /\ c \in reload.removing \/ stop.stage = "stopped" \/ object[channels[c]].status # "stopped"

\* How far StopAll is.
Stopping ==
    /\ Dispatching => stop.lane = 1
    /\ StopAllRuns => \A c \in Channels, k \in 1..Len(LaneOrder) :
         workers[c] # None /\ k < stop.lane => Finished(<<workers[c], LaneOrder[k]>>)
    /\ stop.stage = "stopped" =>
         /\ \A o \in Objects, l \in Lanes : Finished(<<o, l>>)
         /\ \A o \in Objects : object[o].status # "running"

Inv == Registered /\ Reloading /\ Current /\ Stopping

LEMMA InvInit == Init => Inv
<1> SUFFICES ASSUME Init PROVE Inv
    OBVIOUS
<1> USE ChannelManagerAssumption
<1>1. Len(ByName) \in Nat /\ \A o \in 1..Len(ByName) : ByName[o] \in Channels
    BY LenProperties
<1>2. \A c \in Channels : Place(c) \in Objects /\ ByName[Place(c)] = c /\ Place(c) <= Len(ByName)
    BY <1>1, PlaceType DEF Objects
<1>3. PICK up \in SUBSET Channels :
        LET Up(o) == \E c \in up : Place(c) = o IN
        /\ workers = [c \in Channels |-> IF c \in up THEN Place(c) ELSE None]
        /\ object = [o \in Objects |->
                       IF o > Len(ByName) THEN Unused
                       ELSE [name |-> ByName[o], version |-> 1,
                             status |-> IF Up(o) THEN "running" ELSE "new"]]
        /\ line = [x \in Objects \X Lanes |-> IF Up(x[1]) THEN NewLine ELSE NoLine]
    BY DEF Init
<1>4. /\ channels = [c \in Channels |-> Place(c)]
      /\ channelHashes = [c \in Channels |-> 1]
      /\ reload = NoReload /\ stop = [stage |-> "none", lane |-> 1]
    BY DEF Init
<1>5. /\ \A o \in Objects : ~(\E c \in up : Place(c) = o) =>
            (object[o].status # "running" /\ \A l \in Lanes : Finished(<<o, l>>))
      /\ \A c \in Channels : object[Place(c)].name = c /\ object[Place(c)].version = 1
      /\ \A c \in Channels : object[Place(c)].status \notin {"unused", "stopped"}
  <2>1. NoLine.pc = "none"
    BY DEF NoLine
  <2>2. \A o \in Objects : ~(\E c \in up : Place(c) = o) => object[o].status # "running"
    BY <1>3 DEF Unused
  <2>3. \A o \in Objects : ~(\E c \in up : Place(c) = o) => \A l \in Lanes : Finished(<<o, l>>)
    BY <1>3, <2>1 DEF Finished
  <2>4. \A c \in Channels : \E s \in {"new", "running"} :
           object[Place(c)] = [name |-> c, version |-> 1, status |-> s]
    BY <1>1, <1>2, <1>3 DEF Objects
  <2>5. \A c \in Channels : /\ object[Place(c)].name = c /\ object[Place(c)].version = 1
                           /\ object[Place(c)].status \notin {"unused", "stopped"}
    <3> TAKE c \in Channels
    <3>1. PICK s \in {"new", "running"} :
             object[Place(c)] = [name |-> c, version |-> 1, status |-> s]
      BY <2>4
    <3> QED BY ONLY <3>1, s \in {"new", "running"}
  <2> QED BY <2>2, <2>3, <2>5
<1>6. Registered
  <2>1. \A c \in Channels : workers[c] \in {None, channels[c]} /\ channels[c] = Place(c)
    BY <1>3, <1>4
  <2>2. \A c \in up : c \in Channels /\ workers[c] = Place(c)
    BY <1>3
  <2>3. \A o \in Objects : object[o].status = "unused" => \A l \in Lanes : Finished(<<o, l>>)
    BY <1>5, <2>2
  <2>4. \A o \in Objects : (\E c \in up : Place(c) = o) =>
           object[o].name \in Channels /\ workers[object[o].name] = o /\ channels[object[o].name] = o
    BY <1>5, <2>1, <2>2
  <2> QED BY <1>5, <2>1, <2>3, <2>4 DEF Registered
<1>7. Reloading
    BY <1>4 DEF Reloading, NoReload
<1>8. Current
    BY <1>4, <1>5 DEF Current, NoReload
<1>9. Stopping
    BY <1>4 DEF Stopping, StopAllRuns
<1> QED BY <1>6, <1>7, <1>8, <1>9 DEF Inv

-----------------------------------------------------------------------------
\* A step that starts no goroutine and leaves the registry, Reload and StopAll
\* where they are.
LEMMA SenderFrame ==
    ASSUME TypeInv, Inv,
           UNCHANGED <<channelHashes, channels, workers, object, reload>>,
           \A x \in Objects \X Lanes : Finished(x) => Finished(x)',
           \/ stop' = stop
           \/ stop.lane = stop'.lane /\ Dispatching /\ Dispatching'
    PROVE  Inv'
<1>1. Registered'
    BY DEF Inv, Registered
<1>2. Reloading'
  <2>1. Leaving' = Leaving
    BY DEF Leaving, First
  <2>2. reload.stage # "idle" => ~StopAllRuns'
    BY DEF Inv, Reloading, StopAllRuns, Dispatching
  <2>3. reload.stage \in {"close", "wait"} =>
           \A k \in 1..Len(LaneOrder) : k < reload.lane =>
              Finished(<<workers[Leaving], LaneOrder[k]>>)'
    <3> SUFFICES ASSUME reload.stage \in {"close", "wait"}, NEW k \in 1..Len(LaneOrder),
                        k < reload.lane
                 PROVE  Finished(<<workers[Leaving], LaneOrder[k]>>)'
      OBVIOUS
    <3>1. Leaving \in Channels /\ workers[Leaving] # None
          /\ Finished(<<workers[Leaving], LaneOrder[k]>>)
      BY ReloadParts DEF Inv, Reloading, TypeInv, ReloadTypes
    <3> QED BY <3>1, LineOfWorker, <2>1 DEF Finished
  <2> QED BY <2>1, <2>2, <2>3 DEF Inv, Reloading
<1>3. Current'
    BY DEF Inv, Current, Dispatching
<1>4. Stopping'
  <2>1. StopAllRuns' => \A c \in Channels, k \in 1..Len(LaneOrder) :
         workers[c] # None /\ k < stop.lane => Finished(<<workers[c], LaneOrder[k]>>)'
    <3> SUFFICES ASSUME StopAllRuns', NEW c \in Channels, NEW k \in 1..Len(LaneOrder),
                        workers[c] # None, k < stop.lane
                 PROVE  Finished(<<workers[c], LaneOrder[k]>>)'
      OBVIOUS
    <3>1. Finished(<<workers[c], LaneOrder[k]>>)
      BY DEF Inv, Stopping, StopAllRuns, Dispatching
    <3> QED BY <3>1, LineOfWorker DEF Finished
  <2> QED BY <2>1 DEF Inv, Stopping, StopAllRuns, Dispatching
<1> QED BY <1>1, <1>2, <1>3, <1>4 DEF Inv

\* A sender that has ended stays so.
LEMMA WorkInv ==
    ASSUME TypeInv, Inv, NEW x \in Objects \X Lanes, Work(x) \/ Return(x)
    PROVE  Inv'
<1>1. UNCHANGED <<tableVars, object, reload, stop>>
    BY WorkLine
<1>2. line \in [Objects \X Lanes -> LineRecord]
    BY DEF TypeInv, WorkTypes
<1>3. \A y \in Objects \X Lanes : y # x => line'[y] = line[y]
    BY <1>2, WorkLine
<1>4. Finished(x) => Exit(x)
    BY DEF Work, Return, Take, Attempt, Abandon, Conclude, Retry, Finished
<1>5. Finished(x) => Finished(x)'
    BY <1>2, <1>4 DEF Exit, Finished
<1>6. \A y \in Objects \X Lanes : Finished(y) => Finished(y)'
    BY <1>3, <1>5 DEF Finished
<1> QED BY <1>1, <1>6, SenderFrame DEF tableVars

LEMMA DispatchInv ==
    ASSUME TypeInv, Inv, NEW l \in Lanes, Dispatch(l)
    PROVE  Inv'
<1>1. UNCHANGED <<tableVars, object, reload, stop>>
    BY DEF Dispatch, Subscribe, LookUp, Enqueue, SendOnClosed, StopDispatching, workVars
<1>2. \A x \in Objects \X Lanes : Finished(x) => Finished(x)'
  <2>1. CASE line' = line
    BY <2>1 DEF Finished
  <2>2. CASE Enqueue(l)
    <3>1. line \in [Objects \X Lanes -> LineRecord]
      BY DEF TypeInv, WorkTypes
    <3>2. \A x \in Objects \X Lanes : line'[x].pc = line[x].pc
      BY <2>2, <3>1 DEF Enqueue, LineRecord
    <3> QED BY <3>2 DEF Finished
  <2> QED BY <2>1, <2>2 DEF Dispatch, Subscribe, LookUp, SendOnClosed, StopDispatching, workVars
<1> QED BY <1>1, <1>2, SenderFrame DEF tableVars

LEMMA QuietInv ==
    ASSUME TypeInv, Inv,
           \/ \E l \in Lanes, c \in Channels : Publish(l, c)
           \/ Cancel \/ CloseBus
    PROVE  Inv'
<1>1. UNCHANGED <<tableVars, object, line, reload>>
    BY DEF Publish, Cancel, CloseBus, workVars
<1>2. \/ stop' = stop
      \/ stop.lane = stop'.lane /\ Dispatching /\ Dispatching'
    BY DEF Publish, Cancel, CloseBus, Dispatching, TypeInv, FlowTypes, StopRecord
<1>3. \A x \in Objects \X Lanes : Finished(x) => Finished(x)'
    BY <1>1 DEF Finished
<1> QED BY <1>1, <1>2, <1>3, SenderFrame DEF tableVars

-----------------------------------------------------------------------------
\* StopAll: while it holds the lock nothing is registered or taken away, so a
\* lane that is done for one worker stays done for all of them.
LEMMA BeginStopAllInv ==
    ASSUME TypeInv, Inv, BeginStopAll
    PROVE  Inv'
<1>1. /\ UNCHANGED <<tableVars, object, line, reload>> /\ reload.stage = "idle"
      /\ stop.stage = "busClosed" /\ stop'.stage = "close" /\ stop'.lane = 1
    BY DEF BeginStopAll, LockFree, workVars, TypeInv, FlowTypes, StopRecord, Inv, Stopping,
           Dispatching
<1>2. channels' = channels /\ workers' = workers /\ channelHashes' = channelHashes
    BY <1>1 DEF tableVars
<1>3. Registered'
    BY <1>1, <1>2 DEF Inv, Registered, Finished
<1>4. Reloading'
    BY <1>1, <1>2 DEF Inv, Reloading, Leaving, First
<1>5. Current'
    BY <1>1, <1>2 DEF Inv, Current
<1>6. Stopping'
    BY <1>1 DEF Stopping, Dispatching
<1> QED BY <1>3, <1>4, <1>5, <1>6 DEF Inv

LEMMA CloseAllInv ==
    ASSUME TypeInv, Inv, CloseAllLines
    PROVE  Inv'
<1>1. /\ UNCHANGED <<tableVars, object, reload>>
      /\ stop.stage = "close" /\ stop'.stage = "wait" /\ stop'.lane = stop.lane
    BY DEF CloseAllLines, TypeInv, FlowTypes, StopRecord
<1>2. channels' = channels /\ workers' = workers /\ channelHashes' = channelHashes
    BY <1>1 DEF tableVars
<1>3. \A x \in Objects \X Lanes : line'[x].pc = line[x].pc
    BY DEF CloseAllLines, TypeInv, WorkTypes, LineRecord
<1>4. \A x \in Objects \X Lanes : Finished(x)' <=> Finished(x)
    BY <1>3 DEF Finished
<1>5. Registered'
    BY <1>1, <1>2, <1>4 DEF Inv, Registered
<1>6. reload.stage = "idle" /\ reload'.stage = "idle" /\ StopAllRuns
    BY <1>1 DEF Inv, Reloading, StopAllRuns
<1>7. Reloading'
    BY <1>1, <1>2, <1>6 DEF Inv, Reloading
<1>8. Current'
    BY <1>1, <1>2 DEF Inv, Current
<1>9. Stopping'
  <2>1. ASSUME NEW c \in Channels, NEW k \in 1..Len(LaneOrder), workers[c] # None, k < stop.lane
        PROVE  Finished(<<workers[c], LaneOrder[k]>>)'
    <3>1. Finished(<<workers[c], LaneOrder[k]>>)
      BY <2>1, <1>6 DEF Inv, Stopping
    <3> QED BY <1>2, <1>4, <2>1, <3>1, LineOfWorker DEF Finished
  <2> QED BY <1>1, <1>2, <2>1 DEF Stopping, Dispatching
<1> QED BY <1>5, <1>7, <1>8, <1>9 DEF Inv

LEMMA WaitAllInv ==
    ASSUME TypeInv, Inv, WaitAllLines
    PROVE  Inv'
<1>1. /\ UNCHANGED <<tableVars, line, reload>> /\ stop.stage = "wait"
      /\ \A x \in LinesOf(stop.lane) : Finished(x)
    BY DEF WaitAllLines
<1>2. channels' = channels /\ workers' = workers /\ channelHashes' = channelHashes
    BY <1>1 DEF tableVars
<1>3. StopAllRuns /\ reload.stage = "idle" /\ reload'.stage = "idle"
    BY <1>1 DEF Inv, Reloading, StopAllRuns
<1>4. Reloading'
    BY <1>1, <1>2, <1>3 DEF Inv, Reloading
<1>5. stop.lane \in 1..Len(LaneOrder) /\ Len(LaneOrder) \in Nat
    BY LaneTypes DEF TypeInv, FlowTypes, StopRecord
<1>6. ASSUME NEW c \in Channels, NEW k \in 1..Len(LaneOrder), workers[c] # None, k <= stop.lane
      PROVE  Finished(<<workers[c], LaneOrder[k]>>)
  <2>1. CASE k = stop.lane
    BY <1>1, <1>6, <2>1, LineOfWorker DEF LinesOf
  <2>2. CASE k < stop.lane
    BY <1>3, <1>6, <2>2 DEF Inv, Stopping
  <2> QED BY <1>5, <1>6, <2>1, <2>2
<1>7. CASE stop.lane < Len(LaneOrder)
  <2>1. stop'.stage = "close" /\ stop'.lane = stop.lane + 1 /\ object' = object
    BY <1>7 DEF WaitAllLines
  <2>2. Registered'
    BY <1>1, <1>2, <2>1 DEF Inv, Registered, Finished
  <2>3. Current'
    BY <1>1, <1>2, <2>1 DEF Inv, Current
  <2>4. \A c \in Channels, k \in 1..Len(LaneOrder) :
          workers[c] # None /\ k < stop.lane + 1 => Finished(<<workers[c], LaneOrder[k]>>)
    BY <1>5, <1>6
  <2>5. Stopping'
    BY <1>1, <1>2, <2>1, <2>4 DEF Stopping, Dispatching, Finished
  <2> QED BY <1>4, <2>2, <2>3, <2>5 DEF Inv
<1>8. CASE ~(stop.lane < Len(LaneOrder))
  <2>1. /\ stop'.stage = "stopped"
        /\ object' = [o \in Objects |->
                        IF \E c \in Channels : channels[c] = o
                        THEN [object[o] EXCEPT !.status = "stopped"] ELSE object[o]]
    BY <1>8 DEF WaitAllLines, TypeInv, FlowTypes, StopRecord
  <2>2. \A o \in Objects : object[o] \in ObjectRecord
    BY DEF TypeInv, WorkTypes
  <2>3. \A o \in Objects : object'[o].name = object[o].name /\ object'[o].version = object[o].version
    BY <2>1, <2>2 DEF ObjectRecord
  <2>4. \A o \in Objects : object'[o].status =
           IF \E c \in Channels : channels[c] = o THEN "stopped" ELSE object[o].status
    BY <2>1, <2>2 DEF ObjectRecord
  <2>5. \A o \in Objects, l \in Lanes : Finished(<<o, l>>)
    <3> SUFFICES ASSUME NEW o \in Objects, NEW l \in Lanes, ~Finished(<<o, l>>) PROVE FALSE
      OBVIOUS
    <3>1. object[o].name \in Channels /\ workers[object[o].name] = o
      BY DEF Inv, Registered
    <3>2. o # None
      BY ChannelManagerAssumption DEF Objects
    <3>3. PICK k \in 1..Len(LaneOrder) : LaneOrder[k] = l
      BY LaneTypes
    <3> QED BY <1>5, <1>6, <1>8, <3>1, <3>2, <3>3
  <2>6. \A o \in Objects : object'[o].status # "running"
    BY <2>4 DEF Inv, Registered
  <2>7. \A o \in Objects, l \in Lanes : Finished(<<o, l>>)'
    BY <1>1, <2>5 DEF Finished
  <2>8. Registered'
    BY <1>2, <2>3, <2>6, <2>7 DEF Inv, Registered, TypeInv, TableTypes
  <2>9. Current'
    BY <1>1, <1>2, <2>1, <2>3 DEF Inv, Current, TypeInv, TableTypes
  <2>10. Stopping'
    BY <2>1, <2>6, <2>7 DEF Stopping, Dispatching, StopAllRuns
  <2> QED BY <1>4, <2>8, <2>9, <2>10 DEF Inv
<1> QED BY <1>7, <1>8

-----------------------------------------------------------------------------
\* Reload: the lists it begins with are the differences between the
\* configurations, and every channel it finishes leaves one of them.
LEMMA BeginReloadInv ==
    ASSUME TypeInv, Inv, NEW config \in Configs, BeginReload(config)
    PROVE  Inv'
<1>1. /\ UNCHANGED <<channels, workers, object, line, stop>> /\ channelHashes' = config
      /\ reload.stage = "idle" /\ ~StopAllRuns /\ reload.removing = {} /\ reload.adding = {}
    BY DEF BeginReload, LockFree, workVars, Inv, Reloading
<1>2. /\ reload'.removing = Removed(config) /\ reload'.adding = Added(config)
      /\ \/ reload'.stage = "stop" /\ reload'.lane = 1
         \/ reload'.stage = "idle" /\ Removed(config) = {} /\ Added(config) = {}
    BY <1>1 DEF BeginReload
<1>3. Registered'
    BY <1>1 DEF Inv, Registered, Finished
<1>4. \A c \in Channels : /\ c \in Removed(config) <=> channelHashes[c] # 0 /\ channelHashes[c] # config[c]
                          /\ c \in Added(config) <=> config[c] # 0 /\ channelHashes[c] # config[c]
    BY DEF Removed, Added, Enabled, Changed
<1>5. \A c \in Channels : channels[c] # None =>
         channelHashes[c] # 0 /\ object[channels[c]].version = channelHashes[c]
    BY <1>1 DEF Inv, Reloading, Current
<1>6. Reloading'
  <2>1. \A c \in Channels \ Removed(config) :
           (config[c] = 0 \/ c \in Added(config)) => channels[c] = None
    BY <1>4, <1>5
  <2>2. \A c \in Added(config) : config[c] # 0
    BY DEF Added, Enabled
  <2> QED BY <1>1, <1>2, <2>1, <2>2 DEF Reloading, StopAllRuns
<1>7. Current'
    BY <1>1, <1>2, <1>4, <1>5 DEF Inv, Current
<1>8. Stopping'
    BY <1>1 DEF Inv, Stopping, Dispatching, StopAllRuns, Finished
<1> QED BY <1>3, <1>6, <1>7, <1>8 DEF Inv

LEMMA EndReloadInv ==
    ASSUME TypeInv, Inv, EndReload
    PROVE  Inv'
<1>1. /\ UNCHANGED <<channelHashes, channels, workers, object, line, stop>>
      /\ reload.removing = {} /\ reload.adding = {}
      /\ reload'.stage = "idle" /\ reload'.removing = {} /\ reload'.adding = {}
    BY DEF EndReload, NoReload, workVars, tableVars
<1>2. Registered'
    BY <1>1 DEF Inv, Registered, Finished
<1>3. Reloading'
    BY <1>1 DEF Inv, Reloading
<1>4. Current'
    BY <1>1 DEF Inv, Current
<1>5. Stopping'
    BY <1>1 DEF Inv, Stopping, Dispatching, StopAllRuns, Finished
<1> QED BY <1>2, <1>3, <1>4, <1>5 DEF Inv

LEMMA CloseLineInv ==
    ASSUME TypeInv, Inv, CloseLine
    PROVE  Inv'
<1>1. /\ UNCHANGED <<channelHashes, channels, workers, object, stop>>
      /\ reload.stage = "close" /\ reload'.stage = "wait" /\ reload'.removing = reload.removing
      /\ reload'.adding = reload.adding /\ reload'.lane = reload.lane
    BY DEF CloseLine, tableVars, TypeInv, ReloadTypes, ReloadRecord
<1>2. \A x \in Objects \X Lanes : line'[x].pc = line[x].pc
    BY DEF CloseLine, TypeInv, WorkTypes, LineRecord
<1>3. \A x \in Objects \X Lanes : Finished(x)' <=> Finished(x)
    BY <1>2 DEF Finished
<1>4. Registered'
    BY <1>1, <1>3 DEF Inv, Registered
<1>5. /\ Leaving \in Channels /\ workers[Leaving] # None
      /\ object[workers[Leaving]].status = "stopped"
      /\ \A k \in 1..Len(LaneOrder) : k < reload.lane =>
              Finished(<<workers[Leaving], LaneOrder[k]>>)
    BY <1>1, ReloadParts DEF Inv, Reloading, TypeInv, ReloadTypes
<1>6. Leaving' = Leaving
    BY <1>1 DEF Leaving, First
<1>7. \A k \in 1..Len(LaneOrder) : k < reload.lane =>
              line'[<<workers[Leaving], LaneOrder[k]>>].pc \in {"none", "done"}
    BY <1>2, <1>5, LineOfWorker DEF Finished
<1>8. Reloading'
    BY <1>1, <1>5, <1>6, <1>7 DEF Inv, Reloading, StopAllRuns, Finished
<1>9. Current'
    BY <1>1 DEF Inv, Current
<1>10. Stopping'
  <2>1. ~StopAllRuns
    BY <1>1 DEF Inv, Reloading
  <2> QED BY <1>1, <1>3, <2>1 DEF Inv, Stopping, Dispatching, StopAllRuns
<1> QED BY <1>4, <1>8, <1>9, <1>10 DEF Inv

\* The channel that left is in neither map any more.
LEMMA RemovalInv ==
    ASSUME TypeInv, Inv, reload.stage # "idle", reload.removing # {},
           reload' = AfterRemoval, UNCHANGED <<channelHashes, line, stop>>,
           channels' = [channels EXCEPT ![Leaving] = None],
           workers' = [workers EXCEPT ![Leaving] = None],
           \A o \in Objects : /\ object'[o].name = object[o].name
                              /\ object'[o].version = object[o].version
                              /\ \/ object'[o].status = object[o].status
                                 \/ object'[o].status = "stopped" /\ o = channels[Leaving],
           channels[Leaving] # None => object'[channels[Leaving]].status # "running",
           workers[Leaving] # None => \A l \in Lanes : Finished(<<workers[Leaving], l>>)
    PROVE  Inv'
<1>1. Leaving \in Channels /\ reload.removing \in SUBSET Channels
    BY ReloadParts
<1>2. /\ \A c \in Channels : channels'[c] = IF c = Leaving THEN None ELSE channels[c]
      /\ \A c \in Channels : workers'[c] = IF c = Leaving THEN None ELSE workers[c]
      /\ \A c \in Channels : channels[c] \in Objects \cup {None}
    BY <1>1 DEF TypeInv, TableTypes
<1>3. /\ reload'.stage = "stop" /\ reload'.adding = reload.adding /\ reload'.lane = 1
      /\ reload'.removing = reload.removing \ {Leaving}
    BY ReloadParts DEF AfterRemoval, TypeInv, ReloadTypes, ReloadRecord
<1>4. ~StopAllRuns
    BY DEF Inv, Reloading
<1>5. \A c \in Channels : c # Leaving /\ channels[c] # None => channels[c] # channels[Leaving]
    BY <1>1 DEF Inv, Registered
<1>6. Registered'
  <2>1. \A c \in Channels : /\ channels'[c] # None => object'[channels'[c]].name = c
                            /\ workers'[c] \in {None, channels'[c]}
    BY <1>2 DEF Inv, Registered
  <2>2. \A o \in Objects, l \in Lanes : ~Finished(<<o, l>>) =>
           object'[o].name \in Channels /\ workers'[object'[o].name] = o
    <3> SUFFICES ASSUME NEW o \in Objects, NEW l \in Lanes, ~Finished(<<o, l>>)
                 PROVE  object[o].name \in Channels /\ workers'[object[o].name] = o
      OBVIOUS
    <3>1. object[o].name \in Channels /\ workers[object[o].name] = o /\ o # None
      BY ChannelManagerAssumption DEF Inv, Registered, Objects
    <3>2. object[o].name # Leaving
      BY <3>1
    <3> QED BY <1>2, <3>1, <3>2
  <2>3. \A o \in Objects : object'[o].status = "running" =>
           object'[o].name \in Channels /\ channels'[object'[o].name] = o
    <3> SUFFICES ASSUME NEW o \in Objects, object'[o].status = "running"
                 PROVE  object[o].name \in Channels /\ channels'[object[o].name] = o
      OBVIOUS
    <3>1. object[o].status = "running" /\ o # None
      BY ChannelManagerAssumption DEF Objects
    <3>2. object[o].name \in Channels /\ channels[object[o].name] = o
      BY <3>1 DEF Inv, Registered
    <3>3. object[o].name # Leaving
      BY <3>1, <3>2
    <3> QED BY <1>2, <3>2, <3>3
  <2>4. \A o \in Objects : object'[o].status = "unused" => \A l \in Lanes : Finished(<<o, l>>)
    BY DEF Inv, Registered
  <2> QED BY <2>1, <2>2, <2>3, <2>4 DEF Registered, Finished
<1>7. Reloading'
    BY <1>1, <1>2, <1>3, <1>4 DEF Inv, Reloading, StopAllRuns
<1>8. Current'
  <2> SUFFICES ASSUME NEW c \in Channels, channels'[c] # None
               PROVE  /\ c \in reload'.removing <=> object'[channels'[c]].version # channelHashes[c]
                      /\ \/ c \in reload'.removing \/ stop.stage = "stopped"
                         \/ object'[channels'[c]].status # "stopped"
    BY DEF Current
  <2>1. c # Leaving /\ channels'[c] = channels[c] /\ channels[c] \in Objects
    BY <1>2
  <2>2. c \in reload'.removing <=> c \in reload.removing
    BY <1>3, <2>1
  <2>3. object'[channels[c]].status = object[channels[c]].status
        /\ object'[channels[c]].version = object[channels[c]].version
    BY <1>5, <2>1
  <2> QED BY <2>1, <2>2, <2>3 DEF Inv, Current
<1>9. Stopping'
    BY <1>4 DEF Inv, Stopping, Dispatching, StopAllRuns, Finished
<1> QED BY <1>6, <1>7, <1>8, <1>9 DEF Inv

LEMMA StopChannelInv ==
    ASSUME TypeInv, Inv, StopChannel
    PROVE  Inv'
<1> DEFINE o == channels[Leaving]
<1>1. /\ reload.stage = "stop" /\ reload.removing # {}
      /\ object' = IF o = None THEN object ELSE [object EXCEPT ![o].status = "stopped"]
      /\ UNCHANGED <<channelHashes, line, stop>>
    BY DEF StopChannel
<1>2. Leaving \in Channels /\ Leaving \in reload.removing /\ o \in Objects \cup {None}
    BY <1>1, ReloadParts DEF TypeInv, TableTypes
<1>3. \A p \in Objects : /\ object'[p].name = object[p].name
                         /\ object'[p].version = object[p].version
                         /\ object'[p].status = IF p = o THEN "stopped" ELSE object[p].status
    BY <1>1, <1>2, ChannelManagerAssumption DEF TypeInv, WorkTypes, ObjectRecord, Objects
<1>4. CASE workers[Leaving] = None
  <2>1. /\ reload' = AfterRemoval /\ channels' = [channels EXCEPT ![Leaving] = None]
        /\ workers' = workers /\ workers = [workers EXCEPT ![Leaving] = None]
    BY <1>2, <1>4 DEF StopChannel, Forget, TypeInv, TableTypes
  <2> QED BY <1>1, <1>2, <1>3, <1>4, <2>1, RemovalInv
<1>5. CASE workers[Leaving] # None
  <2>1. /\ UNCHANGED <<channels, workers>> /\ reload' = [reload EXCEPT !.stage = "close"]
    BY <1>5 DEF StopChannel
  <2>2. workers[Leaving] = o /\ o \in Objects
    BY <1>2, <1>5 DEF Inv, Registered
  <2>3. /\ reload'.stage = "close" /\ reload'.lane = reload.lane
        /\ reload'.removing = reload.removing /\ reload'.adding = reload.adding
    BY <2>1 DEF TypeInv, ReloadTypes, ReloadRecord
  <2>4. Leaving' = Leaving /\ ~StopAllRuns
    BY <1>1, <2>3 DEF Leaving, First, Inv, Reloading
  <2>5. \A c \in Channels : c # Leaving /\ channels[c] # None => channels[c] # o
    BY <1>2, <2>2 DEF Inv, Registered
  <2>6. Registered'
    BY <1>1, <1>3, <2>1 DEF Inv, Registered, Finished, TypeInv, TableTypes
  <2>7. reload.lane = 1
    BY <1>1 DEF Inv, Reloading
  <2>8. Reloading'
    <3>1. ~StopAllRuns' /\ object'[workers'[Leaving']].status = "stopped"
      BY <1>1, <1>3, <2>1, <2>2, <2>4 DEF StopAllRuns
    <3>2. \A k \in 1..Len(LaneOrder) : ~(k < reload'.lane)
      BY <2>3, <2>7, LaneTypes
    <3>3. workers'[Leaving'] # None
      BY <1>5, <2>1, <2>4
    <3> QED BY <1>1, <2>1, <2>3, <3>1, <3>2, <3>3 DEF Inv, Reloading
  <2>9. Current'
    BY <1>1, <1>2, <1>3, <2>1, <2>3, <2>5 DEF Inv, Current, TypeInv, TableTypes
  <2>10. Stopping'
    BY <1>1, <1>3, <2>1, <2>4 DEF Inv, Stopping, Dispatching, StopAllRuns, Finished
  <2> QED BY <2>6, <2>8, <2>9, <2>10 DEF Inv
<1> QED BY <1>4, <1>5

LEMMA WaitLineInv ==
    ASSUME TypeInv, Inv, WaitLine
    PROVE  Inv'
<1>1. /\ reload.stage = "wait" /\ Finished(LeavingLine)
      /\ UNCHANGED <<channelHashes, object, line, stop>>
    BY DEF WaitLine, workVars
<1>2. reload.removing # {} /\ Leaving \in Channels /\ reload.lane \in 1..Len(LaneOrder)
      /\ Len(LaneOrder) \in Nat
    BY <1>1, ReloadParts, LaneTypes DEF TypeInv, ReloadTypes
<1>3. workers[Leaving] # None /\ object[workers[Leaving]].status = "stopped" /\ ~StopAllRuns
    BY <1>1 DEF Inv, Reloading
<1>4. \A k \in 1..Len(LaneOrder) : k <= reload.lane =>
         Finished(<<workers[Leaving], LaneOrder[k]>>)
  <2> SUFFICES ASSUME NEW k \in 1..Len(LaneOrder), k <= reload.lane
               PROVE  Finished(<<workers[Leaving], LaneOrder[k]>>)
    OBVIOUS
  <2>1. CASE k = reload.lane
    BY <1>1, <2>1 DEF LeavingLine
  <2>2. CASE k < reload.lane
    BY <1>1, <2>2 DEF Inv, Reloading
  <2> QED BY <1>2, <2>1, <2>2
<1>5. CASE reload.lane < Len(LaneOrder)
  <2>1. UNCHANGED <<channels, workers>>
        /\ reload' = [reload EXCEPT !.stage = "close", !.lane = @ + 1]
    BY <1>5 DEF WaitLine
  <2>2. /\ reload'.stage = "close" /\ reload'.lane = reload.lane + 1
        /\ reload'.removing = reload.removing /\ reload'.adding = reload.adding
    BY <2>1 DEF TypeInv, ReloadTypes, ReloadRecord
  <2>3. Leaving' = Leaving
    BY <2>2 DEF Leaving, First
  <2>4. Registered'
    BY <1>1, <2>1 DEF Inv, Registered, Finished
  <2>5. \A k \in 1..Len(LaneOrder) : k < reload'.lane =>
           Finished(<<workers[Leaving], LaneOrder[k]>>)
    BY <1>2, <1>4, <2>2
  <2>6. Reloading'
    BY <1>1, <1>3, <2>1, <2>2, <2>3, <2>5 DEF Inv, Reloading, StopAllRuns, Finished
  <2>7. Current'
    BY <1>1, <2>1, <2>2 DEF Inv, Current
  <2>8. Stopping'
    BY <1>1, <1>3, <2>1 DEF Inv, Stopping, Dispatching, StopAllRuns, Finished
  <2> QED BY <2>4, <2>6, <2>7, <2>8 DEF Inv
<1>6. CASE ~(reload.lane < Len(LaneOrder))
  <2>1. /\ reload' = AfterRemoval /\ channels' = [channels EXCEPT ![Leaving] = None]
        /\ workers' = [workers EXCEPT ![Leaving] = None]
    BY <1>6 DEF WaitLine, Forget
  <2>2. ASSUME NEW l \in Lanes PROVE Finished(<<workers[Leaving], l>>)
    <3>1. PICK k \in 1..Len(LaneOrder) : LaneOrder[k] = l
      BY LaneTypes
    <3> QED BY <1>2, <1>4, <1>6, <3>1
  <2>3. channels[Leaving] # None => object'[channels[Leaving]].status # "running"
    BY <1>1, <1>2, <1>3 DEF Inv, Registered
  <2> QED BY <1>1, <1>2, <2>1, <2>2, <2>3, RemovalInv
<1> QED BY <1>5, <1>6

LEMMA AddChannelInv ==
    ASSUME TypeInv, Inv, AddChannel
    PROVE  Inv'
<1> DEFINE c == First(reload.adding)
           first == CHOOSE new \in Fresh : \A other \in Fresh : new <= other
           Became(o, s) == object' = [object EXCEPT ![o] =
                            [name |-> c, version |-> channelHashes[c], status |-> s]]
<1>1. /\ reload.stage = "stop" /\ reload.removing = {} /\ reload.adding # {}
      /\ reload.adding \in SUBSET Channels /\ reload \in ReloadRecord
    BY DEF AddChannel, TypeInv, ReloadTypes, ReloadRecord
<1>2. c \in reload.adding /\ c \in Channels
    BY <1>1, FirstMember
<1>3. Fresh # {}
  <2> SUFFICES ASSUME Fresh = {} PROVE FALSE
    OBVIOUS
  <2>1. Cardinality(Fresh) = 0 /\ Cardinality(reload.adding) = 0
    BY <1>1, FiniteTables, FS_EmptySet DEF TypeInv, ReloadTypes
  <2> QED BY <2>1, <1>1, FiniteTables, FS_EmptySet
<1>4. PICK o \in Objects : o = first /\ object[o].status = "unused" /\ o # None
  <2>1. first \in Fresh
    BY <1>3, FirstFresh
  <2> HIDE DEF first
  <2> QED BY <2>1, ChannelManagerAssumption DEF Fresh, Objects
<1>5. /\ reload' = [reload EXCEPT !.adding = reload.adding \ {c}]
      /\ UNCHANGED <<channelHashes, stop>>
      /\ \/ UNCHANGED <<channels, workers, object, line>>
         \/ /\ Became(o, "new") /\ channels' = [channels EXCEPT ![c] = o]
            /\ UNCHANGED <<workers, line>>
         \/ /\ Starts /\ Became(o, "running") /\ channels' = [channels EXCEPT ![c] = o]
            /\ workers' = [workers EXCEPT ![c] = o]
            /\ line' = [x \in Objects \X Lanes |-> IF x[1] = o THEN NewLine ELSE line[x]]
    BY <1>4 DEF AddChannel
<1>6. /\ channels[c] = None /\ workers[c] = None /\ channelHashes[c] # 0 /\ ~StopAllRuns
    BY <1>1, <1>2 DEF Inv, Reloading, Registered
<1> HIDE DEF c, first
<1>7. /\ reload'.stage = "stop" /\ reload'.lane = 1 /\ reload'.removing = {}
      /\ reload'.adding = reload.adding \ {c}
    BY <1>1, <1>5 DEF ReloadRecord, Inv, Reloading
<1>8. CASE UNCHANGED <<channels, workers, object, line>>
  <2>1. Registered'
    BY <1>8 DEF Inv, Registered, Finished
  <2>2. Reloading'
    BY <1>1, <1>5, <1>6, <1>7, <1>8 DEF Inv, Reloading, StopAllRuns
  <2>3. Current'
    BY <1>1, <1>5, <1>7, <1>8 DEF Inv, Current
  <2>4. Stopping'
    BY <1>5, <1>8 DEF Inv, Stopping, Dispatching, StopAllRuns, Finished
  <2> QED BY <2>1, <2>2, <2>3, <2>4 DEF Inv
<1>9. ASSUME NEW s \in {"new", "running"}, Became(o, s), channels' = [channels EXCEPT ![c] = o],
             \/ workers' = workers /\ line' = line /\ s = "new"
             \/ /\ Starts /\ workers' = [workers EXCEPT ![c] = o]
                /\ line' = [x \in Objects \X Lanes |-> IF x[1] = o THEN NewLine ELSE line[x]]
      PROVE  Inv'
  <2>1. /\ \A p \in Objects : p # o => object'[p] = object[p]
        /\ object'[o].name = c /\ object'[o].version = channelHashes[c] /\ object'[o].status = s
    BY <1>4, <1>9 DEF TypeInv, WorkTypes
  <2>2. /\ \A d \in Channels : channels'[d] = IF d = c THEN o ELSE channels[d]
        /\ \A d \in Channels : d # c => workers'[d] = workers[d]
        /\ workers'[c] \in {None, o}
    BY <1>6, <1>9 DEF TypeInv, TableTypes
  <2>3. \A d \in Channels : channels[d] # o /\ channels[d] \in Objects \cup {None}
    BY <1>4 DEF TypeInv, TableTypes, ReloadTypes
  <2>4. \A p \in Objects, l \in Lanes : p # o => (Finished(<<p, l>>)' <=> Finished(<<p, l>>))
    BY <1>9 DEF Finished
  <2>5. \A l \in Lanes : ~Finished(<<o, l>>)' => workers'[c] = o
    <3>1. CASE line' = line
      <4>1. \A l \in Lanes : Finished(<<o, l>>)
        BY <1>4 DEF Inv, Registered
      <4> QED BY <3>1, <4>1 DEF Finished
    <3>2. CASE workers' = [workers EXCEPT ![c] = o]
      BY <1>2, <3>2 DEF TypeInv, TableTypes
    <3> QED BY <1>9, <3>1, <3>2
  <2>6. Registered'
    <3>1. \A d \in Channels : /\ channels'[d] # None => object'[channels'[d]].name = d
                              /\ workers'[d] \in {None, channels'[d]}
      BY <2>1, <2>2, <2>3 DEF Inv, Registered
    <3>2. \A p \in Objects : object'[p].status = "unused" => \A l \in Lanes : Finished(<<p, l>>)'
      <4> SUFFICES ASSUME NEW p \in Objects, object'[p].status = "unused", NEW l \in Lanes
                   PROVE  Finished(<<p, l>>)'
        OBVIOUS
      <4>1. p # o
        BY <2>1
      <4> QED BY <4>1, <2>1, <2>4 DEF Inv, Registered
    <3>3. \A p \in Objects, l \in Lanes : ~Finished(<<p, l>>)' =>
             object'[p].name \in Channels /\ workers'[object'[p].name] = p
      <4> SUFFICES ASSUME NEW p \in Objects, NEW l \in Lanes, ~Finished(<<p, l>>)'
                   PROVE  object'[p].name \in Channels /\ workers'[object'[p].name] = p
        OBVIOUS
      <4>1. CASE p = o
        BY <1>2, <2>1, <2>5, <4>1
      <4>2. CASE p # o
        <5>1. object[p].name \in Channels /\ workers[object[p].name] = p
          BY <2>4, <4>2 DEF Inv, Registered
        <5>2. p # None
          BY ChannelManagerAssumption DEF Objects
        <5> QED BY <1>6, <2>1, <2>2, <4>2, <5>1, <5>2
      <4> QED BY <4>1, <4>2
    <3>4. \A p \in Objects : object'[p].status = "running" =>
             object'[p].name \in Channels /\ channels'[object'[p].name] = p
      <4> SUFFICES ASSUME NEW p \in Objects, object[p].status = "running", p # o
                   PROVE  object[p].name \in Channels /\ channels'[object[p].name] = p
        BY <1>2, <2>1, <2>2
      <4>1. object[p].name \in Channels /\ channels[object[p].name] = p /\ p # None
        BY ChannelManagerAssumption DEF Inv, Registered, Objects
      <4> QED BY <1>6, <2>2, <4>1
    <3> HIDE DEF Became
    <3> QED BY <3>1, <3>2, <3>3, <3>4 DEF Registered
  <2>7. Reloading'
    <3>1. /\ \A d \in Channels : channelHashes[d] = 0 => channels'[d] = None
          /\ \A d \in reload.adding \ {c} : channels'[d] = None
      BY <1>1, <1>2, <1>6, <2>2 DEF Inv, Reloading
    <3> QED BY <1>1, <1>5, <1>6, <1>7, <3>1 DEF Inv, Reloading, StopAllRuns
  <2>8. Current'
    <3> SUFFICES ASSUME NEW d \in Channels, channels'[d] # None
                 PROVE  /\ object'[channels'[d]].version = channelHashes[d]
                        /\ stop.stage = "stopped" \/ object'[channels'[d]].status # "stopped"
      BY <1>5, <1>7 DEF Current
    <3>1. CASE d = c
      BY <2>1, <2>2, <3>1
    <3>2. CASE d # c
      BY <1>1, <2>1, <2>2, <2>3, <3>2 DEF Inv, Current
    <3> QED BY <3>1, <3>2
  <2>9. Stopping'
    <3>1. CASE stop.stage = "stopped"
      <4>1. /\ workers' = workers /\ line' = line /\ s = "new"
        BY <1>9, <3>1 DEF Starts, Dispatching
      <4>2. \A p \in Objects : object'[p].status # "running"
        BY <2>1, <3>1, <4>1 DEF Inv, Stopping
      <4> QED BY <1>5, <3>1, <4>1, <4>2 DEF Inv, Stopping, Dispatching, StopAllRuns, Finished
    <3>2. CASE stop.stage # "stopped"
      BY <1>5, <1>6, <3>2 DEF Inv, Stopping, Dispatching, StopAllRuns
    <3> QED BY <3>1, <3>2
  <2> QED BY <2>6, <2>7, <2>8, <2>9 DEF Inv
<1> HIDE DEF Became
<1>10. CASE /\ Became(o, "new") /\ channels' = [channels EXCEPT ![c] = o]
            /\ UNCHANGED <<workers, line>>
    BY <1>9, <1>10
<1>11. CASE /\ Starts /\ Became(o, "running") /\ channels' = [channels EXCEPT ![c] = o]
            /\ workers' = [workers EXCEPT ![c] = o]
            /\ line' = [x \in Objects \X Lanes |-> IF x[1] = o THEN NewLine ELSE line[x]]
    BY <1>9, <1>11
<1> QED BY <1>5, <1>8, <1>10, <1>11

LEMMA InvStep == TypeInv /\ Inv /\ [Next]_vars => Inv'
<1> SUFFICES ASSUME TypeInv, Inv, [Next]_vars PROVE Inv'
    OBVIOUS
<1>1. CASE UNCHANGED vars
  <2>1. UNCHANGED <<channelHashes, channels, workers, object, line, reload, stop>>
    BY <1>1 DEF vars
  <2>2. \A x \in Objects \X Lanes : Finished(x) => Finished(x)'
    BY <2>1 DEF Finished
  <2> QED BY <2>1, <2>2, SenderFrame
<1>2. CASE Step
  <2>1. ASSUME NEW l \in Lanes, NEW c \in Channels, Publish(l, c) PROVE Inv'
    BY <2>1, QuietInv
  <2>2. ASSUME NEW l \in Lanes, Dispatch(l) PROVE Inv'
    BY <2>2, DispatchInv
  <2>3. ASSUME NEW x \in Objects \X Lanes, Work(x) \/ Return(x) PROVE Inv'
    BY <2>3, WorkInv
  <2>4. ASSUME NEW config \in Configs, BeginReload(config) PROVE Inv'
    BY <2>4, BeginReloadInv
  <2>5. CASE ReloadStep
    BY <2>5, StopChannelInv, CloseLineInv, WaitLineInv, AddChannelInv, EndReloadInv
    DEF ReloadStep
  <2>6. CASE Cancel \/ StopStep
    BY <2>6, QuietInv, BeginStopAllInv, CloseAllInv, WaitAllInv DEF StopStep
  <2> QED BY <1>2, <2>1, <2>2, <2>3, <2>4, <2>5, <2>6 DEF Step
<1> QED BY <1>1, <1>2 DEF Next, Crashed

LEMMA Invariant == Spec => [](TypeInv /\ Inv)
<1>1. Init => TypeInv /\ Inv
    BY TypeInit, InvInit
<1>2. TypeInv /\ Inv /\ [Next]_vars => (TypeInv /\ Inv)'
    BY TypeStep, InvStep
<1> QED BY <1>1, <1>2, PTL DEF Spec

-----------------------------------------------------------------------------
\* At most one goroutine sends for a channel and lane: whoever sends is the
\* worker the map holds under its name, and Reload takes the worker out of the
\* map only when both its lanes have ended.
THEOREM SendersExclude == Spec => []OneSender
<1>1. TypeInv /\ Inv => OneSender
  <2> SUFFICES ASSUME TypeInv, Inv, NEW o1 \in Objects, NEW o2 \in Objects, NEW l \in Lanes,
                      Sends(o1, l), Sends(o2, l), object[o1].name = object[o2].name
               PROVE  o1 = o2
    BY DEF OneSender
  <2>1. ~Finished(<<o1, l>>) /\ ~Finished(<<o2, l>>)
    BY DEF Sends, Finished
  <2> QED BY <2>1 DEF Inv, Registered
<1> QED BY <1>1, Invariant, PTL

\* A channel that Reload added is registered together with its worker.
Manned ==
    \A c \in Channels :
        channels[c] \in Objects \ 1..Len(ByName) /\ Dispatching => workers[c] # None

LEMMA MannedStep == TypeInv /\ Inv /\ Manned /\ [Next]_vars => Manned'
<1> SUFFICES ASSUME TypeInv, Inv, Manned, [Next]_vars PROVE Manned'
    OBVIOUS
<1>1. ASSUME UNCHANGED <<channels, workers>>, Dispatching' => Dispatching PROVE Manned'
    BY <1>1 DEF Manned
<1>2. CASE UNCHANGED vars
    BY <1>1, <1>2 DEF vars, Dispatching
<1>3. ASSUME NEW table \in {channels, workers}, NEW c \in Channels
      PROVE  Forget(table)[c] = IF c = Leaving THEN None ELSE table[c]
    BY DEF Forget, TypeInv, TableTypes
<1>4. None \notin Objects
    BY ChannelManagerAssumption DEF Objects
<1>5. CASE StopChannel
  <2>1. UNCHANGED <<workers, stop>> /\ channels' \in {channels, Forget(channels)}
    BY <1>5 DEF StopChannel
  <2>2. \A c \in Channels : channels'[c] \in {channels[c], None}
    BY <1>3, <2>1
  <2> QED BY <1>4, <2>1, <2>2 DEF Manned, Dispatching
<1>6. CASE WaitLine
  <2>1. /\ UNCHANGED stop
        /\ \/ UNCHANGED <<channels, workers>>
           \/ channels' = Forget(channels) /\ workers' = Forget(workers)
    BY <1>6 DEF WaitLine
  <2>2. ASSUME NEW c \in Channels
        PROVE  \/ channels'[c] = channels[c] /\ workers'[c] = workers[c]
               \/ channels'[c] = None
    BY <1>3, <2>1
  <2> QED BY <1>4, <2>1, <2>2 DEF Manned, Dispatching
<1>7. CASE AddChannel
  <2> DEFINE o == CHOOSE new \in Fresh : \A other \in Fresh : new <= other
             c == First(reload.adding)
  <2>1. /\ UNCHANGED stop
        /\ \/ UNCHANGED <<channels, workers>>
           \/ ~Starts /\ channels' = [channels EXCEPT ![c] = o] /\ UNCHANGED workers
           \/ channels' = [channels EXCEPT ![c] = o] /\ workers' = [workers EXCEPT ![c] = o]
    BY <1>7 DEF AddChannel
  <2> HIDE DEF o, c
  <2>2. CASE ~Starts
    BY <2>1, <2>2 DEF Manned, Starts, Dispatching
  <2>3. CASE Starts
    <3>1. ASSUME NEW d \in Channels
          PROVE  \/ channels'[d] = channels[d] /\ workers'[d] = workers[d]
                 \/ channels'[d] = o /\ workers'[d] = o
      BY <2>1, <2>3 DEF TypeInv, TableTypes
    <3> QED BY <1>4, <2>1, <3>1 DEF Manned, Dispatching
  <2> QED BY <2>2, <2>3
<1>8. CASE Step
  <2>1. ASSUME NEW l \in Lanes, NEW c \in Channels, Publish(l, c) PROVE Manned'
    BY <1>1, <2>1 DEF Publish, tableVars, Dispatching
  <2>2. ASSUME NEW l \in Lanes, Dispatch(l) PROVE Manned'
    BY <1>1, <2>2
    DEF Dispatch, Subscribe, LookUp, Enqueue, SendOnClosed, StopDispatching, tableVars, Dispatching
  <2>3. ASSUME NEW x \in Objects \X Lanes, Work(x) \/ Return(x) PROVE Manned'
    BY <1>1, <2>3, WorkLine DEF tableVars, Dispatching
  <2>4. ASSUME NEW config \in Configs, BeginReload(config) PROVE Manned'
    BY <1>1, <2>4 DEF BeginReload, Dispatching
  <2>5. CASE CloseLine \/ EndReload
    BY <1>1, <2>5 DEF CloseLine, EndReload, tableVars, Dispatching
  <2>6. CASE Cancel \/ StopStep
    <3>1. UNCHANGED <<channels, workers>>
      BY <2>6 DEF Cancel, StopStep, CloseBus, BeginStopAll, CloseAllLines, WaitAllLines, tableVars
    <3>2. Dispatching' => Dispatching
      <4>1. stop \in StopRecord
        BY DEF TypeInv, FlowTypes
      <4>2. CASE Cancel \/ CloseBus \/ BeginStopAll
        BY <4>2 DEF Cancel, CloseBus, BeginStopAll, Dispatching
      <4>3. CASE CloseAllLines
        BY <4>1, <4>3 DEF CloseAllLines, Dispatching, StopRecord
      <4>4. CASE WaitAllLines
        <5>1. stop' = [stage |-> "close", lane |-> stop.lane + 1]
              \/ stop' = [stop EXCEPT !.stage = "stopped"]
          BY <4>4 DEF WaitAllLines
        <5>2. stop'.stage \in {"close", "stopped"}
          BY <4>1, <5>1 DEF StopRecord
        <5> QED BY <5>2 DEF Dispatching
      <4> QED BY <2>6, <4>2, <4>3, <4>4 DEF StopStep
    <3> QED BY <1>1, <3>1, <3>2
  <2> QED BY <1>5, <1>6, <1>7, <1>8, <2>1, <2>2, <2>3, <2>4, <2>5, <2>6 DEF Step, ReloadStep
<1> QED BY <1>2, <1>8 DEF Next, Crashed

LEMMA MannedInit == Init => Manned
<1> SUFFICES ASSUME Init, NEW c \in Channels PROVE channels[c] \in 1..Len(ByName)
    BY DEF Manned
<1> QED BY PlaceType DEF Init

\* Between reloads the registry is what the last configuration says, a channel
\* that was added has its worker, and a channel whose configuration did not
\* change is never stopped by a reload.
THEOREM ReloadsAreExact == Spec => []ReloadIsExact
<1>1. TypeInv /\ Inv /\ Manned => ReloadIsExact
  <2> SUFFICES ASSUME TypeInv, Inv, Manned PROVE ReloadIsExact
    OBVIOUS
  <2>1. ASSUME reload.stage = "idle", NEW c \in Channels
        PROVE  /\ channels[c] # None => object[channels[c]].version = channelHashes[c]
               /\ channelHashes[c] = 0 => channels[c] = None
               /\ workers[c] \in {None, channels[c]}
               /\ channels[c] \in Objects \ 1..Len(ByName) /\ Dispatching => workers[c] # None
    BY <2>1 DEF Inv, Registered, Reloading, Current, Manned
  <2>2. ASSUME stop.stage # "stopped", NEW c \in Channels, channels[c] # None,
               object[channels[c]].version = channelHashes[c]
        PROVE  object[channels[c]].status # "stopped"
    BY <2>2 DEF Inv, Current
  <2> QED BY <2>1, <2>2 DEF ReloadIsExact
<1>2. TypeInv /\ Inv /\ Manned /\ [Next]_vars => Manned'
    BY MannedStep
<1> QED BY <1>1, <1>2, MannedInit, Invariant, PTL DEF Spec

\* After StopAll no goroutine sends and no channel runs, even when a Reload
\* that began before goes on to add channels.
THEOREM StopsQuietly == Spec => []StoppedIsQuiet
<1>1. TypeInv /\ Inv => StoppedIsQuiet
    BY DEF Inv, Stopping, StoppedIsQuiet, Sends, Finished
<1> QED BY <1>1, Invariant, PTL

-----------------------------------------------------------------------------
\* Where the messages of a channel are on a lane, by number: attempted, in the
\* hands of a sender, in the queue of one, in the hands of the dispatcher, on the
\* bus.  The message in hand may have been attempted already.
Sent(l, c) == {n \in Nat : \E i \in 1..Len(attempts[l][c]) : attempts[l][c][i] = n}
Sending(l, c) == {n \in Nat : \E o \in Objects :
                    InHand(line[<<o, l>>]) /\ line[<<o, l>>].msg = <<c, n>>}
Queued(l, c) == {n \in Nat : \E o \in Objects : ~Finished(<<o, l>>) /\
                    \E i \in 1..Len(line[<<o, l>>].queue) : line[<<o, l>>].queue[i] = <<c, n>>}
Carried(l, c) == {n \in Nat : dispatcher[l].pc \in {"lookup", "enqueue"} /\ dispatcher[l].msg = <<c, n>>}
Waiting(l, c) == {n \in Nat : \E i \in 1..Len(outbound[l]) : outbound[l][i] = <<c, n>>}

Before(S, T) == \A s \in S, t \in T : s < t
NotAfter(S, T) == \A s \in S, t \in T : s <= t
Ascending(s) == \A i, j \in 1..Len(s) : i < j /\ s[i][1] = s[j][1] => s[i][2] < s[j][2]

\* A queue holds messages for its own channel, and so will the one to which a
\* dispatcher is about to add.
AddressedTo(r, name) ==
    /\ InHand(r) => r.msg[1] = name
    /\ \A i \in 1..Len(r.queue) : r.queue[i][1] = name
Addressed ==
    /\ \A o \in Objects, l \in Lanes : ~Finished(<<o, l>>) => AddressedTo(line[<<o, l>>], object[o].name)
    /\ \A l \in Lanes : dispatcher[l].pc = "enqueue" =>
         /\ object[dispatcher[l].target].name = dispatcher[l].msg[1]
         /\ object[dispatcher[l].target].status # "unused"

QueuesAscend ==
    /\ \A l \in Lanes : Ascending(outbound[l])
    /\ \A o \in Objects, l \in Lanes : ~Finished(<<o, l>>) => Ascending(line[<<o, l>>].queue)

\* The stations follow each other.
Stations(S, D, Q, C, W, p) ==
    /\ \A n \in S \cup D \cup Q \cup C \cup W : n <= p
    /\ NotAfter(S, D) /\ Before(S, Q) /\ Before(S, C) /\ Before(S, W)
    /\ Before(D, Q) /\ Before(D, C) /\ Before(D, W)
    /\ Before(Q, C) /\ Before(Q, W) /\ Before(C, W)
InLine(l, c) ==
    Stations(Sent(l, c), Sending(l, c), Queued(l, c), Carried(l, c), Waiting(l, c), published[l][c])

\* The attempts a line has made of the message in its hands are the last ones
\* for the channel, and as many as it has counted.
Tries(r) == IF r.pc = "calling" THEN r.attempt + 1 ELSE r.attempt
Older(d, k, m) == \A i \in 1..Len(d) : i + k <= Len(d) => d[i] < m[2]
Counted ==
    \A o \in Objects, l \in Lanes : LET r == line[<<o, l>>] IN
        InHand(r) => Older(attempts[l][r.msg[1]], Tries(r), r.msg)

OrderInv ==
    InOrder /\ Counted /\ Addressed /\ QueuesAscend /\ \A l \in Lanes, c \in Channels : InLine(l, c)

\* What the bus and the queues do to an ascending sequence.
LEMMA AscendingChanges ==
    ASSUME NEW s \in Seq(Message), Ascending(s)
    PROVE  /\ s # <<>> => /\ Ascending(Tail(s)) /\ Head(s) = s[1]
                          /\ \A i \in 1..Len(Tail(s)) :
                               /\ i + 1 \in 1..Len(s) /\ Tail(s)[i] = s[i + 1]
                               /\ Tail(s)[i][1] = s[1][1] => s[1][2] < Tail(s)[i][2]
           /\ \A m \in Message :
                (\A i \in 1..Len(s) : s[i][1] = m[1] => s[i][2] < m[2]) => Ascending(Append(s, m))
<1>1. Len(s) \in Nat /\ \A i \in 1..Len(s) : s[i] \in Message
    BY LenProperties
<1>2. ASSUME s # <<>>
      PROVE  /\ Len(Tail(s)) = Len(s) - 1 /\ Head(s) = s[1] /\ Len(s) > 0
             /\ \A i \in 1..Len(Tail(s)) : i + 1 \in 1..Len(s) /\ Tail(s)[i] = s[i + 1]
    BY <1>1, <1>2, HeadTailProperties, EmptySeq
<1>3. ASSUME s # <<>>
      PROVE  /\ Ascending(Tail(s))
             /\ \A i \in 1..Len(Tail(s)) : Tail(s)[i][1] = s[1][1] => s[1][2] < Tail(s)[i][2]
    BY <1>1, <1>2, <1>3 DEF Ascending
<1>4. ASSUME NEW m \in Message, \A i \in 1..Len(s) : s[i][1] = m[1] => s[i][2] < m[2]
      PROVE  Ascending(Append(s, m))
  <2>1. /\ Len(Append(s, m)) = Len(s) + 1 /\ Append(s, m)[Len(s) + 1] = m
        /\ \A i \in 1..Len(s) : Append(s, m)[i] = s[i]
    BY AppendProperties
  <2> DEFINE t == Append(s, m)
  <2> HIDE DEF t
  <2>2. SUFFICES ASSUME NEW i \in 1..Len(t), NEW j \in 1..Len(t), i < j, t[i][1] = t[j][1]
                 PROVE  t[i][2] < t[j][2]
    BY DEF Ascending, t
  <2>3. Len(t) = Len(s) + 1 /\ t[Len(s) + 1] = m /\ \A k \in 1..Len(s) : t[k] = s[k]
    BY <2>1 DEF t
  <2>4. i \in 1..Len(s) /\ t[i] = s[i]
    BY <1>1, <2>2, <2>3
  <2>5. CASE j = Len(s) + 1
    BY <1>4, <2>2, <2>3, <2>4, <2>5
  <2>6. CASE j # Len(s) + 1
    <3>1. j \in 1..Len(s) /\ t[j] = s[j]
      BY <1>1, <2>2, <2>3, <2>6
    <3> QED BY <2>2, <2>4, <3>1 DEF Ascending
  <2> QED BY <2>5, <2>6
<1> QED BY <1>2, <1>3, <1>4

LEMMA OrderInit == Init => OrderInv
<1> SUFFICES ASSUME Init PROVE OrderInv
    OBVIOUS
<1>1. /\ \A l \in Lanes : outbound[l] = <<>> /\ dispatcher[l].pc = "subscribe"
      /\ \A l \in Lanes, c \in Channels : attempts[l][c] = <<>> /\ published[l][c] = 0
      /\ \A x \in Objects \X Lanes : line[x] \in {NewLine, NoLine}
    BY DEF Init
<1>2. /\ NewLine.queue = <<>> /\ NewLine.pc = "waiting"
      /\ NoLine.queue = <<>> /\ NoLine.pc = "none"
    BY DEF NewLine, NoLine
<1>3. \A x \in Objects \X Lanes : line[x].queue = <<>> /\ ~InHand(line[x])
    BY <1>1, <1>2 DEF InHand
<1>4. Len(<<>>) = 0 /\ \A i \in 1..0 : FALSE
    BY EmptySeq
<1>5. InOrder
    BY <1>1, <1>4 DEF InOrder
<1>9. Counted
    BY <1>3 DEF Counted
<1>6. Addressed
    BY <1>1, <1>3, <1>4 DEF Addressed, AddressedTo
<1>7. QueuesAscend
    BY <1>1, <1>3, <1>4 DEF QueuesAscend, Ascending
<1>8. ASSUME NEW l \in Lanes, NEW c \in Channels PROVE InLine(l, c)
  <2>1. Sent(l, c) = {} /\ Sending(l, c) = {} /\ Queued(l, c) = {}
        /\ Carried(l, c) = {} /\ Waiting(l, c) = {}
    BY <1>1, <1>3, <1>4 DEF Sent, Sending, Queued, Carried, Waiting
  <2> QED BY <2>1 DEF InLine, Stations, Before, NotAfter
<1> QED BY <1>5, <1>6, <1>7, <1>8, <1>9 DEF OrderInv

-----------------------------------------------------------------------------
\* An object keeps its name for good.
LEMMA NamesStay ==
    ASSUME TypeInv, [Next]_vars
    PROVE  \A o \in Objects : object[o].status # "unused" =>
             object'[o].name = object[o].name /\ object'[o].status # "unused"
<1>1. \A o \in Objects : object[o] \in ObjectRecord
    BY DEF TypeInv, WorkTypes
<1>2. CASE object' = object
    BY <1>2
<1>3. CASE StopChannel
  <2> DEFINE p == channels[Leaving]
  <2>1. \A o \in Objects : object'[o] \in {object[o], [object[o] EXCEPT !.status = "stopped"]}
    BY <1>3, <1>1 DEF StopChannel, TypeInv, WorkTypes
  <2> QED BY <1>1, <2>1 DEF ObjectRecord
<1>4. CASE WaitAllLines
  <2>1. \A o \in Objects : object'[o] \in {object[o], [object[o] EXCEPT !.status = "stopped"]}
    BY <1>4 DEF WaitAllLines
  <2> QED BY <1>1, <2>1 DEF ObjectRecord
<1>5. CASE AddChannel
  <2> DEFINE first == CHOOSE new \in Fresh : \A other \in Fresh : new <= other
  <2>1. Fresh # {}
    <3>1. Cardinality(reload.adding) <= Cardinality(Fresh) /\ reload.adding # {}
          /\ reload.adding \in SUBSET Channels
      BY <1>5 DEF AddChannel, TypeInv, ReloadTypes, ReloadRecord
    <3> SUFFICES ASSUME Fresh = {} PROVE FALSE
      OBVIOUS
    <3>2. Cardinality(Fresh) = 0 /\ Cardinality(reload.adding) = 0
      BY <3>1, FiniteTables, FS_EmptySet
    <3> QED BY <3>1, <3>2, FiniteTables, FS_EmptySet
  <2>2. first \in Fresh
    BY <2>1, FirstFresh
  <2>3. \A o \in Objects : o # first => object'[o] = object[o]
    BY <1>5 DEF AddChannel, TypeInv, WorkTypes
  <2> HIDE DEF first
  <2> QED BY <1>1, <2>2, <2>3 DEF Fresh
<1>6. CASE UNCHANGED vars
    BY <1>2, <1>6 DEF vars
<1>7. CASE Step
  <2>1. ASSUME NEW l \in Lanes, NEW c \in Channels, Publish(l, c) PROVE object' = object
    BY <2>1 DEF Publish, workVars
  <2>2. ASSUME NEW l \in Lanes, Dispatch(l) PROVE object' = object
    BY <2>2 DEF Dispatch, Subscribe, LookUp, Enqueue, SendOnClosed, StopDispatching, workVars
  <2>3. ASSUME NEW x \in Objects \X Lanes, Work(x) \/ Return(x) PROVE object' = object
    BY <2>3, WorkLine
  <2>4. ASSUME NEW config \in Configs, BeginReload(config) PROVE object' = object
    BY <2>4 DEF BeginReload, workVars
  <2>5. CloseLine \/ WaitLine \/ EndReload => object' = object
    BY DEF CloseLine, WaitLine, EndReload, workVars
  <2>6. Cancel \/ CloseBus \/ BeginStopAll \/ CloseAllLines => object' = object
    BY DEF Cancel, CloseBus, BeginStopAll, CloseAllLines, workVars
  <2> QED BY <1>2, <1>3, <1>4, <1>5, <1>7, <2>1, <2>2, <2>3, <2>4, <2>5, <2>6
          DEF Step, ReloadStep, StopStep
<1> QED BY <1>6, <1>7 DEF Next, Crashed

\* A line to which a step adds no message: it ended, or is a new one, or has the
\* queue it had and sends at most what it was sending.
Tame(x) ==
    \/ Finished(x)'
    \/ line'[x].queue = <<>> /\ ~InHand(line'[x])
    \/ /\ ~Finished(x) /\ line'[x].queue = line[x].queue
       /\ InHand(line'[x]) => /\ InHand(line[x]) /\ line'[x].msg = line[x].msg
                              /\ Tries(line'[x]) = Tries(line[x])

LEMMA TameLines ==
    ASSUME TypeInv, Inv, [Next]_vars, Addressed, QueuesAscend,
           NEW o \in Objects, NEW l \in Lanes, Tame(<<o, l>>)
    PROVE  ~Finished(<<o, l>>)' =>
             /\ AddressedTo(line'[<<o, l>>], object'[o].name)
             /\ Ascending(line'[<<o, l>>].queue)
             /\ InHand(line'[<<o, l>>]) =>
                  /\ InHand(line[<<o, l>>]) /\ line'[<<o, l>>].msg = line[<<o, l>>].msg
                  /\ Tries(line'[<<o, l>>]) = Tries(line[<<o, l>>])
             /\ \A i \in 1..Len(line'[<<o, l>>].queue) :
                  /\ ~Finished(<<o, l>>) /\ i \in 1..Len(line[<<o, l>>].queue)
                  /\ line'[<<o, l>>].queue[i] = line[<<o, l>>].queue[i]
<1> SUFFICES ASSUME ~Finished(<<o, l>>)'
             PROVE  /\ AddressedTo(line'[<<o, l>>], object'[o].name)
                    /\ Ascending(line'[<<o, l>>].queue)
                    /\ InHand(line'[<<o, l>>]) =>
                         /\ InHand(line[<<o, l>>]) /\ line'[<<o, l>>].msg = line[<<o, l>>].msg
                         /\ Tries(line'[<<o, l>>]) = Tries(line[<<o, l>>])
                    /\ \A i \in 1..Len(line'[<<o, l>>].queue) :
                         /\ ~Finished(<<o, l>>) /\ i \in 1..Len(line[<<o, l>>].queue)
                         /\ line'[<<o, l>>].queue[i] = line[<<o, l>>].queue[i]
    OBVIOUS
<1>1. CASE line'[<<o, l>>].queue = <<>> /\ ~InHand(line'[<<o, l>>])
    BY <1>1, EmptySeq DEF AddressedTo, Ascending
<1>2. CASE /\ ~Finished(<<o, l>>) /\ line'[<<o, l>>].queue = line[<<o, l>>].queue
           /\ InHand(line'[<<o, l>>]) =>
                /\ InHand(line[<<o, l>>]) /\ line'[<<o, l>>].msg = line[<<o, l>>].msg
                /\ Tries(line'[<<o, l>>]) = Tries(line[<<o, l>>])
  <2>1. object[o].status # "unused"
    BY <1>2 DEF Inv, Registered
  <2>2. object'[o].name = object[o].name
    BY <2>1, NamesStay
  <2>3. AddressedTo(line[<<o, l>>], object[o].name) /\ Ascending(line[<<o, l>>].queue)
    BY <1>2 DEF Addressed, QueuesAscend
  <2> QED BY <1>2, <2>2, <2>3 DEF AddressedTo
<1> QED BY <1>1, <1>2 DEF Tame

\* A dispatcher that takes up no message, and looks its worker up properly.
TameDispatcher(l) ==
    \/ dispatcher'[l] = dispatcher[l]
    \/ dispatcher'[l].pc \notin {"lookup", "enqueue"}
    \/ /\ dispatcher[l].pc = "lookup" /\ dispatcher'[l].msg = dispatcher[l].msg
       /\ object[dispatcher'[l].target].name = dispatcher[l].msg[1]
       /\ object[dispatcher'[l].target].status # "unused"

\* Steps that only move messages on or drop them keep the order.
LEMMA OrderFrame ==
    ASSUME TypeInv, TypeInv', Inv, [Next]_vars, OrderInv, UNCHANGED <<attempts, published>>,
           \A x \in Objects \X Lanes : Tame(x),
           \A l \in Lanes : TameDispatcher(l),
           \A l \in Lanes : outbound'[l] \in {outbound[l], <<>>}
    PROVE  OrderInv'
<1>1. InOrder'
    BY DEF OrderInv, InOrder
<1>2. ASSUME NEW o \in Objects, NEW l \in Lanes, ~Finished(<<o, l>>)'
      PROVE  /\ AddressedTo(line'[<<o, l>>], object'[o].name)
             /\ Ascending(line'[<<o, l>>].queue)
             /\ InHand(line'[<<o, l>>]) =>
                  /\ InHand(line[<<o, l>>]) /\ line'[<<o, l>>].msg = line[<<o, l>>].msg
                  /\ Tries(line'[<<o, l>>]) = Tries(line[<<o, l>>])
             /\ \A i \in 1..Len(line'[<<o, l>>].queue) :
                  /\ ~Finished(<<o, l>>) /\ i \in 1..Len(line[<<o, l>>].queue)
                  /\ line'[<<o, l>>].queue[i] = line[<<o, l>>].queue[i]
    BY <1>2, TameLines DEF OrderInv
<1>3. ASSUME NEW l \in Lanes, dispatcher'[l].pc = "enqueue"
      PROVE  /\ object'[dispatcher'[l].target].name = dispatcher'[l].msg[1]
             /\ object'[dispatcher'[l].target].status # "unused"
  <2>1. dispatcher'[l].target \in Objects
    BY <1>3 DEF TypeInv, FlowTypes, GoodDispatcher
  <2>2. /\ object[dispatcher'[l].target].name = dispatcher'[l].msg[1]
        /\ object[dispatcher'[l].target].status # "unused"
    BY <1>3 DEF TameDispatcher, OrderInv, Addressed
  <2> QED BY <2>1, <2>2, NamesStay
<1>7. Counted'
  <2> SUFFICES ASSUME NEW o \in Objects, NEW l \in Lanes, InHand(line'[<<o, l>>])
               PROVE  Older(attempts[l][line'[<<o, l>>].msg[1]], Tries(line'[<<o, l>>]),
                            line'[<<o, l>>].msg)
    BY DEF Counted
  <2>1. ~Finished(<<o, l>>)'
    BY DEF Finished, InHand
  <2> QED BY <1>2, <2>1 DEF OrderInv, Counted
<1>4. Addressed'
    BY <1>2, <1>3 DEF Addressed
<1>5. QueuesAscend'
  <2>1. \A l \in Lanes : Ascending(outbound'[l])
    BY EmptySeq DEF OrderInv, QueuesAscend, Ascending
  <2> QED BY <1>2, <2>1 DEF QueuesAscend
<1>6. ASSUME NEW l \in Lanes, NEW c \in Channels PROVE InLine(l, c)'
  <2>1. Sending(l, c)' \in SUBSET Sending(l, c)
    <3> SUFFICES ASSUME NEW n \in Nat, NEW o \in Objects, InHand(line'[<<o, l>>]),
                        line'[<<o, l>>].msg = <<c, n>>
                 PROVE  n \in Sending(l, c)
      BY DEF Sending
    <3>1. ~Finished(<<o, l>>)'
      BY DEF Finished, InHand
    <3> QED BY <1>2, <3>1 DEF Sending
  <2>2. Queued(l, c)' \in SUBSET Queued(l, c)
    <3> SUFFICES ASSUME NEW n \in Nat, NEW o \in Objects, ~Finished(<<o, l>>)',
                        NEW i \in 1..Len(line'[<<o, l>>].queue), line'[<<o, l>>].queue[i] = <<c, n>>
                 PROVE  n \in Queued(l, c)
      BY DEF Queued
    <3> QED BY <1>2 DEF Queued
  <2>3. Carried(l, c)' \in SUBSET Carried(l, c)
    BY DEF Carried, TameDispatcher
  <2>4. Waiting(l, c)' \in SUBSET Waiting(l, c)
    BY EmptySeq DEF Waiting
  <2>5. Sent(l, c)' = Sent(l, c) /\ published'[l][c] = published[l][c] /\ published[l][c] \in Nat
    BY DEF Sent, TypeInv, BusTypes
  <2>6. Stations(Sent(l, c), Sending(l, c), Queued(l, c), Carried(l, c), Waiting(l, c), published[l][c])
    BY DEF OrderInv, InLine
  <2>7. Stations(Sent(l, c), Sending(l, c)', Queued(l, c)', Carried(l, c)', Waiting(l, c)', published[l][c])
    BY <2>1, <2>2, <2>3, <2>4, <2>6 DEF Stations, Before, NotAfter
  <2> QED BY <2>5, <2>7 DEF InLine
<1> QED BY <1>1, <1>4, <1>5, <1>6, <1>7 DEF OrderInv

LEMMA OneLive ==
    ASSUME Inv, NEW o1 \in Objects, NEW o2 \in Objects, NEW l \in Lanes,
           ~Finished(<<o1, l>>), ~Finished(<<o2, l>>), object[o1].name = object[o2].name
    PROVE  o1 = o2
BY DEF Inv, Registered

LEMMA OrderPublish ==
    ASSUME TypeInv, OrderInv, NEW l \in Lanes, NEW c \in Channels, Publish(l, c)
    PROVE  OrderInv'
<1> DEFINE p == published[l][c]
           m == <<c, p + 1>>
           s == outbound[l]
           longer == Append(s, m)
           len == Len(s)
<1>1. /\ p \in Nat /\ m \in Message /\ s \in Seq(Message)
      /\ \A k \in Lanes, d \in Channels : published[k][d] \in Nat
    BY DEF TypeInv, BusTypes, Message
<1>2. /\ UNCHANGED <<object, line, dispatcher, attempts>>
      /\ \A k \in Lanes : outbound'[k] = IF k = l THEN longer ELSE outbound[k]
      /\ \A k \in Lanes, d \in Channels :
            published'[k][d] = IF k = l /\ d = c THEN p + 1 ELSE published[k][d]
    BY DEF Publish, workVars, TypeInv, BusTypes
<1>3. /\ len \in Nat /\ Len(longer) = len + 1
      /\ longer[len + 1] = m
      /\ \A i \in 1..len : longer[i] = s[i]
                                        /\ s[i] \in Message
    BY <1>1, AppendProperties, LenProperties
<1>4. \A i \in 1..len : s[i][1] = c => s[i][2] < p + 1
  <2> SUFFICES ASSUME NEW i \in 1..len, s[i][1] = c
               PROVE  s[i][2] < p + 1
    OBVIOUS
  <2>1. s[i] = <<c, s[i][2]>> /\ s[i][2] \in Nat
    BY <1>3, MessageParts
  <2>2. s[i][2] \in Waiting(l, c)
    BY <2>1 DEF Waiting
  <2> QED BY <1>1, <2>1, <2>2 DEF OrderInv, InLine, Stations
<1>9. m[1] = c /\ m[2] = p + 1 /\ m = <<c, p + 1>>
    OBVIOUS
<1> HIDE DEF m, p
<1>5. Ascending(longer)
  <2>1. Ascending(s)
    BY DEF OrderInv, QueuesAscend
  <2> QED BY <1>1, <1>4, <1>9, <2>1, AscendingChanges
<1>10. \A n \in Nat : (\E i \in 1..(len + 1) : longer[i] = <<c, n>>) =>
                        n = p + 1 \/ \E i \in 1..len : s[i] = <<c, n>>
  <2> HIDE DEF longer, s, len
  <2> SUFFICES ASSUME NEW n \in Nat, NEW i \in 1..(len + 1), longer[i] = <<c, n>>, n # p + 1
               PROVE  \E j \in 1..len : s[j] = <<c, n>>
    OBVIOUS
  <2>1. i # len + 1
    BY <1>3, <1>9
  <2>2. i \in 1..len
    BY <1>3, <2>1
  <2> QED BY <1>3, <2>2
<1>11. \A d \in Channels, n \in Nat : d # c =>
         ((\E i \in 1..(len + 1) : longer[i] = <<d, n>>) <=> (\E i \in 1..len : s[i] = <<d, n>>))
  <2> HIDE DEF longer, s, len
  <2> SUFFICES ASSUME NEW d \in Channels, NEW n \in Nat, d # c
               PROVE  (\E i \in 1..(len + 1) : longer[i] = <<d, n>>) <=> (\E i \in 1..len : s[i] = <<d, n>>)
    OBVIOUS
  <2>1. <<d, n>> # m
    BY <1>9
  <2>2. ASSUME NEW i \in 1..(len + 1), longer[i] = <<d, n>> PROVE i \in 1..len /\ s[i] = <<d, n>>
    <3>1. i # len + 1
      BY <1>3, <2>1, <2>2
    <3>2. i \in 1..len
      BY <1>3, <3>1
    <3> QED BY <1>3, <2>2, <3>2
  <2>3. ASSUME NEW i \in 1..len, s[i] = <<d, n>> PROVE i \in 1..(len + 1) /\ longer[i] = <<d, n>>
    BY <1>3, <2>3
  <2> QED BY <2>2, <2>3
<1>6. InOrder' /\ Counted' /\ Addressed'
    BY <1>2 DEF OrderInv, InOrder, Counted, Addressed, Finished
<1>7. QueuesAscend'
    BY <1>2, <1>5 DEF OrderInv, QueuesAscend, Finished
<1>8. ASSUME NEW k \in Lanes, NEW d \in Channels PROVE InLine(k, d)'
  <2>1. /\ Sent(k, d)' = Sent(k, d) /\ Sending(k, d)' = Sending(k, d)
        /\ Queued(k, d)' = Queued(k, d) /\ Carried(k, d)' = Carried(k, d)
    BY <1>2 DEF Sent, Sending, Queued, Carried, Finished
  <2>2. CASE k = l /\ d = c
    <3>1. Waiting(l, c)' \subseteq Waiting(l, c) \cup {p + 1}
      <4>1. outbound'[l] = longer /\ Len(longer) = len + 1
        BY <1>2, <1>3
      <4> HIDE DEF longer
      <4> QED BY <1>10, <4>1 DEF Waiting
    <3>2. /\ Sent(l, c) \in SUBSET Nat /\ Sending(l, c) \in SUBSET Nat
          /\ Queued(l, c) \in SUBSET Nat /\ Carried(l, c) \in SUBSET Nat
          /\ Waiting(l, c) \in SUBSET Nat
      BY DEF Sent, Sending, Queued, Carried, Waiting
    <3>3. Stations(Sent(l, c), Sending(l, c), Queued(l, c), Carried(l, c), Waiting(l, c), p)
      BY DEF OrderInv, InLine, p
    <3>4. Stations(Sent(l, c), Sending(l, c), Queued(l, c), Carried(l, c), Waiting(l, c)', p + 1)
      BY <1>1, <3>1, <3>2, <3>3 DEF Stations, Before, NotAfter
    <3> QED BY <1>2, <2>1, <2>2, <3>4 DEF InLine
  <2>3. CASE ~(k = l /\ d = c)
    <3>1. Waiting(k, d)' = Waiting(k, d)
      <4>1. CASE k # l
        BY <1>2, <4>1 DEF Waiting
      <4>2. CASE k = l /\ d # c
        <5>1. outbound'[l] = longer /\ Len(longer) = len + 1
          BY <1>2, <1>3
        <5> HIDE DEF longer
        <5> QED BY <1>11, <4>2, <5>1 DEF Waiting
      <4> QED BY <2>3, <4>1, <4>2
    <3>2. published'[k][d] = published[k][d]
      BY <1>2, <2>3
    <3> QED BY <2>1, <3>1, <3>2 DEF OrderInv, InLine
  <2> QED BY <2>2, <2>3
<1> QED BY <1>6, <1>7, <1>8 DEF OrderInv

LEMMA OrderSubscribe ==
    ASSUME TypeInv, OrderInv, NEW l \in Lanes, Subscribe(l)
    PROVE  OrderInv'
<1> DEFINE m == outbound[l][1]
<1>1. outbound[l] \in Seq(Message) /\ outbound[l] # <<>> /\ Ascending(outbound[l])
    BY DEF Subscribe, TypeInv, BusTypes, OrderInv, QueuesAscend
<1>2. /\ Ascending(Tail(outbound[l])) /\ Head(outbound[l]) = m
      /\ \A i \in 1..Len(Tail(outbound[l])) :
           /\ i + 1 \in 1..Len(outbound[l]) /\ Tail(outbound[l])[i] = outbound[l][i + 1]
           /\ Tail(outbound[l])[i][1] = m[1] => m[2] < Tail(outbound[l])[i][2]
    BY <1>1, AscendingChanges
<1>3. /\ UNCHANGED <<object, line, published, attempts>>
      /\ \A k \in Lanes : outbound'[k] = IF k = l THEN Tail(outbound[l]) ELSE outbound[k]
      /\ \A k \in Lanes : k # l => dispatcher'[k] = dispatcher[k]
      /\ dispatcher'[l].pc = "lookup" /\ dispatcher'[l].msg = m
    BY <1>2 DEF Subscribe, workVars, TypeInv, BusTypes, FlowTypes, DispatcherRecord
<1>4. m \in Message /\ 1 \in 1..Len(outbound[l])
    BY <1>1, HeadTailProperties, EmptySeq, LenProperties
<1>5. m = <<m[1], m[2]>> /\ m[2] \in Nat
    BY <1>4, MessageParts
<1>6. InOrder' /\ Counted'
    BY <1>3 DEF OrderInv, InOrder, Counted
<1>7. Addressed'
    BY <1>3 DEF OrderInv, Addressed, Finished
<1>8. QueuesAscend'
    BY <1>2, <1>3 DEF OrderInv, QueuesAscend, Finished
<1>9. ASSUME NEW k \in Lanes, NEW d \in Channels PROVE InLine(k, d)'
  <2>1. /\ Sent(k, d)' = Sent(k, d) /\ Sending(k, d)' = Sending(k, d)
        /\ Queued(k, d)' = Queued(k, d) /\ published'[k][d] = published[k][d]
    BY <1>3 DEF Sent, Sending, Queued, Finished
  <2>2. CASE k # l
    <3>1. Carried(k, d)' = Carried(k, d) /\ Waiting(k, d)' = Waiting(k, d)
      BY <1>3, <2>2 DEF Carried, Waiting
    <3> QED BY <2>1, <3>1 DEF OrderInv, InLine
  <2>3. CASE k = l
    <3>1. Waiting(l, d)' \subseteq Waiting(l, d)
      <4> DEFINE rest == Tail(outbound[l])
      <4>1. outbound'[l] = rest
        BY <1>3
      <4>2. \A i \in 1..Len(rest) : i + 1 \in 1..Len(outbound[l]) /\ rest[i] = outbound[l][i + 1]
        BY <1>2
      <4> HIDE DEF rest
      <4> QED BY <4>1, <4>2 DEF Waiting
    <3>2. Carried(l, d)' \subseteq Waiting(l, d)
      BY <1>3, <1>4 DEF Carried, Waiting
    <3>3. Before(Carried(l, d)', Waiting(l, d)')
      <4> DEFINE rest == Tail(outbound[l])
      <4>1. outbound'[l] = rest /\ dispatcher'[l].msg = m
        BY <1>3
      <4>2. \A i \in 1..Len(rest) : rest[i][1] = m[1] => m[2] < rest[i][2]
        BY <1>2
      <4> HIDE DEF m, rest
      <4>3. \A n \in Carried(l, d)' : m = <<d, n>>
        BY <4>1 DEF Carried
      <4>4. \A q \in Waiting(l, d)' : \E i \in 1..Len(rest) : rest[i] = <<d, q>>
        BY <4>1 DEF Waiting
      <4>5. ASSUME NEW n \in Carried(l, d)', NEW q \in Waiting(l, d)' PROVE n < q
        <5>1. m = <<d, n>>
          BY <4>3, <4>5
        <5>2. PICK i \in 1..Len(rest) : rest[i] = <<d, q>>
          BY <4>4, <4>5
        <5>3. m[1] = d /\ m[2] = n /\ rest[i][1] = d /\ rest[i][2] = q
          BY <5>1, <5>2
        <5> QED BY <4>2, <5>3
      <4> QED BY <4>5 DEF Before
    <3>4. Stations(Sent(l, d), Sending(l, d), Queued(l, d), Carried(l, d), Waiting(l, d), published[l][d])
      BY DEF OrderInv, InLine
    <3>5. Stations(Sent(l, d), Sending(l, d), Queued(l, d), Carried(l, d)', Waiting(l, d)', published[l][d])
      BY <3>1, <3>2, <3>3, <3>4 DEF Stations, Before, NotAfter
    <3> QED BY <2>1, <2>3, <3>5 DEF InLine
  <2> QED BY <2>2, <2>3
<1> QED BY <1>6, <1>7, <1>8, <1>9 DEF OrderInv

\* Only the worker of its name holds messages for a channel.
LEMMA OrderEnqueue ==
    ASSUME TypeInv, Inv, OrderInv, NEW l \in Lanes, Enqueue(l)
    PROVE  OrderInv'
<1> DEFINE t == dispatcher[l].target
           m == dispatcher[l].msg
           s == line[<<t, l>>].queue
           len == Len(s)
           longer == Append(s, m)
<1>1. /\ dispatcher[l].pc = "enqueue" /\ t \in Objects /\ m \in Message
      /\ object[t].name = m[1] /\ object[t].status # "unused"
    BY DEF Enqueue, At, TypeInv, FlowTypes, GoodDispatcher, OrderInv, Addressed
<1>2. m = <<m[1], m[2]>> /\ m[1] \in Channels /\ m[2] \in Nat
    BY <1>1, MessageParts
<1>3. /\ UNCHANGED <<object, outbound, published, attempts>>
      /\ \A k \in Lanes : k # l => dispatcher'[k] = dispatcher[k]
      /\ dispatcher'[l].pc = "subscribe"
    BY DEF Enqueue, busVars, Subscribing, TypeInv, FlowTypes
<1>4. /\ \A x \in Objects \X Lanes : x # <<t, l>> => line'[x] = line[x]
      /\ line'[<<t, l>>].queue = longer /\ line'[<<t, l>>].pc = line[<<t, l>>].pc
      /\ line'[<<t, l>>].msg = line[<<t, l>>].msg
      /\ line'[<<t, l>>].attempt = line[<<t, l>>].attempt
    BY <1>1 DEF Enqueue, Target, TypeInv, WorkTypes, LineRecord
<1>5. s \in Seq(Message)
    BY <1>1 DEF TypeInv, WorkTypes, LineRecord
<1>6. /\ len \in Nat /\ Len(longer) = len + 1 /\ longer[len + 1] = m
      /\ \A i \in 1..len : longer[i] = s[i] /\ s[i] \in Message
    BY <1>1, <1>5, AppendProperties, LenProperties
<1> HIDE DEF m, t, s, len, longer
<1>7. \A x \in Objects \X Lanes : /\ line'[x].pc = line[x].pc /\ line'[x].msg = line[x].msg
                                  /\ line'[x].attempt = line[x].attempt
    BY <1>4
<1>8. \A x \in Objects \X Lanes : Finished(x)' <=> Finished(x)
    BY <1>7 DEF Finished
<1>9. ~Finished(<<t, l>>) => Ascending(longer) /\ \A i \in 1..(len + 1) : longer[i][1] = m[1]
  <2> SUFFICES ASSUME ~Finished(<<t, l>>)
               PROVE  Ascending(longer) /\ \A i \in 1..(len + 1) : longer[i][1] = m[1]
    OBVIOUS
  <2>1. Ascending(s) /\ \A i \in 1..len : s[i][1] = m[1]
    BY <1>1 DEF OrderInv, QueuesAscend, Addressed, AddressedTo, s, len
  <2>2. ASSUME NEW i \in 1..len PROVE s[i][2] < m[2]
    <3>1. s[i] = <<m[1], s[i][2]>> /\ s[i][2] \in Nat
      BY <1>6, <2>1, MessageParts
    <3>2. s[i][2] \in Queued(l, m[1])
      BY <1>1, <3>1 DEF Queued, s, len
    <3>3. m[2] \in Carried(l, m[1])
      BY <1>1, <1>2 DEF Carried, m
    <3> QED BY <1>2, <3>2, <3>3 DEF OrderInv, InLine, Stations, Before
  <2>3. Ascending(longer)
    BY <1>1, <1>5, <2>1, <2>2, AscendingChanges DEF longer, len
  <2>4. ASSUME NEW i \in 1..(len + 1) PROVE longer[i][1] = m[1]
    BY <1>6, <2>1
  <2> QED BY <2>3, <2>4
<1>10. InOrder' /\ Counted'
    BY <1>3, <1>7 DEF OrderInv, InOrder, Counted, InHand, Tries
<1>11. Addressed'
  <2>1. ASSUME NEW o \in Objects, NEW k \in Lanes, ~Finished(<<o, k>>)'
        PROVE  AddressedTo(line'[<<o, k>>], object[o].name)
    <3>1. ~Finished(<<o, k>>)
      BY <1>8, <2>1
    <3>2. AddressedTo(line[<<o, k>>], object[o].name)
      BY <3>1 DEF OrderInv, Addressed
    <3>3. CASE o = t /\ k = l
      <4>1. Len(line'[<<o, k>>].queue) = len + 1 /\ line'[<<o, k>>].queue = longer
        BY <1>4, <1>6, <3>3
      <4>2. \A i \in 1..(len + 1) : longer[i][1] = object[o].name
        BY <1>1, <1>9, <3>1, <3>3
      <4>3. InHand(line'[<<o, k>>]) => line'[<<o, k>>].msg[1] = object[o].name
        BY <1>7, <3>2 DEF AddressedTo, InHand
      <4> QED BY <4>1, <4>2, <4>3 DEF AddressedTo
    <3>4. CASE ~(o = t /\ k = l)
      <4>1. line'[<<o, k>>] = line[<<o, k>>]
        BY <1>4, <3>4
      <4> QED BY <3>2, <4>1
    <3> QED BY <3>3, <3>4
  <2>2. \A k \in Lanes : dispatcher'[k].pc = "enqueue" => dispatcher'[k] = dispatcher[k]
    BY <1>3
  <2> QED BY <1>3, <2>1, <2>2 DEF OrderInv, Addressed
<1>12. QueuesAscend'
  <2>1. ASSUME NEW o \in Objects, NEW k \in Lanes, ~Finished(<<o, k>>)'
        PROVE  Ascending(line'[<<o, k>>].queue)
    <3>1. ~Finished(<<o, k>>)
      BY <1>8, <2>1
    <3>2. CASE o = t /\ k = l
      BY <1>4, <1>9, <3>1, <3>2
    <3>3. CASE ~(o = t /\ k = l)
      <4>1. line'[<<o, k>>] = line[<<o, k>>]
        BY <1>4, <3>3
      <4> QED BY <3>1, <4>1 DEF OrderInv, QueuesAscend
    <3> QED BY <3>2, <3>3
  <2> QED BY <1>3, <2>1 DEF OrderInv, QueuesAscend
<1>13. ASSUME NEW k \in Lanes, NEW c \in Channels PROVE InLine(k, c)'
  <2>1. /\ Sent(k, c)' = Sent(k, c) /\ Waiting(k, c)' = Waiting(k, c)
        /\ published'[k][c] = published[k][c]
    BY <1>3 DEF Sent, Waiting
  <2>2. Sending(k, c)' \subseteq Sending(k, c)
    BY <1>7 DEF Sending, InHand
  <2>3. Queued(k, c)' \subseteq Queued(k, c) \cup Carried(k, c)
    <3> SUFFICES ASSUME NEW n \in Nat, NEW o \in Objects, ~Finished(<<o, k>>)',
                        NEW i \in 1..Len(line'[<<o, k>>].queue), line'[<<o, k>>].queue[i] = <<c, n>>
                 PROVE  n \in Queued(k, c) \/ n \in Carried(k, c)
      BY DEF Queued
    <3>1. ~Finished(<<o, k>>)
      BY <1>8
    <3>2. CASE o = t /\ k = l
      <4>1. i \in 1..(len + 1) /\ longer[i] = <<c, n>>
        BY <1>4, <1>6, <3>2
      <4>2. CASE i = len + 1
        <5>1. m = <<c, n>>
          BY <1>6, <4>1, <4>2
        <5> QED BY <1>1, <3>2, <5>1 DEF Carried, m
      <4>3. CASE i # len + 1
        <5>1. i \in 1..len /\ s[i] = <<c, n>>
          BY <1>6, <4>1, <4>3
        <5> QED BY <1>1, <3>1, <3>2, <5>1 DEF Queued, s, len
      <4> QED BY <4>2, <4>3
    <3>3. CASE ~(o = t /\ k = l)
      <4>1. line'[<<o, k>>] = line[<<o, k>>]
        BY <1>4, <3>3
      <4> QED BY <3>1, <4>1 DEF Queued
    <3> QED BY <3>2, <3>3
  <2>4. CASE k = l
    <3>1. Carried(k, c)' = {}
      BY <1>3, <2>4 DEF Carried
    <3>2. Stations(Sent(k, c), Sending(k, c), Queued(k, c), Carried(k, c), Waiting(k, c), published[k][c])
      BY DEF OrderInv, InLine
    <3>3. Stations(Sent(k, c), Sending(k, c)', Queued(k, c)', Carried(k, c)', Waiting(k, c), published[k][c])
      BY <2>2, <2>3, <3>1, <3>2 DEF Stations, Before, NotAfter
    <3> QED BY <2>1, <3>3 DEF InLine
  <2>5. CASE k # l
    <3>1. Carried(k, c)' = Carried(k, c)
      BY <1>3, <2>5 DEF Carried
    <3>2. Queued(k, c)' \subseteq Queued(k, c)
      <4>1. \A o \in Objects : line'[<<o, k>>] = line[<<o, k>>]
        BY <1>4, <2>5
      <4> QED BY <4>1 DEF Queued, Finished
    <3>3. Stations(Sent(k, c), Sending(k, c), Queued(k, c), Carried(k, c), Waiting(k, c), published[k][c])
      BY DEF OrderInv, InLine
    <3>4. Stations(Sent(k, c), Sending(k, c)', Queued(k, c)', Carried(k, c), Waiting(k, c), published[k][c])
      BY <2>2, <3>2, <3>3 DEF Stations, Before, NotAfter
    <3> QED BY <2>1, <3>1, <3>4 DEF InLine
  <2> QED BY <2>4, <2>5
<1> QED BY <1>10, <1>11, <1>12, <1>13 DEF OrderInv

LEMMA OrderTake ==
    ASSUME TypeInv, Inv, OrderInv, NEW p \in Objects, NEW l \in Lanes, Take(<<p, l>>)
    PROVE  OrderInv'
<1> DEFINE s == line[<<p, l>>].queue
           rest == Tail(s)
           m == s[1]
           name == object[p].name
<1>1. /\ s \in Seq(Message) /\ s # <<>> /\ line[<<p, l>>].pc = "waiting"
    BY DEF Take, TypeInv, WorkTypes, LineRecord
<1>2. ~Finished(<<p, l>>)
    BY <1>1 DEF Finished
<1>3. Ascending(s) /\ \A i \in 1..Len(s) : s[i][1] = name
    BY <1>2 DEF OrderInv, QueuesAscend, Addressed, AddressedTo
<1>4. /\ Ascending(rest) /\ Head(s) = m
      /\ \A i \in 1..Len(rest) : /\ i + 1 \in 1..Len(s) /\ rest[i] = s[i + 1]
                                 /\ rest[i][1] = m[1] => m[2] < rest[i][2]
    BY <1>1, <1>3, AscendingChanges
<1>5. m \in Message /\ 1 \in 1..Len(s) /\ m[1] = name
    BY <1>1, <1>3, HeadTailProperties, EmptySeq, LenProperties
<1>6. /\ UNCHANGED <<object, outbound, dispatcher, published, attempts>>
      /\ \A x \in Objects \X Lanes : x # <<p, l>> => line'[x] = line[x]
      /\ line'[<<p, l>>].queue = rest /\ InHand(line'[<<p, l>>])
      /\ line'[<<p, l>>].msg = m /\ Tries(line'[<<p, l>>]) \in Nat
  <2>1. /\ UNCHANGED <<object, outbound, dispatcher, published, attempts>>
        /\ line' = [line EXCEPT ![<<p, l>>] =
                      [line[<<p, l>>] EXCEPT !.pc = "sending", !.msg = Head(s), !.queue = rest]]
    BY DEF Take, busVars, TypeInv, WorkTypes
  <2>2. line \in [Objects \X Lanes -> LineRecord]
    BY DEF TypeInv, WorkTypes
  <2>3. line'[<<p, l>>] = [line[<<p, l>>] EXCEPT !.pc = "sending", !.msg = Head(s), !.queue = rest]
    BY <2>1, <2>2
  <2>4. \A x \in Objects \X Lanes : x # <<p, l>> => line'[x] = line[x]
    BY <2>1, <2>2
  <2>5. line[<<p, l>>] \in LineRecord
    BY <2>2
  <2> HIDE DEF s, rest, m
  <2>6. /\ line'[<<p, l>>].queue = rest /\ line'[<<p, l>>].pc = "sending"
        /\ line'[<<p, l>>].msg = m /\ line'[<<p, l>>].attempt \in 0..maxRetries
    BY <1>4, <2>3, <2>5 DEF LineRecord
  <2> QED BY <2>1, <2>4, <2>6, Sizes DEF InHand, Tries
<1>7. m = <<name, m[2]>> /\ m[2] \in Nat /\ name \in Channels
    BY <1>5, MessageParts
<1>8. m[2] \in Queued(l, name)
    BY <1>2, <1>5, <1>7 DEF Queued
<1> HIDE DEF s, rest, m, name
<1>9. \A x \in Objects \X Lanes : Finished(x)' <=> Finished(x)
  <2>1. ~Finished(<<p, l>>)'
    BY <1>6 DEF Finished, InHand
  <2>2. \A x \in Objects \X Lanes : x # <<p, l>> => (Finished(x)' <=> Finished(x))
    BY <1>6 DEF Finished
  <2> QED BY <1>2, <2>1, <2>2
<1>10. InOrder'
    BY <1>6 DEF OrderInv, InOrder
<1>14. Counted'
  <2>1. ASSUME NEW o \in Objects, NEW k \in Lanes, InHand(line'[<<o, k>>])
        PROVE  Older(attempts[k][line'[<<o, k>>].msg[1]], Tries(line'[<<o, k>>]),
                     line'[<<o, k>>].msg)
    <3>1. CASE o = p /\ k = l
      <4>1. \A i \in 1..Len(attempts[l][name]) : attempts[l][name][i] < m[2]
        <5> SUFFICES ASSUME NEW i \in 1..Len(attempts[l][name])
                     PROVE  attempts[l][name][i] < m[2]
          OBVIOUS
        <5>1. attempts[l][name] \in Seq(Nat \ {0})
          BY <1>7 DEF TypeInv, WorkTypes
        <5>2. attempts[l][name][i] \in Nat
          BY <5>1, ElementOfSeq
        <5>3. attempts[l][name][i] \in Sent(l, name)
          BY <5>2 DEF Sent
        <5> QED BY <1>7, <1>8, <5>3 DEF OrderInv, InLine, Stations, Before
      <4>2. line'[<<o, k>>].msg = m /\ m[1] = name
        BY <1>5, <1>6, <3>1
      <4> QED BY <3>1, <4>1, <4>2 DEF Older
    <3>2. CASE ~(o = p /\ k = l)
      <4>1. line'[<<o, k>>] = line[<<o, k>>]
        BY <1>6, <3>2
      <4> QED BY <2>1, <4>1 DEF OrderInv, Counted
    <3> QED BY <3>1, <3>2
  <2> QED BY <1>6, <2>1 DEF Counted
<1>11. Addressed'
  <2>1. ASSUME NEW o \in Objects, NEW k \in Lanes, ~Finished(<<o, k>>)'
        PROVE  AddressedTo(line'[<<o, k>>], object[o].name)
    <3>1. ~Finished(<<o, k>>)
      BY <1>9, <2>1
    <3>2. CASE o = p /\ k = l
      <4>1. \A i \in 1..Len(rest) : rest[i][1] = object[o].name
        BY <1>3, <1>4, <3>2 DEF name
      <4>2. m[1] = object[o].name
        BY <1>5, <3>2 DEF name
      <4>3. line'[<<o, k>>].queue = rest /\ line'[<<o, k>>].msg = m
        BY <1>6, <3>2
      <4> QED BY <4>1, <4>2, <4>3 DEF AddressedTo
    <3>3. CASE ~(o = p /\ k = l)
      <4>1. line'[<<o, k>>] = line[<<o, k>>]
        BY <1>6, <3>3
      <4> QED BY <3>1, <4>1 DEF OrderInv, Addressed
    <3> QED BY <3>2, <3>3
  <2> QED BY <1>6, <2>1 DEF OrderInv, Addressed
<1>12. QueuesAscend'
  <2>1. ASSUME NEW o \in Objects, NEW k \in Lanes, ~Finished(<<o, k>>)'
        PROVE  Ascending(line'[<<o, k>>].queue)
    <3>1. ~Finished(<<o, k>>)
      BY <1>9, <2>1
    <3>2. CASE o = p /\ k = l
      BY <1>4, <1>6, <3>2
    <3>3. CASE ~(o = p /\ k = l)
      <4>1. line'[<<o, k>>] = line[<<o, k>>]
        BY <1>6, <3>3
      <4> QED BY <3>1, <4>1 DEF OrderInv, QueuesAscend
    <3> QED BY <3>2, <3>3
  <2> QED BY <1>6, <2>1 DEF OrderInv, QueuesAscend
<1>13. ASSUME NEW k \in Lanes, NEW c \in Channels PROVE InLine(k, c)'
  <2>1. /\ Sent(k, c)' = Sent(k, c) /\ Waiting(k, c)' = Waiting(k, c)
        /\ Carried(k, c)' = Carried(k, c) /\ published'[k][c] = published[k][c]
    BY <1>6 DEF Sent, Waiting, Carried
  <2>2. Stations(Sent(k, c), Sending(k, c), Queued(k, c), Carried(k, c), Waiting(k, c), published[k][c])
    BY DEF OrderInv, InLine
  <2>3. Queued(k, c)' \subseteq Queued(k, c)
    <3> SUFFICES ASSUME NEW n \in Nat, NEW o \in Objects, ~Finished(<<o, k>>)',
                        NEW i \in 1..Len(line'[<<o, k>>].queue), line'[<<o, k>>].queue[i] = <<c, n>>
                 PROVE  n \in Queued(k, c)
      BY DEF Queued
    <3>1. ~Finished(<<o, k>>)
      BY <1>9
    <3>2. CASE o = p /\ k = l
      <4>1. i \in 1..Len(rest) /\ rest[i] = <<c, n>>
        BY <1>6, <3>2
      <4>2. i + 1 \in 1..Len(s) /\ s[i + 1] = <<c, n>>
        BY <1>4, <4>1
      <4> QED BY <3>1, <3>2, <4>2 DEF Queued, s
    <3>3. CASE ~(o = p /\ k = l)
      <4>1. line'[<<o, k>>] = line[<<o, k>>]
        BY <1>6, <3>3
      <4> QED BY <3>1, <4>1 DEF Queued
    <3> QED BY <3>2, <3>3
  <2>4. CASE k = l /\ c = name
    <3>1. Sending(k, c)' \subseteq Sending(k, c) \cup {m[2]}
      <4> SUFFICES ASSUME NEW n \in Nat, NEW o \in Objects, InHand(line'[<<o, k>>]),
                          line'[<<o, k>>].msg = <<c, n>>
                   PROVE  n \in Sending(k, c) \/ n = m[2]
        BY DEF Sending
      <4>1. CASE o = p
        BY <1>6, <2>4, <4>1
      <4>2. CASE o # p
        BY <1>6, <4>2 DEF Sending
      <4> QED BY <4>1, <4>2
    <3>2. \A n \in Queued(k, c)' : m[2] < n
      <4> SUFFICES ASSUME NEW n \in Nat, NEW o \in Objects, ~Finished(<<o, k>>)',
                          NEW i \in 1..Len(line'[<<o, k>>].queue), line'[<<o, k>>].queue[i] = <<c, n>>
                   PROVE  m[2] < n
        BY DEF Queued
      <4>1. AddressedTo(line'[<<o, k>>], object[o].name)
        BY <1>6, <1>11 DEF Addressed
      <4>2. object[o].name = c
        BY <4>1 DEF AddressedTo
      <4>3. o = p
        BY <1>2, <1>9, <2>4, <4>2, OneLive DEF name
      <4>4. i \in 1..Len(rest) /\ rest[i] = <<c, n>> /\ rest[i][1] = m[1] /\ rest[i][2] = n
        BY <1>5, <1>6, <2>4, <4>3
      <4> QED BY <1>4, <4>4
    <3>3. m[2] \in Queued(k, c)
      BY <1>8, <2>4
    <3>5. Sent(k, c) \in SUBSET Nat /\ Queued(k, c) \in SUBSET Nat
      BY DEF Sent, Queued
    <3>4. Stations(Sent(k, c), Sending(k, c)', Queued(k, c)', Carried(k, c), Waiting(k, c), published[k][c])
      BY <2>2, <2>3, <3>1, <3>2, <3>3, <3>5 DEF Stations, Before, NotAfter
    <3> QED BY <2>1, <3>4 DEF InLine
  <2>5. CASE ~(k = l /\ c = name)
    <3>1. Sending(k, c)' \subseteq Sending(k, c)
      <4> SUFFICES ASSUME NEW n \in Nat, NEW o \in Objects, InHand(line'[<<o, k>>]),
                          line'[<<o, k>>].msg = <<c, n>>
                   PROVE  n \in Sending(k, c)
        BY DEF Sending
      <4>1. ~(o = p /\ k = l)
        <5> SUFFICES ASSUME o = p, k = l PROVE FALSE
          OBVIOUS
        <5>1. m = <<c, n>>
          BY <1>6
        <5>2. m[1] = c
          BY <5>1
        <5> QED BY <1>5, <2>5, <5>2
      <4>2. line'[<<o, k>>] = line[<<o, k>>]
        BY <1>6, <4>1
      <4> QED BY <4>2 DEF Sending
    <3>2. Stations(Sent(k, c), Sending(k, c)', Queued(k, c)', Carried(k, c), Waiting(k, c), published[k][c])
      BY <2>2, <2>3, <3>1 DEF Stations, Before, NotAfter
    <3> QED BY <2>1, <3>2 DEF InLine
  <2> QED BY <2>4, <2>5
<1> QED BY <1>10, <1>11, <1>12, <1>13, <1>14 DEF OrderInv

\* An attempt is of the message in hand, which no later one has overtaken and
\* which has not been tried too often.
LEMMA OrderAttempt ==
    ASSUME TypeInv, TypeInv', Inv, [Next]_vars, OrderInv,
           NEW p \in Objects, NEW l \in Lanes, Attempt(<<p, l>>)
    PROVE  OrderInv'
<1> DEFINE m == line[<<p, l>>].msg
           log == attempts[l][m[1]]
           len == Len(log)
           longer == Append(log, m[2])
<1>1. /\ line[<<p, l>>].pc = "sending" /\ InHand(line[<<p, l>>])
      /\ m \in Message /\ ~Finished(<<p, l>>)
    BY DEF Attempt, TypeInv, WorkTypes, GoodLine, InHand, Finished
<1>2. m = <<m[1], m[2]>> /\ m[1] \in Channels /\ m[2] \in Nat \ {0}
    BY <1>1, MessageParts
<1>3. log \in Seq(Nat \ {0})
    BY <1>2 DEF TypeInv, WorkTypes
<1>4. /\ len \in Nat /\ Len(longer) = len + 1 /\ longer[len + 1] = m[2]
      /\ \A i \in 1..len : longer[i] = log[i] /\ log[i] \in Nat
  <2>1. /\ len \in Nat /\ Len(longer) = len + 1 /\ longer[len + 1] = m[2]
        /\ \A i \in 1..len : longer[i] = log[i]
    <3> DEFINE Numbers == Nat \ {0}
    <3>1. log \in Seq(Numbers) /\ m[2] \in Numbers
      BY <1>2, <1>3
    <3> HIDE DEF Numbers, log, m
    <3> QED BY <3>1, AppendProperties, LenProperties
  <2>2. \A i \in 1..len : log[i] \in Nat \ {0}
    BY <1>3, ElementOfSeq
  <2> QED BY <2>1, <2>2
<1>5. /\ UNCHANGED <<object, outbound, dispatcher, published>>
      /\ line' = [line EXCEPT ![<<p, l>>] = [line[<<p, l>>] EXCEPT !.pc = "calling"]]
      /\ attempts' = [attempts EXCEPT ![l] = [attempts[l] EXCEPT ![m[1]] = longer]]
    BY <1>2 DEF Attempt, busVars, TypeInv, WorkTypes
<1>6. \A k \in Lanes, c \in Channels :
         attempts'[k][c] = IF k = l /\ c = m[1] THEN longer ELSE attempts[k][c]
  <2> HIDE DEF m, longer
  <2> QED BY <1>2, <1>5 DEF TypeInv, WorkTypes
<1>7. /\ line'[<<p, l>>].pc = "calling" /\ line'[<<p, l>>].queue = line[<<p, l>>].queue
      /\ line'[<<p, l>>].msg = m /\ line'[<<p, l>>].attempt = line[<<p, l>>].attempt
      /\ \A x \in Objects \X Lanes : x # <<p, l>> => line'[x] = line[x]
    BY <1>5 DEF TypeInv, WorkTypes, LineRecord
<1>8. object[p].name = m[1] /\ m[2] \in Sending(l, m[1])
    BY <1>1, <1>2 DEF OrderInv, Addressed, AddressedTo, Sending
<1>16. /\ line[<<p, l>>].attempt \in 0..maxRetries
       /\ \A i \in 1..len : i + line[<<p, l>>].attempt <= len => log[i] < m[2]
  <2>1. line[<<p, l>>].attempt \in 0..maxRetries
    BY DEF TypeInv, WorkTypes, LineRecord
  <2> QED BY <1>1, <2>1 DEF OrderInv, Counted, Older, Tries
<1> HIDE DEF m, log, len, longer
<1>10. \A n \in 1..len : log[n] \in Sent(l, m[1]) /\ log[n] <= m[2]
  <2> SUFFICES ASSUME NEW n \in 1..len PROVE log[n] \in Sent(l, m[1]) /\ log[n] <= m[2]
    OBVIOUS
  <2>1. log[n] \in Sent(l, m[1])
    BY <1>4 DEF Sent, log, len
  <2> QED BY <1>2, <1>8, <2>1 DEF OrderInv, InLine, Stations, NotAfter
<1>11. InOrder'
  <2> SUFFICES ASSUME NEW k \in Lanes, NEW c \in Channels,
                      NEW i \in 1..Len(attempts'[k][c]), NEW j \in 1..Len(attempts'[k][c])
               PROVE  /\ i < j => attempts'[k][c][i] <= attempts'[k][c][j]
                      /\ i + maxRetries < j => attempts'[k][c][i] < attempts'[k][c][j]
    BY DEF InOrder
  <2>1. CASE k = l /\ c = m[1]
    <3>1. attempts'[k][c] = longer /\ i \in 1..(len + 1) /\ j \in 1..(len + 1)
      BY <1>4, <1>6, <2>1
    <3>2. CASE j = len + 1
      <4>1. i < j => i \in 1..len /\ longer[i] = log[i]
        BY <1>4, <3>1, <3>2
      <4>2. i + maxRetries < j => i < j /\ i + line[<<p, l>>].attempt <= len
        BY <1>4, <1>16, <3>1, <3>2, Sizes
      <4> QED BY <1>4, <1>10, <1>16, <3>1, <3>2, <4>1, <4>2
    <3>3. CASE j # len + 1
      <4>1. j \in 1..len /\ longer[j] = log[j]
        BY <1>4, <3>1, <3>3
      <4>2. i < j => i \in 1..len /\ longer[i] = log[i]
        BY <1>4, <3>1, <4>1
      <4>3. \A a, b \in 1..len : /\ a < b => log[a] <= log[b]
                                 /\ a + maxRetries < b => log[a] < log[b]
        BY <1>2 DEF OrderInv, InOrder, log, len
      <4>4. i + maxRetries < j => i < j
        BY <1>4, <3>1, <4>1, Sizes
      <4> QED BY <3>1, <4>1, <4>2, <4>3, <4>4
    <3> QED BY <3>2, <3>3
  <2>2. CASE ~(k = l /\ c = m[1])
    <3>1. attempts'[k][c] = attempts[k][c]
      BY <1>6, <2>2
    <3> QED BY <3>1 DEF OrderInv, InOrder
  <2> QED BY <2>1, <2>2
<1>9. Counted'
  <2> SUFFICES ASSUME NEW o \in Objects, NEW k \in Lanes, InHand(line'[<<o, k>>])
               PROVE  Older(attempts'[k][line'[<<o, k>>].msg[1]], Tries(line'[<<o, k>>]),
                            line'[<<o, k>>].msg)
    BY DEF Counted
  <2>1. CASE o = p /\ k = l
    <3>1. /\ attempts'[k][m[1]] = longer /\ line'[<<o, k>>].msg = m
          /\ Tries(line'[<<o, k>>]) = line[<<p, l>>].attempt + 1
      BY <1>2, <1>6, <1>7, <2>1 DEF Tries
    <3>2. ASSUME NEW i \in 1..Len(longer), i + (line[<<p, l>>].attempt + 1) <= Len(longer)
          PROVE  longer[i] < m[2]
      <4>1. i \in 1..len /\ i + line[<<p, l>>].attempt <= len
        BY <1>4, <1>16, <3>2, Sizes
      <4> QED BY <1>4, <1>16, <4>1
    <3> QED BY <3>1, <3>2 DEF Older
  <2>2. CASE ~(o = p /\ k = l)
    <3>1. line'[<<o, k>>] = line[<<o, k>>] /\ ~Finished(<<o, k>>)
      BY <1>7, <2>2 DEF Finished, InHand
    <3>2. object[o].name = line[<<o, k>>].msg[1]
      BY <3>1 DEF OrderInv, Addressed, AddressedTo
    <3>3. ~(k = l /\ line[<<o, k>>].msg[1] = m[1])
      BY <1>1, <1>8, <2>2, <3>1, <3>2, OneLive
    <3>4. line[<<o, k>>].msg[1] \in Channels
      BY <3>1, MessageParts DEF TypeInv, WorkTypes, GoodLine
    <3>5. attempts'[k][line[<<o, k>>].msg[1]] = attempts[k][line[<<o, k>>].msg[1]]
      BY <1>6, <3>3, <3>4
    <3> QED BY <3>1, <3>5 DEF OrderInv, Counted
  <2> QED BY <2>1, <2>2
<1>12. \A x \in Objects \X Lanes :
         /\ line'[x].queue = line[x].queue /\ line'[x].msg = line[x].msg
         /\ InHand(line'[x]) <=> InHand(line[x])
         /\ Finished(x)' <=> Finished(x)
  <2>1. \A x \in Objects \X Lanes : x = <<p, l>> \/ line'[x] = line[x]
    BY <1>7
  <2>2. InHand(line'[<<p, l>>]) /\ ~Finished(<<p, l>>)'
    BY <1>7 DEF InHand, Finished
  <2>3. line'[<<p, l>>].msg = line[<<p, l>>].msg
    BY <1>7 DEF m
  <2> QED BY <1>1, <1>7, <2>1, <2>2, <2>3 DEF Finished
<1>13. Addressed'
    BY <1>5, <1>12 DEF OrderInv, Addressed, AddressedTo
<1>14. QueuesAscend'
    BY <1>5, <1>12 DEF OrderInv, QueuesAscend
<1>15. ASSUME NEW k \in Lanes, NEW c \in Channels PROVE InLine(k, c)'
  <2>1. /\ Waiting(k, c)' = Waiting(k, c) /\ Carried(k, c)' = Carried(k, c)
        /\ published'[k][c] = published[k][c]
    BY <1>5 DEF Waiting, Carried
  <2>2. Stations(Sent(k, c), Sending(k, c), Queued(k, c), Carried(k, c), Waiting(k, c), published[k][c])
    BY DEF OrderInv, InLine
  <2>3. Queued(k, c)' = Queued(k, c) /\ Sending(k, c)' = Sending(k, c)
    BY <1>12 DEF Queued, Sending
  <2>5. CASE k = l /\ c = m[1]
    <3>1. Sent(k, c)' \subseteq Sent(k, c) \cup {m[2]}
      <4> SUFFICES ASSUME NEW n \in Nat, NEW i \in 1..Len(attempts'[k][c]), attempts'[k][c][i] = n
                   PROVE  n \in Sent(k, c) \/ n = m[2]
        BY DEF Sent
      <4>1. i \in 1..(len + 1) /\ longer[i] = n
        BY <1>4, <1>6, <2>5
      <4>2. i = len + 1 \/ i \in 1..len
        BY <1>4, <4>1
      <4> QED BY <1>4, <1>10, <2>5, <4>1, <4>2
    <3>2. \A n \in Sending(k, c) : n = m[2]
      <4> SUFFICES ASSUME NEW n \in Nat, NEW o \in Objects, InHand(line[<<o, k>>]),
                          line[<<o, k>>].msg = <<c, n>>
                   PROVE  n = m[2]
        BY DEF Sending
      <4>1. ~Finished(<<o, k>>) /\ line[<<o, k>>].msg[1] = c
        BY DEF Finished, InHand
      <4>2. object[o].name = c
        BY <4>1 DEF OrderInv, Addressed, AddressedTo
      <4>3. o = p
        BY <1>1, <1>8, <2>5, <4>1, <4>2, OneLive
      <4>4. m = <<c, n>>
        BY <2>5, <4>3 DEF m
      <4> QED BY <4>4
    <3>3. m[2] \in Sending(k, c)
      BY <1>8, <2>5
    <3>4. Stations(Sent(k, c)', Sending(k, c), Queued(k, c), Carried(k, c), Waiting(k, c), published[k][c])
      BY <1>2, <2>2, <3>1, <3>2, <3>3 DEF Stations, Before, NotAfter
    <3> QED BY <2>1, <2>3, <3>4 DEF InLine
  <2>6. CASE ~(k = l /\ c = m[1])
    <3>1. Sent(k, c)' = Sent(k, c)
      BY <1>6, <2>6 DEF Sent
    <3> QED BY <2>1, <2>2, <2>3, <3>1 DEF InLine
  <2> QED BY <2>5, <2>6
<1> QED BY <1>9, <1>11, <1>13, <1>14, <1>15 DEF OrderInv

LEMMA OrderStep ==
    TypeInv /\ TypeInv' /\ Inv /\ OrderInv /\ [Next]_vars => OrderInv'
<1> SUFFICES ASSUME TypeInv, TypeInv', Inv, OrderInv, [Next]_vars PROVE OrderInv'
    OBVIOUS
<1>1. \A x \in Objects \X Lanes : line'[x] = line[x] => Tame(x)
    BY DEF Tame, Finished, InHand
<1>2. ASSUME UNCHANGED <<attempts, published>>, UNCHANGED line \/ \A x \in Objects \X Lanes : Tame(x),
             UNCHANGED dispatcher \/ \A l \in Lanes : TameDispatcher(l),
             UNCHANGED outbound \/ \A l \in Lanes : outbound'[l] = <<>>
      PROVE  OrderInv'
  <2>1. \A x \in Objects \X Lanes : Tame(x)
    BY <1>1, <1>2
  <2>2. \A l \in Lanes : TameDispatcher(l) /\ outbound'[l] \in {outbound[l], <<>>}
    BY <1>2 DEF TameDispatcher
  <2> QED BY <1>2, <2>1, <2>2, OrderFrame
<1>3. CASE UNCHANGED vars
    BY <1>2, <1>3 DEF vars
<1>4. ASSUME NEW l \in Lanes, LookUp(l) PROVE OrderInv'
  <2> DEFINE c == dispatcher[l].msg[1]
  <2>1. UNCHANGED <<attempts, published, line, outbound>>
    BY <1>4 DEF LookUp, busVars, workVars
  <2>2. dispatcher[l].pc = "lookup" /\ c \in Channels
    BY <1>4, MessageParts DEF LookUp, At, TypeInv, FlowTypes, GoodDispatcher
  <2>3. \A k \in Lanes : k # l => dispatcher'[k] = dispatcher[k]
    BY <1>4 DEF LookUp, TypeInv, FlowTypes
  <2>4. TameDispatcher(l)
    <3>1. CASE channels[c] = None \/ workers[c] = None
      BY <1>4, <3>1 DEF LookUp, TameDispatcher, Subscribing, TypeInv, FlowTypes
    <3>2. CASE ~(channels[c] = None \/ workers[c] = None)
      <4>1. dispatcher'[l].msg = dispatcher[l].msg /\ dispatcher'[l].target = workers[c]
        BY <1>4, <3>2 DEF LookUp, TypeInv, FlowTypes, DispatcherRecord
      <4>2. workers[c] = channels[c] /\ object[channels[c]].name = c
        BY <2>2, <3>2 DEF Inv, Registered
      <4>3. object[channels[c]].status # "unused"
        BY <2>2, <3>2 DEF TypeInv, ReloadTypes
      <4> QED BY <2>2, <4>1, <4>2, <4>3 DEF TameDispatcher
    <3> QED BY <3>1, <3>2
  <2> QED BY <1>2, <2>1, <2>3, <2>4 DEF TameDispatcher
<1>5. ASSUME NEW l \in Lanes, SendOnClosed(l) \/ StopDispatching(l) PROVE OrderInv'
  <2>1. UNCHANGED <<attempts, published, line, outbound>>
    BY <1>5 DEF SendOnClosed, StopDispatching, busVars, workVars
  <2>2. \A k \in Lanes : TameDispatcher(k)
    BY <1>5 DEF SendOnClosed, StopDispatching, TameDispatcher, Gone, Subscribing, TypeInv, FlowTypes
  <2> QED BY <1>2, <2>1, <2>2
<1>6. ASSUME NEW p \in Objects, NEW l \in Lanes,
             Exit(<<p, l>>) \/ Abandon(<<p, l>>) \/ Conclude(<<p, l>>) \/ Retry(<<p, l>>)
      PROVE  OrderInv'
  <2>1. UNCHANGED <<attempts, published, outbound, dispatcher>>
    BY <1>6 DEF Exit, Abandon, Conclude, Retry, busVars
  <2>2. line \in [Objects \X Lanes -> LineRecord]
    BY DEF TypeInv, WorkTypes
  <2>3. \A x \in Objects \X Lanes : x # <<p, l>> => line'[x] = line[x]
    BY <1>6, <2>2 DEF Exit, Abandon, Conclude, Retry
  <2>4. Tame(<<p, l>>)
    <3>1. CASE Exit(<<p, l>>)
      BY <2>2, <3>1 DEF Exit, Tame, Finished, LineRecord
    <3>2. CASE Retry(<<p, l>>)
      <4>1. /\ line[<<p, l>>].pc = "calling" /\ line[<<p, l>>] \in LineRecord
            /\ line'[<<p, l>>] = [line[<<p, l>>] EXCEPT !.pc = "sending", !.attempt = @ + 1]
        BY <2>2, <3>2 DEF Retry
      <4>2. /\ line'[<<p, l>>].queue = line[<<p, l>>].queue
            /\ line'[<<p, l>>].msg = line[<<p, l>>].msg
            /\ line'[<<p, l>>].pc = "sending"
            /\ line'[<<p, l>>].attempt = line[<<p, l>>].attempt + 1
        BY <4>1 DEF LineRecord
      <4> QED BY <4>1, <4>2 DEF Tame, Finished, InHand, Tries
    <3>3. CASE Abandon(<<p, l>>) \/ Conclude(<<p, l>>)
      <4>1. /\ line[<<p, l>>].pc \in {"sending", "calling"} /\ line[<<p, l>>] \in LineRecord
            /\ line'[<<p, l>>] = Idle(<<p, l>>)
        BY <2>2, <3>3 DEF Abandon, Conclude
      <4>2. line'[<<p, l>>].queue = line[<<p, l>>].queue /\ line'[<<p, l>>].pc = "waiting"
        BY <4>1 DEF Idle, LineRecord
      <4> QED BY <4>1, <4>2 DEF Tame, Finished, InHand
    <3> QED BY <1>6, <3>1, <3>2, <3>3
  <2> QED BY <1>1, <1>2, <2>1, <2>3, <2>4
<1>7. ASSUME NEW config \in Configs, BeginReload(config) PROVE OrderInv'
    BY <1>2, <1>7 DEF BeginReload, busVars, workVars
<1>8. CASE StopChannel \/ WaitLine \/ EndReload \/ Cancel \/ BeginStopAll \/ WaitAllLines
    BY <1>2, <1>8 DEF StopChannel, WaitLine, EndReload, Cancel, BeginStopAll, WaitAllLines,
                      busVars, workVars
<1>9. CASE CloseBus
    BY <1>2, <1>9 DEF CloseBus, workVars
<1>10. CASE CloseLine \/ CloseAllLines
  <2>1. UNCHANGED <<attempts, published, outbound, dispatcher>>
    BY <1>10 DEF CloseLine, CloseAllLines, busVars
  <2>2. \A x \in Objects \X Lanes : /\ line'[x].pc = line[x].pc /\ line'[x].queue = line[x].queue
                                    /\ line'[x].msg = line[x].msg
                                    /\ line'[x].attempt = line[x].attempt
    <3>1. \A x \in Objects \X Lanes : line'[x] \in {line[x], [line[x] EXCEPT !.open = FALSE]}
      BY <1>10 DEF CloseLine, CloseAllLines, TypeInv, WorkTypes
    <3>2. \A x \in Objects \X Lanes : line[x] \in LineRecord
      BY DEF TypeInv, WorkTypes
    <3> QED BY <3>1, <3>2 DEF LineRecord
  <2>3. \A x \in Objects \X Lanes : Tame(x)
    BY <2>2 DEF Tame, Finished, InHand, Tries
  <2> QED BY <1>2, <2>1, <2>3
<1>11. CASE AddChannel
  <2>1. UNCHANGED <<attempts, published, outbound, dispatcher>>
    BY <1>11 DEF AddChannel, busVars
  <2>2. NewLine.queue = <<>> /\ NewLine.pc = "waiting"
    BY DEF NewLine, NoLine
  <2>3. \A x \in Objects \X Lanes : line'[x] \in {line[x], NewLine}
    BY <1>11 DEF AddChannel
  <2>4. \A x \in Objects \X Lanes : line'[x] = NewLine => Tame(x)
    BY <2>2 DEF Tame, InHand
  <2> QED BY <1>1, <1>2, <2>1, <2>3, <2>4
<1>12. CASE Step
  <2>1. ASSUME NEW l \in Lanes, NEW c \in Channels, Publish(l, c) PROVE OrderInv'
    BY <2>1, OrderPublish
  <2>2. ASSUME NEW l \in Lanes, Dispatch(l) PROVE OrderInv'
    BY <2>2, <1>4, <1>5, OrderSubscribe, OrderEnqueue DEF Dispatch
  <2>3. ASSUME NEW x \in Objects \X Lanes, Work(x) \/ Return(x) PROVE OrderInv'
    <3>1. PICK p \in Objects, l \in Lanes : x = <<p, l>>
      OBVIOUS
    <3> QED BY <2>3, <3>1, <1>6, OrderTake, OrderAttempt DEF Work, Return
  <2> QED BY <1>12, <2>1, <2>2, <2>3, <1>7, <1>8, <1>9, <1>10, <1>11 DEF Step, ReloadStep, StopStep
<1> QED BY <1>3, <1>12 DEF Next, Crashed

\* Whatever is replaced, given up, tried again, dropped or closed on the way, a
\* channel attempts its messages in the order in which they were published, none
\* again after a later one and none more than maxRetries + 1 times: the stations a
\* message passes hold ever greater numbers the further back they are, and the
\* attempts of the message in hand are the last of its channel.
THEOREM SentInOrder == Spec => []InOrder
<1>1. Init => OrderInv
    BY OrderInit
<1>2. OrderInv => InOrder
    BY DEF OrderInv
<1>3. TypeInv /\ Inv /\ TypeInv' /\ OrderInv /\ [Next]_vars => OrderInv'
    BY OrderStep
<1> QED BY <1>1, <1>2, <1>3, Invariant, PTL DEF Spec
=============================================================================
