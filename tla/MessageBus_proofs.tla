------------------------- MODULE MessageBus_proofs -------------------------
(***************************************************************************)
(* That the bus keeps the order of each publisher, accounts for what it    *)
(* accepted, and strands at most one message per publisher when it closes: *)
(* for any lanes, capacities, publishers, consumers and calls of Close.    *)
(***************************************************************************)
EXTENDS MessageBus, SequenceTheorems, TLAPS

\* A publisher in its select has a publication in its hands.
TypeInv ==
    /\ TypeOK
    /\ \A p \in Publishers : publisher[p] = "select" => count[p] >= 1

-----------------------------------------------------------------------------
\* Sequences, as the steps of the bus change them.
LEMMA Appended ==
    ASSUME NEW S, NEW s \in Seq(S), NEW e \in S
    PROVE  /\ Append(s, e) \in Seq(S) /\ Len(Append(s, e)) = Len(s) + 1
           /\ \A i \in 1..Len(s) : Append(s, e)[i] = s[i]
           /\ Append(s, e)[Len(s) + 1] = e
BY AppendProperties

LEMMA Tailed ==
    ASSUME NEW S, NEW s \in Seq(S), s # <<>>
    PROVE  /\ Len(s) \in Nat \ {0} /\ Head(s) = s[1] /\ s[1] \in S
           /\ Tail(s) \in Seq(S) /\ Len(Tail(s)) = Len(s) - 1
           /\ \A i \in 1..(Len(s) - 1) : Tail(s)[i] = s[i + 1]
BY HeadTailProperties, EmptySeq, LenProperties

LEMMA AppendedSet ==
    ASSUME NEW S, NEW s \in Seq(S), NEW e \in S
    PROVE  ToSet(Append(s, e)) = ToSet(s) \cup {e}
<1>1. Len(s) \in Nat /\ DOMAIN s = 1..Len(s) /\ DOMAIN Append(s, e) = 1..(Len(s) + 1)
    BY Appended, LenProperties
<1>2. \A i \in 1..(Len(s) + 1) : Append(s, e)[i] = IF i = Len(s) + 1 THEN e ELSE s[i]
    BY <1>1, Appended
<1>3. 1..(Len(s) + 1) = 1..Len(s) \cup {Len(s) + 1}
    BY <1>1
<1> QED BY <1>1, <1>2, <1>3 DEF ToSet

LEMMA TailedSet ==
    ASSUME NEW S, NEW s \in Seq(S), s # <<>>
    PROVE  ToSet(s) = ToSet(Tail(s)) \cup {Head(s)}
<1>1. /\ Len(s) \in Nat \ {0} /\ DOMAIN s = 1..Len(s) /\ DOMAIN Tail(s) = 1..(Len(s) - 1)
      /\ Head(s) = s[1] /\ \A i \in 1..(Len(s) - 1) : Tail(s)[i] = s[i + 1]
    BY Tailed, LenProperties
<1>2. ASSUME NEW i \in 1..Len(s) PROVE s[i] \in ToSet(Tail(s)) \cup {Head(s)}
  <2>1. CASE i = 1
    BY <1>1, <2>1
  <2>2. CASE i # 1
    <3>1. i - 1 \in 1..(Len(s) - 1) /\ s[i] = Tail(s)[i - 1]
      BY <1>1, <2>2
    <3> QED BY <1>1, <3>1 DEF ToSet
  <2> QED BY <2>1, <2>2
<1>3. ASSUME NEW i \in 1..(Len(s) - 1) PROVE Tail(s)[i] \in ToSet(s)
    BY <1>1 DEF ToSet
<1>4. Head(s) \in ToSet(s)
    BY <1>1 DEF ToSet
<1> QED BY <1>1, <1>2, <1>3, <1>4 DEF ToSet

\* One after the other, the messages of a publisher have growing numbers.
Ordered(s) == \A i, j \in 1..Len(s) : i < j /\ s[i][1] = s[j][1] => s[i][2] < s[j][2]

LEMMA AppendOrdered ==
    ASSUME NEW S, NEW s \in Seq(S), NEW e \in S, Ordered(s),
           \A m \in ToSet(s) : m[1] = e[1] => m[2] < e[2]
    PROVE  Ordered(Append(s, e))
<1> DEFINE n == Len(s)
           t == Append(s, e)
<1>1. n \in Nat /\ Len(t) = n + 1 /\ t[n + 1] = e /\ \A i \in 1..n : t[i] = s[i]
    BY Appended, LenProperties
<1>2. \A i \in 1..n : s[i] \in ToSet(s)
    BY LenProperties DEF ToSet
<1> HIDE DEF t
<1> SUFFICES ASSUME NEW i \in 1..Len(t), NEW j \in 1..Len(t), i < j, t[i][1] = t[j][1]
             PROVE  t[i][2] < t[j][2]
    BY DEF Ordered, t
<1>3. i \in 1..n
    BY <1>1
<1>4. CASE j = n + 1
    BY <1>1, <1>2, <1>3, <1>4
<1>5. CASE j \in 1..n
    BY <1>1, <1>3, <1>5 DEF Ordered
<1> QED BY <1>1, <1>4, <1>5

LEMMA AppendJoined ==
    ASSUME NEW S, NEW r \in Seq(S), NEW b \in Seq(S), NEW e \in S
    PROVE  r \o Append(b, e) = Append(r \o b, e)
<1>1. <<e>> \in Seq(S) /\ r \o b \in Seq(S)
    BY ConcatProperties
<1>2. Append(b, e) = b \o <<e>> /\ Append(r \o b, e) = (r \o b) \o <<e>>
    BY <1>1, AppendIsConcat
<1> QED BY <1>1, <1>2, ConcatAssociative

\* What a consumer takes goes from the head of the buffer to the end of what
\* was received: the lane as a whole stays as it is.
LEMMA MovedIsSame ==
    ASSUME NEW S, NEW r \in Seq(S), NEW b \in Seq(S), b # <<>>
    PROVE  Append(r, Head(b)) \o Tail(b) = r \o b
<1>1. Head(b) \in S /\ Tail(b) \in Seq(S) /\ <<Head(b)>> \in Seq(S)
    BY Tailed
<1>2. Append(r, Head(b)) = r \o <<Head(b)>>
    BY <1>1, AppendIsConcat
<1>3. <<Head(b)>> \o Tail(b) = b
  <2> DEFINE t == <<Head(b)>> \o Tail(b)
  <2>1. t \in Seq(S) /\ Len(t) = Len(b) /\ Len(b) \in Nat \ {0}
    BY <1>1, Tailed, ConcatProperties
  <2>2. ASSUME NEW i \in 1..Len(t) PROVE t[i] = b[i]
    <3>1. t[i] = IF i <= 1 THEN <<Head(b)>>[i] ELSE Tail(b)[i - 1]
      BY <1>1, <2>1, Tailed, ConcatProperties
    <3>2. CASE i = 1
      BY <3>1, <3>2, Tailed
    <3>3. CASE i # 1
      <4>1. i - 1 \in 1..(Len(b) - 1)
        BY <2>1, <3>3
      <4> HIDE DEF t
      <4> QED BY <2>1, <3>1, <3>3, <4>1, Tailed
    <3> QED BY <3>2, <3>3
  <2> HIDE DEF t
  <2>3. t = b
    BY <2>1, <2>2, SeqEqual
  <2> QED BY <2>3 DEF t
<1> QED BY <1>1, <1>2, <1>3, ConcatAssociative

\* Close throws the head of the buffer away: the rest stays in order, and the
\* head is not in it a second time.
LEMMA DropOrdered ==
    ASSUME NEW S, NEW r \in Seq(S), NEW b \in Seq(S), b # <<>>, Ordered(r \o b),
           \A m \in S : m[2] \in Nat
    PROVE  Ordered(r \o Tail(b)) /\ Head(b) \notin ToSet(r) \cup ToSet(Tail(b))
<1> DEFINE n == Len(r)
           s == r \o b
           t == r \o Tail(b)
           Up(i) == IF i <= n THEN i ELSE i + 1
<1>1. n \in Nat /\ Len(b) \in Nat \ {0} /\ Len(s) = n + Len(b) /\ Len(t) = n + Len(b) - 1
    BY Tailed, ConcatProperties, LenProperties
<1>2. ASSUME NEW i \in 1..Len(t) PROVE Up(i) \in 1..Len(s) /\ t[i] = s[Up(i)]
  <2>1. Up(i) \in 1..Len(s)
    BY <1>1
  <2>2. CASE i <= n
    BY <1>1, <2>2, Tailed, ConcatProperties
  <2>3. CASE ~(i <= n)
    <3>1. t[i] = Tail(b)[i - n]
      BY <1>1, <2>3, Tailed, ConcatProperties
    <3>2. s[i + 1] = b[i + 1 - n]
      BY <1>1, <2>3, ConcatProperties
    <3>3. i - n \in 1..(Len(b) - 1) /\ i + 1 - n = (i - n) + 1
      BY <1>1, <2>3
    <3>4. Tail(b)[i - n] = b[(i - n) + 1]
      BY <3>3, Tailed
    <3> QED BY <2>1, <2>3, <3>1, <3>2, <3>3, <3>4
  <2> QED BY <2>1, <2>2, <2>3
<1>3. \A i, j \in 1..Len(t) : i < j => Up(i) < Up(j)
    BY <1>1
<1>4. /\ s \in Seq(S) /\ s[n + 1] = Head(b) /\ n + 1 \in 1..Len(s)
      /\ \A i \in 1..Len(t) : Up(i) # n + 1
    BY <1>1, Tailed, ConcatProperties
<1> HIDE DEF s, t, Up
<1>5. \A i \in 1..Len(s) : s[i] \in S /\ s[i][2] \in Nat
    BY <1>4, ElementOfSeq
<1>6. ASSUME NEW i \in 1..Len(s), NEW j \in 1..Len(s), s[i] = s[j] PROVE i = j
  <2>1. Ordered(s) /\ Len(s) \in Nat
    BY <1>1 DEF s
  <2>2. ~(i < j) /\ ~(j < i)
    BY <1>5, <1>6, <2>1 DEF Ordered
  <2> QED BY <2>1, <2>2
<1>7. \A i \in 1..Len(t) : t[i] # Head(b)
    BY <1>2, <1>4, <1>6
<1>8. ToSet(r) \cup ToSet(Tail(b)) \subseteq {t[i] : i \in 1..Len(t)}
  <2>1. Tail(b) \in Seq(S) /\ Len(Tail(b)) = Len(b) - 1
    BY Tailed
  <2>2. ASSUME NEW i \in 1..n PROVE r[i] = t[i] /\ i \in 1..Len(t)
    BY <1>1, <2>1, <2>2, ConcatProperties DEF t
  <2>3. ASSUME NEW i \in 1..Len(Tail(b))
        PROVE  Tail(b)[i] = t[n + i] /\ n + i \in 1..Len(t)
    BY <1>1, <2>1, <2>3, ConcatProperties DEF t
  <2>4. DOMAIN r = 1..n /\ DOMAIN Tail(b) = 1..Len(Tail(b))
    BY <2>1, LenProperties
  <2> QED BY <2>2, <2>3, <2>4 DEF ToSet
<1>9. Ordered(t)
    BY <1>2, <1>3 DEF Ordered, s
<1> QED BY <1>7, <1>8, <1>9 DEF t

-----------------------------------------------------------------------------
LEMMA StagesFact == Len(DrainOrder) \in Nat /\ DrainOrder \in Seq(Lanes)
BY MessageBusAssumption, LenProperties

LEMMA LaneFact ==
    /\ \A p \in Publishers : Lane(p) \in Lanes
    /\ \A c \in Consumers : Lane(c) \in Lanes
BY MessageBusAssumption DEF Lane

LEMMA CurrentFact ==
    ASSUME TypeInv, NEW p \in Publishers, publisher[p] = "select"
    PROVE  Current(p) \in Message
<1>1. count[p] \in 1..MaxPublished
    BY MessageBusAssumption DEF TypeInv, TypeOK
<1> QED BY <1>1 DEF Current, Message

LEMMA DrainedLane ==
    ASSUME TypeInv, NEW k \in Closers, closer[k] \in Draining
    PROVE  LaneDrained(k) \in Lanes
<1>1. closer[k] - 1 \in 1..Len(DrainOrder)
    BY StagesFact DEF Draining
<1> QED BY <1>1, StagesFact, ElementOfSeq DEF LaneDrained

LEMMA TypeStep ==
    ASSUME TypeInv, [Next]_vars
    PROVE  TypeInv'
<1> USE StagesFact DEF TypeInv, TypeOK
<1>1. ASSUME NEW p \in Publishers, Publish(p) PROVE TypeInv'
  <2>1. /\ count'[p] = count[p] + 1 /\ count'[p] \in 0..MaxPublished /\ count'[p] >= 1
        /\ count' \in [Publishers -> 0..MaxPublished]
        /\ \A q \in Publishers \ {p} : count'[q] = count[q]
    BY <1>1, MessageBusAssumption DEF Publish
  <2>2. /\ publisher' \in [Publishers -> {"idle", "select"}]
        /\ \A q \in Publishers \ {p} : publisher'[q] = publisher[q]
    BY <1>1 DEF Publish
  <2> QED BY <1>1, <2>1, <2>2 DEF Publish, history
<1>2. ASSUME NEW p \in Publishers, Enqueue(p) PROVE TypeInv'
  <2>1. Current(p) \in Message /\ Lane(p) \in Lanes
    BY <1>2, CurrentFact, LaneFact DEF Enqueue
  <2>2. /\ Append(buffer[Lane(p)], Current(p)) \in Seq(Message)
        /\ Len(Append(buffer[Lane(p)], Current(p))) = Len(buffer[Lane(p)]) + 1
    BY <2>1, Appended
  <2>3. buffer' \in [Lanes -> Seq(Message)] /\ \A l \in Lanes : Len(buffer'[l]) <= Capacity
    BY <1>2, <2>1, <2>2, LenProperties, MessageBusAssumption DEF Enqueue, HasRoom
  <2>4. /\ publisher' \in [Publishers -> {"idle", "select"}]
        /\ \A q \in Publishers : publisher'[q] = "select" => publisher[q] = "select"
    BY <1>2 DEF Enqueue
  <2> QED BY <1>2, <2>1, <2>3, <2>4 DEF Enqueue
<1>3. ASSUME NEW p \in Publishers, RefusePublish(p) \/ CancelPublish(p) PROVE TypeInv'
    BY <1>3 DEF RefusePublish, CancelPublish, history
<1>4. ASSUME NEW c \in Consumers, Consume(c) \/ StopConsuming(c) PROVE TypeInv'
    BY <1>4 DEF Consume, StopConsuming, history
<1>5. ASSUME NEW c \in Consumers, Dequeue(c) PROVE TypeInv'
  <2> DEFINE l == Lane(c)
  <2>1. l \in Lanes /\ buffer[l] # <<>>
    BY <1>5, LaneFact DEF Dequeue
  <2>2. /\ Head(buffer[l]) \in Message /\ Tail(buffer[l]) \in Seq(Message)
        /\ Len(Tail(buffer[l])) <= Capacity
    BY <2>1, Tailed, MessageBusAssumption
  <2>3. Append(received[l], Head(buffer[l])) \in Seq(Message)
    BY <2>1, <2>2, Appended
  <2>4. /\ buffer' = [buffer EXCEPT ![l] = Tail(buffer[l])]
        /\ received' = [received EXCEPT ![l] = Append(received[l], Head(buffer[l]))]
        /\ waiting' \subseteq Consumers
        /\ UNCHANGED <<closed, done, publisher, count, closer, drained, accepted>>
    BY <1>5 DEF Dequeue
  <2> HIDE DEF l
  <2> QED BY <2>1, <2>2, <2>3, <2>4
<1>6. ASSUME NEW k \in Closers, Swap(k) PROVE TypeInv'
  <2>1. closer' \in [Closers -> NotCalled..Returned]
    BY <1>6 DEF Swap, NotCalled, Swapped, Returned
  <2> QED BY <1>6, <2>1 DEF Swap, history
<1>7. ASSUME NEW k \in Closers, CloseDone(k) PROVE TypeInv'
  <2>1. closer' \in [Closers -> NotCalled..Returned]
    BY <1>7 DEF CloseDone, NotCalled, Swapped, Returned
  <2> QED BY <1>7, <2>1 DEF CloseDone, DoneAfter, history
<1>8. ASSUME NEW k \in Closers, Drain(k) PROVE TypeInv'
  <2> DEFINE l == LaneDrained(k)
  <2>1. l \in Lanes /\ buffer[l] # <<>>
    BY <1>8, DrainedLane DEF Drain
  <2>2. /\ Head(buffer[l]) \in Message /\ Tail(buffer[l]) \in Seq(Message)
        /\ Len(Tail(buffer[l])) <= Capacity
    BY <2>1, Tailed, MessageBusAssumption
  <2>3. /\ buffer' = [buffer EXCEPT ![l] = Tail(buffer[l])]
        /\ drained' = drained \cup {Head(buffer[l])}
        /\ UNCHANGED <<closed, done, publisher, count, waiting, closer, received, accepted>>
    BY <1>8 DEF Drain
  <2> HIDE DEF l
  <2> QED BY <2>1, <2>2, <2>3
<1>9. ASSUME NEW k \in Closers, NextLane(k) PROVE TypeInv'
  <2>1. closer' \in [Closers -> NotCalled..Returned]
    BY <1>9 DEF NextLane, NotCalled, Draining, Returned
  <2> QED BY <1>9, <2>1 DEF NextLane, history
<1>10. CASE UNCHANGED vars
    BY <1>10 DEF vars
<1> QED
    BY <1>1, <1>2, <1>3, <1>4, <1>5, <1>6, <1>7, <1>8, <1>9, <1>10
    DEF Next, Publishing, Receiving, Closing

LEMMA TypeAlways == Spec => []TypeInv
<1>1. ASSUME Init PROVE TypeInv
  <2>1. <<>> \in Seq(Message) /\ Len(<<>>) = 0 /\ 0 <= Capacity
    BY EmptySeq, MessageBusAssumption
  <2>2. buffer \in [Lanes -> Seq(Message)] /\ \A l \in Lanes : Len(buffer[l]) <= Capacity
    BY <1>1, <2>1 DEF Init
  <2>3. received \in [Lanes -> Seq(Message)]
    BY <1>1, <2>1 DEF Init
  <2>4. closer \in [Closers -> NotCalled..Returned]
    BY <1>1, StagesFact DEF Init, NotCalled, Returned
  <2>5. /\ publisher \in [Publishers -> {"idle", "select"}]
        /\ \A p \in Publishers : publisher[p] = "idle"
    BY <1>1 DEF Init
  <2>6. count \in [Publishers -> 0..MaxPublished]
    BY <1>1, MessageBusAssumption DEF Init
  <2>7. closed \in BOOLEAN /\ done \in BOOLEAN
    BY <1>1 DEF Init
  <2>8. waiting \subseteq Consumers /\ drained \subseteq Message /\ accepted \subseteq Message
    BY <1>1 DEF Init
  <2> QED BY <2>2, <2>3, <2>4, <2>5, <2>6, <2>7, <2>8 DEF TypeInv, TypeOK
<1>2. TypeInv /\ [Next]_vars => TypeInv'
    BY TypeStep
<1> QED BY <1>1, <1>2, PTL DEF Spec

\* Every variable keeps its type and no channel of the bus ever holds more
\* than its capacity.
THEOREM TypeCorrect == Spec => []TypeOK
<1>1. Spec => []TypeInv
    BY TypeAlways
<1>2. TypeInv => TypeOK
    BY DEF TypeInv
<1> QED BY <1>1, <1>2, PTL

-----------------------------------------------------------------------------
\* A message in a lane has a number its publisher has used; while the publisher
\* is in its select, an earlier one.
Used(m) ==
    m[2] <= count[m[1]] /\ (publisher[m[1]] = "select" => m[2] < count[m[1]])
UsedInv == \A l \in Lanes : \A m \in Held(l) : Used(m)

OrderInv == \A l \in Lanes : Ordered(InLane(l))

\* A message stands in the lane of its publisher, and not where Close has taken
\* it away; what Close took has a used number too, so it is not published again.
HomeInv == \A l \in Lanes : \A m \in Held(l) : Lane(m[1]) = l
DrainedInv == \A m \in drained : Used(m) /\ \A l \in Lanes : m \notin Held(l)
SumInv == accepted = drained \cup UNION {Held(l) : l \in Lanes}

LaneInv == UsedInv /\ OrderInv /\ HomeInv /\ DrainedInv /\ SumInv

LEMMA HeldFact ==
    ASSUME TypeInv, NEW l \in Lanes
    PROVE  /\ buffer[l] \in Seq(Message) /\ received[l] \in Seq(Message)
           /\ InLane(l) \in Seq(Message) /\ Held(l) = ToSet(InLane(l))
           /\ Held(l) \subseteq Message
<1> DEFINE r == received[l]
           b == buffer[l]
           n == Len(r)
           k == Len(b)
           s == r \o b
<1>1. r \in Seq(Message) /\ b \in Seq(Message)
    BY DEF TypeInv, TypeOK
<1> HIDE DEF r, b
<1>2. /\ n \in Nat /\ k \in Nat /\ DOMAIN r = 1..n /\ DOMAIN b = 1..k
      /\ s \in Seq(Message) /\ Len(s) = n + k /\ DOMAIN s = 1..(n + k)
      /\ \A i \in 1..(n + k) : s[i] = IF i <= n THEN r[i] ELSE b[i - n]
    BY <1>1, ConcatProperties, LenProperties
<1> HIDE DEF s, n, k
<1>3. ToSet(s) \subseteq ToSet(r) \cup ToSet(b)
  <2>1. ASSUME NEW i \in 1..(n + k) PROVE s[i] \in ToSet(r) \cup ToSet(b)
    <3>1. CASE i <= n
      BY <1>2, <3>1 DEF ToSet
    <3>2. CASE ~(i <= n)
      <4>1. i - n \in 1..k
        BY <1>2, <3>2
      <4> QED BY <1>2, <3>2, <4>1 DEF ToSet
    <3> QED BY <3>1, <3>2
  <2> QED BY <1>2, <2>1 DEF ToSet
<1>4. ToSet(r) \subseteq ToSet(s)
    BY <1>2 DEF ToSet
<1>5. ToSet(b) \subseteq ToSet(s)
  <2>1. ASSUME NEW i \in 1..k PROVE b[i] \in ToSet(s)
    <3>1. n + i \in 1..(n + k) /\ s[n + i] = b[i]
      BY <1>2
    <3> QED BY <1>2, <3>1 DEF ToSet
  <2> QED BY <1>2, <2>1 DEF ToSet
<1>6. ToSet(s) \subseteq Message
    BY <1>2, ElementOfSeq DEF ToSet
<1> QED BY <1>1, <1>2, <1>3, <1>4, <1>5, <1>6 DEF Held, InBuffer, InLane, r, b, s

\* A step that leaves lanes and accounts alone, and takes no number back.
LEMMA LanesStay ==
    ASSUME TypeInv, LaneInv, UNCHANGED <<buffer, history>>,
           \A m \in Message : Used(m) => Used(m)'
    PROVE  LaneInv'
<1>1. \A l \in Lanes : Held(l)' = Held(l) /\ InLane(l)' = InLane(l)
    BY DEF Held, InBuffer, InLane, history
<1>2. UsedInv'
    BY <1>1, HeldFact DEF LaneInv, UsedInv
<1>3. OrderInv'
    BY <1>1 DEF LaneInv, OrderInv
<1>4. HomeInv'
    BY <1>1 DEF LaneInv, HomeInv
<1>5. DrainedInv'
    BY <1>1 DEF LaneInv, DrainedInv, TypeInv, TypeOK, history
<1>6. SumInv'
    BY <1>1 DEF LaneInv, SumInv, history
<1> QED BY <1>2, <1>3, <1>4, <1>5, <1>6 DEF LaneInv

\* A message comes to the end of a lane's buffer.
LEMMA MessageComes ==
    ASSUME TypeInv, TypeInv', LaneInv,
           NEW l \in Lanes, NEW p \in Publishers, NEW e \in Message,
           l = Lane(p), e[1] = p, e[2] = count[p], publisher[p] = "select",
           buffer' = [buffer EXCEPT ![l] = Append(buffer[l], e)],
           accepted' = accepted \cup {e},
           publisher' = [publisher EXCEPT ![p] = "idle"],
           UNCHANGED <<count, received, drained>>
    PROVE  LaneInv'
<1>1. /\ buffer'[l] = Append(buffer[l], e)
      /\ \A k \in Lanes \ {l} : buffer'[k] = buffer[k]
    BY DEF TypeInv, TypeOK
<1>2. Held(l)' = Held(l) \cup {e}
    BY <1>1, HeldFact, AppendedSet DEF Held, InBuffer
<1>3. \A k \in Lanes \ {l} : Held(k)' = Held(k) /\ InLane(k)' = InLane(k)
    BY <1>1 DEF Held, InBuffer, InLane
<1>4. InLane(l)' = Append(InLane(l), e)
  <2>1. received[l] \in Seq(Message) /\ buffer[l] \in Seq(Message)
    BY HeldFact
  <2>2. received[l] \o Append(buffer[l], e) = Append(received[l] \o buffer[l], e)
  <3> DEFINE r == received[l]
             b == buffer[l]
  <3>1. r \in Seq(Message) /\ b \in Seq(Message) /\ e \in Message
    BY <2>1
  <3> HIDE DEF r, b
  <3>2. r \o Append(b, e) = Append(r \o b, e)
    BY <3>1, AppendJoined
  <3> QED BY <3>2 DEF r, b
  <2> QED BY <1>1, <2>2 DEF InLane
<1>5. publisher'[p] = "idle" /\ \A q \in Publishers \ {p} : publisher'[q] = publisher[q]
    BY DEF TypeInv, TypeOK
<1>6. UsedInv'
  <2>1. ASSUME NEW m \in Message, Used(m) PROVE Used(m)'
    BY <1>5, <2>1 DEF Used, Message
  <2>2. Used(e)'
    <3>1. count[p] \in Nat
      BY MessageBusAssumption DEF TypeInv, TypeOK
    <3> QED BY <1>5, <3>1 DEF Used
  <2>3. ASSUME NEW k \in Lanes, NEW m \in Held(k)' PROVE Used(m)'
    <3>1. m = e \/ m \in Held(k)
      BY <1>2, <1>3, <2>3
    <3>2. m \in Held(k) => m \in Message /\ Used(m)
      BY HeldFact DEF LaneInv, UsedInv
    <3> QED BY <2>1, <2>2, <3>1, <3>2
  <2> QED BY <2>3 DEF UsedInv
<1>7. OrderInv'
  <2>1. \A m \in ToSet(InLane(l)) : m[1] = e[1] => m[2] < e[2]
    BY HeldFact DEF LaneInv, UsedInv, Used
  <2>2. Ordered(Append(InLane(l), e))
    BY <2>1, HeldFact, AppendOrdered DEF LaneInv, OrderInv
  <2> QED BY <1>3, <1>4, <2>2 DEF LaneInv, OrderInv
<1>8. HomeInv'
    BY <1>2, <1>3 DEF LaneInv, HomeInv
<1>9. DrainedInv'
  <2>1. count[p] \in Nat /\ ~Used(e)
    BY MessageBusAssumption DEF TypeInv, TypeOK, Used
  <2>2. ASSUME NEW m \in drained PROVE Used(m)' /\ \A k \in Lanes : m \notin Held(k)'
    <3>1. m \in Message /\ Used(m) /\ m # e
      BY <2>1 DEF LaneInv, DrainedInv, TypeInv, TypeOK
    <3>2. Used(m)'
      BY <1>5, <3>1 DEF Used, Message
    <3> QED BY <1>2, <1>3, <3>1, <3>2 DEF LaneInv, DrainedInv
  <2> QED BY <2>2 DEF DrainedInv
<1>10. SumInv'
    BY <1>2, <1>3 DEF LaneInv, SumInv
<1> QED BY <1>6, <1>7, <1>8, <1>9, <1>10 DEF LaneInv

\* A message moves from the buffer to what was received.
LEMMA MessageMoves ==
    ASSUME TypeInv, TypeInv', LaneInv, NEW l \in Lanes, buffer[l] # <<>>,
           buffer' = [buffer EXCEPT ![l] = Tail(buffer[l])],
           received' = [received EXCEPT ![l] = Append(received[l], Head(buffer[l]))],
           UNCHANGED <<publisher, count, drained, accepted>>
    PROVE  LaneInv'
<1>1. /\ buffer'[l] = Tail(buffer[l]) /\ received'[l] = Append(received[l], Head(buffer[l]))
      /\ \A k \in Lanes \ {l} : buffer'[k] = buffer[k] /\ received'[k] = received[k]
    BY DEF TypeInv, TypeOK
<1>2. InLane(l)' = InLane(l)
    BY <1>1, HeldFact, MovedIsSame DEF InLane
<1>3. Held(l)' = Held(l)
  <2>1. /\ Head(buffer[l]) \in Message
        /\ ToSet(buffer[l]) = ToSet(Tail(buffer[l])) \cup {Head(buffer[l])}
    BY HeldFact, Tailed, TailedSet
  <2>2. ToSet(received'[l]) = ToSet(received[l]) \cup {Head(buffer[l])}
    BY <1>1, <2>1, HeldFact, AppendedSet
  <2> QED BY <1>1, <2>1, <2>2 DEF Held, InBuffer
<1>4. \A k \in Lanes : Held(k)' = Held(k) /\ InLane(k)' = InLane(k)
    BY <1>1, <1>2, <1>3 DEF Held, InBuffer, InLane
<1>5. UsedInv' /\ OrderInv'
    BY <1>4 DEF LaneInv, UsedInv, OrderInv, Used
<1>6. HomeInv' /\ DrainedInv'
    BY <1>4 DEF LaneInv, HomeInv, DrainedInv, Used
<1>7. SumInv'
    BY <1>4 DEF LaneInv, SumInv
<1> QED BY <1>5, <1>6, <1>7 DEF LaneInv

\* Close takes a message out of the buffer.
LEMMA MessageGoes ==
    ASSUME TypeInv, TypeInv', LaneInv, NEW l \in Lanes, buffer[l] # <<>>,
           buffer' = [buffer EXCEPT ![l] = Tail(buffer[l])],
           drained' = drained \cup {Head(buffer[l])},
           UNCHANGED <<publisher, count, received, accepted>>
    PROVE  LaneInv'
<1>1. /\ buffer'[l] = Tail(buffer[l])
      /\ \A k \in Lanes \ {l} : buffer'[k] = buffer[k]
    BY DEF TypeInv, TypeOK
<1>2. Held(l) = Held(l)' \cup {Head(buffer[l])}
    BY <1>1, HeldFact, TailedSet DEF Held, InBuffer
<1>3. \A k \in Lanes \ {l} : Held(k)' = Held(k) /\ InLane(k)' = InLane(k)
    BY <1>1 DEF Held, InBuffer, InLane
<1>4. UsedInv'
    BY <1>2, <1>3 DEF LaneInv, UsedInv, Used
<1>5. Ordered(InLane(l)') /\ Head(buffer[l]) \notin Held(l)'
  <2>1. \A m \in Message : m[2] \in Nat
    BY MessageBusAssumption DEF Message
  <2>2. /\ Ordered(received[l] \o Tail(buffer[l]))
        /\ Head(buffer[l]) \notin ToSet(received[l]) \cup ToSet(Tail(buffer[l]))
    BY <2>1, HeldFact, DropOrdered DEF LaneInv, OrderInv, InLane
  <2> QED BY <1>1, <2>2 DEF InLane, Held, InBuffer
<1>6. OrderInv'
    BY <1>3, <1>5 DEF LaneInv, OrderInv
<1>7. HomeInv'
    BY <1>2, <1>3 DEF LaneInv, HomeInv
<1>8. DrainedInv'
  <2>1. Used(Head(buffer[l])) /\ Lane(Head(buffer[l])[1]) = l
    BY <1>2 DEF LaneInv, UsedInv, HomeInv
  <2>2. \A k \in Lanes : Head(buffer[l]) \notin Held(k)'
    BY <1>5, <2>1, <1>7 DEF HomeInv, Lane
  <2>3. \A m \in drained : Used(m) /\ \A k \in Lanes : m \notin Held(k)'
    BY <1>2, <1>3 DEF LaneInv, DrainedInv
  <2> QED BY <2>1, <2>2, <2>3 DEF DrainedInv, Used
<1>9. SumInv'
    BY <1>2, <1>3 DEF LaneInv, SumInv
<1> QED BY <1>4, <1>6, <1>7, <1>8, <1>9 DEF LaneInv

LEMMA LaneStep ==
    ASSUME TypeInv, TypeInv', LaneInv, [Next]_vars
    PROVE  LaneInv'
<1>1. ASSUME NEW p \in Publishers, Publish(p) PROVE LaneInv'
  <2>1. /\ count[p] \in Nat /\ count' = [count EXCEPT ![p] = count[p] + 1]
        /\ publisher[p] = "idle"
        /\ \A q \in Publishers \ {p} : publisher'[q] = publisher[q]
    BY <1>1 DEF Publish, TypeInv, TypeOK
  <2>2. ASSUME NEW m \in Message, Used(m) PROVE Used(m)'
    <3>1. m[1] \in Publishers /\ m[2] \in Nat
      BY MessageBusAssumption DEF Message
    <3>2. CASE m[1] = p
      BY <2>1, <2>2, <3>1, <3>2 DEF Used, TypeInv, TypeOK
    <3>3. CASE m[1] # p
      BY <2>1, <2>2, <3>1, <3>3 DEF Used, TypeInv, TypeOK
    <3> QED BY <3>2, <3>3
  <2> QED BY <1>1, <2>2, LanesStay DEF Publish
<1>2. ASSUME NEW p \in Publishers, Enqueue(p) PROVE LaneInv'
  <2>1. Lane(p) \in Lanes /\ Current(p) \in Message
    BY <1>2, CurrentFact, LaneFact DEF Enqueue
  <2>2. Current(p)[1] = p /\ Current(p)[2] = count[p]
    BY DEF Current
  <2> QED BY <1>2, <2>1, <2>2, MessageComes DEF Enqueue
<1>3. ASSUME NEW p \in Publishers, RefusePublish(p) \/ CancelPublish(p) PROVE LaneInv'
  <2>1. ASSUME NEW m \in Message, Used(m) PROVE Used(m)'
    BY <1>3, <2>1 DEF RefusePublish, CancelPublish, Used, Message, TypeInv, TypeOK
  <2> QED BY <1>3, <2>1, LanesStay DEF RefusePublish, CancelPublish
<1>4. ASSUME NEW c \in Consumers, Consume(c) \/ StopConsuming(c) PROVE LaneInv'
    BY <1>4, LanesStay DEF Consume, StopConsuming, Used
<1>5. ASSUME NEW c \in Consumers, Dequeue(c) PROVE LaneInv'
  <2>1. Lane(c) \in Lanes /\ buffer[Lane(c)] # <<>>
    BY <1>5, LaneFact DEF Dequeue
  <2> QED BY <1>5, <2>1, MessageMoves DEF Dequeue
<1>6. ASSUME NEW k \in Closers, Swap(k) PROVE LaneInv'
    BY <1>6, LanesStay DEF Swap, Used
<1>7. ASSUME NEW k \in Closers, CloseDone(k) PROVE LaneInv'
    BY <1>7, LanesStay DEF CloseDone, Used
<1>8. ASSUME NEW k \in Closers, Drain(k) PROVE LaneInv'
  <2>1. LaneDrained(k) \in Lanes /\ buffer[LaneDrained(k)] # <<>>
    BY <1>8, DrainedLane DEF Drain
  <2> QED BY <1>8, <2>1, MessageGoes DEF Drain
<1>9. ASSUME NEW k \in Closers, NextLane(k) PROVE LaneInv'
    BY <1>9, LanesStay DEF NextLane, Used
<1>10. CASE UNCHANGED vars
    BY <1>10, LanesStay DEF vars, history, Used
<1> QED
    BY <1>1, <1>2, <1>3, <1>4, <1>5, <1>6, <1>7, <1>8, <1>9, <1>10
    DEF Next, Publishing, Receiving, Closing

LEMMA LanesAlways == Spec => []LaneInv
<1>1. ASSUME Init PROVE LaneInv
  <2>1. \A l \in Lanes : ToSet(buffer[l]) = {} /\ ToSet(received[l]) = {}
    BY <1>1 DEF Init, ToSet
  <2>2. \A l \in Lanes : Len(InLane(l)) = 0
    BY <1>1, EmptySeq, ConcatEmptySeq DEF Init, InLane
  <2>3. UsedInv
    BY <2>1 DEF UsedInv, Held, InBuffer
  <2>4. OrderInv
    BY <2>2 DEF OrderInv, Ordered
  <2>5. HomeInv /\ DrainedInv /\ SumInv
    BY <1>1, <2>1 DEF Init, HomeInv, DrainedInv, SumInv, Held, InBuffer
  <2> QED BY <2>3, <2>4, <2>5 DEF LaneInv
<1>2. TypeInv /\ TypeInv' /\ LaneInv /\ [Next]_vars => LaneInv'
    BY LaneStep
<1> QED BY <1>1, <1>2, TypeAlways, PTL DEF Spec

\* Publishers, consumers and calls of Close may interleave as they like: a lane
\* hands on the messages of a publisher in its order, none twice.
THEOREM LanesInOrder == Spec => []InOrder
<1>1. LaneInv => InOrder
    BY DEF LaneInv, OrderInv, Ordered, InOrder
<1> QED BY <1>1, LanesAlways, PTL

\* However consumers and drains interleave, what the bus accepted is in exactly
\* one place, and nothing it refused ever comes out (publish reports what the
\* select did).
THEOREM NothingIsLost == Spec => []AcceptedAccountedFor
<1>1. ASSUME TypeInv, LaneInv PROVE AcceptedAccountedFor
  <2>1. ASSUME NEW l \in Lanes, NEW i \in 1..Len(InLane(l)), NEW j \in 1..Len(InLane(l)),
               InLane(l)[i] = InLane(l)[j]
        PROVE  i = j
    <3>1. InLane(l) \in Seq(Message)
      BY <1>1, HeldFact
    <3>2. InLane(l)[i][2] \in Nat
      BY <3>1, ElementOfSeq, MessageBusAssumption DEF Message
    <3>3. Len(InLane(l)) \in Nat
      BY <3>1, LenProperties
    <3> QED BY <1>1, <2>1, <3>2, <3>3 DEF LaneInv, OrderInv, Ordered
  <2>2. \A l \in Lanes : drained \cap Held(l) = {}
    BY <1>1 DEF LaneInv, DrainedInv
  <2>3. \A l \in Lanes : \A k \in Lanes \ {l} : Held(k) \cap Held(l) = {}
    BY <1>1 DEF LaneInv, HomeInv
  <2>4. \A l \in Lanes : OnlyOnce(l)
    BY <2>1, <2>2, <2>3 DEF OnlyOnce
  <2> QED BY <1>1, <2>4 DEF AcceptedAccountedFor, LaneInv, SumInv
<1> QED BY <1>1, LanesAlways, TypeAlways, PTL

-----------------------------------------------------------------------------
\* What a lane holds once Close has found it empty: a message of each publisher
\* at most, and none of a publisher that could add one.
Clean(l) ==
    /\ closed
    /\ \A i \in 1..Len(buffer[l]) :
         /\ publisher[buffer[l][i][1]] = "idle"
         /\ \A j \in 1..Len(buffer[l]) : buffer[l][i][1] = buffer[l][j][1] => i = j

Working(k) == closer[k] \notin {NotCalled, Returned}
CloseInv ==
    /\ \A k \in Closers : closer[k] # NotCalled => closed
    /\ \A k \in Closers : Working(k) =>
         \A i \in 1..Len(DrainOrder) : i + 1 < closer[k] => Clean(DrainOrder[i])
    /\ closed => (\E k \in Closers : Working(k)) \/ \A l \in Lanes : Clean(l)

LEMMA TailClean ==
    ASSUME TypeInv, NEW l \in Lanes, Clean(l), closed' = closed, publisher' = publisher,
           NEW m \in Lanes, buffer[m] # <<>>,
           buffer' = [buffer EXCEPT ![m] = Tail(buffer[m])]
    PROVE  Clean(l)'
<1>1. CASE l # m
  <2>1. buffer'[l] = buffer[l]
    BY <1>1 DEF TypeInv, TypeOK
  <2> QED BY <2>1 DEF Clean
<1>2. CASE l = m
  <2> DEFINE b == buffer[l]
  <2>1. /\ buffer'[l] = Tail(b) /\ Len(b) \in Nat \ {0} /\ Len(Tail(b)) = Len(b) - 1
        /\ \A i \in 1..(Len(b) - 1) : Tail(b)[i] = b[i + 1]
    BY <1>2, Tailed DEF TypeInv, TypeOK
  <2>2. \A i \in 1..(Len(b) - 1) : i + 1 \in 1..Len(b)
    BY <2>1
  <2>3. /\ closed
        /\ \A i \in 1..Len(b) : publisher[b[i][1]] = "idle"
        /\ \A i, j \in 1..Len(b) : b[i][1] = b[j][1] => i = j
    BY DEF Clean
  <2>4. /\ \A i \in 1..(Len(b) - 1) : publisher[Tail(b)[i][1]] = "idle"
        /\ \A i, j \in 1..(Len(b) - 1) : Tail(b)[i][1] = Tail(b)[j][1] => i = j
    <3>1. ASSUME NEW i \in 1..(Len(b) - 1), NEW j \in 1..(Len(b) - 1),
                 Tail(b)[i][1] = Tail(b)[j][1]
          PROVE  i = j
      <4>1. i + 1 = j + 1
        BY <2>1, <2>2, <2>3, <3>1
      <4> QED BY <2>1, <4>1
    <3>2. \A i \in 1..(Len(b) - 1) : publisher[Tail(b)[i][1]] = "idle"
      BY <2>1, <2>2, <2>3
    <3> QED BY <3>1, <3>2
  <2>5. Len(buffer'[l]) = Len(b) - 1
    BY <2>1
  <2> QED BY <2>1, <2>3, <2>4, <2>5 DEF Clean
<1> QED BY <1>1, <1>2

\* A lane that is clean stays so: who could add to it refuses or is done.
LEMMA CleanStays ==
    ASSUME TypeInv, [Next]_vars, NEW l \in Lanes, Clean(l)
    PROVE  Clean(l)'
<1>1. ASSUME NEW p \in Publishers, Publish(p) PROVE Clean(l)'
  <2>1. /\ \A q \in Publishers : publisher'[q] = "idle" \/ publisher'[q] = publisher[q]
        /\ UNCHANGED <<buffer, closed>>
    BY <1>1 DEF Publish, ClosedSeen, Clean, TypeInv, TypeOK
  <2>2. \A i \in 1..Len(buffer[l]) : buffer[l][i][1] \in Publishers
    BY ElementOfSeq DEF TypeInv, TypeOK, Message
  <2> QED BY <2>1, <2>2 DEF Clean
<1>2. ASSUME NEW p \in Publishers, Enqueue(p) PROVE Clean(l)'
  <2> DEFINE b == buffer[l]
             e == Current(p)
  <2>1. /\ publisher[p] = "select" /\ publisher'[p] = "idle" /\ closed' = closed
        /\ \A q \in Publishers : publisher'[q] = "idle" \/ publisher'[q] = publisher[q]
    BY <1>2 DEF Enqueue, TypeInv, TypeOK
  <2>2. /\ b \in Seq(Message) /\ Len(b) \in Nat
        /\ \A i \in 1..Len(b) : b[i][1] \in Publishers
    BY ElementOfSeq, LenProperties DEF TypeInv, TypeOK, Message
  <2>3. CASE l # Lane(p)
    <3>1. buffer'[l] = b
      BY <1>2, <2>3 DEF Enqueue, TypeInv, TypeOK
    <3> QED BY <2>1, <2>2, <3>1 DEF Clean
  <2>4. CASE l = Lane(p)
    <3>1. e \in Message /\ e[1] = p
      BY <1>2, CurrentFact DEF Enqueue, Current
    <3>2. /\ buffer'[l] = Append(b, e) /\ Len(buffer'[l]) = Len(b) + 1
          /\ \A i \in 1..Len(b) : buffer'[l][i] = b[i]
          /\ buffer'[l][Len(b) + 1] = e
      BY <1>2, <2>2, <2>4, <3>1, Appended DEF Enqueue, TypeInv, TypeOK
    <3>3. \A i \in 1..Len(b) : b[i][1] # p
      BY <2>1 DEF Clean
    <3> HIDE DEF b, e
    <3>4. ASSUME NEW i \in 1..(Len(b) + 1)
          PROVE  /\ publisher'[buffer'[l][i][1]] = "idle"
                 /\ \A j \in 1..(Len(b) + 1) : buffer'[l][i][1] = buffer'[l][j][1] => i = j
      <4>1. CASE i = Len(b) + 1
        BY <2>1, <2>2, <3>1, <3>2, <3>3, <4>1
      <4>2. CASE i \in 1..Len(b)
        BY <2>1, <2>2, <3>1, <3>2, <3>3, <4>2 DEF Clean, b
      <4> QED BY <2>2, <4>1, <4>2
    <3> QED BY <2>1, <3>2, <3>4 DEF Clean
  <2> QED BY <2>3, <2>4
<1>3. ASSUME NEW p \in Publishers, RefusePublish(p) \/ CancelPublish(p) PROVE Clean(l)'
  <2>1. /\ \A q \in Publishers : publisher'[q] = "idle" \/ publisher'[q] = publisher[q]
        /\ UNCHANGED <<buffer, closed>>
    BY <1>3 DEF RefusePublish, CancelPublish, TypeInv, TypeOK
  <2>2. \A i \in 1..Len(buffer[l]) : buffer[l][i][1] \in Publishers
    BY ElementOfSeq DEF TypeInv, TypeOK, Message
  <2> QED BY <2>1, <2>2 DEF Clean
<1>4. ASSUME NEW c \in Consumers, Dequeue(c) PROVE Clean(l)'
    BY <1>4, LaneFact, TailClean DEF Dequeue
<1>5. ASSUME NEW k \in Closers, Drain(k) PROVE Clean(l)'
    BY <1>5, DrainedLane, TailClean DEF Drain
<1>6. CASE UNCHANGED <<buffer, publisher>> /\ (closed => closed')
    BY <1>6 DEF Clean
<1>7. CASE UNCHANGED vars
    BY <1>6, <1>7 DEF vars
<1>8. ASSUME NEW c \in Consumers, Consume(c) \/ StopConsuming(c) PROVE Clean(l)'
    BY <1>6, <1>8 DEF Consume, StopConsuming
<1>9. ASSUME NEW k \in Closers, Swap(k) \/ CloseDone(k) \/ NextLane(k) PROVE Clean(l)'
    BY <1>6, <1>9 DEF Swap, CloseDone, NextLane
<1> QED
    BY <1>1, <1>2, <1>3, <1>4, <1>5, <1>7, <1>8, <1>9
    DEF Next, Publishing, Receiving, Closing

LEMMA CloseStep ==
    ASSUME TypeInv, CloseInv, [Next]_vars
    PROVE  CloseInv'
<1> USE StagesFact
<1>1. \A i \in 1..Len(DrainOrder) : DrainOrder[i] \in Lanes
    BY ElementOfSeq
<1>2. CASE UNCHANGED <<closed, closer>>
  <2>1. \A l \in Lanes : Clean(l) => Clean(l)'
    BY CleanStays
  <2> QED BY <1>1, <1>2, <2>1 DEF CloseInv, Working
<1>3. ASSUME NEW k \in Closers, Swap(k) PROVE CloseInv'
  <2>1. closed' /\ \A j \in Closers \ {k} : closer'[j] = closer[j]
    BY <1>3 DEF Swap, TypeInv, TypeOK
  <2>2. \A l \in Lanes : Clean(l) => Clean(l)'
    BY CleanStays
  <2>3. closer'[k] = IF closed THEN Returned ELSE Swapped
    BY <1>3 DEF Swap, TypeInv, TypeOK
  <2>4. ~Working(k) /\ closer[k] = NotCalled
    BY <1>3 DEF Swap, Working
  <2>5. CASE closed
    BY <1>1, <2>1, <2>2, <2>3, <2>4, <2>5 DEF CloseInv, Working
  <2>6. CASE ~closed
    <3>1. Working(k)'
      BY <2>3, <2>6 DEF Working, Swapped, NotCalled, Returned
    <3>2. \A j \in Closers \ {k} : ~Working(j)'
      BY <2>1, <2>6 DEF CloseInv, Working, NotCalled, Returned
    <3>3. \A i \in 1..Len(DrainOrder) : ~(i + 1 < closer'[k])
      BY <2>3, <2>6 DEF Swapped
    <3> QED BY <2>1, <3>1, <3>2, <3>3 DEF CloseInv
  <2> QED BY <2>5, <2>6
<1>4. ASSUME NEW k \in Closers, Closing(k), closer' = [closer EXCEPT ![k] = closer[k] + 1],
             closed' = closed, closer[k] \in Swapped..(Returned - 1),
             closer[k] \in Draining => buffer[LaneDrained(k)] = <<>> /\ buffer' = buffer
      PROVE  CloseInv'
  <2>1. /\ closer'[k] = closer[k] + 1
        /\ \A j \in Closers \ {k} : closer'[j] = closer[j]
    BY <1>4 DEF TypeInv, TypeOK
  <2>2. Working(k) /\ closed
    BY <1>4 DEF CloseInv, Working, Swapped, Returned, NotCalled
  <2>3. \A l \in Lanes : Clean(l) => Clean(l)'
    BY CleanStays
  <2>4. ASSUME NEW i \in 1..Len(DrainOrder), i + 1 < closer'[k]
        PROVE  Clean(DrainOrder[i])'
    <3>1. CASE i + 1 < closer[k]
      BY <1>1, <2>2, <2>3, <3>1 DEF CloseInv
    <3>2. CASE ~(i + 1 < closer[k])
      <4>1. closer[k] = i + 1
        BY <1>4, <2>1, <2>4, <3>2 DEF Swapped, Returned
      <4>2. closer[k] \in Draining /\ LaneDrained(k) = DrainOrder[i]
        BY <4>1 DEF Draining, LaneDrained
      <4>3. buffer'[DrainOrder[i]] = <<>>
        BY <1>4, <4>2
      <4>4. Len(buffer'[DrainOrder[i]]) = 0
        BY <4>3, EmptySeq
      <4> QED BY <1>4, <2>2, <4>4 DEF Clean
    <3> QED BY <3>1, <3>2
  <2>5. CASE closer'[k] = Returned
    <3>1. \A i \in 1..Len(DrainOrder) : Clean(DrainOrder[i])'
      BY <2>4, <2>5 DEF Returned
    <3>2. \A l \in Lanes : \E i \in 1..Len(DrainOrder) : l = DrainOrder[i]
      BY MessageBusAssumption, LenProperties DEF ToSet
    <3>3. \A l \in Lanes : Clean(l)'
      BY <3>1, <3>2
    <3>4. closed' /\ ~Working(k)'
      BY <1>4, <2>2, <2>5 DEF Working
    <3> QED BY <1>1, <2>1, <2>3, <3>3, <3>4 DEF CloseInv, Working
  <2>6. CASE closer'[k] # Returned
    <3>1. Working(k)' /\ closed'
      BY <1>4, <2>1, <2>2, <2>6 DEF Working, NotCalled, Swapped, Returned
    <3> QED BY <1>1, <2>1, <2>3, <2>4, <3>1 DEF CloseInv, Working
  <2> QED BY <2>5, <2>6
<1>5. ASSUME NEW k \in Closers, CloseDone(k) PROVE CloseInv'
  <2>1. closer[k] = Swapped /\ closer[k] \notin Draining
    BY <1>5 DEF CloseDone, Swapped, Draining
  <2>2. closer[k] \in Swapped..(Returned - 1)
    BY <2>1 DEF Swapped, Returned
  <2> QED BY <1>4, <1>5, <2>1, <2>2 DEF CloseDone, Closing
<1>6. ASSUME NEW k \in Closers, NextLane(k) PROVE CloseInv'
  <2>1. closer[k] \in Swapped..(Returned - 1)
    BY <1>6 DEF NextLane, Draining, Swapped, Returned
  <2> QED BY <1>4, <1>6, <2>1 DEF NextLane, Closing
<1>7. ASSUME NEW p \in Publishers, Publishing(p) PROVE CloseInv'
    BY <1>2, <1>7 DEF Publishing, Publish, Enqueue, RefusePublish, CancelPublish
<1>8. ASSUME NEW c \in Consumers, Consume(c) \/ Receiving(c) PROVE CloseInv'
    BY <1>2, <1>8 DEF Receiving, Consume, Dequeue, StopConsuming
<1>9. ASSUME NEW k \in Closers, Drain(k) PROVE CloseInv'
    BY <1>2, <1>9 DEF Drain
<1>10. CASE UNCHANGED vars
    BY <1>2, <1>10 DEF vars
<1> QED BY <1>3, <1>5, <1>6, <1>7, <1>8, <1>9, <1>10 DEF Next, Closing

\* A publisher that had passed the flag before Close set it may leave one
\* message behind; it can never leave two (publish, Close).
THEOREM FewAreStranded == Spec => []AtMostOneStranded
<1>1. Init => CloseInv
    BY DEF Init, CloseInv, Working
<1>2. TypeInv /\ CloseInv /\ [Next]_vars => CloseInv'
    BY CloseStep
<1>3. CloseInv => AtMostOneStranded
  <2> SUFFICES ASSUME CloseInv, ClosedForGood PROVE \A l \in Lanes : Clean(l)
    BY DEF AtMostOneStranded, Clean
  <2>1. \A k \in Closers : ~Working(k)
    BY DEF ClosedForGood, Working
  <2>2. closed
    BY StagesFact DEF ClosedForGood, CloseInv, Returned, NotCalled
  <2> QED BY <2>1, <2>2 DEF CloseInv
<1> QED BY <1>1, <1>2, <1>3, TypeAlways, PTL DEF Spec
=============================================================================
