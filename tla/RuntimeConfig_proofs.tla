------------------------- MODULE RuntimeConfig_proofs ------------------------
(***************************************************************************)
(* That only validated configurations are stored, and that an accepted     *)
(* edit replaces the revision it was made on, for any servers and edits.   *)
(***************************************************************************)
EXTENDS RuntimeConfig, TLAPS

Plain == [at : {"down", "idle", "seeding", "releasing"}]
Waiting == [at : {"locking", "removing", "loading"}, edit : Edits]
Writing == [at : {"writing"}, edit : Edits, next : Contents]
Written == [at : {"renaming", "applying"}, next : Contents]

LEMMA CallKinds == Call = Plain \cup Waiting \cup Writing \cup Written
BY DEF Call, Plain, Waiting, Writing, Written

\* What the name of a step says about the record.
LEMMA ByStep ==
    ASSUME NEW k \in Call
    PROVE  /\ k.at \in {"locking", "removing", "loading"} => k \in Waiting
           /\ k.at = "writing" => k \in Writing
           /\ k.at \in {"renaming", "applying"} => k \in Written
           /\ k.at \in {"down", "idle", "seeding", "releasing"} \cup
                      {"locking", "removing", "loading", "writing", "renaming", "applying"}
BY CallKinds DEF Plain, Waiting, Writing, Written

\* What is about to be stored or used was validated, too.
TypeInv ==
    /\ TypeOK
    /\ \A s \in Servers :
        call[s].at \in {"writing", "renaming", "applying"} => Valid(call[s].next)

\* A server that goes on to k, with everything else unchanged or typed.
LEMMA TypedStep ==
    ASSUME TypeInv, NEW s \in Servers, NEW k \in Call, Goto(s, k),
           k.at \in {"writing", "renaming", "applying"} => Valid(k.next),
           file' \in Contents \cup {NoFile}, file' # NoFile => Valid(file'),
           lock' \in Lock \cup {Free},
           memory' \in [Servers -> Contents], \A t \in Servers : Valid(memory'[t]),
           aged' \in 0..MaxStale, intruded' \in SUBSET Servers
    PROVE  TypeInv'
<1>1. call' \in [Servers -> Call]
    BY DEF Goto, TypeInv, TypeOK
<1>2. call'[s] = k /\ \A t \in Servers \ {s} : call'[t] = call[t]
    BY DEF Goto, TypeInv, TypeOK
<1>3. \A t \in Servers :
        call'[t].at \in {"writing", "renaming", "applying"} => Valid(call'[t].next)
    BY <1>2 DEF TypeInv
<1>4. TypeOK'
    BY <1>1 DEF TypeOK, Valid
<1> QED BY <1>3, <1>4 DEF TypeInv

\* TypeInv as the facts TypedStep asks for.
LEMMA TypeFacts ==
    ASSUME TypeInv
    PROVE  /\ file \in Contents \cup {NoFile} /\ (file # NoFile => Valid(file))
           /\ lock \in Lock \cup {Free}
           /\ memory \in [Servers -> Contents] /\ \A t \in Servers : Valid(memory[t])
           /\ call \in [Servers -> Call]
           /\ aged \in 0..MaxStale /\ intruded \in SUBSET Servers
BY DEF TypeInv, TypeOK, Valid

LEMMA SimpleCalls ==
    /\ Down \in Call /\ Idle \in Call
    /\ [at |-> "seeding"] \in Call /\ [at |-> "releasing"] \in Call
    /\ Down.at = "down" /\ Idle.at = "idle"
BY CallKinds DEF Plain, Down, Idle

\* An edit replaces documents by documents.
LEMMA ReplacedIsContent ==
    ASSUME NEW c \in Contents, NEW edit \in Edits
    PROVE  Replaced(c, edit) \in Contents
<1>1. edit.value \in Contents
    BY ConfigAssumption DEF Edit
<1> QED BY <1>1 DEF Replaced, Contents

LEMMA TypeStep ==
    ASSUME TypeInv, [Next]_vars
    PROVE  TypeInv'
<1> USE TypeFacts, SimpleCalls
<1>1. ASSUME NEW s \in Servers, Bootstrap(s) PROVE TypeInv'
  <2> DEFINE m == IF file = NoFile THEN Seed ELSE file
             k == IF file = NoFile THEN [at |-> "seeding"] ELSE Idle
  <2>1. m \in Contents /\ Valid(m)
    BY ConfigAssumption
  <2>2. k \in Call /\ k.at \notin {"writing", "renaming", "applying"}
    OBVIOUS
  <2>3. Goto(s, k) /\ memory' = [memory EXCEPT ![s] = m] /\ UNCHANGED <<file, lock, aged, intruded>>
    BY <1>1 DEF Bootstrap
  <2> HIDE DEF m, k
  <2>4. memory' \in [Servers -> Contents] /\ \A t \in Servers : Valid(memory'[t])
    BY <2>1, <2>3
  <2> QED BY <2>2, <2>3, <2>4, TypedStep
<1>2. ASSUME NEW s \in Servers, SeedFile(s) PROVE TypeInv'
    BY <1>2, TypedStep DEF SeedFile, OtherHolders
<1>3. ASSUME NEW s \in Servers, Crash(s) PROVE TypeInv'
  <2>1. memory' \in [Servers -> Contents] /\ \A t \in Servers : Valid(memory'[t])
    BY <1>3, ConfigAssumption DEF Crash
  <2> QED BY <1>3, <2>1, TypedStep DEF Crash
<1>4. ASSUME NEW s \in Servers, NEW edit \in Edits, SaveWithRevision(s, edit) PROVE TypeInv'
  <2>1. [at |-> "locking", edit |-> edit] \in Call
    BY CallKinds DEF Waiting
  <2> QED BY <1>4, <2>1, TypedStep DEF SaveWithRevision
<1>5. ASSUME NEW s \in Servers, NEW at \in {"locking", "removing", "loading"},
             call[s].at \in {"locking", "removing"},
             Goto(s, [call[s] EXCEPT !.at = at]),
             lock' \in Lock \cup {Free}, intruded' \in SUBSET Servers,
             UNCHANGED <<file, memory, aged>>
      PROVE  TypeInv'
  <2> DEFINE k == [call[s] EXCEPT !.at = at]
  <2>1. call[s] \in Waiting
    BY <1>5, ByStep
  <2>2. k \in Waiting /\ k.at = at
    BY <2>1 DEF Waiting
  <2>3. k \in Call
    BY <2>2, CallKinds
  <2> HIDE DEF k
  <2> QED BY <1>5, <2>2, <2>3, TypedStep DEF k
<1>6. ASSUME NEW s \in Servers, AcquireFileLock(s) PROVE TypeInv'
  <2>1. lock' \in Lock
    BY <1>6 DEF AcquireFileLock, Lock
  <2> QED BY <1>5, <1>6, <2>1 DEF AcquireFileLock
<1>7. ASSUME NEW s \in Servers, SeeStaleLock(s) PROVE TypeInv'
    BY <1>5, <1>7 DEF SeeStaleLock
<1>8. ASSUME NEW s \in Servers, RemoveStaleLock(s) PROVE TypeInv'
  <2>1. intruded' \in SUBSET Servers /\ lock' = Free
    BY <1>8 DEF RemoveStaleLock, Robbed, OtherHolders
  <2> QED BY <1>5, <1>8, <2>1 DEF RemoveStaleLock
<1>9. ASSUME NEW s \in Servers, LockTimesOut(s) PROVE TypeInv'
    BY <1>9, TypedStep DEF LockTimesOut
<1>10. ASSUME NEW s \in Servers, LoadAndCheck(s) PROVE TypeInv'
  <2> DEFINE edit == call[s].edit
             next == Replaced(Current(s), edit)
             k == [at |-> "writing", edit |-> edit, next |-> next]
  <2>1. call[s] \in Waiting
    BY <1>10, ByStep DEF LoadAndCheck
  <2>2. edit \in Edits /\ Current(s) \in Contents
    BY <2>1 DEF Waiting, Current
  <2>3. next \in Contents
    BY <2>2, ReplacedIsContent
  <2>4. UNCHANGED <<file, lock, memory, aged, intruded>>
    BY <1>10 DEF LoadAndCheck
  <2>5. CASE Goto(s, k) /\ Valid(next)
    <3>1. k \in Call /\ k.at = "writing" /\ k.next = next
      BY <2>2, <2>3, CallKinds DEF Writing
    <3> HIDE DEF k, next
    <3> QED BY <2>4, <2>5, <3>1, TypedStep
  <2>6. CASE Goto(s, [at |-> "releasing"])
    BY <2>4, <2>6, TypedStep
  <2> QED BY <1>10, <2>5, <2>6 DEF LoadAndCheck
<1>11. ASSUME NEW s \in Servers, WriteStateFile(s) PROVE TypeInv'
  <2>1. call[s] \in Writing /\ Valid(call[s].next)
    BY <1>11, ByStep DEF WriteStateFile, TypeInv
  <2>2. call[s].next \in Contents
    BY <2>1 DEF Writing
  <2>3. ASSUME NEW at \in {"applying", "renaming"}, Goto(s, [at |-> at, next |-> call[s].next]),
               file' \in {call[s].next, NoFile}
        PROVE  TypeInv'
    <3>1. [at |-> at, next |-> call[s].next] \in Call
      BY <2>2, CallKinds DEF Written
    <3>2. UNCHANGED <<lock, memory, aged>> /\ intruded' \in SUBSET Servers
      BY <1>11 DEF WriteStateFile, OtherHolders
    <3> QED BY <2>1, <2>2, <2>3, <3>1, <3>2, TypedStep
  <2> QED BY <1>11, <2>3 DEF WriteStateFile
<1>12. ASSUME NEW s \in Servers, RenameAgain(s) PROVE TypeInv'
  <2> DEFINE k == [call[s] EXCEPT !.at = "applying"]
  <2>1. call[s] \in Written /\ Valid(call[s].next)
    BY <1>12, ByStep DEF RenameAgain, TypeInv
  <2>2. k \in Written /\ k.at = "applying" /\ k.next = call[s].next /\ k.next \in Contents
    BY <2>1 DEF Written
  <2>3. k \in Call
    BY <2>2, CallKinds
  <2>4. /\ Goto(s, k) /\ file' = k.next /\ UNCHANGED <<lock, memory, aged>>
        /\ intruded' \in SUBSET Servers
    BY <1>12, <2>2 DEF RenameAgain, OtherHolders
  <2> HIDE DEF k
  <2> QED BY <2>1, <2>2, <2>3, <2>4, TypedStep
<1>13. ASSUME NEW s \in Servers, WriteFails(s) PROVE TypeInv'
    BY <1>13, TypedStep DEF WriteFails
<1>14. ASSUME NEW s \in Servers, ApplyNormalizedState(s) PROVE TypeInv'
  <2>1. call[s] \in Written /\ Valid(call[s].next)
    BY <1>14, ByStep DEF ApplyNormalizedState, TypeInv
  <2>2. memory' \in [Servers -> Contents] /\ \A t \in Servers : Valid(memory'[t])
    BY <1>14, <2>1 DEF ApplyNormalizedState, Written
  <2> QED BY <1>14, <2>2, TypedStep DEF ApplyNormalizedState
<1>15. ASSUME NEW s \in Servers, Release(s) PROVE TypeInv'
    BY <1>15, TypedStep DEF Release, Robbed, OtherHolders
<1>16. CASE Age
  <2>1. lock \in Lock /\ lock' = [lock EXCEPT !.old = TRUE]
    BY <1>16 DEF Age
  <2>2. lock' \in Lock
    BY <2>1 DEF Lock
  <2>3. aged' \in 0..MaxStale
    BY <1>16, ConfigAssumption DEF Age
  <2> QED BY <1>16, <2>2, <2>3 DEF Age, TypeInv, TypeOK
<1>17. CASE UNCHANGED vars
    BY <1>17 DEF vars, TypeInv, TypeOK
<1> QED
    BY <1>1, <1>2, <1>3, <1>4, <1>6, <1>7, <1>8, <1>9, <1>10, <1>11, <1>12, <1>13, <1>14,
       <1>15, <1>16, <1>17 DEF Next, Save

LEMMA TypeAtFirst == Init => TypeInv
<1> SUFFICES ASSUME Init PROVE TypeInv
    OBVIOUS
<1>1. file \in Contents \cup {NoFile} /\ (file # NoFile => Valid(file))
    BY ConfigAssumption DEF Init
<1>2. memory \in [Servers -> Contents] /\ \A s \in Servers : Valid(memory[s])
    BY ConfigAssumption DEF Init
<1>3. call \in [Servers -> Call] /\ \A s \in Servers : call[s].at = "down"
    BY SimpleCalls DEF Init
<1>4. aged \in 0..MaxStale
    BY ConfigAssumption DEF Init
<1>5. intruded \in SUBSET Servers /\ lock = Free
    BY DEF Init
<1> QED BY <1>1, <1>2, <1>3, <1>4, <1>5 DEF TypeInv, TypeOK, Valid

LEMMA TypeAlways == Spec => []TypeInv
<1>1. Init => TypeInv
    BY TypeAtFirst
<1>2. TypeInv /\ [Next]_vars => TypeInv'
    BY TypeStep
<1> QED BY <1>1, <1>2, PTL DEF Spec

\* Every variable keeps its type, and only validated configurations are stored
\* or used (mutateWithRevision, normalizeState).
THEOREM TypeCorrect == Spec => []TypeOK
<1>1. Spec => []TypeInv
    BY TypeAlways
<1>2. TypeInv => TypeOK
    BY DEF TypeInv
<1> QED BY <1>1, <1>2, PTL

-----------------------------------------------------------------------------
\* A server between acquireFileLock and its release owns the lock file, unless
\* it was intruded on.
LockInv ==
    \A s \in Servers : Holds(s) /\ s \notin intruded => lock # Free /\ lock.holder = s

\* What it is about to write was checked against the file as it is.
WritingInv ==
    \A s \in Servers :
        call[s].at = "writing" /\ s \notin intruded /\ file # NoFile
            => Matches(file, call[s].edit)

EditInv == LockInv /\ WritingInv

\* What Goto(s, k) means for each server.
LEMMA OneMoves ==
    ASSUME TypeInv, NEW s \in Servers, NEW k, Goto(s, k)
    PROVE  call'[s] = k /\ \A t \in Servers \ {s} : call'[t] = call[t]
BY TypeFacts DEF Goto

\* s goes on and leaves the file and the lock alone: nobody comes to hold the
\* lock who did not, or to write.
LEMMA Aside ==
    ASSUME TypeInv, EditInv, NEW s \in Servers, NEW k, Goto(s, k),
           k.at \in Holding => Holds(s) /\ intruded' = intruded, k.at # "writing",
           UNCHANGED <<file, lock>>, intruded' \in {intruded, intruded \ {s}}
    PROVE  EditInv'
<1>1. call'[s] = k /\ \A t \in Servers \ {s} : call'[t] = call[t]
    BY OneMoves
<1>2. LockInv'
    BY <1>1 DEF EditInv, LockInv, Holds
<1>3. WritingInv'
    BY <1>1 DEF EditInv, WritingInv, Matches
<1> QED BY <1>2, <1>3 DEF EditInv

\* A holder that replaces the file intrudes on all others.
LEMMA Writes ==
    ASSUME TypeInv, EditInv, NEW s \in Servers, NEW k, Goto(s, k),
           Holds(s), k.at # "writing", lock' = lock,
           intruded' = intruded \cup OtherHolders(s)
    PROVE  EditInv'
<1>1. call'[s] = k /\ \A t \in Servers \ {s} : call'[t] = call[t]
    BY OneMoves
<1>2. \A t \in Servers \ {s} : t \notin intruded' => ~Holds(t)'
    BY <1>1 DEF OtherHolders, Holds
<1>3. LockInv'
    BY <1>2 DEF EditInv, LockInv
<1>4. WritingInv'
    BY <1>1, <1>2 DEF WritingInv, Holds, Holding
<1> QED BY <1>3, <1>4 DEF EditInv

\* Who removes a lock intrudes on the holder whose lock it is.
LEMMA Removes ==
    ASSUME TypeInv, EditInv, NEW s \in Servers, NEW k, Goto(s, k),
           k.at \notin Holding, UNCHANGED file, lock' = Free,
           (intruded \cup Robbed(s)) \ {s} \subseteq intruded'
    PROVE  EditInv'
<1>1. call'[s] = k /\ \A t \in Servers \ {s} : call'[t] = call[t]
    BY OneMoves
<1>2. \A t \in Servers \ {s} : t \notin intruded' => ~Holds(t)
    BY DEF EditInv, LockInv, Robbed, OtherHolders
<1>3. \A t \in Servers : t \notin intruded' => call'[t].at \notin Holding
    BY <1>1, <1>2 DEF Holds
<1> QED BY <1>3 DEF EditInv, LockInv, WritingInv, Holds, Holding

LEMMA EditStep ==
    ASSUME TypeInv, EditInv, [Next]_vars
    PROVE  EditInv'
<1> USE TypeFacts
<1>1. ASSUME NEW s \in Servers, Bootstrap(s) PROVE EditInv'
    BY <1>1, Aside DEF Bootstrap, Holding, Idle
<1>2. ASSUME NEW s \in Servers, SeedFile(s) PROVE EditInv'
  <2>1. call'[s] = Idle /\ \A t \in Servers \ {s} : call'[t] = call[t]
    BY <1>2, OneMoves DEF SeedFile
  <2>2. Idle.at \notin Holding
    BY DEF Idle, Holding
  <2>3. \A t \in Servers : t \notin intruded' => call'[t].at \notin Holding
    BY <1>2, <2>1, <2>2 DEF SeedFile, OtherHolders, Holds
  <2> QED BY <2>3 DEF EditInv, LockInv, WritingInv, Holds, Holding
<1>3. ASSUME NEW s \in Servers, Crash(s) PROVE EditInv'
    BY <1>3, Aside DEF Crash, Holding, Down
<1>4. ASSUME NEW s \in Servers, NEW edit \in Edits, SaveWithRevision(s, edit) PROVE EditInv'
    BY <1>4, Aside DEF SaveWithRevision, Holding
<1>5. ASSUME NEW s \in Servers, AcquireFileLock(s) PROVE EditInv'
  <2> DEFINE k == [call[s] EXCEPT !.at = "loading"]
  <2>1. k.at = "loading"
    BY <1>5, ByStep DEF AcquireFileLock, Waiting
  <2>2. call'[s] = k /\ \A t \in Servers \ {s} : call'[t] = call[t]
    BY <1>5, OneMoves DEF AcquireFileLock
  <2>3. intruded' = intruded /\ \A t \in Servers : Holds(t) => t \in intruded
    BY <1>5 DEF AcquireFileLock, EditInv, LockInv
  <2> HIDE DEF k
  <2>4. \A t \in Servers : t \notin intruded' => call'[t].at # "writing"
    BY <2>1, <2>2, <2>3 DEF Holds, Holding
  <2>5. lock' \in Lock /\ lock'.holder = s
    BY <1>5 DEF AcquireFileLock, Lock
  <2>6. LockInv'
    BY <2>2, <2>3, <2>5, ConfigAssumption DEF LockInv, Holds
  <2> QED BY <2>4, <2>6 DEF EditInv, WritingInv
<1>6. ASSUME NEW s \in Servers, SeeStaleLock(s) PROVE EditInv'
  <2>1. [call[s] EXCEPT !.at = "removing"].at = "removing"
    BY <1>6, ByStep DEF SeeStaleLock, Waiting
  <2> QED BY <1>6, <2>1, Aside DEF SeeStaleLock, Holding
<1>7. ASSUME NEW s \in Servers, RemoveStaleLock(s) PROVE EditInv'
  <2>1. [call[s] EXCEPT !.at = "locking"].at = "locking"
    BY <1>7, ByStep DEF RemoveStaleLock, Waiting
  <2> QED BY <1>7, <2>1, Removes DEF RemoveStaleLock, Holding
<1>8. ASSUME NEW s \in Servers, LockTimesOut(s) PROVE EditInv'
    BY <1>8, Aside DEF LockTimesOut, Holding, Idle
<1>9. ASSUME NEW s \in Servers, LoadAndCheck(s) PROVE EditInv'
  <2> DEFINE edit == call[s].edit
             next == Replaced(Current(s), edit)
             k == [at |-> "writing", edit |-> edit, next |-> next]
  <2>1. UNCHANGED <<file, lock, intruded>> /\ Holds(s)
    BY <1>9 DEF LoadAndCheck, Holds, Holding
  <2>2. CASE Goto(s, k) /\ Matches(Current(s), edit)
    <3>1. k.edit = edit
      OBVIOUS
    <3>2. file # NoFile => Matches(file, k.edit)
      BY <2>2, <3>1 DEF Current
    <3> HIDE DEF k
    <3>3. call'[s] = k /\ \A t \in Servers \ {s} : call'[t] = call[t]
      BY <2>2, OneMoves
    <3>4. LockInv'
      BY <2>1, <3>3 DEF EditInv, LockInv, Holds
    <3>5. WritingInv'
      BY <2>1, <3>2, <3>3 DEF EditInv, WritingInv, Matches
    <3> QED BY <3>4, <3>5 DEF EditInv
  <2>3. CASE Goto(s, [at |-> "releasing"])
    BY <2>1, <2>3, Aside
  <2> QED BY <1>9, <2>2, <2>3 DEF LoadAndCheck
<1>10. ASSUME NEW s \in Servers, WriteStateFile(s) PROVE EditInv'
    BY <1>10, Writes DEF WriteStateFile, Holds, Holding
<1>11. ASSUME NEW s \in Servers, RenameAgain(s) PROVE EditInv'
  <2>1. [call[s] EXCEPT !.at = "applying"].at = "applying"
    BY <1>11, ByStep DEF RenameAgain, Written
  <2> QED BY <1>11, <2>1, Writes DEF RenameAgain, Holds, Holding
<1>12. ASSUME NEW s \in Servers, WriteFails(s) PROVE EditInv'
    BY <1>12, Aside DEF WriteFails, Holds, Holding
<1>13. ASSUME NEW s \in Servers, ApplyNormalizedState(s) PROVE EditInv'
    BY <1>13, Aside DEF ApplyNormalizedState, Holds, Holding
<1>14. ASSUME NEW s \in Servers, Release(s) PROVE EditInv'
    BY <1>14, Removes DEF Release, Holding, Idle
<1>15. CASE Age
  <2>1. lock \in Lock /\ lock' = [lock EXCEPT !.old = TRUE]
    BY <1>15 DEF Age
  <2>2. lock' \in Lock /\ lock'.holder = lock.holder
    BY <2>1 DEF Lock
  <2>3. ASSUME NEW s \in Servers, Holds(s)', s \notin intruded PROVE lock' # Free /\ lock'.holder = s
    BY <1>15, <2>2, <2>3, ConfigAssumption DEF Age, EditInv, LockInv, Holds
  <2> QED BY <1>15, <2>3 DEF Age, EditInv, LockInv, WritingInv, Holds, Matches
<1>16. CASE UNCHANGED vars
    BY <1>16 DEF vars, EditInv, LockInv, WritingInv, Holds, Matches
<1> QED
    BY <1>1, <1>2, <1>3, <1>4, <1>5, <1>6, <1>7, <1>8, <1>9, <1>10, <1>11, <1>12, <1>13,
       <1>14, <1>15, <1>16 DEF Next, Save

\* An edit that is written over a configuration was made on that one
\* (mutateWithRevision), however many servers save, stop and find stale locks,
\* unless another server removed its writer's lock, or wrote the file, since the
\* writer took the lock.
THEOREM EditsReplaceTheirRevision == Spec => AcceptedOnItsRevision
<1> DEFINE A == \A s \in Servers :
                LET k == call[s] IN
                /\ k.at = "writing" /\ file' # file
                /\ call'[s] # k
                /\ s \notin intruded /\ file # NoFile
                => Matches(file, k.edit)
<1>1. Init => EditInv
    BY DEF Init, EditInv, LockInv, WritingInv, Holds, Holding, Down
<1>2. TypeInv /\ EditInv /\ [Next]_vars => EditInv'
    BY EditStep
<1>3. EditInv => [A]_vars
    BY DEF EditInv, WritingInv
<1>4. Spec => []TypeInv
    BY TypeAlways
<1> QED BY <1>1, <1>2, <1>3, <1>4, PTL DEF Spec, AcceptedOnItsRevision
=============================================================================
