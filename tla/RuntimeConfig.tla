---------------------------- MODULE RuntimeConfig ----------------------------
(***************************************************************************)
(* The Platform's runtime configuration: the documents (models and pricing *)
(* here; routes, agreements and wallet settings are handled like them) in  *)
(* one file that several servers share under a lock file.  An edit names   *)
(* the revision it was made on, a hash of the content, so revisions are    *)
(* contents here.  A lock older than runtimeConfigStaleLockAge is removed, *)
(* by path, as is a lock that is released.  Servers stop at any step.      *)
(***************************************************************************)
EXTENDS Integers

CONSTANTS
    Servers,
    Models,     \* official models
    Seed,       \* the configuration from the environment
    Edits,      \* the requests of administrators
    Any,        \* the revision "*"
    NoFile,
    Free,
    MaxStale    \* bound: how often a lock grows old

Docs == {"models", "pricing"}
Contents == [Docs -> SUBSET Models]
\* An enabled model has an active pricing rule.
ValidAlways(c) == TRUE \* Mutant: the state is written without a check.
Valid(c) == c["models"] \subseteq c["pricing"]
Edit == [scope : SUBSET Docs, value : Contents, expected : Contents \cup {Any}]
Lock == [holder : Servers, old : BOOLEAN]

ASSUME ConfigAssumption ==
    /\ Seed \in Contents /\ Valid(Seed)
    /\ Edits \subseteq Edit
    /\ Any \notin Contents /\ NoFile \notin Contents /\ Free \notin Lock
    /\ MaxStale \in Nat

VARIABLES
    file,       \* the state file
    lock,       \* the lock file: who created it, and whether it is old
    memory,     \* Manager.state of each server
    call,       \* the save each server has in its hands: writeMu lets one in
    aged,
    intruded    \* history: the holders under whom another server removed the
                \* lock or wrote the file since they took the lock

vars == <<file, lock, memory, call, aged, intruded>>

Holding == {"loading", "writing", "renaming", "applying", "releasing"}
Saving == {"locking", "removing"} \cup Holding
Down == [at |-> "down"]
Idle == [at |-> "idle"]
Call ==
    [at : {"down", "idle", "seeding", "releasing"}]
    \cup [at : {"locking", "removing", "loading"}, edit : Edits]
    \cup [at : {"writing"}, edit : Edits, next : Contents]
    \cup [at : {"renaming", "applying"}, next : Contents]

\* Every variable has its type, and what is stored or used was validated.
TypeOK ==
    /\ file \in Contents \cup {NoFile}
    /\ file # NoFile => file["models"] \subseteq file["pricing"]
    /\ lock \in Lock \cup {Free}
    /\ memory \in [Servers -> Contents]
    /\ \A s \in Servers : memory[s]["models"] \subseteq memory[s]["pricing"]
    /\ call \in [Servers -> Call]
    /\ aged \in 0..MaxStale
    /\ intruded \subseteq Servers

Init ==
    /\ file \in {NoFile, Seed}
    /\ lock = Free
    /\ memory = [s \in Servers |-> Seed]
    /\ call = [s \in Servers |-> Down]
    /\ aged = 0
    /\ intruded = {}

Goto(s, next) == call' = [call EXCEPT ![s] = next]
Holds(s) == call[s].at \in Holding
OtherHolders(s) == {t \in Servers \ {s} : Holds(t)}

-----------------------------------------------------------------------------
\* Bootstrap: the file is read and, if there is none, the seed is written;
\* neither under the lock.
Bootstrap(s) ==
    /\ call[s] = Down
    /\ memory' = [memory EXCEPT ![s] = IF file = NoFile THEN Seed ELSE file]
    /\ Goto(s, IF file = NoFile THEN [at |-> "seeding"] ELSE Idle)
    /\ UNCHANGED <<file, lock, aged, intruded>>

SeedFile(s) ==
    /\ call[s].at = "seeding"
    /\ file' = memory[s]
    /\ intruded' = intruded \cup OtherHolders(s)
    /\ Goto(s, Idle)
    /\ UNCHANGED <<lock, memory, aged>>

-----------------------------------------------------------------------------
\* mutateWithRevision, with acquireFileLock.
SaveWithRevision(s, edit) ==
    /\ call[s] = Idle
    /\ Goto(s, [at |-> "locking", edit |-> edit])
    /\ UNCHANGED <<file, lock, memory, aged, intruded>>

AcquireFileLock(s) ==
    /\ call[s].at = "locking"
    /\ lock = Free
    /\ lock' = [holder |-> s, old |-> FALSE]
    /\ Goto(s, [call[s] EXCEPT !.at = "loading"])
    /\ UNCHANGED <<file, memory, aged, intruded>>

SeeStaleLock(s) ==
    /\ call[s].at = "locking"
    /\ lock # Free /\ lock.old
    /\ Goto(s, [call[s] EXCEPT !.at = "removing"])
    /\ UNCHANGED <<file, lock, memory, aged, intruded>>

\* Whose lock s removes: by now it may be another one that has this path.
Robbed(s) == {t \in OtherHolders(s) : lock # Free /\ lock.holder = t}

RemoveStaleLock(s) ==
    /\ call[s].at = "removing"
    /\ lock' = Free
    /\ intruded' = intruded \cup Robbed(s)
    /\ Goto(s, [call[s] EXCEPT !.at = "locking"])
    /\ UNCHANGED <<file, memory, aged>>

LockTimesOut(s) ==
    /\ call[s].at = "locking"
    /\ lock # Free /\ ~lock.old
    /\ Goto(s, Idle)
    /\ UNCHANGED <<file, lock, memory, aged, intruded>>

\* Only the documents in the edit's scope are replaced and compared; the rest
\* of the file is kept.
CurrentInMemory(s) == memory[s] \* Mutant: the file is not read again.
Current(s) == IF file = NoFile THEN memory[s] ELSE file
Replaced(c, edit) == [d \in Docs |-> IF d \in edit.scope THEN edit.value[d] ELSE c[d]]
Matches(c, edit) ==
    edit.expected = Any \/ \A d \in edit.scope : c[d] = edit.expected[d]

LoadAndCheck(s) ==
    LET edit == call[s].edit
        next == Replaced(Current(s), edit)
    IN  /\ call[s].at = "loading"
        /\ Goto(s, IF Matches(Current(s), edit) /\ Valid(next)
                   THEN [at |-> "writing", edit |-> edit, next |-> next]
                   ELSE [at |-> "releasing"])
        /\ UNCHANGED <<file, lock, memory, aged, intruded>>

\* The temporary file replaces the file; where the system refuses that, the
\* file is removed first.
WriteStateFile(s) ==
    /\ call[s].at = "writing"
    /\ \/ file' = call[s].next /\ Goto(s, [at |-> "applying", next |-> call[s].next])
       \/ file' = NoFile /\ Goto(s, [at |-> "renaming", next |-> call[s].next])
    /\ intruded' = intruded \cup OtherHolders(s)
    /\ UNCHANGED <<lock, memory, aged>>

RenameAgain(s) ==
    /\ call[s].at = "renaming"
    /\ file' = call[s].next
    /\ Goto(s, [call[s] EXCEPT !.at = "applying"])
    /\ intruded' = intruded \cup OtherHolders(s)
    /\ UNCHANGED <<lock, memory, aged>>

WriteFails(s) ==
    /\ call[s].at \in {"writing", "renaming"}
    /\ Goto(s, [at |-> "releasing"])
    /\ UNCHANGED <<file, lock, memory, aged, intruded>>

ApplyNormalizedState(s) ==
    /\ call[s].at = "applying"
    /\ memory' = [memory EXCEPT ![s] = call[s].next]
    /\ Goto(s, [at |-> "releasing"])
    /\ UNCHANGED <<file, lock, aged, intruded>>

Release(s) ==
    /\ call[s].at = "releasing"
    /\ lock' = Free
    /\ intruded' = (intruded \cup Robbed(s)) \ {s}
    /\ Goto(s, Idle)
    /\ UNCHANGED <<file, memory, aged>>

-----------------------------------------------------------------------------
\* A server stops; its lock file stays.
Crash(s) ==
    /\ call[s] # Down
    /\ Goto(s, Down)
    /\ memory' = [memory EXCEPT ![s] = Seed]
    /\ intruded' = intruded \ {s}
    /\ UNCHANGED <<file, lock, aged>>

\* 30 seconds pass.  A holder may take that long: a route's host is resolved
\* while the lock is held.
Age ==
    /\ lock # Free /\ ~lock.old
    /\ aged < MaxStale
    /\ lock' = [lock EXCEPT !.old = TRUE]
    /\ aged' = aged + 1
    /\ UNCHANGED <<file, memory, call, intruded>>

Save(s) ==
    \/ AcquireFileLock(s) \/ SeeStaleLock(s) \/ RemoveStaleLock(s) \/ LockTimesOut(s)
    \/ LoadAndCheck(s) \/ WriteStateFile(s) \/ RenameAgain(s) \/ WriteFails(s)
    \/ ApplyNormalizedState(s) \/ Release(s)

Next ==
    \/ \E s \in Servers :
         \/ Bootstrap(s) \/ SeedFile(s) \/ Crash(s) \/ Save(s)
         \/ \E edit \in Edits : SaveWithRevision(s, edit)
    \/ Age

\* A handler that runs goes on.
Fairness == \A s \in Servers : WF_vars(Save(s))
Spec == Init /\ [][Next]_vars
FairSpec == Spec /\ Fairness

-----------------------------------------------------------------------------
\* An edit that is written over a configuration was made on that one, whoever
\* else saves, stops or finds a stale lock, unless the writer itself was intruded
\* on since it took the lock: what was done to earlier holders has no effect on
\* it.  An update can be lost all the same: to a seed that is written over it
\* when nobody holds the lock, or when a write removes the file and goes no
\* further.
AcceptedOnItsRevision ==
    [][\A s \in Servers :
        LET k == call[s] IN
        /\ k.at = "writing" /\ file' # file
        /\ call'[s] # k
        /\ s \notin intruded /\ file # NoFile
        => Matches(file, k.edit)]_vars

=============================================================================
