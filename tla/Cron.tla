-------------------------------- MODULE Cron --------------------------------
(***************************************************************************)
(* pkg/cron/service.go: jobs kept in memory and in one file, a loop that   *)
(* sleeps until the next job is due, runs the due jobs one after another   *)
(* with the lock released, and calls that change jobs meanwhile.           *)
(*                                                                         *)
(* Every gateway runtime makes a CronService of its own on the same file,  *)
(* and so does every `cron` command: an instance below.  A stopped one may *)
(* still be running its last jobs when the next one starts, and each saves *)
(* the whole of what it has in memory.                                     *)
(***************************************************************************)
EXTENDS Integers, FiniteSetsExt

CONSTANTS
    Jobs,           \* identifiers, fresh for every AddJob
    Instances,      \* numbered in the order in which they are made
    Tooled,         \* the instances of runtimes whose cron tool is enabled
    Delays,         \* of one-shot jobs ("at"): time from now
    Periods,        \* of recurring jobs ("every")
    Exprs,          \* of recurring jobs ("cron"), also malformed ones
    NextTick(_, _), \* of an expression after a time (gronx), if it has one
    Hour,           \* how long the loop sleeps when no job has a next run
    None,
    LastAdd,        \* bound: no job is added later
    Horizon         \* bound: time stops here

ASSUME CronAssumption ==
    /\ Instances \subseteq Nat
    /\ Delays \subseteq Nat /\ Periods \subseteq Nat
    /\ Hour \in Nat \ {0} /\ LastAdd \in Nat /\ Horizon \in Nat
    /\ \A e \in Exprs, t \in 0..Horizon : NextTick(e, t) \in Nat \cup {None}
    /\ None \notin Nat /\ None \notin Jobs \cup {"at", "every", "cron"}

VARIABLES
    now,
    store,          \* cs.store of each instance: the jobs it knows
    file,           \* jobs.json
    service,        \* each instance: not made, loaded, running or stopped
    loop,           \* runLoop and checkJobs of each instance
    draft,          \* what AddJob returned to a caller that will update it
    added,          \* the kind of each job ever added
    runs            \* how often the handler of each one-shot job was called

vars == <<now, store, file, service, loop, draft, added, runs>>

Schedule == [kind : {"at", "every"}, time : Nat] \cup [kind : {"cron"}, expr : Exprs]
Job == [schedule : Schedule, enabled : BOOLEAN, next : Nat \cup {None}]
Draft == [job : Jobs, row : Job]
NoLoop == [pc |-> "none", wake |-> 0, due |-> {}, job |-> None]

Computing == [NoLoop EXCEPT !.pc = "compute"]

\* Every variable has its type.
TypeOK ==
    /\ now \in 0..Horizon
    /\ store \in [Instances -> [Jobs -> Job \cup {None}]]
    /\ file \in [Jobs -> Job \cup {None}]
    /\ service \in [Instances -> {"none", "loaded", "running", "stopped", "dead"}]
    /\ loop \in [Instances ->
         [pc : {"none", "compute", "arm", "select", "check", "next", "run"},
          wake : Nat, due : SUBSET Jobs, job : Jobs \cup {None}]]
    /\ draft \in [Instances -> Draft \cup {None}]
    /\ added \in [Jobs -> {"at", "every", "cron", None}]
    /\ runs \in [Jobs -> Nat]

NoJobs == [j \in Jobs |-> None]

Init ==
    /\ now = 0
    /\ store = [i \in Instances |-> NoJobs]
    /\ file = NoJobs
    /\ service = [i \in Instances |-> "none"]
    /\ loop = [i \in Instances |-> NoLoop]
    /\ draft = [i \in Instances |-> None]
    /\ added = [j \in Jobs |-> None]
    /\ runs = [j \in Jobs |-> 0]

-----------------------------------------------------------------------------
\* computeNextRun: None for a time that is past, a period of nothing, and an
\* expression that is malformed or has no later tick.  A recurring job counts
\* from the moment it is asked.
NextRunAlways(s, t) == \* Mutant: past times too.
    CASE s.kind = "at" -> s.time
      [] s.kind = "every" -> IF s.time > 0 THEN t + s.time ELSE None
      [] s.kind = "cron" -> NextTick(s.expr, t)
NextRun(s, t) ==
    CASE s.kind = "at" -> IF s.time > t THEN s.time ELSE None
      [] s.kind = "every" -> IF s.time > 0 THEN t + s.time ELSE None
      [] s.kind = "cron" -> NextTick(s.expr, t)

Known(jobs) == {j \in Jobs : jobs[j] # None}
Ready(jobs) == {j \in Known(jobs) : jobs[j].enabled /\ jobs[j].next # None}

\* The file is replaced as a whole, or the write fails and it stays.
Save(jobs) == file' = jobs \/ UNCHANGED file

\* The send on wakeChan succeeds only while the loop waits in its select.
Notify(i) ==
    loop' = IF loop[i].pc = "select" THEN [loop EXCEPT ![i] = Computing] ELSE loop

Change(i, jobs) == store' = [store EXCEPT ![i] = jobs]

-----------------------------------------------------------------------------
\* An instance is made, started and stopped.  That the file cannot be read is
\* not reported here: the instance begins without jobs.
NewCronService(i) ==
    /\ service[i] = "none"
    /\ \A earlier \in Instances : earlier < i => service[earlier] # "none"
    /\ service' = [service EXCEPT ![i] = "loaded"]
    /\ Change(i, file) \/ Change(i, NoJobs)
    /\ UNCHANGED <<now, file, loop, draft, added, runs>>

RecomputedNever(jobs) == jobs \* Mutant: what the file says is kept.
Recomputed(jobs) ==
    [j \in Jobs |->
       IF jobs[j] # None /\ jobs[j].enabled
       THEN [jobs[j] EXCEPT !.next = NextRun(jobs[j].schedule, now)] ELSE jobs[j]]

\* A gateway stops its runtime before it starts the next.  If the file cannot
\* be read or written it goes on without a loop.
Start(i) ==
    /\ service[i] = "loaded"
    /\ \A other \in Instances : service[other] # "running"
    /\ \/ /\ Change(i, Recomputed(file))
          /\ file' = Recomputed(file)
          /\ service' = [service EXCEPT ![i] = "running"]
          /\ loop' = [loop EXCEPT ![i] = Computing]
       \/ /\ Change(i, Recomputed(file)) \/ Change(i, NoJobs)
          /\ service' = [service EXCEPT ![i] = "stopped"]
          /\ UNCHANGED <<file, loop>>
    /\ UNCHANGED <<now, draft, added, runs>>

Stop(i) ==
    /\ service[i] = "running"
    /\ service' = [service EXCEPT ![i] = "stopped"]
    /\ UNCHANGED <<now, store, file, loop, draft, added, runs>>

\* Every process that uses the file ends; memory is lost.
Crash ==
    /\ \E i \in Instances : service[i] = "running"
    /\ service' = [i \in Instances |-> IF service[i] = "none" THEN "none" ELSE "dead"]
    /\ store' = [i \in Instances |-> NoJobs]
    /\ loop' = [i \in Instances |-> NoLoop]
    /\ draft' = [i \in Instances |-> None]
    /\ UNCHANGED <<now, file, added, runs>>

-----------------------------------------------------------------------------
\* Calls that change jobs: of the agent's cron tool on the gateway's instance,
\* also by a turn that outlives it, and of a command, which makes one call on
\* an instance of its own and exits.
IsCommand(i) == service[i] = "loaded"
Usable(i) == service[i] \in {"loaded", "running", "stopped"}
Changed(i, jobs) ==
    /\ Change(i, IF IsCommand(i) THEN NoJobs ELSE jobs)
    /\ service' = IF IsCommand(i) THEN [service EXCEPT ![i] = "dead"] ELSE service

\* Nothing checks a schedule.  The tool asks for positive numbers of seconds,
\* but keeps whole ones only; a command knows no one-shot jobs.
NewSchedules(i) ==
    [kind : {"cron"}, expr : Exprs]
    \cup [kind : {"every"}, time : IF IsCommand(i) THEN Periods \ {0} ELSE Periods]
    \cup IF IsCommand(i) THEN {} ELSE {[kind |-> "at", time |-> now + d] : d \in Delays}

\* The caller may keep a copy to complete it; a failed save is reported but
\* the job stays, and the loop is not woken.
AddJob(i, j, s) ==
    LET row == [schedule |-> s, enabled |-> TRUE, next |-> NextRun(s, now)]
        jobs == [store[i] EXCEPT ![j] = row]
    IN  /\ Usable(i)
        /\ added[j] = None
        /\ now <= LastAdd
        /\ added' = [added EXCEPT ![j] = s.kind]
        /\ Changed(i, jobs)
        /\ \/ /\ file' = jobs
              /\ Notify(i)
              /\ \/ UNCHANGED draft
                 \/ ~IsCommand(i) /\ draft' = [draft EXCEPT ![i] = [job |-> j, row |-> row]]
           \/ UNCHANGED <<file, loop, draft>>
        /\ UNCHANGED <<now, runs>>

\* The cron tool adds the shell command of a job it has just added.
UpdateJob(i) ==
    LET j == draft[i].job
        jobs == [store[i] EXCEPT ![j] = draft[i].row]
    IN  /\ draft[i] # None
        /\ draft' = [draft EXCEPT ![i] = None]
        /\ IF store[i][j] = None THEN UNCHANGED <<store, file, loop>>
           ELSE Change(i, jobs) /\ Save(jobs) /\ Notify(i)
        /\ UNCHANGED <<now, service, added, runs>>

\* A job that is not there wakes the loop all the same.
RemoveJob(i, j) ==
    LET jobs == [store[i] EXCEPT ![j] = None] IN
    /\ Usable(i)
    /\ Changed(i, jobs)
    /\ IF store[i][j] = None THEN UNCHANGED file ELSE Save(jobs)
    /\ Notify(i)
    /\ UNCHANGED <<now, draft, added, runs>>

EnableJob(i, j, enabled) ==
    LET row == store[i][j]
        next == IF enabled THEN NextRun(row.schedule, now) ELSE None
        jobs == [store[i] EXCEPT ![j] = [row EXCEPT !.enabled = enabled, !.next = next]]
    IN  /\ Usable(i)
        /\ row # None
        /\ Changed(i, jobs)
        /\ Save(jobs)
        /\ Notify(i)
        /\ UNCHANGED <<now, draft, added, runs>>

-----------------------------------------------------------------------------
\* runLoop.
At(i, pc) == loop[i].pc = pc
Goto(i, pc) == loop' = [loop EXCEPT ![i].pc = pc]
onlyLoop == <<now, store, file, service, draft, added, runs>>

IdleWakeBackwards == now - Hour \* Mutant: wrong sign.
IdleWake == now + Hour
Wake(jobs) ==
    IF Ready(jobs) = {} THEN IdleWake ELSE Min({jobs[j].next : j \in Ready(jobs)})

ComputeWake(i) ==
    /\ At(i, "compute")
    /\ loop' = [loop EXCEPT ![i].pc = "arm", ![i].wake = Wake(store[i])]
    /\ UNCHANGED onlyLoop

\* Between the read lock and the select nobody hears a notification.
EnterSelect(i) == At(i, "arm") /\ Goto(i, "select") /\ UNCHANGED onlyLoop

EndLoop(i) ==
    /\ At(i, "select")
    /\ service[i] = "stopped"
    /\ loop' = [loop EXCEPT ![i] = NoLoop]
    /\ UNCHANGED onlyLoop

\* The select may prefer the timer to the closed stop channel.
TimerFires(i) ==
    /\ At(i, "select")
    /\ now >= loop[i].wake
    /\ loop' = [loop EXCEPT ![i] = [NoLoop EXCEPT !.pc = "check"]]
    /\ UNCHANGED onlyLoop

Due(jobs) == {j \in Ready(jobs) : jobs[j].next <= now}

CheckJobs(i) ==
    LET due == Due(store[i])
        jobs == [j \in Jobs |->
                   IF j \in due THEN [store[i][j] EXCEPT !.next = None] ELSE store[i][j]]
    IN  /\ At(i, "check")
        /\ IF service[i] = "running"
           THEN /\ Change(i, jobs)
                /\ Save(jobs)
                /\ loop' = [loop EXCEPT ![i].pc = "next", ![i].due = due]
           ELSE Goto(i, "compute") /\ UNCHANGED <<store, file>>
        /\ UNCHANGED <<now, service, draft, added, runs>>

\* executeJobByID: the job is looked up again, not whether it is enabled.  The
\* jobs are run in the order of the file; any order is allowed here.  A runtime
\* without the cron tool has set no handler: nothing is called.
RunJob(i) ==
    /\ At(i, "next")
    /\ \E j \in loop[i].due :
         IF store[i][j] = None
         THEN loop' = [loop EXCEPT ![i].due = @ \ {j}] /\ UNCHANGED runs
         ELSE /\ loop' = [loop EXCEPT ![i].pc = "run", ![i].job = j]
              /\ runs' = [runs EXCEPT ![j] = IF i \in Tooled /\ added[j] = "at" THEN @ + 1 ELSE @]
    /\ UNCHANGED <<now, store, file, service, draft, added>>

\* Mutant: the rest of the batch is left.
OneRun(i) == At(i, "next") /\ Goto(i, "compute") /\ UNCHANGED onlyLoop
AllRun(i) ==
    At(i, "next") /\ loop[i].due = {} /\ Goto(i, "compute") /\ UNCHANGED onlyLoop

\* The handler has returned: a one-shot job is deleted, any other gets its
\* next run, also when it was disabled meanwhile.
AfterRun(row) ==
    IF row.schedule.kind = "at" THEN None
    ELSE [row EXCEPT !.next = NextRun(row.schedule, now)]

JobReturns(i) ==
    LET j == loop[i].job
        jobs == [store[i] EXCEPT ![j] = AfterRun(@)]
    IN  /\ At(i, "run")
        /\ IF store[i][j] = None THEN UNCHANGED <<store, file>>
           ELSE Change(i, jobs) /\ Save(jobs)
        /\ loop' = [loop EXCEPT ![i].pc = "next", ![i].due = @ \ {j}, ![i].job = None]
        /\ UNCHANGED <<now, service, draft, added, runs>>

-----------------------------------------------------------------------------
Tick == now < Horizon /\ now' = now + 1 /\ UNCHANGED <<store, file, service, loop, draft, added, runs>>

LoopStep(i) ==
    \/ ComputeWake(i)
    \/ EnterSelect(i)
    \/ EndLoop(i)
    \/ TimerFires(i)
    \/ CheckJobs(i)
    \/ RunJob(i)
    \/ AllRun(i)
    \/ JobReturns(i)

ChangeJobs(i) ==
    \/ \E j \in Jobs : \E s \in NewSchedules(i) : AddJob(i, j, s)
    \/ UpdateJob(i)
    \/ \E j \in Jobs : RemoveJob(i, j)
    \/ \E j \in Jobs : \E enabled \in BOOLEAN : EnableJob(i, j, enabled)

Next ==
    \/ \E i \in Instances : NewCronService(i) \/ Start(i) \/ Stop(i)
    \/ \E i \in Instances : ChangeJobs(i) \/ LoopStep(i)
    \/ Crash
    \/ Tick

Spec == Init /\ [][Next]_vars

\* Time passes, the loop runs on, and a handler returns: turns of the agent and
\* commands have timeouts.  Where a notification and the timer meet, select
\* takes either, and so the timer in the long run.
FairSpec ==
    /\ Spec /\ WF_vars(Tick)
    /\ \A i \in Instances : WF_vars(LoopStep(i)) /\ SF_vars(TimerFires(i))

-----------------------------------------------------------------------------
\* A one-shot job runs once at most: not again after a crash, by the next
\* instance, because a stale copy brought it back, or because its deletion was
\* not saved.
OneShotRunsOnce == \A j \in Jobs : runs[j] <= 1

\* A running service never forgets an enabled job: it has a next run, or is
\* among the jobs the loop is running, or its schedule had none when asked: a
\* one-shot whose time has passed, a period of nothing, or an expression
\* without a later tick.
NoRun(s) == \E t \in 0..now : NextRun(s, t) = None
NeverUnscheduled ==
    \A i \in Instances : service[i] = "running" =>
        \A j \in Known(store[i]) : LET row == store[i][j] IN
            row.enabled /\ row.next = None => j \in loop[i].due \/ NoRun(row.schedule)

\* A one-shot job scheduled on a service that goes on is run, although its
\* notification may be lost and other jobs run or come and go: it is taken up
\* at its time, or when the timer fires that the loop had armed before it heard
\* of the job, unless it is removed, disabled, or enabled once more after its
\* time; taken up it is run, also when the service stops or the job is disabled
\* meanwhile, unless it is removed or the process ends.
Waits(i, j) ==
    /\ service[i] = "running"
    /\ j \in Ready(store[i])
    /\ Max({now, store[i][j].next, loop[i].wake}) <= Horizon
TakenUp(i, j) == j \in loop[i].due
GivenUp(i, j) ==
    \/ store[i][j] = None \/ service[i] = "dead"
    \/ ~TakenUp(i, j) /\ (service[i] # "running" \/ j \notin Ready(store[i]))
DueJobRuns ==
    \A i \in Tooled, j \in Jobs :
        added[j] = "at" /\ (Waits(i, j) \/ TakenUp(i, j)) ~> runs[j] > 0 \/ GivenUp(i, j)
=============================================================================
