---------------------------- MODULE Cron_proofs ----------------------------
(***************************************************************************)
(* That a one-shot job runs at most once, and that a running service never *)
(* forgets an enabled job: for any number of jobs and of instances of the  *)
(* service on one file, whatever stops, crashes, fails to save or writes   *)
(* an old copy back.                                                       *)
(***************************************************************************)
EXTENDS Cron, DataLemmas, TLAPS

-----------------------------------------------------------------------------
LEMMA MinOfTimes ==
    ASSUME NEW S \in SUBSET Nat, S # {}
    PROVE  Min(S) \in Nat
BY LeastExists DEF Min

-----------------------------------------------------------------------------
Rows == [Jobs -> Job \cup {None}]
States == {"none", "loaded", "running", "stopped", "dead"}
LoopRecord ==
    [pc : {"none", "compute", "arm", "select", "check", "next", "run"},
     wake : Nat, due : SUBSET Jobs, job : Jobs \cup {None}]

LEMMA NextRunType ==
    ASSUME NEW s \in Schedule, NEW t \in 0..Horizon
    PROVE  NextRun(s, t) \in Nat \cup {None}
<1>1. CASE s \in [kind : {"at", "every"}, time : Nat]
    BY <1>1, CronAssumption DEF NextRun
<1>2. CASE s \in [kind : {"cron"}, expr : Exprs]
    BY <1>2, CronAssumption DEF NextRun
<1> QED BY <1>1, <1>2 DEF Schedule

LEMMA NewSchedulesType ==
    ASSUME now \in Nat, NEW i \in Instances, NEW s \in NewSchedules(i)
    PROVE  s \in Schedule /\ s.kind \in {"at", "every", "cron"}
<1>1. CASE s \in [kind : {"cron"}, expr : Exprs]
    BY <1>1 DEF Schedule
<1>2. CASE s \in [kind : {"every"}, time : IF IsCommand(i) THEN Periods \ {0} ELSE Periods]
    BY <1>2, CronAssumption DEF Schedule
<1>3. CASE \E d \in Delays : s = [kind |-> "at", time |-> now + d]
  <2>1. PICK d \in Delays : s = [kind |-> "at", time |-> now + d]
    BY <1>3
  <2>2. now + d \in Nat
    BY CronAssumption
  <2> QED BY <2>1, <2>2 DEF Schedule
<1> QED BY <1>1, <1>2, <1>3 DEF NewSchedules

LEMMA RecomputedType ==
    ASSUME NEW jobs \in Rows, now \in 0..Horizon
    PROVE  Recomputed(jobs) \in Rows
<1> SUFFICES ASSUME NEW j \in Jobs, jobs[j] # None
             PROVE  [jobs[j] EXCEPT !.next = NextRun(jobs[j].schedule, now)] \in Job
    BY DEF Recomputed, Rows
<1>1. jobs[j] \in Job
    BY DEF Rows
<1>2. NextRun(jobs[j].schedule, now) \in Nat \cup {None}
    BY <1>1, NextRunType DEF Job
<1> QED BY <1>1, <1>2 DEF Job

LEMMA WakeType ==
    ASSUME NEW jobs \in Rows, now \in Nat
    PROVE  Wake(jobs) \in Nat
<1> DEFINE times == {jobs[j].next : j \in Ready(jobs)}
<1>1. Ready(jobs) = {} => Wake(jobs) \in Nat
    BY CronAssumption DEF Wake, IdleWake
<1>2. times \in SUBSET Nat
    BY DEF Ready, Known, Job, Rows
<1>3. Ready(jobs) # {} => times # {}
    OBVIOUS
<1>4. Ready(jobs) # {} => Min(times) \in Nat
    BY <1>2, <1>3, MinOfTimes
<1> QED BY <1>1, <1>4 DEF Wake

LEMMA LoopChanges ==
    ASSUME NEW r \in LoopRecord
    PROVE  /\ \A wake \in Nat : [r EXCEPT !.pc = "arm", !.wake = wake] \in LoopRecord
           /\ [r EXCEPT !.pc = "select"] \in LoopRecord
           /\ [r EXCEPT !.pc = "compute"] \in LoopRecord
           /\ \A due \in SUBSET Jobs : /\ [r EXCEPT !.pc = "next", !.due = due] \in LoopRecord
                                      /\ [r EXCEPT !.due = due] \in LoopRecord
                                      /\ [r EXCEPT !.pc = "next", !.due = due, !.job = None] \in LoopRecord
           /\ \A job \in Jobs : [r EXCEPT !.pc = "run", !.job = job] \in LoopRecord
           /\ r.due \in SUBSET Jobs /\ r.job \in Jobs \cup {None}
BY DEF LoopRecord

\* A row is set or forgotten, and the rest of a store stays.
LEMMA RowSet ==
    ASSUME NEW jobs \in Rows, NEW j, NEW row, j \in Jobs => row \in Job \cup {None}
    PROVE  [jobs EXCEPT ![j] = row] \in Rows
BY DEF Rows

LEMMA LoopTypes ==
    /\ NoLoop \in LoopRecord /\ Computing \in LoopRecord
    /\ [NoLoop EXCEPT !.pc = "check"] \in LoopRecord
BY DEF NoLoop, Computing, LoopRecord

LEMMA NotifyType ==
    ASSUME loop \in [Instances -> LoopRecord], NEW i \in Instances, Notify(i)
    PROVE  loop' \in [Instances -> LoopRecord]
BY LoopTypes DEF Notify

LEMMA TypeStep == TypeOK /\ [Next]_vars => TypeOK'
<1> SUFFICES ASSUME TypeOK, [Next]_vars PROVE TypeOK'
    OBVIOUS
<1> USE CronAssumption
<1>1. /\ now \in Nat /\ now \in 0..Horizon
      /\ store \in [Instances -> Rows]
      /\ file \in Rows
      /\ service \in [Instances -> States]
      /\ loop \in [Instances -> LoopRecord]
      /\ draft \in [Instances -> Draft \cup {None}]
      /\ added \in [Jobs -> {"at", "every", "cron", None}]
      /\ runs \in [Jobs -> Nat]
    BY DEF TypeOK, LoopRecord, Rows, States
<1>2. NoJobs \in Rows
    BY DEF NoJobs, Rows
<1> DEFINE Goal ==
      /\ now' \in 0..Horizon
      /\ store' \in [Instances -> Rows]
      /\ file' \in Rows
      /\ service' \in [Instances -> States]
      /\ loop' \in [Instances -> LoopRecord]
      /\ draft' \in [Instances -> Draft \cup {None}]
      /\ added' \in [Jobs -> {"at", "every", "cron", None}]
      /\ runs' \in [Jobs -> Nat]
<1>3. Goal => TypeOK'
    BY DEF TypeOK, LoopRecord, Rows, States
<1>4. SUFFICES Goal
    BY <1>3
<1>5. ASSUME NEW i \in Instances, NewCronService(i) PROVE Goal
    BY <1>1, <1>2, <1>5 DEF NewCronService, Change, States
<1>6. ASSUME NEW i \in Instances, Start(i) PROVE Goal
  <2>1. Recomputed(file) \in Rows
    BY <1>1, RecomputedType
  <2>2. store' \in [Instances -> Rows]
    BY <1>1, <1>2, <1>6, <2>1 DEF Start, Change
  <2>3. loop' \in [Instances -> LoopRecord] /\ file' \in Rows
    BY <1>1, <1>6, <2>1, LoopTypes DEF Start
  <2>4. service' \in [Instances -> States]
    BY <1>1, <1>6 DEF Start, States
  <2> QED BY <1>1, <1>6, <2>2, <2>3, <2>4 DEF Start
<1>7. ASSUME NEW i \in Instances, Stop(i) PROVE Goal
    BY <1>1, <1>7 DEF Stop, States
<1>8. CASE Crash
    BY <1>1, <1>2, <1>8, LoopTypes DEF Crash, States
<1>9. ASSUME NEW i \in Instances, NEW jobs \in Rows, Changed(i, jobs)
      PROVE  store' \in [Instances -> Rows] /\ service' \in [Instances -> States]
    BY <1>1, <1>2, <1>9 DEF Changed, Change, States
<1>10. ASSUME NEW i \in Instances, NEW j \in Jobs, NEW s \in NewSchedules(i), AddJob(i, j, s)
       PROVE Goal
  <2> DEFINE row == [schedule |-> s, enabled |-> TRUE, next |-> NextRun(s, now)]
             jobs == [store[i] EXCEPT ![j] = row]
             copy == [job |-> j, row |-> row]
  <2>1. s \in Schedule /\ s.kind \in {"at", "every", "cron"}
    BY <1>1, NewSchedulesType
  <2>2. row \in Job
    BY <1>1, <2>1, NextRunType DEF Job
  <2>3. jobs \in Rows /\ copy \in Draft
    BY <1>1, <2>2, RowSet DEF Draft
  <2>4. /\ Changed(i, jobs) /\ UNCHANGED <<now, runs>>
        /\ added' = [added EXCEPT ![j] = s.kind]
        /\ file' = jobs \/ UNCHANGED file
        /\ Notify(i) \/ UNCHANGED loop
        /\ UNCHANGED draft \/ draft' = [draft EXCEPT ![i] = copy]
    BY <1>10 DEF AddJob
  <2> HIDE DEF row, jobs, copy
  <2>5. loop' \in [Instances -> LoopRecord]
    BY <1>1, <2>4, NotifyType
  <2>6. draft' \in [Instances -> Draft \cup {None}]
    BY <1>1, <2>3, <2>4
  <2>7. added' \in [Jobs -> {"at", "every", "cron", None}]
    BY <1>1, <2>1, <2>4
  <2> QED BY <1>1, <1>9, <2>3, <2>4, <2>5, <2>6, <2>7
<1>11. ASSUME NEW i \in Instances, UpdateJob(i) PROVE Goal
  <2> DEFINE jobs == [store[i] EXCEPT ![draft[i].job] = draft[i].row]
  <2>1. draft[i].row \in Job /\ store[i] \in Rows
    BY <1>1, <1>11 DEF UpdateJob, Draft
  <2>2. jobs \in Rows
    BY <2>1, RowSet
  <2>3. \/ UNCHANGED <<store, file, loop>>
        \/ Change(i, jobs) /\ Save(jobs) /\ Notify(i)
    BY <1>11 DEF UpdateJob
  <2>4. draft' = [draft EXCEPT ![i] = None] /\ UNCHANGED <<now, service, added, runs>>
    BY <1>11 DEF UpdateJob
  <2> HIDE DEF jobs
  <2>5. loop' \in [Instances -> LoopRecord]
    BY <1>1, <2>3, NotifyType
  <2>6. store' \in [Instances -> Rows] /\ file' \in Rows
    BY <1>1, <2>2, <2>3 DEF Change, Save
  <2> QED BY <1>1, <2>4, <2>5, <2>6
<1>12. ASSUME NEW i \in Instances, NEW j \in Jobs, RemoveJob(i, j) PROVE Goal
  <2> DEFINE jobs == [store[i] EXCEPT ![j] = None]
  <2>1. jobs \in Rows
    BY <1>1, RowSet
  <2>2. Changed(i, jobs) /\ (Save(jobs) \/ UNCHANGED file)
    BY <1>12 DEF RemoveJob
  <2>3. Notify(i) /\ UNCHANGED <<now, draft, added, runs>>
    BY <1>12 DEF RemoveJob
  <2> HIDE DEF jobs
  <2>4. loop' \in [Instances -> LoopRecord]
    BY <1>1, <2>3, NotifyType
  <2> QED BY <1>1, <1>9, <2>1, <2>2, <2>3, <2>4 DEF Save
<1>13. ASSUME NEW i \in Instances, NEW j \in Jobs, NEW enabled \in BOOLEAN, EnableJob(i, j, enabled)
       PROVE Goal
  <2> DEFINE row == store[i][j]
             next == IF enabled THEN NextRun(row.schedule, now) ELSE None
             new == [row EXCEPT !.enabled = enabled, !.next = next]
             jobs == [store[i] EXCEPT ![j] = new]
  <2>1. row \in Job
    BY <1>1, <1>13 DEF EnableJob, Rows
  <2>2. next \in Nat \cup {None}
    BY <1>1, <2>1, NextRunType DEF Job
  <2>3. new \in Job
    BY <2>1, <2>2 DEF Job
  <2>4. jobs \in Rows
    BY <1>1, <2>3, RowSet
  <2>5. Changed(i, jobs) /\ Save(jobs) /\ Notify(i) /\ UNCHANGED <<now, draft, added, runs>>
    BY <1>13 DEF EnableJob
  <2> HIDE DEF jobs
  <2>6. loop' \in [Instances -> LoopRecord]
    BY <1>1, <2>5, NotifyType
  <2> QED BY <1>1, <1>9, <2>4, <2>5, <2>6 DEF Save
<1>14. ASSUME NEW i \in Instances, onlyLoop' = onlyLoop,
              NEW r \in LoopRecord, loop' = [loop EXCEPT ![i] = r]
       PROVE Goal
    BY <1>1, <1>14 DEF onlyLoop
<1>15. ASSUME NEW i \in Instances, ComputeWake(i) \/ EnterSelect(i) \/ AllRun(i) PROVE Goal
  <2>1. Wake(store[i]) \in Nat /\ loop[i] \in LoopRecord
    BY <1>1, WakeType
  <2>2. /\ [loop[i] EXCEPT !.pc = "arm", !.wake = Wake(store[i])] \in LoopRecord
        /\ [loop[i] EXCEPT !.pc = "select"] \in LoopRecord
        /\ [loop[i] EXCEPT !.pc = "compute"] \in LoopRecord
    BY <2>1, LoopChanges
  <2>3. \/ loop' = [loop EXCEPT ![i] = [loop[i] EXCEPT !.pc = "arm", !.wake = Wake(store[i])]]
        \/ loop' = [loop EXCEPT ![i] = [loop[i] EXCEPT !.pc = "select"]]
        \/ loop' = [loop EXCEPT ![i] = [loop[i] EXCEPT !.pc = "compute"]]
    BY <1>1, <1>15 DEF ComputeWake, EnterSelect, AllRun, Goto
  <2>4. onlyLoop' = onlyLoop
    BY <1>15 DEF ComputeWake, EnterSelect, AllRun
  <2> QED BY <1>14, <2>2, <2>3, <2>4
<1>16. ASSUME NEW i \in Instances, EndLoop(i) \/ TimerFires(i) PROVE Goal
    BY <1>14, <1>16, LoopTypes DEF EndLoop, TimerFires
<1>17. ASSUME NEW i \in Instances, CheckJobs(i) PROVE Goal
  <2> DEFINE due == Due(store[i])
             jobs == [j \in Jobs |-> IF j \in due THEN [store[i][j] EXCEPT !.next = None]
                                     ELSE store[i][j]]
  <2>1. due \in SUBSET Jobs /\ \A j \in due : store[i][j] \in Job
    BY <1>1 DEF Due, Ready, Known, Rows
  <2>2. \A j \in due : [store[i][j] EXCEPT !.next = None] \in Job
    BY <2>1 DEF Job
  <2>3. jobs \in Rows
    BY <1>1, <2>2 DEF Rows
  <2>4. /\ [loop[i] EXCEPT !.pc = "next", !.due = due] \in LoopRecord
        /\ [loop[i] EXCEPT !.pc = "compute"] \in LoopRecord
    BY <1>1, <2>1, LoopChanges
  <2>5. \/ /\ Change(i, jobs) /\ Save(jobs)
           /\ loop' = [loop EXCEPT ![i] = [loop[i] EXCEPT !.pc = "next", !.due = due]]
        \/ loop' = [loop EXCEPT ![i] = [loop[i] EXCEPT !.pc = "compute"]] /\ UNCHANGED <<store, file>>
    BY <1>1, <1>17 DEF CheckJobs, Goto
  <2>6. UNCHANGED <<now, service, draft, added, runs>>
    BY <1>17 DEF CheckJobs
  <2> HIDE DEF jobs, due
  <2>7. store' \in [Instances -> Rows] /\ file' \in Rows
    BY <1>1, <2>3, <2>5 DEF Change, Save
  <2>8. loop' \in [Instances -> LoopRecord]
    BY <1>1, <2>4, <2>5
  <2> QED BY <1>1, <2>6, <2>7, <2>8
<1>18. ASSUME NEW i \in Instances, RunJob(i) PROVE Goal
  <2>1. PICK j \in loop[i].due :
          \/ /\ loop' = [loop EXCEPT ![i] = [loop[i] EXCEPT !.due = loop[i].due \ {j}]]
             /\ UNCHANGED runs
          \/ /\ loop' = [loop EXCEPT ![i] = [loop[i] EXCEPT !.pc = "run", !.job = j]]
             /\ runs' = [runs EXCEPT ![j] = IF i \in Tooled /\ added[j] = "at" THEN @ + 1 ELSE @]
    BY <1>1, <1>18 DEF RunJob
  <2>2. loop[i] \in LoopRecord /\ loop[i].due \in SUBSET Jobs
    BY <1>1, LoopChanges
  <2>3. j \in Jobs /\ loop[i].due \ {j} \in SUBSET Jobs
    BY <2>2
  <2>4. /\ [loop[i] EXCEPT !.due = loop[i].due \ {j}] \in LoopRecord
        /\ [loop[i] EXCEPT !.pc = "run", !.job = j] \in LoopRecord
    BY <2>2, <2>3, LoopChanges
  <2>5. loop' \in [Instances -> LoopRecord]
    BY <1>1, <2>1, <2>4
  <2>6. runs' \in [Jobs -> Nat]
    BY <1>1, <2>1, <2>3
  <2> QED BY <1>1, <1>18, <2>5, <2>6 DEF RunJob
<1>19. ASSUME NEW i \in Instances, JobReturns(i) PROVE Goal
  <2> DEFINE j == loop[i].job
             jobs == [store[i] EXCEPT ![j] = AfterRun(store[i][j])]
             new == [loop[i] EXCEPT !.pc = "next", !.due = loop[i].due \ {j}, !.job = None]
  <2>1. loop[i] \in LoopRecord /\ loop[i].due \ {j} \in SUBSET Jobs
    BY <1>1, LoopChanges
  <2>2. new \in LoopRecord
    BY <2>1, LoopChanges
  <2>3. store[i][j] # None => jobs \in Rows
    <3>1. CASE j \in Jobs /\ store[i][j] # None
      <4>1. store[i][j] \in Job
        BY <1>1, <3>1 DEF Rows
      <4>2. AfterRun(store[i][j]) \in Job \cup {None}
        BY <1>1, <4>1, NextRunType DEF AfterRun, Job
      <4> QED BY <1>1, <4>2, RowSet
    <3>2. CASE j \notin Jobs
      BY <1>1, <3>2, RowSet
    <3> QED BY <3>1, <3>2
  <2>4. \/ UNCHANGED <<store, file>>
        \/ store[i][j] # None /\ Change(i, jobs) /\ Save(jobs)
    BY <1>1, <1>19 DEF JobReturns
  <2>5. loop' = [loop EXCEPT ![i] = new] /\ UNCHANGED <<now, service, draft, added, runs>>
    BY <1>1, <1>19 DEF JobReturns
  <2> HIDE DEF j, jobs, new
  <2>6. store' \in [Instances -> Rows] /\ file' \in Rows
    BY <1>1, <2>3, <2>4 DEF Change, Save
  <2> QED BY <1>1, <2>2, <2>5, <2>6
<1>20. CASE Tick
    BY <1>1, <1>20 DEF Tick
<1>21. CASE UNCHANGED vars
    BY <1>1, <1>21 DEF vars
<1> QED
    BY <1>5, <1>6, <1>7, <1>8, <1>10, <1>11, <1>12, <1>13, <1>15, <1>16, <1>17, <1>18,
       <1>19, <1>20, <1>21 DEF Next, ChangeJobs, LoopStep

\* Every variable of the schedulers keeps its type, and the loop's next wake-up
\* is a time (computeNextRun, getNextWakeMS).
THEOREM TypeCorrect == Spec => []TypeOK
<1>1. Init => TypeOK
    BY CronAssumption, LoopTypes DEF Init, TypeOK, NoJobs, LoopRecord
<1> QED BY <1>1, TypeStep, PTL DEF Spec

-----------------------------------------------------------------------------
\* Only a loop that runs a batch has claimed jobs; what it runs is one of them.
\* There is one running service, and a copy that AddJob returned is of one that
\* was running.
LoopInv ==
    /\ \A i \in Instances : loop[i].pc \notin {"next", "run"} => loop[i].due = {}
    /\ \A i \in Instances :
         IF loop[i].pc = "run" THEN loop[i].job \in loop[i].due ELSE loop[i].job = None
    /\ \A i \in Instances : service[i] \in {"none", "loaded"} => draft[i] = None
    /\ \A i, k \in Instances : service[i] = "running" /\ service[k] = "running" => i = k

\* The schedule a job was added with is that of every row of it: in memory, in
\* the file, and in a copy that may be written back.  A one-shot job has its own
\* time as next run or none.
Fits(plan, j, row) ==
    /\ added[j] # None /\ row.schedule = plan[j]
    /\ plan[j].kind = "at" => row.next \in {None, plan[j].time}
RowsFit(plan, jobs) == \A j \in Known(jobs) : Fits(plan, j, jobs[j])
PlanInv(plan) ==
    /\ \A j \in Jobs : added[j] # None => plan[j].kind = added[j]
    /\ \A i \in Instances : RowsFit(plan, store[i])
    /\ RowsFit(plan, file)
    /\ \A i \in Instances : draft[i] # None => Fits(plan, draft[i].job, draft[i].row)

\* Claimed: checkJobs has taken the job and executeJobByID not finished with it.
\* MayClaim: the next checkJobs of a running service may take it.
Claimed(i, j) == j \in loop[i].due
MayClaim(i, j) ==
    /\ service[i] = "running" /\ store[i][j] # None
    /\ \/ store[i][j].enabled /\ store[i][j].next # None
       \/ draft[i] # None /\ draft[i].job = j

\* A one-shot job is claimed by one loop at a time, at its time or later, and
\* once called it can be claimed by nobody.
Once(plan, j) ==
    /\ runs[j] # 0 \/ (\E i \in Instances : Claimed(i, j)) => plan[j].time <= now
    /\ \A i \in Instances : Claimed(i, j) =>
         /\ runs[j] <= IF loop[i].job = j THEN 1 ELSE 0
         /\ \A k \in Instances : Claimed(k, j) => k = i
    /\ \A i \in Instances : MayClaim(i, j) =>
         /\ runs[j] = 0 \/ loop[i].job = j
         /\ \A k \in Instances : Claimed(k, j) => k = i
    /\ runs[j] <= 1
OnceInv(plan) ==
    \A j \in Jobs : /\ added[j] = None => runs[j] = 0 /\ \A i \in Instances : ~Claimed(i, j)
                    /\ added[j] = "at" => Once(plan, j)


LEMMA LoopFacts ==
    ASSUME TypeOK
    PROVE  /\ now \in Nat /\ loop \in [Instances -> LoopRecord]
           /\ service \in [Instances -> States] /\ draft \in [Instances -> Draft \cup {None}]
           /\ store \in [Instances -> Rows] /\ file \in Rows
           /\ added \in [Jobs -> {"at", "every", "cron", None}] /\ runs \in [Jobs -> Nat]
           /\ \A i \in Instances : /\ DOMAIN loop[i] = {"pc", "wake", "due", "job"}
                                   /\ loop[i].job \in Jobs \cup {None}
                                   /\ loop[i].due \subseteq Jobs
           /\ \A i \in Instances, j \in Jobs : store[i][j] # None => store[i][j] \in Job
BY CronAssumption DEF TypeOK, LoopRecord, Rows, States

\* What a notification does to a loop: nothing, or it takes a loop that has
\* claimed nothing out of its select.
LEMMA Notified ==
    ASSUME TypeOK, LoopInv, NEW i \in Instances, Notify(i) \/ UNCHANGED loop
    PROVE  /\ \A k \in Instances : loop'[k].due = loop[k].due /\ loop'[k].job = loop[k].job
           /\ \A k \in Instances : loop'[k].pc \in {"next", "run"} <=> loop[k].pc \in {"next", "run"}
           /\ \A k \in Instances : loop'[k].pc = "run" <=> loop[k].pc = "run"
<1>1. CASE UNCHANGED loop
    BY <1>1
<1>2. CASE loop[i].pc = "select" /\ loop' = [loop EXCEPT ![i] = Computing]
  <2>1. /\ loop[i].due = {} /\ loop[i].job = None
        /\ Computing.due = {} /\ Computing.job = None /\ Computing.pc = "compute"
    BY <1>2 DEF LoopInv, Computing, NoLoop
  <2>2. \A k \in Instances : loop'[k] = IF k = i THEN Computing ELSE loop[k]
    BY <1>2, LoopFacts
  <2> QED BY <1>2, <2>1, <2>2
<1> QED BY <1>1, <1>2 DEF Notify

LEMMA LoopInvStep == TypeOK /\ LoopInv /\ [Next]_vars => LoopInv'
<1> SUFFICES ASSUME TypeOK, LoopInv, [Next]_vars PROVE LoopInv'
    OBVIOUS
<1> DEFINE Batches == /\ \A i \in Instances : loop'[i].pc \notin {"next", "run"} => loop'[i].due = {}
                      /\ \A i \in Instances :
                           IF loop'[i].pc = "run" THEN loop'[i].job \in loop'[i].due
                           ELSE loop'[i].job = None
           Copies == \A i \in Instances : service'[i] \in {"none", "loaded"} => draft'[i] = None
           Alone == \A i, k \in Instances : service'[i] = "running" /\ service'[k] = "running" => i = k
<1>1. Batches /\ Copies /\ Alone => LoopInv'
    BY DEF LoopInv
<1>2. ASSUME NEW i \in Instances, Notify(i) \/ UNCHANGED loop PROVE Batches
    BY <1>2, Notified DEF LoopInv
<1>3. NoLoop.due = {} /\ NoLoop.job = None /\ NoLoop.pc = "none"
      /\ Computing.due = {} /\ Computing.job = None /\ Computing.pc = "compute"
    BY DEF NoLoop, Computing
<1>4. UNCHANGED <<service, draft>> => Copies /\ Alone
    BY DEF LoopInv
<1>5. ASSUME NEW i \in Instances, NewCronService(i) \/ Start(i) \/ Stop(i) PROVE LoopInv'
    BY <1>1, <1>3, <1>5, LoopFacts DEF NewCronService, Start, Stop, LoopInv
<1>6. CASE Crash
    BY <1>1, <1>3, <1>6, LoopFacts DEF Crash
<1>7. ASSUME NEW i \in Instances, NEW jobs, Changed(i, jobs) PROVE Alone
    BY <1>7, LoopFacts DEF Changed, IsCommand, LoopInv
<1>8. ASSUME NEW i \in Instances, NEW jobs, Changed(i, jobs), UNCHANGED draft PROVE Copies
    BY <1>8, LoopFacts DEF Changed, IsCommand, LoopInv
<1>9. ASSUME NEW i \in Instances, NEW j \in Jobs, NEW s \in NewSchedules(i), AddJob(i, j, s)
      PROVE LoopInv'
  <2>1. Batches /\ Alone
    BY <1>2, <1>7, <1>9 DEF AddJob
  <2>2. Copies
    <3>1. CASE UNCHANGED draft
      BY <1>8, <1>9, <3>1 DEF AddJob
    <3>2. CASE ~UNCHANGED draft
      BY <1>9, <3>2, LoopFacts DEF AddJob, LoopInv, Changed, IsCommand, Usable
    <3> QED BY <3>1, <3>2
  <2> QED BY <1>1, <2>1, <2>2
<1>10. ASSUME NEW i \in Instances, UpdateJob(i) PROVE LoopInv'
  <2>1. Copies /\ Alone
    BY <1>10, LoopFacts DEF UpdateJob, LoopInv
  <2> QED BY <1>1, <1>2, <1>10, <2>1 DEF UpdateJob
<1>11. ASSUME NEW i \in Instances, NEW j \in Jobs, RemoveJob(i, j) PROVE LoopInv'
    BY <1>1, <1>2, <1>7, <1>8, <1>11 DEF RemoveJob
<1>12. ASSUME NEW i \in Instances, NEW j \in Jobs, NEW enabled \in BOOLEAN, EnableJob(i, j, enabled)
       PROVE LoopInv'
    BY <1>1, <1>2, <1>7, <1>8, <1>12 DEF EnableJob
<1>13. ASSUME NEW i \in Instances, LoopStep(i) PROVE LoopInv'
  <2>1. Copies /\ Alone
    BY <1>4, <1>13 DEF LoopStep, ComputeWake, EnterSelect, EndLoop, TimerFires, CheckJobs, RunJob,
                       AllRun, JobReturns, onlyLoop
  <2>2. \A k \in Instances \ {i} : loop'[k] = loop[k]
    BY <1>13, LoopFacts DEF LoopStep, ComputeWake, EnterSelect, EndLoop, TimerFires, CheckJobs,
                       RunJob, AllRun, JobReturns, Goto
  <2>3. /\ loop'[i].pc \notin {"next", "run"} => loop'[i].due = {}
        /\ IF loop'[i].pc = "run" THEN loop'[i].job \in loop'[i].due ELSE loop'[i].job = None
    <3>1. CASE ComputeWake(i) \/ EnterSelect(i) \/ AllRun(i) \/ CheckJobs(i)
      BY <3>1, LoopFacts DEF ComputeWake, EnterSelect, AllRun, CheckJobs, Goto, At, LoopInv
    <3>2. CASE EndLoop(i) \/ TimerFires(i)
      BY <1>3, <3>2, LoopFacts DEF EndLoop, TimerFires, NoLoop
    <3>3. CASE RunJob(i)
      BY <3>3, LoopFacts DEF RunJob, At, LoopInv
    <3>4. CASE JobReturns(i)
      BY <3>4, LoopFacts DEF JobReturns
    <3> QED BY <1>13, <3>1, <3>2, <3>3, <3>4 DEF LoopStep
  <2>4. Batches
    BY <2>2, <2>3 DEF LoopInv
  <2> QED BY <1>1, <2>1, <2>4
<1>14. CASE Tick \/ UNCHANGED vars
    BY <1>14 DEF Tick, vars, LoopInv
<1> QED
    BY <1>5, <1>6, <1>9, <1>10, <1>11, <1>12, <1>13, <1>14 DEF Next, ChangeJobs

-----------------------------------------------------------------------------
LEMMA PlanParts ==
    ASSUME NEW plan, UNCHANGED added,
           \A i \in Instances : RowsFit(plan, store'[i]), RowsFit(plan, file'),
           \A i \in Instances : draft'[i] # None => Fits(plan, draft'[i].job, draft'[i].row),
           PlanInv(plan)
    PROVE  PlanInv(plan)'
BY DEF PlanInv, RowsFit, Known, Fits

\* Nothing but next and enabled ever changes in a row.
LEMMA NextFits ==
    ASSUME NEW plan, NEW j, NEW row \in Job, Fits(plan, j, row), NEW enabled \in BOOLEAN
    PROVE  /\ Fits(plan, j, [row EXCEPT !.next = None])
           /\ Fits(plan, j, [row EXCEPT !.next = NextRun(row.schedule, now)])
           /\ Fits(plan, j, [row EXCEPT !.enabled = enabled, !.next = None])
           /\ Fits(plan, j, [row EXCEPT !.enabled = enabled, !.next = NextRun(row.schedule, now)])
BY DEF Fits, NextRun, Job

LEMMA PlanKept ==
    ASSUME TypeOK, LoopInv, [Next]_vars, UNCHANGED added, NEW plan \in [Jobs -> Schedule], PlanInv(plan)
    PROVE  PlanInv(plan)'
<1> DEFINE Stores == \A i \in Instances : RowsFit(plan, store'[i])
           Drafts == \A i \in Instances : draft'[i] # None =>
                        Fits(plan, draft'[i].job, draft'[i].row)
<1>1. /\ \A i \in Instances : RowsFit(plan, store[i])
      /\ RowsFit(plan, file) /\ RowsFit(plan, NoJobs)
      /\ \A i \in Instances : draft[i] # None => Fits(plan, draft[i].job, draft[i].row)
    BY DEF PlanInv, RowsFit, Known, NoJobs
<1>2. SUFFICES Stores /\ RowsFit(plan, file') /\ Drafts
    BY PlanParts
<1>3. UNCHANGED draft => Drafts
    BY <1>1
<1>4. ASSUME NEW i \in Instances, NEW jobs, RowsFit(plan, jobs), Changed(i, jobs) \/ Change(i, jobs)
      PROVE Stores
    BY <1>1, <1>4, LoopFacts DEF Changed, Change
<1>5. ASSUME NEW jobs, RowsFit(plan, jobs), Save(jobs) PROVE RowsFit(plan, file')
    BY <1>1, <1>5 DEF Save
<1>6. ASSUME NEW i \in Instances, NEW j, NEW row, j \in Jobs /\ row # None => Fits(plan, j, row)
      PROVE RowsFit(plan, [store[i] EXCEPT ![j] = row])
  <2>1. DOMAIN store[i] = Jobs
    BY LoopFacts DEF Rows
  <2> QED BY <1>1, <1>6, <2>1 DEF RowsFit, Known
<1>7. \A i \in Instances, j \in Jobs : RowsFit(plan, [store[i] EXCEPT ![j] = None])
    BY <1>6
<1>8. ASSUME NEW i \in Instances, NewCronService(i) \/ Start(i) PROVE Stores /\ RowsFit(plan, file') /\ Drafts
  <2>1. RowsFit(plan, Recomputed(file))
    <3> SUFFICES ASSUME NEW j \in Jobs, file[j] # None
                 PROVE Fits(plan, j, [file[j] EXCEPT !.next = NextRun(file[j].schedule, now)])
      BY <1>1 DEF Recomputed, RowsFit, Known
    <3>1. file[j] \in Job /\ Fits(plan, j, file[j])
      BY <1>1, LoopFacts DEF RowsFit, Known, Rows
    <3> QED BY <3>1, NextFits
  <2> QED BY <1>1, <1>3, <1>4, <1>8, <2>1 DEF NewCronService, Start
<1>9. ASSUME NEW i \in Instances, Stop(i) PROVE Stores /\ RowsFit(plan, file') /\ Drafts
    BY <1>1, <1>3, <1>9 DEF Stop
<1>10. CASE Crash
    BY <1>1, <1>10 DEF Crash
<1>11. ASSUME NEW i \in Instances, UpdateJob(i) PROVE Stores /\ RowsFit(plan, file') /\ Drafts
  <2>1. RowsFit(plan, [store[i] EXCEPT ![draft[i].job] = draft[i].row])
    BY <1>1, <1>6, <1>11 DEF UpdateJob
  <2>2. Drafts
    BY <1>1, <1>11, LoopFacts DEF UpdateJob
  <2> QED BY <1>1, <1>4, <1>5, <1>11, <2>1, <2>2 DEF UpdateJob
<1>12. ASSUME NEW i \in Instances, NEW j \in Jobs, RemoveJob(i, j)
       PROVE Stores /\ RowsFit(plan, file') /\ Drafts
    BY <1>1, <1>3, <1>4, <1>5, <1>7, <1>12 DEF RemoveJob
<1>13. ASSUME NEW i \in Instances, NEW j \in Jobs, NEW enabled \in BOOLEAN, EnableJob(i, j, enabled)
       PROVE Stores /\ RowsFit(plan, file') /\ Drafts
  <2> DEFINE row == store[i][j]
             next == IF enabled THEN NextRun(row.schedule, now) ELSE None
             new == [row EXCEPT !.enabled = enabled, !.next = next]
  <2>1. row \in Job /\ Fits(plan, j, row)
    BY <1>1, <1>13, LoopFacts DEF EnableJob, RowsFit, Known
  <2>2. Fits(plan, j, new)
    BY <2>1, NextFits
  <2>3. RowsFit(plan, [store[i] EXCEPT ![j] = new])
    BY <1>6, <2>2
  <2>4. /\ Changed(i, [store[i] EXCEPT ![j] = new])
        /\ Save([store[i] EXCEPT ![j] = new]) /\ UNCHANGED draft
    BY <1>13 DEF EnableJob
  <2> QED BY <1>3, <1>4, <1>5, <2>3, <2>4
<1>14. ASSUME NEW i \in Instances, LoopStep(i) PROVE Stores /\ RowsFit(plan, file') /\ Drafts
  <2>1. UNCHANGED draft
    BY <1>14 DEF LoopStep, ComputeWake, EnterSelect, EndLoop, TimerFires, CheckJobs, RunJob,
                AllRun, JobReturns, onlyLoop
  <2>2. ASSUME CheckJobs(i) PROVE Stores /\ RowsFit(plan, file')
    <3> DEFINE due == Due(store[i])
               jobs == [j \in Jobs |-> IF j \in due THEN [store[i][j] EXCEPT !.next = None]
                                       ELSE store[i][j]]
    <3>1. RowsFit(plan, jobs)
      <4> SUFFICES ASSUME NEW j \in due PROVE Fits(plan, j, [store[i][j] EXCEPT !.next = None])
        BY <1>1 DEF RowsFit, Known
      <4>1. j \in Jobs /\ store[i][j] # None
        BY DEF Due, Ready, Known
      <4>2. store[i][j] \in Job /\ Fits(plan, j, store[i][j])
        BY <1>1, <4>1, LoopFacts DEF RowsFit, Known
      <4> QED BY <4>1, <4>2, NextFits
    <3>2. (Change(i, jobs) /\ Save(jobs)) \/ UNCHANGED <<store, file>>
      BY <2>2 DEF CheckJobs
    <3> HIDE DEF jobs
    <3> QED BY <1>1, <1>4, <1>5, <3>1, <3>2
  <2>3. ASSUME JobReturns(i) PROVE Stores /\ RowsFit(plan, file')
    <3> DEFINE j == loop[i].job
               jobs == [store[i] EXCEPT ![j] = AfterRun(store[i][j])]
    <3>1. ASSUME store[i][j] # None, j \in Jobs, AfterRun(store[i][j]) # None
          PROVE  Fits(plan, j, AfterRun(store[i][j]))
      <4>1. store[i][j] \in Job /\ Fits(plan, j, store[i][j])
        BY <1>1, <3>1, LoopFacts DEF RowsFit, Known
      <4> QED BY <3>1, <4>1, NextFits DEF AfterRun
    <3>2. store[i][j] # None => RowsFit(plan, jobs)
      BY <1>6, <3>1
    <3>3. (store[i][j] # None /\ Change(i, jobs) /\ Save(jobs)) \/ UNCHANGED <<store, file>>
      BY <2>3, LoopFacts DEF JobReturns
    <3> HIDE DEF jobs
    <3> QED BY <1>1, <1>4, <1>5, <3>2, <3>3
  <2>4. CASE UNCHANGED <<store, file>>
    BY <1>1, <1>3, <2>1, <2>4
  <2> QED BY <1>3, <1>14, <2>1, <2>2, <2>3, <2>4
          DEF LoopStep, ComputeWake, EnterSelect, EndLoop, TimerFires, RunJob, AllRun, onlyLoop
<1>15. CASE Tick \/ UNCHANGED vars
    BY <1>1, <1>3, <1>15 DEF Tick, vars
<1>16. ASSUME NEW i \in Instances, NEW j \in Jobs, NEW s \in NewSchedules(i), AddJob(i, j, s)
       PROVE FALSE
  <2>1. s.kind # None
    BY CronAssumption, <1>16, LoopFacts, NewSchedulesType
  <2> QED BY <1>16, <2>1, LoopFacts DEF AddJob
<1> QED
    BY <1>8, <1>9, <1>10, <1>11, <1>12, <1>13, <1>14, <1>15, <1>16 DEF Next, ChangeJobs

\* A new job: nothing of it is anywhere yet.
LEMMA PlanGrows ==
    ASSUME TypeOK, LoopInv, NEW plan \in [Jobs -> Schedule], PlanInv(plan),
           NEW i \in Instances, NEW j \in Jobs, NEW s \in NewSchedules(i), AddJob(i, j, s)
    PROVE  s \in Schedule /\ PlanInv([plan EXCEPT ![j] = s])'
<1> DEFINE new == [plan EXCEPT ![j] = s]
           row == [schedule |-> s, enabled |-> TRUE, next |-> NextRun(s, now)]
           jobs == [store[i] EXCEPT ![j] = row]
           copy == [job |-> j, row |-> row]
<1>1. s \in Schedule /\ s.kind # None /\ added[j] = None
    BY CronAssumption, LoopFacts, NewSchedulesType DEF AddJob
<1>2. s.kind = "at" => NextRun(s, now) \in {None, s.time}
    BY DEF NextRun
<1>3. /\ added' = [added EXCEPT ![j] = s.kind] /\ Changed(i, jobs)
      /\ file' = jobs \/ UNCHANGED file
      /\ UNCHANGED draft \/ draft' = [draft EXCEPT ![i] = copy]
    BY DEF AddJob
<1>4. /\ \A k \in Jobs \ {j} : new[k] = plan[k] /\ added'[k] = added[k]
      /\ new[j] = s /\ added'[j] = s.kind
    BY <1>3, LoopFacts
<1>5. row.schedule = s /\ row.next = NextRun(s, now) /\ copy.job = j /\ copy.row = row
    OBVIOUS
<1>6. /\ \A k \in Jobs \ {j} : jobs[k] = store[i][k]
      /\ jobs[j] = row
    BY LoopFacts DEF Rows
<1> DEFINE FitsNow(k, r) == /\ added'[k] # None /\ r.schedule = new[k]
                            /\ new[k].kind = "at" => r.next \in {None, new[k].time}
           RowsFitNow(rows) == \A k \in Jobs : rows[k] # None => FitsNow(k, rows[k])
<1> HIDE DEF new, row, jobs, copy
<1>7. ASSUME NEW k \in Jobs, NEW r, Fits(plan, k, r) PROVE FitsNow(k, r)
    BY <1>1, <1>4, <1>7 DEF Fits
<1>8. FitsNow(j, row)
    BY <1>1, <1>2, <1>4, <1>5
<1> HIDE DEF FitsNow
<1>9. ASSUME NEW rows, RowsFit(plan, rows) PROVE RowsFitNow(rows)
    BY <1>7, <1>9 DEF RowsFit, Known
<1>10. RowsFitNow(jobs)
  <2> SUFFICES ASSUME NEW k \in Jobs, jobs[k] # None PROVE FitsNow(k, jobs[k])
    OBVIOUS
  <2>1. CASE k = j
    BY <1>6, <1>8, <2>1
  <2>2. CASE k # j
    BY <1>6, <1>7, <2>2 DEF PlanInv, RowsFit, Known
  <2> QED BY <2>1, <2>2
<1>11. RowsFitNow(NoJobs)
    BY DEF NoJobs
<1>12. (\A k \in Instances : RowsFitNow(store[k])) /\ RowsFitNow(file)
    BY <1>9 DEF PlanInv
<1> HIDE DEF RowsFitNow
<1>13. \A k \in Instances : RowsFitNow(store'[k])
    BY <1>3, <1>10, <1>11, <1>12, LoopFacts DEF Changed, Change
<1>14. RowsFitNow(file')
    BY <1>3, <1>10, <1>12
<1>15. ASSUME NEW k \in Instances, draft'[k] # None
       PROVE  FitsNow(draft'[k].job, draft'[k].row)
  <2>1. CASE draft'[k] = draft[k]
    <3>1. draft[k].job \in Jobs
      BY <1>15, <2>1, LoopFacts DEF Draft
    <3> QED BY <1>7, <1>15, <2>1, <3>1 DEF PlanInv
  <2>2. CASE draft'[k] = copy
    BY <1>2, <1>5, <1>8, <2>2
  <2> QED BY <1>3, <2>1, <2>2, LoopFacts
<1>16. \A k \in Jobs : added'[k] # None => new[k].kind = added'[k]
    BY <1>1, <1>4 DEF PlanInv
<1>17. PlanInv(new)'
    BY <1>13, <1>14, <1>15, <1>16 DEF PlanInv, RowsFit, Known, Fits, RowsFitNow, FitsNow
<1> QED BY <1>1, <1>17 DEF new

-----------------------------------------------------------------------------
\* Steps by which nobody claims or calls a job.
LEMMA NothingClaimed ==
    ASSUME TypeOK, NEW plan \in [Jobs -> Schedule], PlanInv(plan), OnceInv(plan),
           now' \in Nat, now <= now', UNCHANGED <<added, runs>>,
           \A k \in Instances : \/ loop'[k].due = {}
                                \/ loop'[k].due = loop[k].due /\ loop'[k].job = loop[k].job,
           \A i \in Instances, j \in Jobs : MayClaim(i, j)' /\ added[j] = "at" =>
              \/ now < plan[j].time
              \/ MayClaim(i, j) /\ loop'[i].job = loop[i].job
    PROVE  OnceInv(plan)'
<1> SUFFICES ASSUME NEW j \in Jobs
             PROVE  /\ added[j] = None => runs[j] = 0 /\ \A i \in Instances : ~Claimed(i, j)'
                    /\ added[j] = "at" => Once(plan, j)'
    BY DEF OnceInv
<1>1. \A i \in Instances : Claimed(i, j)' => Claimed(i, j) /\ loop'[i].job = loop[i].job
    BY DEF Claimed
<1>2. added[j] = None => runs[j] = 0 /\ \A i \in Instances : ~Claimed(i, j)'
    BY <1>1 DEF OnceInv
<1>3. ASSUME added[j] = "at" PROVE Once(plan, j)'
  <2> plan[j].kind = "at" /\ Once(plan, j) /\ now \in Nat
    BY <1>3, LoopFacts, CronAssumption DEF OnceInv, PlanInv
  <2>1. Once(plan, j) /\ plan[j].time \in Nat /\ now \in Nat
    <3>1. plan[j] \in Schedule
      OBVIOUS
    <3>2. CASE plan[j] \in [kind : {"at", "every"}, time : Nat]
      BY <3>2
    <3>3. CASE plan[j] \in [kind : {"cron"}, expr : Exprs]
      BY <3>3
    <3> QED BY <3>1, <3>2, <3>3 DEF Schedule
  <2>2. runs[j] # 0 \/ (\E i \in Instances : Claimed(i, j)') => plan[j].time <= now'
    BY <1>1, <2>1 DEF Once
  <2>3. ASSUME NEW i \in Instances, Claimed(i, j)'
        PROVE  /\ runs[j] <= IF loop'[i].job = j THEN 1 ELSE 0
               /\ \A k \in Instances : Claimed(k, j)' => k = i
    BY <1>1, <2>1, <2>3 DEF Once
  <2>4. ASSUME NEW i \in Instances, MayClaim(i, j)'
        PROVE  /\ runs[j] = 0 \/ loop'[i].job = j
               /\ \A k \in Instances : Claimed(k, j)' => k = i
    <3>1. CASE now < plan[j].time
      BY <1>1, <2>1, <3>1 DEF Once
    <3>2. CASE MayClaim(i, j) /\ loop'[i].job = loop[i].job
      BY <1>1, <2>1, <3>2 DEF Once
    <3> QED BY <1>3, <2>4, <3>1, <3>2
  <2> QED BY <2>1, <2>2, <2>3, <2>4 DEF Once
<1> QED BY <1>2, <1>3

\* checkJobs of the running service takes what is due.
LEMMA ChecksOnce ==
    ASSUME TypeOK, LoopInv, NEW plan \in [Jobs -> Schedule], PlanInv(plan), OnceInv(plan),
           NEW i \in Instances, CheckJobs(i), service[i] = "running"
    PROVE  OnceInv(plan)'
<1> SUFFICES ASSUME NEW j \in Jobs
             PROVE  /\ added[j] = None => runs[j] = 0 /\ \A k \in Instances : ~Claimed(k, j)'
                    /\ added[j] = "at" => Once(plan, j)'
    BY DEF OnceInv, CheckJobs
<1>1. /\ UNCHANGED <<now, service, draft, added, runs>>
      /\ loop' = [loop EXCEPT ![i].pc = "next", ![i].due = Due(store[i])]
      /\ loop[i].pc = "check"
    BY DEF CheckJobs, At
<1>2. /\ \A k \in Instances \ {i} : loop'[k] = loop[k]
      /\ loop'[i].due = Due(store[i]) /\ loop'[i].job = None /\ loop[i].due = {} /\ loop[i].job = None
    BY <1>1, LoopFacts DEF LoopInv
<1>3. ASSUME j \in Due(store[i])
      PROVE  /\ MayClaim(i, j) /\ store[i][j].next <= now
             /\ added[j] # None /\ (added[j] = "at" => plan[j].time <= now)
  <2>1. /\ store[i][j] # None /\ store[i][j].enabled /\ store[i][j].next # None
        /\ store[i][j].next <= now
    BY <1>3 DEF Due, Ready, Known
  <2>2. Fits(plan, j, store[i][j]) /\ (added[j] # None => plan[j].kind = added[j])
    BY <2>1 DEF PlanInv, RowsFit, Known
  <2> QED BY <2>1, <2>2 DEF MayClaim, Fits
<1>4. added[j] = None => runs[j] = 0 /\ \A k \in Instances : ~Claimed(k, j)'
    BY <1>2, <1>3 DEF OnceInv, Claimed
<1>5. ASSUME added[j] = "at" PROVE Once(plan, j)'
  <2>1. Once(plan, j) /\ None # j
    BY <1>5, CronAssumption DEF OnceInv
  <2>2. ASSUME j \in Due(store[i])
        PROVE  runs[j] = 0 /\ \A k \in Instances : k # i => ~Claimed(k, j)'
    BY <1>2, <1>3, <2>1, <2>2 DEF Once, Claimed
  <2>3. ASSUME NEW k \in Instances, MayClaim(k, j)' PROVE k = i /\ (MayClaim(i, j) \/ j \in Due(store[i]))
    <3>1. k = i
      BY <1>1, <2>3 DEF MayClaim, LoopInv
    <3>2. store'[i][j] = IF j \in Due(store[i]) THEN [store[i][j] EXCEPT !.next = None]
                         ELSE store[i][j]
      BY LoopFacts DEF CheckJobs, Change
    <3> QED BY <1>1, <2>3, <3>1, <3>2 DEF MayClaim
  <2>4. \A k \in Instances : Claimed(k, j)' => IF k = i THEN j \in Due(store[i]) ELSE Claimed(k, j)
    BY <1>2 DEF Claimed
  <2>5. runs[j] # 0 \/ (\E k \in Instances : Claimed(k, j)') => plan[j].time <= now
    BY <1>3, <1>5, <2>1, <2>4 DEF Once
  <2>6. ASSUME NEW k \in Instances, Claimed(k, j)'
        PROVE  /\ runs[j] <= IF loop'[k].job = j THEN 1 ELSE 0
               /\ \A l \in Instances : Claimed(l, j)' => l = k
    <3>1. CASE k = i
      BY <1>2, <2>1, <2>2, <2>4, <2>6, <3>1
    <3>2. CASE k # i
      BY <1>2, <2>1, <2>2, <2>4, <2>6, <3>2 DEF Once
    <3> QED BY <3>1, <3>2
  <2>7. ASSUME NEW k \in Instances, MayClaim(k, j)'
        PROVE  /\ runs[j] = 0 \/ loop'[k].job = j
               /\ \A l \in Instances : Claimed(l, j)' => l = k
    BY <1>2, <2>1, <2>2, <2>3, <2>4, <2>7 DEF Once
  <2> QED BY <1>1, <2>1, <2>5, <2>6, <2>7 DEF Once
<1> QED BY <1>4, <1>5

\* executeJobByID calls the handler of a job its loop has claimed.
LEMMA CallsOnce ==
    ASSUME TypeOK, LoopInv, NEW plan \in [Jobs -> Schedule], OnceInv(plan),
           NEW i \in Instances, RunJob(i)
    PROVE  OnceInv(plan)'
<1>1. PICK c \in loop[i].due :
        IF store[i][c] = None
        THEN loop' = [loop EXCEPT ![i].due = @ \ {c}] /\ UNCHANGED runs
        ELSE /\ loop' = [loop EXCEPT ![i].pc = "run", ![i].job = c]
             /\ runs' = [runs EXCEPT ![c] = IF i \in Tooled /\ added[c] = "at" THEN @ + 1 ELSE @]
    BY DEF RunJob
<1>2. c \in Jobs /\ loop[i].job = None /\ Claimed(i, c) /\ c # None
    BY CronAssumption, LoopFacts DEF RunJob, At, LoopInv, Claimed
<1>3. UNCHANGED <<now, store, service, draft, added>>
    BY DEF RunJob
<1>4. \A k \in Instances, j \in Jobs : MayClaim(k, j)' <=> MayClaim(k, j)
    BY <1>3 DEF MayClaim
<1>5. \A k \in Instances \ {i} : loop'[k] = loop[k]
    BY <1>1, LoopFacts
<1> SUFFICES ASSUME NEW j \in Jobs
             PROVE  /\ added[j] = None => runs'[j] = 0 /\ \A k \in Instances : ~Claimed(k, j)'
                    /\ added[j] = "at" => Once(plan, j)'
    BY <1>3 DEF OnceInv
<1>6. CASE store[i][c] = None
  <2>1. loop'[i].due = loop[i].due \ {c} /\ loop'[i].job = loop[i].job /\ UNCHANGED runs
    BY <1>1, <1>6, LoopFacts
  <2>2. \A k \in Instances : Claimed(k, j)' => Claimed(k, j)
    BY <1>5, <2>1 DEF Claimed
  <2>3. \A k \in Instances : loop'[k].job = loop[k].job
    BY <1>5, <2>1
  <2> QED BY <1>3, <1>4, <2>1, <2>2, <2>3 DEF OnceInv, Once
<1>7. CASE store[i][c] # None
  <2>1. /\ loop'[i].due = loop[i].due /\ loop'[i].job = c
        /\ runs' = [runs EXCEPT ![c] = IF i \in Tooled /\ added[c] = "at" THEN @ + 1 ELSE @]
    BY <1>1, <1>7, LoopFacts
  <2>2. \A k \in Instances : Claimed(k, j)' <=> Claimed(k, j)
    BY <1>5, <2>1 DEF Claimed
  <2>3. CASE j # c
    <3>1. runs'[j] = runs[j] /\ \A k \in Instances : loop'[k].job = j <=> (k # i /\ loop[k].job = j)
      BY <1>2, <1>5, <2>1, <2>3, LoopFacts
    <3>2. loop[i].job # j
      BY <1>2, CronAssumption
    <3> QED BY <1>3, <1>4, <2>2, <3>1, <3>2 DEF OnceInv, Once
  <2>4. CASE j = c
    <3>1. added[j] # None
      BY <1>2, <2>4 DEF OnceInv
    <3>2. ASSUME added[j] = "at" PROVE Once(plan, j)'
      <4>1. Once(plan, j) /\ runs[j] = 0 /\ runs'[j] \in {0, 1}
        BY <1>2, <2>1, <2>4, <3>2, LoopFacts DEF OnceInv, Once
      <4>2. \A k \in Instances : Claimed(k, j) => k = i
        BY <1>2, <2>4, <4>1 DEF Once
      <4>3. \A k \in Instances : MayClaim(k, j) => k = i
        BY <1>2, <2>4, <4>1 DEF Once
      <4>4. plan[j].time <= now
        BY <1>2, <2>4, <4>1 DEF Once
      <4> QED BY <1>3, <1>4, <2>1, <2>2, <2>4, <4>1, <4>2, <4>3, <4>4 DEF Once
    <3> QED BY <3>1, <3>2
  <2> QED BY <2>3, <2>4
<1> QED BY <1>6, <1>7

\* The handler has returned and the job leaves the batch; a one-shot is deleted.
LEMMA ReturnsOnce ==
    ASSUME TypeOK, LoopInv, NEW plan \in [Jobs -> Schedule], PlanInv(plan), OnceInv(plan),
           NEW i \in Instances, JobReturns(i)
    PROVE  OnceInv(plan)'
<1> DEFINE c == loop[i].job
<1>1. c \in Jobs /\ c \in loop[i].due /\ c # None
    BY CronAssumption, LoopFacts DEF JobReturns, At, LoopInv
<1>2. /\ loop'[i].due = loop[i].due \ {c} /\ loop'[i].job = None
      /\ \A k \in Instances \ {i} : loop'[k] = loop[k]
      /\ UNCHANGED <<now, service, draft, added, runs>>
    BY LoopFacts DEF JobReturns
<1>3. /\ \A k \in Instances \ {i} : store'[k] = store[k]
      /\ \A j \in Jobs \ {c} : store'[i][j] = store[i][j]
      /\ added[c] = "at" => store'[i][c] = None
  <2>1. CASE store[i][c] = None
    BY <2>1 DEF JobReturns
  <2>2. CASE store[i][c] # None
    <3>1. store' = [store EXCEPT ![i] = [store[i] EXCEPT ![c] = AfterRun(store[i][c])]]
      BY <2>2, LoopFacts DEF JobReturns, Change
    <3>2. store'[i] = [store[i] EXCEPT ![c] = AfterRun(store[i][c])]
      BY <3>1, LoopFacts
    <3>3. store'[i][c] = AfterRun(store[i][c]) /\ \A j \in Jobs \ {c} : store'[i][j] = store[i][j]
      BY <1>1, <3>2, LoopFacts DEF Rows
    <3>4. store[i][c].schedule.kind = added[c]
      BY <1>1, <2>2 DEF PlanInv, RowsFit, Known, Fits
    <3> QED BY <3>1, <3>3, <3>4, LoopFacts DEF AfterRun
  <2> QED BY <2>1, <2>2
<1> HIDE DEF c
<1> SUFFICES ASSUME NEW j \in Jobs
             PROVE  /\ added[j] = None => runs[j] = 0 /\ \A k \in Instances : ~Claimed(k, j)'
                    /\ added[j] = "at" => Once(plan, j)'
    BY <1>2 DEF OnceInv
<1>4. \A k \in Instances : Claimed(k, j)' <=> Claimed(k, j) /\ ~(k = i /\ j = c)
    BY <1>2 DEF Claimed
<1>5. added[j] = None => runs[j] = 0 /\ \A k \in Instances : ~Claimed(k, j)'
    BY <1>4 DEF OnceInv
<1>6. ASSUME added[j] = "at" PROVE Once(plan, j)'
  <2>1. Once(plan, j) /\ j # None
    BY <1>6, CronAssumption DEF OnceInv
  <2>2. CASE j # c
    <3>1. \A k \in Instances : MayClaim(k, j)' <=> MayClaim(k, j)
      BY <1>2, <1>3, <2>2 DEF MayClaim
    <3>2. \A k \in Instances : loop'[k].job = j <=> loop[k].job = j
      BY <1>2, <2>1, <2>2 DEF c
    <3> QED BY <1>2, <1>4, <2>1, <2>2, <3>1, <3>2 DEF Once
  <2>3. CASE j = c
    <3>1. Claimed(i, j) /\ plan[j].time <= now /\ runs[j] <= 1
      BY <1>1, <2>1, <2>3 DEF Once, Claimed
    <3>2. \A k \in Instances : ~Claimed(k, j)'
      BY <1>4, <2>1, <2>3, <3>1 DEF Once
    <3>3. \A k \in Instances : ~MayClaim(k, j)'
      <4> SUFFICES ASSUME NEW k \in Instances, MayClaim(k, j)' PROVE FALSE
        OBVIOUS
      <4>1. k # i
        BY <1>3, <1>6, <2>3 DEF MayClaim
      <4>2. MayClaim(k, j)
        BY <1>2, <1>3, <4>1 DEF MayClaim
      <4> QED BY <2>1, <3>1, <4>1, <4>2 DEF Once
    <3> QED BY <1>2, <3>1, <3>2, <3>3 DEF Once
  <2> QED BY <2>2, <2>3
<1> QED BY <1>5, <1>6

LEMMA AddsOnce ==
    ASSUME TypeOK, LoopInv, NEW plan \in [Jobs -> Schedule], PlanInv(plan), OnceInv(plan),
           NEW i \in Instances, NEW j \in Jobs, NEW s \in NewSchedules(i), AddJob(i, j, s)
    PROVE  OnceInv([plan EXCEPT ![j] = s])'
<1> DEFINE new == [plan EXCEPT ![j] = s]
           row == [schedule |-> s, enabled |-> TRUE, next |-> NextRun(s, now)]
<1>1. /\ added[j] = None /\ added' = [added EXCEPT ![j] = s.kind] /\ UNCHANGED <<now, runs>>
      /\ Changed(i, [store[i] EXCEPT ![j] = row])
      /\ UNCHANGED draft \/ draft' = [draft EXCEPT ![i] = [job |-> j, row |-> row]]
      /\ Notify(i) \/ UNCHANGED loop
    BY DEF AddJob
<1>2. \A k \in Instances : loop'[k].due = loop[k].due /\ loop'[k].job = loop[k].job
    BY <1>1, Notified
<1>3. runs[j] = 0 /\ \A k \in Instances : ~Claimed(k, j)'
    BY <1>1, <1>2 DEF OnceInv, Claimed
<1>4. ASSUME NEW c \in Jobs, c # j
      PROVE  /\ added[c] = None => runs[c] = 0 /\ \A k \in Instances : ~Claimed(k, c)'
             /\ added[c] = "at" => Once(plan, c)'
  <2>1. \A k \in Instances : Claimed(k, c)' <=> Claimed(k, c)
    BY <1>2 DEF Claimed
  <2>2. ASSUME NEW k \in Instances, MayClaim(k, c)' PROVE MayClaim(k, c)
    <3>1. service'[k] = "running" /\ service[k] = "running"
      BY <1>1, <2>2, LoopFacts DEF Changed, MayClaim
    <3>2. store'[k][c] = store[k][c]
      <4>1. CASE k # i
        BY <1>1, <4>1, LoopFacts DEF Changed, Change
      <4>2. CASE k = i
        <5>1. store'[i] = [store[i] EXCEPT ![j] = row]
          BY <1>1, <3>1, <4>2, LoopFacts DEF Changed, Change, IsCommand
        <5> QED BY <1>4, <4>2, <5>1, LoopFacts DEF Rows
      <4> QED BY <4>1, <4>2
    <3>3. draft'[k] # None /\ draft'[k].job = c => draft[k] = draft'[k]
      BY <1>1, <1>4, LoopFacts
    <3> QED BY <2>2, <3>1, <3>2, <3>3 DEF MayClaim
  <2> QED BY <1>1, <1>2, <2>1, <2>2 DEF OnceInv, Once
<1>5. ASSUME NEW c \in Jobs, c # j PROVE Once(plan, c)' => Once(new, c)'
    BY <1>5 DEF Once
<1>6. ASSUME NEW c \in Jobs
      PROVE  /\ added'[c] = None => runs'[c] = 0 /\ \A k \in Instances : ~Claimed(k, c)'
             /\ added'[c] = "at" => Once(new, c)'
  <2>1. CASE c = j
    <3>1. Once(new, j)'
      BY <1>1, <1>3 DEF Once
    <3> QED BY <1>1, <1>3, <2>1, <3>1
  <2>2. CASE c # j
    BY <1>1, <1>4, <1>5, <2>2, LoopFacts
  <2> QED BY <2>1, <2>2
<1> QED BY <1>6 DEF OnceInv

\* A row that a call or the start of a service makes ready lies in the future.
LEMMA NextIsLater ==
    ASSUME NEW plan, NEW j, NEW row, Fits(plan, j, row), plan[j].kind = "at",
           NextRun(row.schedule, now) # None
    PROVE  now < plan[j].time
BY DEF Fits, NextRun

LEMMA OnceKept ==
    ASSUME TypeOK, LoopInv, [Next]_vars, UNCHANGED added,
           NEW plan \in [Jobs -> Schedule], PlanInv(plan), OnceInv(plan)
    PROVE  OnceInv(plan)'
<1> DEFINE Same == \A k \in Instances : loop'[k].due = loop[k].due /\ loop'[k].job = loop[k].job
           Later(i, j) == MayClaim(i, j)' /\ added[j] = "at" =>
                            \/ now < plan[j].time
                            \/ MayClaim(i, j) /\ loop'[i].job = loop[i].job
<1>1. now \in Nat /\ now <= now
    BY LoopFacts
<1>2. \A j \in Jobs : added[j] = "at" => plan[j].kind = "at"
    BY CronAssumption DEF PlanInv
<1>3. ASSUME Same, UNCHANGED <<now, runs>>, \A i \in Instances, j \in Jobs : Later(i, j)
      PROVE  OnceInv(plan)'
    BY <1>1, <1>3, NothingClaimed
<1>4. ASSUME NEW i \in Instances, NewCronService(i) \/ Stop(i) PROVE OnceInv(plan)'
  <2>1. Same /\ UNCHANGED <<now, runs>>
    BY <1>4 DEF NewCronService, Stop
  <2>2. ASSUME NEW k \in Instances, NEW j \in Jobs PROVE Later(k, j)
    BY <1>4, LoopFacts DEF NewCronService, Stop, MayClaim, Change
  <2> QED BY <1>3, <2>1, <2>2
<1>5. ASSUME NEW i \in Instances, Start(i) PROVE OnceInv(plan)'
  <2>1. /\ UNCHANGED <<now, draft, runs>>
        /\ \A k \in Instances \ {i} : service'[k] = service[k] /\ store'[k] = store[k]
                                      /\ loop'[k] = loop[k]
        /\ loop'[i] = loop[i] \/ loop'[i] = Computing
        /\ service'[i] = "running" => store'[i] = Recomputed(file)
    BY <1>5, LoopFacts DEF Start, Change
  <2>2. Computing.due = {}
    BY DEF Computing, NoLoop
  <2>3. ASSUME NEW k \in Instances, NEW j \in Jobs PROVE Later(k, j)
    <3>1. CASE k # i
      BY <2>1, <3>1 DEF MayClaim
    <3>2. CASE k = i
      <4> SUFFICES ASSUME MayClaim(i, j)', added[j] = "at" PROVE now < plan[j].time
        BY <3>2
      <4>1. draft[i] = None
        BY <1>5 DEF Start, LoopInv
      <4>2. /\ store'[i] = Recomputed(file) /\ store'[i][j] # None
            /\ store'[i][j].enabled /\ store'[i][j].next # None
        BY <2>1, <4>1 DEF MayClaim
      <4>3. file[j] # None
        BY <4>2 DEF Recomputed
      <4>4. file[j] \in Job
        BY <4>3, LoopFacts DEF Rows
      <4>5. file[j].enabled
        BY <4>2, <4>3 DEF Recomputed
      <4>6. store'[i][j] = [file[j] EXCEPT !.next = NextRun(file[j].schedule, now)]
        BY <4>2, <4>3, <4>5 DEF Recomputed
      <4>7. NextRun(file[j].schedule, now) # None
        BY <4>2, <4>4, <4>6 DEF Job
      <4>8. Fits(plan, j, file[j])
        BY <4>3 DEF PlanInv, RowsFit, Known
      <4> QED BY <1>2, <4>7, <4>8, NextIsLater
    <3> QED BY <3>1, <3>2
  <2> HIDE DEF Later
  <2>4. \A k \in Instances : \/ loop'[k].due = {}
                             \/ loop'[k].due = loop[k].due /\ loop'[k].job = loop[k].job
    BY <2>1, <2>2
  <2> QED BY <1>1, <2>1, <2>3, <2>4, NothingClaimed DEF Later
<1>6. CASE Crash
  <2>1. NoLoop.due = {} /\ UNCHANGED <<now, runs>>
    BY <1>6 DEF Crash, NoLoop
  <2>2. \A k \in Instances : loop'[k].due = {} /\ service'[k] # "running"
    BY <1>6, <2>1 DEF Crash
  <2> QED BY <1>1, <2>1, <2>2, NothingClaimed DEF MayClaim
<1>7. ASSUME NEW i \in Instances, UpdateJob(i) PROVE OnceInv(plan)'
  <2>1. Same /\ UNCHANGED <<now, runs, service>>
    BY <1>7, Notified DEF UpdateJob
  <2>2. ASSUME NEW k \in Instances, NEW j \in Jobs PROVE Later(k, j)
    <3>1. CASE k # i
      BY <1>7, <2>1, <3>1, LoopFacts DEF UpdateJob, Change, MayClaim
    <3>2. CASE k = i
      <4>1. draft'[i] = None /\ (store'[i] = store[i] \/ store'[i] = [store[i] EXCEPT ![draft[i].job] = draft[i].row])
        BY <1>7, LoopFacts DEF UpdateJob, Change
      <4>2. CASE j = draft[i].job
        BY <1>7, <2>1, <3>2, <4>1, <4>2 DEF UpdateJob, MayClaim
      <4>3. CASE j # draft[i].job
        <5>1. store'[i][j] = store[i][j]
          BY <4>1, <4>3, LoopFacts DEF Rows
        <5> QED BY <2>1, <3>2, <4>1, <5>1 DEF MayClaim
      <4> QED BY <4>2, <4>3
    <3> QED BY <3>1, <3>2
  <2> QED BY <1>3, <2>1, <2>2
<1>8. ASSUME NEW i \in Instances, NEW c \in Jobs, NEW row, UNCHANGED <<now, draft, runs>>,
             Changed(i, [store[i] EXCEPT ![c] = row]), Notify(i) \/ UNCHANGED loop,
             row # None => store[i][c] # None,
             row # None /\ row.enabled /\ row.next # None /\ added[c] = "at" => now < plan[c].time
      PROVE  OnceInv(plan)'
  <2>1. Same
    BY <1>8, Notified
  <2>2. ASSUME NEW k \in Instances, NEW j \in Jobs PROVE Later(k, j)
    <3> SUFFICES ASSUME MayClaim(k, j)', added[j] = "at"
                 PROVE  now < plan[j].time \/ MayClaim(k, j)
      BY <2>1
    <3>1. service'[k] = "running" /\ service[k] = "running"
      BY <1>8, LoopFacts DEF Changed, MayClaim
    <3>2. CASE k # i
      BY <1>8, <3>1, <3>2, LoopFacts DEF Changed, Change, MayClaim
    <3>3. CASE k = i
      <4>1. store'[i] = [store[i] EXCEPT ![c] = row]
        BY <1>8, <3>1, <3>3, LoopFacts DEF Changed, Change, IsCommand
      <4>2. /\ store'[i][c] = row
            /\ \A l \in Jobs \ {c} : store'[i][l] = store[i][l]
        BY <4>1, LoopFacts DEF Rows
      <4>3. CASE j = c
        BY <1>8, <2>2, <3>1, <3>3, <4>2, <4>3 DEF MayClaim
      <4>4. CASE j # c
        BY <1>8, <3>1, <3>3, <4>2, <4>4 DEF MayClaim
      <4> QED BY <4>3, <4>4
    <3> QED BY <3>2, <3>3
  <2> QED BY <1>3, <1>8, <2>1, <2>2
<1>9. ASSUME NEW i \in Instances, NEW c \in Jobs, RemoveJob(i, c) PROVE OnceInv(plan)'
    BY <1>8, <1>9 DEF RemoveJob
<1>10. ASSUME NEW i \in Instances, NEW c \in Jobs, NEW enabled \in BOOLEAN, EnableJob(i, c, enabled)
       PROVE  OnceInv(plan)'
  <2> DEFINE row == store[i][c]
             next == IF enabled THEN NextRun(row.schedule, now) ELSE None
             new == [row EXCEPT !.enabled = enabled, !.next = next]
  <2>1. /\ UNCHANGED <<now, draft, runs>> /\ Changed(i, [store[i] EXCEPT ![c] = new]) /\ Notify(i)
        /\ row # None
    BY <1>10 DEF EnableJob
  <2>2. row \in Job /\ Fits(plan, c, row)
    BY <2>1, LoopFacts DEF PlanInv, RowsFit, Known
  <2>3. new.enabled = enabled /\ new.next = next
    BY <2>2 DEF Job
  <2>4. new.enabled /\ new.next # None /\ added[c] = "at" => now < plan[c].time
    BY <1>2, <2>2, <2>3, NextIsLater
  <2> HIDE DEF new
  <2> QED BY <1>8, <2>1, <2>4
<1>11. ASSUME NEW i \in Instances, LoopStep(i) PROVE OnceInv(plan)'
  <2>1. CASE CheckJobs(i) /\ service[i] = "running"
    BY <2>1, ChecksOnce
  <2>2. CASE RunJob(i)
    BY <2>2, CallsOnce
  <2>3. CASE JobReturns(i)
    BY <2>3, ReturnsOnce
  <2>4. CASE \/ ComputeWake(i) \/ EnterSelect(i) \/ AllRun(i) \/ EndLoop(i) \/ TimerFires(i)
             \/ CheckJobs(i) /\ service[i] # "running"
    <3>1. UNCHANGED <<now, store, service, draft, added, runs>>
      BY <2>4 DEF ComputeWake, EnterSelect, AllRun, EndLoop, TimerFires, CheckJobs, onlyLoop
    <3>2. \A k \in Instances \ {i} : loop'[k] = loop[k]
      BY <2>4, LoopFacts DEF ComputeWake, EnterSelect, AllRun, EndLoop, TimerFires, CheckJobs, Goto
    <3>3. loop'[i].due = loop[i].due /\ loop'[i].job = loop[i].job
      <4>1. CASE ComputeWake(i) \/ EnterSelect(i) \/ AllRun(i) \/ (CheckJobs(i) /\ service[i] # "running")
        BY <4>1, LoopFacts DEF ComputeWake, EnterSelect, AllRun, CheckJobs, Goto
      <4>2. CASE EndLoop(i) \/ TimerFires(i)
        <5>1. loop[i].due = {} /\ loop[i].job = None
          BY <4>2 DEF EndLoop, TimerFires, At, LoopInv
        <5>2. NoLoop.due = {} /\ NoLoop.job = None
              /\ [NoLoop EXCEPT !.pc = "check"].due = {} /\ [NoLoop EXCEPT !.pc = "check"].job = None
          BY DEF NoLoop
        <5>3. loop'[i] = NoLoop \/ loop'[i] = [NoLoop EXCEPT !.pc = "check"]
          BY <4>2, LoopFacts DEF EndLoop, TimerFires
        <5> QED BY <5>1, <5>2, <5>3
      <4> QED BY <2>4, <4>1, <4>2
    <3>4. Same
      BY <3>2, <3>3
    <3>5. \A k \in Instances, j \in Jobs : Later(k, j)
      BY <3>1, <3>4 DEF MayClaim
    <3> QED BY <1>3, <3>1, <3>4, <3>5
  <2> QED BY <1>11, <2>1, <2>2, <2>3, <2>4 DEF LoopStep
<1>12. CASE Tick
  <2>1. now' \in Nat /\ now <= now' /\ UNCHANGED <<store, service, loop, draft, runs>>
    BY <1>1, <1>12 DEF Tick
  <2> QED BY <2>1, NothingClaimed DEF MayClaim
<1>13. CASE UNCHANGED vars
    BY <1>3, <1>13 DEF vars, MayClaim
<1>14. ASSUME NEW i \in Instances, NEW j \in Jobs, NEW s \in NewSchedules(i), AddJob(i, j, s)
       PROVE FALSE
  <2>1. s.kind # None
    BY CronAssumption, <1>14, LoopFacts, NewSchedulesType
  <2> QED BY <1>14, <2>1, LoopFacts DEF AddJob
<1> QED
    BY <1>4, <1>5, <1>6, <1>7, <1>9, <1>10, <1>11, <1>12, <1>13, <1>14 DEF Next, ChangeJobs

\* Only calls of one-shot jobs are counted.
CountInv == \A j \in Jobs : runs[j] # 0 => added[j] = "at"

JobsInv == LoopInv /\ CountInv /\ \E plan \in [Jobs -> Schedule] : PlanInv(plan) /\ OnceInv(plan)

LEMMA JobsAlways == Spec => []JobsInv
<1>1. Init => JobsInv
  <2> SUFFICES ASSUME Init PROVE JobsInv
    OBVIOUS
  <2>1. [j \in Jobs |-> [kind |-> "at", time |-> 0]] \in [Jobs -> Schedule]
    BY DEF Schedule
  <2>2. LoopInv /\ CountInv
    BY DEF Init, LoopInv, CountInv, NoLoop
  <2>3. ASSUME NEW plan \in [Jobs -> Schedule] PROVE PlanInv(plan) /\ OnceInv(plan)
    <3>1. /\ \A i \in Instances : store[i] = NoJobs /\ loop[i].due = {} /\ draft[i] = None
          /\ file = NoJobs
          /\ \A j \in Jobs : added[j] = None /\ runs[j] = 0
      BY DEF Init, NoLoop
    <3>2. Known(NoJobs) = {}
      BY DEF Known, NoJobs
    <3>3. PlanInv(plan)
      BY <3>1, <3>2 DEF PlanInv, RowsFit
    <3>4. OnceInv(plan)
      BY <3>1, CronAssumption DEF OnceInv, Claimed
    <3> QED BY <3>3, <3>4
  <2> QED BY <2>1, <2>2, <2>3 DEF JobsInv
<1>2. TypeOK /\ JobsInv /\ [Next]_vars => JobsInv'
  <2> SUFFICES ASSUME TypeOK, JobsInv, [Next]_vars PROVE JobsInv'
    OBVIOUS
  <2>1. PICK plan \in [Jobs -> Schedule] : PlanInv(plan) /\ OnceInv(plan)
    BY DEF JobsInv
  <2>2. LoopInv'
    BY LoopInvStep DEF JobsInv
  <2>3. CASE UNCHANGED added
    <3>1. PlanInv(plan)' /\ OnceInv(plan)'
      BY <2>1, <2>3, PlanKept, OnceKept DEF JobsInv
    <3>2. CountInv'
      <4>1. CASE UNCHANGED runs
        BY <2>3, <4>1 DEF JobsInv, CountInv
      <4>2. ASSUME NEW i \in Instances, RunJob(i) PROVE CountInv'
        <5>1. \A j \in Jobs : runs'[j] # runs[j] => added[j] = "at"
          BY <4>2, LoopFacts DEF RunJob
        <5> QED BY <2>3, <5>1 DEF JobsInv, CountInv
      <4> QED BY <4>1, <4>2 DEF Next, NewCronService, Start, Stop, Crash, Tick, vars,
            ChangeJobs, AddJob, UpdateJob, RemoveJob, EnableJob, LoopStep, ComputeWake, EnterSelect,
            EndLoop, TimerFires, CheckJobs, AllRun, JobReturns, onlyLoop
    <3> QED BY <2>2, <3>1, <3>2 DEF JobsInv
  <2>4. ASSUME NEW i \in Instances, NEW j \in Jobs, NEW s \in NewSchedules(i), AddJob(i, j, s)
        PROVE JobsInv'
    <3>1. s \in Schedule /\ PlanInv([plan EXCEPT ![j] = s])' /\ OnceInv([plan EXCEPT ![j] = s])'
      BY <2>1, <2>4, PlanGrows, AddsOnce DEF JobsInv
    <3>2. [plan EXCEPT ![j] = s] \in [Jobs -> Schedule]
      BY <3>1
    <3>3. CountInv'
      BY <2>1, <2>4, LoopFacts DEF JobsInv, CountInv, OnceInv, AddJob
    <3> QED BY <2>2, <3>1, <3>2, <3>3 DEF JobsInv
  <2> QED BY <2>3, <2>4 DEF Next, NewCronService, Start, Stop, Crash, Tick, vars,
            ChangeJobs, UpdateJob, RemoveJob, EnableJob, LoopStep, ComputeWake, EnterSelect,
            EndLoop, TimerFires, CheckJobs, RunJob, AllRun, JobReturns, onlyLoop
<1> QED BY <1>1, <1>2, TypeCorrect, PTL DEF Spec

\* Whatever stops, crashes, fails to save or writes an old copy back, the
\* handler of a one-shot job is called once at most (checkJobs, executeJobByID,
\* recomputeNextRuns, UpdateJob).
THEOREM OneShotsRunOnce == Spec => []OneShotRunsOnce
<1>1. JobsInv => OneShotRunsOnce
    BY DEF JobsInv, CountInv, OnceInv, Once, OneShotRunsOnce
<1> QED BY <1>1, JobsAlways, PTL

-----------------------------------------------------------------------------
\* The rows that NeverUnscheduled allows beside a batch at a time; also the
\* copies that may be written back later.
RowOk(row, t) ==
    row.enabled /\ row.next = None => \E u \in 0..t : NextRun(row.schedule, u) = None
DraftsOk == \A i \in Instances : draft[i] # None => RowOk(draft[i].row, now)

LEMMA NextIsOk ==
    ASSUME TypeOK, NEW row \in Job, NEW enabled \in BOOLEAN
    PROVE  /\ RowOk([row EXCEPT !.next = NextRun(row.schedule, now)], now)
           /\ RowOk([row EXCEPT !.enabled = TRUE, !.next = NextRun(row.schedule, now)], now)
           /\ RowOk([row EXCEPT !.enabled = FALSE, !.next = None], now)
<1>1. now \in 0..now
    BY LoopFacts
<1> QED BY <1>1 DEF RowOk, Job

\* A schedule without a run when it was asked stays one that had none.
LEMMA StaysOk ==
    ASSUME NEW t \in Nat, NEW u \in Nat, t <= u, NEW row, RowOk(row, t)
    PROVE  RowOk(row, u)
<1>1. 0..t \subseteq 0..u
    OBVIOUS
<1> QED BY <1>1 DEF RowOk

LEMMA DraftsStep == TypeOK /\ DraftsOk /\ [Next]_vars => DraftsOk'
<1> SUFFICES ASSUME TypeOK, DraftsOk, [Next]_vars, NEW i \in Instances, draft'[i] # None
             PROVE  RowOk(draft'[i].row, now')
    BY DEF DraftsOk
<1>1. now \in Nat /\ now' \in Nat /\ now <= now'
  <2>1. CASE Tick
    BY <2>1, LoopFacts DEF Tick
  <2>2. CASE ~Tick
    <3>1. now' = now
      BY <2>2 DEF Next, NewCronService, Start, Stop, Crash, vars, ChangeJobs, AddJob, UpdateJob,
        RemoveJob, EnableJob, LoopStep, ComputeWake, EnterSelect, EndLoop, TimerFires, CheckJobs, RunJob,
        AllRun, JobReturns, onlyLoop
    <3> QED BY <3>1, LoopFacts
  <2> QED BY <2>1, <2>2
<1>2. CASE draft'[i] = draft[i]
    BY <1>1, <1>2, StaysOk DEF DraftsOk
<1>3. CASE draft'[i] # draft[i]
  <2>1. PICK k \in Instances : \E j \in Jobs : \E s \in NewSchedules(k) : AddJob(k, j, s)
    <3>1. ASSUME NEW k \in Instances, UpdateJob(k) PROVE FALSE
      BY <1>3, <3>1, LoopFacts DEF UpdateJob
    <3>2. CASE Crash
      BY <1>3, <3>2, LoopFacts DEF Crash
    <3> QED BY <1>3, <3>1, <3>2 DEF Next, NewCronService, Start, Stop, Tick, vars, ChangeJobs,
        RemoveJob, EnableJob, LoopStep, ComputeWake, EnterSelect, EndLoop, TimerFires, CheckJobs, RunJob,
        AllRun, JobReturns, onlyLoop
  <2>2. PICK j \in Jobs : \E s \in NewSchedules(k) : AddJob(k, j, s)
    BY <2>1
  <2>3. PICK s \in NewSchedules(k) : AddJob(k, j, s)
    BY <2>2
  <2> DEFINE row == [schedule |-> s, enabled |-> TRUE, next |-> NextRun(s, now)]
  <2>4. draft' = [draft EXCEPT ![k] = [job |-> j, row |-> row]] /\ now' = now
    BY <1>3, <2>3 DEF AddJob
  <2>5. draft'[i] = [job |-> j, row |-> row]
    BY <1>3, <2>4, LoopFacts
  <2>6. draft'[i].row.next = NextRun(s, now) /\ draft'[i].row.schedule = s
    BY <2>5
  <2>7. now \in 0..now'
    BY <1>1
  <2> QED BY <2>4, <2>6, <2>7 DEF RowOk
<1> QED BY <1>2, <1>3

LEMMA ScheduledStep ==
    TypeOK /\ JobsInv /\ DraftsOk /\ NeverUnscheduled /\ [Next]_vars => NeverUnscheduled'
<1> SUFFICES ASSUME TypeOK, JobsInv, DraftsOk, NeverUnscheduled, [Next]_vars,
                    NEW i \in Instances, service'[i] = "running"
             PROVE  \A j \in Known(store'[i]) :
                        j \in loop'[i].due \/ RowOk(store'[i][j], now')
    BY DEF NeverUnscheduled, NoRun, RowOk
<1> DEFINE Goal == \A j \in Known(store'[i]) : j \in loop'[i].due \/ RowOk(store'[i][j], now')
           OkNow(rows, due) == \A j \in Known(rows) : j \in due \/ RowOk(rows[j], now)
<1>1. service[i] = "running" => OkNow(store[i], loop[i].due)
    BY DEF NeverUnscheduled, NoRun, RowOk
<1>2. LoopInv
    BY DEF JobsInv
<1>3. ASSUME now' = now, OkNow(store'[i], loop'[i].due) PROVE Goal
    BY <1>3
<1>4. ASSUME now' = now, service[i] = "running", store'[i] = store[i], loop'[i].due = loop[i].due
      PROVE  Goal
    BY <1>1, <1>3, <1>4
<1>5. ASSUME now' = now, service[i] = "running", NEW j, NEW row,
             store'[i] = [store[i] EXCEPT ![j] = row],
             row = None \/ RowOk(row, now), loop'[i].due = loop[i].due \/ loop'[i].due = loop[i].due \ {j}
      PROVE  Goal
  <2>1. DOMAIN store[i] = Jobs
    BY LoopFacts DEF Rows
  <2>2. ASSUME NEW c \in Known(store'[i]) PROVE c \in loop'[i].due \/ RowOk(store'[i][c], now)
    <3>1. CASE c = j
      BY <1>5, <2>1, <2>2, <3>1 DEF Known
    <3>2. CASE c # j
      BY <1>1, <1>5, <2>1, <2>2, <3>2 DEF Known
    <3> QED BY <3>1, <3>2
  <2> QED BY <1>3, <1>5, <2>2
<1> HIDE DEF Goal, OkNow
<1>6. ASSUME NEW k \in Instances, NewCronService(k) PROVE Goal
    BY <1>4, <1>6, LoopFacts DEF NewCronService, Change
<1>7. ASSUME NEW k \in Instances, Start(k) PROVE Goal
  <2>1. k = i
    BY <1>7, LoopFacts DEF Start
  <2>2. store'[i] = Recomputed(file) /\ now' = now
    BY <1>7, <2>1, LoopFacts DEF Start, Change
  <2>3. ASSUME NEW j \in Known(Recomputed(file)) PROVE RowOk(Recomputed(file)[j], now)
    <3>1. j \in Jobs /\ file[j] # None
      BY <2>3 DEF Known, Recomputed
    <3>2. file[j] \in Job
      BY <3>1, LoopFacts DEF Rows
    <3>3. file[j].enabled \in BOOLEAN
      BY <3>2 DEF Job
    <3>4. CASE file[j].enabled
      BY <3>1, <3>2, <3>4, NextIsOk DEF Recomputed
    <3>5. CASE ~file[j].enabled
      BY <3>1, <3>5 DEF Recomputed, RowOk
    <3> QED BY <3>3, <3>4, <3>5
  <2> QED BY <1>3, <2>2, <2>3 DEF OkNow
<1>8. ASSUME NEW k \in Instances, Stop(k) PROVE Goal
    BY <1>4, <1>8, LoopFacts DEF Stop
<1>9. CASE Crash
    BY <1>9 DEF Crash
<1>10. ASSUME NEW k \in Instances, NEW jobs, Changed(k, jobs), Notify(k) \/ UNCHANGED loop
       PROVE  /\ service[i] = "running" /\ loop'[i].due = loop[i].due
              /\ store'[i] = IF k = i THEN jobs ELSE store[i]
    BY <1>2, <1>10, Notified, LoopFacts DEF Changed, Change, IsCommand
<1>11. ASSUME NEW k \in Instances, NEW j \in Jobs, NEW row, row = None \/ RowOk(row, now),
              Changed(k, [store[k] EXCEPT ![j] = row]), Notify(k) \/ UNCHANGED loop, now' = now
       PROVE  Goal
    BY <1>4, <1>5, <1>10, <1>11
<1>12. ASSUME NEW k \in Instances, NEW j \in Jobs, NEW s \in NewSchedules(k), AddJob(k, j, s) PROVE Goal
  <2> DEFINE row == [schedule |-> s, enabled |-> TRUE, next |-> NextRun(s, now)]
  <2>1. now \in 0..now
    BY LoopFacts
  <2>2. RowOk(row, now)
    BY <2>1 DEF RowOk
  <2>3. Changed(k, [store[k] EXCEPT ![j] = row]) /\ (Notify(k) \/ UNCHANGED loop) /\ now' = now
    BY <1>12 DEF AddJob
  <2> HIDE DEF row
  <2> QED BY <1>11, <2>2, <2>3
<1>13. ASSUME NEW k \in Instances, UpdateJob(k) PROVE Goal
  <2>1. /\ now' = now /\ service' = service /\ RowOk(draft[k].row, now)
        /\ Notify(k) \/ UNCHANGED loop
        /\ store' = store \/ store' = [store EXCEPT ![k] = [store[k] EXCEPT ![draft[k].job] = draft[k].row]]
    BY <1>13 DEF UpdateJob, Change, DraftsOk
  <2>2. loop'[i].due = loop[i].due /\ service[i] = "running"
    BY <1>2, <2>1, Notified
  <2>3. store'[i] = store[i] \/ store'[i] = [store[i] EXCEPT ![draft[k].job] = draft[k].row]
    BY <2>1, LoopFacts
  <2> QED BY <1>4, <1>5, <2>1, <2>2, <2>3
<1>14. ASSUME NEW k \in Instances, NEW j \in Jobs, RemoveJob(k, j) PROVE Goal
    BY <1>11, <1>14 DEF RemoveJob
<1>15. ASSUME NEW k \in Instances, NEW j \in Jobs, NEW enabled \in BOOLEAN, EnableJob(k, j, enabled)
       PROVE Goal
  <2> DEFINE row == store[k][j]
             next == IF enabled THEN NextRun(row.schedule, now) ELSE None
             new == [row EXCEPT !.enabled = enabled, !.next = next]
  <2>1. row \in Job
    BY <1>15, LoopFacts DEF EnableJob
  <2>2. RowOk(new, now)
    BY <2>1, NextIsOk
  <2>3. Changed(k, [store[k] EXCEPT ![j] = new]) /\ Notify(k) /\ now' = now
    BY <1>15 DEF EnableJob
  <2> HIDE DEF new
  <2> QED BY <1>11, <2>2, <2>3
<1>16. ASSUME NEW k \in Instances, LoopStep(k) PROVE Goal
  <2>1. now' = now /\ service[i] = "running"
    BY <1>16 DEF LoopStep, ComputeWake, EnterSelect, EndLoop, TimerFires, CheckJobs, RunJob,
                 AllRun, JobReturns, onlyLoop
  <2>2. CASE k # i
    <3>1. store'[i] = store[i] /\ loop'[i] = loop[i]
      BY <1>16, <2>2, LoopFacts DEF LoopStep, ComputeWake, EnterSelect, EndLoop, TimerFires,
               CheckJobs, RunJob, AllRun, JobReturns, onlyLoop, Goto, Change
    <3> QED BY <1>4, <2>1, <3>1
  <2>3. CASE k = i
    <3>1. CASE ComputeWake(i) \/ EnterSelect(i) \/ AllRun(i)
      BY <1>4, <2>1, <3>1, LoopFacts DEF ComputeWake, EnterSelect, AllRun, Goto, onlyLoop
    <3>2. CASE EndLoop(i)
      BY <2>1, <3>2 DEF EndLoop
    <3>3. CASE TimerFires(i)
      <4>1. loop[i].due = {} /\ loop'[i].due = {} /\ store' = store
        BY <1>2, <3>3, LoopFacts DEF TimerFires, At, LoopInv, NoLoop, onlyLoop
      <4> QED BY <1>4, <2>1, <4>1
    <3>4. CASE CheckJobs(i)
      <4>1. loop[i].due = {} /\ loop'[i].due = Due(store[i])
        BY <1>2, <2>1, <3>4, LoopFacts DEF CheckJobs, At, LoopInv
      <4>2. \A j \in Jobs \ Due(store[i]) : store'[i][j] = store[i][j]
        BY <2>1, <3>4, LoopFacts DEF CheckJobs, Change
      <4> QED BY <1>1, <1>3, <2>1, <4>1, <4>2 DEF OkNow, Known
    <3>5. CASE RunJob(i)
      <4>1. store' = store
        BY <3>5 DEF RunJob
      <4>2. PICK c \in loop[i].due :
              \/ loop'[i].due = loop[i].due \ {c} /\ store[i][c] = None
              \/ loop'[i].due = loop[i].due
        BY <3>5, LoopFacts DEF RunJob
      <4> QED BY <1>1, <1>3, <2>1, <4>1, <4>2 DEF OkNow, Known
    <3>6. CASE JobReturns(i)
      <4> DEFINE c == loop[i].job
      <4>1. loop'[i].due = loop[i].due \ {c} /\ c \in Jobs
        BY <1>2, <3>6, LoopFacts DEF JobReturns, At, LoopInv
      <4>2. CASE store[i][c] = None
        <5>1. store' = store
          BY <3>6, <4>2 DEF JobReturns
        <5> QED BY <1>1, <1>3, <2>1, <4>1, <4>2, <5>1 DEF OkNow, Known
      <4>3. CASE store[i][c] # None
        <5>1. store[i][c] \in Job
          BY <4>1, <4>3, LoopFacts
        <5>2. AfterRun(store[i][c]) = None \/ RowOk(AfterRun(store[i][c]), now)
          BY <5>1, NextIsOk DEF AfterRun
        <5>3. store'[i] = [store[i] EXCEPT ![c] = AfterRun(store[i][c])]
          BY <3>6, <4>1, <4>3, LoopFacts DEF JobReturns, Change
        <5> QED BY <1>5, <2>1, <4>1, <5>2, <5>3
      <4> QED BY <4>2, <4>3
    <3> QED BY <1>16, <2>3, <3>1, <3>2, <3>3, <3>4, <3>5, <3>6 DEF LoopStep
  <2> QED BY <2>2, <2>3
<1>17. CASE Tick
  <2>1. now \in Nat /\ now' = now + 1 /\ UNCHANGED <<store, loop, service>>
    BY <1>17, LoopFacts DEF Tick
  <2>2. ASSUME NEW j \in Known(store[i]), RowOk(store[i][j], now) PROVE RowOk(store'[i][j], now')
    BY <2>1, <2>2, StaysOk
  <2> QED BY <1>1, <2>1, <2>2 DEF OkNow, Goal
<1>18. CASE UNCHANGED vars
  <2>1. now' = now /\ service' = service /\ store' = store /\ loop' = loop
    BY <1>18 DEF vars
  <2> QED BY <1>4, <2>1 DEF Goal
<1> QED
    BY <1>6, <1>7, <1>8, <1>9, <1>12, <1>13, <1>14, <1>15, <1>16, <1>17, <1>18
    DEF Next, ChangeJobs, Goal

\* A running service never forgets an enabled job, whatever is added, updated,
\* enabled or saved while its loop runs a batch (checkJobs, executeJobByID): only
\* one whose schedule has no run (computeNextRun) is without a next run.
THEOREM NoneIsForgotten == Spec => []NeverUnscheduled
<1>1. Init => DraftsOk /\ NeverUnscheduled
    BY DEF Init, DraftsOk, NeverUnscheduled
<1> QED BY <1>1, DraftsStep, ScheduledStep, TypeCorrect, JobsAlways, PTL DEF Spec
=============================================================================
