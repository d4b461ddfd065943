--------------------------- MODULE SchedulerProofs ---------------------------
(***************************************************************************)
(* What Scheduler promises for any schedules, triggers and number of       *)
(* attempts.  Applied ties the registry to the rows the latest select      *)
(* returned; Claimed follows the one-shots: one that is past has a job     *)
(* only as long as it is due, and one that was started has none.           *)
(***************************************************************************)
EXTENDS Scheduler, TLAPS

\* An execution that waits to try again has attempts left.
WaitersMayRetry ==
    \A s \in Schedules : run[s] = "wait" => attempt[s] < MaxAttempts

\* Past its first audit entry an execution has a schedule that must stay.
RunsAreAudited ==
    \A s \in Schedules :
        run[s] \in {"render", "store", "record", "deliver"} => s \in audited /\ Exists(s)

\* One-shots that are past, due or started.
Claimed ==
    \A s \in Schedules :
        /\ job[s] = Once => (s \in passed <=> s \in due)
        /\ fired[s] <= 1
        /\ fired[s] = 1 => s \in passed /\ job[s] # Once

\* The job that row r calls for.
Called(r) == IF r \in Row /\ r.active THEN Trigger(r) ELSE NoJob

\* While the task sleeps the registry holds what the latest select called for.
Applied ==
    \A s \in Schedules : task = "sleeping" =>
        \/ job[s] = Called(snap[s])
        \/ Called(snap[s]) = Once /\ job[s] = NoJob /\ s \in passed

Core ==
    /\ TypeOK
    /\ WaitersMayRetry
    /\ RunsAreAudited
    /\ Claimed
    /\ Applied

LEMMA TriggerType ==
    ASSUME NEW r
    PROVE  /\ Trigger(r) \in Cron \cup {Once, NoJob}
           /\ Called(r) \in Cron \cup {Once, NoJob}
BY DEF Trigger, Called

LEMMA CoreInit == Init => Core
<1> SUFFICES ASSUME Init PROVE Core
    OBVIOUS
<1>1. TypeOK
    <2>1. OneShot \in Row
        BY DEF OneShot, Row, Expressions
    <2> QED
        BY <2>1, AttemptsAssumption DEF Init, TypeOK, Phases, Tasks
<1>2. WaitersMayRetry /\ RunsAreAudited /\ Applied
    BY DEF Init, WaitersMayRetry, RunsAreAudited, Applied
<1>3. Claimed
    <2> SUFFICES ASSUME NEW s \in Schedules
                 PROVE  /\ job[s] = Once => (s \in passed <=> s \in due)
                        /\ fired[s] <= 1
                        /\ fired[s] = 1 => s \in passed /\ job[s] # Once
        BY DEF Claimed
    <2>1. job[s] # Once
        BY TriggersAssumption DEF Init
    <2>2. fired[s] = 0
        BY DEF Init
    <2> QED
        BY <2>1, <2>2
<1> QED
    BY <1>1, <1>2, <1>3 DEF Core

\* The routes change the table alone; they leave a row of the table a row.
LEMMA RouteKeeps ==
    ASSUME Core, NEW s \in Schedules, Route(s)
    PROVE  Core'
<1> USE DEF registry, exec
<1>1. /\ row' \in [Schedules -> Row \cup {Unborn, Gone}]
      /\ \A q \in audited \cap Schedules : Exists(q) => Exists(q)'
      /\ UNCHANGED <<audited, passed, task, snap, job, due, run, attempt, fired>>
    <2>1. ASSUME NEW c \in Expressions, CreateSchedule(s, c)
          PROVE  /\ row' \in [Schedules -> Row \cup {Unborn, Gone}]
                 /\ \A q \in Schedules : Exists(q) => Exists(q)'
        BY <2>1 DEF CreateSchedule, Core, TypeOK, Row, Exists
    <2>2. ASSUME NEW active \in BOOLEAN, NEW c \in Expressions, UpdateSchedule(s, active, c)
          PROVE  /\ row' \in [Schedules -> Row \cup {Unborn, Gone}]
                 /\ \A q \in Schedules : Exists(q) => Exists(q)'
        BY <2>2 DEF UpdateSchedule, Core, TypeOK, Row, Exists
    <2>3. ASSUME DeleteSchedule(s)
          PROVE  /\ row' \in [Schedules -> Row \cup {Unborn, Gone}]
                 /\ \A q \in Schedules \ {s} : Exists(q) => Exists(q)'
                 /\ s \notin audited
        BY <2>3 DEF DeleteSchedule, Core, TypeOK, Exists
    <2>4. UNCHANGED <<audited, passed, task, snap, job, due, run, attempt, fired>>
        BY DEF Route, CreateSchedule, UpdateSchedule, DeleteSchedule
    <2> QED
        BY <2>1, <2>2, <2>3, <2>4 DEF Route
<1>2. TypeOK'
    BY <1>1 DEF Core, TypeOK
<1>3. WaitersMayRetry' /\ Claimed' /\ Applied'
    BY <1>1 DEF Core, WaitersMayRetry, Claimed, Applied
<1>4. RunsAreAudited'
    BY <1>1 DEF Core, RunsAreAudited
<1> QED
    BY <1>2, <1>3, <1>4 DEF Core

\* The steps of an execution move it from one phase to another; none touches
\* the table, the registry or the count of starts, and WriteAudit alone adds to
\* what is audited.
LEMMA ExecuteKeeps ==
    ASSUME Core, NEW s \in Schedules, Execute(s)
    PROVE  Core'
<1> USE DEF tables, registry, Advance
<1>1. UNCHANGED <<row, passed, task, snap, job, due, fired>>
    BY DEF Execute, LoadSchedule, LoadFails, WriteAudit, RenderReport, StoreOutput,
           RecordOutput, DeliverOutput, AttemptFails, Retry, NotifyFailure,
           NotifyDetached
<1>2. Claimed' /\ Applied'
    BY <1>1 DEF Core, Claimed, Applied
<1>3. CASE Retry(s)
    <2>1. attempt[s] + 1 \in 0..MaxAttempts
        BY <1>3, AttemptsAssumption DEF Core, TypeOK, WaitersMayRetry, Retry
    <2>2. TypeOK'
        BY <1>3, <2>1 DEF Core, TypeOK, Phases, Retry
    <2>3. WaitersMayRetry' /\ RunsAreAudited'
        BY <1>3 DEF Core, TypeOK, WaitersMayRetry, RunsAreAudited, Exists, Retry
    <2> QED
        BY <1>2, <2>2, <2>3 DEF Core
<1>4. CASE WriteAudit(s)
    BY <1>2, <1>4 DEF Core, TypeOK, Phases, WaitersMayRetry, RunsAreAudited, Exists,
                      WriteAudit
<1>5. CASE AttemptFails(s)
    <2>1. TypeOK'
        BY <1>5 DEF Core, TypeOK, Phases, AttemptFails
    <2>2. WaitersMayRetry' /\ RunsAreAudited'
        BY <1>5 DEF Core, TypeOK, WaitersMayRetry, RunsAreAudited, Exists, AttemptFails
    <2> QED
        BY <1>2, <2>1, <2>2 DEF Core
<1>6. CASE LoadSchedule(s) \/ LoadFails(s) \/ NotifyFailure(s) \/ NotifyDetached(s)
    <2> USE DEF LoadSchedule, LoadFails, NotifyFailure, NotifyDetached
    <2>1. TypeOK'
        BY <1>6 DEF Core, TypeOK, Phases
    <2>2. WaitersMayRetry' /\ RunsAreAudited'
        BY <1>6 DEF Core, TypeOK, WaitersMayRetry, RunsAreAudited, Exists
    <2> QED
        BY <1>2, <2>1, <2>2 DEF Core
<1>7. CASE RenderReport(s) \/ StoreOutput(s) \/ RecordOutput(s) \/ DeliverOutput(s)
    <2> USE DEF RenderReport, StoreOutput, RecordOutput, DeliverOutput
    <2>1. TypeOK'
        BY <1>7 DEF Core, TypeOK, Phases
    <2>2. WaitersMayRetry' /\ RunsAreAudited'
        BY <1>7 DEF Core, TypeOK, WaitersMayRetry, RunsAreAudited, Exists
    <2> QED
        BY <1>2, <2>1, <2>2 DEF Core
<1> QED
    BY <1>3, <1>4, <1>5, <1>6, <1>7 DEF Execute

\* The registry is rebuilt; a one-shot that is past gets no job.
LEMMA SyncKeeps ==
    ASSUME Core, ApplySync
    PROVE  Core'
<1> USE DEF tables, exec
<1>1. ASSUME NEW s \in Schedules
      PROVE  \/ /\ Loadable(s)
                /\ job'[s] = Called(snap[s])
             \/ /\ ~Loadable(s)
                /\ job'[s] = NoJob
                /\ Called(snap[s]) = NoJob \/ (Called(snap[s]) = Once /\ s \in passed)
    BY DEF ApplySync, Loadable, Called
<1>2. TypeOK'
    <2>1. job' \in [Schedules -> Cron \cup {Once, NoJob}]
        BY TriggerType DEF ApplySync
    <2> QED
        BY <2>1 DEF Core, TypeOK, Tasks, ApplySync
<1>3. WaitersMayRetry' /\ RunsAreAudited'
    BY DEF Core, WaitersMayRetry, RunsAreAudited, Exists, ApplySync
<1>4. Claimed'
    <2>1. \A s \in Schedules : job'[s] = Once => s \notin passed
        BY TriggersAssumption DEF ApplySync, Loadable
    <2> QED
        BY <2>1 DEF Core, Claimed, ApplySync
<1>5. Applied'
    BY <1>1 DEF Core, Applied, ApplySync, Called, Trigger
<1> QED
    BY <1>2, <1>3, <1>4, <1>5 DEF Core

\* A fire time comes, a run_at passes, or a due job is processed.
LEMMA FireKeeps ==
    ASSUME Core, NEW s \in Schedules, ComesDue(s) \/ RunAtPasses(s) \/ ProcessJob(s)
    PROVE  Core'
<1> USE DEF tables, registry, exec
<1>1. CASE ComesDue(s)
    <2>1. TypeOK'
        BY <1>1 DEF Core, TypeOK, ComesDue
    <2>2. WaitersMayRetry' /\ RunsAreAudited' /\ Applied'
        BY <1>1 DEF Core, WaitersMayRetry, RunsAreAudited, Exists, Applied, Called, Trigger,
                    ComesDue
    <2>3. Claimed'
        BY <1>1 DEF Core, TypeOK, Claimed, ComesDue
    <2> QED
        BY <2>1, <2>2, <2>3 DEF Core
<1>2. CASE RunAtPasses(s)
    <2>1. TypeOK'
        BY <1>2 DEF Core, TypeOK, RunAtPasses
    <2>2. WaitersMayRetry' /\ RunsAreAudited' /\ Applied'
        BY <1>2 DEF Core, WaitersMayRetry, RunsAreAudited, Exists, Applied, Called, Trigger,
                    RunAtPasses
    <2>3. Claimed'
        BY <1>2 DEF Core, TypeOK, Claimed, RunAtPasses
    <2> QED
        BY <2>1, <2>2, <2>3 DEF Core
<1>3. CASE ProcessJob(s)
    <2>1. job'[s] = (IF job[s] = Once THEN NoJob ELSE job[s])
          /\ \A q \in Schedules \ {s} : job'[q] = job[q]
        BY <1>3 DEF Core, TypeOK, ProcessJob
    <2>2. job[s] = Once => s \in passed /\ fired[s] = 0
        BY <1>3 DEF Core, TypeOK, Claimed, ProcessJob
    <2>3. TypeOK'
        <3>1. job' \in [Schedules -> Cron \cup {Once, NoJob}]
            BY <1>3 DEF Core, TypeOK, ProcessJob
        <3>2. due' \subseteq {q \in Schedules : job'[q] # NoJob}
            BY <1>3, <2>1 DEF Core, TypeOK, ProcessJob
        <3>3. /\ run' \in [Schedules -> Phases]
              /\ attempt' \in [Schedules -> 0..MaxAttempts]
              /\ fired' \in [Schedules -> Nat]
            BY <1>3, AttemptsAssumption DEF Core, TypeOK, Phases, ProcessJob
        <3> QED
            BY <1>3, <3>1, <3>2, <3>3 DEF Core, TypeOK, ProcessJob
    <2>4. WaitersMayRetry' /\ RunsAreAudited'
        BY <1>3 DEF Core, TypeOK, WaitersMayRetry, RunsAreAudited, Exists, ProcessJob
    <2>5. Claimed'
        <3>1. \A q \in Schedules : job'[q] = Once => q # s /\ job[q] = Once
            BY <2>1, TriggersAssumption
        <3>2. \A q \in Schedules \ {s} : fired'[q] = fired[q]
            BY <1>3 DEF Core, TypeOK, ProcessJob
        <3>3. fired'[s] = fired[s] \/ (job[s] = Once /\ fired'[s] = 1)
            BY <1>3, <2>2 DEF Core, TypeOK, ProcessJob
        <3> QED
            BY <1>3, <2>1, <2>2, <3>1, <3>2, <3>3 DEF Core, Claimed, ProcessJob
    <2>6. Applied'
        BY <1>3, <2>1, <2>2 DEF Core, Applied, Called, Trigger, ProcessJob
    <2> QED
        BY <2>3, <2>4, <2>5, <2>6 DEF Core
<1> QED
    BY <1>1, <1>2, <1>3

LEMMA CoreNext == Core /\ [Next]_vars => Core'
<1> SUFFICES ASSUME Core, [Next]_vars PROVE Core'
    OBVIOUS
<1> USE DEF tables, registry, exec
<1>1. CASE SelectSchedules
    <2>1. TypeOK'
        BY <1>1 DEF Core, TypeOK, Tasks, SelectSchedules
    <2>2. WaitersMayRetry' /\ RunsAreAudited' /\ Claimed' /\ Applied'
        BY <1>1 DEF Core, WaitersMayRetry, RunsAreAudited, Exists, Claimed, Applied,
                    SelectSchedules
    <2> QED
        BY <2>1, <2>2 DEF Core
<1>2. CASE BootFails \/ Boot
    <2>1. TypeOK'
        BY <1>2 DEF Core, TypeOK, Tasks, BootFails, Boot
    <2>2. WaitersMayRetry' /\ RunsAreAudited' /\ Claimed' /\ Applied'
        BY <1>2 DEF Core, WaitersMayRetry, RunsAreAudited, Exists, Claimed, Applied,
                    BootFails, Boot
    <2> QED
        BY <2>1, <2>2 DEF Core
<1>3. CASE Crash
    <2>1. TypeOK'
        BY <1>3, AttemptsAssumption DEF Core, TypeOK, Tasks, Phases, Crash
    <2>2. WaitersMayRetry' /\ RunsAreAudited' /\ Applied'
        BY <1>3 DEF Core, WaitersMayRetry, RunsAreAudited, Applied, Crash
    <2>3. Claimed'
        BY <1>3, TriggersAssumption DEF Core, Claimed, Crash
    <2> QED
        BY <2>1, <2>2, <2>3 DEF Core
<1>4. CASE UNCHANGED vars
    <2>1. TypeOK' /\ Applied'
        BY <1>4 DEF Core, TypeOK, Applied, vars
    <2>2. WaitersMayRetry' /\ RunsAreAudited' /\ Claimed'
        BY <1>4 DEF Core, WaitersMayRetry, RunsAreAudited, Exists, Claimed, vars
    <2> QED
        BY <2>1, <2>2 DEF Core
<1> QED
    BY <1>1, <1>2, <1>3, <1>4, RouteKeeps, SyncKeeps, FireKeeps, ExecuteKeeps DEF Next

LEMMA CoreAlways == Spec => []Core
BY CoreInit, CoreNext, PTL DEF Spec

-----------------------------------------------------------------------------

\* Every variable of the scheduler keeps its type, only jobs in the registry are
\* due, and no execution makes more attempts than it is given.
THEOREM SchedulerTypeSafe == Spec => []TypeOK
BY CoreAlways, PTL DEF Core

\* After a sync the registry agrees with every row that is still what the select
\* returned (ReportScheduler.sync_schedules), through edits, fires and restarts.
THEOREM RegistryFollowsTable == Spec => []Reconciled
<1>1. Core => Reconciled
    BY DEF Core, Applied, Called, Reconciled, Exists
<1> QED
    BY <1>1, CoreAlways, PTL

\* is_past_one_shot keeps a one-shot that has run from running again, although
\* its row stays active and every sync and every restart sees it.
THEOREM OneShotRunsOnce == Spec => []OneShotAtMostOnce
<1>1. Core => OneShotAtMostOnce
    BY DEF Core, Claimed, OneShotAtMostOnce
<1> QED
    BY <1>1, CoreAlways, PTL

\* The foreign key of audit_log keeps delete_schedule from taking a schedule
\* away from an execution that has written its first audit entry.
THEOREM RunsKeepTheirSchedules == Spec => []RunKeepsItsSchedule
<1>1. Core => RunKeepsItsSchedule
    BY DEF Core, RunsAreAudited, RunKeepsItsSchedule
<1> QED
    BY <1>1, CoreAlways, PTL
=============================================================================
