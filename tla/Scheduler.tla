----------------------------- MODULE Scheduler ------------------------------
(***************************************************************************)
(* The embedded report scheduler: the schedules table, the registry of     *)
(* jobs that APScheduler keeps in memory, the task that reconciles the two *)
(* every SCHEDULE_SYNC_INTERVAL_SECONDS, and the executions it starts.     *)
(*                                                                         *)
(* Everything runs on one event loop: an action ends where the code awaits.*)
(* The registry lives in memory, so a crash or a shutdown empties it; the  *)
(* tables survive.  Time is abstract: a job becomes due at any moment      *)
(* (ComesDue), and a one-shot's run_at passes when it does.                *)
(*                                                                         *)
(* What APScheduler 3 contributes: at most one running execution per job   *)
(* id (max_instances), coalesced fires, a DateTrigger's job that goes away *)
(* when it fires, and add_job(replace_existing) that computes the next     *)
(* fire time from the present, whatever the job it replaces was due for.   *)
(***************************************************************************)
EXTENDS Naturals

CONSTANTS Schedules,    \* schedule ids
          Cron,         \* usable cron expressions (with their timezone)
          Once,         \* the trigger run_at gives
          Invalid,      \* a cron expression or timezone that does not parse
          Empty,        \* no cron expression
          Unborn,       \* the row of a schedule nobody has created yet
          Gone,         \* the row of a schedule that has been deleted
          NoJob,        \* no job in the registry
          MaxAttempts   \* max_retries: attempts of one execution

ASSUME TriggersAssumption ==
    /\ {Once, Invalid, Empty, NoJob} \cap Cron = {}
    /\ Once # NoJob
    /\ Empty # Invalid
ASSUME RowsAssumption == Unborn # Gone
ASSUME AttemptsAssumption == MaxAttempts \in Nat \ {0}

VARIABLES
    row,        \* the schedules table
    audited,    \* schedules that rows of audit_log refer to
    passed,     \* one-shots whose run_at is in the past
    task,       \* the scheduler task
    snap,       \* the rows its latest select returned
    job,        \* the registry: the trigger of each job
    due,        \* jobs whose fire time has come and that have not been processed
    run,        \* where each execution stands
    attempt,    \* which attempt it is in
    fired       \* how often a one-shot has been started

tables == <<row, audited, passed>>
registry == <<job, due>>
exec == <<run, attempt>>
vars == <<row, audited, passed, task, snap, job, due, run, attempt, fired>>

Expressions == Cron \cup {Invalid, Empty}
Row == [active : BOOLEAN, cron : Expressions, runAt : BOOLEAN]
Phases == {"idle", "load", "audit", "render", "store", "record", "deliver",
           "wait", "notify", "detached"}
Tasks == {"down", "booting", "starting", "sleeping", "syncing", "dead"}

Exists(s) == row[s] \in Row

Started == task \in {"sleeping", "syncing"}

\* Rows with run_at are written by other means than the routes.
OneShot == [active |-> TRUE, cron |-> Empty, runAt |-> TRUE]

Init ==
    /\ row \in [Schedules -> {Unborn, OneShot}]
    /\ audited = {}
    /\ passed = {}
    /\ task = "booting"
    /\ snap = [s \in Schedules |-> Unborn]
    /\ job = [s \in Schedules |-> NoJob]
    /\ due = {}
    /\ run = [s \in Schedules |-> "idle"]
    /\ attempt = [s \in Schedules |-> 0]
    /\ fired = [s \in Schedules |-> 0]

-----------------------------------------------------------------------------
(* The schedule routes.                                                    *)

\* create_schedule checks a cron expression, but neither the timezone nor that
\* there is any trigger.
CreateSchedule(s, c) ==
    /\ row[s] = Unborn
    /\ row' = [row EXCEPT ![s] = [active |-> TRUE, cron |-> c, runAt |-> FALSE]]
    /\ UNCHANGED <<audited, passed, task, snap, registry, exec, fired>>

\* update_schedule sets what the form holds, unchecked; run_at is not in it.
UpdateSchedule(s, active, c) ==
    /\ Exists(s)
    /\ row' = [row EXCEPT ![s].active = active, ![s].cron = c]
    /\ UNCHANGED <<audited, passed, task, snap, registry, exec, fired>>

\* Mutant: audit_log does not hold on to its schedule.
DeleteSchedule_Unchecked(s) ==
    /\ Exists(s)
    /\ row' = [row EXCEPT ![s] = Gone]
    /\ UNCHANGED <<audited, passed, task, snap, registry, exec, fired>>

\* delete_schedule fails on a foreign key once audit_log refers to the row.  A
\* delete_report that takes its schedules with it ends the same way.
DeleteSchedule(s) ==
    /\ Exists(s)
    /\ s \notin audited
    /\ row' = [row EXCEPT ![s] = Gone]
    /\ UNCHANGED <<audited, passed, task, snap, registry, exec, fired>>

-----------------------------------------------------------------------------
(* The scheduler task.                                                     *)

\* Mutant: the select of the first sync is used for good.
SelectSchedules_Once ==
    /\ task \in {"booting", "sleeping"}
    /\ snap' = IF task = "booting" THEN row ELSE snap
    /\ task' = IF task = "booting" THEN "starting" ELSE "syncing"
    /\ UNCHANGED <<tables, registry, exec, fired>>

\* The select of sync_schedules: the rows as they are now.  The loop that
\* applies them runs later, when the answer has arrived.
SelectSchedules ==
    /\ task \in {"booting", "sleeping"}
    /\ snap' = row
    /\ task' = IF task = "booting" THEN "starting" ELSE "syncing"
    /\ UNCHANGED <<tables, registry, exec, fired>>

\* The database does not answer the first select: run_scheduler ends, and
\* nothing starts it again before the next restart.  A later select that fails
\* is logged, and the task sleeps on, which changes nothing.
BootFails ==
    /\ task = "booting"
    /\ task' = "dead"
    /\ UNCHANGED <<tables, snap, registry, exec, fired>>

\* The trigger add_schedule gives the job of row r: cron_expression counts
\* before run_at, and with neither there is an error.
Trigger(r) ==
    IF r.cron \in Cron THEN r.cron
    ELSE IF r.cron = Empty /\ r.runAt THEN Once ELSE NoJob

\* Mutant: one-shots whose time has passed are loaded again.
Loadable_PastToo(s) ==
    /\ snap[s] \in Row
    /\ snap[s].active
    /\ Trigger(snap[s]) # NoJob

\* is_past_one_shot is evaluated when the row is applied.
Loadable(s) ==
    /\ snap[s] \in Row
    /\ snap[s].active
    /\ Trigger(snap[s]) # NoJob
    /\ ~(Trigger(snap[s]) = Once /\ s \in passed)

\* Mutant: jobs of schedules that are no longer active are not removed.
ApplySync_KeepStale ==
    /\ task \in {"starting", "syncing"}
    /\ job' = [s \in Schedules |->
                  IF Loadable(s) THEN Trigger(snap[s]) ELSE job[s]]
    /\ due' = {}
    /\ task' = "sleeping"
    /\ UNCHANGED <<tables, snap, exec, fired>>

\* Mutant: the fire time of a removed job stays due.
ApplySync_DueKept ==
    /\ task \in {"starting", "syncing"}
    /\ job' = [s \in Schedules |-> IF Loadable(s) THEN Trigger(snap[s]) ELSE NoJob]
    /\ task' = "sleeping"
    /\ UNCHANGED <<tables, snap, due, exec, fired>>

\* The rest of sync_schedules, without an await: every loadable schedule gets
\* a job with a new fire time, every other schedule job is removed.
ApplySync ==
    /\ task \in {"starting", "syncing"}
    /\ job' = [s \in Schedules |-> IF Loadable(s) THEN Trigger(snap[s]) ELSE NoJob]
    /\ due' = {}
    /\ task' = "sleeping"
    /\ UNCHANGED <<tables, snap, exec, fired>>

\* The process goes down: jobs and executions are gone.
Crash ==
    /\ task # "down"
    /\ task' = "down"
    /\ snap' = [s \in Schedules |-> Unborn]
    /\ job' = [s \in Schedules |-> NoJob]
    /\ due' = {}
    /\ run' = [s \in Schedules |-> "idle"]
    /\ attempt' = [s \in Schedules |-> 0]
    /\ UNCHANGED <<tables, fired>>

Boot ==
    /\ task = "down"
    /\ task' = "booting"
    /\ UNCHANGED <<tables, snap, registry, exec, fired>>

-----------------------------------------------------------------------------
(* Time, and APScheduler's processing of jobs.                             *)

\* The fire time of a job comes.
ComesDue(s) ==
    /\ Started
    /\ job[s] # NoJob
    /\ s \notin due
    /\ due' = due \cup {s}
    /\ passed' = IF job[s] = Once THEN passed \cup {s} ELSE passed
    /\ UNCHANGED <<row, audited, task, snap, job, exec, fired>>

\* The run_at of a one-shot passes while no job stands for it.
RunAtPasses(s) ==
    /\ Exists(s)
    /\ row[s].runAt
    /\ s \notin passed
    /\ job[s] # Once
    /\ passed' = passed \cup {s}
    /\ UNCHANGED <<row, audited, task, snap, registry, exec, fired>>

\* A due job is processed: it gets its next fire time, or goes if it has none,
\* and an execution starts unless one is still running.
ProcessJob(s) ==
    /\ Started
    /\ s \in due
    /\ due' = due \ {s}
    /\ job' = [job EXCEPT ![s] = IF @ = Once THEN NoJob ELSE @]
    /\ \/ /\ run[s] = "idle"
          /\ run' = [run EXCEPT ![s] = "load"]
          /\ attempt' = [attempt EXCEPT ![s] = 1]
          /\ fired' = [fired EXCEPT ![s] = IF job[s] = Once THEN @ + 1 ELSE @]
       \/ /\ run[s] # "idle"
          /\ UNCHANGED <<exec, fired>>
    /\ UNCHANGED <<tables, task, snap>>

-----------------------------------------------------------------------------
(* One execution: _execute_report and execute_report.                      *)

Advance(s, from, to) ==
    /\ run[s] = from
    /\ run' = [run EXCEPT ![s] = to]

\* A session per attempt; a schedule that is gone ends the execution, one that
\* was deactivated does not.  If the select itself fails the exception leaves
\* _execute_report: there is no other attempt and no notification.
LoadSchedule(s) ==
    /\ Advance(s, "load", IF Exists(s) THEN "audit" ELSE "idle")
    /\ UNCHANGED <<tables, task, snap, registry, attempt, fired>>

LoadFails(s) ==
    /\ Advance(s, "load", "idle")
    /\ UNCHANGED <<tables, task, snap, registry, attempt, fired>>

\* The audit entry "schedule_executed" refers to the schedule.
WriteAudit(s) ==
    /\ Advance(s, "audit", "render")
    /\ Exists(s)
    /\ audited' = audited \cup {s}
    /\ UNCHANGED <<row, passed, task, snap, registry, attempt, fired>>

\* Fetch the data, render, export.  The report is there as long as the schedule.
RenderReport(s) ==
    /\ Advance(s, "render", "store")
    /\ UNCHANGED <<tables, task, snap, registry, attempt, fired>>

\* Commit the ReportOutput, which refers to the schedule.
StoreOutput(s) ==
    /\ Advance(s, "store", "record")
    /\ UNCHANGED <<tables, task, snap, registry, attempt, fired>>

\* Commit the audit entry "report_generated".
RecordOutput(s) ==
    /\ Advance(s, "record", "deliver")
    /\ UNCHANGED <<tables, task, snap, registry, attempt, fired>>

\* _deliver_scheduled: a failure to send is logged.
DeliverOutput(s) ==
    /\ Advance(s, "deliver", "idle")
    /\ UNCHANGED <<tables, task, snap, registry, attempt, fired>>

\* The steps of an attempt that raise into its except clause: all of them, the
\* selects of the delivery included.
Failing == {"audit", "render", "store", "record", "deliver"}

\* Those that fail in a commit.  The rollback expires the schedule, and with its
\* session closed its name can no longer be read.
Committing == {"audit", "store", "record"}

\* Mutant: the last attempt, too, is followed by another.
AttemptFails_Forever(s) ==
    /\ run[s] \in Failing
    /\ run' = [run EXCEPT ![s] = "load"]
    /\ UNCHANGED <<tables, task, snap, registry, attempt, fired>>

\* An exception in execute_report: sleep and try again, or give up.
AttemptFails(s) ==
    /\ run[s] \in Failing
    /\ \/ /\ attempt[s] < MaxAttempts
          /\ run' = [run EXCEPT ![s] = "wait"]
       \/ /\ attempt[s] >= MaxAttempts
          /\ run' = [run EXCEPT ![s] = IF @ \in Committing THEN "detached" ELSE "notify"]
    /\ UNCHANGED <<tables, task, snap, registry, attempt, fired>>

Retry(s) ==
    /\ Advance(s, "wait", "load")
    /\ attempt' = [attempt EXCEPT ![s] = @ + 1]
    /\ UNCHANGED <<tables, task, snap, registry, fired>>

\* send_failure_notification: a failure of its own is logged.
NotifyFailure(s) ==
    /\ Advance(s, "notify", "idle")
    /\ UNCHANGED <<tables, task, snap, registry, attempt, fired>>

\* Reading schedule.name for the notification raises, which is logged.
NotifyDetached(s) ==
    /\ Advance(s, "detached", "idle")
    /\ UNCHANGED <<tables, task, snap, registry, attempt, fired>>

-----------------------------------------------------------------------------

Route(s) ==
    \/ \E c \in Expressions : CreateSchedule(s, c)
    \/ \E active \in BOOLEAN, c \in Expressions : UpdateSchedule(s, active, c)
    \/ DeleteSchedule(s)

Execute(s) ==
    \/ LoadSchedule(s)
    \/ LoadFails(s)
    \/ WriteAudit(s)
    \/ RenderReport(s)
    \/ StoreOutput(s)
    \/ RecordOutput(s)
    \/ DeliverOutput(s)
    \/ AttemptFails(s)
    \/ Retry(s)
    \/ NotifyFailure(s)
    \/ NotifyDetached(s)

Next ==
    \/ \E s \in Schedules : Route(s)
    \/ SelectSchedules
    \/ BootFails
    \/ ApplySync
    \/ Crash
    \/ Boot
    \/ \E s \in Schedules : ComesDue(s) \/ RunAtPasses(s) \/ ProcessJob(s)
    \/ \E s \in Schedules : Execute(s)

\* The event loop keeps running what is ready: the task's sleep ends, the
\* database answers (in the end, on a select that is repeated), due jobs are
\* processed, executions go on.  Users, time and crashes are under no obligation.
Fairness ==
    /\ WF_vars(SelectSchedules)
    /\ WF_vars(ApplySync)
    /\ \A s \in Schedules : WF_vars(ProcessJob(s)) /\ WF_vars(Execute(s))

Spec == Init /\ [][Next]_vars /\ Fairness

-----------------------------------------------------------------------------
(* Properties.                                                             *)

\* Every variable keeps its type; only what is in the registry can be due.
TypeOK ==
    /\ row \in [Schedules -> Row \cup {Unborn, Gone}]
    /\ audited \subseteq Schedules
    /\ passed \subseteq Schedules
    /\ task \in Tasks
    /\ snap \in [Schedules -> Row \cup {Unborn, Gone}]
    /\ job \in [Schedules -> Cron \cup {Once, NoJob}]
    /\ due \subseteq {s \in Schedules : job[s] # NoJob}
    /\ run \in [Schedules -> Phases]
    /\ attempt \in [Schedules -> 0..MaxAttempts]
    /\ fired \in [Schedules -> Nat]

\* Whenever the task sleeps and a row is what its last select returned, the
\* registry is in step with it: an active schedule with a usable cron
\* expression has a job with that very trigger, and a one-shot has at most its
\* own job; no other schedule has one (engine.py sync_schedules).
Reconciled ==
    \A s \in Schedules : task = "sleeping" /\ snap[s] = row[s] =>
        LET t == IF Exists(s) /\ row[s].active THEN Trigger(row[s]) ELSE NoJob
        IN  job[s] = t \/ (t = Once /\ job[s] = NoJob /\ s \in passed)

\* A one-shot starts at most once, however often the registry is rebuilt, the
\* server restarts or the schedule is edited (engine.py is_past_one_shot).
OneShotAtMostOnce == \A s \in Schedules : fired[s] <= 1

\* Past its first audit entry an execution never loses its schedule to
\* delete_schedule: every row it is still to write can refer to it.
RunKeepsItsSchedule ==
    \A s \in Schedules :
        run[s] \in {"render", "store", "record", "deliver"} => Exists(s)

\* Every execution ends: it delivers, gives up, or is cut off.
EveryRunEnds == \A s \in Schedules : run[s] # "idle" ~> run[s] = "idle"

InStep(s) ==
    job[s] = IF row[s] \in Row /\ row[s].active THEN Trigger(row[s]) ELSE NoJob

\* An edit reaches the registry: while the row stays as it is, the job comes to
\* agree with it, unless the process goes down, the task died when it started,
\* or it is a one-shot whose time has come.
EditsTakeEffect ==
    \A s \in Schedules : \A r \in Row \cup {Gone} :
        row[s] = r ~> \/ row[s] # r
                      \/ InStep(s)
                      \/ s \in passed
                      \/ task \in {"down", "dead"}

\* "Retries transient failures in-process [...], then sends a failure
\* notification" (engine.py:178-179): an execution whose last attempt failed
\* ends with the notification, unless the process goes down.
ExhaustedRunIsNotified ==
    [][\A s \in Schedules :
          /\ run[s] \notin {"idle", "load", "deliver"}
          /\ run'[s] = "idle"
          => run[s] = "notify" \/ task' = "down"]_vars
=============================================================================
