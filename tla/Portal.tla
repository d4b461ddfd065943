------------------------------- MODULE Portal -------------------------------
(***************************************************************************)
(* Who sees which report, schedule and output: the pages of the portal     *)
(* (routes/portal.py), of the designer's catalogue (routes/designer.py)    *)
(* and of the schedules (routes/admin.py), over reports, schedules and     *)
(* outputs that come and go.  Lists and the pages they link to decide      *)
(* about access in separate code.                                          *)
(***************************************************************************)
EXTENDS Common, Naturals, FiniteSets

CONSTANTS Reports, Schedules, Outputs

\* None is no row and no output.
ASSUME PortalAssumption ==
    /\ None \notin [creator : Users, active : BOOLEAN]
    /\ None \notin [report : Reports, owner : Users, creator : Users]
    /\ None \notin Outputs
    /\ IsFiniteSet(Schedules)

VARIABLES
    role,       \* users.role
    report,     \* the reports table: its creator and whether it is active
    schedule,   \* the schedules table: its report, owner and creator
    output,     \* report_outputs: report, schedule and generated_by
    audit,      \* audit_log: what each entry refers to
    run         \* per schedule: the owner that a running execution has loaded

vars == <<role, report, schedule, output, audit, run>>

Roles == {"admin", "designer", "viewer"}

Existing(table) == {i \in DOMAIN table : table[i] # None}

Entry == [schedule : Schedules, output : Outputs \cup {None}]

TypeOK ==
    /\ role \in [Users -> Roles]
    /\ report \in [Reports -> [creator : Users, active : BOOLEAN] \cup {None}]
    /\ schedule \in [Schedules -> [report : Reports, owner : Users, creator : Users] \cup {None}]
    /\ output \in [Outputs -> [report : Reports, schedule : Schedules, by : Users] \cup {None}]
    /\ audit \subseteq Entry
    /\ run \in [Schedules -> Users \cup {None}]
    \* the foreign keys
    /\ \A s \in Existing(schedule) : report[schedule[s].report] # None
    /\ \A o \in Existing(output) : schedule[output[o].schedule] # None
    /\ \A e \in audit : schedule[e.schedule] # None

Init ==
    /\ role \in [Users -> Roles]
    /\ \E u \in Users : role[u] = "admin"
    /\ report = [r \in Reports |-> None]
    /\ schedule = [s \in Schedules |-> None]
    /\ output = [o \in Outputs |-> None]
    /\ audit = {}
    /\ run = [s \in Schedules |-> None]

-----------------------------------------------------------------------------
(* Access.                                                                 *)

\* check_role
HasRole(u, allowed) == role[u] \in allowed

IsAdmin(u) == HasRole(u, {"admin"})
Designs(u) == HasRole(u, {"admin", "designer"})

OwnedFor(u, r) == {s \in Existing(schedule) : schedule[s].report = r /\ schedule[s].owner = u}

\* _owns_schedule_for_report expects one schedule at most.
OwnsSchedule(u, r) ==
    CASE OwnedFor(u, r) = {} -> "forbidden"
      [] Cardinality(OwnedFor(u, r)) = 1 -> "ok"
      [] OTHER -> "error"

CanAccessReport(u, r) == IF IsAdmin(u) THEN "ok" ELSE OwnsSchedule(u, r)

\* Mutant: the generator is forgotten.
CanAccessOutput_NotGenerator(u, o) ==
    IF IsAdmin(u) THEN "ok" ELSE OwnsSchedule(u, output[o].report)

CanAccessOutput(u, o) ==
    IF IsAdmin(u) \/ output[o].by = u THEN "ok"
    ELSE OwnsSchedule(u, output[o].report)

\* _require_schedule_access
ScheduleAccess(u, s) == IsAdmin(u) \/ u \in {schedule[s].owner, schedule[s].creator}

\* _require_report_access of the designer and of the version routes
ReportAccess(u, r) == IsAdmin(u) \/ report[r].creator = u

-----------------------------------------------------------------------------
(* Pages.  A list is the set of its rows, filters and limits apart.        *)

\* portal_index
Dashboard(u) ==
    {o \in Existing(output) :
        IsAdmin(u) \/ output[o].by = u \/ OwnedFor(u, output[o].report) # {}}

\* view_report_output and download_report_output
OutputPage(u, r, o) ==
    IF output[o] = None \/ output[o].report # r THEN "notFound"
    ELSE CanAccessOutput(u, o)

HistoryPage(u, r) == IF report[r] = None THEN "notFound" ELSE CanAccessReport(u, r)

HistoryRows(r) == {o \in Existing(output) : output[o].report = r}

\* export_report of the portal, with a valid format
ExportPage(u, r) ==
    IF report[r] = None \/ ~report[r].active THEN "notFound" ELSE CanAccessReport(u, r)

\* The designer's list: active reports unless the filter says otherwise.
ReportList(u, status) ==
    {r \in Existing(report) :
        /\ IsAdmin(u) \/ report[r].creator = u
        /\ status = "all" \/ report[r].active = (status = "active")}

\* edit_report_page and export_report of the designer
ReportPage(u, r) ==
    CASE ~Designs(u) -> "forbidden"
      [] report[r] = None -> "notFound"
      [] OTHER -> IF ReportAccess(u, r) THEN "ok" ELSE "forbidden"

\* list_versions, get_version_detail, list_comments and their like
VersionPages(u, r) ==
    CASE report[r] = None -> "notFound"
      [] OTHER -> IF ReportAccess(u, r) THEN "ok" ELSE "forbidden"

ScheduleList(u) ==
    {s \in Existing(schedule) :
        Designs(u) /\ (IsAdmin(u) \/ schedule[s].owner = u \/ schedule[s].creator = u)}

\* get_schedule_api; get_schedule asks for no role
SchedulePage(u, s) ==
    CASE ~Designs(u) -> "forbidden"
      [] schedule[s] = None -> "notFound"
      [] OTHER -> IF ScheduleAccess(u, s) THEN "ok" ELSE "forbidden"

-----------------------------------------------------------------------------
(* What changes the tables.                                                *)

\* update_user.  Administrators who take their own rights are in Accounts.
ChangeRole(u, r) ==
    /\ \E a \in Users \ {u} : IsAdmin(a)
    /\ role' = [role EXCEPT ![u] = r]
    /\ UNCHANGED <<report, schedule, output, audit, run>>

CreateReport(u, r) ==
    /\ Designs(u)
    /\ report[r] = None
    /\ report' = [report EXCEPT ![r] = [creator |-> u, active |-> TRUE]]
    /\ UNCHANGED <<role, schedule, output, audit, run>>

ToggleStatus(u, r, b) ==
    /\ ReportPage(u, r) = "ok"
    /\ report' = [report EXCEPT ![r].active = b]
    /\ UNCHANGED <<role, schedule, output, audit, run>>

\* delete_report: the ORM deletes the schedules and outputs of the report, and
\* with the outputs go their audit entries.  An entry without an output still
\* refers to the report, so that the deletion fails.
DeleteReport(u, r) ==
    /\ IsAdmin(u)
    /\ report[r] # None
    /\ LET gone == {s \in Existing(schedule) : schedule[s].report = r}
           lost == HistoryRows(r)
           left == {e \in audit : e.output \notin lost}
       IN  /\ \A e \in left : e.schedule \notin gone
           /\ report' = [report EXCEPT ![r] = None]
           /\ schedule' = [s \in Schedules |-> IF s \in gone THEN None ELSE schedule[s]]
           /\ output' = [o \in Outputs |-> IF o \in lost THEN None ELSE output[o]]
           /\ audit' = left
    /\ UNCHANGED <<role, run>>

\* create_schedule: of any report, for any owner.
CreateSchedule(u, s, r, owner) ==
    /\ Designs(u)
    /\ schedule[s] = None
    /\ run[s] = None
    /\ report[r] # None
    /\ schedule' = [schedule EXCEPT ![s] = [report |-> r, owner |-> owner, creator |-> u]]
    /\ UNCHANGED <<role, report, output, audit, run>>

\* update_schedule with an owner
ReassignOwner(u, s, owner) ==
    /\ schedule[s] # None
    /\ Designs(u) /\ ScheduleAccess(u, s)
    /\ IsAdmin(u) \/ owner = schedule[s].owner
    /\ schedule' = [schedule EXCEPT ![s].owner = owner]
    /\ UNCHANGED <<role, report, output, audit, run>>

\* delete_schedule fails as long as an output or an audit entry refers to it.
DeleteSchedule(u, s) ==
    /\ IsAdmin(u)
    /\ schedule[s] # None
    /\ \A o \in Existing(output) : output[o].schedule # s
    /\ \A e \in audit : e.schedule # s
    /\ schedule' = [schedule EXCEPT ![s] = None]
    /\ UNCHANGED <<role, report, output, audit, run>>

\* execute_report up to its rendering: the schedule stays as it was loaded.
Execute(s) ==
    /\ schedule[s] # None
    /\ run[s] = None
    /\ run' = [run EXCEPT ![s] = schedule[s].owner]
    /\ audit' = audit \cup {[schedule |-> s, output |-> None]}
    /\ UNCHANGED <<role, report, schedule, output>>

\* ... and its end: the output, generated by the owner, and its audit entry.
Store(s, o) ==
    /\ run[s] # None
    /\ schedule[s] # None
    /\ output[o] = None
    /\ output' = [output EXCEPT ![o] =
                     [report |-> schedule[s].report, schedule |-> s, by |-> run[s]]]
    /\ audit' = audit \cup {[schedule |-> s, output |-> o]}
    /\ run' = [run EXCEPT ![s] = None]
    /\ UNCHANGED <<role, report, schedule>>

\* The execution fails, or the process ends.
Abandon(s) ==
    /\ run[s] # None
    /\ run' = [run EXCEPT ![s] = None]
    /\ UNCHANGED <<role, report, schedule, output, audit>>

\* Mutant: the clean-up takes the audit entries of the schedule with it.
CleanUp_AuditToo(old) ==
    /\ old # {} /\ old \subseteq Existing(output)
    /\ output' = [o \in Outputs |-> IF o \in old THEN None ELSE output[o]]
    /\ audit' = {e \in audit : \A o \in old : e.schedule # output[o].schedule}
    /\ UNCHANGED <<role, report, schedule, run>>

\* cleanup_old_outputs, with the entries that refer to the outputs
CleanUp(old) ==
    /\ old # {} /\ old \subseteq Existing(output)
    /\ output' = [o \in Outputs |-> IF o \in old THEN None ELSE output[o]]
    /\ audit' = {e \in audit : e.output \notin old}
    /\ UNCHANGED <<role, report, schedule, run>>

Next ==
    \/ \E u \in Users :
          \/ \E r \in Roles : ChangeRole(u, r)
          \/ \E r \in Reports :
                \/ CreateReport(u, r)
                \/ \E b \in BOOLEAN : ToggleStatus(u, r, b)
                \/ DeleteReport(u, r)
          \/ \E s \in Schedules :
                \/ \E r \in Reports, owner \in Users : CreateSchedule(u, s, r, owner)
                \/ \E owner \in Users : ReassignOwner(u, s, owner)
                \/ DeleteSchedule(u, s)
    \/ \E s \in Schedules :
          \/ Execute(s)
          \/ \E o \in Outputs : Store(s, o)
          \/ Abandon(s)
    \/ \E old \in SUBSET Outputs : CleanUp(old)

Spec == Init /\ [][Next]_vars

-----------------------------------------------------------------------------
(* Properties.                                                             *)

\* What a list shows its reader can be opened: an output in the dashboard or
\* in a report's history, a report in the designer's list, a schedule in the
\* list of schedules; and who may read a report's history may export it as long
\* as it is active.  Except that who owns two schedules of a report gets an
\* error where one is expected, the dashboard shows outputs whose history
\* stays closed to who has generated them, and viewers get a list of reports
\* that they may not open.
ListedIsReadable ==
    /\ \A u \in Users : \A o \in Dashboard(u) :
          LET r == output[o].report
          IN  /\ Cardinality(OwnedFor(u, r)) <= 1 => OutputPage(u, r, o) = "ok"
              /\ OwnedFor(u, r) = {} => OutputPage(u, r, o) = "ok"
    /\ \A u \in Users, r \in Reports :
          HistoryPage(u, r) = "ok" =>
              \A o \in HistoryRows(r) : o \in Dashboard(u) /\ OutputPage(u, r, o) = "ok"
    /\ \A u \in Users, r \in Reports :
          ExportPage(u, r) = "ok" <=> HistoryPage(u, r) = "ok" /\ report[r].active
    /\ \A u \in Users : Designs(u) =>
          /\ \A r \in ReportList(u, "all") : ReportPage(u, r) = "ok" /\ VersionPages(u, r) = "ok"
          /\ \A s \in ScheduleList(u) : SchedulePage(u, s) = "ok"

\* An execution leaves an audit entry that stays, and keeps its schedule and
\* its report, for good, whatever is deleted or cleaned up: clients are answered with an
\* error instead.
ExecutedStays ==
    [][\A s \in Schedules :
          [schedule |-> s, output |-> None] \in audit =>
              /\ [schedule |-> s, output |-> None] \in audit'
              /\ schedule'[s] # None
              /\ report'[schedule[s].report] # None
              /\ schedule'[s].report = schedule[s].report]_vars
=============================================================================
