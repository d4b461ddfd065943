--------------------------- MODULE ReportVersions ---------------------------
(***************************************************************************)
(* One report and its version history, as the HTTP handlers of the         *)
(* designer and of the version pages change them: create, import, update,  *)
(* "manual save", restore and delete.  Each handler runs as a request that *)
(* may lose the processor at every await; several requests run at once,    *)
(* each with its own database session (READ COMMITTED, one transaction     *)
(* per commit, autoflush before a query).                                  *)
(*                                                                         *)
(* What PostgreSQL and the ORM contribute:                                 *)
(*   - an UPDATE of the reports row holds the row until its transaction    *)
(*     ends (rowLock); nobody sees what it wrote before the commit;        *)
(*   - a session keeps the report as it first loaded it (seen), and an     *)
(*     UPDATE writes only the columns that differ from that;               *)
(*   - report_versions is unique in (report_id, version_number), and a row *)
(*     of it needs its report: inserting one otherwise is an               *)
(*     IntegrityError;                                                     *)
(*   - a rollback undoes what the session has not committed and makes it   *)
(*     load the report afresh.                                             *)
(***************************************************************************)
EXTENDS Naturals, FiniteSets

CONSTANTS Reqs,             \* the requests
          Origin,           \* the request, before the first state, that saved version 1
          Defs,             \* report definitions
          NoDef,            \* what a report that does not exist holds
          Nobody,           \* the holder of a free row
          MaxSaveRetries    \* _MAX_SAVE_RETRIES

ASSUME ReqsAssumption == Origin \notin Reqs /\ Nobody \notin Reqs
ASSUME DefsAssumption == Defs # {} /\ NoDef \notin Defs
ASSUME RetriesAssumption == MaxSaveRetries \in Nat \ {0}

VARIABLES
    stage,      \* the report: "unborn", "live" or "deleted"
    report,     \* reports.definition, as committed
    versions,   \* report_versions: version_number -> [def, by], as committed
    rowLock,    \* the request whose open transaction updated the reports row
    pc,         \* where each request stands
    op,         \* what each request was asked to do
    seen,       \* the definition its session loaded
    want,       \* the definition it is to write
    target,     \* the version it is to restore
    top,        \* the max(version_number) it read
    tries,      \* attempts of save_version that failed
    outcome     \* what the client was told

store == <<stage, report, versions>>
session == <<op, seen, want, target>>
vars == <<stage, report, versions, rowLock, pc, op, seen, want, target, top,
          tries, outcome>>

Ops == {"none", "create", "import", "update", "save", "restore"}
Steps == {"idle", "flush", "max", "insert", "write", "lookup", "commit", "done"}
Outcomes == {"none", "ok", "error", "notfound", "lost"}

Entry == [def : Defs, by : Reqs \cup {Origin}]

Numbers == DOMAIN versions

\* select coalesce(max(version_number), 0)
MaxNumber(S) == IF S = {} THEN 0 ELSE CHOOSE n \in S : \A m \in S : m <= n

NoVersions == [n \in {} |-> CHOOSE e \in Entry : TRUE]

\* The rows l with one more, numbered n.
WithVersion(l, n, e) == [m \in (DOMAIN l) \cup {n} |-> IF m = n THEN e ELSE l[m]]

-----------------------------------------------------------------------------

\* The report is new, or it was imported, or created with its first version.
Init ==
    /\ \/ stage = "unborn" /\ report = NoDef /\ versions = NoVersions
       \/ /\ stage = "live"
          /\ report \in Defs
          /\ versions \in {NoVersions,
                           WithVersion(NoVersions, 1, [def |-> report, by |-> Origin])}
    /\ rowLock = Nobody
    /\ pc = [r \in Reqs |-> "idle"]
    /\ op = [r \in Reqs |-> "none"]
    /\ seen = [r \in Reqs |-> NoDef]
    /\ want = [r \in Reqs |-> NoDef]
    /\ target = [r \in Reqs |-> 0]
    /\ top = [r \in Reqs |-> 0]
    /\ tries = [r \in Reqs |-> 0]
    /\ outcome = [r \in Reqs |-> "none"]

Goto(r, step) == pc' = [pc EXCEPT ![r] = step]

Answer(r, result) ==
    /\ Goto(r, "done")
    /\ outcome' = [outcome EXCEPT ![r] = result]

\* The request r starts as operation o of definition d; its session has
\* loaded definition s.
Open(r, o, s, d) ==
    /\ pc[r] = "idle"
    /\ op' = [op EXCEPT ![r] = o]
    /\ seen' = [seen EXCEPT ![r] = s]
    /\ want' = [want EXCEPT ![r] = d]

-----------------------------------------------------------------------------
(* The handlers up to their first shared step.                             *)

\* create_report and create_report_from_template commit the report first and
\* save its version 1 in a transaction of its own.
CreateReport(r, d) ==
    /\ stage = "unborn"
    /\ stage' = "live"
    /\ report' = d
    /\ Open(r, "create", d, d)
    /\ Goto(r, "max")
    /\ UNCHANGED <<versions, rowLock, target, top, tries, outcome>>

\* import_report saves no version.
ImportReport(r, d) ==
    /\ stage = "unborn"
    /\ stage' = "live"
    /\ report' = d
    /\ Open(r, "import", d, d)
    /\ Answer(r, "ok")
    /\ UNCHANGED <<versions, rowLock, target, top, tries>>

\* update_report assigns the submitted name and definition to the loaded
\* report.  If either differs the session is dirty and the next query flushes
\* an UPDATE; if neither does, nothing will touch the reports row.
OpenUpdate(r, d, renamed) ==
    /\ stage = "live"
    /\ Open(r, "update", report, d)
    /\ Goto(r, IF renamed \/ d # report THEN "flush" ELSE "max")
    /\ UNCHANGED <<store, rowLock, target, top, tries, outcome>>

\* Mutant: the report is written before its version is saved.
OpenSave_ReportFirst(r, d) ==
    /\ stage = "live"
    /\ Open(r, "save", report, d)
    /\ report' = d
    /\ Goto(r, "max")
    /\ UNCHANGED <<stage, versions, rowLock, target, top, tries, outcome>>

\* create_version ("Manual save") saves the version before it touches the
\* report.
OpenSave(r, d) ==
    /\ stage = "live"
    /\ Open(r, "save", report, d)
    /\ Goto(r, "max")
    /\ UNCHANGED <<store, rowLock, target, top, tries, outcome>>

\* restore_version_endpoint loads the report to check who owns it; the later
\* select of the same row does not refresh the loaded object.
OpenRestore(r, n) ==
    /\ stage = "live"
    /\ Open(r, "restore", report, report)
    /\ target' = [target EXCEPT ![r] = n]
    /\ Goto(r, "lookup")
    /\ UNCHANGED <<store, rowLock, top, tries, outcome>>

\* Every handler answers 404 when the report is gone.
ReportNotFound(r) ==
    /\ stage = "deleted"
    /\ pc[r] = "idle"
    /\ Answer(r, "notfound")
    /\ UNCHANGED <<store, rowLock, session, top, tries>>

-----------------------------------------------------------------------------
(* save_version, called by create, update and save.                        *)

\* The autoflush of a dirty report: the UPDATE waits for the row.  A report
\* deleted meanwhile matches no row, which the ORM reports as an error.
FlushUpdate(r) ==
    /\ pc[r] = "flush"
    /\ rowLock = Nobody
    /\ \/ /\ stage = "live"
          /\ rowLock' = r
          /\ Goto(r, "max")
          /\ UNCHANGED outcome
       \/ /\ stage # "live"
          /\ Answer(r, "error")
          /\ UNCHANGED rowLock
    /\ UNCHANGED <<store, session, top, tries>>

\* Mutant: the next number is computed from the next number.
ReadMaxNumber_OffByOne(r) ==
    /\ pc[r] = "max"
    /\ top' = [top EXCEPT ![r] = MaxNumber(Numbers) + 1]
    /\ Goto(r, "insert")
    /\ UNCHANGED <<store, rowLock, session, tries, outcome>>

\* select max(version_number): a statement of its own, with its own snapshot.
ReadMaxNumber(r) ==
    /\ pc[r] = "max"
    /\ top' = [top EXCEPT ![r] = MaxNumber(Numbers)]
    /\ Goto(r, "insert")
    /\ UNCHANGED <<store, rowLock, session, tries, outcome>>

\* The columns an UPDATE by r writes: the definition only if r changed it.
Updated(r) == IF want[r] # seen[r] THEN want[r] ELSE report

\* Mutant: no unique constraint on (report_id, version_number).
Insertable_NotUnique(r) == stage = "live"

Insertable(r) == stage = "live" /\ top[r] + 1 \notin Numbers

\* The row r adds to report_versions.
NewVersions(r) ==
    WithVersion(versions, top[r] + 1, [def |-> want[r], by |-> r])

\* Mutant: a failure after the commit, of the refresh, is taken for a conflict.
InsertVersion_Retried(r) ==
    /\ pc[r] = "insert"
    /\ Insertable(r)
    /\ versions' = NewVersions(r)
    /\ report' = IF rowLock = r THEN Updated(r) ELSE report
    /\ rowLock' = IF rowLock = r THEN Nobody ELSE rowLock
    /\ tries' = [tries EXCEPT ![r] = @ + 1]
    /\ \/ tries[r] + 1 < MaxSaveRetries /\ Goto(r, "max") /\ UNCHANGED outcome
       \/ tries[r] + 1 = MaxSaveRetries /\ Answer(r, "error")
    /\ UNCHANGED <<stage, session, top>>

\* The commit succeeds: the version is there, and with it the UPDATE this
\* transaction holds, if any.  A manual save goes on to write the report; if
\* an earlier attempt was rolled back its session has just loaded it again.
InsertVersion(r) ==
    /\ pc[r] = "insert"
    /\ Insertable(r)
    /\ versions' = NewVersions(r)
    /\ report' = IF rowLock = r THEN Updated(r) ELSE report
    /\ rowLock' = IF rowLock = r THEN Nobody ELSE rowLock
    /\ \/ /\ op[r] = "save"
          /\ seen' = IF tries[r] > 0 THEN [seen EXCEPT ![r] = report] ELSE seen
          /\ Goto(r, "write")
          /\ UNCHANGED outcome
       \/ /\ op[r] # "save"
          /\ Answer(r, "ok")
          /\ UNCHANGED seen
    /\ UNCHANGED <<stage, op, want, target, top, tries>>

\* Mutant: the last IntegrityError is swallowed.
InsertConflict_Swallowed(r) ==
    /\ pc[r] = "insert"
    /\ ~Insertable(r)
    /\ rowLock' = IF rowLock = r THEN Nobody ELSE rowLock
    /\ tries' = [tries EXCEPT ![r] = @ + 1]
    /\ \/ tries[r] + 1 < MaxSaveRetries /\ Goto(r, "max") /\ UNCHANGED outcome
       \/ tries[r] + 1 = MaxSaveRetries /\ Answer(r, "ok")
    /\ UNCHANGED <<store, session, top>>

\* Mutant: the loop gives up one attempt early.
InsertConflict_OneTooFew(r) ==
    /\ pc[r] = "insert"
    /\ ~Insertable(r)
    /\ rowLock' = IF rowLock = r THEN Nobody ELSE rowLock
    /\ tries' = [tries EXCEPT ![r] = @ + 1]
    /\ \/ tries[r] + 2 < MaxSaveRetries /\ Goto(r, "max") /\ UNCHANGED outcome
       \/ tries[r] + 2 >= MaxSaveRetries /\ Answer(r, "error")
    /\ UNCHANGED <<store, session, top>>

\* Mutant: the loop tries again without a rollback.
InsertConflict_NoRollback(r) ==
    /\ pc[r] = "insert"
    /\ ~Insertable(r)
    /\ tries' = [tries EXCEPT ![r] = @ + 1]
    /\ \/ tries[r] + 1 < MaxSaveRetries /\ Goto(r, "max") /\ UNCHANGED outcome
       \/ tries[r] + 1 = MaxSaveRetries /\ Answer(r, "error")
    /\ UNCHANGED <<store, rowLock, session, top>>

\* The commit fails with an IntegrityError: db.rollback() undoes the version
\* and also the caller's UPDATE, and the loop tries again, up to
\* MaxSaveRetries attempts.
InsertConflict(r) ==
    /\ pc[r] = "insert"
    /\ ~Insertable(r)
    /\ rowLock' = IF rowLock = r THEN Nobody ELSE rowLock
    /\ tries' = [tries EXCEPT ![r] = @ + 1]
    /\ \/ /\ tries[r] + 1 < MaxSaveRetries
          /\ Goto(r, "max")
          /\ UNCHANGED outcome
       \/ /\ tries[r] + 1 = MaxSaveRetries
          /\ Answer(r, "error")
    /\ UNCHANGED <<store, session, top>>

\* Mutant: a manual save never writes the report.
WriteReport_Skipped(r) ==
    /\ pc[r] = "write"
    /\ Answer(r, "ok")
    /\ UNCHANGED <<store, rowLock, session, top, tries>>

\* Mutant: the write also succeeds when the report has been deleted.
WriteReport_Upsert(r) ==
    /\ pc[r] = "write"
    /\ rowLock = Nobody
    /\ report' = want[r]
    /\ Answer(r, "ok")
    /\ UNCHANGED <<stage, versions, rowLock, session, top, tries>>

\* The second transaction of a manual save.
WriteReport(r) ==
    /\ pc[r] = "write"
    /\ rowLock = Nobody
    /\ \/ /\ stage = "live"
          /\ report' = Updated(r)
          /\ Answer(r, "ok")
       \/ /\ stage # "live"
          /\ Answer(r, "error")
          /\ UNCHANGED report
    /\ UNCHANGED <<stage, versions, rowLock, session, top, tries>>

-----------------------------------------------------------------------------
(* restore_version.                                                        *)

\* The version and the report must exist; then the max is read.
LookupVersion(r) ==
    /\ pc[r] = "lookup"
    /\ \/ /\ target[r] \in Numbers
          /\ want' = [want EXCEPT ![r] = versions[target[r]].def]
          /\ top' = [top EXCEPT ![r] = MaxNumber(Numbers)]
          /\ Goto(r, "commit")
          /\ UNCHANGED outcome
       \/ /\ target[r] \notin Numbers
          /\ Answer(r, "notfound")
          /\ UNCHANGED <<want, top>>
    /\ UNCHANGED <<store, rowLock, op, seen, target, tries>>

\* One transaction: UPDATE of the report (updated_at always changes), then
\* INSERT of the version.  There is no retry.
CommitRestore(r) ==
    /\ pc[r] = "commit"
    /\ rowLock = Nobody
    /\ \/ /\ Insertable(r)
          /\ versions' = NewVersions(r)
          /\ report' = Updated(r)
          /\ Answer(r, "ok")
       \/ /\ ~Insertable(r)
          /\ Answer(r, "error")
          /\ UNCHANGED <<versions, report>>
    /\ UNCHANGED <<stage, rowLock, session, top, tries>>

-----------------------------------------------------------------------------

\* delete_report removes the report and, by cascade, its versions.
DeleteReport ==
    /\ stage = "live"
    /\ rowLock = Nobody
    /\ stage' = "deleted"
    /\ report' = NoDef
    /\ versions' = NoVersions
    /\ UNCHANGED <<rowLock, pc, session, top, tries, outcome>>

InFlight(r) == pc[r] \notin {"idle", "done"}

\* The server process dies: open transactions roll back, and the clients of
\* the requests under way learn nothing.
Crash ==
    /\ \E r \in Reqs : InFlight(r)
    /\ rowLock' = Nobody
    /\ pc' = [r \in Reqs |-> IF InFlight(r) THEN "done" ELSE pc[r]]
    /\ outcome' = [r \in Reqs |-> IF InFlight(r) THEN "lost" ELSE outcome[r]]
    /\ UNCHANGED <<store, session, top, tries>>

Step(r) ==
    \/ FlushUpdate(r)
    \/ ReadMaxNumber(r)
    \/ InsertVersion(r)
    \/ InsertConflict(r)
    \/ WriteReport(r)
    \/ LookupVersion(r)
    \/ CommitRestore(r)

Arrive(r) ==
    \/ \E d \in Defs : CreateReport(r, d)
    \/ \E d \in Defs : ImportReport(r, d)
    \/ \E d \in Defs, renamed \in BOOLEAN : OpenUpdate(r, d, renamed)
    \/ \E d \in Defs : OpenSave(r, d)
    \/ \E n \in Numbers \cup {MaxNumber(Numbers) + 1} : OpenRestore(r, n)
    \/ ReportNotFound(r)

Next ==
    \/ \E r \in Reqs : Arrive(r)
    \/ \E r \in Reqs : Step(r)
    \/ DeleteReport
    \/ Crash

\* A request that has started keeps being scheduled; nothing obliges a client
\* to send one, an administrator to delete, or the server to crash.
Fairness == \A r \in Reqs : WF_vars(Step(r))

Spec == Init /\ [][Next]_vars /\ Fairness

-----------------------------------------------------------------------------
(* Properties.                                                             *)

\* Every variable keeps its type.
TypeOK ==
    /\ stage \in {"unborn", "live", "deleted"}
    /\ report \in Defs \cup {NoDef}
    /\ (stage = "live") = (report \in Defs)
    /\ Numbers \subseteq Nat \ {0}
    /\ versions \in [Numbers -> Entry]
    /\ rowLock \in Reqs \cup {Nobody}
    /\ pc \in [Reqs -> Steps]
    /\ op \in [Reqs -> Ops]
    /\ seen \in [Reqs -> Defs \cup {NoDef}]
    /\ want \in [Reqs -> Defs \cup {NoDef}]
    /\ target \in [Reqs -> Nat]
    /\ top \in [Reqs -> Nat]
    /\ tries \in [Reqs -> Nat]
    /\ outcome \in [Reqs -> Outcomes]

\* The versions of a report are numbered 1, 2, 3, ... without a gap, although
\* the handlers compute max+1 from a value that may be stale when they use it.
GapFree == \E n \in Numbers \cup {0} : Numbers = 1..n

\* A request leaves at most one version behind, however often save_version's
\* retry loop runs and wherever the server crashes.
OneVersionPerRequest ==
    \A m, n \in Numbers : versions[m].by = versions[n].by => m = n

\* A create, update, manual save or restore that was answered with success has
\* its version in the history, holding the definition it was to write.
AnsweredSaveIsRecorded ==
    \A r \in Reqs :
        stage = "live" /\ outcome[r] = "ok" /\ op[r] # "import" =>
            \E n \in Numbers : versions[n] = [def |-> want[r], by |-> r]

\* A request that was answered with an error, or with 404, has left no version
\* in the history of a report that still exists.
FailedSaveLeavesNothing ==
    \A r \in Reqs :
        stage = "live" /\ outcome[r] \in {"error", "notfound"} =>
            \A n \in Numbers : versions[n].by # r

\* save_version gives up only when as many other versions as it makes
\* attempts got in before it (or the report is gone).
SaveFailsOnlyUnderContention ==
    \A r \in Reqs :
        /\ stage = "live"
        /\ outcome[r] = "error"
        /\ op[r] # "restore"
        => Cardinality({n \in Numbers : versions[n].by # r}) >= MaxSaveRetries

\* Whenever the definition of an existing report changes, the definition it
\* changes to is in its history at that moment: a version is saved before the
\* report is written, or in the same transaction, never after it.
OnlyRecordedDefinitions ==
    [][stage = "live" /\ stage' = "live" /\ report' # report =>
          \E n \in DOMAIN versions' : versions'[n].def = report']_vars

\* The history of a report is an append-only log.
History == INSTANCE VersionHistory WITH log <- versions
ImplementsHistory == History!Spec

\* Whoever holds the reports row waits for nothing itself: it is about to read
\* the max or to insert its version, whichever way its last attempt ended.  So
\* those that wait for the row get it, and no two requests wait in a circle.
HolderNeverWaits == rowLock # Nobody => pc[rowLock] \in {"max", "insert"}

\* "We retry up to _MAX_SAVE_RETRIES times on IntegrityError to resolve the
\* race" (store.py:27-28): an update that was answered with success has put the
\* definition the user changed into the report.
UpdateTakesEffect ==
    [][\A r \in Reqs :
          /\ op[r] = "update"
          /\ want[r] # seen[r]
          /\ outcome[r] # "ok" /\ outcome'[r] = "ok"
          => report' = want[r]]_vars
=============================================================================
