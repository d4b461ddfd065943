------------------------------ MODULE SiteProofs -----------------------------
(***************************************************************************)
(* Theorems about the parts of the site, and the site as a whole: about    *)
(* Portal for any users, reports, schedules and outputs, about ApiKeys for *)
(* any requests, users and keys, about Library and its watched form for    *)
(* any requests, users, connections, names, rows and labels; and, with     *)
(* what ContentsProofs and QueryBuilderProofs show, about all types.       *)
(*                                                                         *)
(* Portal's invariant joins an output to its schedule: both are of one     *)
(* report, so that deleting a report leaves no output without its          *)
(* schedule.  In ApiKeys, a key that a request refers to is not given to   *)
(* another user as long as the request lasts (Own), so that what the       *)
(* request writes belongs to its user.  In Library, a request that has     *)
(* looked something up holds a key of the right kind (Asked); unless       *)
(* another one has written since, what it found is still so (Found); and   *)
(* as long as nothing has disturbed the names, there is one import at most *)
(* that makes a connection, of a name that none has yet (Unshared).        *)
(***************************************************************************)
EXTENDS Site, QueryBuilderProofs


-----------------------------------------------------------------------------
(* The portal.                                                              *)

\* An output is of the report of its schedule (execute_report stores both, and
\* nothing moves a schedule to another report).
OfOneReport ==
    \A o \in Existing(output) : schedule[output[o].schedule].report = output[o].report

\* The inductive invariant of the portal.
PortalCore == TypeOK /\ OfOneReport

-----------------------------------------------------------------------------
\* It holds at first.
LEMMA PortalCoreInit == Init => PortalCore
  BY DEF Init, PortalCore, TypeOK, OfOneReport, Existing, Entry

\* Roles, and executions that are given up, touch no row.
LEMMA PortalCoreQuiet ==
  ASSUME PortalCore,
         \/ \E u \in Users, r \in Roles : ChangeRole(u, r)
         \/ \E s \in Schedules : Execute(s) \/ Abandon(s)
         \/ UNCHANGED vars
  PROVE  PortalCore'
<1>1. ASSUME NEW u \in Users, NEW r \in Roles, ChangeRole(u, r)
      PROVE  PortalCore'
  BY <1>1 DEF ChangeRole, PortalCore, TypeOK, OfOneReport, Existing, Entry
<1>2. ASSUME NEW s \in Schedules, Execute(s)
      PROVE  PortalCore'
  <2>1. schedule[s].owner \in Users
    BY <1>2 DEF Execute, PortalCore, TypeOK, Existing
  <2>2. QED
    BY <1>2, <2>1 DEF Execute, PortalCore, TypeOK, OfOneReport, Existing, Entry
<1>3. ASSUME NEW s \in Schedules, Abandon(s)
      PROVE  PortalCore'
  BY <1>3 DEF Abandon, PortalCore, TypeOK, OfOneReport, Existing, Entry
<1>4. CASE UNCHANGED vars
  BY <1>4 DEF vars, PortalCore, TypeOK, OfOneReport, Existing, Entry
<1>5. QED
  BY <1>1, <1>2, <1>3, <1>4

\* Reports that are created or switched on or off.
LEMMA PortalCoreReports ==
  ASSUME PortalCore,
         NEW u \in Users, NEW r \in Reports,
         CreateReport(u, r) \/ \E b \in BOOLEAN : ToggleStatus(u, r, b)
  PROVE  PortalCore'
<1>1. CASE CreateReport(u, r)
  BY <1>1 DEF CreateReport, PortalCore, TypeOK, OfOneReport, Existing, Entry
<1>2. ASSUME NEW b \in BOOLEAN, ToggleStatus(u, r, b)
      PROVE  PortalCore'
  <2>1. report[r] # None
    BY <1>2 DEF ToggleStatus, ReportPage
  <2>2. report[r] \in [creator : Users, active : BOOLEAN]
    BY <2>1 DEF PortalCore, TypeOK
  <2>3. [report[r] EXCEPT !.active = b] \in [creator : Users, active : BOOLEAN]
    BY <2>2
  <2>4. QED
    BY PortalAssumption, <1>2, <2>3 DEF ToggleStatus, PortalCore, TypeOK, OfOneReport, Existing, Entry
<1>3. QED
  BY <1>1, <1>2

\* A report that is deleted takes what depends on it along.
LEMMA PortalCoreDeleteReport ==
  ASSUME PortalCore, NEW u \in Users, NEW r \in Reports, DeleteReport(u, r)
  PROVE  PortalCore'
<1> DEFINE gone == {s \in Existing(schedule) : schedule[s].report = r}
           lost == HistoryRows(r)
<1>1. /\ \A e \in audit' : e \in audit /\ e.schedule \notin gone
      /\ report' = [report EXCEPT ![r] = None]
      /\ schedule' = [s \in Schedules |-> IF s \in gone THEN None ELSE schedule[s]]
      /\ output' = [o \in Outputs |-> IF o \in lost THEN None ELSE output[o]]
      /\ UNCHANGED <<role, run>>
  BY DEF DeleteReport
<1>2. \A o \in Existing(output)' :
         o \in Existing(output) /\ output'[o] = output[o] /\ output[o].report # r
  BY <1>1 DEF PortalCore, TypeOK, Existing, HistoryRows
<1>3. \A s \in Existing(schedule)' :
         s \in Existing(schedule) /\ schedule'[s] = schedule[s] /\ schedule[s].report # r
  BY <1>1 DEF PortalCore, TypeOK, Existing
<1>4. \A o \in Existing(output)' : output[o].schedule \in Schedules \ gone
  BY <1>2 DEF PortalCore, TypeOK, OfOneReport, Existing
<1>5. \A o \in Existing(output)' : schedule'[output'[o].schedule] = schedule[output[o].schedule]
  BY <1>1, <1>2, <1>4
<1>6. \A e \in audit' : e.schedule \in Schedules /\ schedule'[e.schedule] = schedule[e.schedule]
  BY <1>1 DEF PortalCore, TypeOK, Entry
<1>7. TypeOK'
  <2>1. \A s \in Existing(schedule)' : report'[schedule'[s].report] # None
    BY <1>1, <1>3 DEF PortalCore, TypeOK, Existing
  <2>2. \A o \in Existing(output)' : schedule'[output'[o].schedule] # None
    BY <1>2, <1>5 DEF PortalCore, TypeOK
  <2>3. \A e \in audit' : schedule'[e.schedule] # None
    BY <1>1, <1>6 DEF PortalCore, TypeOK
  <2>4. QED
    BY <1>1, <2>1, <2>2, <2>3 DEF PortalCore, TypeOK, Entry, Existing
<1>8. OfOneReport'
  BY <1>2, <1>5 DEF PortalCore, OfOneReport
<1>9. QED
  BY <1>7, <1>8 DEF PortalCore

\* Schedules that are created, handed over or deleted.
LEMMA PortalCoreSchedules ==
  ASSUME PortalCore,
         NEW u \in Users, NEW s \in Schedules,
         \/ \E r \in Reports, owner \in Users : CreateSchedule(u, s, r, owner)
         \/ \E owner \in Users : ReassignOwner(u, s, owner)
         \/ DeleteSchedule(u, s)
  PROVE  PortalCore'
<1>1. ASSUME NEW r \in Reports, NEW owner \in Users, CreateSchedule(u, s, r, owner)
      PROVE  PortalCore'
  BY <1>1 DEF CreateSchedule, PortalCore, TypeOK, OfOneReport, Existing, Entry
<1>2. ASSUME NEW owner \in Users, ReassignOwner(u, s, owner)
      PROVE  PortalCore'
  <2>1. schedule[s] \in [report : Reports, owner : Users, creator : Users]
    BY <1>2 DEF ReassignOwner, PortalCore, TypeOK
  <2> DEFINE moved == [schedule[s] EXCEPT !.owner = owner]
  <2>2. /\ moved \in [report : Reports, owner : Users, creator : Users]
        /\ moved.report = schedule[s].report
    BY <2>1
  <2>3. schedule' = [schedule EXCEPT ![s] = moved]
    BY <1>2 DEF ReassignOwner
  <2>4. /\ schedule'[s].report = schedule[s].report /\ schedule'[s] # None
        /\ \A t \in Schedules \ {s} : schedule'[t] = schedule[t]
    BY PortalAssumption, <2>2, <2>3 DEF PortalCore, TypeOK
  <2>5. Existing(schedule)' = Existing(schedule)
    BY <1>2, <2>3, <2>4 DEF ReassignOwner, PortalCore, TypeOK, Existing
  <2>6. TypeOK'
    BY <1>2, <2>2, <2>3, <2>4, <2>5 DEF ReassignOwner, PortalCore, TypeOK, Existing, Entry
  <2>7. OfOneReport'
    BY <1>2, <2>4 DEF ReassignOwner, PortalCore, TypeOK, OfOneReport, Existing
  <2>8. QED
    BY <2>6, <2>7 DEF PortalCore
<1>3. CASE DeleteSchedule(u, s)
  BY <1>3 DEF DeleteSchedule, PortalCore, TypeOK, OfOneReport, Existing, Entry
<1>4. QED
  BY <1>1, <1>2, <1>3

\* Outputs that are stored or cleaned up.
LEMMA PortalCoreOutputs ==
  ASSUME PortalCore,
         \/ \E s \in Schedules, o \in Outputs : Store(s, o)
         \/ \E aged \in SUBSET Outputs : CleanUp(aged)
  PROVE  PortalCore'
<1>1. ASSUME NEW s \in Schedules, NEW o \in Outputs, Store(s, o)
      PROVE  PortalCore'
  <2>1. run[s] \in Users /\ schedule[s].report \in Reports
    BY <1>1 DEF Store, PortalCore, TypeOK
  <2>2. QED
    BY <1>1, <2>1 DEF Store, PortalCore, TypeOK, OfOneReport, Existing, Entry
<1>2. ASSUME NEW aged \in SUBSET Outputs, CleanUp(aged)
      PROVE  PortalCore'
  BY <1>2 DEF CleanUp, PortalCore, TypeOK, OfOneReport, Existing, Entry
<1>3. QED
  BY <1>1, <1>2

\* Every step.
LEMMA PortalCoreNext ==
  ASSUME PortalCore, [Next]_vars
  PROVE  PortalCore'
  BY PortalCoreQuiet, PortalCoreReports, PortalCoreDeleteReport, PortalCoreSchedules, PortalCoreOutputs DEF Next

\* The invariant of the portal always holds.
LEMMA PortalCoreAlways ==
  Spec => []PortalCore
<1>1. PortalCore /\ [Next]_vars => PortalCore'
  BY PortalCoreNext
<1>2. QED
  BY <1>1, PortalCoreInit, PTL DEF Spec

-----------------------------------------------------------------------------
\* The tables stay well-formed and their foreign keys hold: no schedule loses
\* its report, no output and no audit entry its schedule, although reports are
\* deleted with what belongs to them and the clean-up runs at any time.
THEOREM PortalTypeSafe ==
  Spec => []TypeOK
<1>1. PortalCore => TypeOK
  BY DEF PortalCore
<1>2. QED
  BY <1>1, PortalCoreAlways, PTL

\* Owning just one schedule of a report opens it, owning none does not.
LEMMA OwnersEnter ==
  ASSUME TypeOK, NEW u \in Users, NEW r \in Reports
  PROVE  /\ OwnsSchedule(u, r) = "ok" => OwnedFor(u, r) # {}
         /\ Cardinality(OwnedFor(u, r)) <= 1 /\ OwnedFor(u, r) # {} => OwnsSchedule(u, r) = "ok"
<1>1. IsFiniteSet(OwnedFor(u, r))
  <2>1. OwnedFor(u, r) \subseteq Schedules
    BY DEF OwnedFor, Existing, TypeOK
  <2>2. QED
    BY <2>1, PortalAssumption, FS_Subset
<1>2. /\ Cardinality(OwnedFor(u, r)) \in Nat
      /\ Cardinality(OwnedFor(u, r)) = 0 <=> OwnedFor(u, r) = {}
  BY <1>1, FS_CardinalityType, FS_EmptySet
<1>3. CASE OwnedFor(u, r) = {}
  BY <1>2, <1>3 DEF OwnsSchedule
<1>4. CASE OwnedFor(u, r) # {} /\ Cardinality(OwnedFor(u, r)) = 1
  BY <1>4 DEF OwnsSchedule
<1>5. CASE OwnedFor(u, r) # {} /\ Cardinality(OwnedFor(u, r)) > 1
  BY <1>2, <1>5 DEF OwnsSchedule
<1>6. QED
  BY <1>2, <1>3, <1>4, <1>5

\* The list and the access rule ask for the same, whatever the tables hold.
LEMMA ReadersMayRead ==
  ASSUME TypeOK
  PROVE  ListedIsReadable
<1>1. ASSUME NEW u \in Users, NEW o \in Dashboard(u)
      PROVE  LET r == output[o].report
             IN  /\ Cardinality(OwnedFor(u, r)) <= 1 => OutputPage(u, r, o) = "ok"
                 /\ OwnedFor(u, r) = {} => OutputPage(u, r, o) = "ok"
  <2>1. /\ output[o] # None /\ output[o].report \in Reports
        /\ IsAdmin(u) \/ output[o].by = u \/ OwnedFor(u, output[o].report) # {}
    BY <1>1 DEF Dashboard, Existing, TypeOK
  <2>2. OutputPage(u, output[o].report, o) = CanAccessOutput(u, o)
    BY <2>1 DEF OutputPage
  <2>3. CASE IsAdmin(u) \/ output[o].by = u
    BY <2>2, <2>3 DEF CanAccessOutput
  <2>4. CASE ~(IsAdmin(u) \/ output[o].by = u)
    BY <2>1, <2>2, <2>4, OwnersEnter DEF CanAccessOutput
  <2>5. QED
    BY <2>3, <2>4
<1>2. ASSUME NEW u \in Users, NEW r \in Reports, HistoryPage(u, r) = "ok",
             NEW o \in HistoryRows(r)
      PROVE  o \in Dashboard(u) /\ OutputPage(u, r, o) = "ok"
  <2>1. output[o] # None /\ output[o].report = r /\ o \in Existing(output)
    BY <1>2 DEF HistoryRows, Existing
  <2>2. IsAdmin(u) \/ OwnsSchedule(u, r) = "ok"
    BY <1>2 DEF HistoryPage, CanAccessReport
  <2>3. o \in Dashboard(u)
    BY <2>1, <2>2, OwnersEnter DEF Dashboard
  <2>4. OutputPage(u, r, o) = CanAccessOutput(u, o)
    BY <2>1 DEF OutputPage
  <2>5. QED
    BY <2>1, <2>2, <2>3, <2>4 DEF CanAccessOutput
<1>3. ASSUME NEW u \in Users, NEW r \in Reports
      PROVE  ExportPage(u, r) = "ok" <=> HistoryPage(u, r) = "ok" /\ report[r].active
  <2>1. CASE report[r] = None
    BY <2>1 DEF ExportPage, HistoryPage
  <2>2. CASE report[r] # None
    BY <2>2 DEF ExportPage, HistoryPage
  <2>3. QED
    BY <2>1, <2>2
<1>4. ASSUME NEW u \in Users, Designs(u), NEW r \in ReportList(u, "all")
      PROVE  ReportPage(u, r) = "ok" /\ VersionPages(u, r) = "ok"
  <2>1. report[r] # None /\ ReportAccess(u, r)
    BY <1>4 DEF ReportList, ReportAccess, Existing
  <2>2. QED
    BY <1>4, <2>1 DEF ReportPage, VersionPages
<1>5. ASSUME NEW u \in Users, Designs(u), NEW s \in ScheduleList(u)
      PROVE  SchedulePage(u, s) = "ok"
  <2>1. schedule[s] # None /\ ScheduleAccess(u, s)
    BY <1>5 DEF ScheduleList, ScheduleAccess, Existing
  <2>2. QED
    BY <1>5, <2>1 DEF SchedulePage
<1>6. QED
  BY <1>1, <1>2, <1>3, <1>4, <1>5 DEF ListedIsReadable

\* What a list shows its reader can be opened, in every state of the tables:
\* the code of the lists and that of the pages agree, apart from what
\* ListedIsReadable excepts.
THEOREM ListsAreReadable == Spec => []ListedIsReadable
  BY PortalTypeSafe, ReadersMayRead, PTL

\* Once a schedule has been executed, no step deletes it or its report, or
\* gives it to another report.
LEMMA ExecutedStep ==
  ASSUME PortalCore, [Next]_vars,
         NEW s \in Schedules, [schedule |-> s, output |-> None] \in audit
  PROVE  /\ [schedule |-> s, output |-> None] \in audit'
         /\ schedule'[s] # None
         /\ report'[schedule[s].report] # None
         /\ schedule'[s].report = schedule[s].report
<1>0. [schedule |-> s, output |-> None] \in audit'
  <2>1. ASSUME NEW u \in Users, NEW r \in Reports, DeleteReport(u, r)
        PROVE  [schedule |-> s, output |-> None] \in audit'
    BY <2>1, PortalAssumption DEF DeleteReport, HistoryRows, Existing, PortalCore, TypeOK
  <2>2. ASSUME NEW aged \in SUBSET Outputs, CleanUp(aged)
        PROVE  [schedule |-> s, output |-> None] \in audit'
    BY <2>2, PortalAssumption DEF CleanUp
  <2>3. QED
    BY <2>1, <2>2 DEF Next, vars, ChangeRole, CreateReport, ToggleStatus, CreateSchedule,
                      ReassignOwner, DeleteSchedule, Execute, Store, Abandon
<1>1. /\ schedule[s] # None
      /\ schedule[s] \in [report : Reports, owner : Users, creator : Users]
      /\ report[schedule[s].report] # None
  BY DEF PortalCore, TypeOK, Existing
<1>2. ASSUME NEW u \in Users, NEW r \in Reports, DeleteReport(u, r)
      PROVE  schedule'[s] = schedule[s] /\ report'[schedule[s].report] # None
  <2>1. HistoryRows(r) \subseteq Outputs
    BY DEF HistoryRows, Existing, PortalCore, TypeOK
  <2>2. schedule[s].report # r
    BY PortalAssumption, <1>1, <1>2, <2>1 DEF DeleteReport, Existing, PortalCore, TypeOK
  <2>3. QED
    BY <1>1, <1>2, <2>2 DEF DeleteReport, PortalCore, TypeOK
<1>3. ASSUME NEW u \in Users, NEW t \in Schedules, DeleteSchedule(u, t)
      PROVE  schedule' = [schedule EXCEPT ![t] = None] /\ t # s /\ report' = report
  BY <1>3 DEF DeleteSchedule
<1>4. ASSUME NEW u \in Users, NEW t \in Schedules, NEW r \in Reports, NEW owner \in Users,
             CreateSchedule(u, t, r, owner)
      PROVE  schedule'[s] = schedule[s] /\ report' = report
  BY <1>1, <1>4 DEF CreateSchedule, PortalCore, TypeOK
<1>5. ASSUME NEW u \in Users, NEW t \in Schedules, NEW owner \in Users,
             ReassignOwner(u, t, owner)
      PROVE  /\ schedule'[s] # None /\ schedule'[s].report = schedule[s].report
             /\ report' = report
  <2> DEFINE moved == [schedule[t] EXCEPT !.owner = owner]
  <2>1. /\ schedule' = [schedule EXCEPT ![t] = moved]
        /\ report' = report
        /\ schedule[t] \in [report : Reports, owner : Users, creator : Users]
    BY <1>5 DEF ReassignOwner, PortalCore, TypeOK
  <2>2. /\ moved \in [report : Reports, owner : Users, creator : Users]
        /\ moved.report = schedule[t].report
    BY <2>1
  <2>3. QED
    BY PortalAssumption, <1>1, <2>1, <2>2 DEF PortalCore, TypeOK
<1>6. ASSUME NEW u \in Users, NEW r \in Reports, CreateReport(u, r)
      PROVE  schedule' = schedule /\ report'[schedule[s].report] # None
  BY <1>1, <1>6 DEF CreateReport, PortalCore, TypeOK
<1>7. ASSUME NEW u \in Users, NEW r \in Reports, NEW b \in BOOLEAN, ToggleStatus(u, r, b)
      PROVE  schedule' = schedule /\ report'[schedule[s].report] # None
  <2>1. report[r] \in [creator : Users, active : BOOLEAN]
    BY <1>7 DEF ToggleStatus, ReportPage, PortalCore, TypeOK
  <2>2. [report[r] EXCEPT !.active = b] \in [creator : Users, active : BOOLEAN]
    BY <2>1
  <2>3. QED
    BY PortalAssumption, <1>1, <1>7, <2>2 DEF ToggleStatus, PortalCore, TypeOK
<1>8. CASE UNCHANGED <<report, schedule>>
  BY <1>0, <1>1, <1>8
<1>9. \/ UNCHANGED <<report, schedule>>
      \/ \E u \in Users, r \in Reports :
            \/ DeleteReport(u, r) \/ CreateReport(u, r)
            \/ \E b \in BOOLEAN : ToggleStatus(u, r, b)
      \/ \E u \in Users, t \in Schedules :
            \/ DeleteSchedule(u, t)
            \/ \E r \in Reports, owner \in Users : CreateSchedule(u, t, r, owner)
            \/ \E owner \in Users : ReassignOwner(u, t, owner)
  BY DEF Next, vars, ChangeRole, Execute, Store, Abandon, CleanUp
<1>10. QED
  BY <1>0, <1>1, <1>2, <1>3, <1>4, <1>5, <1>6, <1>7, <1>8, <1>9 DEF PortalCore, TypeOK

\* A report that has been executed, and its schedule, stay for good: the audit
\* entry of the execution, which has no output, is in no cascade.
THEOREM ExecutedReportsStay ==
  Spec => ExecutedStays
<1>1. PortalCore /\ [Next]_vars =>
        [\A s \in Schedules :
           [schedule |-> s, output |-> None] \in audit =>
              /\ [schedule |-> s, output |-> None] \in audit'
              /\ schedule'[s] # None
              /\ report'[schedule[s].report] # None
              /\ schedule'[s].report = schedule[s].report]_vars
  BY ExecutedStep
<1>2. QED
  BY <1>1, PortalCoreAlways, PTL DEF Spec, ExecutedStays

-----------------------------------------------------------------------------
(* API keys.                                                               *)

\* A key that is still there is its request's user's.
Own ==
    \A q \in Requests :
        keyRequest[q] # None /\ key[keyRequest[q].by] # None =>
            key[keyRequest[q].by].user = keyRequest[q].user

\* The inductive invariant of the API keys.
KeysCore == KeysTypeOK /\ Own

-----------------------------------------------------------------------------
\* It holds at first.
LEMMA KeysCoreInit ==
  ASSUME KeysInit
  PROVE  KeysCore
<1>1. [user : Users, expires : {Never}, used : {Never}] \subseteq Key
  BY DEF Key
<1>2. QED
  BY <1>1, ApiKeysAssumption DEF KeysInit, KeysCore, KeysTypeOK, Own, Times

\* The row of a request's key after it was marked.
LEMMA MarkedRow ==
  ASSUME KeysCore, NEW q \in Requests, keyRequest[q] # None, key[keyRequest[q].by] # None
  PROVE  /\ keyRequest[q] \in [by : Keys, user : Users, at : Times]
         /\ Marked(q) \in [Keys -> Key \cup {None}]
         /\ Marked(q)[keyRequest[q].by] # None
         /\ Marked(q)[keyRequest[q].by].user = keyRequest[q].user
         /\ \A k \in Keys \ {keyRequest[q].by} : Marked(q)[k] = key[k]
<1> DEFINE row == [key[keyRequest[q].by] EXCEPT !.used = keyRequest[q].at]
<1>1. keyRequest[q] \in [by : Keys, user : Users, at : Times]
  BY DEF KeysCore, KeysTypeOK
<1>2. /\ keyRequest[q].by \in Keys /\ keyRequest[q].at \in Times
      /\ key[keyRequest[q].by] \in [user : Users, expires : Times \cup {Never},
                                 used : Times \cup {Never}]
  BY <1>1 DEF KeysCore, KeysTypeOK, Key
<1>3. row \in Key /\ row.user = key[keyRequest[q].by].user
  BY <1>2 DEF Key
<1>4. Marked(q) = [key EXCEPT ![keyRequest[q].by] = row]
  BY DEF Marked
<1> HIDE DEF row
<1>5. QED
  BY <1>1, <1>2, <1>3, <1>4, ApiKeysAssumption DEF KeysCore, KeysTypeOK, Own

\* A key is created for the one who asks.
LEMMA KeysCoreCreate ==
  ASSUME KeysCore, NEW q \in Requests, NEW k \in Keys, NEW days \in Times,
         CreateKey(q, k, days)
  PROVE  KeysCore'
<1> DEFINE made == [user |-> keyRequest[q].user, used |-> Never,
                    expires |-> IF days = 0 THEN Never ELSE now + days]
<1>1. /\ keyRequest[q] \in [by : Keys, user : Users, at : Times]
      /\ keyRequest' = [keyRequest EXCEPT ![q] = None]
      /\ now' = now /\ now \in Times
  BY DEF CreateKey, Finish, KeysCore, KeysTypeOK
<1>2. CASE key[keyRequest[q].by] = None
  BY <1>1, <1>2, ApiKeysAssumption DEF CreateKey, KeysCore, KeysTypeOK, Own
<1>3. CASE key[keyRequest[q].by] # None
  <2>1. now + days \in Times
    BY <1>1, ApiKeysAssumption DEF CreateKey, Times
  <2>2. made \in Key
    BY <1>1, <2>1 DEF Key
  <2>3. key' = [Marked(q) EXCEPT ![k] = made]
    BY <1>3 DEF CreateKey
  <2> HIDE DEF made
  <2>4. KeysTypeOK'
    BY <1>1, <1>3, <2>2, <2>3, MarkedRow DEF CreateKey, KeysCore, KeysTypeOK
  <2>5. ASSUME NEW p \in Requests, keyRequest'[p] # None, key'[keyRequest'[p].by] # None
        PROVE  key'[keyRequest'[p].by].user = keyRequest'[p].user
    <3>1. p # q /\ keyRequest'[p] = keyRequest[p]
      BY <1>1, <2>5 DEF KeysCore, KeysTypeOK
    <3>2. keyRequest[p].by # k /\ keyRequest[p].by \in Keys
      BY <3>1, <2>5 DEF CreateKey, Fresh, KeysCore, KeysTypeOK
    <3>3. key'[keyRequest[p].by] = Marked(q)[keyRequest[p].by]
      BY <1>3, <2>3, <3>2, MarkedRow DEF CreateKey
    <3>4. CASE keyRequest[p].by = keyRequest[q].by
      BY <1>3, <2>5, <3>1, <3>3, <3>4, MarkedRow DEF CreateKey, KeysCore, Own
    <3>5. CASE keyRequest[p].by # keyRequest[q].by
      BY <1>3, <2>5, <3>1, <3>2, <3>3, <3>5, MarkedRow DEF CreateKey, KeysCore, Own
    <3>6. QED
      BY <3>4, <3>5
  <2>6. QED
    BY <2>4, <2>5 DEF KeysCore, Own
<1>4. QED
  BY <1>2, <1>3

\* A key is revoked by its owner.
LEMMA KeysCoreRevoke ==
  ASSUME KeysCore, NEW q \in Requests, NEW k \in Keys, RevokeKey(q, k)
  PROVE  KeysCore'
<1>1. /\ keyRequest[q] \in [by : Keys, user : Users, at : Times]
      /\ keyRequest' = [keyRequest EXCEPT ![q] = None]
      /\ now' = now /\ now \in Times
  BY DEF RevokeKey, Finish, KeysCore, KeysTypeOK
<1>2. CASE key' = key
  BY <1>1, <1>2, ApiKeysAssumption DEF KeysCore, KeysTypeOK, Own
<1>3. CASE key' # key
  <2>1. key[keyRequest[q].by] # None /\ key' = [Marked(q) EXCEPT ![k] = None]
    BY <1>3 DEF RevokeKey
  <2>2. KeysTypeOK'
    BY <1>1, <2>1, MarkedRow DEF RevokeKey, KeysCore, KeysTypeOK
  <2>3. ASSUME NEW p \in Requests, keyRequest'[p] # None, key'[keyRequest'[p].by] # None
        PROVE  key'[keyRequest'[p].by].user = keyRequest'[p].user
    <3>1. p # q /\ keyRequest'[p] = keyRequest[p] /\ keyRequest[p].by \in Keys
      BY <1>1, <2>3 DEF KeysCore, KeysTypeOK
    <3>2. keyRequest[p].by # k /\ key'[keyRequest[p].by] = Marked(q)[keyRequest[p].by]
      BY <1>1, <2>1, <2>3, <3>1, MarkedRow DEF RevokeKey
    <3>3. CASE keyRequest[p].by = keyRequest[q].by
      BY <2>1, <2>3, <3>1, <3>2, <3>3, MarkedRow DEF RevokeKey, KeysCore, Own
    <3>4. CASE keyRequest[p].by # keyRequest[q].by
      BY <2>1, <2>3, <3>1, <3>2, <3>4, MarkedRow DEF RevokeKey, KeysCore, Own
    <3>5. QED
      BY <3>3, <3>4
  <2>4. QED
    BY <2>2, <2>3 DEF KeysCore, Own
<1>4. QED
  BY <1>2, <1>3

\* Every step.
LEMMA KeysCoreNext ==
  ASSUME KeysCore, [KeysNext]_keysVars
  PROVE  KeysCore'
<1>1. CASE Tick
  BY <1>1, ApiKeysAssumption DEF Tick, KeysCore, KeysTypeOK, Own, Times
<1>2. CASE Stop
  BY <1>2 DEF Stop, KeysCore, KeysTypeOK, Own
<1>3. ASSUME NEW q \in Requests, NEW k \in Keys, Authenticate(q, k)
      PROVE  KeysCore'
  <2> DEFINE made == [by |-> k, user |-> key[k].user, at |-> now]
  <2>1. key[k] # None /\ made \in [by : Keys, user : Users, at : Times]
    BY <1>3 DEF Authenticate, Valid, KeysCore, KeysTypeOK, Key
  <2>2. keyRequest' = [keyRequest EXCEPT ![q] = made] /\ UNCHANGED <<key, now>>
    BY <1>3 DEF Authenticate
  <2>3. made.by = k /\ made.user = key[k].user
    OBVIOUS
  <2> HIDE DEF made
  <2>4. QED
    BY <2>1, <2>2, <2>3 DEF KeysCore, KeysTypeOK, Own
<1>4. ASSUME NEW q \in Requests, ListKeys(q)
      PROVE  KeysCore'
  BY <1>4 DEF ListKeys, Finish, KeysCore, KeysTypeOK, Own
<1>5. CASE UNCHANGED keysVars
  BY <1>5 DEF keysVars, KeysCore, KeysTypeOK, Own
<1>6. QED
  BY <1>1, <1>2, <1>3, <1>4, <1>5, KeysCoreCreate, KeysCoreRevoke DEF KeysNext

\* The invariant of the API keys always holds.
LEMMA KeysCoreAlways ==
  KeysSpec => []KeysCore
<1>1. KeysCore /\ [KeysNext]_keysVars => KeysCore'
  BY KeysCoreNext
<1>2. KeysInit => KeysCore
  BY KeysCoreInit
<1>3. QED
  BY <1>1, <1>2, PTL DEF KeysSpec

-----------------------------------------------------------------------------
\* The table is well-formed: no key expires beyond the clock's bound, and no
\* request refers to anything but a key and its user.
THEOREM ApiKeysTypeSafe ==
  KeysSpec => []KeysTypeOK
<1>1. KeysCore => KeysTypeOK
  BY DEF KeysCore
<1>2. QED
  BY <1>1, KeysCoreAlways, PTL

\* A change of the table is the end of a request whose key is still there, and
\* touches rows of its user only.
LEMMA ChangeIsOwn ==
  ASSUME KeysCore, [KeysNext]_keysVars, key' # key
  PROVE  \E q \in Requests :
            /\ keyRequest[q] # None /\ keyRequest'[q] = None
            /\ key[keyRequest[q].by] # None
            /\ \A k \in Keys : key'[k] # key[k] =>
                  keyRequest[q].user \in {r.user : r \in {key[k], key'[k]} \ {None}}
<1>1. PICK q \in Requests, k \in Keys :
         RevokeKey(q, k) \/ \E days \in Times : CreateKey(q, k, days)
  BY DEF KeysNext, keysVars, Tick, Stop, Authenticate, ListKeys
<1>2. /\ keyRequest[q] # None /\ keyRequest'[q] = None
      /\ key[keyRequest[q].by] # None
  BY <1>1 DEF RevokeKey, CreateKey, Finish, KeysCore, KeysTypeOK
<1>3. keyRequest[q].by \in Keys /\ key[keyRequest[q].by].user = keyRequest[q].user
  BY <1>2, MarkedRow DEF KeysCore, Own
<1>4. \/ key' = [Marked(q) EXCEPT ![k] = None] /\ key[k] # None /\ key[k].user = keyRequest[q].user
      \/ /\ key'[k] # None /\ key'[k].user = keyRequest[q].user
         /\ \A j \in Keys \ {k} : key'[j] = Marked(q)[j]
  <2>1. CASE RevokeKey(q, k)
    BY <1>2, <2>1 DEF RevokeKey
  <2>2. ASSUME NEW days \in Times, CreateKey(q, k, days)
        PROVE  /\ key'[k] # None /\ key'[k].user = keyRequest[q].user
               /\ \A j \in Keys \ {k} : key'[j] = Marked(q)[j]
    <3> DEFINE made == [user |-> keyRequest[q].user, used |-> Never,
                        expires |-> IF days = 0 THEN Never ELSE now + days]
    <3>1. key' = [Marked(q) EXCEPT ![k] = made]
      BY <1>2, <2>2 DEF CreateKey
    <3>2. now + days \in Times
      BY <2>2, ApiKeysAssumption DEF CreateKey, KeysCore, KeysTypeOK, Times
    <3>3. made \in Key /\ made.user = keyRequest[q].user
      BY <1>2, <3>2, MarkedRow DEF Key
    <3> HIDE DEF made
    <3>4. QED
      BY <1>2, <3>1, <3>3, MarkedRow, ApiKeysAssumption
  <2>3. QED
    BY <1>1, <2>1, <2>2
<1>5. ASSUME NEW j \in Keys, key'[j] # key[j]
      PROVE  keyRequest[q].user \in {r.user : r \in {key[j], key'[j]} \ {None}}
  <2>1. CASE j = k
    BY <1>4, <2>1
  <2>2. CASE j # k
    <3>1. key'[j] = Marked(q)[j]
      BY <1>2, <1>4, <2>2, MarkedRow
    <3>2. j = keyRequest[q].by
      BY <1>2, <1>5, <3>1, MarkedRow
    <3>3. QED
      BY <1>2, <1>3, <3>2
  <2>3. QED
    BY <2>1, <2>2
<1>6. QED
  BY <1>2, <1>5

\* A revoked key has no effect any more, although a request may have
\* authenticated with it before it was revoked.
THEOREM RevokedKeysAreDead ==
  KeysSpec => RevokedKeyIsDead
<1>1. KeysCore /\ [KeysNext]_keysVars =>
        [key' # key =>
           \E q \in Requests :
              /\ keyRequest[q] # None /\ keyRequest'[q] = None
              /\ key[keyRequest[q].by] # None
              /\ \A k \in Keys : key'[k] # key[k] =>
                    keyRequest[q].user \in {r.user : r \in {key[k], key'[k]} \ {None}}]_keysVars
  BY ChangeIsOwn
<1>2. QED
  BY <1>1, KeysCoreAlways, PTL DEF KeysSpec, RevokedKeyIsDead

-----------------------------------------------------------------------------
(* The library.                                                             *)

\* What a request that goes on has asked, and of what
Pending ==
    [pc : {"write"}, op : {"save", "import", "history"}, by : Users, key : Conns]
        \cup [pc : {"write"}, op : {"dropTemplate", "dropSnapshot"}, by : Users, key : Rows]
        \cup [pc : {"write"}, op : {"tag"}, by : Users, key : Labels]
        \cup [pc : {"write"}, op : {"make"}, by : Users, key : Names]

\* A request under way has no answer yet.
Asked ==
    \A q \in Requests :
        /\ request[q] \in Pending \cup {Idle}
        /\ request[q] # Idle => answer[q] = "none"

\* The inductive invariant of the library.
LibraryCore == LibraryTypeOK /\ Asked

-----------------------------------------------------------------------------
(* How a request moves: it ends, or it looks something up and goes on.     *)

\* The request is answered in this step.
Ends(q) == \E a : End(q, a)

\* What a request that goes on has found
Holds(op, i) ==
    /\ op \in {"save", "import", "history"} => conn[i] # None
    /\ op = "tag" => tag[i] = None /\ present
    /\ op = "make" => ~(Cardinality(Named(i)) = 1)

\* The request found its row, and is still to write.
GoesOn(q) ==
    \E r \in Pending :
        /\ Continue(q, r.op, r.by, r.key)
        /\ request[q] = Idle
        /\ Holds(r.op, r.key)
        /\ UNCHANGED tables

\* What Continue leads to.
LEMMA GoingOn ==
  ASSUME NEW q \in Requests, NEW u \in Users, NEW op, NEW i,
         [pc |-> "write", op |-> op, by |-> u, key |-> i] \in Pending,
         Continue(q, op, u, i), request[q] = Idle, Holds(op, i), UNCHANGED tables
  PROVE  GoesOn(q)
<1> DEFINE r == [pc |-> "write", op |-> op, by |-> u, key |-> i]
<1>1. r \in Pending /\ r.op = op /\ r.by = u /\ r.key = i
  OBVIOUS
<1> HIDE DEF r
<1>2. QED
  BY <1>1 DEF GoesOn

\* There is no third way for a step of a request.
LEMMA StepKinds ==
  ASSUME NEW q \in Requests, Step(q)
  PROVE  Ends(q) \/ GoesOn(q)
<1>1. ASSUME NEW c \in Conns, NEW n \in Names,
             CreateConnection(q, c, n) \/ RenameConnection(q, c, n)
      PROVE  Ends(q)
  BY <1>1 DEF CreateConnection, RenameConnection, Ends
<1>2. ASSUME NEW c \in Conns, DeleteConnection(q, c) \/ MakeConnection(q, c)
      PROVE  Ends(q)
  BY <1>2 DEF DeleteConnection, MakeConnection, Ends
<1>3. ASSUME NEW c \in Conns, NEW u \in Users, NEW op \in {"save", "import", "history"},
             FindConnection(q, u, op, c)
      PROVE  Ends(q) \/ GoesOn(q)
  <2>1. CASE conn[c] = None
    BY <1>3, <2>1 DEF FindConnection, Ends
  <2>2. CASE conn[c] # None
    <3>1. Holds(op, c)
      BY <1>3, <2>2 DEF Holds
    <3>2. [pc |-> "write", op |-> op, by |-> u, key |-> c] \in Pending
      BY DEF Pending
    <3>3. Continue(q, op, u, c) /\ request[q] = Idle /\ UNCHANGED tables
      BY <1>3, <2>2 DEF FindConnection
    <3>4. QED
      BY <3>1, <3>2, <3>3, GoingOn
  <2>3. QED
    BY <2>1, <2>2
<1>4. ASSUME NEW ts \in SUBSET Rows, InsertTemplates(q, ts)
      PROVE  Ends(q)
  BY <1>4 DEF InsertTemplates, Ends
<1>5. ASSUME NEW i \in Rows, NEW r \in {Report, None}, InsertSnapshot(q, i, r)
      PROVE  Ends(q)
  BY <1>5 DEF InsertSnapshot, Ends
<1>6. ASSUME NEW i \in Rows, NEW u \in Users, NEW op \in {"dropTemplate", "dropSnapshot"},
             LoadRow(q, u, op, i)
      PROVE  Ends(q) \/ GoesOn(q)
  <2> DEFINE found == IF op = "dropTemplate" THEN Export(u, {i}) ELSE Fetch(u, i)
  <2>1. /\ request[q] = Idle /\ UNCHANGED tables
        /\ IF found = "ok" THEN Continue(q, op, u, i) ELSE End(q, found)
    BY <1>6 DEF LoadRow
  <2> HIDE DEF found
  <2>2. Holds(op, i)
    BY DEF Holds
  <2>3. [pc |-> "write", op |-> op, by |-> u, key |-> i] \in Pending
    BY DEF Pending
  <2>4. QED
    BY <2>1, <2>2, <2>3, GoingOn DEF Ends
<1>7. ASSUME NEW i \in Rows, NEW u \in Users,
             (\E v \in Versions : AddComment(q, u, i, v)) \/ DeleteComment(q, u, i)
      PROVE  Ends(q)
  BY <1>7 DEF AddComment, DeleteComment, Ends
<1>8. ASSUME DropTemplate(q) \/ DropSnapshot(q)
      PROVE  Ends(q)
  BY <1>8 DEF DropTemplate, DropSnapshot, Ends
<1>9. ASSUME NEW l \in Labels, NEW u \in Users, FindTag(q, u, l)
      PROVE  Ends(q) \/ GoesOn(q)
  <2>1. CASE ~present \/ tag[l] # None
    BY <1>9, <2>1 DEF FindTag, Ends
  <2>2. CASE present /\ tag[l] = None
    <3>1. Holds("tag", l)
      BY <2>2 DEF Holds
    <3>2. [pc |-> "write", op |-> "tag", by |-> u, key |-> l] \in Pending
      BY DEF Pending
    <3>3. Continue(q, "tag", u, l) /\ request[q] = Idle /\ UNCHANGED tables
      BY <1>9, <2>2 DEF FindTag
    <3>4. QED
      BY <3>1, <3>2, <3>3, GoingOn
  <2>3. QED
    BY <2>1, <2>2
<1>10. ASSUME NEW l \in Labels, RemoveTag(q, l)
       PROVE  Ends(q)
  BY <1>10 DEF RemoveTag, Ends
<1>11. ASSUME NEW v \in Versions, InsertTag(q, v)
       PROVE  Ends(q)
  BY <1>11 DEF InsertTag, Ends
<1>12. ASSUME NEW u \in Users, NEW n \in Names, FindByName(q, u, n)
       PROVE  Ends(q) \/ GoesOn(q)
  <2>1. CASE Cardinality(Named(n)) > 1 \/ Cardinality(Named(n)) = 1
    BY <1>12, <2>1 DEF FindByName, Ends
  <2>2. CASE ~(Cardinality(Named(n)) > 1) /\ ~(Cardinality(Named(n)) = 1)
    <3>1. Holds("make", n)
      BY <2>2 DEF Holds
    <3>2. [pc |-> "write", op |-> "make", by |-> u, key |-> n] \in Pending
      BY DEF Pending
    <3>3. Continue(q, "make", u, n) /\ request[q] = Idle /\ UNCHANGED tables
      BY <1>12, <2>2 DEF FindByName
    <3>4. QED
      BY <3>1, <3>2, <3>3, GoingOn
  <2>3. QED
    BY <2>1, <2>2
<1>13. QED
  BY <1>1, <1>2, <1>3, <1>4, <1>5, <1>6, <1>7, <1>8, <1>9, <1>10, <1>11, <1>12 DEF Step

\* Where another request of the step is afterwards.
LEMMA RequestMoves ==
  ASSUME LibraryCore, [LibraryNext]_libraryVars, NEW q \in Requests
  PROVE  \/ request'[q] = request[q] /\ answer'[q] = answer[q]
         \/ request'[q] = Idle
         \/ /\ request[q] = Idle
            /\ request'[q] \in Pending
            /\ answer'[q] = "none"
            /\ Holds(request'[q].op, request'[q].key)
            /\ UNCHANGED tables
<1>1. DOMAIN request = Requests /\ DOMAIN answer = Requests
  BY DEF LibraryCore, LibraryTypeOK
<1>2. CASE EraseReport \/ UNCHANGED libraryVars
  BY <1>2 DEF EraseReport, libraryVars
<1>3. CASE Crash
  BY <1>3 DEF Crash
<1>4. ASSUME NEW p \in Requests, Ends(p)
      PROVE  \/ request'[q] = request[q] /\ answer'[q] = answer[q]
             \/ request'[q] = Idle
  BY <1>1, <1>4 DEF Ends, End
<1>5. ASSUME NEW p \in Requests, GoesOn(p)
      PROVE  \/ request'[q] = request[q] /\ answer'[q] = answer[q]
             \/ /\ request[q] = Idle
                /\ request'[q] \in Pending
                /\ answer'[q] = "none"
                /\ Holds(request'[q].op, request'[q].key)
                /\ UNCHANGED tables
  <2>1. PICK r \in Pending :
            /\ Continue(p, r.op, r.by, r.key)
            /\ request[p] = Idle
            /\ Holds(r.op, r.key)
            /\ UNCHANGED tables
    BY <1>5 DEF GoesOn
  <2>2. r = [pc |-> "write", op |-> r.op, by |-> r.by, key |-> r.key]
    BY DEF Pending
  <2>3. request' = [request EXCEPT ![p] = r] /\ answer' = [answer EXCEPT ![p] = "none"]
    BY <2>1, <2>2 DEF Continue
  <2>4. QED
    BY <1>1, <2>1, <2>3
<1>6. ASSUME NEW p \in Requests, Step(p)
      PROVE  Ends(p) \/ GoesOn(p)
  BY <1>6, StepKinds
<1>7. QED
  BY <1>2, <1>3, <1>4, <1>5, <1>6 DEF LibraryNext

-----------------------------------------------------------------------------
(* Types, and the foreign keys.                                            *)

\* The tables of connections and of what refers to them
ConnTables ==
    /\ conn \in [Conns -> Names \cup {None}]
    /\ template \in [Rows -> [conn : Conns, by : Users] \cup {None}]
    /\ snapshot \in [Rows -> [conn : Conns \cup {None}, report : {Report, None}, by : Users]
                             \cup {None}]
    /\ \A t \in Rows : template[t] # None => conn[template[t].conn] # None
    /\ \A h \in Rows : snapshot[h] # None =>
          /\ snapshot[h].conn # None => conn[snapshot[h].conn] # None
          /\ snapshot[h].report # None => present

\* The tables of what is said about versions
NoteTables ==
    /\ tag \in [Labels -> Versions \cup {None}]
    /\ comment \in [Rows -> [version : Versions, by : Users] \cup {None}]
    /\ ~present => /\ \A l \in Labels : tag[l] = None
                   /\ \A k \in Rows : comment[k] = None

\* Each request has a state and an answer.
PerRequest == DOMAIN request = Requests /\ DOMAIN answer = Requests

\* The type invariant table by table.
LEMMA TypeParts ==
  LibraryTypeOK <=> ConnTables /\ NoteTables /\ PerRequest
<1>1. ASSUME ConnTables \/ LibraryTypeOK
      PROVE  /\ Live(template) = {t \in Rows : template[t] # None}
             /\ Live(snapshot) = {h \in Rows : snapshot[h] # None}
  BY <1>1 DEF ConnTables, LibraryTypeOK, Live
<1>2. ASSUME NoteTables \/ LibraryTypeOK
      PROVE  /\ Live(comment) = {k \in Rows : comment[k] # None}
             /\ Live(tag) = {l \in Labels : tag[l] # None}
  BY <1>2 DEF NoteTables, LibraryTypeOK, Live
<1>3. ASSUME LibraryTypeOK
      PROVE  ConnTables /\ NoteTables
  BY <1>1, <1>2, <1>3 DEF LibraryTypeOK, ConnTables, NoteTables
<1>4. ASSUME ConnTables, NoteTables, PerRequest
      PROVE  LibraryTypeOK
  BY <1>1, <1>2, <1>4 DEF LibraryTypeOK, ConnTables, NoteTables, PerRequest
<1>5. QED
  BY <1>3, <1>4 DEF LibraryTypeOK, PerRequest

\* The invariant holds at first.
LEMMA LibraryCoreInit == ASSUME LibraryInit PROVE LibraryCore
<1>1. ConnTables
  BY LibraryAssumption DEF LibraryInit, ConnTables
<1>2. NoteTables
  BY DEF LibraryInit, NoteTables
<1>3. Asked
  BY DEF LibraryInit, Asked
<1>4. QED
  BY <1>1, <1>2, <1>3, TypeParts DEF LibraryInit, LibraryCore, PerRequest

\* Only an answer ends a request.
LEMMA AskedNext == LibraryCore /\ [LibraryNext]_libraryVars => Asked'
<1> SUFFICES ASSUME LibraryCore, [LibraryNext]_libraryVars, NEW q \in Requests
             PROVE  /\ request'[q] \in Pending \cup {Idle}
                    /\ request'[q] # Idle => answer'[q] = "none"
  BY DEF Asked
<1>1. QED
  BY RequestMoves DEF LibraryCore, Asked

\* No step makes or loses a request.
LEMMA PerRequestNext == ASSUME LibraryCore, [LibraryNext]_libraryVars PROVE PerRequest'
<1>1. DOMAIN request = Requests /\ DOMAIN answer = Requests
  BY DEF LibraryCore, LibraryTypeOK
<1>2. CASE EraseReport \/ Crash \/ UNCHANGED libraryVars
  BY <1>1, <1>2 DEF EraseReport, Crash, libraryVars, PerRequest
<1>3. ASSUME NEW p \in Requests, Ends(p) \/ GoesOn(p)
      PROVE  PerRequest'
  BY <1>1, <1>3 DEF Ends, GoesOn, End, Continue, PerRequest
<1>4. QED
  BY <1>2, <1>3, StepKinds DEF LibraryNext

\* A connection that is named or renamed.
LEMMA Naming ==
  ASSUME LibraryCore, NEW c \in Conns, NEW n \in Names, conn' = [conn EXCEPT ![c] = n],
         UNCHANGED <<template, snapshot, present>>
  PROVE  ConnTables'
<1>1. ConnTables
  BY TypeParts DEF LibraryCore
<1>2. QED
  BY <1>1, LibraryAssumption DEF ConnTables

\* A connection that is deleted.
LEMMA Deleting ==
  ASSUME LibraryCore, NEW q \in Requests, NEW c \in Conns, DeleteConnection(q, c)
  PROVE  ConnTables'
<1>1. ConnTables
  BY TypeParts DEF LibraryCore
<1>2. /\ Live(template) = {t \in Rows : template[t] # None}
      /\ Live(snapshot) = {h \in Rows : snapshot[h] # None}
  BY <1>1 DEF ConnTables, Live
<1>3. conn' = [conn EXCEPT ![c] = None] /\ UNCHANGED present
  BY DEF DeleteConnection
<1>4. conn' \in [Conns -> Names \cup {None}]
  BY <1>1, <1>3 DEF ConnTables
<1>5. /\ template' \in [Rows -> [conn : Conns, by : Users] \cup {None}]
      /\ \A t \in Rows : template'[t] # None => conn'[template'[t].conn] # None
  <2>1. template' = [t \in Rows |-> IF template[t] # None /\ template[t].conn = c
                                    THEN None ELSE template[t]]
    BY <1>2 DEF DeleteConnection
  <2>2. QED
    BY <1>1, <1>3, <2>1 DEF ConnTables
<1>6. /\ snapshot' \in [Rows -> [conn : Conns \cup {None}, report : {Report, None}, by : Users]
                                \cup {None}]
      /\ \A h \in Rows : snapshot'[h] # None =>
            /\ snapshot'[h].conn # None => conn'[snapshot'[h].conn] # None
            /\ snapshot'[h].report # None => present'
  <2>1. snapshot' = [h \in Rows |-> IF snapshot[h] # None /\ snapshot[h].conn = c
                                    THEN [snapshot[h] EXCEPT !.conn = None] ELSE snapshot[h]]
    BY <1>2 DEF DeleteConnection
  <2>2. ASSUME NEW h \in Rows, snapshot[h] # None
        PROVE  /\ [snapshot[h] EXCEPT !.conn = None]
                     \in [conn : Conns \cup {None}, report : {Report, None}, by : Users]
               /\ [snapshot[h] EXCEPT !.conn = None].conn = None
               /\ [snapshot[h] EXCEPT !.conn = None].report = snapshot[h].report
    BY <1>1, <2>2 DEF ConnTables
  <2>3. ASSUME NEW h \in Rows
        PROVE  /\ snapshot'[h] \in [conn : Conns \cup {None}, report : {Report, None},
                                    by : Users] \cup {None}
               /\ snapshot'[h] # None =>
                     /\ snapshot'[h].conn # None => conn'[snapshot'[h].conn] # None
                     /\ snapshot'[h].report # None => present'
    <3>1. CASE snapshot[h] # None /\ snapshot[h].conn = c
      BY <1>1, <1>3, <2>1, <2>2, <3>1 DEF ConnTables
    <3>2. CASE snapshot[h] = None \/ snapshot[h].conn # c
      <4>1. snapshot'[h] = snapshot[h]
        BY <2>1, <3>2
      <4>2. snapshot[h] # None /\ snapshot[h].conn # None => snapshot[h].conn \in Conns
        BY <1>1 DEF ConnTables
      <4>3. QED
        BY <1>1, <1>3, <3>2, <4>1, <4>2 DEF ConnTables
    <3>3. QED
      BY <3>1, <3>2
  <2>4. QED
    BY <2>1, <2>3
<1>7. QED
  BY <1>4, <1>5, <1>6 DEF ConnTables

\* Templates and snapshots that are inserted.
LEMMA Inserting ==
  ASSUME LibraryCore, NEW q \in Requests
  PROVE  /\ \A ts \in SUBSET Rows : InsertTemplates(q, ts) => ConnTables'
         /\ \A h \in Rows, r \in {Report, None} : InsertSnapshot(q, h, r) => ConnTables'
<1>1. ConnTables
  BY TypeParts DEF LibraryCore
<1>2. request[q] \in Pending \cup {Idle}
  BY DEF LibraryCore, Asked
<1>3. ASSUME NEW ts \in SUBSET Rows, InsertTemplates(q, ts)
      PROVE  ConnTables'
  <2> DEFINE row == [conn |-> request[q].key, by |-> request[q].by]
  <2>1. UNCHANGED <<conn, snapshot, present>>
    BY <1>3 DEF InsertTemplates
  <2>2. CASE conn[request[q].key] = None
    BY <1>1, <1>3, <2>1, <2>2 DEF InsertTemplates, ConnTables
  <2>3. CASE conn[request[q].key] # None
    <3>1. row \in [conn : Conns, by : Users] /\ row.conn = request[q].key
      BY <1>2, <1>3 DEF InsertTemplates, Pending, Idle
    <3>2. template' = [t \in Rows |-> IF t \in ts THEN row ELSE template[t]]
      BY <1>3, <2>3 DEF InsertTemplates
    <3> HIDE DEF row
    <3>3. QED
      BY <1>1, <2>1, <2>3, <3>1, <3>2 DEF ConnTables
  <2>4. QED
    BY <2>2, <2>3
<1>4. ASSUME NEW h \in Rows, NEW r \in {Report, None}, InsertSnapshot(q, h, r)
      PROVE  ConnTables'
  <2> DEFINE row == [conn |-> request[q].key, report |-> r, by |-> request[q].by]
  <2>1. UNCHANGED <<conn, template, present>>
    BY <1>4 DEF InsertSnapshot
  <2>2. CASE conn[request[q].key] = None \/ (r # None /\ ~present)
    BY <1>1, <1>4, <2>1, <2>2 DEF InsertSnapshot, ConnTables
  <2>3. CASE conn[request[q].key] # None /\ (r # None => present)
    <3>1. /\ row \in [conn : Conns \cup {None}, report : {Report, None}, by : Users]
          /\ row.conn = request[q].key /\ row.report = r
      BY <1>2, <1>4 DEF InsertSnapshot, Writing, Pending, Idle
    <3>2. snapshot' = [snapshot EXCEPT ![h] = row]
      BY <1>4, <2>3 DEF InsertSnapshot
    <3> HIDE DEF row
    <3>3. QED
      BY <1>1, <2>1, <2>3, <3>1, <3>2 DEF ConnTables
  <2>4. QED
    BY <2>2, <2>3
<1>5. QED
  BY <1>3, <1>4

\* And dropped.
LEMMA Dropping ==
  ASSUME LibraryCore, NEW q \in Requests, DropTemplate(q) \/ DropSnapshot(q)
  PROVE  ConnTables'
<1>1. ConnTables
  BY TypeParts DEF LibraryCore
<1>2. CASE DropTemplate(q)
  BY <1>1, <1>2 DEF DropTemplate, ConnTables
<1>3. CASE DropSnapshot(q)
  BY <1>1, <1>3 DEF DropSnapshot, ConnTables
<1>4. QED
  BY <1>2, <1>3

\* Tags and comments.
LEMMA Noting ==
  ASSUME LibraryCore, NEW q \in Requests
  PROVE  /\ \A v \in Versions : InsertTag(q, v) => NoteTables'
         /\ \A l \in Labels : RemoveTag(q, l) => NoteTables'
         /\ \A u \in Users, k \in Rows, v \in Versions : AddComment(q, u, k, v) => NoteTables'
         /\ \A u \in Users, k \in Rows : DeleteComment(q, u, k) => NoteTables'
<1>1. NoteTables
  BY TypeParts DEF LibraryCore
<1>2. ASSUME NEW v \in Versions, InsertTag(q, v)
      PROVE  NoteTables'
  BY <1>1, <1>2 DEF InsertTag, NoteTables
<1>3. ASSUME NEW l \in Labels, RemoveTag(q, l)
      PROVE  NoteTables'
  BY <1>1, <1>3 DEF RemoveTag, NoteTables
<1>4. ASSUME NEW u \in Users, NEW k \in Rows, NEW v \in Versions, AddComment(q, u, k, v)
      PROVE  NoteTables'
  BY <1>1, <1>4 DEF AddComment, NoteTables
<1>5. ASSUME NEW u \in Users, NEW k \in Rows, DeleteComment(q, u, k)
      PROVE  NoteTables'
  BY <1>1, <1>5 DEF DeleteComment, NoteTables
<1>6. QED
  BY <1>2, <1>3, <1>4, <1>5

\* The report that is deleted.
LEMMA ReportGoes ==
  ASSUME LibraryCore, EraseReport
  PROVE  ConnTables' /\ NoteTables'
<1>1. ConnTables /\ NoteTables
  BY TypeParts DEF LibraryCore
<1>2. Live(snapshot) = {h \in Rows : snapshot[h] # None}
  BY <1>1 DEF ConnTables, Live
<1>3. /\ UNCHANGED <<conn, template>> /\ present' = FALSE
      /\ tag' = [l \in Labels |-> None]
      /\ comment' = [k \in Rows |-> None]
      /\ snapshot' = [h \in Rows |-> IF snapshot[h] # None /\ snapshot[h].report = Report
                                     THEN None ELSE snapshot[h]]
  BY <1>2 DEF EraseReport
<1>4. ASSUME NEW h \in Rows, snapshot'[h] # None
      PROVE  snapshot'[h] = snapshot[h] /\ snapshot'[h].report = None
  BY <1>1, <1>3, <1>4 DEF ConnTables
<1>5. NoteTables'
  BY <1>1, <1>3 DEF NoteTables
<1>6. snapshot' \in [Rows -> [conn : Conns \cup {None}, report : {Report, None}, by : Users]
                             \cup {None}]
  BY <1>1, <1>3 DEF ConnTables
<1>7. ConnTables'
  BY <1>1, <1>3, <1>4, <1>6 DEF ConnTables
<1>8. QED
  BY <1>5, <1>7

\* Every step leaves the tables typed.
LEMMA TablesNext == ASSUME LibraryCore, [LibraryNext]_libraryVars PROVE ConnTables' /\ NoteTables'
<1>1. ConnTables /\ NoteTables
  BY TypeParts DEF LibraryCore
<1>2. ASSUME UNCHANGED <<conn, template, snapshot, present>>
      PROVE  ConnTables'
  BY <1>1, <1>2 DEF ConnTables
<1>3. ASSUME UNCHANGED <<tag, comment, present>>
      PROVE  NoteTables'
  BY <1>1, <1>3 DEF NoteTables
<1>4. CASE EraseReport
  BY <1>4, ReportGoes
<1>5. CASE Crash \/ UNCHANGED libraryVars
  BY <1>2, <1>3, <1>5 DEF Crash, libraryVars, tables
<1>6. ASSUME NEW q \in Requests, Step(q)
      PROVE  ConnTables' /\ NoteTables'
  <2>1. ASSUME NEW c \in Conns, NEW n \in Names,
               CreateConnection(q, c, n) \/ RenameConnection(q, c, n)
        PROVE  ConnTables' /\ NoteTables'
    BY <1>3, <2>1, Naming DEF CreateConnection, RenameConnection
  <2>2. ASSUME NEW c \in Conns, DeleteConnection(q, c)
        PROVE  ConnTables' /\ NoteTables'
    BY <1>3, <2>2, Deleting DEF DeleteConnection
  <2>3. ASSUME NEW c \in Conns, MakeConnection(q, c)
        PROVE  ConnTables' /\ NoteTables'
    <3>1. request[q].key \in Names
      BY <2>3 DEF LibraryCore, Asked, MakeConnection, Writing, Pending, Idle
    <3>2. QED
      BY <1>3, <2>3, <3>1, Naming DEF MakeConnection
  <2>4. ASSUME UNCHANGED tables
        PROVE  ConnTables' /\ NoteTables'
    BY <1>2, <1>3, <2>4 DEF tables
  <2>5. ASSUME NEW ts \in SUBSET Rows, InsertTemplates(q, ts)
        PROVE  ConnTables' /\ NoteTables'
    BY <1>3, <2>5, Inserting DEF InsertTemplates
  <2>6. ASSUME NEW i \in Rows, NEW r \in {Report, None}, InsertSnapshot(q, i, r)
        PROVE  ConnTables' /\ NoteTables'
    BY <1>3, <2>6, Inserting DEF InsertSnapshot
  <2>7. ASSUME DropTemplate(q) \/ DropSnapshot(q)
        PROVE  ConnTables' /\ NoteTables'
    BY <1>3, <2>7, Dropping DEF DropTemplate, DropSnapshot
  <2>8. ASSUME NEW i \in Rows, NEW u \in Users,
               (\E v \in Versions : AddComment(q, u, i, v)) \/ DeleteComment(q, u, i)
        PROVE  ConnTables' /\ NoteTables'
    BY <1>2, <2>8, Noting DEF AddComment, DeleteComment
  <2>9. ASSUME NEW l \in Labels, RemoveTag(q, l)
        PROVE  ConnTables' /\ NoteTables'
    BY <1>2, <2>9, Noting DEF RemoveTag
  <2>10. ASSUME NEW v \in Versions, InsertTag(q, v)
         PROVE  ConnTables' /\ NoteTables'
    BY <1>2, <2>10, Noting DEF InsertTag
  <2>11. \/ \E c \in Conns : \/ \E n \in Names : CreateConnection(q, c, n)
                                                 \/ RenameConnection(q, c, n)
                             \/ DeleteConnection(q, c)
                             \/ MakeConnection(q, c)
         \/ \E ts \in SUBSET Rows : InsertTemplates(q, ts)
         \/ \E i \in Rows : \/ \E r \in {Report, None} : InsertSnapshot(q, i, r)
                            \/ \E u \in Users : \/ \E v \in Versions : AddComment(q, u, i, v)
                                                \/ DeleteComment(q, u, i)
         \/ DropTemplate(q) \/ DropSnapshot(q)
         \/ \E l \in Labels : RemoveTag(q, l)
         \/ \E v \in Versions : InsertTag(q, v)
         \/ UNCHANGED tables
    BY <1>6 DEF Step, FindConnection, LoadRow, FindTag, FindByName
  <2>12. QED
    BY <2>1, <2>2, <2>3, <2>4, <2>5, <2>6, <2>7, <2>8, <2>9, <2>10, <2>11
<1>7. QED
  BY <1>4, <1>5, <1>6 DEF LibraryNext

\* Every step.
LEMMA LibraryCoreNext == ASSUME LibraryCore, [LibraryNext]_libraryVars PROVE LibraryCore'
<1>1. ConnTables' /\ NoteTables'
  BY TablesNext
<1>2. PerRequest'
  BY PerRequestNext
<1>3. LibraryTypeOK'
  BY <1>1, <1>2, TypeParts, PTL
<1>4. QED
  BY <1>3, AskedNext DEF LibraryCore

\* The invariant of the library always holds.
LEMMA LibraryCoreAlways == LibrarySpec => []LibraryCore
<1>1. LibraryInit => LibraryCore
  BY LibraryCoreInit
<1>2. LibraryCore /\ [LibraryNext]_libraryVars => LibraryCore'
  BY LibraryCoreNext
<1>3. QED
  BY <1>1, <1>2, PTL DEF LibrarySpec

\* The tables have their types, and no row refers to one that is gone.
THEOREM LibraryTypeSafe ==
  LibrarySpec => []LibraryTypeOK
<1>1. LibraryCore => LibraryTypeOK
  BY DEF LibraryCore
<1>2. QED
  BY <1>1, LibraryCoreAlways, PTL

-----------------------------------------------------------------------------
(* What a request found stays so until another one writes.                 *)

\* The row that a request is to write is still there.
Stands(q) == request[q].op # "make" => Holds(request[q].op, request[q].key)

\* So it is unless another request got in between.
Found == \A q \in Requests \ contended : request[q] # Idle => Stands(q)

\* What is watched changes nothing in the library.
LEMMA LibraryCoreWatched == WatchedSpec => []LibraryCore
<1>1. WatchedInit => LibraryCore
  BY LibraryCoreInit DEF WatchedInit
<1>2. LibraryCore /\ [WatchedNext]_watchedVars => LibraryCore'
  BY LibraryCoreNext DEF WatchedNext, watchedVars
<1>3. QED
  BY <1>1, <1>2, PTL DEF WatchedSpec

\* Every step leaves it so.
LEMMA FoundNext ==
  ASSUME LibraryCore, Found, WatchedNext
  PROVE  Found'
<1> SUFFICES ASSUME NEW q \in Requests, q \notin contended', request'[q] # Idle
             PROVE  Stands(q)'
  BY DEF Found
<1>1. \/ request'[q] = request[q]
      \/ /\ request[q] = Idle
         /\ request'[q] \in Pending
         /\ Holds(request'[q].op, request'[q].key)
         /\ UNCHANGED tables
  BY RequestMoves DEF WatchedNext
<1>2. CASE request'[q] = request[q]
  <2>1. request[q] \in Pending /\ request[q].pc = "write"
    BY <1>2 DEF LibraryCore, Asked, Pending
  <2>2. q \notin contended /\ UNCHANGED tables
    BY <1>2, <2>1 DEF WatchedNext, Watch
  <2>3. Stands(q)
    BY <1>2, <2>2 DEF Found
  <2>4. QED
    BY <1>2, <2>2, <2>3 DEF Stands, Holds, Named, tables
<1>3. CASE Holds(request'[q].op, request'[q].key) /\ UNCHANGED tables
  BY <1>3 DEF Stands, Holds, Named, tables
<1>4. QED
  BY <1>1, <1>2, <1>3

\* And it is always so.
LEMMA FoundAlways == WatchedSpec => []Found
<1>1. WatchedInit => Found
  BY DEF WatchedInit, LibraryInit, Found
<1>2. LibraryCore /\ Found /\ [WatchedNext]_watchedVars => Found'
  <2>1. ASSUME Found, UNCHANGED watchedVars
        PROVE  Found'
    BY <2>1 DEF Found, Stands, Holds, Named, watchedVars, libraryVars, tables
  <2>2. QED
    BY <2>1, FoundNext
<1>3. QED
  BY <1>1, <1>2, LibraryCoreWatched, PTL DEF WatchedSpec

\* An error is what an insert comes to whose look-up no longer holds.
LEMMA ErrorIsLost ==
  ASSUME LibraryCore, WatchedNext, NEW q \in Requests,
         request[q].pc = "write", request'[q].pc = "idle", answer'[q] = "error",
         request[q].op = "history" => present
  PROVE  ~Holds(request[q].op, request[q].key) /\ request[q].op # "make"
<1>1. request[q] \in Pending /\ answer[q] = "none" /\ request[q] # Idle
  BY DEF LibraryCore, Asked, Idle
<1>2. DOMAIN request = Requests /\ DOMAIN answer = Requests
  BY DEF LibraryCore, LibraryTypeOK
<1>3. ~Crash /\ ~EraseReport
  BY <1>1 DEF Crash, EraseReport
<1>4. PICK p \in Requests : Step(p)
  BY <1>3 DEF WatchedNext, LibraryNext
<1>5. p = q
  <2>1. ASSUME p # q
        PROVE  request'[q] = request[q]
    BY <1>2, <1>4, <2>1, StepKinds DEF Ends, GoesOn, End, Continue
  <2>2. QED
    BY <2>1
<1>6. ASSUME NEW a, End(q, a)
      PROVE  a = "error"
  BY <1>2, <1>6 DEF End
<1>7. \/ DropTemplate(q) \/ DropSnapshot(q)
      \/ \E c \in Conns : MakeConnection(q, c)
      \/ \E ts \in SUBSET Rows : InsertTemplates(q, ts)
      \/ \E i \in Rows, r \in {Report, None} : InsertSnapshot(q, i, r)
      \/ \E v \in Versions : InsertTag(q, v)
  BY <1>1, <1>4, <1>5
     DEF Step, CreateConnection, RenameConnection, DeleteConnection, FindConnection, LoadRow,
         AddComment, DeleteComment, FindTag, RemoveTag, FindByName
<1>8. ~DropTemplate(q) /\ ~DropSnapshot(q) /\ \A c \in Conns : ~MakeConnection(q, c)
  BY <1>6 DEF DropTemplate, DropSnapshot, MakeConnection
<1>9. ASSUME NEW ts \in SUBSET Rows, InsertTemplates(q, ts)
      PROVE  request[q].op \in {"save", "import"} /\ conn[request[q].key] = None
  BY <1>6, <1>9 DEF InsertTemplates
<1>10. ASSUME NEW i \in Rows, NEW r \in {Report, None}, InsertSnapshot(q, i, r)
       PROVE  request[q].op = "history" /\ conn[request[q].key] = None
  <2>1. request[q].op = "history"
    BY <1>10 DEF InsertSnapshot, Writing
  <2>2. present
    BY <2>1
  <2>3. QED
    BY <1>6, <1>10, <2>1, <2>2 DEF InsertSnapshot
<1>11. ASSUME NEW v \in Versions, InsertTag(q, v)
       PROVE  request[q].op = "tag" /\ (tag[request[q].key] # None \/ ~present)
  BY <1>6, <1>11 DEF InsertTag, Writing
<1>12. QED
  BY <1>7, <1>8, <1>9, <1>10, <1>11 DEF Holds

\* A request that looked something up before it inserts a row fails only if
\* another request has written in between.
THEOREM OnlyContentionIsAnError ==
  WatchedSpec => ErrorsNeedContention
<1>1. LibraryCore /\ Found /\ [WatchedNext]_watchedVars =>
        [\A q \in Requests :
            /\ request[q].pc = "write" /\ request'[q].pc = "idle" /\ answer'[q] = "error"
            /\ request[q].op = "history" => present
            => q \in contended]_watchedVars
  <2> SUFFICES ASSUME LibraryCore, Found, WatchedNext, NEW q \in Requests,
                      request[q].pc = "write", request'[q].pc = "idle", answer'[q] = "error",
                      request[q].op = "history" => present
               PROVE  q \in contended
    OBVIOUS
  <2>1. ~Holds(request[q].op, request[q].key) /\ request[q].op # "make"
    BY ErrorIsLost
  <2>2. request[q] # Idle
    BY DEF Idle
  <2>3. QED
    BY <2>1, <2>2 DEF Found, Stands
<1>2. QED
  BY <1>1, LibraryCoreWatched, FoundAlways, PTL DEF WatchedSpec, ErrorsNeedContention

-----------------------------------------------------------------------------
(* Names of connections.                                                   *)

\* Until it is disturbed, one import at a time makes a connection, of a name that
\* no other has.
Unshared ==
    /\ \A p, q \in Making : p = q
    /\ \A q \in Making : Named(request[q].key) = {}
    /\ \A c, d \in Conns : conn[c] = conn[d] /\ conn[c] # None => c = d

\* A set is finite if its members but one are the same.
LEMMA AtMostOne ==
  ASSUME NEW S, NEW r, \A p, q \in S \ {r} : p = q, ~(Cardinality(S) > 1)
  PROVE  \A p, q \in S : p = q
<1>1. IsFiniteSet(S)
  <2>1. CASE S \subseteq {r}
    BY <2>1, FS_Singleton, FS_Subset
  <2>2. ASSUME NEW s \in S, s # r
        PROVE  IsFiniteSet(S)
    <3>1. S \subseteq {r} \cup {s}
      BY <2>2
    <3>2. IsFiniteSet({r} \cup {s})
      BY FS_Singleton, FS_AddElement
    <3>3. QED
      BY <3>1, <3>2, FS_Subset
  <2>3. QED
    BY <2>1, <2>2
<1>2. Cardinality(S) = 0 \/ Cardinality(S) = 1
  BY <1>1, FS_CardinalityType
<1>3. S = {} \/ \E x : S = {x}
  BY <1>1, <1>2, FS_EmptySet, FS_Singleton
<1>4. QED
  BY <1>3

\* At most one request begins to make a connection in a step.
LEMMA OneMaker ==
  ASSUME LibraryCore, LibraryNext, \A p, q \in Making : p = q, ~(Cardinality(Making') > 1)
  PROVE  \A p, q \in Making' : p = q
<1> DEFINE M == Making'
<1>1. \E r : \A p, q \in M \ {r} : p = q
  <2>1. CASE EraseReport
    BY <2>1 DEF EraseReport, Making
  <2>2. CASE Crash
    BY <2>2 DEF Crash, Making, Idle
  <2>3. ASSUME NEW r \in Requests, Step(r)
        PROVE  \A p, q \in M \ {r} : p = q
    <3>1. \A q \in Requests \ {r} : request'[q] = request[q]
      BY <2>3, StepKinds DEF Ends, GoesOn, End, Continue, LibraryCore, LibraryTypeOK
    <3>2. M \ {r} \subseteq Making
      BY <3>1 DEF Making
    <3> HIDE DEF M
    <3>3. QED
      BY <3>2
  <2>4. QED
    BY <2>1, <2>2, <2>3 DEF LibraryNext
<1>2. ~(Cardinality(M) > 1)
  OBVIOUS
<1> HIDE DEF M
<1>3. \A p, q \in M : p = q
  BY <1>1, <1>2, AtMostOne
<1>4. QED
  BY <1>3 DEF M

\* A step names one connection at most: by hand, while the imports wait, or as
\* the end of an import.
LEMMA NameChange ==
  ASSUME LibraryCore, LibraryNext, NEW c \in Conns, conn'[c] # conn[c], conn'[c] # None
  PROVE  /\ \A d \in Conns \ {c} : conn'[d] = conn[d]
         /\ conn'[c] \in Names
         /\ \/ \A q \in Making : request'[q].pc = "write"
            \/ \E q \in Making : /\ conn'[c] = request[q].key
                                 /\ request'[q] = Idle
<1>1. conn \in [Conns -> Names \cup {None}]
  BY DEF LibraryCore, LibraryTypeOK
<1>2. DOMAIN request = Requests
  BY DEF LibraryCore, LibraryTypeOK
<1>3. PICK q \in Requests, d \in Conns :
         \/ \E n \in Names : CreateConnection(q, d, n) \/ RenameConnection(q, d, n)
         \/ DeleteConnection(q, d)
         \/ MakeConnection(q, d)
  <2>1. PICK q \in Requests : Step(q)
    BY DEF LibraryNext, EraseReport, Crash, tables
  <2>2. /\ \A ts \in SUBSET Rows : ~InsertTemplates(q, ts)
        /\ \A i \in Rows, r \in {Report, None} : ~InsertSnapshot(q, i, r)
        /\ \A v \in Versions : ~InsertTag(q, v)
        /\ ~DropTemplate(q) /\ ~DropSnapshot(q)
    BY DEF InsertTemplates, InsertSnapshot, InsertTag, DropTemplate, DropSnapshot
  <2>3. \A u \in Users :
           /\ \A e \in Conns, op \in {"save", "import", "history"} : ~FindConnection(q, u, op, e)
           /\ \A i \in Rows, op \in {"dropTemplate", "dropSnapshot"} : ~LoadRow(q, u, op, i)
           /\ \A i \in Rows, v \in Versions : ~AddComment(q, u, i, v)
           /\ \A i \in Rows : ~DeleteComment(q, u, i)
           /\ \A l \in Labels : ~FindTag(q, u, l)
           /\ \A n \in Names : ~FindByName(q, u, n)
    BY DEF FindConnection, LoadRow, AddComment, DeleteComment, FindTag, FindByName, tables
  <2>4. \A l \in Labels : ~RemoveTag(q, l)
    BY DEF RemoveTag
  <2>5. QED
    BY <2>1, <2>2, <2>3, <2>4 DEF Step
<1>4. CASE \E n \in Names : CreateConnection(q, d, n) \/ RenameConnection(q, d, n)
  <2>1. PICK n \in Names : conn' = [conn EXCEPT ![d] = n]
    BY <1>4 DEF CreateConnection, RenameConnection
  <2>2. d = c
    BY <1>1, <2>1
  <2>3. request[q] = Idle /\ request' = [request EXCEPT ![q] = Idle]
    BY <1>4 DEF CreateConnection, RenameConnection, End
  <2>4. ASSUME NEW p \in Making
        PROVE  request'[p].pc = "write"
    <3>1. p \in Requests /\ request[p].op = "make" /\ p # q
      BY <2>3 DEF Making, Idle
    <3>2. request[p].pc = "write"
      BY <3>1 DEF LibraryCore, Asked, Pending, Idle
    <3>3. QED
      BY <1>2, <2>3, <3>1, <3>2
  <2>5. QED
    BY <1>1, <2>1, <2>2, <2>4
<1>5. CASE DeleteConnection(q, d)
  BY <1>1, <1>5 DEF DeleteConnection
<1>6. CASE MakeConnection(q, d)
  <2>1. /\ conn' = [conn EXCEPT ![d] = request[q].key]
        /\ request' = [request EXCEPT ![q] = Idle]
        /\ request[q].op = "make"
    BY <1>6 DEF MakeConnection, End, Writing
  <2>2. d = c
    BY <1>1, <2>1
  <2>3. request[q].key \in Names
    BY <2>1 DEF LibraryCore, Asked, Pending, Idle
  <2>4. q \in Making /\ request'[q] = Idle
    BY <1>2, <2>1 DEF Making
  <2>5. QED
    BY <1>1, <2>1, <2>2, <2>3, <2>4
<1>7. QED
  BY <1>3, <1>4, <1>5, <1>6

\* While nothing disturbs them, a connection gets a name that no other one has.
LEMMA NewName ==
  ASSUME LibraryCore, Unshared, WatchedNext, ~disturbed',
         NEW c \in Conns, conn'[c] # conn[c], conn'[c] # None
  PROVE  /\ Named(conn'[c]) = {}
         /\ \A d \in Conns \ {c} : conn'[d] = conn[d]
         /\ \A q \in Making : request'[q] = Idle
<1>1. /\ \A d \in Conns \ {c} : conn'[d] = conn[d]
      /\ \/ \A q \in Making : request'[q].pc = "write"
         \/ \E q \in Making : conn'[c] = request[q].key /\ request'[q] = Idle
  BY NameChange DEF WatchedNext
<1>2. CASE \A q \in Making : request'[q].pc = "write"
  <2>1. ~NamedByHand
    BY DEF WatchedNext, Watch
  <2>2. Named(conn'[c]) = {} /\ Making = {}
    BY <1>2, <2>1 DEF NamedByHand
  <2>3. QED
    BY <1>1, <2>2
<1>3. CASE \E q \in Making : conn'[c] = request[q].key /\ request'[q] = Idle
  BY <1>1, <1>3 DEF Unshared
<1>4. QED
  BY <1>1, <1>2, <1>3

\* Every step that does not disturb it.
LEMMA UnsharedNext ==
  ASSUME LibraryCore, Unshared, WatchedNext, ~disturbed'
  PROVE  Unshared'
<1>1. \A p, q \in Making' : p = q
  <2>1. ~(Cardinality(Making') > 1)
    BY DEF WatchedNext, Watch
  <2>2. QED
    BY <2>1, OneMaker DEF WatchedNext, Unshared
<1>2. ASSUME NEW c \in Conns, NEW d \in Conns, conn'[c] = conn'[d], conn'[c] # None
      PROVE  c = d
  <2>1. CASE conn'[c] = conn[c] /\ conn'[d] = conn[d]
    BY <1>2, <2>1 DEF Unshared
  <2>2. CASE conn'[c] # conn[c]
    BY <1>2, <2>2, NewName DEF Named
  <2>3. CASE conn'[d] # conn[d]
    BY <1>2, <2>3, NewName DEF Named
  <2>4. QED
    BY <2>1, <2>2, <2>3
<1>3. ASSUME NEW q \in Making', NEW c \in Conns, conn'[c] = request'[q].key
      PROVE  FALSE
  <2>1. q \in Requests /\ request'[q].op = "make" /\ request'[q] # Idle
    BY DEF Making, Idle
  <2>2. request'[q] \in Pending
    BY <2>1, AskedNext DEF Asked, WatchedNext
  <2>3. request'[q].key \in Names /\ conn'[c] # None
    BY <1>3, <2>1, <2>2, LibraryAssumption DEF Pending
  <2>4. CASE request'[q] = request[q]
    <3>1. q \in Making
      BY <2>1, <2>4 DEF Making
    <3>2. Named(request[q].key) = {}
      BY <3>1 DEF Unshared
    <3>3. conn[c] # conn'[c]
      BY <1>3, <2>4, <3>2 DEF Named
    <3>4. QED
      BY <2>1, <2>3, <3>1, <3>3, NewName
  <2>5. CASE Holds(request'[q].op, request'[q].key) /\ UNCHANGED tables
    <3> DEFINE n == request'[q].key
    <3>1. conn[c] = n /\ n # None
      BY <1>3, <2>3, <2>5 DEF tables
    <3>2. ~(Cardinality(Named(n)) = 1)
      BY <2>1, <2>5 DEF Holds
    <3> HIDE DEF n
    <3>3. Named(n) = {c}
      BY <3>1 DEF Named, Unshared
    <3>4. QED
      BY <3>2, <3>3, FS_Singleton
  <2>6. QED
    BY <2>1, <2>4, <2>5, RequestMoves DEF WatchedNext
<1>4. \A q \in Making' : {c \in Conns : conn'[c] = request'[q].key} = {}
  BY <1>3
<1>5. QED
  BY <1>1, <1>2, <1>4 DEF Unshared, Named

\* Names are unique as long as nobody gives one twice and imports do not
\* overlap: one report's imports share their connection.
THEOREM ImportsFindTheirConnection ==
  WatchedSpec => []ImportsShareConnections
<1>1. WatchedInit => disturbed \/ Unshared
  BY DEF WatchedInit, LibraryInit, Unshared, Making, Idle
<1>2. LibraryCore /\ (disturbed \/ Unshared) /\ [WatchedNext]_watchedVars =>
        (disturbed \/ Unshared)'
  <2>1. ASSUME disturbed \/ Unshared, UNCHANGED watchedVars
        PROVE  (disturbed \/ Unshared)'
    BY <2>1 DEF Unshared, Making, Named, watchedVars, libraryVars, tables
  <2>2. ASSUME LibraryCore, disturbed \/ Unshared, WatchedNext
        PROVE  (disturbed \/ Unshared)'
    <3>1. CASE disturbed
      BY <2>2, <3>1 DEF WatchedNext, Watch
    <3>2. CASE Unshared
      BY <2>2, <3>2, UnsharedNext
    <3>3. QED
      BY <2>2, <3>1, <3>2
  <2>3. QED
    BY <2>1, <2>2
<1>3. disturbed \/ Unshared => ImportsShareConnections
  <2> SUFFICES ASSUME Unshared, NEW n \in Names
               PROVE  Cardinality(Named(n)) <= 1
    BY DEF ImportsShareConnections
  <2>1. Named(n) = {} \/ \E c \in Conns : Named(n) = {c}
    BY LibraryAssumption DEF Named, Unshared
  <2>2. QED
    BY <2>1, FS_EmptySet, FS_Singleton
<1>4. QED
  BY <1>1, <1>2, <1>3, LibraryCoreWatched, PTL DEF WatchedSpec

-----------------------------------------------------------------------------
(* The site.                                                                *)

\* The tables and what is shown or built of them are well-formed in every state
\* of the site, however its parts' steps follow one another.
THEOREM SiteTypeSafe == SiteSpec => []SiteTypeOK
<1>1. Spec => []TypeOK
  BY PortalTypeSafe
<1>2. WatchedSpec => []LibraryTypeOK
  <2>1. LibraryCore => LibraryTypeOK
    BY DEF LibraryCore
  <2>2. QED
    BY <2>1, LibraryCoreWatched, PTL
<1>3. KeysSpec => []KeysTypeOK
  BY ApiKeysTypeSafe
<1>4. RenderingSpec => []RenderingTypeOK
  BY RenderingTypeSafe
<1>5. BuilderSpec => []BuilderTypeOK
  BY BuilderTypeSafe
<1>6. TypeOK /\ LibraryTypeOK /\ KeysTypeOK /\ RenderingTypeOK /\ BuilderTypeOK => SiteTypeOK
  BY DEF SiteTypeOK
<1>7. QED
  BY <1>1, <1>2, <1>3, <1>4, <1>5, <1>6, PTL DEF SiteSpec
=============================================================================
