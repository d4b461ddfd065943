----------------------------- MODULE Deliveries -----------------------------
(***************************************************************************)
(* How a schedule's delivery settings reach its recipients.  They are kept *)
(* twice: in the schedules row (config), which the routes edit, and in the *)
(* deliveries and delivery_recipients rows, which executions read.  Every  *)
(* create and update rebuilds the second from the first by deleting and    *)
(* recreating rows (sync_schedule_deliveries) while other requests do the  *)
(* same and an execution reads.                                            *)
(*                                                                         *)
(* What PostgreSQL and the ORM contribute: READ COMMITTED; the first query *)
(* of a request flushes an UPDATE of the schedules row if, and only if, a  *)
(* column differs from what was loaded, writes those columns alone and     *)
(* holds the row to the end of the transaction; a DELETE waits for a       *)
(* transaction that has deleted the same rows and then skips them; the     *)
(* INSERT of a delivery needs its schedule.                                *)
(***************************************************************************)
EXTENDS Naturals, FiniteSets

CONSTANTS Reqs,         \* the requests
          Origin,       \* the request that created the schedule there is at first
          Configs,      \* delivery settings (type, config and recipients)
          Email,        \* those of type email, with at least one address
          PortalOnly,   \* those of no valid type: nothing is to be delivered
          NoConfig,     \* the settings of a schedule that does not exist
          Nobody        \* the holder of a free row

ASSUME ReqsAssumption == Origin \notin Reqs /\ Nobody \notin Reqs
ASSUME ConfigsAssumption ==
    /\ Email \subseteq Configs /\ PortalOnly \subseteq Configs
    /\ Email \cap PortalOnly = {}
    /\ NoConfig \notin Configs

VARIABLES
    stage,      \* the schedule: "unborn", "live" or "deleted"
    config,     \* its settings, as committed
    deliveries, \* the rows of deliveries; each is named by the request that made it
    recipients, \* the deliveries that have rows in delivery_recipients
    rowLock,    \* the request whose open transaction updated the schedules row
    pc,         \* where each request stands
    seen,       \* the settings its session loaded
    want,       \* the settings its session holds now
    found,      \* the deliveries it found, and is to delete
    outcome,    \* what the client was told
    audited,    \* whether audit_log refers to the schedule
    run,        \* where the execution stands: "idle", "loaded" or "ready"
    batch,      \* the deliveries it loaded
    addressed   \* those of them it has recipients for

tables == <<stage, config, deliveries, recipients>>
session == <<seen, want, found>>
execution == <<audited, run, batch, addressed>>
vars == <<tables, rowLock, pc, session, outcome, execution>>

Row == [id : Reqs \cup {Origin}, cfg : Configs]
Steps == {"idle", "refresh", "flush", "find", "delete", "insert", "done"}

Ids(D) == {d.id : d \in D}

\* The row that settings c call for, made by r.
Rows(r, c) == IF c \in PortalOnly THEN {} ELSE {[id |-> r, cfg |-> c]}
Addressed(D) == {d.id : d \in {e \in D : e.cfg \in Email}}

-----------------------------------------------------------------------------

\* There is no schedule yet, or one that was created a while ago.
Init ==
    /\ \/ stage = "unborn" /\ config = NoConfig /\ deliveries = {}
       \/ /\ stage = "live"
          /\ config \in Configs
          /\ deliveries = Rows(Origin, config)
    /\ recipients = Addressed(deliveries)
    /\ rowLock = Nobody
    /\ pc = [r \in Reqs |-> "idle"]
    /\ seen = [r \in Reqs |-> NoConfig]
    /\ want = [r \in Reqs |-> NoConfig]
    /\ found = [r \in Reqs |-> {}]
    /\ outcome = [r \in Reqs |-> "none"]
    /\ audited = FALSE
    /\ run = "idle"
    /\ batch = {}
    /\ addressed = {}

Goto(r, step) == pc' = [pc EXCEPT ![r] = step]

Answer(r, result) ==
    /\ Goto(r, "done")
    /\ outcome' = [outcome EXCEPT ![r] = result]

Released(r) == IF rowLock = r THEN Nobody ELSE rowLock

-----------------------------------------------------------------------------
(* The routes.                                                             *)

\* create_schedule commits the schedule, and then loads it again.
CreateSchedule(r, c) ==
    /\ pc[r] = "idle"
    /\ stage = "unborn"
    /\ stage' = "live"
    /\ config' = c
    /\ Goto(r, "refresh")
    /\ UNCHANGED <<deliveries, recipients, rowLock, session, outcome, execution>>

Refresh(r) ==
    /\ pc[r] = "refresh"
    /\ \/ /\ stage = "live"
          /\ seen' = [seen EXCEPT ![r] = config]
          /\ want' = [want EXCEPT ![r] = config]
          /\ Goto(r, "find")
          /\ UNCHANGED outcome
       \/ /\ stage # "live"
          /\ Answer(r, "error")
          /\ UNCHANGED <<seen, want>>
    /\ UNCHANGED <<tables, rowLock, found, execution>>

\* Mutant: the changed schedule is written when the request commits.
OpenUpdate_NoAutoflush(r, c, otherwise) ==
    /\ pc[r] = "idle"
    /\ stage = "live"
    /\ seen' = [seen EXCEPT ![r] = config]
    /\ want' = [want EXCEPT ![r] = c]
    /\ Goto(r, "find")
    /\ UNCHANGED <<tables, rowLock, found, outcome, execution>>

\* update_schedule loads the schedule and assigns what the form holds: other
\* settings, or (c = config) the same ones or none; and perhaps (otherwise) a
\* new name, trigger, format, owner or is_active.
OpenUpdate(r, c, otherwise) ==
    /\ pc[r] = "idle"
    /\ stage = "live"
    /\ seen' = [seen EXCEPT ![r] = config]
    /\ want' = [want EXCEPT ![r] = c]
    /\ Goto(r, IF otherwise \/ c # config THEN "flush" ELSE "find")
    /\ UNCHANGED <<tables, rowLock, found, outcome, execution>>

\* The autoflush: the UPDATE waits for the row, which may be gone by then.
FlushUpdate(r) ==
    /\ pc[r] = "flush"
    /\ rowLock = Nobody
    /\ \/ /\ stage = "live"
          /\ rowLock' = r
          /\ Goto(r, "find")
          /\ UNCHANGED outcome
       \/ /\ stage # "live"
          /\ Answer(r, "error")
          /\ UNCHANGED rowLock
    /\ UNCHANGED <<tables, session, execution>>

\* Mutant: no row is found, so none is deleted.
FindDeliveries_None(r) ==
    /\ pc[r] = "find"
    /\ Goto(r, "delete")
    /\ UNCHANGED <<tables, rowLock, session, outcome, execution>>

FindDeliveries(r) ==
    /\ pc[r] = "find"
    /\ found' = [found EXCEPT ![r] = Ids(deliveries)]
    /\ Goto(r, "delete")
    /\ UNCHANGED <<tables, rowLock, seen, want, outcome, execution>>

\* The rows another open transaction has deleted.
Deleting(q) == IF pc[q] = "insert" THEN found[q] ELSE {}

\* Mutant: the deleted rows stay locked by a request that has ended.
DeleteRows_Leaking(r) ==
    /\ pc[r] = "delete"
    /\ \A q \in Reqs \ {r} : found[q] \cap found[r] = {}
    /\ Goto(r, "insert")
    /\ UNCHANGED <<tables, rowLock, session, outcome, execution>>

\* DELETE of the recipients and of the deliveries found, by id.
DeleteRows(r) ==
    /\ pc[r] = "delete"
    /\ \A q \in Reqs \ {r} : Deleting(q) \cap found[r] = {}
    /\ Goto(r, "insert")
    /\ UNCHANGED <<tables, rowLock, session, outcome, execution>>

\* The tables after r has rebuilt the rows from the settings its session holds.
RebuiltDeliveries(r) ==
    {d \in deliveries : d.id \notin found[r]} \cup Rows(r, want[r])

\* Mutant: the recipients are added after the commit, and so never written.
CommitRebuild_NoRecipients(r) ==
    /\ pc[r] = "insert"
    /\ stage = "live"
    /\ deliveries' = RebuiltDeliveries(r)
    /\ recipients' = recipients \ found[r]
    /\ config' = IF want[r] # seen[r] THEN want[r] ELSE config
    /\ rowLock' = Released(r)
    /\ Answer(r, "ok")
    /\ UNCHANGED <<stage, session, execution>>

\* INSERT of the delivery and its recipients, and the commit of everything.
CommitRebuild(r) ==
    /\ pc[r] = "insert"
    /\ stage = "live"
    /\ deliveries' = RebuiltDeliveries(r)
    /\ recipients' = (recipients \ found[r]) \cup Addressed(Rows(r, want[r]))
    /\ config' = IF want[r] # seen[r] THEN want[r] ELSE config
    /\ rowLock' = Released(r)
    /\ Answer(r, "ok")
    /\ UNCHANGED <<stage, session, execution>>

\* The schedule was deleted meanwhile.  If there is a row to insert that is an
\* IntegrityError; if there is none the request ends well.
RebuildOrphan(r) ==
    /\ pc[r] = "insert"
    /\ stage # "live"
    /\ Answer(r, IF Rows(r, want[r]) = {} THEN "ok" ELSE "error")
    /\ UNCHANGED <<tables, rowLock, session, execution>>

\* delete_schedule: the rows of deliveries go by cascade.  It fails once
\* audit_log refers to the schedule, and waits for whoever holds any of them.
DeleteSchedule ==
    /\ stage = "live"
    /\ ~audited
    /\ rowLock = Nobody
    /\ \A r \in Reqs : Deleting(r) \cap Ids(deliveries) = {}
    /\ stage' = "deleted"
    /\ config' = NoConfig
    /\ deliveries' = {}
    /\ recipients' = {}
    /\ UNCHANGED <<rowLock, pc, session, outcome, execution>>

-----------------------------------------------------------------------------
(* An execution, once it has stored its output: _deliver_scheduled.        *)

\* select the active deliveries.  By then audit_log refers to the schedule.
LoadDeliveries ==
    /\ run = "idle"
    /\ stage = "live"
    /\ audited' = TRUE
    /\ batch' = deliveries
    /\ run' = IF deliveries = {} THEN "idle" ELSE "loaded"
    /\ UNCHANGED <<tables, rowLock, pc, session, outcome, addressed>>

\* Mutant: the recipients of every delivery there is.
LoadRecipients_All ==
    /\ run = "loaded"
    /\ addressed' = recipients
    /\ run' = "ready"
    /\ UNCHANGED <<tables, rowLock, pc, session, outcome, audited, batch>>

\* Mutant: the recipients of one delivery, as if a schedule had no other.
LoadRecipients_First ==
    /\ run = "loaded"
    /\ \E d \in batch : addressed' = recipients \cap {d.id}
    /\ run' = "ready"
    /\ UNCHANGED <<tables, rowLock, pc, session, outcome, audited, batch>>

\* select their recipients, by delivery id.
LoadRecipients ==
    /\ run = "loaded"
    /\ addressed' = recipients \cap Ids(batch)
    /\ run' = "ready"
    /\ UNCHANGED <<tables, rowLock, pc, session, outcome, audited, batch>>

\* deliver_report passes over an email delivery without recipients.
Sent == {d \in batch : d.cfg \in Email => d.id \in addressed}

Deliver ==
    /\ run = "ready"
    /\ run' = "idle"
    /\ batch' = {}
    /\ addressed' = {}
    /\ UNCHANGED <<tables, rowLock, pc, session, outcome, audited>>

InFlight(r) == pc[r] \notin {"idle", "done"}

\* The process dies: what is not committed is undone, what is being sent ends.
Crash ==
    /\ run # "idle" \/ \E r \in Reqs : InFlight(r)
    /\ rowLock' = Nobody
    /\ pc' = [r \in Reqs |-> IF InFlight(r) THEN "done" ELSE pc[r]]
    /\ outcome' = [r \in Reqs |-> IF InFlight(r) THEN "lost" ELSE outcome[r]]
    /\ run' = "idle"
    /\ batch' = {}
    /\ addressed' = {}
    /\ UNCHANGED <<tables, session, audited>>

-----------------------------------------------------------------------------

Step(r) ==
    \/ Refresh(r)
    \/ FlushUpdate(r)
    \/ FindDeliveries(r)
    \/ DeleteRows(r)
    \/ CommitRebuild(r)
    \/ RebuildOrphan(r)

Arrive(r) ==
    \/ \E c \in Configs : CreateSchedule(r, c)
    \/ \E c \in Configs, otherwise \in BOOLEAN : OpenUpdate(r, c, otherwise)

Next ==
    \/ \E r \in Reqs : Arrive(r) \/ Step(r)
    \/ DeleteSchedule
    \/ LoadDeliveries
    \/ LoadRecipients
    \/ Deliver
    \/ Crash

\* What has started keeps being scheduled.
Fairness ==
    /\ \A r \in Reqs : WF_vars(Step(r))
    /\ WF_vars(LoadRecipients \/ Deliver)

Spec == Init /\ [][Next]_vars /\ Fairness

-----------------------------------------------------------------------------
(* Properties.                                                             *)

\* Every variable keeps its type.
TypeOK ==
    /\ stage \in {"unborn", "live", "deleted"}
    /\ config \in Configs \cup {NoConfig}
    /\ (stage = "live") <=> (config \in Configs)
    /\ deliveries \subseteq Row
    /\ recipients \subseteq Reqs \cup {Origin}
    /\ rowLock \in Reqs \cup {Nobody}
    /\ pc \in [Reqs -> Steps]
    /\ seen \in [Reqs -> Configs \cup {NoConfig}]
    /\ want \in [Reqs -> Configs \cup {NoConfig}]
    /\ found \in [Reqs -> SUBSET (Reqs \cup {Origin})]
    /\ outcome \in [Reqs -> {"none", "ok", "error", "lost"}]
    /\ audited \in BOOLEAN
    /\ run \in {"idle", "loaded", "ready"}
    /\ batch \subseteq Row
    /\ addressed \subseteq Ids(batch)

\* Nobody ever sees half of a rebuild: wherever requests interleave or the
\* server dies, the deliveries with recipients are exactly those by email.
NeverHalfBuilt == recipients = Addressed(deliveries)

\* The execution passes over an email delivery it loaded only if that very row
\* has been deleted since: the two selects of _deliver_scheduled disagree only
\* across the commit of a rebuild.
PassedOverOnlyIfReplaced ==
    run = "ready" => batch \ Sent \subseteq batch \ deliveries

\* Requests that each change the settings they loaded, as many as there are and
\* however they overlap, leave exactly one row with the last settings: the lock
\* that the autoflush takes makes the rebuilds follow one another.
ChangesReconcile ==
    (\A r \in Reqs : pc[r] # "idle" => want[r] # seen[r])
    /\ stage = "live" /\ (\A r \in Reqs : ~InFlight(r)) =>
        \E r \in Reqs \cup {Origin} : deliveries = Rows(r, config)

\* Every request that has started is answered, or lost in a crash.
RequestsAnswered == \A r \in Reqs : InFlight(r) ~> ~InFlight(r)

\* "This rebuilds them from the schedule's fields (delete + recreate, so
\* updates reconcile without duplicating)" (config.py:81-82): when a schedule
\* was there from the start, no request is under way and none was cut off, it
\* has exactly the row its settings call for.
DeliveriesMirrorSchedule ==
    stage = "live" /\ (\A r \in Reqs : pc[r] = "idle" \/ outcome[r] = "ok") =>
        \E r \in Reqs \cup {Origin} : deliveries = Rows(r, config)

\* "Loads active deliveries for this schedule plus their recipients [...]
\* Reports with no delivery config (portal-only schedules) are simply not
\* delivered" (engine.py:265-267): the execution passes over none it loaded.
ConfiguredReportIsDelivered == run = "ready" => Sent = batch
=============================================================================
