-------------------------- MODULE DeliveriesProofs --------------------------
(***************************************************************************)
(* What Deliveries promises for any requests and settings.  A row is made  *)
(* once, by a request that is then over (RowsAreFinal), so that a row that *)
(* an execution has loaded and that is deleted never comes back.  And as   *)
(* long as every update changes the settings, rebuilding is the privilege  *)
(* of whoever holds the schedules row (HolderRebuilds).                    *)
(***************************************************************************)
EXTENDS MCDeliveries, FiniteSetTheorems, TLAPS

\* A request past its first step has settings to write.
HasSettings ==
    \A r \in Reqs : pc[r] \in {"flush", "find", "delete", "insert"} => want[r] \in Configs

\* Whoever made a row is done.
RowsAreFinal ==
    \A r \in Reqs : \A d \in deliveries \cup batch : d.id = r => pc[r] = "done"

\* Recipients are loaded once, and forgotten when the execution is over.
LoadedOnce == run # "ready" => addressed = {}

Core ==
    /\ TypeOK
    /\ LoadedOnce
    /\ HasSettings
    /\ RowsAreFinal
    /\ NeverHalfBuilt
    /\ PassedOverOnlyIfReplaced

LEMMA RowsType ==
    ASSUME NEW r \in Reqs \cup {Origin}, NEW c \in Configs
    PROVE  /\ Rows(r, c) \subseteq Row
           /\ \A d \in Rows(r, c) : d.id = r
BY DEF Rows, Row

LEMMA AddressedType ==
    ASSUME NEW D \in SUBSET Row
    PROVE  /\ Ids(D) \subseteq Reqs \cup {Origin}
           /\ Addressed(D) \subseteq Reqs \cup {Origin}
BY DEF Ids, Addressed, Row

LEMMA CoreInit == Init => Core
<1> SUFFICES ASSUME Init PROVE Core
    OBVIOUS
<1>1. /\ deliveries \subseteq Row
      /\ \A d \in deliveries : d.id = Origin
    BY RowsType DEF Init
<1>2. TypeOK
    <2>1. recipients \subseteq Reqs \cup {Origin}
        BY <1>1, AddressedType DEF Init
    <2>2. stage = "live" <=> config \in Configs
        BY ConfigsAssumption DEF Init
    <2> QED
        BY <1>1, <2>1, <2>2 DEF Init, TypeOK, Steps, Ids
<1>3. HasSettings /\ LoadedOnce /\ NeverHalfBuilt /\ PassedOverOnlyIfReplaced
    BY DEF Init, HasSettings, LoadedOnce, NeverHalfBuilt, PassedOverOnlyIfReplaced
<1>4. RowsAreFinal
    BY <1>1, ReqsAssumption DEF Init, RowsAreFinal
<1> QED
    BY <1>2, <1>3, <1>4 DEF Core

\* Steps that leave the tables and the execution alone.
LEMMA RequestKeeps ==
    ASSUME Core, NEW r \in Reqs,
           pc[r] # "done", \A q \in Reqs : pc[q] = "done" => pc'[q] = "done",
           TypeOK', HasSettings',
           UNCHANGED <<stage, config, deliveries, recipients, run, batch, addressed>>
    PROVE  Core'
BY DEF Core, LoadedOnce, RowsAreFinal, NeverHalfBuilt, PassedOverOnlyIfReplaced, Sent

LEMMA CoreNext == Core /\ [Next]_vars => Core'
<1> SUFFICES ASSUME Core, [Next]_vars PROVE Core'
    OBVIOUS
<1>t. TypeOK /\ HasSettings
    BY DEF Core
<1> USE DEF tables, session, execution, Goto, Answer
<1>1. ASSUME NEW r \in Reqs, NEW c \in Configs, CreateSchedule(r, c) PROVE Core'
    <2>1. TypeOK'
        BY <1>t, <1>1 DEF CreateSchedule, TypeOK, Steps
    <2>2. HasSettings'
        BY <1>t, <1>1 DEF CreateSchedule, TypeOK, HasSettings
    <2>3. RowsAreFinal' /\ LoadedOnce' /\ NeverHalfBuilt' /\ PassedOverOnlyIfReplaced'
        BY <1>t, <1>1 DEF CreateSchedule, Core, TypeOK, LoadedOnce, RowsAreFinal, NeverHalfBuilt,
                          PassedOverOnlyIfReplaced, Sent
    <2> QED
        BY <2>1, <2>2, <2>3 DEF Core
<1>2. ASSUME NEW r \in Reqs, NEW c \in Configs, NEW otherwise \in BOOLEAN,
             OpenUpdate(r, c, otherwise) PROVE Core'
    <2>1. TypeOK'
        BY <1>t, <1>2 DEF OpenUpdate, TypeOK, Steps
    <2>2. HasSettings'
        BY <1>t, <1>2 DEF OpenUpdate, TypeOK, HasSettings
    <2> QED
        BY <1>t, <1>2, <2>1, <2>2, RequestKeeps DEF OpenUpdate, TypeOK
<1>3. ASSUME NEW r \in Reqs, Refresh(r) PROVE Core'
    <2>1. TypeOK'
        BY <1>t, <1>3 DEF Refresh, TypeOK, Steps
    <2>2. HasSettings'
        BY <1>t, <1>3 DEF Refresh, TypeOK, HasSettings
    <2> QED
        BY <1>t, <1>3, <2>1, <2>2, RequestKeeps DEF Refresh, TypeOK
<1>4. ASSUME NEW r \in Reqs, FlushUpdate(r) PROVE Core'
    <2>1. TypeOK'
        BY <1>t, <1>4 DEF FlushUpdate, TypeOK, Steps
    <2>2. HasSettings'
        BY <1>t, <1>4 DEF FlushUpdate, TypeOK, HasSettings
    <2> QED
        BY <1>t, <1>4, <2>1, <2>2, RequestKeeps DEF FlushUpdate, TypeOK
<1>5. ASSUME NEW r \in Reqs, FindDeliveries(r) PROVE Core'
    <2>1. TypeOK'
        BY <1>t, <1>5, AddressedType DEF FindDeliveries, TypeOK, Steps
    <2>2. HasSettings'
        BY <1>t, <1>5 DEF FindDeliveries, TypeOK, HasSettings
    <2> QED
        BY <1>t, <1>5, <2>1, <2>2, RequestKeeps DEF FindDeliveries, TypeOK
<1>6. ASSUME NEW r \in Reqs, DeleteRows(r) PROVE Core'
    <2>1. TypeOK'
        BY <1>t, <1>6 DEF DeleteRows, TypeOK, Steps
    <2>2. HasSettings'
        BY <1>t, <1>6 DEF DeleteRows, TypeOK, HasSettings
    <2> QED
        BY <1>t, <1>6, <2>1, <2>2, RequestKeeps DEF DeleteRows, TypeOK
<1>7. ASSUME NEW r \in Reqs, RebuildOrphan(r) PROVE Core'
    <2>1. TypeOK'
        BY <1>t, <1>7 DEF RebuildOrphan, TypeOK, Steps
    <2>2. HasSettings'
        BY <1>t, <1>7 DEF RebuildOrphan, TypeOK, HasSettings
    <2> QED
        BY <1>t, <1>7, <2>1, <2>2, RequestKeeps DEF RebuildOrphan, TypeOK
<1>8. ASSUME NEW r \in Reqs, CommitRebuild(r) PROVE Core'
    <2> DEFINE new == Rows(r, want[r])
    <2>1. /\ want[r] \in Configs
          /\ new \subseteq Row
          /\ \A d \in new : d.id = r
        BY <1>t, <1>8, RowsType DEF HasSettings, CommitRebuild
    <2>2. /\ deliveries' = {d \in deliveries : d.id \notin found[r]} \cup new
          /\ recipients' = (recipients \ found[r]) \cup Addressed(new)
          /\ UNCHANGED <<batch, run, addressed>>
        BY <1>8 DEF CommitRebuild, RebuiltDeliveries
    <2> HIDE DEF new
    <2>3. TypeOK'
        <3>1. Addressed(new) \subseteq Reqs \cup {Origin}
            BY <2>1, AddressedType
        <3> QED
            BY <1>t, <1>8, <2>1, <2>2, <3>1 DEF CommitRebuild, TypeOK, Steps, Released
    <2>4. HasSettings' /\ LoadedOnce'
        BY <1>t, <1>8, <2>2 DEF CommitRebuild, Core, TypeOK, HasSettings, LoadedOnce
    <2>5. RowsAreFinal'
        BY <1>t, <1>8, <2>1, <2>2 DEF CommitRebuild, Core, TypeOK, RowsAreFinal
    <2>6. NeverHalfBuilt'
        <3>1. Addressed({d \in deliveries : d.id \notin found[r]} \cup new)
                = (Addressed(deliveries) \ found[r]) \cup Addressed(new)
            BY DEF Addressed
        <3> QED
            BY <2>2, <3>1 DEF Core, NeverHalfBuilt
    <2>7. PassedOverOnlyIfReplaced'
        <3>1. \A d \in batch : d \notin new
            BY <1>8, <2>1 DEF CommitRebuild, Core, RowsAreFinal
        <3> QED
            BY <2>2, <3>1 DEF Core, PassedOverOnlyIfReplaced, Sent
    <2> QED
        BY <2>3, <2>4, <2>5, <2>6, <2>7 DEF Core
<1>9. CASE DeleteSchedule
    <2>1. TypeOK'
        BY <1>t, <1>9, ConfigsAssumption DEF DeleteSchedule, TypeOK
    <2>2. HasSettings' /\ LoadedOnce' /\ RowsAreFinal'
        BY <1>9 DEF DeleteSchedule, Core, HasSettings, LoadedOnce, RowsAreFinal
    <2>3. NeverHalfBuilt' /\ PassedOverOnlyIfReplaced'
        BY <1>9 DEF DeleteSchedule, Core, NeverHalfBuilt, Addressed,
                    PassedOverOnlyIfReplaced, Sent
    <2> QED
        BY <2>1, <2>2, <2>3 DEF Core
<1>10. CASE LoadDeliveries
    <2>1. TypeOK'
        BY <1>t, <1>10 DEF LoadDeliveries, Core, LoadedOnce, TypeOK, Ids
    <2>2. HasSettings' /\ LoadedOnce' /\ RowsAreFinal' /\ NeverHalfBuilt'
        BY <1>10 DEF LoadDeliveries, Core, HasSettings, LoadedOnce, RowsAreFinal, NeverHalfBuilt
    <2>3. PassedOverOnlyIfReplaced'
        BY <1>10 DEF LoadDeliveries, PassedOverOnlyIfReplaced
    <2> QED
        BY <2>1, <2>2, <2>3 DEF Core
<1>11. CASE LoadRecipients
    <2>1. TypeOK'
        BY <1>t, <1>11 DEF LoadRecipients, TypeOK, Ids
    <2>2. HasSettings' /\ LoadedOnce' /\ RowsAreFinal' /\ NeverHalfBuilt'
        BY <1>11 DEF LoadRecipients, Core, HasSettings, LoadedOnce, RowsAreFinal, NeverHalfBuilt
    <2>3. ASSUME NEW d \in batch, d \in deliveries, d.cfg \in Email
          PROVE  d.id \in addressed'
        BY <1>11, <2>3 DEF LoadRecipients, Core, NeverHalfBuilt, Addressed, Ids
    <2>4. PassedOverOnlyIfReplaced'
        BY <1>11, <2>3 DEF LoadRecipients, PassedOverOnlyIfReplaced, Sent
    <2> QED
        BY <2>1, <2>2, <2>4 DEF Core
<1>12. CASE Deliver
    <2>1. TypeOK'
        BY <1>t, <1>12 DEF Deliver, TypeOK, Ids
    <2>2. HasSettings' /\ LoadedOnce' /\ RowsAreFinal' /\ NeverHalfBuilt' /\ PassedOverOnlyIfReplaced'
        BY <1>12 DEF Deliver, Core, HasSettings, LoadedOnce, RowsAreFinal, NeverHalfBuilt,
                     PassedOverOnlyIfReplaced
    <2> QED
        BY <2>1, <2>2 DEF Core
<1>13. CASE Crash
    <2>1. TypeOK'
        BY <1>t, <1>13 DEF Crash, TypeOK, Steps, Ids
    <2>2. HasSettings' /\ LoadedOnce' /\ RowsAreFinal' /\ NeverHalfBuilt' /\ PassedOverOnlyIfReplaced'
        BY <1>13 DEF Crash, InFlight, Core, HasSettings, LoadedOnce, RowsAreFinal, NeverHalfBuilt,
                     PassedOverOnlyIfReplaced
    <2> QED
        BY <2>1, <2>2 DEF Core
<1>14. CASE UNCHANGED vars
    BY <1>14 DEF vars, Core, TypeOK, HasSettings, LoadedOnce, RowsAreFinal, NeverHalfBuilt,
                 PassedOverOnlyIfReplaced, Sent, Ids
<1> QED
    BY <1>1, <1>2, <1>3, <1>4, <1>5, <1>6, <1>7, <1>8, <1>9, <1>10, <1>11, <1>12,
       <1>13, <1>14 DEF Next, Arrive, Step

LEMMA CoreAlways == Spec => []Core
BY CoreInit, CoreNext, PTL DEF Spec

-----------------------------------------------------------------------------
(* Requests that change the settings.                                      *)

AllChange == \A r \in Reqs : pc[r] # "idle" => want[r] # seen[r]

\* A session has nothing to write before its first read of the schedule.
NothingYet == \A r \in Reqs : pc[r] \in {"idle", "refresh"} => want[r] = seen[r]

\* Whoever rebuilds holds the schedules row, so that the rows it found are
\* still the rows there are, and there is one row for the settings.
HolderRebuilds ==
    AllChange =>
        /\ \A r \in Reqs : pc[r] \in {"find", "delete", "insert"} => rowLock = r
        /\ \A r \in Reqs :
               pc[r] \in {"delete", "insert"} /\ stage = "live" =>
                   found[r] = Ids(deliveries)
        /\ stage = "live" => \E r \in Reqs \cup {Origin} : deliveries = Rows(r, config)

\* Replacing all the rows leaves the new ones.
LEMMA ReplaceAll ==
    ASSUME NEW r \in Reqs, found[r] = Ids(deliveries)
    PROVE  RebuiltDeliveries(r) = Rows(r, want[r])
BY DEF RebuiltDeliveries, Ids

LEMMA HolderInit == Init => NothingYet /\ HolderRebuilds
<1> SUFFICES ASSUME Init PROVE NothingYet /\ HolderRebuilds
    OBVIOUS
<1>1. \A r \in Reqs : pc[r] = "idle"
    BY DEF Init
<1>2. stage = "live" => deliveries = Rows(Origin, config)
    BY DEF Init
<1>3. NothingYet
    BY DEF Init, NothingYet
<1> QED
    BY <1>1, <1>2, <1>3 DEF HolderRebuilds

LEMMA NothingYetNext == TypeOK /\ NothingYet /\ [Next]_vars => NothingYet'
<1> SUFFICES ASSUME TypeOK, NothingYet, [Next]_vars,
                    NEW q \in Reqs, pc'[q] \in {"idle", "refresh"}
             PROVE  want'[q] = seen'[q]
    BY DEF NothingYet
<1>1. want[q] = seen[q] => want'[q] = seen'[q]
    BY DEF Next, Arrive, Step, CreateSchedule, OpenUpdate, Refresh, FlushUpdate,
           FindDeliveries, DeleteRows, CommitRebuild, RebuildOrphan, DeleteSchedule,
           LoadDeliveries, LoadRecipients, Deliver, Crash, vars, TypeOK, tables,
           session, execution, Goto, Answer
<1>2. pc[q] \in {"idle", "refresh"}
    BY DEF Next, Arrive, Step, CreateSchedule, OpenUpdate, Refresh, FlushUpdate,
           FindDeliveries, DeleteRows, CommitRebuild, RebuildOrphan, DeleteSchedule,
           LoadDeliveries, LoadRecipients, Deliver, Crash, InFlight, vars, TypeOK,
           tables, session, execution, Goto, Answer
<1> QED
    BY <1>1, <1>2 DEF NothingYet

\* A request that did not change the settings never starts to.
LEMMA ChangersOnly ==
    ASSUME TypeOK, [Next]_vars, AllChange' PROVE AllChange
<1> SUFFICES ASSUME NEW q \in Reqs, pc[q] # "idle" PROVE want[q] # seen[q]
    BY DEF AllChange
<1> USE DEF tables, session, execution, Goto, Answer
<1>1. CASE \E r \in Reqs : Arrive(r)
    <2>1. PICK r \in Reqs : Arrive(r)
        BY <1>1
    <2>2. r # q
        BY <2>1 DEF Arrive, CreateSchedule, OpenUpdate
    <2>3. want'[q] = want[q] /\ seen'[q] = seen[q] /\ pc'[q] = pc[q]
        BY <2>1, <2>2 DEF Arrive, CreateSchedule, OpenUpdate, TypeOK
    <2> QED
        BY <2>3 DEF AllChange
<1>2. CASE \E r \in Reqs : Step(r)
    <2>1. PICK r \in Reqs : Step(r)
        BY <1>2
    <2>2. pc'[q] # "idle"
        BY <2>1 DEF Step, Refresh, FlushUpdate, FindDeliveries, DeleteRows,
                    CommitRebuild, RebuildOrphan, TypeOK
    <2>3. want'[q] # seen'[q]
        BY <2>2 DEF AllChange
    <2>4. CASE Refresh(r)
        BY <2>3, <2>4 DEF Refresh, TypeOK
    <2>5. CASE ~Refresh(r)
        BY <2>1, <2>3, <2>5 DEF Step, FlushUpdate, FindDeliveries, DeleteRows,
                                CommitRebuild, RebuildOrphan
    <2> QED
        BY <2>4, <2>5
<1>3. CASE DeleteSchedule \/ LoadDeliveries \/ LoadRecipients \/ Deliver
           \/ UNCHANGED vars
    BY <1>3 DEF DeleteSchedule, LoadDeliveries, LoadRecipients, Deliver, vars, AllChange
<1>4. CASE Crash
    BY <1>4 DEF Crash, InFlight, AllChange
<1> QED
    BY <1>1, <1>2, <1>3, <1>4 DEF Next

LEMMA HolderNext == TypeOK /\ NothingYet /\ HolderRebuilds /\ [Next]_vars => HolderRebuilds'
<1> SUFFICES ASSUME TypeOK, NothingYet, HolderRebuilds, [Next]_vars, AllChange'
             PROVE  /\ \A r \in Reqs :
                           pc'[r] \in {"find", "delete", "insert"} => rowLock' = r
                    /\ \A r \in Reqs :
                           pc'[r] \in {"delete", "insert"} /\ stage' = "live" =>
                               found'[r] = Ids(deliveries')
                    /\ stage' = "live" =>
                           \E r \in Reqs \cup {Origin} : deliveries' = Rows(r, config')
    BY DEF HolderRebuilds, Ids, Rows
<1>1. AllChange
    BY ChangersOnly
<1>2. \A r \in Reqs : pc[r] \in {"find", "delete", "insert"} => rowLock = r
    BY <1>1 DEF HolderRebuilds
<1>3. \A r \in Reqs :
          pc[r] \in {"delete", "insert"} /\ stage = "live" => found[r] = Ids(deliveries)
    BY <1>1 DEF HolderRebuilds
<1>4. stage = "live" => \E r \in Reqs \cup {Origin} : deliveries = Rows(r, config)
    BY <1>1 DEF HolderRebuilds
<1> USE DEF tables, session, execution, Goto, Answer
<1>5. ASSUME NEW r \in Reqs, NEW c \in Configs, CreateSchedule(r, c) PROVE FALSE
    <2>1. want'[r] = seen'[r] /\ pc'[r] = "refresh"
        BY <1>5 DEF CreateSchedule, TypeOK, NothingYet
    <2> QED
        BY <2>1 DEF AllChange
<1>6. ASSUME NEW r \in Reqs, NEW c \in Configs, NEW otherwise \in BOOLEAN,
             OpenUpdate(r, c, otherwise)
      PROVE  pc'[r] = "flush" /\ UNCHANGED <<stage, config, deliveries, rowLock, found>>
    <2>1. want'[r] = c /\ seen'[r] = config /\ pc'[r] # "idle"
        BY <1>6 DEF OpenUpdate, TypeOK
    <2>2. c # config
        BY <2>1 DEF AllChange
    <2> QED
        BY <1>6, <2>2 DEF OpenUpdate, TypeOK
<1>7. ASSUME NEW r \in Reqs, Refresh(r)
      PROVE  pc'[r] = "done" /\ UNCHANGED <<stage, config, deliveries, rowLock, found>>
    <2>1. CASE stage = "live"
        <3>1. want'[r] = seen'[r] /\ pc'[r] = "find"
            BY <1>7, <2>1 DEF Refresh, TypeOK
        <3> QED
            BY <3>1 DEF AllChange
    <2> QED
        BY <1>7, <2>1 DEF Refresh, TypeOK
<1>8. CASE \E r \in Reqs : Arrive(r) \/ Refresh(r)
    <2>1. PICK r \in Reqs : Arrive(r) \/ Refresh(r)
        BY <1>8
    <2>2. /\ pc'[r] \in {"flush", "done"}
          /\ UNCHANGED <<stage, config, deliveries, rowLock, found>>
        BY <1>5, <1>6, <1>7, <2>1 DEF Arrive
    <2>3. \A q \in Reqs \ {r} : pc'[q] = pc[q]
        BY <2>1 DEF Arrive, CreateSchedule, OpenUpdate, Refresh, TypeOK
    <2> QED
        BY <1>2, <1>3, <1>4, <2>2, <2>3
<1>9. CASE \E r \in Reqs : FlushUpdate(r)
    <2>1. PICK r \in Reqs : FlushUpdate(r)
        BY <1>9
    <2>2. \A q \in Reqs : pc[q] \notin {"find", "delete", "insert"}
        BY <1>2, <2>1, ReqsAssumption DEF FlushUpdate
    <2> QED
        BY <1>4, <2>1, <2>2 DEF FlushUpdate, TypeOK
<1>10. CASE \E r \in Reqs : FindDeliveries(r)
    <2>1. PICK r \in Reqs : FindDeliveries(r)
        BY <1>10
    <2> QED
        BY <1>2, <1>3, <1>4, <2>1 DEF FindDeliveries, TypeOK
<1>11. CASE \E r \in Reqs : DeleteRows(r)
    <2>1. PICK r \in Reqs : DeleteRows(r)
        BY <1>11
    <2> QED
        BY <1>2, <1>3, <1>4, <2>1 DEF DeleteRows, TypeOK
<1>12. CASE \E r \in Reqs : CommitRebuild(r)
    <2>1. PICK r \in Reqs : CommitRebuild(r)
        BY <1>12
    <2>2. /\ pc[r] = "insert"
          /\ stage = "live"
          /\ deliveries' = RebuiltDeliveries(r)
          /\ config' = IF want[r] # seen[r] THEN want[r] ELSE config
          /\ pc' = [pc EXCEPT ![r] = "done"]
        BY <2>1 DEF CommitRebuild
    <2>3. \A q \in Reqs : pc'[q] \notin {"find", "delete", "insert"}
        BY <1>2, <2>2 DEF TypeOK
    <2>4. config' = want[r]
        BY <1>1, <2>2 DEF AllChange
    <2>5. deliveries' = Rows(r, want[r])
        BY <1>3, <2>2, ReplaceAll
    <2> QED
        BY <2>3, <2>4, <2>5
<1>13. CASE \E r \in Reqs : RebuildOrphan(r)
    <2>1. PICK r \in Reqs : RebuildOrphan(r)
        BY <1>13
    <2> QED
        BY <1>2, <1>3, <1>4, <2>1 DEF RebuildOrphan, TypeOK
<1>14. CASE DeleteSchedule
    BY <1>2, <1>14 DEF DeleteSchedule
<1>15. CASE LoadDeliveries \/ LoadRecipients \/ Deliver \/ UNCHANGED vars
    BY <1>2, <1>3, <1>4, <1>15 DEF LoadDeliveries, LoadRecipients, Deliver, vars
<1>16. CASE Crash
    BY <1>4, <1>16 DEF Crash, InFlight
<1> QED
    BY <1>8, <1>9, <1>10, <1>11, <1>12, <1>13, <1>14, <1>15, <1>16 DEF Next, Step

-----------------------------------------------------------------------------
(* The theorems.                                                           *)

\* Every variable keeps its type, for any requests and settings.
THEOREM DeliveriesTypeSafe == Spec => []TypeOK
BY CoreAlways, PTL DEF Core

\* Wherever creates, updates and the deletion interleave and the server dies,
\* the deliveries with recipient rows are exactly those by email.
THEOREM RebuildsAreAtomic == Spec => []NeverHalfBuilt
BY CoreAlways, PTL DEF Core

\* An execution passes over an email delivery only if a rebuild has replaced
\* that row between its two selects: a deleted row never comes back.
THEOREM PassedOverMeansReplaced == Spec => []PassedOverOnlyIfReplaced
BY CoreAlways, PTL DEF Core

\* However many updates overlap, if each of them changes the settings it loaded
\* they leave exactly one row, with the settings of the last one.
THEOREM ChangesAlwaysReconcile == Spec => []ChangesReconcile
<1>1. HolderRebuilds => ChangesReconcile
    BY DEF HolderRebuilds, ChangesReconcile, AllChange
<1>2. Core => TypeOK
    BY DEF Core
<1> QED
    BY <1>1, <1>2, CoreAlways, HolderInit, NothingYetNext, HolderNext, PTL DEF Spec

-----------------------------------------------------------------------------
(* Requests that are handled one at a time.                                *)

\* The one request under way knows the settings and the rows there are.
UnderWay(r) ==
    /\ pc[r] # "refresh" => seen[r] = config
    /\ pc[r] \in {"delete", "insert"} => found[r] = Ids(deliveries)

OneAtATime ==
    serial =>
        /\ \A q, r \in Reqs : InFlight(q) /\ InFlight(r) => q = r
        /\ stage = "live" =>
              /\ \A r \in Reqs : InFlight(r) => UnderWay(r)
              /\ \/ \E r \in Reqs : InFlight(r)
                 \/ \E r \in Reqs \cup {Origin} : deliveries = Rows(r, config)

LEMMA OneAtATimeInit == MCInit => OneAtATime
BY DEF MCInit, Init, OneAtATime, InFlight

\* All members of a set with no more than one are equal.
LEMMA AtMostOne ==
    ASSUME NEW S, IsFiniteSet(S), Cardinality(S) <= 1
    PROVE  \A p, q \in S : p = q
<1>1. Cardinality(S) \in Nat
    BY FS_CardinalityType
<1>2. Cardinality(S) = 0 \/ Cardinality(S) = 1
    BY <1>1
<1>3. S = {} \/ \E x : S = {x}
    BY <1>2, FS_EmptySet, FS_Singleton
<1> QED
    BY <1>3

LEMMA OneInFlight ==
    ASSUME OneAtATime, MCNext, serial, serial', NEW r \in Reqs,
           \A q \in Reqs \ {r} : pc'[q] = pc[q]
    PROVE  \A p, q \in Reqs : InFlight(p)' /\ InFlight(q)' => p = q
<1> DEFINE Flying == {q \in Reqs : InFlight(q)'}
<1>1. Cardinality(Flying) <= 1
    BY DEF MCNext
<1>2. IsFiniteSet(Flying)
    <2>1. \A p, q \in Flying \ {r} : p = q
        BY DEF OneAtATime, InFlight
    <2>2. \E s : \A q \in Flying : q = r \/ q = s
        <3>1. CASE Flying \subseteq {r}
            <4>1. \A q \in Flying : q = r \/ q = r
                BY <3>1
            <4> QED
                BY <4>1, Zenon
        <3>2. CASE ~(Flying \subseteq {r})
            <4>1. PICK s \in Flying \ {r} : TRUE
                BY <3>2
            <4>2. \A q \in Flying : q = r \/ q = s
                BY <2>1, <4>1
            <4> QED
                BY <4>2, Zenon
        <3> QED
            BY <3>1, <3>2
    <2>3. PICK s : \A q \in Flying : q = r \/ q = s
        BY <2>2
    <2>4. IsFiniteSet({r} \cup {s})
        BY FS_Singleton, FS_AddElement
    <2> QED
        BY <2>3, <2>4, FS_Subset
<1> HIDE DEF Flying
<1>3. \A p, q \in Flying : p = q
    BY <1>1, <1>2, AtMostOne
<1> QED
    BY <1>3 DEF Flying

LEMMA OneAtATimeNext ==
    TypeOK /\ OneAtATime /\ [MCNext]_<<vars, serial>> => OneAtATime'
<1> SUFFICES ASSUME TypeOK, OneAtATime, [MCNext]_<<vars, serial>>, serial'
             PROVE  OneAtATime'
    BY DEF OneAtATime
<1> USE DEF tables, session, execution, Goto, Answer
<1>1. CASE UNCHANGED <<vars, serial>>
    BY <1>1 DEF vars, OneAtATime, InFlight, UnderWay, Ids
<1>2. CASE MCNext
    <2>1. serial /\ ~Crash
        BY <1>2 DEF MCNext
    <2>2. ASSUME NEW r \in Reqs, Arrive(r) \/ Step(r) PROVE OneAtATime'
        <3>1. \A q \in Reqs \ {r} : pc'[q] = pc[q]
            BY <2>2 DEF TypeOK, Arrive, Step, CreateSchedule, OpenUpdate, Refresh, FlushUpdate,
                        FindDeliveries, DeleteRows, CommitRebuild, RebuildOrphan
        <3>2. \A p, q \in Reqs : InFlight(p)' /\ InFlight(q)' => p = q
            BY <1>2, <2>1, <3>1, OneInFlight
        <3>3. CASE Arrive(r)
            <4>1. InFlight(r)'
                BY <3>3 DEF Arrive, CreateSchedule, OpenUpdate, TypeOK, InFlight
            <4>2. stage' = "live" => UnderWay(r)'
                BY <3>3 DEF Arrive, CreateSchedule, OpenUpdate, TypeOK, UnderWay
            <4> QED
                BY <3>2, <4>1, <4>2 DEF OneAtATime
        <3>4. CASE Step(r)
            <4>1. InFlight(r) /\ stage' = stage
                BY <3>4 DEF Step, Refresh, FlushUpdate, FindDeliveries, DeleteRows,
                            CommitRebuild, RebuildOrphan, InFlight
            <4> DEFINE Left == \E q \in Reqs \cup {Origin} : deliveries' = Rows(q, config')
            <4> HIDE DEF Left
            <4>2. ASSUME stage = "live" PROVE IF InFlight(r)' THEN UnderWay(r)' ELSE Left
                <5>1. UnderWay(r)
                    BY <2>1, <4>1, <4>2 DEF OneAtATime
                <5>2. CASE Refresh(r) \/ FlushUpdate(r) \/ FindDeliveries(r) \/ DeleteRows(r)
                    BY <4>2, <5>1, <5>2 DEF Refresh, FlushUpdate, FindDeliveries, DeleteRows, TypeOK,
                                      UnderWay, InFlight, Ids
                <5>3. CASE CommitRebuild(r)
                    <6>1. deliveries' = RebuiltDeliveries(r) /\ pc'[r] = "done" /\ config' = want[r]
                        BY <5>1, <5>3 DEF CommitRebuild, TypeOK, UnderWay
                    <6>2. RebuiltDeliveries(r) = Rows(r, want[r])
                        BY <5>1, <5>3, ReplaceAll DEF CommitRebuild, UnderWay
                    <6> DEFINE Same(q) == deliveries' = Rows(q, config')
                    <6>3. r \in Reqs \cup {Origin} /\ Same(r)
                        BY <6>1, <6>2
                    <6>4. \E q \in Reqs \cup {Origin} : Same(q)
                        <7> HIDE DEF Same
                        <7> QED
                            BY <6>3
                    <6> QED
                        BY <6>1, <6>4 DEF InFlight, Left
                <5>4. ~RebuildOrphan(r)
                    BY <4>2 DEF RebuildOrphan
                <5> QED
                    BY <3>4, <5>2, <5>3, <5>4 DEF Step
            <4>3. ASSUME stage' = "live", NEW q \in Reqs, InFlight(q)' PROVE UnderWay(q)'
                <5>1. q = r
                    BY <2>1, <3>1, <4>1, <4>3 DEF OneAtATime, InFlight
                <5> QED
                    BY <4>1, <4>2, <4>3, <5>1
            <4>4. ASSUME stage' = "live" PROVE (\E q \in Reqs : InFlight(q)') \/ Left
                BY <4>1, <4>2, <4>4
            <4>5. \/ stage' # "live"
                  \/ \E q \in Reqs : InFlight(q)'
                  \/ \E q \in Reqs \cup {Origin} : (deliveries = Rows(q, config))'
                BY <4>4 DEF Left, Rows
            <4> QED
                BY <3>2, <4>3, <4>5 DEF OneAtATime
        <3> QED
            BY <2>2, <3>3, <3>4
    <2>3. CASE DeleteSchedule
        BY <2>1, <2>3 DEF DeleteSchedule, OneAtATime, InFlight
    <2>4. CASE LoadDeliveries \/ LoadRecipients \/ Deliver
        BY <2>1, <2>4 DEF LoadDeliveries, LoadRecipients, Deliver, OneAtATime, InFlight,
                          UnderWay, Ids, Rows
    <2> QED
        BY <1>2, <2>1, <2>2, <2>3, <2>4 DEF MCNext, Next
<1> QED
    BY <1>1, <1>2

\* Creates and updates that do not overlap, whatever they change and whichever
\* of them changes nothing, leave the schedule with exactly the row its settings
\* call for: sync_schedule_deliveries replaces all rows.
THEOREM SerialRebuildsMirror == MCSpec => []SerialRebuildsReconcile
<1>1. OneAtATime => SerialRebuildsReconcile
    BY DEF OneAtATime, SerialRebuildsReconcile
<1>2. MCSpec => Spec
    <2>1. MCInit => Init
        BY DEF MCInit
    <2>2. [MCNext]_<<vars, serial>> => [Next]_vars
        BY DEF MCNext, vars
    <2> QED
        BY <2>1, <2>2, PTL DEF MCSpec, Spec
<1> QED
    BY <1>1, <1>2, DeliveriesTypeSafe, OneAtATimeInit, OneAtATimeNext, PTL DEF MCSpec
=============================================================================
