------------------------ MODULE ReportVersionsProofs ------------------------
(***************************************************************************)
(* What ReportVersions promises for any number of requests, definitions    *)
(* and retries.  The heart of it is TopIsPast: the max a request read may  *)
(* be stale, but never ahead of the history, so that a version whose       *)
(* number is free extends the history by exactly one.                      *)
(*                                                                         *)
(* What the clients can rely on, which requests have a version in the      *)
(* history and that it is the one they were told of, is bookkeeping: a     *)
(* request that is still to insert has no version (AuthorHasSaved), and    *)
(* one that has inserted, or was answered with success, has its version    *)
(* (SaverIsRecorded).                                                      *)
(***************************************************************************)
EXTENDS MCReportVersions, FiniteSetTheorems, TLAPS

\* The max of 1..n is n.
LEMMA MaxNumberOfRange ==
    ASSUME NEW n \in Nat
    PROVE  MaxNumber(1..n) = n
<1>1. CASE n = 0
    BY <1>1 DEF MaxNumber
<1>2. CASE n # 0
    <2> DEFINE IsMax(x) == x \in 1..n /\ \A m \in 1..n : m <= x
    <2>1. IsMax(n)
        BY <1>2
    <2>2. IsMax(CHOOSE x : IsMax(x))
        BY <2>1, Zenon
    <2>3. \A x : IsMax(x) => x = n
        BY <1>2
    <2>4. MaxNumber(1..n) = CHOOSE x : IsMax(x)
        BY <1>2 DEF MaxNumber
    <2> QED
        BY <2>2, <2>3, <2>4
<1> QED
    BY <1>1, <1>2

\* What a request has read of the history is never ahead of it.
TopIsPast ==
    \A r \in Reqs : pc[r] \in {"insert", "commit"} /\ stage # "deleted" =>
        top[r] \in Numbers \cup {0}

\* Whoever may still write has a definition to write.
WritersHaveDefs ==
    \A r \in Reqs : pc[r] \in {"flush", "max", "insert", "write", "commit"} =>
        want[r] \in Defs

Core == TypeOK /\ GapFree /\ TopIsPast /\ WritersHaveDefs

\* In such a state the max is the length of the history.
LEMMA MaxOfHistory ==
    ASSUME GapFree, Numbers \subseteq Nat
    PROVE  /\ MaxNumber(Numbers) \in Nat
           /\ MaxNumber(Numbers) \in Numbers \cup {0}
           /\ Numbers = 1..MaxNumber(Numbers)
BY MaxNumberOfRange DEF GapFree

\* A version that can be inserted gets the number after the last one.
LEMMA InsertableExtends ==
    ASSUME Core, NEW r \in Reqs, pc[r] \in {"insert", "commit"}, Insertable(r)
    PROVE  /\ top[r] = MaxNumber(Numbers)
           /\ DOMAIN NewVersions(r) = 1..(MaxNumber(Numbers) + 1)
           /\ Numbers \subseteq DOMAIN NewVersions(r)
           /\ \A n \in Numbers : NewVersions(r)[n] = versions[n]
           /\ NewVersions(r)[top[r] + 1] = [def |-> want[r], by |-> r]
<1>1. /\ MaxNumber(Numbers) \in Nat
      /\ Numbers = 1..MaxNumber(Numbers)
    BY MaxOfHistory DEF Core, TypeOK
<1>2. top[r] \in Numbers \cup {0} /\ top[r] + 1 \notin Numbers
    BY DEF Core, TopIsPast, Insertable
<1>3. top[r] = MaxNumber(Numbers)
    BY <1>1, <1>2
<1>4. Numbers \cup {top[r] + 1} = 1..(MaxNumber(Numbers) + 1)
    BY <1>1, <1>3
<1> QED
    BY <1>2, <1>3, <1>4 DEF NewVersions, WithVersion, Numbers

-----------------------------------------------------------------------------

LEMMA CoreInit == Init => Core
<1> SUFFICES ASSUME Init PROVE Core
    OBVIOUS
<1> USE DEF Init, NoVersions, WithVersion, Numbers
<1>1. DOMAIN versions \in {{}, {1}}
    OBVIOUS
<1>2. TypeOK
    <2>1. versions \in [Numbers -> Entry]
        <3>1. CASE versions = NoVersions
            BY <3>1
        <3>2. CASE versions # NoVersions
            <4>1. report \in Defs
                  /\ versions = [m \in {1} |-> [def |-> report, by |-> Origin]]
                BY <3>2
            <4> QED
                BY <4>1 DEF Entry
        <3> QED
            BY <3>1, <3>2
    <2>2. (stage = "live") = (report \in Defs)
        BY DefsAssumption
    <2> QED
        BY <1>1, <2>1, <2>2 DEF TypeOK, Ops, Steps, Outcomes
<1>3. GapFree
    <2>1. 1..0 = {} /\ 1..1 = {1}
        OBVIOUS
    <2> QED
        BY <1>1, <2>1 DEF GapFree
<1>4. TopIsPast /\ WritersHaveDefs
    BY DEF TopIsPast, WritersHaveDefs
<1> QED
    BY <1>2, <1>3, <1>4 DEF Core

\* No step but InsertVersion, CommitRestore and DeleteReport touches the
\* history, and none but ReadMaxNumber and LookupVersion what was read of it.
LEMMA CoreNext == Core /\ [Next]_vars => Core'
<1> SUFFICES ASSUME Core, [Next]_vars PROVE Core'
    OBVIOUS
<1>t. TypeOK /\ GapFree
    BY DEF Core
<1>m. MaxNumber(Numbers) \in Nat /\ MaxNumber(Numbers) \in Numbers \cup {0}
    BY <1>t, MaxOfHistory DEF TypeOK
<1> USE DEF Ops, Steps, Outcomes, Open, Goto, Answer, store, session
<1>1. ASSUME NEW r \in Reqs, NEW d \in Defs, CreateReport(r, d) PROVE Core'
    <2>1. TypeOK'
        BY <1>t, <1>1 DEF CreateReport, TypeOK, Numbers
    <2>2. GapFree' /\ TopIsPast' /\ WritersHaveDefs'
        BY <1>1 DEF CreateReport, Core, TypeOK, GapFree, TopIsPast, WritersHaveDefs, Numbers
    <2> QED
        BY <2>1, <2>2 DEF Core
<1>2. ASSUME NEW r \in Reqs, NEW d \in Defs, ImportReport(r, d) PROVE Core'
    <2>1. TypeOK'
        BY <1>t, <1>2 DEF ImportReport, TypeOK, Numbers
    <2>2. GapFree' /\ TopIsPast' /\ WritersHaveDefs'
        BY <1>2 DEF ImportReport, Core, TypeOK, GapFree, TopIsPast, WritersHaveDefs, Numbers
    <2> QED
        BY <2>1, <2>2 DEF Core
<1>3. ASSUME NEW r \in Reqs, NEW d \in Defs, NEW renamed \in BOOLEAN,
             OpenUpdate(r, d, renamed) PROVE Core'
    <2>1. TypeOK'
        BY <1>t, <1>3 DEF OpenUpdate, TypeOK, Numbers
    <2>2. GapFree' /\ TopIsPast' /\ WritersHaveDefs'
        BY <1>3 DEF OpenUpdate, Core, TypeOK, GapFree, TopIsPast, WritersHaveDefs, Numbers
    <2> QED
        BY <2>1, <2>2 DEF Core
<1>4. ASSUME NEW r \in Reqs, NEW d \in Defs, OpenSave(r, d) PROVE Core'
    <2>1. TypeOK'
        BY <1>t, <1>4 DEF OpenSave, TypeOK, Numbers
    <2>2. GapFree' /\ TopIsPast' /\ WritersHaveDefs'
        BY <1>4 DEF OpenSave, Core, TypeOK, GapFree, TopIsPast, WritersHaveDefs, Numbers
    <2> QED
        BY <2>1, <2>2 DEF Core
<1>5. ASSUME NEW r \in Reqs, NEW n \in Numbers \cup {MaxNumber(Numbers) + 1},
             OpenRestore(r, n) PROVE Core'
    <2>1. TypeOK'
        BY <1>t, <1>m, <1>5 DEF OpenRestore, TypeOK, Numbers
    <2>2. GapFree' /\ TopIsPast' /\ WritersHaveDefs'
        BY <1>m, <1>5 DEF OpenRestore, Core, TypeOK, GapFree, TopIsPast, WritersHaveDefs, Numbers
    <2> QED
        BY <2>1, <2>2 DEF Core
<1>6. ASSUME NEW r \in Reqs, ReportNotFound(r) PROVE Core'
    <2>1. TypeOK'
        BY <1>t, <1>6 DEF ReportNotFound, TypeOK, Numbers
    <2>2. GapFree' /\ TopIsPast' /\ WritersHaveDefs'
        BY <1>6 DEF ReportNotFound, Core, TypeOK, GapFree, TopIsPast, WritersHaveDefs, Numbers
    <2> QED
        BY <2>1, <2>2 DEF Core
<1>7. ASSUME NEW r \in Reqs, FlushUpdate(r) PROVE Core'
    <2>1. TypeOK'
        BY <1>t, <1>7 DEF FlushUpdate, TypeOK, Numbers
    <2>2. GapFree' /\ TopIsPast' /\ WritersHaveDefs'
        BY <1>7 DEF FlushUpdate, Core, TypeOK, GapFree, TopIsPast, WritersHaveDefs, Numbers
    <2> QED
        BY <2>1, <2>2 DEF Core
<1>8. ASSUME NEW r \in Reqs, ReadMaxNumber(r) PROVE Core'
    <2>1. TypeOK'
        BY <1>t, <1>m, <1>8 DEF ReadMaxNumber, TypeOK, Numbers
    <2>2. GapFree' /\ TopIsPast' /\ WritersHaveDefs'
        BY <1>m, <1>8 DEF ReadMaxNumber, Core, TypeOK, GapFree, TopIsPast, WritersHaveDefs, Numbers
    <2> QED
        BY <2>1, <2>2 DEF Core
<1>9. ASSUME NEW r \in Reqs, InsertVersion(r) PROVE Core'
    <2>1. pc[r] = "insert" /\ Insertable(r) /\ stage = "live" /\ versions' = NewVersions(r)
        BY <1>9 DEF InsertVersion, Insertable
    <2>2. Numbers' = 1..(MaxNumber(Numbers) + 1) /\ Numbers \subseteq Numbers'
        BY <2>1, InsertableExtends DEF Numbers
    <2>3. want[r] \in Defs /\ versions' \in [Numbers' -> Entry]
        BY <1>t, <2>1 DEF Core, WritersHaveDefs, NewVersions, WithVersion, Numbers, TypeOK, Entry
    <2>4. TypeOK'
        <3>1. report' \in Defs /\ Numbers' \subseteq Nat \ {0}
            BY <1>t, <1>m, <1>9, <2>1, <2>2, <2>3 DEF InsertVersion, TypeOK, Updated
        <3> QED
            BY <1>t, <1>9, <2>1, <2>3, <3>1 DEF InsertVersion, TypeOK
    <2>5. GapFree'
        BY <1>m, <2>2 DEF GapFree
    <2>6. TopIsPast' /\ WritersHaveDefs'
        BY <1>9, <2>2 DEF InsertVersion, Core, TypeOK, TopIsPast, WritersHaveDefs
    <2> QED
        BY <2>4, <2>5, <2>6 DEF Core
<1>10. ASSUME NEW r \in Reqs, InsertConflict(r) PROVE Core'
    <2>1. TypeOK'
        BY <1>t, <1>10 DEF InsertConflict, TypeOK, Numbers
    <2>2. GapFree' /\ TopIsPast' /\ WritersHaveDefs'
        BY <1>10 DEF InsertConflict, Core, TypeOK, GapFree, TopIsPast, WritersHaveDefs, Numbers
    <2> QED
        BY <2>1, <2>2 DEF Core
<1>11. ASSUME NEW r \in Reqs, WriteReport(r) PROVE Core'
    <2>1. want[r] \in Defs
        BY <1>11 DEF Core, WritersHaveDefs, WriteReport
    <2>2. TypeOK'
        BY <1>t, <1>11, <2>1 DEF WriteReport, Updated, TypeOK, Numbers
    <2>3. GapFree' /\ TopIsPast' /\ WritersHaveDefs'
        BY <1>11 DEF WriteReport, Core, TypeOK, GapFree, TopIsPast, WritersHaveDefs, Numbers
    <2> QED
        BY <2>2, <2>3 DEF Core
<1>12. ASSUME NEW r \in Reqs, LookupVersion(r) PROVE Core'
    <2>1. target[r] \in Numbers => versions[target[r]].def \in Defs
        BY <1>t DEF TypeOK, Entry
    <2>2. TypeOK'
        BY <1>t, <1>m, <1>12, <2>1 DEF LookupVersion, TypeOK, Numbers
    <2>3. GapFree' /\ TopIsPast' /\ WritersHaveDefs'
        BY <1>m, <1>12, <2>1
        DEF LookupVersion, Core, TypeOK, GapFree, TopIsPast, WritersHaveDefs, Numbers
    <2> QED
        BY <2>2, <2>3 DEF Core
<1>13. ASSUME NEW r \in Reqs, CommitRestore(r) PROVE Core'
    <2>1. CASE ~Insertable(r)
        <3>1. TypeOK'
            BY <1>t, <1>13, <2>1 DEF CommitRestore, TypeOK, Numbers
        <3>2. GapFree' /\ TopIsPast' /\ WritersHaveDefs'
            BY <1>13, <2>1
            DEF CommitRestore, Core, TypeOK, GapFree, TopIsPast, WritersHaveDefs, Numbers
        <3> QED
            BY <3>1, <3>2 DEF Core
    <2>2. CASE Insertable(r)
        <3>1. pc[r] = "commit" /\ stage = "live" /\ versions' = NewVersions(r)
            BY <1>13, <2>2 DEF CommitRestore, Insertable
        <3>2. Numbers' = 1..(MaxNumber(Numbers) + 1) /\ Numbers \subseteq Numbers'
            BY <2>2, <3>1, InsertableExtends DEF Numbers
        <3>3. want[r] \in Defs /\ versions' \in [Numbers' -> Entry]
            BY <1>t, <3>1 DEF Core, WritersHaveDefs, NewVersions, WithVersion, Numbers, TypeOK, Entry
        <3>4. TypeOK'
            <4>1. report' \in Defs /\ Numbers' \subseteq Nat \ {0}
                BY <1>t, <1>m, <1>13, <2>2, <3>1, <3>2, <3>3
                DEF CommitRestore, TypeOK, Updated
            <4> QED
                BY <1>t, <1>13, <3>1, <3>3, <4>1 DEF CommitRestore, TypeOK
        <3>5. GapFree'
            BY <1>m, <3>2 DEF GapFree
        <3>6. TopIsPast' /\ WritersHaveDefs'
            BY <1>13, <3>2 DEF CommitRestore, Core, TypeOK, TopIsPast, WritersHaveDefs
        <3> QED
            BY <3>4, <3>5, <3>6 DEF Core
    <2> QED
        BY <2>1, <2>2
<1>14. ASSUME DeleteReport PROVE Core'
    <2>1. versions' \in [{} -> Entry] /\ Numbers' = {}
        BY <1>14 DEF DeleteReport, NoVersions, Numbers
    <2>2. TypeOK'
        BY <1>t, <1>14, <2>1, DefsAssumption DEF DeleteReport, TypeOK
    <2>3. 1..0 = {}
        OBVIOUS
    <2> QED
        BY <1>14, <2>1, <2>2, <2>3 DEF DeleteReport, Core, GapFree, TopIsPast, WritersHaveDefs
<1>15. ASSUME Crash PROVE Core'
    <2>1. TypeOK'
        BY <1>t, <1>15 DEF Crash, InFlight, TypeOK, Numbers
    <2>2. GapFree' /\ TopIsPast' /\ WritersHaveDefs'
        BY <1>15 DEF Crash, InFlight, Core, TypeOK, GapFree, TopIsPast, WritersHaveDefs, Numbers
    <2> QED
        BY <2>1, <2>2 DEF Core
<1>16. ASSUME UNCHANGED vars PROVE Core'
    <2>1. TypeOK'
        BY <1>t, <1>16 DEF vars, TypeOK, Numbers
    <2>2. GapFree' /\ TopIsPast' /\ WritersHaveDefs'
        BY <1>16 DEF vars, Core, GapFree, TopIsPast, WritersHaveDefs, Numbers
    <2> QED
        BY <2>1, <2>2 DEF Core
<1> QED
    BY <1>1, <1>2, <1>3, <1>4, <1>5, <1>6, <1>7, <1>8, <1>9, <1>10, <1>11, <1>12,
       <1>13, <1>14, <1>15, <1>16
    DEF Next, Arrive, Step

\* Every variable keeps its type.
THEOREM TypeSafe == Spec => []TypeOK
<1>1. Core => TypeOK
    BY DEF Core
<1> QED
    BY CoreInit, CoreNext, <1>1, PTL DEF Spec

\* The history is numbered without gaps, for any number of requests: the max+1
\* that the handlers compute outside any lock never skips a number.
THEOREM HistoryHasNoGap == Spec => []GapFree
<1>1. Core => GapFree
    BY DEF Core
<1> QED
    BY CoreInit, CoreNext, <1>1, PTL DEF Spec

LEMMA CoreAlways == Spec => []Core
BY CoreInit, CoreNext, PTL DEF Spec

-----------------------------------------------------------------------------
(* The holder of the reports row.                                          *)

\* Whoever holds the reports row waits for nothing, for any number of requests
\* and retries: save_version never loops with the row held by a request that
\* waits for it.
THEOREM HolderGoesOn == Spec => []HolderNeverWaits
<1> DEFINE Inv == HolderNeverWaits
<1>1. Init => Inv
    BY DEF Init, HolderNeverWaits
<1>2. TypeOK /\ Inv /\ [Next]_vars => Inv'
    <2> SUFFICES ASSUME TypeOK, HolderNeverWaits, [Next]_vars PROVE HolderNeverWaits'
        OBVIOUS
    <2> USE ReqsAssumption
        DEF TypeOK, HolderNeverWaits, Open, Goto, Answer, store, session
    <2>1. ASSUME NEW r \in Reqs, Arrive(r) PROVE HolderNeverWaits'
        BY <2>1 DEF Arrive, CreateReport, ImportReport, OpenUpdate, OpenSave,
                    OpenRestore, ReportNotFound
    <2>2. ASSUME NEW r \in Reqs, FlushUpdate(r) \/ ReadMaxNumber(r) PROVE HolderNeverWaits'
        BY <2>2 DEF FlushUpdate, ReadMaxNumber
    <2>3. ASSUME NEW r \in Reqs, InsertVersion(r) PROVE HolderNeverWaits'
        BY <2>3 DEF InsertVersion
    <2>4. ASSUME NEW r \in Reqs, InsertConflict(r) PROVE HolderNeverWaits'
        BY <2>4 DEF InsertConflict
    <2>5. ASSUME NEW r \in Reqs, WriteReport(r) \/ LookupVersion(r) \/ CommitRestore(r)
          PROVE  HolderNeverWaits'
        BY <2>5 DEF WriteReport, LookupVersion, CommitRestore
    <2>6. ASSUME DeleteReport \/ Crash \/ UNCHANGED vars PROVE HolderNeverWaits'
        BY <2>6 DEF DeleteReport, Crash, vars
    <2> QED
        BY <2>1, <2>2, <2>3, <2>4, <2>5, <2>6 DEF Next, Step
<1> QED
    BY <1>1, <1>2, TypeSafe, PTL DEF Spec

-----------------------------------------------------------------------------
(* The history as an append-only log.                                      *)

\* What a step may do to the history: nothing, begin it, add one version of a
\* request that is at its insert, or delete it.
LEMMA HistoryStep ==
    ASSUME [Next]_vars
    PROVE  \/ UNCHANGED <<stage, versions>>
           \/ stage = "unborn" /\ stage' = "live" /\ UNCHANGED versions
           \/ \E r \in Reqs : /\ pc[r] \in {"insert", "commit"}
                             /\ Insertable(r)
                             /\ UNCHANGED stage
                             /\ versions' = NewVersions(r)
           \/ stage = "live" /\ stage' = "deleted" /\ versions' = NoVersions
<1> USE DEF store
<1>1. ASSUME NEW r \in Reqs, NEW d \in Defs, CreateReport(r, d) \/ ImportReport(r, d)
      PROVE  stage = "unborn" /\ stage' = "live" /\ UNCHANGED versions
    BY <1>1 DEF CreateReport, ImportReport
<1>2. ASSUME NEW r \in Reqs, NEW d \in Defs, NEW renamed \in BOOLEAN,
             OpenUpdate(r, d, renamed) \/ OpenSave(r, d)
      PROVE  UNCHANGED <<stage, versions>>
    BY <1>2 DEF OpenUpdate, OpenSave
<1>3. ASSUME NEW r \in Reqs, NEW n, OpenRestore(r, n)
      PROVE  UNCHANGED <<stage, versions>>
    BY <1>3 DEF OpenRestore
<1>4. ASSUME NEW r \in Reqs,
             \/ ReportNotFound(r) \/ FlushUpdate(r) \/ ReadMaxNumber(r)
             \/ InsertConflict(r) \/ WriteReport(r) \/ LookupVersion(r)
      PROVE  UNCHANGED <<stage, versions>>
    BY <1>4 DEF ReportNotFound, FlushUpdate, ReadMaxNumber, InsertConflict,
                WriteReport, LookupVersion
<1>5. ASSUME NEW r \in Reqs, InsertVersion(r)
      PROVE  /\ pc[r] \in {"insert", "commit"}
             /\ Insertable(r)
             /\ UNCHANGED stage
             /\ versions' = NewVersions(r)
    BY <1>5 DEF InsertVersion
<1>6. ASSUME NEW r \in Reqs, CommitRestore(r)
      PROVE  \/ UNCHANGED <<stage, versions>>
             \/ /\ pc[r] \in {"insert", "commit"}
                /\ Insertable(r)
                /\ UNCHANGED stage
                /\ versions' = NewVersions(r)
    BY <1>6 DEF CommitRestore
<1>7. ASSUME DeleteReport
      PROVE  stage = "live" /\ stage' = "deleted" /\ versions' = NoVersions
    BY <1>7 DEF DeleteReport
<1>8. ASSUME Crash \/ UNCHANGED vars PROVE UNCHANGED <<stage, versions>>
    BY <1>8 DEF Crash, vars
<1> QED
    BY <1>1, <1>2, <1>3, <1>4, <1>5, <1>6, <1>7, <1>8 DEF Next, Arrive, Step

\* The history of a report is an append-only log: whatever requests overlap,
\* retry, fail or are cut off, every step of the handlers is a step of
\* VersionHistory or leaves the log alone.
THEOREM HistoryIsALog == Spec => ImplementsHistory
<1>1. Init => History!Init
    BY DEF Init, History!Init, History!EmptyLog, History!Extended, NoVersions,
           WithVersion, Entry
<1>2. Core /\ [Next]_vars => [History!Next]_(History!hvars)
    <2> SUFFICES ASSUME Core, [Next]_vars PROVE [History!Next]_(History!hvars)
        OBVIOUS
    <2>1. CASE UNCHANGED <<stage, versions>>
        BY <2>1 DEF History!hvars
    <2>2. CASE stage = "unborn" /\ stage' = "live" /\ UNCHANGED versions
        BY <2>2 DEF History!Next, History!Begin
    <2>3. CASE stage = "live" /\ stage' = "deleted" /\ versions' = NoVersions
        BY <2>3 DEF History!Next, History!Erase, History!EmptyLog, NoVersions
    <2>4. ASSUME NEW r \in Reqs,
                 pc[r] \in {"insert", "commit"},
                 Insertable(r),
                 UNCHANGED stage,
                 versions' = NewVersions(r)
          PROVE  History!Append
        <3>1. /\ top[r] = MaxNumber(Numbers)
              /\ stage = "live"
            BY <2>4, InsertableExtends DEF Insertable
        <3>2. /\ MaxNumber(Numbers) \in Numbers \cup {0}
              /\ Numbers = 1..MaxNumber(Numbers)
            BY MaxOfHistory DEF Core, TypeOK
        <3>3. want[r] \in Defs
            BY <2>4, <3>1 DEF Core, WritersHaveDefs
        <3>4. [def |-> want[r], by |-> r] \in Entry
            BY <3>3 DEF Entry
        <3>5. versions' = History!Extended(versions, top[r] + 1, [def |-> want[r], by |-> r])
            BY <2>4 DEF NewVersions, WithVersion, History!Extended
        <3> QED
            BY <2>4, <3>1, <3>2, <3>4, <3>5 DEF History!Append, Numbers
    <2> QED
        BY HistoryStep, <2>1, <2>2, <2>3, <2>4 DEF History!Next
<1> QED
    BY <1>1, <1>2, CoreAlways, PTL DEF Spec, ImplementsHistory, History!Spec
-----------------------------------------------------------------------------
(* The bookkeeping of versions and their authors.                          *)

\* A request is told something only when it ends.
ToldWhenDone == \A r \in Reqs : outcome[r] # "none" => pc[r] = "done"

\* Nothing happens before the report exists.
UnbornIsQuiet == stage = "unborn" => Numbers = {} /\ \A r \in Reqs : pc[r] = "idle"

\* Whoever has a version in the history is past its insert.
AuthorHasSaved ==
    \A n \in Numbers : versions[n].by \in Reqs =>
        pc[versions[n].by] \in {"write", "done"}

\* Whoever has inserted a version, or was answered with success, finds it in
\* the history while the report exists.
SaverIsRecorded ==
    \A r \in Reqs :
        /\ stage = "live"
        /\ pc[r] = "write" \/ (outcome[r] = "ok" /\ op[r] # "import")
        => \E n \in Numbers : versions[n] = [def |-> want[r], by |-> r]

Accounts ==
    /\ ToldWhenDone
    /\ UnbornIsQuiet
    /\ AuthorHasSaved
    /\ OneVersionPerRequest
    /\ SaverIsRecorded
    /\ FailedSaveLeavesNothing

LEMMA AccountsInit == Init => Accounts
<1> SUFFICES ASSUME Init PROVE Accounts
    OBVIOUS
<1>1. DOMAIN versions \in {{}, {1}} /\ (stage = "unborn" => Numbers = {})
    BY DEF Init, NoVersions, WithVersion, Numbers
<1>2. \A n \in Numbers : versions[n].by = Origin
    BY DEF Init, NoVersions, WithVersion, Numbers
<1>3. /\ \A r \in Reqs : pc[r] = "idle" /\ outcome[r] = "none"
      /\ stage \in {"unborn", "live"}
    BY DEF Init
<1> QED
    BY <1>1, <1>2, <1>3, ReqsAssumption
    DEF Accounts, ToldWhenDone, UnbornIsQuiet, AuthorHasSaved, OneVersionPerRequest,
        SaverIsRecorded, FailedSaveLeavesNothing, Numbers

\* A step that leaves the history alone, and the requests that are past their
\* insert, keeps the accounts if those it answers or moves are accounted for.
LEMMA QuietStep ==
    ASSUME TypeOK, Accounts, TypeOK',
           UNCHANGED versions,
           stage' = stage \/ (stage = "unborn" /\ stage' = "live"),
           NEW r \in Reqs,
           pc[r] \notin {"write", "done"},
           pc'[r] # "write",
           stage' # "unborn" \/ pc'[r] = "idle",
           \A q \in Reqs \ {r} : /\ pc'[q] = pc[q] /\ op'[q] = op[q]
                                 /\ want'[q] = want[q] /\ outcome'[q] = outcome[q],
           outcome'[r] # "none" => pc'[r] = "done",
           outcome'[r] = "ok" => op'[r] = "import"
    PROVE  Accounts'
<1>1. ToldWhenDone' /\ UnbornIsQuiet'
    BY DEF Accounts, ToldWhenDone, UnbornIsQuiet, Numbers
<1>2. \A n \in Numbers : versions[n].by # r
    BY DEF Accounts, AuthorHasSaved
<1>3. AuthorHasSaved' /\ OneVersionPerRequest'
    BY <1>2 DEF Accounts, AuthorHasSaved, OneVersionPerRequest, Numbers
<1>4. FailedSaveLeavesNothing'
    BY <1>2 DEF Accounts, FailedSaveLeavesNothing, ToldWhenDone, UnbornIsQuiet, Numbers
<1>5. SaverIsRecorded'
    BY DEF Accounts, SaverIsRecorded, ToldWhenDone, UnbornIsQuiet, Numbers
<1> QED
    BY <1>1, <1>3, <1>4, <1>5 DEF Accounts

\* Adding a version of one's own, and moving on to write or done.
LEMMA SavingStep ==
    ASSUME Core, TypeOK', Accounts,
           UNCHANGED <<stage, op, want>>,
           NEW r \in Reqs,
           pc[r] \in {"insert", "commit"},
           Insertable(r),
           versions' = NewVersions(r),
           \/ pc' = [pc EXCEPT ![r] = "write"] /\ UNCHANGED outcome
           \/ /\ pc' = [pc EXCEPT ![r] = "done"]
              /\ outcome' = [outcome EXCEPT ![r] = "ok"]
    PROVE  Accounts'
<1> USE DEF Accounts
<1>1. /\ Numbers' = Numbers \cup {top[r] + 1}
      /\ top[r] + 1 \notin Numbers
      /\ \A n \in Numbers : versions'[n] = versions[n]
      /\ versions'[top[r] + 1] = [def |-> want[r], by |-> r]
    BY DEF NewVersions, WithVersion, Insertable, Numbers
<1>2. pc \in [Reqs -> Steps] /\ outcome \in [Reqs -> Outcomes]
    BY DEF Core, TypeOK
<1>3. \A n \in Numbers : versions[n].by # r
    BY DEF AuthorHasSaved
<1>4. ToldWhenDone' /\ UnbornIsQuiet'
    BY <1>2 DEF ToldWhenDone, UnbornIsQuiet, Insertable
<1>5. AuthorHasSaved'
    BY <1>1, <1>2 DEF AuthorHasSaved
<1>6. OneVersionPerRequest'
    BY <1>1, <1>3 DEF OneVersionPerRequest
<1>7. SaverIsRecorded'
    BY <1>1, <1>2 DEF SaverIsRecorded
<1>8. FailedSaveLeavesNothing'
    BY <1>1, <1>2 DEF FailedSaveLeavesNothing, ToldWhenDone
<1> QED
    BY <1>4, <1>5, <1>6, <1>7, <1>8

LEMMA AccountsNext == Core /\ Core' /\ Accounts /\ [Next]_vars => Accounts'
<1> SUFFICES ASSUME Core, Core', Accounts, [Next]_vars PROVE Accounts'
    OBVIOUS
<1>t. TypeOK /\ TypeOK'
    BY DEF Core
<1> USE DEF Open, Goto, Answer, store, session
<1>1. ASSUME NEW r \in Reqs, Arrive(r) PROVE Accounts'
    <2>1. CASE ReportNotFound(r)
        BY <1>t, <2>1 DEF ReportNotFound, TypeOK, Accounts, ToldWhenDone, UnbornIsQuiet,
           AuthorHasSaved, OneVersionPerRequest, SaverIsRecorded,
           FailedSaveLeavesNothing, Numbers
    <2>2. ASSUME NEW d \in Defs, CreateReport(r, d) \/ ImportReport(r, d) PROVE Accounts'
        BY <1>t, <2>2, QuietStep DEF CreateReport, ImportReport, TypeOK, Accounts, ToldWhenDone
    <2>3. ASSUME NEW d \in Defs, NEW renamed \in BOOLEAN,
                 OpenUpdate(r, d, renamed) \/ OpenSave(r, d)
          PROVE  Accounts'
        BY <1>t, <2>3, QuietStep DEF OpenUpdate, OpenSave, TypeOK, Accounts, ToldWhenDone
    <2>4. ASSUME NEW n, OpenRestore(r, n) PROVE Accounts'
        BY <1>t, <2>4, QuietStep DEF OpenRestore, TypeOK, Accounts, ToldWhenDone
    <2> QED
        BY <1>1, <2>1, <2>2, <2>3, <2>4 DEF Arrive
<1>2. ASSUME NEW r \in Reqs,
             \/ FlushUpdate(r) \/ ReadMaxNumber(r) \/ InsertConflict(r)
             \/ LookupVersion(r)
      PROVE  Accounts'
    <2>1. stage # "unborn" /\ outcome[r] = "none"
        BY <1>t, <1>2 DEF FlushUpdate, ReadMaxNumber, InsertConflict, LookupVersion,
           Accounts, UnbornIsQuiet, ToldWhenDone
    <2> QED
        BY <1>t, <1>2, <2>1, QuietStep
        DEF FlushUpdate, ReadMaxNumber, InsertConflict, LookupVersion, TypeOK
<1>3. ASSUME NEW r \in Reqs, InsertVersion(r) PROVE Accounts'
    BY <1>t, <1>3, SavingStep DEF InsertVersion
<1>4. ASSUME NEW r \in Reqs, CommitRestore(r) PROVE Accounts'
    <2>1. CASE Insertable(r)
        BY <1>t, <1>4, <2>1, SavingStep DEF CommitRestore
    <2>2. CASE ~Insertable(r)
        <3>1. stage # "unborn" /\ outcome[r] = "none"
            BY <1>t, <1>4 DEF CommitRestore, Accounts, UnbornIsQuiet, ToldWhenDone
        <3> QED
            BY <1>t, <1>4, <2>2, <3>1, QuietStep DEF CommitRestore, TypeOK
    <2> QED
        BY <2>1, <2>2
<1>5. ASSUME NEW r \in Reqs, WriteReport(r) PROVE Accounts'
    <2>1. pc[r] = "write" /\ stage # "unborn"
        BY <1>5 DEF WriteReport, Accounts, UnbornIsQuiet
    <2>2. /\ UNCHANGED <<stage, versions, op, want>>
          /\ \A q \in Reqs \ {r} : pc'[q] = pc[q] /\ outcome'[q] = outcome[q]
          /\ pc'[r] = "done"
          /\ \/ stage = "live" /\ outcome'[r] = "ok"
             \/ stage = "deleted" /\ outcome'[r] = "error"
        BY <1>t, <1>5, <2>1 DEF WriteReport, TypeOK
    <2>3. ToldWhenDone' /\ UnbornIsQuiet' /\ AuthorHasSaved'
        BY <2>1, <2>2 DEF Accounts, ToldWhenDone, UnbornIsQuiet, AuthorHasSaved, Numbers
    <2>4. OneVersionPerRequest' /\ SaverIsRecorded' /\ FailedSaveLeavesNothing'
        BY <2>1, <2>2 DEF Accounts, OneVersionPerRequest, SaverIsRecorded,
           FailedSaveLeavesNothing, Numbers
    <2> QED
        BY <2>3, <2>4 DEF Accounts
<1>6. ASSUME DeleteReport PROVE Accounts'
    <2>1. Numbers' = {} /\ stage' = "deleted" /\ UNCHANGED <<pc, outcome>>
        BY <1>6 DEF DeleteReport, NoVersions, Numbers
    <2> QED
        BY <2>1 DEF Accounts, ToldWhenDone, UnbornIsQuiet, AuthorHasSaved,
           OneVersionPerRequest, SaverIsRecorded, FailedSaveLeavesNothing
<1>7. ASSUME Crash PROVE Accounts'
    <2>1. stage # "unborn"
        BY <1>7 DEF Crash, InFlight, Accounts, UnbornIsQuiet
    <2>2. /\ UNCHANGED <<stage, versions, op, want>>
          /\ \A r \in Reqs : \/ pc'[r] = pc[r] /\ outcome'[r] = outcome[r]
                            \/ /\ pc'[r] = "done" /\ outcome'[r] = "lost"
                               /\ pc[r] # "done"
        BY <1>t, <1>7 DEF Crash, InFlight, TypeOK
    <2>3. ToldWhenDone' /\ UnbornIsQuiet' /\ AuthorHasSaved'
        BY <2>1, <2>2 DEF Accounts, ToldWhenDone, UnbornIsQuiet, AuthorHasSaved, Numbers
    <2>4. OneVersionPerRequest' /\ SaverIsRecorded' /\ FailedSaveLeavesNothing'
        BY <2>2 DEF Accounts, OneVersionPerRequest, SaverIsRecorded,
           FailedSaveLeavesNothing, Numbers
    <2> QED
        BY <2>3, <2>4 DEF Accounts
<1>8. ASSUME UNCHANGED vars PROVE Accounts'
    BY <1>8 DEF vars, Accounts, ToldWhenDone, UnbornIsQuiet, AuthorHasSaved,
       OneVersionPerRequest, SaverIsRecorded, FailedSaveLeavesNothing, Numbers
<1> QED
    BY <1>1, <1>2, <1>3, <1>4, <1>5, <1>6, <1>7, <1>8 DEF Next, Step

LEMMA AccountsAlways == Spec => []Accounts
BY CoreAlways, AccountsInit, AccountsNext, PTL DEF Spec

\* No request leaves two versions behind, however often save_version retries.
THEOREM AtMostOneVersion == Spec => []OneVersionPerRequest
<1>1. Accounts => OneVersionPerRequest
    BY DEF Accounts
<1> QED
    BY <1>1, AccountsAlways, PTL

\* A create, update, manual save or restore that was answered with success has
\* its version in the history.
THEOREM SuccessIsRecorded == Spec => []AnsweredSaveIsRecorded
<1>1. Accounts => AnsweredSaveIsRecorded
    BY DEF Accounts, SaverIsRecorded, AnsweredSaveIsRecorded
<1> QED
    BY <1>1, AccountsAlways, PTL

\* A request that was answered with an error has left nothing in the history.
THEOREM FailureLeavesNothing == Spec => []FailedSaveLeavesNothing
<1>1. Accounts => FailedSaveLeavesNothing
    BY DEF Accounts
<1> QED
    BY <1>1, AccountsAlways, PTL

\* Whenever the definition of a report changes, what it changes to is in its
\* history in that very moment, whatever the handlers of other requests do.
THEOREM ChangesAreRecorded == Spec => OnlyRecordedDefinitions
<1> DEFINE Recorded == stage = "live" /\ stage' = "live" /\ report' # report =>
                          \E n \in DOMAIN versions' : versions'[n].def = report'
<1>1. Core /\ Accounts /\ [Next]_vars => [Recorded]_vars
    <2> SUFFICES ASSUME Core, Accounts, [Next]_vars,
                        stage = "live", stage' = "live", report' # report
                 PROVE  \E n \in DOMAIN versions' : versions'[n].def = report'
        OBVIOUS
    <2>1. PICK r \in Reqs : InsertVersion(r) \/ WriteReport(r) \/ CommitRestore(r)
        BY DEF Next, Arrive, Step, CreateReport, ImportReport, OpenUpdate, OpenSave,
               OpenRestore, ReportNotFound, FlushUpdate, ReadMaxNumber, InsertConflict,
               LookupVersion, DeleteReport, Crash, vars, store
    <2>2. report' = want[r]
        BY <2>1 DEF InsertVersion, WriteReport, CommitRestore, Updated
    <2>3. CASE WriteReport(r)
        <3>1. PICK n \in Numbers : versions[n] = [def |-> want[r], by |-> r]
            BY <2>3 DEF WriteReport, Accounts, SaverIsRecorded
        <3>2. UNCHANGED versions
            BY <2>3 DEF WriteReport
        <3> QED
            BY <2>2, <3>1, <3>2 DEF Numbers
    <2>4. CASE InsertVersion(r) \/ CommitRestore(r)
        <3>1. versions' = NewVersions(r)
            BY <2>4, <2>2 DEF InsertVersion, CommitRestore
        <3>2. /\ top[r] + 1 \in DOMAIN versions'
              /\ versions'[top[r] + 1] = [def |-> want[r], by |-> r]
            BY <3>1 DEF NewVersions, WithVersion
        <3> QED
            BY <2>2, <3>2
    <2> QED
        BY <2>1, <2>3, <2>4
<1> QED
    BY <1>1, CoreAlways, AccountsAlways, PTL DEF Spec, OnlyRecordedDefinitions

-----------------------------------------------------------------------------
(* Requests that are handled one at a time.                                *)

\* The report holds the definition of its latest version.
Latest == Numbers # {} => report = versions[MaxNumber(Numbers)].def

\* What the one request under way knows is true, and an update that changes the
\* definition has the row.
UnderWay(r) ==
    /\ seen[r] = report
    /\ pc[r] # "write" => Latest
    /\ pc[r] = "flush" => op[r] # "save"
    /\ pc[r] \in {"insert", "commit"} => top[r] = MaxNumber(Numbers)
    /\ pc[r] \in {"max", "insert"} =>
          IF op[r] = "save" THEN rowLock # r ELSE want[r] = report \/ rowLock = r
    /\ pc[r] = "write" => Numbers # {} /\ versions[MaxNumber(Numbers)].def = want[r]

OneAtATime ==
    serial =>
        /\ \A q, r \in Reqs : InFlight(q) /\ InFlight(r) => q = r
        /\ stage = "live" =>
              /\ (\A r \in Reqs : ~InFlight(r)) => Latest
              /\ \A r \in Reqs : InFlight(r) => UnderWay(r)

\* What holds of all behaviours of ReportVersions.
Known == Core /\ Accounts /\ HolderNeverWaits

LEMMA LatestOfHistory ==
    ASSUME NEW n \in Nat, Numbers = 1..n
    PROVE  /\ MaxNumber(Numbers) = n
           /\ Latest <=> (n # 0 => report = versions[n].def)
<1>1. MaxNumber(Numbers) = n
    BY MaxNumberOfRange
<1>2. 1..n = {} <=> n = 0
    OBVIOUS
<1> QED
    BY <1>1, <1>2 DEF Latest

LEMMA OneAtATimeInit == MCInit => OneAtATime
<1> SUFFICES ASSUME MCInit PROVE stage = "live" => Latest
    BY DEF MCInit, Init, OneAtATime, InFlight
<1>1. CASE versions = NoVersions
    BY <1>1 DEF NoVersions, Numbers, Latest
<1>2. CASE stage = "live"
           /\ versions = WithVersion(NoVersions, 1, [def |-> report, by |-> Origin])
    <2>1. Numbers = 1..1 /\ versions[1].def = report
        BY <1>2 DEF NoVersions, WithVersion, Numbers
    <2> QED
        BY <2>1, LatestOfHistory
<1> QED
    BY <1>1, <1>2 DEF MCInit, Init

\* All members of a set with no more than one are equal.
LEMMA AtMostOne ==
    ASSUME NEW S, IsFiniteSet(S), Cardinality(S) <= 1, NEW p \in S, NEW q \in S
    PROVE  p = q
<1>1. Cardinality(S) \in Nat
    BY FS_CardinalityType
<1>2. Cardinality(S) # 0
    BY FS_EmptySet
<1>3. Cardinality(S) = 1
    BY <1>1, <1>2
<1>4. PICK x : S = {x}
    BY <1>3, FS_Singleton
<1> QED
    BY <1>4

\* Two requests under way are more than one.
LEMMA OneInFlight ==
    ASSUME OneAtATime, MCNext, serial, serial', NEW r \in Reqs,
           \A q \in Reqs \ {r} : pc'[q] = pc[q]
    PROVE  \A p, q \in Reqs : InFlight(p)' /\ InFlight(q)' => p = q
<1> DEFINE Flying == {q \in Reqs : InFlight(q)'}
<1>1. Cardinality(Flying) <= 1
    BY DEF MCNext
<1>2. IsFiniteSet(Flying)
    <2>0. \A p, q \in Flying \ {r} : p = q
        BY DEF OneAtATime, InFlight
    <2>1. \E s : \A q \in Flying : q = r \/ q = s
        <3>1. CASE Flying \subseteq {r}
            <4>1. \A q \in Flying : q = r \/ q = r
                BY <3>1
            <4> QED
                BY <4>1, Zenon
        <3>2. CASE ~(Flying \subseteq {r})
            <4>1. PICK s \in Flying \ {r} : TRUE
                BY <3>2
            <4>2. \A q \in Flying : q = r \/ q = s
                BY <2>0, <4>1
            <4> QED
                BY <4>2, Zenon
        <3> QED
            BY <3>1, <3>2
    <2>2. PICK s : \A q \in Flying : q = r \/ q = s
        BY <2>1
    <2>3. IsFiniteSet({r} \cup {s})
        BY FS_Singleton, FS_AddElement
    <2> QED
        BY <2>2, <2>3, FS_Subset
<1> HIDE DEF Flying
<1>3. \A p, q \in Flying : p = q
    BY <1>1, <1>2, AtMostOne
<1> QED
    BY <1>3 DEF Flying

\* After a step of r only r may be under way.
LEMMA StepByOne ==
    ASSUME Known, OneAtATime, MCNext, serial, serial', NEW r \in Reqs, Arrive(r) \/ Step(r),
           stage' = "live" => IF InFlight(r)' THEN UnderWay(r)' ELSE Latest'
    PROVE  OneAtATime'
<1> USE DEF Open, Goto, Answer, session, store
<1>1. pc \in [Reqs -> Steps]
    BY DEF Known, Core, TypeOK
<1>2. \A q \in Reqs \ {r} : pc'[q] = pc[q]
    BY <1>1 DEF Arrive, CreateReport, ImportReport, OpenUpdate, OpenSave, OpenRestore,
        ReportNotFound, Step, FlushUpdate, ReadMaxNumber, InsertVersion, InsertConflict,
        WriteReport, LookupVersion, CommitRestore
<1>3. \A p, q \in Reqs : InFlight(p)' /\ InFlight(q)' => p = q
    BY <1>2, OneInFlight
<1>4. ASSUME stage' = "live", NEW q \in Reqs, q # r PROVE ~InFlight(q)'
    <2>1. CASE Step(r)
        <3>1. InFlight(r)
            BY <2>1 DEF Step, FlushUpdate, ReadMaxNumber, InsertVersion, InsertConflict,
                        WriteReport, LookupVersion, CommitRestore, InFlight
        <3> QED
            BY <1>2, <1>4, <3>1 DEF OneAtATime, InFlight
    <2>2. CASE Arrive(r) /\ InFlight(r)'
        BY <1>3, <1>4, <2>2
    <2>3. CASE Arrive(r) /\ ~InFlight(r)'
        <3>1. stage = "unborn"
            BY <1>1, <1>4, <2>3 DEF Arrive, CreateReport, ImportReport, OpenUpdate, OpenSave,
                               OpenRestore, ReportNotFound, InFlight
        <3> QED
            BY <1>2, <1>4, <3>1 DEF Known, Accounts, UnbornIsQuiet, InFlight
    <2> QED
        BY <2>1, <2>2, <2>3
<1> QED
    BY <1>3, <1>4 DEF OneAtATime

LEMMA OneAtATimeArrives ==
    ASSUME Known, OneAtATime, MCNext, serial, serial', NEW r \in Reqs, Arrive(r)
    PROVE  OneAtATime'
<1> USE DEF Open, Goto, Answer, session, store
<1>t. TypeOK
    BY DEF Known, Core
<1>1. pc[r] = "idle"
    BY DEF Arrive, CreateReport, ImportReport, OpenUpdate, OpenSave, OpenRestore, ReportNotFound
<1>2. rowLock # r
    BY <1>1, ReqsAssumption DEF Known, HolderNeverWaits
<1>3. UNCHANGED <<versions, rowLock>> /\ Numbers' = Numbers
    BY DEF Arrive, CreateReport, ImportReport, OpenUpdate, OpenSave, OpenRestore,
           ReportNotFound, Numbers
<1>4. ASSUME stage = "unborn" PROVE Latest'
    BY <1>3, <1>4 DEF Known, Accounts, UnbornIsQuiet, Latest
<1>5. ASSUME stage = "live", InFlight(r)' PROVE Latest
    <2>1. \A q \in Reqs \ {r} : pc'[q] = pc[q]
        BY <1>t, <1>5 DEF TypeOK, Arrive, CreateReport, ImportReport, OpenUpdate, OpenSave,
                      OpenRestore, ReportNotFound
    <2>2. \A p, q \in Reqs : InFlight(p)' /\ InFlight(q)' => p = q
        BY <2>1, OneInFlight
    <2>3. \A q \in Reqs : ~InFlight(q)
        BY <1>1, <1>5, <2>1, <2>2 DEF InFlight
    <2> QED
        BY <1>5, <2>3 DEF OneAtATime
<1> SUFFICES ASSUME stage' = "live"
             PROVE  IF InFlight(r)' THEN UnderWay(r)' ELSE Latest'
    BY StepByOne
<1>6. ASSUME NEW d \in Defs, CreateReport(r, d) \/ ImportReport(r, d)
      PROVE  IF InFlight(r)' THEN UnderWay(r)' ELSE Latest'
    BY <1>t, <1>4, <1>6 DEF TypeOK, CreateReport, ImportReport, InFlight, UnderWay
<1>7. ASSUME stage = "live", report' = report, InFlight(r)', UnderWay(r)' \/ ~Latest'
      PROVE  UnderWay(r)'
    BY <1>3, <1>5, <1>7 DEF Latest
<1>8. ASSUME NEW d \in Defs, NEW renamed \in BOOLEAN, OpenUpdate(r, d, renamed)
      PROVE  InFlight(r)' /\ UnderWay(r)'
    BY <1>t, <1>3, <1>5, <1>8 DEF TypeOK, OpenUpdate, InFlight, UnderWay, Latest
<1>9. ASSUME NEW d \in Defs, OpenSave(r, d) PROVE InFlight(r)' /\ UnderWay(r)'
    BY <1>t, <1>2, <1>3, <1>5, <1>9 DEF TypeOK, OpenSave, InFlight, UnderWay, Latest
<1>10. ASSUME NEW n \in Numbers \cup {MaxNumber(Numbers) + 1}, OpenRestore(r, n)
       PROVE  InFlight(r)' /\ UnderWay(r)'
    BY <1>t, <1>3, <1>5, <1>10 DEF TypeOK, OpenRestore, InFlight, UnderWay, Latest
<1>11. ~ReportNotFound(r)
    BY DEF ReportNotFound
<1> QED
    BY <1>6, <1>8, <1>9, <1>10, <1>11 DEF Arrive

LEMMA OneAtATimeGoesOn ==
    ASSUME Known, OneAtATime, MCNext, serial, serial', NEW r \in Reqs, Step(r)
    PROVE  OneAtATime'
<1> USE DEF Goto, Answer, session, store
<1>t. TypeOK
    BY DEF Known, Core
<1> SUFFICES ASSUME stage' = "live"
             PROVE  IF InFlight(r)' THEN UnderWay(r)' ELSE Latest'
    BY StepByOne
<1>1. stage = "live" /\ InFlight(r)
    BY DEF Step, FlushUpdate, ReadMaxNumber, InsertVersion, InsertConflict,
           WriteReport, LookupVersion, CommitRestore, InFlight
<1>2. UnderWay(r)
    BY <1>1 DEF OneAtATime
<1>3. /\ MaxNumber(Numbers) \in Nat
      /\ Numbers = 1..MaxNumber(Numbers)
    BY MaxOfHistory DEF Known, Core, TypeOK
<1>4. CASE FlushUpdate(r)
    BY <1>t, <1>1, <1>2, <1>4 DEF TypeOK, FlushUpdate, InFlight, UnderWay, Latest, Numbers
<1>5. CASE ReadMaxNumber(r)
    BY <1>t, <1>1, <1>2, <1>5 DEF TypeOK, ReadMaxNumber, InFlight, UnderWay, Latest, Numbers
<1>6. ASSUME pc[r] \in {"insert", "commit"} PROVE Insertable(r)
    BY <1>1, <1>2, <1>3, <1>6 DEF UnderWay, Insertable
<1>7. ASSUME pc[r] \in {"insert", "commit"}, versions' = NewVersions(r)
      PROVE  /\ Numbers' # {} /\ versions'[MaxNumber(Numbers)'].def = want[r]
             /\ Latest' <=> report' = want[r]
    <2>1. /\ Numbers' = 1..(MaxNumber(Numbers) + 1)
          /\ versions'[MaxNumber(Numbers) + 1] = [def |-> want[r], by |-> r]
        BY <1>6, <1>7, InsertableExtends DEF Known, Numbers
    <2>2. MaxNumber(Numbers)' = MaxNumber(Numbers) + 1
        BY <1>3, <2>1, MaxNumberOfRange
    <2>3. 1 \in Numbers'
        BY <1>3, <2>1
    <2>4. versions'[MaxNumber(Numbers)'].def = want[r]
        BY <2>1, <2>2
    <2> QED
        BY <2>3, <2>4 DEF Latest
<1>8. CASE InsertVersion(r)
    <2>1. pc[r] = "insert" /\ versions' = NewVersions(r)
        BY <1>8 DEF InsertVersion
    <2>2. CASE op[r] = "save"
        <3>1. report' = report /\ rowLock # r /\ pc'[r] = "write" /\ seen'[r] = report
            BY <1>t, <1>2, <1>8, <2>1, <2>2 DEF TypeOK, InsertVersion, UnderWay
        <3>2. want' = want /\ op' = op
            BY <1>8 DEF InsertVersion
        <3> QED
            BY <1>7, <2>1, <3>1, <3>2 DEF InFlight, UnderWay
    <2>3. CASE op[r] # "save"
        <3>1. report' = want[r] /\ pc'[r] = "done"
            BY <1>t, <1>2, <1>8, <2>1, <2>3 DEF TypeOK, InsertVersion, UnderWay, Updated
        <3> QED
            BY <1>7, <2>1, <3>1 DEF InFlight
    <2> QED
        BY <2>2, <2>3
<1>9. ~InsertConflict(r)
    BY <1>6 DEF InsertConflict
<1>10. CASE WriteReport(r)
    <2>1. report' = want[r] /\ pc'[r] = "done" /\ versions' = versions
        BY <1>t, <1>1, <1>2, <1>10 DEF TypeOK, WriteReport, UnderWay, Updated
    <2> QED
        BY <1>2, <1>10, <2>1 DEF WriteReport, UnderWay, Latest, InFlight, Numbers, MaxNumber
<1>11. CASE LookupVersion(r)
    BY <1>t, <1>2, <1>11 DEF TypeOK, LookupVersion, InFlight, UnderWay, Latest, Numbers
<1>12. CASE CommitRestore(r)
    <2>1. pc[r] = "commit" /\ versions' = NewVersions(r)
        BY <1>6, <1>12 DEF CommitRestore
    <2>2. report' = want[r] /\ pc'[r] = "done"
        BY <1>t, <1>2, <1>6, <1>12, <2>1 DEF TypeOK, CommitRestore, UnderWay, Updated
    <2> QED
        BY <1>7, <2>1, <2>2 DEF InFlight
<1> QED
    BY <1>4, <1>5, <1>8, <1>9, <1>10, <1>11, <1>12 DEF Step

LEMMA OneAtATimeNext ==
    Known /\ OneAtATime /\ [MCNext]_<<vars, serial>> => OneAtATime'
<1> SUFFICES ASSUME Known, OneAtATime, [MCNext]_<<vars, serial>> PROVE OneAtATime'
    OBVIOUS
<1>1. CASE UNCHANGED <<vars, serial>>
    BY <1>1 DEF vars, OneAtATime, InFlight, UnderWay, Latest, Numbers
<1>2. CASE MCNext /\ serial'
    <2>1. serial /\ ~Crash
        BY <1>2 DEF MCNext
    <2>2. CASE DeleteReport
        BY <2>1, <2>2 DEF DeleteReport, OneAtATime, InFlight
    <2> QED
        BY <1>2, <2>1, <2>2, OneAtATimeArrives, OneAtATimeGoesOn DEF MCNext, Next
<1>3. CASE MCNext /\ ~serial'
    BY <1>3 DEF OneAtATime
<1> QED
    BY <1>1, <1>2, <1>3

LEMMA MCSpecIsSpec == MCSpec => Spec
<1>1. MCInit => Init
    BY DEF MCInit
<1>2. [MCNext]_<<vars, serial>> => [Next]_vars
    BY DEF MCNext, vars
<1> QED
    BY <1>1, <1>2, PTL DEF MCSpec, Spec

\* As long as requests are handled one at a time, whichever they are and whatever
\* versions they restore, the report holds the definition of its latest version
\* whenever none is under way.
THEOREM SerialRequestsAgree == MCSpec => []SerialAgreement
<1>1. OneAtATime => SerialAgreement
    BY DEF OneAtATime, Latest, SerialAgreement
<1>2. MCSpec => []Known
    BY MCSpecIsSpec, CoreAlways, AccountsAlways, HolderGoesOn, PTL DEF Known
<1> QED
    BY <1>1, <1>2, OneAtATimeInit, OneAtATimeNext, PTL DEF MCSpec

-----------------------------------------------------------------------------
(* Contention.                                                             *)

\* Each failed attempt of a request came after one more version of another.
Outnumbered ==
    \A r \in Reqs :
        /\ pc[r] = "idle" => tries[r] = 0
        /\ pc[r] \in {"lookup", "commit"} => op[r] = "restore"
        /\ stage = "live" =>
              /\ tries[r] <= MaxNumber(Numbers)
              /\ pc[r] = "insert" => tries[r] <= top[r]
              /\ outcome[r] = "error" /\ op[r] # "restore" =>
                    MaxSaveRetries <= MaxNumber(Numbers)

LEMMA OutnumberedInit == Init => Outnumbered
<1> SUFFICES ASSUME Init PROVE Outnumbered
    OBVIOUS
<1>1. MaxNumber(Numbers) \in Nat
    BY CoreInit, MaxOfHistory DEF Core, TypeOK
<1> QED
    BY <1>1 DEF Init, Outnumbered

\* While the report exists its history does not shrink.
LEMMA HistoryGrows ==
    ASSUME Core, Core', Next, stage # "unborn", stage' = "live"
    PROVE  /\ stage = "live"
           /\ MaxNumber(Numbers) \in Nat /\ MaxNumber(Numbers)' \in Nat
           /\ MaxNumber(Numbers) <= MaxNumber(Numbers)'
<1>1. stage = "live" /\ Numbers \subseteq Numbers'
    BY InsertableExtends
    DEF Next, Arrive, Step, CreateReport, ImportReport, OpenUpdate, OpenSave, OpenRestore,
        ReportNotFound, FlushUpdate, ReadMaxNumber, InsertVersion, InsertConflict,
        WriteReport, LookupVersion, CommitRestore, DeleteReport, Crash, store, Numbers
<1>2. /\ MaxNumber(Numbers) \in Nat /\ MaxNumber(Numbers) \in Numbers \cup {0}
      /\ Numbers = 1..MaxNumber(Numbers)
    BY MaxOfHistory DEF Core, TypeOK
<1>3. MaxNumber(Numbers)' \in Nat /\ Numbers' = 1..MaxNumber(Numbers)'
    BY MaxOfHistory DEF Core, TypeOK, GapFree, Numbers, MaxNumber
<1> QED
    BY <1>1, <1>2, <1>3

LEMMA OutnumberedNext ==
    Known /\ Known' /\ Outnumbered /\ [Next]_vars => Outnumbered'
<1> SUFFICES ASSUME Known, Known', Outnumbered, [Next]_vars PROVE Outnumbered'
    OBVIOUS
<1> USE DEF Open, Goto, Answer, session, store
<1>t. TypeOK /\ TypeOK' /\ Core /\ Core'
    BY DEF Known, Core
<1>m. MaxNumber(Numbers) \in Nat /\ Numbers = 1..MaxNumber(Numbers)
    BY <1>t, MaxOfHistory DEF Core, TypeOK
<1>1. CASE UNCHANGED vars
    BY <1>1 DEF vars, Outnumbered, Numbers
<1>2. CASE Next
    <2>1. ASSUME NEW r \in Reqs
          PROVE  /\ pc'[r] = "idle" => tries'[r] = 0
                 /\ pc'[r] \in {"lookup", "commit"} => op'[r] = "restore"
        <3>1. ASSUME NEW q \in Reqs, Arrive(q) \/ Step(q)
              PROVE  /\ pc'[r] = "idle" => tries'[r] = 0
                     /\ pc'[r] \in {"lookup", "commit"} => op'[r] = "restore"
            BY <1>t, <3>1
            DEF Outnumbered, TypeOK, Arrive, CreateReport, ImportReport, OpenUpdate, OpenSave,
                OpenRestore, ReportNotFound, Step, FlushUpdate, ReadMaxNumber, InsertVersion,
                InsertConflict, WriteReport, LookupVersion, CommitRestore
        <3>2. CASE DeleteReport \/ Crash
            BY <1>t, <3>2 DEF Outnumbered, TypeOK, DeleteReport, Crash
        <3> QED
            BY <1>2, <3>1, <3>2 DEF Next
    <2>2. ASSUME stage = "unborn", stage' = "live", NEW r \in Reqs
          PROVE  tries'[r] = 0 /\ pc'[r] # "insert" /\ outcome'[r] # "error"
        <3>1. \A q \in Reqs : pc[q] = "idle" /\ tries[q] = 0 /\ outcome[q] = "none"
            BY <1>t, <2>2
            DEF Known, Accounts, UnbornIsQuiet, ToldWhenDone, Outnumbered, TypeOK, Outcomes
        <3>2. \E q \in Reqs : \E d \in Defs : CreateReport(q, d) \/ ImportReport(q, d)
            BY <1>2, <2>2
            DEF Next, Arrive, OpenUpdate, OpenSave, OpenRestore, ReportNotFound, Step,
                FlushUpdate, ReadMaxNumber, InsertVersion, InsertConflict, WriteReport,
                LookupVersion, CommitRestore, DeleteReport, Crash
        <3> QED
            BY <1>t, <3>1, <3>2 DEF TypeOK, CreateReport, ImportReport
    <2>3. ASSUME stage = "live", stage' = "live", NEW r \in Reqs
          PROVE  /\ tries'[r] <= MaxNumber(Numbers)'
                 /\ pc'[r] = "insert" => tries'[r] <= top'[r]
                 /\ outcome'[r] = "error" /\ op'[r] # "restore" =>
                       MaxSaveRetries <= MaxNumber(Numbers)'
        <3>1. MaxNumber(Numbers)' \in Nat /\ MaxNumber(Numbers) <= MaxNumber(Numbers)'
            BY <1>2, <1>t, <2>3, HistoryGrows
        <3>2. /\ tries[r] <= MaxNumber(Numbers)
              /\ pc[r] = "insert" => tries[r] <= top[r]
              /\ outcome[r] = "error" /\ op[r] # "restore" => MaxSaveRetries <= MaxNumber(Numbers)
            BY <2>3 DEF Outnumbered
        <3>3. tries[r] \in Nat /\ top[r] \in Nat
            BY <1>t DEF TypeOK
        <3>4. CASE tries' = tries /\ top' = top /\ pc'[r] = pc[r] /\ outcome'[r] = outcome[r]
                   /\ op'[r] = op[r]
            BY <1>m, <3>1, <3>2, <3>3, <3>4, RetriesAssumption
        <3>5. ASSUME NEW q \in Reqs, q # r, Arrive(q) \/ Step(q)
              PROVE  /\ tries'[r] = tries[r] /\ top'[r] = top[r] /\ pc'[r] = pc[r]
                     /\ outcome'[r] = outcome[r] /\ op'[r] = op[r]
            BY <1>t, <3>5
            DEF TypeOK, Arrive, CreateReport, ImportReport, OpenUpdate, OpenSave,
                OpenRestore, ReportNotFound, Step, FlushUpdate, ReadMaxNumber, InsertVersion,
                InsertConflict, WriteReport, LookupVersion, CommitRestore
        <3>6. CASE Arrive(r)
            <4>1. /\ tries'[r] = tries[r] /\ pc'[r] # "insert" /\ outcome'[r] # "error"
                BY <1>t, <2>3, <3>6
                DEF Known, Accounts, ToldWhenDone, TypeOK, Arrive, CreateReport, ImportReport,
                    OpenUpdate, OpenSave, OpenRestore, ReportNotFound
            <4> QED
                BY <1>m, <3>1, <3>2, <3>3, <4>1
        <3>7. CASE InsertConflict(r)
            <4>1. tries[r] + 1 <= MaxNumber(Numbers)
                <5>1. pc[r] = "insert" /\ top[r] + 1 \in Numbers
                    BY <2>3, <3>7 DEF InsertConflict, Insertable
                <5> QED
                    BY <1>m, <3>2, <3>3, <5>1
            <4>2. tries'[r] = tries[r] + 1 /\ pc'[r] # "insert" /\ op'[r] = op[r]
                BY <1>t, <3>7 DEF TypeOK, InsertConflict
            <4>3. outcome'[r] = "error" => tries[r] + 1 = MaxSaveRetries
                BY <1>t, <3>7 DEF TypeOK, InsertConflict, Known, Accounts, ToldWhenDone
            <4> QED
                BY <1>m, <3>1, <3>2, <3>3, <4>1, <4>2, <4>3, RetriesAssumption
        <3>8. CASE ReadMaxNumber(r)
            <4>1. /\ tries'[r] = tries[r] /\ top'[r] = MaxNumber(Numbers)
                  /\ outcome'[r] = outcome[r] /\ op'[r] = op[r]
                BY <1>t, <3>8 DEF TypeOK, ReadMaxNumber
            <4> QED
                BY <1>m, <3>1, <3>2, <3>3, <4>1, RetriesAssumption
        <3>9. CASE FlushUpdate(r) \/ InsertVersion(r) \/ WriteReport(r) \/ LookupVersion(r)
                   \/ CommitRestore(r)
            <4>1. /\ tries'[r] = tries[r] /\ pc'[r] # "insert" /\ op'[r] = op[r]
                  /\ outcome'[r] = "error" => op[r] = "restore"
                BY <1>t, <2>3, <3>9
                DEF TypeOK, FlushUpdate, InsertVersion, WriteReport, LookupVersion,
                    CommitRestore, Known, Accounts, ToldWhenDone, Outnumbered
            <4> QED
                BY <1>m, <3>1, <3>2, <3>3, <4>1
        <3>10. CASE Crash
            <4>1. /\ tries'[r] = tries[r] /\ pc'[r] \in {pc[r], "done"} /\ op'[r] = op[r]
                  /\ top'[r] = top[r] /\ outcome'[r] \in {outcome[r], "lost"}
                BY <3>10 DEF Crash
            <4> QED
                BY <1>m, <3>1, <3>2, <3>3, <4>1, RetriesAssumption
        <3>11. ~DeleteReport
            BY <2>3 DEF DeleteReport
        <3>12. ASSUME NEW q \in Reqs, q # r, Arrive(q) \/ Step(q)
               PROVE  /\ tries'[r] <= MaxNumber(Numbers)'
                      /\ pc'[r] = "insert" => tries'[r] <= top'[r]
                      /\ outcome'[r] = "error" /\ op'[r] # "restore" =>
                            MaxSaveRetries <= MaxNumber(Numbers)'
            BY <1>m, <3>1, <3>2, <3>3, <3>5, <3>12, RetriesAssumption
        <3> QED
            BY <1>2, <3>6, <3>7, <3>8, <3>9, <3>10, <3>11, <3>12 DEF Next, Step
    <2>4. stage' = "live" => stage \in {"unborn", "live"}
        BY <1>2, <1>t, HistoryGrows
    <2>5. stage' = "live" => MaxNumber(Numbers)' \in Nat
        BY <1>t, MaxOfHistory DEF Core, TypeOK, GapFree, Numbers, MaxNumber
    <2> QED
        BY <2>1, <2>2, <2>3, <2>4, <2>5, <1>t DEF Outnumbered, TypeOK
<1> QED
    BY <1>1, <1>2

\* save_version gives up on a report that exists only after as many other
\* versions got in as it makes attempts, for any number of attempts: every
\* conflict has a version of its own, written since that attempt read the max.
THEOREM OnlyContentionFailsSaves == Spec => []SaveFailsOnlyUnderContention
<1>1. Known /\ Outnumbered => SaveFailsOnlyUnderContention
    <2> SUFFICES ASSUME Known, Outnumbered, NEW r \in Reqs,
                        stage = "live", outcome[r] = "error", op[r] # "restore"
                 PROVE  Cardinality({n \in Numbers : versions[n].by # r}) >= MaxSaveRetries
        BY DEF SaveFailsOnlyUnderContention
    <2>1. \A n \in Numbers : versions[n].by # r
        BY DEF Known, Accounts, FailedSaveLeavesNothing
    <2>2. {n \in Numbers : versions[n].by # r} = Numbers
        BY <2>1
    <2>3. MaxNumber(Numbers) \in Nat /\ Numbers = 1..MaxNumber(Numbers)
        BY MaxOfHistory DEF Known, Core, TypeOK
    <2>4. Cardinality(1..MaxNumber(Numbers)) = MaxNumber(Numbers)
        BY <2>3, FS_Interval
    <2>5. MaxSaveRetries <= MaxNumber(Numbers)
        BY DEF Outnumbered
    <2> QED
        BY <2>2, <2>3, <2>4, <2>5, RetriesAssumption
<1>2. Spec => []Known
    BY CoreAlways, AccountsAlways, HolderGoesOn, PTL DEF Known
<1> QED
    BY <1>1, <1>2, OutnumberedInit, OutnumberedNext, PTL DEF Spec
=============================================================================
