--------------------------- MODULE SettingsProofs ---------------------------
(***************************************************************************)
(* Saves of settings never wait for one another in a circle, however many  *)
(* there are and whatever forms they fill in: every one of them takes the  *)
(* rows in ascending order of the keys (TakenInOrder), so that among those *)
(* that wait one waits for the highest row, and nobody who waits holds it. *)
(*                                                                         *)
(* A save is all or nothing: of what it is to write, each setting is still *)
(* to be visited, or the one at which it stands, or was found as it was to *)
(* be (same), or its row is held (Accounted); when it commits nothing is   *)
(* left to be visited.  From this, whatever the saves of other settings do *)
(* meanwhile, memory and table agree on the settings that are clean.       *)
(***************************************************************************)
EXTENDS MCSettings, FiniteSetTheorems, WellFoundedInduction, TLAPS

\* What a save has before it and what it holds are settings it is to write.
Sessions ==
    \A r \in Reqs :
        /\ todo[r] \subseteq DOMAIN want[r]
        /\ pc[r] = "flush" => current[r] \in DOMAIN want[r]
        /\ \A k \in Keys : holder[k] = r => k \in DOMAIN want[r]

\* The row a save is at lies beyond those it holds, and the rest beyond that.
TakenInOrder ==
    \A r \in Reqs :
        /\ \A k \in Keys, j \in todo[r] : holder[k] = r => k < j
        /\ pc[r] = "flush" =>
              /\ \A k \in Keys : holder[k] = r => k < current[r]
              /\ \A j \in todo[r] : current[r] < j

Core == TypeOK /\ Sessions /\ TakenInOrder

LEMMA UpdatesType ==
    ASSUME NEW f \in Forms, NEW u \in Updates(f)
    PROVE  DOMAIN u \subseteq Keys /\ u \in [DOMAIN u -> Values]
BY FormsAssumption DEF Updates, Keys

LEMMA CoreInit == Init => Core
<1> SUFFICES ASSUME Init PROVE Core
    OBVIOUS
<1>1. TypeOK
    <2>1. Nothing \in [{} -> Values]
        BY DEF Nothing
    <2>2. want \in [Reqs -> UNION {[D -> Values] : D \in SUBSET Keys}]
        BY <2>1 DEF Init
    <2> QED
        BY <2>2, ValuesAssumption DEF Init, TypeOK, InFlight
<1>2. Sessions /\ TakenInOrder
    <2>1. \A k \in Keys, r \in Reqs : holder[k] # r
        BY ReqsAssumption DEF Init
    <2> QED
        BY <2>1 DEF Init, Sessions, TakenInOrder
<1> QED
    BY <1>1, <1>2 DEF Core

\* A step by which a save ends and lets go of its rows keeps the invariant.
LEMMA EndingKeeps ==
    ASSUME Core, NEW r \in Reqs, NEW result \in {"ok", "error"}, Answer(r, result),
           holder' = Released(r), up' = up, memory' = memory,
           table' \in [Keys -> Texts \cup {NoRow}]
    PROVE  Core'
<1>1. TypeOK'
    <2>1. want' \in [Reqs -> UNION {[D -> Values] : D \in SUBSET Keys}]
        <3>1. Nothing \in [{} -> Values]
            BY DEF Nothing
        <3> QED
            BY <3>1 DEF Core, TypeOK, Answer
    <2>2. holder' \in [Keys -> Reqs \cup {Nobody}]
        BY DEF Core, TypeOK, Released
    <2>3. ASSUME NEW k \in Keys, holder'[k] # Nobody
          PROVE  pc'[holder'[k]] # "idle"
        <3>1. holder'[k] = holder[k] /\ holder[k] # r
            BY <2>3 DEF Released
        <3>2. holder[k] \in Reqs /\ pc[holder[k]] # "idle"
            BY <2>3, <3>1 DEF Core, TypeOK, InFlight
        <3> QED
            BY <3>1, <3>2 DEF Core, TypeOK, Answer
    <2> QED
        BY <2>1, <2>2, <2>3 DEF Core, TypeOK, Answer, InFlight
<1>2. \A q \in Reqs, k \in Keys : holder'[k] = q => q # r /\ holder[k] = q
    BY ReqsAssumption DEF Core, TypeOK, Released
<1>3. Sessions'
    BY <1>2 DEF Core, TypeOK, Sessions, Answer
<1>4. TakenInOrder'
    BY <1>2 DEF Core, TypeOK, TakenInOrder, Answer
<1> QED
    BY <1>1, <1>3, <1>4 DEF Core

\* LookUp takes the lowest key, and FlushRow the row it looked up.
LEMMA CoreNext == Core /\ [Next]_vars => Core'
<1> SUFFICES ASSUME Core, [Next]_vars PROVE Core'
    OBVIOUS
<1>t. TypeOK /\ Sessions /\ TakenInOrder
    BY DEF Core
<1>1. ASSUME NEW r \in Reqs, NEW f \in Forms, NEW u \in Updates(f), Submit(r, f, u)
      PROVE  Core'
    <2>1. DOMAIN u \subseteq Keys /\ u \in [DOMAIN u -> Values]
        BY UpdatesType
    <2>2. \A k \in Keys : holder[k] # r
        BY <1>t, <1>1, ReqsAssumption DEF TypeOK, InFlight, Submit
    <2>3. TypeOK'
        <3>1. memory' \in [Keys -> Values]
            BY <1>t, <1>1, <2>1 DEF TypeOK, Submit
        <3>2. want' \in [Reqs -> UNION {[D -> Values] : D \in SUBSET Keys}]
            BY <1>t, <1>1, <2>1 DEF TypeOK, Submit
        <3>3. ASSUME NEW k \in Keys, holder'[k] # Nobody
              PROVE  pc'[holder'[k]] # "idle"
            <4>1. holder'[k] = holder[k] /\ holder[k] # r
                BY <1>1, <2>2 DEF Submit
            <4>2. holder[k] \in Reqs /\ pc[holder[k]] # "idle"
                BY <1>t, <3>3, <4>1 DEF TypeOK, InFlight
            <4> QED
                BY <1>t, <1>1, <4>1, <4>2 DEF TypeOK, Submit
        <3> QED
            BY <1>t, <1>1, <2>1, <3>1, <3>2, <3>3 DEF TypeOK, InFlight, Submit
    <2>4. Sessions'
        BY <1>t, <1>1, <2>2 DEF TypeOK, Sessions, Submit
    <2>5. TakenInOrder'
        BY <1>t, <1>1, <2>2 DEF TypeOK, TakenInOrder, Submit
    <2> QED
        BY <2>3, <2>4, <2>5 DEF Core
<1>2. ASSUME NEW r \in Reqs, LookUp(r) PROVE Core'
    <2>1. PICK k \in todo[r] : (\A j \in todo[r] : k <= j) /\ GetRow(r, k)
        BY <1>2 DEF LookUp
    <2>2. k \in Keys /\ k \in DOMAIN want[r]
        BY <1>t DEF TypeOK, Sessions
    <2>3. \A j \in todo[r] \ {k} : k < j
        BY <1>t, <2>1, <2>2 DEF TypeOK, Keys
    <2>4. TypeOK'
        BY <1>t, <2>1, <2>2 DEF TypeOK, InFlight, GetRow
    <2>5. Sessions'
        BY <1>t, <2>1, <2>2 DEF TypeOK, Sessions, GetRow
    <2>6. TakenInOrder'
        BY <1>t, <2>1, <2>2, <2>3 DEF TypeOK, TakenInOrder, GetRow
    <2> QED
        BY <2>4, <2>5, <2>6 DEF Core
<1>3. ASSUME NEW r \in Reqs, KeepRow(r) PROVE Core'
    <2> USE DEF KeepRow, Proceed
    <2>1. TypeOK'
        BY <1>t, <1>3 DEF TypeOK, InFlight
    <2>2. Sessions' /\ TakenInOrder'
        BY <1>t, <1>3 DEF TypeOK, Sessions, TakenInOrder
    <2> QED
        BY <2>1, <2>2 DEF Core
<1>4. ASSUME NEW r \in Reqs, FlushRow(r) PROVE Core'
    <2> USE DEF FlushRow, Proceed
    <2>1. current[r] \in Keys /\ current[r] \in DOMAIN want[r]
        <3>1. DOMAIN want[r] \subseteq Keys
            BY <1>t DEF TypeOK
        <3> QED
            BY <1>t, <1>4, <3>1 DEF Sessions
    <2>2. TypeOK'
        BY <1>t, <1>4, <2>1, ReqsAssumption DEF TypeOK, InFlight
    <2>3. Sessions'
        BY <1>t, <1>4, <2>1 DEF TypeOK, Sessions
    <2>4. TakenInOrder'
        BY <1>t, <1>4, <2>1 DEF TypeOK, TakenInOrder
    <2> QED
        BY <2>2, <2>3, <2>4 DEF Core
<1>5. ASSUME NEW r \in Reqs, InsertConflict(r) PROVE Core'
    BY <1>t, <1>5, EndingKeeps DEF InsertConflict, TypeOK
<1>6. ASSUME NEW r \in Reqs, CommitSave(r) PROVE Core'
    <2>1. \A k \in Keys : holder[k] = r => Serialize(want[r][k]) \in Texts
        <3>1. \A k \in DOMAIN want[r] : want[r][k] \in Values
            BY <1>t DEF TypeOK
        <3> QED
            BY <1>t, <3>1 DEF Sessions, Texts
    <2>2. table' \in [Keys -> Texts \cup {NoRow}]
        BY <1>t, <1>6, <2>1 DEF TypeOK, CommitSave
    <2> QED
        BY <1>6, <2>2, EndingKeeps DEF CommitSave
<1>7. ASSUME NEW r \in Reqs, SaveFails(r) PROVE Core'
    BY <1>t, <1>7, EndingKeeps DEF SaveFails, TypeOK
<1>8. CASE LoadPersisted
    <2>1. \A k \in Keys : table[k] # NoRow => Cast(table[k]) \in Values
        BY <1>t DEF TypeOK, Texts, Serialize, Cast
    <2>2. memory' \in [Keys -> Values]
        BY <1>t, <1>8, <2>1 DEF TypeOK, LoadPersisted, Overlaid
    <2>3. TypeOK'
        BY <1>t, <1>8, <2>2 DEF TypeOK, InFlight, LoadPersisted, saves
    <2>4. Sessions' /\ TakenInOrder'
        BY <1>t, <1>8 DEF Sessions, TakenInOrder, LoadPersisted, saves
    <2> QED
        BY <2>3, <2>4 DEF Core
<1>9. CASE LoadFails \/ Boot
    BY <1>t, <1>9 DEF Core, TypeOK, InFlight, Sessions, TakenInOrder, LoadFails, Boot, saves
<1>10. CASE Crash
    <2>1. TypeOK'
        <3>1. Nothing \in [{} -> Values]
            BY DEF Nothing
        <3>2. want' \in [Reqs -> UNION {[D -> Values] : D \in SUBSET Keys}]
            BY <1>10, <3>1 DEF Crash
        <3> QED
            BY <1>t, <1>10, <3>2, ValuesAssumption DEF TypeOK, InFlight, Crash
    <2>2. \A k \in Keys, r \in Reqs : holder'[k] # r
        BY <1>10, ReqsAssumption DEF Crash
    <2>3. Sessions' /\ TakenInOrder'
        BY <1>10, <2>2 DEF Sessions, TakenInOrder, Crash
    <2> QED
        BY <2>1, <2>3 DEF Core
<1>11. CASE UNCHANGED vars
    BY <1>t, <1>11 DEF Core, TypeOK, InFlight, Sessions, TakenInOrder, vars
<1> QED
    BY <1>1, <1>2, <1>3, <1>4, <1>5, <1>6, <1>7, <1>8, <1>9, <1>10, <1>11
       DEF Next, Arrive, Step

LEMMA CoreAlways == Spec => []Core
BY CoreInit, CoreNext, PTL DEF Spec

\* Every variable of the settings keeps its type, and a row is held only by a
\* save that is under way, however saves, failures and restarts interleave.
THEOREM SettingsTypeSafe == Spec => []TypeOK
BY CoreAlways, PTL DEF Core

\* Among some saves, each of which stands at a row, one stands at the highest.
LEMMA HighestRow ==
    ASSUME NEW S \in SUBSET Reqs, S # {}, current \in [Reqs -> Keys \cup {0}]
    PROVE  \E r \in S : \A q \in S : current[q] <= current[r]
<1> DEFINE Above(r) == NumKeys - current[r]
           T == {Above(r) : r \in S}
           Less == OpToRel(<, Nat)
<1>1. \A r \in S : current[r] \in 0..NumKeys /\ Above(r) \in Nat
    BY KeysAssumption DEF Keys
<1>2. T \subseteq Nat /\ T # {}
    BY <1>1
<1>3. IsWellFoundedOn(Less, Nat)
    BY NatLessThanWellFounded
<1>4. \A m, n \in Nat : m < n => <<m, n>> \in Less
    BY DEF OpToRel
<1>5. \E m \in T : \A n \in T : <<n, m>> \notin Less
    <2> HIDE DEF T, Less
    <2> QED
        BY <1>2, <1>3, WFMin
<1>6. PICK r \in S : \A q \in S : <<Above(q), Above(r)>> \notin Less
    BY <1>5
<1>7. ASSUME NEW q \in S PROVE current[q] <= current[r]
    <2>1. ~(Above(q) < Above(r))
        BY <1>1, <1>4, <1>6
    <2> QED
        BY <1>1, <2>1, KeysAssumption
<1> QED
    BY <1>7

\* A save that holds the row it looked up would not be flushing it.
LEMMA CoreHasNoCircle == Core => NoCircularWait
<1> SUFFICES ASSUME Core, NEW S \in SUBSET Reqs, S # {}
             PROVE  \E r \in S : \A q \in S : ~WaitsFor(r, q)
    BY DEF NoCircularWait
<1>1. CASE \E r \in S : pc[r] # "flush"
    BY <1>1 DEF WaitsFor
<1>2. CASE \A r \in S : pc[r] = "flush"
    <2>1. PICK r \in S : \A q \in S : current[q] <= current[r]
        BY HighestRow DEF Core, TypeOK
    <2>2. ASSUME NEW q \in S, WaitsFor(r, q) PROVE FALSE
        <3>1. current[r] \in Keys /\ current[q] \in Keys
            <4>1. \A p \in S : current[p] \in DOMAIN want[p] /\ DOMAIN want[p] \subseteq Keys
                BY <1>2 DEF Core, TypeOK, Sessions
            <4> QED
                BY <4>1
        <3>2. current[r] < current[q]
            BY <1>2, <2>2, <3>1 DEF Core, TakenInOrder, WaitsFor
        <3> QED
            BY <2>1, <3>1, <3>2 DEF Keys
    <2> QED
        BY <2>2
<1> QED
    BY <1>1, <1>2

\* Saves that overlap are never deadlocked over the rows of app_settings, because
\* save_setting_updates goes through the updates in the order in which
\* update_settings collects them.
THEOREM SavesDoNotDeadlock == Spec => []NoCircularWait
BY CoreAlways, CoreHasNoCircle, PTL
-----------------------------------------------------------------------------
(* Saves are atomic.                                                       *)

\* A save looks at a row only while it flushes it, and commits at the end.
Stations ==
    \A r \in Reqs :
        /\ pc[r] # "flush" => current[r] = 0
        /\ pc[r] = "commit" => todo[r] = {}

Accounted ==
    \A r \in Reqs : pc[r] # "idle" =>
        \A k \in DOMAIN want[r] :
            /\ k \in todo[r] => k \notin same[r]
            /\ pc[r] = "flush" /\ k = current[r] => (k \in same[r] <=> ~Changed(r))
            /\ k \notin todo[r] /\ ~(pc[r] = "flush" /\ k = current[r])
                  => (k \in same[r] <=> holder[k] # r)

Full == Core /\ Stations /\ Accounted

\* The settings of a save are keys, and 0 is none.
LEMMA WantedKeys ==
    ASSUME TypeOK, NEW r \in Reqs
    PROVE  /\ DOMAIN want[r] \subseteq Keys
           /\ 0 \notin DOMAIN want[r]
<1>1. DOMAIN want[r] \subseteq Keys
    BY DEF TypeOK
<1> QED
    BY <1>1 DEF Keys

LEMMA FullInit == MCInit => Full
<1> SUFFICES ASSUME MCInit PROVE Full
    OBVIOUS
<1>1. Core
    BY CoreInit DEF MCInit
<1> QED
    BY <1>1 DEF MCInit, Init, Full, Stations, Accounted

-----------------------------------------------------------------------------
\* A save that a step leaves where it is keeps what it has found.
LEMMA OthersStay ==
    ASSUME Full, MCNext, NEW q \in Reqs, pc[q] # "idle",
           pc'[q] = pc[q], current'[q] = current[q], loaded'[q] = loaded[q]
    PROVE  same'[q] = same[q]
<1>1. same'[q] = same[q] \cup Found(q)
    BY DEF MCNext, InFlight
<1>2. CASE pc[q] = "flush"
    <2>1. current[q] \in DOMAIN want[q]
        BY <1>2 DEF Full, Core, Sessions
    <2>2. current[q] \in same[q] <=> ~Changed(q)
        BY <1>2, <2>1 DEF Full, Accounted
    <2> QED
        BY <1>1, <2>2 DEF Found, Changed
<1>3. CASE pc[q] # "flush"
    BY <1>1, <1>3, WantedKeys DEF Full, Core, Stations, Found
<1> QED
    BY <1>2, <1>3

\* So it is accounted for if its rows stay its own.
LEMMA OthersAccounted ==
    ASSUME Full, MCNext, NEW q \in Reqs,
           pc'[q] = pc[q], current'[q] = current[q], loaded'[q] = loaded[q],
           want'[q] = want[q], todo'[q] = todo[q],
           \A k \in Keys : holder'[k] = q <=> holder[k] = q
    PROVE  /\ pc'[q] # "flush" => current'[q] = 0
           /\ pc'[q] = "commit" => todo'[q] = {}
           /\ pc'[q] # "idle" =>
                \A k \in DOMAIN want'[q] :
                   /\ k \in todo'[q] => k \notin same'[q]
                   /\ pc'[q] = "flush" /\ k = current'[q] => (k \in same'[q] <=> ~Changed(q)')
                   /\ k \notin todo'[q] /\ ~(pc'[q] = "flush" /\ k = current'[q])
                         => (k \in same'[q] <=> holder'[k] # q)
<1>1. /\ pc[q] # "flush" => current[q] = 0
      /\ pc[q] = "commit" => todo[q] = {}
    BY DEF Full, Stations
<1>2. ASSUME pc[q] # "idle", NEW k \in DOMAIN want[q]
      PROVE  /\ k \in todo[q] => k \notin same'[q]
             /\ pc[q] = "flush" /\ k = current[q] => (k \in same'[q] <=> ~Changed(q))
             /\ k \notin todo[q] /\ ~(pc[q] = "flush" /\ k = current[q])
                   => (k \in same'[q] <=> holder'[k] # q)
    <2>1. same'[q] = same[q]
        BY <1>2, OthersStay
    <2>2. k \in Keys
        BY WantedKeys DEF Full, Core
    <2> QED
        BY <1>2, <2>1, <2>2 DEF Full, Accounted
<1>3. Changed(q)' <=> Changed(q)
    BY DEF Changed
<1> QED
    BY <1>1, <1>2, <1>3

\* A save that ends leaves the others as they were.
LEMMA EndingAccounts ==
    ASSUME Full, MCNext, NEW r \in Reqs, NEW result, Answer(r, result),
           holder' = Released(r)
    PROVE  Stations' /\ Accounted'
<1>1. ASSUME NEW q \in Reqs \ {r}
      PROVE  /\ pc'[q] = pc[q] /\ current'[q] = current[q] /\ loaded'[q] = loaded[q]
             /\ want'[q] = want[q] /\ todo'[q] = todo[q]
             /\ \A k \in Keys : holder'[k] = q <=> holder[k] = q
    BY ReqsAssumption DEF Answer, Released, Full, Core, TypeOK
<1>2. pc'[r] = "idle" /\ current'[r] = 0
    BY DEF Answer, Full, Core, TypeOK
<1>3. Stations'
    BY <1>1, <1>2, OthersAccounted DEF Stations
<1>4. Accounted'
    BY <1>1, <1>2, OthersAccounted DEF Accounted
<1> QED
    BY <1>3, <1>4

LEMMA FullNext == Full /\ [MCNext]_<<vars, clean, same>> => Full'
<1> SUFFICES ASSUME Full, [MCNext]_<<vars, clean, same>> PROVE Full'
    OBVIOUS
<1>c. Core'
    BY CoreNext DEF Full, MCNext, vars
<1>k. \A r \in Reqs : DOMAIN want[r] \subseteq Keys /\ 0 \notin DOMAIN want[r]
    BY WantedKeys DEF Full, Core
<1>1. CASE UNCHANGED <<vars, clean, same>>
    BY <1>1, <1>c DEF Full, vars, Stations, Accounted, Changed
<1>2. ASSUME MCNext, NEW r \in Reqs, NEW f \in Forms, NEW u \in Updates(f), Submit(r, f, u)
      PROVE  Stations' /\ Accounted'
    <2>1. ASSUME NEW q \in Reqs \ {r}
          PROVE  /\ pc'[q] = pc[q] /\ current'[q] = current[q] /\ loaded'[q] = loaded[q]
                 /\ want'[q] = want[q] /\ todo'[q] = todo[q] /\ holder' = holder
        BY <1>2 DEF Submit, Full, Core, TypeOK
    <2>2. /\ pc'[r] = "lookup" /\ current'[r] = 0 /\ todo'[r] = DOMAIN u /\ want'[r] = u
          /\ same'[r] = {}
        BY <1>2 DEF Submit, Full, Core, TypeOK, Stations, MCNext, InFlight
    <2>3. Stations'
        BY <1>2, <2>1, <2>2, OthersAccounted DEF Stations
    <2>4. Accounted'
        BY <1>2, <2>1, <2>2, OthersAccounted DEF Accounted
    <2> QED
        BY <2>3, <2>4
<1>3. ASSUME MCNext, NEW r \in Reqs, LookUp(r)
      PROVE  Stations' /\ Accounted'
    <2>1. PICK k \in todo[r] : GetRow(r, k)
        BY <1>3 DEF LookUp
    <2>2. ASSUME NEW q \in Reqs \ {r}
          PROVE  /\ pc'[q] = pc[q] /\ current'[q] = current[q] /\ loaded'[q] = loaded[q]
                 /\ want'[q] = want[q] /\ todo'[q] = todo[q] /\ holder' = holder
        BY <2>1 DEF GetRow, Full, Core, TypeOK
    <2>3. /\ pc[r] = "lookup" /\ pc'[r] = "flush" /\ current'[r] = k /\ loaded'[r] = table[k]
          /\ todo'[r] = todo[r] \ {k} /\ want' = want /\ holder' = holder
        BY <2>1 DEF GetRow, Full, Core, TypeOK
    <2>4. k \in DOMAIN want[r] /\ k \notin same[r]
        BY <2>3 DEF Full, Core, Sessions, Accounted
    <2>5. same'[r] = same[r] \cup Found(r)
        BY <1>3, <2>3 DEF MCNext, InFlight
    <2>6. Found(r) = IF Changed(r)' THEN {} ELSE {k}
        BY <2>3, <2>4 DEF Found, Changed
    <2>7. ASSUME NEW j \in DOMAIN want[r]
          PROVE  /\ j \in todo'[r] => j \notin same'[r]
                 /\ j = k => (j \in same'[r] <=> ~Changed(r)')
                 /\ j \notin todo'[r] /\ j # k => (j \in same'[r] <=> holder[j] # r)
        <3>1. j # k => (j \in same'[r] <=> j \in same[r]) /\ (j \in todo'[r] <=> j \in todo[r])
            BY <2>3, <2>5, <2>6
        <3>2. j = k => (j \in same'[r] <=> ~Changed(r)') /\ j \notin todo'[r]
            BY <2>3, <2>4, <2>5, <2>6
        <3> QED
            BY <2>3, <3>1, <3>2 DEF Full, Accounted
    <2>8. Stations'
        BY <1>3, <2>2, <2>3, OthersAccounted DEF Stations
    <2>9. Accounted'
        BY <1>3, <2>2, <2>3, <2>7, OthersAccounted DEF Accounted
    <2> QED
        BY <2>8, <2>9
<1>4. ASSUME MCNext, NEW r \in Reqs, KeepRow(r) \/ FlushRow(r)
      PROVE  Stations' /\ Accounted'
    <2>1. /\ pc[r] = "flush" /\ current'[r] = 0 /\ todo' = todo /\ want' = want
          /\ pc'[r] = IF todo[r] = {} THEN "commit" ELSE "lookup"
        BY <1>4 DEF KeepRow, FlushRow, Proceed, Full, Core, TypeOK
    <2>2. current[r] \in DOMAIN want[r] /\ current[r] \in Keys
        BY <1>k, <2>1 DEF Full, Core, Sessions
    <2>3. holder' = IF Changed(r) THEN [holder EXCEPT ![current[r]] = r] ELSE holder
        BY <1>4 DEF KeepRow, FlushRow
    <2>4. Changed(r) => holder[current[r]] = Nobody
        BY <1>4 DEF KeepRow, FlushRow
    <2>5. ASSUME NEW q \in Reqs \ {r}
          PROVE  /\ pc'[q] = pc[q] /\ current'[q] = current[q] /\ loaded'[q] = loaded[q]
                 /\ want'[q] = want[q] /\ todo'[q] = todo[q]
                 /\ \A k \in Keys : holder'[k] = q <=> holder[k] = q
        <3>1. \A k \in Keys : holder'[k] = q <=> holder[k] = q
            BY <2>2, <2>3, <2>4, ReqsAssumption DEF Full, Core, TypeOK
        <3> QED
            BY <1>4, <2>1, <3>1 DEF KeepRow, FlushRow, Proceed, Full, Core, TypeOK
    <2>6. same'[r] = same[r]
        <3>1. same'[r] = same[r] \cup Found(r)
            BY <1>4, <2>1 DEF MCNext, InFlight
        <3> QED
            BY <1>k, <2>1, <3>1 DEF Found
    <2>7. ASSUME NEW j \in DOMAIN want[r]
          PROVE  /\ j \in todo[r] => j \notin same[r]
                 /\ j \notin todo[r] => (j \in same[r] <=> holder'[j] # r)
        <3>1. j \in Keys
            BY <1>k
        <3>2. CASE j = current[r]
            <4>1. j \in same[r] <=> ~Changed(r)
                BY <2>1, <3>2 DEF Full, Accounted
            <4>2. holder[j] # r
                BY <2>1, <3>1, <3>2 DEF Full, Core, TakenInOrder, Keys
            <4>3. Changed(r) => holder'[j] = r
                BY <2>3, <3>1, <3>2 DEF Full, Core, TypeOK
            <4>4. j \notin todo[r]
                BY <2>1, <3>1, <3>2 DEF Full, Core, TakenInOrder, Keys
            <4> QED
                BY <2>3, <4>1, <4>2, <4>3, <4>4
        <3>3. CASE j # current[r]
            <4>1. holder'[j] = holder[j]
                BY <2>3, <3>1, <3>3 DEF Full, Core, TypeOK
            <4> QED
                BY <2>1, <3>3, <4>1 DEF Full, Accounted
        <3> QED
            BY <3>2, <3>3
    <2>8. Stations'
        BY <1>4, <2>1, <2>5, OthersAccounted DEF Stations
    <2>9. Accounted'
        BY <1>4, <2>1, <2>5, <2>6, <2>7, OthersAccounted DEF Accounted
    <2> QED
        BY <2>8, <2>9
<1>5. ASSUME MCNext, NEW r \in Reqs, InsertConflict(r) \/ SaveFails(r) \/ CommitSave(r)
      PROVE  Stations' /\ Accounted'
    BY <1>5, EndingAccounts DEF Full, InsertConflict, SaveFails, CommitSave
<1>6. ASSUME MCNext, LoadPersisted \/ LoadFails \/ Boot
      PROVE  Stations' /\ Accounted'
    <2>1. UNCHANGED <<holder, saves>>
        BY <1>6 DEF LoadPersisted, LoadFails, Boot
    <2>2. Stations'
        BY <2>1 DEF saves, Full, Stations
    <2>3. Accounted'
        BY <1>6, <2>1, OthersAccounted DEF saves, Full, Accounted
    <2> QED
        BY <2>2, <2>3
<1>7. CASE Crash
    BY <1>c, <1>7 DEF Crash, Full, Stations, Accounted
<1> QED
    BY <1>c, <1>1, <1>2, <1>3, <1>4, <1>5, <1>6, <1>7 DEF Full, MCNext, Next, Arrive, Step

LEMMA FullAlways == MCSpec => []Full
BY FullInit, FullNext, PTL DEF MCSpec

-----------------------------------------------------------------------------
\* Only the commit answers with success.
LEMMA AnsweredByCommit ==
    ASSUME Full, Next, NEW r \in Reqs, outcome[r] # "ok", outcome'[r] = "ok"
    PROVE  CommitSave(r)
<1>1. outcome \in [Reqs -> {"none", "ok", "error", "lost"}]
    BY DEF Full, Core, TypeOK
<1>2. ASSUME NEW q \in Reqs, Arrive(q) PROVE FALSE
    BY <1>1, <1>2 DEF Arrive, Submit
<1>3. ASSUME NEW q \in Reqs, LookUp(q) \/ KeepRow(q) \/ FlushRow(q) PROVE FALSE
    BY <1>3 DEF LookUp, GetRow, KeepRow, FlushRow
<1>4. ASSUME NEW q \in Reqs, InsertConflict(q) \/ SaveFails(q) PROVE FALSE
    BY <1>1, <1>4 DEF InsertConflict, SaveFails, Answer
<1>5. ASSUME NEW q \in Reqs, CommitSave(q) PROVE q = r
    BY <1>1, <1>5 DEF CommitSave, Answer
<1>6. ASSUME LoadPersisted \/ LoadFails \/ Boot \/ Crash PROVE FALSE
    BY <1>1, <1>6 DEF LoadPersisted, LoadFails, Boot, Crash, saves
<1> QED
    BY <1>2, <1>3, <1>4, <1>5, <1>6 DEF Next, Step

LEMMA CommitIsWhole ==
    ASSUME Full, NEW r \in Reqs, CommitSave(r), NEW k \in Keys
    PROVE  IF k \in (DOMAIN want[r]) \ same[r]
           THEN table'[k] = Serialize(want[r][k])
           ELSE table'[k] = table[k]
<1>1. pc[r] = "commit" /\ todo[r] = {}
    BY DEF CommitSave, Full, Stations
<1>2. table'[k] = IF holder[k] = r THEN Serialize(want[r][k]) ELSE table[k]
    BY DEF CommitSave
<1>3. CASE k \in DOMAIN want[r]
    <2>1. k \in same[r] <=> holder[k] # r
        BY <1>1, <1>3 DEF Full, Accounted
    <2> QED
        BY <1>2, <1>3, <2>1
<1>4. CASE k \notin DOMAIN want[r]
    <2>1. holder[k] # r
        BY <1>4 DEF Full, Core, Sessions
    <2> QED
        BY <1>2, <1>4, <2>1
<1> QED
    BY <1>3, <1>4

\* A save that is in flight has no answer yet.
Unanswered == \A r \in Reqs : InFlight(r) => outcome[r] = "none"

LEMMA UnansweredNext == Core /\ Unanswered /\ [Next]_vars => Unanswered'
<1> SUFFICES ASSUME Core, Unanswered, [Next]_vars, NEW q \in Reqs, InFlight(q)'
             PROVE  outcome'[q] = "none"
    BY DEF Unanswered
<1> USE DEF InFlight
<1>t. /\ pc \in [Reqs -> {"idle", "lookup", "flush", "commit"}]
      /\ outcome \in [Reqs -> {"none", "ok", "error", "lost"}]
    BY DEF Core, TypeOK
<1>1. CASE UNCHANGED vars
    BY <1>1 DEF vars, Unanswered
<1>2. ASSUME NEW r \in Reqs, Arrive(r) PROVE outcome'[q] = "none"
    BY <1>2, <1>t DEF Arrive, Submit, Unanswered
<1>3. ASSUME NEW r \in Reqs, LookUp(r) \/ KeepRow(r) \/ FlushRow(r) PROVE outcome'[q] = "none"
    BY <1>3, <1>t DEF LookUp, GetRow, KeepRow, FlushRow, Proceed, Unanswered
<1>4. ASSUME NEW r \in Reqs, InsertConflict(r) \/ SaveFails(r) \/ CommitSave(r)
      PROVE  outcome'[q] = "none"
    BY <1>4, <1>t DEF InsertConflict, SaveFails, CommitSave, Answer, Unanswered
<1>5. CASE LoadPersisted \/ LoadFails \/ Boot
    BY <1>5 DEF LoadPersisted, LoadFails, Boot, saves, Unanswered
<1>6. CASE Crash
    BY <1>6 DEF Crash
<1> QED
    BY <1>1, <1>2, <1>3, <1>4, <1>5, <1>6 DEF Next, Step

LEMMA UnansweredAlways == MCSpec => []Unanswered
<1>1. MCInit => Unanswered
    BY DEF MCInit, Init, Unanswered, InFlight
<1>2. Full /\ [MCNext]_<<vars, clean, same>> => Core /\ [Next]_vars
    BY DEF Full, MCNext, vars
<1> QED
    BY <1>1, <1>2, FullAlways, UnansweredNext, PTL DEF MCSpec

\* The table changes with an answer of success only.
LEMMA ChangedByCommit ==
    ASSUME Full, Unanswered, Next, table' # table
    PROVE  \E r \in Reqs : outcome[r] # "ok" /\ outcome'[r] = "ok"
<1>1. PICK r \in Reqs : CommitSave(r)
    BY DEF Next, Arrive, Submit, Step, LookUp, GetRow, KeepRow, FlushRow, InsertConflict,
           SaveFails, LoadPersisted, LoadFails, Boot, Crash
<1>2. outcome[r] = "none"
    BY <1>1 DEF CommitSave, Unanswered, InFlight
<1>3. outcome'[r] = "ok"
    BY <1>1 DEF CommitSave, Answer, Full, Core, TypeOK
<1> QED
    BY <1>2, <1>3

\* A save is all or nothing: the table changes only in a step that answers a
\* save with success, and that step puts every value of the form into it, but
\* for rows that were found with that value, and leaves all other rows alone
\* (save_setting_updates commits once).
THEOREM SavesAreAtomic == MCSpec => SaveIsAtomic
<1>1. Full /\ [MCNext]_<<vars, clean, same>> =>
        [\A r \in Reqs :
           outcome[r] # "ok" /\ outcome'[r] = "ok" =>
              \A k \in Keys :
                  IF k \in (DOMAIN want[r]) \ same[r]
                  THEN table'[k] = Serialize(want[r][k])
                  ELSE table'[k] = table[k]]_vars
    <2> SUFFICES ASSUME Full, MCNext, NEW r \in Reqs,
                        outcome[r] # "ok", outcome'[r] = "ok", NEW k \in Keys
                 PROVE  IF k \in (DOMAIN want[r]) \ same[r]
                        THEN table'[k] = Serialize(want[r][k])
                        ELSE table'[k] = table[k]
        BY DEF vars
    <2>1. CommitSave(r)
        BY AnsweredByCommit DEF MCNext
    <2> QED
        BY <2>1, CommitIsWhole
<1>2. Full /\ Unanswered /\ [MCNext]_<<vars, clean, same>> =>
        [table' # table => \E r \in Reqs : outcome[r] # "ok" /\ outcome'[r] = "ok"]_vars
    BY ChangedByCommit DEF MCNext, vars
<1> QED
    BY <1>1, <1>2, FullAlways, UnansweredAlways, PTL DEF MCSpec, SaveIsAtomic

-----------------------------------------------------------------------------
(* Clean settings agree.                                                   *)

\* What is in memory for a clean setting is what the one save of it is to
\* write, and where that save found it, is in the table as well.
CleanIsTracked ==
    /\ clean \subseteq Keys
    /\ clean # {} => up = "running"
    /\ up # "running" => \A r \in Reqs : ~InFlight(r)
    /\ \A k \in clean :
          /\ \A q, r \in Saving(k) : q = r
          /\ \A r \in Saving(k) :
                /\ memory[k] = want[r][k]
                /\ k \in same[r] => table[k] = Serialize(want[r][k])
          /\ Saving(k) = {} => memory[k] = Overlaid[k]

Tracked == Full /\ CleanIsTracked

LEMMA TrackedInit == MCInit => Tracked
BY FullInit DEF MCInit, Init, Tracked, CleanIsTracked, InFlight

\* All members of a set with no more than one are equal.
LEMMA AtMostOne ==
    ASSUME NEW S, IsFiniteSet(S), Cardinality(S) <= 1
    PROVE  \A p, q \in S : p = q
<1>1. Cardinality(S) \in Nat
    BY FS_CardinalityType
<1>2. Cardinality(S) = 0 \/ Cardinality(S) = 1
    BY <1>1
<1>3. S = {} \/ \E x : S = {x}
    BY <1>2, FS_EmptySet, FS_Singleton
<1> QED
    BY <1>3

\* A step by which at most r starts a save leaves one save of a key that stays
\* clean, if there was one.
LEMMA OneSaverEach ==
    ASSUME CleanIsTracked, NEW k \in clean, NEW r \in Reqs,
           Cardinality(Saving(k)') <= 1,
           \A q \in Reqs \ {r} : pc'[q] = pc[q] /\ want'[q] = want[q]
    PROVE  \A p, q \in Saving(k)' : p = q
<1>1. Saving(k)' \subseteq Saving(k) \cup {r}
    BY DEF Saving, InFlight
<1>2. IsFiniteSet(Saving(k)')
    <2>1. \E s : Saving(k) \subseteq {s}
        BY DEF CleanIsTracked
    <2>2. PICK s : Saving(k)' \subseteq {r} \cup {s}
        BY <1>1, <2>1
    <2>3. IsFiniteSet({r} \cup {s})
        BY FS_Singleton, FS_AddElement
    <2> QED
        BY <2>2, <2>3, FS_Subset
<1> QED
    BY <1>2, AtMostOne

\* A step that does not load the settings makes no key clean.
LEMMA CleanStays ==
    ASSUME MCNext, ~LoadPersisted, NEW k \in clean'
    PROVE  k \in clean /\ Cardinality(Saving(k)') <= 1 /\ ~Spoilt(k) /\ up' = "running"
BY DEF MCNext

\* The invariant at one key.
TrackedAt(k) ==
    /\ \A q, r \in Saving(k) : q = r
    /\ \A r \in Saving(k) :
          /\ memory[k] = want[r][k]
          /\ k \in same[r] => table[k] = Serialize(want[r][k])
    /\ Saving(k) = {} => memory[k] = Overlaid[k]

\* The end of a save takes the save from those of its keys.
LEMMA SavingEnds ==
    ASSUME TypeOK, NEW r \in Reqs, NEW result, Answer(r, result), NEW k \in Keys
    PROVE  /\ Saving(k)' = Saving(k) \ {r}
           /\ \A q \in Reqs \ {r} : want'[q] = want[q]
BY DEF TypeOK, Answer, Saving, InFlight

\* A save is tracked over a step of a save that goes on.
LEMMA TrackedStep ==
    ASSUME Tracked, MCNext, NEW r \in Reqs, LookUp(r) \/ KeepRow(r) \/ FlushRow(r),
           NEW k \in clean'
    PROVE  TrackedAt(k)'
<1>1. up = "running" /\ up' = up
    <2>1. pc[r] # "idle"
        BY DEF LookUp, GetRow, KeepRow, FlushRow
    <2> QED
        BY <2>1 DEF Tracked, CleanIsTracked, InFlight, LookUp, GetRow, KeepRow, FlushRow
<1>2. k \in clean /\ k \in Keys
    BY <1>1, CleanStays DEF LoadPersisted, Tracked, CleanIsTracked
<1>3. /\ want' = want /\ memory' = memory /\ table' = table
      /\ \A q \in Reqs : InFlight(q)' <=> InFlight(q)
    BY DEF LookUp, GetRow, KeepRow, FlushRow, Proceed, InFlight, Tracked, Full, Core, TypeOK
<1>4. Saving(k)' = Saving(k) /\ Overlaid'[k] = Overlaid[k]
    BY <1>2, <1>3 DEF Saving, Overlaid
<1>5. ASSUME NEW q \in Saving(k), k \in same'[q], k \notin same[q]
      PROVE  table[k] = Serialize(want[q][k])
    <2>1. q \in Reqs /\ same'[q] = same[q] \cup Found(q)
        BY <1>3, <1>5 DEF MCNext, Saving
    <2>2. k \in DOMAIN want[q] /\ k = current'[q] /\ loaded'[q] = Serialize(want[q][k])
        BY <1>5, <2>1 DEF Found
    <2>3. pc'[q] = "flush" \/ current'[q] = 0
        BY <2>1 DEF LookUp, GetRow, KeepRow, FlushRow, Proceed, Tracked, Full, Core, TypeOK, Stations
    <2>4. k # 0
        BY <1>2 DEF Keys
    <2>5. CASE q = r /\ LookUp(r)
        <3>1. PICK j \in todo[r] : GetRow(r, j)
            BY <2>5 DEF LookUp
        <3>2. current'[r] = j /\ loaded'[r] = table[j]
            BY <3>1 DEF GetRow, Tracked, Full, Core, TypeOK
        <3> QED
            BY <2>2, <2>5, <3>2
    <2>6. CASE q = r /\ ~LookUp(r)
        BY <2>2, <2>4, <2>6 DEF KeepRow, FlushRow, Proceed, Tracked, Full, Core, TypeOK
    <2>7. CASE q # r
        <3>1. pc'[q] = pc[q] /\ current'[q] = current[q] /\ loaded'[q] = loaded[q]
            BY <2>1, <2>7 DEF LookUp, GetRow, KeepRow, FlushRow, Proceed,
                              Tracked, Full, Core, TypeOK
        <3>2. pc[q] # "idle"
            BY <1>5 DEF Saving, InFlight
        <3>3. same'[q] = same[q]
            BY <2>1, <3>1, <3>2, OthersStay DEF Tracked
        <3> QED
            BY <1>5, <3>3
    <2> QED
        BY <2>5, <2>6, <2>7
<1> QED
    BY <1>2, <1>3, <1>4, <1>5 DEF Tracked, CleanIsTracked, TrackedAt

\* A save that fails takes its settings out of the clean ones, and leaves the
\* others alone; one that commits leaves table and memory equal.
LEMMA TrackedEnd ==
    ASSUME Tracked, MCNext, NEW r \in Reqs,
           InsertConflict(r) \/ SaveFails(r) \/ CommitSave(r),
           NEW k \in clean'
    PROVE  TrackedAt(k)'
<1>1. InFlight(r) /\ memory' = memory /\ up' = up
    BY DEF InsertConflict, SaveFails, CommitSave, InFlight
<1>2. up = "running"
    BY <1>1 DEF Tracked, CleanIsTracked
<1>3. k \in clean /\ k \in Keys /\ ~Spoilt(k)
    BY <1>2, CleanStays DEF LoadPersisted, Tracked, CleanIsTracked
<1>4. PICK result : Answer(r, result)
    BY DEF InsertConflict, SaveFails, CommitSave
<1>5. Saving(k)' = Saving(k) \ {r} /\ \A q \in Reqs \ {r} : want'[q] = want[q]
    BY <1>3, <1>4, SavingEnds DEF Tracked, Full, Core
<1>6. TrackedAt(k)
    BY <1>3 DEF Tracked, CleanIsTracked, TrackedAt
<1>7. ASSUME NEW q \in Saving(k), q # r
      PROVE  same'[q] = same[q]
    <2>1. q \in Reqs /\ pc[q] # "idle"
        BY DEF Saving, InFlight
    <2>2. pc'[q] = pc[q] /\ current'[q] = current[q] /\ loaded'[q] = loaded[q]
        BY <1>4, <1>7, <2>1 DEF Answer, Tracked, Full, Core, TypeOK
    <2> QED
        BY <2>1, <2>2, OthersStay DEF Tracked
<1>8. CASE r \notin Saving(k)
    <2>1. k \notin DOMAIN want[r]
        BY <1>1, <1>8 DEF Saving
    <2>2. holder[k] # r
        BY <1>3, <2>1 DEF Tracked, Full, Core, Sessions
    <2>3. table'[k] = table[k]
        BY <1>3, <2>2 DEF InsertConflict, SaveFails, CommitSave, Tracked, Full, Core, TypeOK
    <2>4. Overlaid'[k] = Overlaid[k]
        BY <1>1, <1>3, <2>3 DEF Overlaid
    <2> QED
        BY <1>1, <1>5, <1>6, <1>7, <1>8, <2>3, <2>4 DEF TrackedAt, Saving
<1>9. CASE r \in Saving(k)
    <2>1. Saving(k)' = {}
        BY <1>5, <1>6, <1>9 DEF TrackedAt
    <2>2. outcome'[r] \notin {"error", "lost"}
        BY <1>3, <1>9 DEF Spoilt
    <2>3. CommitSave(r)
        BY <2>2 DEF InsertConflict, SaveFails, Answer, Tracked, Full, Core, TypeOK
    <2>4. k \in DOMAIN want[r] /\ memory[k] = want[r][k]
        BY <1>6, <1>9 DEF Saving, TrackedAt
    <2>5. table'[k] = Serialize(memory[k])
        <3>1. table'[k] = IF k \in (DOMAIN want[r]) \ same[r]
                          THEN Serialize(want[r][k]) ELSE table[k]
            BY <1>3, <2>3, CommitIsWhole DEF Tracked
        <3> QED
            BY <1>6, <1>9, <2>4, <3>1 DEF TrackedAt
    <2>6. table'[k] # NoRow /\ Cast(table'[k]) = memory[k]
        <3>1. table'[k] \in Texts
            BY <1>3, <2>5 DEF Texts, Tracked, Full, Core, TypeOK
        <3>2. NoRow # Serialize(memory[k])
            BY DEF NoRow, Serialize
        <3> QED
            BY <2>5, <3>2 DEF Cast, Serialize
    <2>7. Overlaid'[k] = memory'[k]
        BY <1>1, <1>3, <2>6 DEF Overlaid
    <2> QED
        BY <2>1, <2>7 DEF TrackedAt
<1> QED
    BY <1>8, <1>9

\* A save that begins is the only one of the settings that stay clean.
LEMMA TrackedSubmit ==
    ASSUME Tracked, MCNext, NEW r \in Reqs, Arrive(r), NEW k \in clean'
    PROVE  TrackedAt(k)'
<1>f. PICK f \in Forms : \E u \in Updates(f) : Submit(r, f, u)
    BY DEF Arrive
<1>1. PICK u \in Updates(f) : Submit(r, f, u)
    BY <1>f
<1>2. up = "running" /\ pc[r] = "idle" /\ table' = table
    BY <1>1 DEF Submit
<1>3. k \in clean /\ k \in Keys /\ Cardinality(Saving(k)') <= 1
    BY <1>2, CleanStays DEF LoadPersisted, Tracked, CleanIsTracked
<1>4. /\ pc'[r] = "lookup" /\ want'[r] = u /\ same'[r] = {}
      /\ memory'[k] = IF k \in DOMAIN u THEN u[k] ELSE memory[k]
    BY <1>1, <1>2, <1>3 DEF Submit, MCNext, InFlight, Tracked, Full, Core, TypeOK
<1>5. \A q \in Reqs \ {r} : /\ pc'[q] = pc[q] /\ want'[q] = want[q]
                            /\ current'[q] = current[q] /\ loaded'[q] = loaded[q]
    BY <1>1 DEF Submit, Tracked, Full, Core, TypeOK
<1>6. \A q \in Saving(k) : q # r /\ same'[q] = same[q]
    BY <1>2, <1>5, OthersStay DEF Saving, InFlight, Tracked
<1>7. TrackedAt(k) /\ \A p, q \in Saving(k)' : p = q
    BY <1>3, <1>5, OneSaverEach DEF Tracked, CleanIsTracked, TrackedAt
<1>8. CASE k \in DOMAIN u
    <2>1. Saving(k)' = {r}
        BY <1>4, <1>7, <1>8 DEF Saving, InFlight
    <2> QED
        BY <1>4, <1>8, <2>1 DEF TrackedAt
<1>9. CASE k \notin DOMAIN u
    <2>1. Saving(k)' = Saving(k)
        BY <1>2, <1>4, <1>5, <1>9 DEF Saving, InFlight
    <2>2. \A q \in Saving(k) : want'[q] = want[q]
        BY <1>5, <1>6 DEF Saving
    <2>3. Overlaid'[k] = Overlaid[k]
        BY <1>2, <1>3, <1>4, <1>9 DEF Overlaid
    <2> QED
        BY <1>2, <1>4, <1>6, <1>7, <1>9, <2>1, <2>2, <2>3 DEF TrackedAt
<1> QED
    BY <1>8, <1>9

\* Only a process that runs has saves.
LEMMA OnlyRunningSaves ==
    ASSUME Tracked, Next
    PROVE  up' # "running" => \A r \in Reqs : ~InFlight(r)'
<1>1. ASSUME up' # "running", up = "running" PROVE Crash
    BY <1>1 DEF Next, Arrive, Submit, Step, LookUp, GetRow, KeepRow, FlushRow, InsertConflict,
                SaveFails, CommitSave, LoadPersisted, LoadFails, Boot
<1>2. ASSUME up # "running", up' # "running" PROVE \A r \in Reqs : ~InFlight(r)'
    <2>1. \A r \in Reqs : pc[r] = "idle"
        BY <1>2 DEF Tracked, CleanIsTracked, InFlight
    <2> QED
        BY <1>2, <2>1 DEF Next, Arrive, Submit, Step, LookUp, GetRow, KeepRow, FlushRow,
               InsertConflict, SaveFails, CommitSave, LoadPersisted, LoadFails, Boot, Crash,
               InFlight, saves
<1>3. CASE Crash
    BY <1>3 DEF Crash, InFlight
<1> QED
    BY <1>1, <1>2, <1>3

LEMMA TrackedNext == Tracked /\ [MCNext]_<<vars, clean, same>> => Tracked'
<1> SUFFICES ASSUME Tracked, [MCNext]_<<vars, clean, same>> PROVE Tracked'
    OBVIOUS
<1>1. Full'
    BY FullNext DEF Tracked
<1>2. CASE UNCHANGED <<vars, clean, same>>
    BY <1>1, <1>2 DEF vars, Tracked, CleanIsTracked, Saving, InFlight, Overlaid
<1>3. CASE MCNext
    <2>1. ASSUME NEW k \in clean' PROVE TrackedAt(k)' /\ k \in Keys /\ up' = "running"
        <3>1. CASE LoadPersisted
            <4>1. k \in Keys /\ up' = "running" /\ up # "running"
                BY <1>3, <2>1, <3>1 DEF MCNext, LoadPersisted
            <4>2. Saving(k)' = {}
                BY <3>1, <4>1 DEF LoadPersisted, saves, Saving, InFlight, Tracked, CleanIsTracked
            <4>3. Overlaid'[k] = memory'[k]
                BY <3>1, <4>1 DEF LoadPersisted, Overlaid
            <4> QED
                BY <4>1, <4>2, <4>3 DEF TrackedAt
        <3>2. CASE ~LoadPersisted
            <4>1. k \in clean /\ up' = "running" /\ k \in Keys /\ up = "running"
                BY <1>3, <3>2, CleanStays DEF Tracked, CleanIsTracked
            <4>2. ~LoadFails /\ ~Boot /\ ~Crash
                BY <4>1 DEF LoadFails, Boot, Crash
            <4>3. ASSUME NEW r \in Reqs, Arrive(r) PROVE TrackedAt(k)'
                BY <1>3, <4>3, TrackedSubmit
            <4>4. ASSUME NEW r \in Reqs, Step(r) \/ SaveFails(r) PROVE TrackedAt(k)'
                BY <1>3, <4>4, TrackedStep, TrackedEnd DEF Step
            <4> QED
                BY <1>3, <3>2, <4>1, <4>2, <4>3, <4>4 DEF MCNext, Next
        <3> QED
            BY <3>1, <3>2
    <2>2. CleanIsTracked'
        BY <1>3, <2>1, OnlyRunningSaves DEF CleanIsTracked, TrackedAt, MCNext
    <2> QED
        BY <1>1, <2>2 DEF Tracked
<1> QED
    BY <1>2, <1>3

\* While saves of other settings overlap, fail or commit, a setting whose own
\* saves neither overlapped nor failed is, between them, the same in the settings
\* object and after a restart: update_settings assigns what save_setting_updates
\* writes, and load_persisted_settings mends what disagreed before.
THEOREM CleanSettingsAreRestored == MCSpec => []CleanSettingsAgree
<1>1. Tracked => CleanSettingsAgree
    BY DEF Tracked, CleanIsTracked, CleanSettingsAgree
<1> QED
    BY <1>1, TrackedInit, TrackedNext, PTL DEF MCSpec
=============================================================================
