------------------------------ MODULE Settings ------------------------------
(***************************************************************************)
(* The runtime settings that administrators edit.  They are kept twice: in *)
(* the settings object, which every part of the program reads, and in the  *)
(* app_settings table, from which a restart reloads them.  A save assigns  *)
(* the whole form to the object first and then writes the table row by     *)
(* row, in the order of the form, with an await at each row.               *)
(*                                                                         *)
(* What PostgreSQL and the ORM contribute: READ COMMITTED; each row is     *)
(* flushed before the next one is read, an UPDATE only if the value        *)
(* differs from what was loaded; a flushed row is held to the end of the   *)
(* transaction, and an INSERT waits for another one of the same key and    *)
(* then fails if that was committed; a rollback undoes all rows.           *)
(***************************************************************************)
EXTENDS Naturals, FiniteSets

CONSTANTS Reqs,     \* who saves: each makes one save at a time
          NumKeys,  \* how many settings may be persisted
          Forms,    \* the settings of each form
          Optional, \* those a form leaves out when they are blank
          Values,   \* values of settings
          Env,      \* the value that the environment gives
          Nobody    \* the holder of a free row

ASSUME ReqsAssumption == Nobody \notin Reqs
ASSUME KeysAssumption == NumKeys \in Nat /\ Optional \subseteq 1..NumKeys
ASSUME FormsAssumption ==
    Forms \subseteq SUBSET (1..NumKeys) /\ \A f \in Forms : ~(f \subseteq Optional)
ASSUME ValuesAssumption == Env \in Values

VARIABLES
    memory,     \* the settings object
    table,      \* app_settings, as committed: key -> text or NoRow
    holder,     \* the save whose open transaction has written a row
    up,         \* the process: "down", "starting" or "running"
    pc,         \* where the save of each stands
    want,       \* what it is to write: a function from keys to values
    todo,       \* the keys it has not looked up yet
    current,    \* the key it looked up last
    loaded,     \* the text its session loaded for that key, or NoRow
    outcome     \* what the client was told last

vars == <<memory, table, holder, up, pc, want, todo, current, loaded, outcome>>

Keys == 1..NumKeys

\* A row holds text; the caster of its key turns the text into the value again.
Serialize(v) == [text |-> v]
Cast(t) == t.text
Texts == {Serialize(v) : v \in Values}
NoRow == [none |-> TRUE]

Nothing == [k \in {} |-> Env]

\* The updates that form f, filled in at will, comes to.
Updates(f) == UNION {[D -> Values] : D \in {f \ B : B \in SUBSET (f \cap Optional)}}

Init ==
    /\ table \in [Keys -> Texts \cup {NoRow}]
    /\ memory = [k \in Keys |-> Env]
    /\ holder = [k \in Keys |-> Nobody]
    /\ up = "starting"
    /\ pc = [r \in Reqs |-> "idle"]
    /\ want = [r \in Reqs |-> Nothing]
    /\ todo = [r \in Reqs |-> {}]
    /\ current = [r \in Reqs |-> 0]
    /\ loaded = [r \in Reqs |-> NoRow]
    /\ outcome = [r \in Reqs |-> "none"]

saves == <<pc, want, todo, current, loaded, outcome>>

-----------------------------------------------------------------------------
(* Start and end of the process.                                           *)

\* load_persisted_settings lays the rows over what the environment gave.
Overlaid == [k \in Keys |-> IF table[k] = NoRow THEN memory[k] ELSE Cast(table[k])]

LoadPersisted ==
    /\ up = "starting"
    /\ up' = "running"
    /\ memory' = Overlaid
    /\ UNCHANGED <<table, holder, saves>>

\* If the database does not answer, the lifespan logs it and goes on.
LoadFails ==
    /\ up = "starting"
    /\ up' = "running"
    /\ UNCHANGED <<memory, table, holder, saves>>

InFlight(r) == pc[r] # "idle"

Crash ==
    /\ up # "down"
    /\ up' = "down"
    /\ memory' = [k \in Keys |-> Env]
    /\ holder' = [k \in Keys |-> Nobody]
    /\ pc' = [r \in Reqs |-> "idle"]
    /\ outcome' = [r \in Reqs |-> IF InFlight(r) THEN "lost" ELSE outcome[r]]
    /\ want' = [r \in Reqs |-> Nothing]
    /\ todo' = [r \in Reqs |-> {}]
    /\ current' = [r \in Reqs |-> 0]
    /\ loaded' = [r \in Reqs |-> NoRow]
    /\ UNCHANGED table

Boot ==
    /\ up = "down"
    /\ up' = "starting"
    /\ UNCHANGED <<memory, table, holder, saves>>

-----------------------------------------------------------------------------
(* update_settings and save_setting_updates.                               *)

\* Mutant: a blank optional field is written to the row of its key as well.
Submit_BlankToo(r, f, u) ==
    /\ up = "running"
    /\ pc[r] = "idle"
    /\ memory' = [k \in Keys |-> IF k \in DOMAIN u THEN u[k] ELSE memory[k]]
    /\ want' = [want EXCEPT ![r] = [k \in f |-> IF k \in DOMAIN u THEN u[k] ELSE Env]]
    /\ todo' = [todo EXCEPT ![r] = f]
    /\ pc' = [pc EXCEPT ![r] = "lookup"]
    /\ outcome' = [outcome EXCEPT ![r] = "none"]
    /\ UNCHANGED <<table, holder, up, current, loaded>>

\* The handler assigns the updates u of form f to the object, all at once.
Submit(r, f, u) ==
    /\ up = "running"
    /\ pc[r] = "idle"
    /\ memory' = [k \in Keys |-> IF k \in DOMAIN u THEN u[k] ELSE memory[k]]
    /\ want' = [want EXCEPT ![r] = u]
    /\ todo' = [todo EXCEPT ![r] = DOMAIN u]
    /\ pc' = [pc EXCEPT ![r] = "lookup"]
    /\ outcome' = [outcome EXCEPT ![r] = "none"]
    /\ UNCHANGED <<table, holder, up, current, loaded>>

\* db.get of key k.
GetRow(r, k) ==
    /\ pc[r] = "lookup"
    /\ current' = [current EXCEPT ![r] = k]
    /\ loaded' = [loaded EXCEPT ![r] = table[k]]
    /\ todo' = [todo EXCEPT ![r] = @ \ {k}]
    /\ pc' = [pc EXCEPT ![r] = "flush"]
    /\ UNCHANGED <<memory, table, holder, up, want, outcome>>

\* Mutant: the updates are visited in no particular order.
LookUp_AnyOrder(r) == \E k \in todo[r] : GetRow(r, k)

\* The updates are visited in the order in which the handler collects them.
LookUp(r) == \E k \in todo[r] : (\A j \in todo[r] : k <= j) /\ GetRow(r, k)

\* On to the next row, or to the commit.
Proceed(r) ==
    /\ pc' = [pc EXCEPT ![r] = IF todo[r] = {} THEN "commit" ELSE "lookup"]
    /\ current' = [current EXCEPT ![r] = 0]
    /\ loaded' = [loaded EXCEPT ![r] = NoRow]

Changed(r) == loaded[r] # Serialize(want[r][current[r]])

\* The row already says so: there is nothing to flush.
KeepRow(r) ==
    /\ pc[r] = "flush"
    /\ ~Changed(r)
    /\ Proceed(r)
    /\ UNCHANGED <<memory, table, holder, up, want, todo, outcome>>

\* There was no row, and now there is one.
Duplicate(r) == loaded[r] = NoRow /\ table[current[r]] # NoRow

\* The UPDATE or INSERT of the current row, once nobody else holds it.
FlushRow(r) ==
    /\ pc[r] = "flush"
    /\ Changed(r)
    /\ holder[current[r]] = Nobody
    /\ ~Duplicate(r)
    /\ holder' = [holder EXCEPT ![current[r]] = r]
    /\ Proceed(r)
    /\ UNCHANGED <<memory, table, up, want, todo, outcome>>

Released(r) == [k \in Keys |-> IF holder[k] = r THEN Nobody ELSE holder[k]]

\* The client is answered; the session is closed.
Answer(r, result) ==
    /\ pc' = [pc EXCEPT ![r] = "idle"]
    /\ outcome' = [outcome EXCEPT ![r] = result]
    /\ want' = [want EXCEPT ![r] = Nothing]
    /\ todo' = [todo EXCEPT ![r] = {}]
    /\ current' = [current EXCEPT ![r] = 0]
    /\ loaded' = [loaded EXCEPT ![r] = NoRow]

\* Mutant: a duplicate is taken for a setting that somebody has just saved.
InsertConflict_Kept(r) ==
    /\ pc[r] = "flush"
    /\ Changed(r)
    /\ holder[current[r]] = Nobody
    /\ Duplicate(r)
    /\ Proceed(r)
    /\ UNCHANGED <<memory, table, holder, up, want, todo, outcome>>

\* Two first saves of one setting: IntegrityError, and nothing is saved.
InsertConflict(r) ==
    /\ pc[r] = "flush"
    /\ Changed(r)
    /\ holder[current[r]] = Nobody
    /\ Duplicate(r)
    /\ Answer(r, "error")
    /\ holder' = Released(r)
    /\ UNCHANGED <<memory, table, up>>

\* Mutant: a failed save keeps its rows.
SaveFails_Leaking(r) ==
    /\ InFlight(r)
    /\ Answer(r, "error")
    /\ UNCHANGED <<memory, table, holder, up>>

\* The database fails a statement or the commit.  The object stays as it is.
SaveFails(r) ==
    /\ InFlight(r)
    /\ Answer(r, "error")
    /\ holder' = Released(r)
    /\ UNCHANGED <<memory, table, up>>

\* The commit of all the rows that r has written.
CommitSave(r) ==
    /\ pc[r] = "commit"
    /\ table' = [k \in Keys |->
                    IF holder[k] = r THEN Serialize(want[r][k]) ELSE table[k]]
    /\ holder' = Released(r)
    /\ Answer(r, "ok")
    /\ UNCHANGED <<memory, up>>

-----------------------------------------------------------------------------

Arrive(r) == \E f \in Forms : \E u \in Updates(f) : Submit(r, f, u)

\* A step of a save that goes on; a failure of the database is not one.
Step(r) ==
    \/ LookUp(r)
    \/ KeepRow(r)
    \/ FlushRow(r)
    \/ InsertConflict(r)
    \/ CommitSave(r)

Next ==
    \/ \E r \in Reqs : Arrive(r)
    \/ \E r \in Reqs : Step(r)
    \/ \E r \in Reqs : SaveFails(r)
    \/ LoadPersisted
    \/ LoadFails
    \/ Crash
    \/ Boot

Spec == Init /\ [][Next]_vars

-----------------------------------------------------------------------------
(* Properties.                                                             *)

\* Every variable keeps its type; who holds a row has a transaction open.
TypeOK ==
    /\ memory \in [Keys -> Values]
    /\ table \in [Keys -> Texts \cup {NoRow}]
    /\ holder \in [Keys -> Reqs \cup {Nobody}]
    /\ \A k \in Keys : holder[k] # Nobody => InFlight(holder[k])
    /\ up \in {"down", "starting", "running"}
    /\ pc \in [Reqs -> {"idle", "lookup", "flush", "commit"}]
    /\ want \in [Reqs -> UNION {[D -> Values] : D \in SUBSET Keys}]
    /\ todo \in [Reqs -> SUBSET Keys]
    /\ current \in [Reqs -> Keys \cup {0}]
    /\ loaded \in [Reqs -> Texts \cup {NoRow}]
    /\ outcome \in [Reqs -> {"none", "ok", "error", "lost"}]

\* The save r waits for a row that the open transaction of q has written.
WaitsFor(r, q) ==
    pc[r] = "flush" /\ Changed(r) /\ holder[current[r]] = q

\* However many saves overlap, there are never some of which each waits for a
\* row that another one of them holds: everybody takes the rows in one order.
NoCircularWait ==
    \A S \in (SUBSET Reqs) \ {{}} : \E r \in S : \A q \in S : ~WaitsFor(r, q)

\* "Values are persisted to the app_settings table so they survive restarts"
\* (settings.py:86-87): when a save is answered with success, and no other is
\* under way or has failed, a restart would load what is in force for each of its
\* settings.
SavedSettingsSurviveRestart ==
    [][\A r \in Reqs :
          /\ outcome[r] # "ok" /\ outcome'[r] = "ok"
          /\ \A q \in Reqs \ {r} : ~InFlight(q) /\ outcome[q] \in {"none", "ok"}
          => \A k \in DOMAIN want[r] : memory'[k] = Overlaid'[k]]_vars
=============================================================================
