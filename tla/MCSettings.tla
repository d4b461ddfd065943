----------------------------- MODULE MCSettings -----------------------------
(***************************************************************************)
(* Settings on a small instance, with two auxiliary variables for the      *)
(* properties.                                                             *)
(***************************************************************************)
EXTENDS Settings

VARIABLES
    clean,  \* the keys in which, since the last successful start, no two
            \* saves have overlapped and none has failed
    same    \* the keys whose row a save found as it was to be

Saving(k) == {r \in Reqs : InFlight(r) /\ k \in DOMAIN want[r]}

\* The step ends a save of k without success.
Spoilt(k) == \E r \in Saving(k) : outcome'[r] \in {"error", "lost"}

Found(r) ==
    {k \in DOMAIN want[r] : k = current'[r] /\ loaded'[r] = Serialize(want[r][k])}

MCInit == Init /\ clean = {} /\ same = [r \in Reqs |-> {}]

MCNext ==
    /\ Next
    /\ clean' = IF LoadPersisted THEN Keys
                ELSE {k \in clean : /\ Cardinality(Saving(k)') <= 1
                                    /\ ~Spoilt(k)
                                    /\ up' = "running"}
    /\ same' = [r \in Reqs |->
                   IF InFlight(r) /\ InFlight(r)' THEN same[r] \cup Found(r) ELSE {}]

MCSpec == MCInit /\ [][MCNext]_<<vars, clean, same>>

\* A setting whose saves have neither overlapped nor failed is, between them,
\* the same in memory and after a restart, whatever happened to other settings
\* and before the last start: forms do not disturb each other, a blank secret
\* stays what it was, and a restart mends every disagreement.
CleanSettingsAgree ==
    \A k \in clean : Saving(k) = {} => memory[k] = Overlaid[k]

\* A save is all or nothing: the table changes only in the step that answers a
\* save with success, and then it holds every value of the form, except perhaps
\* where the row already had that value when the save looked.
SaveIsAtomic ==
    /\ [][\A r \in Reqs :
             outcome[r] # "ok" /\ outcome'[r] = "ok" =>
                 \A k \in Keys :
                     IF k \in (DOMAIN want[r]) \ same[r]
                     THEN table'[k] = Serialize(want[r][k])
                     ELSE table'[k] = table[k]]_vars
    /\ [][table' # table => \E r \in Reqs : outcome[r] # "ok" /\ outcome'[r] = "ok"]_vars
=============================================================================
