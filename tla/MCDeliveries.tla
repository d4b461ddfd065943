---------------------------- MODULE MCDeliveries ----------------------------
(***************************************************************************)
(* Deliveries on a small instance.  An auxiliary variable remembers        *)
(* whether the requests have, so far, been handled one at a time.          *)
(***************************************************************************)
EXTENDS Deliveries

VARIABLE serial     \* no two requests overlapped, and the server never crashed

MCInit == Init /\ serial = TRUE

MCNext ==
    /\ Next
    /\ serial' = /\ serial
                 /\ ~Crash
                 /\ Cardinality({r \in Reqs : InFlight(r)'}) <= 1

MCSpec == MCInit /\ [][MCNext]_<<vars, serial>> /\ Fairness

\* Requests that do not overlap, whatever they change, leave the schedule with
\* exactly the row its settings call for.
SerialRebuildsReconcile ==
    serial /\ stage = "live" /\ (\A r \in Reqs : ~InFlight(r)) =>
        \E r \in Reqs \cup {Origin} : deliveries = Rows(r, config)
=============================================================================
