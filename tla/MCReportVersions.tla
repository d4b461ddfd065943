-------------------------- MODULE MCReportVersions --------------------------
(***************************************************************************)
(* ReportVersions on a small instance.  An auxiliary variable remembers    *)
(* whether the requests have, so far, been handled one at a time.          *)
(***************************************************************************)
EXTENDS ReportVersions, TLC

VARIABLE serial     \* no two requests overlapped, and the server never crashed

MCInit == Init /\ serial = TRUE

MCNext ==
    /\ Next
    /\ serial' = /\ serial
                 /\ ~Crash
                 /\ Cardinality({r \in Reqs : InFlight(r)'}) <= 1

MCSpec == MCInit /\ [][MCNext]_<<vars, serial>> /\ Fairness

\* As long as requests do not overlap, whenever none is under way the report
\* holds the definition of the latest version in its history: no handler, and
\* no sequence of them, leaves the two apart.
SerialAgreement ==
    serial /\ stage = "live" /\ Numbers # {} /\ (\A r \in Reqs : ~InFlight(r)) =>
        report = versions[MaxNumber(Numbers)].def

Symmetry == Permutations(Reqs) \cup Permutations(Defs)
=============================================================================
