----------------------------- MODULE MCAccounts -----------------------------
(***************************************************************************)
(* Accounts on a small instance: an administrator and a user whom the      *)
(* directory knows under another address than he logs in with.             *)
(***************************************************************************)
EXTENDS WatchedAccounts

CONSTANTS adm, uid, rob, MaxInFlight, MaxFailures

Symmetry == Permutations(Logins) \cup Permutations(Admins)
            \cup Permutations(Ids) \cup Permutations(Passwords)

MCMailOf == (adm :> NoMail) @@ (uid :> rob)

VARIABLE focus  \* what this behaviour is about: logins against the clock, or
                \* administrators, and logins among them

MCInit ==
    /\ WatchedInit
    /\ focus \in {"clock", "people"}

\* Bounds: the number of requests in flight at the same time; the number of
\* failures remembered; and each behaviour keeps to its focus.
Bounded ==
    /\ \A j, k \in Names : j # k => Len(failures[j]) + Len(failures[k]) <=
            IF focus = "clock" THEN MaxFailures ELSE 1
    /\ Cardinality({l \in Logins : login[l].pc # "idle"})
       + Cardinality({a \in Admins : request[a].pc # "idle"}) <= MaxInFlight
    /\ focus = "clock" => \A a \in Admins : request[a].pc = "idle"
    /\ focus = "people" => now = 0

\* What SomeAdminIsLeft and FewRightPasswordsRefused no longer speak about is
\* not explored further.
OrderlyOnly == orderly

MCNext ==
    /\ WatchedNext
    /\ UNCHANGED focus
    /\ Bounded'
    /\ focus = "clock" => tokens \subseteq tokens'

MCSpec == MCInit /\ [][MCNext]_<<watchedVars, focus>>
=============================================================================
