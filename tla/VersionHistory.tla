--------------------------- MODULE VersionHistory ---------------------------
(***************************************************************************)
(* What the version store of one report promises to its users: a log of    *)
(* entries numbered 1, 2, 3, ... to which entries are only ever appended,  *)
(* one at a time, and which disappears as a whole, once and for good, when *)
(* the report is deleted.  It says nothing of requests, transactions,      *)
(* locks or retries.                                                       *)
(***************************************************************************)
EXTENDS Naturals

CONSTANT Entry      \* what one version records

VARIABLES stage,    \* "unborn", "live" or "deleted"
          log       \* the history: a function from 1..n to Entry

hvars == <<stage, log>>

EmptyLog == [n \in {} |-> CHOOSE e \in Entry : TRUE]

\* The log l with the entry e written under the number n.
Extended(l, n, e) == [m \in (DOMAIN l) \cup {n} |-> IF m = n THEN e ELSE l[m]]

-----------------------------------------------------------------------------

\* A report that exists already may have been imported (no history) or have
\* been created together with its first version.
Init ==
    /\ stage \in {"unborn", "live"}
    /\ \/ log = EmptyLog
       \/ stage = "live" /\ \E e \in Entry : log = Extended(EmptyLog, 1, e)

\* The report comes into existence; its history is still empty.
Begin ==
    /\ stage = "unborn"
    /\ stage' = "live"
    /\ UNCHANGED log

\* One more entry, under the number that follows the last one.
Append ==
    /\ stage = "live"
    /\ \E n \in (DOMAIN log) \cup {0}, e \in Entry :
          /\ DOMAIN log = 1..n
          /\ log' = Extended(log, n + 1, e)
    /\ UNCHANGED stage

\* The report is deleted and its history with it.
Erase ==
    /\ stage = "live"
    /\ stage' = "deleted"
    /\ log' = EmptyLog

Next == Begin \/ Append \/ Erase

Spec == Init /\ [][Next]_hvars
=============================================================================
