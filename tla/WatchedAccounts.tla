-------------------------- MODULE WatchedAccounts ---------------------------
(***************************************************************************)
(* Accounts with two variables that watch the steps and change nothing:    *)
(* they count the right passwords that are refused, and remember whether   *)
(* administrators were deleted or changed in ways that may leave none.     *)
(***************************************************************************)
EXTENDS Accounts

VARIABLES
    refused,    \* for each address, the right passwords refused to its user
    orderly     \* no two deletions have overlapped, no address was changed,
                \* and update_user has not taken an administrator's rights

watchedVars == <<vars, refused, orderly>>

WatchedInit ==
    /\ Init
    /\ refused = [m \in Mails |-> 0]
    /\ orderly = TRUE

Deleting == {a \in Admins : request[a].op = "delete"}

\* The directory accepted login l and the step refuses it.
Refused(l) ==
    /\ login[l].pc \in {"lookup", "provision"}
    /\ login'[l] = Idle /\ Len(failures'[login[l].name]) > Len(failures[login[l].name])

Weakened(u) ==
    \/ users'[u].role # users[u].role
    \/ users[u].active /\ ~users'[u].active

Disorder ==
    \/ Cardinality(Deleting') > 1
    \/ \E a \in Admins :
          /\ request[a].pc = "commit" /\ request'[a].pc = "idle"
          /\ request[a].op = "update"
          /\ \/ users[request[a].target].mail # users'[request[a].target].mail
             \/ users[request[a].target].role = "admin" /\ Weakened(request[a].target)

Watch ==
    /\ refused' = [m \in Mails |->
           refused[m] + Cardinality({l \in Logins : Refused(l) /\ MailOf[login[l].name] = m
                                         /\ \E u \in Owner(m) : users[u].source = "ldap"})]
    /\ orderly' = (orderly /\ ~Disorder)

WatchedNext == Next /\ Watch

WatchedSpec == WatchedInit /\ [][WatchedNext]_watchedVars

-----------------------------------------------------------------------------
\* A directory user whose first logins overlap is refused although the
\* password is right, but only then: no more often than there are others at
\* the same time, and never again once the account exists.
FewRightPasswordsRefused ==
    orderly => \A m \in Mails : refused[m] < Cardinality(Logins)

\* Nobody can delete himself, hence as long as deletions do not overlap they
\* leave an active administrator.  (Two administrators may delete each other.)
SomeAdminIsLeft ==
    orderly /\ (\E u \in Rows : users[u].role = "admin") =>
        \E u \in Rows : users[u].role = "admin" /\ users[u].active
=============================================================================
