------------------------------ MODULE Accounts ------------------------------
(***************************************************************************)
(* User accounts: login with its rate limit, the first login of a          *)
(* directory (LDAP) user, the tokens that later requests present, and the  *)
(* administration of users.                                                *)
(*                                                                         *)
(* A login runs without interruption up to its first select (Check), from  *)
(* there to the select of the directory's mail address (Verify; the calls  *)
(* to the directory block the event loop), to the commit of a new account  *)
(* (LookUp), and to its answer (Provision).  Other logins run in between.  *)
(* The window of failures is memory of the process and is lost by Restart. *)
(* Time is counted in ticks, Second of them to a second, because the       *)
(* clock of the limiter is finer than the Retry-After it announces.        *)
(***************************************************************************)
EXTENDS Naturals, Sequences, FiniteSets, SequencesExt

CONSTANTS
    Logins,       \* slots for login requests in flight
    Admins,       \* slots for requests of administrators in flight
    Names,        \* what is typed as e-mail address; also the limiter's key
    Mails,        \* addresses in the users table
    MailOf,       \* the address that the directory knows for a name
    Ids,          \* primary keys of users
    Passwords,
    SeedMail,     \* the address of the initial administrator
    NoMail, Nobody, NoUser,
    MaxAttempts, Window, Second,
    MaxTime       \* bound on the clock

ASSUME AccountsAssumption ==
    /\ IsFiniteSet(Logins) /\ Logins # {}
    /\ MaxAttempts \in Nat \ {0}
    /\ Window \in Nat \ {0}
    /\ Second \in Nat \ {0}
    /\ MaxTime \in Nat
    /\ MailOf \in [Names -> Mails \cup {NoMail}]
    /\ SeedMail \in Mails
    /\ Nobody \notin Ids
    /\ NoMail \notin Mails

\* Designers and viewers have the same rights here.
Roles == {"admin", "other"}

User == [mail : Mails, source : {"local", "ldap"}, role : Roles,
         active : BOOLEAN, password : Passwords \cup {Nobody}]

ASSUME NoUserAssumption == NoUser \notin User

VARIABLES
    users,      \* the users table
    failures,   \* the limiter's events for each key
    now,
    login,      \* per login: where it is, its name and password
    request,    \* per administrator's request: where it is, who asks, for what
    tokens      \* the subjects of the unexpired tokens

vars == <<users, failures, now, login, request, tokens>>

Idle == [pc |-> "idle", name |-> Nobody, password |-> Nobody]
NoRequest == [pc |-> "idle", op |-> "none", by |-> Nobody, admin |-> FALSE,
              target |-> Nobody, seen |-> NoUser, want |-> NoUser]

\* With it, that no two accounts have one address, and that the events of a key
\* are in the order of time.
TypeOK ==
    /\ users \in [Ids -> User \cup {NoUser}]
    /\ \A u, v \in Ids :
          u # v /\ users[u] # NoUser /\ users[v] # NoUser => users[u].mail # users[v].mail
    /\ now \in 0..MaxTime
    /\ failures \in [Names -> Seq(Nat)]
    /\ \A k \in Names : \A i, j \in DOMAIN failures[k] :
          failures[k][i] <= now /\ (i <= j => failures[k][i] <= failures[k][j])
    /\ login \in [Logins -> [pc : {"idle", "verify", "lookup", "provision"},
                             name : Names \cup {Nobody},
                             password : Passwords \cup {Nobody}]]
    /\ DOMAIN request = Admins
    /\ tokens \subseteq Mails

-----------------------------------------------------------------------------
(* The users table.                                                        *)

Rows == {u \in Ids : users[u] # NoUser}
Owner(m) == {u \in Rows : users[u].mail = m}
Free == Ids \ Rows

Account(m, src, r, p) ==
    [mail |-> m, source |-> src, role |-> r, active |-> TRUE, password |-> p]

\* Mutant: the address need not be new.
Insertable_NotUnique(m) == Free # {}

\* users.email is unique.
Insertable(m) == Owner(m) = {} /\ Free # {}

\* The user that a token stands for: its subject must still be the address of
\* an active account.
CurrentUser(m) == {u \in Owner(m) : users[u].active}

Init ==
    /\ users = [u \in Ids |-> NoUser]
    /\ failures = [k \in Names |-> <<>>]
    /\ now = 0
    /\ login = [l \in Logins |-> Idle]
    /\ request = [a \in Admins |-> NoRequest]
    /\ tokens = {}

\* lifespan: the initial administrator, unless the account is there already.
SeedAdmin ==
    /\ Insertable(SeedMail)
    /\ \E u \in Free, p \in Passwords :
          users' = [users EXCEPT ![u] = Account(SeedMail, "local", "admin", p)]
    /\ UNCHANGED <<failures, now, login, request, tokens>>

Tick ==
    /\ now < MaxTime
    /\ now' = now + 1
    /\ UNCHANGED <<users, failures, login, request, tokens>>

\* The process ends: requests in flight are lost, and so is the window.
Restart ==
    /\ failures' = [k \in Names |-> <<>>]
    /\ login' = [l \in Logins |-> Idle]
    /\ request' = [a \in Admins |-> NoRequest]
    /\ UNCHANGED <<users, now, tokens>>

-----------------------------------------------------------------------------
(* The rate limiter.                                                       *)

\* How many events have left the window at time t: they are the oldest ones,
\* which come first.
Expired(k, t) ==
    CHOOSE n \in 0..Len(failures[k]) :
        \A i \in DOMAIN failures[k] : i <= n <=> failures[k][i] + Window <= t

\* _prune at time t
Recent(k, t) == SubSeq(failures[k], Expired(k, t) + 1, Len(failures[k]))

\* The seconds a login of k must wait at time t, 0 if it may go on.
\* Mutant: the seconds are not rounded up.
RetryAfter_Truncated(k, t) ==
    LET events == Recent(k, t)
    IN  IF Len(events) < MaxAttempts THEN 0
        ELSE LET oldest == CHOOSE e \in ToSet(events) : \A f \in ToSet(events) : e <= f
             IN  Max({1, (Window - (t - oldest)) \div Second})

RetryAfter(k, t) ==
    LET events == Recent(k, t)
    IN  IF Len(events) < MaxAttempts THEN 0
        ELSE LET oldest == CHOOSE e \in ToSet(events) : \A f \in ToSet(events) : e <= f
             IN  Max({1, (Window - (t - oldest)) \div Second + 1})

\* Mutant: the limit is not looked at.
Check_Unlimited(l, k, p) ==
    /\ login[l].pc = "idle"
    /\ failures' = [failures EXCEPT ![k] = Recent(k, now)]
    /\ login' = [login EXCEPT ![l] = [pc |-> "verify", name |-> k, password |-> p]]
    /\ UNCHANGED <<users, now, request, tokens>>

\* login, up to the select of authenticate_user; Nobody stands for a password
\* that is nobody's.
Check(l, k, p) ==
    /\ login[l].pc = "idle"
    /\ failures' = [failures EXCEPT ![k] = Recent(k, now)]
    /\ login' = IF RetryAfter(k, now) > 0 THEN login
                ELSE [login EXCEPT ![l] = [pc |-> "verify", name |-> k, password |-> p]]
    /\ UNCHANGED <<users, now, request, tokens>>

-----------------------------------------------------------------------------
(* The end of a login.                                                     *)

\* The failure is recorded for the login's key.
Deny(l) ==
    /\ failures' = [failures EXCEPT ![login[l].name] = Append(@, now)]
    /\ login' = [login EXCEPT ![l] = Idle]
    /\ UNCHANGED tokens

\* The window is emptied and a token for account u issued, active or not.
Grant(l, u) ==
    /\ failures' = [failures EXCEPT ![login[l].name] = <<>>]
    /\ login' = [login EXCEPT ![l] = Idle]
    /\ tokens' = tokens \cup {users'[u].mail}

\* verify_password of a local account
Verified(l, u) ==
    /\ users[u].source = "local"
    /\ users[u].password = login[l].password /\ login[l].password # Nobody

\* Mutant: the address is not looked up before the account is made.
Verify_NoLookUp(l) ==
    /\ login[l].pc = "verify"
    /\ UNCHANGED <<users, now, request>>
    /\ LET found == {u \in Owner(login[l].name) : Verified(l, u)}
       IN  \/ \E u \in found : Grant(l, u)
           \/ found = {} /\ Deny(l)
           \/ /\ found = {}
              /\ MailOf[login[l].name] # NoMail
              /\ login' = [login EXCEPT ![l].pc = "provision"]
              /\ UNCHANGED <<failures, tokens>>

\* authenticate_user, and authenticate_ldap_user up to its select: the
\* directory accepts the login or not (or is not there at all).
Verify(l) ==
    /\ login[l].pc = "verify"
    /\ UNCHANGED <<users, now, request>>
    /\ LET found == {u \in Owner(login[l].name) : Verified(l, u)}
       IN  \/ \E u \in found : Grant(l, u)
           \/ found = {} /\ Deny(l)
           \/ /\ found = {}
              /\ MailOf[login[l].name] # NoMail
              /\ login' = [login EXCEPT ![l].pc = "lookup"]
              /\ UNCHANGED <<failures, tokens>>

\* The account with the directory's address: taken if it is the directory's.
LookUp(l) ==
    /\ login[l].pc = "lookup"
    /\ UNCHANGED <<users, now, request>>
    /\ LET found == Owner(MailOf[login[l].name])
       IN  \/ \E u \in found : users[u].source = "ldap" /\ Grant(l, u)
           \/ (\E u \in found : users[u].source # "ldap") /\ Deny(l)
           \/ /\ found = {}
              /\ login' = [login EXCEPT ![l].pc = "provision"]
              /\ UNCHANGED <<failures, tokens>>

\* The insert of the new account.  If another request was first it fails, the
\* handler takes the error for a wrong password.
Provision(l) ==
    /\ login[l].pc = "provision"
    /\ LET m == MailOf[login[l].name]
       IN  \/ /\ Insertable(m)
              /\ \E u \in Free :
                    /\ users' = [users EXCEPT ![u] = Account(m, "ldap", "other", Nobody)]
                    /\ Grant(l, u)
           \/ Owner(m) # {} /\ Deny(l) /\ UNCHANGED users
    /\ UNCHANGED <<now, request>>

\* A token expires.
Expire(m) ==
    /\ m \in tokens
    /\ tokens' = tokens \ {m}
    /\ UNCHANGED <<users, failures, now, login, request>>

-----------------------------------------------------------------------------
(* The administration of users.  A request selects the user of its token   *)
(* (Enter), then the account it is about (Load), and commits (Commit).     *)

\* What a request of each kind may ask for: the columns to change, with their
\* new values.  delete_user only marks the account inactive.
Changes ==
    [delete |->   {[active |-> FALSE]},
     password |-> {[password |-> p] : p \in Passwords},
     update |->   {[active |-> b] : b \in BOOLEAN}
             \cup {[role |-> r] : r \in Roles}
             \cup {[mail |-> m] : m \in Mails}
             \cup {[password |-> p] : p \in Passwords},
     create |->   {[mail |-> m, role |-> r, password |-> p] :
                       m \in Mails, r \in Roles, p \in Passwords}]

\* Only administrators pass, except that anyone may change a password.
Enter(a, m, op, want) ==
    /\ request[a].pc = "idle"
    /\ m \in tokens
    /\ \E u \in CurrentUser(m) :
          /\ op = "password" \/ users[u].role = "admin"
          /\ request' = [request EXCEPT ![a] =
                 [pc |-> IF op = "create" THEN "insert" ELSE "load", op |-> op,
                  by |-> u, admin |-> users[u].role = "admin",
                  target |-> Nobody, seen |-> NoUser, want |-> want]]
    /\ UNCHANGED <<users, failures, now, login, tokens>>

\* Mutant: administrators may delete themselves.
MayLoad_Self(q, u, p) ==
    CASE q.op = "delete" -> TRUE
      [] q.op = "password" -> (u = q.by \/ q.admin) /\ users[u].password = p /\ p # Nobody
      [] OTHER -> TRUE

\* change_password: one's own or, for administrators, anyone's, and only by
\* who knows the present one (an account of the directory has none).
MayLoad(q, u, p) ==
    CASE q.op = "delete" -> u # q.by
      [] q.op = "password" -> (u = q.by \/ q.admin) /\ users[u].password = p /\ p # Nobody
      [] OTHER -> TRUE

Load(a, u, p) ==
    /\ request[a].pc = "load"
    /\ u \in Rows
    /\ request' = [request EXCEPT ![a] =
           IF MayLoad(request[a], u, p)
           THEN [@ EXCEPT !.pc = "commit", !.target = u, !.seen = users[u]]
           ELSE NoRequest]
    /\ UNCHANGED <<users, failures, now, login, tokens>>

\* The UPDATE writes the columns that differ from the loaded ones.
Written(q) ==
    [c \in DOMAIN users[q.target] |->
        IF c \in DOMAIN q.want /\ q.want[c] # q.seen[c]
        THEN q.want[c] ELSE users[q.target][c]]

\* It fails if the address is another account's.
Commit(a) ==
    /\ request[a].pc = "commit"
    /\ LET q == request[a]
       IN  users' = IF Owner(Written(q).mail) \subseteq {q.target}
                    THEN [users EXCEPT ![q.target] = Written(q)]
                    ELSE users
    /\ request' = [request EXCEPT ![a] = NoRequest]
    /\ UNCHANGED <<failures, now, login, tokens>>

\* create_local_user; an address that is taken is answered with 409.
Insert(a) ==
    /\ request[a].pc = "insert"
    /\ LET w == request[a].want
       IN  \/ /\ Insertable(w.mail)
              /\ \E u \in Free :
                    users' = [users EXCEPT ![u] =
                                 Account(w.mail, "local", w.role, w.password)]
           \/ Owner(w.mail) # {} /\ UNCHANGED users
    /\ request' = [request EXCEPT ![a] = NoRequest]
    /\ UNCHANGED <<failures, now, login, tokens>>

-----------------------------------------------------------------------------
LoginStep(l) ==
    \/ \E k \in Names, p \in Passwords \cup {Nobody} : Check(l, k, p)
    \/ Verify(l)
    \/ LookUp(l)
    \/ Provision(l)

RequestStep(a) ==
    \/ \E m \in Mails, op \in DOMAIN Changes : \E want \in Changes[op] : Enter(a, m, op, want)
    \/ \E u \in Ids, p \in Passwords \cup {Nobody} : Load(a, u, p)
    \/ Commit(a)
    \/ Insert(a)

Next ==
    \/ SeedAdmin
    \/ Tick
    \/ Restart
    \/ \E l \in Logins : LoginStep(l)
    \/ \E a \in Admins : RequestStep(a)
    \/ \E m \in Mails : Expire(m)

Spec == Init /\ [][Next]_vars

-----------------------------------------------------------------------------
(* Properties.                                                             *)

InFlight(k) == {l \in Logins : login[l].pc # "idle" /\ login[l].name = k}

\* The limit is checked before the awaits of a login and its failure recorded
\* after them, so overlapping logins can exceed it, but only by as many as
\* there are besides the first: each was admitted below the limit.
FailuresBounded ==
    \A k \in Names :
        Len(Recent(k, now)) + Cardinality(InFlight(k))
            <= MaxAttempts - 1 + Cardinality(Logins)

\* Who waits as long as Retry-After says is let in, if the limit was reached
\* and not exceeded and nobody fails meanwhile; and it says at most one second
\* too much.
RetryAfterIsRight ==
    \A k \in Names :
        LET wait == RetryAfter(k, now)
        IN  Len(Recent(k, now)) = MaxAttempts =>
               /\ RetryAfter(k, now + wait * Second) = 0
               /\ wait > 1 => RetryAfter(k, now + (wait - 1) * Second - 1) > 0
=============================================================================
