--------------------------- MODULE AccountsProofs ---------------------------
(***************************************************************************)
(* Logins and administrators, however many there are.  The invariant says  *)
(* of every login in flight that it gave a name (Signed) and of every      *)
(* request that it asks for what its kind may ask for (Asked).             *)
(*                                                                         *)
(* The window of a key is pruned from the front (PrunedRight), so that the *)
(* wait announced ends when its oldest event leaves.  Its failures and its *)
(* logins in flight are counted together (Counted): no step but a Check    *)
(* below the limit, where the count cannot reach it, adds to the sum.      *)
(*                                                                         *)
(* Right passwords are refused only to logins that are already at their    *)
(* insert when the account is made (Refusals).  Whoever is about to delete *)
(* is an active administrator other than the one to be deleted, as long as *)
(* only one deletes at a time (Deletions).                                 *)
(***************************************************************************)
EXTENDS WatchedAccounts, FiniteSetTheorems, WellFoundedInduction, TLAPS

\* Whoever is past the rate limit gave a name, and whoever is past the directory
\* has an address there.
Signed ==
    \A l \in Logins : login[l].pc # "idle" =>
        /\ login[l].name \in Names
        /\ login[l].pc \in {"lookup", "provision"} => MailOf[login[l].name] # NoMail

Ops == {"create", "update", "delete", "password"}
Wants == UNION {Changes[op] : op \in Ops}

Request ==
    [pc : {"idle", "load", "commit", "insert"}, op : Ops \cup {"none"},
     by : Ids \cup {Nobody}, admin : BOOLEAN, target : Ids \cup {Nobody},
     seen : User \cup {NoUser}, want : Wants \cup {NoUser}]

\* A request that is to be committed wants what its operation may change, of an
\* account there is.
Asked ==
    /\ request \in [Admins -> Request]
    /\ \A a \in Admins :
          /\ request[a].pc # "idle" => request[a].want \in Changes[request[a].op]
          /\ request[a].pc = "insert" => request[a].op = "create"
          /\ request[a].pc \in {"load", "commit"} => request[a].op \in Ops \ {"create"}
          /\ request[a].pc = "commit" => request[a].target \in Rows /\ request[a].seen \in User

Core == TypeOK /\ Signed /\ Asked

-----------------------------------------------------------------------------
(* The window of the rate limiter.                                         *)

\* In a sequence of events in the order of time the old ones come first.
LEMMA OldOnesFirst ==
    ASSUME NEW f \in Seq(Nat), NEW t \in Nat,
           \A i, j \in DOMAIN f : i <= j => f[i] <= f[j]
    PROVE  \E n \in 0..Len(f) : \A i \in DOMAIN f : i <= n <=> f[i] + Window <= t
<1> DEFINE Kept == {i \in DOMAIN f : ~(f[i] + Window <= t)}
<1> Window \in Nat /\ Len(f) \in Nat /\ DOMAIN f = 1..Len(f)
    BY AccountsAssumption
<1>1. CASE Kept = {}
    <2>1. \A i \in DOMAIN f : i <= Len(f) <=> f[i] + Window <= t
        BY <1>1
    <2>2. Len(f) \in 0..Len(f)
        OBVIOUS
    <2> QED
        BY <2>1, <2>2
<1>2. CASE Kept # {}
    <2> DEFINE Less == OpToRel(<, Nat)
    <2>1. IsWellFoundedOn(Less, Nat)
        BY NatLessThanWellFounded
    <2>2. \A m, n \in Nat : m < n => <<m, n>> \in Less
        BY DEF OpToRel
    <2>3. Kept \subseteq Nat
        OBVIOUS
    <2>4. \E m \in Kept : \A n \in Kept : <<n, m>> \notin Less
        <3> HIDE DEF Kept, Less
        <3> QED
            BY <1>2, <2>1, <2>3, WFMin
    <2>5. PICK m \in Kept : \A n \in Kept : <<n, m>> \notin Less
        BY <2>4
    <2>6. m \in 1..Len(f) /\ m \in Kept /\ \A n \in Kept : m <= n
        <3>1. m \in 1..Len(f) /\ m \in Kept
            BY <2>5
        <3>2. ASSUME NEW n \in Kept PROVE m <= n
            <4>1. n \in Nat /\ m \in Nat /\ ~(n < m)
                <5> HIDE DEF Kept, Less
                <5> QED
                    BY <2>2, <2>3, <2>5, <3>1
            <4> QED
                BY <4>1
        <3> QED
            BY <3>1, <3>2
    <2>7. \A i \in DOMAIN f : i <= m - 1 <=> f[i] + Window <= t
        <3> SUFFICES ASSUME NEW i \in DOMAIN f PROVE i <= m - 1 <=> f[i] + Window <= t
            OBVIOUS
        <3>1. f[i] \in Nat /\ f[m] \in Nat /\ ~(f[m] + Window <= t)
            <4>1. \A j \in DOMAIN f : f[j] \in Nat
                OBVIOUS
            <4> QED
                BY <2>6, <4>1
        <3>2. CASE i <= m - 1
            BY <2>6, <3>2
        <3>3. CASE m <= i
            <4>1. f[m] <= f[i]
                BY <2>6, <3>3
            <4> QED
                BY <2>6, <3>1, <3>3, <4>1
        <3> QED
            BY <2>6, <3>2, <3>3
    <2>8. m - 1 \in 0..Len(f)
        BY <2>6
    <2> QED
        BY <2>7, <2>8
<1> QED
    BY <1>1, <1>2

\* _prune drops the events that left the window and no others.
PrunedRight ==
    \A k \in Names, t \in Nat :
        /\ Expired(k, t) \in 0..Len(failures[k])
        /\ \A i \in DOMAIN failures[k] : i <= Expired(k, t) <=> failures[k][i] + Window <= t
        /\ Recent(k, t) \in Seq(Nat)
        /\ Len(Recent(k, t)) = Len(failures[k]) - Expired(k, t)
        /\ \A i \in 1..Len(Recent(k, t)) : Recent(k, t)[i] = failures[k][Expired(k, t) + i]

LEMMA PruneIsRight == TypeOK => PrunedRight
<1> SUFFICES ASSUME TypeOK, NEW k \in Names, NEW t \in Nat
             PROVE  /\ Expired(k, t) \in 0..Len(failures[k])
                    /\ \A i \in DOMAIN failures[k] :
                          i <= Expired(k, t) <=> failures[k][i] + Window <= t
                    /\ Recent(k, t) \in Seq(Nat)
                    /\ Len(Recent(k, t)) = Len(failures[k]) - Expired(k, t)
                    /\ \A i \in 1..Len(Recent(k, t)) :
                          Recent(k, t)[i] = failures[k][Expired(k, t) + i]
    BY DEF PrunedRight
<1>1. failures[k] \in Seq(Nat)
    BY DEF TypeOK
<1>2. \E n \in 0..Len(failures[k]) :
          \A i \in DOMAIN failures[k] : i <= n <=> failures[k][i] + Window <= t
    BY <1>1, OldOnesFirst DEF TypeOK
<1>3. /\ Expired(k, t) \in 0..Len(failures[k])
      /\ \A i \in DOMAIN failures[k] : i <= Expired(k, t) <=> failures[k][i] + Window <= t
    BY <1>2 DEF Expired
<1>4. \A s \in Seq(Nat) : \A n \in 0..Len(s) :
          /\ SubSeq(s, n + 1, Len(s)) \in Seq(Nat)
          /\ Len(SubSeq(s, n + 1, Len(s))) = Len(s) - n
          /\ \A i \in 1..(Len(s) - n) : SubSeq(s, n + 1, Len(s))[i] = s[n + i]
    OBVIOUS
<1> QED
    BY <1>1, <1>3, <1>4 DEF Recent

-----------------------------------------------------------------------------
(* The users table.                                                        *)

LEMMA AccountType ==
    ASSUME NEW m \in Mails, NEW s \in {"local", "ldap"}, NEW r \in Roles,
           NEW p \in Passwords \cup {Nobody}
    PROVE  /\ Account(m, s, r, p) \in User
           /\ Account(m, s, r, p).mail = m /\ Account(m, s, r, p).source = s
           /\ Account(m, s, r, p).role = r /\ Account(m, s, r, p).active
BY DEF Account, User

\* What a request for another account's columns wants is one column.
LEMMA OneColumn ==
    ASSUME NEW op \in Ops \ {"create"}, NEW w \in Changes[op]
    PROVE  \/ op # "password" /\ \E b \in BOOLEAN : w = [active |-> b]
           \/ op = "update" /\ \E r \in Roles : w = [role |-> r]
           \/ op = "update" /\ \E m \in Mails : w = [mail |-> m]
           \/ op # "delete" /\ \E p \in Passwords : w = [password |-> p]
<1>1. CASE op = "delete"
    <2>1. Changes["delete"] = {[active |-> FALSE]}
        BY DEF Changes
    <2> QED
        BY <1>1, <2>1
<1>2. CASE op = "password"
    <2>1. Changes["password"] = {[password |-> p] : p \in Passwords}
        BY DEF Changes
    <2> QED
        BY <1>2, <2>1
<1>3. CASE op = "update"
    <2> DEFINE Active == {[active |-> b] : b \in BOOLEAN}
               Role == {[role |-> r] : r \in Roles}
               Mail == {[mail |-> m] : m \in Mails}
               Password == {[password |-> p] : p \in Passwords}
    <2>1. Changes["update"] = Active \cup Role \cup Mail \cup Password
        BY DEF Changes
    <2>2. w \in Active \/ w \in Role \/ w \in Mail \/ w \in Password
        <3> HIDE DEF Active, Role, Mail, Password
        <3> QED
            BY <1>3, <2>1
    <2>3. w \in Active => \E b \in BOOLEAN : w = [active |-> b]
        OBVIOUS
    <2>4. w \in Role => \E r \in Roles : w = [role |-> r]
        OBVIOUS
    <2>5. w \in Mail => \E m \in Mails : w = [mail |-> m]
        OBVIOUS
    <2>6. w \in Password => \E p \in Passwords : w = [password |-> p]
        OBVIOUS
    <2> QED
        BY <1>3, <2>2, <2>3, <2>4, <2>5, <2>6
<1> QED
    BY <1>1, <1>2, <1>3 DEF Ops

LEMMA AllColumns ==
    ASSUME NEW w \in Changes["create"]
    PROVE  w.mail \in Mails /\ w.role \in Roles /\ w.password \in Passwords
<1>1. Changes["create"] = {[mail |-> m, role |-> r, password |-> p] :
                               m \in Mails, r \in Roles, p \in Passwords}
    BY DEF Changes
<1> QED
    BY <1>1

\* Only an update changes an address or a role, a new password changes nothing
\* else, and nothing changes where an account comes from.
LEMMA WrittenColumns ==
    ASSUME NEW q, q.op \in Ops \ {"create"}, q.want \in Changes[q.op],
           users[q.target] \in User
    PROVE  /\ Written(q) \in User
           /\ Written(q).source = users[q.target].source
           /\ q.op # "update" => /\ Written(q).mail = users[q.target].mail
                                 /\ Written(q).role = users[q.target].role
           /\ q.op = "password" => Written(q).active = users[q.target].active
<1> DEFINE u == users[q.target]
           op == q.op
           want == q.want
<1>1. CASE op # "password" /\ \E b \in BOOLEAN : want = [active |-> b]
    BY <1>1 DEF Written, User
<1>2. CASE op = "update" /\ \E r \in Roles : want = [role |-> r]
    BY <1>2 DEF Written, User
<1>3. CASE op = "update" /\ \E m \in Mails : want = [mail |-> m]
    BY <1>3 DEF Written, User
<1>4. CASE op # "delete" /\ \E p \in Passwords : want = [password |-> p]
    BY <1>4 DEF Written, User
<1> QED
    BY <1>1, <1>2, <1>3, <1>4, OneColumn

UsersType ==
    /\ users \in [Ids -> User \cup {NoUser}]
    /\ \A u, v \in Ids :
          u # v /\ users[u] # NoUser /\ users[v] # NoUser => users[u].mail # users[v].mail

\* A row is written whose address is nobody else's.
LEMMA UsersWritten ==
    ASSUME UsersType, NEW u \in Ids, NEW w \in User, Owner(w.mail) \subseteq {u},
           users' = [users EXCEPT ![u] = w]
    PROVE  UsersType'
<1>1. users' \in [Ids -> User \cup {NoUser}]
    BY DEF UsersType
<1>2. \A v \in Ids : v # u /\ users[v] # NoUser => users[v].mail # w.mail
    BY DEF Owner, Rows
<1> QED
    BY <1>1, <1>2 DEF UsersType

LEMMA UsersNext == Core /\ [Next]_vars => UsersType'
<1> SUFFICES ASSUME Core, [Next]_vars PROVE UsersType'
    OBVIOUS
<1>t. UsersType
    BY DEF Core, TypeOK, UsersType
<1>1. CASE UNCHANGED users
    BY <1>t, <1>1 DEF UsersType
<1>2. CASE SeedAdmin
    <2>1. PICK u \in Free, p \in Passwords :
              users' = [users EXCEPT ![u] = Account(SeedMail, "local", "admin", p)]
        BY <1>2 DEF SeedAdmin
    <2>2. /\ Account(SeedMail, "local", "admin", p) \in User
          /\ Account(SeedMail, "local", "admin", p).mail = SeedMail
        BY AccountType, AccountsAssumption DEF Roles
    <2> QED
        BY <1>t, <1>2, <2>1, <2>2, UsersWritten DEF SeedAdmin, Insertable, Free
<1>3. ASSUME NEW l \in Logins, Provision(l) PROVE UsersType'
    <2> DEFINE m == MailOf[login[l].name]
    <2>1. CASE UNCHANGED users
        BY <1>1, <2>1
    <2>2. CASE ~UNCHANGED users
        <3>1. PICK u \in Free : users' = [users EXCEPT ![u] = Account(m, "ldap", "other", Nobody)]
            BY <1>3, <2>2 DEF Provision
        <3>2. Insertable(m) /\ m \in Mails
            BY <1>3, <2>2, AccountsAssumption DEF Provision, Core, Signed
        <3>3. /\ Account(m, "ldap", "other", Nobody) \in User
              /\ Account(m, "ldap", "other", Nobody).mail = m
            BY <3>2, AccountType DEF Roles
        <3> HIDE DEF m
        <3> QED
            BY <1>t, <3>1, <3>2, <3>3, UsersWritten DEF Insertable, Free
    <2> QED
        BY <2>1, <2>2
<1>4. ASSUME NEW a \in Admins, Insert(a) PROVE UsersType'
    <2> DEFINE w == request[a].want
    <2>1. CASE UNCHANGED users
        BY <1>1, <2>1
    <2>2. CASE ~UNCHANGED users
        <3>1. PICK u \in Free :
                  users' = [users EXCEPT ![u] = Account(w.mail, "local", w.role, w.password)]
            BY <1>4, <2>2 DEF Insert
        <3>2. Insertable(w.mail)
            BY <1>4, <2>2 DEF Insert
        <3>3. w.mail \in Mails /\ w.role \in Roles /\ w.password \in Passwords
            BY <1>4, AllColumns DEF Insert, Core, Asked
        <3>4. /\ Account(w.mail, "local", w.role, w.password) \in User
              /\ Account(w.mail, "local", w.role, w.password).mail = w.mail
            BY <3>3, AccountType
        <3> HIDE DEF w
        <3> QED
            BY <1>t, <3>1, <3>2, <3>4, UsersWritten DEF Insertable, Free
    <2> QED
        BY <2>1, <2>2
<1>5. ASSUME NEW a \in Admins, Commit(a) PROVE UsersType'
    <2> DEFINE q == request[a]
    <2>1. CASE UNCHANGED users
        BY <1>1, <2>1
    <2>2. CASE ~UNCHANGED users
        <3>1. /\ users' = [users EXCEPT ![q.target] = Written(q)]
              /\ Owner(Written(q).mail) \subseteq {q.target}
            BY <1>5, <2>2 DEF Commit
        <3>2. q.op \in Ops \ {"create"} /\ q.want \in Changes[q.op] /\ q.target \in Rows
            BY <1>5 DEF Commit, Core, Asked
        <3>3. q.target \in Ids /\ users[q.target] \in User
            BY <1>t, <3>2 DEF Rows, UsersType
        <3> HIDE DEF q
        <3>4. Written(q) \in User
            BY <3>2, <3>3, WrittenColumns
        <3> QED
            BY <1>t, <3>1, <3>3, <3>4, UsersWritten
    <2> QED
        BY <2>1, <2>2
<1> QED
    BY <1>1, <1>2, <1>3, <1>4, <1>5 DEF vars, Next, LoginStep, RequestStep, Tick, Restart,
       Check, Verify, LookUp, Expire, Enter, Load

-----------------------------------------------------------------------------
(* The other variables.                                                    *)

LoginsType ==
    login \in [Logins -> [pc : {"idle", "verify", "lookup", "provision"},
                          name : Names \cup {Nobody},
                          password : Passwords \cup {Nobody}]]

EventsType ==
    /\ now \in 0..MaxTime
    /\ failures \in [Names -> Seq(Nat)]
    /\ \A k \in Names : \A i, j \in DOMAIN failures[k] :
          failures[k][i] <= now /\ (i <= j => failures[k][i] <= failures[k][j])

LEMMA LoginsNext == Core /\ [Next]_vars => LoginsType' /\ Signed'
<1> SUFFICES ASSUME Core, [Next]_vars PROVE LoginsType' /\ Signed'
    OBVIOUS
<1>t. LoginsType /\ Signed
    BY DEF Core, TypeOK, LoginsType
<1>1. CASE UNCHANGED login
    BY <1>t, <1>1 DEF LoginsType, Signed
<1>2. CASE Restart
    BY <1>2 DEF Restart, LoginsType, Signed, Idle
<1>3. ASSUME NEW l \in Logins, LoginStep(l) PROVE LoginsType' /\ Signed'
    <2>1. ASSUME NEW k \in Names, NEW p \in Passwords \cup {Nobody}, Check(l, k, p)
          PROVE  LoginsType' /\ Signed'
        BY <1>t, <2>1 DEF Check, LoginsType, Signed
    <2>2. CASE login' = [login EXCEPT ![l] = Idle]
        BY <1>t, <2>2 DEF LoginsType, Signed, Idle
    <2>3. CASE Verify(l) /\ MailOf[login[l].name] # NoMail
               /\ login' = [login EXCEPT ![l].pc = "lookup"]
        BY <1>t, <2>3 DEF Verify, LoginsType, Signed
    <2>4. CASE LookUp(l) /\ login' = [login EXCEPT ![l].pc = "provision"]
        BY <1>t, <2>4 DEF LookUp, LoginsType, Signed
    <2> QED
        BY <1>3, <2>1, <2>2, <2>3, <2>4 DEF LoginStep, Verify, LookUp, Provision, Grant, Deny
<1> QED
    BY <1>1, <1>2, <1>3 DEF vars, Next, SeedAdmin, Tick, RequestStep, Enter, Load, Commit,
       Insert, Expire

\* A step empties or prunes the window of a key or adds the present to it.
LEMMA EventsChange ==
    ASSUME Core, [Next]_vars
    PROVE  /\ now' \in now..MaxTime /\ DOMAIN failures' = Names
           /\ failures' \in [Names -> Seq(Nat)]
           /\ \A k \in Names :
                 \/ failures'[k] = failures[k]
                 \/ failures'[k] = <<>>
                 \/ failures'[k] = Recent(k, now)
                 \/ failures'[k] = Append(failures[k], now) /\ now' = now
<1>t. EventsType /\ MaxTime \in Nat
    BY AccountsAssumption DEF Core, TypeOK, EventsType
<1>n. now \in Nat /\ now' \in now..MaxTime
    <2>1. now' = now \/ Tick
        BY DEF Next, vars, SeedAdmin, Restart, LoginStep, Check, Verify, LookUp,
               Provision, RequestStep, Enter, Load, Commit, Insert, Expire
    <2> QED
        BY <1>t, <2>1 DEF EventsType, Tick
<1>1. CASE UNCHANGED failures
    BY <1>t, <1>n, <1>1 DEF EventsType
<1>2. CASE Restart
    BY <1>n, <1>2 DEF Restart
<1>3. ASSUME NEW l \in Logins, LoginStep(l), ~UNCHANGED failures
      PROVE  /\ DOMAIN failures' = Names /\ failures' \in [Names -> Seq(Nat)]
             /\ \A k \in Names :
                 \/ failures'[k] = failures[k]
                 \/ failures'[k] = <<>>
                 \/ failures'[k] = Recent(k, now)
                 \/ failures'[k] = Append(failures[k], now) /\ now' = now
    <2>1. ASSUME NEW k \in Names, failures' = [failures EXCEPT ![k] = Recent(k, now)]
          PROVE  failures' \in [Names -> Seq(Nat)]
        <3>1. Recent(k, now) \in Seq(Nat)
            BY <1>n, PruneIsRight DEF Core, PrunedRight
        <3> QED
            BY <1>t, <2>1, <3>1 DEF EventsType
    <2>2. CASE \E k \in Names : failures' = [failures EXCEPT ![k] = Recent(k, now)]
        BY <1>t, <2>1, <2>2 DEF EventsType
    <2>3. CASE \E k \in Names : failures' = [failures EXCEPT ![k] = <<>>]
        BY <1>t, <2>3 DEF EventsType
    <2>4. CASE now' = now /\ \E k \in Names : failures' = [failures EXCEPT ![k] = Append(@, now)]
        <3>1. PICK k \in Names : failures' = [failures EXCEPT ![k] = Append(failures[k], now)]
            BY <2>4
        <3>2. Append(failures[k], now) \in Seq(Nat)
            BY <1>t, <1>n DEF EventsType
        <3> QED
            BY <1>t, <2>4, <3>1, <3>2 DEF EventsType
    <2>5. login[l].pc # "idle" => login[l].name \in Names
        BY DEF Core, Signed
    <2> QED
        BY <1>3, <2>2, <2>3, <2>4, <2>5 DEF LoginStep, Check, Verify, LookUp, Provision, Grant, Deny
<1> QED
    BY <1>n, <1>1, <1>2, <1>3 DEF vars, Next, SeedAdmin, Tick, RequestStep, Enter, Load, Commit,
       Insert, Expire

LEMMA EventsNext == Core /\ [Next]_vars => EventsType'
<1> SUFFICES ASSUME Core, [Next]_vars PROVE EventsType'
    OBVIOUS
<1>t. EventsType /\ now \in Nat /\ MaxTime \in Nat /\ Window \in Nat
    BY AccountsAssumption DEF Core, TypeOK, EventsType
<1>1. now' \in now..MaxTime
    BY EventsChange
<1>2. ASSUME NEW k \in Names, NEW i \in DOMAIN failures'[k], NEW j \in DOMAIN failures'[k]
      PROVE  failures'[k][i] <= now' /\ (i <= j => failures'[k][i] <= failures'[k][j])
    <2> DEFINE f == failures[k]
               g == failures'[k]
    <2>1. f \in Seq(Nat) /\ g \in Seq(Nat) /\ i \in 1..Len(g) /\ j \in 1..Len(g) /\ Len(f) \in Nat
        BY <1>t, <1>2, EventsChange DEF EventsType
    <2>2. \A m, n \in 1..Len(f) : f[m] \in Nat /\ f[m] <= now /\ (m <= n => f[m] <= f[n])
        BY <1>t, <2>1 DEF EventsType
    <2>3. CASE g = f
        BY <1>t, <1>1, <2>1, <2>2, <2>3
    <2>4. CASE g = <<>>
        BY <2>1, <2>4
    <2>5. CASE g = Recent(k, now)
        <3> DEFINE n == Expired(k, now)
        <3>1. /\ n \in 0..Len(f) /\ Len(g) = Len(f) - n
              /\ \A m \in 1..Len(g) : g[m] = f[n + m]
            BY <1>t, <2>5, PruneIsRight DEF Core, PrunedRight
        <3> HIDE DEF n, f, g
        <3>2. n + i \in 1..Len(f) /\ n + j \in 1..Len(f) /\ (i <= j => n + i <= n + j)
            <4>1. n \in Nat /\ Len(f) \in Nat /\ Len(g) = Len(f) - n
                BY <2>1, <3>1
            <4>2. i \in Nat /\ j \in Nat /\ 1 <= i /\ 1 <= j /\ i <= Len(f) - n /\ j <= Len(f) - n
                BY <2>1, <4>1
            <4> QED
                BY <4>1, <4>2
        <3>3. g[i] = f[n + i] /\ g[j] = f[n + j]
            BY <2>1, <3>1
        <3>4. g[i] <= now' /\ (i <= j => g[i] <= g[j])
            BY <1>t, <1>1, <2>2, <3>2, <3>3
        <3> QED
            BY <3>4 DEF g
    <2>6. CASE g = Append(f, now) /\ now' = now
        <3>1. Len(g) = Len(f) + 1 /\ g[Len(f) + 1] = now /\ \A m \in 1..Len(f) : g[m] = f[m]
            BY <1>t, <2>1, <2>6
        <3> HIDE DEF f, g
        <3>2. g[i] <= now' /\ (i <= j => g[i] <= g[j])
            BY <1>t, <2>1, <2>2, <2>6, <3>1
        <3> QED
            BY <3>2 DEF g
    <2> QED
        BY <2>3, <2>4, <2>5, <2>6, EventsChange
<1> QED
    BY <1>t, <1>1, <1>2, EventsChange DEF EventsType

\* Accounts are never deleted.
LEMMA RowsStay == Core /\ [Next]_vars => Rows \subseteq Rows'
<1> SUFFICES ASSUME Core, [Next]_vars PROVE Rows \subseteq Rows'
    OBVIOUS
<1>1. CASE UNCHANGED users
    BY <1>1 DEF Rows
<1>2. CASE \E u \in Free : \E w : users' = [users EXCEPT ![u] = w]
    BY <1>2 DEF Core, TypeOK, Rows, Free
<1>3. ASSUME NEW a \in Admins, Commit(a) PROVE Rows \subseteq Rows'
    <2> DEFINE q == request[a]
    <2>1. q.op \in Ops \ {"create"} /\ q.want \in Changes[q.op] /\ q.target \in Rows
        BY <1>3 DEF Commit, Core, Asked
    <2>2. users[q.target] \in User
        BY <2>1 DEF Core, TypeOK, Rows
    <2>3. Written(q) \in User
        BY <2>1, <2>2, WrittenColumns
    <2>4. Written(q) # NoUser
        BY <2>3, NoUserAssumption
    <2>5. users' = users \/ users' = [users EXCEPT ![q.target] = Written(q)]
        BY <1>3 DEF Commit
    <2> HIDE DEF q
    <2> QED
        BY <2>4, <2>5 DEF Core, TypeOK, Rows
<1> QED
    BY <1>1, <1>2, <1>3 DEF vars, Next, SeedAdmin, LoginStep, Provision, RequestStep, Insert,
       Tick, Restart, Check, Verify, LookUp, Expire, Enter, Load

LEMMA NoRequestType == NoRequest \in Request /\ NoRequest.pc = "idle" /\ NoRequest.op = "none"
BY DEF NoRequest, Request, Ops

LEMMA AskedNext == Core /\ [Next]_vars => Asked'
<1> SUFFICES ASSUME Core, [Next]_vars PROVE Asked'
    OBVIOUS
<1>t. Asked
    BY DEF Core
<1>r. Rows \subseteq Rows'
    BY RowsStay
<1>1. CASE UNCHANGED request
    BY <1>t, <1>r, <1>1 DEF Asked
<1>2. CASE Restart
    BY <1>2, NoRequestType DEF Restart, Asked
<1>3. ASSUME NEW a \in Admins, request' = [request EXCEPT ![a] = NoRequest]
      PROVE  Asked'
    BY <1>t, <1>r, <1>3, NoRequestType DEF Asked
<1>4. ASSUME NEW a \in Admins, NEW m, NEW op \in Ops, NEW want \in Changes[op],
             Enter(a, m, op, want)
      PROVE  Asked'
    <2>1. PICK u \in CurrentUser(m) : request' = [request EXCEPT ![a] =
                 [pc |-> IF op = "create" THEN "insert" ELSE "load", op |-> op,
                  by |-> u, admin |-> users[u].role = "admin",
                  target |-> Nobody, seen |-> NoUser, want |-> want]]
        BY <1>4 DEF Enter
    <2>2. u \in Ids /\ want \in Wants
        BY DEF CurrentUser, Owner, Rows, Wants
    <2> DEFINE q == [pc |-> IF op = "create" THEN "insert" ELSE "load", op |-> op,
                     by |-> u, admin |-> users[u].role = "admin",
                     target |-> Nobody, seen |-> NoUser, want |-> want]
    <2>3. q \in Request
        BY <2>2 DEF Request
    <2>4. /\ q.want \in Changes[q.op] /\ q.pc # "commit" /\ q.op \in Ops
          /\ q.pc = "insert" => q.op = "create"
          /\ q.pc = "load" => q.op # "create"
        OBVIOUS
    <2>5. request' = [request EXCEPT ![a] = q]
        BY <2>1
    <2> HIDE DEF q
    <2> QED
        BY <1>t, <1>r, <2>3, <2>4, <2>5 DEF Asked
<1>5. ASSUME NEW a \in Admins, NEW u \in Ids, NEW p, Load(a, u, p), MayLoad(request[a], u, p)
      PROVE  Asked'
    <2> DEFINE q == [request[a] EXCEPT !.pc = "commit", !.target = u, !.seen = users[u]]
    <2>1. request' = [request EXCEPT ![a] = q] /\ request[a].pc = "load" /\ u \in Rows
        BY <1>5 DEF Load
    <2>2. request[a] \in Request /\ users[u] \in User /\ request[a].want \in Changes[request[a].op]
          /\ request[a].op \in Ops \ {"create"}
        BY <1>t, <2>1 DEF Asked, Core, TypeOK, Rows
    <2>3. /\ q \in Request /\ q.pc = "commit" /\ q.target = u /\ q.seen = users[u]
          /\ q.want = request[a].want /\ q.op = request[a].op
        BY <2>2 DEF Request
    <2> HIDE DEF q
    <2>4. u \in Rows'
        BY <1>r, <2>1
    <2> QED
        BY <1>t, <1>r, <2>1, <2>2, <2>3, <2>4 DEF Asked
<1>6. DOMAIN Changes = Ops
    BY DEF Changes, Ops
<1>7. ASSUME NEW a \in Admins, RequestStep(a), ~UNCHANGED request PROVE Asked'
    <2>1. CASE \E m \in Mails, op \in Ops : \E want \in Changes[op] : Enter(a, m, op, want)
        BY <1>4, <2>1
    <2>2. CASE \E u \in Ids, p \in Passwords \cup {Nobody} : Load(a, u, p)
        <3>1. PICK u \in Ids, p \in Passwords \cup {Nobody} : Load(a, u, p)
            BY <2>2
        <3>2. CASE MayLoad(request[a], u, p)
            BY <1>5, <3>1, <3>2
        <3>3. CASE ~MayLoad(request[a], u, p)
            BY <1>3, <3>1, <3>3 DEF Load
        <3> QED
            BY <3>2, <3>3
    <2>3. CASE Commit(a) \/ Insert(a)
        BY <1>3, <2>3 DEF Commit, Insert
    <2> QED
        BY <1>6, <1>7, <2>1, <2>2, <2>3 DEF RequestStep
<1> QED
    BY <1>1, <1>2, <1>7 DEF vars, Next, SeedAdmin, Tick, LoginStep, Check, Verify, LookUp,
       Provision, Expire

LEMMA TokensNext == Core /\ [Next]_vars => tokens' \subseteq Mails
<1> SUFFICES ASSUME Core, [Next]_vars PROVE tokens' \subseteq Mails
    OBVIOUS
<1>t. tokens \subseteq Mails
    BY DEF Core, TypeOK
<1>1. CASE tokens' \subseteq tokens
    BY <1>t, <1>1
<1>2. ASSUME NEW l \in Logins, NEW u \in Ids, users'[u] \in User, Grant(l, u)
      PROVE  tokens' \subseteq Mails
    BY <1>t, <1>2 DEF Grant, User
<1>3. ASSUME NEW l \in Logins, LoginStep(l), ~(tokens' \subseteq tokens)
      PROVE  \E u \in Ids : users'[u] \in User /\ Grant(l, u)
    <2>1. CASE Verify(l)
        <3>1. PICK u \in Owner(login[l].name) : Grant(l, u)
            BY <1>3, <2>1 DEF Verify, Deny
        <3> QED
            BY <2>1, <3>1 DEF Verify, Owner, Rows, Core, TypeOK
    <2>2. CASE LookUp(l)
        <3>1. PICK u \in Owner(MailOf[login[l].name]) : Grant(l, u)
            BY <1>3, <2>2 DEF LookUp, Deny
        <3> QED
            BY <2>2, <3>1 DEF LookUp, Owner, Rows, Core, TypeOK
    <2>3. CASE Provision(l)
        <3> DEFINE m == MailOf[login[l].name]
        <3>1. PICK u \in Free : /\ users' = [users EXCEPT ![u] = Account(m, "ldap", "other", Nobody)]
                                /\ Grant(l, u)
            BY <1>3, <2>3 DEF Provision, Deny
        <3>2. m \in Mails
            BY <2>3, AccountsAssumption DEF Provision, Core, Signed
        <3>3. Account(m, "ldap", "other", Nobody) \in User
            BY <3>2, AccountType DEF Roles
        <3> HIDE DEF m
        <3>4. u \in Ids /\ users'[u] \in User
            BY <3>1, <3>3 DEF Free, Core, TypeOK
        <3> QED
            BY <3>1, <3>4
    <2> QED
        BY <1>3, <2>1, <2>2, <2>3 DEF LoginStep, Check
<1> QED
    BY <1>1, <1>2, <1>3 DEF vars, Next, SeedAdmin, Tick, Restart, RequestStep, Enter, Load,
       Commit, Insert, Expire

LEMMA CoreInit == Init => Core
<1> SUFFICES ASSUME Init PROVE Core
    OBVIOUS
<1> USE DEF Init
<1>1. TypeOK
    BY AccountsAssumption DEF TypeOK, Idle
<1>2. Signed
    BY DEF Signed, Idle
<1>3. Asked
    BY NoRequestType DEF Asked
<1> QED
    BY <1>1, <1>2, <1>3 DEF Core

LEMMA CoreNext == Core /\ [Next]_vars => Core'
<1>1. Asked' => DOMAIN request' = Admins
    BY DEF Asked
<1> QED
    BY <1>1, UsersNext, LoginsNext, EventsNext, AskedNext, TokensNext
       DEF Core, TypeOK, UsersType, LoginsType, EventsType

LEMMA CoreAlways == Spec => []Core
BY CoreInit, CoreNext, PTL DEF Spec

\* Of any number of accounts no two ever have the same address, and the events
\* of each key stay in the order of time, so that pruning the front of the list
\* is pruning what left the window.
THEOREM AccountsTypeSafe == Spec => []TypeOK
BY CoreAlways, PTL DEF Core

-----------------------------------------------------------------------------
(* What the limiter announces.                                             *)

LEMMA Division ==
    ASSUME NEW x \in Nat
    PROVE  /\ x \div Second \in Nat
           /\ (x \div Second) * Second <= x
           /\ x < (x \div Second + 1) * Second
BY AccountsAssumption

\* The ticks that the oldest of the recent events still has.
Left(k, t) == Recent(k, t)[1] + Window - t

\* Below the limit nobody waits; at the limit it is the oldest of the recent
\* events that is waited for.
Announced ==
    \A k \in Names, t \in Nat :
        /\ Len(Recent(k, t)) < MaxAttempts => RetryAfter(k, t) = 0
        /\ Len(Recent(k, t)) >= MaxAttempts =>
              Left(k, t) \in Nat /\ RetryAfter(k, t) = Left(k, t) \div Second + 1

LEMMA AnnouncedRight == TypeOK => Announced
<1> SUFFICES ASSUME TypeOK, NEW k \in Names, NEW t \in Nat
             PROVE  /\ Len(Recent(k, t)) < MaxAttempts => RetryAfter(k, t) = 0
                    /\ Len(Recent(k, t)) >= MaxAttempts =>
                          Left(k, t) \in Nat /\ RetryAfter(k, t) = Left(k, t) \div Second + 1
    BY DEF Announced
<1> DEFINE f == failures[k]
           n == Expired(k, t)
           g == Recent(k, t)
<1>1. /\ f \in Seq(Nat) /\ Len(f) \in Nat /\ MaxAttempts \in Nat \ {0}
      /\ Window \in Nat \ {0} /\ Second \in Nat \ {0}
      /\ \A i, j \in 1..Len(f) : f[i] \in Nat /\ (i <= j => f[i] <= f[j])
    BY AccountsAssumption DEF TypeOK
<1>2. /\ n \in 0..Len(f) /\ g \in Seq(Nat) /\ Len(g) = Len(f) - n
      /\ \A i \in 1..Len(f) : i <= n <=> f[i] + Window <= t
      /\ \A i \in 1..Len(g) : g[i] = f[n + i]
    BY PruneIsRight DEF PrunedRight, TypeOK
<1>3. CASE Len(g) < MaxAttempts
    BY <1>1, <1>2, <1>3 DEF RetryAfter
<1>4. CASE Len(g) >= MaxAttempts
    <2> DEFINE events == ToSet(g)
               oldest == CHOOSE e \in events : \A o \in events : e <= o
    <2>1. \A e \in events : e \in Nat /\ \E i \in 1..Len(g) : e = g[i]
        BY <1>2 DEF ToSet
    <2>2. Len(g) \in Nat /\ 1 \in 1..Len(g) /\ g[1] \in events /\ g[1] \in Nat
        <3>1. Len(g) \in Nat /\ 1 <= Len(g)
            BY <1>1, <1>2, <1>4
        <3>2. g[1] \in events
            BY <1>2, <3>1 DEF ToSet
        <3> HIDE DEF g, events
        <3> QED
            BY <2>1, <3>1, <3>2
    <2>3. ASSUME NEW i \in 1..Len(g) PROVE g[1] <= g[i]
        <3> HIDE DEF f, n, g
        <3>1. n + 1 \in 1..Len(f) /\ n + i \in 1..Len(f) /\ n + 1 <= n + i
            BY <1>1, <1>2, <2>2
        <3> QED
            BY <1>1, <1>2, <2>2, <3>1
    <2>4. \A e \in events : g[1] <= e
        BY <2>1, <2>3
    <2>5. oldest = g[1]
        <3> HIDE DEF events, g
        <3>1. oldest \in events /\ \A o \in events : oldest <= o
            BY <2>2, <2>4
        <3> QED
            BY <2>1, <2>2, <2>4, <3>1
    <2>6. g[1] + Window - t \in Nat
        <3> HIDE DEF f, n, g
        <3>1. n + 1 \in 1..Len(f) /\ g[1] = f[n + 1] /\ ~(n + 1 <= n)
            BY <1>1, <1>2, <2>2
        <3>2. ~(f[n + 1] + Window <= t)
            BY <1>2, <3>1
        <3> QED
            BY <1>1, <2>2, <3>1, <3>2
    <2>7. RetryAfter(k, t) = Max({1, (Window - (t - oldest)) \div Second + 1})
        BY <1>1, <1>2, <1>4 DEF RetryAfter
    <2>8. Window - (t - oldest) = g[1] + Window - t
        <3> HIDE DEF oldest, g
        <3> QED
            BY <1>1, <2>2, <2>5
    <2>9. Left(k, t) \div Second \in Nat /\ Left(k, t) = g[1] + Window - t
        BY <2>6, Division DEF Left
    <2>10. \A d \in Nat : Max({1, d + 1}) = d + 1
        BY DEF Max
    <2>11. RetryAfter(k, t) = Max({1, Left(k, t) \div Second + 1})
        BY <2>7, <2>8, <2>9
    <2>12. RetryAfter(k, t) = Left(k, t) \div Second + 1
        BY <2>9, <2>10, <2>11
    <2> HIDE DEF g
    <2>13. ~(Len(g) < MaxAttempts)
        BY <1>1, <1>2, <1>4, <2>2
    <2> QED
        BY <2>6, <2>9, <2>12, <2>13 DEF g
<1> QED
    BY <1>1, <1>2, <1>3, <1>4

\* Who waits as long as Retry-After says is let in, and would not have been a
\* second and a tick earlier: of all the window's events it is the oldest whose
\* end is announced, rounded up.
LEMMA WaitIsRight == TypeOK => RetryAfterIsRight
<1> SUFFICES ASSUME TypeOK, NEW k \in Names, Len(Recent(k, now)) = MaxAttempts
             PROVE  LET wait == RetryAfter(k, now)
                    IN  /\ RetryAfter(k, now + wait * Second) = 0
                        /\ wait > 1 => RetryAfter(k, now + (wait - 1) * Second - 1) > 0
    BY DEF RetryAfterIsRight
<1> DEFINE f == failures[k]
           n == Expired(k, now)
           left == Left(k, now)
           d == left \div Second
           wait == RetryAfter(k, now)
           late == now + wait * Second
           soon == now + (wait - 1) * Second - 1
<1>1. /\ f \in Seq(Nat) /\ Len(f) \in Nat /\ MaxAttempts \in Nat \ {0} /\ now \in Nat
      /\ Window \in Nat \ {0} /\ Second \in Nat \ {0}
    BY AccountsAssumption DEF TypeOK
<1>2. /\ n \in 0..Len(f) /\ Len(f) - n = MaxAttempts
      /\ Recent(k, now)[1] = f[n + 1]
    <2>1. /\ n \in 0..Len(f) /\ Len(Recent(k, now)) = Len(f) - n
          /\ \A i \in 1..Len(Recent(k, now)) : Recent(k, now)[i] = f[n + i]
        BY <1>1, PruneIsRight DEF PrunedRight
    <2>2. 1 \in 1..Len(Recent(k, now))
        BY <1>1
    <2> QED
        BY <2>1, <2>2
<1>3. left \in Nat /\ wait = d + 1
    BY <1>1, AnnouncedRight DEF Announced
<1>4. n + 1 \in 1..Len(f) /\ f[n + 1] \in Nat
    BY <1>1, <1>2
<1>5. d \in Nat /\ d * Second <= left /\ left < (d + 1) * Second
    BY <1>3, Division
<1>6. ASSUME NEW t \in Nat
      PROVE  Len(Recent(k, t)) < MaxAttempts <=> f[n + 1] + Window <= t
    <2> DEFINE e == Expired(k, t)
    <2>1. /\ e \in 0..Len(f) /\ Len(Recent(k, t)) = Len(f) - e
          /\ n + 1 <= e <=> f[n + 1] + Window <= t
        BY <1>4, PruneIsRight DEF PrunedRight
    <2>2. e \in Nat /\ n \in Nat
        BY <1>1, <1>2, <2>1
    <2>3. Len(f) - e < MaxAttempts <=> n + 1 <= e
        <3> HIDE DEF e, f, n
        <3> QED
            BY <1>1, <1>2, <2>2
    <2> QED
        BY <2>1, <2>3
<1>7. ASSUME NEW t \in Nat
      PROVE  /\ f[n + 1] + Window <= t => RetryAfter(k, t) = 0
             /\ ~(f[n + 1] + Window <= t) => RetryAfter(k, t) > 0
    <2>1. CASE f[n + 1] + Window <= t
        BY <1>6, <2>1, AnnouncedRight DEF Announced
    <2>2. CASE ~(f[n + 1] + Window <= t)
        <3>1. Len(Recent(k, t)) >= MaxAttempts
            <4>1. Len(Recent(k, t)) \in Nat
                BY PruneIsRight DEF PrunedRight
            <4>2. ~(Len(Recent(k, t)) < MaxAttempts) /\ MaxAttempts \in Nat
                BY <1>1, <1>6, <2>2
            <4> QED
                BY <4>1, <4>2
        <3>2. Left(k, t) \in Nat /\ RetryAfter(k, t) = Left(k, t) \div Second + 1
            BY <3>1, AnnouncedRight DEF Announced
        <3>3. Left(k, t) \div Second \in Nat
            BY <3>2, Division
        <3>4. RetryAfter(k, t) > 0
            BY <3>2, <3>3
        <3> QED
            BY <2>2, <3>4
    <2> QED
        BY <2>1, <2>2
<1>8. left = f[n + 1] + Window - now
    BY <1>2 DEF Left
<1>9. wait - 1 = d
    BY <1>3, <1>5
<1> HIDE DEF f, n, left, d, wait
<1>10. d * Second \in Nat /\ (d + 1) * Second \in Nat
    BY <1>1, <1>5
<1>11. RetryAfter(k, late) = 0
    <2>1. late \in Nat /\ f[n + 1] + Window <= late
        <3> DEFINE y == (d + 1) * Second
        <3>1. late = now + y
            BY <1>3
        <3> HIDE DEF y
        <3>2. y \in Nat /\ left < y
            BY <1>5, <1>10 DEF y
        <3> QED
            BY <1>1, <1>3, <1>4, <1>8, <3>1, <3>2
    <2> HIDE DEF late
    <2> QED
        BY <1>7, <2>1
<1>12. ASSUME wait > 1 PROVE RetryAfter(k, soon) > 0
    <2> DEFINE y == d * Second
    <2>1. y \in Nat /\ y <= left /\ y >= 1
        BY <1>1, <1>3, <1>5, <1>10, <1>12
    <2>2. soon = now + y - 1
        BY <1>9
    <2>3. soon \in Nat /\ ~(f[n + 1] + Window <= soon)
        <3> HIDE DEF y, soon
        <3> QED
            BY <1>1, <1>3, <1>4, <1>8, <2>1, <2>2
    <2> HIDE DEF soon
    <2> QED
        BY <1>7, <2>3
<1> QED
    BY <1>11, <1>12 DEF wait

THEOREM RetryAfterAlwaysRight == Spec => []RetryAfterIsRight
BY AccountsTypeSafe, WaitIsRight, PTL

-----------------------------------------------------------------------------
(* The number of failures.                                                 *)

LEMMA InFlightFinite ==
    \A k : /\ IsFiniteSet(InFlight(k)) /\ Cardinality(InFlight(k)) \in Nat
           /\ Cardinality(InFlight(k)) <= Cardinality(Logins) /\ Cardinality(Logins) \in Nat
BY AccountsAssumption, FS_Subset, FS_CardinalityType DEF InFlight

\* What a step does to the recent events of a key.
LEMMA RecentChange ==
    ASSUME Core, [Next]_vars, NEW k \in Names
    PROVE  /\ Len(Recent(k, now)) \in Nat /\ Len(Recent(k, now))' \in Nat
           /\ failures'[k] = failures[k] => Len(Recent(k, now))' <= Len(Recent(k, now))
           /\ failures'[k] = Recent(k, now) => Len(Recent(k, now))' <= Len(Recent(k, now))
           /\ failures'[k] = <<>> => Len(Recent(k, now))' = 0
           /\ failures'[k] = Append(failures[k], now) /\ now' = now =>
                 Len(Recent(k, now))' <= Len(Recent(k, now)) + 1
<1> DEFINE f == failures[k]
           n == Expired(k, now)
           g == failures'[k]
           o == Expired(k, now)'
           R == Recent(k, now)
           S == Recent(k, now)'
<1>0. PrunedRight /\ PrunedRight'
    BY CoreNext, PruneIsRight, PTL DEF Core
<1>1. now \in Nat /\ now' \in Nat /\ now <= now' /\ Window \in Nat \ {0}
    BY EventsChange, AccountsAssumption DEF Core, TypeOK
<1>2. /\ f \in Seq(Nat) /\ g \in Seq(Nat) /\ Len(f) \in Nat /\ Len(g) \in Nat
      /\ \A i \in 1..Len(f) : f[i] \in Nat
    BY EventsChange DEF Core, TypeOK
<1>3. /\ n \in 0..Len(f) /\ Len(R) = Len(f) - n
      /\ \A i \in 1..Len(f) : i <= n <=> f[i] + Window <= now
      /\ \A i \in 1..Len(R) : R[i] = f[n + i]
    BY <1>0, <1>1, <1>2 DEF PrunedRight
<1>4. /\ o \in 0..Len(g) /\ Len(S) = Len(g) - o
      /\ \A i \in 1..Len(g) : i <= o <=> g[i] + Window <= now'
    BY <1>0, <1>1, <1>2 DEF PrunedRight
<1> HIDE DEF f, n, g, o, R, S
<1>5. Len(R) \in Nat /\ Len(S) \in Nat /\ n \in Nat /\ o \in Nat
    BY <1>2, <1>3, <1>4
<1>6. ASSUME g = f PROVE Len(S) <= Len(R)
    <2>1. CASE n = 0
        BY <1>2, <1>3, <1>4, <1>6, <2>1
    <2>2. CASE n # 0
        <3>1. n \in 1..Len(f)
            BY <1>2, <1>3, <2>2
        <3>2. f[n] + Window <= now'
            BY <1>1, <1>2, <1>3, <1>5, <3>1
        <3>3. n <= o
            BY <1>4, <1>6, <3>1, <3>2
        <3> QED
            BY <1>2, <1>3, <1>4, <1>5, <1>6, <3>3
    <2> QED
        BY <2>1, <2>2
<1>7. ASSUME g = R PROVE Len(S) <= Len(R)
    BY <1>2, <1>4, <1>5, <1>7
<1>8. ASSUME g = <<>> PROVE Len(S) = 0
    BY <1>4, <1>5, <1>8
<1>9. ASSUME g = Append(f, now), now' = now PROVE Len(S) <= Len(R) + 1
    <2>1. Len(g) = Len(f) + 1 /\ \A i \in 1..Len(f) : g[i] = f[i]
        BY <1>1, <1>2, <1>9
    <2>2. CASE n = 0
        BY <1>2, <1>3, <1>4, <1>5, <2>1, <2>2
    <2>3. CASE n # 0
        <3>1. n \in 1..Len(f) /\ n \in 1..Len(g)
            BY <1>2, <1>3, <1>5, <2>1, <2>3
        <3>2. g[n] + Window <= now'
            BY <1>3, <1>5, <1>9, <2>1, <3>1
        <3>3. n <= o
            BY <1>4, <3>1, <3>2
        <3> QED
            BY <1>2, <1>3, <1>4, <1>5, <2>1, <3>3
    <2> QED
        BY <2>2, <2>3
<1> QED
    BY <1>5, <1>6, <1>7, <1>8, <1>9 DEF f, g, R, S

\* A key's failures and its logins in flight are counted together.
Counted(k) == Len(Recent(k, now)) + Cardinality(InFlight(k))
Limit == MaxAttempts - 1 + Cardinality(Logins)

\* Logins are in flight with no other name than before.
NoneAdded(k) == InFlight(k)' \subseteq InFlight(k)

LEMMA CountedStep ==
    ASSUME Core, [Next]_vars, NEW k \in Names, Counted(k) <= Limit,
           \/ NoneAdded(k) /\ failures'[k] \in {failures[k], Recent(k, now)}
           \/ failures'[k] = <<>>
           \/ failures'[k] = Recent(k, now) /\ Len(Recent(k, now)) < MaxAttempts
           \/ /\ failures'[k] = Append(failures[k], now) /\ now' = now
              /\ \E l \in InFlight(k) : InFlight(k)' \subseteq InFlight(k) \ {l}
    PROVE  Counted(k)' <= Limit
<1> DEFINE m == Len(Recent(k, now))
           n == Len(Recent(k, now))'
           c == Cardinality(InFlight(k))
           d == Cardinality(InFlight(k))'
           L == Cardinality(Logins)
<1>1. c \in Nat /\ d \in Nat /\ c <= L /\ d <= L /\ L \in Nat /\ MaxAttempts \in Nat \ {0}
    <2>1. d \in Nat /\ d <= L
        BY AccountsAssumption, FS_Subset, FS_CardinalityType DEF InFlight
    <2> QED
        BY <2>1, InFlightFinite, AccountsAssumption
<1>2. m \in Nat /\ n \in Nat /\ m + c <= MaxAttempts - 1 + L
    BY RecentChange DEF Counted, Limit
<1>3. NoneAdded(k) => d <= c
    BY InFlightFinite, FS_Subset DEF NoneAdded
<1>4. CASE NoneAdded(k) /\ failures'[k] \in {failures[k], Recent(k, now)}
    <2>1. n <= m /\ d <= c
        BY <1>3, <1>4, RecentChange
    <2> HIDE DEF m, n, c, d, L
    <2>2. n + d <= MaxAttempts - 1 + L
        BY <1>1, <1>2, <2>1
    <2> QED
        BY <2>2 DEF Counted, Limit, m, n, c, d, L
<1>5. CASE failures'[k] = <<>>
    <2>1. n = 0
        BY <1>5, RecentChange
    <2> HIDE DEF m, n, c, d, L
    <2>2. n + d <= MaxAttempts - 1 + L
        BY <1>1, <2>1
    <2> QED
        BY <2>2 DEF Counted, Limit, n, d, L
<1>6. CASE failures'[k] = Recent(k, now) /\ m < MaxAttempts
    <2>1. n <= m
        BY <1>6, RecentChange
    <2> HIDE DEF m, n, c, d, L
    <2>2. n + d <= MaxAttempts - 1 + L
        BY <1>1, <1>2, <1>6, <2>1
    <2> QED
        BY <2>2 DEF Counted, Limit, n, d, L
<1>7. CASE /\ failures'[k] = Append(failures[k], now) /\ now' = now
           /\ \E l \in InFlight(k) : InFlight(k)' \subseteq InFlight(k) \ {l}
    <2>1. n <= m + 1
        BY <1>7, RecentChange
    <2>2. PICK l \in InFlight(k) : InFlight(k)' \subseteq InFlight(k) \ {l}
        BY <1>7
    <2>3. IsFiniteSet(InFlight(k)) /\ IsFiniteSet(InFlight(k) \ {l})
          /\ Cardinality(InFlight(k) \ {l}) = c - 1
        BY <2>2, InFlightFinite, FS_RemoveElement
    <2>4. d <= c - 1
        BY <2>2, <2>3, FS_Subset
    <2> HIDE DEF m, n, c, d, L
    <2>5. n + d <= MaxAttempts - 1 + L
        BY <1>1, <1>2, <2>1, <2>4
    <2> QED
        BY <2>5 DEF Counted, Limit, n, d, L
<1> QED
    BY <1>4, <1>5, <1>6, <1>7

LEMMA BoundInit == Init => FailuresBounded
<1> SUFFICES ASSUME Init, NEW k \in Names
             PROVE  Len(Recent(k, now)) + Cardinality(InFlight(k)) <= Limit
    BY DEF FailuresBounded, Limit
<1>1. InFlight(k) = {} /\ Cardinality(InFlight(k)) = 0
    BY FS_EmptySet DEF Init, InFlight, Idle
<1>2. Len(failures[k]) = 0 /\ now \in Nat
    BY DEF Init
<1>3. Len(Recent(k, now)) = 0
    <2>1. Expired(k, now) \in 0..0 /\ Len(Recent(k, now)) = 0 - Expired(k, now)
        BY <1>2, CoreInit, PruneIsRight DEF Core, PrunedRight
    <2> QED
        BY <2>1
<1>4. Cardinality(Logins) \in Nat /\ MaxAttempts \in Nat \ {0}
    BY AccountsAssumption, FS_CardinalityType
<1> QED
    BY <1>1, <1>3, <1>4 DEF Limit

LEMMA BoundNext == Core /\ FailuresBounded /\ [Next]_vars => FailuresBounded'
<1> SUFFICES ASSUME Core, FailuresBounded, [Next]_vars, NEW k \in Names
             PROVE  Counted(k)' <= Limit
    BY DEF FailuresBounded, Counted, Limit
<1>0. Counted(k) <= Limit
    BY DEF FailuresBounded, Counted, Limit
<1>t. EventsType /\ LoginsType /\ Signed
    BY DEF Core, TypeOK, EventsType, LoginsType
<1>1. CASE UNCHANGED <<failures, login>>
    BY <1>0, <1>1, CountedStep DEF NoneAdded, InFlight
<1>2. CASE Restart
    BY <1>0, <1>2, CountedStep DEF Restart
<1>3. ASSUME NEW l \in Logins, NEW j \in Names, NEW p, Check(l, j, p)
      PROVE  Counted(k)' <= Limit
    <2>1. failures' = [failures EXCEPT ![j] = Recent(j, now)]
        BY <1>3 DEF Check
    <2>2. CASE login' = login
        BY <1>0, <1>t, <2>1, <2>2, CountedStep DEF NoneAdded, InFlight, EventsType
    <2>3. CASE login' # login
        <3>1. ~(RetryAfter(j, now) > 0)
              /\ login' = [login EXCEPT ![l] = [pc |-> "verify", name |-> j, password |-> p]]
            BY <1>3, <2>3 DEF Check
        <3>2. CASE k = j
            <4>1. Len(Recent(k, now)) \in Nat /\ MaxAttempts \in Nat /\ now \in Nat
                BY <1>t, RecentChange, AccountsAssumption DEF EventsType
            <4>2. ASSUME Len(Recent(k, now)) >= MaxAttempts PROVE FALSE
                <5>1. /\ Left(k, now) \in Nat
                      /\ RetryAfter(k, now) = Left(k, now) \div Second + 1
                    BY <4>1, <4>2, AnnouncedRight DEF Core, Announced
                <5>2. Left(k, now) \div Second \in Nat
                    BY <5>1, Division
                <5> QED
                    BY <3>1, <3>2, <5>1, <5>2
            <4>3. Len(Recent(k, now)) < MaxAttempts
                BY <4>1, <4>2
            <4>4. failures'[k] = Recent(k, now)
                BY <1>t, <2>1, <3>2 DEF EventsType
            <4> QED
                BY <1>0, <4>3, <4>4, CountedStep
        <3>3. CASE k # j
            <4>1. NoneAdded(k) /\ failures'[k] = failures[k]
                BY <1>t, <2>1, <3>1, <3>3 DEF NoneAdded, InFlight, LoginsType, EventsType
            <4> QED
                BY <1>0, <4>1, CountedStep
        <3> QED
            BY <3>2, <3>3
    <2> QED
        BY <2>2, <2>3
<1>4. ASSUME NEW l \in Logins, login[l].pc # "idle", Deny(l), now' = now
      PROVE  Counted(k)' <= Limit
    <2>1. login[l].name \in Names
        BY <1>t, <1>4 DEF Signed
    <2>2. CASE k = login[l].name
        <3>1. l \in InFlight(k) /\ InFlight(k)' \subseteq InFlight(k) \ {l}
            BY <1>t, <1>4, <2>2 DEF Deny, InFlight, LoginsType, Idle
        <3>2. failures'[k] = Append(failures[k], now)
            BY <1>t, <1>4, <2>2 DEF Deny, EventsType
        <3> QED
            BY <1>0, <1>4, <3>1, <3>2, CountedStep
    <2>3. CASE k # login[l].name
        <3>1. NoneAdded(k) /\ failures'[k] = failures[k]
            BY <1>t, <1>4, <2>1, <2>3 DEF Deny, NoneAdded, InFlight, LoginsType, EventsType, Idle
        <3> QED
            BY <1>0, <3>1, CountedStep
    <2> QED
        BY <2>2, <2>3
<1>5. ASSUME NEW l \in Logins, NEW u, login[l].pc # "idle", Grant(l, u)
      PROVE  Counted(k)' <= Limit
    <2>1. login[l].name \in Names
        BY <1>t, <1>5 DEF Signed
    <2>2. NoneAdded(k)
        BY <1>t, <1>5 DEF Grant, NoneAdded, InFlight, LoginsType, Idle
    <2>3. failures'[k] = failures[k] \/ failures'[k] = <<>>
        BY <1>t, <1>5, <2>1 DEF Grant, EventsType
    <2> QED
        BY <1>0, <2>2, <2>3, CountedStep
<1>6. ASSUME NEW l \in Logins, NEW s \in {"lookup", "provision"},
             login[l].pc # "idle", login' = [login EXCEPT ![l].pc = s], failures' = failures
      PROVE  Counted(k)' <= Limit
    <2>1. NoneAdded(k)
        BY <1>t, <1>6 DEF NoneAdded, InFlight, LoginsType
    <2> QED
        BY <1>0, <1>6, <2>1, CountedStep
<1>7. ASSUME NEW l \in Logins, LoginStep(l) PROVE Counted(k)' <= Limit
    <2>1. CASE Verify(l)
        BY <1>4, <1>5, <1>6, <2>1 DEF Verify
    <2>2. CASE LookUp(l)
        BY <1>4, <1>5, <1>6, <2>2 DEF LookUp
    <2>3. CASE Provision(l)
        BY <1>4, <1>5, <2>3 DEF Provision
    <2> QED
        BY <1>3, <1>7, <2>1, <2>2, <2>3 DEF LoginStep
<1> QED
    BY <1>1, <1>2, <1>7 DEF vars, Next, SeedAdmin, Tick, RequestStep, Enter, Load, Commit,
       Insert, Expire

\* However many logins overlap, the failures of a key exceed the limit by no more
\* than the logins there can be besides the first: each failure is recorded by a
\* login that _login_rate_limiter let in below the limit and that counts until then.
THEOREM FailuresAlwaysBounded == Spec => []FailuresBounded
BY CoreAlways, BoundInit, BoundNext, PTL DEF Spec

-----------------------------------------------------------------------------
(* What becomes of accounts as long as all is orderly.                     *)

\* Addresses and administrators stay; an administrator is only deleted.
LEMMA OldAccounts ==
    ASSUME Core, Next, ~Disorder, NEW u \in Rows
    PROVE  /\ u \in Rows'
           /\ users'[u].mail = users[u].mail /\ users'[u].source = users[u].source
           /\ users[u].role = "admin" => users'[u].role = "admin"
           /\ \/ users[u].role # "admin" \/ ~users[u].active \/ users'[u].active
              \/ \E a \in Admins : Commit(a) /\ request[a].op = "delete" /\ request[a].target = u
<1>1. u \in Ids /\ u \in Rows'
    BY RowsStay DEF Rows
<1>2. CASE users'[u] = users[u]
    BY <1>1, <1>2
<1>3. CASE \E v \in Free : \E w : users' = [users EXCEPT ![v] = w]
    BY <1>1, <1>2, <1>3 DEF Core, TypeOK, Free
<1>4. ASSUME NEW a \in Admins, Commit(a), users'[u] # users[u]
      PROVE  /\ users'[u].mail = users[u].mail /\ users'[u].source = users[u].source
             /\ users[u].role = "admin" => users'[u].role = "admin"
             /\ \/ users[u].role # "admin" \/ ~users[u].active \/ users'[u].active
                \/ request[a].op = "delete" /\ request[a].target = u
    <2> DEFINE q == request[a]
    <2>1. q.op \in Ops \ {"create"} /\ q.want \in Changes[q.op] /\ q.target \in Rows
        BY <1>4 DEF Commit, Core, Asked
    <2>2. users' = users \/ users' = [users EXCEPT ![q.target] = Written(q)]
        BY <1>4 DEF Commit
    <2>3. q.target = u /\ users'[u] = Written(q)
        BY <1>1, <1>4, <2>2 DEF Core, TypeOK
    <2>4. users[q.target] \in User
        BY <1>1, <2>3 DEF Core, TypeOK, Rows
    <2>5. request[a].pc = "commit" /\ request'[a].pc = "idle"
        BY <1>4, NoRequestType DEF Commit, Core, Asked
    <2>6. q.op = "update" => /\ users'[u].mail = users[u].mail
                             /\ users[u].role # "admin" \/ ~Weakened(u)
        BY <2>3, <2>5 DEF Disorder
    <2> HIDE DEF q
    <2>7. /\ Written(q).source = users[q.target].source
          /\ q.op # "update" => /\ Written(q).mail = users[q.target].mail
                                /\ Written(q).role = users[q.target].role
          /\ q.op = "password" => Written(q).active = users[q.target].active
        BY <2>1, <2>4, WrittenColumns
    <2>8. q.op \in {"update", "password", "delete"}
        BY <2>1 DEF Ops
    <2> QED
        BY <2>3, <2>6, <2>7, <2>8 DEF q, Weakened
<1> QED
    BY <1>1, <1>2, <1>3, <1>4 DEF Next, SeedAdmin, LoginStep, Provision, RequestStep, Insert,
       Tick, Restart, Check, Verify, LookUp, Expire, Enter, Load

\* New accounts are active, and the directory's are made by logins.
LEMMA NewAccounts ==
    ASSUME Core, Next, NEW u \in Rows', u \notin Rows
    PROVE  /\ users'[u].active
           /\ \/ users'[u].source = "local"
              \/ \E l \in Logins : /\ Provision(l) /\ Grant(l, u)
                                   /\ users'[u].mail = MailOf[login[l].name]
<1>1. u \in Ids /\ users[u] = NoUser /\ users'[u] # NoUser
    BY DEF Rows
<1>2. ASSUME NEW v \in Free, NEW w, users' = [users EXCEPT ![v] = w] PROVE u = v /\ users'[u] = w
    BY <1>1, <1>2 DEF Core, TypeOK, Free
<1>3. CASE SeedAdmin
    <2>1. PICK v \in Free, p \in Passwords :
              users' = [users EXCEPT ![v] = Account(SeedMail, "local", "admin", p)]
        BY <1>3 DEF SeedAdmin
    <2>2. users'[u] = Account(SeedMail, "local", "admin", p)
        BY <1>2, <2>1
    <2> QED
        BY <2>2 DEF Account
<1>4. ASSUME NEW a \in Admins, Insert(a)
      PROVE  users'[u].active /\ users'[u].source = "local"
    <2> DEFINE w == request[a].want
    <2>1. PICK v \in Free :
              users' = [users EXCEPT ![v] = Account(w.mail, "local", w.role, w.password)]
        BY <1>1, <1>4 DEF Insert
    <2> HIDE DEF w
    <2>2. users'[u] = Account(w.mail, "local", w.role, w.password)
        BY <1>2, <2>1
    <2> QED
        BY <2>2 DEF Account
<1>5. ASSUME NEW l \in Logins, Provision(l)
      PROVE  /\ users'[u].active /\ Grant(l, u)
             /\ users'[u].mail = MailOf[login[l].name]
    <2> DEFINE m == MailOf[login[l].name]
    <2>1. PICK v \in Free : /\ users' = [users EXCEPT ![v] = Account(m, "ldap", "other", Nobody)]
                            /\ Grant(l, v)
        BY <1>1, <1>5 DEF Provision
    <2>2. u = v /\ users'[u] = Account(m, "ldap", "other", Nobody)
        BY <1>2, <2>1
    <2> QED
        BY <2>1, <2>2 DEF Account
<1>6. ASSUME NEW a \in Admins, Commit(a) PROVE FALSE
    <2>1. request[a].target \in Rows
        BY <1>6 DEF Commit, Core, Asked
    <2>2. users' = users \/ users' = [users EXCEPT ![request[a].target] = Written(request[a])]
        BY <1>6 DEF Commit
    <2> QED
        BY <1>1, <2>1, <2>2 DEF Core, TypeOK, Rows
<1> QED
    BY <1>1, <1>3, <1>4, <1>5, <1>6 DEF Next, LoginStep, RequestStep,
       Tick, Restart, Check, Verify, LookUp, Expire, Enter, Load

-----------------------------------------------------------------------------
(* First logins that overlap.                                              *)

\* The directory's account with this address is in the table.
Known(m) == \E u \in Owner(m) : users[u].source = "ldap"

\* The logins that looked for it before it was.
AtInsert(m) ==
    {l \in Logins : login[l].pc = "provision" /\ MailOf[login[l].name] = m}

\* Nobody is refused before the account exists, and then only those who looked
\* before; the login that made the account is not among them.
Refusals ==
    /\ refused \in [Mails -> Nat]
    /\ orderly => \A m \in Mails :
          IF Known(m) THEN refused[m] + Cardinality(AtInsert(m)) < Cardinality(Logins)
          ELSE refused[m] = 0

\* Those whom a step refuses though their account was there.
Turned(m) ==
    {l \in Logins : Refused(l) /\ MailOf[login[l].name] = m
                        /\ \E u \in Owner(m) : users[u].source = "ldap"}

LEMMA SomeSets ==
    \A m : /\ IsFiniteSet(AtInsert(m)) /\ Cardinality(AtInsert(m)) \in Nat
           /\ IsFiniteSet(AtInsert(m)') /\ Cardinality(AtInsert(m)') \in Nat
           /\ IsFiniteSet(Turned(m)) /\ Cardinality(Turned(m)) \in Nat
BY AccountsAssumption, FS_Subset, FS_CardinalityType DEF AtInsert, Turned

\* Only its own step moves a login, unless the server restarts.
LEMMA LoginMoves ==
    ASSUME Core, Next, NEW l \in Logins, login'[l] # login[l]
    PROVE  Restart \/ LoginStep(l)
<1>1. ASSUME NEW k \in Logins, k # l, LoginStep(k) PROVE FALSE
    BY <1>1 DEF LoginStep, Check, Verify, LookUp, Provision, Grant, Deny, Core, TypeOK
<1> QED
    BY <1>1 DEF Next, SeedAdmin, Tick, RequestStep, Enter, Load, Commit, Insert, Expire

\* Who is refused had looked before the account was there, and so has everybody
\* who is then still to insert it.
LEMMA OnlyLateOnes ==
    ASSUME Core, Next, NEW m \in Mails, Known(m)
    PROVE  Turned(m) \cup AtInsert(m)' \subseteq AtInsert(m) /\ Turned(m) \cap AtInsert(m)' = {}
<1>t. /\ LoginsType /\ EventsType /\ Signed
      /\ \A u, v \in Owner(m) : u = v
    BY DEF Core, TypeOK, LoginsType, EventsType, Owner, Rows
<1>1. ASSUME NEW l \in Turned(m) PROVE l \in AtInsert(m) /\ l \notin AtInsert(m)'
    <2>1. /\ l \in Logins /\ login[l].pc \in {"lookup", "provision"} /\ login'[l] = Idle
          /\ Len(failures'[login[l].name]) > Len(failures[login[l].name])
          /\ MailOf[login[l].name] = m
        BY DEF Turned, Refused
    <2>2. login[l].name \in Names /\ login'[l].pc = "idle" /\ login'[l] # login[l]
        BY <1>t, <2>1 DEF Signed, Idle
    <2>3. ASSUME failures'[login[l].name] = <<>> PROVE FALSE
        <3>1. Len(failures[login[l].name]) \in Nat
            BY <1>t, <2>2 DEF EventsType
        <3> QED
            BY <2>1, <2>3, <3>1
    <2>4. LoginStep(l)
        BY <2>1, <2>2, <2>3, LoginMoves DEF Restart
    <2>5. ~LookUp(l)
        <3>1. ASSUME LookUp(l) PROVE FALSE
            <4>1. ASSUME NEW u, Grant(l, u) PROVE FALSE
                BY <1>t, <2>2, <2>3, <4>1 DEF Grant, EventsType
            <4>2. login'[l].pc # "provision"
                BY <2>2
            <4>3. PICK u \in Owner(m) : users[u].source # "ldap"
                BY <1>t, <2>1, <2>2, <3>1, <4>1, <4>2 DEF LookUp, LoginsType
            <4> QED
                BY <1>t, <4>3 DEF Known
        <3> QED
            BY <3>1
    <2>6. login[l].pc = "provision"
        BY <2>1, <2>4, <2>5 DEF LoginStep, Check, Verify, Provision
    <2> QED
        BY <2>1, <2>2, <2>6 DEF AtInsert
<1>2. ASSUME NEW l \in AtInsert(m)' PROVE l \in AtInsert(m)
    <2>1. l \in Logins /\ login'[l].pc = "provision" /\ MailOf[login'[l].name] = m
        BY DEF AtInsert
    <2>2. CASE login'[l] = login[l]
        BY <2>1, <2>2 DEF AtInsert
    <2>3. CASE login'[l] # login[l]
        <3>1. LoginStep(l)
            BY <2>1, <2>3, LoginMoves DEF Restart, Idle
        <3>2. LookUp(l) /\ login' = [login EXCEPT ![l].pc = "provision"]
            BY <1>t, <2>1, <2>3, <3>1 DEF LoginStep, Check, Verify, LookUp, Provision, Grant, Deny,
                                         Idle, LoginsType
        <3>3. Owner(MailOf[login[l].name]) = {}
            BY <1>t, <2>1, <3>2 DEF LookUp, Grant, Deny, Idle, LoginsType
        <3>4. MailOf[login[l].name] = m
            BY <1>t, <2>1, <3>2 DEF LoginsType
        <3> QED
            BY <3>3, <3>4 DEF Known
    <2> QED
        BY <2>2, <2>3
<1> QED
    BY <1>1, <1>2

\* The login that makes the account is done.
LEMMA FirstOne ==
    ASSUME Core, Next, ~Disorder, NEW m \in Mails, ~Known(m), Known(m)'
    PROVE  \E l \in Logins : AtInsert(m)' \subseteq Logins \ {l}
<1>1. PICK u \in Owner(m)' : users'[u].source = "ldap"
    BY DEF Known
<1>2. u \in Rows' /\ users'[u].mail = m
    BY DEF Owner
<1>3. CASE u \in Rows
    BY <1>1, <1>2, <1>3, OldAccounts DEF Known, Owner
<1>4. CASE u \notin Rows
    <2>1. PICK l \in Logins : Provision(l) /\ Grant(l, u)
        BY <1>1, <1>2, <1>4, NewAccounts
    <2>2. login'[l].pc = "idle"
        BY <2>1 DEF Grant, Idle, Core, TypeOK
    <2>3. AtInsert(m)' \subseteq Logins \ {l}
        BY <2>2 DEF AtInsert
    <2> QED
        BY <2>3
<1> QED
    BY <1>3, <1>4

LEMMA RefusalsInit == WatchedInit => Refusals
<1> SUFFICES ASSUME WatchedInit, NEW m \in Mails PROVE ~Known(m) /\ refused[m] = 0
    BY DEF WatchedInit, Refusals
<1> QED
    BY DEF WatchedInit, Init, Known, Owner, Rows

LEMMA RefusalsNext == Core /\ Refusals /\ [WatchedNext]_watchedVars => Refusals'
<1> SUFFICES ASSUME Core, Refusals, [WatchedNext]_watchedVars PROVE Refusals'
    OBVIOUS
<1>1. CASE UNCHANGED watchedVars
    BY <1>1 DEF watchedVars, vars, Refusals, Known, Owner, Rows, AtInsert
<1>2. CASE WatchedNext
    <2>1. Next /\ refused' = [m \in Mails |-> refused[m] + Cardinality(Turned(m))]
        BY <1>2 DEF WatchedNext, Watch, Turned
    <2>2. refused \in [Mails -> Nat] /\ refused' \in [Mails -> Nat]
        BY <2>1, SomeSets DEF Refusals
    <2>3. ASSUME orderly', NEW m \in Mails
          PROVE  IF Known(m)'
                 THEN refused'[m] + Cardinality(AtInsert(m)') < Cardinality(Logins)
                 ELSE refused'[m] = 0
        <3>1. orderly /\ ~Disorder
            BY <1>2, <2>3 DEF WatchedNext, Watch
        <3>2. refused'[m] = refused[m] + Cardinality(Turned(m))
            BY <2>1
        <3> DEFINE L == Cardinality(Logins)
                   A == Cardinality(AtInsert(m))
                   B == Cardinality(AtInsert(m)')
                   T == Cardinality(Turned(m))
        <3>3. L \in Nat /\ A \in Nat /\ B \in Nat /\ T \in Nat
            BY SomeSets, AccountsAssumption, FS_CardinalityType
        <3>4. CASE Known(m)
            <4>1. refused[m] + A < L
                BY <3>1, <3>4 DEF Refusals
            <4>2. Known(m)'
                <5>1. PICK u \in Owner(m) : users[u].source = "ldap"
                    BY <3>4 DEF Known
                <5>2. u \in Owner(m)' /\ users'[u].source = "ldap"
                    BY <2>1, <3>1, <5>1, OldAccounts DEF Owner
                <5> QED
                    BY <5>2 DEF Known
            <4>3. T + B <= A
                <5>1. /\ Turned(m) \cup AtInsert(m)' \subseteq AtInsert(m)
                      /\ Turned(m) \cap AtInsert(m)' = {}
                    BY <2>1, <3>4, OnlyLateOnes
                <5>2. Cardinality(Turned(m) \cup AtInsert(m)') = T + B - 0
                    <6>1. /\ IsFiniteSet(Turned(m)) /\ IsFiniteSet(AtInsert(m)')
                          /\ Cardinality(Turned(m) \cap AtInsert(m)') = 0
                        BY <5>1, SomeSets, FS_EmptySet
                    <6> QED
                        BY <6>1, FS_Union
                <5>3. Cardinality(Turned(m) \cup AtInsert(m)') <= A
                    BY <5>1, SomeSets, FS_Subset
                <5> HIDE DEF T, B, A
                <5> QED
                    BY <3>3, <5>2, <5>3
            <4> HIDE DEF T, B, A, L
            <4>4. refused'[m] + B < L
                BY <2>2, <3>2, <3>3, <4>1, <4>3 DEF T
            <4> QED
                BY <4>2, <4>4 DEF B, L
        <3>5. CASE ~Known(m)
            <4>1. T = 0
                <5>1. Turned(m) = {}
                    BY <3>5 DEF Turned, Known
                <5> QED
                    BY <5>1, FS_EmptySet
            <4>2. refused'[m] = 0
                BY <3>1, <3>2, <3>5, <4>1 DEF Refusals
            <4>3. ASSUME Known(m)' PROVE B < L
                <5>1. PICK l \in Logins : AtInsert(m)' \subseteq Logins \ {l}
                    BY <2>1, <3>1, <3>5, <4>3, FirstOne
                <5>2. IsFiniteSet(Logins \ {l}) /\ Cardinality(Logins \ {l}) = L - 1
                    BY AccountsAssumption, FS_RemoveElement
                <5>3. B <= L - 1
                    BY <5>1, <5>2, FS_Subset
                <5> HIDE DEF B, L
                <5> QED
                    BY <3>3, <5>3
            <4> HIDE DEF B, L
            <4>4. Known(m)' => refused'[m] + B < L
                BY <3>3, <4>2, <4>3
            <4> QED
                BY <4>2, <4>4 DEF B, L
        <3> QED
            BY <3>4, <3>5
    <2> QED
        BY <2>2, <2>3 DEF Refusals
<1> QED
    BY <1>1, <1>2

\* Whatever the logins, restarts and requests in between: of n slots for logins
\* no more than n - 1 are refused with the right password for an address, those that
\* authenticate_ldap_user had let past its select before the account was made.
THEOREM RightPasswordsAreRarelyRefused == WatchedSpec => []FewRightPasswordsRefused
<1>1. WatchedSpec => Spec
    <2>1. WatchedInit => Init
        BY DEF WatchedInit
    <2>2. [WatchedNext]_watchedVars => [Next]_vars
        BY DEF WatchedNext, watchedVars
    <2> QED
        BY <2>1, <2>2, PTL DEF WatchedSpec, Spec
<1>2. Refusals => FewRightPasswordsRefused
    <2> SUFFICES ASSUME Refusals, orderly, NEW m \in Mails
                 PROVE  refused[m] < Cardinality(Logins)
        BY DEF FewRightPasswordsRefused
    <2>1. refused[m] \in Nat /\ Cardinality(AtInsert(m)) \in Nat /\ Cardinality(Logins) \in Nat
        BY SomeSets, AccountsAssumption, FS_CardinalityType DEF Refusals
    <2>2. Cardinality(Logins) # 0
        BY AccountsAssumption, FS_EmptySet
    <2>3. CASE Known(m)
        <3>1. refused[m] + Cardinality(AtInsert(m)) < Cardinality(Logins)
            BY <2>3 DEF Refusals
        <3> QED
            BY <2>1, <3>1
    <2>4. CASE ~Known(m)
        BY <2>1, <2>2, <2>4 DEF Refusals
    <2> QED
        BY <2>3, <2>4
<1> QED
    BY <1>1, <1>2, CoreAlways, RefusalsInit, RefusalsNext, PTL DEF WatchedSpec

-----------------------------------------------------------------------------
(* Administrators who delete.                                              *)

IsAdmin(u) == u \in Rows /\ users[u].role = "admin"

\* Only administrators ask for more than a new password, and who is about to
\* delete somebody else is still active.
Deletions ==
    orderly =>
        /\ \A a, b \in Deleting : a = b
        /\ \A a \in Admins : request[a].op \in Ops \ {"password"} => IsAdmin(request[a].by)
        /\ \A a \in Deleting :
              /\ users[request[a].by].active
              /\ request[a].pc = "commit" => request[a].target # request[a].by
\* All members of a set with no more than one are equal.
LEMMA AtMostOne ==
    ASSUME NEW S, IsFiniteSet(S), ~(Cardinality(S) > 1)
    PROVE  \A p, q \in S : p = q
<1>1. Cardinality(S) \in Nat
    BY FS_CardinalityType
<1>2. Cardinality(S) = 0 \/ Cardinality(S) = 1
    BY <1>1
<1>3. S = {} \/ \E x : S = {x}
    BY <1>2, FS_EmptySet, FS_Singleton
<1> QED
    BY <1>3

\* Only its own step moves a request, unless the server restarts.
LEMMA RequestMoves ==
    ASSUME Core, Next, NEW a \in Admins, request'[a] # request[a]
    PROVE  \/ Restart
           \/ RequestStep(a) /\ \A b \in Admins \ {a} : request'[b] = request[b]
<1>1. ASSUME NEW b \in Admins, RequestStep(b)
      PROVE  \A c \in Admins \ {b} : request'[c] = request[c]
    BY <1>1 DEF RequestStep, Enter, Load, Commit, Insert, Core, Asked
<1>2. Restart \/ UNCHANGED request \/ \E b \in Admins : RequestStep(b)
    BY DEF Next, SeedAdmin, Tick, LoginStep, Check, Verify, LookUp, Provision, Expire
<1>3. ASSUME \E b \in Admins : RequestStep(b)
      PROVE  RequestStep(a) /\ \A b \in Admins \ {a} : request'[b] = request[b]
    <2>1. PICK b \in Admins : RequestStep(b)
        BY <1>3
    <2>2. b = a
        BY <1>1, <2>1
    <2> QED
        BY <1>1, <2>1, <2>2
<1>4. request' # request
    OBVIOUS
<1>5. CASE Restart
    BY <1>5
<1>6. CASE ~Restart
    BY <1>2, <1>3, <1>4, <1>6
<1> QED
    BY <1>5, <1>6

\* A set is finite if one of its members is the only one besides another.
LEMMA NearlyOne ==
    ASSUME NEW S, NEW r, \A p, q \in S \ {r} : p = q
    PROVE  IsFiniteSet(S)
<1>1. CASE S \subseteq {r}
    BY <1>1, FS_Singleton, FS_Subset
<1>2. CASE ~(S \subseteq {r})
    <2>1. PICK s \in S : s # r
        BY <1>2
    <2>2. \A q \in S : q = r \/ q = s
        BY <2>1
    <2>3. S \subseteq {r} \cup {s}
        BY <2>2
    <2>4. IsFiniteSet({r} \cup {s})
        BY FS_Singleton, FS_AddElement
    <2> QED
        BY <2>3, <2>4, FS_Subset
<1> QED
    BY <1>1, <1>2

LEMMA OneDeletion ==
    ASSUME Core, Next, ~Disorder, \A a, b \in Deleting : a = b
    PROVE  \A a, b \in Deleting' : a = b
<1>1. CASE Deleting' \subseteq Deleting
    BY <1>1
<1>2. CASE ~(Deleting' \subseteq Deleting)
    <2>1. PICK a \in Deleting' : a \notin Deleting
        BY <1>2
    <2>2. a \in Admins /\ request'[a] # request[a] /\ request'[a].op = "delete"
        BY <2>1 DEF Deleting
    <2>3. ~Restart
        BY <2>2 DEF Restart, NoRequest
    <2>4. \A b \in Admins \ {a} : request'[b] = request[b]
        BY <2>2, <2>3, RequestMoves
    <2>5. Deleting' \ {a} \subseteq Deleting
        BY <2>4 DEF Deleting
    <2> DEFINE D == Deleting'
    <2>6. \A p, q \in D \ {a} : p = q
        BY <2>5
    <2> HIDE DEF D
    <2>7. IsFiniteSet(D)
        BY <2>6, NearlyOne
    <2>8. ~(Cardinality(D) > 1)
        BY DEF Disorder, D
    <2>9. \A p, q \in D : p = q
        BY <2>7, <2>8, AtMostOne
    <2> QED
        BY <2>9 DEF D
<1> QED
    BY <1>1, <1>2

\* What a step may make of a request: it ends, or it is as before, or it is new
\* and its user passed, or it has loaded an account.
LEMMA RequestChange ==
    ASSUME Core, Next, NEW a \in Admins
    PROVE  LET q == request[a]
               r == request'[a]
           IN  \/ r = q
               \/ r = NoRequest
               \/ /\ r.pc # "commit" /\ r.op \in Ops
                  /\ r.by \in Rows /\ users[r.by].active
                  /\ r.op = "password" \/ users[r.by].role = "admin"
               \/ /\ r.op = q.op /\ r.by = q.by
                  /\ q.op = "delete" => r.target # r.by
<1> DEFINE q == request[a]
           r == request'[a]
<1>t. q \in Request
    BY DEF Core, Asked
<1>1. CASE Restart
    BY <1>1 DEF Restart
<1>2. ASSUME NEW m, NEW op \in Ops, NEW want, Enter(a, m, op, want)
      PROVE  /\ r.pc # "commit" /\ r.op \in Ops
             /\ r.by \in Rows /\ users[r.by].active
             /\ r.op = "password" \/ users[r.by].role = "admin"
    <2>1. PICK u \in CurrentUser(m) :
              /\ op = "password" \/ users[u].role = "admin"
              /\ request' = [request EXCEPT ![a] =
                 [pc |-> IF op = "create" THEN "insert" ELSE "load", op |-> op,
                  by |-> u, admin |-> users[u].role = "admin",
                  target |-> Nobody, seen |-> NoUser, want |-> want]]
        BY <1>2 DEF Enter
    <2>2. r.pc \in {"insert", "load"} /\ r.op = op /\ r.by = u
        BY <2>1 DEF Core, Asked
    <2> QED
        BY <2>1, <2>2 DEF CurrentUser, Owner
<1>3. ASSUME NEW u, NEW p, Load(a, u, p), r # NoRequest
      PROVE  /\ r.op = q.op /\ r.by = q.by
             /\ q.op = "delete" => r.target # r.by
    <2>1. r = [q EXCEPT !.pc = "commit", !.target = u, !.seen = users[u]] /\ MayLoad(q, u, p)
        BY <1>3 DEF Load, Core, Asked
    <2>2. r.op = q.op /\ r.by = q.by /\ r.target = u
        BY <1>t, <2>1 DEF Request
    <2>3. q.op = "delete" => u # q.by
        BY <2>1 DEF MayLoad
    <2> QED
        BY <2>2, <2>3
<1>4. CASE Commit(a) \/ Insert(a)
    BY <1>4 DEF Commit, Insert, Core, Asked
<1>5. DOMAIN Changes = Ops
    BY DEF Changes, Ops
<1>6. CASE RequestStep(a)
    BY <1>2, <1>3, <1>4, <1>5, <1>6 DEF RequestStep
<1> QED
    BY <1>1, <1>6, RequestMoves

\* Nobody becomes an administrator but by an update.
LEMMA Promotion ==
    ASSUME Core, Next, NEW u \in Rows, users[u].role # "admin", users'[u].role = "admin"
    PROVE  \E a \in Admins : Commit(a) /\ request[a].op = "update"
<1>1. u \in Ids
    BY DEF Rows
<1>2. CASE \E v \in Free : \E w : users' = [users EXCEPT ![v] = w]
    BY <1>1, <1>2 DEF Core, TypeOK, Free
<1>3. ASSUME NEW a \in Admins, Commit(a) PROVE request[a].op = "update"
    <2> DEFINE q == request[a]
    <2>1. q.op \in Ops \ {"create"} /\ q.want \in Changes[q.op] /\ q.target \in Rows
        BY <1>3 DEF Commit, Core, Asked
    <2>2. users' = users \/ users' = [users EXCEPT ![q.target] = Written(q)]
        BY <1>3 DEF Commit
    <2>3. q.target = u /\ users'[u] = Written(q)
        BY <1>1, <2>2 DEF Core, TypeOK
    <2>4. users[q.target] \in User
        BY <1>1, <2>3 DEF Core, TypeOK, Rows
    <2> HIDE DEF q
    <2>5. q.op # "update" => Written(q).role = users[q.target].role
        BY <2>1, <2>4, WrittenColumns
    <2> QED
        BY <2>3, <2>5 DEF q
<1> QED
    BY <1>1, <1>2, <1>3 DEF Next, SeedAdmin, LoginStep, Provision, RequestStep, Insert,
       Tick, Restart, Check, Verify, LookUp, Expire, Enter, Load

LEMMA DeletionsInit == WatchedInit => Deletions /\ SomeAdminIsLeft
BY DEF WatchedInit, Init, Deletions, SomeAdminIsLeft, Deleting, NoRequest, Ops, Rows

LEMMA DeletionsNext ==
    Core /\ Deletions /\ SomeAdminIsLeft /\ [WatchedNext]_watchedVars
        => Deletions' /\ SomeAdminIsLeft'
<1> SUFFICES ASSUME Core, Deletions, SomeAdminIsLeft, [WatchedNext]_watchedVars
             PROVE  Deletions' /\ SomeAdminIsLeft'
    OBVIOUS
<1>1. CASE UNCHANGED watchedVars
    BY <1>1 DEF watchedVars, vars, Deletions, SomeAdminIsLeft, Deleting, IsAdmin, Rows
<1>2. CASE WatchedNext
    <2> SUFFICES ASSUME orderly' PROVE Deletions' /\ SomeAdminIsLeft'
        BY DEF Deletions, SomeAdminIsLeft
    <2>1. Next /\ orderly /\ ~Disorder
        BY <1>2 DEF WatchedNext, Watch
    <2>2. \A a, b \in Deleting : a = b
        BY <2>1 DEF Deletions
    <2>3. \A a, b \in Deleting' : a = b
        BY <2>1, <2>2, OneDeletion
    <2>4. ASSUME NEW u, IsAdmin(u) PROVE IsAdmin(u)'
        BY <2>1, <2>4, OldAccounts DEF IsAdmin
    <2>5. ASSUME NEW u, IsAdmin(u), users[u].active, ~users'[u].active
          PROVE  \E a \in Deleting : /\ Commit(a) /\ request[a].target = u
                                     /\ u # request[a].by /\ request'[a] = NoRequest
        <3>1. users'[u].active # users[u].active
            BY <2>5
        <3>2. PICK a \in Admins : Commit(a) /\ request[a].op = "delete" /\ request[a].target = u
            BY <2>1, <2>5, <3>1, OldAccounts DEF IsAdmin
        <3>3. a \in Deleting /\ request[a].pc = "commit"
            BY <3>2 DEF Deleting, Commit
        <3>4. u # request[a].by
            BY <2>1, <3>2, <3>3 DEF Deletions
        <3>5. request'[a] = NoRequest
            BY <3>2 DEF Commit, Core, Asked
        <3> QED
            BY <3>2, <3>3, <3>4, <3>5
    <2>6. ASSUME NEW a \in Admins, request'[a].op \in Ops \ {"password"}
          PROVE  IsAdmin(request'[a].by) /\ IsAdmin(request[a].by)'
        <3>1. ASSUME request'[a].op = request[a].op /\ request'[a].by = request[a].by
              PROVE  IsAdmin(request'[a].by)
            BY <2>1, <2>6, <3>1 DEF Deletions
        <3>2. request'[a] # NoRequest
            BY <2>6 DEF NoRequest, Ops
        <3>3. IsAdmin(request'[a].by)
            BY <2>1, <2>6, <3>1, <3>2, RequestChange DEF IsAdmin
        <3>4. PICK v : v = request'[a].by
            OBVIOUS
        <3>5. IsAdmin(v)'
            BY <2>4, <3>3, <3>4
        <3> QED
            BY <3>3, <3>4, <3>5 DEF IsAdmin
    <2>7. ASSUME NEW a \in Deleting'
          PROVE  users'[request'[a].by].active
                 /\ (request'[a].pc = "commit" => request'[a].target # request'[a].by)
        <3>1. a \in Admins /\ request'[a].op = "delete" /\ request'[a] # NoRequest
            BY DEF Deleting, NoRequest
        <3>2. IsAdmin(request'[a].by)
            BY <2>6, <3>1 DEF Ops
        <3>3. /\ users[request'[a].by].active
              /\ request'[a].pc = "commit" => request'[a].target # request'[a].by
            <4>1. CASE request'[a].op = request[a].op /\ request'[a].by = request[a].by
                <5>1. a \in Deleting
                    BY <3>1, <4>1 DEF Deleting
                <5>2. users[request[a].by].active
                      /\ (request[a].pc = "commit" => request[a].target # request[a].by)
                    BY <2>1, <5>1 DEF Deletions
                <5> QED
                    BY <2>1, <3>1, <4>1, <5>2, RequestChange
            <4> QED
                BY <2>1, <3>1, <4>1, RequestChange
        <3>4. ASSUME ~users'[request'[a].by].active PROVE FALSE
            <4>1. PICK b \in Deleting : /\ Commit(b) /\ request[b].target = request'[a].by
                                        /\ request'[a].by # request[b].by
                                        /\ request'[b] = NoRequest
                BY <2>5, <3>2, <3>3, <3>4
            <4>2. b # a /\ b \in Admins
                BY <3>1, <4>1 DEF Deleting
            <4>3. ~Restart /\ request'[b] # request[b]
                <5>1. request[b].op = "delete"
                    BY <4>1 DEF Deleting
                <5> QED
                    BY <3>1, <4>1, <5>1 DEF Restart, NoRequest
            <4>4. request'[a] = request[a]
                BY <2>1, <3>1, <4>2, <4>3, RequestMoves
            <4>5. a \in Deleting
                BY <3>1, <4>4 DEF Deleting
            <4> QED
                BY <2>2, <4>1, <4>2, <4>5
        <3> QED
            BY <3>3, <3>4
    <2>8. Deletions'
        BY <2>3, <2>6, <2>7 DEF Deletions, IsAdmin, Deleting
    <2>9. SomeAdminIsLeft'
        <3>1. CASE \E u \in Rows : users[u].role = "admin"
            <4>1. PICK u \in Rows : users[u].role = "admin" /\ users[u].active
                BY <2>1, <3>1 DEF SomeAdminIsLeft
            <4>2. IsAdmin(u) /\ IsAdmin(u)'
                BY <2>4, <4>1 DEF IsAdmin
            <4>3. CASE users'[u].active
                BY <4>2, <4>3 DEF SomeAdminIsLeft, IsAdmin
            <4>4. CASE ~users'[u].active
                <5>1. PICK a \in Deleting : /\ Commit(a) /\ request[a].target = u
                                            /\ u # request[a].by /\ request'[a] = NoRequest
                    BY <2>5, <4>1, <4>2, <4>4
                <5>0. PICK v : v = request[a].by
                    OBVIOUS
                <5>2. IsAdmin(v) /\ users[v].active
                    <6>1. a \in Admins /\ request[a].op \in Ops \ {"password"}
                        BY <5>1 DEF Deleting, Ops
                    <6> QED
                        BY <2>1, <5>0, <5>1, <6>1 DEF Deletions
                <5>3. IsAdmin(v)'
                    BY <2>4, <5>2
                <5>4. users'[v].active
                    <6>1. ASSUME ~users'[v].active PROVE FALSE
                        <7>1. PICK b \in Deleting : request[b].target = v /\ v # request[b].by
                            BY <2>5, <5>2, <6>1
                        <7> QED
                            BY <2>2, <5>0, <5>1, <7>1
                    <6> QED
                        BY <6>1
                <5>5. v \in Rows' /\ users'[v].role = "admin"
                    BY <5>3 DEF IsAdmin
                <5> QED
                    BY <5>4, <5>5 DEF SomeAdminIsLeft
            <4> QED
                BY <4>3, <4>4
        <3>2. CASE \A u \in Rows : users[u].role # "admin"
            <4> SUFFICES ASSUME NEW u \in Rows', users'[u].role = "admin"
                         PROVE  users'[u].active
                BY DEF SomeAdminIsLeft
            <4>1. CASE u \notin Rows
                BY <2>1, <4>1, NewAccounts
            <4>2. CASE u \in Rows
                <5>1. users'[u] # users[u] /\ u \in Ids
                    BY <3>2, <4>2 DEF Rows
                <5>2. PICK a \in Admins : Commit(a) /\ request[a].op = "update"
                    BY <2>1, <3>2, <4>2, <5>1, Promotion
                <5>3. IsAdmin(request[a].by)
                    BY <2>1, <5>2 DEF Deletions, Ops
                <5> QED
                    BY <3>2, <5>3 DEF IsAdmin
            <4> QED
                BY <4>1, <4>2
        <3> QED
            BY <3>1, <3>2
    <2> QED
        BY <2>8, <2>9
<1> QED
    BY <1>1, <1>2

\* Whatever the requests: unless two deletions overlap, or update_user takes an
\* administrator's rights or changes an address, an active administrator is
\* always left, because delete_user refuses only the caller's own account and the
\* caller was an active administrator when it looked.
THEOREM AnAdministratorIsLeft == WatchedSpec => []SomeAdminIsLeft
<1>1. WatchedSpec => Spec
    <2>1. WatchedInit => Init
        BY DEF WatchedInit
    <2>2. [WatchedNext]_watchedVars => [Next]_vars
        BY DEF WatchedNext, watchedVars
    <2> QED
        BY <2>1, <2>2, PTL DEF WatchedSpec, Spec
<1> QED
    BY <1>1, CoreAlways, DeletionsInit, DeletionsNext, PTL DEF WatchedSpec
=============================================================================
