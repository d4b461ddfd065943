------------------------------ MODULE Library -------------------------------
(***************************************************************************)
(* What designers keep besides reports: data connections                   *)
(* (routes/datasources.py), saved queries and their history                *)
(* (routes/api/query_builder.py), tags and comments of versions            *)
(* (services/versioning), and the import of reports, which finds or makes  *)
(* the connections it needs (routes/designer.py).                          *)
(*                                                                         *)
(* A request that looks something up and then writes is two steps, each    *)
(* its own transaction; other requests run in between.  A row is what its  *)
(* foreign keys say, names and owners are members of small sets.           *)
(***************************************************************************)
EXTENDS Common, Naturals, FiniteSets

\* Admin is one of Users.
CONSTANTS Admin, Conns, Names, Rows, Labels, Report

Versions == {1, 2}

\* None is no name, no version and no row.
ASSUME LibraryAssumption ==
    /\ None \notin Names
    /\ None \notin Versions
    /\ None \notin [conn : Conns, by : Users]
    /\ None \notin [conn : Conns \cup {None}, report : {Report, None}, by : Users]
    /\ None \notin [version : Versions, by : Users]

VARIABLES
    conn,       \* data_connections: the name of each
    template,   \* query_templates: connection and creator
    snapshot,   \* query_history: connection, report and creator
    tag,        \* report_tags: the version that a label stands for
    comment,    \* report_comments: version and creator
    present,    \* whether the report exists
    request,    \* per request: where it is, who asks, what it has looked up
    answer      \* per request: its last answer

tables == <<conn, template, snapshot, tag, comment, present>>
libraryVars == <<tables, request, answer>>

Idle == [pc |-> "idle", op |-> "none", by |-> None, key |-> None]

Live(table) == {i \in DOMAIN table : table[i] # None}

\* Primary keys are new: not one that a request still refers to.
Unused(table) == (DOMAIN table \ Live(table)) \ {request[q].key : q \in Requests}

LibraryTypeOK ==
    /\ conn \in [Conns -> Names \cup {None}]
    /\ template \in [Rows -> [conn : Conns, by : Users] \cup {None}]
    /\ snapshot \in [Rows -> [conn : Conns \cup {None}, report : {Report, None}, by : Users]
                             \cup {None}]
    /\ tag \in [Labels -> Versions \cup {None}]
    /\ comment \in [Rows -> [version : Versions, by : Users] \cup {None}]
    /\ DOMAIN request = Requests /\ DOMAIN answer = Requests
    \* the foreign keys
    /\ \A t \in Live(template) : conn[template[t].conn] # None
    /\ \A h \in Live(snapshot) :
          /\ snapshot[h].conn # None => conn[snapshot[h].conn] # None
          /\ snapshot[h].report # None => present
    /\ ~present => Live(tag) = {} /\ Live(comment) = {}

LibraryInit ==
    /\ conn = [c \in Conns |-> None]
    /\ template = [t \in Rows |-> None]
    /\ snapshot = [h \in Rows |-> None]
    /\ tag = [l \in Labels |-> None]
    /\ comment = [k \in Rows |-> None]
    /\ present = TRUE
    /\ request = [q \in Requests |-> Idle]
    /\ answer = [q \in Requests |-> "none"]

May(u, owner) == u = Admin \/ u = owner

\* A request ends with an answer.
End(q, a) ==
    /\ request' = [request EXCEPT ![q] = Idle]
    /\ answer' = [answer EXCEPT ![q] = a]

\* ... or has looked something up and goes on.
Continue(q, op, u, key) ==
    /\ request' = [request EXCEPT ![q] = [pc |-> "write", op |-> op, by |-> u, key |-> key]]
    /\ answer' = [answer EXCEPT ![q] = "none"]

Writing(q, op) == request[q].pc = "write" /\ request[q].op = op

-----------------------------------------------------------------------------
(* Connections.                                                            *)

\* create_connection; nothing keeps names apart.
CreateConnection(q, c, n) ==
    /\ request[q] = Idle
    /\ c \in Unused(conn)
    /\ conn' = [conn EXCEPT ![c] = n]
    /\ End(q, "ok")
    /\ UNCHANGED <<template, snapshot, tag, comment, present>>

\* update_connection
RenameConnection(q, c, n) ==
    /\ request[q] = Idle
    /\ conn[c] # None
    /\ conn' = [conn EXCEPT ![c] = n]
    /\ End(q, "ok")
    /\ UNCHANGED <<template, snapshot, tag, comment, present>>

\* delete_connection: templates go with their connection, the history keeps
\* its queries without it.
DeleteConnection(q, c) ==
    /\ request[q] = Idle
    /\ conn[c] # None
    /\ conn' = [conn EXCEPT ![c] = None]
    /\ template' = [t \in Rows |-> IF t \in Live(template) /\ template[t].conn = c
                                   THEN None ELSE template[t]]
    /\ snapshot' = [h \in Rows |-> IF h \in Live(snapshot) /\ snapshot[h].conn = c
                                   THEN [snapshot[h] EXCEPT !.conn = None] ELSE snapshot[h]]
    /\ End(q, "ok")
    /\ UNCHANGED <<tag, comment, present>>

-----------------------------------------------------------------------------
(* Saved queries and their history.                                        *)

\* save_query_template, import_templates_endpoint and save_query_history look
\* the connection up.
FindConnection(q, u, op, c) ==
    /\ request[q] = Idle
    /\ UNCHANGED tables
    /\ IF conn[c] = None THEN End(q, "notFound") ELSE Continue(q, op, u, c)

\* Mutant: the foreign key is not checked.
InsertTemplates_Unchecked(q, ts) ==
    /\ request[q].pc = "write" /\ request[q].op \in {"save", "import"}
    /\ ts \subseteq Unused(template) /\ ts # {}
    /\ request[q].op = "save" => Cardinality(ts) = 1
    /\ template' = [t \in Rows |-> IF t \in ts
                        THEN [conn |-> request[q].key, by |-> request[q].by] ELSE template[t]]
    /\ End(q, "ok")
    /\ UNCHANGED <<conn, snapshot, tag, comment, present>>

\* The insert of one or, from a bundle, several templates in one transaction;
\* it fails if the connection is gone by now.
InsertTemplates(q, ts) ==
    /\ request[q].pc = "write" /\ request[q].op \in {"save", "import"}
    /\ ts \subseteq Unused(template) /\ ts # {}
    /\ request[q].op = "save" => Cardinality(ts) = 1
    /\ UNCHANGED <<conn, snapshot, tag, comment, present>>
    /\ LET row == [conn |-> request[q].key, by |-> request[q].by]
       IN  IF conn[request[q].key] = None
           THEN End(q, "error") /\ UNCHANGED template
           ELSE /\ template' = [t \in Rows |-> IF t \in ts THEN row ELSE template[t]]
                /\ End(q, "ok")

\* The insert of a snapshot, of a query of the report or of none; the report
\* has not been looked up.
InsertSnapshot(q, h, r) ==
    /\ Writing(q, "history")
    /\ h \in Unused(snapshot)
    /\ UNCHANGED <<conn, template, tag, comment, present>>
    /\ IF conn[request[q].key] = None \/ (r # None /\ ~present)
       THEN End(q, "error") /\ UNCHANGED snapshot
       ELSE /\ snapshot' = [snapshot EXCEPT ![h] =
                   [conn |-> request[q].key, report |-> r, by |-> request[q].by]]
            /\ End(q, "ok")

\* What u may fetch or delete
TemplateAccess(u, t) == May(u, template[t].by)
HistoryAccess(u, h) == May(u, snapshot[h].by)

\* get_query_template and export_templates_endpoint: all of them, or an error
Export(u, ts) ==
    CASE ~(ts \subseteq Live(template)) -> "notFound"
      [] \E t \in ts : t \in Live(template) /\ ~TemplateAccess(u, t) -> "forbidden"
      [] OTHER -> "ok"

\* get_query_history
Fetch(u, h) ==
    CASE snapshot[h] = None -> "notFound"
      [] OTHER -> IF HistoryAccess(u, h) THEN "ok" ELSE "forbidden"

\* delete_query_template and delete_query_history: the row is loaded, ...
LoadRow(q, u, op, i) ==
    /\ request[q] = Idle
    /\ UNCHANGED tables
    /\ LET found == IF op = "dropTemplate" THEN Export(u, {i}) ELSE Fetch(u, i)
       IN  IF found = "ok" THEN Continue(q, op, u, i) ELSE End(q, found)

\* ... then deleted, which succeeds even if the row is gone meanwhile: the ORM
\* only warns, and delete_snapshot is given the row that its session knows.
DropTemplate(q) ==
    /\ Writing(q, "dropTemplate")
    /\ template' = [template EXCEPT ![request[q].key] = None]
    /\ End(q, "ok")
    /\ UNCHANGED <<conn, snapshot, tag, comment, present>>

DropSnapshot(q) ==
    /\ Writing(q, "dropSnapshot")
    /\ snapshot' = [snapshot EXCEPT ![request[q].key] = None]
    /\ End(q, "ok")
    /\ UNCHANGED <<conn, template, tag, comment, present>>

-----------------------------------------------------------------------------
(* Tags and comments.                                                      *)

\* Mutant: a label that is there already is not noticed.
FindTag_Always(q, u, l) ==
    /\ request[q] = Idle
    /\ UNCHANGED tables
    /\ IF ~present THEN End(q, "notFound") ELSE Continue(q, "tag", u, l)

\* tag_version and add_tag up to the select of the label; an owner of the
\* report asks.
FindTag(q, u, l) ==
    /\ request[q] = Idle
    /\ UNCHANGED tables
    /\ CASE ~present -> End(q, "notFound")
         [] present /\ tag[l] # None -> End(q, "conflict")
         [] OTHER -> Continue(q, "tag", u, l)

\* The insert fails if the label has come meanwhile (labels are unique for a
\* report) or the report has gone.  The version need not exist.
InsertTag(q, v) ==
    /\ Writing(q, "tag")
    /\ UNCHANGED <<conn, template, snapshot, comment, present>>
    /\ IF tag[request[q].key] # None \/ ~present
       THEN End(q, "error") /\ UNCHANGED tag
       ELSE tag' = [tag EXCEPT ![request[q].key] = v] /\ End(q, "ok")

\* untag_version
RemoveTag(q, l) ==
    /\ request[q] = Idle
    /\ tag' = [tag EXCEPT ![l] = None]
    /\ End(q, IF tag[l] = None THEN "notFound" ELSE "ok")
    /\ UNCHANGED <<conn, template, snapshot, comment, present>>

\* add_comment_endpoint
AddComment(q, u, k, v) ==
    /\ request[q] = Idle
    /\ k \in Unused(comment)
    /\ comment' = IF present THEN [comment EXCEPT ![k] = [version |-> v, by |-> u]] ELSE comment
    /\ End(q, IF present THEN "ok" ELSE "notFound")
    /\ UNCHANGED <<conn, template, snapshot, tag, present>>

\* delete_comment_endpoint: one's own only, even for an administrator
DeleteComment(q, u, k) ==
    /\ request[q] = Idle
    /\ LET mine == comment[k] # None /\ comment[k].by = u
       IN  /\ comment' = IF mine THEN [comment EXCEPT ![k] = None] ELSE comment
           /\ End(q, IF mine THEN "ok" ELSE "notFound")
    /\ UNCHANGED <<conn, template, snapshot, tag, present>>

\* delete_report takes tags, comments and the history of its queries along.
EraseReport ==
    /\ present
    /\ present' = FALSE
    /\ tag' = [l \in Labels |-> None]
    /\ comment' = [k \in Rows |-> None]
    /\ snapshot' = [h \in Rows |-> IF h \in Live(snapshot) /\ snapshot[h].report = Report
                                   THEN None ELSE snapshot[h]]
    /\ UNCHANGED <<conn, template, request, answer>>

-----------------------------------------------------------------------------
(* The import of a report with one data source, whose connection has       *)
(* name n in the exporting system.                                         *)

Named(n) == {c \in Conns : conn[c] = n}

\* Mutant: a connection is made without looking for its name.
FindByName_New(q, u, n) ==
    /\ request[q] = Idle
    /\ UNCHANGED tables
    /\ Continue(q, "make", u, n)

\* import_report up to the select by name, which expects one row at most.
FindByName(q, u, n) ==
    /\ request[q] = Idle
    /\ UNCHANGED tables
    /\ CASE Cardinality(Named(n)) > 1 -> End(q, "error")
         [] Cardinality(Named(n)) = 1 -> End(q, "imported")
         [] OTHER -> Continue(q, "make", u, n)

\* The connection is committed on its own, before the report.
MakeConnection(q, c) ==
    /\ Writing(q, "make")
    /\ c \in Unused(conn)
    /\ conn' = [conn EXCEPT ![c] = request[q].key]
    /\ End(q, "imported")
    /\ UNCHANGED <<template, snapshot, tag, comment, present>>

-----------------------------------------------------------------------------
Step(q) ==
    \/ \E c \in Conns :
          \/ \E n \in Names : CreateConnection(q, c, n) \/ RenameConnection(q, c, n)
          \/ DeleteConnection(q, c)
          \/ MakeConnection(q, c)
          \/ \E u \in Users, op \in {"save", "import", "history"} : FindConnection(q, u, op, c)
    \/ \E ts \in SUBSET Rows : InsertTemplates(q, ts)
    \/ \E i \in Rows :
          \/ \E r \in {Report, None} : InsertSnapshot(q, i, r)
          \/ \E u \in Users :
                \/ \E op \in {"dropTemplate", "dropSnapshot"} : LoadRow(q, u, op, i)
                \/ \E v \in Versions : AddComment(q, u, i, v)
                \/ DeleteComment(q, u, i)
    \/ DropTemplate(q)
    \/ DropSnapshot(q)
    \/ \E l \in Labels :
          \/ \E u \in Users : FindTag(q, u, l)
          \/ RemoveTag(q, l)
    \/ \E v \in Versions : InsertTag(q, v)
    \/ \E u \in Users, n \in Names : FindByName(q, u, n)

\* The process ends, and with it the requests.
Crash ==
    /\ request' = [q \in Requests |-> Idle]
    /\ UNCHANGED <<tables, answer>>

LibraryNext == EraseReport \/ Crash \/ \E q \in Requests : Step(q)

LibrarySpec == LibraryInit /\ [][LibraryNext]_libraryVars
=============================================================================
