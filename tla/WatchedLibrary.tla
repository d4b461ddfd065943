--------------------------- MODULE WatchedLibrary ---------------------------
(***************************************************************************)
(* The library with two variables that watch its steps and change nothing: *)
(* they say which requests could have been overtaken, and whether names of *)
(* connections could have been given twice.                                *)
(***************************************************************************)
EXTENDS Library

VARIABLES
    contended,  \* the requests since whose look-up another one has written
    disturbed   \* a name was given to two connections by hand, or two imports
                \* overlapped

watchedVars == <<libraryVars, contended, disturbed>>

WatchedInit ==
    /\ LibraryInit
    /\ contended = {}
    /\ disturbed = FALSE

\* The imports that are about to make a connection
Making == {q \in Requests : request[q].op = "make"}

\* A connection is given, other than by an import, a name that another one has
\* or that an import may be about to give.
NamedByHand ==
    \E c \in Conns :
        /\ conn'[c] # conn[c] /\ conn'[c] # None
        /\ Named(conn'[c]) # {} \/ Making # {}
        /\ \A q \in Making : request'[q].pc = "write"

Watch ==
    /\ contended' = {q \in Requests :
           /\ request'[q].pc = "write"
           /\ q \in contended \/ (request[q].pc = "write" /\ tables' # tables)}
    /\ disturbed' = (disturbed \/ Cardinality(Making') > 1 \/ NamedByHand)

WatchedNext == LibraryNext /\ Watch

WatchedSpec == WatchedInit /\ [][WatchedNext]_watchedVars

-----------------------------------------------------------------------------
\* Importing a report over and over makes one connection, which the later
\* imports find by its name: as long as nobody gives one name twice and imports
\* do not overlap, names are unique, and the import that expects so works.
ImportsShareConnections ==
    disturbed \/ \A n \in Names : Cardinality(Named(n)) <= 1

\* A request ends in an internal error only if another one has written between
\* its look-up and its insert.  (But for what is not looked up: the report of a
\* query's history, and that only one connection has a name.)
ErrorsNeedContention ==
    [][\A q \in Requests :
          /\ request[q].pc = "write" /\ request'[q].pc = "idle" /\ answer'[q] = "error"
          /\ request[q].op = "history" => present
          => q \in contended]_watchedVars
=============================================================================
