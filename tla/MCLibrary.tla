----------------------------- MODULE MCLibrary ------------------------------
(***************************************************************************)
(* The parts of the site on a small instance.  A behaviour is about one of *)
(* them: the others stay in their initial state.                           *)
(***************************************************************************)
EXTENDS MCContents, TLC

VARIABLE focus      \* what the behaviour is about

portal == vars
library == <<conn, template, snapshot, tag, comment, present, request, answer,
             contended, disturbed>>
keys == keysVars
contents == <<renderingVars, comparisonVars, builderVars>>
mcVars == <<library, portal, keys, contents, focus>>

Symmetry == Permutations(Keys) \cup Permutations(Schedules) \cup Permutations(Rows)

\* A behaviour is about connections and saved queries, the history of queries,
\* tags and comments, the portal, keys, or contents.
MCInit ==
    /\ WatchedInit
    /\ Init
    /\ KeysInit
    /\ focus \in {"queries", "history", "notes", "portal", "keys",
                  "builder", "versions", "rendering"}
    /\ IF focus = "builder" THEN BuilderInit
       ELSE config = NoClauses /\ stage = "built" /\ text = None /\ back = None
    /\ IF focus = "versions" THEN ComparisonInit
       ELSE old = Blank /\ new = Blank /\ comparison = None
    /\ RenderingInit
    /\ focus # "rendering" => usable = {}
    /\ focus # "portal" => role = [u \in Users |-> "admin"]
    /\ focus # "keys" => key = [k \in Keys |-> None]
    /\ focus = "keys" => Cardinality({k \in Keys : key[k] # None}) = 2

InFocus ==
    /\ focus # "queries" => UNCHANGED template
    /\ focus # "history" => UNCHANGED snapshot
    /\ focus # "notes" => UNCHANGED <<tag, comment>> /\ (focus # "history" => UNCHANGED present)
    /\ focus = "notes" => UNCHANGED conn
    /\ \A q \in Requests :
          request'[q].op \in
              CASE focus = "queries" -> {"none", "save", "import", "dropTemplate", "make"}
                [] focus = "history" -> {"none", "history", "dropSnapshot"}
                [] OTHER -> {"none", "tag"}

MCNext ==
    \/ /\ focus \in {"queries", "history", "notes"}
       /\ WatchedNext
       /\ InFocus
       /\ UNCHANGED <<portal, keys, contents, focus>>
    \/ focus = "portal" /\ Next /\ UNCHANGED <<library, keys, contents, focus>>
    \/ focus = "keys" /\ KeysNext /\ UNCHANGED <<library, portal, contents, focus>>
    \/ focus = "builder" /\ BuilderNext
          /\ UNCHANGED <<library, portal, keys, renderingVars, comparisonVars, focus>>
    \/ focus = "versions" /\ ComparisonNext
          /\ UNCHANGED <<library, portal, keys, renderingVars, builderVars, focus>>
    \/ focus = "rendering" /\ RenderingNext
          /\ UNCHANGED <<library, portal, keys, comparisonVars, builderVars, focus>>

MCSpec == MCInit /\ [][MCNext]_mcVars
=============================================================================
