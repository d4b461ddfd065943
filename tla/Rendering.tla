----------------------------- MODULE Rendering ------------------------------
(***************************************************************************)
(* One report shown in two ways.  The preview (routes/preview.py) walks    *)
(* over the elements, runs their queries and enters inline sub-reports,    *)
(* each of which is rendered in the same way.  An export first fetches the *)
(* data of all elements (services/report/rendering.py), then renders and   *)
(* writes the file (engine/renderer.py, exporters/).  Queries, the         *)
(* processing of their rows and look-ups fail one by one; what failed must *)
(* not take the rest along, nor leave its place to another element.        *)
(***************************************************************************)
EXTENDS Common, Order, Sequences

CONSTANTS
    Definition,     \* per report: its sources (connections) and its elements
    Databases,      \* the connections
    Postgres,       \* the one a preview falls back to
    MaxDepth        \* how deep previews nest: the interpreter's recursion limit

ElementTypes == {"text", "table", "chart", "crosstab", "image", "subreport", "other"}

ASSUME RenderingAssumption ==
    /\ None \notin Nat
    /\ MaxDepth \in Nat \ {0}
    /\ \A r \in DOMAIN Definition :
          /\ Definition[r].sources \in Seq(Databases)
          /\ Definition[r].elements \in
                Seq([type : ElementTypes, band : STRING, query : BOOLEAN,
                     sub : DOMAIN Definition \cup {None}, mode : STRING])

VARIABLES
    usable,     \* the connections that exist and whose connector can be loaded
    phase,      \* what the request is doing
    stack,      \* preview: the reports being rendered, the innermost last
    failed,     \* preview: the session's transaction is to be rolled back
    export,     \* export: the report and the format
    at,         \* export: the elements fetched so far
    data,       \* export: per key "ds_n", the element it was fetched for
    sourceKey,  \* export: the elements' data_source
    page        \* what the request is answered with

preview == <<stack, failed>>
fetch == <<export, at, data, sourceKey>>
renderingVars == <<usable, phase, stack, failed, export, at, data, sourceKey, page>>

Formats == {"html", "pdf", "csv", "xlsx"}

Elements(r) == Definition[r].elements

\* What stands in the place of an element: rows fetched for an element, a
\* note, the element itself, or a report.
Block(i, shows, of, inner) == [element |-> i, shows |-> shows, of |-> of, inner |-> inner]
Plain(i, shows) == Block(i, shows, i, <<>>)

NoExport == [report |-> None, format |-> "none"]

Page(r, format, blocks) == [report |-> r, format |-> format, blocks |-> blocks]
NoPage == Page(None, "none", <<>>)
ErrorPage == Page(None, "error", <<>>)

RenderingInit ==
    /\ usable \in SUBSET Databases
    /\ phase = "idle"
    /\ stack = <<>>
    /\ failed = FALSE
    /\ export = NoExport
    /\ at = 0
    /\ data = <<>>
    /\ sourceKey = <<>>
    /\ page = NoPage

-----------------------------------------------------------------------------
(* The preview.                                                            *)

\* resolve_data_source_connector: the first source's connection, else any
\* PostgreSQL one.
Resolved(r) ==
    LET s == Definition[r].sources
    IN  CASE s # <<>> /\ Head(s) \in usable -> Head(s)
          [] Postgres \in usable -> Postgres
          [] OTHER -> None

Frame(r) == [report |-> r, conn |-> Resolved(r), shown |-> <<>>]

Top == stack[Len(stack)]
Below == SubSeq(stack, 1, Len(stack) - 1)
Here == Len(Top.shown) + 1
Element == Elements(Top.report)[Here]

At(types) ==
    /\ phase = "preview"
    /\ ~failed
    /\ Here <= Len(Elements(Top.report))
    /\ Element.type \in types

Append1(frames, block) ==
    [frames EXCEPT ![Len(frames)].shown = Append(@, block)]

Show(block) ==
    /\ stack' = Append1(stack, block)
    /\ UNCHANGED <<usable, phase, failed, fetch, page>>

\* Before each element the session commits, or rolls back if that fails: in a
\* transaction that has failed no statement would work.
Recover ==
    /\ phase = "preview"
    /\ failed
    /\ Here <= Len(Elements(Top.report))
    /\ failed' = FALSE
    /\ UNCHANGED <<usable, phase, stack, fetch, page>>

\* preview_report: the report's own look-ups may fail.
OpenPreview(r) ==
    /\ phase = "idle"
    /\ \/ phase' = "preview" /\ stack' = <<Frame(r)>> /\ UNCHANGED page
       \/ phase' = "done" /\ page' = ErrorPage /\ UNCHANGED stack
    /\ UNCHANGED <<usable, failed, fetch>>

ShowText == At({"text", "image", "other"}) /\ Show(Plain(Here, "itself"))

\* The rows as processed, or as fetched if the processing raises.
ShowTable ==
    /\ At({"table"})
    /\ \E shows \in IF Element.query /\ Top.conn # None
                       THEN {"rows", "raw", "note"} ELSE {"note"} :
          Show(Plain(Here, shows))

\* Nothing protects the drawing: values that are text raise out of it.
ShowChart ==
    /\ At({"chart"})
    /\ \E shows \in IF Element.query /\ Top.conn # None
                       THEN {"rows", "note"} ELSE {"note"} :
          Show(Plain(Here, shows))

ShowCrosstab ==
    /\ At({"crosstab"})
    /\ \E shows \in IF Element.query /\ Top.conn # None
                       THEN {"rows", "note"} ELSE {"note"} :
          Show(Plain(Here, shows))

Inline == Element.sub # None /\ Element.mode = "inline"

\* The look-up of an inline sub-report finds it and its connection.
EnterSubreport ==
    /\ At({"subreport"})
    /\ Inline
    /\ Len(stack) < MaxDepth
    /\ stack' = Append(stack, Frame(Element.sub))
    /\ UNCHANGED <<usable, phase, failed, fetch, page>>

\* It is not there or not active, it must not be shown inline, the look-up
\* fails, or the nesting is too deep.
PassOverSubreport ==
    /\ At({"subreport"})
    /\ stack' = Append1(stack, Plain(Here, "note"))
    /\ failed' \in IF Inline THEN BOOLEAN ELSE {FALSE}
    /\ UNCHANGED <<usable, phase, fetch, page>>

Finished == phase = "preview" /\ Here > Len(Elements(Top.report))

LeaveSubreport ==
    /\ Finished
    /\ Len(stack) > 1
    /\ LET outer == Below[Len(Below)]
       IN  stack' = Append1(Below, Block(Len(outer.shown) + 1, "report", Top.report, Top.shown))
    /\ UNCHANGED <<usable, phase, failed, fetch, page>>

\* A chart raises: the sub-report element around it becomes a note, or the
\* whole preview is answered with an error.
ChartRaises ==
    /\ At({"chart"})
    /\ Element.query /\ Top.conn # None
    /\ IF Len(stack) > 1
          THEN /\ stack' = Append1(Below, Plain(Len(Below[Len(Below)].shown) + 1, "note"))
               /\ UNCHANGED <<phase, page>>
          ELSE /\ stack' = <<>>
               /\ phase' = "done"
               /\ page' = ErrorPage
    /\ UNCHANGED <<usable, failed, fetch>>

FinishPreview ==
    /\ Finished
    /\ Len(stack) = 1
    /\ phase' = "done"
    /\ page' = Page(Top.report, "preview", Top.shown)
    /\ UNCHANGED <<usable, preview, fetch>>

-----------------------------------------------------------------------------
(* The export.                                                             *)

\* export_report of the portal and of the designer, preview_export,
\* execute_report: the primary connection is the first one that is found.
OpenExport(r, f) ==
    /\ phase = "idle"
    /\ phase' = "fetch"
    /\ export' = [report |-> r, format |-> f]
    /\ sourceKey' = [i \in 1..Len(Elements(r)) |-> None]
    /\ at' = IF \E j \in DOMAIN Definition[r].sources : Definition[r].sources[j] \in usable
                THEN 0 ELSE Len(Elements(r))
    /\ UNCHANGED <<usable, preview, data, page>>

Fetched == Elements(export.report)[at + 1]
Fetching == phase = "fetch" /\ at < Len(Elements(export.report))
HasQuery == Fetched.type \in {"table", "chart"} /\ Fetched.query

\* Keys count what was fetched; an element gets its key with its data.
FetchElement ==
    /\ Fetching
    /\ HasQuery
    /\ sourceKey' = [sourceKey EXCEPT ![at + 1] = Len(data)]
    /\ \E some \in BOOLEAN : data' = Append(data, [element |-> at + 1, some |-> some])
    /\ at' = at + 1
    /\ UNCHANGED <<usable, phase, preview, export, page>>

\* Mutant: the key is given before the query has run.
PassOverElement_KeyFirst ==
    /\ Fetching
    /\ sourceKey' = IF HasQuery THEN [sourceKey EXCEPT ![at + 1] = Len(data)] ELSE sourceKey
    /\ at' = at + 1
    /\ UNCHANGED <<usable, phase, preview, export, data, page>>

\* There is no query, it fails, or the processing of its rows does.
PassOverElement ==
    /\ Fetching
    /\ at' = at + 1
    /\ UNCHANGED <<usable, phase, preview, export, data, sourceKey, page>>

\* What ReportRenderer finds under the element's data_source.
RowsOf(i) == data[sourceKey[i] + 1]

HasRows(i) == sourceKey[i] # None /\ sourceKey[i] < Len(data) /\ RowsOf(i).some

RenderedElement(e, i) ==
    CASE e.type \in {"table", "chart"} ->
            IF HasRows(i) THEN Block(i, "rows", RowsOf(i).element, <<>>) ELSE Plain(i, "note")
      [] e.type = "text" -> Plain(i, "itself")
      [] OTHER -> Plain(i, "note")

\* Which elements the writers of the formats have a place for: HTML all of
\* them; CSV and Excel tables with rows and sub-reports that are not inline, in
\* detail bands; PDF no empty table, no chart without data and no crosstab.
InSheet(e, i) ==
    /\ e.band = "detail"
    /\ \/ e.type = "table" /\ HasRows(i)
       \/ e.type = "subreport" /\ e.mode # "inline"

InPdf(e, i) ==
    /\ e.band \in {"header", "detail", "summary", "footer"}
    /\ \/ e.type \in {"text", "image"}
       \/ e.type = "table" /\ HasRows(i)
       \/ e.type = "chart" /\ sourceKey[i] # None
       \/ e.type = "subreport" /\ e.mode # "inline"

Written(e, i) ==
    CASE export.format = "html" -> TRUE
      [] export.format = "pdf" -> InPdf(e, i)
      [] OTHER -> InSheet(e, i)

\* A chart that raises is left out of a PDF and noted in HTML.
Blocks(es, lost) ==
    LET kept == InOrder({i \in DOMAIN es : Written(es[i], i) /\ (i \in lost => export.format = "html")})
    IN  [n \in DOMAIN kept |->
            IF kept[n] \in lost THEN Plain(kept[n], "note")
                                ELSE RenderedElement(es[kept[n]], kept[n])]

\* render_report_bytes.  An image that cannot be read raises out of the PDF.
WriteFile ==
    /\ phase = "fetch"
    /\ at = Len(Elements(export.report))
    /\ LET es == Elements(export.report)
           has(type) == {i \in DOMAIN es : es[i].type = type /\ Written(es[i], i)}
       IN  \/ \E lost \in SUBSET has("chart") :
                page' = Page(export.report, export.format, Blocks(es, lost))
           \/ export.format = "pdf" /\ has("image") # {} /\ page' = ErrorPage
    /\ phase' = "done"
    /\ UNCHANGED <<usable, preview, fetch>>

RenderingNext ==
    \/ \E r \in DOMAIN Definition : OpenPreview(r)
    \/ \E r \in DOMAIN Definition, f \in Formats : OpenExport(r, f)
    \/ Recover
    \/ ShowText \/ ShowTable \/ ShowChart \/ ShowCrosstab
    \/ EnterSubreport \/ PassOverSubreport \/ LeaveSubreport
    \/ ChartRaises \/ FinishPreview
    \/ FetchElement \/ PassOverElement \/ WriteFile

RenderingSpec == RenderingInit /\ [][RenderingNext]_renderingVars

-----------------------------------------------------------------------------
RenderingTypeOK ==
    /\ usable \subseteq Databases
    /\ phase \in {"idle", "preview", "fetch", "done"}
    /\ (phase = "preview") = (stack # <<>> /\ page = NoPage)
    /\ Len(stack) <= MaxDepth
    /\ \A d \in DOMAIN stack : Len(stack[d].shown) <= Len(Elements(stack[d].report))
    /\ \A d \in DOMAIN data : data[d].element <= at
    /\ \A i \in DOMAIN sourceKey : sourceKey[i] # None => sourceKey[i] \in 0..Len(data) - 1

\* A preview or file that is answered shows every element it has a place for
\* once, in the order of the report, and in each place what was fetched for
\* just that element: nothing that failed, in it or in a sub-report, moves
\* or repeats the rest, or spoils the place of another.  A preview and an HTML
\* file have all of them, and every file all tables whose rows were fetched,
\* in its bands.
EachShowsItsOwn ==
    page \notin {NoPage, ErrorPage} =>
        LET bs == page.blocks
            es == Elements(page.report)
        IN  /\ \A n \in DOMAIN bs : n > 1 => bs[n - 1].element < bs[n].element
            /\ page.format \in {"preview", "html"} => Len(bs) = Len(es)
            /\ \A n \in DOMAIN bs :
                  /\ bs[n].shows \in {"rows", "raw"} => bs[n].of = bs[n].element
                  /\ bs[n].shows = "report" =>
                        /\ bs[n].of = es[bs[n].element].sub
                        /\ Len(bs[n].inner) = Len(Elements(bs[n].of))
            /\ page.format # "preview" =>
                  \A d \in DOMAIN data :
                     LET e == es[data[d].element]
                     IN  data[d].some /\ e.type = "table" /\ e.band = "detail" =>
                            \E n \in DOMAIN bs : bs[n].shows = "rows" /\ bs[n].of = data[d].element
=============================================================================
