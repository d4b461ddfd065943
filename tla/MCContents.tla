----------------------------- MODULE MCContents ------------------------------
(***************************************************************************)
(* What the query builder, the comparison of versions and the rendering    *)
(* are given on small instances.                                           *)
(***************************************************************************)
EXTENDS Site

SeqsUpTo(S, n) == UNION {[1..k -> S] : k \in 0..n}

-----------------------------------------------------------------------------
\* Up to three columns that all have one name, with and without an alias or an
\* aggregate; up to three filters; joins in any order, names with and without a
\* schema.
MCColumns == [table : {"orders", "items"}, column : {"id"},
              alias : {None, <<"k">>, <<"id">>}, agg : {None, "SUM"}]

Operand(op, list, value) == [op |-> op, list |-> list, value |-> value]
Operands == {Operand("=", FALSE, <<"1">>), Operand("=", TRUE, <<"1", "2">>),
             Operand("IN", FALSE, <<"1">>), Operand("BETWEEN", TRUE, <<"1", "2">>),
             Operand("BETWEEN", TRUE, <<"1">>), Operand("BETWEEN", FALSE, <<"1">>),
             Operand("IS NULL", FALSE, <<>>)}

MCFilters(fields) ==
    {[field |-> f, op |-> o.op, list |-> o.list, value |-> o.value, logic |-> l] :
        f \in fields, o \in Operands, l \in {"AND", "OR"}}

Id == <<"orders", "id">>

Join(t, l) == [type |-> "LEFT", table |-> t, left |-> l, right |-> t]
Joins == {Join(<<"items">>, <<"orders">>), Join(<<"shop", "items">>, <<"orders">>),
          Join(<<"tags">>, <<"items">>)}

NoClauses == [select |-> <<>>, from_tables |-> <<<<"orders">>>>, joins |-> <<>>,
              where |-> <<>>, group_by |-> <<>>, order_by |-> <<>>]

MCConfigs ==
    {[NoClauses EXCEPT !.select = s] : s \in SeqsUpTo(MCColumns, 3)}
        \cup {[NoClauses EXCEPT !.where = w] :
                w \in SeqsUpTo(MCFilters({Id, <<"shop", "orders", "id">>}), 2) \cup [1..3 -> MCFilters({Id})]}
        \cup {[NoClauses EXCEPT !.joins = j, !.from_tables = f, !.group_by = g] :
                j \in SeqsUpTo(Joins, 2), g \in {<<>>, <<Id>>},
                f \in {<<>>, <<<<"orders">>>>, <<<<"shop", "orders">>>>, <<<<"orders">>, <<"items">>>>}}

-----------------------------------------------------------------------------
\* Up to two sections of two types with at most one element, or up to two sources
\* with and without an id.
MCSections == [type : {"detail", "footer"}, data_source : {"d"}, group_by : {"g"},
               elements : SeqsUpTo([type : {"text"}, content : {"a", "b"}], 1)]
MCSources == [id : {None, "s1", "s2"}, config : {"c1", "c2"}]
MCParameters == SeqsUpTo([name : {"p"}, default : {"1", "2"}], 1)

Blank == [sections |-> <<>>, sources |-> <<>>, parameters |-> <<>>]

MCDefinitions ==
    [sections : SeqsUpTo(MCSections, 2), sources : {<<>>}, parameters : {<<>>}]
        \cup [sections : {<<>>}, sources : SeqsUpTo(MCSources, 2), parameters : MCParameters]

-----------------------------------------------------------------------------
\* A report with two connections whose tables surround a chart and a sub-report
\* of its own, one that contains itself and another, and one without sources.
ElementOf(type, band, query) ==
    [type |-> type, band |-> band, query |-> query, sub |-> None, mode |-> "inline"]
SubreportOf(r, mode) ==
    [type |-> "subreport", band |-> "detail", query |-> FALSE, sub |-> r, mode |-> mode]

MCDefinition ==
    [sales |->
        [sources |-> <<"c1", "c2">>,
         elements |-> <<ElementOf("table", "detail", TRUE), ElementOf("chart", "summary", TRUE),
                        ElementOf("table", "detail", TRUE), SubreportOf("page", "detached")>>],
     stock |->
        [sources |-> <<"c2">>,
         elements |-> <<ElementOf("text", "header", FALSE), SubreportOf("stock", "inline"),
                        SubreportOf("page", "inline"), ElementOf("table", "detail", TRUE)>>],
     page |->
        [sources |-> <<>>,
         elements |-> <<ElementOf("chart", "detail", TRUE), ElementOf("image", "footer", FALSE),
                        ElementOf("crosstab", "detail", TRUE), ElementOf("table", "detail", FALSE)>>]]
=============================================================================
