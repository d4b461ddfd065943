---------------------------- MODULE QueryBuilder ----------------------------
(***************************************************************************)
(* The visual query builder's way from a configuration to SQL and back:    *)
(* SQLGenerator.generate (and QueryConfig.to_sql, which agrees with it)    *)
(* and parse_sql_to_config.  SQL is modelled clause by clause, a WHERE     *)
(* clause token by token; names and literals are atoms without blanks,     *)
(* quotes or keywords in them.  A qualified name is the sequence of its    *)
(* parts.                                                                  *)
(***************************************************************************)
EXTENDS Common, Order, Sequences

CONSTANT Configs    \* the configurations the builder starts from

Aggregates == {"COUNT", "SUM", "AVG", "MIN", "MAX"}
PlainWord == STRING \ Aggregates
QualifiedName == Seq(STRING) \ {<<>>}

Column == [table : PlainWord, column : PlainWord,
           alias : Seq(PlainWord) \cup {None}, agg : Aggregates \cup {None}]
Filter == [field : QualifiedName, op : STRING \cup {None}, list : BOOLEAN,
           value : Seq(STRING), logic : {"AND", "OR"}]
JoinClause == [type : STRING, table : QualifiedName, left : QualifiedName, right : QualifiedName]
Config == [select : Seq(Column), from_tables : Seq(QualifiedName), joins : Seq(JoinClause),
           where : Seq(Filter), group_by : Seq(QualifiedName),
           order_by : Seq([field : QualifiedName, direction : STRING])]

ASSUME BuilderAssumption ==
    /\ Configs \subseteq Config
    /\ None \notin STRING
    /\ None \notin Seq(STRING)

\* A string is a string: said here because the provers do not know it.
ASSUME WordsAreStrings ==
    Aggregates \cup {"_2", "garbled", "BETWEEN", "IN", "IN list"} \subseteq STRING

VARIABLES
    config,     \* the builder's configuration
    text,       \* the SQL written last
    back,       \* what parsing it gave
    stage       \* how far config is: built, written, read or rejected

builderVars == <<config, text, back, stage>>

Values(s) == {s[i] : i \in DOMAIN s}

-----------------------------------------------------------------------------
(* Names of the result's columns: resolve_select_names.                    *)

\* An aggregate's natural name holds its table and column, with a dot.
BaseName(c) == IF c.agg = None THEN <<c.column>> ELSE <<c.agg, c.table, c.column>>

\* Table and base name; the n-th try adds its number, here as so many marks.
Candidate(c, n) == <<c.table>> \o BaseName(c) \o [k \in 1..n - 1 |-> "_2"]

FreshName(c, taken) ==
    LET n == CHOOSE m \in 1..Cardinality(taken) + 1 :
                /\ Candidate(c, m) \notin taken
                /\ \A k \in 1..m - 1 : Candidate(c, k) \in taken
    IN  Candidate(c, n)

NameFor(c, taken) ==
    CASE c.alias # None -> c.alias
      [] c.alias = None /\ BaseName(c) \notin taken -> BaseName(c)
      [] OTHER -> FreshName(c, taken)

ResolvedNames(cols) ==
    LET names[n \in 0..Len(cols)] ==
            IF n = 0 THEN <<>>
            ELSE Append(names[n - 1], NameFor(cols[n], Values(names[n - 1])))
    IN  names[Len(cols)]

-----------------------------------------------------------------------------
(* Generating.                                                             *)

\* A derived name is written as an alias, an explicit alias only if it differs
\* from the natural name.
SelectClause(cols) ==
    LET names == ResolvedNames(cols)
    IN  [n \in DOMAIN cols |->
            [agg |-> cols[n].agg, table |-> cols[n].table, column |-> cols[n].column,
             as |-> IF names[n] = BaseName(cols[n]) THEN None ELSE names[n]]]

Condition(f, op, args) == [token |-> "condition", field |-> f.field, op |-> op, args |-> args]
Connector(logic) == [token |-> logic, field |-> <<>>, op |-> None, args |-> <<>>]
Literal(v) == [token |-> "literal", field |-> <<>>, op |-> None, args |-> <<v>>]

\* WhereFilter.to_sql.  A value is a list (more than one argument, or marked so)
\* or a single literal.
FilterTokens(f) ==
    IF f.op \in {"IS NULL", "IS NOT NULL"} THEN <<Condition(f, f.op, <<>>)>>
    ELSE IF f.op = "BETWEEN" /\ f.list /\ Len(f.value) = 2
    THEN <<Condition(f, "BETWEEN", <<f.value[1]>>), Connector("AND"), Literal(f.value[2])>>
    ELSE IF f.list /\ f.op # "LIKE" THEN <<Condition(f, "IN list", f.value)>>
    ELSE <<Condition(f, f.op, f.value)>>

\* Mutant: all filters are joined by the connector of the first.
FilterText_FirstLogic(filters, n) ==
    IF n = 1 THEN FilterTokens(filters[1])
    ELSE <<Connector(filters[1].logic)>> \o FilterTokens(filters[n])

\* Each filter brings the connector to the one before it.
FilterText(filters, n) ==
    IF n = 1 THEN FilterTokens(filters[1])
    ELSE <<Connector(filters[n].logic)>> \o FilterTokens(filters[n])

WhereClause(filters) ==
    LET upTo[n \in 0..Len(filters)] ==
            IF n = 0 THEN <<>> ELSE upTo[n - 1] \o FilterText(filters, n)
    IN  upTo[Len(filters)]

\* Only the first table is written.
ToSQL(c) ==
    [select |-> SelectClause(c.select),
     from |-> SubSeq(c.from_tables, 1, IF c.from_tables = <<>> THEN 0 ELSE 1),
     joins |-> c.joins,
     where |-> WhereClause(c.where),
     group_by |-> c.group_by,
     order_by |-> c.order_by]

-----------------------------------------------------------------------------
(* Parsing.                                                                *)

\* An alias that is not a single word is read as part of the column, which is
\* then no identifier.
Word(name) ==
    name = None \/ \A i \in DOMAIN name : name[i] \notin Aggregates

ParseSelect(e) == [agg |-> e.agg, table |-> e.table, column |-> e.column, alias |-> e.as]

IsConnector(t) == t.token \in {"AND", "OR"}

\* Connectors inside a protected "BETWEEN ... AND" do not separate conditions.
Separates(ts, p) ==
    /\ IsConnector(ts[p])
    /\ ~ \E i \in 1..p - 1 :
            /\ ts[i].op = "BETWEEN"
            /\ \E j \in p..Len(ts) : ts[j].token = "AND"
            /\ \A k \in i..p - 1 : ts[k].token # "AND"

\* The tokens from connector p (or the start) up to the next one.
Run(ts, p) ==
    LET end == CHOOSE q \in p + 1..Len(ts) + 1 :
                  /\ q = Len(ts) + 1 \/ Separates(ts, q)
                  /\ \A r \in p + 1..q - 1 : ~Separates(ts, r)
    IN  SubSeq(ts, p + 1, end - 1)

LastOf(run) == run[Len(run)]

\* A condition that fits no pattern is dropped.
Fits(run) ==
    /\ run # <<>>
    /\ Len(run[1].field) = 2
    /\ run[1].op \in {"BETWEEN", "IN"} => Len(run) > 1 /\ LastOf(run).token = "literal"

\* "BETWEEN" takes everything up to a last "AND literal" along.
ParseCondition(run, logic) ==
    LET t == run[1]
        filter(op, list, value) ==
            [field |-> t.field, op |-> op, list |-> list, value |-> value, logic |-> logic]
    IN  CASE t.op = "BETWEEN" ->
                filter("BETWEEN", TRUE,
                       (IF Len(run) = 3 THEN t.args ELSE <<"garbled">>) \o LastOf(run).args)
          [] t.op = "IN list" -> filter("IN", TRUE, t.args)
          [] OTHER -> filter(t.op, FALSE, t.args)

ParseWhere(ts) ==
    LET starts == {0} \cup {p \in DOMAIN ts : Separates(ts, p)}
        kept == InOrder({p \in starts : Fits(Run(ts, p))})
    IN  [n \in DOMAIN kept |->
            ParseCondition(Run(ts, kept[n]), IF kept[n] = 0 THEN "AND" ELSE ts[kept[n]].token)]

Readable(sql) ==
    sql.from = <<>> \/ \A n \in DOMAIN sql.select : Word(sql.select[n].as)

JoinsFound(joins) ==
    LET found == InOrder({n \in DOMAIN joins : Len(joins[n].table) = 1})
    IN  [n \in DOMAIN found |-> joins[found[n]]]

\* parse_sql_to_config: without FROM the columns are not found; a qualified
\* table keeps its first part, and the join of one is not found.
Parse(sql) ==
    [select |-> IF sql.from = <<>> THEN <<>>
                ELSE [n \in DOMAIN sql.select |-> ParseSelect(sql.select[n])],
     from_tables |-> [n \in DOMAIN sql.from |-> SubSeq(sql.from[n], 1, 1)],
     joins |-> JoinsFound(sql.joins),
     where |-> ParseWhere(sql.where),
     group_by |-> sql.group_by,
     order_by |-> sql.order_by]

-----------------------------------------------------------------------------
(* The builder.                                                            *)

\* SQLGenerator.validate_config.  A join's left table may be joined later.
ValidConfig(c) ==
    LET from == Values(c.from_tables)
        joined == {j.table : j \in Values(c.joins)}
        inTable(field) == Len(field) >= 2
    IN  /\ c.from_tables # <<>>
        /\ \A j \in Values(c.joins) : j.left \in from \cup joined /\ j.right = j.table
        /\ \A f \in Values(c.where) : inTable(f.field)
        /\ \A g \in Values(c.group_by) : inTable(g)
        /\ \A o \in Values(c.order_by) : inTable(o.field)

BuilderInit ==
    /\ config \in Configs
    /\ stage = "built"
    /\ text = None
    /\ back = None

\* generate-sql writes any configuration; validate, test and save only a valid one.
GenerateSQL ==
    /\ stage = "built"
    /\ stage' = "written"
    /\ text' = ToSQL(config)
    /\ UNCHANGED <<config, back>>

\* nl-to-query, with SQL as the builder writes it.  A column that is no
\* identifier is an error.
ParseText ==
    /\ stage = "written"
    /\ IF Readable(text) THEN stage' = "read" /\ back' = Parse(text)
                         ELSE stage' = "rejected" /\ UNCHANGED back
    /\ UNCHANGED <<config, text>>

\* What was parsed replaces the builder's configuration.
LoadParsed ==
    /\ stage = "read"
    /\ back # config
    /\ config' = back
    /\ stage' = "built"
    /\ text' = None
    /\ back' = None

BuilderNext == GenerateSQL \/ ParseText \/ LoadParsed

BuilderSpec == BuilderInit /\ [][BuilderNext]_builderVars

-----------------------------------------------------------------------------
BuilderTypeOK ==
    /\ config \in Config
    /\ stage \in {"built", "written", "read", "rejected"}
    /\ stage = "read" => back \in Config

\* Names that are plain words, filters with the value their operator takes,
\* aliases that are not also a name another column has or may be given, and
\* aggregates that are not selected twice without an alias.
Buildable(c) ==
    /\ ValidConfig(c)
    /\ Len(c.from_tables[1]) = 1 /\ \A j \in Values(c.joins) : Len(j.table) = 1
    /\ \A f \in Values(c.where) :
          /\ Len(f.field) = 2
          /\ f.op \in {"IN", "BETWEEN"} => f.list
    /\ \A m, n \in DOMAIN c.select : m # n =>
          LET a == c.select[m]
              b == c.select[n]
          IN  /\ a.alias # None =>
                    a.alias \notin {b.alias, BaseName(b)} \cup {Candidate(b, k) : k \in DOMAIN c.select}
              /\ a.agg # None /\ BaseName(a) = BaseName(b) => {a.alias, b.alias} # {None}

\* What the builder writes it can read back: parsing the SQL of a query as the
\* builder makes them, and generating again, gives the same SQL, with no filter,
\* column or connector lost or changed on the way; and no two columns of the
\* result have one name, so that none overwrites the other.
RoundTrip ==
    Buildable(config) =>
        /\ stage # "rejected"
        /\ stage = "read" => ToSQL(back) = text
        /\ LET names == ResolvedNames(config.select)
           IN  \A m, n \in DOMAIN names : m # n => names[m] # names[n]
=============================================================================
