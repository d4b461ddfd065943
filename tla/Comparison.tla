----------------------------- MODULE Comparison -----------------------------
(***************************************************************************)
(* Two versions of a report compared: the semantic diff, which matches     *)
(* sections by type and sources by id (services/versioning/diff.py), its   *)
(* summary, and the details side by side, which match by position          *)
(* (services/versioning/compare.py).                                       *)
(***************************************************************************)
EXTENDS Common, Order, Sequences

CONSTANT Definitions

ElementData == [type : STRING, content : STRING]
Section == [type : STRING, data_source : STRING, group_by : STRING,
            elements : Seq(ElementData)]
Source == [id : STRING \cup {None}, config : STRING]
Parameter == [name : STRING, default : STRING]

ASSUME ComparisonAssumption ==
    Definitions \subseteq [sections : Seq(Section), sources : Seq(Source),
                           parameters : Seq(Parameter)]

VARIABLES old, new, comparison

comparisonVars == <<old, new, comparison>>

Longer(s, t) == IF Len(s) < Len(t) THEN Len(t) ELSE Len(s)
Shorter(s, t) == IF Len(s) < Len(t) THEN Len(s) ELSE Len(t)

-----------------------------------------------------------------------------
(* The diff.                                                               *)

\* The element's own id and time stamps are passed over.
ElementChanges(a, b) == {k \in {"type", "content"} : a[k] # b[k]}

\* Elements are compared one by one only if there are as many.
SectionChanges(a, b) ==
    {k \in {"type", "data_source", "group_by"} : a[k] # b[k]}
        \cup (IF Len(a.elements) # Len(b.elements) THEN {"element_count"} ELSE {})
        \cup (IF \E i \in 1..Shorter(a.elements, b.elements) :
                    /\ Len(a.elements) = Len(b.elements)
                    /\ ElementChanges(a.elements[i], b.elements[i]) # {}
                 THEN {"elements"} ELSE {})

SectionTypes(d) == {d.sections[i].type : i \in DOMAIN d.sections}

Indices(d, type) == InOrder({i \in DOMAIN d.sections : d.sections[i].type = type})

\* Mutant: of several sections of a type only the last is kept.
OfType_Last(d, type) ==
    LET all == Indices(d, type)
    IN  IF all = <<>> THEN <<>> ELSE <<all[Len(all)]>>

OfType(d, type) == Indices(d, type)

\* The n-th section of a type is compared with the n-th of the other side.
SectionsModified(a, b) ==
    {s \in [type : SectionTypes(a) \cap SectionTypes(b), nth : 1..Shorter(a.sections, b.sections)] :
        LET as == OfType(a, s.type)
            bs == OfType(b, s.type)
        IN  /\ s.nth <= Shorter(as, bs)
            /\ SectionChanges(a.sections[as[s.nth]], b.sections[bs[s.nth]]) # {}}

SectionsAdded(a, b) ==
    {s \in [type : SectionTypes(b), nth : 1..Len(b.sections)] :
        s.nth > Len(OfType(a, s.type)) /\ s.nth <= Len(OfType(b, s.type))}

\* A source without id is known by its content; of two with one key the last
\* counts.
SourceKey(s) == IF s.id # None THEN <<"id", s.id>> ELSE <<"anon", s.config>>

SourceOf(d, k) ==
    LET at == {i \in DOMAIN d.sources : SourceKey(d.sources[i]) = k}
    IN  d.sources[CHOOSE i \in at : \A j \in at : j <= i]

SourceKeys(d) == {SourceKey(d.sources[i]) : i \in DOMAIN d.sources}

Diff(a, b) ==
    [sections_added |-> SectionsAdded(a, b),
     sections_removed |-> SectionsAdded(b, a),
     sections_modified |-> SectionsModified(a, b),
     sources_added |-> SourceKeys(b) \ SourceKeys(a),
     sources_removed |-> SourceKeys(a) \ SourceKeys(b),
     sources_modified |-> {k \in SourceKeys(a) \cap SourceKeys(b) : SourceOf(a, k) # SourceOf(b, k)}]

\* The diff's "parameters_changed" is never filled.
HasChanges(diff) == \E part \in DOMAIN diff : diff[part] # {}

-----------------------------------------------------------------------------
(* The details.                                                            *)

Status(inOld, inNew, same) ==
    CASE ~inOld -> "added"
      [] inOld /\ ~inNew -> "removed"
      [] inOld /\ inNew -> IF same THEN "unchanged" ELSE "modified"

CompareSections(a, b) ==
    [i \in 1..Longer(a.sections, b.sections) |->
        Status(i \in DOMAIN a.sections, i \in DOMAIN b.sections,
               SectionChanges(a.sections[i], b.sections[i]) = {})]

\* A source, or parameter, without a name goes by its position.
NameAt(list, field, i) ==
    IF list[i][field] # None THEN [name |-> list[i][field], at |-> 0] ELSE [name |-> None, at |-> i]

NamesOf(list, field) == {NameAt(list, field, i) : i \in DOMAIN list}

LastNamed(list, field, k) ==
    LET at == {i \in DOMAIN list : NameAt(list, field, i) = k}
    IN  list[CHOOSE i \in at : \A j \in at : j <= i]

CompareNamed(a, b, field) ==
    [k \in NamesOf(a, field) \cup NamesOf(b, field) |->
        Status(k \in NamesOf(a, field), k \in NamesOf(b, field),
               LastNamed(a, field, k) = LastNamed(b, field, k))]

CompareSources(a, b) == CompareNamed(a.sources, b.sources, "id")

CompareParameters(a, b) == CompareNamed(a.parameters, b.parameters, "name")

-----------------------------------------------------------------------------
ComparisonInit ==
    /\ old \in Definitions
    /\ new \in Definitions
    /\ comparison = None

Compared(a, b) ==
    [diff |-> Diff(a, b),
     has_changes |-> HasChanges(Diff(a, b)),
     sections |-> CompareSections(a, b),
     sources |-> CompareSources(a, b),
     parameters |-> CompareParameters(a, b)]

\* diff_versions and compare_versions.
Compare ==
    /\ comparison = None
    /\ comparison' = Compared(old, new)
    /\ UNCHANGED <<old, new>>

\* The two sides are exchanged.
Swap ==
    /\ comparison # None
    /\ old' = new
    /\ new' = old
    /\ comparison' = None

ComparisonNext == Compare \/ Swap

ComparisonSpec == ComparisonInit /\ [][ComparisonNext]_comparisonVars

-----------------------------------------------------------------------------
Differs(statuses) == \E k \in DOMAIN statuses : statuses[k] # "unchanged"

\* Sections and sources of the same kinds in the same order, so that matching by
\* type or id and matching by position mean the same.
SameShape ==
    /\ [i \in DOMAIN old.sections |-> old.sections[i].type]
            = [i \in DOMAIN new.sections |-> new.sections[i].type]
    /\ [i \in DOMAIN old.sources |-> old.sources[i].id] = [i \in DOMAIN new.sources |-> new.sources[i].id]
    /\ \A d \in {old, new} :
          Cardinality({i \in DOMAIN d.sources : d.sources[i].id = None}) <= 1

\* The summary says that sections or sources changed only if the details show a
\* change of them, and says so whenever they do, unless sections or sources were
\* only moved: a change of one of several sections of a type is not lost.  What
\* is added in one direction is removed in the other.
SummaryAgreesWithDetails ==
    comparison # None =>
        LET shown == Differs(comparison.sections) \/ Differs(comparison.sources)
        IN  /\ comparison.has_changes => shown
            /\ SameShape => (shown => comparison.has_changes)
            /\ comparison.diff.sections_added = Diff(new, old).sections_removed
            /\ comparison.diff.sections_modified = Diff(new, old).sections_modified
=============================================================================
