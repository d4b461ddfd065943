----------------------------- MODULE SheetNames -----------------------------
(***************************************************************************)
(* The names of an Excel export's sheets (ExcelExporter._safe_sheet_name): *)
(* a name that is in use gets a numeric suffix, and is cut to 31           *)
(* characters with it.  A label is taken as its first characters, cut, and *)
(* the room it leaves to a suffix.                                         *)
(***************************************************************************)
EXTENDS Naturals, Sequences, FiniteSets

CONSTANTS
    Labels,         \* the labels of the elements that get a sheet
    Room,           \* per label: 31 less the length of the name made from it
    MaxSheets,
    MaxCounter,     \* the counter starts again here
    None

VARIABLES used, base, counter

vars == <<used, base, counter>>

Suffix(n) ==
    IF n = 0 THEN <<>> ELSE <<"_">> \o (IF n < 10 THEN <<n>> ELSE <<n \div 10, n % 10>>)

Least(m, n) == IF m < n THEN m ELSE n

\* (base + suffix)[:31]
Name(label, n) ==
    [label |-> label, suffix |-> SubSeq(Suffix(n), 1, Least(Room[label], Len(Suffix(n))))]

TypeOK ==
    /\ \A name \in used : name.label \in Labels /\ Len(name.suffix) <= Room[name.label]
    /\ base \in Labels \cup {None}
    /\ counter \in 0..MaxCounter

Init ==
    /\ used = {}
    /\ base = None
    /\ counter = 0

\* The next table with rows, or sub-report that is not inline, gets a sheet.
BeginSheet(label) ==
    /\ base = None
    /\ Cardinality(used) < MaxSheets
    /\ base' = label
    /\ counter' = 0
    /\ UNCHANGED used

TryNext ==
    /\ base # None
    /\ Name(base, counter) \in used
    /\ counter' = IF counter = MaxCounter THEN 1 ELSE counter + 1
    /\ UNCHANGED <<used, base>>

AddSheet ==
    /\ base # None
    /\ Name(base, counter) \notin used
    /\ used' = used \cup {Name(base, counter)}
    /\ base' = None
    /\ counter' = 0

Next ==
    \/ \E label \in Labels : BeginSheet(label)
    \/ TryNext
    \/ AddSheet

\* The export is one synchronous call: nothing interrupts it.
Spec == Init /\ [][Next]_vars /\ WF_vars(TryNext \/ AddSheet)

-----------------------------------------------------------------------------
\* Every sheet gets a name: "If the sanitized name is already in use, a
\* numeric suffix is appended."  The loop does not end for the second sheet
\* of a label that leaves no room for the suffix.
EverySheetIsNamed == [](base # None => <>(base = None))
=============================================================================
