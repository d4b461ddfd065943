------------------------- MODULE QueryBuilderProofs -------------------------
(***************************************************************************)
(* What QueryBuilder promises for any configuration.                       *)
(*                                                                         *)
(* The names of the columns are given one after the other (NamesGiven),    *)
(* each an alias, a natural name or a derived one, and differ as long as   *)
(* no alias is also somebody's name (NamesDistinct); the aliases that are  *)
(* written for them give the same names again (NamesGivenAgain).           *)
(*                                                                         *)
(* A WHERE clause is a text in parts, each after the first behind its      *)
(* connector (Parts).  The connectors between parts separate and the one   *)
(* inside a BETWEEN does not (Separators), so that what is cut out between *)
(* separators are the parts (RunOfPart), and each is read as a filter that *)
(* is written the same (FilterReadBack).                                   *)
(*                                                                         *)
(* With the tables and the joins that makes the round trip of a clause, of *)
(* a configuration (BuildableRoundTrip) and of every state of the builder. *)
(***************************************************************************)
EXTENDS QueryBuilder, ContentsProofs


-----------------------------------------------------------------------------
(* Names.                                                                   *)

\* The names of result columns: the parts of a name, one after the other.
Name == Seq(STRING)

\* Two names put together are a name that begins as the first.
LEMMA ConcatNames ==
    ASSUME NEW s \in Name, NEW t \in Name
    PROVE  /\ s \o t \in Name /\ Len(s \o t) = Len(s) + Len(t)
           /\ Len(s) > 0 => (s \o t)[1] = s[1]
<1>1. /\ s \o t \in Seq(STRING) /\ Len(s \o t) = Len(s) + Len(t)
      /\ \A i \in 1..Len(s) + Len(t) : (s \o t)[i] = IF i <= Len(s) THEN s[i] ELSE t[i - Len(s)]
    BY ConcatProperties DEF Name
<1>2. Len(s) \in Nat /\ Len(t) \in Nat
    BY LenProperties DEF Name
<1>3. Len(s) > 0 => 1 \in 1..Len(s) + Len(t) /\ 1 <= Len(s)
    BY <1>2
<1> QED
    BY <1>1, <1>3 DEF Name

\* The n-th candidate is n parts longer than the base name and begins with the
\* table: candidates of different numbers differ.
LEMMA CandidateTyped ==
    ASSUME NEW c \in Column, NEW n \in Nat \ {0}
    PROVE  /\ BaseName(c) \in Name /\ Len(BaseName(c)) \in Nat
           /\ Candidate(c, n) \in Name
           /\ Len(Candidate(c, n)) = Len(BaseName(c)) + n
           /\ Candidate(c, n)[1] = c.table
<1> DEFINE marks == [k \in 1..n - 1 |-> "_2"]
           b == BaseName(c)
           one == <<c.table>>
<1>1. /\ c.table \in STRING /\ c.column \in STRING /\ c.agg \in STRING \cup {None}
    <2>1. c.table \in PlainWord /\ c.column \in PlainWord /\ c.agg \in Aggregates \cup {None}
        BY DEF Column
    <2>2. PlainWord \subseteq STRING /\ Aggregates \subseteq STRING
        BY WordsAreStrings DEF PlainWord
    <2> QED
        BY <2>1, <2>2
<1>2. b \in Name /\ Len(b) \in Nat
    <2>1. CASE c.agg = None
        <3>1. b = <<c.column>>
            BY <2>1 DEF BaseName
        <3> QED
            BY <1>1, <3>1 DEF Name
    <2>2. CASE c.agg # None
        <3>1. b = <<c.agg, c.table, c.column>>
            BY <2>2 DEF BaseName
        <3> QED
            BY <1>1, <2>2, <3>1 DEF Name
    <2> QED
        BY <2>1, <2>2
<1>3. marks \in Name /\ Len(marks) = n - 1
    <2>0. "_2" \in STRING
        BY WordsAreStrings
    <2>2. n - 1 \in Nat /\ marks = [k \in 1..n - 1 |-> marks[k]] /\ marks \in [1..n - 1 -> STRING]
        BY <2>0
    <2>1. marks \in Seq(STRING)
        BY <2>2, SeqDef
    <2> HIDE DEF marks
    <2>3. Len(marks) = n - 1
        BY <2>2, SequenceUpTo
    <2> QED
        BY <2>1, <2>3 DEF Name
<1>4. one \in Name /\ Len(one) = 1 /\ one[1] = c.table
    BY <1>1 DEF Name
<1>5. Candidate(c, n) = (one \o b) \o marks
    BY DEF Candidate
<1> HIDE DEF marks, b, one
<1>6. /\ one \o b \in Name /\ Len(one \o b) = 1 + Len(b) /\ (one \o b)[1] = c.table
    <2>1. /\ one \o b \in Name /\ Len(one \o b) = Len(one) + Len(b)
          /\ Len(one) > 0 => (one \o b)[1] = one[1]
        BY <1>2, <1>4, ConcatNames
    <2>2. Len(one) > 0
        BY <1>4
    <2> QED
        BY <1>4, <2>1, <2>2
<1> DEFINE two == one \o b
<1>7. two \in Name /\ Len(two) = 1 + Len(b) /\ two[1] = c.table
    BY <1>6
<1> HIDE DEF two
<1>8. /\ two \o marks \in Name /\ Len(two \o marks) = 1 + Len(b) + (n - 1)
      /\ (two \o marks)[1] = c.table
    <2>1. /\ two \o marks \in Name /\ Len(two \o marks) = Len(two) + Len(marks)
          /\ Len(two) > 0 => (two \o marks)[1] = two[1]
        BY <1>3, <1>7, ConcatNames
    <2>2. Len(two) > 0
        BY <1>2, <1>7
    <2> QED
        BY <1>3, <1>7, <2>1, <2>2
<1>9. Len(two \o marks) = Len(b) + n
    BY <1>2, <1>8
<1> QED
    BY <1>2, <1>5, <1>8, <1>9 DEF b, two

\* A free name is found among as many tries as there are names taken, and one.
LEMMA FreshNameFound ==
    ASSUME NEW c \in Column, NEW taken, IsFiniteSet(taken)
    PROVE  /\ Cardinality(taken) \in Nat
           /\ FreshName(c, taken) \notin taken
           /\ \E m \in 1..Cardinality(taken) + 1 : FreshName(c, taken) = Candidate(c, m)
<1> DEFINE N == Cardinality(taken) + 1
           T == {m \in 1..N : Candidate(c, m) \notin taken}
           Free(m) == /\ Candidate(c, m) \notin taken
                      /\ \A k \in 1..m - 1 : Candidate(c, k) \in taken
           n == CHOOSE m \in 1..N : Free(m)
           f == [m \in 1..N |-> Candidate(c, m)]
<1>1. N \in Nat \ {0} /\ Cardinality(taken) \in Nat /\ Cardinality(taken) < N
    BY FS_CardinalityType
<1>2. T # {}
    <2> SUFFICES ASSUME T = {} PROVE FALSE
        OBVIOUS
    <2>1. f \in [1..N -> taken]
        OBVIOUS
    <2>2. IsFiniteSet(1..N) /\ Cardinality(1..N) = N
        BY <1>1, IntervalUpTo
    <2>3. PICK x \in 1..N, y \in 1..N : x # y /\ f[x] = f[y]
        <3> DEFINE I == 1..N
        <3>1. IsFiniteSet(I) /\ Cardinality(taken) < Cardinality(I) /\ f \in [I -> taken]
            BY <1>1, <2>1, <2>2
        <3> HIDE DEF I, f
        <3>2. \E x, y \in I : x # y /\ f[x] = f[y]
            BY <3>1, FS_PigeonHole
        <3> QED
            BY <3>2 DEF I
    <2>4. Candidate(c, x) = Candidate(c, y) /\ x \in Nat \ {0} /\ y \in Nat \ {0}
        BY <1>1, <2>3
    <2>5. Len(Candidate(c, x)) = Len(BaseName(c)) + x /\ Len(Candidate(c, y)) = Len(BaseName(c)) + y
          /\ Len(BaseName(c)) \in Nat
        BY <2>4, CandidateTyped
    <2> QED
        BY <2>3, <2>4, <2>5
<1>3. \A m : m \in T <=> m \in 1..N /\ Candidate(c, m) \notin taken
    OBVIOUS
<1>4. T \in SUBSET Nat
    BY <1>1
<1> HIDE DEF T
<1>5. PICK m \in T : \A k \in T : m <= k
    BY <1>2, <1>4, LeastNumber
<1>6. m \in 1..N /\ Free(m)
    <2>1. m \in 1..N /\ Candidate(c, m) \notin taken
        BY <1>3, <1>5
    <2>2. ASSUME NEW k \in 1..m - 1 PROVE Candidate(c, k) \in taken
        <3>1. k \in 1..N /\ ~(m <= k)
            BY <1>1, <2>1
        <3> QED
            BY <1>3, <1>5, <3>1
    <2> QED
        BY <2>1, <2>2
<1>7. FreshName(c, taken) = Candidate(c, n)
    BY DEF FreshName
<1> HIDE DEF Free
<1>8. n \in 1..N /\ Free(n)
    BY <1>6
<1> HIDE DEF n
<1>9. Candidate(c, n) \notin taken
    BY <1>8 DEF Free
<1> QED
    BY <1>1, <1>7, <1>8, <1>9

\* Whatever names are taken, a column is given a name.
LEMMA NameTyped ==
    ASSUME NEW c \in Column, NEW taken, IsFiniteSet(taken)
    PROVE  NameFor(c, taken) \in Name
<1>1. CASE c.alias # None
    <2>1. c.alias \in Seq(PlainWord)
        BY <1>1 DEF Column
    <2>2. PlainWord \subseteq STRING
        BY DEF PlainWord
    <2> QED
        BY <1>1, <2>1, <2>2, SeqMonotonic DEF NameFor, Name
<1>2. CASE c.alias = None /\ BaseName(c) \notin taken
    BY <1>2, CandidateTyped DEF NameFor
<1>3. CASE c.alias = None /\ BaseName(c) \in taken
    <2>1. PICK m \in 1..Cardinality(taken) + 1 : FreshName(c, taken) = Candidate(c, m)
        BY FreshNameFound
    <2>2. m \in Nat \ {0}
        BY <2>1, FreshNameFound
    <2> QED
        BY <1>3, <2>1, <2>2, CandidateTyped DEF NameFor
<1> QED
    BY <1>1, <1>2, <1>3

\* The values of a sequence are finitely many.
LEMMA ValuesFinite ==
    ASSUME NEW s, IsSequence(s)
    PROVE  IsFiniteSet(Values(s)) /\ Cardinality(Values(s)) <= Len(s) /\ Len(s) \in Nat
<1>1. Len(s) \in Nat /\ DOMAIN s = 1..Len(s)
    BY SequenceFacts
<1> DEFINE I == 1..Len(s)
           f == [i \in I |-> s[i]]
<1>2. IsFiniteSet(I) /\ Cardinality(I) = Len(s)
    BY <1>1, IntervalUpTo
<1>3. \A x : x \in Values(s) <=> \E i \in I : f[i] = x
    BY <1>1 DEF Values
<1>4. f \in Surjection(I, Values(s))
    BY <1>3 DEF Surjection
<1> HIDE DEF f, I
<1>5. IsFiniteSet(Values(s)) /\ Cardinality(Values(s)) <= Cardinality(I)
    BY <1>2, <1>4, FS_Surjection
<1> QED
    BY <1>1, <1>2, <1>5

-----------------------------------------------------------------------------
\* The names before the n-th.
Taken(names, n) == {names[i] : i \in 1..n - 1}

\* The result's names are given one after the other.
LEMMA NamesGiven ==
    ASSUME NEW cols \in Seq(Column)
    PROVE  LET names == ResolvedNames(cols)
           IN  /\ names \in Seq(Name) /\ Len(names) = Len(cols)
               /\ \A n \in 1..Len(cols) : names[n] = NameFor(cols[n], Taken(names, n))
<1> DEFINE N == Len(cols)
           D == Seq(Name)
           step == [n \in 1..N |-> [d \in D |-> Append(d, NameFor(cols[n], Values(d)))]]
           P(x) == x = [n \in 0..Len(cols) |-> IF n = 0 THEN <<>>
                          ELSE Append(x[n - 1], NameFor(cols[n], Values(x[n - 1])))]
           h == CHOOSE x : P(x)
<1>1. N \in Nat /\ \A n \in 1..N : cols[n] \in Column
    <2> DEFINE C == Column
    <2>1. cols \in Seq(C)
        OBVIOUS
    <2> HIDE DEF C
    <2>2. N \in Nat /\ \A n \in 1..N : cols[n] \in C
        BY <2>1
    <2> QED
        BY <2>2 DEF C
<1>2. ASSUME NEW n \in 1..N, NEW d \in D
      PROVE  /\ Append(d, NameFor(cols[n], Values(d))) \in D
             /\ Values(d) = Taken(d, Len(d) + 1)
    <2>1. IsSequence(d)
        BY DEF IsSequence
    <2>2. NameFor(cols[n], Values(d)) \in Name
        BY <1>1, <2>1, ValuesFinite, NameTyped
    <2>3. Len(d) \in Nat /\ DOMAIN d = 1..Len(d) /\ Len(d) + 1 - 1 = Len(d)
        BY <2>1, SequenceFacts
    <2>4. Values(d) = Taken(d, Len(d) + 1)
        BY <2>3 DEF Values, Taken
    <2> QED
        BY <2>2, <2>4, AppendProperties
<1> HIDE DEF D
<1>3. step \in [1..N -> [D -> D]] /\ <<>> \in D
    BY <1>2 DEF D
<1>4. PICK g \in [0..N -> D] : g[0] = <<>> /\ \A k \in 1..N : g[k] = step[k][g[k - 1]]
    <2> DEFINE base == <<>>
    <2>1. N \in Nat /\ base \in D /\ step \in [1..N -> [D -> D]]
        BY <1>1, <1>3
    <2> HIDE DEF step, N, base
    <2>2. \E g : Built(g, N, D, base, step)
        BY <2>1, RecursionExists
    <2> QED
        BY <2>2 DEF Built, base
<1>5. \A k \in 1..N : g[k - 1] \in D
    BY <1>1, <1>4
<1>6. \A k \in 1..N : g[k] = Append(g[k - 1], NameFor(cols[k], Values(g[k - 1])))
    BY <1>4, <1>5
<1> HIDE DEF step
<1>7. P(g)
    <2>1. \A n \in 0..N : g[n] = IF n = 0 THEN <<>>
                                 ELSE Append(g[n - 1], NameFor(cols[n], Values(g[n - 1])))
        BY <1>1, <1>4, <1>6
    <2> QED
        BY <1>4, <2>1
<1>8. ResolvedNames(cols) = h[N]
    BY DEF ResolvedNames
<1> HIDE DEF P
<1>9. P(h)
    BY <1>7
<1>10. h[0] = <<>> /\ \A k \in 1..N : h[k] = Append(h[k - 1], NameFor(cols[k], Values(h[k - 1])))
    <2> HIDE DEF h
    <2>1. \A n \in 0..N : h[n] = IF n = 0 THEN <<>>
                                 ELSE Append(h[n - 1], NameFor(cols[n], Values(h[n - 1])))
        BY <1>9 DEF P
    <2>2. 0 \in 0..N /\ \A k \in 1..N : k \in 0..N /\ k # 0
        BY <1>1
    <2> QED
        BY <2>1, <2>2
<1> HIDE DEF h
<1> DEFINE Given(n) == /\ h[n] \in D /\ Len(h[n]) = n
                       /\ \A k \in 1..n : h[n][k] = NameFor(cols[k], Taken(h[n], k))
           S == {n \in 0..N : Given(n)}
<1>11. 0 \in S
    BY <1>1, <1>3, <1>10
<1>12. ASSUME NEW n \in 1..N, n - 1 \in S PROVE n \in S
    <2> DEFINE d == h[n - 1]
               e == NameFor(cols[n], Values(d))
    <2>1. d \in D /\ Len(d) = n - 1 /\ \A k \in 1..n - 1 : d[k] = NameFor(cols[k], Taken(d, k))
        BY <1>12
    <2>2. h[n] = Append(d, e)
        BY <1>10
    <2>3. h[n] \in D /\ Values(d) = Taken(d, Len(d) + 1)
        BY <1>2, <2>1, <2>2
    <2>4. IsSequence(d)
        BY <2>1 DEF D, IsSequence
    <2> HIDE DEF d
    <2> HIDE DEF e
    <2>5. /\ Len(h[n]) = Len(d) + 1
          /\ \A k \in 1..Len(d) : h[n][k] = d[k]
          /\ h[n][Len(d) + 1] = e
        BY <2>2, <2>4, AppendedSequence
    <2>6. \A k \in 1..n : Taken(h[n], k) = Taken(d, k)
        <3> SUFFICES ASSUME NEW k \in 1..n PROVE Taken(h[n], k) = Taken(d, k)
            OBVIOUS
        <3>1. \A i \in 1..k - 1 : h[n][i] = d[i]
            <4>1. \A i \in 1..k - 1 : i \in 1..n - 1
                BY <1>1
            <4> QED
                BY <2>1, <2>5, <4>1
        <3> QED
            BY <3>1 DEF Taken
    <2>7. ASSUME NEW k \in 1..n PROVE h[n][k] = NameFor(cols[k], Taken(h[n], k))
        <3>1. CASE k = n
            <4>1. h[n][k] = e /\ Taken(h[n], k) = Values(d)
                <5>1. n - 1 + 1 = n
                    BY <1>1
                <5> QED
                    BY <2>1, <2>3, <2>5, <2>6, <3>1, <5>1
            <4> QED
                BY <3>1, <4>1 DEF e
        <3>2. CASE k # n
            <4>1. k \in 1..n - 1
                BY <1>1, <3>2
            <4> QED
                BY <2>1, <2>5, <2>6, <4>1
        <3> QED
            BY <3>1, <3>2
    <2>8. Len(h[n]) = n
        BY <1>1, <2>1, <2>5
    <2> QED
        BY <1>1, <2>3, <2>7, <2>8
<1> HIDE DEF S
<1>13. N \in S
    <2>1. N \in 0..N
        BY <1>1
    <2> QED
        BY <1>1, <1>11, <1>12, <2>1, StepByStep
<1>14. Given(N)
    BY <1>13 DEF S
<1> QED
    BY <1>8, <1>14 DEF D

-----------------------------------------------------------------------------
(* The names of the columns are distinct, and read back.                    *)

\* The selected columns, one by one.
LEMMA ColumnsOf ==
    ASSUME NEW cols \in Seq(Column)
    PROVE  Len(cols) \in Nat /\ DOMAIN cols = 1..Len(cols) /\ \A n \in 1..Len(cols) : cols[n] \in Column
<1> DEFINE C == Column
<1>1. cols \in Seq(C)
    OBVIOUS
<1> HIDE DEF C
<1>2. Len(cols) \in Nat /\ DOMAIN cols = 1..Len(cols) /\ \A n \in 1..Len(cols) : cols[n] \in C
    BY <1>1, LenProperties, ElementOfSeq
<1> QED
    BY <1>2 DEF C

\* Before the n-th column at most n - 1 names are taken.
LEMMA TakenFinite ==
    ASSUME NEW names, NEW n \in Nat \ {0}
    PROVE  /\ IsFiniteSet(Taken(names, n)) /\ Cardinality(Taken(names, n)) \in Nat
           /\ Cardinality(Taken(names, n)) <= n - 1
<1> DEFINE s == [i \in 1..n - 1 |-> names[i]]
<1>1. n - 1 \in Nat /\ s = [i \in 1..n - 1 |-> s[i]] /\ Values(s) = Taken(names, n)
    BY DEF Values, Taken
<1> HIDE DEF s
<1>2. IsSequence(s) /\ Len(s) = n - 1
    BY <1>1, SequenceUpTo
<1>3. IsFiniteSet(Values(s)) /\ Cardinality(Values(s)) <= n - 1
    BY <1>2, ValuesFinite
<1> QED
    BY <1>1, <1>3, FS_CardinalityType

\* An alias, the natural name if it is free, or a free one of as many tries as
\* there are columns so far.
Aliased(cols, names, n) ==
    cols[n].alias # None /\ names[n] = cols[n].alias

\* The column has the natural name, which was free.
Natural(cols, names, n) ==
    /\ cols[n].alias = None /\ names[n] = BaseName(cols[n])
    /\ BaseName(cols[n]) \notin Taken(names, n)

\* The natural name was taken: the name is a candidate that was free.
Derived(cols, names, n) ==
    /\ cols[n].alias = None /\ BaseName(cols[n]) \in Taken(names, n)
    /\ names[n] \notin Taken(names, n)
    /\ \E m \in 1..n : names[n] = Candidate(cols[n], m)

\* There is no fourth kind of name.
LEMMA KindsOfNames ==
    ASSUME NEW cols \in Seq(Column), NEW n \in 1..Len(cols)
    PROVE  LET names == ResolvedNames(cols)
           IN  Aliased(cols, names, n) \/ Natural(cols, names, n) \/ Derived(cols, names, n)
<1> DEFINE names == ResolvedNames(cols)
           taken == Taken(names, n)
           c == cols[n]
<1>1. names[n] = NameFor(c, taken)
    BY NamesGiven
<1>2. n \in Nat \ {0} /\ c \in Column
    BY ColumnsOf
<1> HIDE DEF names
<1>3. IsFiniteSet(taken) /\ Cardinality(taken) \in Nat /\ Cardinality(taken) <= n - 1
    BY <1>2, TakenFinite
<1>4. ASSUME c.alias # None PROVE Aliased(cols, names, n)
    BY <1>1, <1>4 DEF NameFor, Aliased
<1>5. ASSUME c.alias = None, BaseName(c) \notin taken PROVE Natural(cols, names, n)
    BY <1>1, <1>5 DEF NameFor, Natural
<1>6. ASSUME c.alias = None, BaseName(c) \in taken PROVE Derived(cols, names, n)
    <2>1. names[n] = FreshName(c, taken)
        BY <1>1, <1>6 DEF NameFor
    <2> HIDE DEF taken, c
    <2>2. /\ FreshName(c, taken) \notin taken
          /\ \E m \in 1..Cardinality(taken) + 1 : FreshName(c, taken) = Candidate(c, m)
        BY <1>2, <1>3, FreshNameFound
    <2>3. PICK m \in 1..Cardinality(taken) + 1 : FreshName(c, taken) = Candidate(c, m)
        BY <2>2
    <2>4. m \in 1..n
        BY <1>2, <1>3, <2>3
    <2> QED
        BY <1>6, <2>1, <2>2, <2>3, <2>4 DEF Derived, taken, c
<1> QED
    BY <1>4, <1>5, <1>6 DEF names

-----------------------------------------------------------------------------
\* What Buildable asks of the columns.
Unambiguous(cols) ==
    \A m, n \in DOMAIN cols : m # n =>
        /\ cols[m].alias # None =>
              cols[m].alias \notin {cols[n].alias, BaseName(cols[n])}
                                      \cup {Candidate(cols[n], k) : k \in DOMAIN cols}
        /\ cols[m].agg # None /\ BaseName(cols[m]) = BaseName(cols[n]) =>
              {cols[m].alias, cols[n].alias} # {None}

\* No two columns of the result have one name, if aliases avoid the names and
\* candidates of other columns and no aggregate is selected twice without one.
LEMMA NamesDistinct ==
    ASSUME NEW cols \in Seq(Column), Unambiguous(cols)
    PROVE  LET names == ResolvedNames(cols)
           IN  \A m, n \in 1..Len(cols) : m # n => names[m] # names[n]
<1> DEFINE names == ResolvedNames(cols)
           N == Len(cols)
<1>1. N \in Nat /\ DOMAIN cols = 1..N
    BY ColumnsOf
<1>2. ASSUME NEW m \in 1..N, NEW n \in 1..N, m < n PROVE names[m] # names[n]
    <2>1. names[m] \in Taken(names, n) /\ m # n
        BY <1>1, <1>2 DEF Taken
    <2>2. CASE Natural(cols, names, n) \/ Derived(cols, names, n)
        BY <2>1, <2>2 DEF Natural, Derived
    <2>3. CASE Aliased(cols, names, n)
        <3>1. names[n] # cols[m].alias /\ names[n] # BaseName(cols[m])
              /\ \A k \in 1..N : names[n] # Candidate(cols[m], k)
            BY <1>1, <2>1, <2>3 DEF Aliased, Unambiguous
        <3>2. CASE Aliased(cols, names, m) \/ Natural(cols, names, m)
            BY <3>1, <3>2 DEF Aliased, Natural
        <3>3. CASE Derived(cols, names, m)
            <4>1. PICK k \in 1..m : names[m] = Candidate(cols[m], k)
                BY <3>3 DEF Derived
            <4>2. k \in 1..N
                BY <1>1, <4>1
            <4> QED
                BY <3>1, <4>1, <4>2
        <3> QED
            BY <3>2, <3>3, KindsOfNames
    <2> QED
        BY <2>2, <2>3, KindsOfNames
<1> QED
    BY <1>1, <1>2

\* No written alias holds an aggregate.
LEMMA NamesReadable ==
    ASSUME NEW cols \in Seq(Column), Unambiguous(cols), NEW n \in 1..Len(cols),
           ResolvedNames(cols)[n] # BaseName(cols[n])
    PROVE  Word(ResolvedNames(cols)[n])
<1> DEFINE names == ResolvedNames(cols)
           c == cols[n]
<1>1. Len(cols) \in Nat /\ DOMAIN cols = 1..Len(cols) /\ c \in Column /\ n \in Nat
    BY ColumnsOf
<1>2. c.alias \in Seq(PlainWord) \cup {None} /\ c.table \in PlainWord /\ c.column \in PlainWord
    BY <1>1 DEF Column
<1>3. CASE Aliased(cols, names, n)
    <2>1. names[n] \in Seq(PlainWord)
        BY <1>2, <1>3 DEF Aliased
    <2>2. \A i \in DOMAIN names[n] : names[n][i] \in PlainWord
        BY <2>1, LenProperties, ElementOfSeq
    <2> QED
        BY <2>2 DEF Word, PlainWord
<1>4. CASE Derived(cols, names, n)
    <2>1. PICK i \in 1..n - 1 : names[i] = BaseName(c)
        BY <1>4 DEF Derived, Taken
    <2>2. i \in 1..Len(cols) /\ i # n /\ i \in Nat
        BY <1>1, <2>1
    <2>3. cols[i] \in Column
        BY <2>2, ColumnsOf
    <2>4. c.agg = None
        <3> SUFFICES ASSUME c.agg # None PROVE FALSE
            OBVIOUS
        <3>0. c.alias = None
            BY <1>4 DEF Derived
        <3>1. CASE Aliased(cols, names, i)
            BY <1>1, <2>1, <2>2, <3>1 DEF Aliased, Unambiguous
        <3>2. CASE Natural(cols, names, i)
            BY <1>1, <2>1, <2>2, <3>0, <3>2 DEF Natural, Unambiguous
        <3>3. CASE Derived(cols, names, i)
            <4>1. PICK m \in 1..i : names[i] = Candidate(cols[i], m)
                BY <3>3 DEF Derived
            <4>2. m \in Nat \ {0}
                BY <2>2, <4>1
            <4>3. names[i][1] = cols[i].table /\ cols[i].table \in PlainWord
                BY <2>3, <4>1, <4>2, CandidateTyped DEF Column
            <4>4. BaseName(c)[1] = c.agg
                BY <1>1 DEF BaseName
            <4>5. c.agg \in Aggregates
                BY <1>1 DEF Column
            <4> QED
                BY <2>1, <4>3, <4>4, <4>5 DEF PlainWord
        <3> QED
            BY <2>2, <3>1, <3>2, <3>3, KindsOfNames
    <2>5. PICK m \in 1..n : names[n] = Candidate(c, m)
        BY <1>4 DEF Derived
    <2> DEFINE marks == [k \in 1..m - 1 |-> "_2"]
    <2>6. names[n] = (<<c.table>> \o <<c.column>>) \o marks
        BY <2>4, <2>5 DEF Candidate, BaseName
    <2>7. names[n] \in Seq(PlainWord)
        <3>1. "_2" \in PlainWord
            BY WordsAreStrings DEF PlainWord, Aggregates
        <3>2. m - 1 \in Nat /\ marks \in [1..m - 1 -> PlainWord]
            BY <1>1, <3>1
        <3>3. marks \in Seq(PlainWord)
            BY <3>2, SeqDef
        <3>4. <<c.table>> \in Seq(PlainWord) /\ <<c.column>> \in Seq(PlainWord)
            BY <1>2
        <3> HIDE DEF marks
        <3> QED
            BY <2>6, <3>3, <3>4, ConcatProperties
    <2>8. \A k \in DOMAIN names[n] : names[n][k] \in PlainWord
        BY <2>7, LenProperties, ElementOfSeq
    <2> QED
        BY <2>8 DEF Word, PlainWord
<1> QED
    BY <1>3, <1>4, KindsOfNames DEF Natural

\* What is read of a SELECT clause.
ReadSelect(cols) ==
    LET sql == SelectClause(cols) IN [n \in DOMAIN sql |-> ParseSelect(sql[n])]

\* The alias that is written for a name.
WrittenAs(cols, n) ==
    IF ResolvedNames(cols)[n] = BaseName(cols[n]) THEN None ELSE ResolvedNames(cols)[n]

\* The SELECT list as it is written and as it is read, column by column.
LEMMA SelectWritten ==
    ASSUME NEW cols \in Seq(Column)
    PROVE  /\ DOMAIN SelectClause(cols) = 1..Len(cols) /\ DOMAIN ReadSelect(cols) = 1..Len(cols)
           /\ \A n \in 1..Len(cols) :
                 /\ SelectClause(cols)[n] = [agg |-> cols[n].agg, table |-> cols[n].table,
                                             column |-> cols[n].column, as |-> WrittenAs(cols, n)]
                 /\ ReadSelect(cols)[n] = [agg |-> cols[n].agg, table |-> cols[n].table,
                                           column |-> cols[n].column, alias |-> WrittenAs(cols, n)]
<1>1. DOMAIN cols = 1..Len(cols)
    BY ColumnsOf
<1>2. SelectClause(cols) = [n \in 1..Len(cols) |->
          [agg |-> cols[n].agg, table |-> cols[n].table, column |-> cols[n].column, as |-> WrittenAs(cols, n)]]
    BY <1>1 DEF SelectClause, WrittenAs
<1> QED
    BY <1>2 DEF ReadSelect, ParseSelect

\* A name that is read as a word has no aggregate in it.
LEMMA PlainName ==
    ASSUME NEW s \in Name, Word(s)
    PROVE  s \in Seq(PlainWord)
<1>1. s \in Seq(STRING) /\ s # None
    BY BuilderAssumption DEF Name
<1>2. Len(s) \in Nat /\ s \in [1..Len(s) -> STRING] /\ DOMAIN s = 1..Len(s)
    BY <1>1, LenProperties
<1>3. \A i \in 1..Len(s) : s[i] \in PlainWord
    BY <1>1, <1>2 DEF Word, PlainWord
<1>4. s \in [1..Len(s) -> PlainWord]
    BY <1>2, <1>3
<1> QED
    BY <1>2, <1>4, SeqDef

\* The columns that are read are columns the builder has.
LEMMA SelectTyped ==
    ASSUME NEW cols \in Seq(Column), \A n \in 1..Len(cols) : Word(WrittenAs(cols, n))
    PROVE  ReadSelect(cols) \in Seq(Column) /\ Len(ReadSelect(cols)) = Len(cols)
<1> DEFINE N == Len(cols)
           t == ReadSelect(cols)
<1>1. N \in Nat /\ \A n \in 1..N : cols[n] \in Column
    BY ColumnsOf
<1>2. ASSUME NEW n \in 1..N PROVE t[n] \in Column
    <2>1. t[n] = [agg |-> cols[n].agg, table |-> cols[n].table,
                  column |-> cols[n].column, alias |-> WrittenAs(cols, n)]
        BY SelectWritten
    <2>2. WrittenAs(cols, n) \in Seq(PlainWord) \cup {None}
        <3>1. CASE WrittenAs(cols, n) = None
            BY <3>1
        <3>2. CASE WrittenAs(cols, n) # None
            <4>1. WrittenAs(cols, n) = ResolvedNames(cols)[n]
                BY <3>2 DEF WrittenAs
            <4>2. ResolvedNames(cols) \in Seq(Name) /\ Len(ResolvedNames(cols)) = N
                BY NamesGiven
            <4>3. ResolvedNames(cols)[n] \in Name
                BY <4>2, ElementOfSeq
            <4> QED
                BY <4>1, <4>3, PlainName
        <3> QED
            BY <3>1, <3>2
    <2>3. cols[n].agg \in Aggregates \cup {None} /\ cols[n].table \in PlainWord /\ cols[n].column \in PlainWord
        BY <1>1 DEF Column
    <2> QED
        BY <2>1, <2>2, <2>3 DEF Column
<1>3. t = [n \in 1..N |-> t[n]] /\ t \in [1..N -> Column]
    <2>1. DOMAIN t = 1..N /\ t = [n \in DOMAIN t |-> t[n]]
        <3>1. DOMAIN t = 1..N
            BY SelectWritten
        <3> QED
            BY <3>1 DEF ReadSelect
    <2> HIDE DEF t, N
    <2> QED
        BY <1>2, <2>1
<1> HIDE DEF t, N
<1>4. t \in Seq(Column)
    BY <1>1, <1>3, SeqDef
<1>5. Len(t) = N
    BY <1>1, <1>3, SequenceUpTo
<1> QED
    BY <1>4, <1>5 DEF t, N

\* The same names are given again.
LEMMA NamesGivenAgain ==
    ASSUME NEW cols \in Seq(Column), Unambiguous(cols)
    PROVE  /\ ReadSelect(cols) \in Seq(Column) /\ Len(ReadSelect(cols)) = Len(cols)
           /\ \A n \in 1..Len(cols) : ResolvedNames(ReadSelect(cols))[n] = ResolvedNames(cols)[n]
<1> DEFINE N == Len(cols)
           t == ReadSelect(cols)
           names == ResolvedNames(cols)
           again == ResolvedNames(t)
           S == {n \in 0..N : \A k \in 1..n : again[k] = names[k]}
<1>1. N \in Nat
    BY ColumnsOf
<1>2. \A n \in 1..N : Word(WrittenAs(cols, n))
    BY NamesReadable DEF WrittenAs, Word
<1>3. t \in Seq(Column) /\ Len(t) = N
    BY <1>2, SelectTyped
<1>4. \A n \in 1..N : names[n] = NameFor(cols[n], Taken(names, n)) /\ names[n] # None
    <2>1. names \in Seq(Name) /\ Len(names) = N /\ \A n \in 1..N : names[n] = NameFor(cols[n], Taken(names, n))
        BY NamesGiven
    <2>2. \A n \in 1..N : names[n] \in Name
        BY <2>1, ElementOfSeq
    <2> QED
        BY <2>1, <2>2, BuilderAssumption DEF Name
<1>5. \A n \in 1..N : again[n] = NameFor(t[n], Taken(again, n))
    BY <1>3, NamesGiven
<1>6. \A n \in 1..N : /\ t[n].alias = (IF names[n] = BaseName(cols[n]) THEN None ELSE names[n])
                      /\ BaseName(t[n]) = BaseName(cols[n])
    <2> SUFFICES ASSUME NEW n \in 1..N
                 PROVE  /\ t[n].alias = (IF names[n] = BaseName(cols[n]) THEN None ELSE names[n])
                        /\ BaseName(t[n]) = BaseName(cols[n])
        OBVIOUS
    <2>1. t[n] = [agg |-> cols[n].agg, table |-> cols[n].table,
                  column |-> cols[n].column, alias |-> WrittenAs(cols, n)]
        BY SelectWritten
    <2> HIDE DEF t
    <2>2. t[n].alias = WrittenAs(cols, n) /\ t[n].agg = cols[n].agg
          /\ t[n].table = cols[n].table /\ t[n].column = cols[n].column
        BY <2>1
    <2> QED
        BY <2>2 DEF WrittenAs, BaseName
<1>7. \A m, n \in 1..N : m # n => names[m] # names[n]
    BY NamesDistinct
<1> HIDE DEF t, names, again, N
<1>8. ASSUME NEW n \in 1..N, \A k \in 1..n - 1 : again[k] = names[k] PROVE again[n] = names[n]
    <2>1. Taken(again, n) = Taken(names, n)
        BY <1>8 DEF Taken
    <2>2. CASE names[n] # BaseName(cols[n])
        BY <1>4, <1>5, <1>6, <2>2 DEF NameFor
    <2>3. CASE names[n] = BaseName(cols[n])
        <3>1. \A i \in 1..n - 1 : i \in 1..N /\ i # n
            BY <1>1
        <3>2. BaseName(t[n]) \notin Taken(again, n)
            BY <1>6, <1>7, <2>1, <2>3, <3>1 DEF Taken
        <3>3. t[n].alias = None
            BY <1>6, <2>3
        <3> QED
            BY <1>5, <1>6, <2>3, <3>2, <3>3 DEF NameFor
    <2> QED
        BY <2>2, <2>3
<1>9. 0 \in S
    BY <1>1
<1>10. ASSUME NEW n \in 1..N, n - 1 \in S PROVE n \in S
    <2>1. \A k \in 1..n - 1 : again[k] = names[k]
        BY <1>10
    <2>2. again[n] = names[n]
        BY <1>8, <2>1
    <2>3. \A k \in 1..n : k = n \/ k \in 1..n - 1
        BY <1>1
    <2>4. n \in 0..N
        BY <1>1
    <2> QED
        BY <2>1, <2>2, <2>3, <2>4
<1> HIDE DEF S
<1>11. N \in S
    <2>1. N \in 0..N
        BY <1>1
    <2> QED
        BY <1>1, <1>9, <1>10, <2>1, StepByStep
<1>12. \A k \in 1..N : again[k] = names[k]
    BY <1>11 DEF S
<1> QED
    BY <1>3, <1>12 DEF t, names, again, N

\* Names derived the first time are aliases the second time, and stay the same:
\* the SELECT list read back is written again as it was.
LEMMA SelectReadBack ==
    ASSUME NEW cols \in Seq(Column), Unambiguous(cols)
    PROVE  SelectClause(ReadSelect(cols)) = SelectClause(cols)
<1> DEFINE t == ReadSelect(cols)
           N == Len(cols)
           names == ResolvedNames(cols)
<1>1. t \in Seq(Column) /\ Len(t) = N /\ \A n \in 1..N : ResolvedNames(t)[n] = names[n]
    BY NamesGivenAgain
<1>2. ASSUME NEW n \in 1..N
      PROVE  [agg |-> t[n].agg, table |-> t[n].table, column |-> t[n].column, as |-> WrittenAs(t, n)]
              = [agg |-> cols[n].agg, table |-> cols[n].table, column |-> cols[n].column, as |-> WrittenAs(cols, n)]
    <2>1. t[n] = [agg |-> cols[n].agg, table |-> cols[n].table,
                  column |-> cols[n].column, alias |-> WrittenAs(cols, n)]
        BY SelectWritten
    <2> HIDE DEF t
    <2>2. t[n].agg = cols[n].agg /\ t[n].table = cols[n].table /\ t[n].column = cols[n].column
        BY <2>1
    <2>3. WrittenAs(t, n) = WrittenAs(cols, n)
        BY <1>1, <2>2 DEF WrittenAs, BaseName
    <2> QED
        BY <2>2, <2>3
<1> HIDE DEF t
<1>3. DOMAIN t = 1..N /\ DOMAIN cols = 1..N
    BY <1>1, ColumnsOf
<1>4. SelectClause(cols) = [n \in 1..N |-> [agg |-> cols[n].agg, table |-> cols[n].table,
                                column |-> cols[n].column, as |-> WrittenAs(cols, n)]]
    BY <1>3 DEF SelectClause, WrittenAs
<1>5. SelectClause(t) = [n \in 1..N |-> [agg |-> t[n].agg, table |-> t[n].table,
                             column |-> t[n].column, as |-> WrittenAs(t, n)]]
    BY <1>3 DEF SelectClause, WrittenAs
<1> QED
    BY <1>2, <1>4, <1>5 DEF t

-----------------------------------------------------------------------------
(* How a filter is written and read.                                        *)

\* The tokens of a WHERE clause.
Token == [token : {"condition", "literal", "AND", "OR"}, field : Name,
          op : STRING \cup {None}, args : Name]

\* One condition, or the three tokens of BETWEEN.
IsBetween(F) ==
    /\ Len(F) = 3 /\ F[1].op = "BETWEEN" /\ F[2] = Connector("AND")
    /\ F[3].token = "literal" /\ F[3].op = None

\* A single condition is a sequence of tokens.
LEMMA ConditionTyped ==
    ASSUME NEW f \in Filter, NEW op \in STRING \cup {None}, NEW args \in Name
    PROVE  LET F == <<Condition(f, op, args)>>
           IN  F \in Seq(Token) /\ Len(F) = 1 /\ F[1] = Condition(f, op, args)
<1> DEFINE t == Condition(f, op, args)
<1>1. f.field \in Name
    BY DEF Filter, QualifiedName, Name
<1>2. t \in Token
    BY <1>1 DEF Condition, Token
<1> HIDE DEF t
<1>3. <<t>> \in Seq(Token) /\ Len(<<t>>) = 1 /\ <<t>>[1] = t
    <2> DEFINE T == Token
    <2>1. t \in T
        BY <1>2
    <2> HIDE DEF T
    <2>2. <<t>> \in Seq(T) /\ Len(<<t>>) = 1 /\ <<t>>[1] = t
        BY <2>1
    <2> QED
        BY <2>2 DEF T
<1> QED
    BY <1>3 DEF t

\* A connector is a token.
LEMMA ConnectorTyped ==
    ASSUME NEW logic \in {"AND", "OR"}
    PROVE  Connector(logic) \in Token
<1>1. <<>> \in Name
    BY DEF Name
<1> QED
    BY <1>1 DEF Connector, Token

\* The parts of a filter.
LEMMA FilterOf ==
    ASSUME NEW f \in Filter
    PROVE  /\ f.field \in Name /\ f.op \in STRING \cup {None} /\ f.list \in BOOLEAN
           /\ f.value \in Name /\ f.logic \in {"AND", "OR"}
BY DEF Filter, QualifiedName, Name

\* How a filter is written: IS NULL without arguments, BETWEEN with its two
\* values, any other list as IN list, the rest with its value.
WritesBetween(f) == f.op = "BETWEEN" /\ f.list /\ Len(f.value) = 2

\* BETWEEN is written as three tokens, the second of them an AND.
LEMMA BetweenWritten ==
    ASSUME NEW f \in Filter, WritesBetween(f)
    PROVE  LET F == FilterTokens(f)
           IN  /\ F \in Seq(Token) /\ IsBetween(F)
               /\ F = <<Condition(f, "BETWEEN", <<f.value[1]>>), Connector("AND"), Literal(f.value[2])>>
               /\ F[1] = Condition(f, "BETWEEN", <<f.value[1]>>) /\ F[3] = Literal(f.value[2])
               /\ f.value = <<f.value[1], f.value[2]>>
<1> DEFINE a == Condition(f, "BETWEEN", <<f.value[1]>>)
           b == Connector("AND")
           c == Literal(f.value[2])
<1>1. FilterTokens(f) = <<a, b, c>>
    BY DEF FilterTokens, WritesBetween
<1>2. f.field \in Name /\ f.value \in Seq(STRING) /\ Len(f.value) = 2
    BY FilterOf DEF WritesBetween, Name
<1>3. f.value[1] \in STRING /\ f.value[2] \in STRING /\ f.value = <<f.value[1], f.value[2]>>
    BY <1>2
<1>4. "BETWEEN" \in STRING
    BY WordsAreStrings
<1>5. <<f.value[1]>> \in Name /\ <<f.value[2]>> \in Name /\ <<>> \in Name
    BY <1>3 DEF Name
<1>6. a \in Token /\ a.op = "BETWEEN"
    BY <1>2, <1>4, <1>5 DEF Condition, Token
<1>7. b \in Token
    BY ConnectorTyped
<1>8. c \in Token /\ c.token = "literal" /\ c.op = None
    BY <1>5 DEF Literal, Token
<1> HIDE DEF a, b, c
<1>9. <<a, b, c>> \in Seq(Token) /\ Len(<<a, b, c>>) = 3
      /\ <<a, b, c>>[1] = a /\ <<a, b, c>>[2] = b /\ <<a, b, c>>[3] = c
    <2> DEFINE T == Token
    <2>1. a \in T /\ b \in T /\ c \in T
        BY <1>6, <1>7, <1>8
    <2> HIDE DEF T
    <2>2. <<a, b, c>> \in Seq(T) /\ Len(<<a, b, c>>) = 3
          /\ <<a, b, c>>[1] = a /\ <<a, b, c>>[2] = b /\ <<a, b, c>>[3] = c
        BY <2>1
    <2> QED
        BY <2>2 DEF T
<1> QED
    BY <1>1, <1>3, <1>6, <1>8, <1>9 DEF IsBetween, a, b, c

\* The one condition of another filter.
WrittenOp(f) ==
    IF f.op \in {"IS NULL", "IS NOT NULL"} THEN f.op
    ELSE IF f.list /\ f.op # "LIKE" THEN "IN list" ELSE f.op

\* The arguments that are written: none of a test for NULL.
WrittenArgs(f) == IF f.op \in {"IS NULL", "IS NOT NULL"} THEN <<>> ELSE f.value

\* Every other filter is written as a single token.
LEMMA OtherWritten ==
    ASSUME NEW f \in Filter, ~WritesBetween(f)
    PROVE  LET F == FilterTokens(f)
           IN  /\ F \in Seq(Token) /\ Len(F) = 1
               /\ F = <<Condition(f, WrittenOp(f), WrittenArgs(f))>>
               /\ F[1] = Condition(f, WrittenOp(f), WrittenArgs(f))
<1>1. FilterTokens(f) = <<Condition(f, WrittenOp(f), WrittenArgs(f))>>
    BY FilterOf DEF FilterTokens, WrittenOp, WrittenArgs, WritesBetween
<1>2. WrittenOp(f) \in STRING \cup {None}
    BY FilterOf, WordsAreStrings DEF WrittenOp
<1>3. WrittenArgs(f) \in Name
    <2>1. f.value \in Name /\ <<>> \in Name
        BY FilterOf DEF Name
    <2> QED
        BY <2>1 DEF WrittenArgs
<1> QED
    BY <1>1, <1>2, <1>3, ConditionTyped

\* A filter is written as one token, or as a BETWEEN of three; its first token is
\* the condition.
LEMMA FilterWritten ==
    ASSUME NEW f \in Filter
    PROVE  LET F == FilterTokens(f)
           IN  /\ F \in Seq(Token)
               /\ F[1].token = "condition" /\ F[1].field = f.field
               /\ Len(F) = 1 \/ IsBetween(F)
<1>1. ASSUME WritesBetween(f) PROVE FilterTokens(f)[1].token = "condition" /\ FilterTokens(f)[1].field = f.field
    <2>1. FilterTokens(f)[1] = Condition(f, "BETWEEN", <<f.value[1]>>)
        BY <1>1, BetweenWritten
    <2> QED
        BY <2>1 DEF Condition
<1>2. ASSUME ~WritesBetween(f) PROVE FilterTokens(f)[1].token = "condition" /\ FilterTokens(f)[1].field = f.field
    <2>1. FilterTokens(f)[1] = Condition(f, WrittenOp(f), WrittenArgs(f))
        BY <1>2, OtherWritten
    <2> QED
        BY <2>1 DEF Condition
<1> QED
    BY <1>1, <1>2, BetweenWritten, OtherWritten

\* IN and BETWEEN come with a list.
WellMade(f) == Len(f.field) = 2 /\ (f.op \in {"IN", "BETWEEN"} => f.list)

\* Two sequences of one element make a pair.
LEMMA PairOf ==
    ASSUME NEW S, NEW a \in S, NEW b \in S
    PROVE  <<a>> \o <<b>> = <<a, b>>
<1> DEFINE s == <<a>>
           t == <<b>>
           u == s \o t
           w == <<a, b>>
<1>1. s \in Seq(S) /\ t \in Seq(S) /\ Len(s) = 1 /\ Len(t) = 1 /\ s[1] = a /\ t[1] = b
    OBVIOUS
<1>2. w \in Seq(S) /\ Len(w) = 2 /\ w[1] = a /\ w[2] = b
    OBVIOUS
<1> HIDE DEF s, t, w
<1>3. /\ u \in Seq(S) /\ Len(u) = Len(s) + Len(t)
      /\ \A i \in 1..Len(s) + Len(t) : u[i] = IF i <= Len(s) THEN s[i] ELSE t[i - Len(s)]
    BY <1>1, ConcatProperties
<1> HIDE DEF u
<1>4. u[1] = a /\ u[2] = b /\ Len(u) = 2
    BY <1>1, <1>3
<1>5. \A i \in 1..2 : u[i] = w[i]
    <2>1. \A i \in 1..2 : i = 1 \/ i = 2
        OBVIOUS
    <2> QED
        BY <1>2, <1>4, <2>1
<1>6. u = w
    BY <1>2, <1>3, <1>4, <1>5, SeqEqual
<1> QED
    BY <1>6 DEF u, s, t, w

\* BETWEEN read back is written again as it was.
LEMMA BetweenReadBack ==
    ASSUME NEW f \in Filter, WellMade(f), WritesBetween(f), NEW logic
    PROVE  LET F == FilterTokens(f)
               g == ParseCondition(F, logic)
           IN  Fits(F) /\ g.logic = logic /\ FilterTokens(g) = F
<1> DEFINE F == FilterTokens(f)
           g == ParseCondition(F, logic)
           a == f.value[1]
           b == f.value[2]
<1>1. /\ F = <<Condition(f, "BETWEEN", <<a>>), Connector("AND"), Literal(b)>>
      /\ F[1] = Condition(f, "BETWEEN", <<a>>) /\ F[3] = Literal(b) /\ Len(F) = 3
    BY BetweenWritten DEF IsBetween
<1> HIDE DEF F
<1>2. /\ F[1].op = "BETWEEN" /\ F[1].args = <<a>> /\ F[1].field = f.field
      /\ LastOf(F).args = <<b>> /\ LastOf(F).token = "literal"
    BY <1>1 DEF Condition, Literal, LastOf
<1>3. F # <<>>
    BY <1>1
<1>4. Fits(F)
    BY <1>1, <1>2, <1>3 DEF Fits, WellMade
<1> HIDE DEF a, b
<1>5. <<a>> \o <<b>> = <<a, b>>
    <2>1. a \in {a, b} /\ b \in {a, b}
        OBVIOUS
    <2> QED
        BY <2>1, PairOf
<1>6. g = [field |-> f.field, op |-> "BETWEEN", list |-> TRUE, value |-> <<a, b>>, logic |-> logic]
    BY <1>1, <1>2, <1>5 DEF ParseCondition
<1> HIDE DEF g
<1>7. /\ g.field = f.field /\ g.op = "BETWEEN" /\ g.list /\ g.value = <<a, b>> /\ g.logic = logic
      /\ Len(<<a, b>>) = 2 /\ <<a, b>>[1] = a /\ <<a, b>>[2] = b
    BY <1>6
<1>8. FilterTokens(g) = <<Condition(g, "BETWEEN", <<a>>), Connector("AND"), Literal(b)>>
    BY <1>7 DEF FilterTokens
<1>9. Condition(g, "BETWEEN", <<a>>) = Condition(f, "BETWEEN", <<a>>)
    BY <1>7 DEF Condition
<1>10. FilterTokens(g) = F
    BY <1>1, <1>8, <1>9
<1> QED
    BY <1>4, <1>7, <1>10 DEF F, g

\* So is any other filter.
LEMMA OtherReadBack ==
    ASSUME NEW f \in Filter, WellMade(f), ~WritesBetween(f), NEW logic
    PROVE  LET F == FilterTokens(f)
               g == ParseCondition(F, logic)
           IN  Fits(F) /\ g.logic = logic /\ FilterTokens(g) = F
<1> DEFINE F == FilterTokens(f)
           g == ParseCondition(F, logic)
           o == WrittenOp(f)
           v == WrittenArgs(f)
<1>1. F = <<Condition(f, o, v)>> /\ F[1] = Condition(f, o, v) /\ Len(F) = 1
    BY OtherWritten
<1>2. o \notin {"IN", "BETWEEN"}
    BY FilterOf DEF WrittenOp, WellMade
<1>3. o \in {"IS NULL", "IS NOT NULL"} => v = <<>>
    BY FilterOf DEF WrittenOp, WrittenArgs
<1> HIDE DEF F, o, v
<1>4. F[1].op = o /\ F[1].args = v /\ F[1].field = f.field /\ F # <<>>
    BY <1>1 DEF Condition
<1>5. Fits(F)
    BY <1>2, <1>4 DEF Fits, WellMade
<1>6. /\ o = "IN list" => g = [field |-> f.field, op |-> "IN", list |-> TRUE, value |-> v, logic |-> logic]
      /\ o # "IN list" => g = [field |-> f.field, op |-> o, list |-> FALSE, value |-> v, logic |-> logic]
    BY <1>2, <1>4 DEF ParseCondition
<1> HIDE DEF g
<1>7. g.field = f.field /\ g.logic = logic /\ g.value = v
      /\ (o = "IN list" => g.op = "IN" /\ g.list)
      /\ (o # "IN list" => g.op = o /\ ~g.list)
    <2>1. CASE o = "IN list"
        <3>1. g = [field |-> f.field, op |-> "IN", list |-> TRUE, value |-> v, logic |-> logic]
            BY <1>6, <2>1
        <3> QED
            BY <2>1, <3>1
    <2>2. CASE o # "IN list"
        <3>1. g = [field |-> f.field, op |-> o, list |-> FALSE, value |-> v, logic |-> logic]
            BY <1>6, <2>2
        <3> QED
            BY <2>2, <3>1
    <2> QED
        BY <2>1, <2>2
<1>8. FilterTokens(g) = <<Condition(g, o, v)>>
    BY <1>2, <1>3, <1>7 DEF FilterTokens
<1>9. Condition(g, o, v) = Condition(f, o, v)
    BY <1>7 DEF Condition
<1> QED
    BY <1>1, <1>5, <1>7, <1>8, <1>9 DEF F, g

\* What is read of a filter's tokens is written the same.
LEMMA FilterReadBack ==
    ASSUME NEW f \in Filter, WellMade(f), NEW logic
    PROVE  LET F == FilterTokens(f)
               g == ParseCondition(F, logic)
           IN  Fits(F) /\ g.logic = logic /\ FilterTokens(g) = F
<1>1. CASE WritesBetween(f)
    BY <1>1, BetweenReadBack
<1>2. CASE ~WritesBetween(f)
    BY <1>2, OtherReadBack
<1> QED
    BY <1>1, <1>2

-----------------------------------------------------------------------------
(* A text in parts.                                                         *)

\* What is joined to s by a connector stands after it, in its order.
LEMMA JoinedBy ==
    ASSUME NEW T, NEW s \in Seq(T), NEW c \in T, NEW f \in Seq(T)
    PROVE  LET t == s \o (<<c>> \o f)
           IN  /\ t \in Seq(T) /\ Len(s) \in Nat /\ Len(f) \in Nat
               /\ Len(t) = Len(s) + 1 + Len(f)
               /\ \A i \in 1..Len(s) : t[i] = s[i]
               /\ t[Len(s) + 1] = c
               /\ \A k \in 1..Len(f) : t[Len(s) + 1 + k] = f[k]
<1> DEFINE b == <<c>>
           g == b \o f
           t == s \o g
<1>1. b \in Seq(T) /\ Len(b) = 1 /\ b[1] = c
    OBVIOUS
<1>2. Len(s) \in Nat /\ Len(f) \in Nat
    OBVIOUS
<1> HIDE DEF b
<1>3. /\ g \in Seq(T) /\ Len(g) = Len(b) + Len(f)
      /\ \A i \in 1..Len(b) + Len(f) : g[i] = IF i <= Len(b) THEN b[i] ELSE f[i - Len(b)]
    BY <1>1, ConcatProperties
<1> HIDE DEF g
<1>4. Len(g) = 1 + Len(f) /\ g[1] = c /\ \A k \in 1..Len(f) : g[1 + k] = f[k]
    <2>1. Len(g) = 1 + Len(f) /\ \A i \in 1..1 + Len(f) : g[i] = IF i <= 1 THEN b[i] ELSE f[i - 1]
        BY <1>1, <1>3
    <2>2. 1 \in 1..1 + Len(f) /\ \A k \in 1..Len(f) : 1 + k \in 1..1 + Len(f) /\ ~(1 + k <= 1) /\ 1 + k - 1 = k
        BY <1>2
    <2> QED
        BY <1>1, <2>1, <2>2
<1>5. /\ t \in Seq(T) /\ Len(t) = Len(s) + Len(g)
      /\ \A i \in 1..Len(s) + Len(g) : t[i] = IF i <= Len(s) THEN s[i] ELSE g[i - Len(s)]
    <2>1. s \in Seq(T) /\ g \in Seq(T)
        BY <1>3
    <2> QED
        BY <2>1, ConcatProperties
<1> HIDE DEF t
<1> DEFINE L == Len(s)
           M == Len(f)
<1>6. L \in Nat /\ M \in Nat /\ Len(g) = 1 + M /\ Len(t) = L + (1 + M)
      /\ \A i \in 1..L + (1 + M) : t[i] = IF i <= L THEN s[i] ELSE g[i - L]
    BY <1>2, <1>4, <1>5
<1> HIDE DEF L, M
<1>7. \A i \in 1..L : t[i] = s[i]
    BY <1>6
<1>8. t[L + 1] = g[1]
    <2>1. L + 1 \in 1..L + (1 + M) /\ ~(L + 1 <= L) /\ L + 1 - L = 1
        BY <1>6
    <2> QED
        BY <1>6, <2>1
<1>9. ASSUME NEW k \in 1..M PROVE t[L + 1 + k] = g[1 + k]
    <2> DEFINE j == L + 1 + k
    <2>1. j \in 1..L + (1 + M) /\ ~(j <= L) /\ j - L = 1 + k
        BY <1>6
    <2> HIDE DEF j
    <2>2. t[j] = g[1 + k]
        BY <1>6, <2>1
    <2> QED
        BY <2>2 DEF j
<1>10. Len(t) = L + 1 + M
    BY <1>6
<1> QED
    BY <1>2, <1>4, <1>5, <1>7, <1>8, <1>9, <1>10 DEF t, g, b, L, M

\* A text of K parts, each after the first behind a connector.
Parts(T, K, F, C, u) ==
    /\ K \in Nat /\ F \in [1..K -> Seq(T)] /\ C \in [1..K -> T]
    /\ \A n \in 1..K : Len(F[n]) \in Nat \ {0}
    /\ u \in [0..K -> Seq(T)] /\ u[0] = <<>>
    /\ \A n \in 1..K : u[n] = IF n = 1 THEN F[1] ELSE u[n - 1] \o (<<C[n]>> \o F[n])

\* Where the n-th part begins: its connector's place.
Start(u, n) == IF n = 1 THEN 0 ELSE Len(u[n - 1]) + 1

\* The n-th part stands after those before it, which stay as they were.
LEMMA PartWritten ==
    ASSUME NEW T, NEW K, NEW F, NEW C, NEW u, Parts(T, K, F, C, u), NEW n \in 1..K
    PROVE  /\ Start(u, n) \in Nat /\ Len(u[n]) \in Nat
           /\ Len(u[n]) = Start(u, n) + Len(F[n])
           /\ \A k \in 1..Len(F[n]) : u[n][Start(u, n) + k] = F[n][k]
           /\ n # 1 => u[n][Start(u, n)] = C[n] /\ Start(u, n) = Len(u[n - 1]) + 1 /\ n - 1 \in 1..K
           /\ n # 1 => \A i \in 1..Len(u[n - 1]) : u[n][i] = u[n - 1][i]
<1>1. /\ K \in Nat /\ F[n] \in Seq(T) /\ C[n] \in T /\ u[n] \in Seq(T) /\ n - 1 \in 0..K /\ u[n - 1] \in Seq(T)
      /\ Len(F[n]) \in Nat \ {0}
    <2>1. K \in Nat /\ n \in 0..K /\ n - 1 \in 0..K
        BY DEF Parts
    <2>2. F \in [1..K -> Seq(T)] /\ C \in [1..K -> T] /\ u \in [0..K -> Seq(T)]
        BY DEF Parts
    <2> QED
        BY <2>1, <2>2 DEF Parts
<1>2. CASE n = 1
    <2>1. u[n] = F[n] /\ Start(u, n) = 0
        BY <1>2 DEF Parts, Start
    <2> QED
        BY <1>1, <1>2, <2>1
<1>3. CASE n # 1
    <2>1. u[n] = u[n - 1] \o (<<C[n]>> \o F[n]) /\ Start(u, n) = Len(u[n - 1]) + 1
        BY <1>3 DEF Parts, Start
    <2>2. n - 1 \in 1..K
        BY <1>1, <1>3
    <2> DEFINE s == u[n - 1]
               f == F[n]
               c == C[n]
               t == u[n]
    <2>3. s \in Seq(T) /\ f \in Seq(T) /\ c \in T /\ t = s \o (<<c>> \o f)
        BY <1>1, <2>1
    <2> HIDE DEF s, f, c, t
    <2>4. /\ t \in Seq(T) /\ Len(s) \in Nat /\ Len(f) \in Nat
          /\ Len(t) = Len(s) + 1 + Len(f)
          /\ \A i \in 1..Len(s) : t[i] = s[i]
          /\ t[Len(s) + 1] = c
          /\ \A k \in 1..Len(f) : t[Len(s) + 1 + k] = f[k]
        BY <2>3, JoinedBy
    <2>5. Start(u, n) = Len(s) + 1 /\ Start(u, n) \in Nat
        BY <2>1, <2>4 DEF s
    <2>6. Len(t) \in Nat
        BY <2>4
    <2> QED
        BY <1>3, <2>2, <2>4, <2>5, <2>6 DEF s, f, c, t
<1> QED
    BY <1>2, <1>3

\* What stands where among the first n parts.
LaidOut(F, C, u, n) ==
    /\ \A m \in 1..n :
          /\ Start(u, m) \in Nat /\ Start(u, m) + Len(F[m]) <= Len(u[n])
          /\ \A k \in 1..Len(F[m]) : u[n][Start(u, m) + k] = F[m][k]
          /\ m # 1 => u[n][Start(u, m)] = C[m]
    /\ \A i \in 1..Len(u[n]) : \E m \in 1..n :
          (m # 1 /\ i = Start(u, m)) \/ \E k \in 1..Len(F[m]) : i = Start(u, m) + k

\* A place after the first a of a + b places is one of the last b.
LEMMA WholePart ==
    ASSUME NEW a \in Nat, NEW b \in Nat, NEW i \in 1..a + b, i > a
    PROVE  \E k \in 1..b : i = a + k
<1>1. i - a \in 1..b /\ i = a + (i - a)
    OBVIOUS
<1> QED
    BY <1>1

\* If the parts before the n-th are where they should be, so is the n-th.
LEMMA LaidOutNext ==
    ASSUME NEW T, NEW K, NEW F, NEW C, NEW u, Parts(T, K, F, C, u), NEW n \in 1..K,
           n = 1 \/ LaidOut(F, C, u, n - 1)
    PROVE  LaidOut(F, C, u, n)
<1> DEFINE s == Start(u, n)
           L == Len(u[n])
           b == Len(F[n])
           B == Len(u[n - 1])
<1>1. /\ s \in Nat /\ L \in Nat /\ L = s + b
      /\ \A k \in 1..b : u[n][s + k] = F[n][k]
      /\ n # 1 => u[n][s] = C[n] /\ s = B + 1 /\ n - 1 \in 1..K
      /\ n # 1 => \A i \in 1..B : u[n][i] = u[n - 1][i]
    BY PartWritten
<1>2. b \in Nat \ {0} /\ K \in Nat /\ n \in Nat
    <2>1. K \in Nat /\ \A m \in 1..K : Len(F[m]) \in Nat \ {0}
        BY DEF Parts
    <2> QED
        BY <2>1
<1>3. n # 1 => B \in Nat
    BY <1>1, PartWritten
<1>4. ASSUME NEW m \in 1..n
      PROVE  /\ Start(u, m) \in Nat /\ Start(u, m) + Len(F[m]) <= L
             /\ \A k \in 1..Len(F[m]) : u[n][Start(u, m) + k] = F[m][k]
             /\ m # 1 => u[n][Start(u, m)] = C[m]
    <2>1. CASE m = n
        BY <1>1, <1>2, <2>1
    <2>2. CASE m # n
        <3>1. n # 1 /\ m \in 1..n - 1 /\ m \in 1..K
            BY <1>2, <2>2
        <3> DEFINE r == Start(u, m)
                   l == Len(F[m])
        <3>2. /\ r \in Nat /\ r + l <= B
              /\ \A k \in 1..l : u[n - 1][r + k] = F[m][k]
              /\ m # 1 => u[n - 1][r] = C[m]
            BY <3>1 DEF LaidOut
        <3>3. l \in Nat \ {0}
            BY <3>1 DEF Parts
        <3>4. m # 1 => r # 0
            <4>1. m # 1 => r = Len(u[m - 1]) + 1 /\ m - 1 \in 1..K
                BY <3>1, PartWritten
            <4>2. m # 1 => Len(u[m - 1]) \in Nat
                BY <4>1, PartWritten
            <4> QED
                BY <4>1, <4>2
        <3> HIDE DEF r, l, s, L, b, B
        <3>5. r + l <= L /\ B \in Nat /\ \A i \in 1..B : u[n][i] = u[n - 1][i]
            BY <1>1, <1>2, <1>3, <3>1, <3>2, <3>3
        <3>6. \A k \in 1..l : u[n][r + k] = F[m][k]
            <4>1. \A k \in 1..l : r + k \in 1..B
                BY <3>2, <3>3, <3>5
            <4> QED
                BY <3>2, <3>5, <4>1
        <3>7. m # 1 => u[n][r] = C[m]
            <4>1. m # 1 => r \in 1..B
                BY <3>2, <3>3, <3>4, <3>5
            <4> QED
                BY <3>2, <3>5, <4>1
        <3> QED
            BY <3>2, <3>5, <3>6, <3>7 DEF r, l
    <2> QED
        BY <2>1, <2>2
<1>5. ASSUME NEW i \in 1..L
      PROVE  \E m \in 1..n : (m # 1 /\ i = Start(u, m)) \/ \E k \in 1..Len(F[m]) : i = Start(u, m) + k
    <2>1. CASE i > s
        <3>1. \E k \in 1..b : i = s + k
            <4> HIDE DEF s, b, L
            <4> QED
                BY <1>1, <1>2, <2>1, WholePart
        <3>2. n \in 1..n
            BY <1>2
        <3> QED
            BY <3>1, <3>2
    <2>2. CASE i = s
        <3>1. n # 1 /\ n \in 1..n
            <4>1. i # 0
                BY <1>1
            <4> QED
                BY <1>2, <2>2, <4>1 DEF Start
        <3> QED
            BY <2>2, <3>1
    <2>3. CASE i < s
        <3>1. n # 1 /\ i \in 1..B
            <4>1. n # 1
                BY <1>1, <2>3 DEF Start
            <4>2. s = B + 1 /\ B \in Nat /\ i \in Nat \ {0}
                BY <1>1, <1>3, <4>1
            <4> HIDE DEF s, B
            <4> QED
                BY <2>3, <4>1, <4>2
        <3>2. PICK m \in 1..n - 1 : (m # 1 /\ i = Start(u, m)) \/ \E k \in 1..Len(F[m]) : i = Start(u, m) + k
            BY <3>1 DEF LaidOut
        <3>3. m \in 1..n
            BY <1>2, <3>2
        <3> QED
            BY <3>2, <3>3
    <2> HIDE DEF s, L
    <2>4. i > s \/ i = s \/ i < s
        BY <1>1
    <2> QED
        BY <2>1, <2>2, <2>3, <2>4 DEF s
<1> QED
    BY <1>4, <1>5 DEF LaidOut

\* Each part of the text is found where it was put, however many follow it.
LEMMA AllLaidOut ==
    ASSUME NEW T, NEW K, NEW F, NEW C, NEW u, Parts(T, K, F, C, u)
    PROVE  \A n \in 1..K : LaidOut(F, C, u, n)
<1> DEFINE S == {n \in 0..K : n = 0 \/ LaidOut(F, C, u, n)}
<1>1. K \in Nat /\ 0 \in S
    BY DEF Parts
<1>2. ASSUME NEW n \in 1..K, n - 1 \in S PROVE n \in S
    <2>1. n - 1 = 0 \/ LaidOut(F, C, u, n - 1)
        BY <1>2
    <2>2. n = 1 \/ LaidOut(F, C, u, n - 1)
        BY <1>1, <2>1
    <2>3. LaidOut(F, C, u, n)
        BY <2>2, LaidOutNext
    <2>4. n \in 0..K
        BY <1>1
    <2> QED
        BY <2>3, <2>4
<1>3. \A n \in 0..K : n \in S
    <2> HIDE DEF S
    <2> QED
        BY <1>1, <1>2, StepByStep
<1>4. ASSUME NEW n \in 1..K PROVE LaidOut(F, C, u, n)
    <2>1. n \in 0..K /\ n # 0
        BY <1>1
    <2> QED
        BY <1>3, <2>1
<1> QED
    BY <1>4

\* The parts begin one after the other.
LEMMA StartsIncrease ==
    ASSUME NEW T, NEW K, NEW F, NEW C, NEW u, Parts(T, K, F, C, u),
           NEW m \in 1..K, NEW n \in 1..K, m < n
    PROVE  Start(u, m) + Len(F[m]) < Start(u, n)
<1>1. K \in Nat /\ n - 1 \in 1..K /\ m \in 1..n - 1 /\ n # 1
    BY DEF Parts
<1>2. Start(u, m) \in Nat /\ Start(u, m) + Len(F[m]) <= Len(u[n - 1])
    BY <1>1, AllLaidOut DEF LaidOut
<1>3. Len(u[n - 1]) \in Nat /\ Start(u, n) = Len(u[n - 1]) + 1
    BY <1>1, PartWritten DEF Start
<1>4. Len(F[m]) \in Nat
    BY DEF Parts
<1> QED
    BY <1>2, <1>3, <1>4

-----------------------------------------------------------------------------
(* The WHERE clause is such a text.                                         *)

\* The filters of a configuration, one by one.
LEMMA FiltersOf ==
    ASSUME NEW filters \in Seq(Filter)
    PROVE  /\ Len(filters) \in Nat /\ DOMAIN filters = 1..Len(filters)
           /\ \A n \in 1..Len(filters) : filters[n] \in Filter
<1> DEFINE C == Filter
<1>1. filters \in Seq(C)
    OBVIOUS
<1> HIDE DEF C
<1>2. Len(filters) \in Nat /\ DOMAIN filters = 1..Len(filters) /\ \A n \in 1..Len(filters) : filters[n] \in C
    BY <1>1, LenProperties, ElementOfSeq
<1> QED
    BY <1>2 DEF C

\* The filters' tokens and connectors.
WrittenFilters(filters) == [n \in 1..Len(filters) |-> FilterTokens(filters[n])]
\* The connectors that the filters bring.
Connectors(filters) == [n \in 1..Len(filters) |-> Connector(filters[n].logic)]

\* The text of a filter is a sequence of tokens.
LEMMA TextTyped ==
    ASSUME NEW filters \in Seq(Filter), NEW n \in 1..Len(filters)
    PROVE  FilterText(filters, n) \in Seq(Token)
<1>1. filters[n] \in Filter /\ (n = 1 => filters[1] \in Filter)
    BY FiltersOf
<1>2. FilterTokens(filters[n]) \in Seq(Token) /\ Connector(filters[n].logic) \in Token
    BY <1>1, FilterWritten, FilterOf, ConnectorTyped
<1> DEFINE c == Connector(filters[n].logic)
           f == FilterTokens(filters[n])
           T == Token
<1>3. FilterText(filters, n) = IF n = 1 THEN f ELSE <<c>> \o f
    BY DEF FilterText
<1>4. c \in T /\ f \in Seq(T)
    BY <1>2
<1> HIDE DEF c, f, T
<1>5. <<c>> \in Seq(T)
    BY <1>4
<1>6. <<c>> \o f \in Seq(T)
    BY <1>4, <1>5, ConcatProperties
<1>7. FilterText(filters, n) \in Seq(T)
    BY <1>3, <1>4, <1>6
<1> QED
    BY <1>7 DEF T

\* The WHERE clause is put together filter by filter.
LEMMA WhereGrows ==
    ASSUME NEW filters \in Seq(Filter)
    PROVE  \E u : /\ u \in [0..Len(filters) -> Seq(Token)] /\ u[0] = <<>>
                  /\ \A n \in 1..Len(filters) : u[n] = u[n - 1] \o FilterText(filters, n)
                  /\ WhereClause(filters) = u[Len(filters)]
<1> DEFINE N == Len(filters)
           D == Seq(Token)
           step == [n \in 1..N |-> [d \in D |-> d \o FilterText(filters, n)]]
           P(x) == x = [n \in 0..Len(filters) |-> IF n = 0 THEN <<>>
                          ELSE x[n - 1] \o FilterText(filters, n)]
           h == CHOOSE x : P(x)
<1>1. N \in Nat
    BY FiltersOf
<1>2. ASSUME NEW n \in 1..N, NEW d \in D
      PROVE  d \o FilterText(filters, n) \in D
    BY TextTyped, ConcatProperties
<1>20. <<>> \in D
    BY EmptySeq
<1> HIDE DEF D
<1>3. step \in [1..N -> [D -> D]] /\ <<>> \in D
    BY <1>2, <1>20
<1>4. PICK g \in [0..N -> D] : g[0] = <<>> /\ \A k \in 1..N : g[k] = step[k][g[k - 1]]
    <2> DEFINE base == <<>>
    <2>1. N \in Nat /\ base \in D /\ step \in [1..N -> [D -> D]]
        BY <1>1, <1>3
    <2> HIDE DEF step, N, base
    <2>2. \E g : Built(g, N, D, base, step)
        BY <2>1, RecursionExists
    <2> QED
        BY <2>2 DEF Built, base
<1>5. \A k \in 1..N : g[k - 1] \in D
    BY <1>1, <1>4
<1>6. \A k \in 1..N : g[k] = g[k - 1] \o FilterText(filters, k)
    BY <1>4, <1>5
<1> HIDE DEF step
<1>7. P(g)
    <2>1. \A n \in 0..N : g[n] = IF n = 0 THEN <<>> ELSE g[n - 1] \o FilterText(filters, n)
        BY <1>1, <1>4, <1>6
    <2> QED
        BY <1>4, <2>1
<1>8. WhereClause(filters) = h[N]
    BY DEF WhereClause
<1> HIDE DEF P
<1>9. P(h)
    BY <1>7
<1>10. /\ h = [n \in 0..N |-> h[n]] /\ h[0] = <<>>
       /\ \A k \in 1..N : h[k] = h[k - 1] \o FilterText(filters, k)
    <2> HIDE DEF h
    <2>1. /\ h = [n \in 0..N |-> h[n]]
          /\ \A n \in 0..N : h[n] = IF n = 0 THEN <<>> ELSE h[n - 1] \o FilterText(filters, n)
        BY <1>9 DEF P
    <2>2. 0 \in 0..N /\ \A k \in 1..N : k \in 0..N /\ k # 0
        BY <1>1
    <2> QED
        BY <2>1, <2>2
<1> HIDE DEF h
<1> DEFINE S == {n \in 0..N : h[n] \in D}
<1>11. 0 \in S
    BY <1>1, <1>3, <1>10
<1>12. ASSUME NEW n \in 1..N, n - 1 \in S PROVE n \in S
    <2>1. h[n - 1] \in D /\ n \in 0..N
        BY <1>1, <1>12
    <2>2. h[n] \in D
        BY <1>2, <1>10, <2>1
    <2> QED
        BY <2>1, <2>2
<1>13. \A n \in 0..N : n \in S
    <2> HIDE DEF S, N
    <2> QED
        BY <1>1, <1>11, <1>12, StepByStep
<1>14. \A n \in 0..N : h[n] \in D
    BY <1>13
<1>15. h \in [0..N -> D]
    BY <1>10, <1>14
<1> QED
    BY <1>8, <1>10, <1>15 DEF D

\* The WHERE clause is laid out in parts.
LEMMA WhereInParts ==
    ASSUME NEW filters \in Seq(Filter)
    PROVE  \E u : /\ Parts(Token, Len(filters), WrittenFilters(filters), Connectors(filters), u)
                  /\ WhereClause(filters) = u[Len(filters)]
<1> DEFINE K == Len(filters)
           F == WrittenFilters(filters)
           C == Connectors(filters)
<1>1. PICK u : /\ u \in [0..K -> Seq(Token)] /\ u[0] = <<>>
               /\ \A n \in 1..K : u[n] = u[n - 1] \o FilterText(filters, n)
               /\ WhereClause(filters) = u[K]
    BY WhereGrows
<1>2. K \in Nat /\ \A n \in 1..K : filters[n] \in Filter
    BY FiltersOf
<1>3. ASSUME NEW n \in 1..K
      PROVE  /\ F[n] \in Seq(Token) /\ Len(F[n]) \in Nat \ {0} /\ C[n] \in Token
             /\ FilterText(filters, n) = IF n = 1 THEN F[1] ELSE <<C[n]>> \o F[n]
    <2>1. filters[n] \in Filter /\ F[n] = FilterTokens(filters[n]) /\ C[n] = Connector(filters[n].logic)
        BY <1>2 DEF WrittenFilters, Connectors
    <2>2. F[n] \in Seq(Token) /\ (Len(F[n]) = 1 \/ Len(F[n]) = 3)
        BY <2>1, FilterWritten DEF IsBetween
    <2>3. C[n] \in Token
        BY <2>1, FilterOf, ConnectorTyped
    <2>4. n = 1 => F[1] = FilterTokens(filters[1])
        BY <2>1
    <2>5. FilterText(filters, n) = IF n = 1 THEN F[1] ELSE <<C[n]>> \o F[n]
        <3> HIDE DEF F, C
        <3> QED
            BY <2>1, <2>4 DEF FilterText
    <2>6. Len(F[n]) \in Nat \ {0}
        <3> DEFINE l == Len(F[n])
        <3>1. l = 1 \/ l = 3
            BY <2>2
        <3> HIDE DEF l
        <3>2. l \in Nat \ {0}
            BY <3>1
        <3> QED
            BY <3>2 DEF l
    <2> QED
        BY <2>2, <2>3, <2>5, <2>6
<1>4. F \in [1..K -> Seq(Token)] /\ C \in [1..K -> Token]
    <2>1. F = [n \in 1..K |-> F[n]] /\ C = [n \in 1..K |-> C[n]]
        BY DEF WrittenFilters, Connectors
    <2> HIDE DEF F, C, K
    <2> QED
        BY <1>3, <2>1
<1>5. ASSUME NEW n \in 1..K PROVE u[n] = IF n = 1 THEN F[1] ELSE u[n - 1] \o (<<C[n]>> \o F[n])
    <2>1. CASE n = 1
        <3>1. u[n] = <<>> \o F[1] /\ F[1] \in Seq(Token)
            <4>1. u[n] = u[n - 1] \o FilterText(filters, n) /\ n - 1 = 0 /\ u[0] = <<>>
                BY <1>1, <2>1
            <4>2. FilterText(filters, n) = F[1] /\ F[1] \in Seq(Token)
                BY <1>3, <2>1
            <4> HIDE DEF F
            <4> QED
                BY <4>1, <4>2
        <3> DEFINE e == F[1]
        <3> HIDE DEF e
        <3>2. <<>> \o e = e
            BY <3>1, ConcatEmptySeq DEF e
        <3> QED
            BY <2>1, <3>1, <3>2 DEF e
    <2>2. CASE n # 1
        BY <1>1, <1>3, <2>2
    <2> QED
        BY <2>1, <2>2
<1> QED
    BY <1>1, <1>2, <1>3, <1>4, <1>5 DEF Parts

\* What is written of two lists of filters is the same if each is.
LEMMA SameText ==
    ASSUME NEW f \in Seq(Filter), NEW g \in Seq(Filter), Len(f) = Len(g),
           \A n \in 1..Len(f) : FilterText(f, n) = FilterText(g, n)
    PROVE  WhereClause(f) = WhereClause(g)
<1> DEFINE N == Len(f)
<1>1. N \in Nat
    BY FiltersOf
<1>2. PICK u : /\ u[0] = <<>> /\ \A n \in 1..N : u[n] = u[n - 1] \o FilterText(f, n)
               /\ WhereClause(f) = u[N]
    BY WhereGrows
<1>3. PICK v : /\ v[0] = <<>> /\ \A n \in 1..N : v[n] = v[n - 1] \o FilterText(g, n)
               /\ WhereClause(g) = v[N]
    BY WhereGrows
<1> DEFINE S == {n \in 0..N : u[n] = v[n]}
<1> HIDE DEF N
<1>4. 0 \in S
    BY <1>1, <1>2, <1>3
<1>5. ASSUME NEW n \in 1..N, n - 1 \in S PROVE n \in S
    <2>1. n \in 0..N /\ u[n - 1] = v[n - 1]
        BY <1>1, <1>5
    <2>2. FilterText(f, n) = FilterText(g, n)
        BY DEF N
    <2> QED
        BY <1>2, <1>3, <2>1, <2>2
<1>6. \A n \in 0..N : n \in S
    <2> HIDE DEF S
    <2> QED
        BY <1>1, <1>4, <1>5, StepByStep
<1>7. N \in 0..N
    BY <1>1
<1>8. u[N] = v[N]
    BY <1>6, <1>7
<1> QED
    BY <1>2, <1>3, <1>8

\* Parts as filters are written: one condition, or BETWEEN.
OfFilters(K, F, C) ==
    \A n \in 1..K :
        /\ F[n][1].token = "condition"
        /\ (Len(F[n]) = 1 /\ F[n][1].op # "BETWEEN") \/ IsBetween(F[n])
        /\ IsConnector(C[n]) /\ C[n].op = None

\* Each place of the text is a connector between two parts, or within a part.
LEMMA Position ==
    ASSUME NEW T, NEW K, NEW F, NEW C, NEW u, Parts(T, K, F, C, u), NEW i \in 1..Len(u[K])
    PROVE  \E m \in 1..K :
              \/ m # 1 /\ i = Start(u, m) /\ u[K][i] = C[m]
              \/ \E k \in 1..Len(F[m]) : i = Start(u, m) + k /\ u[K][i] = F[m][k]
<1>1. K \in Nat /\ K # 0
    <2>1. K \in Nat /\ (K = 0 => u[K] = <<>>)
        BY DEF Parts
    <2>2. K # 0
        <3> SUFFICES ASSUME K = 0 PROVE FALSE
            OBVIOUS
        <3>1. Len(u[K]) = 0
            BY <2>1
        <3> QED
            BY <3>1
    <2> QED
        BY <2>1, <2>2
<1>2. K \in 1..K
    BY <1>1
<1>3. LaidOut(F, C, u, K)
    BY <1>2, AllLaidOut
<1>4. PICK m \in 1..K : (m # 1 /\ i = Start(u, m)) \/ \E k \in 1..Len(F[m]) : i = Start(u, m) + k
    BY <1>3 DEF LaidOut
<1>5. /\ \A k \in 1..Len(F[m]) : u[K][Start(u, m) + k] = F[m][k]
      /\ m # 1 => u[K][Start(u, m)] = C[m]
    BY <1>3 DEF LaidOut
<1> QED
    BY <1>4, <1>5

\* None is not the operator BETWEEN.
LEMMA NoneIsNoWord == None # "BETWEEN"
BY BuilderAssumption, WordsAreStrings

\* Within a part, only the AND of a BETWEEN looks like a connector.
LEMMA KindOfToken ==
    ASSUME NEW K, NEW F, NEW C, OfFilters(K, F, C), NEW m \in 1..K, NEW k \in 1..Len(F[m])
    PROVE  \/ k = 1 /\ F[m][k].token = "condition"
           \/ IsBetween(F[m]) /\ k = 2 /\ F[m][k].token = "AND" /\ F[m][k].op = None
           \/ IsBetween(F[m]) /\ k = 3 /\ F[m][k].token = "literal" /\ F[m][k].op = None
<1>1. F[m][1].token = "condition" /\ (Len(F[m]) = 1 \/ IsBetween(F[m]))
    BY DEF OfFilters
<1>2. CASE Len(F[m]) = 1
    <2>1. k = 1
        BY <1>2
    <2> QED
        BY <1>1, <2>1
<1>3. CASE IsBetween(F[m])
    <2>1. Len(F[m]) = 3
        BY <1>3 DEF IsBetween
    <2>2. k = 1 \/ k = 2 \/ k = 3
        BY <2>1
    <2>3. /\ F[m][2] = Connector("AND") /\ F[m][3].token = "literal" /\ F[m][3].op = None
        BY <1>3 DEF IsBetween
    <2>4. F[m][2].token = "AND" /\ F[m][2].op = None
        BY <2>3 DEF Connector
    <2> QED
        BY <1>1, <1>3, <2>2, <2>3, <2>4
<1> QED
    BY <1>1, <1>2, <1>3

\* The place of a part, and of what is in it.
LEMMA PartAt ==
    ASSUME NEW T, NEW K, NEW F, NEW C, NEW u, Parts(T, K, F, C, u), NEW n \in 1..K
    PROVE  /\ Start(u, n) \in Nat /\ Len(u[K]) \in Nat /\ Len(F[n]) \in Nat \ {0} /\ u[K] \in Seq(T)
           /\ Start(u, n) + Len(F[n]) <= Len(u[K])
           /\ \A k \in 1..Len(F[n]) : u[K][Start(u, n) + k] = F[n][k]
           /\ n # 1 => u[K][Start(u, n)] = C[n] /\ Start(u, n) # 0
<1>1. K \in Nat /\ Len(F[n]) \in Nat \ {0}
    <2>1. K \in Nat /\ \A m \in 1..K : Len(F[m]) \in Nat \ {0}
        BY DEF Parts
    <2> QED
        BY <2>1
<1>2. K \in 1..K /\ K \in 0..K
    BY <1>1
<1>3. LaidOut(F, C, u, K)
    BY <1>2, AllLaidOut
<1>4. Len(u[K]) \in Nat
    BY <1>2, PartWritten
<1>5. u[K] \in Seq(T)
    <2>1. u \in [0..K -> Seq(T)]
        BY DEF Parts
    <2> QED
        BY <1>2, <2>1
<1>6. n # 1 => Start(u, n) # 0
    <2> SUFFICES ASSUME n # 1 PROVE Start(u, n) # 0
        OBVIOUS
    <2>1. Start(u, n) = Len(u[n - 1]) + 1 /\ n - 1 \in 1..K
        BY PartWritten
    <2>2. Len(u[n - 1]) \in Nat
        BY <2>1, PartWritten
    <2> QED
        BY <2>1, <2>2
<1> QED
    BY <1>1, <1>3, <1>4, <1>5, <1>6 DEF LaidOut

\* The connectors between the parts separate conditions: a BETWEEN before them has
\* its own AND in between.
LEMMA StartSeparates ==
    ASSUME NEW K, NEW F, NEW C, NEW u, Parts(Token, K, F, C, u), OfFilters(K, F, C),
           NEW n \in 1..K, n # 1
    PROVE  Separates(u[K], Start(u, n)) /\ Start(u, n) \in 1..Len(u[K])
<1> DEFINE ts == u[K]
           p == Start(u, n)
           L == Len(ts)
<1>1. /\ p \in Nat \ {0} /\ L \in Nat /\ p <= L /\ ts[p] = C[n] /\ K \in Nat
    <2>1. /\ p \in Nat /\ L \in Nat /\ Len(F[n]) \in Nat /\ p + Len(F[n]) <= L /\ ts[p] = C[n] /\ p # 0
        BY PartAt
    <2>2. K \in Nat
        BY DEF Parts
    <2> DEFINE b == Len(F[n])
    <2> HIDE DEF b, p, L
    <2> QED
        BY <2>1, <2>2 DEF b
<1>2. IsConnector(ts[p])
    BY <1>1 DEF OfFilters
<1>3. ASSUME NEW i \in 1..p - 1, ts[i].op = "BETWEEN", \A k \in i..p - 1 : ts[k].token # "AND"
      PROVE  FALSE
    <2>1. i \in 1..L
        <3> HIDE DEF p, L
        <3> QED
            BY <1>1
    <2>2. PICK m \in 1..K :
              \/ m # 1 /\ i = Start(u, m) /\ ts[i] = C[m]
              \/ \E k \in 1..Len(F[m]) : i = Start(u, m) + k /\ ts[i] = F[m][k]
        BY <2>1, Position
    <2>3. CASE m # 1 /\ i = Start(u, m) /\ ts[i] = C[m]
        BY <1>3, <2>3, NoneIsNoWord DEF OfFilters
    <2>4. ASSUME NEW k \in 1..Len(F[m]), i = Start(u, m) + k, ts[i] = F[m][k] PROVE FALSE
        <3>1. k = 1 /\ IsBetween(F[m])
            <4>1. k = 1
                BY <1>3, <2>4, KindOfToken, NoneIsNoWord
            <4> QED
                BY <1>3, <2>4, <4>1 DEF OfFilters
        <3>2. /\ Start(u, m) \in Nat /\ ts[Start(u, m) + 2] = F[m][2] /\ Len(F[m]) = 3
            <4>1. Len(F[m]) = 3
                BY <3>1 DEF IsBetween
            <4>2. 2 \in 1..Len(F[m])
                BY <4>1
            <4> QED
                BY <4>1, <4>2, PartAt
        <3>3. F[m][2].token = "AND"
            BY <3>1 DEF IsBetween, Connector
        <3>4. m < n
            <4>1. n = m => FALSE
                BY <1>1, <2>4, <3>1, <3>2
            <4>2. n < m => Start(u, n) + Len(F[n]) < Start(u, m)
                BY StartsIncrease
            <4>3. Len(F[n]) \in Nat
                BY PartAt
            <4>4. n < m => FALSE
                <5> DEFINE b == Len(F[n])
                           r == Start(u, m)
                <5>1. b \in Nat /\ r \in Nat /\ i = r + 1 /\ (n < m => p + b < r)
                    BY <2>4, <3>1, <3>2, <4>2, <4>3
                <5> HIDE DEF b, r, p
                <5> QED
                    BY <1>1, <5>1
            <4> QED
                BY <1>1, <4>1, <4>4
        <3>5. Start(u, m) + 3 < p
            <4>1. Start(u, m) + Len(F[m]) < p
                BY <3>4, StartsIncrease
            <4> QED
                BY <3>2, <4>1
        <3>6. i + 1 \in i..p - 1 /\ i + 1 = Start(u, m) + 2
            <4> DEFINE r == Start(u, m)
            <4>1. r \in Nat /\ i = r + 1 /\ r + 3 < p
                BY <2>4, <3>1, <3>2, <3>5
            <4> HIDE DEF r, p
            <4>2. i + 1 \in i..p - 1 /\ i + 1 = r + 2
                BY <1>1, <4>1
            <4> QED
                BY <4>2 DEF r
        <3>7. ts[i + 1].token = "AND"
            BY <3>2, <3>3, <3>6
        <3> QED
            BY <1>3, <3>6, <3>7
    <2> QED
        BY <2>2, <2>3, <2>4
<1> HIDE DEF p, ts, L
<1>4. Separates(ts, p)
    BY <1>2, <1>3 DEF Separates
<1>5. p \in 1..L
    BY <1>1
<1> QED
    BY <1>4, <1>5 DEF p, ts, L

\* Nothing else does: the AND of a BETWEEN is protected by it.
LEMMA OthersDoNot ==
    ASSUME NEW K, NEW F, NEW C, NEW u, Parts(Token, K, F, C, u), OfFilters(K, F, C),
           NEW p \in 1..Len(u[K]), \A n \in 1..K : n # 1 => p # Start(u, n)
    PROVE  ~Separates(u[K], p)
<1> DEFINE ts == u[K]
           L == Len(ts)
<1>1. PICK m \in 1..K : \E k \in 1..Len(F[m]) : p = Start(u, m) + k /\ ts[p] = F[m][k]
    BY Position
<1>2. PICK k \in 1..Len(F[m]) : p = Start(u, m) + k /\ ts[p] = F[m][k]
    BY <1>1
<1>3. CASE F[m][k].token \in {"condition", "literal"}
    BY <1>2, <1>3 DEF Separates, IsConnector
<1>4. CASE IsBetween(F[m]) /\ k = 2 /\ F[m][k].token = "AND"
    <2>1. Start(u, m) \in Nat /\ ts[Start(u, m) + 1] = F[m][1] /\ L \in Nat
        <3>1. 1 \in 1..Len(F[m])
            BY <1>4 DEF IsBetween
        <3> QED
            BY <3>1, PartAt
    <2>2. p - 1 = Start(u, m) + 1 /\ p - 1 \in 1..p - 1 /\ p \in p..L
        <3> HIDE DEF L
        <3>1. p = Start(u, m) + 2 /\ p \in 1..L
            BY <1>2, <1>4 DEF L
        <3> QED
            BY <2>1, <3>1
    <2>3. ts[p - 1].op = "BETWEEN" /\ ts[p - 1].token = "condition" /\ ts[p].token = "AND"
        BY <1>2, <1>4, <2>1, <2>2 DEF IsBetween, OfFilters
    <2>4. \A i \in p - 1..p - 1 : ts[i].token # "AND"
        <3>1. \A i \in p - 1..p - 1 : i = p - 1
            OBVIOUS
        <3> QED
            BY <2>3, <3>1
    <2> DEFINE q == p - 1
    <2>5. q \in 1..p - 1 /\ ts[q].op = "BETWEEN" /\ p \in p..Len(ts) /\ \A i \in q..p - 1 : ts[i].token # "AND"
        BY <2>2, <2>3, <2>4
    <2> HIDE DEF q, ts
    <2> QED
        BY <2>3, <2>5 DEF Separates, ts
<1> QED
    BY <1>3, <1>4, KindOfToken

\* A separator begins a part, and each part but the first is begun by one.
LEMMA Separators ==
    ASSUME NEW K, NEW F, NEW C, NEW u, Parts(Token, K, F, C, u), OfFilters(K, F, C),
           NEW p \in 1..Len(u[K])
    PROVE  Separates(u[K], p) <=> \E n \in 1..K : n # 1 /\ p = Start(u, n)
<1>1. ASSUME NEW n \in 1..K, n # 1, p = Start(u, n) PROVE Separates(u[K], p)
    BY <1>1, StartSeparates
<1>2. ASSUME \A n \in 1..K : n # 1 => p # Start(u, n) PROVE ~Separates(u[K], p)
    BY <1>2, OthersDoNot
<1> QED
    BY <1>1, <1>2

-----------------------------------------------------------------------------
(* Its parts are found again.                                               *)

\* Where a run ends.
IsEnd(ts, p, q) ==
    /\ q \in p + 1..Len(ts) + 1
    /\ q = Len(ts) + 1 \/ Separates(ts, q)
    /\ \A r \in p + 1..q - 1 : ~Separates(ts, r)

\* A run ends at the next connector that separates, or at the end of the text.
LEMMA RunEnds ==
    ASSUME NEW ts, Len(ts) \in Nat, NEW p \in 0..Len(ts)
    PROVE  \E q : IsEnd(ts, p, q) /\ Run(ts, p) = SubSeq(ts, p + 1, q - 1)
<1> DEFINE T == {q \in p + 1..Len(ts) + 1 : q = Len(ts) + 1 \/ Separates(ts, q)}
           R(q) == /\ q = Len(ts) + 1 \/ Separates(ts, q)
                   /\ \A r \in p + 1..q - 1 : ~Separates(ts, r)
           e == CHOOSE q \in p + 1..Len(ts) + 1 : R(q)
<1>1. Len(ts) + 1 \in T /\ T \in SUBSET Nat
    OBVIOUS
<1>2. PICK m \in T : \A k \in T : m <= k
    <2> HIDE DEF T
    <2> QED
        BY <1>1, LeastNumber
<1>3. m \in p + 1..Len(ts) + 1 /\ R(m)
    <2>1. m \in p + 1..Len(ts) + 1 /\ (m = Len(ts) + 1 \/ Separates(ts, m))
        BY <1>2
    <2>2. ASSUME NEW r \in p + 1..m - 1, Separates(ts, r) PROVE FALSE
        <3>1. r \in p + 1..Len(ts) + 1 /\ ~(m <= r)
            BY <2>1
        <3>2. r \in T
            BY <2>2, <3>1
        <3> QED
            BY <1>2, <3>1, <3>2
    <2> QED
        BY <2>1, <2>2
<1>4. Run(ts, p) = SubSeq(ts, p + 1, e - 1)
    BY DEF Run
<1> HIDE DEF R
<1>5. e \in p + 1..Len(ts) + 1 /\ R(e)
    BY <1>3
<1> HIDE DEF e
<1>6. IsEnd(ts, p, e)
    BY <1>5 DEF IsEnd, R
<1> QED
    BY <1>4, <1>6

\* So the run from the start of a part is that part.
LEMMA RunOfPart ==
    ASSUME NEW K, NEW F, NEW C, NEW u, Parts(Token, K, F, C, u), OfFilters(K, F, C),
           NEW n \in 1..K
    PROVE  Run(u[K], Start(u, n)) = F[n]
<1> DEFINE ts == u[K]
           L == Len(ts)
           p == Start(u, n)
           b == Len(F[n])
           e == p + b + 1
<1>1. /\ p \in Nat /\ L \in Nat /\ b \in Nat \ {0} /\ ts \in Seq(Token) /\ p + b <= L
      /\ \A k \in 1..b : ts[p + k] = F[n][k]
    BY PartAt
<1>2. K \in Nat /\ F[n] \in Seq(Token)
    <2>1. K \in Nat /\ F \in [1..K -> Seq(Token)]
        BY DEF Parts
    <2> QED
        BY <2>1
<1>3. p \in 0..L
    <2> HIDE DEF p, L, b
    <2> QED
        BY <1>1
<1>4. PICK q : IsEnd(ts, p, q) /\ Run(ts, p) = SubSeq(ts, p + 1, q - 1)
    BY <1>1, <1>3, RunEnds
\* The part ends where the next begins, or with the text.
<1>5. e = L + 1 \/ (e \in 1..L /\ Separates(ts, e))
    <2>1. CASE n = K
        <3>1. L = Start(u, n) + Len(F[n])
            BY <2>1, PartWritten
        <3> HIDE DEF L, p, b
        <3>2. L = p + b
            BY <3>1 DEF p, b
        <3> QED
            BY <3>2
    <2>2. CASE n # K
        <3>1. n + 1 \in 1..K /\ n + 1 # 1 /\ n + 1 - 1 = n
            BY <1>2, <2>2
        <3>2. Start(u, n + 1) = Len(u[n]) + 1
            BY <3>1 DEF Start
        <3>3. Len(u[n]) = Start(u, n) + Len(F[n])
            BY PartWritten
        <3>4. e = Start(u, n + 1)
            BY <3>2, <3>3
        <3>5. Separates(u[K], Start(u, n + 1)) /\ Start(u, n + 1) \in 1..Len(u[K])
            BY <3>1, StartSeparates
        <3> HIDE DEF e
        <3> QED
            BY <3>4, <3>5
    <2> QED
        BY <2>1, <2>2
<1>6. ASSUME NEW r \in p + 1..e - 1 PROVE ~Separates(ts, r)
    <2> SUFFICES ASSUME Separates(ts, r) PROVE FALSE
        OBVIOUS
    <2>1. r \in 1..L /\ p < r /\ r <= p + b
        <3> HIDE DEF p, b, L
        <3> QED
            BY <1>1
    <2>2. PICK m \in 1..K : m # 1 /\ r = Start(u, m)
        BY <2>1, Separators
    <2>3. m < n => Start(u, m) + Len(F[m]) < p
        BY StartsIncrease
    <2>4. n < m => p + b < Start(u, m)
        BY StartsIncrease
    <2>5. Len(F[m]) \in Nat
        BY PartAt
    <2> DEFINE c == Len(F[m])
    <2>6. c \in Nat /\ (m < n => r + c < p) /\ (n < m => p + b < r) /\ (m = n => r = p) /\ m \in Nat /\ n \in Nat
        BY <1>2, <2>2, <2>3, <2>4, <2>5
    <2> HIDE DEF c, p, b
    <2> QED
        BY <1>1, <2>1, <2>6
<1>7. q = e
    <2>1. /\ q \in p + 1..L + 1 /\ (q = L + 1 \/ Separates(ts, q))
          /\ \A r \in p + 1..q - 1 : ~Separates(ts, r)
        BY <1>4 DEF IsEnd
    <2> HIDE DEF p, L, b, ts
    <2>2. e \in p + 1..L + 1
        BY <1>1
    <2>3. q < e => FALSE
        <3>1. q < e => q \in p + 1..e - 1 /\ q # L + 1
            BY <1>1, <2>1, <2>2
        <3> QED
            BY <1>6, <2>1, <3>1
    <2>4. e < q => FALSE
        <3>1. e < q => e \in p + 1..q - 1 /\ e # L + 1
            BY <1>1, <2>1, <2>2
        <3> QED
            BY <1>5, <2>1, <3>1
    <2>5. q \in Int /\ e \in Int
        BY <1>1, <2>1
    <2> QED
        BY <2>3, <2>4, <2>5
<1>8. SubSeq(ts, p + 1, q - 1) = F[n]
    <2> DEFINE f == F[n]
               s == SubSeq(ts, p + 1, p + b)
    <2>1. q - 1 = p + b /\ p + 1 \in Int /\ p + b \in Int /\ p + b - (p + 1) + 1 = b
        <3> HIDE DEF p, b
        <3> QED
            BY <1>1, <1>7
    <2>2. \A i \in p + 1..p + b : ts[i] \in Token
        <3> SUFFICES ASSUME NEW i \in p + 1..p + b PROVE ts[i] \in Token
            OBVIOUS
        <3>1. i \in 1..L
            <4> HIDE DEF p, b, L
            <4> QED
                BY <1>1
        <3> QED
            <4> DEFINE T == Token
            <4>1. ts \in Seq(T) /\ i \in 1..Len(ts)
                BY <1>1, <3>1
            <4> HIDE DEF T, ts
            <4> QED
                BY <4>1, ElementOfSeq DEF T
    <2>3. /\ s \in Seq(Token) /\ Len(s) = (IF p + 1 <= p + b THEN b ELSE 0)
          /\ \A i \in 1..b : s[i] = ts[p + 1 + i - 1]
        <3> DEFINE lo == p + 1
                   hi == p + b
                   T == Token
        <3>1. lo \in Int /\ hi \in Int /\ \A i \in lo..hi : ts[i] \in T
            BY <2>1, <2>2
        <3>2. hi - lo + 1 = b
            <4> HIDE DEF p, b, L
            <4> QED
                BY <1>1
        <3> HIDE DEF lo, hi, T, ts
        <3>3. /\ SubSeq(ts, lo, hi) \in Seq(T)
              /\ Len(SubSeq(ts, lo, hi)) = IF lo <= hi THEN hi - lo + 1 ELSE 0
              /\ \A i \in 1..hi - lo + 1 : SubSeq(ts, lo, hi)[i] = ts[lo + i - 1]
            BY <3>1, SubSeqProperties
        <3> HIDE DEF b
        <3>4. /\ SubSeq(ts, lo, hi) \in Seq(T)
              /\ Len(SubSeq(ts, lo, hi)) = IF lo <= hi THEN b ELSE 0
              /\ \A i \in 1..b : SubSeq(ts, lo, hi)[i] = ts[lo + i - 1]
            BY <3>2, <3>3
        <3> QED
            BY <3>4 DEF lo, hi, T
    <2>4. Len(s) = b
        <3>1. p + 1 <= p + b
            <4> HIDE DEF p, b
            <4> QED
                BY <1>1
        <3> QED
            BY <2>3, <3>1
    <2>5. \A i \in 1..b : s[i] = f[i]
        <3> SUFFICES ASSUME NEW i \in 1..b PROVE s[i] = f[i]
            OBVIOUS
        <3>1. p + 1 + i - 1 = p + i
            <4> HIDE DEF p, b
            <4> QED
                BY <1>1
        <3> QED
            BY <1>1, <2>3, <3>1
    <2> HIDE DEF s
    <2>6. f \in Seq(Token) /\ Len(f) = b
        BY <1>2
    <2> HIDE DEF f, b
    <2>7. s = f
        BY <2>3, <2>4, <2>5, <2>6, SeqEqual
    <2> QED
        BY <2>1, <2>7 DEF s, f, b
<1> QED
    BY <1>4, <1>8

\* The tokens of a text, one by one.
LEMMA TokensOf ==
    ASSUME NEW s \in Seq(Token)
    PROVE  Len(s) \in Nat /\ \A n \in 1..Len(s) : s[n] \in Token
<1> DEFINE C == Token
<1>1. s \in Seq(C)
    OBVIOUS
<1> HIDE DEF C
<1>2. Len(s) \in Nat /\ \A n \in 1..Len(s) : s[n] \in C
    BY <1>1, LenProperties, ElementOfSeq
<1> QED
    BY <1>2 DEF C

\* A run is a sequence of tokens.
LEMMA RunTyped ==
    ASSUME NEW ts \in Seq(Token), NEW p \in 0..Len(ts)
    PROVE  Run(ts, p) \in Seq(Token)
<1>1. Len(ts) \in Nat /\ \A n \in 1..Len(ts) : ts[n] \in Token
    BY TokensOf
<1>2. PICK q : IsEnd(ts, p, q) /\ Run(ts, p) = SubSeq(ts, p + 1, q - 1)
    BY <1>1, RunEnds
<1> DEFINE T == Token
           lo == p + 1
           hi == q - 1
<1>3. q \in p + 1..Len(ts) + 1
    BY <1>2 DEF IsEnd
<1>4. lo \in Int /\ hi \in Int /\ \A i \in lo..hi : ts[i] \in T
    <2>1. lo \in Int /\ hi \in Int /\ \A i \in lo..hi : i \in 1..Len(ts)
        BY <1>1, <1>3
    <2> QED
        BY <1>1, <2>1
<1> HIDE DEF T, lo, hi
<1>5. SubSeq(ts, lo, hi) \in Seq(T)
    BY <1>4, SubSeqProperties
<1> QED
    BY <1>2, <1>5 DEF T, lo, hi

\* A sequence of two elements is not empty.
LEMMA TwoLong ==
    ASSUME NEW s, Len(s) = 2
    PROVE  s # <<>>
<1> SUFFICES ASSUME s = <<>> PROVE FALSE
    OBVIOUS
<1>1. Len(s) = Len(<<>>)
    OBVIOUS
<1>2. Len(<<>>) = 0
    OBVIOUS
<1>3. Len(s) = 0
    BY <1>1, <1>2, Zenon
<1> QED
    BY <1>3

\* A condition that fits a pattern is read as a filter, whatever stands in it.
LEMMA ConditionRead ==
    ASSUME NEW run \in Seq(Token), Fits(run), NEW logic \in {"AND", "OR"}
    PROVE  ParseCondition(run, logic) \in Filter
<1> DEFINE t == run[1]
           l == LastOf(run)
           g == ParseCondition(run, logic)
<1>1. Len(run) \in Nat \ {0}
    <2>1. Len(run) \in Nat /\ run # <<>>
        BY TokensOf DEF Fits
    <2> DEFINE T == Token
    <2>2. run \in Seq(T)
        OBVIOUS
    <2> HIDE DEF T
    <2> QED
        BY <2>1, <2>2
<1>2. t \in Token /\ l \in Token
    <2>1. 1 \in 1..Len(run) /\ Len(run) \in 1..Len(run)
        BY <1>1
    <2> QED
        BY <2>1, TokensOf DEF LastOf
<1>3. Len(t.field) = 2
    BY DEF Fits
<1> HIDE DEF t, l
<1>4. t.field \in Name /\ t.op \in STRING \cup {None} /\ t.args \in Name /\ l.args \in Name
    BY <1>2 DEF Token
<1>5. t.field \in QualifiedName
    <2>1. t.field # <<>>
        BY <1>3, TwoLong
    <2> QED
        BY <1>4, <2>1 DEF QualifiedName, Name
<1>6. "BETWEEN" \in STRING /\ "IN" \in STRING /\ <<"garbled">> \in Name
    <2>1. "garbled" \in STRING /\ "BETWEEN" \in STRING /\ "IN" \in STRING
        BY WordsAreStrings
    <2> QED
        BY <2>1 DEF Name
<1> DEFINE first == IF Len(run) = 3 THEN t.args ELSE <<"garbled">>
<1>7. first \o l.args \in Name
    <2>1. first \in Name
        BY <1>4, <1>6
    <2> HIDE DEF first
    <2> QED
        BY <1>4, <2>1, ConcatNames
<1>8. /\ t.op = "BETWEEN" => g = [field |-> t.field, op |-> "BETWEEN", list |-> TRUE,
                                  value |-> first \o l.args, logic |-> logic]
      /\ t.op = "IN list" => g = [field |-> t.field, op |-> "IN", list |-> TRUE,
                                  value |-> t.args, logic |-> logic]
      /\ t.op \notin {"BETWEEN", "IN list"} =>
            g = [field |-> t.field, op |-> t.op, list |-> FALSE, value |-> t.args, logic |-> logic]
    BY DEF ParseCondition, t, l
<1> DEFINE v == first \o l.args
<1> HIDE DEF g, v
<1>9. v \in Seq(STRING) /\ t.args \in Seq(STRING)
    BY <1>4, <1>7 DEF v, Name
<1>10. CASE t.op = "BETWEEN"
    <2>1. g = [field |-> t.field, op |-> "BETWEEN", list |-> TRUE, value |-> v, logic |-> logic]
        BY <1>8, <1>10 DEF v
    <2> QED
        BY <1>5, <1>6, <1>9, <2>1 DEF Filter, g
<1>11. CASE t.op = "IN list"
    <2>1. g = [field |-> t.field, op |-> "IN", list |-> TRUE, value |-> t.args, logic |-> logic]
        BY <1>8, <1>11
    <2> QED
        BY <1>5, <1>6, <1>9, <2>1 DEF Filter, g
<1>12. CASE t.op \notin {"BETWEEN", "IN list"}
    <2>1. g = [field |-> t.field, op |-> t.op, list |-> FALSE, value |-> t.args, logic |-> logic]
        BY <1>8, <1>12
    <2> QED
        BY <1>4, <1>5, <1>9, <2>1 DEF Filter, g
<1> QED
    BY <1>10, <1>11, <1>12

\* The places the conditions that are kept begin at.
KeptStarts(ts) == {p \in {0} \cup {p \in DOMAIN ts : Separates(ts, p)} : Fits(Run(ts, p))}

\* The conditions that fit are kept in the order of the text.
LEMMA KeptInOrder ==
    ASSUME NEW ts \in Seq(Token)
    PROVE  LET kept == InOrder(KeptStarts(ts))
           IN  /\ Cardinality(KeptStarts(ts)) \in Nat
               /\ kept \in [1..Cardinality(KeptStarts(ts)) -> KeptStarts(ts)]
               /\ KeptStarts(ts) \subseteq 0..Len(ts)
               /\ ParseWhere(ts) = [n \in 1..Cardinality(KeptStarts(ts)) |->
                    ParseCondition(Run(ts, kept[n]), IF kept[n] = 0 THEN "AND" ELSE ts[kept[n]].token)]
<1> DEFINE S == KeptStarts(ts)
           I == 0..Len(ts)
<1>1. DOMAIN ts = 1..Len(ts) /\ Len(ts) \in Nat
    <2> DEFINE T == Token
    <2>1. ts \in Seq(T)
        OBVIOUS
    <2> HIDE DEF T
    <2> QED
        BY <2>1, LenProperties
<1>2. S \in SUBSET I /\ I \in SUBSET Nat
    <2>1. {0} \cup DOMAIN ts \subseteq I
        BY <1>1
    <2>2. S \subseteq {0} \cup DOMAIN ts
        BY DEF KeptStarts
    <2> QED
        BY <1>1, <2>1, <2>2
<1>3. IsFiniteSet(I)
    BY <1>1, FS_Interval
<1> HIDE DEF I
<1>4. IsFiniteSet(S) /\ S \in SUBSET Nat
    BY <1>2, <1>3, FS_Subset
<1>5. Cardinality(S) \in Nat /\ InOrder(S) \in [1..Cardinality(S) -> S]
    <2> HIDE DEF S
    <2> QED
        BY <1>4, InOrderEnumerates
<1>6. DOMAIN InOrder(S) = 1..Cardinality(S)
    BY <1>5
<1>7. ParseWhere(ts) = [n \in DOMAIN InOrder(S) |->
           ParseCondition(Run(ts, InOrder(S)[n]),
                          IF InOrder(S)[n] = 0 THEN "AND" ELSE ts[InOrder(S)[n]].token)]
    BY DEF ParseWhere, KeptStarts
<1> QED
    BY <1>2, <1>5, <1>6, <1>7 DEF I

\* What is read from any WHERE clause is a sequence of filters.
LEMMA WhereTyped ==
    ASSUME NEW ts \in Seq(Token)
    PROVE  ParseWhere(ts) \in Seq(Filter)
<1> DEFINE S == KeptStarts(ts)
           kept == InOrder(S)
           N == Cardinality(S)
           g(n) == ParseCondition(Run(ts, kept[n]), IF kept[n] = 0 THEN "AND" ELSE ts[kept[n]].token)
<1>1. N \in Nat /\ kept \in [1..N -> S] /\ S \subseteq 0..Len(ts) /\ ParseWhere(ts) = [n \in 1..N |-> g(n)]
    BY KeptInOrder
<1>2. ASSUME NEW n \in 1..N PROVE g(n) \in Filter
    <2> DEFINE p == kept[n]
               logic == IF p = 0 THEN "AND" ELSE ts[p].token
    <2>1. p \in S /\ p \in 0..Len(ts)
        <3>1. p \in S
            BY <1>1
        <3> QED
            BY <1>1, <3>1
    <2>2. Fits(Run(ts, p)) /\ (p # 0 => Separates(ts, p))
        BY <2>1 DEF KeptStarts
    <2>3. logic \in {"AND", "OR"}
        BY <2>2 DEF Separates, IsConnector
    <2>4. Run(ts, p) \in Seq(Token)
        BY <2>1, RunTyped
    <2> HIDE DEF p, logic
    <2>5. ParseCondition(Run(ts, p), logic) \in Filter
        BY <2>2, <2>3, <2>4, ConditionRead
    <2> QED
        BY <2>5 DEF p, logic
<1> DEFINE w == [n \in 1..N |-> g(n)]
           T == Filter
<1>3. \A n \in 1..N : g(n) \in T
    BY <1>2
<1> HIDE DEF g, T, N
<1>4. w \in [1..N -> T]
    BY <1>3
<1> HIDE DEF w
<1>5. w \in Seq(T)
    BY <1>1, <1>4, SeqDef
<1> QED
    BY <1>1, <1>5 DEF w, T, N, g

\* What is written is a sequence of tokens.
LEMMA WhereClauseTyped ==
    ASSUME NEW filters \in Seq(Filter)
    PROVE  WhereClause(filters) \in Seq(Token)
<1>1. PICK u : /\ u \in [0..Len(filters) -> Seq(Token)] /\ WhereClause(filters) = u[Len(filters)]
    BY WhereGrows
<1>2. Len(filters) \in 0..Len(filters)
    BY FiltersOf
<1> QED
    BY <1>1, <1>2

\* No filter: nothing is read.
LEMMA NothingRead ==
    ParseWhere(<<>>) = <<>>
<1> DEFINE e == <<>>
<1>1. e \in Seq(Token) /\ Len(e) = 0
    BY EmptySeq
<1>2. Run(e, 0) = <<>>
    <2>1. Len(e) \in Nat /\ 0 \in 0..Len(e)
        BY <1>1
    <2> HIDE DEF e
    <2>2. PICK q : IsEnd(e, 0, q) /\ Run(e, 0) = SubSeq(e, 0 + 1, q - 1)
        BY <2>1, RunEnds
    <2>3. q \in 1..1
        BY <1>1, <2>2 DEF IsEnd
    <2>4. q - 1 = 0 /\ 0 + 1 = 1
        BY <2>3
    <2>5. SubSeq(e, 1, 0) = <<>>
        BY SubSeqEmpty
    <2> QED
        BY <2>2, <2>4, <2>5
<1> HIDE DEF e
<1>3. KeptStarts(e) = {}
    <2>1. KeptStarts(e) \subseteq {0}
        <3>1. KeptStarts(e) \subseteq 0..0
            BY <1>1, KeptInOrder
        <3>2. \A x \in 0..0 : x = 0
            OBVIOUS
        <3> QED
            BY <3>1, <3>2
    <2>2. 0 \notin KeptStarts(e)
        BY <1>2 DEF KeptStarts, Fits
    <2> QED
        BY <2>1, <2>2
<1> DEFINE N == Cardinality(KeptStarts(e))
           g(n) == ParseCondition(Run(e, InOrder(KeptStarts(e))[n]),
                                  IF InOrder(KeptStarts(e))[n] = 0 THEN "AND" ELSE e[InOrder(KeptStarts(e))[n]].token)
<1>4. N = 0
    BY <1>3, FS_EmptySet
<1>5. ParseWhere(e) = [n \in 1..N |-> g(n)]
    BY <1>1, KeptInOrder
<1> HIDE DEF g, N
<1> DEFINE w == [n \in 1..N |-> g(n)]
<1>6. w = <<>>
    <2>1. w \in [1..0 -> {}] /\ 0 \in Nat
        BY <1>4
    <2> HIDE DEF w
    <2>2. w \in Seq({})
        BY <2>1, SeqDef
    <2>3. Len(w) = 0
        <3>1. Len(w) \in Nat /\ DOMAIN w = 1..Len(w) /\ DOMAIN w = 1..0
            BY <2>1, <2>2, LenProperties
        <3> QED
            BY <3>1
    <2> QED
        BY <2>2, <2>3, EmptySeq
<1> QED
    BY <1>5, <1>6 DEF e

\* Each filter is read back, with its connector.
LEMMA WhereFound ==
    ASSUME NEW filters \in Seq(Filter), \A n \in 1..Len(filters) : WellMade(filters[n]), Len(filters) # 0
    PROVE  LET found == ParseWhere(WhereClause(filters))
           IN  /\ found \in Seq(Filter) /\ Len(found) = Len(filters)
               /\ \A n \in 1..Len(filters) :
                     found[n] = ParseCondition(FilterTokens(filters[n]),
                                               IF n = 1 THEN "AND" ELSE filters[n].logic)
<1> DEFINE K == Len(filters)
           F == WrittenFilters(filters)
           C == Connectors(filters)
           ts == WhereClause(filters)
           found == ParseWhere(ts)
<1>1. K \in Nat /\ K # 0 /\ \A n \in 1..K : filters[n] \in Filter /\ WellMade(filters[n])
    BY FiltersOf
<1>2. PICK u : Parts(Token, K, F, C, u) /\ ts = u[K]
    BY WhereInParts
<1>3. \A n \in 1..K : F[n] = FilterTokens(filters[n]) /\ C[n] = Connector(filters[n].logic)
    BY DEF WrittenFilters, Connectors
<1>4. OfFilters(K, F, C)
    <2> SUFFICES ASSUME NEW n \in 1..K
                 PROVE  /\ F[n][1].token = "condition"
                        /\ (Len(F[n]) = 1 /\ F[n][1].op # "BETWEEN") \/ IsBetween(F[n])
                        /\ IsConnector(C[n]) /\ C[n].op = None
        BY DEF OfFilters
    <2> DEFINE f == filters[n]
               b == FilterTokens(f)
    <2>1. f \in Filter /\ WellMade(f) /\ F[n] = b /\ C[n] = Connector(f.logic)
        BY <1>1, <1>3
    <2> HIDE DEF F, C, f
    <2>2. b[1].token = "condition" /\ (Len(b) = 1 \/ IsBetween(b))
        BY <2>1, FilterWritten
    <2>3. Len(b) = 1 => b[1].op # "BETWEEN"
        <3>1. CASE WritesBetween(f)
            <4>1. Len(b) = 3
                BY <2>1, <3>1, BetweenWritten DEF IsBetween
            <4> QED
                BY <4>1
        <3>2. CASE ~WritesBetween(f)
            <4>1. b[1] = Condition(f, WrittenOp(f), WrittenArgs(f))
                BY <2>1, <3>2, OtherWritten
            <4>2. WrittenOp(f) # "BETWEEN"
                BY <2>1, FilterOf DEF WrittenOp, WellMade
            <4> QED
                BY <4>1, <4>2 DEF Condition
        <3> QED
            BY <3>1, <3>2
    <2>4. IsConnector(C[n]) /\ C[n].op = None
        BY <2>1, FilterOf DEF IsConnector, Connector
    <2> QED
        BY <2>1, <2>2, <2>3, <2>4
<1>5. \A n \in 1..K : Fits(F[n])
    BY <1>1, <1>3, FilterReadBack
<1> HIDE DEF F, C, ts
<1> DEFINE s == [n \in 1..K |-> Start(u, n)]
           S == {s[n] : n \in 1..K}
<1>6. \A n \in 1..K : Start(u, n) \in Nat
    BY <1>2, PartAt
<1>7. s \in [1..K -> Nat] /\ \A m, n \in 1..K : m < n => s[m] < s[n]
    <2>1. s \in [1..K -> Nat]
        BY <1>6
    <2>2. ASSUME NEW m \in 1..K, NEW n \in 1..K, m < n PROVE s[m] < s[n]
        <3> DEFINE l == Len(F[m])
                   a == Start(u, m)
                   b == Start(u, n)
        <3>1. a + l < b
            BY <1>2, <2>2, StartsIncrease
        <3>2. l \in Nat \ {0} /\ a \in Nat /\ b \in Nat
            BY <1>2, PartAt
        <3> HIDE DEF l, a, b
        <3>3. a < b
            BY <3>1, <3>2
        <3> QED
            BY <3>3 DEF a, b
    <2> QED
        BY <2>1, <2>2
<1>8. /\ Len(ts) \in Nat /\ ts \in Seq(Token)
      /\ \A n \in 1..K : Start(u, n) <= Len(ts)
    <2>1. 1 \in 1..K
        BY <1>1
    <2>2. Len(ts) \in Nat /\ ts \in Seq(Token)
        BY <1>2, <2>1, PartAt
    <2>3. ASSUME NEW n \in 1..K PROVE Start(u, n) <= Len(ts)
        <3> DEFINE l == Len(F[n])
                   a == Start(u, n)
        <3>1. a \in Nat /\ l \in Nat \ {0} /\ a + l <= Len(ts)
            BY <1>2, PartAt
        <3> HIDE DEF a, l
        <3>2. a <= Len(ts)
            BY <2>2, <3>1
        <3> QED
            BY <3>2 DEF a
    <2> QED
        BY <2>2, <2>3
<1>9. KeptStarts(ts) = S
    <2>1. DOMAIN ts = 1..Len(ts)
        BY <1>8, LenProperties
    <2>2. ASSUME NEW p \in S PROVE p \in KeptStarts(ts)
        <3>1. PICK n \in 1..K : p = Start(u, n)
            BY <2>2
        <3>2. Fits(Run(ts, p))
            BY <1>2, <1>4, <1>5, <3>1, RunOfPart
        <3>3. n = 1 => p = 0
            BY <3>1 DEF Start
        <3>4. n # 1 => p \in DOMAIN ts /\ Separates(ts, p)
            BY <1>2, <1>4, <2>1, <3>1, StartSeparates
        <3> QED
            BY <3>2, <3>3, <3>4 DEF KeptStarts
    <2>3. ASSUME NEW p \in KeptStarts(ts) PROVE p \in S
        <3>1. p = 0 \/ (p \in 1..Len(ts) /\ Separates(ts, p))
            BY <2>1 DEF KeptStarts
        <3>2. CASE p = 0
            <4>1. 1 \in 1..K /\ Start(u, 1) = 0
                BY <1>1 DEF Start
            <4> QED
                BY <3>2, <4>1
        <3>3. CASE p \in 1..Len(ts) /\ Separates(ts, p)
            <4>1. PICK n \in 1..K : n # 1 /\ p = Start(u, n)
                BY <1>2, <1>4, <3>3, Separators
            <4> QED
                BY <4>1
        <3> QED
            BY <3>1, <3>2, <3>3
    <2> QED
        BY <2>2, <2>3
<1>10. Cardinality(KeptStarts(ts)) = K /\ InOrder(KeptStarts(ts)) = s
    <2> HIDE DEF K, s
    <2> QED
        BY <1>1, <1>7, <1>9, InOrderOfIncreasing
<1> DEFINE g(n) == ParseCondition(Run(ts, s[n]), IF s[n] = 0 THEN "AND" ELSE ts[s[n]].token)
           h(n) == ParseCondition(FilterTokens(filters[n]), IF n = 1 THEN "AND" ELSE filters[n].logic)
<1>11. found = [n \in 1..K |-> g(n)]
    <2> HIDE DEF s, K
    <2> QED
        BY <1>8, <1>10, KeptInOrder
<1>12. ASSUME NEW n \in 1..K PROVE g(n) = h(n)
    <2>1. s[n] = Start(u, n)
        OBVIOUS
    <2>2. Run(ts, s[n]) = FilterTokens(filters[n])
        BY <1>2, <1>3, <1>4, <2>1, RunOfPart
    <2>3. CASE n = 1
        <3>1. s[n] = 0
            BY <2>1, <2>3 DEF Start
        <3> QED
            BY <2>2, <2>3, <3>1
    <2>4. CASE n # 1
        <3>1. s[n] # 0 /\ ts[s[n]] = C[n]
            BY <1>2, <2>1, <2>4, PartAt
        <3>2. C[n].token = filters[n].logic
            <4>1. C[n] = Connector(filters[n].logic)
                BY <1>3
            <4>2. Connector(filters[n].logic).token = filters[n].logic
                BY DEF Connector
            <4> QED
                BY <4>1, <4>2, Zenon
        <3> HIDE DEF s
        <3> QED
            BY <2>2, <2>4, <3>1, <3>2
    <2> QED
        BY <2>3, <2>4
<1>13. found \in Seq(Filter)
    BY <1>8, WhereTyped
<1>14. \A n \in 1..K : found[n] = h(n)
    <2> HIDE DEF g, h, found, K
    <2> QED
        BY <1>11, <1>12
<1>15. Len(found) = K
    <2>1. found = [n \in 1..K |-> found[n]]
        <3> HIDE DEF g, K, found
        <3> QED
            BY <1>11
    <2> HIDE DEF found, K
    <2> QED
        BY <1>1, <2>1, SequenceUpTo
<1> QED
    BY <1>13, <1>14, <1>15 DEF ts

\* The WHERE clause read back is written again as it was.
LEMMA WhereReadBack ==
    ASSUME NEW filters \in Seq(Filter), \A n \in 1..Len(filters) : WellMade(filters[n])
    PROVE  WhereClause(ParseWhere(WhereClause(filters))) = WhereClause(filters)
<1> DEFINE K == Len(filters)
           found == ParseWhere(WhereClause(filters))
<1>1. K \in Nat /\ \A n \in 1..K : filters[n] \in Filter
    BY FiltersOf
<1>2. CASE K = 0
    <2>1. filters = <<>>
        <3> DEFINE T == Filter
        <3>1. filters \in Seq(T)
            OBVIOUS
        <3> HIDE DEF T
        <3> QED
            BY <1>2, <3>1, EmptySeq
    <2>2. WhereClause(filters) = <<>>
        <3>1. PICK u : u[0] = <<>> /\ WhereClause(filters) = u[K]
            BY WhereGrows
        <3> QED
            BY <1>2, <3>1
    <2> QED
        BY <2>1, <2>2, NothingRead
<1>3. CASE K # 0
    <2>1. /\ found \in Seq(Filter) /\ Len(found) = K
          /\ \A n \in 1..K : found[n] = ParseCondition(FilterTokens(filters[n]),
                                                       IF n = 1 THEN "AND" ELSE filters[n].logic)
        BY <1>3, WhereFound
    <2> HIDE DEF found
    <2>2. ASSUME NEW n \in 1..K PROVE FilterText(found, n) = FilterText(filters, n)
        <3>1. /\ FilterTokens(found[n]) = FilterTokens(filters[n])
              /\ found[n].logic = IF n = 1 THEN "AND" ELSE filters[n].logic
            BY <1>1, <2>1, FilterReadBack
        <3> QED
            BY <3>1 DEF FilterText
    <2>3. WhereClause(filters) = WhereClause(found)
        BY <2>1, <2>2, SameText
    <2> QED
        BY <2>3 DEF found
<1> QED
    BY <1>2, <1>3

-----------------------------------------------------------------------------
(* Tables and joins.                                                        *)

\* The parts of a configuration.
LEMMA ConfigOf ==
    ASSUME NEW c \in Config
    PROVE  /\ c.select \in Seq(Column) /\ c.from_tables \in Seq(QualifiedName)
           /\ c.joins \in Seq(JoinClause) /\ c.where \in Seq(Filter)
           /\ c.group_by \in Seq(QualifiedName)
           /\ c.order_by \in Seq([field : QualifiedName, direction : STRING])
BY DEF Config

\* The joins that are found are joins.
LEMMA JoinsTyped ==
    ASSUME NEW T, NEW joins \in Seq(T)
    PROVE  JoinsFound(joins) \in Seq(T)
<1> DEFINE S == {n \in DOMAIN joins : Len(joins[n].table) = 1}
           found == InOrder(S)
           N == Cardinality(S)
           t == [n \in DOMAIN found |-> joins[found[n]]]
<1>1. Len(joins) \in Nat /\ DOMAIN joins = 1..Len(joins)
    BY LenProperties
<1>2. S \in SUBSET (1..Len(joins))
    BY <1>1
<1> HIDE DEF S
<1>3. IsFiniteSet(S) /\ S \in SUBSET Nat
    BY <1>1, <1>2, IndexSet
<1>4. N \in Nat /\ found \in [1..N -> S]
    BY <1>3, InOrderEnumerates
<1>5. \A n \in 1..N : joins[found[n]] \in T
    <2> SUFFICES ASSUME NEW n \in 1..N PROVE joins[found[n]] \in T
        OBVIOUS
    <2>1. found[n] \in 1..Len(joins)
        BY <1>2, <1>4
    <2> HIDE DEF found
    <2> QED
        BY <2>1, ElementOfSeq
<1>6. DOMAIN found = 1..N
    BY <1>4
<1> HIDE DEF found, N
<1>7. t \in [1..N -> T]
    BY <1>5, <1>6
<1> HIDE DEF t
<1>8. t \in Seq(T)
    BY <1>4, <1>7, SeqDef
<1> QED
    BY <1>8 DEF t, found, S, JoinsFound

\* Joins of plain tables are all found.
LEMMA AllJoinsFound ==
    ASSUME NEW T, NEW joins \in Seq(T), \A n \in DOMAIN joins : Len(joins[n].table) = 1
    PROVE  JoinsFound(joins) = joins
<1> DEFINE S == {n \in DOMAIN joins : Len(joins[n].table) = 1}
           N == Len(joins)
<1>1. N \in Nat /\ DOMAIN joins = 1..N /\ joins = [n \in 1..N |-> joins[n]]
    BY LenProperties
<1>2. S = 1..N
    BY <1>1
<1>3. JoinsFound(joins) = [n \in DOMAIN InOrder(S) |-> joins[InOrder(S)[n]]]
    BY DEF JoinsFound
<1> HIDE DEF S, N
<1>4. InOrder(S) = [n \in 1..N |-> n]
    BY <1>1, <1>2, InOrderOfAll
<1>5. DOMAIN InOrder(S) = 1..N /\ \A n \in 1..N : InOrder(S)[n] = n
    BY <1>4
<1>6. [n \in DOMAIN InOrder(S) |-> joins[InOrder(S)[n]]] = [n \in 1..N |-> joins[n]]
    BY <1>5
<1> QED
    BY <1>1, <1>3, <1>6

\* The first of a sequence that is not empty.
LEMMA FirstOf ==
    ASSUME NEW T, NEW s \in Seq(T), s # <<>>
    PROVE  /\ SubSeq(s, 1, 1) \in Seq(T) /\ Len(SubSeq(s, 1, 1)) = 1
           /\ SubSeq(s, 1, 1)[1] = s[1] /\ s[1] \in T
           /\ SubSeq(s, 1, 1) # <<>>
<1>1. Len(s) \in Nat \ {0}
    BY EmptySeq, LenProperties
<1>2. \A i \in 1..1 : s[i] \in T
    <2>1. 1 \in 1..Len(s) /\ \A i \in 1..1 : i = 1
        BY <1>1
    <2>2. s[1] \in T
        BY <2>1, ElementOfSeq
    <2> QED
        BY <2>1, <2>2
<1> DEFINE t == SubSeq(s, 1, 1)
           one == 1
<1>3. t \in Seq(T) /\ Len(t) = 1 /\ t[1] = s[1]
    <2>1. one \in Int /\ one <= one /\ one - one + 1 = 1 /\ one + 1 - 1 = 1 /\ 1 \in 1..1
        OBVIOUS
    <2>2. /\ SubSeq(s, one, one) \in Seq(T)
          /\ Len(SubSeq(s, one, one)) = IF one <= one THEN one - one + 1 ELSE 0
          /\ \A i \in 1..one - one + 1 : SubSeq(s, one, one)[i] = s[one + i - 1]
        BY <1>2, SubSeqProperties
    <2> HIDE DEF t
    <2>3. SubSeq(s, one, one) = t
        BY DEF t
    <2>4. t \in Seq(T) /\ Len(t) = 1 /\ \A i \in 1..1 : t[i] = s[1 + i - 1]
        BY <2>1, <2>2, <2>3
    <2> QED
        BY <2>4
<1>4. 1 \in 1..1
    OBVIOUS
<1> HIDE DEF t
<1>5. t # <<>>
    <2> SUFFICES ASSUME t = <<>> PROVE FALSE
        OBVIOUS
    <2>1. Len(t) = Len(<<>>)
        OBVIOUS
    <2>2. Len(<<>>) = 0
        OBVIOUS
    <2>3. Len(t) = 0
        BY <2>1, <2>2, Zenon
    <2> QED
        BY <1>3, <2>3
<1> QED
    BY <1>2, <1>3, <1>4, <1>5 DEF t

\* A table's name as it is read: its first part.
LEMMA FirstPart ==
    ASSUME NEW name \in QualifiedName
    PROVE  /\ SubSeq(name, 1, 1) \in QualifiedName
           /\ Len(name) = 1 => SubSeq(name, 1, 1) = name
<1>1. name \in Seq(STRING) /\ name # <<>>
    BY DEF QualifiedName
<1> DEFINE t == SubSeq(name, 1, 1)
<1>2. t \in Seq(STRING) /\ Len(t) = 1 /\ t[1] = name[1] /\ t # <<>>
    BY <1>1, FirstOf
<1> HIDE DEF t
<1>3. ASSUME Len(name) = 1 PROVE t = name
    <2>1. \A i \in 1..1 : t[i] = name[i]
        BY <1>2
    <2> QED
        BY <1>1, <1>2, <1>3, <2>1, SeqEqual
<1>4. t \in QualifiedName
    BY <1>2 DEF QualifiedName
<1> QED
    BY <1>3, <1>4 DEF t

\* The tables that are written, and as they are read.
FromWritten(c) == SubSeq(c.from_tables, 1, IF c.from_tables = <<>> THEN 0 ELSE 1)
\* The tables that are read from the FROM clause.
TablesRead(c) == [n \in DOMAIN FromWritten(c) |-> SubSeq(FromWritten(c)[n], 1, 1)]

\* Without a table there is no FROM clause.
LEMMA NoTable ==
    ASSUME NEW c \in Config, c.from_tables = <<>>
    PROVE  FromWritten(c) = <<>> /\ TablesRead(c) \in Seq(QualifiedName)
<1>1. SubSeq(c.from_tables, 1, 0) = <<>>
    BY SubSeqEmpty
<1>2. FromWritten(c) = <<>>
    BY <1>1 DEF FromWritten
<1> DEFINE t == TablesRead(c)
<1>3. t \in [1..0 -> QualifiedName] /\ 0 \in Nat
    <2> DEFINE e == <<>>
    <2>1. DOMAIN e = 1..0
        OBVIOUS
    <2>2. t = [n \in DOMAIN e |-> SubSeq(e[n], 1, 1)]
        BY <1>2 DEF TablesRead
    <2> HIDE DEF e, t
    <2> QED
        BY <2>1, <2>2
<1> HIDE DEF t
<1>4. t \in Seq(QualifiedName)
    BY <1>3, SeqDef
<1> QED
    BY <1>2, <1>4 DEF t

\* With one, the first is written, and an unqualified one is read back.
LEMMA TableRead ==
    ASSUME NEW c \in Config, c.from_tables # <<>>
    PROVE  /\ FromWritten(c) = SubSeq(c.from_tables, 1, 1) /\ FromWritten(c) # <<>>
           /\ TablesRead(c) \in Seq(QualifiedName) /\ TablesRead(c) # <<>>
           /\ Len(c.from_tables[1]) = 1 => SubSeq(TablesRead(c), 1, 1) = FromWritten(c)
<1> DEFINE Q == QualifiedName
           f == FromWritten(c)
           t == TablesRead(c)
           ft == c.from_tables
<1>1. ft \in Seq(Q) /\ ft # <<>>
    BY ConfigOf
<1>2. f = SubSeq(ft, 1, 1)
    BY DEF FromWritten
<1> HIDE DEF ft, f
<1>3. f \in Seq(Q) /\ Len(f) = 1 /\ f[1] = ft[1] /\ ft[1] \in Q /\ f # <<>>
    <2> HIDE DEF Q
    <2> QED
        BY <1>1, <1>2, FirstOf
<1>4. DOMAIN f = 1..1
    <2> HIDE DEF Q
    <2> QED
        BY <1>3, LenProperties
<1>5. t = [n \in 1..1 |-> SubSeq(f[n], 1, 1)]
    BY <1>4 DEF TablesRead, f
<1>6. \A n \in 1..1 : SubSeq(f[n], 1, 1) \in Q
    <2>1. \A n \in 1..1 : f[n] \in Q
        BY <1>3
    <2> QED
        BY <2>1, FirstPart
<1> HIDE DEF t
<1>7. t \in [1..1 -> Q] /\ t[1] = SubSeq(ft[1], 1, 1)
    <2> HIDE DEF Q
    <2> QED
        BY <1>3, <1>5, <1>6
<1>8. t \in Seq(Q) /\ Len(t) = 1
    <2>0. 1 \in Nat /\ t = [n \in 1..1 |-> t[n]]
        BY <1>7
    <2> HIDE DEF Q
    <2>1. t \in Seq(Q)
        BY <1>7, <2>0, SeqDef
    <2>2. Len(t) = 1
        BY <2>0, SequenceUpTo
    <2> QED
        BY <2>1, <2>2
<1>9. t # <<>>
    <2> SUFFICES ASSUME t = <<>> PROVE FALSE
        OBVIOUS
    <2>1. Len(t) = Len(<<>>)
        OBVIOUS
    <2>2. Len(<<>>) = 0
        OBVIOUS
    <2>3. Len(t) = 0
        BY <2>1, <2>2, Zenon
    <2> QED
        BY <1>8, <2>3
<1>10. ASSUME Len(ft[1]) = 1 PROVE SubSeq(t, 1, 1) = f
    <2>1. t[1] = ft[1]
        BY <1>3, <1>7, <1>10, FirstPart
    <2> DEFINE v == SubSeq(t, 1, 1)
    <2>2. v \in Seq(Q) /\ Len(v) = 1 /\ v[1] = t[1]
        <3> HIDE DEF Q
        <3> QED
            BY <1>8, <1>9, FirstOf
    <2> HIDE DEF v
    <2>3. \A i \in 1..1 : v[i] = f[i]
        BY <1>3, <2>1, <2>2
    <2>4. v = f
        <3> HIDE DEF Q
        <3> QED
            BY <1>3, <2>2, <2>3, SeqEqual
    <2> QED
        BY <2>4 DEF v
<1> QED
    BY <1>2, <1>3, <1>8, <1>9, <1>10 DEF f, t, ft

-----------------------------------------------------------------------------
(* The builder.                                                             *)

\* What parsing gives back, clause by clause.
LEMMA ParsedClauses ==
    ASSUME NEW c \in Config
    PROVE  LET sql == ToSQL(c)
               p == Parse(sql)
           IN  /\ sql = [select |-> SelectClause(c.select), from |-> FromWritten(c), joins |-> c.joins,
                         where |-> WhereClause(c.where), group_by |-> c.group_by, order_by |-> c.order_by]
               /\ p = [select |-> IF FromWritten(c) = <<>> THEN <<>> ELSE ReadSelect(c.select),
                       from_tables |-> TablesRead(c), joins |-> JoinsFound(c.joins),
                       where |-> ParseWhere(WhereClause(c.where)),
                       group_by |-> c.group_by, order_by |-> c.order_by]
<1> DEFINE sql == ToSQL(c)
<1>1. sql = [select |-> SelectClause(c.select), from |-> FromWritten(c), joins |-> c.joins,
             where |-> WhereClause(c.where), group_by |-> c.group_by, order_by |-> c.order_by]
    BY DEF ToSQL, FromWritten
<1> HIDE DEF sql
<1>2. /\ sql.select = SelectClause(c.select) /\ sql.from = FromWritten(c) /\ sql.joins = c.joins
      /\ sql.where = WhereClause(c.where) /\ sql.group_by = c.group_by /\ sql.order_by = c.order_by
    BY <1>1
<1>3. [n \in DOMAIN sql.select |-> ParseSelect(sql.select[n])] = ReadSelect(c.select)
    BY <1>2 DEF ReadSelect
<1>4. [n \in DOMAIN sql.from |-> SubSeq(sql.from[n], 1, 1)] = TablesRead(c)
    BY <1>2 DEF TablesRead
<1>5. Parse(sql) = [select |-> IF FromWritten(c) = <<>> THEN <<>> ELSE ReadSelect(c.select),
                    from_tables |-> TablesRead(c), joins |-> JoinsFound(c.joins),
                    where |-> ParseWhere(WhereClause(c.where)),
                    group_by |-> c.group_by, order_by |-> c.order_by]
    BY <1>2, <1>3, <1>4 DEF Parse
<1> QED
    BY <1>1, <1>5 DEF sql

\* What can be read is readable column by column.
LEMMA ReadableColumns ==
    ASSUME NEW c \in Config
    PROVE  Readable(ToSQL(c)) <=>
              FromWritten(c) = <<>> \/ \A n \in 1..Len(c.select) : Word(WrittenAs(c.select, n))
<1> DEFINE sql == ToSQL(c)
           cols == c.select
<1>1. sql.select = SelectClause(cols) /\ sql.from = FromWritten(c)
    BY ParsedClauses
<1>2. cols \in Seq(Column)
    BY ConfigOf
<1> HIDE DEF sql, cols
<1>3. /\ DOMAIN SelectClause(cols) = 1..Len(cols)
      /\ \A n \in 1..Len(cols) : SelectClause(cols)[n].as = WrittenAs(cols, n)
    <2>1. DOMAIN SelectClause(cols) = 1..Len(cols)
        BY <1>2, SelectWritten
    <2>2. ASSUME NEW n \in 1..Len(cols) PROVE SelectClause(cols)[n].as = WrittenAs(cols, n)
        <3>1. SelectClause(cols)[n] = [agg |-> cols[n].agg, table |-> cols[n].table,
                                       column |-> cols[n].column, as |-> WrittenAs(cols, n)]
            BY <1>2, SelectWritten
        <3> QED
            BY <3>1
    <2> QED
        BY <2>1, <2>2
<1>4. Readable(sql) <=> FromWritten(c) = <<>> \/ \A n \in 1..Len(cols) : Word(WrittenAs(cols, n))
    BY <1>1, <1>3 DEF Readable
<1> QED
    BY <1>4 DEF sql, cols

\* What is read is a configuration again.
LEMMA ParsedTyped ==
    ASSUME NEW c \in Config, Readable(ToSQL(c))
    PROVE  Parse(ToSQL(c)) \in Config
<1> DEFINE p == Parse(ToSQL(c))
           sel == IF FromWritten(c) = <<>> THEN <<>> ELSE ReadSelect(c.select)
           tabs == TablesRead(c)
           js == JoinsFound(c.joins)
           wh == ParseWhere(WhereClause(c.where))
<1>1. p = [select |-> sel, from_tables |-> tabs, joins |-> js, where |-> wh,
           group_by |-> c.group_by, order_by |-> c.order_by]
    BY ParsedClauses
<1>2. sel \in Seq(Column)
    <2>1. CASE FromWritten(c) = <<>>
        <3>1. <<>> \in Seq(Column)
            BY EmptySeq
        <3> QED
            BY <2>1, <3>1
    <2>2. CASE FromWritten(c) # <<>>
        <3>1. \A n \in 1..Len(c.select) : Word(WrittenAs(c.select, n))
            BY <2>2, ReadableColumns
        <3>2. ReadSelect(c.select) \in Seq(Column)
            BY <3>1, ConfigOf, SelectTyped
        <3> QED
            BY <2>2, <3>2
    <2> QED
        BY <2>1, <2>2
<1>3. tabs \in Seq(QualifiedName)
    BY NoTable, TableRead
<1>4. js \in Seq(JoinClause)
    BY ConfigOf, JoinsTyped
<1>5. wh \in Seq(Filter)
    BY ConfigOf, WhereClauseTyped, WhereTyped
<1>6. c.group_by \in Seq(QualifiedName) /\ c.order_by \in Seq([field : QualifiedName, direction : STRING])
    BY ConfigOf
<1> HIDE DEF p, sel, tabs, js, wh
<1>7. p \in Config
    BY <1>1, <1>2, <1>3, <1>4, <1>5, <1>6 DEF Config
<1> QED
    BY <1>7 DEF p

\* What Buildable gives.
LEMMA BuildableParts ==
    ASSUME NEW c \in Config, Buildable(c)
    PROVE  /\ c.from_tables # <<>> /\ Len(c.from_tables[1]) = 1
           /\ \A n \in DOMAIN c.joins : Len(c.joins[n].table) = 1
           /\ \A n \in 1..Len(c.where) : WellMade(c.where[n])
           /\ Unambiguous(c.select)
<1>1. c.from_tables # <<>> /\ Len(c.from_tables[1]) = 1
    BY DEF Buildable, ValidConfig
<1>2. \A n \in DOMAIN c.joins : Len(c.joins[n].table) = 1
    BY DEF Buildable, Values
<1>3. \A n \in 1..Len(c.where) : WellMade(c.where[n])
    <2>1. DOMAIN c.where = 1..Len(c.where)
        BY ConfigOf, FiltersOf
    <2>2. \A f \in Values(c.where) : WellMade(f)
        BY DEF Buildable, WellMade
    <2> QED
        BY <2>1, <2>2 DEF Values
<1>4. Unambiguous(c.select)
    BY DEF Buildable, Unambiguous
<1> QED
    BY <1>1, <1>2, <1>3, <1>4

\* What a query of the builder's making is written as can be read.
LEMMA BuildableReadable ==
    ASSUME NEW c \in Config, Buildable(c)
    PROVE  Readable(ToSQL(c))
<1>1. c.select \in Seq(Column) /\ Unambiguous(c.select)
    BY ConfigOf, BuildableParts
<1>2. \A n \in 1..Len(c.select) : Word(WrittenAs(c.select, n))
    BY <1>1, NamesReadable DEF WrittenAs, Word
<1> QED
    BY <1>2, ReadableColumns

\* And is written again as it was.
LEMMA BuildableRoundTrip ==
    ASSUME NEW c \in Config, Buildable(c)
    PROVE  ToSQL(Parse(ToSQL(c))) = ToSQL(c)
<1> DEFINE p == Parse(ToSQL(c))
<1>1. /\ c.from_tables # <<>> /\ Len(c.from_tables[1]) = 1
      /\ \A n \in DOMAIN c.joins : Len(c.joins[n].table) = 1
      /\ \A n \in 1..Len(c.where) : WellMade(c.where[n])
      /\ Unambiguous(c.select)
    BY BuildableParts
<1>2. /\ FromWritten(c) # <<>> /\ TablesRead(c) # <<>>
      /\ SubSeq(TablesRead(c), 1, 1) = FromWritten(c)
    BY <1>1, TableRead
<1>3. p = [select |-> IF FromWritten(c) = <<>> THEN <<>> ELSE ReadSelect(c.select),
           from_tables |-> TablesRead(c), joins |-> JoinsFound(c.joins),
           where |-> ParseWhere(WhereClause(c.where)),
           group_by |-> c.group_by, order_by |-> c.order_by]
    BY ParsedClauses
<1> HIDE DEF p
<1>4. /\ p.select = ReadSelect(c.select) /\ p.from_tables = TablesRead(c) /\ p.joins = JoinsFound(c.joins)
      /\ p.where = ParseWhere(WhereClause(c.where)) /\ p.group_by = c.group_by /\ p.order_by = c.order_by
    BY <1>2, <1>3
<1>5. p \in Config
    BY BuildableReadable, ParsedTyped DEF p
<1>6. SelectClause(p.select) = SelectClause(c.select)
    BY <1>1, <1>4, ConfigOf, SelectReadBack
<1>7. FromWritten(p) = FromWritten(c)
    BY <1>2, <1>4 DEF FromWritten
<1>8. p.joins = c.joins
    BY <1>1, <1>4, ConfigOf, AllJoinsFound
<1>9. WhereClause(p.where) = WhereClause(c.where)
    BY <1>1, <1>4, ConfigOf, WhereReadBack
<1>10. /\ ToSQL(p) = [select |-> SelectClause(p.select), from |-> FromWritten(p), joins |-> p.joins,
                      where |-> WhereClause(p.where), group_by |-> p.group_by, order_by |-> p.order_by]
       /\ ToSQL(c) = [select |-> SelectClause(c.select), from |-> FromWritten(c), joins |-> c.joins,
                      where |-> WhereClause(c.where), group_by |-> c.group_by, order_by |-> c.order_by]
    BY <1>5, ParsedClauses
<1>11. ToSQL(p) = ToSQL(c)
    BY <1>4, <1>6, <1>7, <1>8, <1>9, <1>10
<1> QED
    BY <1>11 DEF p

-----------------------------------------------------------------------------
\* What is written is the configuration's SQL, what is read is its parse.
BuilderInv ==
    /\ config \in Config
    /\ stage \in {"built", "written", "read", "rejected"}
    /\ stage # "built" => text = ToSQL(config)
    /\ stage = "read" => Readable(text) /\ back = Parse(text)
    /\ stage = "rejected" => ~Readable(text)

\* The configuration, its text and what was read from that stay one query.
LEMMA BuilderInductive == BuilderSpec => []BuilderInv
<1>1. BuilderInit => BuilderInv
    BY BuilderAssumption DEF BuilderInit, BuilderInv
<1>2. BuilderInv /\ [BuilderNext]_builderVars => BuilderInv'
    <2> SUFFICES ASSUME BuilderInv, [BuilderNext]_builderVars PROVE BuilderInv'
        OBVIOUS
    <2>1. CASE GenerateSQL
        BY <2>1 DEF GenerateSQL, BuilderInv
    <2>2. CASE ParseText
        BY <2>2 DEF ParseText, BuilderInv
    <2>3. CASE LoadParsed
        <3>1. Readable(text) /\ text = ToSQL(config) /\ back = Parse(text) /\ config \in Config
            BY <2>3 DEF LoadParsed, BuilderInv
        <3>2. back \in Config
            BY <3>1, ParsedTyped
        <3> QED
            BY <2>3, <3>2 DEF LoadParsed, BuilderInv
    <2>4. CASE UNCHANGED builderVars
        BY <2>4 DEF builderVars, BuilderInv
    <2> QED
        BY <2>1, <2>2, <2>3, <2>4 DEF BuilderNext
<1> QED
    BY <1>1, <1>2, PTL DEF BuilderSpec

\* Whatever the builder loads back is a configuration again
\* (sql_generator.py, parse_sql_to_config).
THEOREM BuilderTypeSafe == BuilderSpec => []BuilderTypeOK
<1>1. BuilderInv => BuilderTypeOK
    BY ParsedTyped DEF BuilderInv, BuilderTypeOK
<1> QED
    BY <1>1, BuilderInductive, PTL

\* What the builder writes it reads back as the same query, for any configuration
\* of the kind it makes, with any number of columns, filters and joins: none of them
\* is lost or changed, and no two columns of the result have one name
\* (resolve_select_names, WhereFilter.to_sql, parse_sql_to_config).
THEOREM RoundTripAlways == BuilderSpec => []RoundTrip
<1>1. BuilderInv => RoundTrip
    <2> SUFFICES ASSUME BuilderInv, Buildable(config) PROVE RoundTrip
        BY DEF RoundTrip
    <2>1. config \in Config
        BY DEF BuilderInv
    <2>2. stage # "rejected"
        <3>1. Readable(ToSQL(config))
            BY <2>1, BuildableReadable
        <3> QED
            BY <3>1 DEF BuilderInv
    <2>3. stage = "read" => ToSQL(back) = text
        <3>1. ToSQL(Parse(ToSQL(config))) = ToSQL(config)
            BY <2>1, BuildableRoundTrip
        <3>2. stage = "read" => back = Parse(text) /\ text = ToSQL(config)
            BY DEF BuilderInv
        <3> QED
            BY <3>1, <3>2
    <2>4. LET names == ResolvedNames(config.select)
          IN  \A m, n \in DOMAIN names : m # n => names[m] # names[n]
        <3> DEFINE cols == config.select
                   names == ResolvedNames(cols)
        <3>1. cols \in Seq(Column) /\ Unambiguous(cols)
            BY <2>1, ConfigOf, BuildableParts
        <3>2. names \in Seq(Name) /\ Len(names) = Len(cols)
            BY <3>1, NamesGiven
        <3>3. DOMAIN names = 1..Len(cols)
            BY <3>2, LenProperties
        <3>4. \A m, n \in 1..Len(cols) : m # n => names[m] # names[n]
            BY <3>1, NamesDistinct
        <3> HIDE DEF names
        <3>5. \A m, n \in DOMAIN names : m # n => names[m] # names[n]
            BY <3>3, <3>4
        <3> QED
            BY <3>5 DEF names
    <2> QED
        BY <2>2, <2>3, <2>4 DEF RoundTrip
<1> QED
    BY <1>1, BuilderInductive, PTL
=============================================================================
