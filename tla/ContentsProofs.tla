--------------------------- MODULE ContentsProofs ---------------------------
(***************************************************************************)
(* What Rendering and Comparison promise for any reports, any sources and  *)
(* any versions of a definition.                                           *)
(*                                                                         *)
(* A preview is a stack of frames, each of which has shown its report's    *)
(* elements up to some place, and awaits the one above it there: a frame   *)
(* that is left, or passed over, lands in the place that was kept for it   *)
(* (RightFrames).  An export's data and its keys are each other's inverse  *)
(* (KeysMatch), so that what an element finds was fetched for it.          *)
(*                                                                         *)
(* Two definitions between which the summary counts no change have the     *)
(* same sections type by type, whichever is the old one, and sources under *)
(* the same keys; the details, which go by position and by name, then find *)
(* nothing either (ComparedAgrees).                                        *)
(***************************************************************************)
EXTENDS Rendering, Comparison, FiniteSetTheorems, SequenceTheorems, TLAPS


-----------------------------------------------------------------------------
(* Numbers in order, and sequences of whatever values.                      *)

\* Rank numbers the members of S from 1, in their order.
LEMMA RankOrder ==
    ASSUME NEW S \in SUBSET Nat, IsFiniteSet(S)
    PROVE  /\ Cardinality(S) \in Nat
           /\ \A i \in S : Rank(S, i) \in 1..Cardinality(S)
           /\ \A i, j \in S : i < j => Rank(S, i) < Rank(S, j)
<1> DEFINE Upto(i) == {j \in S : j <= i}
<1>0. \A i \in S : i \in Nat
    OBVIOUS
<1>1. Cardinality(S) \in Nat
    BY FS_CardinalityType
<1>2. ASSUME NEW i \in Nat
      PROVE  /\ IsFiniteSet(Upto(i)) /\ Rank(S, i) = Cardinality(Upto(i))
             /\ Rank(S, i) \in Nat /\ Rank(S, i) <= Cardinality(S)
    <2>1. Upto(i) \in SUBSET S
        OBVIOUS
    <2> QED
        BY <2>1, FS_Subset, FS_CardinalityType DEF Rank
<1>3. ASSUME NEW i \in S PROVE Rank(S, i) # 0
    <2>1. i \in Upto(i)
        OBVIOUS
    <2> HIDE DEF Upto
    <2> QED
        BY <2>1, <1>2, FS_EmptySet
<1>4. ASSUME NEW i \in S, NEW j \in S, i < j PROVE Rank(S, i) < Rank(S, j)
    <2>1. Upto(i) \in SUBSET Upto(j) /\ j \in Upto(j) /\ j \notin Upto(i)
        <3>1. \A x \in S : x <= i => x <= j
            BY <1>0, <1>4
        <3>2. i \in Nat /\ j \in Nat /\ j <= j /\ ~(j <= i)
            BY <1>0, <1>4
        <3> QED
            BY <3>1, <3>2
    <2> HIDE DEF Upto
    <2>2. Cardinality(Upto(i)) <= Cardinality(Upto(j)) /\ Cardinality(Upto(i)) # Cardinality(Upto(j))
        BY <2>1, <1>2, FS_Subset
    <2> QED
        BY <1>0, <2>2, <1>2
<1>5. ASSUME NEW i \in S PROVE Rank(S, i) \in 1..Cardinality(S)
    <2>1. Rank(S, i) \in Nat /\ Rank(S, i) <= Cardinality(S) /\ Rank(S, i) # 0
        BY <1>0, <1>2, <1>3
    <2> QED
        BY <1>1, <2>1
<1> QED
    BY <1>1, <1>4, <1>5

\* InOrder enumerates the members of S in their order.
LEMMA InOrderEnumerates ==
    ASSUME NEW S \in SUBSET Nat, IsFiniteSet(S)
    PROVE  /\ Cardinality(S) \in Nat
           /\ InOrder(S) \in [1..Cardinality(S) -> S]
           /\ \A i \in S : InOrder(S)[Rank(S, i)] = i /\ Rank(S, i) \in 1..Cardinality(S)
           /\ \A n \in 1..Cardinality(S) : Rank(S, InOrder(S)[n]) = n
           /\ \A m, n \in 1..Cardinality(S) : m < n => InOrder(S)[m] < InOrder(S)[n]
<1> DEFINE K == 1..Cardinality(S)
           rank == [i \in S |-> Rank(S, i)]
<1>1. Cardinality(S) \in Nat /\ rank \in [S -> K]
    BY RankOrder
<1>2. \A i, j \in S : Rank(S, i) = Rank(S, j) => i = j
    BY RankOrder
<1>3. rank \in Injection(S, K)
    BY <1>1, <1>2 DEF Injection, IsInjective
<1>4. IsFiniteSet(K) /\ Cardinality(K) = Cardinality(S)
    BY <1>1, FS_Interval
<1>5. rank \in Surjection(S, K)
    BY <1>3, <1>4, FS_Injection
<1>6. \A n \in K : \E i \in S : Rank(S, i) = n
    BY <1>5 DEF Surjection
<1>7. \A n \in K : InOrder(S)[n] \in S /\ Rank(S, InOrder(S)[n]) = n
    BY <1>6 DEF InOrder
<1>8. \A i \in S : InOrder(S)[Rank(S, i)] = i /\ Rank(S, i) \in K
    BY <1>1, <1>2, <1>7, RankOrder
<1>9. ASSUME NEW m \in K, NEW n \in K, m < n PROVE InOrder(S)[m] < InOrder(S)[n]
    <2>1. InOrder(S)[m] \in Nat /\ InOrder(S)[n] \in Nat
        BY <1>7
    <2>2. ~(InOrder(S)[n] < InOrder(S)[m]) /\ InOrder(S)[n] # InOrder(S)[m]
        <3>1. /\ Rank(S, InOrder(S)[m]) = m /\ Rank(S, InOrder(S)[n]) = n
              /\ InOrder(S)[m] \in S /\ InOrder(S)[n] \in S
            BY <1>7
        <3>2. ~(n < m) /\ m # n
            BY <1>1, <1>9
        <3> QED
            BY <3>1, <3>2, RankOrder
    <2> QED
        BY <2>1, <2>2
<1> QED
    BY <1>1, <1>7, <1>8, <1>9 DEF InOrder

\* A sequence of whatever values.
IsSequence(s) == \E S : s \in Seq(S)

\* A sequence is a function on the numbers up to its length.
LEMMA SequenceFacts ==
    ASSUME NEW s, IsSequence(s)
    PROVE  Len(s) \in Nat /\ DOMAIN s = 1..Len(s)
BY LenProperties DEF IsSequence

\* The empty one.
LEMMA EmptySequence == IsSequence(<<>>) /\ Len(<<>>) = 0
BY DEF IsSequence

\* One of a single element.
LEMMA SequenceOfOne ==
    ASSUME NEW e
    PROVE  IsSequence(<<e>>) /\ Len(<<e>>) = 1 /\ <<e>>[1] = e
<1>1. <<e>> \in Seq({e})
    OBVIOUS
<1> QED
    BY <1>1 DEF IsSequence

\* Append adds a last element and leaves the others where they are.
LEMMA AppendedSequence ==
    ASSUME NEW s, IsSequence(s), NEW e
    PROVE  /\ IsSequence(Append(s, e))
           /\ Len(Append(s, e)) = Len(s) + 1
           /\ \A i \in 1..Len(s) : Append(s, e)[i] = s[i]
           /\ Append(s, e)[Len(s) + 1] = e
<1>1. PICK S : s \in Seq(S)
    BY DEF IsSequence
<1>2. s \in Seq(S \cup {e})
    BY <1>1, SeqMonotonic
<1> QED
    BY <1>2, AppendProperties DEF IsSequence

\* A function on the numbers up to n is a sequence of length n.
LEMMA SequenceUpTo ==
    ASSUME NEW n \in Nat, NEW t, t = [i \in 1..n |-> t[i]]
    PROVE  IsSequence(t) /\ Len(t) = n /\ DOMAIN t = 1..n
<1> DEFINE T == {t[i] : i \in 1..n}
<1>1. t \in [1..n -> T]
    OBVIOUS
<1>2. t \in Seq(T)
    BY <1>1, SeqDef
<1> HIDE DEF T
<1>3. Len(t) \in Nat /\ 1..Len(t) = 1..n
    BY <1>1, <1>2, LenProperties
<1>4. Len(t) = n
    BY <1>3
<1> QED
    BY <1>1, <1>2, <1>4 DEF IsSequence

\* What is computed for each place of a sequence is a sequence as long.
LEMMA SequenceLike ==
    ASSUME NEW s, IsSequence(s), NEW t, t = [i \in DOMAIN s |-> t[i]]
    PROVE  IsSequence(t) /\ Len(t) = Len(s)
<1>1. Len(s) \in Nat /\ t = [i \in 1..Len(s) |-> t[i]]
    BY SequenceFacts
<1> QED
    BY <1>1, SequenceUpTo

\* Without its last element a sequence is one shorter and otherwise the same.
LEMMA ShortenedSequence ==
    ASSUME NEW s, IsSequence(s), s # <<>>
    PROVE  LET t == SubSeq(s, 1, Len(s) - 1)
           IN  /\ IsSequence(t)
               /\ Len(t) = Len(s) - 1 /\ Len(s) \in Nat \ {0}
               /\ \A i \in 1..Len(s) - 1 : t[i] = s[i]
<1>1. PICK S : s \in Seq(S)
    BY DEF IsSequence
<1>2. Len(s) \in Nat \ {0} /\ \A i \in 1..Len(s) : s[i] \in S
    BY <1>1, EmptySeq, LenProperties
<1> DEFINE t == SubSeq(s, 1, Len(s) - 1)
<1>3. t \in Seq(S) /\ Len(t) = Len(s) - 1 /\ \A i \in 1..Len(s) - 1 : t[i] = s[i]
    <2> DEFINE m == Len(s) - 1
    <2>1. 1 \in Int /\ m \in Int /\ (\A i \in 1..m : s[i] \in S) /\ m \in Nat
        BY <1>2
    <2> HIDE DEF m
    <2>2. /\ SubSeq(s, 1, m) \in Seq(S)
          /\ Len(SubSeq(s, 1, m)) = IF 1 <= m THEN m - 1 + 1 ELSE 0
          /\ \A i \in 1..m - 1 + 1 : SubSeq(s, 1, m)[i] = s[1 + i - 1]
        BY <2>1, SubSeqProperties
    <2>3. \A i \in 1..m : SubSeq(s, 1, m)[i] = s[i]
        BY <2>1, <2>2
    <2>4. Len(SubSeq(s, 1, m)) = m /\ SubSeq(s, 1, m) \in Seq(S)
        BY <2>1, <2>2
    <2> QED
        BY <2>3, <2>4 DEF m
<1> QED
    BY <1>2, <1>3 DEF IsSequence

\* The numbers up to n are n in number.
LEMMA IntervalUpTo ==
    ASSUME NEW n \in Nat
    PROVE  IsFiniteSet(1..n) /\ Cardinality(1..n) = n
<1>1. 1 \in Int /\ n \in Int /\ (IF 1 > n THEN 0 ELSE n - 1 + 1) = n
    OBVIOUS
<1> QED
    BY <1>1, FS_Interval

\* A set of indices is finite.
LEMMA IndexSet ==
    ASSUME NEW n \in Nat, NEW K \in SUBSET (1..n)
    PROVE  IsFiniteSet(K) /\ K \in SUBSET Nat /\ Cardinality(K) \in Nat /\ Cardinality(K) <= n
<1> DEFINE I == 1..n
<1>1. I \in SUBSET Nat /\ IsFiniteSet(I) /\ Cardinality(I) = n
    BY FS_Interval
<1> HIDE DEF I
<1>2. K \in SUBSET I
    BY DEF I
<1>3. IsFiniteSet(K) /\ Cardinality(K) <= Cardinality(I)
    BY <1>1, <1>2, FS_Subset
<1> QED
    BY <1>1, <1>2, <1>3, FS_CardinalityType

\* A set of numbers has a least member.
LEMMA LeastNumber ==
    ASSUME NEW T \in SUBSET Nat, NEW n \in T
    PROVE  \E m \in T : \A k \in T : m <= k
<1> DEFINE S == {k \in T : k <= n}
           C == Cardinality(S)
           m == InOrder(S)[1]
<1>0. n \in Nat /\ n <= n /\ \A k \in T : k \in Nat
    OBVIOUS
<1>1. n \in Nat /\ (\A k \in T : k \in Nat) /\ S \in SUBSET Nat /\ n \in S
    BY <1>0
<1>2. IsFiniteSet(S)
    BY <1>1, FS_BoundedSetOfNaturals
<1> HIDE DEF S
<1>3. /\ C \in Nat /\ InOrder(S) \in [1..C -> S]
      /\ \A i \in S : InOrder(S)[Rank(S, i)] = i /\ Rank(S, i) \in 1..C
      /\ \A k, l \in 1..C : k < l => InOrder(S)[k] < InOrder(S)[l]
    BY <1>1, <1>2, InOrderEnumerates
<1>4. C # 0
    BY <1>1, <1>2, FS_EmptySet
<1>5. 1 \in 1..C
    BY <1>3, <1>4
<1>6. m \in S
    BY <1>3, <1>5
<1>7. ASSUME NEW j \in S PROVE m <= j
    <2>1. Rank(S, j) \in 1..C /\ InOrder(S)[Rank(S, j)] = j
        BY <1>3
    <2>2. CASE Rank(S, j) = 1
        <3>1. j = m /\ m \in Nat
            BY <1>1, <1>6, <2>1, <2>2
        <3> HIDE DEF m
        <3> QED
            BY <3>1
    <2>3. CASE 1 < Rank(S, j)
        <3>1. m < j /\ m \in Nat /\ j \in Nat
            BY <1>1, <1>3, <1>5, <1>6, <2>1, <2>3
        <3> HIDE DEF m
        <3> QED
            BY <3>1
    <2> QED
        BY <1>3, <2>1, <2>2, <2>3
<1> HIDE DEF m
<1>8. ASSUME NEW j \in T PROVE m <= j
    <2>1. CASE j <= n
        BY <1>7, <2>1 DEF S
    <2>2. CASE ~(j <= n)
        <3>1. m <= n /\ m \in Nat /\ j \in Nat
            BY <1>1, <1>6, <1>7
        <3> QED
            BY <1>1, <2>2, <3>1
    <2> QED
        BY <2>1, <2>2
<1>9. m \in T
    BY <1>6 DEF S
<1> QED
    BY <1>8, <1>9

\* What is built step by step, as a function of how far it is.
Built(g, N, D, base, step) ==
    g \in [0..N -> D] /\ g[0] = base /\ \A k \in 1..N : g[k] = step[k][g[k - 1]]

\* A function defined by steps from a base exists: the folds of the model are one.
LEMMA RecursionExists ==
    ASSUME NEW N \in Nat, NEW D, NEW base \in D, NEW step \in [1..N -> [D -> D]]
    PROVE  \E g : Built(g, N, D, base, step)
<1> DEFINE Upto(n, g) == g \in [0..n -> D] /\ g[0] = base /\ \A k \in 1..n : g[k] = step[k][g[k - 1]]
           T == {n \in 0..N : ~ \E g : Upto(n, g)}
<1>1. SUFFICES T = {}
    <2>1. N \in 0..N
        OBVIOUS
    <2>2. T = {} => \E g : Upto(N, g)
        BY <2>1
    <2> QED
        BY <1>1, <2>2 DEF Built
<1>2. SUFFICES ASSUME T # {} PROVE FALSE
    OBVIOUS
<1>3. T \in SUBSET Nat
    OBVIOUS
<1> HIDE DEF T
<1>4. PICK m \in T : \A k \in T : m <= k
    BY <1>2, <1>3, LeastNumber
<1>5. m # 0
    <2>1. Upto(0, [k \in 0..0 |-> base])
        OBVIOUS
    <2> QED
        BY <1>4, <2>1 DEF T
<1>6. m \in 1..N /\ m - 1 \in 0..N /\ m - 1 \notin T
    <2>1. m \in 0..N
        BY <1>4 DEF T
    <2>2. ~(m <= m - 1)
        BY <2>1
    <2> QED
        BY <1>4, <1>5, <2>1, <2>2
<1>7. PICK g : Upto(m - 1, g)
    BY <1>6 DEF T
<1> DEFINE h == [k \in 0..m |-> IF k = m THEN step[m][g[m - 1]] ELSE g[k]]
<1>8. Upto(m, h)
    <2>1. g[m - 1] \in D /\ m - 1 \in 0..m - 1
        BY <1>6, <1>7
    <2>2. step[m][g[m - 1]] \in D
        BY <1>6, <2>1
    <2>3. \A k \in 0..m : k # m => k \in 0..m - 1
        BY <1>6
    <2>4. h \in [0..m -> D]
        BY <1>7, <2>2, <2>3
    <2>5. h[0] = base
        BY <1>6, <1>7
    <2>6. ASSUME NEW k \in 1..m PROVE h[k] = step[k][h[k - 1]]
        <3>1. k - 1 \in 0..m /\ k - 1 # m /\ k \in 0..m
            BY <1>6
        <3>2. h[k - 1] = g[k - 1]
            BY <3>1
        <3>3. CASE k = m
            BY <3>1, <3>2, <3>3
        <3>4. CASE k # m
            <4>1. k \in 1..m - 1
                BY <1>6, <3>4
            <4> QED
                BY <1>7, <3>1, <3>2, <3>4, <4>1
        <3> QED
            BY <3>3, <3>4
    <2> QED
        BY <2>4, <2>5, <2>6
<1> QED
    BY <1>4, <1>8 DEF T

\* What holds at 0 and is kept by each step up to N.
LEMMA StepByStep ==
    ASSUME NEW N \in Nat, NEW S, 0 \in S, \A n \in 1..N : n - 1 \in S => n \in S
    PROVE  \A n \in 0..N : n \in S
<1> DEFINE T == {n \in 0..N : n \notin S}
<1>1. SUFFICES ASSUME T # {} PROVE FALSE
    OBVIOUS
<1>2. T \in SUBSET Nat
    OBVIOUS
<1>3. PICK m \in T : \A k \in T : m <= k
    <2> HIDE DEF T
    <2> QED
        BY <1>1, <1>2, LeastNumber
<1>4. m \in 1..N /\ m \notin S
    BY <1>3
<1>5. m - 1 \in 0..N /\ ~(m <= m - 1)
    BY <1>4
<1>6. m - 1 \in S
    BY <1>3, <1>5
<1> QED
    BY <1>4, <1>6

\* Numbers that increase are in order.
LEMMA InOrderOfIncreasing ==
    ASSUME NEW N \in Nat, NEW s \in [1..N -> Nat], \A m, n \in 1..N : m < n => s[m] < s[n]
    PROVE  LET S == {s[n] : n \in 1..N}
           IN  /\ IsFiniteSet(S) /\ S \in SUBSET Nat /\ Cardinality(S) = N
               /\ InOrder(S) = s
<1> DEFINE S == {s[n] : n \in 1..N}
           rank == [n \in 1..N |-> Rank(S, s[n])]
<1>1. \A m, n \in 1..N : s[m] = s[n] => m = n
    <2> SUFFICES ASSUME NEW m \in 1..N, NEW n \in 1..N, s[m] = s[n], m # n PROVE FALSE
        OBVIOUS
    <2>1. m < n \/ n < m
        OBVIOUS
    <2>2. s[m] \in Nat /\ s[n] \in Nat
        OBVIOUS
    <2> QED
        BY <2>1, <2>2
<1>2. /\ \A x : x \in S <=> \E n \in 1..N : s[n] = x
      /\ S \in SUBSET Nat
    OBVIOUS
<1> HIDE DEF S
<1>3. s \in Bijection(1..N, S)
    <2>1. s \in [1..N -> S]
        BY <1>2
    <2> QED
        BY <1>1, <1>2, <2>1 DEF Bijection, Injection, IsInjective, Surjection
<1>4. IsFiniteSet(1..N) /\ Cardinality(1..N) = N
    BY FS_Interval
<1>5. IsFiniteSet(S) /\ Cardinality(S) = N
    <2>1. ExistsBijection(1..N, S)
        BY <1>3 DEF ExistsBijection
    <2>2. Cardinality(S) = N
        BY <2>1, FS_CountingElements
    <2>3. s \in Surjection(1..N, S)
        BY <1>3 DEF Bijection
    <2> QED
        BY <1>4, <2>2, <2>3, FS_Surjection
<1>6. ASSUME NEW n \in 1..N PROVE Rank(S, s[n]) = n
    <2> DEFINE U == {j \in S : j <= s[n]}
    <2>1. \A m \in 1..N : s[m] <= s[n] <=> m <= n
        <3> SUFFICES ASSUME NEW m \in 1..N PROVE s[m] <= s[n] <=> m <= n
            OBVIOUS
        <3>1. s[m] \in Nat /\ s[n] \in Nat /\ (m < n => s[m] < s[n]) /\ (n < m => s[n] < s[m])
            OBVIOUS
        <3>2. m < n \/ n < m \/ m = n
            OBVIOUS
        <3> QED
            BY <3>1, <3>2
    <2>2. \A x : x \in U <=> \E m \in 1..n : s[m] = x
        BY <1>2, <2>1
    <2> HIDE DEF U
    <2> DEFINE t == [m \in 1..n |-> s[m]]
    <2>3. t \in Bijection(1..n, U)
        <3>1. t \in [1..n -> U]
            BY <2>2
        <3>2. \A m, k \in 1..n : t[m] = t[k] => m = k
            BY <1>1
        <3> QED
            BY <2>2, <3>1, <3>2 DEF Bijection, Injection, IsInjective, Surjection
    <2>4. ExistsBijection(1..n, U)
        BY <2>3 DEF ExistsBijection
    <2>5. Cardinality(U) = n
        BY <2>4, FS_CountingElements
    <2> QED
        BY <2>5 DEF Rank, U
<1>7. ASSUME NEW n \in 1..N PROVE InOrder(S)[n] = s[n]
    <2>1. s[n] \in S
        BY <1>2
    <2>2. InOrder(S)[Rank(S, s[n])] = s[n]
        BY <1>2, <1>5, <2>1, InOrderEnumerates
    <2> QED
        BY <1>6, <2>2
<1>8. InOrder(S) \in [1..N -> S]
    BY <1>2, <1>5, InOrderEnumerates
<1> QED
    BY <1>2, <1>5, <1>7, <1>8 DEF S

\* All numbers up to N, in order, are just those.
LEMMA InOrderOfAll ==
    ASSUME NEW N \in Nat
    PROVE  InOrder(1..N) = [n \in 1..N |-> n] /\ Cardinality(1..N) = N
<1> DEFINE s == [n \in 1..N |-> n]
<1>1. s \in [1..N -> Nat] /\ (\A m, n \in 1..N : m < n => s[m] < s[n])
    OBVIOUS
<1>2. {s[n] : n \in 1..N} = 1..N
    OBVIOUS
<1> HIDE DEF s
<1> QED
    BY <1>1, <1>2, InOrderOfIncreasing DEF s

-----------------------------------------------------------------------------
(* The preview.                                                            *)

\* Block b stands in the place of element n of report r, and shows it.
RightBlock(b, n, r) ==
    /\ b.element = n
    /\ b.shows \in {"rows", "raw"} => b.of = n
    /\ b.shows = "report" => /\ b.of = Elements(r)[n].sub
                             /\ Len(b.inner) = Len(Elements(b.of))

\* A frame of the preview has shown the first elements of its report, one block each.
RightFrame(f) ==
    /\ f = [report |-> f.report, conn |-> f.conn, shown |-> f.shown]
    /\ f.report \in DOMAIN Definition
    /\ IsSequence(f.shown)
    /\ Len(f.shown) <= Len(Elements(f.report))
    /\ \A n \in 1..Len(f.shown) : RightBlock(f.shown[n], n, f.report)

\* Frame f waits for g, the sub-report in the place of its next element.
Awaits(f, g) ==
    /\ Len(f.shown) < Len(Elements(f.report))
    /\ g.report = Elements(f.report)[Len(f.shown) + 1].sub

\* Each frame but the last awaits the sub-report above it, in the place it has
\* reached.
RightFrames(fs) ==
    /\ IsSequence(fs)
    /\ Len(fs) <= MaxDepth
    /\ \A d \in 1..Len(fs) : RightFrame(fs[d])
    /\ \A d \in 1..Len(fs) - 1 : Awaits(fs[d], fs[d + 1])

-----------------------------------------------------------------------------
(* The export.                                                             *)

\* What was fetched is found under the key of the element it was fetched for,
\* and an element that has a key finds its own.
KeysMatch ==
    /\ \A d \in DOMAIN data : sourceKey[data[d].element] = d - 1
    /\ \A i \in DOMAIN sourceKey : sourceKey[i] # None =>
          sourceKey[i] < Len(data) /\ data[sourceKey[i] + 1].element = i

\* The export has passed `at' elements; its data are of these.
FetchedSoFar ==
    IF export = NoExport THEN at = 0 /\ data = <<>> /\ sourceKey = <<>>
    ELSE /\ export \in [report : DOMAIN Definition, format : Formats]
         /\ at \in 0..Len(Elements(export.report))
         /\ sourceKey \in [1..Len(Elements(export.report)) -> Nat \cup {None}]
         /\ data \in Seq([element : 1..at, some : BOOLEAN])
         /\ KeysMatch

-----------------------------------------------------------------------------
\* A request is a preview or an export, and is answered once.
Stages ==
    /\ phase = "idle" => stack = <<>> /\ export = NoExport /\ page = NoPage
    /\ phase = "preview" => stack # <<>> /\ export = NoExport /\ page = NoPage
    /\ phase = "fetch" => stack = <<>> /\ export # NoExport /\ page = NoPage
    /\ phase = "done" => page # NoPage

\* The inductive invariant of Rendering.
RenderingCore ==
    /\ usable \subseteq Databases
    /\ phase \in {"idle", "preview", "fetch", "done"}
    /\ Stages
    /\ RightFrames(stack)
    /\ FetchedSoFar
    /\ EachShowsItsOwn

\* The elements of a report, as sequences of records.
LEMMA ElementsOfReport ==
    ASSUME NEW r \in DOMAIN Definition
    PROVE  /\ Len(Elements(r)) \in Nat
           /\ DOMAIN Elements(r) = 1..Len(Elements(r))
           /\ \A n \in 1..Len(Elements(r)) :
                 Elements(r)[n] \in [type : ElementTypes, band : STRING, query : BOOLEAN,
                                     sub : DOMAIN Definition \cup {None}, mode : STRING]
<1>1. Elements(r) \in Seq([type : ElementTypes, band : STRING, query : BOOLEAN,
                           sub : DOMAIN Definition \cup {None}, mode : STRING])
    BY RenderingAssumption DEF Elements
<1> QED
    BY <1>1, LenProperties

\* A page that is answered is neither none nor the error page.
LEMMA FormatsDiffer ==
    /\ \A r, f, b : f \in Formats \cup {"preview"} => Page(r, f, b) \notin {NoPage, ErrorPage}
    /\ \A e \in [report : DOMAIN Definition, format : Formats] : e # NoExport
    /\ ErrorPage # NoPage
<1>1. \A r, f, b : Page(r, f, b).format = f
    BY DEF Page
<1>2. NoPage.format = "none" /\ ErrorPage.format = "error"
    BY DEF Page, NoPage, ErrorPage
<1>3. NoExport.format = "none"
    BY DEF NoExport
<1> QED
    BY <1>1, <1>2, <1>3 DEF Formats

\* Nothing is shown, fetched or answered at first.
LEMMA RenderingStarts == RenderingInit => RenderingCore
<1>1. DOMAIN <<>> = {} /\ Len(<<>>) = 0
    OBVIOUS
<1> QED
    BY <1>1, EmptySequence, RenderingAssumption DEF RenderingInit, RenderingCore, Stages, RightFrames,
       FetchedSoFar, EachShowsItsOwn, NoPage

\* The inductive invariant implies the type invariant.
LEMMA RenderingTyped == RenderingCore => RenderingTypeOK
<1> SUFFICES ASSUME RenderingCore PROVE RenderingTypeOK
    OBVIOUS
<1>1. (phase = "preview") = (stack # <<>> /\ page = NoPage)
    BY DEF RenderingCore, Stages
<1>2. ASSUME NEW d \in DOMAIN stack PROVE Len(stack[d].shown) <= Len(Elements(stack[d].report))
    BY SequenceFacts DEF RenderingCore, RightFrames, RightFrame
<1>3. CASE export = NoExport
    <2>1. DOMAIN data = {} /\ DOMAIN sourceKey = {}
        BY <1>3 DEF RenderingCore, FetchedSoFar
    <2> QED
        BY <1>1, <1>2, <2>1 DEF RenderingCore, RenderingTypeOK, RightFrames
<1>4. CASE export # NoExport
    <2>0. data \in Seq([element : 1..at, some : BOOLEAN]) /\ KeysMatch /\ at \in Nat
          /\ DOMAIN sourceKey = 1..Len(Elements(export.report))
          /\ sourceKey \in [1..Len(Elements(export.report)) -> Nat \cup {None}]
        BY <1>4, ElementsOfReport DEF RenderingCore, FetchedSoFar
    <2>1. ASSUME NEW d \in DOMAIN data PROVE data[d].element <= at
        <3> DEFINE T == [element : 1..at, some : BOOLEAN]
        <3>1. data \in Seq(T) /\ at \in Nat
            BY <2>0
        <3> HIDE DEF T
        <3>2. data[d] \in T
            BY <3>1
        <3> QED
            BY <3>1, <3>2 DEF T
    <2>2. ASSUME NEW i \in DOMAIN sourceKey, sourceKey[i] # None
          PROVE  sourceKey[i] \in 0..Len(data) - 1
        BY <2>0, <2>2 DEF KeysMatch
    <2> QED
        BY <1>1, <1>2, <2>1, <2>2 DEF RenderingCore, RenderingTypeOK, RightFrames
<1> QED
    BY <1>3, <1>4

-----------------------------------------------------------------------------
(* What the steps of a preview do to the stack of frames.                  *)

\* The innermost frame is a right one.
LEMMA LastFrame ==
    ASSUME NEW fs, RightFrames(fs), fs # <<>>
    PROVE  Len(fs) \in 1..MaxDepth /\ RightFrame(fs[Len(fs)])
<1>1. Len(fs) \in Nat \ {0}
    BY ShortenedSequence DEF RightFrames
<1> QED
    BY <1>1, RenderingAssumption DEF RightFrames

\* The next element of the innermost report is shown.
LEMMA NextShown ==
    ASSUME NEW fs, RightFrames(fs), fs # <<>>, NEW b,
           LET f == fs[Len(fs)]
           IN  /\ Len(f.shown) + 1 <= Len(Elements(f.report))
               /\ RightBlock(b, Len(f.shown) + 1, f.report)
    PROVE  RightFrames(Append1(fs, b)) /\ Append1(fs, b) # <<>>
<1> DEFINE k == Len(fs)
           f == fs[k]
           g == [f EXCEPT !.shown = Append(f.shown, b)]
           gs == [fs EXCEPT ![k] = g]
<1>1. Append1(fs, b) = gs
    BY DEF Append1
<1>2. k \in 1..MaxDepth /\ k \in 1..k /\ RightFrame(f) /\ IsSequence(fs) /\ MaxDepth \in Nat
    BY LastFrame, RenderingAssumption DEF RightFrames
<1>3. /\ g.report = f.report /\ g.conn = f.conn /\ g.shown = Append(f.shown, b)
      /\ g = [report |-> g.report, conn |-> g.conn, shown |-> g.shown]
    BY <1>2 DEF RightFrame
<1>4. RightFrame(g)
    <2>1. /\ IsSequence(g.shown) /\ Len(g.shown) = Len(f.shown) + 1 /\ Len(f.shown) \in Nat
          /\ \A n \in 1..Len(f.shown) : g.shown[n] = f.shown[n]
          /\ g.shown[Len(f.shown) + 1] = b
        BY <1>2, <1>3, AppendedSequence, SequenceFacts DEF RightFrame
    <2>2. \A n \in 1..Len(g.shown) : RightBlock(g.shown[n], n, g.report)
        BY <1>2, <1>3, <2>1 DEF RightFrame
    <2> QED
        BY <1>2, <1>3, <2>1, <2>2 DEF RightFrame
<1> HIDE DEF g
<1>5. /\ IsSequence(gs) /\ Len(gs) = k /\ gs[k] = g
      /\ \A d \in 1..k : d # k => gs[d] = fs[d]
    <2>1. IsSequence(fs) /\ DOMAIN fs = 1..k /\ k \in DOMAIN fs
        BY <1>2, SequenceFacts
    <2>2. gs = [d \in DOMAIN fs |-> gs[d]]
        OBVIOUS
    <2>3. gs[k] = g /\ \A d \in 1..k : d # k => gs[d] = fs[d]
        BY <2>1
    <2> HIDE DEF gs
    <2> QED
        BY <2>1, <2>2, <2>3, SequenceLike
<1> HIDE DEF gs
<1>6. \A d \in 1..Len(gs) : RightFrame(gs[d])
    BY <1>4, <1>5 DEF RightFrames
<1>7. ASSUME NEW d \in 1..Len(gs) - 1 PROVE Awaits(gs[d], gs[d + 1])
    <2>1. d \in 1..k - 1 /\ d # k /\ d \in 1..k /\ d + 1 \in 1..k
        BY <1>2, <1>5
    <2>2. Awaits(fs[d], fs[d + 1])
        BY <2>1 DEF RightFrames
    <2>3. gs[d] = fs[d] /\ gs[d + 1].report = fs[d + 1].report
        BY <1>3, <1>5, <2>1 DEF g
    <2> QED
        BY <2>2, <2>3 DEF Awaits
<1>8. gs # <<>>
    BY <1>2, <1>5
<1> QED
    BY <1>1, <1>2, <1>5, <1>6, <1>7, <1>8 DEF RightFrames

\* A sub-report is entered.
LEMMA SubreportEntered ==
    ASSUME NEW fs, RightFrames(fs), fs # <<>>, Len(fs) < MaxDepth,
           NEW g, RightFrame(g), Awaits(fs[Len(fs)], g)
    PROVE  RightFrames(Append(fs, g)) /\ Append(fs, g) # <<>>
<1> DEFINE gs == Append(fs, g)
<1>1. /\ Len(fs) \in Nat \ {0} /\ MaxDepth \in Nat
      /\ IsSequence(gs) /\ Len(gs) = Len(fs) + 1 /\ gs[Len(fs) + 1] = g
      /\ \A d \in 1..Len(fs) : gs[d] = fs[d]
    BY LastFrame, AppendedSequence, RenderingAssumption DEF RightFrames
<1> HIDE DEF gs
<1>2. \A d \in 1..Len(gs) : RightFrame(gs[d])
    BY <1>1 DEF RightFrames
<1>3. ASSUME NEW d \in 1..Len(gs) - 1 PROVE Awaits(gs[d], gs[d + 1])
    BY <1>1 DEF RightFrames
<1>4. gs # <<>>
    BY <1>1
<1> QED
    BY <1>1, <1>2, <1>3, <1>4 DEF RightFrames, gs

\* The innermost report is left.
LEMMA ReportLeft ==
    ASSUME NEW fs, RightFrames(fs), fs # <<>>, Len(fs) > 1
    PROVE  LET gs == SubSeq(fs, 1, Len(fs) - 1)
           IN  /\ RightFrames(gs) /\ gs # <<>>
               /\ Awaits(gs[Len(gs)], fs[Len(fs)])
<1> DEFINE gs == SubSeq(fs, 1, Len(fs) - 1)
<1>1. /\ Len(fs) \in Nat \ {0} /\ MaxDepth \in Nat
      /\ IsSequence(gs) /\ Len(gs) = Len(fs) - 1
      /\ \A d \in 1..Len(fs) - 1 : gs[d] = fs[d]
    BY ShortenedSequence, RenderingAssumption DEF RightFrames
<1> HIDE DEF gs
<1>2. \A d \in 1..Len(gs) : RightFrame(gs[d])
    BY <1>1 DEF RightFrames
<1>3. ASSUME NEW d \in 1..Len(gs) - 1 PROVE Awaits(gs[d], gs[d + 1])
    BY <1>1 DEF RightFrames
<1>4. gs # <<>> /\ Len(gs) \in 1..Len(fs) - 1
    BY <1>1
<1>5. Awaits(gs[Len(gs)], fs[Len(fs)])
    BY <1>1, <1>4 DEF RightFrames
<1> QED
    BY <1>1, <1>2, <1>3, <1>4, <1>5 DEF RightFrames, gs

-----------------------------------------------------------------------------
(* The steps of a preview.                                                  *)

\* While a preview runs, the innermost frame is a right one.
LEMMA Previewing ==
    ASSUME RenderingCore, phase = "preview"
    PROVE  /\ RightFrames(stack) /\ stack # <<>> /\ Len(stack) \in 1..MaxDepth
           /\ RightFrame(Top) /\ Top.report \in DOMAIN Definition
           /\ Len(Top.shown) \in Nat /\ Here = Len(Top.shown) + 1
           /\ export = NoExport /\ page = NoPage
BY LastFrame, SequenceFacts DEF RenderingCore, Stages, Top, Here, RightFrame

\* What becomes of the invariant in a step of a preview that leaves it running.
LEMMA PreviewGoesOn ==
    ASSUME RenderingCore, phase = "preview", phase' = "preview",
           RightFrames(stack'), stack' # <<>>, UNCHANGED <<usable, fetch, page>>
    PROVE  RenderingCore'
<1>1. FetchedSoFar'
    BY DEF RenderingCore, FetchedSoFar, KeysMatch, fetch
<1>2. EachShowsItsOwn'
    BY DEF RenderingCore, EachShowsItsOwn, Stages
<1>3. Stages'
    BY DEF RenderingCore, Stages, fetch
<1> QED
    BY <1>1, <1>2, <1>3 DEF RenderingCore, RightFrames, RightFrame, RightBlock, Awaits

\* A block in the place of the next element of the innermost report.
LEMMA BlockShown ==
    ASSUME RenderingCore, phase = "preview", NEW b,
           Here <= Len(Elements(Top.report)), RightBlock(b, Here, Top.report),
           stack' = Append1(stack, b), UNCHANGED <<usable, phase, fetch, page>>
    PROVE  RenderingCore'
<1>1. RightFrames(stack) /\ stack # <<>>
    BY Previewing
<1>2. RightFrames(Append1(stack, b)) /\ Append1(stack, b) # <<>>
    BY <1>1, NextShown DEF Top, Here
<1> QED
    BY <1>2, PreviewGoesOn

\* What a block that is no report shows is its own element.
LEMMA PlainIsRight ==
    ASSUME NEW n, NEW shows, shows # "report", NEW r
    PROVE  RightBlock(Plain(n, shows), n, r)
BY DEF RightBlock, Plain, Block

\* The elements that are shown in place: text, tables, charts, crosstabs, and the
\* sub-reports that are passed over.
LEMMA ElementShown ==
    ASSUME RenderingCore,
           ShowText \/ ShowTable \/ ShowChart \/ ShowCrosstab \/ PassOverSubreport
    PROVE  RenderingCore'
<1>1. /\ phase = "preview" /\ Here <= Len(Elements(Top.report))
      /\ UNCHANGED <<usable, phase, fetch, page>>
      /\ \E shows \in {"itself", "rows", "raw", "note"} :
            stack' = Append1(stack, Plain(Here, shows))
    BY DEF ShowText, ShowTable, ShowChart, ShowCrosstab, PassOverSubreport, At, Show
<1>2. PICK shows \in {"itself", "rows", "raw", "note"} :
            stack' = Append1(stack, Plain(Here, shows))
    BY <1>1
<1>3. RightBlock(Plain(Here, shows), Here, Top.report)
    BY <1>2, PlainIsRight
<1> QED
    BY <1>1, <1>2, <1>3, BlockShown

\* preview_report opens with one empty frame, or answers an error.
LEMMA PreviewOpened ==
    ASSUME RenderingCore, NEW r \in DOMAIN Definition, OpenPreview(r)
    PROVE  RenderingCore'
<1>1. /\ phase = "idle" /\ stack = <<>> /\ export = NoExport /\ page = NoPage
      /\ UNCHANGED <<usable, failed, fetch>>
    BY DEF OpenPreview, RenderingCore, Stages
<1>2. FetchedSoFar'
    BY <1>1 DEF RenderingCore, FetchedSoFar, KeysMatch, fetch
<1>3. RightFrames(<<>>) /\ RightFrames(<<Frame(r)>>) /\ <<Frame(r)>> # <<>>
    <2>1. Frame(r).shown = <<>> /\ Frame(r).report = r
        BY DEF Frame
    <2>2. RightFrame(Frame(r))
        BY <2>1, EmptySequence, ElementsOfReport DEF RightFrame, Frame
    <2> QED
        BY <2>2, EmptySequence, SequenceOfOne, RenderingAssumption DEF RightFrames
<1>4. CASE phase' = "preview" /\ stack' = <<Frame(r)>> /\ UNCHANGED page
    <2>1. EachShowsItsOwn'
        BY <1>1, <1>4 DEF EachShowsItsOwn
    <2>2. RightFrames(stack)'
        BY <1>3, <1>4 DEF RightFrames, RightFrame, RightBlock, Awaits
    <2> QED
        BY <1>1, <1>2, <1>3, <1>4, <2>1, <2>2 DEF RenderingCore, Stages, fetch
<1>5. CASE phase' = "done" /\ page' = ErrorPage /\ UNCHANGED stack
    <2>1. EachShowsItsOwn'
        BY <1>5 DEF EachShowsItsOwn
    <2>2. RightFrames(stack)'
        BY <1>1, <1>3, <1>5 DEF RightFrames, RightFrame, RightBlock, Awaits
    <2> QED
        BY <1>1, <1>2, <1>5, <2>1, <2>2, FormatsDiffer DEF RenderingCore, Stages, fetch
<1> QED
    BY <1>4, <1>5 DEF OpenPreview

\* The frame of a sub-report is awaited by the one below it.
LEMMA SubreportBegun ==
    ASSUME RenderingCore, EnterSubreport
    PROVE  RenderingCore'
<1>1. /\ RightFrames(stack) /\ stack # <<>> /\ RightFrame(Top) /\ phase = "preview"
      /\ Top.report \in DOMAIN Definition /\ Len(Top.shown) \in Nat /\ Here = Len(Top.shown) + 1
    BY Previewing DEF EnterSubreport, At
<1>2. Here <= Len(Elements(Top.report)) /\ Len(stack) < MaxDepth /\ Element.sub # None
    BY DEF EnterSubreport, At, Inline
<1>3. Element.sub \in DOMAIN Definition
    BY <1>1, <1>2, ElementsOfReport DEF Element
<1> DEFINE g == Frame(Element.sub)
<1>4. g.shown = <<>> /\ g.report = Element.sub /\ RightFrame(g)
    BY <1>3, EmptySequence, ElementsOfReport DEF RightFrame, Frame
<1>5. Awaits(Top, g)
    BY <1>1, <1>2, <1>4, ElementsOfReport DEF Awaits, Element
<1>6. stack' = Append(stack, g) /\ UNCHANGED <<usable, phase, fetch, page>>
    BY DEF EnterSubreport
<1> HIDE DEF g
<1>7. RightFrames(Append(stack, g)) /\ Append(stack, g) # <<>>
    BY <1>1, <1>2, <1>4, <1>5, SubreportEntered DEF Top
<1> QED
    BY <1>1, <1>6, <1>7, PreviewGoesOn

\* The sub-report's own element, shown in the report around it.
LEMMA OuterShown ==
    ASSUME RenderingCore, phase = "preview", Len(stack) > 1, NEW b,
           LET outer == Below[Len(Below)]
           IN  /\ stack' = Append1(Below, b)
               /\ Awaits(outer, Top) => RightBlock(b, Len(outer.shown) + 1, outer.report),
           UNCHANGED <<usable, phase, fetch, page>>
    PROVE  RenderingCore'
<1> DEFINE outer == Below[Len(Below)]
<1>1. RightFrames(stack) /\ stack # <<>>
    BY Previewing
<1>2. RightFrames(Below) /\ Below # <<>> /\ Awaits(outer, Top)
    BY <1>1, ReportLeft DEF Below, Top
<1>3. RightFrame(outer)
    BY <1>2, LastFrame
<1>4. Len(outer.shown) + 1 <= Len(Elements(outer.report))
    BY <1>2, <1>3, SequenceFacts, ElementsOfReport DEF Awaits, RightFrame
<1>5. RightFrames(Append1(Below, b)) /\ Append1(Below, b) # <<>>
    BY <1>2, <1>4, NextShown
<1> QED
    BY <1>5, PreviewGoesOn

\* A sub-report that is finished lands where it was awaited.
LEMMA SubreportEnded ==
    ASSUME RenderingCore, LeaveSubreport
    PROVE  RenderingCore'
<1> DEFINE outer == Below[Len(Below)]
           b == Block(Len(outer.shown) + 1, "report", Top.report, Top.shown)
<1>1. phase = "preview" /\ Len(stack) > 1 /\ stack' = Append1(Below, b)
      /\ UNCHANGED <<usable, phase, fetch, page>>
    BY DEF LeaveSubreport, Finished
<1>2. Len(Top.shown) = Len(Elements(Top.report))
    <2>1. Len(Top.shown) \in Nat /\ Len(Elements(Top.report)) \in Nat
          /\ Len(Top.shown) <= Len(Elements(Top.report)) /\ Here = Len(Top.shown) + 1
        BY <1>1, Previewing, ElementsOfReport DEF RightFrame
    <2> QED
        BY <2>1 DEF LeaveSubreport, Finished
<1>3. Awaits(outer, Top) => RightBlock(b, Len(outer.shown) + 1, outer.report)
    BY <1>2 DEF Awaits, RightBlock, Block
<1> QED
    BY <1>1, <1>3, OuterShown

\* So does the note for one that raised, unless it was the report itself.
LEMMA ChartRaised ==
    ASSUME RenderingCore, ChartRaises
    PROVE  RenderingCore'
<1>1. phase = "preview" /\ UNCHANGED <<usable, fetch>>
    BY DEF ChartRaises, At
<1>2. CASE Len(stack) > 1
    <2> DEFINE b == Plain(Len(Below[Len(Below)].shown) + 1, "note")
    <2>1. stack' = Append1(Below, b) /\ UNCHANGED <<phase, page>>
        BY <1>2 DEF ChartRaises
    <2>2. RightBlock(b, Len(Below[Len(Below)].shown) + 1, Below[Len(Below)].report)
        BY PlainIsRight
    <2> QED
        BY <1>1, <1>2, <2>1, <2>2, OuterShown
<1>3. CASE ~(Len(stack) > 1)
    <2>1. stack' = <<>> /\ phase' = "done" /\ page' = ErrorPage
        BY <1>3 DEF ChartRaises
    <2>2. FetchedSoFar'
        BY <1>1 DEF RenderingCore, FetchedSoFar, KeysMatch, fetch
    <2>3. RightFrames(stack)'
        BY <2>1, EmptySequence, RenderingAssumption DEF RightFrames
    <2>4. EachShowsItsOwn'
        BY <2>1 DEF EachShowsItsOwn
    <2> QED
        BY <1>1, <2>1, <2>2, <2>3, <2>4, FormatsDiffer DEF RenderingCore, Stages, fetch
<1> QED
    BY <1>2, <1>3

\* The preview that is answered shows what its only frame has shown: everything.
LEMMA PreviewEnds ==
    ASSUME RenderingCore, FinishPreview
    PROVE  RenderingCore'
<1>1. phase = "preview" /\ phase' = "done" /\ page' = Page(Top.report, "preview", Top.shown)
      /\ UNCHANGED <<usable, stack, failed, fetch>>
    BY DEF FinishPreview, Finished, preview
<1>2. /\ RightFrames(stack) /\ RightFrame(Top) /\ Top.report \in DOMAIN Definition
      /\ Len(Top.shown) \in Nat /\ Here = Len(Top.shown) + 1 /\ export = NoExport
    BY <1>1, Previewing
<1>3. Len(Top.shown) = Len(Elements(Top.report))
    BY <1>2, ElementsOfReport DEF FinishPreview, Finished, RightFrame
<1>4. DOMAIN Top.shown = 1..Len(Top.shown)
    BY <1>2, SequenceFacts DEF RightFrame
<1>5. /\ page'.report = Top.report /\ page'.format = "preview" /\ page'.blocks = Top.shown
    BY <1>1 DEF Page
<1>6. \A n \in 1..Len(Top.shown) : RightBlock(Top.shown[n], n, Top.report)
    BY <1>2 DEF RightFrame
<1>7. ASSUME NEW n \in 1..Len(Top.shown), n > 1 PROVE Top.shown[n - 1].element < Top.shown[n].element
    BY <1>2, <1>6, <1>7 DEF RightBlock
<1>8. EachShowsItsOwn'
    BY <1>3, <1>4, <1>5, <1>6, <1>7 DEF EachShowsItsOwn, RightBlock, Elements
<1>9. FetchedSoFar' /\ RightFrames(stack)'
    BY <1>1, <1>2 DEF RenderingCore, FetchedSoFar, KeysMatch, fetch, RightFrames, RightFrame, RightBlock, Awaits
<1>10. Stages' /\ usable' \subseteq Databases
    BY <1>1, FormatsDiffer DEF RenderingCore, Stages, fetch
<1> QED
    BY <1>1, <1>8, <1>9, <1>10 DEF RenderingCore

-----------------------------------------------------------------------------
(* The steps of an export, and the file it writes.                          *)

\* While an export runs.
LEMMA Exporting ==
    ASSUME RenderingCore, phase = "fetch"
    PROVE  /\ export # NoExport /\ page = NoPage /\ stack = <<>>
           /\ export \in [report : DOMAIN Definition, format : Formats]
           /\ Len(Elements(export.report)) \in Nat /\ at \in 0..Len(Elements(export.report))
           /\ sourceKey \in [1..Len(Elements(export.report)) -> Nat \cup {None}]
           /\ data \in Seq([element : 1..at, some : BOOLEAN])
           /\ IsSequence(data) /\ Len(data) \in Nat /\ DOMAIN data = 1..Len(data)
           /\ KeysMatch
<1>1. export # NoExport /\ page = NoPage /\ stack = <<>>
    BY DEF RenderingCore, Stages
<1>2. /\ export \in [report : DOMAIN Definition, format : Formats]
      /\ at \in 0..Len(Elements(export.report))
      /\ sourceKey \in [1..Len(Elements(export.report)) -> Nat \cup {None}]
      /\ data \in Seq([element : 1..at, some : BOOLEAN])
      /\ KeysMatch
    BY <1>1 DEF RenderingCore, FetchedSoFar
<1>3. Len(Elements(export.report)) \in Nat
    BY <1>2, ElementsOfReport
<1>4. IsSequence(data)
    BY <1>2 DEF IsSequence
<1> QED
    BY <1>1, <1>2, <1>3, <1>4, SequenceFacts

\* What was fetched for is an element so far.
LEMMA FetchedElements ==
    ASSUME RenderingCore, phase = "fetch", NEW d \in 1..Len(data)
    PROVE  data[d].element \in 1..at /\ data[d].some \in BOOLEAN /\ at \in Nat
<1> DEFINE T == [element : 1..at, some : BOOLEAN]
<1>1. data \in Seq(T) /\ at \in Nat
    BY Exporting
<1> HIDE DEF T
<1>2. data[d] \in T
    BY <1>1
<1> QED
    BY <1>1, <1>2 DEF T

\* An export begins with no data and no keys.
LEMMA ExportOpened ==
    ASSUME RenderingCore, NEW r \in DOMAIN Definition, NEW f \in Formats, OpenExport(r, f)
    PROVE  RenderingCore'
<1>1. /\ phase = "idle" /\ stack = <<>> /\ page = NoPage /\ data = <<>> /\ at = 0
      /\ UNCHANGED <<usable, stack, failed, data, page>> /\ phase' = "fetch"
      /\ export' = [report |-> r, format |-> f]
      /\ sourceKey' = [i \in 1..Len(Elements(r)) |-> None]
      /\ at' = 0 \/ at' = Len(Elements(r))
    BY DEF OpenExport, RenderingCore, Stages, FetchedSoFar, preview
<1>2. export'.report = r /\ export' \in [report : DOMAIN Definition, format : Formats]
      /\ export' # NoExport
    <2>1. export' \in [report : DOMAIN Definition, format : Formats]
        BY <1>1
    <2> QED
        BY <1>1, <2>1, FormatsDiffer
<1>3. Len(Elements(r)) \in Nat
    BY ElementsOfReport
<1>4. KeysMatch'
    <2>1. DOMAIN data' = {}
        BY <1>1
    <2> QED
        BY <1>1, <2>1 DEF KeysMatch
<1>5. FetchedSoFar'
    <2>1. data' \in Seq([element : 1..at', some : BOOLEAN])
        BY <1>1
    <2>2. sourceKey' \in [1..Len(Elements(r)) -> Nat \cup {None}]
        BY <1>1
    <2>3. at' \in 0..Len(Elements(r))
        BY <1>1, <1>3
    <2> QED
        BY <1>2, <1>4, <2>1, <2>2, <2>3 DEF FetchedSoFar, Elements
<1>6. EachShowsItsOwn'
    BY <1>1 DEF EachShowsItsOwn
<1>7. RightFrames(stack)'
    BY <1>1 DEF RenderingCore, RightFrames, RightFrame, RightBlock, Awaits
<1> QED
    BY <1>1, <1>2, <1>5, <1>6, <1>7 DEF RenderingCore, Stages

\* What becomes of the invariant in a step that only fetches.
LEMMA FetchGoesOn ==
    ASSUME RenderingCore, phase = "fetch", FetchedSoFar',
           UNCHANGED <<usable, phase, preview, export, page>>
    PROVE  RenderingCore'
<1>1. EachShowsItsOwn'
    BY Exporting DEF EachShowsItsOwn
<1>2. RightFrames(stack)'
    BY DEF RenderingCore, RightFrames, RightFrame, RightBlock, Awaits, preview
<1> QED
    BY <1>1, <1>2, Exporting DEF RenderingCore, Stages, preview

\* A key is given to the element whose data are appended under it.
LEMMA ElementFetched ==
    ASSUME RenderingCore, FetchElement
    PROVE  RenderingCore'
<1> DEFINE es == Elements(export.report)
           k == Len(data)
           n == at + 1
<1>1. /\ phase = "fetch" /\ at < Len(es) /\ at' = n
      /\ sourceKey' = [sourceKey EXCEPT ![n] = k]
      /\ UNCHANGED <<usable, phase, preview, export, page>>
    BY DEF FetchElement, Fetching
<1>2. PICK some \in BOOLEAN : data' = Append(data, [element |-> n, some |-> some])
    BY DEF FetchElement
<1>3. /\ at \in Nat /\ Len(es) \in Nat /\ k \in Nat /\ n \in 1..Len(es) /\ n \in Nat
      /\ sourceKey \in [1..Len(es) -> Nat \cup {None}] /\ IsSequence(data)
      /\ DOMAIN data = 1..k /\ export # NoExport
    BY <1>1, Exporting
<1>4. /\ sourceKey' \in [1..Len(es) -> Nat \cup {None}]
      /\ sourceKey'[n] = k /\ \A i \in 1..Len(es) : i # n => sourceKey'[i] = sourceKey[i]
    BY <1>1, <1>3
<1> DEFINE found == [element |-> n, some |-> some]
<1>5. found.element = n /\ data' = Append(data, found)
    BY <1>2
<1> DEFINE T == [element : 1..at, some : BOOLEAN]
           U == [element : 1..n, some : BOOLEAN]
<1>6. T \in SUBSET U /\ found \in U /\ data \in Seq(T)
    <2>1. \A i \in 1..at : i \in 1..n
        BY <1>3
    <2>2. data \in Seq(T) /\ found \in U
        BY <1>1, <1>3, Exporting
    <2> QED
        BY <2>1, <2>2
<1> HIDE DEF T, U, found, es, n, k
<1>7. data' \in Seq(U)
    BY <1>5, <1>6, SeqMonotonic
<1>8. /\ Len(data') = k + 1 /\ data'[k + 1] = found
      /\ \A d \in 1..k : data'[d] = data[d]
    BY <1>3, <1>5, AppendedSequence DEF k
<1>9. DOMAIN data' = 1..k + 1 /\ DOMAIN sourceKey' = 1..Len(es)
    BY <1>4, <1>7, <1>8, LenProperties
<1>10. ASSUME NEW d \in DOMAIN data' PROVE sourceKey'[data'[d].element] = d - 1
    <2>1. CASE d = k + 1
        BY <1>3, <1>4, <1>5, <1>8, <2>1
    <2>2. CASE d # k + 1
        <3>1. d \in 1..k /\ data'[d] = data[d]
            BY <1>3, <1>8, <1>9, <2>2
        <3>2. data[d].element \in 1..at /\ sourceKey[data[d].element] = d - 1
            BY <1>1, <1>3, <3>1, FetchedElements, Exporting DEF KeysMatch, k
        <3>3. data[d].element \in 1..Len(es) /\ data[d].element # n
            BY <1>1, <1>3, <3>2 DEF n
        <3> QED
            BY <1>4, <3>1, <3>2, <3>3
    <2> QED
        BY <2>1, <2>2
<1>11. ASSUME NEW i \in DOMAIN sourceKey', sourceKey'[i] # None
       PROVE  sourceKey'[i] < Len(data') /\ data'[sourceKey'[i] + 1].element = i
    <2>1. CASE i = n
        BY <1>3, <1>4, <1>5, <1>8, <2>1
    <2>2. CASE i # n
        <3>1. i \in 1..Len(es) /\ sourceKey'[i] = sourceKey[i]
            BY <1>4, <1>9, <2>2
        <3>2. sourceKey[i] < k /\ data[sourceKey[i] + 1].element = i /\ sourceKey[i] \in Nat
            BY <1>1, <1>3, <1>11, <3>1, Exporting DEF KeysMatch, k
        <3>3. sourceKey[i] + 1 \in 1..k
            BY <1>3, <3>2
        <3>4. data'[sourceKey[i] + 1] = data[sourceKey[i] + 1]
            BY <1>8, <3>3
        <3>5. sourceKey[i] < k + 1
            BY <1>3, <3>2
        <3> QED
            BY <1>8, <3>1, <3>2, <3>4, <3>5
    <2> QED
        BY <2>1, <2>2
<1>12. KeysMatch'
    BY <1>10, <1>11 DEF KeysMatch
<1>13. FetchedSoFar'
    <2>1. export' = export /\ at' = n /\ n \in 0..Len(es)
        BY <1>1, <1>3
    <2>2. data' \in Seq([element : 1..at', some : BOOLEAN])
        BY <1>7, <2>1 DEF U
    <2> QED
        BY <1>1, <1>3, <1>4, <1>12, <2>1, <2>2, Exporting DEF FetchedSoFar, es, Elements
<1> QED
    BY <1>1, <1>13, FetchGoesOn

\* An element that is passed over gets neither data nor a key.
LEMMA ElementPassedOver ==
    ASSUME RenderingCore, PassOverElement
    PROVE  RenderingCore'
<1> DEFINE es == Elements(export.report)
<1>1. /\ phase = "fetch" /\ at < Len(es) /\ at' = at + 1
      /\ UNCHANGED <<usable, phase, preview, export, data, sourceKey, page>>
    BY DEF PassOverElement, Fetching
<1>2. /\ at \in Nat /\ Len(es) \in Nat /\ export # NoExport
      /\ at' \in 0..Len(es)
    BY <1>1, Exporting
<1>3. data' \in Seq([element : 1..at', some : BOOLEAN])
    <2> DEFINE T == [element : 1..at, some : BOOLEAN]
               U == [element : 1..at', some : BOOLEAN]
    <2>1. \A i \in 1..at : i \in 1..at'
        BY <1>1, <1>2
    <2>2. T \in SUBSET U /\ data \in Seq(T) /\ data' = data
        BY <1>1, <2>1, Exporting
    <2> HIDE DEF T, U
    <2>3. data' \in Seq(U)
        BY <2>2, SeqMonotonic
    <2> QED
        BY <2>3 DEF U
<1>4. KeysMatch'
    BY <1>1, Exporting DEF KeysMatch
<1>5. FetchedSoFar'
    BY <1>1, <1>2, <1>3, <1>4, Exporting DEF FetchedSoFar, Elements
<1> QED
    BY <1>1, <1>5, FetchGoesOn

\* Which elements a file has, in which order.
Kept(es, lost) ==
    {i \in DOMAIN es : Written(es[i], i) /\ (i \in lost => export.format = "html")}

\* What an element is rendered as.
LEMMA RenderedAs ==
    ASSUME RenderingCore, phase = "fetch", NEW i \in 1..Len(Elements(export.report)), NEW e
    PROVE  LET b == RenderedElement(e, i)
           IN  /\ b.element = i /\ b.shows # "report"
               /\ b.shows \in {"rows", "raw"} => b.of = i
               /\ e.type = "table" /\ HasRows(i) => b.shows = "rows" /\ b.of = i
<1>1. HasRows(i) => RowsOf(i).element = i
    BY Exporting DEF HasRows, RowsOf, KeysMatch
<1> DEFINE b == RenderedElement(e, i)
<1>2. CASE e.type \in {"table", "chart"} /\ HasRows(i)
    <2>1. b = Block(i, "rows", RowsOf(i).element, <<>>)
        BY <1>2 DEF RenderedElement
    <2> HIDE DEF b
    <2>2. b.element = i /\ b.shows = "rows" /\ b.of = i
        BY <1>1, <1>2, <2>1 DEF Block
    <2> QED
        BY <2>2 DEF b
<1>3. CASE ~(e.type \in {"table", "chart"} /\ HasRows(i))
    <2>1. b = Plain(i, "note") \/ b = Plain(i, "itself")
        BY <1>3 DEF RenderedElement
    <2> HIDE DEF b
    <2>2. b.element = i /\ b.shows \in {"note", "itself"}
        BY <2>1 DEF Plain, Block
    <2> QED
        BY <1>3, <2>2 DEF b
<1> QED
    BY <1>2, <1>3

\* The file is written from data that are fetched for all elements, each found by
\* its own key.
LEMMA FileWritten ==
    ASSUME RenderingCore, WriteFile
    PROVE  RenderingCore'
<1> DEFINE es == Elements(export.report)
           N == Len(es)
<1>1. /\ phase = "fetch" /\ phase' = "done" /\ UNCHANGED <<usable, stack, export, at, data, sourceKey>>
      /\ export # NoExport /\ export.report \in DOMAIN Definition /\ export.format \in Formats
    BY Exporting DEF WriteFile, preview, fetch
<1>2. RightFrames(stack)' /\ FetchedSoFar'
    BY <1>1 DEF RenderingCore, FetchedSoFar, KeysMatch, RightFrames, RightFrame, RightBlock, Awaits
<1>3. page' # NoPage /\ EachShowsItsOwn'
    <2>1. CASE page' = ErrorPage
        BY <2>1, FormatsDiffer DEF EachShowsItsOwn
    <2>2. ASSUME NEW lost \in SUBSET {i \in DOMAIN es : es[i].type = "chart" /\ Written(es[i], i)},
                 page' = Page(export.report, export.format, Blocks(es, lost))
          PROVE  page' # NoPage /\ EachShowsItsOwn'
        <3> DEFINE K == Kept(es, lost)
                   C == Cardinality(K)
                   kept == InOrder(K)
                   bs == Blocks(es, lost)
        <3>1. N \in Nat /\ DOMAIN es = 1..N
              /\ \A i \in 1..N : es[i].type \in ElementTypes
            BY <1>1, ElementsOfReport
        <3>2. K \in SUBSET (1..N)
            BY <3>1 DEF Kept
        <3>3. IsFiniteSet(K) /\ K \in SUBSET Nat
            <4> HIDE DEF K, N
            <4> QED
                BY <3>1, <3>2, IndexSet
        <3>4. /\ C \in Nat /\ kept \in [1..C -> K]
              /\ \A i \in K : kept[Rank(K, i)] = i /\ Rank(K, i) \in 1..C
              /\ \A m, n \in 1..C : m < n => kept[m] < kept[n]
            BY <3>3, InOrderEnumerates
        <3>5. bs = [n \in 1..C |-> IF kept[n] \in lost THEN Plain(kept[n], "note")
                                   ELSE RenderedElement(es[kept[n]], kept[n])]
            BY <3>4 DEF Blocks, Kept
        <3>6. page'.report = export.report /\ page'.format = export.format /\ page'.blocks = bs
            BY <2>2 DEF Page
        <3>7. page' \notin {NoPage, ErrorPage}
            BY <1>1, <2>2, FormatsDiffer
        <3> HIDE DEF bs, kept, K
        <3>8. ASSUME NEW n \in 1..C
              PROVE  /\ bs[n].element = kept[n] /\ bs[n].shows # "report"
                     /\ bs[n].shows \in {"rows", "raw"} => bs[n].of = kept[n]
                     /\ kept[n] \notin lost => bs[n] = RenderedElement(es[kept[n]], kept[n])
            <4>1. kept[n] \in 1..N
                BY <3>2, <3>4
            <4>2. CASE kept[n] \in lost
                <5>1. bs[n] = Plain(kept[n], "note")
                    BY <3>5, <4>2
                <5> QED
                    BY <4>2, <5>1 DEF Plain, Block
            <4>3. CASE kept[n] \notin lost
                <5>1. bs[n] = RenderedElement(es[kept[n]], kept[n])
                    BY <3>5, <4>3
                <5> DEFINE i == kept[n]
                           e == es[i]
                           b == RenderedElement(e, i)
                <5>2. i \in 1..Len(Elements(export.report))
                    BY <4>1
                <5> HIDE DEF i, e
                <5>3. b.element = i /\ b.shows # "report" /\ (b.shows \in {"rows", "raw"} => b.of = i)
                    BY <1>1, <5>2, RenderedAs
                <5> HIDE DEF b
                <5> QED
                    BY <5>1, <5>3 DEF i, e, b
            <4> QED
                BY <4>2, <4>3
        <3>9. \A n \in DOMAIN bs : n > 1 => bs[n - 1].element < bs[n].element
            <4> SUFFICES ASSUME NEW n \in 1..C, n > 1 PROVE bs[n - 1].element < bs[n].element
                BY <3>5
            <4>1. n - 1 \in 1..C /\ n - 1 < n
                BY <3>4
            <4>2. kept[n - 1] < kept[n]
                BY <3>4, <4>1
            <4> QED
                BY <3>8, <4>1, <4>2
        <3>10. export.format \in {"preview", "html"} => Len(bs) = N
            <4> SUFFICES ASSUME export.format = "html" PROVE Len(bs) = N
                BY <1>1 DEF Formats
            <4>1. K = 1..N
                BY <3>1 DEF K, Kept, Written
            <4>2. C = N
                BY <3>1, <4>1, FS_Interval
            <4>3. bs = [n \in 1..C |-> bs[n]]
                BY <3>5
            <4> HIDE DEF C
            <4> QED
                BY <3>1, <4>2, <4>3, SequenceUpTo
        <3>11. ASSUME NEW n \in DOMAIN bs
               PROVE  /\ bs[n].shows \in {"rows", "raw"} => bs[n].of = bs[n].element
                      /\ bs[n].shows # "report"
            BY <3>5, <3>8
        <3>12. ASSUME NEW d \in DOMAIN data, data[d].some,
                      es[data[d].element].type = "table", es[data[d].element].band = "detail"
               PROVE  \E n \in DOMAIN bs : bs[n].shows = "rows" /\ bs[n].of = data[d].element
            <4> DEFINE i == data[d].element
            <4>1. /\ i \in 1..at /\ at \in 0..N /\ d \in 1..Len(data) /\ Len(data) \in Nat
                  /\ sourceKey[i] = d - 1 /\ None \notin Nat
                BY <1>1, Exporting, FetchedElements, RenderingAssumption DEF KeysMatch
            <4>2. i \in 1..N /\ d - 1 \in Nat /\ d - 1 < Len(data) /\ d - 1 + 1 = d
                BY <3>1, <4>1
            <4>3. HasRows(i)
                BY <3>12, <4>1, <4>2 DEF HasRows, RowsOf
            <4>4. Written(es[i], i)
                BY <3>12, <4>3 DEF Written, InPdf, InSheet
            <4>5. i \notin lost
                BY <2>2, <3>12
            <4>6. i \in K
                BY <3>1, <4>2, <4>4, <4>5 DEF K, Kept
            <4>7. PICK n \in 1..C : kept[n] = i
                BY <3>4, <4>6
            <4>8. bs[n] = RenderedElement(es[i], i)
                BY <3>8, <4>5, <4>7
            <4>9. bs[n].shows = "rows" /\ bs[n].of = i
                BY <1>1, <3>12, <4>2, <4>3, <4>8, RenderedAs
            <4> QED
                BY <3>5, <4>9
        <3>13. EachShowsItsOwn'
            BY <1>1, <3>6, <3>9, <3>10, <3>11, <3>12 DEF EachShowsItsOwn, Elements
        <3> QED
            BY <3>7, <3>13
    <2> QED
        BY <2>1, <2>2 DEF WriteFile
<1>4. Stages' /\ usable' \subseteq Databases
    BY <1>1, <1>3 DEF RenderingCore, Stages
<1> QED
    BY <1>1, <1>2, <1>3, <1>4 DEF RenderingCore

-----------------------------------------------------------------------------
\* The frames of a preview and the keys of an export stay right for any reports,
\* connections and depth of nesting (routes/preview.py, services/report/rendering.py).
THEOREM RenderingCoreInvariant == RenderingSpec => []RenderingCore
<1>1. RenderingInit => RenderingCore
    BY RenderingStarts
<1>2. RenderingCore /\ [RenderingNext]_renderingVars => RenderingCore'
    <2> SUFFICES ASSUME RenderingCore, [RenderingNext]_renderingVars PROVE RenderingCore'
        OBVIOUS
    <2>1. ASSUME NEW r \in DOMAIN Definition, OpenPreview(r) PROVE RenderingCore'
        BY <2>1, PreviewOpened
    <2>2. ASSUME NEW r \in DOMAIN Definition, NEW f \in Formats, OpenExport(r, f) PROVE RenderingCore'
        BY <2>2, ExportOpened
    <2>3. CASE Recover
        <3>1. phase = "preview" /\ UNCHANGED <<usable, phase, stack, fetch, page>>
            BY <2>3 DEF Recover
        <3>2. RightFrames(stack') /\ stack' # <<>>
            BY <3>1, Previewing
        <3> QED
            BY <3>1, <3>2, PreviewGoesOn
    <2>4. CASE ShowText \/ ShowTable \/ ShowChart \/ ShowCrosstab \/ PassOverSubreport
        BY <2>4, ElementShown
    <2>5. CASE EnterSubreport
        BY <2>5, SubreportBegun
    <2>6. CASE LeaveSubreport
        BY <2>6, SubreportEnded
    <2>7. CASE ChartRaises
        BY <2>7, ChartRaised
    <2>8. CASE FinishPreview
        BY <2>8, PreviewEnds
    <2>9. CASE FetchElement
        BY <2>9, ElementFetched
    <2>10. CASE PassOverElement
        BY <2>10, ElementPassedOver
    <2>11. CASE WriteFile
        BY <2>11, FileWritten
    <2>12. CASE UNCHANGED renderingVars
        BY <2>12 DEF renderingVars, RenderingCore, Stages, RightFrames, RightFrame, RightBlock, Awaits,
           FetchedSoFar, KeysMatch, EachShowsItsOwn
    <2> QED
        BY <2>1, <2>2, <2>3, <2>4, <2>5, <2>6, <2>7, <2>8, <2>9, <2>10, <2>11, <2>12 DEF RenderingNext
<1> QED
    BY <1>1, <1>2, PTL DEF RenderingSpec

\* What a preview or a file shows in the place of an element was fetched for that
\* element, whatever failed around it; no element is shown twice or out of order,
\* and no table whose rows were fetched is missing from a file
\* (routes/preview.py, services/report/rendering.py, engine/renderer.py).
THEOREM EachShowsItsOwnAlways == RenderingSpec => []EachShowsItsOwn
<1>1. RenderingCore => EachShowsItsOwn
    BY DEF RenderingCore
<1> QED
    BY <1>1, RenderingCoreInvariant, PTL

\* The state of Rendering keeps its types.
THEOREM RenderingTypeSafe == RenderingSpec => []RenderingTypeOK
BY RenderingTyped, RenderingCoreInvariant, PTL

-----------------------------------------------------------------------------
(* What is compared.                                                        *)

\* The sections and sources of a definition are sequences.
LEMMA DefinitionParts ==
    ASSUME NEW d \in Definitions
    PROVE  /\ d.sections \in Seq(Section) /\ d.sources \in Seq(Source)
           /\ Len(d.sections) \in Nat /\ DOMAIN d.sections = 1..Len(d.sections)
           /\ Len(d.sources) \in Nat /\ DOMAIN d.sources = 1..Len(d.sources)
<1>1. d.sections \in Seq(Section) /\ d.sources \in Seq(Source)
    BY ComparisonAssumption
<1> QED
    BY <1>1, LenProperties

\* The sections of a type, in order.
LEMMA SectionsOfType ==
    ASSUME NEW d \in Definitions, NEW type
    PROVE  LET K == {i \in DOMAIN d.sections : d.sections[i].type = type}
               as == OfType(d, type)
           IN  /\ Len(as) = Cardinality(K) /\ Len(as) \in Nat /\ Len(as) <= Len(d.sections)
               /\ \A n \in 1..Len(as) : as[n] \in DOMAIN d.sections /\ d.sections[as[n]].type = type
               /\ \A i \in DOMAIN d.sections : d.sections[i].type = type => \E n \in 1..Len(as) : as[n] = i
<1> DEFINE K == {i \in DOMAIN d.sections : d.sections[i].type = type}
           as == OfType(d, type)
<1>1. K \in SUBSET (1..Len(d.sections)) /\ Len(d.sections) \in Nat /\ as = InOrder(K)
    BY DefinitionParts DEF OfType, Indices
<1> HIDE DEF K
<1>3. IsFiniteSet(K) /\ Cardinality(K) <= Len(d.sections) /\ K \in SUBSET Nat
    BY <1>1, IndexSet
<1>4. /\ Cardinality(K) \in Nat /\ as \in [1..Cardinality(K) -> K]
      /\ \A i \in K : as[Rank(K, i)] = i /\ Rank(K, i) \in 1..Cardinality(K)
    BY <1>1, <1>3, InOrderEnumerates
<1> HIDE DEF as
<1>5. as = [n \in 1..Cardinality(K) |-> as[n]]
    BY <1>4
<1>6. Len(as) = Cardinality(K)
    BY <1>4, <1>5, SequenceUpTo
<1>7. \A n \in 1..Len(as) : as[n] \in K
    BY <1>4, <1>6
<1>8. \A i \in K : \E n \in 1..Len(as) : as[n] = i
    BY <1>4, <1>6
<1> QED
    BY <1>3, <1>4, <1>6, <1>7, <1>8 DEF K, as

\* The last member of a set of indices.
LEMMA LastIndex ==
    ASSUME NEW n \in Nat, NEW S \in SUBSET (1..n), S # {}
    PROVE  (CHOOSE i \in S : \A j \in S : j <= i) \in S
<1>1. IsFiniteSet(S) /\ S \in SUBSET Nat
    BY IndexSet
<1> DEFINE C == Cardinality(S)
           m == InOrder(S)[C]
<1>2. /\ C \in Nat /\ InOrder(S) \in [1..C -> S]
      /\ \A i \in S : InOrder(S)[Rank(S, i)] = i /\ Rank(S, i) \in 1..C
      /\ \A k, l \in 1..C : k < l => InOrder(S)[k] < InOrder(S)[l]
    BY <1>1, InOrderEnumerates
<1>3. C \in 1..C
    BY <1>1, <1>2, FS_EmptySet
<1>4. m \in S
    BY <1>2, <1>3
<1>6. \A j \in S : j \in Nat
    OBVIOUS
<1>5. ASSUME NEW j \in S PROVE j <= m
    <2>1. Rank(S, j) \in 1..C /\ InOrder(S)[Rank(S, j)] = j
        BY <1>2
    <2>2. CASE Rank(S, j) = C
        BY <1>1, <2>1, <2>2
    <2>3. CASE Rank(S, j) < C
        <3>1. InOrder(S)[Rank(S, j)] < InOrder(S)[C]
            BY <1>2, <1>3, <2>1, <2>3
        <3>2. m \in Nat /\ j \in Nat /\ j < m
            BY <1>4, <1>6, <2>1, <3>1
        <3> HIDE DEF m
        <3> QED
            BY <3>2
    <2> QED
        BY <1>2, <2>1, <2>2, <2>3
<1> HIDE DEF m
<1> QED
    BY <1>4, <1>5

\* A source with an id has it for its key and for its name.
LEMMA NamedSources ==
    ASSUME NEW s \in Seq(Source), NEW i \in DOMAIN s, NEW x, x # None
    PROVE  /\ SourceKey(s[i]) = <<"id", x>> <=> s[i].id = x
           /\ NameAt(s, "id", i) = [name |-> x, at |-> 0] <=> s[i].id = x
<1>1. \A y, z : <<"id", y>> = <<"id", z>> => y = z
    OBVIOUS
<1>2. \A c : <<"anon", c>> # <<"id", x>>
    OBVIOUS
<1>3. \A y, n, m : [name |-> y, at |-> n] = [name |-> x, at |-> m] => y = x
    <2> SUFFICES ASSUME NEW y, NEW n, NEW m, [name |-> y, at |-> n] = [name |-> x, at |-> m]
                 PROVE  y = x
        OBVIOUS
    <2>1. [name |-> y, at |-> n].name = y /\ [name |-> x, at |-> m].name = x
        OBVIOUS
    <2> QED
        BY <2>1
<1>4. s[i]["id"] = s[i].id
    OBVIOUS
<1> QED
    BY <1>1, <1>2, <1>3, <1>4 DEF SourceKey, NameAt

\* One without an id goes by its content, or its position.
LEMMA AnonymousKeys ==
    ASSUME NEW s \in Seq(Source), NEW i \in DOMAIN s, NEW c
    PROVE  SourceKey(s[i]) = <<"anon", c>> <=> s[i].id = None /\ s[i].config = c
<1>1. \A x : <<"anon", c>> # <<"id", x>>
    OBVIOUS
<1>2. \A x : <<"anon", c>> = <<"anon", x>> => c = x
    OBVIOUS
<1> QED
    BY <1>1, <1>2 DEF SourceKey

\* Only a source without an id is matched by its position.
LEMMA AnonymousNames ==
    ASSUME NEW s \in Seq(Source), NEW i \in DOMAIN s, NEW n \in Nat \ {0}
    PROVE  NameAt(s, "id", i) = [name |-> None, at |-> n] <=> s[i].id = None /\ i = n
<1>1. ASSUME NEW y, NEW m, [name |-> y, at |-> m] = [name |-> None, at |-> n]
      PROVE  y = None /\ m = n
    <2>1. /\ [name |-> y, at |-> m].name = y /\ [name |-> None, at |-> n].name = None
          /\ [name |-> y, at |-> m].at = m /\ [name |-> None, at |-> n].at = n
        OBVIOUS
    <2> QED
        BY <1>1, <2>1
<1>2. s[i]["id"] = s[i].id
    OBVIOUS
<1> QED
    BY <1>1, <1>2 DEF NameAt

-----------------------------------------------------------------------------
\* Sections that are all unchanged one by one make no difference.
LEMMA SectionsUnchanged ==
    ASSUME NEW a \in Definitions, NEW b \in Definitions, ~Differs(CompareSections(a, b))
    PROVE  SectionsAdded(a, b) = {} /\ SectionsAdded(b, a) = {} /\ SectionsModified(a, b) = {}
<1> DEFINE M == Len(a.sections)
           N == Len(b.sections)
<1>1. M \in Nat /\ N \in Nat /\ DOMAIN a.sections = 1..M /\ DOMAIN b.sections = 1..N
    BY DefinitionParts
<1>2. ASSUME NEW i \in 1..Longer(a.sections, b.sections)
      PROVE  i \in 1..M /\ i \in 1..N /\ SectionChanges(a.sections[i], b.sections[i]) = {}
    <2>1. CompareSections(a, b)[i] = "unchanged"
        BY DEF Differs, CompareSections
    <2>2. Status(i \in DOMAIN a.sections, i \in DOMAIN b.sections,
               SectionChanges(a.sections[i], b.sections[i]) = {}) = "unchanged"
        BY <2>1 DEF CompareSections
    <2> QED
        BY <1>1, <2>2 DEF Status
<1>3. M = N
    <2>1. CASE M < N
        BY <1>1, <1>2, <2>1 DEF Longer
    <2>2. CASE N < M
        BY <1>1, <1>2, <2>2 DEF Longer
    <2> QED
        BY <1>1, <2>1, <2>2
<1>4. ASSUME NEW i \in 1..M
      PROVE  /\ SectionChanges(a.sections[i], b.sections[i]) = {}
             /\ a.sections[i].type = b.sections[i].type
    <2>1. SectionChanges(a.sections[i], b.sections[i]) = {}
        BY <1>1, <1>2, <1>3 DEF Longer
    <2>2. a.sections[i]["type"] = b.sections[i]["type"]
        BY <2>1 DEF SectionChanges
    <2> QED
        BY <2>1, <2>2
<1>5. \A type : OfType(a, type) = OfType(b, type)
    <2> SUFFICES ASSUME NEW type PROVE OfType(a, type) = OfType(b, type)
        OBVIOUS
    <2>1. {i \in DOMAIN a.sections : a.sections[i].type = type}
             = {i \in DOMAIN b.sections : b.sections[i].type = type}
        BY <1>1, <1>3, <1>4
    <2> QED
        BY <2>1 DEF OfType, Indices
<1>6. \A type : Len(OfType(a, type)) \in Nat
    BY SectionsOfType
<1>7. SectionsAdded(a, b) = {} /\ SectionsAdded(b, a) = {}
    BY <1>1, <1>5, <1>6 DEF SectionsAdded
<1>8. SectionsModified(a, b) = {}
    <2> SUFFICES ASSUME NEW s \in SectionsModified(a, b) PROVE FALSE
        OBVIOUS
    <2> DEFINE as == OfType(a, s.type)
    <2>1. /\ s.nth \in 1..Shorter(a.sections, b.sections) /\ s.nth <= Shorter(as, as)
          /\ SectionChanges(a.sections[as[s.nth]], b.sections[as[s.nth]]) # {}
        BY <1>5 DEF SectionsModified
    <2>2. Len(as) \in Nat /\ s.nth \in 1..Len(as)
        BY <1>1, <1>6, <2>1 DEF Shorter
    <2>3. as[s.nth] \in DOMAIN a.sections
        BY <2>2, SectionsOfType
    <2> QED
        BY <1>1, <1>4, <2>1, <2>3
<1> QED
    BY <1>7, <1>8

\* Nor do sources.
LEMMA SourcesUnchanged ==
    ASSUME NEW a \in Definitions, NEW b \in Definitions, ~Differs(CompareSources(a, b))
    PROVE  /\ SourceKeys(a) = SourceKeys(b)
           /\ \A k \in SourceKeys(a) : SourceOf(a, k) = SourceOf(b, k)
<1> DEFINE s == a.sources
           t == b.sources
           M == Len(a.sources)
           N == Len(b.sources)
<1>1. /\ M \in Nat /\ N \in Nat /\ DOMAIN s = 1..M /\ DOMAIN t = 1..N
      /\ s \in Seq(Source) /\ t \in Seq(Source)
    BY DefinitionParts
<1>2. ASSUME NEW k \in NamesOf(s, "id") \cup NamesOf(t, "id")
      PROVE  /\ k \in NamesOf(s, "id") /\ k \in NamesOf(t, "id")
             /\ LastNamed(s, "id", k) = LastNamed(t, "id", k)
    <2>1. CompareSources(a, b)[k] = "unchanged"
        BY DEF Differs, CompareSources, CompareNamed
    <2>2. Status(k \in NamesOf(s, "id"), k \in NamesOf(t, "id"),
                 LastNamed(s, "id", k) = LastNamed(t, "id", k)) = "unchanged"
        BY <2>1 DEF CompareSources, CompareNamed
    <2> QED
        BY <2>2 DEF Status
<1> HIDE DEF s, t, M, N
\* Sources without an id stand at the same positions and are the same.
<1>3. ASSUME NEW i, \/ i \in 1..M /\ s[i].id = None
                    \/ i \in 1..N /\ t[i].id = None
      PROVE  i \in 1..M /\ i \in 1..N /\ s[i] = t[i] /\ s[i].id = None /\ t[i].id = None
    <2> DEFINE k == [name |-> None, at |-> i]
    <2>0. i \in Nat \ {0}
        BY <1>1, <1>3
    <2>1. \A j \in 1..M : NameAt(s, "id", j) = k <=> s[j].id = None /\ j = i
        BY <1>1, <2>0, AnonymousNames
    <2>2. \A j \in 1..N : NameAt(t, "id", j) = k <=> t[j].id = None /\ j = i
        BY <1>1, <2>0, AnonymousNames
    <2> HIDE DEF k
    <2>3. k \in NamesOf(s, "id") /\ k \in NamesOf(t, "id")
        BY <1>1, <1>2, <1>3, <2>1, <2>2 DEF NamesOf
    <2>4. i \in 1..M /\ i \in 1..N /\ s[i].id = None /\ t[i].id = None
        BY <1>1, <2>1, <2>2, <2>3 DEF NamesOf
    <2> DEFINE A == {j \in DOMAIN s : NameAt(s, "id", j) = k}
               B == {j \in DOMAIN t : NameAt(t, "id", j) = k}
               m == CHOOSE n \in A : \A j \in A : j <= n
               l == CHOOSE n \in B : \A j \in B : j <= n
    <2>5. A = {i} /\ A \in SUBSET (1..M) /\ B = {i} /\ B \in SUBSET (1..N)
        BY <1>1, <2>1, <2>2, <2>4
    <2>6. LastNamed(s, "id", k) = s[m] /\ LastNamed(t, "id", k) = t[l]
        BY DEF LastNamed
    <2> HIDE DEF A, B
    <2>7. m \in A /\ l \in B
        BY <1>1, <2>5, LastIndex
    <2>8. LastNamed(s, "id", k) = s[i] /\ LastNamed(t, "id", k) = t[i]
        BY <2>5, <2>6, <2>7
    <2> QED
        BY <1>2, <2>3, <2>4, <2>8
\* Those with an id go by it in both.
<1>4. ASSUME NEW x, x # None,
             \/ \E i \in 1..M : s[i].id = x
             \/ \E i \in 1..N : t[i].id = x
      PROVE  /\ \E i \in 1..M : s[i].id = x
             /\ \E i \in 1..N : t[i].id = x
             /\ SourceOf(a, <<"id", x>>) = SourceOf(b, <<"id", x>>)
    <2> DEFINE k == [name |-> x, at |-> 0]
    <2>1. \A j \in 1..M : (NameAt(s, "id", j) = k <=> s[j].id = x) /\ (SourceKey(s[j]) = <<"id", x>> <=> s[j].id = x)
        BY <1>1, <1>4, NamedSources
    <2>2. \A j \in 1..N : (NameAt(t, "id", j) = k <=> t[j].id = x) /\ (SourceKey(t[j]) = <<"id", x>> <=> t[j].id = x)
        BY <1>1, <1>4, NamedSources
    <2> HIDE DEF k
    <2>3. k \in NamesOf(s, "id") /\ k \in NamesOf(t, "id")
        BY <1>1, <1>2, <1>4, <2>1, <2>2 DEF NamesOf
    <2>4. (\E i \in 1..M : s[i].id = x) /\ (\E i \in 1..N : t[i].id = x)
        BY <1>1, <2>1, <2>2, <2>3 DEF NamesOf
    <2>5. {j \in DOMAIN s : NameAt(s, "id", j) = k} = {j \in DOMAIN s : SourceKey(s[j]) = <<"id", x>>}
        BY <1>1, <2>1
    <2>6. {j \in DOMAIN t : NameAt(t, "id", j) = k} = {j \in DOMAIN t : SourceKey(t[j]) = <<"id", x>>}
        BY <1>1, <2>2
    <2>7. LastNamed(s, "id", k) = SourceOf(a, <<"id", x>>)
        BY <2>5 DEF LastNamed, SourceOf, s
    <2>8. LastNamed(t, "id", k) = SourceOf(b, <<"id", x>>)
        BY <2>6 DEF LastNamed, SourceOf, t
    <2> QED
        BY <1>2, <2>3, <2>4, <2>7, <2>8
<1>5. ASSUME NEW k PROVE (k \in SourceKeys(a) <=> \E i \in 1..M : SourceKey(s[i]) = k)
                      /\ (k \in SourceKeys(b) <=> \E i \in 1..N : SourceKey(t[i]) = k)
    BY <1>1 DEF SourceKeys, s, t
<1>6. ASSUME NEW c, \/ \E i \in 1..M : SourceKey(s[i]) = <<"anon", c>>
                    \/ \E i \in 1..N : SourceKey(t[i]) = <<"anon", c>>
      PROVE  /\ <<"anon", c>> \in SourceKeys(a) /\ <<"anon", c>> \in SourceKeys(b)
             /\ SourceOf(a, <<"anon", c>>) = SourceOf(b, <<"anon", c>>)
    <2> DEFINE k == <<"anon", c>>
               A == {j \in DOMAIN s : SourceKey(s[j]) = k}
               B == {j \in DOMAIN t : SourceKey(t[j]) = k}
               m == CHOOSE i \in A : \A j \in A : j <= i
    <2>1. \A j \in DOMAIN s : SourceKey(s[j]) = k <=> s[j].id = None /\ s[j].config = c
        <3> SUFFICES ASSUME NEW j \in DOMAIN s
                     PROVE  SourceKey(s[j]) = <<"anon", c>> <=> s[j].id = None /\ s[j].config = c
            OBVIOUS
        <3>1. s \in Seq(Source)
            BY <1>1
        <3> QED
            BY <3>1, AnonymousKeys
    <2>2. \A j \in DOMAIN t : SourceKey(t[j]) = k <=> t[j].id = None /\ t[j].config = c
        <3> SUFFICES ASSUME NEW j \in DOMAIN t
                     PROVE  SourceKey(t[j]) = <<"anon", c>> <=> t[j].id = None /\ t[j].config = c
            OBVIOUS
        <3>1. t \in Seq(Source)
            BY <1>1
        <3> QED
            BY <3>1, AnonymousKeys
    <2>3. A \subseteq B
        BY <1>1, <1>3, <2>1, <2>2
    <2>4. B \subseteq A
        BY <1>1, <1>3, <2>1, <2>2
    <2>5. A = B
        BY <2>3, <2>4
    <2>6. A # {} /\ A \in SUBSET (1..M)
        BY <1>1, <1>6, <2>5
    <2> HIDE DEF A, B
    <2>7. m \in A
        BY <1>1, <2>6, LastIndex
    <2> HIDE DEF m
    <2>8. SourceOf(a, k) = s[m] /\ SourceOf(b, k) = t[m]
        BY <2>5 DEF SourceOf, A, B, m, s, t
    <2>9. m \in 1..M /\ s[m].id = None /\ SourceKey(s[m]) = k
        BY <1>1, <2>1, <2>7 DEF A
    <2>10. s[m] = t[m] /\ m \in 1..N
        BY <1>3, <2>9
    <2> QED
        BY <1>5, <2>8, <2>9, <2>10
<1>7. ASSUME NEW k \in SourceKeys(a) \cup SourceKeys(b)
      PROVE  k \in SourceKeys(a) /\ k \in SourceKeys(b) /\ SourceOf(a, k) = SourceOf(b, k)
    <2>1. \/ \E i \in 1..M : SourceKey(s[i]) = k
          \/ \E i \in 1..N : SourceKey(t[i]) = k
        BY <1>5
    <2>2. \/ \E x : x # None /\ k = <<"id", x>>
          \/ \E c : k = <<"anon", c>>
        BY <2>1 DEF SourceKey
    <2>3. ASSUME NEW x, x # None, k = <<"id", x>>
          PROVE  k \in SourceKeys(a) /\ k \in SourceKeys(b) /\ SourceOf(a, k) = SourceOf(b, k)
        <3>1. \A j \in 1..M : SourceKey(s[j]) = k <=> s[j].id = x
            BY <1>1, <2>3, NamedSources
        <3>2. \A j \in 1..N : SourceKey(t[j]) = k <=> t[j].id = x
            BY <1>1, <2>3, NamedSources
        <3> QED
            BY <1>4, <1>5, <2>1, <2>3, <3>1, <3>2
    <2>4. ASSUME NEW c, k = <<"anon", c>>
          PROVE  k \in SourceKeys(a) /\ k \in SourceKeys(b) /\ SourceOf(a, k) = SourceOf(b, k)
        BY <1>6, <2>1, <2>4
    <2> QED
        BY <2>2, <2>3, <2>4
<1> QED
    BY <1>7

\* The numbers up to the smaller of two bounds are up to both.
LEMMA ShorterInterval ==
    \A m, l \in Nat : l <= m => \A n \in 1..l : n \in 1..m /\ n <= l
OBVIOUS

\* Whether two sections differ does not depend on which is the old one.
LEMMA ChangesBothWays ==
    ASSUME NEW a \in Section, NEW b \in Section
    PROVE  SectionChanges(a, b) = SectionChanges(b, a)
<1>1. Len(a.elements) \in Nat /\ Len(b.elements) \in Nat
    BY DEF Section
<1>2. Shorter(a.elements, b.elements) = Shorter(b.elements, a.elements)
    BY <1>1 DEF Shorter
<1>3. \A x, y : ElementChanges(x, y) = ElementChanges(y, x)
    BY DEF ElementChanges
<1>4. {k \in {"type", "data_source", "group_by"} : a[k] # b[k]}
        = {k \in {"type", "data_source", "group_by"} : b[k] # a[k]}
    OBVIOUS
<1>5. (\E i \in 1..Shorter(a.elements, b.elements) :
            Len(a.elements) = Len(b.elements) /\ ElementChanges(a.elements[i], b.elements[i]) # {})
        <=> (\E i \in 1..Shorter(b.elements, a.elements) :
            Len(b.elements) = Len(a.elements) /\ ElementChanges(b.elements[i], a.elements[i]) # {})
    BY <1>2, <1>3
<1> QED
    BY <1>4, <1>5 DEF SectionChanges

\* Which types have a modified section does not depend on which version is the
\* old one.
LEMMA ModifiedBothWays ==
    ASSUME NEW a \in Definitions, NEW b \in Definitions
    PROVE  SectionsModified(a, b) = SectionsModified(b, a)
<1>1. ASSUME NEW c \in Definitions, NEW d \in Definitions
      PROVE  SectionsModified(c, d) \subseteq SectionsModified(d, c)
    <2> SUFFICES ASSUME NEW s \in SectionsModified(c, d) PROVE s \in SectionsModified(d, c)
        OBVIOUS
    <2> DEFINE cs == OfType(c, s.type)
               ds == OfType(d, s.type)
    <2>1. /\ s \in [type : SectionTypes(c) \cap SectionTypes(d), nth : 1..Shorter(c.sections, d.sections)]
          /\ s.nth <= Shorter(cs, ds)
          /\ SectionChanges(c.sections[cs[s.nth]], d.sections[ds[s.nth]]) # {}
        BY DEF SectionsModified
    <2>2. Shorter(c.sections, d.sections) = Shorter(d.sections, c.sections)
        BY DefinitionParts DEF Shorter
    <2>3. /\ Len(cs) \in Nat /\ Len(ds) \in Nat
          /\ \A n \in 1..Len(cs) : cs[n] \in DOMAIN c.sections
          /\ \A n \in 1..Len(ds) : ds[n] \in DOMAIN d.sections
        BY SectionsOfType
    <2> HIDE DEF cs, ds
    <2>4. Shorter(cs, ds) = Shorter(ds, cs) /\ s.nth \in Nat \ {0}
        BY <2>1, <2>3, DefinitionParts DEF Shorter
    <2>5. s.nth \in 1..Len(cs) /\ s.nth \in 1..Len(ds)
        BY <2>1, <2>3, <2>4 DEF Shorter
    <2>6. cs[s.nth] \in 1..Len(c.sections) /\ ds[s.nth] \in 1..Len(d.sections)
        BY <2>3, <2>5, DefinitionParts
    <2>7. c.sections[cs[s.nth]] \in Section /\ d.sections[ds[s.nth]] \in Section
        <3> DEFINE S == Section
        <3>1. c.sections \in Seq(S) /\ d.sections \in Seq(S)
            BY DefinitionParts
        <3> HIDE DEF S
        <3>2. c.sections[cs[s.nth]] \in S /\ d.sections[ds[s.nth]] \in S
            BY <2>6, <3>1
        <3> QED
            BY <3>2 DEF S
    <2>8. SectionChanges(d.sections[ds[s.nth]], c.sections[cs[s.nth]]) # {}
        BY <2>1, <2>7, ChangesBothWays
    <2>9. s \in [type : SectionTypes(d) \cap SectionTypes(c), nth : 1..Shorter(d.sections, c.sections)]
        BY <2>1, <2>2
    <2> QED
        BY <2>1, <2>4, <2>8, <2>9 DEF SectionsModified, cs, ds
<1> QED
    BY <1>1

\* Two sections at one place that have one type are the same section of that
\* type on both sides.
LEMMA ShownSectionCounted ==
    ASSUME NEW a \in Definitions, NEW b \in Definitions,
           [i \in DOMAIN a.sections |-> a.sections[i].type]
                = [i \in DOMAIN b.sections |-> b.sections[i].type],
           SectionsModified(a, b) = {}
    PROVE  ~Differs(CompareSections(a, b))
<1> DEFINE M == Len(a.sections)
           N == Len(b.sections)
           ta == [i \in DOMAIN a.sections |-> a.sections[i].type]
           tb == [i \in DOMAIN b.sections |-> b.sections[i].type]
<1>1. M \in Nat /\ N \in Nat /\ DOMAIN a.sections = 1..M /\ DOMAIN b.sections = 1..N
    BY DefinitionParts
<1>2. 1..M = 1..N /\ \A i \in 1..M : a.sections[i].type = b.sections[i].type
    <2>1. ta = tb /\ DOMAIN ta = 1..M /\ DOMAIN tb = 1..N
        BY <1>1
    <2>2. \A i \in 1..M : ta[i] = a.sections[i].type
        BY <1>1
    <2>3. \A i \in 1..N : tb[i] = b.sections[i].type
        BY <1>1
    <2> HIDE DEF ta, tb
    <2> QED
        BY <2>1, <2>2, <2>3
<1>3. M = N
    <2> HIDE DEF M, N
    <2> QED
        BY <1>1, <1>2
<1>4. \A type : OfType(a, type) = OfType(b, type)
    <2> SUFFICES ASSUME NEW type PROVE OfType(a, type) = OfType(b, type)
        OBVIOUS
    <2>1. {i \in DOMAIN a.sections : a.sections[i].type = type}
             = {i \in DOMAIN b.sections : b.sections[i].type = type}
        BY <1>1, <1>2
    <2> QED
        BY <2>1 DEF OfType, Indices
<1>5. ASSUME NEW i \in 1..M PROVE SectionChanges(a.sections[i], b.sections[i]) = {}
    <2> DEFINE type == a.sections[i].type
               as == OfType(a, type)
    <2>1. i \in DOMAIN a.sections /\ a.sections[i].type = type
        BY <1>1
    <2>2. Len(as) \in Nat /\ Len(as) <= M /\ \E n \in 1..Len(as) : as[n] = i
        <3> HIDE DEF type
        <3>1. /\ Len(as) \in Nat /\ Len(as) <= Len(a.sections)
              /\ \A j \in DOMAIN a.sections : a.sections[j].type = type => \E n \in 1..Len(as) : as[n] = j
            BY SectionsOfType
        <3> QED
            BY <2>1, <3>1
    <2>3. PICK n \in 1..Len(as) : as[n] = i
        BY <2>2
    <2>4. as = OfType(b, type)
        BY <1>4
    <2> HIDE DEF as
    <2>5. type \in SectionTypes(a) /\ type \in SectionTypes(b)
        BY <1>1, <1>2, <1>3 DEF SectionTypes
    <2> HIDE DEF type
    <2> DEFINE s == [type |-> type, nth |-> n]
    <2>6. n \in 1..Shorter(a.sections, b.sections) /\ n <= Shorter(as, as)
        <3>1. Shorter(a.sections, b.sections) = M /\ Shorter(as, as) = Len(as)
            BY <1>3 DEF Shorter
        <3>2. n \in 1..M /\ n <= Len(as)
            <4>1. M \in Nat /\ Len(as) \in Nat /\ Len(as) <= M
                BY <1>1, <2>2
            <4>2. n \in 1..Len(as)
                BY <2>3
            <4> HIDE DEF M
            <4> QED
                BY <4>1, <4>2, ShorterInterval
        <3> QED
            BY <3>1, <3>2
    <2>7. /\ s \in [type : SectionTypes(a) \cap SectionTypes(b), nth : 1..Shorter(a.sections, b.sections)]
          /\ s.type = type /\ s.nth = n
        BY <2>5, <2>6
    <2> HIDE DEF s
    <2>8. SectionChanges(a.sections[as[n]], b.sections[as[n]]) # {} => s \in SectionsModified(a, b)
        BY <2>4, <2>6, <2>7 DEF SectionsModified, as
    <2> QED
        BY <2>3, <2>8
<1>6. ASSUME NEW i \in DOMAIN CompareSections(a, b) PROVE CompareSections(a, b)[i] = "unchanged"
    <2>1. i \in 1..M /\ i \in DOMAIN a.sections /\ i \in DOMAIN b.sections
        BY <1>1, <1>3 DEF CompareSections, Longer
    <2> QED
        BY <1>5, <2>1 DEF CompareSections, Status
<1> QED
    BY <1>6 DEF Differs

\* Sources that stand in the same order, of which one at most has no id.
LEMMA ShownSourceCounted ==
    ASSUME NEW a \in Definitions, NEW b \in Definitions,
           [i \in DOMAIN a.sources |-> a.sources[i].id] = [i \in DOMAIN b.sources |-> b.sources[i].id],
           Cardinality({i \in DOMAIN a.sources : a.sources[i].id = None}) <= 1,
           SourceKeys(a) = SourceKeys(b),
           \A k \in SourceKeys(a) : SourceOf(a, k) = SourceOf(b, k)
    PROVE  ~Differs(CompareSources(a, b))
<1> DEFINE s == a.sources
           t == b.sources
           M == Len(a.sources)
           N == Len(b.sources)
           ia == [i \in DOMAIN s |-> s[i].id]
           ib == [i \in DOMAIN t |-> t[i].id]
<1>1. /\ M \in Nat /\ N \in Nat /\ DOMAIN s = 1..M /\ DOMAIN t = 1..N
      /\ s \in Seq(Source) /\ t \in Seq(Source)
    BY DefinitionParts
<1>2. DOMAIN t = 1..M /\ \A i \in 1..M : s[i].id = t[i].id
    <2>1. ia = ib /\ DOMAIN ia = 1..M /\ DOMAIN ib = DOMAIN t
        BY <1>1
    <2>2. \A i \in 1..M : ia[i] = s[i].id
        BY <1>1
    <2>3. \A i \in DOMAIN t : ib[i] = t[i].id
        BY <1>1
    <2> HIDE DEF ia, ib
    <2> QED
        BY <2>1, <2>2, <2>3
<1>3. ASSUME NEW i \in 1..M, NEW j \in 1..M, s[i].id = None, s[j].id = None PROVE i = j
    <2> DEFINE A == {n \in DOMAIN s : s[n].id = None}
    <2>1. i \in A /\ j \in A /\ A \in SUBSET (1..M) /\ Cardinality(A) <= 1
        BY <1>1, <1>3
    <2> HIDE DEF A
    <2>2. IsFiniteSet(A) /\ Cardinality(A) \in Nat
        BY <1>1, <2>1, IndexSet
    <2>3. Cardinality(A) # 0
        BY <2>1, <2>2, FS_EmptySet
    <2>4. Cardinality(A) = 1
        BY <2>1, <2>2, <2>3
    <2>5. PICK x : A = {x}
        BY <2>2, <2>4, FS_Singleton
    <2> QED
        BY <2>1, <2>5
<1> HIDE DEF s, t, M, N, ia, ib
<1>4. ASSUME NEW i \in 1..M
      PROVE  /\ NameAt(s, "id", i) = NameAt(t, "id", i)
             /\ LastNamed(s, "id", NameAt(s, "id", i)) = LastNamed(t, "id", NameAt(s, "id", i))
    <2> DEFINE k == NameAt(s, "id", i)
               A == {j \in DOMAIN s : NameAt(s, "id", j) = k}
               B == {j \in DOMAIN t : NameAt(t, "id", j) = k}
               m == CHOOSE n \in A : \A j \in A : j <= n
    <2>1. \A j \in 1..M : NameAt(s, "id", j) = NameAt(t, "id", j)
        <3> SUFFICES ASSUME NEW j \in 1..M PROVE NameAt(s, "id", j) = NameAt(t, "id", j)
            OBVIOUS
        <3>1. s[j]["id"] = t[j]["id"]
            BY <1>2
        <3> QED
            BY <3>1 DEF NameAt
    <2>2. A = B /\ i \in A /\ A # {} /\ A \in SUBSET (1..M) /\ M \in Nat
        BY <1>1, <1>2, <2>1
    <2> HIDE DEF A, B
    <2>3. m \in A /\ LastNamed(s, "id", k) = s[m] /\ LastNamed(t, "id", k) = t[m]
        <3>1. m \in A
            BY <2>2, LastIndex
        <3> QED
            BY <2>2, <3>1 DEF LastNamed, A, B
    <2>4. CASE s[i].id # None
        <3> DEFINE x == s[i].id
                   l == <<"id", x>>
        <3>1. \A j \in DOMAIN s : (NameAt(s, "id", j) = [name |-> x, at |-> 0] <=> s[j].id = x)
                                  /\ (SourceKey(s[j]) = l <=> s[j].id = x)
            <4>1. s \in Seq(Source) /\ x # None
                BY <1>1, <2>4
            <4> HIDE DEF x
            <4> QED
                BY <4>1, NamedSources
        <3>2. \A j \in DOMAIN t : (NameAt(t, "id", j) = [name |-> x, at |-> 0] <=> t[j].id = x)
                                  /\ (SourceKey(t[j]) = l <=> t[j].id = x)
            <4>1. t \in Seq(Source) /\ x # None
                BY <1>1, <2>4
            <4> HIDE DEF x
            <4> QED
                BY <4>1, NamedSources
        <3>3. k = [name |-> x, at |-> 0] /\ l \in SourceKeys(a)
            BY <1>1, <3>1 DEF SourceKeys, s
        <3>4. A = {j \in DOMAIN s : SourceKey(s[j]) = l} /\ B = {j \in DOMAIN t : SourceKey(t[j]) = l}
            BY <3>1, <3>2, <3>3 DEF A, B
        <3>5. LastNamed(s, "id", k) = SourceOf(a, l)
            BY <3>4 DEF LastNamed, SourceOf, s, A
        <3>6. LastNamed(t, "id", k) = SourceOf(b, l)
            BY <3>4 DEF LastNamed, SourceOf, t, B
        <3> QED
            BY <2>1, <3>3, <3>5, <3>6
    <2>5. CASE s[i].id = None
        <3> DEFINE c == s[i].config
                   l == <<"anon", c>>
                   C == {j \in DOMAIN s : SourceKey(s[j]) = l}
                   D == {j \in DOMAIN t : SourceKey(t[j]) = l}
                   p == CHOOSE n \in C : \A j \in C : j <= n
                   q == CHOOSE n \in D : \A j \in D : j <= n
        <3>0. s \in Seq(Source) /\ t \in Seq(Source) /\ i \in DOMAIN s
            BY <1>1
        <3>1. \A j \in DOMAIN s : SourceKey(s[j]) = l => s[j].id = None
            <4> HIDE DEF c
            <4> SUFFICES ASSUME NEW j \in DOMAIN s, SourceKey(s[j]) = l PROVE s[j].id = None
                OBVIOUS
            <4> QED
                BY <3>0, AnonymousKeys
        <3>2. \A j \in DOMAIN t : SourceKey(t[j]) = l => t[j].id = None
            <4> HIDE DEF c
            <4> SUFFICES ASSUME NEW j \in DOMAIN t, SourceKey(t[j]) = l PROVE t[j].id = None
                OBVIOUS
            <4> QED
                BY <3>0, AnonymousKeys
        <3>3. SourceKey(s[i]) = l
            BY <3>0, <2>5, AnonymousKeys
        <3>4. l \in SourceKeys(a) /\ l \in SourceKeys(b)
            BY <3>0, <3>3 DEF SourceKeys, s
        <3>5. i \in C /\ C \subseteq {i} /\ C \in SUBSET (1..M)
            BY <1>1, <1>3, <2>5, <3>0, <3>1, <3>3
        <3>6. D # {} /\ D \subseteq {i} /\ D \in SUBSET (1..M)
            <4>1. D # {}
                BY <3>4 DEF SourceKeys, t
            <4>2. D \subseteq {i}
                BY <1>2, <1>3, <2>5, <3>2
            <4> QED
                BY <1>2, <4>1, <4>2
        <3> HIDE DEF C, D
        <3>7. p = i /\ q = i
            BY <1>1, <3>5, <3>6, LastIndex
        <3>8. SourceOf(a, l) = s[i] /\ SourceOf(b, l) = t[i]
            BY <3>7 DEF SourceOf, C, D, s, t
        <3>9. i \in Nat \ {0} /\ k = [name |-> None, at |-> i]
            BY <1>1, <2>5, <3>0, AnonymousNames
        <3>10. m = i
            BY <2>3, <3>0, <3>9, AnonymousNames DEF A
        <3> QED
            BY <2>1, <2>3, <3>4, <3>8, <3>10
    <2> QED
        BY <2>4, <2>5
<1>5. NamesOf(s, "id") = NamesOf(t, "id")
    BY <1>1, <1>2, <1>4 DEF NamesOf
<1>6. ASSUME NEW k \in NamesOf(s, "id")
      PROVE  LastNamed(s, "id", k) = LastNamed(t, "id", k)
    BY <1>1, <1>4 DEF NamesOf
<1>7. ASSUME NEW k \in DOMAIN CompareSources(a, b) PROVE CompareSources(a, b)[k] = "unchanged"
    <2>1. k \in NamesOf(s, "id") /\ k \in NamesOf(t, "id")
        BY <1>5 DEF CompareSources, CompareNamed, s, t
    <2>2. LastNamed(s, "id", k) = LastNamed(t, "id", k)
        BY <1>6, <2>1
    <2> QED
        BY <2>1, <2>2 DEF CompareSources, CompareNamed, Status, s, t
<1> QED
    BY <1>7 DEF Differs

-----------------------------------------------------------------------------
\* A comparison on the page is that of the two versions chosen.
ComparisonCore ==
    /\ old \in Definitions /\ new \in Definitions
    /\ comparison # None => comparison = Compared(old, new)

\* The summary and the details of the comparison of any two definitions agree.
LEMMA ComparedAgrees == ComparisonCore => SummaryAgreesWithDetails
<1> SUFFICES ASSUME ComparisonCore, comparison # None PROVE SummaryAgreesWithDetails
    BY DEF SummaryAgreesWithDetails
<1> DEFINE diff == Diff(old, new)
<1>1. old \in Definitions /\ new \in Definitions /\ comparison = Compared(old, new)
    BY DEF ComparisonCore
<1>2. /\ comparison.has_changes = HasChanges(diff) /\ comparison.diff = diff
      /\ comparison.sections = CompareSections(old, new)
      /\ comparison.sources = CompareSources(old, new)
    BY <1>1 DEF Compared
<1>3. /\ diff.sections_added = SectionsAdded(old, new) /\ diff.sections_removed = SectionsAdded(new, old)
      /\ diff.sections_modified = SectionsModified(old, new)
      /\ diff.sources_added = SourceKeys(new) \ SourceKeys(old)
      /\ diff.sources_removed = SourceKeys(old) \ SourceKeys(new)
      /\ diff.sources_modified
            = {k \in SourceKeys(old) \cap SourceKeys(new) : SourceOf(old, k) # SourceOf(new, k)}
      /\ DOMAIN diff = {"sections_added", "sections_removed", "sections_modified",
                        "sources_added", "sources_removed", "sources_modified"}
    BY DEF Diff
<1>4. /\ Diff(new, old).sections_removed = SectionsAdded(old, new)
      /\ Diff(new, old).sections_modified = SectionsModified(new, old)
    BY DEF Diff
<1> HIDE DEF diff
<1>5. ASSUME ~Differs(CompareSections(old, new)), ~Differs(CompareSources(old, new))
      PROVE  ~HasChanges(diff)
    <2>1. SectionsAdded(old, new) = {} /\ SectionsAdded(new, old) = {} /\ SectionsModified(old, new) = {}
        BY <1>1, <1>5, SectionsUnchanged
    <2>2. /\ SourceKeys(old) = SourceKeys(new)
          /\ \A k \in SourceKeys(old) : SourceOf(old, k) = SourceOf(new, k)
        BY <1>1, <1>5, SourcesUnchanged
    <2> QED
        BY <1>3, <2>1, <2>2 DEF HasChanges
<1>6. ASSUME SameShape, ~HasChanges(diff)
      PROVE  ~Differs(CompareSections(old, new)) /\ ~Differs(CompareSources(old, new))
    <2>1. SectionsModified(old, new) = {}
        BY <1>3, <1>6 DEF HasChanges
    <2>2. /\ SourceKeys(old) = SourceKeys(new)
          /\ \A k \in SourceKeys(old) : SourceOf(old, k) = SourceOf(new, k)
        BY <1>3, <1>6 DEF HasChanges
    <2>3. ~Differs(CompareSections(old, new))
        BY <1>1, <1>6, <2>1, ShownSectionCounted DEF SameShape
    <2>4. ~Differs(CompareSources(old, new))
        BY <1>1, <1>6, <2>2, ShownSourceCounted DEF SameShape
    <2> QED
        BY <2>3, <2>4
<1>7. SectionsModified(old, new) = SectionsModified(new, old)
    BY <1>1, ModifiedBothWays
<1> QED
    BY <1>2, <1>3, <1>4, <1>5, <1>6, <1>7 DEF SummaryAgreesWithDetails

\* The summary (services/versioning/diff.py) and the details
\* (services/versioning/compare.py) agree on whether sections or sources changed,
\* for any two versions of any definitions that are compared, in either direction.
THEOREM SummaryAgreesAlways == ComparisonSpec => []SummaryAgreesWithDetails
<1>1. ComparisonInit => ComparisonCore
    BY DEF ComparisonInit, ComparisonCore
<1>2. ComparisonCore /\ [ComparisonNext]_comparisonVars => ComparisonCore'
    BY DEF ComparisonCore, ComparisonNext, comparisonVars, Compare, Swap
<1> QED
    BY <1>1, <1>2, ComparedAgrees, PTL DEF ComparisonSpec
=============================================================================
