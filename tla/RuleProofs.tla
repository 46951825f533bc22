----------------------------- MODULE RuleProofs -----------------------------
(***************************************************************************)
(* The rules that keep no state, for inputs of every size: which           *)
(* remainders of a product are noticed, what the time range of a run       *)
(* covers, and the order of the evidence in the manifest.                  *)
(***************************************************************************)
EXTENDS MCRules, TLAPS, WellFoundedInduction, FiniteSetTheorems,
        SequenceTheorems

-----------------------------------------------------------------------------
(***************************************************************************)
(* Products.  The expectation is the one validate-required configures: a   *)
(* header, as many columns as it has, and a minimum of rows.               *)
(***************************************************************************)
Expected(header, minimum) ==
    [rows |-> {}, minimum |-> minimum,
     columns |-> {Len(header)}, header |-> {header}]

File(rows) == [kind |-> "file", rows |-> rows]

LEMMA PassedMeans ==
    ASSUME NEW Field, NEW header \in Seq(Field), NEW minimum \in SUBSET Nat,
           NEW rows \in Seq(Seq(Field))
    PROVE  Passed(File(rows), Expected(header, minimum)) <=>
               /\ rows # <<>>
               /\ \A i \in DOMAIN rows : Len(rows[i]) = Len(header)
               /\ rows[1] = header
               /\ \A m \in minimum : Len(rows) > m
<1> DEFINE expectation == Expected(header, minimum)
<1>1. Passed(File(rows), expectation) <=>
          \A check \in CheckNames : Holds(check, rows, expectation)
  BY DEF Passed, FailedChecks, File
<1>2. rows # <<>> => DataRows(rows) = Len(rows) - 1 /\ Len(rows) \in Nat
  BY DEF DataRows
<1>3. /\ Holds("non_empty", rows, expectation) <=> rows # <<>>
      /\ Holds("data_row_count", rows, expectation)
      /\ Holds("minimum_data_row_count", rows, expectation) <=>
           \A m \in minimum : DataRows(rows) >= m
      /\ Holds("column_count", rows, expectation) <=>
           rows # <<>> /\ \A i \in DOMAIN rows : Len(rows[i]) = Len(header)
      /\ Holds("header", rows, expectation) <=>
           rows # <<>> /\ rows[1] = header
  BY DEF Holds, Expected
<1>4. rows # <<>> =>
          ((\A m \in minimum : DataRows(rows) >= m)
             <=> \A m \in minimum : Len(rows) > m)
  BY <1>2
<1> QED
  BY <1>1, <1>3, <1>4 DEF CheckNames

(***************************************************************************)
(* What is left of a product that was cut.                                 *)
(***************************************************************************)
Remainder(rows, n, k) ==
    SubSeq(rows, 1, n) \o IF k = 0 THEN <<>> ELSE <<SubSeq(rows[n + 1], 1, k)>>

LEMMA RemainderRows ==
    ASSUME NEW Field, NEW rows \in Seq(Seq(Field)),
           NEW n \in 0 .. Len(rows) - 1, NEW k \in 0 .. Len(rows[n + 1])
    PROVE  LET rest == Remainder(rows, n, k)
           IN  /\ rest \in Seq(Seq(Field))
               /\ Len(rest) = IF k = 0 THEN n ELSE n + 1
               /\ \A i \in 1 .. n : rest[i] = rows[i]
               /\ k # 0 => rest[n + 1] = SubSeq(rows[n + 1], 1, k)
<1> DEFINE torn == SubSeq(rows[n + 1], 1, k)
           tail == IF k = 0 THEN <<>> ELSE <<torn>>
           rest == SubSeq(rows, 1, n) \o tail
<1>1. n \in Nat /\ n + 1 \in 1 .. Len(rows)
  OBVIOUS
<1>2. torn \in Seq(Field) /\ tail \in Seq(Seq(Field))
  BY <1>1
<1>3. /\ SubSeq(rows, 1, n) \in Seq(Seq(Field))
      /\ Len(SubSeq(rows, 1, n)) = n
      /\ \A i \in 1 .. n : SubSeq(rows, 1, n)[i] = rows[i]
  BY <1>1
<1>4. rest \in Seq(Seq(Field)) /\ Len(rest) = n + Len(tail)
  BY <1>2, <1>3
<1>5. Len(tail) = IF k = 0 THEN 0 ELSE 1
  OBVIOUS
<1>6. \A i \in 1 .. n : rest[i] = rows[i]
  BY <1>1, <1>2, <1>3
<1>7. k # 0 => rest[n + 1] = torn
  BY <1>1, <1>2, <1>3
<1>8. Remainder(rows, n, k) = rest
  BY DEF Remainder
<1> HIDE DEF rest, tail
<1> QED
  BY <1>1, <1>4, <1>5, <1>6, <1>7, <1>8

(***************************************************************************)
(* Of a good product, what a stopped extraction leaves passes exactly if   *)
(* no field is missing and the minimum of rows is there, for any number    *)
(* and width of rows.                                                      *)
(***************************************************************************)
THEOREM CutsAreNoticed ==
    ASSUME NEW Field, NEW header \in Seq(Field), NEW minimum \in SUBSET Nat,
           NEW rows \in Seq(Seq(Field)),
           NEW n \in 0 .. Len(rows) - 1, NEW k \in 0 .. Len(rows[n + 1])
    PROVE  CutIsNoticed(File(rows), Expected(header, minimum), n, k)
<1> DEFINE rest == Remainder(rows, n, k)
           width == Len(header)
<1> SUFFICES
      ASSUME Passed(File(rows), Expected(header, minimum))
      PROVE  Passed(File(rest), Expected(header, minimum)) <=>
                 /\ k \in {0, Len(rows[n + 1])}
                 /\ rest # <<>>
                 /\ \A m \in minimum : Len(rest) > m
  <2>1. Truncated(File(rows), n, k) = File(rest)
    <3>1. File(rows).rows = rows
      BY DEF File
    <3>2. Truncated(File(rows), n, k) = [File(rows) EXCEPT !.rows = rest]
      BY <3>1 DEF Truncated, Remainder
    <3> HIDE DEF rest
    <3> QED
      BY <3>2 DEF File
  <2>2. Expected(header, minimum).minimum = minimum
    BY DEF Expected
  <2>3. File(rows).rows = rows /\ File(rest).rows = rest
    BY DEF File
  <2> HIDE DEF rest
  <2> QED
    BY <2>1, <2>2, <2>3 DEF CutIsNoticed
<1>1. /\ rows # <<>> /\ rows[1] = header
      /\ \A i \in DOMAIN rows : Len(rows[i]) = width
  BY PassedMeans
<1>2. /\ rest \in Seq(Seq(Field))
      /\ Len(rest) = IF k = 0 THEN n ELSE n + 1
      /\ \A i \in 1 .. n : rest[i] = rows[i]
      /\ k # 0 => rest[n + 1] = SubSeq(rows[n + 1], 1, k)
  BY RemainderRows
<1> HIDE DEF rest
<1>3. n \in Nat /\ 1 .. n + 1 \subseteq DOMAIN rows
  BY <1>1
<1>4. rows[n + 1] \in Seq(Field) /\ Len(rows[n + 1]) = width /\ width \in Nat
  BY <1>1
<1>5. k # 0 => Len(rest[n + 1]) = k
  BY <1>2, <1>4
<1>6. k = width /\ k # 0 => rest[n + 1] = rows[n + 1]
  BY <1>2, <1>4, SubSeqFull
<1>7. Passed(File(rest), Expected(header, minimum)) <=>
          /\ rest # <<>>
          /\ \A i \in DOMAIN rest : Len(rest[i]) = width
          /\ rest[1] = header
          /\ \A m \in minimum : Len(rest) > m
  BY <1>2, PassedMeans
<1>8. CASE k = 0
  <2>1. \A i \in 1 .. n : Len(rest[i]) = width
    BY <1>1, <1>2, <1>3
  <2>2. rest # <<>> => n >= 1 /\ rest[1] = header
    BY <1>1, <1>2, <1>8
  <2> QED
    BY <1>2, <1>7, <1>8, <2>1, <2>2
<1>9. CASE k = width /\ k # 0
  <2>1. \A i \in 1 .. n + 1 : rest[i] = rows[i]
    BY <1>2, <1>3, <1>6, <1>9
  <2>2. \A i \in 1 .. n + 1 : Len(rest[i]) = width
    BY <1>1, <1>3, <2>1
  <2>3. rest[1] = header
    BY <1>1, <1>3, <2>1
  <2> QED
    BY <1>2, <1>4, <1>7, <1>9, <2>2, <2>3
<1>10. CASE k # 0 /\ k # width
  <2>1. n + 1 \in DOMAIN rest /\ Len(rest[n + 1]) # width
    BY <1>2, <1>5, <1>10
  <2> QED
    BY <1>4, <1>7, <1>10, <2>1
<1> QED
  BY <1>8, <1>9, <1>10

-----------------------------------------------------------------------------
LEMMA FiniteImage ==
    ASSUME NEW S, IsFiniteSet(S), NEW f
    PROVE  IsFiniteSet({f[x] : x \in S})
<1> DEFINE T == {f[x] : x \in S}
           g == [x \in S |-> f[x]]
<1>1. g \in [S -> T] /\ \A t \in T : \E x \in S : g[x] = t
  OBVIOUS
<1>2. g \in Surjection(S, T)
  BY <1>1 DEF Surjection
<1> QED
  BY <1>2, FS_Surjection

(***************************************************************************)
(* Time stamps.                                                            *)
(***************************************************************************)
LEMMA LeastNumber ==
    ASSUME NEW S \in SUBSET Nat, S # {}
    PROVE  \E m \in S : \A n \in S : m <= n
<1>1. OpToRel(<, Nat) = {pair \in Nat \X Nat : pair[1] < pair[2]}
  BY Zenon DEF OpToRel
<1>2. PICK m \in S : \A n \in S : <<n, m>> \notin OpToRel(<, Nat)
  BY WFMin, NatLessThanWellFounded
<1>3. \A n \in S : <<n, m>> \notin {pair \in Nat \X Nat : pair[1] < pair[2]}
  BY <1>1, <1>2
<1>4. \A n \in S : ~(n < m)
  <2> TAKE n \in S
  <2>1. <<n, m>> \in Nat \X Nat
    OBVIOUS
  <2> QED
    BY <1>3, <2>1
<1> QED
  BY <1>4

(***************************************************************************)
(* Induction, of a set of numbers.                                         *)
(***************************************************************************)
LEMMA UpTo ==
    ASSUME NEW N \in Nat, NEW T, 0 \in T,
           \A n \in 1 .. N : n - 1 \in T => n \in T
    PROVE  \A n \in 0 .. N : n \in T
<1> DEFINE Rest == {n \in 0 .. N : n \notin T}
<1> SUFFICES ASSUME Rest # {} PROVE FALSE
  OBVIOUS
<1>1. PICK m \in Rest : \A n \in Rest : m <= n
  <2>1. Rest \in SUBSET Nat
    OBVIOUS
  <2> HIDE DEF Rest
  <2> QED
    BY <2>1, LeastNumber
<1>2. m # 0 /\ m \in 1 .. N /\ m - 1 \in 0 .. N
  BY <1>1
<1>3. m - 1 \in T
  BY <1>1, <1>2
<1> QED
  BY <1>1, <1>2, <1>3

(***************************************************************************)
(* A finite set of numbers has a greatest: of the smallest one that had    *)
(* none, a part would have none either.                                    *)
(***************************************************************************)
LEMMA GreatestNumber ==
    ASSUME NEW S \in SUBSET Nat, S # {}, IsFiniteSet(S)
    PROVE  \E m \in S : \A n \in S : n <= m
<1> DEFINE Unbounded == {T \in SUBSET Nat : T # {} /\ IsFiniteSet(T)
                           /\ \A m \in T : \E n \in T : ~(n <= m)}
           Sizes == {Cardinality(T) : T \in Unbounded}
<1> SUFFICES ASSUME S \in Unbounded PROVE FALSE
  OBVIOUS
<1>1. Sizes \in SUBSET Nat /\ Sizes # {}
  BY FS_CardinalityType
<1>2. PICK T \in Unbounded :
        \A U \in Unbounded : Cardinality(T) <= Cardinality(U)
  <2>1. PICK c \in Sizes : \A d \in Sizes : c <= d
    BY <1>1, LeastNumber
  <2> QED
    BY <2>1
<1>3. PICK x \in T : TRUE
  OBVIOUS
<1> DEFINE U == T \ {x}
<1>4. /\ U \in SUBSET Nat /\ IsFiniteSet(U)
      /\ Cardinality(U) \in Nat /\ Cardinality(T) \in Nat
      /\ Cardinality(U) < Cardinality(T)
  <2>1. IsFiniteSet(U) /\ Cardinality(U) = Cardinality(T) - 1
    BY <1>3, FS_RemoveElement
  <2>2. Cardinality(U) \in Nat /\ Cardinality(T) \in Nat
    BY <2>1, FS_CardinalityType
  <2> QED
    BY <2>1, <2>2
<1>5. U # {}
  OBVIOUS
<1>6. PICK m \in U : \A n \in U : n <= m
  <2>1. U \notin Unbounded
    <3>1. ASSUME U \in Unbounded PROVE Cardinality(T) <= Cardinality(U)
      BY <1>2, <3>1
    <3> HIDE DEF U, Unbounded
    <3> QED
      BY <1>4, <3>1
  <2> QED
    BY <1>4, <1>5, <2>1
<1>7. PICK y \in T : ~(y <= m)
  OBVIOUS
<1>8. y = x
  BY <1>6, <1>7
<1>9. \A n \in T : n <= x
  BY <1>6, <1>7, <1>8
<1> QED
  BY <1>9

LEMMA InTextOrder ==
    ASSUME NEW m \in Nat, NEW n \in Nat
    PROVE  /\ TextRank(m) \in Nat
           /\ TextRank(m) <= TextRank(n) => m <= n + 2
           /\ TextRank(m) <= TextRank(n) /\ m % Second # 0 /\ n % Second # 0
                => m <= n
  BY DEF TextRank, Second

(***************************************************************************)
(* The choices of the manifest exist.                                      *)
(***************************************************************************)
LEMMA FirstExists ==
    ASSUME NEW moments \in SUBSET Nat, moments # {}
    PROVE  /\ FirstAsText(moments) \in moments
           /\ \A m \in moments : TextRank(FirstAsText(moments)) <= TextRank(m)
<1> DEFINE ranks == {TextRank(m) : m \in moments}
<1>1. \A m \in Nat : TextRank(m) \in Nat
  BY DEF TextRank, Second
<1>2. PICK r \in ranks : \A q \in ranks : r <= q
  BY <1>1, LeastNumber
<1>3. \E m \in moments : \A n \in moments : TextRank(m) <= TextRank(n)
  BY <1>2
<1> QED
  BY <1>3 DEF FirstAsText

LEMMA LastExists ==
    ASSUME NEW moments \in SUBSET Nat, moments # {}, IsFiniteSet(moments)
    PROVE  /\ LastAsText(moments) \in moments
           /\ \A m \in moments : TextRank(LastAsText(moments)) >= TextRank(m)
<1> DEFINE ranks == {TextRank(m) : m \in moments}
<1>1. \A m \in Nat : TextRank(m) \in Nat
  BY DEF TextRank, Second
<1>2. IsFiniteSet(ranks)
  <2> DEFINE rank == [m \in moments |-> TextRank(m)]
  <2>1. ranks = {rank[m] : m \in moments}
    OBVIOUS
  <2>2. IsFiniteSet({rank[m] : m \in moments})
    <3> HIDE DEF rank
    <3> QED
      BY FiniteImage
  <2> QED
    BY <2>1, <2>2
<1>3. PICK r \in ranks : \A q \in ranks : q <= r
  BY <1>1, <1>2, GreatestNumber
<1>4. \E m \in moments : \A n \in moments : TextRank(m) >= TextRank(n)
  BY <1>1, <1>3
<1> QED
  BY <1>4 DEF LastAsText

(***************************************************************************)
(* The run's time range covers all stages, for any number of them: exactly *)
(* if no stamp falls on a whole second, and short of less than one second  *)
(* otherwise.                                                              *)
(***************************************************************************)
THEOREM RangeCovers ==
    ASSUME NEW listed \in Seq([started : SUBSET Nat, finished : SUBSET Nat]),
           \A i \in DOMAIN listed : IsFiniteSet(listed[i].finished)
    PROVE  RangeCoversStages(listed)
<1> DEFINE starts == UNION {listed[i].started : i \in DOMAIN listed}
           finishes == UNION {listed[i].finished : i \in DOMAIN listed}
           stamps == UNION {listed[i].started \cup listed[i].finished :
                               i \in DOMAIN listed}
           slack == IF \A m \in stamps : m % Second # 0 THEN 0 ELSE Second - 1
<1>1. \A i \in DOMAIN listed :
          /\ listed[i].started \subseteq starts
          /\ listed[i].finished \subseteq finishes
          /\ listed[i].started \subseteq Nat
          /\ listed[i].finished \subseteq Nat
  <2> TAKE i \in DOMAIN listed
  <2> DEFINE Times == [started : SUBSET Nat, finished : SUBSET Nat]
  <2>1. listed[i] \in Times
    <3>1. listed \in Seq(Times) /\ i \in DOMAIN listed
      OBVIOUS
    <3> HIDE DEF Times
    <3> QED
      BY <3>1
  <2> QED
    BY <2>1
<1>2. starts \in SUBSET Nat /\ finishes \in SUBSET Nat
  BY <1>1
<1>3. starts \subseteq stamps /\ finishes \subseteq stamps
  OBVIOUS
<1>4. RunTimeRange(listed) =
          [from |-> IF starts = {} THEN {} ELSE {FirstAsText(starts)},
           to |-> IF finishes = {} THEN {} ELSE {LastAsText(finishes)}]
  BY DEF RunTimeRange
<1>5. IsFiniteSet(finishes)
  <2> DEFINE finished == [i \in DOMAIN listed |-> listed[i].finished]
             sets == {finished[i] : i \in DOMAIN listed}
  <2>1. sets = {listed[i].finished : i \in DOMAIN listed}
    OBVIOUS
  <2>2. IsFiniteSet(DOMAIN listed)
    BY FS_Interval
  <2>3. IsFiniteSet(sets)
    BY <2>2, FiniteImage
  <2> QED
    BY <2>1, <2>3, FS_UNION
<1>6. slack \in {0, 2}
        /\ (slack = 0 => \A m \in stamps : m % Second # 0)
  BY DEF Second
<1> HIDE DEF starts, finishes, stamps, slack
<1>7. \A m \in starts :
          FirstAsText(starts) \in starts /\ FirstAsText(starts) <= m + slack
  <2> TAKE m \in starts
  <2>1. FirstAsText(starts) \in starts
          /\ TextRank(FirstAsText(starts)) <= TextRank(m)
    BY <1>2, FirstExists
  <2>2. FirstAsText(starts) \in Nat /\ m \in Nat
    BY <1>2, <2>1
  <2>3. /\ FirstAsText(starts) <= m + 2
        /\ FirstAsText(starts) % Second # 0 /\ m % Second # 0
             => FirstAsText(starts) <= m
    BY <2>1, <2>2, InTextOrder
  <2>4. slack = 0 => FirstAsText(starts) % Second # 0 /\ m % Second # 0
    BY <1>3, <1>6, <2>1
  <2> QED
    BY <1>6, <2>1, <2>2, <2>3, <2>4
<1>8. \A m \in finishes :
          /\ LastAsText(finishes) \in finishes
          /\ m <= LastAsText(finishes) + slack
  <2> TAKE m \in finishes
  <2>1. LastAsText(finishes) \in finishes
          /\ TextRank(LastAsText(finishes)) >= TextRank(m)
    BY <1>2, <1>5, LastExists
  <2>2. TextRank(m) <= TextRank(LastAsText(finishes))
    BY <1>2, <2>1, InTextOrder
  <2>3. LastAsText(finishes) \in Nat /\ m \in Nat
    BY <1>2, <2>1
  <2>4. /\ m <= LastAsText(finishes) + 2
        /\ LastAsText(finishes) % Second # 0 /\ m % Second # 0
             => m <= LastAsText(finishes)
    BY <2>2, <2>3, InTextOrder
  <2>5. slack = 0 => LastAsText(finishes) % Second # 0 /\ m % Second # 0
    BY <1>3, <1>6, <2>1
  <2> QED
    BY <1>6, <2>1, <2>3, <2>4, <2>5
<1>9. RangeCoversStages(listed) <=>
          \A i \in DOMAIN listed :
              /\ \A m \in listed[i].started :
                   \E from \in RunTimeRange(listed).from : from <= m + slack
              /\ \A m \in listed[i].finished :
                   \E to \in RunTimeRange(listed).to : m <= to + slack
  BY DEF RangeCoversStages, stamps, slack
<1> QED
  BY <1>1, <1>4, <1>7, <1>8, <1>9

-----------------------------------------------------------------------------
(***************************************************************************)
(* The stable sort: an item's place is one more than the number of items   *)
(* that come before it.  Of two items one comes before the other, and has  *)
(* fewer before it; so no two share a place, and every place is taken.     *)
(***************************************************************************)
LEMMA Ranked ==
    ASSUME NEW N \in Nat, NEW items, DOMAIN items = 1 .. N,
           NEW key \in [1 .. N -> Int]
    PROVE  /\ \A i \in 1 .. N :
                Cardinality(SortedBefore(items, key, i)) \in 0 .. N - 1
           /\ \A i, j \in 1 .. N :
                i \in SortedBefore(items, key, j) =>
                  Cardinality(SortedBefore(items, key, i)) <
                    Cardinality(SortedBefore(items, key, j))
<1> DEFINE B(i) == SortedBefore(items, key, i)
<1>1. IsFiniteSet(1 .. N) /\ Cardinality(1 .. N) = N
  <2>1. 1 \in Int /\ N \in Int
    OBVIOUS
  <2> QED
    BY <2>1, FS_Interval
<1>2. ASSUME NEW i \in 1 .. N
      PROVE  B(i) \in SUBSET (1 .. N) /\ i \notin B(i)
  BY DEF SortedBefore
<1>3. ASSUME NEW i \in 1 .. N
      PROVE  IsFiniteSet(B(i)) /\ Cardinality(B(i)) \in Nat
  <2> HIDE DEF B
  <2> QED
    BY <1>1, <1>2, FS_Subset, FS_CardinalityType
<1>4. ASSUME NEW i \in 1 .. N PROVE Cardinality(B(i)) <= N - 1
  <2> DEFINE Others == (1 .. N) \ {i}
  <2>1. IsFiniteSet(Others) /\ Cardinality(Others) = N - 1
    BY <1>1, FS_RemoveElement
  <2>2. B(i) \in SUBSET Others
    BY <1>2
  <2> HIDE DEF B, Others
  <2> QED
    BY <2>1, <2>2, FS_Subset
<1>5. ASSUME NEW i \in 1 .. N, NEW j \in 1 .. N, i \in B(j)
      PROVE  Cardinality(B(i)) < Cardinality(B(j))
  <2>1. B(i) \in SUBSET B(j)
    BY <1>5 DEF SortedBefore
  <2>2. B(i) # B(j)
    BY <1>2, <1>5
  <2> HIDE DEF B
  <2>3. /\ Cardinality(B(i)) <= Cardinality(B(j))
        /\ Cardinality(B(i)) # Cardinality(B(j))
    BY <1>3, <2>1, <2>2, FS_Subset
  <2> QED
    BY <1>3, <2>3
<1> HIDE DEF B
<1>6. \A i \in 1 .. N : Cardinality(B(i)) \in 0 .. N - 1
  BY <1>3, <1>4
<1> QED
  BY <1>5, <1>6 DEF B

(***************************************************************************)
(* A sort gives each place an item of its own, with keys that never fall.  *)
(***************************************************************************)
Sorts(order, items, key, N) ==
    /\ SortedBy(items, key) = [n \in 1 .. N |-> items[order[n]]]
    /\ \A m, n \in 1 .. N :
         m < n => order[m] # order[n] /\ key[order[m]] <= key[order[n]]

LEMMA Sorted ==
    ASSUME NEW N \in Nat, NEW items, DOMAIN items = 1 .. N,
           NEW key \in [1 .. N -> Int]
    PROVE  \E order \in [1 .. N -> 1 .. N] : Sorts(order, items, key, N)
<1> DEFINE B(i) == SortedBefore(items, key, i)
           Item(n) == CHOOSE i \in 1 .. N : Cardinality(B(i)) = n - 1
           order == [n \in 1 .. N |-> Item(n)]
           place == [i \in 1 .. N |-> Cardinality(B(i)) + 1]
<1>1. /\ \A i \in 1 .. N : Cardinality(B(i)) \in 0 .. N - 1
      /\ \A i, j \in 1 .. N :
           i \in B(j) => Cardinality(B(i)) < Cardinality(B(j))
  BY Ranked
<1>2. \A i, j \in 1 .. N : i \in B(j) \/ i = j \/ j \in B(i)
  BY DEF SortedBefore
<1>3. SortedBy(items, key) = [n \in 1 .. N |-> items[Item(n)]]
  BY DEF SortedBy
<1>4. \A i, j \in 1 .. N : i \in B(j) => key[i] <= key[j]
  BY DEF SortedBefore
<1> HIDE DEF B
<1>5. place \in Injection(1 .. N, 1 .. N)
  <2>1. \A i \in 1 .. N : Cardinality(B(i)) + 1 \in 1 .. N
    BY <1>1
  <2>2. \A i, j \in 1 .. N :
          Cardinality(B(i)) + 1 = Cardinality(B(j)) + 1 => i = j
    <3> TAKE i, j \in 1 .. N
    <3>1. /\ Cardinality(B(i)) \in 0 .. N - 1
          /\ Cardinality(B(j)) \in 0 .. N - 1
          /\ i \in B(j) => Cardinality(B(i)) < Cardinality(B(j))
          /\ j \in B(i) => Cardinality(B(j)) < Cardinality(B(i))
      BY <1>1
    <3> QED
      BY <1>2, <3>1
  <2>3. place \in [1 .. N -> 1 .. N]
    BY <2>1
  <2>4. \A i, j \in 1 .. N : place[i] = place[j] => i = j
    BY <2>2
  <2> HIDE DEF place
  <2> QED
    BY <2>3, <2>4 DEF Injection, IsInjective
<1>6. place \in Surjection(1 .. N, 1 .. N)
  <2>1. IsFiniteSet(1 .. N)
    <3>1. 1 \in Int /\ N \in Int
      OBVIOUS
    <3> QED
      BY <3>1, FS_Interval
  <2> HIDE DEF place
  <2> QED
    BY <1>5, <2>1, FS_Injection
<1>7. \A n \in 1 .. N : \E i \in 1 .. N : Cardinality(B(i)) = n - 1
  <2> TAKE n \in 1 .. N
  <2>1. PICK i \in 1 .. N : place[i] = n
    <3> HIDE DEF place
    <3> QED
      BY <1>6 DEF Surjection
  <2>2. Cardinality(B(i)) + 1 = n /\ Cardinality(B(i)) \in Nat
    BY <1>1, <2>1
  <2> QED
    BY <2>2
<1>8. \A n \in 1 .. N : Item(n) \in 1 .. N /\ Cardinality(B(Item(n))) = n - 1
  BY <1>7
<1> HIDE DEF Item
<1>9. ASSUME NEW m \in 1 .. N, NEW n \in 1 .. N, m < n
      PROVE  Item(m) # Item(n) /\ key[Item(m)] <= key[Item(n)]
  <2> DEFINE i == Item(m)
             j == Item(n)
  <2>1. /\ i \in 1 .. N /\ Cardinality(B(i)) = m - 1
        /\ j \in 1 .. N /\ Cardinality(B(j)) = n - 1
    BY <1>8
  <2> HIDE DEF i, j
  <2>2. i # j /\ j \notin B(i)
    BY <1>1, <1>9, <2>1
  <2>3. i # j /\ key[i] <= key[j]
    BY <1>2, <1>4, <2>1, <2>2
  <2> QED
    BY <2>3 DEF i, j
<1>10. order \in [1 .. N -> 1 .. N] /\ \A n \in 1 .. N : order[n] = Item(n)
  BY <1>8
<1>11. SortedBy(items, key) = [n \in 1 .. N |-> items[order[n]]]
  BY <1>3, <1>10
<1> HIDE DEF order
<1>12. \A m, n \in 1 .. N :
         m < n => order[m] # order[n] /\ key[order[m]] <= key[order[n]]
  BY <1>9, <1>10
<1> QED
  BY <1>10, <1>11, <1>12 DEF Sorts

(***************************************************************************)
(* The playbook's targets.                                                 *)
(***************************************************************************)
TargetsStep(ordered, payload, targets, n) ==
    IF n = 0 THEN <<>>
    ELSE IF ordered[n].name = payload THEN targets[n - 1]
    ELSE Append(targets[n - 1], ordered[n].name)

(***************************************************************************)
(* The loop over the ordered stages, as a recursive function: there is one *)
(* for each number of stages, because there is one for one stage less.     *)
(***************************************************************************)
LEMMA TargetsEquation ==
    ASSUME NEW stages, NEW payload, Len(stages) \in Nat
    PROVE  \E targets :
             /\ \A n \in 0 .. Len(stages) :
                  targets[n] =
                    TargetsStep(OrderedStages(stages), payload, targets, n)
             /\ HarnessTargets(stages, payload) = targets[Len(stages)]
<1> DEFINE N == Len(stages)
           Step(f, n) == TargetsStep(OrderedStages(stages), payload, f, n)
           Fits(f, n) == f = [m \in 0 .. n |-> Step(f, m)]
           Depths == {n \in 0 .. N : \E f : Fits(f, n)}
<1>1. 0 \in Depths
  <2>1. Fits([m \in 0 .. 0 |-> <<>>], 0)
    BY DEF TargetsStep
  <2> HIDE DEF Fits
  <2>2. \E f : Fits(f, 0)
    BY <2>1
  <2> QED
    BY <2>2
<1>2. ASSUME NEW n \in 1 .. N, n - 1 \in Depths PROVE n \in Depths
  <2>1. PICK f : Fits(f, n - 1)
    BY <1>2
  <2> DEFINE g == [m \in 0 .. n |-> IF m = n THEN Step(f, n) ELSE f[m]]
  <2>2. \A m \in 0 .. n - 1 : f[m] = Step(f, m)
    BY <2>1
  <2>3. \A m \in 0 .. n : g[m] = Step(g, m)
    <3> TAKE m \in 0 .. n
    <3>1. g[m] = Step(f, m)
      <4>1. CASE m = n
        BY <4>1
      <4>2. CASE m # n
        <5>1. m \in 0 .. n - 1 /\ g[m] = f[m]
          BY <4>2
        <5> HIDE DEF g, Step
        <5> QED
          BY <2>2, <5>1
      <4> QED
        BY <4>1, <4>2
    <3>2. m # 0 => g[m - 1] = f[m - 1]
      OBVIOUS
    <3> HIDE DEF g
    <3> QED
      BY <3>1, <3>2 DEF TargetsStep
  <2>4. Fits(g, n)
    <3>1. g = [m \in 0 .. n |-> g[m]]
      OBVIOUS
    <3> HIDE DEF g, Step
    <3> QED
      BY <2>3, <3>1
  <2> HIDE DEF Fits, g
  <2> QED
    BY <2>4
<1>3. N \in Depths
  <2>1. N \in Nat /\ N \in 0 .. N
    OBVIOUS
  <2> HIDE DEF Depths, N
  <2>2. \A n \in 0 .. N : n \in Depths
    BY <1>1, <1>2, <2>1, UpTo
  <2> QED
    BY <2>1, <2>2
<1>4. PICK f : Fits(f, N)
  BY <1>3
<1> DEFINE targets == CHOOSE all : Fits(all, N)
<1>5. HarnessTargets(stages, payload) = targets[N]
  BY DEF HarnessTargets, TargetsStep
<1>6. Fits(targets, N)
  BY <1>4
<1> HIDE DEF targets, Step
<1>7. \A n \in 0 .. N : targets[n] = Step(targets, n)
  BY <1>6
<1> QED
  BY <1>5, <1>7 DEF Step

(***************************************************************************)
(* The targets are names of the ordered stages, in their order.            *)
(***************************************************************************)
Follows(targets, ordered, n) ==
    /\ \A p \in 1 .. Len(targets) :
         \E k \in 1 .. n : targets[p] = ordered[k].name
    /\ \A p, q \in 1 .. Len(targets) :
         p < q => \E k, l \in 1 .. n :
                    /\ k < l
                    /\ targets[p] = ordered[k].name
                    /\ targets[q] = ordered[l].name

LEMMA TargetsFollow ==
    ASSUME NEW stages, NEW payload, Len(stages) \in Nat
    PROVE  LET targets == HarnessTargets(stages, payload)
           IN  /\ DOMAIN targets = 1 .. Len(targets) /\ Len(targets) \in Nat
               /\ Follows(targets, OrderedStages(stages), Len(stages))
<1> DEFINE N == Len(stages)
           o == OrderedStages(stages)
           Names == {o[k].name : k \in 1 .. N}
<1>1. PICK targets :
        /\ \A n \in 0 .. N : targets[n] = TargetsStep(o, payload, targets, n)
        /\ HarnessTargets(stages, payload) = targets[N]
  BY TargetsEquation
<1> DEFINE Good == {n \in 0 .. N : /\ targets[n] \in Seq(Names)
                                   /\ Follows(targets[n], o, n)}
<1> HIDE DEF o
<1>2. 0 \in Good
  <2>1. targets[0] = <<>>
    BY <1>1 DEF TargetsStep
  <2>2. <<>> \in Seq(Names) /\ Follows(<<>>, o, 0)
    BY DEF Follows
  <2>3. 0 \in 0 .. N
    OBVIOUS
  <2>4. targets[0] \in Seq(Names) /\ Follows(targets[0], o, 0)
    BY <2>1, <2>2, Zenon
  <2> QED
    BY <2>3, <2>4, Zenon
<1>3. ASSUME NEW n \in 1 .. N, n - 1 \in Good PROVE n \in Good
  <2> DEFINE before == targets[n - 1]
             name == o[n].name
  <2>1. before \in Seq(Names) /\ Follows(before, o, n - 1)
    BY <1>3
  <2>2. targets[n] = IF name = payload THEN before ELSE Append(before, name)
    BY <1>1 DEF TargetsStep
  <2>3. name \in Names
    OBVIOUS
  <2>4. 1 .. n - 1 \subseteq 1 .. n /\ n \in 1 .. n
    OBVIOUS
  <2>5. CASE name = payload
    <3>1. Follows(before, o, n)
      BY <2>1, <2>4 DEF Follows
    <3> QED
      BY <2>1, <2>2, <2>5, <3>1
  <2>6. CASE name # payload
    <3> DEFINE s == Append(before, name)
    <3> HIDE DEF Names, before
    <3>1. /\ s \in Seq(Names) /\ Len(before) \in Nat
          /\ Len(s) = Len(before) + 1
          /\ s[Len(s)] = name
          /\ \A p \in 1 .. Len(before) : s[p] = before[p]
      BY <2>1, <2>3
    <3> HIDE DEF s
    <3>2. ASSUME NEW p \in 1 .. Len(s)
          PROVE  \E k \in 1 .. n : s[p] = o[k].name
      <4>1. CASE p = Len(s)
        BY <2>4, <3>1, <4>1 DEF name
      <4>2. CASE p # Len(s)
        <5>1. p \in 1 .. Len(before) /\ s[p] = before[p]
          BY <3>1, <4>2
        <5> QED
          BY <2>1, <2>4, <5>1 DEF Follows
      <4> QED
        BY <4>1, <4>2
    <3>3. ASSUME NEW p \in 1 .. Len(s), NEW q \in 1 .. Len(s), p < q
          PROVE  \E k, l \in 1 .. n :
                   k < l /\ s[p] = o[k].name /\ s[q] = o[l].name
      <4>1. p \in 1 .. Len(before) /\ s[p] = before[p]
        BY <3>1, <3>3
      <4>2. CASE q = Len(s)
        <5>1. PICK k \in 1 .. n - 1 : before[p] = o[k].name
          BY <2>1, <4>1 DEF Follows
        <5>2. k \in 1 .. n /\ k < n
          BY <5>1
        <5> QED
          BY <2>4, <3>1, <4>1, <4>2, <5>1, <5>2 DEF name
      <4>3. CASE q # Len(s)
        <5>1. q \in 1 .. Len(before) /\ s[q] = before[q]
          BY <3>1, <4>3
        <5> QED
          BY <2>1, <2>4, <3>3, <4>1, <5>1 DEF Follows
      <4> QED
        BY <4>2, <4>3
    <3>4. Follows(s, o, n)
      BY <3>2, <3>3 DEF Follows
    <3>5. targets[n] = s
      BY <2>2, <2>6 DEF s, before
    <3> QED
      BY <3>1, <3>4, <3>5
  <2> QED
    BY <2>5, <2>6
<1>4. N \in Good
  <2>1. N \in Nat /\ N \in 0 .. N
    OBVIOUS
  <2> HIDE DEF Good, N
  <2>2. \A n \in 0 .. N : n \in Good
    BY <1>2, <1>3, <2>1, UpTo
  <2> QED
    BY <2>1, <2>2
<1> QED
  BY <1>1, <1>4 DEF o

(***************************************************************************)
(* ManifestFollowsPlaybook, for every configuration whose stages have      *)
(* names of their own, any payload, and the evidence of any stages, one    *)
(* record each: _ordered_stage_records lists it as the playbook ran.       *)
(***************************************************************************)
THEOREM ManifestFollows ==
    ASSUME NEW stages, NEW N \in Nat, DOMAIN stages = 1 .. N, Len(stages) = N,
           \A k \in 1 .. N : stages[k].order \in Int,
           \A k, l \in 1 .. N : stages[k].name = stages[l].name => k = l,
           NEW records, NEW M \in Nat, DOMAIN records = 1 .. M,
           Len(records) = M,
           \A i, j \in 1 .. M : records[i].name = records[j].name => i = j,
           NEW payload
    PROVE  ManifestFollowsPlaybook(records, stages, payload)
<1> DEFINE Places(name) == {p \in DOMAIN stages : stages[p].name = name}
           Rank(name) == IF Places(name) = {} THEN Len(records)
                         ELSE stages[Max(Places(name))].order
           ranks == [i \in 1 .. M |-> Rank(records[i].name)]
           orders == [k \in 1 .. N |-> stages[k].order]
           targets == HarnessTargets(stages, payload)
           ordered == OrderedStages(stages)
           listed == OrderedRecords(records, stages)
<1> SUFFICES
      ASSUME Cardinality({stages[i].order : i \in DOMAIN stages}) =
               Len(stages),
             NEW i \in DOMAIN listed, NEW j \in DOMAIN listed,
             NEW p \in DOMAIN targets, NEW q \in DOMAIN targets,
             targets[p] = listed[i].name, targets[q] = listed[j].name, i < j
      PROVE  p < q
  BY DEF ManifestFollowsPlaybook
<1>1. \A k, l \in 1 .. N : stages[k].order = stages[l].order => k = l
  <2> DEFINE Orders == {stages[k].order : k \in 1 .. N}
  <2>1. Cardinality(Orders) = N
    OBVIOUS
  <2>2. IsFiniteSet(1 .. N) /\ Cardinality(1 .. N) = N
    <3>1. 1 \in Int /\ N \in Int
      OBVIOUS
    <3> QED
      BY <3>1, FS_Interval
  <2>3. /\ orders \in [1 .. N -> Orders]
        /\ \A o \in Orders : \E k \in 1 .. N : orders[k] = o
    OBVIOUS
  <2> HIDE DEF Orders
  <2>4. orders \in Injection(1 .. N, Orders)
    <3> HIDE DEF orders
    <3>1. orders \in Surjection(1 .. N, Orders)
      BY <2>3 DEF Surjection
    <3> QED
      BY <2>1, <2>2, <3>1, FS_Surjection
  <2>5. \A k, l \in 1 .. N : orders[k] = orders[l] => k = l
    <3> HIDE DEF orders
    <3> QED
      BY <2>4 DEF Injection, IsInjective
  <2> QED
    BY <2>5
<1>2. \A k \in 1 .. N : Rank(stages[k].name) = stages[k].order
  <2> TAKE k \in 1 .. N
  <2>1. Places(stages[k].name) = {k}
    OBVIOUS
  <2>2. Max({k}) = k
    BY DEF Max
  <2> HIDE DEF Places
  <2> QED
    BY <2>1, <2>2
<1>3. ranks \in [1 .. M -> Int]
  <2> SUFFICES ASSUME NEW m \in 1 .. M PROVE Rank(records[m].name) \in Int
    OBVIOUS
  <2>1. CASE Places(records[m].name) = {}
    BY <2>1
  <2>2. CASE Places(records[m].name) # {}
    <3>1. PICK k \in 1 .. N : stages[k].name = records[m].name
      BY <2>2
    <3> HIDE DEF Rank
    <3> QED
      BY <1>2, <3>1
  <2> QED
    BY <2>1, <2>2
<1> HIDE DEF Rank
<1>4. PICK of \in [1 .. M -> 1 .. M] : Sorts(of, records, ranks, M)
  <2> HIDE DEF ranks
  <2> QED
    BY <1>3, Sorted
<1>5. PICK at \in [1 .. N -> 1 .. N] : Sorts(at, stages, orders, N)
  <2>1. orders \in [1 .. N -> Int]
    OBVIOUS
  <2> HIDE DEF orders
  <2> QED
    BY <2>1, Sorted
<1>6. listed = [n \in 1 .. M |-> records[of[n]]]
  BY <1>4 DEF Sorts, OrderedRecords, Rank
<1>7. ordered = [n \in 1 .. N |-> stages[at[n]]]
  BY <1>5 DEF Sorts, OrderedStages
<1>8. /\ i \in 1 .. M /\ j \in 1 .. M
      /\ listed[i].name # listed[j].name
      /\ Rank(listed[i].name) <= Rank(listed[j].name)
  <2>1. i \in 1 .. M /\ j \in 1 .. M
    BY <1>6
  <2>2. /\ of[i] \in 1 .. M /\ of[j] \in 1 .. M /\ of[i] # of[j]
        /\ ranks[of[i]] <= ranks[of[j]]
    BY <1>4, <2>1 DEF Sorts
  <2>3. listed[i] = records[of[i]] /\ listed[j] = records[of[j]]
    BY <1>6, <2>1
  <2>4. /\ ranks[of[i]] = Rank(records[of[i]].name)
        /\ ranks[of[j]] = Rank(records[of[j]].name)
    BY <2>2
  <2>5. records[of[i]].name # records[of[j]].name
    BY <2>2
  <2> HIDE DEF listed, ranks
  <2> QED
    BY <2>1, <2>2, <2>3, <2>4, <2>5
<1>9. /\ p \in 1 .. Len(targets) /\ q \in 1 .. Len(targets)
      /\ Len(targets) \in Nat /\ Follows(targets, ordered, N)
  BY TargetsFollow
<1> HIDE DEF listed, targets, ordered
<1>10. p # q
  BY <1>8
<1>11. ASSUME q < p PROVE FALSE
  <2>1. PICK k \in 1 .. N, l \in 1 .. N :
          /\ k < l
          /\ targets[q] = ordered[k].name
          /\ targets[p] = ordered[l].name
    BY <1>9, <1>11 DEF Follows
  <2>2. /\ at[k] \in 1 .. N /\ at[l] \in 1 .. N /\ at[k] # at[l]
        /\ stages[at[k]].order <= stages[at[l]].order
    BY <1>5, <2>1 DEF Sorts
  <2>3. stages[at[k]].order < stages[at[l]].order
    BY <1>1, <2>2
  <2>4. /\ listed[j].name = stages[at[k]].name
        /\ listed[i].name = stages[at[l]].name
    BY <1>7, <2>1
  <2>5. /\ Rank(listed[j].name) = stages[at[k]].order
        /\ Rank(listed[i].name) = stages[at[l]].order
    BY <1>2, <2>2, <2>4
  <2>6. stages[at[l]].order <= stages[at[k]].order
    BY <1>8, <2>5
  <2>7. stages[at[k]].order \in Int /\ stages[at[l]].order \in Int
    BY <2>2
  <2> QED
    BY <2>3, <2>6, <2>7
<1> QED
  BY <1>9, <1>10, <1>11

-----------------------------------------------------------------------------
(***************************************************************************)
(* The inputs of MCRules are of the sizes and types that these theorems    *)
(* are about.                                                              *)
(***************************************************************************)
Fields == {"h1", "h2", "x"}

LEMMA CsvInputs ==
    ASSUME PickCsv
    PROVE  \E rows \in Seq(Seq(Fields)) :
             /\ input'.product = File(rows)
             /\ input'.minimum \in SUBSET Nat
             /\ input'.row \in 0 .. Len(rows) - 1
             /\ input'.field \in 0 .. Len(rows[input'.row + 1])
<1>1. PICK header \in {Header, <<"h2", "h1">>, <<"h1">>, <<>>},
           n \in 0 .. 3, minimum \in {{}, {1}, {2}} :
        \E widths \in [1 .. n -> 0 .. 3], r \in 0 .. n :
          LET rows == <<header>> \o [i \in 1 .. n |-> Row(widths[i])]
          IN  \E k \in 0 .. Len(rows[r + 1]) :
                input' = [kind |-> "csv",
                          product |-> [kind |-> "file", rows |-> rows],
                          minimum |-> minimum, row |-> r, field |-> k]
  BY DEF PickCsv
<1>0. PICK widths \in [1 .. n -> 0 .. 3], r \in 0 .. n :
        LET rows == <<header>> \o [i \in 1 .. n |-> Row(widths[i])]
        IN  \E k \in 0 .. Len(rows[r + 1]) :
              input' = [kind |-> "csv",
                        product |-> [kind |-> "file", rows |-> rows],
                        minimum |-> minimum, row |-> r, field |-> k]
  BY <1>1
<1> DEFINE data == [i \in 1 .. n |-> Row(widths[i])]
           rows == <<header>> \o data
<1>2. header \in Seq(Fields)
  <2>1. /\ <<"h1", "h2">> \in Seq(Fields) /\ <<"h2", "h1">> \in Seq(Fields)
        /\ <<"h1">> \in Seq(Fields)
    BY DEF Fields
  <2>2. <<>> \in Seq(Fields)
    OBVIOUS
  <2> QED
    BY <2>1, <2>2 DEF Header
<1>3. \A i \in 1 .. n : Row(widths[i]) \in Seq(Fields)
  BY DEF Row, Fields
<1>4. data \in Seq(Seq(Fields)) /\ Len(data) = n
  <2> HIDE DEF Row
  <2> QED
    BY <1>3
<1>5. rows \in Seq(Seq(Fields)) /\ Len(rows) = n + 1
  <2>1. <<header>> \in Seq(Seq(Fields)) /\ Len(<<header>>) = 1
    BY <1>2
  <2> HIDE DEF data
  <2> QED
    BY <1>4, <2>1
<1>6. PICK k \in 0 .. Len(rows[r + 1]) :
        input' = [kind |-> "csv",
                  product |-> [kind |-> "file", rows |-> rows],
                  minimum |-> minimum, row |-> r, field |-> k]
  BY <1>0
<1> HIDE DEF rows
<1>7. input'.product = File(rows)
  BY <1>6 DEF File
<1>8. input'.row = r /\ input'.field = k /\ input'.minimum = minimum
  BY <1>6
<1>9. r \in 0 .. Len(rows) - 1
  BY <1>5
<1> QED
  BY <1>5, <1>7, <1>8, <1>9

LEMMA TimesInputs ==
    ASSUME PickTimes
    PROVE  \E n \in 0 .. 2 : \E starts, finishes \in [1 .. n -> Stamps] :
             input'.listed = [i \in 1 .. n |-> [started |-> starts[i],
                                               finished |-> finishes[i]]]
<1>1. PICK n \in 0 .. 2 : \E starts, finishes \in [1 .. n -> Stamps] :
        input' = [kind |-> "times",
                  listed |-> [i \in 1 .. n |->
                      [started |-> starts[i], finished |-> finishes[i]]]]
  BY Zenon DEF PickTimes
<1>2. PICK starts \in [1 .. n -> Stamps], finishes \in [1 .. n -> Stamps] :
        input' = [kind |-> "times",
                  listed |-> [i \in 1 .. n |->
                      [started |-> starts[i], finished |-> finishes[i]]]]
  BY <1>1, Zenon
<1> DEFINE listed == [i \in 1 .. n |-> [started |-> starts[i],
                                       finished |-> finishes[i]]]
<1>3. input'.listed = listed
  <2>1. input' = [kind |-> "times", listed |-> listed]
    BY <1>2
  <2> HIDE DEF listed
  <2> QED
    BY <2>1
<1> QED
  BY <1>3, Zenon

(***************************************************************************)
(* Each input of PickOrder has stages and records with names of their own. *)
(***************************************************************************)
LEMMA OrderInputs ==
    ASSUME PickOrder
    PROVE  ManifestFollowsPlaybook(input'.records, input'.stages, "p")
<1>1. PICK n \in 0 .. 5 :
        \E names \in Evidence(n), orders \in [1 .. 4 -> 1 .. 4] :
          input' = [kind |-> "order",
                    stages |-> [i \in 1 .. 4 |->
                        [name |-> Configured[i], order |-> orders[i]]],
                    records |-> [i \in 1 .. n |-> [name |-> names[i]]]]
  BY DEF PickOrder
<1>2. PICK names \in Evidence(n), orders \in [1 .. 4 -> 1 .. 4] :
        input' = [kind |-> "order",
                  stages |-> [i \in 1 .. 4 |->
                      [name |-> Configured[i], order |-> orders[i]]],
                  records |-> [i \in 1 .. n |-> [name |-> names[i]]]]
  BY <1>1
<1> DEFINE stages == [i \in 1 .. 4 |->
                         [name |-> Configured[i], order |-> orders[i]]]
           records == [i \in 1 .. n |-> [name |-> names[i]]]
<1>3. input'.stages = stages /\ input'.records = records
  BY <1>2
<1>4. /\ DOMAIN stages = 1 .. 4 /\ Len(stages) = 4
      /\ DOMAIN records = 1 .. n /\ Len(records) = n
  OBVIOUS
<1>5. \A k \in 1 .. 4 :
        stages[k].order = orders[k] /\ stages[k].name = Configured[k]
  OBVIOUS
<1>6. \A i \in 1 .. n : records[i].name = names[i]
  OBVIOUS
<1>7. \A k, l \in 1 .. 4 : Configured[k] = Configured[l] => k = l
  <2>1. /\ Configured[1] = "c" /\ Configured[2] = "a"
        /\ Configured[3] = "p" /\ Configured[4] = "b"
    BY DEF Configured
  <2>2. \A k \in 1 .. 4 : k = 1 \/ k = 2 \/ k = 3 \/ k = 4
    OBVIOUS
  <2> QED
    BY <2>1, <2>2
<1>8. \A i, j \in 1 .. n : names[i] = names[j] => i = j
  BY DEF Evidence
<1> HIDE DEF stages, records
<1>9. \A k \in 1 .. 4 : stages[k].order \in Int
  BY <1>5
<1>10. \A k, l \in 1 .. 4 : stages[k].name = stages[l].name => k = l
  BY <1>5, <1>7
<1>11. \A i, j \in 1 .. n : records[i].name = records[j].name => i = j
  BY <1>6, <1>8
<1>12. 4 \in Nat /\ n \in Nat
  OBVIOUS
<1>13. ManifestFollowsPlaybook(records, stages, "p")
  BY <1>4, <1>9, <1>10, <1>11, <1>12, ManifestFollows
<1> QED
  BY <1>3, <1>13

(***************************************************************************)
(* Each step picks an input of one kind.                                   *)
(***************************************************************************)
LEMMA OneKind ==
    /\ Init => input.kind = "none"
    /\ Next =>
         /\ input'.kind = "csv" => PickCsv
         /\ input'.kind = "keys" => PickKeys
         /\ input'.kind = "order" => PickOrder
         /\ input'.kind = "times" => PickTimes
<1>1. Init => input.kind = "none"
  BY DEF Init
<1>2. PickCsv => input'.kind = "csv"
  BY DEF PickCsv
<1>3. PickKeys => input'.kind = "keys"
  BY DEF PickKeys
<1>4. PickOrder => input'.kind = "order"
  BY DEF PickOrder
<1>5. PickTimes => input'.kind = "times"
  BY DEF PickTimes
<1> QED
  BY <1>1, <1>2, <1>3, <1>4, <1>5 DEF Next

(***************************************************************************)
(* A product cut off anywhere is noticed, unless no field is missing and   *)
(* the minimum of rows is there.                                           *)
(***************************************************************************)
THEOREM TornProducts == Spec => []TornProductIsNoticed
<1>1. Init => TornProductIsNoticed
  BY OneKind DEF TornProductIsNoticed
<1>2. ASSUME Next PROVE TornProductIsNoticed'
  <2> SUFFICES
        ASSUME input'.kind = "csv"
        PROVE  CutIsNoticed(input'.product,
                            [rows |-> {}, minimum |-> input'.minimum,
                             columns |-> {Len(Header)}, header |-> {Header}],
                            input'.row, input'.field)
    BY DEF TornProductIsNoticed
  <2>1. PICK rows \in Seq(Seq(Fields)) :
          /\ input'.product = File(rows)
          /\ input'.minimum \in SUBSET Nat
          /\ input'.row \in 0 .. Len(rows) - 1
          /\ input'.field \in 0 .. Len(rows[input'.row + 1])
    BY <1>2, OneKind, CsvInputs
  <2>2. Header \in Seq(Fields)
    BY DEF Header, Fields
  <2>3. CutIsNoticed(File(rows), Expected(Header, input'.minimum),
                     input'.row, input'.field)
    BY <2>1, <2>2, CutsAreNoticed
  <2> QED
    BY <2>1, <2>3 DEF Expected
<1>3. TornProductIsNoticed /\ UNCHANGED input => TornProductIsNoticed'
  BY DEF TornProductIsNoticed
<1> QED
  BY <1>1, <1>2, <1>3, PTL DEF Spec

(***************************************************************************)
(* OneStageOrder: the evidence is listed in the playbook's order.          *)
(***************************************************************************)
THEOREM OneOrder == Spec => []OneStageOrder
<1>1. Init => OneStageOrder
  BY OneKind DEF OneStageOrder
<1>2. ASSUME Next PROVE OneStageOrder'
  <2> SUFFICES ASSUME input'.kind = "order"
               PROVE  ManifestFollowsPlaybook(input'.records,
                                              input'.stages, "p")
    BY DEF OneStageOrder
  <2>1. PickOrder
    BY <1>2, OneKind
  <2> QED
    BY <2>1, OrderInputs
<1>3. OneStageOrder /\ UNCHANGED input => OneStageOrder'
  BY DEF OneStageOrder
<1> QED
  BY <1>1, <1>2, <1>3, PTL DEF Spec

(***************************************************************************)
(* The manifest's time range covers every stage it lists, up to the second *)
(* that the text of a stamp on a whole second may cost.                    *)
(***************************************************************************)
THEOREM RangesCover == Spec => []RunCoversStages
<1>1. Init => RunCoversStages
  BY OneKind DEF RunCoversStages
<1>2. ASSUME Next PROVE RunCoversStages'
  <2> SUFFICES ASSUME input'.kind = "times"
               PROVE  RangeCoversStages(input'.listed)
    BY DEF RunCoversStages
  <2>0. PICK n \in 0 .. 2 : \E starts, finishes \in [1 .. n -> Stamps] :
          input'.listed = [i \in 1 .. n |-> [started |-> starts[i],
                                            finished |-> finishes[i]]]
    BY <1>2, OneKind, TimesInputs
  <2>1. PICK starts \in [1 .. n -> Stamps], finishes \in [1 .. n -> Stamps] :
          input'.listed = [i \in 1 .. n |-> [started |-> starts[i],
                                            finished |-> finishes[i]]]
    BY <2>0
  <2> DEFINE Times == [started : SUBSET Nat, finished : SUBSET Nat]
             listed == [i \in 1 .. n |-> [started |-> starts[i],
                                         finished |-> finishes[i]]]
  <2>2. \A s \in Stamps : s \in SUBSET Nat /\ IsFiniteSet(s)
    <3>1. IsFiniteSet({}) /\ \A m \in 0 .. 5 : IsFiniteSet({m})
      BY FS_EmptySet, FS_Singleton
    <3> TAKE s \in Stamps
    <3>2. s = {} \/ \E m \in 0 .. 5 : s = {m}
      BY DEF Stamps
    <3>3. CASE s = {}
      BY <3>1, <3>3
    <3>4. ASSUME NEW m \in 0 .. 5, s = {m}
          PROVE  s \in SUBSET Nat /\ IsFiniteSet(s)
      <4>1. IsFiniteSet({m})
        BY <3>1
      <4>2. {m} \in SUBSET Nat
        OBVIOUS
      <4> QED
        BY <3>4, <4>1, <4>2, Zenon
    <3> QED
      BY <3>2, <3>3, <3>4, Zenon
  <2>3. \A i \in 1 .. n : starts[i] \in SUBSET Nat
                        /\ finishes[i] \in SUBSET Nat
                        /\ IsFiniteSet(finishes[i])
    BY <2>2
  <2>4. listed \in Seq(Times)
    BY <2>3
  <2>5. \A i \in DOMAIN listed : IsFiniteSet(listed[i].finished)
    BY <2>3
  <2> HIDE DEF listed
  <2> QED
    BY <2>1, <2>4, <2>5, RangeCovers DEF listed
<1>3. RunCoversStages /\ UNCHANGED input => RunCoversStages'
  BY DEF RunCoversStages
<1> QED
  BY <1>1, <1>2, <1>3, PTL DEF Spec

=============================================================================
