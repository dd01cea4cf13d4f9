----------------------------- MODULE ThreadsProofs -----------------------------
(***************************************************************************)
(* What the list operations of KernelList preserve, for lists of any       *)
(* length, and what the functions of threads/thread.c preserve, for any    *)
(* set of threads and any priorities: each one takes a scheduler state     *)
(* that satisfies SchedOK to one that does, in priority order if it was in *)
(* priority order.                                                         *)
(***************************************************************************)
EXTENDS Threads, TLAPS, SequenceTheorems, FiniteSetTheorems, FunctionTheorems, WellFoundedInduction

--------------------------------------------------------------------------------
(* Lists.                                                                  *)

\* A nonempty set of naturals has a least element.
LEMMA LeastNatural ==
  ASSUME NEW S \in SUBSET Nat, S # {}
  PROVE  \E n \in S : \A m \in S : n <= m
<1>1. PICK n \in S : \A m \in S : ~(<<m, n>> \in OpToRel(<, Nat))
  BY NatLessThanWellFounded, WFMin
<1>2. \A m \in S : ~(m < n)
  BY <1>1 DEF OpToRel
<1> QED BY <1>2

\* The elements of a list are what the list holds.
LEMMA ListElemsType ==
  ASSUME NEW T, NEW s \in Seq(T)
  PROVE  ListElems(s) \subseteq T
BY ElementOfSeq DEF ListElems

\* list_insert_ordered finds a place, and everything before it stays before it.
LEMMA InsertPositionExists ==
  ASSUME NEW T, NEW s \in Seq(T), NEW x \in T, NEW key \in [T -> Int]
  PROVE  /\ InsertPosition(s, x, key) \in 1 .. Len(s) + 1
         /\ \A j \in 1 .. InsertPosition(s, x, key) - 1 : key[s[j]] >= key[x]
         /\ InsertPosition(s, x, key) <= Len(s) => key[x] > key[s[InsertPosition(s, x, key)]]
<1> DEFINE After == {i \in 1 .. Len(s) + 1 : i <= Len(s) => key[x] > key[s[i]]}
<1>1. After \in SUBSET Nat /\ After # {}
  <2>1. Len(s) \in Nat
    OBVIOUS
  <2>2. Len(s) + 1 \in After
    BY <2>1
  <2> QED BY <2>1, <2>2
<1>2. PICK i \in After : \A m \in After : i <= m
  <2> HIDE DEF After
  <2> QED BY <1>1, LeastNatural
<1>3. \A j \in 1 .. i - 1 : key[s[j]] >= key[x]
  <2> TAKE j \in 1 .. i - 1
  <2>1. j \in 1 .. Len(s) /\ j \notin After
    BY <1>2
  <2>2. key[s[j]] \in Int /\ key[x] \in Int
    BY <2>1, ElementOfSeq
  <2> QED BY <2>1, <2>2
<1> QED BY <1>2, <1>3 DEF InsertPosition

\* Inserting x at place i makes a sequence that is one longer and holds x besides the
\* elements of s, each once if s held each once and not x.
LEMMA InsertAtPositionProperties ==
  ASSUME NEW T, NEW s \in Seq(T), NEW x \in T, NEW i \in 1 .. Len(s) + 1
  PROVE  /\ InsertAtPosition(s, i, x) \in Seq(T)
         /\ Len(InsertAtPosition(s, i, x)) = Len(s) + 1
         /\ ListElems(InsertAtPosition(s, i, x)) = ListElems(s) \union {x}
         /\ NoDuplicates(s) /\ x \notin ListElems(s)
              => NoDuplicates(InsertAtPosition(s, i, x))
<1> DEFINE r == InsertAtPosition(s, i, x)
<1>0. Len(s) \in Nat /\ \A k \in 1 .. Len(s) : s[k] \in T
  BY ElementOfSeq
<1>1. r \in [1 .. Len(s) + 1 -> T]
  BY <1>0 DEF InsertAtPosition
<1>2. r \in Seq(T) /\ Len(r) = Len(s) + 1
  <2>1. r \in Seq(T)
    BY <1>0, <1>1, SeqDef
  <2> QED BY <1>0, <1>1, <2>1, LenProperties
<1>3. /\ r[i] = x
      /\ \A k \in 1 .. i - 1 : r[k] = s[k]
      /\ \A k \in i + 1 .. Len(s) + 1 : r[k] = s[k - 1]
  BY <1>0 DEF InsertAtPosition
<1>4. ListElems(r) = ListElems(s) \union {x}
  <2>1. ASSUME NEW k \in 1 .. Len(r) PROVE r[k] \in ListElems(s) \union {x}
    <3>1. CASE k < i
      BY <1>0, <1>2, <1>3, <3>1 DEF ListElems
    <3>2. CASE k = i
      BY <1>3, <3>2
    <3>3. CASE k > i
      <4>1. r[k] = s[k - 1] /\ k - 1 \in 1 .. Len(s)
        BY <1>0, <1>2, <1>3, <3>3
      <4> QED BY <4>1 DEF ListElems
    <3> QED BY <3>1, <3>2, <3>3, <1>0, <1>2
  <2>2. ASSUME NEW k \in 1 .. Len(s) PROVE s[k] \in ListElems(r)
    <3>1. CASE k < i
      <4>1. r[k] = s[k] /\ k \in 1 .. Len(r)
        BY <1>0, <1>2, <1>3, <3>1
      <4> QED BY <4>1 DEF ListElems
    <3>2. CASE k >= i
      <4>1. r[k + 1] = s[k] /\ k + 1 \in 1 .. Len(r)
        BY <1>0, <1>2, <1>3, <3>2
      <4> QED BY <4>1 DEF ListElems
    <3> QED BY <3>1, <3>2, <1>0
  <2>3. x \in ListElems(r)
    BY <1>2, <1>3 DEF ListElems
  <2> QED BY <2>1, <2>2, <2>3 DEF ListElems
<1>5. ASSUME NoDuplicates(s), x \notin ListElems(s) PROVE NoDuplicates(r)
  <2> SUFFICES ASSUME NEW j \in 1 .. Len(r), NEW k \in 1 .. Len(r), r[j] = r[k], j < k
               PROVE  FALSE
    BY <1>0, <1>2 DEF NoDuplicates
  <2>1. \A m \in 1 .. Len(s) : s[m] # x
    BY <1>5 DEF ListElems
  <2>2. \A m, n \in 1 .. Len(s) : s[m] = s[n] => m = n
    BY <1>5 DEF NoDuplicates
  <2>3. CASE k < i
    BY <1>0, <1>2, <1>3, <2>2, <2>3
  <2>4. CASE k = i
    BY <1>0, <1>2, <1>3, <2>1, <2>4
  <2>5. CASE j < i /\ k > i
    <3>1. s[j] = s[k - 1] /\ j \in 1 .. Len(s) /\ k - 1 \in 1 .. Len(s)
      BY <1>0, <1>2, <1>3, <2>5
    <3> QED BY <3>1, <2>2, <2>5
  <2>6. CASE j = i
    <3>1. k \in i + 1 .. Len(s) + 1 /\ k - 1 \in 1 .. Len(s)
      BY <1>0, <1>2, <2>6
    <3>2. r[k] = s[k - 1] /\ r[j] = x
      BY <1>3, <2>6, <3>1
    <3> QED BY <3>1, <3>2, <2>1
  <2>7. CASE j > i
    <3>1. s[j - 1] = s[k - 1] /\ j - 1 \in 1 .. Len(s) /\ k - 1 \in 1 .. Len(s)
      BY <1>0, <1>2, <1>3, <2>7
    <3> QED BY <3>1, <2>2
  <2> QED BY <2>3, <2>4, <2>5, <2>6, <2>7
<1> QED BY <1>2, <1>4, <1>5

\* list_insert_ordered adds its element, and it alone.
LEMMA InsertOrderedProperties ==
  ASSUME NEW T, NEW s \in Seq(T), NEW x \in T, NEW key \in [T -> Int]
  PROVE  /\ InsertOrdered(s, x, key) \in Seq(T)
         /\ ListElems(InsertOrdered(s, x, key)) = ListElems(s) \union {x}
         /\ NoDuplicates(s) /\ x \notin ListElems(s)
              => NoDuplicates(InsertOrdered(s, x, key))
<1> DEFINE i == InsertPosition(s, x, key)
<1>1. i \in 1 .. Len(s) + 1
  BY InsertPositionExists
<1>2. InsertOrdered(s, x, key) = InsertAtPosition(s, i, x)
  BY DEF InsertOrdered
<1> HIDE DEF i
<1> QED BY <1>1, <1>2, InsertAtPositionProperties

\* list_insert_ordered keeps an ordered list ordered.
LEMMA InsertOrderedSorted ==
  ASSUME NEW T, NEW s \in Seq(T), NEW x \in T, NEW key \in [T -> Int], SortedBy(s, key)
  PROVE  SortedBy(InsertOrdered(s, x, key), key)
<1> DEFINE i == InsertPosition(s, x, key)
           r == InsertOrdered(s, x, key)
<1>1. /\ i \in 1 .. Len(s) + 1
      /\ \A j \in 1 .. i - 1 : key[s[j]] >= key[x]
      /\ i <= Len(s) => key[x] > key[s[i]]
  BY InsertPositionExists
<1>2. Len(s) \in Nat /\ key[x] \in Int /\ \A k \in 1 .. Len(s) : key[s[k]] \in Int
  BY ElementOfSeq
<1>3. Len(r) = Len(s) + 1
  BY <1>1, InsertAtPositionProperties DEF InsertOrdered
<1>4. \A k \in 1 .. Len(s) + 1 : r[k] = IF k < i THEN s[k] ELSE IF k = i THEN x ELSE s[k - 1]
  BY <1>2 DEF InsertOrdered, InsertAtPosition
<1> HIDE DEF i, r
<1>5. \A m, n \in 1 .. Len(s) : m <= n => key[s[m]] >= key[s[n]]
  BY <1>2 DEF SortedBy
<1>6. \A k \in 1 .. Len(s) : k >= i => key[x] >= key[s[k]]
  BY <1>1, <1>2, <1>5
<1> SUFFICES ASSUME NEW j \in 1 .. Len(r), NEW k \in 1 .. Len(r), j < k
             PROVE  key[r[j]] >= key[r[k]]
  BY DEF SortedBy, r
<1>7. CASE k < i
  <2>1. r[j] = s[j] /\ r[k] = s[k] /\ j \in 1 .. Len(s) /\ k \in 1 .. Len(s)
    BY <1>1, <1>2, <1>3, <1>4, <1>7
  <2> QED BY <1>5, <2>1
<1>8. CASE k = i
  BY <1>1, <1>2, <1>3, <1>4, <1>8
<1>9. CASE j < i /\ k > i
  <2>1. r[j] = s[j] /\ r[k] = s[k - 1] /\ j \in 1 .. Len(s) /\ k - 1 \in 1 .. Len(s) /\ j <= k - 1
    BY <1>1, <1>2, <1>3, <1>4, <1>9
  <2> QED BY <2>1, <1>5
<1>10. CASE j = i
  <2>1. r[j] = x /\ r[k] = s[k - 1] /\ k - 1 \in 1 .. Len(s) /\ k - 1 >= i
    BY <1>1, <1>2, <1>3, <1>4, <1>10
  <2> QED BY <2>1, <1>6
<1>11. CASE j > i
  <2>1. /\ r[j] = s[j - 1] /\ r[k] = s[k - 1]
        /\ j - 1 \in 1 .. Len(s) /\ k - 1 \in 1 .. Len(s) /\ j - 1 <= k - 1
    BY <1>1, <1>2, <1>3, <1>4, <1>11
  <2> QED BY <2>1, <1>5
<1> QED BY <1>1, <1>3, <1>7, <1>8, <1>9, <1>10, <1>11

\* The order of a list depends on the keys of its elements only.
LEMMA SortedByElements ==
  ASSUME NEW s, NEW key, NEW other, SortedBy(s, key), \A y \in ListElems(s) : other[y] = key[y]
  PROVE  SortedBy(s, other)
BY DEF SortedBy, ListElems

\* list_pop_front removes the first element, and it alone.
LEMMA TailListProperties ==
  ASSUME NEW T, NEW s \in Seq(T), s # << >>
  PROVE  /\ Tail(s) \in Seq(T) /\ Head(s) \in T
         /\ Head(s) \in ListElems(s)
         /\ ListElems(s) = ListElems(Tail(s)) \union {Head(s)}
         /\ NoDuplicates(s) =>
              NoDuplicates(Tail(s)) /\ ListElems(Tail(s)) = ListElems(s) \ {Head(s)}
         /\ \A key : SortedBy(s, key) =>
              SortedBy(Tail(s), key) /\ \A y \in ListElems(Tail(s)) : key[Head(s)] >= key[y]
<1>1. /\ Tail(s) \in Seq(T) /\ Head(s) \in T /\ Len(s) \in Nat \ {0}
      /\ Len(Tail(s)) = Len(s) - 1
      /\ \A i \in 1 .. Len(s) - 1 : Tail(s)[i] = s[i + 1]
  BY HeadTailProperties, EmptySeq
<1>2. Head(s) = s[1] /\ 1 \in 1 .. Len(s)
  BY <1>1
<1>3. ListElems(s) = ListElems(Tail(s)) \union {Head(s)}
  <2>1. ASSUME NEW k \in 1 .. Len(s) PROVE s[k] \in ListElems(Tail(s)) \union {Head(s)}
    <3>1. CASE k = 1
      BY <1>2, <3>1
    <3>2. CASE k > 1
      <4>1. s[k] = Tail(s)[k - 1] /\ k - 1 \in 1 .. Len(Tail(s))
        BY <1>1, <3>2
      <4> QED BY <4>1 DEF ListElems
    <3> QED BY <3>1, <3>2, <1>1
  <2>2. ASSUME NEW k \in 1 .. Len(Tail(s)) PROVE Tail(s)[k] \in ListElems(s)
    <3>1. Tail(s)[k] = s[k + 1] /\ k + 1 \in 1 .. Len(s)
      BY <1>1
    <3> QED BY <3>1 DEF ListElems
  <2>3. Head(s) \in ListElems(s)
    BY <1>2 DEF ListElems
  <2> QED BY <2>1, <2>2, <2>3 DEF ListElems
<1>4. ASSUME NoDuplicates(s)
      PROVE  NoDuplicates(Tail(s)) /\ Head(s) \notin ListElems(Tail(s))
  <2>1. \A m, n \in 1 .. Len(s) : s[m] = s[n] => m = n
    BY <1>4 DEF NoDuplicates
  <2>2. ASSUME NEW j \in 1 .. Len(Tail(s)), NEW k \in 1 .. Len(Tail(s)), Tail(s)[j] = Tail(s)[k]
        PROVE  j = k
    <3>1. s[j + 1] = s[k + 1] /\ j + 1 \in 1 .. Len(s) /\ k + 1 \in 1 .. Len(s)
      BY <1>1, <2>2
    <3>2. j + 1 = k + 1
      BY <2>1, <3>1
    <3> QED BY <1>1, <3>2
  <2>3. ASSUME NEW k \in 1 .. Len(Tail(s)) PROVE Tail(s)[k] # Head(s)
    <3>1. Tail(s)[k] = s[k + 1] /\ k + 1 \in 1 .. Len(s) /\ k + 1 # 1
      BY <1>1
    <3> QED BY <1>2, <2>1, <3>1
  <2> QED BY <2>2, <2>3 DEF NoDuplicates, ListElems
<1>5. ASSUME NEW key, SortedBy(s, key)
      PROVE  SortedBy(Tail(s), key) /\ \A y \in ListElems(Tail(s)) : key[Head(s)] >= key[y]
  <2>1. \A m, n \in 1 .. Len(s) : m < n => key[s[m]] >= key[s[n]]
    BY <1>5 DEF SortedBy
  <2>2. ASSUME NEW j \in 1 .. Len(Tail(s)), NEW k \in 1 .. Len(Tail(s)), j < k
        PROVE  key[Tail(s)[j]] >= key[Tail(s)[k]]
    <3>1. /\ Tail(s)[j] = s[j + 1] /\ Tail(s)[k] = s[k + 1]
          /\ j + 1 \in 1 .. Len(s) /\ k + 1 \in 1 .. Len(s) /\ j + 1 < k + 1
      BY <1>1, <2>2
    <3> QED BY <2>1, <3>1
  <2>3. ASSUME NEW k \in 1 .. Len(Tail(s)) PROVE key[Head(s)] >= key[Tail(s)[k]]
    <3>1. Tail(s)[k] = s[k + 1] /\ k + 1 \in 1 .. Len(s) /\ 1 < k + 1
      BY <1>1
    <3> QED BY <1>2, <2>1, <3>1
  <2> QED BY <2>2, <2>3 DEF SortedBy, ListElems
<1> QED BY <1>1, <1>3, <1>4, <1>5

--------------------------------------------------------------------------------
(* list_sort.                                                              *)

\* The places whose elements list_sort puts at or before the one of place i.
UpTo(s, i, key) ==
  {j \in 1 .. Len(s) : key[s[j]] > key[s[i]] \/ (key[s[j]] = key[s[i]] /\ j <= i)}

\* Every place has a rank, and of two places the one whose element goes first has the lower.
LEMMA RankProperties ==
  ASSUME NEW T, NEW s \in Seq(T), NEW key \in [T -> Int],
         NEW i \in 1 .. Len(s), NEW k \in 1 .. Len(s)
  PROVE  /\ RankInSort(s, i, key) \in 1 .. Len(s)
         /\ i # k /\ i \in UpTo(s, k, key) => RankInSort(s, i, key) < RankInSort(s, k, key)
         /\ i \in UpTo(s, k, key) \/ k \in UpTo(s, i, key)
<1>1. /\ Len(s) \in Nat
      /\ \A j \in 1 .. Len(s) : key[s[j]] \in Int
  BY ElementOfSeq
<1>2. /\ IsFiniteSet(1 .. Len(s)) /\ Cardinality(1 .. Len(s)) = Len(s)
  <2>1. 1 \in Int /\ Len(s) \in Int
    BY <1>1
  <2>2. /\ IsFiniteSet(1 .. Len(s))
        /\ Cardinality(1 .. Len(s)) = IF 1 > Len(s) THEN 0 ELSE Len(s) - 1 + 1
    BY <2>1, FS_Interval
  <2> QED BY <1>1, <2>2
<1>3. ASSUME NEW p \in 1 .. Len(s)
      PROVE  /\ RankInSort(s, p, key) = Cardinality(UpTo(s, p, key))
             /\ IsFiniteSet(UpTo(s, p, key)) /\ UpTo(s, p, key) \subseteq 1 .. Len(s)
             /\ p \in UpTo(s, p, key)
             /\ Cardinality(UpTo(s, p, key)) \in 1 .. Len(s)
  <2>1. UpTo(s, p, key) \subseteq 1 .. Len(s) /\ p \in UpTo(s, p, key)
    BY <1>1 DEF UpTo
  <2>2. /\ IsFiniteSet(UpTo(s, p, key)) /\ Cardinality(UpTo(s, p, key)) <= Len(s)
    BY <1>2, <2>1, FS_Subset
  <2>3. Cardinality(UpTo(s, p, key)) \in Nat /\ Cardinality(UpTo(s, p, key)) # 0
    BY <2>1, <2>2, FS_CardinalityType, FS_EmptySet
  <2>4. RankInSort(s, p, key) = Cardinality(UpTo(s, p, key))
    BY DEF RankInSort, UpTo
  <2> QED BY <1>1, <2>1, <2>2, <2>3, <2>4
<1>4. ASSUME i # k, i \in UpTo(s, k, key)
      PROVE  RankInSort(s, i, key) < RankInSort(s, k, key)
  <2>1. UpTo(s, i, key) \subseteq UpTo(s, k, key) \ {k}
    BY <1>1, <1>4 DEF UpTo
  <2>2. /\ IsFiniteSet(UpTo(s, k, key) \ {k})
        /\ Cardinality(UpTo(s, k, key) \ {k}) = Cardinality(UpTo(s, k, key)) - 1
    BY <1>3, FS_RemoveElement
  <2>3. Cardinality(UpTo(s, i, key)) <= Cardinality(UpTo(s, k, key)) - 1
    BY <2>1, <2>2, FS_Subset
  <2> QED BY <1>3, <2>3
<1>5. i \in UpTo(s, k, key) \/ k \in UpTo(s, i, key)
  BY <1>1 DEF UpTo
<1> QED BY <1>3, <1>4, <1>5

\* list_sort: a list of the same elements, each as often as before, in order.
LEMMA ListSortProperties ==
  ASSUME NEW T, NEW s \in Seq(T), NEW key \in [T -> Int]
  PROVE  /\ ListSort(s, key) \in Seq(T) /\ Len(ListSort(s, key)) = Len(s)
         /\ ListElems(ListSort(s, key)) = ListElems(s)
         /\ NoDuplicates(s) => NoDuplicates(ListSort(s, key))
         /\ SortedBy(ListSort(s, key), key)
<1> DEFINE n == Len(s)
           rank == [i \in 1 .. n |-> RankInSort(s, i, key)]
           at(r) == CHOOSE i \in 1 .. n : RankInSort(s, i, key) = r
           L == ListSort(s, key)
<1>1. /\ n \in Nat /\ \A j \in 1 .. n : s[j] \in T /\ key[s[j]] \in Int
  BY ElementOfSeq
<1>2. \A i, k \in 1 .. n :
        /\ rank[i] \in 1 .. n
        /\ i # k /\ i \in UpTo(s, k, key) => rank[i] < rank[k]
        /\ i \in UpTo(s, k, key) \/ k \in UpTo(s, i, key)
  BY RankProperties
<1>3. \A i, k \in 1 .. n : rank[i] = rank[k] => i = k
  BY <1>2
<1>4. rank \in Surjection(1 .. n, 1 .. n)
  <2>1. rank \in [1 .. n -> 1 .. n]
    BY <1>2
  <2>2. rank \in Injection(1 .. n, 1 .. n)
    BY <1>3, <2>1 DEF Injection, IsInjective
  <2>3. IsFiniteSet(1 .. n)
    BY <1>1, FS_Interval
  <2> QED BY <2>2, <2>3, FS_Injection
<1>5. \A r \in 1 .. n : at(r) \in 1 .. n /\ rank[at(r)] = r
  <2> SUFFICES ASSUME NEW r \in 1 .. n PROVE at(r) \in 1 .. n /\ rank[at(r)] = r
    OBVIOUS
  <2>1. PICK i \in 1 .. n : rank[i] = r
    BY <1>4 DEF Surjection
  <2>2. RankInSort(s, i, key) = r
    BY <2>1
  <2>3. at(r) \in 1 .. n /\ RankInSort(s, at(r), key) = r
    BY <2>2
  <2> QED BY <2>3
<1>6. L = [r \in 1 .. n |-> s[at(r)]]
  BY DEF ListSort
<1> HIDE DEF rank, at, L
<1>7. L \in Seq(T) /\ Len(L) = n /\ \A r \in 1 .. n : L[r] = s[at(r)]
  <2>1. L \in [1 .. n -> T]
    BY <1>1, <1>5, <1>6
  <2> QED BY <1>1, <1>5, <1>6, <2>1
<1>8. ListElems(L) = ListElems(s)
  <2>1. ASSUME NEW r \in 1 .. n PROVE L[r] \in ListElems(s)
    BY <1>5, <1>7 DEF ListElems
  <2>2. ASSUME NEW i \in 1 .. n PROVE s[i] \in ListElems(L)
    <3>1. rank[i] \in 1 .. n /\ at(rank[i]) = i
      BY <1>2, <1>3, <1>5
    <3>2. L[rank[i]] = s[i]
      BY <1>7, <3>1
    <3> QED BY <1>7, <3>1, <3>2 DEF ListElems
  <2> QED BY <1>7, <2>1, <2>2 DEF ListElems
<1>9. ASSUME NoDuplicates(s) PROVE NoDuplicates(L)
  <2> SUFFICES ASSUME NEW r \in 1 .. n, NEW q \in 1 .. n, L[r] = L[q] PROVE r = q
    BY <1>7 DEF NoDuplicates
  <2>1. at(r) \in 1 .. n /\ at(q) \in 1 .. n /\ rank[at(r)] = r /\ rank[at(q)] = q
    BY <1>5
  <2>2. s[at(r)] = s[at(q)]
    BY <1>7
  <2>3. \A i, k \in 1 .. n : s[i] = s[k] => i = k
    BY <1>9 DEF NoDuplicates
  <2> QED BY <2>1, <2>2, <2>3
<1>10. SortedBy(L, key)
  <2> SUFFICES ASSUME NEW r \in 1 .. n, NEW q \in 1 .. n, r < q PROVE key[L[r]] >= key[L[q]]
    BY <1>7 DEF SortedBy
  <2>1. PICK i \in 1 .. n, k \in 1 .. n :
           L[r] = s[i] /\ L[q] = s[k] /\ rank[i] < rank[k]
    BY <1>5, <1>7
  <2>2. i \in UpTo(s, k, key)
    <3>1. i # k
      BY <1>2, <2>1
    <3>2. k \in UpTo(s, i, key) => rank[k] < rank[i]
      BY <1>2, <3>1
    <3>3. ~(rank[k] < rank[i])
      <4> HIDE DEF rank
      <4>1. rank[i] \in Int /\ rank[k] \in Int
        BY <1>1, <1>2
      <4> QED BY <2>1, <4>1
    <3> QED BY <1>2, <3>2, <3>3
  <2>3. key[s[i]] >= key[s[k]]
    BY <1>1, <2>2 DEF UpTo
  <2> QED BY <2>1, <2>3
<1> QED BY <1>7, <1>8, <1>9, <1>10 DEF L

\* list_push_back of an element that is not in the list.
LEMMA AppendListProperties ==
  ASSUME NEW T, NEW s \in Seq(T), NoDuplicates(s), NEW x \in T, x \notin ListElems(s)
  PROVE  /\ Append(s, x) \in Seq(T) /\ NoDuplicates(Append(s, x))
         /\ ListElems(Append(s, x)) = ListElems(s) \union {x}
<1> DEFINE r == Append(s, x)
<1>1. /\ r \in Seq(T) /\ Len(r) = Len(s) + 1 /\ Len(s) \in Nat
      /\ \A i \in 1 .. Len(s) : r[i] = s[i]
      /\ r[Len(s) + 1] = x
  BY AppendProperties, LenProperties
<1>2. \A i \in 1 .. Len(s) : s[i] \in ListElems(s)
  BY DEF ListElems
<1> HIDE DEF r
<1>3. ListElems(r) = ListElems(s) \union {x}
  <2>1. \A i \in 1 .. Len(r) : r[i] \in ListElems(s) \union {x}
    BY <1>1, <1>2
  <2>2. x \in ListElems(r)
    <3>1. Len(s) + 1 \in 1 .. Len(r)
      BY <1>1
    <3> QED BY <1>1, <3>1 DEF ListElems
  <2>3. \A i \in 1 .. Len(s) : s[i] \in ListElems(r)
    BY <1>1 DEF ListElems
  <2> QED BY <2>1, <2>2, <2>3 DEF ListElems
<1>4. NoDuplicates(r)
  <2> SUFFICES ASSUME NEW i \in 1 .. Len(r), NEW j \in 1 .. Len(r), r[i] = r[j] PROVE i = j
    BY DEF NoDuplicates
  <2> QED BY <1>1, <1>2 DEF NoDuplicates
<1> QED BY <1>1, <1>3, <1>4 DEF r

\* list_remove takes one element out, and it alone.
LEMMA ListRemoveProperties ==
  ASSUME NEW T, NEW s \in Seq(T), NoDuplicates(s), NEW x \in ListElems(s)
  PROVE  /\ ListRemove(s, x) \in Seq(T) /\ NoDuplicates(ListRemove(s, x))
         /\ ListElems(ListRemove(s, x)) = ListElems(s) \ {x}
<1> DEFINE n == Len(s)
           i == CHOOSE k \in 1 .. n : s[k] = x
           r == [k \in 1 .. n - 1 |-> IF k < i THEN s[k] ELSE s[k + 1]]
<1>1. i \in 1 .. n /\ s[i] = x
  BY DEF ListElems
<1>2. n \in Nat /\ \A k \in 1 .. n : s[k] \in T
  BY ElementOfSeq, LenProperties
<1>3. ListRemove(s, x) = r
  BY DEF ListRemove
<1> HIDE DEF i
<1>4. n - 1 \in Nat /\ \A k \in 1 .. n - 1 : k \in 1 .. n /\ k + 1 \in 1 .. n
  BY <1>1, <1>2
<1>5. r \in [1 .. n - 1 -> T]
  BY <1>2, <1>4
<1>6. r \in Seq(T) /\ Len(r) = n - 1
  BY <1>4, <1>5, LenProperties, SeqDef
<1>7. \A k \in 1 .. n - 1 : r[k] = IF k < i THEN s[k] ELSE s[k + 1]
  OBVIOUS
<1>8. \A j, k \in 1 .. n : s[j] = s[k] => j = k
  BY DEF NoDuplicates
<1> HIDE DEF r, n
<1>9. NoDuplicates(r)
  <2> SUFFICES ASSUME NEW j \in 1 .. n - 1, NEW k \in 1 .. n - 1, r[j] = r[k] PROVE j = k
    BY <1>6 DEF NoDuplicates
  <2> QED BY <1>1, <1>2, <1>4, <1>7, <1>8
<1>10. ASSUME NEW k \in 1 .. n - 1 PROVE r[k] \in ListElems(s) \ {x}
  <2>1. /\ k \in 1 .. n /\ k + 1 \in 1 .. n
        /\ (r[k] = s[k] /\ k # i) \/ (r[k] = s[k + 1] /\ k + 1 # i)
    BY <1>1, <1>2, <1>4, <1>7
  <2>2. r[k] # x
    BY <1>1, <1>8, <2>1
  <2>3. r[k] \in ListElems(s)
    BY <2>1 DEF ListElems, n
  <2> QED BY <2>2, <2>3
<1>11. ASSUME NEW k \in 1 .. n, s[k] # x PROVE \E j \in 1 .. n - 1 : r[j] = s[k]
  <2>1. CASE k < i
    <3>1. k \in 1 .. n - 1
      BY <1>1, <1>2, <2>1
    <3> QED BY <1>7, <2>1, <3>1
  <2>2. CASE k > i
    <3>1. k - 1 \in 1 .. n - 1 /\ ~(k - 1 < i) /\ k - 1 + 1 = k
      BY <1>1, <1>2, <2>2
    <3>2. r[k - 1] = s[k]
      BY <1>7, <3>1
    <3> QED BY <3>1, <3>2
  <2> QED BY <1>1, <1>2, <1>11, <2>1, <2>2
<1>12. ListElems(r) = ListElems(s) \ {x}
  <2>1. ListElems(r) \subseteq ListElems(s) \ {x}
    BY <1>6, <1>10 DEF ListElems
  <2>2. ListElems(s) \ {x} \subseteq ListElems(r)
    BY <1>6, <1>11 DEF ListElems, n
  <2> QED BY <2>1, <2>2
<1> QED BY <1>3, <1>6, <1>9, <1>12 DEF r, n

\* A list without duplicates is as long as its set of elements is large.
LEMMA ListLength ==
  ASSUME NEW T, NEW s \in Seq(T), NoDuplicates(s)
  PROVE  IsFiniteSet(ListElems(s)) /\ Cardinality(ListElems(s)) = Len(s)
<1>1. Len(s) \in Nat /\ s \in [1 .. Len(s) -> T]
  BY LenProperties
<1>2. s \in [1 .. Len(s) -> ListElems(s)]
  BY <1>1 DEF ListElems
<1>3. s \in Bijection(1 .. Len(s), ListElems(s))
  BY <1>2 DEF ListElems, NoDuplicates, Bijection, Injection, Surjection, IsInjective
<1>4. ExistsBijection(1 .. Len(s), ListElems(s))
  BY <1>3 DEF ExistsBijection
<1> QED BY <1>1, <1>4, FS_CountingElements, FS_NatBijection

--------------------------------------------------------------------------------
(* The scheduler.                                                          *)

\* The parts of a scheduler state are in their domains.
LEMMA SchedStateType ==
  ASSUME NEW s \in SchedState
  PROVE  /\ s.current \in Thread /\ s.status \in [Thread -> Status]
         /\ s.ready_list \in Seq(Thread) /\ s.priority \in [Thread -> Int]
         /\ s.thread_ticks \in Nat
BY DEF SchedState

\* A record in the domain of scheduler states stays there when a field is assigned a
\* value of its domain.
LEMMA SchedStateExcept ==
  ASSUME NEW s \in SchedState
  PROVE  /\ \A t \in Thread : [s EXCEPT !.current = t] \in SchedState
         /\ \A st \in [Thread -> Status] : [s EXCEPT !.status = st] \in SchedState
         /\ \A t \in Thread, x \in Status : [s EXCEPT !.status[t] = x] \in SchedState
         /\ \A q \in Seq(Thread) : [s EXCEPT !.ready_list = q] \in SchedState
         /\ \A p \in [Thread -> Int] : [s EXCEPT !.priority = p] \in SchedState
         /\ \A t \in Thread, p \in Int : [s EXCEPT !.priority[t] = p] \in SchedState
         /\ \A n \in Nat : [s EXCEPT !.thread_ticks = n] \in SchedState
BY DEF SchedState

\* The queue holds no thread whose status is not READY, and not the idle thread.
LEMMA QueuedAreReady ==
  ASSUME NEW s, QueueMatchesStatus(s), NEW t \in ListElems(s.ready_list)
  PROVE  t \in Thread /\ t # Idle /\ s.status[t] = "READY"
BY DEF QueueMatchesStatus

\* thread_unblock of a thread that is neither running nor queued.
LEMMA UnblockProperties ==
  ASSUME NEW s \in SchedState, SchedOK(s), NEW t \in Thread \ {Idle},
         s.status[t] \notin {"RUNNING", "READY"}
  PROVE  /\ Unblock(s, t) \in SchedState
         /\ SchedOK(Unblock(s, t))
         /\ Unblock(s, t).current = s.current
         /\ Unblock(s, t).priority = s.priority
         /\ Unblock(s, t).thread_ticks = s.thread_ticks
         /\ Unblock(s, t).status = [s.status EXCEPT ![t] = "READY"]
         /\ ReadySorted(s) => ReadySorted(Unblock(s, t))
<1> DEFINE r == Unblock(s, t)
           queue == InsertOrdered(s.ready_list, t, s.priority)
<1>1. /\ s.current \in Thread /\ s.status \in [Thread -> Status]
      /\ s.ready_list \in Seq(Thread) /\ s.priority \in [Thread -> Int]
      /\ s.thread_ticks \in Nat
  BY SchedStateType
<1>2. /\ r.current = s.current /\ r.priority = s.priority
      /\ r.thread_ticks = s.thread_ticks
      /\ r.status = [s.status EXCEPT ![t] = "READY"]
      /\ r.ready_list = queue
  BY DEF Unblock, SchedState
<1>3. t \notin ListElems(s.ready_list) /\ NoDuplicates(s.ready_list)
  BY DEF SchedOK, QueueMatchesStatus
<1>4. /\ queue \in Seq(Thread)
      /\ ListElems(queue) = ListElems(s.ready_list) \union {t}
      /\ NoDuplicates(queue)
  BY <1>1, <1>3, InsertOrderedProperties
<1> HIDE DEF queue
<1>5. r \in SchedState
  <2> DEFINE s1 == [s EXCEPT !.ready_list = queue]
  <2>1. s1 \in SchedState
    BY <1>4, SchedStateExcept
  <2>2. r = [s1 EXCEPT !.status[t] = "READY"]
    BY DEF Unblock, queue
  <2> HIDE DEF s1, r
  <2> QED BY <2>1, <2>2, SchedStateExcept DEF Status
<1> HIDE DEF r
<1>6. OneRunning(r)
  BY <1>1, <1>2 DEF SchedOK, OneRunning
<1>7. QueueMatchesStatus(r)
  <2>1. ListElems(s.ready_list) = {u \in Thread \ {Idle} : s.status[u] = "READY"}
    BY DEF SchedOK, QueueMatchesStatus
  <2>2. \A u \in Thread : r.status[u] = "READY" <=> u = t \/ s.status[u] = "READY"
    BY <1>1, <1>2
  <2>3. ListElems(queue) = {u \in Thread \ {Idle} : r.status[u] = "READY"}
    BY <1>4, <2>1, <2>2
  <2> QED BY <1>2, <1>4, <2>3 DEF QueueMatchesStatus
<1>8. ReadySorted(s) => ReadySorted(r)
  <2> SUFFICES ASSUME SortedBy(s.ready_list, s.priority) PROVE SortedBy(queue, s.priority)
    BY <1>2 DEF ReadySorted
  <2> QED BY <1>1, InsertOrderedSorted DEF queue
<1> QED BY <1>2, <1>5, <1>6, <1>7, <1>8 DEF r, SchedOK

\* What a dispatch owes the threads left in the queue; the threads that have exited.
HighestDispatched(s) ==
  \A t \in ListElems(s.ready_list) :
     s.current # Idle /\ s.priority[t] <= s.priority[s.current]

Dead(s) == {t \in Thread : s.status[t] \in {"DYING", "FREE"}}

\* schedule, when the thread that calls it has left the status RUNNING: the thread it
\* switches to is the first of the queue, the highest of all if the queue is in order.
LEMMA ScheduleProperties ==
  ASSUME NEW s \in SchedState, QueueMatchesStatus(s),
         \A t \in Thread : s.status[t] # "RUNNING", Idle \in Thread
  PROVE  /\ Schedule(s) \in SchedState
         /\ SchedOK(Schedule(s))
         /\ Schedule(s).priority = s.priority
         /\ Schedule(s).thread_ticks = 0
         /\ \A t \in Thread : t # Schedule(s).current =>
              \/ Schedule(s).status[t] = s.status[t]
              \/ /\ s.status[t] = "DYING" /\ Schedule(s).status[t] = "FREE"
                 /\ t = s.current /\ t # Main
         /\ Schedule(s).current # Idle => s.status[Schedule(s).current] = "READY"
         /\ Schedule(s).current = Idle => ListElems(Schedule(s).ready_list) = {}
         /\ ReadySorted(s) =>
              /\ ReadySorted(Schedule(s))
              /\ \A t \in ListElems(Schedule(s).ready_list) :
                    s.priority[t] <= s.priority[Schedule(s).current]
<1> DEFINE r == Schedule(s)
           next == NextThreadToRun(s)
           freed == s.current # next /\ s.status[s.current] = "DYING" /\ s.current # Main
           queue == IF s.ready_list = << >> THEN << >> ELSE Tail(s.ready_list)
           status == [t \in Thread |-> IF t = next THEN "RUNNING"
                                       ELSE IF t = s.current /\ freed THEN "FREE"
                                       ELSE s.status[t]]
<1>1. /\ s.current \in Thread /\ s.status \in [Thread -> Status]
      /\ s.ready_list \in Seq(Thread) /\ s.priority \in [Thread -> Int]
      /\ s.thread_ticks \in Nat
  BY SchedStateType
<1>2. /\ r.current = next /\ r.status = status /\ r.ready_list = queue
      /\ r.priority = s.priority /\ r.thread_ticks = 0
  BY DEF Schedule, SchedState
<1>R. ASSUME next \in Thread, status \in [Thread -> Status], queue \in Seq(Thread)
      PROVE  r \in SchedState
  <2> DEFINE s1 == [s EXCEPT !.current = next]
             s2 == [s1 EXCEPT !.status = status]
             s3 == [s2 EXCEPT !.ready_list = queue]
  <2>1. r = [s3 EXCEPT !.thread_ticks = 0]
    BY DEF Schedule
  <2> HIDE DEF r, next, queue, status
  <2>2. s1 \in SchedState
    BY <1>R, SchedStateExcept
  <2> HIDE DEF s1
  <2>3. s2 \in SchedState
    BY <1>R, <2>2, SchedStateExcept
  <2> HIDE DEF s2
  <2>4. s3 \in SchedState
    BY <1>R, <2>3, SchedStateExcept
  <2> HIDE DEF s3
  <2> QED BY <2>1, <2>4, SchedStateExcept
<1>3. CASE s.ready_list = << >>
  <2>1. next = Idle /\ queue = << >> /\ ListElems(queue) = {} /\ ListElems(s.ready_list) = {}
    BY <1>3 DEF NextThreadToRun, ListElems
  <2>2. NoDuplicates(<< >>) /\ SortedBy(<< >>, s.priority) /\ << >> \in Seq(Thread)
    BY DEF NoDuplicates, SortedBy
  <2>3. status \in [Thread -> Status]
    BY <1>1 DEF Status
  <2>4. \A t \in Thread : s.status[t] = "READY" => t = Idle
    BY <2>1 DEF QueueMatchesStatus
  <2>5. \A t \in Thread : /\ status[t] = "RUNNING" <=> t = next
                          /\ status[t] = "READY" => s.status[t] = "READY" /\ t # next
    BY <1>1
  <2> HIDE DEF r, next, queue, status
  <2>6. r \in SchedState
    BY <1>R, <2>1, <2>2, <2>3
  <2>7. OneRunning(r)
    BY <1>2, <2>5 DEF OneRunning
  <2>8. QueueMatchesStatus(r)
    <3>1. {t \in Thread \ {Idle} : r.status[t] = "READY"} = {}
      BY <1>2, <2>4, <2>5
    <3> QED BY <1>2, <2>1, <2>2, <3>1 DEF QueueMatchesStatus
  <2>9. \A t \in Thread : t # r.current =>
            \/ r.status[t] = s.status[t]
            \/ s.status[t] = "DYING" /\ r.status[t] = "FREE" /\ t = s.current /\ t # Main
    BY <1>1, <1>2 DEF status
  <2>10. ReadySorted(r)
    BY <1>2, <2>1, <2>2 DEF ReadySorted
  <2>11. ListElems(r.ready_list) = {} /\ r.current = Idle
    BY <1>2, <2>1
  <2> QED BY <1>2, <2>6, <2>7, <2>8, <2>9, <2>10, <2>11 DEF r, SchedOK
<1>4. CASE s.ready_list # << >>
  <2>1. next = Head(s.ready_list) /\ queue = Tail(s.ready_list)
    BY <1>4 DEF NextThreadToRun
  <2>2. NoDuplicates(s.ready_list)
    BY DEF QueueMatchesStatus
  <2>3. /\ queue \in Seq(Thread) /\ next \in ListElems(s.ready_list)
        /\ NoDuplicates(queue) /\ ListElems(queue) = ListElems(s.ready_list) \ {next}
        /\ SortedBy(s.ready_list, s.priority) =>
             SortedBy(queue, s.priority) /\ \A t \in ListElems(queue) : s.priority[next] >= s.priority[t]
    BY <1>1, <1>4, <2>1, <2>2, TailListProperties
  <2>4. next \in Thread /\ next # Idle /\ s.status[next] = "READY"
    BY <2>3, QueuedAreReady
  <2>5. status \in [Thread -> Status]
    BY <1>1 DEF Status
  <2>6. \A t \in Thread : /\ status[t] = "RUNNING" <=> t = next
                          /\ status[t] = "READY" <=> s.status[t] = "READY" /\ t # next
    BY <1>1
  <2>7. \A t \in Thread : t # next =>
            \/ status[t] = s.status[t]
            \/ s.status[t] = "DYING" /\ status[t] = "FREE" /\ t = s.current /\ t # Main
    BY <1>1
  <2>8. ListElems(s.ready_list) = {t \in Thread \ {Idle} : s.status[t] = "READY"}
    BY DEF QueueMatchesStatus
  <2>9. \A t \in ListElems(queue) : s.priority[t] \in Int /\ s.priority[next] \in Int
    BY <1>1, <2>3, <2>4, <2>8
  <2> HIDE DEF r, next, queue, status
  <2>10. r \in SchedState
    BY <1>R, <2>3, <2>4, <2>5
  <2>11. OneRunning(r)
    BY <1>2, <2>6 DEF OneRunning
  <2>12. QueueMatchesStatus(r)
    <3>1. ListElems(queue) = {t \in Thread \ {Idle} : status[t] = "READY"}
      BY <2>3, <2>6, <2>8
    <3> QED BY <1>2, <2>3, <3>1 DEF QueueMatchesStatus
  <2>13. ReadySorted(s) => /\ ReadySorted(r)
                           /\ \A t \in ListElems(r.ready_list) : s.priority[t] <= s.priority[r.current]
    BY <1>2, <2>3, <2>9 DEF ReadySorted
  <2> QED BY <1>2, <2>4, <2>7, <2>10, <2>11, <2>12, <2>13 DEF r, SchedOK
<1> QED BY <1>3, <1>4

\* schedule, from a state s whose running thread has been given the status st and put in
\* the queue if it is READY; only the dying thread switched from changes besides.
LEMMA LeaveProperties ==
  ASSUME NEW s \in SchedState, NEW st \in {"READY", "BLOCKED", "DYING"},
         OneRunning(s), QueueMatchesStatus([s EXCEPT !.status[s.current] = st])
  PROVE  LET r == Leave(s, st) IN
         /\ r \in SchedState /\ SchedOK(r)
         /\ r.priority = s.priority /\ r.thread_ticks = 0
         /\ \A t \in Thread \ {Idle} :
               r.status[t] = "BLOCKED" <=> \/ t = s.current /\ st = "BLOCKED"
                                           \/ t # s.current /\ s.status[t] = "BLOCKED"
         /\ Dead(r) \subseteq Dead(s) \union {t \in {s.current} : st = "DYING"}
         /\ (Dead(s) \union {t \in {s.current} : st = "DYING"}) \ {Idle} \subseteq Dead(r)
         /\ ReadySorted(s) => ReadySorted(r) /\ HighestDispatched(r)
<1> DEFINE m == [s EXCEPT !.status[s.current] = st]
           r == Leave(s, st)
<1>1. /\ s.current \in Thread /\ s.status \in [Thread -> Status]
      /\ s.ready_list \in Seq(Thread) /\ s.priority \in [Thread -> Int]
      /\ s.thread_ticks \in Nat
  BY SchedStateType
<1>2. m \in SchedState
  BY <1>1, SchedStateExcept DEF Status
<1>3. /\ m.current = s.current /\ m.priority = s.priority /\ m.ready_list = s.ready_list
      /\ \A t \in Thread : m.status[t] = IF t = s.current THEN st ELSE s.status[t]
  BY <1>1 DEF SchedState
<1>4. r = Schedule(m) /\ QueueMatchesStatus(m)
  BY DEF Leave
<1> HIDE DEF m, r
<1>5. \A t \in Thread : m.status[t] # "RUNNING"
  BY <1>3 DEF OneRunning
<1>6. /\ r \in SchedState /\ SchedOK(r)
      /\ r.priority = m.priority /\ r.thread_ticks = 0
      /\ \A t \in Thread : t # r.current =>
            \/ r.status[t] = m.status[t]
            \/ m.status[t] = "DYING" /\ r.status[t] = "FREE" /\ t = m.current /\ t # Main
      /\ r.current # Idle => m.status[r.current] = "READY"
      /\ r.current = Idle => ListElems(r.ready_list) = {}
      /\ ReadySorted(m) =>
            /\ ReadySorted(r)
            /\ \A t \in ListElems(r.ready_list) : m.priority[t] <= m.priority[r.current]
  BY <1>2, <1>4, <1>5, ThreadAssumption, ScheduleProperties
<1>7. r.current \in Thread /\ r.status[r.current] = "RUNNING"
  BY <1>6, SchedStateType DEF SchedOK, OneRunning
<1>8. ASSUME NEW t \in Thread \ {Idle}
      PROVE  r.status[t] = "BLOCKED" <=> \/ t = s.current /\ st = "BLOCKED"
                                         \/ t # s.current /\ s.status[t] = "BLOCKED"
  BY <1>3, <1>6, <1>7
<1>9. /\ Dead(r) \subseteq Dead(s) \union {t \in {s.current} : st = "DYING"}
      /\ (Dead(s) \union {t \in {s.current} : st = "DYING"}) \ {Idle} \subseteq Dead(r)
  <2>1. \A t \in Thread \ {Idle} : t \in Dead(m) => t \in Dead(r)
    BY <1>6, <1>7 DEF Dead
  <2>2. \A t \in Thread : t \in Dead(r) => t \in Dead(m)
    BY <1>6, <1>7 DEF Dead
  <2>3. \A t \in Thread : t \in Dead(m) <=> IF t = s.current THEN st = "DYING" ELSE t \in Dead(s)
    BY <1>3 DEF Dead
  <2>4. s.current \notin Dead(s) /\ Dead(s) \subseteq Thread /\ Dead(r) \subseteq Thread
    BY <1>1 DEF Dead, OneRunning
  <2> QED BY <1>1, <2>1, <2>2, <2>3, <2>4
<1>10. ReadySorted(s) => ReadySorted(r) /\ HighestDispatched(r)
  BY <1>3, <1>6 DEF ReadySorted, HighestDispatched
<1> QED BY <1>3, <1>6, <1>8, <1>9, <1>10 DEF r

\* thread_block, and the end of thread_exit: the running thread is not in the queue.
LEMMA BlockProperties ==
  ASSUME NEW s \in SchedState, NEW st \in {"BLOCKED", "DYING"}, SchedOK(s)
  PROVE  LET r == Leave(s, st) IN
         /\ r \in SchedState /\ SchedOK(r)
         /\ r.priority = s.priority /\ r.thread_ticks = 0
         /\ \A t \in Thread \ {Idle} :
               r.status[t] = "BLOCKED" <=> \/ t = s.current /\ st = "BLOCKED"
                                           \/ t # s.current /\ s.status[t] = "BLOCKED"
         /\ Dead(r) \subseteq Dead(s) \union {t \in {s.current} : st = "DYING"}
         /\ (Dead(s) \union {t \in {s.current} : st = "DYING"}) \ {Idle} \subseteq Dead(r)
         /\ ReadySorted(s) => ReadySorted(r) /\ HighestDispatched(r)
<1> DEFINE m == [s EXCEPT !.status[s.current] = st]
<1>1. s.current \in Thread /\ s.status \in [Thread -> Status]
  BY SchedStateType
<1>2. /\ m.ready_list = s.ready_list
      /\ \A t \in Thread : m.status[t] = IF t = s.current THEN st ELSE s.status[t]
  BY <1>1 DEF SchedState
<1>3. QueueMatchesStatus(m)
  <2> HIDE DEF m
  <2>1. \A t \in Thread : m.status[t] = "READY" <=> s.status[t] = "READY"
    BY <1>1, <1>2 DEF SchedOK, OneRunning
  <2> QED BY <1>2, <2>1 DEF SchedOK, QueueMatchesStatus
<1>4. OneRunning(s) /\ st \in {"READY", "BLOCKED", "DYING"}
  BY DEF SchedOK
<1>5. QueueMatchesStatus([s EXCEPT !.status[s.current] = st])
  BY <1>3
<1> HIDE DEF m
<1> QED BY <1>4, <1>5, LeaveProperties, Zenon

\* thread_yield changes who runs and nothing else: nobody is lost, woken or freed.
LEMMA YieldProperties ==
  ASSUME NEW s \in SchedState, SchedOK(s)
  PROVE  LET r == Yield(s) IN
         /\ r \in SchedState /\ SchedOK(r)
         /\ r.priority = s.priority /\ r.thread_ticks = 0
         /\ \A t \in Thread \ {Idle} : r.status[t] = "BLOCKED" <=> s.status[t] = "BLOCKED"
         /\ Dead(r) \subseteq Dead(s)
         /\ Dead(s) \ {Idle} \subseteq Dead(r)
         /\ ReadySorted(s) => ReadySorted(r) /\ HighestDispatched(r)
<1> DEFINE cur == s.current
           queue == IF cur = Idle THEN s.ready_list
                    ELSE InsertOrdered(s.ready_list, cur, s.priority)
           q == [s EXCEPT !.ready_list = queue]
           m == [q EXCEPT !.status[q.current] = "READY"]
           r == Yield(s)
<1>1. /\ s.current \in Thread /\ s.status \in [Thread -> Status]
      /\ s.ready_list \in Seq(Thread) /\ s.priority \in [Thread -> Int]
  BY SchedStateType
<1>2. /\ s.status[cur] = "RUNNING" /\ NoDuplicates(s.ready_list)
      /\ ListElems(s.ready_list) = {t \in Thread \ {Idle} : s.status[t] = "READY"}
  BY <1>1 DEF SchedOK, OneRunning, QueueMatchesStatus
<1>3. /\ queue \in Seq(Thread) /\ NoDuplicates(queue)
      /\ ListElems(queue) = IF cur = Idle THEN ListElems(s.ready_list)
                            ELSE ListElems(s.ready_list) \union {cur}
  <2>1. CASE cur = Idle
    BY <1>1, <1>2, <2>1
  <2>2. CASE cur # Idle
    <3>1. cur \notin ListElems(s.ready_list)
      BY <1>2
    <3>2. queue = InsertOrdered(s.ready_list, cur, s.priority)
      BY <2>2
    <3> QED BY <1>1, <1>2, <2>2, <3>1, <3>2, InsertOrderedProperties
  <2> QED BY <2>1, <2>2
<1>4. ReadySorted(s) => SortedBy(queue, s.priority)
  BY <1>1, InsertOrderedSorted DEF ReadySorted
<1>5. r = Leave(q, "READY")
  BY DEF Yield
<1> HIDE DEF queue, r
<1>6. /\ q \in SchedState /\ q.current = cur /\ q.priority = s.priority
      /\ q.status = s.status /\ q.ready_list = queue
  BY <1>3, SchedStateExcept DEF SchedState
<1> HIDE DEF q
<1>7. /\ m.ready_list = queue
      /\ \A t \in Thread : m.status[t] = IF t = cur THEN "READY" ELSE s.status[t]
  BY <1>1, <1>6 DEF SchedState
<1>8. QueueMatchesStatus(m)
  <2> HIDE DEF m
  <2>1. ListElems(queue) = {t \in Thread \ {Idle} : m.status[t] = "READY"}
    BY <1>1, <1>2, <1>3, <1>7
  <2> QED BY <1>3, <1>7, <2>1 DEF QueueMatchesStatus
<1>9. OneRunning(q)
  BY <1>6 DEF SchedOK, OneRunning
<1>10. /\ r \in SchedState /\ SchedOK(r)
       /\ r.priority = q.priority /\ r.thread_ticks = 0
       /\ \A t \in Thread \ {Idle} :
             r.status[t] = "BLOCKED" <=> t # q.current /\ q.status[t] = "BLOCKED"
       /\ Dead(r) \subseteq Dead(q)
       /\ Dead(q) \ {Idle} \subseteq Dead(r)
       /\ ReadySorted(q) => ReadySorted(r) /\ HighestDispatched(r)
  <2>1. "READY" \in {"READY", "BLOCKED", "DYING"} /\ {t \in {q.current} : "READY" = "DYING"} = {}
    OBVIOUS
  <2>2. QueueMatchesStatus([q EXCEPT !.status[q.current] = "READY"])
    BY <1>8 DEF m
  <2>3. /\ r \in SchedState /\ SchedOK(r)
        /\ r.priority = q.priority /\ r.thread_ticks = 0
        /\ \A t \in Thread \ {Idle} :
              r.status[t] = "BLOCKED" <=> \/ t = q.current /\ "READY" = "BLOCKED"
                                          \/ t # q.current /\ q.status[t] = "BLOCKED"
        /\ Dead(r) \subseteq Dead(q) \union {t \in {q.current} : "READY" = "DYING"}
        /\ (Dead(q) \union {t \in {q.current} : "READY" = "DYING"}) \ {Idle} \subseteq Dead(r)
        /\ ReadySorted(q) => ReadySorted(r) /\ HighestDispatched(r)
    BY <1>5, <1>6, <1>9, <2>1, <2>2, LeaveProperties
  <2> QED BY <2>1, <2>3
<1>11. \A t \in Thread \ {Idle} : r.status[t] = "BLOCKED" <=> s.status[t] = "BLOCKED"
  BY <1>2, <1>6, <1>10
<1>12. /\ Dead(r) \subseteq Dead(s)
       /\ Dead(s) \ {Idle} \subseteq Dead(r)
  BY <1>6, <1>10 DEF Dead
<1>13. ReadySorted(s) => ReadySorted(r) /\ HighestDispatched(r)
  BY <1>4, <1>6, <1>10 DEF ReadySorted
<1> QED BY <1>6, <1>10, <1>11, <1>12, <1>13 DEF r

\* yield_to_max
LEMMA YieldToMaxProperties ==
  ASSUME NEW s \in SchedState, SchedOK(s)
  PROVE  LET r == YieldToMax(s) IN
         /\ r \in SchedState /\ SchedOK(r) /\ r.priority = s.priority
         /\ r.thread_ticks \in {0, s.thread_ticks}
         /\ \A t \in Thread \ {Idle} : r.status[t] = "BLOCKED" <=> s.status[t] = "BLOCKED"
         /\ Dead(r) \subseteq Dead(s)
         /\ Dead(s) \ {Idle} \subseteq Dead(r)
         /\ ReadySorted(s) => ReadySorted(r) /\ (r.current # s.current => HighestDispatched(r))
<1>1. CASE YieldToMax(s) = s
  BY <1>1
<1>2. CASE YieldToMax(s) = Yield(s)
  BY <1>2, YieldProperties
<1> QED BY <1>1, <1>2 DEF YieldToMax

\* thread_tick and the return from the interrupt: the slice in progress stays shorter than
\* TIME_SLICE.
LEMMA ThreadTickProperties ==
  ASSUME NEW s \in SchedState, SchedOK(s), NEW TimeSlice \in Nat \ {0}
  PROVE  LET r == ThreadTick(s, TimeSlice) IN
         /\ r \in SchedState /\ SchedOK(r) /\ r.priority = s.priority
         /\ r.thread_ticks < TimeSlice
         /\ \A t \in Thread \ {Idle} : r.status[t] = "BLOCKED" <=> s.status[t] = "BLOCKED"
         /\ Dead(r) \subseteq Dead(s)
         /\ Dead(s) \ {Idle} \subseteq Dead(r)
         /\ ReadySorted(s) => ReadySorted(r) /\ (r.current # s.current => HighestDispatched(r))
<1> DEFINE m == [s EXCEPT !.thread_ticks = s.thread_ticks + 1]
           r == ThreadTick(s, TimeSlice)
<1>1. s.thread_ticks \in Nat
  BY SchedStateType
<1>2. /\ m \in SchedState /\ m.current = s.current /\ m.priority = s.priority
      /\ m.status = s.status /\ m.ready_list = s.ready_list
      /\ m.thread_ticks = s.thread_ticks + 1
  <2>1. s.thread_ticks + 1 \in Nat
    BY <1>1
  <2>2. m \in SchedState
    BY <2>1, SchedStateExcept
  <2> QED BY <2>2 DEF SchedState
<1>3. r = IF s.thread_ticks + 1 >= TimeSlice THEN Yield(m) ELSE m
  BY DEF ThreadTick
<1> HIDE DEF m, r
<1>4. SchedOK(m) /\ (Dead(s) = Dead(m)) /\ (ReadySorted(s) <=> ReadySorted(m))
  BY <1>2 DEF SchedOK, OneRunning, QueueMatchesStatus, Dead, ReadySorted
<1>5. CASE s.thread_ticks + 1 >= TimeSlice
  <2>1. r = Yield(m)
    BY <1>3, <1>5
  <2>2. /\ r \in SchedState /\ SchedOK(r) /\ r.priority = m.priority /\ r.thread_ticks = 0
        /\ \A t \in Thread \ {Idle} : r.status[t] = "BLOCKED" <=> m.status[t] = "BLOCKED"
        /\ Dead(r) \subseteq Dead(m)
        /\ Dead(m) \ {Idle} \subseteq Dead(r)
        /\ ReadySorted(m) => ReadySorted(r) /\ HighestDispatched(r)
    BY <1>2, <1>4, <2>1, YieldProperties
  <2> QED BY <1>2, <1>4, <2>2 DEF r
<1>6. CASE ~(s.thread_ticks + 1 >= TimeSlice)
  BY <1>1, <1>2, <1>3, <1>4, <1>6 DEF r
<1> QED BY <1>5, <1>6
================================================================================
