--------------------------- MODULE StartProcessProofs ---------------------------
(***************************************************************************)
(* Proofs about module StartProcess, for every size of a page and of the   *)
(* address space, every number of pages, every executable, every set of    *)
(* program headers and every command line.                                 *)
(***************************************************************************)
EXTENDS StartProcess, TLAPS, SequenceTheorems, FiniteSetTheorems, FunctionTheorems, WellFoundedInduction

--------------------------------------------------------------------------------
(* Arithmetic of pages and addresses.                                      *)

LEMMA DivMod ==
  ASSUME NEW a \in Int, NEW P \in Nat \ {0}
  PROVE  /\ a \div P \in Int /\ a % P \in 0 .. P - 1
         /\ a = P * (a \div P) + (a % P)
OBVIOUS

LEMMA FactorOrder ==
  ASSUME NEW x \in Int, NEW y \in Int, NEW P \in Nat \ {0}, P * x < P * y
  PROVE  x < y
<1>1. SUFFICES ASSUME x >= y PROVE FALSE
  OBVIOUS
<1>2. x - y \in Nat /\ P * (x - y) >= 0
  BY <1>1
<1>3. P * x - P * y = P * (x - y)
  OBVIOUS
<1> QED BY <1>2, <1>3

\* A sum that does not wrap around below its first term is the sum.
LEMMA SumNotWrapped ==
  ASSUME NEW M \in Nat, NEW a \in 0 .. M - 1, NEW b \in 0 .. M - 1, (a + b) % M >= a
  PROVE  (a + b) % M = a + b
<1>1. M \in Nat \ {0} /\ a + b \in Int
  OBVIOUS
<1>2. PICK d \in Int, r \in 0 .. M - 1 : a + b = M * d + r /\ r = (a + b) % M
  BY <1>1, DivMod
<1>3. d < 1
  <2> SUFFICES ASSUME d >= 1 PROVE FALSE
    BY <1>2
  <2>1. M * d >= M
    BY <1>1
  <2> QED BY <1>2, <2>1
<1>4. d >= 0
  <2> SUFFICES ASSUME d <= -1 PROVE FALSE
    BY <1>2
  <2>1. M * d <= -M
    BY <1>1
  <2> QED BY <1>2, <2>1
<1>5. d = 0
  BY <1>3, <1>4
<1> QED BY <1>2, <1>5

LEMMA LeastPage ==
  ASSUME NEW S \in SUBSET Nat, S # {}
  PROVE  \E n \in S : \A m \in S : n <= m
<1>1. PICK n \in S : \A m \in S : ~(<<m, n>> \in OpToRel(<, Nat))
  BY NatLessThanWellFounded, WFMin
<1>2. \A m \in S : ~(m < n)
  BY <1>1 DEF OpToRel
<1> QED BY <1>2

--------------------------------------------------------------------------------
(* Recursion over a range of numbers.                                      *)

\* A set of numbers that holds 0 and the next of each of its elements.
LEMMA StepByStep ==
  ASSUME NEW n \in Nat, NEW G, 0 \in G, \A i \in 1 .. n : i - 1 \in G => i \in G
  PROVE  \A i \in 0 .. n : i \in G
<1> DEFINE Bad == {i \in 0 .. n : i \notin G}
<1>1. ASSUME Bad # {} PROVE FALSE
  <2>1. PICK m \in Bad : \A k \in Bad : m <= k
    <3>1. Bad \in SUBSET Nat
      OBVIOUS
    <3> HIDE DEF Bad
    <3> QED BY <1>1, <3>1, LeastPage
  <2>2. m \in 0 .. n /\ m \notin G
    OBVIOUS
  <2>3. m \in 1 .. n /\ m - 1 \in 0 .. n /\ ~(m <= m - 1)
    BY <2>2
  <2>4. m - 1 \in G
    BY <2>1, <2>3
  <2> QED BY <2>2, <2>3, <2>4
<1> QED BY <1>1

\* A step from each value to the next determines a function on 0 .. n.
LEMMA Recursion ==
  ASSUME NEW S, NEW base \in S, NEW n \in Nat, NEW step \in [1 .. n -> [S -> S]]
  PROVE  \E f \in [0 .. n -> S] :
            f[0] = base /\ \A i \in 1 .. n : f[i] = step[i][f[i - 1]]
<1> DEFINE Good(m) == \E f \in [0 .. m -> S] :
                         f[0] = base /\ \A i \in 1 .. m : f[i] = step[i][f[i - 1]]
           Bad == {m \in 0 .. n : ~Good(m)}
<1>1. ASSUME Bad # {} PROVE FALSE
  <2>1. PICK m \in Bad : \A k \in Bad : m <= k
    <3>1. Bad \in SUBSET Nat
      OBVIOUS
    <3> HIDE DEF Bad
    <3> QED BY <1>1, <3>1, LeastPage
  <2>2. m \in 0 .. n /\ ~Good(m)
    OBVIOUS
  <2>3. m # 0
    <3> SUFFICES Good(0)
      BY <2>2
    <3> DEFINE f == [i \in 0 .. 0 |-> base]
    <3>1. f \in [0 .. 0 -> S] /\ f[0] = base
      OBVIOUS
    <3>2. \A i \in 1 .. 0 : f[i] = step[i][f[i - 1]]
      OBVIOUS
    <3> HIDE DEF f
    <3> QED BY <3>1, <3>2
  <2>4. m - 1 \in 0 .. n /\ ~(m <= m - 1)
    BY <2>2, <2>3
  <2>5. Good(m - 1)
    <3> HIDE DEF Good
    <3> QED BY <2>1, <2>4
  <2>6. PICK g \in [0 .. m - 1 -> S] :
           g[0] = base /\ \A i \in 1 .. m - 1 : g[i] = step[i][g[i - 1]]
    BY <2>5
  <2> DEFINE f == [i \in 0 .. m |-> IF i = m THEN step[m][g[m - 1]] ELSE g[i]]
  <2>7. step[m][g[m - 1]] \in S
    <3>1. g[m - 1] \in S /\ m \in 1 .. n
      BY <2>2, <2>3, <2>4
    <3> QED BY <3>1
  <2>8. f \in [0 .. m -> S] /\ f[0] = base
    BY <2>2, <2>3, <2>6, <2>7
  <2>9. ASSUME NEW i \in 1 .. m PROVE f[i] = step[i][f[i - 1]]
    <3>1. i - 1 \in 0 .. m - 1 /\ f[i - 1] = g[i - 1]
      BY <2>2
    <3>2. CASE i = m
      <4>1. f[m] = step[m][g[m - 1]] /\ f[m - 1] = g[m - 1]
        BY <2>2, <3>1, <3>2
      <4> QED BY <3>2, <4>1
    <3>3. CASE i # m
      <4>1. i \in 1 .. m - 1 /\ f[i] = g[i]
        BY <2>2, <3>3
      <4>2. g[i] = step[i][g[i - 1]]
        BY <2>6, <4>1
      <4> QED BY <3>1, <4>1, <4>2
    <3> QED BY <3>2, <3>3
  <2> HIDE DEF f
  <2> QED BY <2>2, <2>8, <2>9
<1>2. n \in 0 .. n
  OBVIOUS
<1>3. Good(n)
  <2> HIDE DEF Good
  <2> QED BY <1>1, <1>2
<1> QED BY <1>3

--------------------------------------------------------------------------------
(* The words of a command line, which is a sequence of characters.         *)

Line == Seq(Nat)

\* What dbl_delete keeps of one character more.
KeptStep(s, i, kept) ==
  IF s[i] = Space /\ i > 1 /\ s[i - 1] = Space THEN kept ELSE Append(kept, s[i])

LEMMA KeptProperties ==
  ASSUME NEW s \in Line
  PROVE  /\ KeptUpTo(s) \in [0 .. Len(s) -> Line]
         /\ KeptUpTo(s)[0] = << >>
         /\ \A i \in 1 .. Len(s) :
               KeptUpTo(s)[i] = KeptStep(s, i, KeptUpTo(s)[i - 1])
<1> DEFINE n == Len(s)
           step == [i \in 1 .. n |-> [kept \in Line |-> KeptStep(s, i, kept)]]
<1>1. n \in Nat /\ << >> \in Line
  BY LenProperties DEF Line
<1>2. step \in [1 .. n -> [Line -> Line]]
  <2>1. ASSUME NEW i \in 1 .. n, NEW kept \in Line PROVE KeptStep(s, i, kept) \in Line
    <3>1. s[i] \in Nat
      BY ElementOfSeq DEF Line
    <3> QED BY <3>1, AppendProperties DEF KeptStep, Line
  <2> QED BY <2>1
<1>3. PICK f \in [0 .. n -> Line] :
         f[0] = << >> /\ \A i \in 1 .. n : f[i] = step[i][f[i - 1]]
  <2> HIDE DEF step, n
  <2>1. PICK S, base : S = Line /\ base = << >>
    OBVIOUS
  <2>2. base \in S /\ step \in [1 .. n -> [S -> S]]
    BY <1>1, <1>2, <2>1
  <2>3. \E f \in [0 .. n -> S] :
           f[0] = base /\ \A i \in 1 .. n : f[i] = step[i][f[i - 1]]
    BY <1>1, <2>2, Recursion
  <2> QED BY <2>1, <2>3
<1>4. ASSUME NEW i \in 1 .. n PROVE f[i] = KeptStep(s, i, f[i - 1])
  <2>1. f[i - 1] \in Line
    BY <1>1, <1>3
  <2>2. step[i][f[i - 1]] = KeptStep(s, i, f[i - 1])
    BY <2>1
  <2> QED BY <1>3, <2>2
<1> DEFINE Eq(g) == g = [i \in 0 .. n |->
                           IF i = 0 THEN << >>
                           ELSE IF s[i] = Space /\ i > 1 /\ s[i - 1] = Space THEN g[i - 1]
                           ELSE Append(g[i - 1], s[i])]
<1>5. Eq(f)
  <2>1. f = [i \in 0 .. n |-> f[i]]
    BY <1>3
  <2>2. \A i \in 0 .. n : f[i] = IF i = 0 THEN << >> ELSE KeptStep(s, i, f[i - 1])
    BY <1>1, <1>3, <1>4
  <2>3. f = [i \in 0 .. n |-> IF i = 0 THEN << >> ELSE KeptStep(s, i, f[i - 1])]
    BY <2>1, <2>2
  <2> QED BY <2>3 DEF KeptStep
<1>6. KeptUpTo(s) = CHOOSE g : Eq(g)
  BY DEF KeptUpTo
<1>7. Eq(KeptUpTo(s))
  <2> HIDE DEF Eq
  <2> QED BY <1>5, <1>6
<1> DEFINE k == KeptUpTo(s)
<1>8. k[0] = << >> /\ DOMAIN k = 0 .. n /\ k = [i \in 0 .. n |-> k[i]]
      /\ \A i \in 1 .. n : k[i] = KeptStep(s, i, k[i - 1])
  <2>1. k = [i \in 0 .. n |-> IF i = 0 THEN << >> ELSE KeptStep(s, i, k[i - 1])]
    BY <1>7 DEF KeptStep
  <2> HIDE DEF k
  <2> QED BY <1>1, <2>1
<1>9. \A i \in 0 .. n : k[i] = f[i]
  <2> DEFINE G == {i \in 0 .. n : k[i] = f[i]}
  <2>1. 0 \in G
    BY <1>1, <1>3, <1>8
  <2>2. ASSUME NEW i \in 1 .. n, i - 1 \in G PROVE i \in G
    <3>1. k[i - 1] = f[i - 1]
      BY <2>2
    <3>2. k[i] = f[i]
      BY <1>4, <1>8, <3>1
    <3> QED BY <3>2
  <2>3. \A i \in 0 .. n : i \in G
    <3> HIDE DEF G
    <3> QED BY <1>1, <2>1, <2>2, StepByStep
  <2> QED BY <2>3
<1>10. k \in [0 .. n -> Line]
  <2> HIDE DEF k
  <2> QED BY <1>3, <1>8, <1>9
<1> QED BY <1>8, <1>10

\* What strtok_r makes of one character more.
WordsStep(s, i, words) ==
  IF s[i] = Space THEN words
  ELSE IF i = 1 \/ s[i - 1] = Space THEN Append(words, <<s[i]>>)
  ELSE [words EXCEPT ![Len(words)] = Append(@, s[i])]

\* The last word grows by a character.
LEMMA Grown ==
  ASSUME NEW words \in Seq(Line), NEW c \in Nat
  PROVE  LET r == [words EXCEPT ![Len(words)] = Append(@, c)]
         IN  r \in Seq(Line) /\ Len(r) = Len(words)
<1> DEFINE n == Len(words)
           r == [words EXCEPT ![n] = Append(@, c)]
<1>1. n \in Nat /\ DOMAIN words = 1 .. n /\ \A i \in 1 .. n : words[i] \in Line
  BY LenProperties, ElementOfSeq
<1>2. r = [i \in 1 .. n |-> IF i = n THEN Append(words[i], c) ELSE words[i]]
  BY <1>1
<1>3. \A i \in 1 .. n : (IF i = n THEN Append(words[i], c) ELSE words[i]) \in Line
  BY <1>1, AppendProperties DEF Line
<1> HIDE DEF r
<1>4. r \in [1 .. n -> Line]
  BY <1>2, <1>3
<1> HIDE DEF n
<1>5. r \in Seq(Line) /\ Len(r) = n
  BY <1>1, <1>4, IsASeq, LenProperties
<1> QED BY <1>5 DEF r, n

LEMMA WordsProperties ==
  ASSUME NEW s \in Line
  PROVE  /\ WordsUpTo(s) \in [0 .. Len(s) -> Seq(Line)]
         /\ WordsUpTo(s)[0] = << >>
         /\ \A i \in 1 .. Len(s) :
               WordsUpTo(s)[i] = WordsStep(s, i, WordsUpTo(s)[i - 1])
<1> DEFINE n == Len(s)
           T == Seq(Line)
           step == [i \in 1 .. n |-> [words \in T |-> WordsStep(s, i, words)]]
<1>1. n \in Nat /\ << >> \in T
  BY LenProperties DEF Line
<1>2. step \in [1 .. n -> [T -> T]]
  <2>1. ASSUME NEW i \in 1 .. n, NEW words \in T PROVE WordsStep(s, i, words) \in T
    <3>1. s[i] \in Nat /\ <<s[i]>> \in Line
      BY ElementOfSeq DEF Line
    <3>2. Append(words, <<s[i]>>) \in T
      BY <3>1, AppendProperties
    <3>3. [words EXCEPT ![Len(words)] = Append(@, s[i])] \in T
      BY <3>1, Grown
    <3> QED BY <3>2, <3>3 DEF WordsStep
  <2> HIDE DEF T
  <2> QED BY <2>1
<1> HIDE DEF T
<1>3. PICK f \in [0 .. n -> T] :
         f[0] = << >> /\ \A i \in 1 .. n : f[i] = step[i][f[i - 1]]
  <2> HIDE DEF step, n
  <2>1. PICK S, base, m, next : S = T /\ base = << >> /\ m = n /\ next = step
    OBVIOUS
  <2>2. base \in S /\ next \in [1 .. m -> [S -> S]] /\ m \in Nat
    BY <1>1, <1>2, <2>1
  <2>3. \E f \in [0 .. m -> S] :
           f[0] = base /\ \A i \in 1 .. m : f[i] = next[i][f[i - 1]]
    BY <2>2, Recursion, SMTT(30)
  <2>4. PICK f \in [0 .. m -> S] : f[0] = base /\ \A i \in 1 .. m : f[i] = next[i][f[i - 1]]
    BY <2>3
  <2>5. f \in [0 .. n -> T] /\ f[0] = << >>
    BY <2>1, <2>4
  <2>6. \A i \in 1 .. n : f[i] = step[i][f[i - 1]]
    BY <2>1, <2>4
  <2> QED BY <2>5, <2>6
<1>4. ASSUME NEW i \in 1 .. n PROVE f[i] = WordsStep(s, i, f[i - 1])
  <2>1. f[i - 1] \in T
    BY <1>1, <1>3
  <2>2. step[i][f[i - 1]] = WordsStep(s, i, f[i - 1])
    BY <2>1
  <2> QED BY <1>3, <2>2
<1> DEFINE Eq(g) == g = [i \in 0 .. n |->
                           IF i = 0 THEN << >>
                           ELSE IF s[i] = Space THEN g[i - 1]
                           ELSE IF i = 1 \/ s[i - 1] = Space THEN Append(g[i - 1], <<s[i]>>)
                           ELSE [g[i - 1] EXCEPT ![Len(g[i - 1])] = Append(@, s[i])]]
<1>5. Eq(f)
  <2>1. f = [i \in 0 .. n |-> f[i]]
    BY <1>3
  <2>2. \A i \in 0 .. n : f[i] = IF i = 0 THEN << >> ELSE WordsStep(s, i, f[i - 1])
    BY <1>1, <1>3, <1>4
  <2>3. f = [i \in 0 .. n |-> IF i = 0 THEN << >> ELSE WordsStep(s, i, f[i - 1])]
    BY <2>1, <2>2
  <2> QED BY <2>3 DEF WordsStep
<1>6. WordsUpTo(s) = CHOOSE g : Eq(g)
  BY DEF WordsUpTo
<1>7. Eq(WordsUpTo(s))
  <2> HIDE DEF Eq
  <2> QED BY <1>5, <1>6
<1> DEFINE w == WordsUpTo(s)
<1>8. w[0] = << >> /\ DOMAIN w = 0 .. n /\ w = [i \in 0 .. n |-> w[i]]
      /\ \A i \in 1 .. n : w[i] = WordsStep(s, i, w[i - 1])
  <2>1. w = [i \in 0 .. n |-> IF i = 0 THEN << >> ELSE WordsStep(s, i, w[i - 1])]
    BY <1>7 DEF WordsStep
  <2> HIDE DEF w
  <2> QED BY <1>1, <2>1
<1>9. \A i \in 0 .. n : w[i] = f[i]
  <2> DEFINE G == {i \in 0 .. n : w[i] = f[i]}
  <2>1. 0 \in G
    BY <1>1, <1>3, <1>8
  <2>2. ASSUME NEW i \in 1 .. n, i - 1 \in G PROVE i \in G
    <3>1. w[i - 1] = f[i - 1]
      BY <2>2
    <3>2. w[i] = f[i]
      BY <1>4, <1>8, <3>1
    <3> QED BY <3>2
  <2>3. \A i \in 0 .. n : i \in G
    <3> HIDE DEF G
    <3> QED BY <1>1, <2>1, <2>2, StepByStep
  <2> QED BY <2>3
<1>10. w \in [0 .. n -> T]
  <2> HIDE DEF w
  <2> QED BY <1>3, <1>8, <1>9
<1> QED BY <1>8, <1>10 DEF T

\* Sequence r begins with q.
Begins(q, r) == Len(q) <= Len(r) /\ \A j \in 1 .. Len(q) : r[j] = q[j]

LEMMA AppendBegins ==
  ASSUME NEW T, NEW q \in Seq(T), NEW x \in T
  PROVE  /\ Append(q, x) \in Seq(T) /\ Len(Append(q, x)) = Len(q) + 1 /\ Len(q) \in Nat
         /\ Append(q, x)[Len(q) + 1] = x /\ Begins(q, Append(q, x))
<1>1. /\ Append(q, x) \in Seq(T) /\ Len(Append(q, x)) = Len(q) + 1 /\ Len(q) \in Nat
      /\ \A j \in 1 .. Len(q) : Append(q, x)[j] = q[j]
      /\ Append(q, x)[Len(q) + 1] = x
  BY AppendProperties, LenProperties
<1> QED BY <1>1 DEF Begins

\* What has been kept stays.
LEMMA KeptStays ==
  ASSUME NEW s \in Line, NEW i \in 0 .. Len(s)
  PROVE  Begins(KeptUpTo(s)[i], SingleSpaced(s)) /\ SingleSpaced(s) \in Line
<1> DEFINE n == Len(s)
           K == KeptUpTo(s)
           G == {m \in 0 .. n : \A k \in 0 .. m : Begins(K[k], K[m])}
<1>1. /\ n \in Nat /\ \A m \in 0 .. n : K[m] \in Line /\ Len(K[m]) \in Nat
      /\ \A m \in 1 .. n : K[m] = KeptStep(s, m, K[m - 1])
  <2>1. n \in Nat
    BY LenProperties DEF Line
  <2>2. K \in [0 .. n -> Line] /\ \A m \in 1 .. n : K[m] = KeptStep(s, m, K[m - 1])
    BY KeptProperties
  <2> HIDE DEF K, n
  <2> QED BY <2>1, <2>2, LenProperties DEF Line
<1>2. 0 \in G
  <2>1. \A k \in 0 .. 0 : Begins(K[k], K[0])
    BY <1>1 DEF Begins
  <2> QED BY <1>1, <2>1
<1>3. ASSUME NEW m \in 1 .. n, m - 1 \in G PROVE m \in G
  <2>1. m - 1 \in 0 .. n /\ m \in 0 .. n
    BY <1>1
  <2>2. /\ \A k \in 0 .. m - 1 : Begins(K[k], K[m - 1])
        /\ K[m] = K[m - 1] \/ K[m] = Append(K[m - 1], s[m])
        /\ K[m - 1] \in Line /\ s[m] \in Nat
    BY <1>1, <1>3, <2>1, ElementOfSeq DEF Line, KeptStep
  <2> HIDE DEF K, n, G
  <2>3. Begins(K[m - 1], K[m])
    <3>1. CASE K[m] = K[m - 1]
      BY <1>1, <2>1, <3>1 DEF Begins
    <3>2. CASE K[m] = Append(K[m - 1], s[m])
      BY <2>2, <3>2, AppendBegins DEF Line
    <3> QED BY <2>2, <3>1, <3>2
  <2>4. ASSUME NEW k \in 0 .. m PROVE Begins(K[k], K[m])
    <3>1. CASE k = m
      BY <1>1, <2>1, <3>1 DEF Begins
    <3>2. CASE k # m
      <4>1. k \in 0 .. m - 1 /\ k \in 0 .. n
        BY <1>1, <3>2
      <4>2. Begins(K[k], K[m - 1]) /\ Len(K[k]) \in Nat /\ Len(K[m - 1]) \in Nat /\ Len(K[m]) \in Nat
        BY <1>1, <2>1, <2>2, <4>1
      <4> QED BY <2>3, <4>2 DEF Begins
    <3> QED BY <3>1, <3>2
  <2> QED BY <2>1, <2>4 DEF G
<1>4. n \in G
  <2>1. \A m \in 0 .. n : m \in G
    <3> HIDE DEF G
    <3> QED BY <1>1, <1>2, <1>3, StepByStep
  <2> QED BY <1>1, <2>1
<1>5. SingleSpaced(s) = K[n]
  BY DEF SingleSpaced
<1> QED BY <1>1, <1>4, <1>5

\* What is kept, after at least one character, ends in a space as what has been read does,
\* begins with the same character, and holds no two spaces in a row.
KeptWell(s, i, k) ==
  /\ Len(k) >= 1 /\ k[1] = s[1]
  /\ k[Len(k)] = Space <=> s[i] = Space
  /\ \A j \in 2 .. Len(k) : k[j] = Space => k[j - 1] # Space

LEMMA KeptIsSingleSpaced ==
  ASSUME NEW s \in Line, NEW i \in 1 .. Len(s)
  PROVE  KeptWell(s, i, KeptUpTo(s)[i])
<1> DEFINE n == Len(s)
           K == KeptUpTo(s)
           G == {m \in 0 .. n : m = 0 \/ KeptWell(s, m, K[m])}
<1>1. n \in Nat /\ \A m \in 1 .. n : s[m] \in Nat
  BY LenProperties, ElementOfSeq DEF Line
<1>2. /\ K[0] = << >> /\ \A m \in 0 .. n : K[m] \in Line /\ Len(K[m]) \in Nat
      /\ \A m \in 1 .. n : K[m] = KeptStep(s, m, K[m - 1])
  <2>1. /\ K \in [0 .. n -> Line] /\ K[0] = << >>
        /\ \A m \in 1 .. n : K[m] = KeptStep(s, m, K[m - 1])
    BY KeptProperties
  <2> HIDE DEF K, n
  <2> QED BY <2>1, LenProperties DEF Line
<1>3. 0 \in G
  BY <1>1
<1>4. ASSUME NEW m \in 1 .. n, m - 1 \in G PROVE m \in G
  <2>0. m \in 0 .. n /\ m - 1 \in 0 .. n /\ m \in Nat
    BY <1>1
  <2> SUFFICES KeptWell(s, m, K[m])
    BY <2>0
  <2>1. m - 1 = 0 \/ KeptWell(s, m - 1, K[m - 1])
    BY <1>4
  <2> HIDE DEF K, G, n
  <2>2. K[m - 1] \in Line /\ s[m] \in Nat /\ Len(K[m - 1]) \in Nat /\ K[m] = KeptStep(s, m, K[m - 1])
    BY <1>1, <1>2, <2>0
  <2>3. CASE s[m] = Space /\ m > 1 /\ s[m - 1] = Space
    <3>1. K[m] = K[m - 1] /\ KeptWell(s, m - 1, K[m - 1])
      BY <2>0, <2>1, <2>2, <2>3 DEF KeptStep
    <3> QED BY <2>3, <3>1 DEF KeptWell
  <2>4. CASE ~(s[m] = Space /\ m > 1 /\ s[m - 1] = Space)
    <3> DEFINE q == K[m - 1]
               r == Append(q, s[m])
    <3>1. K[m] = r
      BY <2>2, <2>4 DEF KeptStep
    <3>2. /\ r \in Line /\ Len(r) = Len(q) + 1 /\ r[Len(q) + 1] = s[m]
          /\ \A j \in 1 .. Len(q) : r[j] = q[j]
      BY <2>2, AppendBegins DEF Line, Begins
    <3>3. CASE m = 1
      <4>1. q = << >>
        BY <1>2, <3>3
      <4>2. Len(q) = 0
        BY <4>1
      <4> HIDE DEF q, r
      <4> QED BY <3>1, <3>2, <3>3, <4>2 DEF KeptWell
    <3>4. CASE m # 1
      <4>1. KeptWell(s, m - 1, q) /\ (s[m] = Space => s[m - 1] # Space)
        BY <2>0, <2>1, <2>4, <3>4
      <4>2. Len(q) \in Nat
        BY <2>2
      <4> HIDE DEF q, r
      <4>3. ASSUME NEW j \in 2 .. Len(r), r[j] = Space PROVE r[j - 1] # Space
        <5>1. CASE j = Len(q) + 1
          <6>1. s[m] = Space /\ s[m - 1] # Space
            BY <3>2, <4>1, <4>3, <5>1
          <6>2. q[Len(q)] # Space /\ Len(q) \in 1 .. Len(q)
            BY <4>1, <4>2, <6>1 DEF KeptWell
          <6>3. r[Len(q)] = q[Len(q)]
            BY <3>2, <6>2
          <6> QED BY <4>2, <5>1, <6>2, <6>3
        <5>2. CASE j # Len(q) + 1
          <6>1. j \in 2 .. Len(q) /\ j \in 1 .. Len(q) /\ j - 1 \in 1 .. Len(q)
            BY <3>2, <4>2, <5>2
          <6>2. r[j] = q[j] /\ r[j - 1] = q[j - 1]
            BY <3>2, <6>1
          <6> QED BY <4>1, <4>3, <6>1, <6>2 DEF KeptWell
        <5> QED BY <5>1, <5>2
      <4>4. Len(r) >= 1 /\ r[1] = s[1] /\ (r[Len(r)] = Space <=> s[m] = Space)
        BY <3>2, <4>1, <4>2 DEF KeptWell
      <4> QED BY <3>1, <4>3, <4>4 DEF KeptWell
    <3> QED BY <3>3, <3>4
  <2> QED BY <2>3, <2>4
<1>5. \A m \in 0 .. n : m \in G
  <2> HIDE DEF G
  <2> QED BY <1>1, <1>3, <1>4, StepByStep
<1> QED BY <1>1, <1>5

\* The words are those of the line as it was.
LEMMA SameWords ==
  ASSUME NEW s \in Line
  PROVE  Words(SingleSpaced(s)) = Words(s)
<1> DEFINE n == Len(s)
           r == SingleSpaced(s)
           K == KeptUpTo(s)
           V == WordsUpTo(r)
           W == WordsUpTo(s)
           G == {i \in 0 .. n : V[Len(K[i])] = W[i]}
<1>1. n \in Nat /\ \A i \in 1 .. n : s[i] \in Nat
  BY LenProperties, ElementOfSeq DEF Line
<1>2. /\ K[0] = << >> /\ \A i \in 0 .. n : K[i] \in Line /\ Len(K[i]) \in Nat
      /\ \A i \in 1 .. n : K[i] = KeptStep(s, i, K[i - 1])
  <2>1. /\ K \in [0 .. n -> Line] /\ K[0] = << >>
        /\ \A i \in 1 .. n : K[i] = KeptStep(s, i, K[i - 1])
    BY KeptProperties
  <2> HIDE DEF K, n
  <2> QED BY <2>1, LenProperties DEF Line
<1>3. r \in Line /\ r = K[n] /\ Len(r) \in Nat /\ \A i \in 0 .. n : Begins(K[i], r)
  <2>1. \A i \in 0 .. n : Begins(K[i], r) /\ r \in Line
    BY KeptStays
  <2>2. r = K[n]
    BY DEF SingleSpaced
  <2> HIDE DEF K, n, r
  <2> QED BY <1>1, <2>1, <2>2, LenProperties DEF Line
<1>4. W[0] = << >> /\ \A i \in 1 .. n : W[i] = WordsStep(s, i, W[i - 1])
  BY WordsProperties
<1>5. V[0] = << >> /\ \A i \in 1 .. Len(r) : V[i] = WordsStep(r, i, V[i - 1])
  <2> HIDE DEF r
  <2> QED BY <1>3, WordsProperties
<1>6. \A i \in 1 .. n : KeptWell(s, i, K[i])
  BY KeptIsSingleSpaced
<1>7. Words(s) = W[n] /\ Words(r) = V[Len(r)]
  BY DEF Words
<1>8. 0 \in G
  <2>1. Len(K[0]) = 0
    BY <1>2
  <2> QED BY <1>1, <1>4, <1>5, <2>1
<1>9. ASSUME NEW i \in 1 .. n, i - 1 \in G PROVE i \in G
  <2>0. i \in 0 .. n /\ i - 1 \in 0 .. n /\ i \in Nat
    BY <1>1
  <2>1. V[Len(K[i - 1])] = W[i - 1]
    BY <1>9
  <2> SUFFICES V[Len(K[i])] = W[i]
    BY <2>0
  <2> DEFINE p == Len(K[i - 1])
  <2> HIDE DEF K, V, W, G, n, r
  <2>2. /\ p \in Nat /\ K[i - 1] \in Line /\ s[i] \in Nat
        /\ K[i] = KeptStep(s, i, K[i - 1]) /\ W[i] = WordsStep(s, i, W[i - 1])
    BY <1>1, <1>2, <1>4, <2>0
  <2>3. CASE s[i] = Space /\ i > 1 /\ s[i - 1] = Space
    BY <2>1, <2>2, <2>3 DEF KeptStep, WordsStep
  <2>4. CASE ~(s[i] = Space /\ i > 1 /\ s[i - 1] = Space)
    <3>1. K[i] = Append(K[i - 1], s[i])
      BY <2>2, <2>4 DEF KeptStep
    <3>2. Len(K[i]) = p + 1 /\ K[i][p + 1] = s[i]
      BY <2>2, <3>1, AppendBegins DEF Line
    <3>3. p + 1 \in 1 .. Len(r) /\ r[p + 1] = s[i]
      <4>1. Begins(K[i], r)
        BY <1>3, <2>0
      <4>2. Len(K[i]) <= Len(r) /\ \A j \in 1 .. Len(K[i]) : r[j] = K[i][j]
        BY <4>1 DEF Begins
      <4>3. p + 1 \in 1 .. Len(K[i])
        BY <2>2, <3>2
      <4> QED BY <1>3, <2>2, <3>2, <4>2, <4>3
    <3>4. V[p + 1] = WordsStep(r, p + 1, W[i - 1])
      <4>1. (p + 1) - 1 = p
        BY <2>2
      <4> QED BY <1>5, <2>1, <3>3, <4>1
    <3>5. (p + 1 = 1 \/ r[p] = Space) <=> (i = 1 \/ s[i - 1] = Space)
      <4>1. CASE i = 1
        <5>1. K[i - 1] = << >>
          BY <1>2, <4>1
        <5>2. p = 0
          BY <5>1
        <5> QED BY <4>1, <5>2
      <4>2. CASE i # 1
        <5>1. KeptWell(s, i - 1, K[i - 1]) /\ Begins(K[i - 1], r)
          <6>1. i - 1 \in 1 .. n
            BY <1>1, <2>0, <4>2
          <6> QED BY <1>3, <1>6, <2>0, <6>1
        <5>2. p >= 1 /\ (K[i - 1][p] = Space <=> s[i - 1] = Space) /\ r[p] = K[i - 1][p]
          BY <2>2, <5>1 DEF KeptWell, Begins
        <5> QED BY <2>2, <4>2, <5>2
      <4> QED BY <4>1, <4>2
    <3>6. WordsStep(r, p + 1, W[i - 1]) = WordsStep(s, i, W[i - 1])
      <4>1. (p + 1) - 1 = p
        BY <2>2
      <4> QED BY <3>3, <3>5, <4>1 DEF WordsStep
    <3> QED BY <2>2, <3>2, <3>4, <3>6
  <2> QED BY <2>3, <2>4
<1>10. n \in G
  <2>1. \A i \in 0 .. n : i \in G
    <3> HIDE DEF G
    <3> QED BY <1>1, <1>8, <1>9, StepByStep
  <2> QED BY <1>1, <2>1
<1> QED BY <1>3, <1>7, <1>10

\* A line that begins with no space and has no two in a row has a word more than it has
\* spaces, if none ends it.
LEMMA WordCount ==
  ASSUME NEW s \in Line, Len(s) >= 1, s[1] # Space,
         \A j \in 2 .. Len(s) : s[j] = Space => s[j - 1] # Space
  PROVE  /\ Words(s) \in Seq(Line)
         /\ Argc(s) = Len(Words(s)) + (IF s[Len(s)] = Space THEN 1 ELSE 0)
<1> DEFINE n == Len(s)
           W == WordsUpTo(s)
           spaces(i) == {j \in 1 .. i : s[j] = Space}
           Right(i) == /\ IsFiniteSet(spaces(i))
                       /\ Len(W[i]) = Cardinality(spaces(i)) + (IF s[i] = Space THEN 0 ELSE 1)
           G == {i \in 0 .. n : i = 0 \/ Right(i)}
<1>1. n \in Nat /\ \A i \in 1 .. n : s[i] \in Nat /\ <<s[i]>> \in Line
  BY LenProperties, ElementOfSeq DEF Line
<1>2. /\ W[0] = << >> /\ \A i \in 0 .. n : W[i] \in Seq(Line) /\ Len(W[i]) \in Nat
      /\ \A i \in 1 .. n : W[i] = WordsStep(s, i, W[i - 1])
  <2>1. /\ W \in [0 .. n -> Seq(Line)] /\ W[0] = << >>
        /\ \A i \in 1 .. n : W[i] = WordsStep(s, i, W[i - 1])
    BY WordsProperties
  <2> HIDE DEF W, n
  <2> QED BY <2>1, LenProperties
<1>3. 0 \in G
  BY <1>1
<1>4. ASSUME NEW i \in 1 .. n, i - 1 \in G PROVE i \in G
  <2>0. i \in 0 .. n /\ i - 1 \in 0 .. n /\ i \in Nat
    BY <1>1
  <2> SUFFICES Right(i)
    BY <2>0
  <2>1. /\ W[i] = WordsStep(s, i, W[i - 1]) /\ W[i - 1] \in Seq(Line) /\ Len(W[i - 1]) \in Nat
        /\ s[i] \in Nat /\ <<s[i]>> \in Line
    BY <1>1, <1>2, <2>0
  <2>2. Len(Append(W[i - 1], <<s[i]>>)) = Len(W[i - 1]) + 1
    BY <2>1, AppendProperties
  <2>3. Len([W[i - 1] EXCEPT ![Len(W[i - 1])] = Append(@, s[i])]) = Len(W[i - 1])
    BY <2>1, Grown
  <2>4. CASE i = 1
    <3>1. W[i - 1] = << >> /\ Len(W[i - 1]) = 0
      BY <1>2, <2>4
    <3>2. s[i] # Space
      BY <2>4
    <3>3. spaces(i) = {}
      BY <2>4
    <3>4. Len(W[i]) = 1
      BY <2>1, <2>2, <2>4, <3>1, <3>2 DEF WordsStep
    <3>5. IsFiniteSet(spaces(i)) /\ Cardinality(spaces(i)) = 0
      <4> HIDE DEF spaces
      <4> QED BY <3>3, FS_EmptySet
    <3> HIDE DEF spaces, W
    <3> QED BY <3>2, <3>4, <3>5
  <2>5. CASE i # 1
    <3>1. i - 1 # 0 /\ i - 1 \in 1 .. n /\ i \in 2 .. n
      BY <1>1, <2>0, <2>5
    <3>2. Right(i - 1)
      BY <1>4, <3>1
    <3> DEFINE before == spaces(i - 1)
               c == Cardinality(before)
    <3>3. IsFiniteSet(before) /\ c \in Nat
          /\ Len(W[i - 1]) = c + (IF s[i - 1] = Space THEN 0 ELSE 1)
      <4>1. IsFiniteSet(before) /\ Len(W[i - 1]) = c + (IF s[i - 1] = Space THEN 0 ELSE 1)
        BY <3>2
      <4> HIDE DEF before
      <4> QED BY <4>1, FS_CardinalityType
    <3>4. CASE s[i] = Space
      <4>1. s[i - 1] # Space
        BY <3>1, <3>4
      <4>2. spaces(i) = before \union {i} /\ i \notin before
        BY <2>0, <3>1, <3>4
      <4>3. IsFiniteSet(spaces(i)) /\ Cardinality(spaces(i)) = c + 1
        <5> HIDE DEF spaces, before
        <5> QED BY <3>3, <4>2, FS_AddElement DEF c
      <4>4. Len(W[i]) = Len(W[i - 1])
        BY <2>1, <3>4 DEF WordsStep
      <4> HIDE DEF W, spaces, c
      <4> QED BY <3>3, <3>4, <4>1, <4>3, <4>4
    <3>5. CASE s[i] # Space
      <4>1. spaces(i) = before
        BY <2>0, <3>1, <3>5
      <4>2. CASE s[i - 1] = Space
        <5>1. Len(W[i]) = Len(W[i - 1]) + 1
          BY <2>1, <2>2, <3>5, <4>2 DEF WordsStep
        <5> HIDE DEF W, spaces, before, c
        <5> QED BY <3>3, <3>5, <4>1, <4>2, <5>1 DEF c
      <4>3. CASE s[i - 1] # Space
        <5>1. Len(W[i]) = Len(W[i - 1])
          BY <2>1, <2>3, <2>5, <3>5, <4>3 DEF WordsStep
        <5> HIDE DEF W, spaces, before, c
        <5> QED BY <3>3, <3>5, <4>1, <4>3, <5>1 DEF c
      <4> QED BY <4>2, <4>3
    <3> QED BY <3>4, <3>5
  <2> QED BY <2>4, <2>5
<1>5. Right(n)
  <2>1. \A i \in 0 .. n : i \in G
    <3> HIDE DEF G
    <3> QED BY <1>1, <1>3, <1>4, StepByStep
  <2>2. n \in G /\ n # 0
    <3> HIDE DEF G
    <3> QED BY <1>1, <2>1
  <2> QED BY <2>2
<1>6. Words(s) = W[n] /\ Argc(s) = 1 + Cardinality(spaces(n))
  BY DEF Words, Argc
<1>7. Cardinality(spaces(n)) \in Nat
  <2> HIDE DEF spaces
  <2> QED BY <1>5, FS_CardinalityType
<1>8. Words(s) \in Seq(Line) /\ Len(Words(s)) \in Nat
  <2> HIDE DEF W, n
  <2> QED BY <1>1, <1>2, <1>6
<1>9. Len(Words(s)) = Cardinality(spaces(n)) + (IF s[n] = Space THEN 0 ELSE 1)
  BY <1>5, <1>6
<1> HIDE DEF spaces
<1> QED BY <1>6, <1>7, <1>8, <1>9

\* A command line with a first word begins with no space.
LEMMA FirstWordFirst ==
  ASSUME NEW s \in Line, FirstWord(s) # << >>
  PROVE  Len(s) >= 1 /\ s[1] # Space
<1> DEFINE t == s \o <<Space>>
           I == {i \in 1 .. Len(t) : t[i] = Space}
<1>1. SUFFICES ASSUME ~(Len(s) >= 1 /\ s[1] # Space) PROVE FirstWord(s) = << >>
  OBVIOUS
<1>2. Len(s) \in Nat
  BY LenProperties DEF Line
<1>3. 1 \in I
  <2>1. Len(t) = Len(s) + 1 /\ t[1] = IF 1 <= Len(s) THEN s[1] ELSE Space
    BY <1>2 DEF Line
  <2> QED BY <1>1, <1>2, <2>1
<1>4. \A i \in I : 1 <= i /\ i \in Int
  OBVIOUS
<1>5. SelectInSeq(t, LAMBDA c : c = Space) = IF I # {} THEN Min(I) ELSE 0
  BY DEF SelectInSeq
<1>6. Min(I) = 1
  <2> HIDE DEF I
  <2>1. \E x \in I : \A y \in I : x <= y
    BY <1>3, <1>4
  <2>2. Min(I) \in I /\ \A y \in I : Min(I) <= y
    BY <2>1 DEF Min
  <2> QED BY <1>3, <1>4, <2>2
<1>7. FirstWord(s) = SubSeq(s, 1, SelectInSeq(t, LAMBDA c : c = Space) - 1)
  BY DEF FirstWord
<1>8. FirstWord(s) = SubSeq(s, 1, 1 - 1)
  <2> HIDE DEF I
  <2> QED BY <1>3, <1>5, <1>6, <1>7
<1> QED BY <1>8

\* strtok_r returns NULL to parsing_filename only after a last space.
LEMMA ArgumentsCounted ==
  ASSUME NEW s \in Line, FirstWord(s) # << >>
  PROVE  /\ Words(s) \in Seq(Line)
         /\ ReadsNull(SingleSpaced(s)) <=> Last(s) = Space
<1>1. Len(s) \in Nat /\ Len(s) >= 1 /\ s[1] # Space
  BY FirstWordFirst, LenProperties DEF Line
<1> DEFINE r == SingleSpaced(s)
<1>2. r \in Line /\ KeptWell(s, Len(s), r)
  <2>1. 0 \in 0 .. Len(s) /\ Len(s) \in 1 .. Len(s)
    BY <1>1
  <2> QED BY <2>1, KeptStays, KeptIsSingleSpaced DEF SingleSpaced
<1>3. Words(r) \in Seq(Line) /\ Argc(r) = Len(Words(r)) + (IF r[Len(r)] = Space THEN 1 ELSE 0)
  <2> HIDE DEF r
  <2> QED BY <1>1, <1>2, WordCount DEF KeptWell
<1>4. r[Len(r)] = Space <=> Last(s) = Space
  BY <1>2 DEF KeptWell, Last
<1>5. Len(Words(r)) \in Nat
  BY <1>3, LenProperties
<1>6. ReadsNull(r) <=> Last(s) = Space
  <2> HIDE DEF r
  <2> QED BY <1>3, <1>4, <1>5 DEF ReadsNull
<1> QED BY <1>3, <1>6, SameWords

--------------------------------------------------------------------------------
(* The layout of the stack.                                                *)

\* The strings lie one after the other, up to the top.
LEMMA StringsProperties ==
  ASSUME NEW top \in Int, NEW argv \in Seq(Line)
  PROVE  LET n == Len(argv)
             at == StringsFrom(top, argv)
         IN  /\ n \in Nat /\ \A j \in 1 .. n : argv[j] \in Line /\ Len(argv[j]) \in Nat
             /\ \A j \in 1 .. n + 1 : at[j] \in Int
             /\ at[n + 1] = top
             /\ \A j \in 1 .. n : at[j] = at[j + 1] - (Len(argv[j]) + 1)
             /\ \A i, j \in 1 .. n + 1 : i <= j => at[i] <= at[j]
<1> DEFINE n == Len(argv)
           at == StringsFrom(top, argv)
           size(j) == Len(argv[j]) + 1
<1>1. n \in Nat /\ \A j \in 1 .. n : argv[j] \in Line /\ Len(argv[j]) \in Nat /\ size(j) \in Nat
  <2>1. n \in Nat /\ \A j \in 1 .. n : argv[j] \in Line
    BY LenProperties, ElementOfSeq
  <2> QED BY <2>1, LenProperties DEF Line
<1> DEFINE step == [i \in 1 .. n |-> [x \in Int |-> x - size(n + 1 - i)]]
<1>2. step \in [1 .. n -> [Int -> Int]]
  <2>1. ASSUME NEW i \in 1 .. n, NEW x \in Int PROVE x - size(n + 1 - i) \in Int
    <3>1. n + 1 - i \in 1 .. n
      BY <1>1
    <3>2. size(n + 1 - i) \in Nat
      BY <1>1, <3>1
    <3> HIDE DEF size
    <3> QED BY <3>2
  <2> HIDE DEF size, n
  <2> QED BY <2>1
<1>3. PICK f : /\ f[0] = top /\ \A i \in 0 .. n : f[i] \in Int
               /\ \A i \in 1 .. n : f[i] = f[i - 1] - size(n + 1 - i)
  <2> HIDE DEF step, n
  <2>1. PICK f \in [0 .. n -> Int] : f[0] = top /\ \A i \in 1 .. n : f[i] = step[i][f[i - 1]]
    <3>1. PICK S, base, m, next : S = Int /\ base = top /\ m = n /\ next = step
      OBVIOUS
    <3>2. base \in S /\ next \in [1 .. m -> [S -> S]] /\ m \in Nat
      BY <1>1, <1>2, <3>1
    <3>3. \E f \in [0 .. m -> S] :
             f[0] = base /\ \A i \in 1 .. m : f[i] = next[i][f[i - 1]]
      BY <3>2, Recursion
    <3> QED BY <3>1, <3>3
  <2>2. ASSUME NEW i \in 1 .. n PROVE f[i] = f[i - 1] - size(n + 1 - i)
    <3>1. f[i - 1] \in Int
      BY <1>1, <2>1
    <3>2. step[i][f[i - 1]] = f[i - 1] - size(n + 1 - i)
      BY <3>1 DEF step
    <3> QED BY <2>1, <3>2
  <2> QED BY <2>1, <2>2
<1> DEFINE Eq(g) == g = [j \in 1 .. n + 1 |-> IF j > n THEN top ELSE g[j + 1] - (Len(argv[j]) + 1)]
           below == [j \in 1 .. n + 1 |-> f[n + 1 - j]]
<1>4. Eq(below)
  <2>1. ASSUME NEW j \in 1 .. n + 1
        PROVE  below[j] = IF j > n THEN top ELSE below[j + 1] - size(j)
    <3>1. CASE j > n
      <4>1. n + 1 - j = 0
        BY <1>1, <3>1
      <4> QED BY <1>3, <3>1, <4>1
    <3>2. CASE ~(j > n)
      <4>1. /\ n + 1 - j \in 1 .. n /\ j + 1 \in 1 .. n + 1 /\ (n + 1 - j) - 1 = n + 1 - (j + 1)
            /\ n + 1 - (n + 1 - j) = j
        BY <1>1, <3>2
      <4>2. f[n + 1 - j] = f[n + 1 - (j + 1)] - size(j)
        BY <1>3, <4>1
      <4> QED BY <3>2, <4>1, <4>2
    <3> QED BY <3>1, <3>2
  <2>2. below = [j \in 1 .. n + 1 |-> below[j]]
    OBVIOUS
  <2>3. below = [j \in 1 .. n + 1 |-> IF j > n THEN top ELSE below[j + 1] - size(j)]
    <3> HIDE DEF below, size
    <3> QED BY <2>1, <2>2
  <2> HIDE DEF below
  <2> QED BY <2>3
<1>5. at = CHOOSE g : Eq(g)
  BY DEF StringsFrom
<1>6. Eq(at)
  <2> HIDE DEF Eq
  <2> QED BY <1>4, <1>5
<1>7. at[n + 1] = top /\ \A j \in 1 .. n : at[j] = at[j + 1] - size(j)
  <2>1. at = [j \in 1 .. n + 1 |-> IF j > n THEN top ELSE at[j + 1] - size(j)]
    BY <1>6
  <2> HIDE DEF at, size, n
  <2>2. \A j \in 1 .. n + 1 : at[j] = IF j > n THEN top ELSE at[j + 1] - size(j)
    BY <2>1
  <2> QED BY <1>1, <2>2
<1>8. \A j \in 1 .. n + 1 : at[j] \in Int
  <2> DEFINE G == {i \in 0 .. n : at[n + 1 - i] \in Int}
  <2> HIDE DEF at, size, n
  <2>1. 0 \in G
    BY <1>1, <1>7
  <2>2. ASSUME NEW i \in 1 .. n, i - 1 \in G PROVE i \in G
    <3>1. n + 1 - i \in 1 .. n /\ (n + 1 - i) + 1 = n + 1 - (i - 1) /\ i \in 0 .. n
      BY <1>1
    <3>2. at[n + 1 - i] = at[n + 1 - (i - 1)] - size(n + 1 - i) /\ size(n + 1 - i) \in Nat
      BY <1>1, <1>7, <3>1
    <3>3. at[n + 1 - (i - 1)] \in Int
      BY <2>2
    <3> QED BY <3>1, <3>2, <3>3
  <2>3. \A i \in 0 .. n : i \in G
    <3> HIDE DEF G
    <3> QED BY <1>1, <2>1, <2>2, StepByStep
  <2>4. ASSUME NEW j \in 1 .. n + 1 PROVE at[j] \in Int
    <3>1. n + 1 - j \in 0 .. n /\ n + 1 - (n + 1 - j) = j
      BY <1>1
    <3> QED BY <2>3, <3>1
  <2> QED BY <2>4
<1>9. \A i, j \in 1 .. n + 1 : i <= j => at[i] <= at[j]
  <2> DEFINE G == {m \in 0 .. n : \A i \in 1 .. m + 1 : at[i] <= at[m + 1]}
  <2> HIDE DEF at, size, n
  <2>1. 0 \in G
    <3>1. \A i \in 1 .. 0 + 1 : i = 1
      OBVIOUS
    <3>2. at[1] \in Int
      BY <1>1, <1>8
    <3> QED BY <1>1, <3>1, <3>2
  <2>2. ASSUME NEW m \in 1 .. n, m - 1 \in G PROVE m \in G
    <3>1. m \in 0 .. n /\ m \in 1 .. n + 1 /\ m + 1 \in 1 .. n + 1 /\ (m - 1) + 1 = m
      BY <1>1
    <3>2. at[m] <= at[m + 1] /\ at[m] \in Int /\ at[m + 1] \in Int
      <4>1. at[m] \in Int /\ at[m + 1] \in Int /\ size(m) \in Nat /\ at[m] = at[m + 1] - size(m)
        BY <1>1, <1>7, <1>8, <3>1
      <4> QED BY <4>1
    <3>3. ASSUME NEW i \in 1 .. m + 1 PROVE at[i] <= at[m + 1]
      <4>1. CASE i = m + 1
        BY <3>2, <4>1
      <4>2. CASE i # m + 1
        <5>1. i \in 1 .. m /\ i \in 1 .. n + 1
          BY <1>1, <3>1, <4>2
        <5>2. at[i] <= at[m] /\ at[i] \in Int
          BY <1>8, <2>2, <3>1, <5>1
        <5> QED BY <3>2, <5>2
      <4> QED BY <4>1, <4>2
    <3> QED BY <3>1, <3>3
  <2>3. \A m \in 0 .. n : m \in G
    <3> HIDE DEF G
    <3> QED BY <1>1, <2>1, <2>2, StepByStep
  <2>4. ASSUME NEW i \in 1 .. n + 1, NEW j \in 1 .. n + 1, i <= j PROVE at[i] <= at[j]
    <3>1. j - 1 \in 0 .. n /\ (j - 1) + 1 = j /\ i \in 1 .. j
      BY <1>1, <2>4
    <3> QED BY <2>3, <3>1
  <2> QED BY <2>4
<1> QED BY <1>1, <1>7, <1>8, <1>9

\* Each address of the strings is in one of them.
LEMMA StringAt ==
  ASSUME NEW top \in Int, NEW argv \in Seq(Line),
         NEW a \in Int, StringsFrom(top, argv)[1] <= a, a < top
  PROVE  \E j \in 1 .. Len(argv) :
            StringsFrom(top, argv)[j] <= a /\ a < StringsFrom(top, argv)[j + 1]
<1> DEFINE n == Len(argv)
           at == StringsFrom(top, argv)
           In(m) == a < at[m + 1] => \E j \in 1 .. m : at[j] <= a /\ a < at[j + 1]
           G == {m \in 0 .. n : In(m)}
<1>1. n \in Nat /\ at[n + 1] = top /\ \A j \in 1 .. n + 1 : at[j] \in Int
  BY StringsProperties
<1> HIDE DEF n, at
<1>2. 0 \in G
  <2>1. at[1] \in Int /\ at[1] <= a
    BY <1>1 DEF at
  <2> QED BY <1>1, <2>1
<1>3. ASSUME NEW m \in 1 .. n, m - 1 \in G PROVE m \in G
  <2>1. m \in 0 .. n /\ (m - 1) + 1 = m /\ at[m] \in Int /\ at[m + 1] \in Int
    BY <1>1
  <2>2. a < at[m] => \E j \in 1 .. m - 1 : at[j] <= a /\ a < at[j + 1]
    BY <1>3, <2>1
  <2>3. In(m)
    <3>1. CASE a < at[m]
      <4>1. PICK j \in 1 .. m - 1 : at[j] <= a /\ a < at[j + 1]
        BY <2>2, <3>1
      <4>2. j \in 1 .. m
        BY <2>1
      <4> QED BY <4>1, <4>2
    <3>2. CASE ~(a < at[m])
      <4>1. at[m] <= a /\ m \in 1 .. m
        BY <2>1, <3>2
      <4> QED BY <4>1
    <3> QED BY <3>1, <3>2
  <2> QED BY <2>1, <2>3
<1>4. \A m \in 0 .. n : m \in G
  <2> HIDE DEF G
  <2> QED BY <1>1, <1>2, <1>3, StepByStep
<1>5. In(n)
  BY <1>1, <1>4
<1> QED BY <1>1, <1>5 DEF n, at

\* The words of the stack lie below the strings, aligned.
LEMMA EspProperties ==
  ASSUME NEW top \in Int, top % 4 = 0, NEW argv \in Seq(Line)
  PROVE  LET n == Len(argv)
             esp0 == FinalEsp(top, argv)
         IN  /\ esp0 \in Int /\ esp0 % 4 = 0
             /\ NullAt(top, argv) = esp0 + 12 + 4 * n
             /\ esp0 + 16 + 4 * n <= StringsFrom(top, argv)[1]
             /\ StringsFrom(top, argv)[1] <= top
<1> DEFINE n == Len(argv)
           first == StringsFrom(top, argv)[1]
           total == top - first
           padding == IF total % 4 # 0 THEN 4 - (total % 4) ELSE 0
<1>1. n \in Nat /\ first \in Int /\ first <= top
  <2> DEFINE at == StringsFrom(top, argv)
  <2>1. /\ n \in Nat /\ at[n + 1] = top /\ \A j \in 1 .. n + 1 : at[j] \in Int
        /\ \A i, j \in 1 .. n + 1 : i <= j => at[i] <= at[j]
    BY StringsProperties
  <2> HIDE DEF n, at
  <2>2. 1 \in 1 .. n + 1 /\ n + 1 \in 1 .. n + 1 /\ 1 <= n + 1
    BY <2>1
  <2> QED BY <2>1, <2>2 DEF at
<1>2. total \in Nat
  <2> HIDE DEF first
  <2> QED BY <1>1
<1>3. padding \in 0 .. 3 /\ (total + padding) % 4 = 0
  <2> HIDE DEF total
  <2> QED BY <1>2
<1>4. NullAt(top, argv) = top - total - padding - 4
  BY DEF NullAt
<1>5. FinalEsp(top, argv) = NullAt(top, argv) - 4 * n - 12
  BY DEF FinalEsp
<1>6. PICK k \in Int : total + padding = 4 * k
  <2> HIDE DEF total, padding
  <2> QED BY <1>2, <1>3
<1>7. PICK m \in Int : top = 4 * m
  BY top % 4 = 0
<1>8. FinalEsp(top, argv) = 4 * (m - k - n - 4)
  <2> HIDE DEF total, padding, n
  <2> QED BY <1>1, <1>2, <1>3, <1>4, <1>5, <1>6, <1>7
<1>9. FinalEsp(top, argv) \in Int /\ FinalEsp(top, argv) % 4 = 0
  <2> HIDE DEF n
  <2> QED BY <1>1, <1>8
<1>10. first = top - total
  <2> HIDE DEF first
  <2> QED BY <1>1
<1> HIDE DEF total, padding, n, first
<1>11. /\ NullAt(top, argv) = FinalEsp(top, argv) + 12 + 4 * n
       /\ FinalEsp(top, argv) + 16 + 4 * n <= first
  BY <1>1, <1>2, <1>3, <1>4, <1>5, <1>10
<1> QED BY <1>1, <1>9, <1>11 DEF n, first

\* What parsing_filename writes: the words, the strings and nothing else.
LEMMA StackDomain ==
  ASSUME NEW top \in Int, NEW argv \in Seq(Line)
  PROVE  LET esp0 == FinalEsp(top, argv)
         IN  DOMAIN Stack(top, argv) = {esp0 + 4 * k : k \in 0 .. Len(argv) + 3}
                                         \union (StringsFrom(top, argv)[1] .. top - 1)
BY DEF Stack

\* It lies between the new *esp and the top.
LEMMA StackRange ==
  ASSUME NEW top \in Int, top % 4 = 0, NEW argv \in Seq(Line), NEW a \in DOMAIN Stack(top, argv)
  PROVE  a \in FinalEsp(top, argv) .. top - 1
<1> DEFINE n == Len(argv)
           e == FinalEsp(top, argv)
           first == StringsFrom(top, argv)[1]
<1>1. e \in Int /\ e + 16 + 4 * n <= first /\ first <= top /\ n \in Nat /\ first \in Int
  <2>1. /\ n \in Nat
        /\ \A j \in 1 .. n + 1 : StringsFrom(top, argv)[j] \in Int
    BY StringsProperties
  <2>2. 1 \in 1 .. n + 1
    <3> HIDE DEF n
    <3> QED BY <2>1
  <2> QED BY <2>1, <2>2, EspProperties
<1>2. a \in {e + 4 * k : k \in 0 .. n + 3} \/ a \in first .. top - 1
  BY StackDomain
<1> HIDE DEF e, first, n
<1>3. CASE a \in {e + 4 * k : k \in 0 .. n + 3}
  <2>1. PICK k \in 0 .. n + 3 : a = e + 4 * k
    BY <1>3
  <2>2. e + 4 * k \in Int /\ e <= e + 4 * k /\ e + 4 * k <= e + 12 + 4 * n
    BY <1>1
  <2>3. a \in Int /\ e <= a /\ a <= e + 12 + 4 * n
    BY <2>1, <2>2
  <2> QED BY <1>1, <2>3 DEF e
<1>4. CASE a \in first .. top - 1
  BY <1>1, <1>4 DEF e
<1> QED BY <1>2, <1>3, <1>4

\* Its words: the return address, argc, argv and the pointers, the last of them NULL.
LEMMA StackWords ==
  ASSUME NEW top \in Int, top % 4 = 0, NEW argv \in Seq(Line)
  PROVE  LET n == Len(argv)
             e == FinalEsp(top, argv)
             at == StringsFrom(top, argv)
             stack == Stack(top, argv)
         IN  /\ e \in DOMAIN stack /\ stack[e] = 0
             /\ e + 4 \in DOMAIN stack /\ stack[e + 4] = n
             /\ e + 8 \in DOMAIN stack /\ stack[e + 8] = e + 12
             /\ e + 12 + 4 * n \in DOMAIN stack /\ stack[e + 12 + 4 * n] = 0
             /\ \A j \in 1 .. n : /\ e + 12 + 4 * (j - 1) \in DOMAIN stack
                                  /\ stack[e + 12 + 4 * (j - 1)] = at[j]
<1> DEFINE n == Len(argv)
           e == FinalEsp(top, argv)
           at == StringsFrom(top, argv)
           stack == Stack(top, argv)
           null == NullAt(top, argv)
           word(a) == CASE a = e -> 0 [] a = e + 4 -> n [] a = e + 8 -> e + 12
                        [] a = null -> 0
                        [] OTHER -> at[(a - e - 8) \div 4]
           aligned == {e + 4 * k : k \in 0 .. n + 3}
<1>1. n \in Nat /\ e \in Int /\ null = e + 12 + 4 * n /\ e + 16 + 4 * n <= at[1] /\ at[1] \in Int
  <2>1. n \in Nat /\ \A j \in 1 .. n + 1 : at[j] \in Int
    BY StringsProperties
  <2>2. 1 \in 1 .. n + 1
    <3> HIDE DEF n
    <3> QED BY <2>1
  <2> QED BY <2>1, <2>2, EspProperties
<1>2. ASSUME NEW k \in 0 .. n + 3
      PROVE  e + 4 * k \in DOMAIN stack /\ stack[e + 4 * k] = word(e + 4 * k)
  <2>1. PICK a : a = e + 4 * k
    OBVIOUS
  <2>2. a \in aligned
    BY <2>1
  <2>3. ~(a >= at[1])
    <3> HIDE DEF n, e, at
    <3> QED BY <1>1, <2>1
  <2>4. a \in DOMAIN stack
    BY <2>2, StackDomain
  <2>5. stack[a] = word(a)
    BY <2>2, <2>3 DEF Stack
  <2> HIDE DEF word, stack
  <2> QED BY <2>1, <2>4, <2>5
<1> HIDE DEF n, e, at, stack, null
<1>3. /\ 0 \in 0 .. n + 3 /\ 1 \in 0 .. n + 3 /\ 2 \in 0 .. n + 3 /\ n + 3 \in 0 .. n + 3
      /\ e + 4 * 0 = e /\ e + 4 * 1 = e + 4 /\ e + 4 * 2 = e + 8 /\ e + 4 * (n + 3) = e + 12 + 4 * n
  BY <1>1
<1>4. /\ e # e + 4 /\ e # e + 8 /\ e + 4 # e + 8 /\ null # e /\ null # e + 4 /\ null # e + 8
  BY <1>1
<1>5. word(e) = 0 /\ word(e + 4) = n /\ word(e + 8) = e + 12 /\ word(null) = 0
  BY <1>4
<1>6. ASSUME NEW j \in 1 .. n
      PROVE  /\ e + 12 + 4 * (j - 1) \in DOMAIN stack
             /\ stack[e + 12 + 4 * (j - 1)] = at[j]
  <2>1. j + 2 \in 0 .. n + 3 /\ e + 4 * (j + 2) = e + 12 + 4 * (j - 1)
    BY <1>1
  <2>2. PICK a : a = e + 12 + 4 * (j - 1)
    OBVIOUS
  <2>3. a # e /\ a # e + 4 /\ a # e + 8 /\ a # null /\ (a - e - 8) \div 4 = j
    BY <1>1, <2>2
  <2>4. word(a) = at[j]
    BY <2>3
  <2> HIDE DEF word
  <2>5. a \in DOMAIN stack /\ stack[a] = word(a)
    BY <1>2, <2>1, <2>2
  <2> QED BY <2>2, <2>4, <2>5
<1>7. /\ e \in DOMAIN stack /\ stack[e] = word(e)
      /\ e + 4 \in DOMAIN stack /\ stack[e + 4] = word(e + 4)
      /\ e + 8 \in DOMAIN stack /\ stack[e + 8] = word(e + 8)
      /\ null \in DOMAIN stack /\ stack[null] = word(null)
  <2> HIDE DEF word
  <2> QED BY <1>1, <1>2, <1>3
<1> QED BY <1>1, <1>5, <1>6, <1>7 DEF n, e, at, stack, null

\* Its strings: the characters of each argument and a terminator.
LEMMA StackStrings ==
  ASSUME NEW top \in Int, NEW argv \in Seq(Line), NEW j \in 1 .. Len(argv),
         NEW k \in 0 .. Len(argv[j])
  PROVE  LET a == StringsFrom(top, argv)[j] + k
         IN  /\ a \in StringsFrom(top, argv)[1] .. top - 1
             /\ a \in DOMAIN Stack(top, argv)
             /\ Stack(top, argv)[a] = IF k < Len(argv[j]) THEN argv[j][k + 1] ELSE 0
<1> DEFINE n == Len(argv)
           at == StringsFrom(top, argv)
           In(a, m) == at[m] <= a /\ a < at[m + 1]
           char(a) == LET m == CHOOSE m \in 1 .. n : at[m] <= a /\ a < at[m + 1]
                      IN  IF a - at[m] < Len(argv[m]) THEN argv[m][a - at[m] + 1] ELSE 0
<1>1. /\ n \in Nat /\ \A m \in 1 .. n : argv[m] \in Line /\ Len(argv[m]) \in Nat
      /\ \A m \in 1 .. n + 1 : at[m] \in Int
      /\ at[n + 1] = top
      /\ \A m \in 1 .. n : at[m] = at[m + 1] - (Len(argv[m]) + 1)
      /\ \A i, m \in 1 .. n + 1 : i <= m => at[i] <= at[m]
  BY StringsProperties
<1>2. PICK a, size : a = at[j] + k /\ size = Len(argv[j])
  OBVIOUS
<1>3. j \in 1 .. n /\ k \in 0 .. size /\ size \in Nat
  BY <1>1, <1>2
<1>4. a \in Int /\ In(a, j) /\ at[1] <= a /\ a < top
  <2> HIDE DEF n, at
  <2>1. j \in 1 .. n + 1 /\ j + 1 \in 1 .. n + 1 /\ 1 \in 1 .. n + 1 /\ n + 1 \in 1 .. n + 1
        /\ 1 <= j /\ j + 1 <= n + 1
    BY <1>1, <1>3
  <2>2. /\ at[j] \in Int /\ at[j + 1] \in Int /\ at[1] <= at[j] /\ at[j + 1] <= top /\ at[1] \in Int
        /\ at[j] = at[j + 1] - (size + 1)
    BY <1>1, <1>2, <1>3, <2>1
  <2>3. a \in Int /\ at[j] <= a /\ a < at[j + 1]
    <3>1. PICK low, high : low = at[j] /\ high = at[j + 1]
      OBVIOUS
    <3>2. low \in Int /\ high \in Int /\ low = high - (size + 1) /\ a = low + k
      BY <1>2, <2>2, <3>1
    <3>3. a \in Int /\ low <= a /\ a < high
      BY <1>3, <3>2
    <3> QED BY <3>1, <3>3
  <2> QED BY <2>2, <2>3
<1>5. ASSUME NEW m \in 1 .. n, In(a, m) PROVE m = j
  <2> HIDE DEF n, at
  <2>1. /\ j \in 1 .. n + 1 /\ j + 1 \in 1 .. n + 1 /\ m \in 1 .. n + 1 /\ m + 1 \in 1 .. n + 1
    BY <1>1, <1>3
  <2>2. /\ at[j] \in Int /\ at[j + 1] \in Int /\ at[m] \in Int /\ at[m + 1] \in Int
        /\ (j + 1 <= m => at[j + 1] <= at[m]) /\ (m + 1 <= j => at[m + 1] <= at[j])
    BY <1>1, <2>1
  <2>3. ~(j + 1 <= m) /\ ~(m + 1 <= j)
    BY <1>4, <1>5, <2>2
  <2> QED BY <2>1, <2>3, <1>1
<1>6. (CHOOSE m \in 1 .. n : at[m] <= a /\ a < at[m + 1]) = j
  BY <1>3, <1>4, <1>5
<1>7. char(a) = IF k < Len(argv[j]) THEN argv[j][k + 1] ELSE 0
  <2>1. a - at[j] = k
    <3>1. at[j] \in Int /\ k \in Int
      <4> HIDE DEF n, at
      <4>1. j \in 1 .. n + 1
        BY <1>1, <1>3
      <4> QED BY <1>1, <1>3, <4>1
    <3> HIDE DEF n, at
    <3> QED BY <1>2, <3>1
  <2>2. PICK m : m = CHOOSE x \in 1 .. n : at[x] <= a /\ a < at[x + 1]
    OBVIOUS
  <2>3. char(a) = IF a - at[m] < Len(argv[m]) THEN argv[m][a - at[m] + 1] ELSE 0
    BY <2>2
  <2>4. m = j
    BY <1>6, <2>2
  <2> HIDE DEF n, at, char
  <2> QED BY <2>1, <2>3, <2>4
<1>8. at[1] \in Int /\ a \in at[1] .. top - 1
  <2>1. 1 \in 1 .. n + 1
    <3> HIDE DEF n
    <3> QED BY <1>1
  <2> HIDE DEF at, n
  <2> QED BY <1>1, <1>4, <2>1
<1>9. a \in DOMAIN Stack(top, argv)
  BY <1>8, StackDomain
<1>10. a >= at[1]
  <2> HIDE DEF at
  <2> QED BY <1>4, <1>8
<1>11. Stack(top, argv)[a] = char(a)
  <2> HIDE DEF char
  <2> QED BY <1>9, <1>10 DEF Stack, char
<1> QED BY <1>2, <1>7, <1>8, <1>9, <1>11

\* Its values are numbers, when its addresses are.
LEMMA StackValues ==
  ASSUME NEW top \in Int, top % 4 = 0, NEW argv \in Seq(Line), FinalEsp(top, argv) >= 0,
         NEW a \in DOMAIN Stack(top, argv)
  PROVE  Stack(top, argv)[a] \in Nat
<1> DEFINE n == Len(argv)
           e == FinalEsp(top, argv)
           at == StringsFrom(top, argv)
           stack == Stack(top, argv)
<1>1. /\ n \in Nat /\ \A m \in 1 .. n : argv[m] \in Line /\ Len(argv[m]) \in Nat
      /\ \A m \in 1 .. n + 1 : at[m] \in Int
      /\ \A m \in 1 .. n : at[m] = at[m + 1] - (Len(argv[m]) + 1)
      /\ \A i, m \in 1 .. n + 1 : i <= m => at[i] <= at[m]
  BY StringsProperties
<1>2. e \in Int /\ e >= 0 /\ e + 16 + 4 * n <= at[1]
  BY EspProperties
<1>3. \A m \in 1 .. n + 1 : at[m] \in Nat
  <2> HIDE DEF n, e, at
  <2>1. ASSUME NEW m \in 1 .. n + 1 PROVE at[m] \in Nat
    <3>1. 1 \in 1 .. n + 1 /\ 1 <= m
      BY <1>1
    <3>2. at[1] \in Int /\ at[m] \in Int /\ at[1] <= at[m]
      BY <1>1, <3>1
    <3> QED BY <1>1, <1>2, <3>2
  <2> QED BY <2>1
<1>4. a \in {e + 4 * k : k \in 0 .. n + 3} \/ a \in at[1] .. top - 1
  BY StackDomain
<1>5. CASE a \in {e + 4 * k : k \in 0 .. n + 3}
  <2>1. PICK k \in 0 .. n + 3 : a = e + 4 * k
    BY <1>5
  <2>2. /\ stack[e] = 0 /\ stack[e + 4] = n /\ stack[e + 8] = e + 12 /\ stack[e + 12 + 4 * n] = 0
        /\ \A j \in 1 .. n : stack[e + 12 + 4 * (j - 1)] = at[j]
    BY StackWords
  <2> HIDE DEF n, e, at, stack
  <2>3. \/ e + 4 * k = e \/ e + 4 * k = e + 4 \/ e + 4 * k = e + 8 \/ e + 4 * k = e + 12 + 4 * n
        \/ k - 2 \in 1 .. n /\ e + 4 * k = e + 12 + 4 * ((k - 2) - 1)
    <3>1. k = 0 \/ k = 1 \/ k = 2 \/ k = n + 3 \/ k - 2 \in 1 .. n
      BY <1>1
    <3> QED BY <1>1, <1>2, <3>1
  <2>4. CASE k - 2 \in 1 .. n /\ e + 4 * k = e + 12 + 4 * ((k - 2) - 1)
    <3>1. stack[a] = at[k - 2]
      BY <2>1, <2>2, <2>4
    <3>2. k - 2 \in 1 .. n + 1
      BY <1>1, <2>4
    <3> QED BY <1>3, <3>1, <3>2 DEF stack
  <2>5. CASE e + 4 * k = e \/ e + 4 * k = e + 4 \/ e + 4 * k = e + 8 \/ e + 4 * k = e + 12 + 4 * n
    <3>1. stack[a] = 0 \/ stack[a] = n \/ stack[a] = e + 12
      BY <2>1, <2>2, <2>5
    <3>2. e + 12 \in Nat
      BY <1>2
    <3> QED BY <1>1, <3>1, <3>2 DEF stack
  <2> QED BY <2>3, <2>4, <2>5
<1>6. CASE a \in at[1] .. top - 1
  <2>1. at[1] \in Int
    <3>1. 1 \in 1 .. n + 1
      <4> HIDE DEF n
      <4> QED BY <1>1
    <3> QED BY <1>1, <3>1
  <2>2. a \in Int /\ at[1] <= a /\ a < top
    <3> HIDE DEF at
    <3> QED BY <1>6, <2>1
  <2>3. PICK j \in 1 .. n : at[j] <= a /\ a < at[j + 1]
    BY <2>2, StringAt
  <2> DEFINE k == a - at[j]
  <2> HIDE DEF at, n, stack
  <2>4. j \in 1 .. n + 1 /\ j + 1 \in 1 .. n + 1
    BY <1>1
  <2>5. k \in 0 .. Len(argv[j]) /\ a = at[j] + k /\ Len(argv[j]) \in Nat
    <3>1. at[j] \in Int /\ at[j + 1] \in Int /\ at[j] = at[j + 1] - (Len(argv[j]) + 1)
          /\ Len(argv[j]) \in Nat
      BY <1>1, <2>4
    <3>2. PICK size, low, high : size = Len(argv[j]) /\ low = at[j] /\ high = at[j + 1]
      OBVIOUS
    <3>3. /\ low \in Int /\ high \in Int /\ size \in Nat /\ low = high - (size + 1)
          /\ low <= a /\ a < high /\ a \in Int
      BY <2>2, <2>3, <3>1, <3>2
    <3>4. a - low \in 0 .. size /\ a = low + (a - low)
      BY <3>3
    <3> QED BY <3>1, <3>2, <3>4
  <2> HIDE DEF k
  <2>6. stack[a] = IF k < Len(argv[j]) THEN argv[j][k + 1] ELSE 0
    BY <2>5, StackStrings DEF at, n, stack
  <2>7. k < Len(argv[j]) => argv[j][k + 1] \in Nat
    <3> SUFFICES ASSUME k < Len(argv[j]) PROVE argv[j][k + 1] \in Nat
      OBVIOUS
    <3>1. k + 1 \in 1 .. Len(argv[j]) /\ argv[j] \in Seq(Nat)
      BY <1>1, <2>5 DEF Line
    <3> QED BY <3>1, ElementOfSeq
  <2> QED BY <2>6, <2>7 DEF stack
<1> QED BY <1>4, <1>5, <1>6

--------------------------------------------------------------------------------
(* The inductive invariant.                                                *)

\* The pages of the pool and of the page directory.
MemoryInv ==
  /\ pool \subseteq Page
  /\ pagedir = [u \in DOMAIN pagedir |->
                  [kpage |-> pagedir[u].kpage, bytes |-> pagedir[u].bytes,
                   writable |-> pagedir[u].writable]]
  /\ PagesAccounted

\* How many pages a segment takes; how many bytes load_segment has still to read after done
\* of them; and where it begins to read.
PagesIn(h) == ((h.p_vaddr % PGSIZE) + h.p_memsz + PGSIZE - 1) \div PGSIZE
BytesLeft(h, done) ==
  LET left == (h.p_vaddr % PGSIZE) + h.p_filesz - PGSIZE * done
  IN  IF h.p_filesz > 0 /\ left > 0 THEN left ELSE 0
FirstPos(h) == h.p_offset - (h.p_vaddr % PGSIZE)

\* The loop of load_segment after done pages.
LoopAt(h, done) ==
  /\ h \in Header /\ Valid(h) /\ ~OnPage0(h)
  /\ done \in 0 .. PagesIn(h)
  /\ upage = PageOf(h.p_vaddr) + done
  /\ read_bytes = BytesLeft(h, done)
  /\ zero_bytes = PGSIZE * (PagesIn(h) - done) - read_bytes
  /\ read_bytes > 0 => pos = FirstPos(h) + PGSIZE * done

LoopInv == pc = "segment" => \E done \in Nat : LoopAt(segment, done)

\* Byte i of the segment of h is in memory.
Exact(h, i) ==
  /\ PageOf(h.p_vaddr + i) \in DOMAIN pagedir
  /\ Byte(h.p_vaddr + i) = IF i < h.p_filesz THEN h.p_offset + i + 1 ELSE 0
  /\ pagedir[PageOf(h.p_vaddr + i)].writable = h.writable

ImageInv ==
  /\ segments \in Seq(Header)
  /\ pc \in {"load", "headers", "segment", "loaded"} =>
       \A n \in 1 .. Len(segments) : \A i \in 0 .. segments[n].p_memsz - 1 : Exact(segments[n], i)
  /\ pc = "segment" =>
       \A i \in 0 .. segment.p_memsz - 1 :
         PageOf(segment.p_vaddr + i) < upage => Exact(segment, i)

StartInv == MemoryInv /\ UserSpaceOnly /\ LoopInv /\ ImageInv

\* What a header's numbers are.
LEMMA HeaderType ==
  ASSUME NEW h \in Header
  PROVE  /\ h.p_offset \in Nat /\ h.p_vaddr \in 0 .. AddressSpace - 1 /\ h.p_filesz \in Nat
         /\ h.p_memsz \in 0 .. AddressSpace - 1 /\ h.writable \in BOOLEAN
BY StartAssumption

LEMMA PageType ==
  /\ PGSIZE \in Nat \ {0} /\ AddressSpace \in Nat
  /\ PHYS_BASE \in Nat /\ StackPage \in Nat /\ PHYS_BASE = PGSIZE * (StackPage + 1)
  /\ StackPage >= 1
<1>1. /\ PGSIZE \in Nat \ {0} /\ AddressSpace \in Nat /\ PHYS_BASE % PGSIZE = 0
      /\ PHYS_BASE \in Int /\ PHYS_BASE >= 2 * PGSIZE
  BY StartAssumption
<1>2. PHYS_BASE \div PGSIZE \in Int /\ PHYS_BASE = PGSIZE * (PHYS_BASE \div PGSIZE)
  BY <1>1, DivMod
<1>3. PHYS_BASE \div PGSIZE >= 2
  <2>1. PGSIZE * 1 < PGSIZE * (PHYS_BASE \div PGSIZE)
    BY <1>1, <1>2
  <2> QED BY <1>1, <1>2, <2>1, FactorOrder
<1> QED BY <1>1, <1>2, <1>3 DEF StackPage, PageOf

\* The page and the offset of a header's address.
LEMMA HeaderPage ==
  ASSUME NEW h \in Header
  PROVE  /\ h.p_vaddr % PGSIZE \in 0 .. PGSIZE - 1 /\ h.p_vaddr % PGSIZE \in Nat
         /\ PageOf(h.p_vaddr) \in Int
         /\ h.p_vaddr = PGSIZE * PageOf(h.p_vaddr) + (h.p_vaddr % PGSIZE)
<1>1. h.p_vaddr \in Int /\ PGSIZE \in Nat \ {0}
  BY HeaderType, PageType
<1>2. /\ h.p_vaddr \div PGSIZE \in Int /\ h.p_vaddr % PGSIZE \in 0 .. PGSIZE - 1
      /\ h.p_vaddr = PGSIZE * (h.p_vaddr \div PGSIZE) + (h.p_vaddr % PGSIZE)
  BY <1>1, DivMod
<1> QED BY <1>1, <1>2 DEF PageOf

\* A valid segment ends below PHYS_BASE, and so do its pages.
LEMMA SegmentPages ==
  ASSUME NEW h \in Header, Valid(h), ~OnPage0(h)
  PROVE  /\ PagesIn(h) \in Nat /\ PageOf(h.p_vaddr) \in Nat
         /\ PageOf(h.p_vaddr) >= 1 /\ PageOf(h.p_vaddr) + PagesIn(h) <= StackPage + 1
         /\ PGSIZE * PagesIn(h) >= (h.p_vaddr % PGSIZE) + h.p_memsz
         /\ RoundUp((h.p_vaddr % PGSIZE) + h.p_memsz) = PGSIZE * PagesIn(h)
<1> DEFINE off == h.p_vaddr % PGSIZE
           sum == off + h.p_memsz + PGSIZE - 1
           first == PageOf(h.p_vaddr)
<1>1. /\ h.p_vaddr \in Nat /\ h.p_memsz \in Nat /\ h.p_vaddr >= PGSIZE
      /\ off \in 0 .. PGSIZE - 1 /\ first \in Int /\ h.p_vaddr = PGSIZE * first + off
  <2>1. h.p_vaddr \in Nat /\ h.p_memsz \in Nat
    BY HeaderType, PageType
  <2>2. h.p_vaddr >= PGSIZE
    BY <2>1, PageType DEF OnPage0
  <2> QED BY <2>1, <2>2, HeaderPage
<1>2. h.p_vaddr + h.p_memsz < PHYS_BASE
  <2>1. h.p_vaddr \in 0 .. AddressSpace - 1 /\ h.p_memsz \in 0 .. AddressSpace - 1
    BY HeaderType
  <2>2. /\ (h.p_vaddr + h.p_memsz) % AddressSpace >= h.p_vaddr
        /\ (h.p_vaddr + h.p_memsz) % AddressSpace < PHYS_BASE
    BY DEF Valid, IsUser
  <2> QED BY <2>1, <2>2, PageType, SumNotWrapped
<1>3. /\ sum \in Nat /\ PagesIn(h) \in Int
      /\ PGSIZE * PagesIn(h) <= sum /\ sum < PGSIZE * PagesIn(h) + PGSIZE
  <2>1. sum \in Nat
    BY <1>1, PageType
  <2>3. PagesIn(h) = sum \div PGSIZE
    BY DEF PagesIn
  <2> HIDE DEF sum
  <2>2. sum \div PGSIZE \in Int /\ sum = PGSIZE * (sum \div PGSIZE) + (sum % PGSIZE)
        /\ sum % PGSIZE \in 0 .. PGSIZE - 1
    <3>1. sum \in Int
      BY <2>1
    <3> QED BY <3>1, PageType, DivMod
  <2> QED BY <2>1, <2>2, <2>3, PageType
<1>4. PagesIn(h) >= 0
  <2>1. PGSIZE * (-1) < PGSIZE * PagesIn(h)
    BY <1>3, PageType
  <2> QED BY <1>3, <2>1, PageType, FactorOrder
<1>5. first >= 1
  <2>1. PGSIZE * 0 < PGSIZE * first
    BY <1>1, PageType
  <2> QED BY <1>1, <2>1, PageType, FactorOrder
<1>6. first + PagesIn(h) <= StackPage + 1
  <2> HIDE DEF first, off
  <2>1. PGSIZE * (first + PagesIn(h)) = PGSIZE * first + PGSIZE * PagesIn(h)
    BY <1>1, <1>3, PageType
  <2>2. PGSIZE * (StackPage + 2) = PHYS_BASE + PGSIZE
    BY PageType
  <2>3. PGSIZE * first + PGSIZE * PagesIn(h) < PHYS_BASE + PGSIZE
    <3>1. PGSIZE * PagesIn(h) <= off + h.p_memsz + PGSIZE - 1
      BY <1>3 DEF sum
    <3>2. PGSIZE * first \in Int /\ PGSIZE * PagesIn(h) \in Int
      BY <1>1, <1>3, PageType
    <3> QED BY <1>1, <1>2, <3>1, <3>2, PageType
  <2>4. PGSIZE * (first + PagesIn(h)) < PGSIZE * (StackPage + 2)
    BY <2>1, <2>2, <2>3
  <2>5. first + PagesIn(h) < StackPage + 2
    BY <1>1, <1>3, <2>4, PageType, FactorOrder
  <2> QED BY <1>1, <1>3, <2>5, PageType
<1>7. PGSIZE * PagesIn(h) >= off + h.p_memsz
  BY <1>1, <1>3, PageType
<1>8. RoundUp(off + h.p_memsz) = PGSIZE * PagesIn(h)
  BY <1>3, PageType DEF RoundUp, PagesIn
<1> QED BY <1>1, <1>3, <1>4, <1>5, <1>6, <1>7, <1>8

--------------------------------------------------------------------------------
(* The pages of the pool.                                                  *)

LEMMA FirstFreeType ==
  ASSUME MemoryInv, pool # {}
  PROVE  FirstFree \in pool
<1>1. pool \in SUBSET Nat
  BY StartAssumption DEF MemoryInv, Page
<1>2. \E k \in pool : \A j \in pool : k <= j
  BY <1>1, LeastPage
<1> QED BY <1>2 DEF FirstFree

\* palloc_get_page and install_page keep the account of pages, and what is mapped.
LEMMA MapProperties ==
  ASSUME MemoryInv, pool # {}, NEW u, u \notin DOMAIN pagedir, NEW bytes, NEW w \in BOOLEAN,
         Map(u, bytes, w)
  PROVE  /\ MemoryInv'
         /\ DOMAIN pagedir' = DOMAIN pagedir \union {u}
         /\ pagedir'[u].bytes = bytes /\ pagedir'[u].writable = w
         /\ \A v \in DOMAIN pagedir : pagedir'[v] = pagedir[v]
<1> DEFINE new == [kpage |-> FirstFree, bytes |-> bytes, writable |-> w]
<1>1. FirstFree \in pool /\ pool \subseteq Page /\ pool' = pool \ {FirstFree}
  BY FirstFreeType DEF MemoryInv, Map
<1>2. pagedir' = [v \in DOMAIN pagedir \union {u} |-> IF v = u THEN new ELSE pagedir[v]]
  BY DEF Map
<1>3. /\ DOMAIN pagedir' = DOMAIN pagedir \union {u} /\ pagedir'[u] = new
      /\ \A v \in DOMAIN pagedir : pagedir'[v] = pagedir[v]
  BY <1>2
<1>4. PagesAccounted'
  <2>1. /\ pool \intersect {pagedir[v].kpage : v \in DOMAIN pagedir} = {}
        /\ pool \union {pagedir[v].kpage : v \in DOMAIN pagedir} = Page
        /\ \A v, x \in DOMAIN pagedir : pagedir[v].kpage = pagedir[x].kpage => v = x
    BY DEF MemoryInv, PagesAccounted
  <2>2. {pagedir'[v].kpage : v \in DOMAIN pagedir'}
          = {pagedir[v].kpage : v \in DOMAIN pagedir} \union {FirstFree}
    BY <1>3
  <2>3. ASSUME NEW v \in DOMAIN pagedir', NEW x \in DOMAIN pagedir',
               pagedir'[v].kpage = pagedir'[x].kpage
        PROVE  v = x
    <3>1. ASSUME NEW y \in DOMAIN pagedir PROVE pagedir'[y].kpage # FirstFree
      BY <1>1, <1>3, <2>1
    <3>2. pagedir'[u].kpage = FirstFree
      BY <1>3
    <3>3. \A y \in DOMAIN pagedir : pagedir'[y].kpage = pagedir[y].kpage
      BY <1>3
    <3>4. (v = u \/ v \in DOMAIN pagedir) /\ (x = u \/ x \in DOMAIN pagedir)
      BY <1>3
    <3>5. CASE v = u
      BY <2>3, <3>1, <3>2, <3>4, <3>5
    <3>6. CASE v # u
      <4>1. v \in DOMAIN pagedir /\ x \in DOMAIN pagedir
        BY <2>3, <3>1, <3>2, <3>4, <3>6
      <4> QED BY <2>1, <2>3, <3>3, <4>1
    <3> QED BY <3>5, <3>6
  <2> DEFINE mapped == {pagedir[v].kpage : v \in DOMAIN pagedir}
             mappedNow == {pagedir'[v].kpage : v \in DOMAIN pagedir'}
  <2>4. pool' \intersect mappedNow = {} /\ pool' \union mappedNow = Page
    <3>1. pool \intersect mapped = {} /\ pool \union mapped = Page
      BY <2>1
    <3>2. mappedNow = mapped \union {FirstFree}
      BY <2>2
    <3> HIDE DEF mapped, mappedNow
    <3> QED BY <1>1, <3>1, <3>2
  <2> QED BY <2>3, <2>4 DEF PagesAccounted
<1>5. pagedir' = [v \in DOMAIN pagedir' |->
                    [kpage |-> pagedir'[v].kpage, bytes |-> pagedir'[v].bytes,
                     writable |-> pagedir'[v].writable]]
  <2>1. \A v \in DOMAIN pagedir :
          pagedir[v] = [kpage |-> pagedir[v].kpage, bytes |-> pagedir[v].bytes,
                        writable |-> pagedir[v].writable]
    BY DEF MemoryInv
  <2>2. \A v \in DOMAIN pagedir' :
          pagedir'[v] = [kpage |-> pagedir'[v].kpage, bytes |-> pagedir'[v].bytes,
                         writable |-> pagedir'[v].writable]
    BY <1>3, <2>1
  <2>3. pagedir' = [v \in DOMAIN pagedir' |-> pagedir'[v]]
    BY <1>2
  <2> QED BY <2>2, <2>3
<1>6. MemoryInv'
  BY <1>1, <1>4, <1>5 DEF MemoryInv
<1> QED BY <1>3, <1>6

\* Within the loop of load_segment there is a page to do, and it is the user's.
LEMMA PageToDo ==
  ASSUME InLoop, NEW done \in Nat, LoopAt(segment, done)
  PROVE  /\ done + 1 \in 0 .. PagesIn(segment)
         /\ upage \in 1 .. StackPage
         /\ read_bytes \in Nat
<1>1. /\ segment \in Header /\ Valid(segment) /\ ~OnPage0(segment)
      /\ done \in 0 .. PagesIn(segment) /\ upage = PageOf(segment.p_vaddr) + done
      /\ read_bytes = BytesLeft(segment, done)
      /\ zero_bytes = PGSIZE * (PagesIn(segment) - done) - read_bytes
  BY DEF LoopAt
<1>2. /\ PagesIn(segment) \in Nat /\ PageOf(segment.p_vaddr) \in Nat
      /\ PageOf(segment.p_vaddr) >= 1 /\ PageOf(segment.p_vaddr) + PagesIn(segment) <= StackPage + 1
  BY <1>1, SegmentPages
<1>3. BytesLeft(segment, done) \in Nat
  <2>1. segment.p_vaddr \in Int /\ segment.p_filesz \in Nat
    BY <1>1, HeaderType, PageType
  <2>2. segment.p_vaddr % PGSIZE \in Int
    BY <1>1, HeaderPage
  <2>3. PGSIZE * done \in Int
    BY PageType
  <2> QED BY <2>1, <2>2, <2>3 DEF BytesLeft
<1>4. PGSIZE * (PagesIn(segment) - done) > 0
  <2>1. read_bytes + zero_bytes > 0
    BY DEF InLoop
  <2>2. PGSIZE * (PagesIn(segment) - done) \in Int
    BY <1>2, PageType
  <2> QED BY <1>1, <1>3, <2>1, <2>2
<1>5. PagesIn(segment) # done
  <2> SUFFICES ASSUME PagesIn(segment) = done PROVE FALSE
    OBVIOUS
  <2>1. PGSIZE * (PagesIn(segment) - done) = 0
    BY PageType
  <2> QED BY <1>4, <2>1
<1> QED BY <1>1, <1>2, <1>3, <1>5, PageType

LEMMA NextMemory == StartInv /\ [Next]_vars => MemoryInv' /\ UserSpaceOnly'
<1> SUFFICES ASSUME StartInv, [Next]_vars PROVE MemoryInv' /\ UserSpaceOnly'
  OBVIOUS
<1>1. MemoryInv /\ UserSpaceOnly /\ LoopInv
  BY DEF StartInv
<1>2. CASE UNCHANGED <<pool, pagedir>>
  BY <1>1, <1>2 DEF MemoryInv, UserSpaceOnly, PagesAccounted
<1>3. CASE LoadFails \/ ReadElfHeader \/ IgnoreHeader \/ RefuseHeader \/ LoadSegment \/ LoadPageFails
           \/ SegmentLoaded \/ UNCHANGED vars
  BY <1>2, <1>3 DEF LoadFails, ReadElfHeader, IgnoreHeader, RefuseHeader, LoadSegment,
                    LoadPageFails, SegmentLoaded, vars
<1>4. CASE LoadPage
  <2>1. PICK done \in Nat : LoopAt(segment, done)
    BY <1>1, <1>4 DEF LoadPage, InLoop, LoopInv
  <2>2. upage \in 1 .. StackPage /\ segment \in Header
    BY <1>4, <2>1, PageToDo DEF LoadPage, LoopAt
  <2>3. segment.writable \in BOOLEAN
    BY <2>2, HeaderType
  <2>4. /\ pool # {} /\ upage \notin DOMAIN pagedir
        /\ Map(upage, PageBytes, segment.writable)
    BY <1>4 DEF LoadPage
  <2>5. MemoryInv' /\ DOMAIN pagedir' = DOMAIN pagedir \union {upage}
    BY <1>1, <2>3, <2>4, MapProperties
  <2> QED BY <1>1, <2>2, <2>5 DEF UserSpaceOnly
<1>5. CASE SetupStack
  <2>1. CASE /\ pool # {} /\ StackPage \notin DOMAIN pagedir
             /\ Map(StackPage, [i \in 0 .. PGSIZE - 1 |-> 0], TRUE)
    <3>1. MemoryInv' /\ DOMAIN pagedir' = DOMAIN pagedir \union {StackPage}
      BY <1>1, <2>1, MapProperties
    <3> QED BY <1>1, <3>1, PageType DEF UserSpaceOnly
  <2> QED BY <1>2, <1>5, <2>1 DEF SetupStack
<1>6. CASE ParseArguments
  <2>1. PICK cmd \in CommandLine :
          \/ UNCHANGED pagedir
          \/ pagedir' = [u \in DOMAIN pagedir |-> [pagedir[u] EXCEPT !.bytes =
               [i \in 0 .. PGSIZE - 1 |->
                  LET a == PGSIZE * u + i
                  IN  IF a \in DOMAIN StackOf[cmd] THEN StackOf[cmd][a] ELSE pagedir[u].bytes[i]]]]
    BY <1>6 DEF ParseArguments
  <2>2. UNCHANGED pool
    BY <1>6 DEF ParseArguments
  <2> DEFINE bytes(u) == [i \in 0 .. PGSIZE - 1 |->
                            LET a == PGSIZE * u + i
                            IN  IF a \in DOMAIN StackOf[cmd] THEN StackOf[cmd][a]
                                ELSE pagedir[u].bytes[i]]
  <2>3. CASE pagedir' = [u \in DOMAIN pagedir |-> [pagedir[u] EXCEPT !.bytes = bytes(u)]]
    <3> HIDE DEF bytes
    <3>1. \A u \in DOMAIN pagedir :
            pagedir[u] = [kpage |-> pagedir[u].kpage, bytes |-> pagedir[u].bytes,
                          writable |-> pagedir[u].writable]
      BY <1>1 DEF MemoryInv
    <3>2. /\ DOMAIN pagedir' = DOMAIN pagedir
          /\ \A u \in DOMAIN pagedir :
               pagedir'[u] = [kpage |-> pagedir[u].kpage, bytes |-> bytes(u),
                              writable |-> pagedir[u].writable]
      BY <2>3, <3>1
    <3>3. \A u \in DOMAIN pagedir :
            /\ pagedir'[u].kpage = pagedir[u].kpage
            /\ pagedir'[u] = [kpage |-> pagedir'[u].kpage, bytes |-> pagedir'[u].bytes,
                              writable |-> pagedir'[u].writable]
      BY <3>2
    <3>4. PagesAccounted'
      BY <1>1, <2>2, <3>2, <3>3 DEF MemoryInv, PagesAccounted
    <3>5. pagedir' = [u \in DOMAIN pagedir' |-> pagedir'[u]]
      BY <2>3
    <3>6. pagedir' = [u \in DOMAIN pagedir' |->
                        [kpage |-> pagedir'[u].kpage, bytes |-> pagedir'[u].bytes,
                         writable |-> pagedir'[u].writable]]
      BY <3>2, <3>3, <3>5
    <3> QED BY <1>1, <2>2, <3>2, <3>4, <3>6 DEF MemoryInv, UserSpaceOnly
  <2> QED BY <1>2, <2>1, <2>2, <2>3
<1>7. CASE Exit
  <2>1. pool' = Page /\ pagedir' = NoMapping /\ DOMAIN NoMapping = {}
    BY <1>1, <1>7 DEF Exit, MemoryInv, PagesAccounted, NoMapping
  <2>2. NoMapping = [u \in DOMAIN NoMapping |->
                       [kpage |-> NoMapping[u].kpage, bytes |-> NoMapping[u].bytes,
                        writable |-> NoMapping[u].writable]]
    BY DEF NoMapping
  <2> QED BY <2>1, <2>2 DEF MemoryInv, PagesAccounted, UserSpaceOnly
<1> QED BY <1>3, <1>4, <1>5, <1>6, <1>7 DEF Next

--------------------------------------------------------------------------------
(* The loop of load_segment.                                               *)

LEMMA LoopBegins ==
  ASSUME LoadSegment
  PROVE  \E h \in Header : segment' = h /\ LoopAt(h, 0)'
<1>1. PICK h \in Header :
        /\ Valid(h) /\ ~OnPage0(h) /\ segment' = h /\ upage' = PageOf(h.p_vaddr)
        /\ pos' = h.p_offset - (h.p_offset % PGSIZE)
        /\ read_bytes' = IF h.p_filesz > 0 THEN (h.p_vaddr % PGSIZE) + h.p_filesz ELSE 0
        /\ zero_bytes' = RoundUp((h.p_vaddr % PGSIZE) + h.p_memsz) - read_bytes'
  BY DEF LoadSegment
<1>2. /\ PagesIn(h) \in Nat /\ PageOf(h.p_vaddr) \in Nat
      /\ RoundUp((h.p_vaddr % PGSIZE) + h.p_memsz) = PGSIZE * PagesIn(h)
      /\ h.p_vaddr % PGSIZE \in Nat /\ h.p_filesz \in Nat /\ PGSIZE * 0 = 0
  BY <1>1, SegmentPages, HeaderPage, HeaderType, PageType
<1>3. read_bytes' = BytesLeft(h, 0)
  BY <1>1, <1>2 DEF BytesLeft
<1>4. pos' = FirstPos(h) + PGSIZE * 0
  BY <1>1, <1>2, HeaderType DEF FirstPos, Valid
<1>5. zero_bytes' = PGSIZE * (PagesIn(h) - 0) - read_bytes'
  BY <1>1, <1>2
<1> QED BY <1>1, <1>2, <1>3, <1>4, <1>5 DEF LoopAt

LEMMA LoopGoesOn ==
  ASSUME LoadPage, NEW done \in Nat, NEW h, h = segment, LoopAt(h, done)
  PROVE  segment' = h /\ LoopAt(h, done + 1)'
<1>1. /\ h \in Header /\ Valid(h) /\ ~OnPage0(h) /\ upage = PageOf(h.p_vaddr) + done
      /\ read_bytes = BytesLeft(h, done)
      /\ zero_bytes = PGSIZE * (PagesIn(h) - done) - read_bytes
      /\ read_bytes > 0 => pos = FirstPos(h) + PGSIZE * done
  BY DEF LoopAt
<1>2. /\ segment' = h /\ upage' = upage + 1 /\ pos' = pos + page_read_bytes
      /\ read_bytes' = read_bytes - page_read_bytes
      /\ zero_bytes' = zero_bytes - (PGSIZE - page_read_bytes)
  BY DEF LoadPage
<1>3. done + 1 \in 0 .. PagesIn(h) /\ read_bytes \in Nat
  BY PageToDo DEF LoadPage
<1> DEFINE off == h.p_vaddr % PGSIZE
           before == PGSIZE * done
<1>4. /\ PGSIZE \in Nat \ {0} /\ off \in Nat /\ h.p_filesz \in Nat /\ h.p_offset \in Nat
      /\ before \in Int /\ PGSIZE * (done + 1) = before + PGSIZE
      /\ PagesIn(h) \in Nat /\ PageOf(h.p_vaddr) \in Nat
  BY <1>1, SegmentPages, HeaderPage, HeaderType, PageType
<1>5. read_bytes = IF h.p_filesz > 0 /\ off + h.p_filesz - before > 0
                   THEN off + h.p_filesz - before ELSE 0
  BY <1>1 DEF BytesLeft
<1>6. BytesLeft(h, done + 1) = IF h.p_filesz > 0 /\ off + h.p_filesz - (before + PGSIZE) > 0
                               THEN off + h.p_filesz - (before + PGSIZE) ELSE 0
  BY <1>4 DEF BytesLeft
<1>7. PGSIZE * (PagesIn(h) - (done + 1)) = PGSIZE * (PagesIn(h) - done) - PGSIZE
  BY <1>4
<1>8. PGSIZE * (PagesIn(h) - done) \in Int
  BY <1>4
<1> HIDE DEF off, before
<1>9. read_bytes' = BytesLeft(h, done + 1)
  BY <1>2, <1>3, <1>4, <1>5, <1>6 DEF page_read_bytes
<1>10. zero_bytes' = PGSIZE * (PagesIn(h) - (done + 1)) - read_bytes'
  BY <1>1, <1>2, <1>3, <1>4, <1>7, <1>8 DEF page_read_bytes
<1>11. read_bytes' > 0 => pos' = FirstPos(h) + PGSIZE * (done + 1)
  <2> SUFFICES ASSUME read_bytes' > 0 PROVE pos' = FirstPos(h) + PGSIZE * (done + 1)
    OBVIOUS
  <2>1. read_bytes > 0 /\ page_read_bytes = PGSIZE
    BY <1>2, <1>3, <1>4 DEF page_read_bytes
  <2>2. FirstPos(h) = h.p_offset - off
    BY DEF FirstPos, off
  <2> QED BY <1>1, <1>2, <1>4, <2>1, <2>2 DEF before
<1>12. upage' = PageOf(h.p_vaddr) + (done + 1)
  BY <1>1, <1>2, <1>4
<1> QED BY <1>1, <1>2, <1>3, <1>9, <1>10, <1>11, <1>12 DEF LoopAt

LEMMA NextLoop == StartInv /\ [Next]_vars => LoopInv'
<1> SUFFICES ASSUME StartInv, [Next]_vars, pc' = "segment"
             PROVE  \E done \in Nat : LoopAt(segment, done)'
  BY DEF LoopInv
<1>1. CASE LoadSegment
  <2>1. PICK h \in Header : segment' = h /\ LoopAt(h, 0)'
    BY <1>1, LoopBegins
  <2> QED BY <2>1 DEF LoopAt
<1>2. CASE LoadPage
  <2>1. PICK h : h = segment
    OBVIOUS
  <2>2. PICK done \in Nat : LoopAt(h, done)
    BY <1>2, <2>1 DEF StartInv, LoopInv, LoadPage, InLoop
  <2>3. segment' = h /\ LoopAt(h, done + 1)'
    BY <1>2, <2>1, <2>2, LoopGoesOn
  <2> QED BY <2>3 DEF LoopAt
<1>3. CASE UNCHANGED vars
  <2>1. pc = "segment" /\ UNCHANGED <<segment, upage, pos, read_bytes, zero_bytes>>
    BY <1>3 DEF vars
  <2>2. PICK done \in Nat : LoopAt(segment, done)
    BY <2>1 DEF StartInv, LoopInv
  <2> QED BY <2>1, <2>2 DEF LoopAt
<1>4. ~(LoadFails \/ ReadElfHeader \/ IgnoreHeader \/ RefuseHeader \/ LoadPageFails
        \/ SegmentLoaded \/ SetupStack \/ ParseArguments \/ Exit)
  BY DEF LoadFails, ReadElfHeader, IgnoreHeader, RefuseHeader, LoadPageFails, SegmentLoaded,
         SetupStack, ParseArguments, Exit
<1> QED BY <1>1, <1>2, <1>3, <1>4 DEF Next

--------------------------------------------------------------------------------
(* The image.                                                              *)

\* What is mapped and not touched stays exact.
LEMMA ExactKept ==
  ASSUME NEW h, NEW i, Exact(h, i),
         \A u \in DOMAIN pagedir : u \in DOMAIN pagedir' /\ pagedir'[u] = pagedir[u]
  PROVE  Exact(h, i)'
BY DEF Exact, Byte

\* The page of byte i of a segment, and its place there.
LEMMA BytePage ==
  ASSUME NEW h \in Header, NEW i \in Nat
  PROVE  /\ PageOf(h.p_vaddr + i) \in Int
         /\ (h.p_vaddr + i) % PGSIZE \in 0 .. PGSIZE - 1
         /\ h.p_vaddr + i = PGSIZE * PageOf(h.p_vaddr + i) + ((h.p_vaddr + i) % PGSIZE)
         /\ PageOf(h.p_vaddr + i) >= PageOf(h.p_vaddr)
<1>1. h.p_vaddr \in Nat /\ PGSIZE \in Nat \ {0}
  BY HeaderType, PageType
<1> DEFINE a == h.p_vaddr + i
<1>2. a \in Int /\ a >= h.p_vaddr
  BY <1>1
<1>3. /\ PageOf(a) \in Int /\ a % PGSIZE \in 0 .. PGSIZE - 1
      /\ a = PGSIZE * PageOf(a) + (a % PGSIZE)
  <2> HIDE DEF a
  <2> QED BY <1>1, <1>2, DivMod DEF PageOf
<1>4. PageOf(a) >= PageOf(h.p_vaddr)
  <2> HIDE DEF a
  <2>1. /\ PageOf(h.p_vaddr) \in Int /\ h.p_vaddr % PGSIZE \in Nat
        /\ h.p_vaddr = PGSIZE * PageOf(h.p_vaddr) + (h.p_vaddr % PGSIZE)
    BY HeaderPage
  <2>2. PGSIZE * PageOf(h.p_vaddr) < PGSIZE * (PageOf(a) + 1)
    <3>1. PGSIZE * (PageOf(a) + 1) = PGSIZE * PageOf(a) + PGSIZE
      BY <1>1, <1>3
    <3>2. PGSIZE * PageOf(a) \in Int /\ PGSIZE * PageOf(h.p_vaddr) \in Int
      BY <1>1, <1>3, <2>1
    <3> QED BY <1>1, <1>2, <1>3, <2>1, <3>1, <3>2
  <2>3. PageOf(h.p_vaddr) < PageOf(a) + 1
    BY <1>1, <1>3, <2>1, <2>2, FactorOrder
  <2> QED BY <1>3, <2>1, <2>3
<1> QED BY <1>3, <1>4

\* load_segment puts the bytes of a page where the header says.
LEMMA PageIsExact ==
  ASSUME MemoryInv, LoadPage, NEW done \in Nat, NEW h, h = segment, LoopAt(h, done),
         NEW i \in Nat, i < h.p_memsz, PageOf(h.p_vaddr + i) = upage
  PROVE  Exact(h, i)'
<1>1. h \in Header /\ upage = PageOf(h.p_vaddr) + done /\ read_bytes = BytesLeft(h, done)
  BY DEF LoopAt
<1>2. h.writable \in BOOLEAN /\ pool # {} /\ upage \notin DOMAIN pagedir
      /\ Map(upage, PageBytes, h.writable)
  BY <1>1, HeaderType DEF LoadPage
<1>3. /\ upage \in DOMAIN pagedir' /\ pagedir'[upage].bytes = PageBytes
      /\ pagedir'[upage].writable = h.writable
  <2>1. PICK u, bytes, w : u = upage /\ bytes = PageBytes /\ w = h.writable
    OBVIOUS
  <2>2. Map(u, bytes, w)
    BY <1>2, <2>1
  <2>3. pool # {} /\ u \notin DOMAIN pagedir /\ w \in BOOLEAN
    BY <1>2, <2>1
  <2>4. /\ DOMAIN pagedir' = DOMAIN pagedir \union {u}
        /\ pagedir'[u].bytes = bytes /\ pagedir'[u].writable = w
    BY <2>2, <2>3, MapProperties
  <2> QED BY <2>1, <2>4
<1> DEFINE off == h.p_vaddr % PGSIZE
           first == PageOf(h.p_vaddr)
           j == (h.p_vaddr + i) % PGSIZE
           before == PGSIZE * done
<1>4. /\ PGSIZE \in Nat \ {0} /\ off \in Nat /\ h.p_filesz \in Nat /\ h.p_offset \in Nat
      /\ h.p_vaddr \in Nat /\ before \in Int /\ first \in Int
      /\ h.p_vaddr = PGSIZE * first + off
  BY <1>1, HeaderPage, HeaderType, PageType
<1>5. j \in 0 .. PGSIZE - 1 /\ h.p_vaddr + i = PGSIZE * upage + j
  BY <1>1, BytePage
<1>6. PGSIZE * upage = PGSIZE * first + before /\ PGSIZE * first \in Int
  BY <1>1, <1>4
<1>7. i = j - off + before
  <2> HIDE DEF off, first, j, before
  <2> QED BY <1>4, <1>5, <1>6
<1>8. read_bytes \in Nat
  BY PageToDo DEF LoadPage
<1>9. read_bytes = IF h.p_filesz > 0 /\ off + h.p_filesz - before > 0
                   THEN off + h.p_filesz - before ELSE 0
  BY <1>1 DEF BytesLeft
<1>10. j < page_read_bytes <=> i < h.p_filesz
  <2> HIDE DEF off, first, j, before
  <2> QED BY <1>4, <1>5, <1>7, <1>8, <1>9 DEF page_read_bytes
<1>11. i < h.p_filesz => pos + j + 1 = h.p_offset + i + 1
  <2> SUFFICES ASSUME i < h.p_filesz PROVE pos + j + 1 = h.p_offset + i + 1
    OBVIOUS
  <2>1. read_bytes > 0
    <3> HIDE DEF off, first, j, before
    <3> QED BY <1>4, <1>5, <1>8, <1>10 DEF page_read_bytes
  <2>2. pos = h.p_offset - off + before
    BY <2>1 DEF LoopAt, FirstPos
  <2> HIDE DEF off, first, j, before
  <2> QED BY <1>4, <1>5, <1>7, <2>2
<1>12. PageBytes[j] = IF i < h.p_filesz THEN h.p_offset + i + 1 ELSE 0
  <2> HIDE DEF off, first, j, before
  <2> QED BY <1>5, <1>10, <1>11 DEF PageBytes
<1>13. Byte(h.p_vaddr + i)' = pagedir'[upage].bytes[j]
  BY DEF Byte
<1> QED BY <1>3, <1>12, <1>13 DEF Exact

LEMMA NextImage == StartInv /\ [Next]_vars => ImageInv'
<1> SUFFICES ASSUME StartInv, [Next]_vars PROVE ImageInv'
  OBVIOUS
<1>0. MemoryInv /\ UserSpaceOnly /\ LoopInv /\ ImageInv
  BY DEF StartInv
<1> DEFINE Early == {"load", "headers", "segment", "loaded"}
\* Where pages are only added, what had been loaded stays.
<1>1. ASSUME UNCHANGED segments, pc' \in Early => pc \in Early,
             \A u \in DOMAIN pagedir : u \in DOMAIN pagedir' /\ pagedir'[u] = pagedir[u]
      PROVE  /\ segments' \in Seq(Header)
             /\ pc' \in Early =>
                  \A n \in 1 .. Len(segments') : \A i \in 0 .. segments'[n].p_memsz - 1 :
                    Exact(segments[n], i)'
  <2> SUFFICES ASSUME pc' \in Early, NEW n \in 1 .. Len(segments'), NEW i \in 0 .. segments'[n].p_memsz - 1
               PROVE  Exact(segments[n], i)'
    BY <1>0, <1>1 DEF ImageInv
  <2>1. PICK h : h = segments[n]
    OBVIOUS
  <2>2. Exact(h, i)
    BY <1>0, <1>1, <2>1 DEF ImageInv
  <2>3. Exact(h, i)'
    BY <1>1, <2>2, ExactKept
  <2> QED BY <1>1, <2>1, <2>3 DEF Exact, Byte
<1>2. CASE LoadFails \/ ReadElfHeader \/ IgnoreHeader \/ RefuseHeader \/ LoadPageFails
  <2>1. /\ UNCHANGED <<segments, pagedir>> /\ pc' # "segment" /\ (pc' \in Early => pc \in Early)
    BY <1>2 DEF LoadFails, ReadElfHeader, IgnoreHeader, RefuseHeader, LoadPageFails
  <2> QED BY <1>1, <2>1 DEF ImageInv
<1>3. CASE LoadSegment
  <2>1. UNCHANGED <<segments, pagedir>> /\ pc \in Early
    BY <1>3 DEF LoadSegment
  <2>2. PICK h \in Header : segment' = h /\ upage' = PageOf(h.p_vaddr)
    BY <1>3 DEF LoadSegment
  <2>3. ASSUME NEW i \in 0 .. h.p_memsz - 1 PROVE ~(PageOf(h.p_vaddr + i) < PageOf(h.p_vaddr))
    <3>1. i \in Nat
      BY HeaderType
    <3> QED BY <3>1, BytePage, HeaderPage
  <2> QED BY <1>1, <2>1, <2>2, <2>3 DEF ImageInv
<1>4. CASE LoadPage
  <2>1. PICK h : h = segment
    OBVIOUS
  <2>2. PICK done \in Nat : LoopAt(h, done)
    BY <1>0, <1>4, <2>1 DEF LoopInv, LoadPage, InLoop
  <2>3. /\ UNCHANGED <<segments, pc, segment>> /\ upage' = upage + 1 /\ pc = "segment"
        /\ h \in Header /\ upage \in Int
    BY <1>4, <2>1, <2>2, PageToDo DEF LoadPage, InLoop, LoopAt
  <2>4. \A u \in DOMAIN pagedir : u \in DOMAIN pagedir' /\ pagedir'[u] = pagedir[u]
    <3>1. /\ pool # {} /\ upage \notin DOMAIN pagedir /\ h.writable \in BOOLEAN
          /\ Map(upage, PageBytes, h.writable)
      BY <1>4, <2>1, <2>3, HeaderType DEF LoadPage
    <3> QED BY <1>0, <3>1, MapProperties
  <2>5. ASSUME NEW i \in 0 .. h.p_memsz - 1, PageOf(h.p_vaddr + i) < upage + 1 PROVE Exact(h, i)'
    <3>1. i \in Nat /\ i < h.p_memsz /\ PageOf(h.p_vaddr + i) \in Int
      BY <2>3, HeaderType, BytePage
    <3>2. CASE PageOf(h.p_vaddr + i) < upage
      <4>1. Exact(h, i)
        BY <1>0, <2>1, <2>3, <3>2 DEF ImageInv
      <4> QED BY <2>4, <4>1, ExactKept
    <3>3. CASE PageOf(h.p_vaddr + i) = upage
      BY <1>0, <1>4, <2>1, <2>2, <3>1, <3>3, PageIsExact
    <3> QED BY <2>3, <2>5, <3>1, <3>2, <3>3
  <2>6. ASSUME NEW i \in 0 .. segment'.p_memsz - 1, PageOf(segment'.p_vaddr + i) < upage'
        PROVE  Exact(segment, i)'
    <3>1. Exact(h, i)'
      BY <2>1, <2>3, <2>5, <2>6
    <3> QED BY <2>1, <2>3, <3>1 DEF Exact, Byte
  <2> QED BY <1>1, <2>3, <2>4, <2>6 DEF ImageInv
<1>5. CASE SegmentLoaded
  <2>1. PICK h : h = segment
    OBVIOUS
  <2>2. /\ segments' = Append(segments, h) /\ UNCHANGED pagedir /\ pc = "segment" /\ pc' = "headers"
        /\ read_bytes + zero_bytes = 0
    BY <1>5, <2>1 DEF SegmentLoaded
  <2>3. PICK done \in Nat : LoopAt(h, done)
    BY <1>0, <2>1, <2>2 DEF LoopInv
  <2>4. /\ h \in Header /\ Valid(h) /\ ~OnPage0(h) /\ done \in 0 .. PagesIn(h)
        /\ upage = PageOf(h.p_vaddr) + done
        /\ read_bytes = BytesLeft(h, done)
        /\ zero_bytes = PGSIZE * (PagesIn(h) - done) - read_bytes
    BY <2>3 DEF LoopAt
  <2>5. /\ PagesIn(h) \in Nat /\ PageOf(h.p_vaddr) \in Nat
        /\ PGSIZE * PagesIn(h) >= (h.p_vaddr % PGSIZE) + h.p_memsz
    BY <2>4, SegmentPages
  <2>6. done = PagesIn(h)
    <3>1. BytesLeft(h, done) \in Int
      <4>1. h.p_vaddr % PGSIZE \in Nat /\ h.p_filesz \in Nat /\ PGSIZE * done \in Int
        BY <2>4, HeaderPage, HeaderType, PageType
      <4> QED BY <4>1 DEF BytesLeft
    <3>2. PGSIZE * (PagesIn(h) - done) \in Int
      BY <2>5, PageType
    <3>3. PGSIZE * (PagesIn(h) - done) = 0
      BY <2>2, <2>4, <3>1, <3>2
    <3>4. PagesIn(h) - done \in Nat
      BY <2>4, <2>5
    <3>5. ~(PagesIn(h) - done >= 1)
      <4> SUFFICES ASSUME PagesIn(h) - done >= 1 PROVE FALSE
        OBVIOUS
      <4>1. PGSIZE * (PagesIn(h) - done) >= PGSIZE
        BY <3>4, PageType
      <4> QED BY <3>3, <4>1, PageType
    <3> QED BY <2>4, <2>5, <3>4, <3>5
  <2>7. ASSUME NEW i \in 0 .. h.p_memsz - 1 PROVE Exact(h, i)
    <3>1. /\ i \in Nat /\ i < h.p_memsz /\ h.p_memsz \in Nat
          /\ PageOf(h.p_vaddr + i) \in Int
          /\ h.p_vaddr + i >= PGSIZE * PageOf(h.p_vaddr + i)
      <4>1. i \in Nat /\ h.p_memsz \in Nat
        BY <2>4, HeaderType
      <4>2. PGSIZE * PageOf(h.p_vaddr + i) \in Int
        BY <2>4, <4>1, BytePage, PageType
      <4>3. (h.p_vaddr + i) % PGSIZE \in Nat
        BY <2>4, <4>1, BytePage, PageType
      <4>4. h.p_vaddr + i = PGSIZE * PageOf(h.p_vaddr + i) + ((h.p_vaddr + i) % PGSIZE)
        BY <2>4, <4>1, BytePage
      <4> QED BY <2>4, <4>1, <4>2, <4>3, <4>4, BytePage
    <3>2. PGSIZE * PageOf(h.p_vaddr + i) < PGSIZE * upage
      <4>1. PGSIZE * upage = PGSIZE * PageOf(h.p_vaddr) + PGSIZE * PagesIn(h)
        BY <2>4, <2>5, <2>6, PageType
      <4>2. /\ h.p_vaddr \in Nat /\ h.p_vaddr % PGSIZE \in Nat
            /\ h.p_vaddr = PGSIZE * PageOf(h.p_vaddr) + (h.p_vaddr % PGSIZE)
        BY <2>4, HeaderPage, HeaderType
      <4>3. /\ PGSIZE * PageOf(h.p_vaddr) \in Int /\ PGSIZE * PagesIn(h) \in Int
            /\ PGSIZE * PageOf(h.p_vaddr + i) \in Int
        BY <2>5, <3>1, PageType
      <4> QED BY <2>5, <3>1, <4>1, <4>2, <4>3
    <3>3. PageOf(h.p_vaddr + i) < upage
      BY <2>4, <2>5, <2>6, <3>1, <3>2, PageType, FactorOrder
    <3> QED BY <1>0, <2>1, <2>2, <3>3 DEF ImageInv
  <2>8. segments \in Seq(Header)
    BY <1>0 DEF ImageInv
  <2>9. ASSUME NEW n \in 1 .. Len(segments'), NEW i \in 0 .. segments'[n].p_memsz - 1
        PROVE  Exact(segments[n], i)'
    <3>1. PICK g : g = segments'[n]
      OBVIOUS
    <3>2. CASE n \in 1 .. Len(segments)
      <4>1. g = segments[n]
        BY <2>2, <2>8, <3>1, <3>2, AppendProperties
      <4>2. Exact(g, i)
        BY <1>0, <2>2, <3>1, <3>2, <4>1 DEF ImageInv
      <4> QED BY <2>2, <3>1, <4>2 DEF Exact, Byte
    <3>3. CASE n = Len(segments) + 1
      <4>1. g = h
        BY <2>2, <2>4, <2>8, <3>1, <3>3, AppendProperties
      <4>2. Exact(g, i)
        BY <2>7, <3>1, <4>1
      <4> QED BY <2>2, <3>1, <4>2 DEF Exact, Byte
    <3>4. n \in 1 .. Len(segments) \/ n = Len(segments) + 1
      BY <2>2, <2>4, <2>8, AppendProperties
    <3> QED BY <3>2, <3>3, <3>4
  <2> QED BY <2>2, <2>4, <2>8, <2>9, AppendProperties DEF ImageInv
<1>6. CASE SetupStack
  <2>1. UNCHANGED segments /\ pc = "headers" /\ pc' # "segment"
    BY <1>6 DEF SetupStack
  <2>2. \A u \in DOMAIN pagedir : u \in DOMAIN pagedir' /\ pagedir'[u] = pagedir[u]
    <3>1. CASE UNCHANGED pagedir
      BY <3>1
    <3>2. CASE /\ pool # {} /\ StackPage \notin DOMAIN pagedir
               /\ Map(StackPage, [i \in 0 .. PGSIZE - 1 |-> 0], TRUE)
      BY <1>0, <3>2, MapProperties
    <3> QED BY <1>6, <3>1, <3>2 DEF SetupStack
  <2> QED BY <1>1, <2>1, <2>2 DEF ImageInv
<1>7. CASE ParseArguments
  <2>1. UNCHANGED segments /\ pc' \in {"abort", "run"}
    BY <1>7 DEF ParseArguments
  <2> QED BY <1>0, <2>1 DEF ImageInv
<1>8. CASE Exit
  <2>1. segments' = << >> /\ pc' = "dead"
    BY <1>8 DEF Exit
  <2> QED BY <2>1 DEF ImageInv
<1>9. CASE UNCHANGED vars
  <2>1. UNCHANGED <<pc, pagedir, segment, upage, segments>>
    BY <1>9 DEF vars
  <2> QED BY <1>0, <2>1 DEF ImageInv, Exact, Byte
<1> QED BY <1>2, <1>3, <1>4, <1>5, <1>6, <1>7, <1>8, <1>9 DEF Next

--------------------------------------------------------------------------------
(* Types.                                                                  *)

\* What is left to do of a segment is never negative.
LEMMA LoopNumbers ==
  ASSUME NEW h \in Header, Valid(h), ~OnPage0(h), NEW done \in 0 .. PagesIn(h)
  PROVE  /\ PageOf(h.p_vaddr) + done \in Nat /\ BytesLeft(h, done) \in Nat
         /\ PGSIZE * (PagesIn(h) - done) - BytesLeft(h, done) \in Nat
<1>1. /\ PagesIn(h) \in Nat /\ PageOf(h.p_vaddr) \in Nat
      /\ PGSIZE * PagesIn(h) >= (h.p_vaddr % PGSIZE) + h.p_memsz
  BY SegmentPages
<1> DEFINE off == h.p_vaddr % PGSIZE
           all == PGSIZE * PagesIn(h)
           before == PGSIZE * done
<1>2. off \in Nat /\ h.p_filesz \in Nat /\ h.p_memsz \in Nat /\ PGSIZE \in Nat \ {0}
  BY HeaderPage, HeaderType, PageType
<1>3. all \in Int /\ before \in Int /\ PGSIZE * (PagesIn(h) - done) = all - before
      /\ PagesIn(h) - done \in Nat /\ PGSIZE * (PagesIn(h) - done) >= 0
  BY <1>1, <1>2
<1>4. h.p_filesz <= h.p_memsz
  BY DEF Valid
<1>5. BytesLeft(h, done) = IF h.p_filesz > 0 /\ off + h.p_filesz - before > 0
                           THEN off + h.p_filesz - before ELSE 0
  BY DEF BytesLeft
<1> HIDE DEF off, before, all
<1>6. all >= off + h.p_memsz
  BY <1>1 DEF all, off
<1>7. BytesLeft(h, done) \in Nat
  BY <1>2, <1>3, <1>5
<1>8. all - before - BytesLeft(h, done) \in Nat
  BY <1>2, <1>3, <1>4, <1>5, <1>6
<1> QED BY <1>1, <1>3, <1>7, <1>8

LoopType == upage \in Nat /\ pos \in Nat /\ read_bytes \in Nat /\ zero_bytes \in Nat

LEMMA NextLoopType == StartInv /\ LoopType /\ [Next]_vars => LoopType'
<1> SUFFICES ASSUME StartInv, LoopType, [Next]_vars PROVE LoopType'
  OBVIOUS
<1>1. CASE UNCHANGED segmentVars
  BY <1>1 DEF LoopType, segmentVars
<1>2. CASE NoLoop
  BY <1>2 DEF NoLoop, LoopType
<1>3. CASE LoadFails \/ ReadElfHeader \/ IgnoreHeader \/ RefuseHeader \/ LoadPageFails
           \/ SegmentLoaded \/ SetupStack \/ ParseArguments \/ Exit \/ UNCHANGED vars
  BY <1>1, <1>2, <1>3 DEF LoadFails, ReadElfHeader, IgnoreHeader, RefuseHeader, LoadPageFails,
     SegmentLoaded, SetupStack, ParseArguments, Exit, vars, segmentVars
<1>4. CASE pc' = "segment"
  <2>1. PICK done \in Nat : LoopAt(segment, done)'
    BY <1>4, NextLoop DEF LoopInv
  <2> DEFINE h == segment'
  <2>2. /\ h \in Header /\ Valid(h) /\ ~OnPage0(h) /\ done \in 0 .. PagesIn(h)
        /\ upage' = PageOf(h.p_vaddr) + done
        /\ read_bytes' = BytesLeft(h, done)
        /\ zero_bytes' = PGSIZE * (PagesIn(h) - done) - read_bytes'
    BY <2>1 DEF LoopAt
  <2>3. upage' \in Nat /\ read_bytes' \in Nat /\ zero_bytes' \in Nat
    <3> HIDE DEF h
    <3> QED BY <2>2, LoopNumbers
  <2>4. pos' \in Nat
    <3>1. CASE LoadSegment
      <4>1. PICK g \in Header : pos' = g.p_offset - (g.p_offset % PGSIZE)
        BY <3>1 DEF LoadSegment
      <4>2. PICK offset : offset = g.p_offset
        OBVIOUS
      <4>3. offset \in Nat /\ PGSIZE \in Nat \ {0}
        BY <4>2, HeaderType, PageType
      <4>4. /\ offset \div PGSIZE \in Int /\ offset % PGSIZE \in 0 .. PGSIZE - 1
            /\ offset = PGSIZE * (offset \div PGSIZE) + (offset % PGSIZE)
        BY <4>3, DivMod
      <4>5. offset \div PGSIZE \in Nat
        BY <4>3
      <4>6. PGSIZE * (offset \div PGSIZE) \in Nat
        BY <4>3, <4>5
      <4>7. offset - (offset % PGSIZE) = PGSIZE * (offset \div PGSIZE)
        BY <4>3, <4>4, <4>6
      <4> QED BY <4>1, <4>2, <4>6, <4>7
    <3>2. CASE LoadPage
      <4>1. pos' = pos + page_read_bytes
        BY <3>2 DEF LoadPage
      <4>2. page_read_bytes \in Nat
        BY PageType DEF LoopType, page_read_bytes
      <4> QED BY <4>1, <4>2 DEF LoopType
    <3>3. CASE ~LoadSegment /\ ~LoadPage
      BY <1>3, <3>3 DEF Next, LoopType
    <3> QED BY <3>1, <3>2, <3>3
  <2> QED BY <2>3, <2>4 DEF LoopType
<1>5. CASE pc' # "segment"
  BY <1>3, <1>5 DEF Next, LoadSegment, LoadPage, InLoop
<1> QED BY <1>4, <1>5

\* A page that is mapped has its bytes.
PageTypes ==
  \A u \in DOMAIN pagedir : /\ pagedir[u].writable \in BOOLEAN
                            /\ pagedir[u].bytes \in [0 .. PGSIZE - 1 -> Nat]

\* The command line is known only once start_process has come to it.
LineInv ==
  /\ line \in CommandLine \union {<< >>}
  /\ pc \notin {"abort", "run"} => line = << >>

\* What a command line with a first word comes to.
LEMMA Command ==
  ASSUME NEW cmd \in CommandLine, FirstWord(cmd) # << >>
  PROVE  /\ cmd \in Line /\ cmd # << >>
         /\ Argv[cmd] = Words(cmd) /\ Words(cmd) \in Seq(Line)
         /\ StackOf[cmd] = Stack(PHYS_BASE, Words(cmd))
         /\ ReadsNull(SingleSpaced(cmd)) <=> Last(cmd) = Space
<1>1. cmd \in Line
  <2>1. cmd \in Seq(Nat \ {0})
    BY StartAssumption
  <2>2. Len(cmd) \in Nat /\ cmd \in [1 .. Len(cmd) -> Nat \ {0}]
    BY <2>1, LenProperties
  <2>3. cmd \in [1 .. Len(cmd) -> Nat]
    BY <2>2
  <2> QED BY <2>2, <2>3, IsASeq DEF Line
<1>2. Argv[cmd] = Words(cmd)
  BY <1>1, SameWords DEF Argv
<1>3. StackOf[cmd] = Stack(PHYS_BASE, Words(cmd))
  BY <1>2 DEF StackOf
<1>4. cmd # << >>
  <2>1. Len(cmd) >= 1
    BY <1>1, FirstWordFirst
  <2> QED BY <2>1
<1> QED BY <1>1, <1>2, <1>3, <1>4, ArgumentsCounted

\* Addresses of the stack.
LEMMA TopAligned == PHYS_BASE \in Int /\ PHYS_BASE % 4 = 0
<1>1. PGSIZE \in Int /\ PGSIZE % 4 = 0 /\ StackPage \in Int /\ PHYS_BASE = PGSIZE * (StackPage + 1)
  BY StartAssumption, PageType
<1>2. PICK m \in Int : PGSIZE = 4 * m
  BY <1>1
<1>3. PICK q \in Int : q = m * (StackPage + 1)
  BY <1>1
<1>4. PHYS_BASE = 4 * q
  <2>1. PHYS_BASE = (4 * m) * (StackPage + 1)
    BY <1>1, <1>2
  <2>2. (4 * m) * (StackPage + 1) = 4 * (m * (StackPage + 1))
    BY <1>1
  <2> QED BY <1>3, <2>1, <2>2
<1> QED BY <1>4

\* An address below PHYS_BASE, and one within the last page.
LEMMA AddressPage ==
  ASSUME NEW a \in Int, a < PHYS_BASE
  PROVE  /\ PageOf(a) \in Int /\ a % PGSIZE \in 0 .. PGSIZE - 1
         /\ PGSIZE * PageOf(a) + (a % PGSIZE) = a
         /\ PageOf(a) <= StackPage
         /\ a >= PHYS_BASE - PGSIZE => PageOf(a) = StackPage
<1>1. PGSIZE \in Nat \ {0} /\ StackPage \in Int /\ PHYS_BASE = PGSIZE * (StackPage + 1)
      /\ PHYS_BASE \in Int
  BY PageType
<1>2. /\ PageOf(a) \in Int /\ a % PGSIZE \in 0 .. PGSIZE - 1
      /\ a = PGSIZE * PageOf(a) + (a % PGSIZE)
  BY <1>1, DivMod DEF PageOf
<1>3. PGSIZE * PageOf(a) \in Int
  BY <1>1, <1>2
<1>4. PageOf(a) < StackPage + 1
  <2>1. PGSIZE * PageOf(a) < PGSIZE * (StackPage + 1)
    BY <1>1, <1>2, <1>3
  <2> QED BY <1>1, <1>2, <2>1, FactorOrder
<1>5. ASSUME a >= PHYS_BASE - PGSIZE PROVE StackPage < PageOf(a) + 1
  <2>1. PGSIZE * (PageOf(a) + 1) = PGSIZE * PageOf(a) + PGSIZE
    BY <1>1, <1>2
  <2>2. PGSIZE * StackPage = PHYS_BASE - PGSIZE
    BY <1>1
  <2>3. PGSIZE * StackPage < PGSIZE * (PageOf(a) + 1)
    BY <1>1, <1>2, <1>3, <1>5, <2>1, <2>2
  <2> QED BY <1>1, <1>2, <2>3, FactorOrder
<1> QED BY <1>1, <1>2, <1>4, <1>5

\* What parsing_filename does when it does not fault.
LEMMA Parsed ==
  ASSUME MemoryInv, UserSpaceOnly, ParseArguments, pc' = "run"
  PROVE  \E cmd \in CommandLine :
           /\ FirstWord(cmd) # << >> /\ line' = cmd
           /\ esp' = FinalEsp(PHYS_BASE, Words(cmd))
           /\ DOMAIN pagedir' = DOMAIN pagedir
           /\ \A u \in DOMAIN pagedir :
                /\ pagedir'[u].writable = pagedir[u].writable
                /\ pagedir'[u].bytes = [i \in 0 .. PGSIZE - 1 |->
                     IF PGSIZE * u + i \in DOMAIN Stack(PHYS_BASE, Words(cmd))
                     THEN Stack(PHYS_BASE, Words(cmd))[PGSIZE * u + i]
                     ELSE pagedir[u].bytes[i]]
           /\ \A a \in DOMAIN Stack(PHYS_BASE, Words(cmd)) : PageOf(a) \in DOMAIN pagedir
<1>1. PICK cmd \in CommandLine :
        /\ FirstWord(cmd) # << >> /\ line' = cmd
        /\ \A a \in DOMAIN StackOf[cmd] : PageOf(a) \in DOMAIN pagedir
        /\ esp' = FinalEsp(PHYS_BASE, Argv[cmd])
        /\ pagedir' = [u \in DOMAIN pagedir |-> [pagedir[u] EXCEPT !.bytes =
                         [i \in 0 .. PGSIZE - 1 |->
                            LET a == PGSIZE * u + i
                            IN  IF a \in DOMAIN StackOf[cmd] THEN StackOf[cmd][a]
                                ELSE pagedir[u].bytes[i]]]]
  BY DEF ParseArguments
<1>2. Argv[cmd] = Words(cmd) /\ StackOf[cmd] = Stack(PHYS_BASE, Words(cmd))
  BY <1>1, Command
<1> DEFINE stack == Stack(PHYS_BASE, Words(cmd))
<1>3. stack = StackOf[cmd]
  BY <1>2
<1> HIDE DEF stack
<1>4. DOMAIN pagedir' = DOMAIN pagedir
  BY <1>1
<1>5. ASSUME NEW u \in DOMAIN pagedir
      PROVE  /\ pagedir'[u].writable = pagedir[u].writable
             /\ pagedir'[u].bytes = [i \in 0 .. PGSIZE - 1 |->
                  IF PGSIZE * u + i \in DOMAIN stack THEN stack[PGSIZE * u + i]
                  ELSE pagedir[u].bytes[i]]
  <2>1. pagedir[u] = [kpage |-> pagedir[u].kpage, bytes |-> pagedir[u].bytes,
                      writable |-> pagedir[u].writable]
    BY DEF MemoryInv
  <2>2. PICK new : new = [i \in 0 .. PGSIZE - 1 |->
                  IF PGSIZE * u + i \in DOMAIN stack THEN stack[PGSIZE * u + i]
                  ELSE pagedir[u].bytes[i]]
    OBVIOUS
  <2>3. pagedir'[u] = [pagedir[u] EXCEPT !.bytes = new]
    BY <1>1, <1>3, <2>2
  <2> QED BY <2>1, <2>2, <2>3
<1>6. \A a \in DOMAIN stack : PageOf(a) \in DOMAIN pagedir
  BY <1>1, <1>3
<1>7. esp' = FinalEsp(PHYS_BASE, Words(cmd))
  BY <1>1, <1>2
<1>8. FirstWord(cmd) # << >> /\ line' = cmd
  BY <1>1
<1> QED BY <1>4, <1>5, <1>6, <1>7, <1>8, Zenon DEF stack

\* Then *esp is on a page of the user's, and what is in memory there is the stack.
LEMMA ParsedBytes ==
  ASSUME MemoryInv, UserSpaceOnly, NEW cmd \in CommandLine, FirstWord(cmd) # << >>,
         NEW stack, stack = Stack(PHYS_BASE, Words(cmd)),
         \A a \in DOMAIN stack : PageOf(a) \in DOMAIN pagedir
  PROVE  /\ FinalEsp(PHYS_BASE, Words(cmd)) \in 0 .. PHYS_BASE
         /\ \A a \in DOMAIN stack :
              /\ a \in Int /\ stack[a] \in Nat
              /\ a % PGSIZE \in 0 .. PGSIZE - 1
              /\ PGSIZE * PageOf(a) + (a % PGSIZE) = a
<1> DEFINE e == FinalEsp(PHYS_BASE, Words(cmd))
<1>1. Words(cmd) \in Seq(Line)
  BY Command
<1>2. \A a \in DOMAIN stack : a \in e .. PHYS_BASE - 1
  BY <1>1, StackRange, TopAligned
<1>3. e \in Int /\ e \in DOMAIN stack
  BY <1>1, EspProperties, StackWords, TopAligned
<1> HIDE DEF e
<1>4. ASSUME NEW a \in DOMAIN stack
      PROVE  /\ a \in Int /\ PageOf(a) \in Int /\ a % PGSIZE \in 0 .. PGSIZE - 1
             /\ PGSIZE * PageOf(a) + (a % PGSIZE) = a
  <2>1. a \in Int /\ a < PHYS_BASE
    BY <1>2, <1>3, TopAligned
  <2> QED BY <2>1, AddressPage
<1>5. e >= 0 /\ e < PHYS_BASE
  <2>1. PageOf(e) \in 1 .. StackPage
    BY <1>3 DEF UserSpaceOnly
  <2>2. /\ PageOf(e) \in Int /\ e % PGSIZE \in 0 .. PGSIZE - 1
        /\ PGSIZE * PageOf(e) + (e % PGSIZE) = e
    BY <1>3, <1>4
  <2>3. PGSIZE * PageOf(e) >= 0
    BY <2>1, PageType
  <2>4. e >= 0
    BY <2>2, <2>3, PageType
  <2> QED BY <1>2, <1>3, <2>4, TopAligned
<1>6. \A a \in DOMAIN stack : stack[a] \in Nat
  BY <1>1, <1>5, StackValues, TopAligned DEF e
<1> QED BY <1>3, <1>4, <1>5, <1>6, TopAligned DEF e

--------------------------------------------------------------------------------
(* The program that starts.                                                *)

\* The stack's page is there to be written, and holds no segment.
StackInv ==
  pc = "loaded" =>
    /\ StackPage \in DOMAIN pagedir /\ pagedir[StackPage].writable
    /\ \A n \in 1 .. Len(segments) : \A i \in 0 .. segments[n].p_memsz - 1 :
         PageOf(segments[n].p_vaddr + i) # StackPage

RunInv == TypeOK /\ LineInv /\ StackInv /\ ImageIsExact /\ ArgumentsAreWords

LEMMA NextPageTypes == StartInv /\ LoopType /\ PageTypes /\ [Next]_vars => PageTypes'
<1> SUFFICES ASSUME StartInv, LoopType, PageTypes, [Next]_vars PROVE PageTypes'
  OBVIOUS
<1>0. MemoryInv /\ UserSpaceOnly /\ LoopInv
  BY DEF StartInv
<1>1. ASSUME NEW u, pool # {}, u \notin DOMAIN pagedir, NEW bytes, bytes \in [0 .. PGSIZE - 1 -> Nat],
             NEW w, w \in BOOLEAN, Map(u, bytes, w)
      PROVE  PageTypes'
  <2>1. /\ DOMAIN pagedir' = DOMAIN pagedir \union {u}
        /\ pagedir'[u].bytes = bytes /\ pagedir'[u].writable = w
        /\ \A v \in DOMAIN pagedir : pagedir'[v] = pagedir[v]
    <3>1. MemoryInv /\ pool # {} /\ u \notin DOMAIN pagedir /\ w \in BOOLEAN /\ Map(u, bytes, w)
      BY <1>0, <1>1
    <3>2. DOMAIN pagedir' = DOMAIN pagedir \union {u}
      BY <3>1, MapProperties
    <3>3. pagedir'[u].bytes = bytes /\ pagedir'[u].writable = w
      <4>1. pagedir'[u] = [kpage |-> FirstFree, bytes |-> bytes, writable |-> w]
        BY <1>1 DEF Map
      <4> QED BY <4>1
    <3>4. \A v \in DOMAIN pagedir : pagedir'[v] = pagedir[v]
      BY <3>1, MapProperties
    <3> QED BY <3>2, <3>3, <3>4
  <2> QED BY <1>1, <2>1 DEF PageTypes
<1>2. CASE UNCHANGED pagedir
  BY <1>2 DEF PageTypes
<1>3. CASE LoadFails \/ ReadElfHeader \/ IgnoreHeader \/ RefuseHeader \/ LoadSegment
           \/ LoadPageFails \/ SegmentLoaded \/ UNCHANGED vars
  BY <1>2, <1>3 DEF LoadFails, ReadElfHeader, IgnoreHeader, RefuseHeader, LoadSegment,
     LoadPageFails, SegmentLoaded, vars
<1>4. CASE LoadPage
  <2>1. PageBytes \in [0 .. PGSIZE - 1 -> Nat]
    BY PageType DEF LoopType, PageBytes
  <2>2. segment.writable \in BOOLEAN
    BY <1>0, <1>4, HeaderType DEF LoopInv, LoopAt, LoadPage, InLoop
  <2>3. PICK bytes, w : bytes = PageBytes /\ w = segment.writable
    OBVIOUS
  <2>4. pool # {} /\ upage \notin DOMAIN pagedir /\ Map(upage, bytes, w)
    BY <1>4, <2>3 DEF LoadPage
  <2> QED BY <1>1, <2>1, <2>2, <2>3, <2>4
<1>5. CASE SetupStack
  <2>1. CASE UNCHANGED pagedir
    BY <1>2, <2>1
  <2>2. CASE /\ pool # {} /\ StackPage \notin DOMAIN pagedir
             /\ Map(StackPage, [i \in 0 .. PGSIZE - 1 |-> 0], TRUE)
    <3>1. [i \in 0 .. PGSIZE - 1 |-> 0] \in [0 .. PGSIZE - 1 -> Nat] /\ TRUE \in BOOLEAN
      OBVIOUS
    <3> QED BY <1>1, <2>2, <3>1
  <2> QED BY <1>5, <2>1, <2>2 DEF SetupStack
<1>6. CASE ParseArguments
  <2>1. pc' = "run" \/ UNCHANGED pagedir
    BY <1>6 DEF ParseArguments
  <2>2. CASE pc' = "run"
    <3>1. PICK cmd \in CommandLine :
           /\ FirstWord(cmd) # << >>
           /\ DOMAIN pagedir' = DOMAIN pagedir
           /\ \A u \in DOMAIN pagedir :
                /\ pagedir'[u].writable = pagedir[u].writable
                /\ pagedir'[u].bytes = [i \in 0 .. PGSIZE - 1 |->
                     IF PGSIZE * u + i \in DOMAIN Stack(PHYS_BASE, Words(cmd))
                     THEN Stack(PHYS_BASE, Words(cmd))[PGSIZE * u + i]
                     ELSE pagedir[u].bytes[i]]
           /\ \A a \in DOMAIN Stack(PHYS_BASE, Words(cmd)) : PageOf(a) \in DOMAIN pagedir
      BY <1>0, <1>6, <2>2, Parsed
    <3>2. PICK stack : stack = Stack(PHYS_BASE, Words(cmd))
      OBVIOUS
    <3>3. \A a \in DOMAIN stack : stack[a] \in Nat
      BY <1>0, <3>1, <3>2, ParsedBytes
    <3>4. ASSUME NEW u \in DOMAIN pagedir
          PROVE  /\ pagedir'[u].writable \in BOOLEAN
                 /\ pagedir'[u].bytes \in [0 .. PGSIZE - 1 -> Nat]
      <4>1. pagedir[u].writable \in BOOLEAN /\ pagedir[u].bytes \in [0 .. PGSIZE - 1 -> Nat]
        BY DEF PageTypes
      <4>2. pagedir'[u].bytes = [i \in 0 .. PGSIZE - 1 |->
                     IF PGSIZE * u + i \in DOMAIN stack THEN stack[PGSIZE * u + i]
                     ELSE pagedir[u].bytes[i]]
        BY <3>1, <3>2
      <4>3. ASSUME NEW i \in 0 .. PGSIZE - 1
            PROVE  (IF PGSIZE * u + i \in DOMAIN stack THEN stack[PGSIZE * u + i]
                    ELSE pagedir[u].bytes[i]) \in Nat
        BY <3>3, <4>1
      <4>4. pagedir'[u].bytes \in [0 .. PGSIZE - 1 -> Nat]
        BY <4>2, <4>3
      <4> QED BY <3>1, <4>1, <4>4
    <3> QED BY <3>1, <3>4 DEF PageTypes
  <2> QED BY <1>2, <2>1, <2>2
<1>7. CASE Exit
  <2>1. DOMAIN pagedir' = {}
    BY <1>7 DEF Exit, NoMapping
  <2> QED BY <2>1 DEF PageTypes
<1> QED BY <1>3, <1>4, <1>5, <1>6, <1>7 DEF Next

LEMMA NextLine == LineInv /\ [Next]_vars => LineInv'
<1> SUFFICES ASSUME LineInv, [Next]_vars PROVE LineInv'
  OBVIOUS
<1>1. CASE UNCHANGED line /\ (pc \in {"abort", "run"} => pc' \in {"abort", "run"})
  BY <1>1 DEF LineInv
<1>2. CASE LoadFails \/ ReadElfHeader \/ IgnoreHeader \/ RefuseHeader \/ LoadSegment \/ LoadPage
           \/ LoadPageFails \/ SegmentLoaded \/ SetupStack \/ UNCHANGED vars
  BY <1>1, <1>2 DEF LoadFails, ReadElfHeader, IgnoreHeader, RefuseHeader, LoadSegment, LoadPage,
     LoadPageFails, SegmentLoaded, SetupStack, InLoop, vars
<1>3. CASE ParseArguments
  <2>1. line' \in CommandLine /\ pc' \in {"abort", "run"}
    BY <1>3 DEF ParseArguments
  <2> QED BY <2>1 DEF LineInv
<1>4. CASE Exit
  BY <1>4 DEF Exit, LineInv
<1> QED BY <1>2, <1>3, <1>4 DEF Next

LEMMA NextStack == StartInv /\ StackInv /\ [Next]_vars => StackInv'
<1> SUFFICES ASSUME StartInv, StackInv, [Next]_vars, pc' = "loaded" PROVE StackInv'
  BY DEF StackInv
<1>1. CASE SetupStack
  <2>1. /\ pc = "headers" /\ UNCHANGED segments /\ pool # {} /\ StackPage \notin DOMAIN pagedir
        /\ Map(StackPage, [i \in 0 .. PGSIZE - 1 |-> 0], TRUE)
    BY <1>1 DEF SetupStack
  <2>2. StackPage \in DOMAIN pagedir' /\ pagedir'[StackPage].writable
    BY <2>1, MapProperties DEF StartInv
  <2>3. \A n \in 1 .. Len(segments) : \A i \in 0 .. segments[n].p_memsz - 1 :
          PageOf(segments[n].p_vaddr + i) # StackPage
    BY <2>1 DEF StartInv, ImageInv, Exact
  <2> QED BY <2>1, <2>2, <2>3 DEF StackInv
<1>2. CASE UNCHANGED vars
  BY <1>2 DEF StackInv, vars
<1> QED BY <1>1, <1>2 DEF Next, LoadFails, ReadElfHeader, IgnoreHeader, RefuseHeader, LoadSegment,
        LoadPage, LoadPageFails, SegmentLoaded, ParseArguments, Exit, InLoop

LEMMA NextType == StartInv /\ TypeOK /\ LineInv /\ [Next]_vars => TypeOK'
<1> SUFFICES ASSUME StartInv, TypeOK, LineInv, [Next]_vars PROVE TypeOK'
  OBVIOUS
<1>1. LoopType' /\ PageTypes' /\ LineInv' /\ MemoryInv' /\ UserSpaceOnly' /\ ImageInv' /\ LoopInv'
  <2>1. LoopType /\ PageTypes
    BY DEF TypeOK, LoopType, PageTypes
  <2> QED BY <2>1, NextLoopType, NextPageTypes, NextLine, NextMemory, NextImage, NextLoop
<1>2. pc' \in PC
  BY DEF Next, LoadFails, ReadElfHeader, IgnoreHeader, RefuseHeader, LoadSegment, LoadPage,
     LoadPageFails, SegmentLoaded, SetupStack, ParseArguments, Exit, vars, TypeOK, PC
<1>3. phnum' \in 0 .. MaxHeaders
  <2>1. MaxHeaders \in Nat /\ phnum \in 0 .. MaxHeaders
    BY StartAssumption DEF TypeOK
  <2>2. phnum' = phnum \/ phnum' = 0 \/ phnum' \in 0 .. MaxHeaders \/ (phnum > 0 /\ phnum' = phnum - 1)
    BY DEF Next, LoadFails, ReadElfHeader, IgnoreHeader, RefuseHeader, LoadSegment, LoadPage,
       LoadPageFails, SegmentLoaded, SetupStack, ParseArguments, Exit, vars
  <2> QED BY <2>1, <2>2
<1>4. segment' \in Header \union {NoSegment}
  <2>1. segment' = segment \/ segment' \in Header \/ segment' = NoSegment
    BY DEF Next, LoadFails, ReadElfHeader, IgnoreHeader, RefuseHeader, LoadSegment, LoadPage,
       LoadPageFails, SegmentLoaded, SetupStack, ParseArguments, Exit, vars, segmentVars, NoLoop
  <2> QED BY <2>1 DEF TypeOK
<1>5. esp' \in 0 .. PHYS_BASE
  <2>1. CASE ParseArguments /\ pc' = "run"
    <3>1. PICK cmd \in CommandLine :
           /\ FirstWord(cmd) # << >>
           /\ esp' = FinalEsp(PHYS_BASE, Words(cmd))
           /\ \A a \in DOMAIN Stack(PHYS_BASE, Words(cmd)) : PageOf(a) \in DOMAIN pagedir
      BY <2>1, Parsed DEF StartInv
    <3>2. PICK stack : stack = Stack(PHYS_BASE, Words(cmd))
      OBVIOUS
    <3> QED BY <3>1, <3>2, ParsedBytes DEF StartInv
  <2>2. CASE ~(ParseArguments /\ pc' = "run")
    <3>1. esp' = esp \/ esp' = 0 \/ esp' = PHYS_BASE
      BY <2>2 DEF Next, LoadFails, ReadElfHeader, IgnoreHeader, RefuseHeader, LoadSegment, LoadPage,
         LoadPageFails, SegmentLoaded, SetupStack, ParseArguments, Exit, vars
    <3> QED BY <3>1, PageType DEF TypeOK
  <2> QED BY <2>1, <2>2
<1>6. \A u \in DOMAIN pagedir' : /\ pagedir'[u].kpage \in Page /\ pagedir'[u].writable \in BOOLEAN
                                 /\ pagedir'[u].bytes \in [0 .. PGSIZE - 1 -> Nat]
  BY <1>1 DEF PageTypes, MemoryInv, PagesAccounted
<1> QED BY <1>1, <1>2, <1>3, <1>4, <1>5, <1>6
        DEF TypeOK, LoopType, LineInv, MemoryInv, ImageInv

\* Arguments that fit leave the segments as they were.
LEMMA NextImageIsExact ==
  StartInv /\ StackInv /\ ImageIsExact /\ [Next]_vars => ImageIsExact'
<1> SUFFICES ASSUME StartInv, StackInv, ImageIsExact, [Next]_vars PROVE ImageIsExact'
  OBVIOUS
<1>1. CASE pc' = "loaded"
  <2>1. ImageInv'
    BY NextImage
  <2> QED BY <1>1, <2>1 DEF ImageInv, ImageIsExact, Exact
<1>2. CASE ParseArguments /\ pc' = "run"
  <2>1. PICK cmd \in CommandLine :
           /\ FirstWord(cmd) # << >> /\ line' = cmd
           /\ DOMAIN pagedir' = DOMAIN pagedir
           /\ \A u \in DOMAIN pagedir :
                /\ pagedir'[u].writable = pagedir[u].writable
                /\ pagedir'[u].bytes = [i \in 0 .. PGSIZE - 1 |->
                     IF PGSIZE * u + i \in DOMAIN Stack(PHYS_BASE, Words(cmd))
                     THEN Stack(PHYS_BASE, Words(cmd))[PGSIZE * u + i]
                     ELSE pagedir[u].bytes[i]]
    BY <1>2, Parsed DEF StartInv
  <2>2. pc = "loaded" /\ UNCHANGED segments
    BY <1>2 DEF ParseArguments
  <2>3. PICK stack : stack = Stack(PHYS_BASE, Words(cmd))
    OBVIOUS
  <2>4. ASSUME Fits(line)', NEW a \in DOMAIN stack
        PROVE  a \in Int /\ PageOf(a) = StackPage
    <3>1. /\ a \in FinalEsp(PHYS_BASE, Words(cmd)) .. PHYS_BASE - 1
          /\ FinalEsp(PHYS_BASE, Words(cmd)) \in Int
      BY <2>1, <2>3, Command, StackRange, EspProperties, TopAligned
    <3>2. PHYS_BASE - FinalEsp(PHYS_BASE, Words(cmd)) <= PGSIZE
      BY <2>1, <2>4 DEF Fits
    <3>3. a \in Int /\ a < PHYS_BASE /\ a >= PHYS_BASE - PGSIZE
      BY <3>1, <3>2, PageType
    <3> QED BY <3>3, AddressPage
  <2>5. ASSUME Fits(line)', NEW n \in 1 .. Len(segments), NEW i \in 0 .. segments[n].p_memsz - 1
        PROVE  Exact(segments[n], i)'
    <3>1. PICK h : h = segments[n]
      OBVIOUS
    <3> DEFINE a == h.p_vaddr + i
    <3>2. h \in Header /\ Exact(h, i) /\ PageOf(a) # StackPage
      <4>1. segments \in Seq(Header)
        BY DEF StartInv, ImageInv
      <4>2. h \in Header
        BY <3>1, <4>1, ElementOfSeq
      <4>3. Exact(h, i)
        BY <2>2, <3>1 DEF StartInv, ImageInv
      <4>4. PageOf(a) # StackPage
        BY <2>2, <3>1 DEF StackInv
      <4> QED BY <4>2, <4>3, <4>4
    <3>3. i \in Nat
      BY <3>1, <3>2, HeaderType
    <3>4. /\ a % PGSIZE \in 0 .. PGSIZE - 1
          /\ a = PGSIZE * PageOf(a) + (a % PGSIZE)
      BY <3>2, <3>3, BytePage
    <3> DEFINE u == PageOf(a)
    <3>5. u \in DOMAIN pagedir
      BY <3>2 DEF Exact
    <3>6. a \notin DOMAIN stack
      BY <2>4, <2>5, <3>2
    <3>7. pagedir'[u].bytes[a % PGSIZE] = pagedir[u].bytes[a % PGSIZE]
      <4> HIDE DEF u, a
      <4>1. pagedir'[u].bytes = [k \in 0 .. PGSIZE - 1 |->
                     IF PGSIZE * u + k \in DOMAIN stack
                     THEN stack[PGSIZE * u + k] ELSE pagedir[u].bytes[k]]
        BY <2>1, <2>3, <3>5
      <4>2. PICK k : k = a % PGSIZE
        OBVIOUS
      <4>3. k \in 0 .. PGSIZE - 1 /\ PGSIZE * u + k = a
        BY <3>4, <4>2 DEF u
      <4>4. pagedir'[u].bytes[k] = pagedir[u].bytes[k]
        BY <3>6, <4>1, <4>3
      <4> QED BY <4>2, <4>4
    <3>8. u \in DOMAIN pagedir' /\ pagedir'[u].writable = pagedir[u].writable
      BY <2>1, <3>5
    <3>9. Exact(h, i)'
      BY <3>2, <3>7, <3>8 DEF Exact, Byte
    <3> QED BY <2>2, <3>1, <3>9 DEF Exact, Byte
  <2>6. ASSUME Fits(line)', NEW n \in 1 .. Len(segments'), NEW i \in 0 .. segments'[n].p_memsz - 1
        PROVE  Exact(segments[n], i)'
    BY <2>2, <2>5, <2>6
  <2> QED BY <1>2, <2>6 DEF ImageIsExact, Exact
<1>3. CASE UNCHANGED vars
  BY <1>3 DEF ImageIsExact, Byte, vars, Fits
<1>4. CASE ~(ParseArguments /\ pc' = "run") /\ pc' # "loaded" /\ Next
  <2>1. pc' # "run"
    BY <1>4 DEF Next, LoadFails, ReadElfHeader, IgnoreHeader, RefuseHeader, LoadSegment,
       LoadPage, LoadPageFails, SegmentLoaded, SetupStack, ParseArguments, Exit, InLoop
  <2> QED BY <1>4, <2>1 DEF ImageIsExact
<1> QED BY <1>1, <1>2, <1>3, <1>4

\* Arguments that fit do not make parsing_filename fault on the stack.
LEMMA FittingSucceeds ==
  ASSUME StartInv, StackInv, ParseArguments, pc' = "abort", Last(line') # Space
  PROVE  ~Fits(line)'
<1> SUFFICES ASSUME Fits(line)' PROVE FALSE
  OBVIOUS
<1>1. PICK cmd \in CommandLine :
        /\ FirstWord(cmd) # << >> /\ line' = cmd
        /\ ~(/\ ~ReadsNull(SingleSpaced(cmd))
             /\ \A u \in {PageOf(a) : a \in DOMAIN StackOf[cmd]} :
                  u \in DOMAIN pagedir /\ pagedir[u].writable)
  BY DEF ParseArguments
<1>2. /\ StackOf[cmd] = Stack(PHYS_BASE, Words(cmd)) /\ Words(cmd) \in Seq(Line)
      /\ ~ReadsNull(SingleSpaced(cmd))
  BY <1>1, Command
<1>3. PHYS_BASE - FinalEsp(PHYS_BASE, Words(cmd)) <= PGSIZE
  BY <1>1 DEF Fits
<1>4. PICK a \in DOMAIN StackOf[cmd] :
        ~(PageOf(a) \in DOMAIN pagedir /\ pagedir[PageOf(a)].writable)
  BY <1>1, <1>2
<1>5. /\ a \in FinalEsp(PHYS_BASE, Words(cmd)) .. PHYS_BASE - 1
      /\ FinalEsp(PHYS_BASE, Words(cmd)) \in Int
  BY <1>2, <1>4, StackRange, EspProperties, TopAligned
<1>6. a \in Int /\ a < PHYS_BASE /\ a >= PHYS_BASE - PGSIZE
  BY <1>3, <1>5, PageType
<1>7. PageOf(a) = StackPage
  BY <1>6, AddressPage
<1>8. StackPage \in DOMAIN pagedir /\ pagedir[StackPage].writable
  BY DEF StackInv, ParseArguments
<1> QED BY <1>4, <1>7, <1>8

\* parsing_filename leaves the words where the program looks for them.
LEMMA ParsedWords ==
  ASSUME StartInv, ParseArguments, pc' = "run"
  PROVE  ArgumentsAreWords'
<1>0. MemoryInv /\ UserSpaceOnly
  BY DEF StartInv
<1>1. PICK cmd \in CommandLine :
         /\ FirstWord(cmd) # << >> /\ line' = cmd
         /\ esp' = FinalEsp(PHYS_BASE, Words(cmd))
         /\ DOMAIN pagedir' = DOMAIN pagedir
         /\ \A u \in DOMAIN pagedir :
              pagedir'[u].bytes = [i \in 0 .. PGSIZE - 1 |->
                   IF PGSIZE * u + i \in DOMAIN Stack(PHYS_BASE, Words(cmd))
                   THEN Stack(PHYS_BASE, Words(cmd))[PGSIZE * u + i]
                   ELSE pagedir[u].bytes[i]]
         /\ \A a \in DOMAIN Stack(PHYS_BASE, Words(cmd)) : PageOf(a) \in DOMAIN pagedir
  BY <1>0, Parsed
<1> DEFINE argv == Words(cmd)
           e == FinalEsp(PHYS_BASE, argv)
           n == Len(argv)
           at == StringsFrom(PHYS_BASE, argv)
           stack == Stack(PHYS_BASE, argv)
           Now(a) == pagedir'[PageOf(a)].bytes[a % PGSIZE]
<1>2. argv \in Seq(Line)
  BY <1>1, Command
<1>3. ASSUME NEW a \in DOMAIN stack PROVE Now(a) = stack[a]
  <2>1. PageOf(a) \in DOMAIN pagedir
    BY <1>1
  <2>2. a % PGSIZE \in 0 .. PGSIZE - 1 /\ PGSIZE * PageOf(a) + (a % PGSIZE) = a
    BY <1>0, <1>1, ParsedBytes
  <2>3. PICK u, k : u = PageOf(a) /\ k = a % PGSIZE
    OBVIOUS
  <2>4. pagedir'[u].bytes = [i \in 0 .. PGSIZE - 1 |->
                   IF PGSIZE * u + i \in DOMAIN stack
                   THEN stack[PGSIZE * u + i] ELSE pagedir[u].bytes[i]]
    BY <1>1, <2>1, <2>3
  <2> HIDE DEF stack
  <2>5. pagedir'[u].bytes[k] = stack[a]
    BY <2>2, <2>3, <2>4
  <2> QED BY <2>3, <2>5
<1>4. /\ e \in DOMAIN stack /\ stack[e] = 0
      /\ e + 4 \in DOMAIN stack /\ stack[e + 4] = n
      /\ e + 8 \in DOMAIN stack /\ stack[e + 8] = e + 12
      /\ e + 12 + 4 * n \in DOMAIN stack /\ stack[e + 12 + 4 * n] = 0
      /\ \A j \in 1 .. n : /\ e + 12 + 4 * (j - 1) \in DOMAIN stack
                           /\ stack[e + 12 + 4 * (j - 1)] = at[j]
  BY <1>2, StackWords, TopAligned
<1>5. e \in Int /\ e % 4 = 0
  BY <1>2, EspProperties, TopAligned
<1>6. /\ Now(e) = 0 /\ Now(e + 4) = n /\ Now(e + 8) = e + 12 /\ Now(e + 12 + 4 * n) = 0
      /\ \A j \in 1 .. n : Now(e + 12 + 4 * (j - 1)) = at[j]
  <2> HIDE DEF Now, stack, at, n, e, argv
  <2> QED BY <1>3, <1>4
<1>7. ASSUME NEW j \in 1 .. n
      PROVE  /\ \A k \in 1 .. Len(argv[j]) : Now(at[j] + k - 1) = argv[j][k]
             /\ Now(at[j] + Len(argv[j])) = 0
  <2>1. Len(argv[j]) \in Nat /\ at[j] \in Int
    <3>1. /\ n \in Nat /\ Len(argv[j]) \in Nat
          /\ \A m \in 1 .. n + 1 : at[m] \in Int
      BY <1>2, StringsProperties, TopAligned
    <3> HIDE DEF n, at
    <3>2. j \in 1 .. n + 1
      BY <3>1
    <3> QED BY <3>1, <3>2
  <2>2. ASSUME NEW k \in 0 .. Len(argv[j])
        PROVE  Now(at[j] + k) = IF k < Len(argv[j]) THEN argv[j][k + 1] ELSE 0
    <3>1. /\ at[j] + k \in DOMAIN stack
          /\ stack[at[j] + k] = IF k < Len(argv[j]) THEN argv[j][k + 1] ELSE 0
      BY <1>2, StackStrings, TopAligned
    <3>2. PICK a : a = at[j] + k
      OBVIOUS
    <3> HIDE DEF stack, Now, at, argv, n
    <3>3. Now(a) = stack[a]
      BY <1>3, <3>1, <3>2
    <3> QED BY <3>1, <3>2, <3>3
  <2> DEFINE size == Len(argv[j])
  <2> HIDE DEF Now, at, argv, n
  <2>3. ASSUME NEW k \in 1 .. size PROVE Now(at[j] + k - 1) = argv[j][k]
    <3>1. PICK m : m = k - 1
      OBVIOUS
    <3>2. m \in 0 .. size /\ m < size /\ m + 1 = k /\ at[j] + k - 1 = at[j] + m
      BY <2>1, <3>1
    <3>3. Now(at[j] + m) = argv[j][m + 1]
      BY <2>2, <3>2
    <3> QED BY <3>2, <3>3
  <2>4. Now(at[j] + size) = 0
    <3>1. size \in 0 .. size /\ ~(size < size)
      BY <2>1
    <3> QED BY <2>2, <3>1
  <2> QED BY <2>3, <2>4
<1>8. \A a : Byte(a)' = Now(a)
  BY DEF Byte
<1>9. /\ esp' % 4 = 0 /\ Byte(esp)' = 0 /\ Byte(esp + 4)' = n /\ Byte(esp + 8)' = e + 12
      /\ Byte(Byte(esp + 8) + 4 * Byte(esp + 4))' = 0
      /\ \A j \in 1 .. n : Byte(Byte(esp + 8) + 4 * (j - 1))' = at[j]
  <2>1. esp' = e
    BY <1>1
  <2>2. Byte(esp)' = Now(e) /\ Byte(esp + 4)' = Now(e + 4) /\ Byte(esp + 8)' = Now(e + 8)
    BY <2>1 DEF Byte
  <2>3. Byte(Byte(esp + 8) + 4 * Byte(esp + 4))' = Now(Byte(esp + 8)' + 4 * Byte(esp + 4)')
    BY DEF Byte
  <2>4. \A j \in 1 .. n : Byte(Byte(esp + 8) + 4 * (j - 1))' = Now(Byte(esp + 8)' + 4 * (j - 1))
    BY DEF Byte
  <2> HIDE DEF Now, e, n, at
  <2>5. Byte(esp + 4)' = n /\ Byte(esp + 8)' = e + 12
    BY <1>6, <2>2
  <2>6. Byte(Byte(esp + 8) + 4 * Byte(esp + 4))' = 0
    BY <1>6, <2>3, <2>5
  <2>7. \A j \in 1 .. n : Byte(Byte(esp + 8) + 4 * (j - 1))' = at[j]
    BY <1>6, <2>4, <2>5
  <2> QED BY <1>5, <1>6, <2>1, <2>2, <2>5, <2>6, <2>7
<1>10. \A j \in 1 .. n :
         /\ \A k \in 1 .. Len(argv[j]) : Byte(at[j] + k - 1)' = argv[j][k]
         /\ Byte(at[j] + Len(argv[j]))' = 0
  BY <1>7 DEF Byte
<1>11. pc' = "run" /\ Words(line)' = argv
  BY <1>1
<1> HIDE DEF Now, e, n, at, argv, stack
<1> QED BY <1>9, <1>10, <1>11 DEF ArgumentsAreWords, n

--------------------------------------------------------------------------------
(* The theorems.                                                           *)

\* The inductive invariant.
THEOREM StartInvariant == Spec => []StartInv
<1>1. Init => StartInv
  <2> SUFFICES ASSUME Init PROVE StartInv
    OBVIOUS
  <2>1. pc = "load" /\ pool = Page /\ pagedir = NoMapping /\ DOMAIN NoMapping = {} /\ segments = << >>
    BY DEF Init, NoMapping
  <2>2. NoMapping = [u \in DOMAIN NoMapping |->
                       [kpage |-> NoMapping[u].kpage, bytes |-> NoMapping[u].bytes,
                        writable |-> NoMapping[u].writable]]
    BY DEF NoMapping
  <2> QED BY <2>1, <2>2 DEF StartInv, MemoryInv, PagesAccounted, UserSpaceOnly, LoopInv, ImageInv
<1>2. StartInv /\ [Next]_vars => StartInv'
  BY NextMemory, NextLoop, NextImage DEF StartInv
<1> QED BY <1>1, <1>2, PTL DEF Spec

\* Whatever headers the file has, and however wide an address is, nothing is mapped on page 0
\* or from PHYS_BASE on.
THEOREM UserSpaceKept == Spec => []UserSpaceOnly
<1>1. StartInv => UserSpaceOnly
  BY DEF StartInv
<1> QED BY <1>1, StartInvariant, PTL

\* However load ends, every page of the pool is free or mapped, once.
THEOREM NoPageLost == Spec => []PagesAccounted
<1>1. StartInv => PagesAccounted
  BY DEF StartInv, MemoryInv
<1> QED BY <1>1, StartInvariant, PTL

LEMMA NextArguments ==
  StartInv /\ StackInv /\ LineInv /\ ArgumentsAreWords /\ [Next]_vars => ArgumentsAreWords'
<1> SUFFICES ASSUME StartInv, StackInv, LineInv, ArgumentsAreWords, [Next]_vars
             PROVE  ArgumentsAreWords'
  OBVIOUS
<1>1. CASE ParseArguments /\ pc' = "run"
  BY <1>1, ParsedWords
<1>2. CASE ParseArguments /\ pc' # "run"
  <2>1. pc' = "abort"
    BY <1>2 DEF ParseArguments
  <2>2. Last(line') # Space => ~Fits(line)'
    BY <1>2, <2>1, FittingSucceeds
  <2>3. pc' # "run"
    BY <1>2
  <2> QED BY <2>2, <2>3 DEF ArgumentsAreWords
<1>3. CASE UNCHANGED vars
  <2> DEFINE At(map, a) == map[PageOf(a)].bytes[a % PGSIZE]
             Ready(map, l, sp) ==
               LET argc == At(map, sp + 4)
                   argv == At(map, sp + 8)
               IN  /\ sp % 4 = 0 /\ At(map, sp) = 0
                   /\ argc = Len(Words(l)) /\ At(map, argv + 4 * argc) = 0
                   /\ \A j \in 1 .. argc :
                        LET string == At(map, argv + 4 * (j - 1))
                            word == Words(l)[j]
                        IN  /\ \A k \in 1 .. Len(word) : At(map, string + k - 1) = word[k]
                            /\ At(map, string + Len(word)) = 0
             Right(p, map, l, sp) ==
               /\ p = "abort" /\ l # << >> => Last(l) = Space \/ ~Fits(l)
               /\ p = "run" => Ready(map, l, sp)
  <2>1. Right(pc, pagedir, line, esp)
    BY DEF ArgumentsAreWords, Byte
  <2>2. ArgumentsAreWords' <=> Right(pc', pagedir', line', esp')
    BY DEF ArgumentsAreWords, Byte, Fits
  <2>3. pc' = pc /\ pagedir' = pagedir /\ line' = line /\ esp' = esp
    BY <1>3 DEF vars
  <2> HIDE DEF Right
  <2> QED BY <2>1, <2>2, <2>3
<1>4. CASE Next /\ ~ParseArguments
  <2>1. pc' # "run" /\ (pc' = "abort" => UNCHANGED line /\ pc \notin {"abort", "run"})
    BY <1>4 DEF Next, LoadFails, ReadElfHeader, IgnoreHeader, RefuseHeader, LoadSegment,
       LoadPage, LoadPageFails, SegmentLoaded, SetupStack, Exit, InLoop
  <2>2. pc' = "abort" => line' = << >>
    BY <2>1 DEF LineInv
  <2> QED BY <2>1, <2>2 DEF ArgumentsAreWords
<1> QED BY <1>1, <1>2, <1>3, <1>4

\* What is mapped and written, up to the program's first instruction.
THEOREM RunInvariant == Spec => []RunInv
<1>1. Init => RunInv
  <2> SUFFICES ASSUME Init PROVE RunInv
    OBVIOUS
  <2>1. /\ pc = "load" /\ pool = Page /\ DOMAIN pagedir = {} /\ phnum = 0 /\ segment = NoSegment
        /\ upage = 0 /\ pos = 0 /\ read_bytes = 0 /\ zero_bytes = 0 /\ esp = 0 /\ line = << >>
        /\ segments = << >>
    BY DEF Init, NoMapping
  <2>2. TypeOK
    BY <2>1, StartAssumption, PageType DEF TypeOK, PC
  <2> QED BY <2>1, <2>2 DEF RunInv, LineInv, StackInv, ImageIsExact, ArgumentsAreWords
<1>2. StartInv /\ RunInv /\ [Next]_vars => RunInv'
  <2> SUFFICES ASSUME StartInv, RunInv, [Next]_vars PROVE RunInv'
    OBVIOUS
  <2>1. TypeOK /\ LineInv /\ StackInv /\ ImageIsExact /\ ArgumentsAreWords
    BY DEF RunInv
  <2> QED BY <2>1, NextType, NextLine, NextStack, NextImageIsExact, NextArguments DEF RunInv
<1> QED BY <1>1, <1>2, StartInvariant, PTL DEF Spec

\* Every variable stays in its domain; so no unsigned number of load_segment wraps around
\* below 0, and *esp is an address of the user's.
THEOREM StartTypeCorrect == Spec => []TypeOK
<1>1. RunInv => TypeOK
  BY DEF RunInv
<1> QED BY <1>1, RunInvariant, PTL

\* What load puts into memory is what the headers describe, for every alignment and size, and
\* still is when the program starts, if its arguments fit the stack's page.
THEOREM LoadIsExact == Spec => []ImageIsExact
<1>1. RunInv => ImageIsExact
  BY DEF RunInv
<1> QED BY <1>1, RunInvariant, PTL

\* However the words of the command line are spaced, a program that starts finds argc of them
\* through argv; and it starts unless a space ends the line or the arguments are larger than
\* the stack's page.
THEOREM ArgumentsFound == Spec => []ArgumentsAreWords
<1>1. RunInv => ArgumentsAreWords
  BY DEF RunInv
<1> QED BY <1>1, RunInvariant, PTL
================================================================================
