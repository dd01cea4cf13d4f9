----------------------------- MODULE MlfqsProofs -----------------------------
(***************************************************************************)
(* Proofs about Mlfqs, for any set of threads that a memory can hold, any  *)
(* width of an int and precision of a fixed-point number, any arguments of *)
(* thread_set_nice and any frequency of the timer: the numbers stay in     *)
(* their ranges, no thread is lost, the run queue is in order, and what a  *)
(* tick charges.                                                           *)
(***************************************************************************)
EXTENDS Mlfqs, ThreadsProofs

--------------------------------------------------------------------------------
(* Fixed-point numbers.                                                    *)

\* Division with a remainder.
LEMMA DivMod ==
  ASSUME NEW M \in Nat \ {0}, NEW a \in Int
  PROVE  /\ a \div M \in Int /\ a % M \in 0 .. M - 1
         /\ a = M * (a \div M) + (a % M)
OBVIOUS

\* The remainder is determined by its range.
LEMMA RemainderIsUnique ==
  ASSUME NEW M \in Nat \ {0}, NEW d \in Int, NEW e \in Int, NEW r \in 0 .. M - 1, NEW q \in 0 .. M - 1,
         M * d + r = M * e + q
  PROVE  r = q
<1>1. M * (d - e) = q - r
  OBVIOUS
<1>2. ASSUME d - e >= 1 PROVE FALSE
  <2>1. M * (d - e) >= M
    BY <1>2
  <2> QED BY <1>1, <2>1
<1>3. ASSUME d - e <= -1 PROVE FALSE
  <2>1. M * (d - e) <= -M
    BY <1>3
  <2> QED BY <1>1, <2>1
<1>4. d = e
  BY <1>2, <1>3
<1> QED BY <1>1, <1>4

\* An int is the number converted, up to a multiple of 2 ^ 32, and there is one such int.
LEMMA WrapProperties ==
  ASSUME NEW x \in Int
  PROVE  /\ Wrap(x) \in Int32
         /\ \E k \in Int : Wrap(x) = x + 2 * (IntMax + 1) * k
         /\ x \in Int32 => Wrap(x) = x
<1> DEFINE M == 2 * (IntMax + 1)
           y == x + IntMax + 1
<1>1. IntMax \in Nat /\ M \in Nat \ {0} /\ y \in Int
  BY FixedPointAssumption
<1>2. Wrap(x) = (y % M) - (IntMax + 1)
  BY DEF Wrap
<1> HIDE DEF M, y
<1>3. y \div M \in Int /\ y % M \in 0 .. M - 1 /\ y = M * (y \div M) + (y % M)
  BY <1>1, DivMod
<1>4. Wrap(x) \in Int32
  BY <1>1, <1>2, <1>3 DEF Int32, M
<1>5. Wrap(x) = x + M * (0 - (y \div M))
  <2>1. M * (0 - (y \div M)) = 0 - M * (y \div M)
    BY <1>1, <1>3
  <2>2. M * (y \div M) \in Int
    BY <1>1, <1>3
  <2> QED BY <1>1, <1>2, <1>3, <2>1, <2>2 DEF y
<1>6. ASSUME x \in Int32 PROVE Wrap(x) = x
  <2>1. y \in 0 .. M - 1
    BY <1>1, <1>6 DEF y, M, Int32
  <2>2. M * 0 + y = M * (y \div M) + (y % M)
    BY <1>1, <1>3
  <2>3. y = y % M
    BY <1>1, <1>3, <2>1, <2>2, RemainderIsUnique
  <2> QED BY <1>1, <1>2, <2>3 DEF y
<1>7. 0 - (y \div M) \in Int
  BY <1>3
<1> QED BY <1>4, <1>5, <1>6, <1>7 DEF M

\* Numbers that differ by a multiple of 2 ^ 32 are the same int.
LEMMA WrapIsUnique ==
  ASSUME NEW x \in Int, NEW k \in Int
  PROVE  Wrap(x + 2 * (IntMax + 1) * k) = Wrap(x)
<1> DEFINE M == 2 * (IntMax + 1)
           z == x + M * k
<1>1. IntMax \in Nat /\ M \in Nat \ {0} /\ M * k \in Int /\ z \in Int
  BY FixedPointAssumption
<1> HIDE DEF M, z
<1>2. PICK i \in Int : Wrap(x) = x + M * i
  BY WrapProperties DEF M
<1>3. PICK j \in Int : Wrap(z) = z + M * j
  BY <1>1, WrapProperties DEF M
<1>4. Wrap(x) \in Int32 /\ Wrap(z) \in Int32
  BY <1>1, WrapProperties
<1> DEFINE r == Wrap(x) + IntMax + 1
           q == Wrap(z) + IntMax + 1
<1>5. r \in 0 .. M - 1 /\ q \in 0 .. M - 1
  BY <1>1, <1>4 DEF Int32, M
<1>6. M * (k + j) + r = M * i + q
  <2>1. M * (k + j) = M * k + M * j /\ M * j \in Int /\ M * i \in Int
    BY <1>1
  <2> QED BY <1>1, <1>2, <1>3, <2>1 DEF z
<1>7. k + j \in Int
  OBVIOUS
<1> HIDE DEF r, q
<1>8. r = q
  BY <1>1, <1>5, <1>6, <1>7, RemainderIsUnique
<1>9. Wrap(x) \in Int /\ Wrap(z) \in Int
  BY <1>1, <1>4 DEF Int32
<1>10. IntMax \in Int
  BY FixedPointAssumption
<1>11. Wrap(x) + IntMax + 1 = Wrap(z) + IntMax + 1
  BY <1>8 DEF r, q
<1>12. Wrap(x) = Wrap(z)
  BY <1>9, <1>10, <1>11
<1> QED BY <1>12 DEF z, M

\* An addition in an int may convert its operands first.
LEMMA WrapAdd ==
  ASSUME NEW x \in Int, NEW y \in Int
  PROVE  Wrap(Wrap(x) + y) = Wrap(x + y)
<1>1. PICK k \in Int : Wrap(x) = x + 2 * (IntMax + 1) * k
  BY WrapProperties
<1>2. 2 * (IntMax + 1) * k \in Int
  BY FixedPointAssumption
<1>3. Wrap(x) + y = (x + y) + 2 * (IntMax + 1) * k
  BY <1>1, <1>2
<1> QED BY <1>3, WrapIsUnique

\* C's division by a number that is not 0 is defined.
LEMMA QuotientType ==
  ASSUME NEW x \in Int, NEW y \in Int \ {0}
  PROVE  Quotient(x, y) \in Int
<1> DEFINE ax == IF x < 0 THEN -x ELSE x
           ay == IF y < 0 THEN -y ELSE y
<1>1. ax \in Int /\ ay \in Nat \ {0}
  OBVIOUS
<1>2. Quotient(x, y) = IF (x < 0) = (y < 0) THEN ax \div ay ELSE -(ax \div ay)
  BY DEF Quotient
<1> HIDE DEF ax, ay
<1>3. ax \div ay \in Int
  BY <1>1, DivMod
<1> QED BY <1>2, <1>3

\* The quotient of numbers that are not negative lies below the dividend.
LEMMA QuotientOfNat ==
  ASSUME NEW x \in Nat, NEW y \in Nat \ {0}
  PROVE  Quotient(x, y) \in Nat /\ y * Quotient(x, y) <= x
<1>1. Quotient(x, y) = x \div y
  BY DEF Quotient
<1>2. x \div y \in Int /\ x % y \in 0 .. y - 1 /\ x = y * (x \div y) + (x % y)
  BY DivMod
<1> DEFINE d == x \div y
<1>3. d >= 0
  <2> HIDE DEF d
  <2> SUFFICES ASSUME d <= -1 PROVE FALSE
    BY <1>2 DEF d
  <2>1. d \in Int /\ y * d <= -y
    BY <1>2 DEF d
  <2> QED BY <1>2, <2>1 DEF d
<1>4. y * d <= x
  <2>1. y * d \in Int
    BY <1>2
  <2> QED BY <1>2, <2>1
<1> QED BY <1>1, <1>2, <1>3, <1>4

\* The conversions return an int.
LEMMA ConversionTypes ==
  ASSUME NEW x \in Int
  PROVE  /\ convert_to_fixed_point(x) \in Int32 /\ convert_to_int_to_nearest(x) \in Int
         /\ Int32 \subseteq Int
<1>1. Mask \in Nat \ {0} /\ IntMax \in Nat /\ Mask \div 2 \in Int
  BY FixedPointAssumption, DivMod
<1>2. x * Mask \in Int /\ x + Mask \div 2 \in Int /\ x - Mask \div 2 \in Int
  BY <1>1
<1>3. Int32 \subseteq Int
  BY <1>1 DEF Int32
<1>4. convert_to_int_to_nearest(x) \in Int
  <2> DEFINE n == IF x >= 0 THEN x + Mask \div 2 ELSE x - Mask \div 2
  <2>1. n \in Int
    BY <1>2
  <2> HIDE DEF n
  <2>2. Wrap(n) \in Int
    BY <1>3, <2>1, WrapProperties
  <2> QED BY <1>1, <2>2, QuotientType DEF convert_to_int_to_nearest, n
<1>5. convert_to_fixed_point(x) \in Int32
  BY <1>2, WrapProperties DEF convert_to_fixed_point
<1> QED BY <1>3, <1>4, <1>5

\* The arithmetic of fixed_point.c returns an int.
LEMMA ArithmeticTypes ==
  ASSUME NEW x \in Int, NEW y \in Int
  PROVE  /\ add_fixed_and_fixed(x, y) \in Int32 /\ add_fixed_and_int(x, y) \in Int32
         /\ substract_fixed_and_fixed(x, y) \in Int32 /\ multiply_fixed_and_int(x, y) \in Int32
         /\ multiply_fixed_and_fixed(x, y) \in Int32
         /\ y # 0 => divide_fixed_and_fixed(x, y) \in Int32 /\ divide_fixed_and_int(x, y) \in Int32
<1>1. Mask \in Nat \ {0}
  BY FixedPointAssumption
<1>2. x * Mask \in Int /\ y * Mask \in Int /\ x * y \in Int
  BY <1>1
<1>3. /\ add_fixed_and_fixed(x, y) \in Int32 /\ add_fixed_and_int(x, y) \in Int32
      /\ substract_fixed_and_fixed(x, y) \in Int32 /\ multiply_fixed_and_int(x, y) \in Int32
  BY <1>2, WrapProperties DEF add_fixed_and_fixed, add_fixed_and_int, substract_fixed_and_fixed,
                              multiply_fixed_and_int
<1>4. multiply_fixed_and_fixed(x, y) \in Int32
  <2>1. Quotient(x * y, Mask) \in Int
    BY <1>1, <1>2, QuotientType
  <2> QED BY <2>1, WrapProperties DEF multiply_fixed_and_fixed
<1>5. ASSUME y # 0 PROVE divide_fixed_and_fixed(x, y) \in Int32 /\ divide_fixed_and_int(x, y) \in Int32
  <2>1. Quotient(x * Mask, y) \in Int /\ Quotient(x, y) \in Int
    BY <1>2, <1>5, QuotientType
  <2> QED BY <2>1, WrapProperties DEF divide_fixed_and_fixed, divide_fixed_and_int
<1> QED BY <1>3, <1>4, <1>5

\* calc_priority returns a priority, whatever recent_cpu and nice are.
LEMMA CalcPriorityType ==
  ASSUME NEW cpu \in Int, NEW n \in Int
  PROVE  CalcPriority(cpu, n) \in PRI_MIN .. PRI_MAX
<1> DEFINE a == substract_fixed_and_fixed(convert_to_fixed_point(PRI_MAX), divide_fixed_and_int(cpu, 4))
           b == substract_fixed_and_fixed(a, multiply_fixed_and_int(convert_to_fixed_point(n), 2))
           result == convert_to_int_to_nearest(b)
<1>1. PRI_MIN \in Int /\ PRI_MAX \in Int /\ PRI_MIN <= PRI_MAX
  BY MlfqsAssumption
<1>2. /\ convert_to_fixed_point(PRI_MAX) \in Int /\ divide_fixed_and_int(cpu, 4) \in Int
      /\ convert_to_fixed_point(n) \in Int
  <2>1. 4 \in Int /\ 4 # 0 /\ Int32 \subseteq Int
    BY ConversionTypes
  <2>2. divide_fixed_and_int(cpu, 4) \in Int32
    BY <2>1, ArithmeticTypes
  <2> QED BY <1>1, <2>1, <2>2, ConversionTypes
<1>3. a \in Int /\ multiply_fixed_and_int(convert_to_fixed_point(n), 2) \in Int
  <2>1. Int32 \subseteq Int /\ 2 \in Int
    BY ConversionTypes
  <2>2. a \in Int32
    BY <1>2, ArithmeticTypes
  <2>3. multiply_fixed_and_int(convert_to_fixed_point(n), 2) \in Int32
    BY <1>2, <2>1, ArithmeticTypes
  <2> QED BY <2>1, <2>2, <2>3
<1> HIDE DEF a
<1>4. b \in Int
  BY <1>3, ConversionTypes, ArithmeticTypes
<1> HIDE DEF b
<1>5. result \in Int
  BY <1>4, ConversionTypes
<1>6. CalcPriority(cpu, n) = IF result > PRI_MAX THEN PRI_MAX
                             ELSE IF result < PRI_MIN THEN PRI_MIN ELSE result
  BY DEF CalcPriority, result, b, a
<1> HIDE DEF result
<1> QED BY <1>1, <1>5, <1>6

\* The first m + 1 powers of two, by recursion.
Powers(f, m) == f = [n \in 0 .. m |-> IF n = 0 THEN 1 ELSE 2 * f[n - 1]]

LEMMA PowersExist == \A m \in Nat : \E f : Powers(f, m)
<1> DEFINE Bad == {m \in Nat : ~\E f : Powers(f, m)}
<1>1. ASSUME Bad # {} PROVE FALSE
  <2>1. PICK m \in Bad : \A k \in Bad : m <= k
    <3>1. Bad \in SUBSET Nat
      OBVIOUS
    <3> HIDE DEF Bad
    <3> QED BY <1>1, <3>1, LeastNatural
  <2>2. m \in Nat /\ ~\E f : Powers(f, m)
    OBVIOUS
  <2>3. CASE m = 0
    <3>1. Powers([n \in 0 .. 0 |-> 1], 0)
      BY DEF Powers
    <3> QED BY <2>2, <2>3, <3>1
  <2>4. CASE m # 0
    <3>1. m - 1 \in Nat /\ m - 1 \notin Bad
      <4> HIDE DEF Bad
      <4> QED BY <2>1, <2>2, <2>4
    <3>2. PICK g : Powers(g, m - 1)
      BY <3>1
    <3> DEFINE f == [n \in 0 .. m |-> IF n = m THEN 2 * g[m - 1] ELSE g[n]]
    <3>3. \A n \in 0 .. m : f[n] = IF n = 0 THEN 1 ELSE 2 * f[n - 1]
      <4> TAKE n \in 0 .. m
      <4>1. CASE n = m
        <5>1. f[n - 1] = g[m - 1] /\ f[n] = 2 * g[m - 1]
          BY <2>2, <2>4, <3>1, <4>1
        <5> HIDE DEF f
        <5> QED BY <2>4, <4>1, <5>1
      <4>2. CASE n # m
        <5>1. n \in 0 .. m - 1 /\ f[n] = g[n] /\ (n # 0 => f[n - 1] = g[n - 1])
          BY <2>2, <4>2
        <5>2. g[n] = IF n = 0 THEN 1 ELSE 2 * g[n - 1]
          BY <3>2, <5>1 DEF Powers
        <5> HIDE DEF f
        <5> QED BY <5>1, <5>2
      <4> QED BY <4>1, <4>2
    <3>4. f = [n \in 0 .. m |-> f[n]]
      OBVIOUS
    <3>5. Powers(f, m)
      <4> HIDE DEF f
      <4> QED BY <3>3, <3>4 DEF Powers
    <3> QED BY <2>2, <3>5
  <2> QED BY <2>3, <2>4
<1> QED BY <1>1

\* There is only one recursion.
LEMMA PowersAgree ==
  ASSUME NEW m \in Nat, NEW k \in Nat, NEW f, NEW g, Powers(f, m), Powers(g, k)
  PROVE  \A n \in Nat : n <= m /\ n <= k => f[n] = g[n]
<1> DEFINE Bad == {n \in Nat : n <= m /\ n <= k /\ f[n] # g[n]}
<1>1. ASSUME Bad # {} PROVE FALSE
  <2>1. PICK n \in Bad : \A i \in Bad : n <= i
    <3>1. Bad \in SUBSET Nat
      OBVIOUS
    <3> HIDE DEF Bad
    <3> QED BY <1>1, <3>1, LeastNatural
  <2>2. n \in Nat /\ n <= m /\ n <= k /\ f[n] # g[n]
    OBVIOUS
  <2>3. /\ f[n] = IF n = 0 THEN 1 ELSE 2 * f[n - 1]
        /\ g[n] = IF n = 0 THEN 1 ELSE 2 * g[n - 1]
    BY <2>2 DEF Powers
  <2>4. n # 0
    BY <2>2, <2>3
  <2>5. n - 1 \in Nat /\ n - 1 \notin Bad
    <3> HIDE DEF Bad
    <3> QED BY <2>1, <2>2, <2>4
  <2>6. f[n - 1] = g[n - 1]
    BY <2>2, <2>5
  <2> QED BY <2>2, <2>3, <2>4, <2>6
<1> QED BY <1>1

\* The recursive function has a value on all natural numbers.
LEMMA PowersDefined ==
  PowerOfTwo = [n \in Nat |-> IF n = 0 THEN 1 ELSE 2 * PowerOfTwo[n - 1]]
<1> DEFINE part(n) == CHOOSE f : Powers(f, n)
           F == [n \in Nat |-> part(n)[n]]
<1>1. \A n \in Nat : Powers(part(n), n)
  BY PowersExist
<1> HIDE DEF part
<1>2. \A n \in Nat : F[n] = IF n = 0 THEN 1 ELSE 2 * F[n - 1]
  <2> TAKE n \in Nat
  <2>1. F[n] = part(n)[n] /\ (n # 0 => n - 1 \in Nat /\ F[n - 1] = part(n - 1)[n - 1])
    OBVIOUS
  <2>2. part(n)[n] = IF n = 0 THEN 1 ELSE 2 * part(n)[n - 1]
    BY <1>1 DEF Powers
  <2>3. n # 0 => part(n)[n - 1] = part(n - 1)[n - 1]
    <3> SUFFICES ASSUME n # 0 PROVE part(n)[n - 1] = part(n - 1)[n - 1]
      OBVIOUS
    <3>1. n - 1 \in Nat /\ n - 1 <= n
      OBVIOUS
    <3> QED BY <1>1, <3>1, PowersAgree
  <2> HIDE DEF F
  <2> QED BY <2>1, <2>2, <2>3
<1>3. F = [n \in Nat |-> F[n]]
  OBVIOUS
<1> HIDE DEF F
<1>4. F = [n \in Nat |-> IF n = 0 THEN 1 ELSE 2 * F[n - 1]]
  BY <1>2, <1>3
<1> QED BY <1>4 DEF PowerOfTwo

LEMMA PowerOfTwoType == \A n \in Nat : PowerOfTwo[n] \in Nat
<1> DEFINE Bad == {n \in Nat : PowerOfTwo[n] \notin Nat}
<1>1. ASSUME Bad # {} PROVE FALSE
  <2>1. PICK n \in Bad : \A i \in Bad : n <= i
    <3>1. Bad \in SUBSET Nat
      OBVIOUS
    <3> HIDE DEF Bad
    <3> QED BY <1>1, <3>1, LeastNatural
  <2>2. PowerOfTwo[n] = IF n = 0 THEN 1 ELSE 2 * PowerOfTwo[n - 1]
    BY PowersDefined
  <2>3. n # 0
    BY <2>2
  <2>4. n - 1 \in Nat /\ n - 1 \notin Bad
    <3>1. n \in Nat
      OBVIOUS
    <3> HIDE DEF Bad
    <3> QED BY <2>1, <2>3, <3>1
  <2> QED BY <2>2, <2>3, <2>4
<1> QED BY <1>1

\* A tick doubles recent_cpu and adds one to it.
LEMMA ChargeDoubles ==
  ASSUME NEW n \in Nat
  PROVE  LET r == Wrap((PowerOfTwo[n] - 1) * Mask)
         IN  Wrap(r + add_fixed_and_int(r, 1)) = Wrap((PowerOfTwo[n + 1] - 1) * Mask)
<1> DEFINE a == (PowerOfTwo[n] - 1) * Mask
           r == Wrap(a)
<1>1. Mask \in Int /\ PowerOfTwo[n] \in Int /\ PowerOfTwo[n + 1] = 2 * PowerOfTwo[n]
  <2>1. n + 1 \in Nat /\ n + 1 # 0 /\ (n + 1) - 1 = n
    OBVIOUS
  <2> QED BY <2>1, FixedPointAssumption, PowerOfTwoType, PowersDefined
<1>2. a \in Int /\ (PowerOfTwo[n + 1] - 1) * Mask = a + (a + Mask)
  BY <1>1
<1> HIDE DEF a
<1>3. r \in Int
  BY <1>2, WrapProperties, ConversionTypes
<1>4. Wrap(r + Mask) \in Int /\ Wrap(r + Mask) = Wrap(a + Mask)
  <2>1. r + Mask \in Int
    BY <1>1, <1>3
  <2> QED BY <1>1, <1>2, <2>1, WrapAdd, WrapProperties, ConversionTypes
<1>5. Wrap(r + Wrap(r + Mask)) = Wrap(a + Wrap(a + Mask))
  BY <1>2, <1>4, WrapAdd
<1>6. Wrap(Wrap(a + Mask) + a) = Wrap((a + Mask) + a)
  <2>1. a + Mask \in Int
    BY <1>1, <1>2
  <2> QED BY <1>2, <2>1, WrapAdd
<1>7. a + Wrap(a + Mask) = Wrap(a + Mask) + a /\ a + (a + Mask) = (a + Mask) + a
  BY <1>1, <1>2, <1>4
<1>8. 1 * Mask = Mask
  BY <1>1
<1> QED BY <1>2, <1>5, <1>6, <1>7, <1>8 DEF add_fixed_and_int, a

--------------------------------------------------------------------------------
(* The end of a second.                                                    *)

\* A positive number below 2 ^ 32 is not converted to 0.
LEMMA WrapNotZero ==
  ASSUME NEW x \in Int, 0 < x, x < 2 * (IntMax + 1)
  PROVE  Wrap(x) # 0
<1> SUFFICES ASSUME Wrap(x) = 0 PROVE FALSE
  OBVIOUS
<1> DEFINE M == 2 * (IntMax + 1)
<1>1. M \in Nat \ {0}
  BY FixedPointAssumption
<1>2. PICK k \in Int : 0 = x + M * k
  BY WrapProperties
<1> HIDE DEF M
<1>3. M * (0 - k) + 0 = M * 0 + x
  <2>1. M * (0 - k) = 0 - M * k /\ M * k \in Int
    BY <1>1
  <2> QED BY <1>1, <1>2, <2>1
<1>4. x \in 0 .. M - 1 /\ 0 \in 0 .. M - 1 /\ 0 - k \in Int
  BY <1>1 DEF M
<1>5. 0 = x
  BY <1>1, <1>3, <1>4, RemainderIsUnique
<1> QED BY <1>5

\* The run queue is not longer than there are threads.
LEMMA ReadyThreads ==
  ASSUME sched \in SchedState, SchedOK(sched)
  PROVE  CountReadyThreads \in Nat /\ CountReadyThreads * Mask <= IntMax
<1> DEFINE q == sched.ready_list
           Q == ListElems(q)
           R == IF sched.current = Idle THEN Q ELSE Q \union {sched.current}
<1>1. /\ q \in Seq(Thread) /\ NoDuplicates(q) /\ sched.current \in Thread
      /\ \A t \in Q : t \in Thread /\ sched.status[t] = "READY"
      /\ sched.status[sched.current] = "RUNNING"
  BY SchedStateType DEF SchedOK, OneRunning, QueueMatchesStatus
<1>2. IsFiniteSet(Q) /\ Cardinality(Q) = Len(q) /\ Len(q) \in Nat
  BY <1>1, ListLength, LenProperties
<1>3. sched.current \notin Q /\ R \in SUBSET Thread
  BY <1>1
<1> HIDE DEF Q
<1>4. IsFiniteSet(R) /\ Cardinality(R) = CountReadyThreads
  <2>1. CASE sched.current = Idle
    BY <1>2, <2>1 DEF CountReadyThreads
  <2>2. CASE sched.current # Idle
    <3>1. IsFiniteSet(Q \union {sched.current}) /\ Cardinality(Q \union {sched.current}) = Len(q) + 1
      BY <1>2, <1>3, FS_AddElement
    <3> QED BY <2>2, <3>1 DEF CountReadyThreads
  <2> QED BY <2>1, <2>2
<1> HIDE DEF R
<1>5. Cardinality(R) <= Cardinality(Thread) /\ Cardinality(R) \in Nat /\ Cardinality(Thread) \in Nat
  BY <1>3, <1>4, FewThreads, FS_Subset, FS_CardinalityType
<1>6. Mask \in Nat /\ IntMax \in Nat
  BY FixedPointAssumption
<1>7. Cardinality(R) * Mask <= Cardinality(Thread) * Mask
  BY <1>5, <1>6
<1>8. Cardinality(R) * Mask \in Int /\ Cardinality(Thread) * Mask \in Int
  BY <1>5, <1>6
<1>9. Cardinality(R) * Mask <= IntMax
  <2> DEFINE a == Cardinality(R) * Mask
             b == Cardinality(Thread) * Mask
  <2>1. b <= IntMax
    BY FewThreads
  <2> HIDE DEF a, b
  <2>2. a <= b /\ a \in Int /\ b \in Int
    BY <1>7, <1>8 DEF a, b
  <2>3. a <= IntMax
    BY <1>6, <2>1, <2>2
  <2> QED BY <2>3 DEF a
<1> QED BY <1>4, <1>5, <1>9

\* The first calc_load_avg: no product overflows.
LEMMA FirstLoad ==
  ASSUME sched \in SchedState, SchedOK(sched), load_avg = 0
  PROVE  CalcLoadAvg \in Nat /\ 60 * CalcLoadAvg <= IntMax
<1> DEFINE n == CountReadyThreads * Mask
           q == Quotient(n, 60)
<1>1. IntMax \in Nat /\ Mask \in Nat /\ \A i \in Nat : i <= IntMax => i \in Int32
  BY FixedPointAssumption DEF Int32
<1>2. n \in Nat /\ n <= IntMax
  BY <1>1, ReadyThreads
<1>3. convert_to_fixed_point(CountReadyThreads) = n
  BY <1>1, <1>2, WrapProperties DEF convert_to_fixed_point
<1> HIDE DEF n
<1>4. q \in Nat /\ 60 * q <= n
  BY <1>2, QuotientOfNat
<1> HIDE DEF q
<1>5. q <= IntMax
  BY <1>1, <1>2, <1>4
<1>6. Wrap(q) = q
  BY <1>1, <1>4, <1>5, WrapProperties
<1>7. divide_fixed_and_int(n, 60) = q
  BY <1>6 DEF divide_fixed_and_int, q
<1>8. Wrap(0) = 0
  BY <1>1, WrapProperties
<1>9. Quotient(0, 60) = 0
  <2>1. Quotient(0, 60) \in Nat /\ 60 * Quotient(0, 60) <= 0
    BY QuotientOfNat
  <2> QED BY <2>1
<1>10. divide_fixed_and_int(multiply_fixed_and_int(load_avg, 59), 60) = 0
  BY <1>8, <1>9 DEF divide_fixed_and_int, multiply_fixed_and_int
<1>11. CalcLoadAvg = Wrap(0 + q)
  BY <1>3, <1>7, <1>10 DEF CalcLoadAvg, add_fixed_and_fixed
<1>12. CalcLoadAvg = q
  BY <1>4, <1>6, <1>11
<1> QED BY <1>1, <1>2, <1>4, <1>12

\* The first calc_recent_cpu does not divide by 0.
LEMMA FirstRecentCpu ==
  ASSUME NEW load \in Nat, 60 * load <= IntMax, NEW cpu \in Int, NEW n \in Int
  PROVE  CalcRecentCpu(load, cpu, n) \in Int32
<1> DEFINE twice == multiply_fixed_and_int(load, 2)
           d == add_fixed_and_int(twice, 1)
           q == divide_fixed_and_fixed(twice, d)
           m == multiply_fixed_and_fixed(q, cpu)
<1>1. IntMax \in Nat /\ Mask \in Nat \ {0} /\ Mask <= IntMax /\ Int32 \subseteq Int
  BY FixedPointAssumption, ConversionTypes
<1>2. twice = load * 2 /\ twice \in Nat /\ 30 * twice <= IntMax
  <2>1. load * 2 \in Int32
    BY <1>1 DEF Int32
  <2>2. twice = load * 2
    BY <2>1, WrapProperties DEF multiply_fixed_and_int
  <2> QED BY <2>2
<1> HIDE DEF twice
<1>3. d = Wrap(twice + Mask)
  <2>1. 1 * Mask = Mask
    BY <1>1
  <2> QED BY <2>1 DEF add_fixed_and_int
<1>4. d # 0 /\ d \in Int
  <2>1. twice + Mask \in Int /\ 0 < twice + Mask /\ twice + Mask < 2 * (IntMax + 1)
    BY <1>1, <1>2
  <2> QED BY <1>1, <1>3, <2>1, WrapNotZero, WrapProperties
<1> HIDE DEF d
<1>5. q \in Int
  <2>1. twice \in Int
    BY <1>2
  <2>2. divide_fixed_and_fixed(twice, d) \in Int32
    BY <1>4, <2>1, ArithmeticTypes
  <2> QED BY <1>1, <2>2
<1> HIDE DEF q
<1>6. m \in Int
  BY <1>1, <1>5, ArithmeticTypes
<1> HIDE DEF m
<1>7. add_fixed_and_int(m, n) \in Int32
  BY <1>6, ArithmeticTypes
<1>8. CalcRecentCpu(load, cpu, n) = add_fixed_and_int(m, n)
  BY DEF CalcRecentCpu, m, q, d, twice
<1> QED BY <1>7, <1>8

--------------------------------------------------------------------------------
(* The invariant.                                                          *)

\* What ThreadsAccounted says, of a scheduler's state, a list of the threads and their charges.
Accounted(s, list, cpu) ==
  /\ SchedOK(s) /\ NoDuplicates(list) /\ ListElems(list) = Thread \ Dead(s)
  /\ s.priority[Idle] = PRI_MIN /\ cpu[Idle] = 0

\* The idle thread is never gone and is in no call; who waits is BLOCKED; the clock of an
\* interrupt that still returns is in the first second, before load_avg is computed.
PlaceInv ==
  /\ Idle \notin Dead(sched) /\ pc[Idle] \in {"run", "halt"}
  /\ \A t \in Thread : pc[t] = "wait" => sched.status[t] = "BLOCKED"
  /\ ~stuck => load_avg = 0 /\ ticks < TIMER_FREQ

\* The inductive invariant.
MlfqsInv == TypeOK /\ Accounted(sched, all_list, recent_cpu) /\ PlaceInv

LEMMA AccountedIs == TypeOK => (ThreadsAccounted <=> Accounted(sched, all_list, recent_cpu))
<1> SUFFICES ASSUME TypeOK PROVE ThreadsAccounted <=> Accounted(sched, all_list, recent_cpu)
  OBVIOUS
<1>1. sched.status \in [Thread -> Status]
  BY SchedStateType DEF TypeOK
<1>2. {t \in Thread : sched.status[t] \in {"RUNNING", "READY", "BLOCKED"}} = Thread \ Dead(sched)
  BY <1>1 DEF Dead, Status
<1> QED BY <1>2 DEF ThreadsAccounted, Accounted

LEMMA InitMlfqsInv == Init => MlfqsInv
<1> SUFFICES ASSUME Init PROVE MlfqsInv
  OBVIOUS
<1>1. /\ sched = [current |-> Main,
                  status |-> [t \in Thread |-> CASE t = Main -> "RUNNING" [] t = Idle -> "BLOCKED"
                                                 [] OTHER -> "FREE"],
                  ready_list |-> << >>,
                  priority |-> [t \in Thread |-> IF t = Idle THEN PRI_MIN ELSE PRI_DEFAULT],
                  thread_ticks |-> 0]
      /\ recent_cpu = [t \in Thread |-> 0] /\ nice = [t \in Thread |-> 0]
      /\ all_list = <<Main, Idle>>
      /\ load_avg = 0 /\ ticks = 0 /\ due = [t \in Thread |-> 0]
      /\ pc = [t \in Thread |-> IF t = Idle THEN "halt" ELSE "run"]
      /\ stuck = FALSE /\ ran = [t \in Thread |-> 0]
  BY DEF Init
<1>2. /\ PRI_MIN \in PRI_MIN .. PRI_MAX /\ PRI_DEFAULT \in PRI_MIN .. PRI_MAX
      /\ PRI_MIN \in Int /\ PRI_DEFAULT \in Int /\ 0 \in Int32 /\ 0 \in Nice
      /\ 0 < TIMER_FREQ /\ 0 \in 0 .. TIMER_FREQ
  BY MlfqsAssumption, FixedPointAssumption DEF Int32
<1>3. \A t \in Thread : sched.status[t] = IF t = Main THEN "RUNNING"
                                          ELSE IF t = Idle THEN "BLOCKED" ELSE "FREE"
  BY <1>1, ThreadAssumption
<1>4. sched \in SchedState
  <2>1. sched.status \in [Thread -> Status]
    BY <1>1, <1>3 DEF Status
  <2>2. << >> \in Seq(Thread)
    BY EmptySeq
  <2> QED BY <1>1, <1>2, <2>1, <2>2, ThreadAssumption DEF SchedState
<1>5. all_list \in Seq(Thread) /\ Len(all_list) = 2 /\ all_list[1] = Main /\ all_list[2] = Idle
  BY <1>1, ThreadAssumption
<1>6. TypeOK
  <2>1. sched.priority \in [Thread -> PRI_MIN .. PRI_MAX]
    BY <1>1, <1>2
  <2>2. /\ recent_cpu \in [Thread -> Int32] /\ nice \in [Thread -> Nice]
        /\ load_avg \in Int32 /\ ticks \in 0 .. TIMER_FREQ
    BY <1>1, <1>2
  <2>3. due \in [Thread -> Int] /\ ran \in [Thread -> Nat]
    BY <1>1
  <2>5. stuck \in BOOLEAN
    BY <1>1, Zenon
  <2>4. pc \in [Thread -> PC]
    BY <1>1 DEF PC
  <2> QED BY <1>4, <1>5, <2>1, <2>2, <2>3, <2>4, <2>5 DEF TypeOK
<1>7. SchedOK(sched)
  <2>1. ListElems(sched.ready_list) = {} /\ NoDuplicates(sched.ready_list)
    BY <1>1 DEF ListElems, NoDuplicates
  <2> QED BY <1>1, <1>3, <2>1, ThreadAssumption DEF SchedOK, OneRunning, QueueMatchesStatus
<1>8. ListElems(all_list) = {Main, Idle} /\ NoDuplicates(all_list)
  BY <1>5, ThreadAssumption DEF ListElems, NoDuplicates
<1>9. Thread \ Dead(sched) = {Main, Idle}
  BY <1>3, ThreadAssumption DEF Dead
<1>10. Accounted(sched, all_list, recent_cpu)
  BY <1>1, <1>7, <1>8, <1>9, ThreadAssumption DEF Accounted
<1>11. PlaceInv
  BY <1>1, <1>2, <1>9, ThreadAssumption DEF PlaceInv
<1> QED BY <1>6, <1>10, <1>11 DEF MlfqsInv

\* What the actions do to a scheduler's state: they may give it a new one in which the same
\* threads are there and BLOCKED.
SameThreads(s, r) ==
  /\ r \in SchedState /\ SchedOK(r) /\ r.priority = s.priority
  /\ Idle \notin Dead(s) => Dead(r) = Dead(s)
  /\ \A t \in Thread \ {Idle} : r.status[t] = "BLOCKED" <=> s.status[t] = "BLOCKED"
  /\ ReadySorted(s) => ReadySorted(r)

LEMMA YieldSame ==
  ASSUME NEW s \in SchedState, SchedOK(s)
  PROVE  SameThreads(s, Yield(s)) /\ SameThreads(s, YieldToMax(s)) /\ SameThreads(s, s)
<1>1. SameThreads(s, Yield(s))
  BY YieldProperties DEF SameThreads
<1>2. SameThreads(s, YieldToMax(s))
  BY YieldToMaxProperties DEF SameThreads
<1> QED BY <1>1, <1>2 DEF SameThreads

LEMMA TickSame ==
  ASSUME NEW s \in SchedState, SchedOK(s)
  PROVE  SameThreads(s, ThreadTick(s, TIME_SLICE))
<1> DEFINE r == ThreadTick(s, TIME_SLICE)
<1>1. TIME_SLICE \in Nat \ {0}
  BY MlfqsAssumption
<1>2. /\ r \in SchedState /\ SchedOK(r) /\ r.priority = s.priority
      /\ \A t \in Thread \ {Idle} : r.status[t] = "BLOCKED" <=> s.status[t] = "BLOCKED"
      /\ Dead(r) \subseteq Dead(s) /\ Dead(s) \ {Idle} \subseteq Dead(r)
      /\ ReadySorted(s) => ReadySorted(r)
  BY <1>1, ThreadTickProperties
<1> QED BY <1>2 DEF SameThreads

\* An assignment to the priorities changes nothing else, and not the order of the queue if it
\* is to threads that are not in the queue.
LEMMA PriorityChange ==
  ASSUME NEW s \in SchedState, SchedOK(s), NEW p \in [Thread -> Int]
  PROVE  LET r == [s EXCEPT !.priority = p] IN
         /\ r \in SchedState /\ SchedOK(r) /\ r.priority = p
         /\ r.current = s.current /\ r.status = s.status /\ r.ready_list = s.ready_list
         /\ Dead(r) = Dead(s)
         /\ (\A y \in ListElems(s.ready_list) : p[y] = s.priority[y]) /\ ReadySorted(s)
              => ReadySorted(r)
<1> DEFINE r == [s EXCEPT !.priority = p]
<1>1. r \in SchedState
  BY SchedStateExcept
<1>2. /\ r.priority = p /\ r.current = s.current /\ r.status = s.status
      /\ r.ready_list = s.ready_list
  BY DEF SchedState
<1> HIDE DEF r
<1>3. SchedOK(r) /\ Dead(r) = Dead(s)
  BY <1>2 DEF SchedOK, OneRunning, QueueMatchesStatus, Dead
<1>4. ASSUME \A y \in ListElems(s.ready_list) : p[y] = s.priority[y], ReadySorted(s)
      PROVE  ReadySorted(r)
  BY <1>2, <1>4, SortedByElements DEF ReadySorted
<1> QED BY <1>1, <1>2, <1>3, <1>4 DEF r

\* One thread that is not in the queue gets another priority.
LEMMA PriorityOfOne ==
  ASSUME NEW s \in SchedState, SchedOK(s), NEW t \in Thread, t \notin ListElems(s.ready_list),
         NEW v \in Int
  PROVE  LET r == [s EXCEPT !.priority[t] = v] IN
         /\ r \in SchedState /\ SchedOK(r) /\ r.priority = [s.priority EXCEPT ![t] = v]
         /\ r.current = s.current /\ r.status = s.status /\ r.ready_list = s.ready_list
         /\ Dead(r) = Dead(s)
         /\ ReadySorted(s) => ReadySorted(r)
<1> DEFINE p == [s.priority EXCEPT ![t] = v]
<1>1. p \in [Thread -> Int] /\ \A u \in Thread \ {t} : p[u] = s.priority[u]
  BY SchedStateType
<1>2. [s EXCEPT !.priority[t] = v] = [s EXCEPT !.priority = p]
  BY DEF SchedState
<1>3. \A y \in ListElems(s.ready_list) : p[y] = s.priority[y]
  BY <1>1, QueuedAreReady DEF SchedOK
<1> QED BY <1>1, <1>2, <1>3, PriorityChange

\* A step keeps the account of the threads and the order of the queue.
SchedKept ==
  /\ sched' \in SchedState /\ SchedOK(sched') /\ Dead(sched') = Dead(sched)
  /\ sched'.priority \in [Thread -> PRI_MIN .. PRI_MAX] /\ sched'.priority[Idle] = PRI_MIN
  /\ ReadySorted(sched) => ReadySorted(sched')

\* It leaves no thread at the wrong place.
PlacesKept ==
  /\ pc' \in [Thread -> PC] /\ pc'[Idle] \in {"run", "halt"}
  /\ \A u \in Thread : pc'[u] = "wait" => sched'.status[u] = "BLOCKED"

\* What holds of the thread that runs and of the others.
LEMMA InvFacts ==
  ASSUME MlfqsInv
  PROVE  /\ sched \in SchedState /\ SchedOK(sched) /\ sched.current \in Thread
         /\ sched.status[sched.current] = "RUNNING"
         /\ sched.current \notin ListElems(sched.ready_list)
         /\ \A t \in Thread : sched.status[t] \in Status
         /\ \A t \in Dead(sched) : t \in Thread /\ t # Idle /\ t \notin ListElems(sched.ready_list)
         /\ sched.current \notin Dead(sched)
         /\ sched.priority \in [Thread -> PRI_MIN .. PRI_MAX] /\ sched.priority[Idle] = PRI_MIN
         /\ PRI_MIN .. PRI_MAX \subseteq Int
         /\ pc \in [Thread -> PC] /\ pc[Idle] \in {"run", "halt"}
         /\ \A u \in Thread : pc[u] = "wait" => sched.status[u] = "BLOCKED" /\ u # Idle
         /\ PRI_DEFAULT \in PRI_MIN .. PRI_MAX
<1>1. sched \in SchedState /\ SchedOK(sched)
  BY DEF MlfqsInv, TypeOK, Accounted
<1>2. /\ sched.current \in Thread /\ sched.status[sched.current] = "RUNNING"
      /\ \A t \in Thread : sched.status[t] \in Status
  BY <1>1, SchedStateType DEF SchedOK, OneRunning
<1>3. \A t \in ListElems(sched.ready_list) : sched.status[t] = "READY"
  BY <1>1, QueuedAreReady DEF SchedOK
<1>4. /\ \A t \in Dead(sched) : t \in Thread /\ t # Idle /\ t \notin ListElems(sched.ready_list)
      /\ sched.current \notin Dead(sched) /\ sched.current \notin ListElems(sched.ready_list)
  BY <1>2, <1>3 DEF Dead, MlfqsInv, PlaceInv
<1>5. PRI_MIN .. PRI_MAX \subseteq Int /\ PRI_DEFAULT \in PRI_MIN .. PRI_MAX
  BY MlfqsAssumption
<1> QED BY <1>1, <1>2, <1>4, <1>5 DEF MlfqsInv, TypeOK, PlaceInv, Accounted

\* thread_set_nice and the steps that give up the CPU or do not touch it.
LEMMA RunningSteps ==
  ASSUME MlfqsInv, NEW t \in Thread,
         ThreadSetNice(t) \/ NiceYield(t) \/ TimerSleep(t) \/ SleepLoop(t)
  PROVE  SchedKept /\ PlacesKept
<1>1. /\ t = sched.current /\ t # Idle
      /\ pc' = pc \/ pc' = [pc EXCEPT ![t] = "nice"] \/ pc' = [pc EXCEPT ![t] = "run"]
         \/ pc' = [pc EXCEPT ![t] = "sleep"]
  BY DEF ThreadSetNice, NiceYield, TimerSleep, SleepLoop, Running, Goto
<1>2. /\ pc' \in [Thread -> PC] /\ pc'[Idle] = pc[Idle]
      /\ \A u \in Thread : pc'[u] = "wait" => pc[u] = "wait"
  <2>1. pc \in [Thread -> PC] /\ {"nice", "run", "sleep"} \subseteq PC \ {"wait"}
    BY InvFacts DEF PC
  <2>2. pc' = pc \/ \E place \in {"nice", "run", "sleep"} : pc' = [pc EXCEPT ![t] = place]
    BY <1>1
  <2>3. ASSUME NEW place \in {"nice", "run", "sleep"}, pc' = [pc EXCEPT ![t] = place]
        PROVE  /\ pc' \in [Thread -> PC] /\ pc'[Idle] = pc[Idle]
               /\ \A u \in Thread : pc'[u] = "wait" => pc[u] = "wait"
    BY <1>1, <2>1, <2>3, ThreadAssumption
  <2> QED BY <2>1, <2>2, <2>3
<1>3. CASE ThreadSetNice(t)
  <2>1. PICK n \in Nice : sched' = [sched EXCEPT !.priority[t] = CalcPriority(recent_cpu[t], n)]
    BY <1>3 DEF ThreadSetNice
  <2> DEFINE v == CalcPriority(recent_cpu[t], n)
  <2>2. v \in PRI_MIN .. PRI_MAX /\ v \in Int
    <3>1. recent_cpu[t] \in Int /\ n \in Int
      BY MlfqsAssumption, ConversionTypes DEF MlfqsInv, TypeOK
    <3> QED BY <3>1, CalcPriorityType, InvFacts
  <2> HIDE DEF v
  <2>3. /\ sched' \in SchedState /\ SchedOK(sched') /\ sched'.priority = [sched.priority EXCEPT ![t] = v]
        /\ sched'.status = sched.status /\ Dead(sched') = Dead(sched)
        /\ ReadySorted(sched) => ReadySorted(sched')
    BY <1>1, <2>1, <2>2, InvFacts, PriorityOfOne DEF v
  <2> QED BY <1>1, <1>2, <2>2, <2>3, InvFacts DEF SchedKept, PlacesKept
<1>4. CASE NiceYield(t) \/ TimerSleep(t) \/ SleepLoop(t)
  <2>1. SameThreads(sched, sched')
    BY <1>4, InvFacts, YieldSame DEF NiceYield, TimerSleep, SleepLoop
  <2>2. Idle \notin Dead(sched)
    BY DEF MlfqsInv, PlaceInv
  <2> QED BY <1>2, <2>1, <2>2, InvFacts DEF SameThreads, SchedKept, PlacesKept
<1> QED BY <1>3, <1>4

\* thread_block and thread_unblock.
LEMMA BlockingSteps ==
  ASSUME MlfqsInv, IdleBlock \/ \E t \in Thread : ThreadBlock(t) \/ ThreadUnblock(t)
  PROVE  SchedKept /\ PlacesKept
<1>1. CASE sched' = Block(sched)
           /\ (sched.current # Idle => pc' = [pc EXCEPT ![sched.current] = "wait"])
           /\ (sched.current = Idle => pc' = [pc EXCEPT ![Idle] = "halt"])
  <2> DEFINE r == Leave(sched, "BLOCKED")
             c == sched.current
  <2>1. /\ r \in SchedState /\ SchedOK(r) /\ r.priority = sched.priority
        /\ \A t \in Thread \ {Idle} :
              r.status[t] = "BLOCKED" <=> t = c \/ (t # c /\ sched.status[t] = "BLOCKED")
        /\ Dead(r) \subseteq Dead(sched) /\ Dead(sched) \ {Idle} \subseteq Dead(r)
        /\ ReadySorted(sched) => ReadySorted(r)
    <3>1. "BLOCKED" \in {"BLOCKED", "DYING"} /\ sched \in SchedState /\ SchedOK(sched)
      BY InvFacts
    <3>2. /\ r \in SchedState /\ SchedOK(r) /\ r.priority = sched.priority
          /\ \A t \in Thread \ {Idle} :
                r.status[t] = "BLOCKED" <=> \/ t = c /\ "BLOCKED" = "BLOCKED"
                                            \/ t # c /\ sched.status[t] = "BLOCKED"
          /\ Dead(r) \subseteq Dead(sched) \union {t \in {c} : "BLOCKED" = "DYING"}
          /\ (Dead(sched) \union {t \in {c} : "BLOCKED" = "DYING"}) \ {Idle} \subseteq Dead(r)
          /\ ReadySorted(sched) => ReadySorted(r)
      BY <3>1, BlockProperties
    <3> QED BY <3>2
  <2>2. sched' = r
    BY <1>1 DEF Block
  <2> HIDE DEF r
  <2>3. Idle \notin Dead(sched)
    BY DEF MlfqsInv, PlaceInv
  <2>4. SchedKept
    BY <2>1, <2>2, <2>3, InvFacts DEF SchedKept
  <2>5. /\ pc' \in [Thread -> PC] /\ pc'[Idle] \in {"run", "halt"}
        /\ \A u \in Thread : pc'[u] = "wait" => u # Idle /\ (u = c \/ pc[u] = "wait")
    <3>1. /\ pc \in [Thread -> PC] /\ pc[Idle] \in {"run", "halt"} /\ c \in Thread
          /\ \A u \in Thread : pc[u] = "wait" => u # Idle
          /\ "wait" \in PC /\ "halt" \in PC
      BY InvFacts DEF PC
    <3>2. CASE c = Idle
      BY <1>1, <3>1, <3>2
    <3>3. CASE c # Idle
      BY <1>1, <3>1, <3>3, ThreadAssumption
    <3> QED BY <3>2, <3>3
  <2>6. PlacesKept
    BY <2>1, <2>2, <2>5, InvFacts DEF PlacesKept
  <2> QED BY <2>4, <2>6
<1>2. ASSUME NEW t \in Thread, ThreadUnblock(t) PROVE SchedKept /\ PlacesKept
  <2>1. PICK u \in Thread : pc[u] = "wait" /\ sched' = Unblock(sched, u) /\ pc' = [pc EXCEPT ![u] = "run"]
    BY <1>2 DEF ThreadUnblock, Goto
  <2>2. sched.status[u] = "BLOCKED" /\ u # Idle
    BY <2>1, InvFacts
  <2>3. /\ sched' \in SchedState /\ SchedOK(sched') /\ sched'.priority = sched.priority
        /\ sched'.status = [sched.status EXCEPT ![u] = "READY"]
        /\ ReadySorted(sched) => ReadySorted(sched')
    BY <2>1, <2>2, InvFacts, UnblockProperties
  <2>4. \A v \in Thread : sched'.status[v] = IF v = u THEN "READY" ELSE sched.status[v]
    BY <2>3, InvFacts, SchedStateType
  <2>5. Dead(sched') = Dead(sched)
    BY <2>2, <2>4 DEF Dead
  <2>6. SchedKept
    BY <2>3, <2>5, InvFacts DEF SchedKept
  <2>7. /\ pc' \in [Thread -> PC] /\ pc'[Idle] \in {"run", "halt"}
        /\ \A v \in Thread : pc'[v] = "wait" => v # u /\ pc[v] = "wait"
    BY <2>1, <2>2, InvFacts DEF PC
  <2>8. PlacesKept
    BY <2>4, <2>7, InvFacts DEF PlacesKept
  <2> QED BY <2>6, <2>8
<1> QED BY <1>1, <1>2 DEF IdleBlock, ThreadBlock, Running, Goto

\* What a tick does to the charges.
LEMMA TickCharges ==
  ASSUME MlfqsInv
  PROVE  LET cpu == RecentCpuIncrease(recent_cpu)
         IN  cpu \in [Thread -> Int32] /\ cpu[Idle] = 0
<1>1. /\ recent_cpu \in [Thread -> Int32] /\ sched.current \in Thread /\ Int32 \subseteq Int
      /\ recent_cpu[Idle] = 0
  BY InvFacts, ConversionTypes DEF MlfqsInv, TypeOK, Accounted
<1> DEFINE c == sched.current
           x == Wrap(recent_cpu[c] + add_fixed_and_int(recent_cpu[c], 1))
<1>2. x \in Int32
  <2> DEFINE old == recent_cpu[c]
  <2>1. old \in Int32
    BY <1>1
  <2>2. old \in Int
    BY <1>1, <2>1, Zenon
  <2> HIDE DEF old
  <2>3. add_fixed_and_int(old, 1) \in Int32
    BY <2>2, ArithmeticTypes
  <2>4. add_fixed_and_int(old, 1) \in Int
    BY <1>1, <2>3, Zenon
  <2>5. old + add_fixed_and_int(old, 1) \in Int
    BY <2>2, <2>4
  <2> QED BY <2>5, WrapProperties DEF old
<1>3. RecentCpuIncrease(recent_cpu) = IF c = Idle THEN recent_cpu ELSE [recent_cpu EXCEPT ![c] = x]
  BY DEF RecentCpuIncrease
<1> HIDE DEF x
<1> QED BY <1>1, <1>2, <1>3, ThreadAssumption

\* The timer interrupt within a second.
LEMMA TickStep ==
  ASSUME MlfqsInv, Tick
  PROVE  SchedKept /\ PlacesKept
<1>1. PICK s : /\ s = sched \/ s = SetPriority(sched, recent_cpu')
               /\ sched' = ThreadTick(s, TIME_SLICE)
  BY DEF Tick
<1>2. recent_cpu' \in [Thread -> Int]
  <2>1. recent_cpu' \in [Thread -> Int32] /\ Int32 \subseteq Int
    BY TickCharges, ConversionTypes DEF Tick
  <2> QED BY <2>1
<1>3. /\ s \in SchedState /\ SchedOK(s) /\ Dead(s) = Dead(sched) /\ s.status = sched.status
      /\ s.priority \in [Thread -> PRI_MIN .. PRI_MAX] /\ s.priority[Idle] = PRI_MIN
      /\ ReadySorted(sched) => ReadySorted(s)
  <2>1. CASE s = sched
    BY <2>1, InvFacts
  <2>2. CASE s = SetPriority(sched, recent_cpu') /\ sched.current # Idle
    <3> DEFINE c == sched.current
               v == CalcPriority(recent_cpu'[c], nice[c])
    <3>1. s = [sched EXCEPT !.priority[c] = v]
      BY <2>2 DEF SetPriority
    <3>2. recent_cpu'[c] \in Int /\ nice[c] \in Int
      BY <1>2, InvFacts, MlfqsAssumption DEF MlfqsInv, TypeOK
    <3>3. v \in PRI_MIN .. PRI_MAX /\ v \in Int
      BY <3>2, CalcPriorityType, InvFacts
    <3> HIDE DEF v
    <3>4. /\ s \in SchedState /\ SchedOK(s) /\ s.priority = [sched.priority EXCEPT ![c] = v]
          /\ s.status = sched.status /\ Dead(s) = Dead(sched)
          /\ ReadySorted(sched) => ReadySorted(s)
      BY <3>1, <3>3, InvFacts, PriorityOfOne
    <3> QED BY <2>2, <3>3, <3>4, InvFacts
  <2> QED BY <1>1, <2>1, <2>2 DEF SetPriority
<1>4. SameThreads(s, sched') /\ Idle \notin Dead(s)
  BY <1>1, <1>3, TickSame DEF MlfqsInv, PlaceInv
<1>5. SchedKept
  BY <1>3, <1>4 DEF SameThreads, SchedKept
<1>6. /\ pc' \in [Thread -> PC] /\ pc'[Idle] \in {"run", "halt"}
      /\ \A u \in Thread : pc'[u] = "wait" => pc[u] = "wait" /\ u # Idle
  <2>1. /\ pc \in [Thread -> PC] /\ pc[Idle] \in {"run", "halt"}
        /\ \A u \in Thread : pc[u] = "wait" => u # Idle
        /\ "run" \in PC
    BY InvFacts DEF PC
  <2>2. pc' = pc \/ pc' = [pc EXCEPT ![Idle] = "run"]
    BY DEF Tick
  <2> QED BY <2>1, <2>2, ThreadAssumption
<1>7. PlacesKept
  <2>1. \A u \in Thread \ {Idle} : sched'.status[u] = "BLOCKED" <=> sched.status[u] = "BLOCKED"
    BY <1>3, <1>4 DEF SameThreads
  <2> QED BY <1>6, <2>1, InvFacts DEF PlacesKept
<1> QED BY <1>5, <1>7

\* thread_create: a page becomes a thread, in the run queue and at the end of all_list.
LEMMA CreateStep ==
  ASSUME MlfqsInv, NEW t \in Thread, ThreadCreate(t)
  PROVE  \E u \in Thread :
            /\ sched.status[u] = "FREE" /\ u # Idle /\ u # t /\ u \notin ListElems(all_list)
            /\ all_list' = Append(all_list, u)
            /\ recent_cpu' = [recent_cpu EXCEPT ![u] = recent_cpu[t]]
            /\ nice' = [nice EXCEPT ![u] = nice[t]]
            /\ ran' = [ran EXCEPT ![u] = ran[t]]
            /\ sched' \in SchedState /\ SchedOK(sched') /\ Dead(sched') = Dead(sched) \ {u}
            /\ sched'.priority \in [Thread -> PRI_MIN .. PRI_MAX] /\ sched'.priority[Idle] = PRI_MIN
            /\ ReadySorted(sched) => ReadySorted(sched')
            /\ PlacesKept
<1>1. PICK u \in Thread :
         /\ sched.status[u] = "FREE"
         /\ LET s == Unblock([sched EXCEPT !.priority[u] = PRI_DEFAULT], u)
            IN  sched' = IF s.priority[u] > s.priority[t] THEN Yield(s) ELSE s
         /\ all_list' = Append(all_list, u)
         /\ recent_cpu' = [recent_cpu EXCEPT ![u] = recent_cpu[t]]
         /\ nice' = [nice EXCEPT ![u] = nice[t]]
         /\ ran' = [ran EXCEPT ![u] = ran[t]]
         /\ pc' = [pc EXCEPT ![u] = "run"]
  BY DEF ThreadCreate, Goto
<1> DEFINE q == [sched EXCEPT !.priority[u] = PRI_DEFAULT]
           s == Unblock(q, u)
<1>2. t = sched.current
  BY DEF ThreadCreate, Running
<1>3. /\ u \in Dead(sched) /\ u # Idle /\ u # t /\ u \notin ListElems(sched.ready_list)
      /\ u \notin ListElems(all_list)
  <2>1. u \in Dead(sched)
    BY <1>1 DEF Dead
  <2> QED BY <1>2, <2>1, InvFacts DEF MlfqsInv, Accounted
<1>4. /\ q \in SchedState /\ SchedOK(q) /\ q.priority = [sched.priority EXCEPT ![u] = PRI_DEFAULT]
      /\ q.status = sched.status /\ Dead(q) = Dead(sched)
      /\ ReadySorted(sched) => ReadySorted(q)
  <2>1. PRI_DEFAULT \in Int
    BY MlfqsAssumption
  <2> QED BY <1>3, <2>1, InvFacts, PriorityOfOne
<1> HIDE DEF q
<1>5. /\ s \in SchedState /\ SchedOK(s) /\ s.priority = q.priority
      /\ s.status = [q.status EXCEPT ![u] = "READY"]
      /\ ReadySorted(q) => ReadySorted(s)
  BY <1>1, <1>3, <1>4, UnblockProperties
<1>6. sched' = Yield(s) \/ sched' = s
  BY <1>1 DEF s, q
<1> HIDE DEF s
<1>7. SameThreads(s, sched')
  BY <1>5, <1>6, YieldSame
<1>8. \A v \in Thread : s.status[v] = IF v = u THEN "READY" ELSE sched.status[v]
  BY <1>4, <1>5, SchedStateType
<1>9. Dead(s) = Dead(sched) \ {u} /\ Idle \notin Dead(s)
  <2>1. Dead(s) = Dead(sched) \ {u}
    BY <1>8 DEF Dead
  <2> QED BY <2>1 DEF MlfqsInv, PlaceInv
<1>10. /\ sched' \in SchedState /\ SchedOK(sched') /\ Dead(sched') = Dead(sched) \ {u}
       /\ sched'.priority = [sched.priority EXCEPT ![u] = PRI_DEFAULT]
       /\ ReadySorted(sched) => ReadySorted(sched')
  BY <1>4, <1>5, <1>7, <1>9 DEF SameThreads
<1>11. sched'.priority \in [Thread -> PRI_MIN .. PRI_MAX] /\ sched'.priority[Idle] = PRI_MIN
  BY <1>3, <1>10, InvFacts
<1>12. PlacesKept
  <2>1. /\ pc' \in [Thread -> PC] /\ pc'[Idle] \in {"run", "halt"}
        /\ \A v \in Thread : pc'[v] = "wait" => v # u /\ pc[v] = "wait" /\ v # Idle
    BY <1>1, <1>3, InvFacts DEF PC
  <2>2. \A v \in Thread \ {Idle} : sched'.status[v] = "BLOCKED" <=> s.status[v] = "BLOCKED"
    BY <1>7 DEF SameThreads
  <2> QED BY <1>8, <2>1, <2>2, InvFacts DEF PlacesKept
<1> QED BY <1>1, <1>3, <1>10, <1>11, <1>12

\* thread_exit: the running thread leaves all_list and the CPU.
LEMMA ExitStep ==
  ASSUME MlfqsInv, NEW t \in Thread, ThreadExit(t)
  PROVE  /\ sched' \in SchedState /\ SchedOK(sched') /\ Dead(sched') = Dead(sched) \union {t}
         /\ sched'.priority \in [Thread -> PRI_MIN .. PRI_MAX] /\ sched'.priority[Idle] = PRI_MIN
         /\ ReadySorted(sched) => ReadySorted(sched')
         /\ t # Idle /\ t \in ListElems(all_list)
         /\ PlacesKept
<1> DEFINE r == Leave(sched, "DYING")
<1>1. /\ t = sched.current /\ t # Idle /\ pc[t] = "run" /\ pc' = pc
      /\ sched' = [r EXCEPT !.priority[t] = PRI_DEFAULT]
  BY DEF ThreadExit, Running
<1>2. t \in ListElems(all_list) /\ Idle \notin Dead(sched)
  BY <1>1, InvFacts DEF MlfqsInv, Accounted, PlaceInv
<1>3. /\ r \in SchedState /\ SchedOK(r) /\ r.priority = sched.priority
      /\ \A u \in Thread \ {Idle} : r.status[u] = "BLOCKED" <=> u # t /\ sched.status[u] = "BLOCKED"
      /\ Dead(r) \subseteq Dead(sched) \union {t} /\ (Dead(sched) \union {t}) \ {Idle} \subseteq Dead(r)
      /\ ReadySorted(sched) => ReadySorted(r)
  <2>1. "DYING" \in {"BLOCKED", "DYING"} /\ sched \in SchedState /\ SchedOK(sched)
    BY InvFacts
  <2>2. /\ r \in SchedState /\ SchedOK(r) /\ r.priority = sched.priority
        /\ \A u \in Thread \ {Idle} :
              r.status[u] = "BLOCKED" <=> \/ u = sched.current /\ "DYING" = "BLOCKED"
                                          \/ u # sched.current /\ sched.status[u] = "BLOCKED"
        /\ Dead(r) \subseteq Dead(sched) \union {u \in {sched.current} : "DYING" = "DYING"}
        /\ (Dead(sched) \union {u \in {sched.current} : "DYING" = "DYING"}) \ {Idle} \subseteq Dead(r)
        /\ ReadySorted(sched) => ReadySorted(r)
    BY <2>1, BlockProperties
  <2> QED BY <1>1, <2>2
<1> HIDE DEF r
<1>4. Dead(r) = Dead(sched) \union {t} /\ t \notin ListElems(r.ready_list)
  <2>1. Dead(r) = Dead(sched) \union {t}
    BY <1>1, <1>2, <1>3
  <2>2. r.status[t] # "READY"
    BY <2>1 DEF Dead
  <2> QED BY <1>3, <2>1, <2>2, QueuedAreReady DEF SchedOK
<1>5. /\ sched' \in SchedState /\ SchedOK(sched') /\ sched'.status = r.status
      /\ sched'.priority = [sched.priority EXCEPT ![t] = PRI_DEFAULT]
      /\ Dead(sched') = Dead(sched) \union {t}
      /\ ReadySorted(sched) => ReadySorted(sched')
  <2>1. PRI_DEFAULT \in Int
    BY MlfqsAssumption
  <2> QED BY <1>1, <1>3, <1>4, <2>1, PriorityOfOne
<1>6. sched'.priority \in [Thread -> PRI_MIN .. PRI_MAX] /\ sched'.priority[Idle] = PRI_MIN
  <2>1. /\ sched.priority \in [Thread -> PRI_MIN .. PRI_MAX] /\ sched.priority[Idle] = PRI_MIN
        /\ PRI_DEFAULT \in PRI_MIN .. PRI_MAX
    BY InvFacts
  <2>2. t \in Thread /\ Idle \in Thread /\ t # Idle
    BY <1>1, ThreadAssumption
  <2> DEFINE P == PRI_MIN .. PRI_MAX
             f == sched.priority
  <2>3. f \in [Thread -> P] /\ PRI_DEFAULT \in P /\ f[Idle] = PRI_MIN
    BY <2>1
  <2> HIDE DEF P, f
  <2>4. [f EXCEPT ![t] = PRI_DEFAULT] \in [Thread -> P] /\ [f EXCEPT ![t] = PRI_DEFAULT][Idle] = PRI_MIN
    BY <2>2, <2>3
  <2> QED BY <1>5, <2>4 DEF P, f
<1>7. PlacesKept
  <2>1. \A u \in Thread : pc[u] = "wait" => u # t /\ u # Idle /\ sched.status[u] = "BLOCKED"
    BY <1>1, InvFacts
  <2> QED BY <1>1, <1>3, <1>5, <2>1, InvFacts DEF PlacesKept
<1> QED BY <1>1, <1>2, <1>5, <1>6, <1>7

\* The loop through all_list stops before the idle thread.
LEMMA RefreshedOthers ==
  ASSUME MlfqsInv
  PROVE  Refreshed \subseteq Thread \ {Idle}
<1> DEFINE i == CHOOSE i \in 1 .. Len(all_list) : all_list[i] = Idle
<1>1. all_list \in Seq(Thread) /\ NoDuplicates(all_list) /\ Idle \in ListElems(all_list)
  BY ThreadAssumption DEF MlfqsInv, TypeOK, Accounted, PlaceInv
<1>2. i \in 1 .. Len(all_list) /\ all_list[i] = Idle
  BY <1>1 DEF ListElems
<1>3. Refreshed = {all_list[j] : j \in 1 .. i - 1}
  BY DEF Refreshed
<1> HIDE DEF i
<1>4. ASSUME NEW j \in 1 .. i - 1 PROVE all_list[j] \in Thread \ {Idle}
  <2>1. j \in 1 .. Len(all_list) /\ j # i
    BY <1>1, <1>2, LenProperties
  <2> QED BY <1>1, <1>2, <2>1, ElementOfSeq DEF NoDuplicates
<1> QED BY <1>3, <1>4

\* The end of the first second: what the loop computes before it stays at the idle thread.
LEMMA SecondStep ==
  ASSUME MlfqsInv, SecondTick
  PROVE  /\ sched' \in SchedState /\ SchedOK(sched') /\ Dead(sched') = Dead(sched)
         /\ sched'.status = sched.status
         /\ sched'.priority \in [Thread -> PRI_MIN .. PRI_MAX] /\ sched'.priority[Idle] = PRI_MIN
         /\ recent_cpu' \in [Thread -> Int32] /\ recent_cpu'[Idle] = 0
         /\ load_avg' \in Int32
<1> DEFINE cpu == RecentCpuIncrease(recent_cpu)
<1>1. /\ load_avg' = CalcLoadAvg /\ ~stuck
      /\ recent_cpu' = [t \in Thread |-> IF t \in Refreshed
                                         THEN CalcRecentCpu(load_avg', cpu[t], nice[t]) ELSE cpu[t]]
      /\ sched' = [sched EXCEPT !.priority =
                      [t \in Thread |-> IF t \in Refreshed THEN CalcPriority(recent_cpu'[t], nice[t])
                                        ELSE @[t]]]
  BY DEF SecondTick
<1>2. cpu \in [Thread -> Int32] /\ cpu[Idle] = 0
  BY TickCharges
<1> HIDE DEF cpu
<1>3. load_avg' \in Nat /\ 60 * load_avg' <= IntMax
  BY <1>1, InvFacts, FirstLoad DEF MlfqsInv, PlaceInv
<1>4. load_avg' \in Int32
  <2> DEFINE L == load_avg'
  <2>1. IntMax \in Nat
    BY FixedPointAssumption
  <2>2. L \in Nat /\ 60 * L <= IntMax
    BY <1>3
  <2> HIDE DEF L
  <2>3. L \in -(IntMax + 1) .. IntMax
    BY <2>1, <2>2
  <2> QED BY <2>3 DEF Int32, L
<1>5. nice \in [Thread -> Int]
  BY MlfqsAssumption DEF MlfqsInv, TypeOK
<1>6. recent_cpu' \in [Thread -> Int32] /\ recent_cpu'[Idle] = 0
  <2>1. \A t \in Thread : cpu[t] \in Int
    <3>1. Int32 \subseteq Int
      BY ConversionTypes
    <3> QED BY <1>2, <3>1
  <2>2. \A t \in Thread : CalcRecentCpu(load_avg', cpu[t], nice[t]) \in Int32
    BY <1>3, <1>5, <2>1, FirstRecentCpu
  <2>3. Idle \notin Refreshed
    BY RefreshedOthers
  <2> QED BY <1>1, <1>2, <2>2, <2>3, ThreadAssumption
<1> DEFINE p == [t \in Thread |-> IF t \in Refreshed THEN CalcPriority(recent_cpu'[t], nice[t])
                                 ELSE sched.priority[t]]
<1>7. sched' = [sched EXCEPT !.priority = p]
  BY <1>1
<1>8. p \in [Thread -> PRI_MIN .. PRI_MAX] /\ p[Idle] = PRI_MIN
  <2>1. \A t \in Thread : recent_cpu'[t] \in Int
    <3>1. Int32 \subseteq Int
      BY ConversionTypes
    <3> QED BY <1>6, <3>1
  <2>2. \A t \in Thread : CalcPriority(recent_cpu'[t], nice[t]) \in PRI_MIN .. PRI_MAX
    BY <1>5, <2>1, CalcPriorityType
  <2>3. Idle \notin Refreshed
    BY RefreshedOthers
  <2> QED BY <2>2, <2>3, InvFacts, ThreadAssumption
<1> HIDE DEF p
<1>9. p \in [Thread -> Int]
  BY <1>8, InvFacts
<1> QED BY <1>4, <1>6, <1>7, <1>8, <1>9, InvFacts, PriorityChange

--------------------------------------------------------------------------------
(* The theorems.                                                           *)

\* The actions by what they change.
LEMMA Cases ==
  ASSUME Next
  PROVE  \/ Tick \/ SecondTick
         \/ IdleBlock \/ \E t \in Thread : ThreadBlock(t) \/ ThreadUnblock(t)
         \/ \E t \in Thread : ThreadSetNice(t) \/ NiceYield(t) \/ TimerSleep(t) \/ SleepLoop(t)
         \/ \E t \in Thread : ThreadCreate(t)
         \/ \E t \in Thread : ThreadExit(t)
BY DEF Next, Step

\* What every step does to the scheduler, apart from the end of a second.
LEMMA SchedSteps ==
  ASSUME MlfqsInv, Next
  PROVE  /\ sched' \in SchedState /\ SchedOK(sched')
         /\ sched'.priority \in [Thread -> PRI_MIN .. PRI_MAX] /\ sched'.priority[Idle] = PRI_MIN
         /\ Idle \notin Dead(sched')
         /\ PlacesKept
         /\ ~SecondTick => (ReadySorted(sched) => ReadySorted(sched'))
<1>1. Idle \notin Dead(sched)
  BY DEF MlfqsInv, PlaceInv
<1>2. CASE SecondTick
  <2>1. PlacesKept
    BY <1>2, SecondStep, InvFacts DEF PlacesKept, SecondTick
  <2> QED BY <1>1, <1>2, <2>1, SecondStep
<1>3. CASE Tick
  BY <1>1, <1>3, TickStep DEF SchedKept
<1>4. CASE IdleBlock \/ \E t \in Thread : ThreadBlock(t) \/ ThreadUnblock(t)
  BY <1>1, <1>4, BlockingSteps DEF SchedKept
<1>5. ASSUME NEW t \in Thread, ThreadSetNice(t) \/ NiceYield(t) \/ TimerSleep(t) \/ SleepLoop(t)
      PROVE  SchedKept /\ PlacesKept
  BY <1>5, RunningSteps
<1>6. CASE \E t \in Thread : ThreadCreate(t)
  BY <1>1, <1>6, CreateStep
<1>7. CASE \E t \in Thread : ThreadExit(t)
  BY <1>1, <1>7, ExitStep
<1> QED BY <1>1, <1>2, <1>3, <1>4, <1>5, <1>6, <1>7, Cases DEF SchedKept

\* What every step does to all_list, and to the list of those that are gone.
LEMMA ListSteps ==
  ASSUME MlfqsInv, Next
  PROVE  /\ all_list' \in Seq(Thread) /\ NoDuplicates(all_list')
         /\ ListElems(all_list') = Thread \ Dead(sched')
<1>1. /\ all_list \in Seq(Thread) /\ NoDuplicates(all_list) /\ Dead(sched) \subseteq Thread
      /\ ListElems(all_list) = Thread \ Dead(sched)
  BY DEF MlfqsInv, TypeOK, Accounted, Dead
<1>2. CASE all_list' = all_list /\ Dead(sched') = Dead(sched)
  BY <1>1, <1>2
<1>3. ASSUME NEW t \in Thread, ThreadCreate(t)
      PROVE  /\ all_list' \in Seq(Thread) /\ NoDuplicates(all_list')
             /\ ListElems(all_list') = Thread \ Dead(sched')
  <2>1. PICK u \in Thread : /\ sched.status[u] = "FREE" /\ u \notin ListElems(all_list)
                            /\ all_list' = Append(all_list, u)
                            /\ Dead(sched') = Dead(sched) \ {u}
    BY <1>3, CreateStep
  <2>2. u \in Dead(sched)
    BY <2>1 DEF Dead
  <2>3. /\ all_list' \in Seq(Thread) /\ NoDuplicates(all_list')
        /\ ListElems(all_list') = ListElems(all_list) \union {u}
    BY <1>1, <2>1, AppendListProperties
  <2> QED BY <1>1, <2>1, <2>2, <2>3
<1>4. ASSUME NEW t \in Thread, ThreadExit(t)
      PROVE  /\ all_list' \in Seq(Thread) /\ NoDuplicates(all_list')
             /\ ListElems(all_list') = Thread \ Dead(sched')
  <2>1. /\ t \in ListElems(all_list) /\ Dead(sched') = Dead(sched) \union {t}
        /\ all_list' = ListRemove(all_list, t)
    BY <1>4, ExitStep DEF ThreadExit
  <2> QED BY <1>1, <2>1, ListRemoveProperties
<1>5. CASE Tick \/ SecondTick
  BY <1>2, <1>5, TickStep, SecondStep DEF SchedKept, Tick, SecondTick
<1>6. CASE IdleBlock \/ \E t \in Thread : ThreadBlock(t) \/ ThreadUnblock(t)
  BY <1>2, <1>6, BlockingSteps DEF SchedKept, IdleBlock, ThreadBlock, ThreadUnblock
<1>7. ASSUME NEW t \in Thread, ThreadSetNice(t) \/ NiceYield(t) \/ TimerSleep(t) \/ SleepLoop(t)
      PROVE  all_list' = all_list /\ Dead(sched') = Dead(sched)
  BY <1>7, RunningSteps DEF SchedKept, ThreadSetNice, NiceYield, TimerSleep, SleepLoop
<1> QED BY <1>2, <1>3, <1>4, <1>5, <1>6, <1>7, Cases

\* What every step does to the numbers.
LEMMA NumberSteps ==
  ASSUME MlfqsInv, Next
  PROVE  /\ recent_cpu' \in [Thread -> Int32] /\ recent_cpu'[Idle] = 0
         /\ nice' \in [Thread -> Nice] /\ load_avg' \in Int32 /\ ticks' \in 0 .. TIMER_FREQ
         /\ due' \in [Thread -> Int] /\ ran' \in [Thread -> Nat] /\ stuck' \in BOOLEAN
         /\ ~stuck' => load_avg' = 0 /\ ticks' < TIMER_FREQ
<1>1. /\ recent_cpu \in [Thread -> Int32] /\ recent_cpu[Idle] = 0
      /\ nice \in [Thread -> Nice] /\ load_avg \in Int32 /\ ticks \in 0 .. TIMER_FREQ
      /\ due \in [Thread -> Int] /\ ran \in [Thread -> Nat] /\ stuck \in BOOLEAN
      /\ ~stuck => load_avg = 0 /\ ticks < TIMER_FREQ
      /\ sched.current \in Thread
  BY InvFacts DEF MlfqsInv, TypeOK, Accounted, PlaceInv
<1>2. TIMER_FREQ \in Nat \ {0}
  BY MlfqsAssumption
<1>3. CASE Tick
  <2>1. ticks' = ticks + 1 /\ ticks' % TIMER_FREQ # 0 /\ ticks < TIMER_FREQ
    BY <1>1, <1>3 DEF Tick
  <2>2. ticks' # TIMER_FREQ
    <3>1. TIMER_FREQ % TIMER_FREQ = 0
      <4>1. TIMER_FREQ % TIMER_FREQ \in 0 .. TIMER_FREQ - 1
            /\ TIMER_FREQ = TIMER_FREQ * (TIMER_FREQ \div TIMER_FREQ) + (TIMER_FREQ % TIMER_FREQ)
            /\ TIMER_FREQ \div TIMER_FREQ \in Int
        BY <1>2, DivMod
      <4>2. TIMER_FREQ * 1 + 0 = TIMER_FREQ * (TIMER_FREQ \div TIMER_FREQ) + (TIMER_FREQ % TIMER_FREQ)
        BY <1>2, <4>1
      <4>3. 0 \in 0 .. TIMER_FREQ - 1 /\ 1 \in Int
        BY <1>2
      <4>4. 0 = TIMER_FREQ % TIMER_FREQ
        BY <1>2, <4>1, <4>2, <4>3, RemainderIsUnique
      <4> QED BY <4>4
    <3> QED BY <2>1, <3>1
  <2>3. ticks' \in 0 .. TIMER_FREQ /\ ticks' < TIMER_FREQ
    BY <1>1, <1>2, <2>1, <2>2
  <2>4. recent_cpu' \in [Thread -> Int32] /\ recent_cpu'[Idle] = 0
    BY <1>3, TickCharges DEF Tick
  <2>5. ran' \in [Thread -> Nat]
    BY <1>1, <1>3 DEF Tick
  <2> QED BY <1>1, <1>3, <2>3, <2>4, <2>5 DEF Tick
<1>4. CASE SecondTick
  <2>1. recent_cpu' \in [Thread -> Int32] /\ recent_cpu'[Idle] = 0 /\ load_avg' \in Int32
    BY <1>4, SecondStep
  <2>2. ticks' \in 0 .. TIMER_FREQ
    BY <1>1, <1>2, <1>4 DEF SecondTick
  <2> QED BY <1>1, <1>4, <2>1, <2>2 DEF SecondTick
<1>5. CASE IdleBlock \/ \E t \in Thread : ThreadBlock(t) \/ ThreadUnblock(t)
  BY <1>1, <1>5 DEF IdleBlock, ThreadBlock, ThreadUnblock, cpuVars
<1>6. ASSUME NEW t \in Thread, ThreadSetNice(t) \/ NiceYield(t) \/ TimerSleep(t) \/ SleepLoop(t)
      PROVE  /\ nice' \in [Thread -> Nice] /\ due' \in [Thread -> Int]
             /\ UNCHANGED <<recent_cpu, load_avg, ticks, ran, stuck>>
  <2>1. CASE ThreadSetNice(t)
    BY <1>1, <2>1 DEF ThreadSetNice
  <2>2. CASE NiceYield(t)
    BY <1>1, <2>2 DEF NiceYield, cpuVars
  <2>3. CASE TimerSleep(t)
    <3>1. PICK n \in SleepArg : due' = [due EXCEPT ![t] = ticks + n]
      BY <2>3 DEF TimerSleep
    <3>2. ticks + n \in Int
      BY <1>1, MlfqsAssumption
    <3> QED BY <1>1, <2>3, <3>1, <3>2 DEF TimerSleep, cpuVars
  <2>4. CASE SleepLoop(t)
    BY <1>1, <2>4 DEF SleepLoop, cpuVars
  <2> QED BY <1>6, <2>1, <2>2, <2>3, <2>4
<1>7. ASSUME NEW t \in Thread, ThreadCreate(t)
      PROVE  /\ recent_cpu' \in [Thread -> Int32] /\ recent_cpu'[Idle] = 0
             /\ nice' \in [Thread -> Nice] /\ ran' \in [Thread -> Nat]
             /\ UNCHANGED <<load_avg, ticks, due, stuck>>
  <2>1. PICK u \in Thread : /\ u # Idle
                            /\ recent_cpu' = [recent_cpu EXCEPT ![u] = recent_cpu[t]]
                            /\ nice' = [nice EXCEPT ![u] = nice[t]]
                            /\ ran' = [ran EXCEPT ![u] = ran[t]]
    BY <1>7, CreateStep
  <2> QED BY <1>1, <1>7, <2>1 DEF ThreadCreate
<1>8. ASSUME NEW t \in Thread, ThreadExit(t)
      PROVE  /\ recent_cpu' \in [Thread -> Int32] /\ recent_cpu'[Idle] = 0
             /\ nice' \in [Thread -> Nice] /\ ran' \in [Thread -> Nat]
             /\ UNCHANGED <<load_avg, ticks, due, stuck>>
  <2>1. 0 \in Int32 /\ 0 \in Nice
    BY FixedPointAssumption, MlfqsAssumption DEF Int32
  <2>2. /\ recent_cpu' = [recent_cpu EXCEPT ![t] = 0] /\ nice' = [nice EXCEPT ![t] = 0]
        /\ ran' = [ran EXCEPT ![t] = 0] /\ UNCHANGED <<load_avg, ticks, due, stuck>>
    BY <1>8 DEF ThreadExit
  <2> QED BY <1>1, <2>1, <2>2
<1> QED BY <1>1, <1>3, <1>4, <1>5, <1>6, <1>7, <1>8, Cases

LEMMA NextMlfqsInv == MlfqsInv /\ [Next]_vars => MlfqsInv'
<1> SUFFICES ASSUME MlfqsInv, [Next]_vars PROVE MlfqsInv'
  OBVIOUS
<1>1. CASE UNCHANGED vars
  BY <1>1 DEF vars, MlfqsInv, TypeOK, Accounted, PlaceInv
<1>2. CASE Next
  <2>1. TypeOK'
    BY <1>2, SchedSteps, ListSteps, NumberSteps DEF TypeOK, PlacesKept
  <2>2. Accounted(sched, all_list, recent_cpu)'
    BY <1>2, SchedSteps, ListSteps, NumberSteps DEF Accounted
  <2>3. PlaceInv'
    BY <1>2, SchedSteps, NumberSteps DEF PlaceInv, PlacesKept
  <2> QED BY <2>1, <2>2, <2>3 DEF MlfqsInv
<1> QED BY <1>1, <1>2

\* The inductive invariant of the MLFQS: who is in which list, where every thread is, and
\* that the clock of a system that is not stuck is in its first second.
THEOREM MlfqsInvariant == Spec => []MlfqsInv
BY InitMlfqsInv, NextMlfqsInv, PTL DEF Spec

\* Every variable stays in its domain: calc_priority keeps priorities between PRI_MIN and
\* PRI_MAX whatever overflows, and the first load_avg and recent_cpu divide by no 0.
THEOREM MlfqsTypeCorrect == Spec => []TypeOK
BY MlfqsInvariant, PTL DEF MlfqsInv

\* all_list is every thread that exists, once, the run queue the READY ones; the idle thread
\* keeps the lowest priority and is charged for nothing.
THEOREM ThreadsAreAccounted == Spec => []ThreadsAccounted
<1>1. MlfqsInv => ThreadsAccounted
  BY AccountedIs DEF MlfqsInv
<1> QED BY <1>1, MlfqsInvariant, PTL

\* Nobody sorts the run queue when priorities are recomputed, and it stays in order: until
\* the loop over all_list only the priority of the running thread changes.
THEOREM QueueSortedUntilStuck == Spec => []ReadyQueueSorted
<1>1. Init => ReadyQueueSorted
  BY DEF Init, ReadyQueueSorted, ReadySorted, SortedBy
<1>2. MlfqsInv /\ ReadyQueueSorted /\ [Next]_vars => ReadyQueueSorted'
  <2> SUFFICES ASSUME MlfqsInv, ReadyQueueSorted, [Next]_vars, ~stuck' PROVE ReadySorted(sched')
    BY DEF ReadyQueueSorted
  <2>1. CASE UNCHANGED vars
    BY <2>1 DEF vars, ReadyQueueSorted
  <2>2. CASE Next
    <3>1. ~SecondTick
      BY DEF SecondTick
    <3>2. ~stuck
      BY <2>2 DEF Next, Tick, SecondTick, IdleBlock, Step, ThreadSetNice, NiceYield, TimerSleep,
                  SleepLoop, ThreadCreate, ThreadExit, ThreadBlock, ThreadUnblock, Running
    <3> QED BY <2>2, <3>1, <3>2, SchedSteps DEF ReadyQueueSorted
  <2> QED BY <2>1, <2>2
<1> QED BY <1>1, <1>2, MlfqsInvariant, PTL DEF Spec

\* recent_cpu is 2^n - 1 after n ticks, in the arithmetic of an int: thread_create copies it
\* from the creator, and the overflow in the middle of the addition makes no difference.
THEOREM RecentCpuIsDoubled == Spec => []RecentCpuDoubles
<1>1. Init => RecentCpuDoubles
  <2>1. PowerOfTwo[0] = 1
    BY PowersDefined
  <2>2. Wrap((PowerOfTwo[0] - 1) * Mask) = 0
    <3>1. (1 - 1) * Mask = 0 /\ 0 \in Int32 /\ 0 \in Int
      BY FixedPointAssumption DEF Int32
    <3>2. Wrap(0) = 0
      BY <3>1, WrapProperties
    <3> QED BY <2>1, <3>1, <3>2
  <2> QED BY <2>2 DEF Init, RecentCpuDoubles
<1>2. MlfqsInv /\ RecentCpuDoubles /\ [Next]_vars => RecentCpuDoubles'
  <2> SUFFICES ASSUME MlfqsInv, RecentCpuDoubles, [Next]_vars, ~stuck', NEW u \in Thread
               PROVE  recent_cpu'[u] = Wrap((PowerOfTwo[ran'[u]] - 1) * Mask)
    BY DEF RecentCpuDoubles
  <2>1. CASE UNCHANGED vars
    BY <2>1 DEF vars, RecentCpuDoubles
  <2>2. CASE Next
    <3> DEFINE Charge(n) == Wrap((PowerOfTwo[n] - 1) * Mask)
    <3>1. ~stuck
      BY <2>2 DEF Next, Tick, SecondTick, IdleBlock, Step, ThreadSetNice, NiceYield, TimerSleep,
                  SleepLoop, ThreadCreate, ThreadExit, ThreadBlock, ThreadUnblock, Running
    <3>2. /\ \A t \in Thread : recent_cpu[t] = Charge(ran[t])
          /\ recent_cpu \in [Thread -> Int32] /\ ran \in [Thread -> Nat] /\ sched.current \in Thread
      BY <3>1, InvFacts DEF RecentCpuDoubles, MlfqsInv, TypeOK
    <3>3. \A n \in Nat : Wrap(Charge(n) + add_fixed_and_int(Charge(n), 1)) = Charge(n + 1)
      BY ChargeDoubles
    <3>4. Charge(0) = 0
      <4>1. PowerOfTwo[0] = 1 /\ (1 - 1) * Mask = 0 /\ 0 \in Int32 /\ 0 \in Int
        BY PowersDefined, FixedPointAssumption DEF Int32
      <4>2. Wrap(0) = 0
        BY <4>1, WrapProperties
      <4> QED BY <4>1, <4>2
    <3> HIDE DEF Charge
    <3>5. recent_cpu'[u] = Charge(ran'[u])
      <4>1. CASE Tick
        <5>1. /\ recent_cpu' = RecentCpuIncrease(recent_cpu)
              /\ ran' = IF sched.current = Idle THEN ran ELSE [ran EXCEPT ![sched.current] = ran[sched.current] + 1]
          BY <4>1 DEF Tick
        <5>2. CASE sched.current # Idle /\ u = sched.current
          <6>1. /\ ran'[u] = ran[u] + 1 /\ ran[u] \in Nat
                /\ recent_cpu'[u] = Wrap(recent_cpu[u] + add_fixed_and_int(recent_cpu[u], 1))
            BY <3>2, <5>1, <5>2 DEF RecentCpuIncrease
          <6> QED BY <3>2, <3>3, <6>1
        <5>3. CASE ~(sched.current # Idle /\ u = sched.current)
          BY <3>2, <5>1, <5>3 DEF RecentCpuIncrease
        <5> QED BY <5>2, <5>3
      <4>2. ASSUME NEW t \in Thread, ThreadCreate(t) PROVE recent_cpu'[u] = Charge(ran'[u])
        <5>1. PICK v \in Thread : /\ recent_cpu' = [recent_cpu EXCEPT ![v] = recent_cpu[t]]
                                  /\ ran' = [ran EXCEPT ![v] = ran[t]]
          BY <4>2, CreateStep
        <5> QED BY <3>2, <5>1
      <4>3. ASSUME NEW t \in Thread, ThreadExit(t) PROVE recent_cpu'[u] = Charge(ran'[u])
        BY <3>2, <3>4, <4>3 DEF ThreadExit
      <4>4. CASE UNCHANGED <<recent_cpu, ran>>
        BY <3>2, <4>4
      <4>5. CASE IdleBlock \/ \E t \in Thread : \/ ThreadBlock(t) \/ ThreadUnblock(t) \/ NiceYield(t)
                                               \/ ThreadSetNice(t) \/ TimerSleep(t) \/ SleepLoop(t)
        BY <4>4, <4>5 DEF IdleBlock, ThreadBlock, ThreadUnblock, NiceYield, ThreadSetNice, TimerSleep,
                          SleepLoop, cpuVars
      <4>6. ~SecondTick
        BY DEF SecondTick
      <4> QED BY <2>2, <4>1, <4>2, <4>3, <4>5, <4>6 DEF Next, Step
    <3> QED BY <3>5 DEF Charge
  <2> QED BY <2>1, <2>2
<1> QED BY <1>1, <1>2, MlfqsInvariant, PTL DEF Spec
================================================================================
