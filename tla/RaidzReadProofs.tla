-------------------------- MODULE RaidzReadProofs ---------------------------
(***************************************************************************)
(* Proofs about RaidzRead, for pools of any number of children, blocks at  *)
(* any place and of any size, tables and parts of any length, and any      *)
(* device lost: the columns of a block are its allocation, and what is     *)
(* read, repaired and put together from them is the block.                 *)
(***************************************************************************)
EXTENDS RaidzRead, SequenceTheorems, DataInduction

(***************************************************************************)
(* Quotients and products.                                                 *)
(***************************************************************************)

LEMMA DivMod ==
  ASSUME NEW a \in Nat, NEW b \in Nat \ {0}
  PROVE  /\ a \div b \in Nat /\ a % b \in 0..(b - 1)
         /\ a = ((a \div b) * b) + (a % b)
  OBVIOUS

LEMMA Products ==
  ASSUME NEW a \in Nat, NEW b \in Nat, NEW d \in Nat
  PROVE  a * d \in Nat /\ (a <= b => a * d <= b * d) /\ (a + 1) * d = a * d + d
OBVIOUS

\* A number has one quotient and one rest.
LEMMA OneQuotient ==
  ASSUME NEW b \in Nat \ {0}, NEW x \in Nat, NEW y \in 0..(b - 1)
  PROVE  (x * b + y) \div b = x /\ (x * b + y) % b = y
<1> DEFINE a == x * b + y
           k == a \div b
           z == a % b
<1>1. a \in Nat
  BY Products
<1>2. k \in Nat /\ z \in 0..(b - 1) /\ k * b + z = x * b + y
  <2>1. k \in Nat /\ z \in 0..(b - 1) /\ a = (k * b) + z
    <3> HIDE DEF a
    <3> QED BY <1>1, DivMod
  <2> HIDE DEF k, z
  <2> QED BY <2>1
<1> HIDE DEF k, z
<1>3. ~(k < x)
  <2>1. SUFFICES ASSUME k + 1 <= x PROVE FALSE
    BY <1>2
  <2>2. (k + 1) * b <= x * b /\ (k + 1) * b = k * b + b
    BY <1>2, <2>1, Products
  <2>3. k * b \in Nat /\ x * b \in Nat
    BY <1>2, Products
  <2> QED BY <1>2, <2>2, <2>3
<1>4. ~(x < k)
  <2>1. SUFFICES ASSUME x + 1 <= k PROVE FALSE
    BY <1>2
  <2>2. (x + 1) * b <= k * b /\ (x + 1) * b = x * b + b
    BY <1>2, <2>1, Products
  <2>3. k * b \in Nat /\ x * b \in Nat
    BY <1>2, Products
  <2> QED BY <1>2, <2>2, <2>3
<1>5. k = x
  BY <1>2, <1>3, <1>4
<1>6. z = y
  <2>1. x * b \in Nat
    BY Products
  <2> QED BY <1>2, <1>5, <2>1
<1> QED BY <1>5, <1>6 DEF k, z

(***************************************************************************)
(* The shape of a block.                                                   *)
(***************************************************************************)

LEMMA Children ==
  ASSUME pool \in Pools
  PROVE  /\ dcols \in Nat /\ dcols >= 2 /\ NParity = 1
         /\ pool.devs \in [1..dcols -> Range(pool.devs)]
         /\ \A d, e \in 0..(dcols - 1) : pool.devs[d + 1] = pool.devs[e + 1] => d = e
<1>1. pool.devs \in Seq(Range(pool.devs)) /\ Len(pool.devs) >= 2 /\ IsInjective(pool.devs)
  BY RaidzAssumption
<1>2. dcols \in Nat /\ dcols >= 2 /\ pool.devs \in [1..dcols -> Range(pool.devs)]
  BY <1>1, LenProperties DEF dcols
<1>3. ASSUME NEW d \in 0..(dcols - 1), NEW e \in 0..(dcols - 1), pool.devs[d + 1] = pool.devs[e + 1]
      PROVE  d = e
  <2>1. d + 1 \in DOMAIN pool.devs /\ e + 1 \in DOMAIN pool.devs
    BY <1>2
  <2>2. d + 1 = e + 1
    BY <1>1, <1>3, <2>1 DEF IsInjective
  <2> QED BY <1>2, <2>2
<1> QED BY <1>2, <1>3, RaidzAssumption

LEMMA Shape ==
  ASSUME pool \in Pools, NEW r \in Requests
  PROVE  /\ r.b \in Nat /\ r.s \in Nat \ {0}
         /\ Quotient(r) \in Nat /\ Remainder(r) \in 0..(dcols - 2)
         /\ r.s = Quotient(r) * (dcols - 1) + Remainder(r)
         /\ BigCols(r) = IF Remainder(r) > 0 THEN Remainder(r) + 1 ELSE 0
         /\ BigCols(r) \in 0..(dcols - 1) /\ BigCols(r) # 1
         /\ Total(r) = Quotient(r) * dcols + BigCols(r)
         /\ Quotient(r) = 0 => BigCols(r) # 0
<1>1. r.b \in Nat /\ r.s \in Nat \ {0} /\ NParity = 1 /\ dcols \in Nat /\ dcols >= 2
  BY RaidzAssumption, Children
<1> DEFINE n == dcols - 1
           s == r.s
           q == s \div n
           D == dcols
<1>2. n \in Nat \ {0} /\ D = n + 1 /\ D \in Nat /\ s \in Nat \ {0}
  BY <1>1
<1>3. Quotient(r) = q
  BY <1>1 DEF Quotient
<1>4. q \in Nat /\ s % n \in 0..(n - 1) /\ s = q * n + (s % n)
  <2> HIDE DEF n, s
  <2> QED BY <1>2, DivMod
<1>5. Remainder(r) = s - q * n
  BY <1>1, <1>3 DEF Remainder
<1> HIDE DEF n, q, D, s
<1>6. Remainder(r) = s % n
  <2>1. q * n \in Nat
    BY <1>2, <1>4, Products
  <2> QED BY <1>2, <1>4, <1>5, <2>1
<1> DEFINE m == Remainder(r)
<1>7. m \in 0..(n - 1) /\ s = q * n + m
  BY <1>4, <1>6
<1>8. BigCols(r) = IF m > 0 THEN m + 1 ELSE 0
  BY <1>1 DEF BigCols
<1>9. Total(r) = s + (q + IF m > 0 THEN 1 ELSE 0)
  <2>1. Total(r) = s + NParity * (q + IF m > 0 THEN 1 ELSE 0)
    BY <1>3 DEF Total, s
  <2> HIDE DEF m
  <2> QED BY <1>1, <1>4, <1>7, <2>1
<1>10. q * D = q * n + q
  BY <1>2, <1>4
<1> HIDE DEF m
<1>11. Total(r) = q * D + BigCols(r) /\ BigCols(r) \in 0..n /\ BigCols(r) # 1
  <2>1. q * n \in Nat
    BY <1>2, <1>4, Products
  <2> QED BY <1>2, <1>4, <1>7, <1>8, <1>9, <1>10, <2>1
<1>12. q = 0 => BigCols(r) # 0
  BY <1>2, <1>7, <1>8
<1> QED BY <1>1, <1>3, <1>4, <1>7, <1>8, <1>11, <1>12 DEF n, D, s, m

LEMMA Accessed ==
  ASSUME pool \in Pools, NEW r \in Requests
  PROVE  /\ AccessedCols(r) \in 2..dcols
         /\ ScannedCols(r) \in Nat /\ AccessedCols(r) <= ScannedCols(r) /\ ScannedCols(r) <= dcols
         /\ AccessedCols(r) = IF Quotient(r) = 0 THEN BigCols(r) ELSE dcols
<1> DEFINE D == dcols
           q == Quotient(r)
           B == BigCols(r)
           n == Roundup(B, 2)
<1>1. D \in Nat /\ D >= 2 /\ NParity = 1
  BY Children
<1>2. q \in Nat /\ B \in 0..(D - 1) /\ B # 1 /\ (q = 0 => B # 0)
  BY Shape
<1>3. AccessedCols(r) = IF q = 0 THEN B ELSE D
  BY DEF AccessedCols
<1>4. ScannedCols(r) = IF q # 0 THEN D ELSE IF D <= n THEN D ELSE n
  BY <1>1 DEF ScannedCols
<1>5. n \in Nat /\ B <= n
  <2>1. n = 2 * ((B + 1) \div 2)
    <3>1. n = 2 * ((B + 2 - 1) \div 2)
      BY DEF Roundup
    <3> HIDE DEF B, n
    <3> QED BY <1>1, <1>2, <3>1
  <2> HIDE DEF B, n
  <2> QED BY <1>1, <1>2, <2>1
<1> HIDE DEF D, q, B, n
<1>6. AccessedCols(r) \in 2..D /\ ScannedCols(r) \in Nat
      /\ AccessedCols(r) <= ScannedCols(r) /\ ScannedCols(r) <= D
  BY <1>1, <1>2, <1>3, <1>4, <1>5
<1> QED BY <1>3, <1>6 DEF D, q, B

\* Column c of a block has as many sectors as there are numbers j for which
\* sector c + j * dcols is of the block.
LEMMA Sizes ==
  ASSUME pool \in Pools, NEW r \in Requests, NEW c \in 0..(dcols - 1)
  PROVE  /\ ColSize(r, c) \in Nat
         /\ ColSize(r, c) = Quotient(r) + IF c < BigCols(r) THEN 1 ELSE 0
         /\ ColSize(r, c) > 0 <=> c < AccessedCols(r)
         /\ \A j \in Nat : c + j * dcols < Total(r) <=> j < ColSize(r, c)
<1> DEFINE D == dcols
           q == Quotient(r)
           B == BigCols(r)
           A == AccessedCols(r)
           z == ColSize(r, c)
           T == Total(r)
<1>1. D \in Nat /\ D >= 2 /\ c \in 0..(D - 1)
  BY Children
<1>2. q \in Nat /\ B \in 0..(D - 1) /\ B # 1 /\ (q = 0 => B # 0) /\ T = q * D + B
  BY Shape
<1>3. A = (IF q = 0 THEN B ELSE D) /\ A \in 2..D
  BY Accessed
<1>4. z = IF c >= A THEN 0 ELSE q + (IF c < B THEN 1 ELSE 0)
  BY DEF ColSize
<1> HIDE DEF D, q, B, A, z, T
<1>5. z = (q + IF c < B THEN 1 ELSE 0) /\ z \in Nat /\ (z > 0 <=> c < A)
  BY <1>1, <1>2, <1>3, <1>4
<1>6. ASSUME NEW j \in Nat PROVE c + j * D < T <=> j < z
  <2> DEFINE x == j * D
             y == q * D
  <2>1. x \in Nat /\ y \in Nat
    BY <1>1, <1>2, Products
  <2>2. CASE j < q
    <3>1. (j + 1) * D <= y /\ (j + 1) * D = x + D
      BY <1>1, <1>2, <2>2, Products
    <3> HIDE DEF x, y
    <3>2. x + D <= y
      BY <3>1
    <3> QED BY <1>1, <1>2, <1>5, <2>1, <2>2, <3>2 DEF x, y
  <2>3. CASE j = q
    <3>1. x = y
      BY <2>3
    <3> HIDE DEF x
    <3> HIDE DEF y
    <3>2. c + x < y + B <=> j < z
      BY <1>1, <1>2, <1>5, <2>1, <2>3, <3>1
    <3> QED BY <1>2, <3>2 DEF x, y
  <2>4. CASE j > q
    <3>1. (q + 1) * D <= x /\ (q + 1) * D = y + D
      BY <1>1, <1>2, <2>4, Products
    <3> HIDE DEF x, y
    <3>2. y + D <= x
      BY <3>1
    <3>3. ~(c + x < y + B) /\ ~(j < z)
      BY <1>1, <1>2, <1>5, <2>1, <2>4, <3>2
    <3> QED BY <1>2, <3>3 DEF x, y
  <2> QED BY <1>2, <2>2, <2>3, <2>4
<1> QED BY <1>5, <1>6 DEF D, q, B, A, z, T

(***************************************************************************)
(* The columns.                                                            *)
(***************************************************************************)

\* Those that have a size, in the order of the loop, before the swap.
Alloc(r) == [n \in 1..AccessedCols(r) |-> Column(r, n - 1)]

ColumnType == [dev : 0..(dcols - 1), off : Nat, size : Nat]

LEMMA Place ==
  ASSUME pool \in Pools, NEW r \in Requests, NEW c \in 0..(dcols - 1)
  PROVE  /\ Column(r, c) \in ColumnType
         /\ Column(r, c).size = ColSize(r, c)
         /\ Column(r, c).off * dcols + Column(r, c).dev = r.b + c
<1> DEFINE D == dcols
           b == r.b
           f == b % D
           o == b \div D
           z == ColSize(r, c)
           dev == IF f + c >= D THEN f + c - D ELSE f + c
           off == o + IF f + c >= D THEN 1 ELSE 0
<1>1. D \in Nat /\ D >= 2 /\ c \in 0..(D - 1) /\ b \in Nat /\ z \in Nat
  BY Children, Shape, Sizes
<1>2. Column(r, c) = [dev |-> dev, off |-> off, size |-> z]
  BY DEF Column
<1>3. o \in Nat /\ f \in 0..(D - 1) /\ b = o * D + f
  <2> HIDE DEF b, D
  <2>1. b \in Nat /\ D \in Nat \ {0}
    BY <1>1
  <2>2. b \div D \in Nat /\ b % D \in 0..(D - 1) /\ b = ((b \div D) * D) + (b % D)
    BY <2>1, DivMod
  <2> QED BY <2>2
<1> HIDE DEF D, b, f, o, z
<1>4. dev \in 0..(D - 1) /\ off \in Nat
  BY <1>1, <1>3
<1>5. off * D + dev = b + c
  <2>1. o * D \in Nat /\ (o + 1) * D = o * D + D
    BY <1>1, <1>3, Products
  <2>2. CASE f + c >= D
    <3>1. off = o + 1 /\ dev = f + c - D
      BY <2>2
    <3> HIDE DEF off, dev
    <3>2. off * D = o * D + D
      BY <2>1, <3>1
    <3> QED BY <1>1, <1>3, <2>1, <3>1, <3>2
  <2>3. CASE ~(f + c >= D)
    <3>1. off = o /\ dev = f + c
      BY <1>3, <2>3
    <3> HIDE DEF off, dev
    <3>2. off * D = o * D
      BY <3>1
    <3> QED BY <1>1, <1>3, <2>1, <3>1, <3>2
  <2> QED BY <2>2, <2>3
<1> HIDE DEF dev, off
<1>6. /\ Column(r, c).dev = dev /\ Column(r, c).off = off /\ Column(r, c).size = z
      /\ Column(r, c) \in [dev : 0..(D - 1), off : Nat, size : Nat]
  BY <1>1, <1>2, <1>4
<1> QED BY <1>5, <1>6 DEF D, b, z, ColumnType

LEMMA AppendNext ==
  ASSUME NEW S, NEW n \in Nat, NEW f, \A k \in 1..(n + 1) : f[k] \in S
  PROVE  Append([k \in 1..n |-> f[k]], f[n + 1]) = [k \in 1..(n + 1) |-> f[k]]
<1> DEFINE s == [k \in 1..n |-> f[k]]
           t == [k \in 1..(n + 1) |-> f[k]]
           a == Append(s, f[n + 1])
<1>1. s \in Seq(S) /\ Len(s) = n
  <2>1. s \in [1..n -> S]
    OBVIOUS
  <2> QED BY <2>1, SeqDef, LenProperties
<1>2. t \in Seq(S) /\ Len(t) = n + 1
  <2>1. t \in [1..(n + 1) -> S] /\ n + 1 \in Nat
    OBVIOUS
  <2> HIDE DEF t
  <2>2. t \in Seq(S)
    BY <2>1, SeqDef
  <2> QED BY <2>1, <2>2, LenProperties
<1>3. a \in Seq(S) /\ Len(a) = n + 1 /\ \A i \in 1..n : a[i] = s[i]
  <2>1. f[n + 1] \in S
    OBVIOUS
  <2> HIDE DEF s
  <2> QED BY <1>1, <2>1, AppendProperties
<1>4. a[n + 1] = f[n + 1]
  <2>1. f[n + 1] \in S
    OBVIOUS
  <2> HIDE DEF s
  <2> QED BY <1>1, <2>1, AppendProperties
<1>5. ASSUME NEW i \in 1..(n + 1) PROVE a[i] = t[i]
  <2>1. CASE i = n + 1
    BY <1>4, <2>1
  <2>2. CASE i # n + 1
    <3>1. i \in 1..n
      BY <2>2
    <3> HIDE DEF a
    <3> QED BY <1>3, <3>1
  <2> QED BY <2>1, <2>2
<1> HIDE DEF a, t
<1> QED BY <1>2, <1>3, <1>5, SeqEqual DEF a, t

\* What the loop of _map_alloc appends.
LEMMA KeptColumns ==
  ASSUME pool \in Pools, NEW r \in Requests
  PROVE  MapAlloc(r) = Swap(r, Alloc(r))
<1> DEFINE N == ScannedCols(r)
           A == AccessedCols(r)
           Upto(n) == IF n <= A THEN n ELSE A
           Step(q) == [n \in 0..N |->
                         IF n = 0 THEN <<>>
                         ELSE IF ColSize(r, n - 1) > 0 THEN Append(q[n-1], Column(r, n - 1)) ELSE q[n-1]]
           L == Alloc(r)
           First(n) == [k \in 1..n |-> L[k]]
           f == [n \in 0..N |-> First(Upto(n))]
<1>1. N \in Nat /\ A \in Nat /\ A <= N /\ N <= dcols /\ dcols \in Nat
  BY Accessed, Children
<1>2. \A k \in 1..A : L[k] = Column(r, k - 1) /\ L[k] \in ColumnType
  <2>1. ASSUME NEW k \in 1..A PROVE k - 1 \in 0..(dcols - 1)
    BY <1>1
  <2> QED BY <2>1, Place DEF Alloc
<1>3. ASSUME NEW n \in 1..N PROVE ColSize(r, n - 1) > 0 <=> n <= A
  <2>1. n - 1 \in 0..(dcols - 1) /\ (n - 1 < A <=> n <= A)
    BY <1>1
  <2> QED BY <2>1, Sizes
<1>4. First(0) = <<>>
  OBVIOUS
\* The loop's step, of what it has come to.
<1>5. ASSUME NEW n \in 1..N
      PROVE  First(Upto(n)) = IF ColSize(r, n - 1) > 0 THEN Append(First(Upto(n - 1)), Column(r, n - 1))
                              ELSE First(Upto(n - 1))
  <2>1. CASE n <= A
    <3>1. Upto(n) = n /\ Upto(n - 1) = n - 1 /\ n - 1 \in Nat /\ L[n] = Column(r, n - 1)
      BY <1>1, <1>2, <2>1
    <3>2. \A k \in 1..((n - 1) + 1) : L[k] \in ColumnType
      BY <1>1, <1>2, <2>1
    <3> HIDE DEF L
    <3>3. Append([k \in 1..(n - 1) |-> L[k]], L[(n - 1) + 1]) = [k \in 1..((n - 1) + 1) |-> L[k]]
      <4> DEFINE m == n - 1
      <4>1. m \in Nat /\ \A k \in 1..(m + 1) : L[k] \in ColumnType
        BY <3>1, <3>2
      <4> HIDE DEF m
      <4>2. Append([k \in 1..m |-> L[k]], L[m + 1]) = [k \in 1..(m + 1) |-> L[k]]
        BY <4>1, AppendNext
      <4> QED BY <4>2 DEF m
    <3>4. (n - 1) + 1 = n
      OBVIOUS
    <3>5. Append(First(n - 1), L[n]) = First(n)
      BY <3>3, <3>4
    <3> QED BY <1>3, <2>1, <3>1, <3>5
  <2>2. CASE ~(n <= A)
    <3>1. Upto(n) = A /\ Upto(n - 1) = A
      BY <1>1, <2>2
    <3> QED BY <1>3, <2>2, <3>1
  <2> QED BY <2>1, <2>2
<1>6. f = Step(f)
  <2>1. Upto(0) = 0
    BY <1>1
  <2>2. ASSUME NEW n \in 0..N PROVE f[n] = Step(f)[n]
    <3>1. CASE n = 0
      BY <1>4, <2>1, <3>1
    <3>2. CASE n # 0
      <4>1. n \in 1..N /\ n - 1 \in 0..N
        BY <1>1, <3>2
      <4>2. f[n] = First(Upto(n)) /\ f[n - 1] = First(Upto(n - 1))
        <5> HIDE DEF First, Upto
        <5> QED BY <4>1
      <4> HIDE DEF f, First, Upto
      <4>3. Step(f)[n] = IF ColSize(r, n - 1) > 0 THEN Append(f[n-1], Column(r, n - 1)) ELSE f[n-1]
        BY <3>2
      <4> QED BY <1>5, <4>1, <4>2, <4>3
    <3> QED BY <3>1, <3>2
  <2> HIDE DEF First, Upto
  <2> QED BY <2>2
<1> DEFINE K == CHOOSE q : q = Step(q)
<1>7. MapAlloc(r) = Swap(r, K[N])
  BY DEF MapAlloc
<1>8. K = Step(K)
  <2> HIDE DEF Step, f
  <2> QED BY <1>6
<1> HIDE DEF K
<1>9. K[0] = <<>>
  <2>1. 0 \in 0..N
    BY <1>1
  <2> QED BY <1>8, <2>1
<1>10. ASSUME NEW n \in 1..N
       PROVE  K[n] = IF ColSize(r, n - 1) > 0 THEN Append(K[n-1], Column(r, n - 1)) ELSE K[n-1]
  <2>1. n \in 0..N /\ n # 0
    BY <1>1
  <2> QED BY <1>8, <2>1
<1> DEFINE S == {n \in Nat : n <= N => K[n] = First(Upto(n))}
<1>11. 0 \in S
  <2>1. Upto(0) = 0
    BY <1>1
  <2> QED BY <1>4, <1>9, <2>1
<1>12. ASSUME NEW n \in Nat, n < N, n \in S PROVE n + 1 \in S
  <2>1. n + 1 \in 1..N /\ (n + 1) - 1 = n /\ n <= N
    BY <1>1, <1>12
  <2> HIDE DEF First, Upto
  <2>2. K[n] = First(Upto(n))
    BY <1>12, <2>1
  <2>3. K[n + 1] = First(Upto(n + 1))
    BY <1>5, <1>10, <2>1, <2>2
  <2> QED BY <2>3
<1>13. N \in S
  <2> HIDE DEF S, N
  <2>1. 0..N \subseteq S
    BY <1>1, <1>11, <1>12, UpToInduction
  <2> QED BY <1>1, <2>1
<1>14. K[N] = First(A)
  <2>1. Upto(N) = A
    BY <1>1
  <2> HIDE DEF First, Upto
  <2> QED BY <1>1, <1>13, <2>1
<1>15. First(A) = L
  BY DEF Alloc
<1> QED BY <1>7, <1>14, <1>15

\* The column of the allocation whose place column n of a block has.
PlaceOf(r, n) == IF Swapped(r) /\ n <= 2 THEN 2 - n ELSE n - 1

LEMMA ColumnsOf ==
  ASSUME pool \in Pools, NEW r \in Requests
  PROVE  /\ MapAlloc(r) \in Seq(ColumnType) /\ Len(MapAlloc(r)) = AccessedCols(r)
         /\ DOMAIN MapAlloc(r) = 1..AccessedCols(r)
         /\ \A n \in 1..AccessedCols(r) :
              /\ MapAlloc(r)[n] \in ColumnType
              /\ MapAlloc(r)[n].size = ColSize(r, n - 1)
              /\ PlaceOf(r, n) \in 0..(AccessedCols(r) - 1)
              /\ MapAlloc(r)[n].off * dcols + MapAlloc(r)[n].dev = r.b + PlaceOf(r, n)
<1> DEFINE A == AccessedCols(r)
           L == Alloc(r)
           M == MapAlloc(r)
<1>1. A \in Nat /\ A >= 2 /\ A <= dcols /\ dcols \in Nat
  BY Accessed, Children
<1>2. \A k \in 1..A : /\ k - 1 \in 0..(dcols - 1)
                      /\ L[k] = Column(r, k - 1) /\ L[k] \in ColumnType
                      /\ L[k].size = ColSize(r, k - 1)
                      /\ L[k].off * dcols + L[k].dev = r.b + (k - 1)
  <2>1. ASSUME NEW k \in 1..A PROVE k - 1 \in 0..(dcols - 1)
    BY <1>1
  <2> QED BY <2>1, Place DEF Alloc
<1>3. L \in [1..A -> ColumnType]
  BY <1>2 DEF Alloc
<1>4. M = Swap(r, L)
  BY KeptColumns
<1>5. CASE ~Swapped(r)
  <2>1. M = L
    BY <1>4, <1>5 DEF Swap
  <2>2. \A n \in 1..A : PlaceOf(r, n) = n - 1
    BY <1>5 DEF PlaceOf
  <2> HIDE DEF L, M, A
  <2>3. M \in Seq(ColumnType) /\ Len(M) = A /\ DOMAIN M = 1..A
    BY <1>1, <1>3, <2>1, SeqDef, LenProperties
  <2>4. \A n \in 1..A : n - 1 \in 0..(A - 1)
    BY <1>1
  <2> QED BY <1>2, <2>1, <2>2, <2>3, <2>4 DEF M, A
<1>6. CASE Swapped(r)
  <2>1. M = [L EXCEPT ![1].dev = L[2].dev, ![1].off = L[2].off, ![2].dev = L[1].dev, ![2].off = L[1].off]
    BY <1>4, <1>6 DEF Swap
  <2> HIDE DEF L, M
  <2>2. L[1] \in ColumnType /\ L[2] \in ColumnType /\ 1 \in 1..A /\ 2 \in 1..A
    BY <1>1, <1>3
  <2>3. /\ M[1] = [dev |-> L[2].dev, off |-> L[2].off, size |-> L[1].size]
        /\ M[2] = [dev |-> L[1].dev, off |-> L[1].off, size |-> L[2].size]
        /\ \A n \in 1..A : n # 1 /\ n # 2 => M[n] = L[n]
        /\ DOMAIN M = 1..A
        /\ M = [n \in 1..A |-> M[n]]
    BY <1>3, <2>1, <2>2 DEF ColumnType
  <2>4. \A n \in 1..A : M[n] \in ColumnType
    <3>1. M[1] \in ColumnType /\ M[2] \in ColumnType
      BY <2>2, <2>3 DEF ColumnType
    <3> QED BY <1>3, <2>3, <3>1
  <2>5. M \in [1..A -> ColumnType]
    BY <2>3, <2>4
  <2>6. M \in Seq(ColumnType) /\ Len(M) = A
    <3> HIDE DEF A
    <3> QED BY <1>1, <2>5, SeqDef, LenProperties
  <2>7. ASSUME NEW n \in 1..A
        PROVE  /\ M[n].size = ColSize(r, n - 1) /\ PlaceOf(r, n) \in 0..(A - 1)
               /\ M[n].off * dcols + M[n].dev = r.b + PlaceOf(r, n)
    <3>1. CASE n = 1
      <4>1. PlaceOf(r, n) = 1 /\ 2 - 1 = 1 /\ 1 - 1 = 0
        BY <1>6, <3>1 DEF PlaceOf
      <4>2. M[n].size = L[1].size /\ M[n].off = L[2].off /\ M[n].dev = L[2].dev
        BY <2>3, <3>1
      <4>3. L[1].size = ColSize(r, 0) /\ L[2].off * dcols + L[2].dev = r.b + 1
        BY <1>2, <2>2, <4>1
      <4> QED BY <1>1, <3>1, <4>1, <4>2, <4>3
    <3>2. CASE n = 2
      <4>1. PlaceOf(r, n) = 0 /\ 2 - 1 = 1 /\ 1 - 1 = 0
        BY <1>6, <3>2 DEF PlaceOf
      <4>2. M[n].size = L[2].size /\ M[n].off = L[1].off /\ M[n].dev = L[1].dev
        BY <2>3, <3>2
      <4>3. L[2].size = ColSize(r, 1) /\ L[1].off * dcols + L[1].dev = r.b + 0
        BY <1>2, <2>2, <4>1
      <4> QED BY <1>1, <3>2, <4>1, <4>2, <4>3
    <3>3. CASE n # 1 /\ n # 2
      <4>1. PlaceOf(r, n) = n - 1 /\ n - 1 \in 0..(A - 1)
        BY <1>1, <3>3 DEF PlaceOf
      <4> QED BY <1>2, <2>3, <3>3, <4>1
    <3> QED BY <3>1, <3>2, <3>3
  <2> QED BY <2>3, <2>4, <2>6, <2>7 DEF M
<1> QED BY <1>5, <1>6

(***************************************************************************)
(* Folds.  A fold is the recursive function on the subsets of a set that   *)
(* takes the element ch[s] from s.                                         *)
(***************************************************************************)

FoldOf(f, S, a, ch, G) ==
  \A s \in SUBSET S : f[s] = IF s = {} THEN a ELSE G[ch[s]][f[s \ {ch[s]}]]

Takes(ch, S) == \A s \in SUBSET S : s # {} => ch[s] \in s

LEMMA Smaller ==
  ASSUME NEW S, IsFiniteSet(S), NEW s \in SUBSET S, NEW x \in s
  PROVE  /\ IsFiniteSet(s) /\ Cardinality(s) \in Nat /\ Cardinality(s) > 0
         /\ s \ {x} \in SUBSET S /\ Cardinality(s \ {x}) = Cardinality(s) - 1
<1>1. IsFiniteSet(s)
  BY FS_Subset
<1>2. Cardinality(s) \in Nat /\ s # {}
  BY <1>1, FS_CardinalityType
<1>3. Cardinality(s) # 0
  BY <1>1, <1>2, FS_EmptySet
<1>4. Cardinality(s \ {x}) = Cardinality(s) - 1
  BY <1>1, FS_RemoveElement
<1> QED BY <1>1, <1>2, <1>3, <1>4

LEMMA FoldExists ==
  ASSUME NEW S, IsFiniteSet(S), NEW D, NEW a \in D, NEW ch, Takes(ch, S), NEW G \in [S -> [D -> D]]
  PROVE  \E f \in [SUBSET S -> D] : FoldOf(f, S, a, ch, G)
<1> DEFINE Upto(f, n) == \A s \in SUBSET S : Cardinality(s) <= n =>
                           f[s] = IF s = {} THEN a ELSE G[ch[s]][f[s \ {ch[s]}]]
           T == {n \in Nat : \E f \in [SUBSET S -> D] : Upto(f, n)}
<1>1. \A s \in SUBSET S : IsFiniteSet(s) /\ Cardinality(s) \in Nat
  BY FS_Subset, FS_CardinalityType
<1>2. 0 \in T
  <2> DEFINE f == [s \in SUBSET S |-> a]
  <2>1. ASSUME NEW s \in SUBSET S, Cardinality(s) <= 0 PROVE s = {}
    BY <1>1, <2>1, FS_EmptySet
  <2>2. f \in [SUBSET S -> D] /\ Upto(f, 0)
    BY <2>1
  <2> QED BY <2>2
<1>3. ASSUME NEW n \in Nat, n \in T PROVE n + 1 \in T
  <2>1. PICK f \in [SUBSET S -> D] : Upto(f, n)
    BY <1>3
  <2> DEFINE g == [s \in SUBSET S |-> IF Cardinality(s) = n + 1 THEN G[ch[s]][f[s \ {ch[s]}]] ELSE f[s]]
  <2>2. ASSUME NEW s \in SUBSET S, s # {}
        PROVE  /\ ch[s] \in S /\ s \ {ch[s]} \in SUBSET S
               /\ Cardinality(s \ {ch[s]}) = Cardinality(s) - 1
    <3>1. ch[s] \in s
      BY <2>2 DEF Takes
    <3> QED BY <3>1, Smaller
  <2>3. ASSUME NEW s \in SUBSET S, Cardinality(s) = n + 1 PROVE s # {}
    <3>1. Cardinality({}) = 0
      BY FS_EmptySet
    <3>2. n + 1 # 0
      OBVIOUS
    <3> QED BY <2>3, <3>1, <3>2
  <2>4. g \in [SUBSET S -> D]
    <3>1. ASSUME NEW s \in SUBSET S PROVE g[s] \in D
      <4>1. CASE Cardinality(s) = n + 1
        <5>1. ch[s] \in S /\ f[s \ {ch[s]}] \in D
          BY <2>1, <2>2, <2>3, <4>1
        <5> QED BY <4>1, <5>1
      <4>2. CASE Cardinality(s) # n + 1
        BY <2>1, <4>2
      <4> QED BY <4>1, <4>2
    <3> QED BY <3>1
  <2>5. Upto(g, n + 1)
    <3>1. SUFFICES ASSUME NEW s \in SUBSET S, Cardinality(s) <= n + 1
                   PROVE  g[s] = IF s = {} THEN a ELSE G[ch[s]][g[s \ {ch[s]}]]
      OBVIOUS
    <3>2. CASE s = {}
      <4>1. Cardinality(s) = 0
        BY <3>2, FS_EmptySet
      <4>2. g[s] = f[s]
        <5>1. Cardinality(s) # n + 1
          BY <4>1
        <5> QED BY <5>1
      <4>3. f[s] = a
        <5>1. Cardinality(s) <= n
          BY <4>1
        <5> HIDE DEF g
        <5> QED BY <2>1, <3>2, <5>1
      <4> QED BY <3>2, <4>2, <4>3
    <3>3. CASE s # {}
      <4> DEFINE t == s \ {ch[s]}
      <4>1. t \in SUBSET S /\ Cardinality(t) = Cardinality(s) - 1
        BY <2>2, <3>3
      <4>2. Cardinality(t) # n + 1
        BY <1>1, <3>1, <4>1
      <4> HIDE DEF t
      <4>3. g[t] = f[t]
        BY <4>1, <4>2
      <4>4. g[s] = G[ch[s]][f[t]]
        <5>1. CASE Cardinality(s) = n + 1
          BY <5>1 DEF t
        <5>2. CASE Cardinality(s) # n + 1
          <6>1. Cardinality(s) <= n
            BY <1>1, <3>1, <5>2
          <6>2. f[s] = G[ch[s]][f[s \ {ch[s]}]]
            BY <2>1, <3>3, <6>1
          <6> QED BY <5>2, <6>2 DEF t
        <5> QED BY <5>1, <5>2
      <4> QED BY <3>3, <4>3, <4>4 DEF t
    <3> QED BY <3>2, <3>3
  <2> HIDE DEF g, Upto
  <2> QED BY <2>4, <2>5
<1>4. PICK f \in [SUBSET S -> D] : Upto(f, Cardinality(S))
  <2>1. Cardinality(S) \in Nat
    BY FS_CardinalityType
  <2>2. Cardinality(S) \in T
    <3> HIDE DEF T
    <3> QED BY <1>2, <1>3, <2>1, NatSetInduction
  <2> QED BY <2>2
<1>5. \A s \in SUBSET S : Cardinality(s) <= Cardinality(S)
  BY FS_Subset
<1> QED BY <1>4, <1>5 DEF FoldOf

\* h[s] is the sum of F over s.
SumOf(h, S, F, ch) ==
  \A s \in SUBSET S : h[s] = IF s = {} THEN 0 ELSE F[ch[s]] + h[s \ {ch[s]}]
AnyFirst(h, S, F) ==
  \A s \in SUBSET S : h[s] \in Nat /\ \A x \in s : h[s] = F[x] + h[s \ {x}]

\* A sum can be begun with any element.
LEMMA SumFrom ==
  ASSUME NEW S, IsFiniteSet(S), NEW F, F \in [S -> Nat], NEW ch, Takes(ch, S), NEW h,
         SumOf(h, S, F, ch)
  PROVE  AnyFirst(h, S, F)
<1> USE DEF SumOf
<1> DEFINE Fine(s) == h[s] \in Nat /\ \A x \in s : h[s] = F[x] + h[s \ {x}]
           T == {n \in Nat : \A s \in SUBSET S : Cardinality(s) <= n => Fine(s)}
<1>1. \A s \in SUBSET S : IsFiniteSet(s) /\ Cardinality(s) \in Nat
  BY FS_Subset, FS_CardinalityType
<1>2. 0 \in T
  <2>1. ASSUME NEW s \in SUBSET S, Cardinality(s) <= 0 PROVE Fine(s)
    <3>1. s = {}
      BY <1>1, <2>1, FS_EmptySet
    <3> QED BY <3>1
  <2> QED BY <2>1
<1>3. ASSUME NEW n \in Nat, n \in T PROVE n + 1 \in T
  <2>1. SUFFICES ASSUME NEW s \in SUBSET S, Cardinality(s) <= n + 1, s # {} PROVE Fine(s)
    <3>1. Fine({})
      OBVIOUS
    <3> HIDE DEF Fine
    <3> QED BY <3>1
  <2> DEFINE c == ch[s]
  <2>2. c \in s /\ h[s] = F[c] + h[s \ {c}]
    BY <2>1 DEF Takes
  <2> HIDE DEF c
  <2>3. \A x \in s : s \ {x} \in SUBSET S /\ Cardinality(s \ {x}) <= n
    <3>1. ASSUME NEW x \in s PROVE s \ {x} \in SUBSET S /\ Cardinality(s \ {x}) <= n
      <4>1. s \ {x} \in SUBSET S /\ Cardinality(s) \in Nat /\ Cardinality(s \ {x}) = Cardinality(s) - 1
        BY Smaller
      <4> QED BY <2>1, <4>1
    <3> QED BY <3>1
  <2>4. \A x \in s : Fine(s \ {x})
    BY <1>3, <2>3
  <2>5. \A x \in s : F[x] \in Nat /\ h[s \ {x}] \in Nat
    BY <2>4
  <2>6. h[s] \in Nat
    <3>1. F[c] \in Nat /\ h[s \ {c}] \in Nat
      BY <2>2, <2>5
    <3> QED BY <2>2, <3>1
  <2>7. ASSUME NEW x \in s PROVE h[s] = F[x] + h[s \ {x}]
    <3>1. CASE x = c
      BY <2>2, <3>1
    <3>2. CASE x # c
      <4> DEFINE t == (s \ {c}) \ {x}
      <4>1. (s \ {x}) \ {c} = t /\ x \in s \ {c} /\ c \in s \ {x}
        BY <2>2, <3>2
      <4>2. h[s \ {c}] = F[x] + h[t]
        BY <2>2, <2>4, <4>1
      <4> HIDE DEF t
      <4>3. h[s \ {x}] = F[c] + h[t]
        BY <2>4, <4>1
      <4>4. h[t] \in Nat
        <5>1. s \ {c} \in SUBSET S /\ x \in s \ {c} /\ Cardinality(s \ {c}) <= n
          BY <2>2, <2>3, <4>1
        <5>2. t \in SUBSET S /\ Cardinality(t) <= n
          <6> DEFINE v == s \ {c}
          <6> HIDE DEF v
          <6>1. v \ {x} \in SUBSET S /\ Cardinality(v) \in Nat /\ Cardinality(v \ {x}) = Cardinality(v) - 1
            BY <5>1, Smaller DEF v
          <6>2. Cardinality(v) <= n
            BY <5>1 DEF v
          <6>3. Cardinality(v \ {x}) <= n
            BY <6>1, <6>2
          <6> QED BY <6>1, <6>3 DEF t, v
        <5>3. Fine(t)
          BY <1>3, <5>2
        <5> QED BY <5>3
      <4>5. F[x] \in Nat /\ F[c] \in Nat
        BY <2>2, <2>5
      <4> QED BY <2>2, <4>2, <4>3, <4>4, <4>5
    <3> QED BY <3>1, <3>2
  <2> QED BY <2>6, <2>7
<1>4. Nat \subseteq T
  <2> HIDE DEF T
  <2> QED BY <1>2, <1>3, NatSetInduction
<1>5. ASSUME NEW s \in SUBSET S PROVE Fine(s)
  <2> DEFINE n == Cardinality(s)
  <2>1. n \in Nat /\ n <= n
    BY <1>1
  <2> HIDE DEF Fine
  <2> QED BY <1>4, <2>1
<1> QED BY <1>5 DEF AnyFirst

Span(lo, hi) == lo \in Nat \ {0} /\ hi \in Nat /\ lo - 1 <= hi

\* P[n] is the sum of F over lo..n.
Running(P, lo, hi, F) ==
  /\ P[lo - 1] = 0
  /\ \A n \in lo..hi : P[n] = P[n - 1] + F[n]
  /\ \A n \in (lo - 1)..hi : P[n] \in Nat

LEMMA SumInterval ==
  ASSUME NEW lo, NEW hi, Span(lo, hi), NEW F, F \in [lo..hi -> Nat], NEW ch, Takes(ch, lo..hi), NEW h,
         SumOf(h, lo..hi, F, ch), NEW P, Running(P, lo, hi, F)
  PROVE  h[lo..hi] = P[hi]
<1> USE DEF Running, Span
<1>1. \A s \in SUBSET (lo..hi) : h[s] \in Nat /\ \A x \in s : h[s] = F[x] + h[s \ {x}]
  <2> DEFINE S == lo..hi
  <2>1. IsFiniteSet(S)
    <3>1. lo \in Int /\ hi \in Int
      BY DEF Span
    <3> QED BY <3>1, FS_Interval
  <2>2. F \in [S -> Nat] /\ Takes(ch, S)
    OBVIOUS
  <2>3. SumOf(h, S, F, ch)
    OBVIOUS
  <2> HIDE DEF S, Running, Span
  <2>4. AnyFirst(h, S, F)
    BY <2>1, <2>2, <2>3, SumFrom
  <2> QED BY <2>4 DEF S, AnyFirst
<1> DEFINE T == {n \in Nat : lo - 1 + n <= hi => h[lo..(lo - 1 + n)] = P[lo - 1 + n]}
<1>2. 0 \in T
  <2>1. lo..(lo - 1 + 0) = {} /\ lo - 1 + 0 = lo - 1
    OBVIOUS
  <2>2. h[{}] = 0
    BY DEF SumOf
  <2> QED BY <2>1, <2>2
<1>3. ASSUME NEW n \in Nat, n \in T PROVE n + 1 \in T
  <2>1. SUFFICES ASSUME lo - 1 + (n + 1) <= hi
                 PROVE  h[lo..(lo - 1 + (n + 1))] = P[lo - 1 + (n + 1)]
    OBVIOUS
  <2> DEFINE m == lo - 1 + (n + 1)
  <2>2. m \in lo..hi /\ m - 1 = lo - 1 + n /\ m \in lo..m
        /\ lo..m \in SUBSET (lo..hi) /\ m - 1 <= hi
    BY <2>1
  <2> HIDE DEF m
  <2>3. h[lo..(m - 1)] = P[m - 1]
    <3>1. h[lo..(lo - 1 + n)] = P[lo - 1 + n]
      BY <1>3, <2>2
    <3> QED BY <2>2, <3>1
  <2>4. h[lo..m] = F[m] + h[(lo..m) \ {m}]
    BY <1>1, <2>2
  <2>5. P[m] = P[m - 1] + F[m] /\ F[m] \in Nat /\ P[m - 1] \in Nat
    <3>1. m - 1 \in (lo - 1)..hi
      BY <2>2
    <3> QED BY <2>2, <3>1
  <2>6. h[lo..m] = P[m]
    <3>1. (lo..m) \ {m} = lo..(m - 1)
      <4>1. lo \in Int /\ m \in Int
        BY <2>2
      <4> HIDE DEF Running, Span
      <4>2. ASSUME NEW x PROVE x \in (lo..m) \ {m} <=> x \in lo..(m - 1)
        BY <4>1
      <4> QED BY <4>2
    <3>2. h[lo..m] = F[m] + h[lo..(m - 1)]
      BY <2>4, <3>1
    <3> QED BY <2>3, <2>5, <3>2
  <2> QED BY <2>6 DEF m
<1> DEFINE d == hi - (lo - 1)
<1>4. d \in Nat /\ lo - 1 + d = hi
  OBVIOUS
<1>5. d \in T
  <2> HIDE DEF T, d
  <2> QED BY <1>2, <1>3, <1>4, NatSetInduction
<1> HIDE DEF d
<1>6. h[lo..(lo - 1 + d)] = P[lo - 1 + d]
  BY <1>4, <1>5
<1> QED BY <1>4, <1>6

AnyOf(S) == [s \in SUBSET S |-> CHOOSE x \in s : TRUE]

LEMMA AnyTakes ==
  ASSUME NEW S
  PROVE  Takes(AnyOf(S), S) /\ \A s \in SUBSET S : AnyOf(S)[s] = CHOOSE x \in s : TRUE
<1>1. \A s \in SUBSET S : AnyOf(S)[s] = CHOOSE x \in s : TRUE
  BY DEF AnyOf
<1>2. ASSUME NEW s \in SUBSET S, s # {} PROVE (CHOOSE x \in s : TRUE) \in s
  <2>1. \E x \in s : TRUE
    BY <1>2
  <2> QED BY <2>1
<1> QED BY <1>1, <1>2 DEF Takes

\* The sum over a set that takes some element first.
SumStep(f, S, F) ==
  [s \in SUBSET S |-> IF s = {} THEN 0 ELSE LET x == CHOOSE x \in s : TRUE IN F[x] + f[s \ {x}]]

LEMMA SumOver ==
  ASSUME NEW lo, NEW hi, Span(lo, hi), NEW F, F \in [lo..hi -> Nat],
         NEW P, Running(P, lo, hi, F)
  PROVE  /\ \E f : f = SumStep(f, lo..hi, F)
         /\ \A f : f = SumStep(f, lo..hi, F) => f[lo..hi] = P[hi]
<1> DEFINE S == lo..hi
           ch == AnyOf(S)
           G == [n \in S |-> [x \in Nat |-> F[n] + x]]
<1>1. IsFiniteSet(S) /\ Takes(ch, S) /\ \A s \in SUBSET S : ch[s] = CHOOSE x \in s : TRUE
  <2>1. IsFiniteSet(S)
    <3>1. lo \in Int /\ hi \in Int
      BY DEF Span
    <3> QED BY <3>1, FS_Interval
  <2> HIDE DEF S
  <2>2. Takes(ch, S) /\ \A s \in SUBSET S : ch[s] = CHOOSE x \in s : TRUE
    BY AnyTakes
  <2> QED BY <2>1, <2>2
<1>2. \A s \in SUBSET S : s # {} => ch[s] \in S
  BY <1>1 DEF Takes
<1>3. G \in [S -> [Nat -> Nat]] /\ \A n \in S, x \in Nat : G[n][x] = F[n] + x
  <2>1. \A n \in S : F[n] \in Nat
    OBVIOUS
  <2> HIDE DEF S
  <2> QED BY <2>1
<1> HIDE DEF G, ch, S
<1>4. PICK f \in [SUBSET S -> Nat] : FoldOf(f, S, 0, ch, G)
  <2> DEFINE N == Nat
             a == 0
  <2>1. a \in N /\ G \in [S -> [N -> N]]
    BY <1>3
  <2>2. IsFiniteSet(S) /\ Takes(ch, S)
    BY <1>1
  <2> HIDE DEF N, a
  <2>3. \E f \in [SUBSET S -> N] : FoldOf(f, S, a, ch, G)
    BY <2>1, <2>2, FoldExists
  <2> QED BY <2>3 DEF N, a
<1>5. f = SumStep(f, S, F)
  <2>1. ASSUME NEW s \in SUBSET S
        PROVE  f[s] = IF s = {} THEN 0 ELSE LET x == CHOOSE x \in s : TRUE IN F[x] + f[s \ {x}]
    <3>1. CASE s = {}
      BY <1>4, <3>1 DEF FoldOf
    <3>2. CASE s # {}
      <4> DEFINE n == ch[s]
                 x == f[s \ {n}]
      <4>1. f[s] = G[n][x]
        BY <1>4, <3>2 DEF FoldOf
      <4>2. n \in S /\ x \in Nat
        BY <1>2, <1>4, <3>2
      <4> HIDE DEF n, x
      <4>3. f[s] = F[n] + x
        BY <1>3, <4>1, <4>2
      <4> QED BY <1>1, <3>2, <4>3 DEF n, x
    <3> QED BY <3>1, <3>2
  <2> QED BY <1>4, <2>1 DEF SumStep
<1>6. ASSUME NEW h, h = SumStep(h, S, F) PROVE h[lo..hi] = P[hi]
  <2>1. ASSUME NEW s \in SUBSET S PROVE h[s] = IF s = {} THEN 0 ELSE F[ch[s]] + h[s \ {ch[s]}]
    <3>1. h[s] = IF s = {} THEN 0 ELSE LET x == CHOOSE x \in s : TRUE IN F[x] + h[s \ {x}]
      BY <1>6 DEF SumStep
    <3> QED BY <1>1, <3>1
  <2>2. F \in [lo..hi -> Nat] /\ Takes(ch, lo..hi)
    BY <1>1 DEF S
  <2>3. SumOf(h, lo..hi, F, ch)
    BY <2>1 DEF S, SumOf
  <2> QED BY <2>2, <2>3, SumInterval
<1> QED BY <1>5, <1>6 DEF S

\* The sum of the sizes of the columns in S.
SizeSum(cs, S) == MapThenSumSet(LAMBDA n : cs[n].size, S)

LEMMA SizeSumIs ==
  ASSUME NEW cs, NEW lo, NEW hi, Span(lo, hi), \A n \in lo..hi : cs[n].size \in Nat,
         NEW P, Running(P, lo, hi, [n \in lo..hi |-> cs[n].size])
  PROVE  SizeSum(cs, lo..hi) = P[hi]
<1> DEFINE S == lo..hi
           F == [n \in S |-> cs[n].size]
           Step(f) == [s \in SUBSET S |->
                         IF s = {} THEN 0
                         ELSE LET x == CHOOSE x \in s : TRUE IN cs[x].size + f[s \ {x}]]
           h == CHOOSE f : f = Step(f)
<1>1. SizeSum(cs, S) = h[S]
  BY DEF SizeSum, MapThenSumSet, MapThenFoldSet
<1>2. F \in [S -> Nat] /\ \A n \in S : F[n] = cs[n].size
  OBVIOUS
<1>3. (\E f : f = SumStep(f, S, F)) /\ \A f : f = SumStep(f, S, F) => f[S] = P[hi]
  <2> HIDE DEF F
  <2>1. Running(P, lo, hi, F)
    BY DEF F
  <2> QED BY <1>2, <2>1, SumOver
<1> HIDE DEF S, F
<1>4. ASSUME NEW f PROVE Step(f) = SumStep(f, S, F)
  <2>1. ASSUME NEW s \in SUBSET S, s # {} PROVE cs[CHOOSE x \in s : TRUE].size = F[CHOOSE x \in s : TRUE]
    <3>1. (CHOOSE x \in s : TRUE) \in S
      BY <2>1
    <3> QED BY <1>2, <3>1
  <2> QED BY <2>1 DEF SumStep
<1>5. h = Step(h)
  <2>1. \E f : f = Step(f)
    <3> HIDE DEF Step
    <3> QED BY <1>3, <1>4
  <2> HIDE DEF Step
  <2> QED BY <2>1
<1> HIDE DEF h, Step
<1> QED BY <1>1, <1>3, <1>4, <1>5 DEF S

(***************************************************************************)
(* The sectors in front of a column.                                       *)
(***************************************************************************)

Before(r, c) == c * Quotient(r) + IF c <= BigCols(r) THEN c ELSE BigCols(r)

LEMMA Fronts ==
  ASSUME pool \in Pools, NEW r \in Requests
  PROVE  /\ Before(r, 0) = 0
         /\ \A c \in 0..dcols : Before(r, c) \in Nat
         /\ \A c \in 0..(dcols - 1) : Before(r, c + 1) = Before(r, c) + ColSize(r, c)
         /\ Before(r, AccessedCols(r)) = Total(r)
<1> DEFINE D == dcols
           q == Quotient(r)
           B == BigCols(r)
<1>1. D \in Nat /\ D >= 2
  BY Children
<1>2. q \in Nat /\ B \in 0..(D - 1) /\ Total(r) = q * D + B
  BY Shape
<1>3. \A c \in 0..(D - 1) : ColSize(r, c) = q + IF c < B THEN 1 ELSE 0
  BY Sizes
<1>4. AccessedCols(r) = IF q = 0 THEN B ELSE D
  BY Accessed
<1>5. \A c : Before(r, c) = c * q + IF c <= B THEN c ELSE B
  BY DEF Before
<1> HIDE DEF D, q, B
<1>6. Before(r, 0) = 0
  BY <1>2, <1>5
<1>7. ASSUME NEW c \in 0..D PROVE Before(r, c) \in Nat
  <2>1. c * q \in Nat
    BY <1>1, <1>2, Products
  <2> QED BY <1>1, <1>2, <1>5, <2>1
<1>8. ASSUME NEW c \in 0..(D - 1) PROVE Before(r, c + 1) = Before(r, c) + ColSize(r, c)
  <2>1. c * q \in Nat /\ (c + 1) * q = c * q + q
    BY <1>1, <1>2, Products
  <2>2. Before(r, c + 1) = (c + 1) * q + IF c + 1 <= B THEN c + 1 ELSE B
    BY <1>5
  <2>3. Before(r, c) = c * q + IF c <= B THEN c ELSE B
    BY <1>5
  <2>4. ColSize(r, c) = q + IF c < B THEN 1 ELSE 0
    BY <1>3
  <2> DEFINE x == c * q
             y == (c + 1) * q
  <2>5. Before(r, c + 1) = y + (IF c + 1 <= B THEN c + 1 ELSE B) /\ Before(r, c) = x + (IF c <= B THEN c ELSE B)
        /\ x \in Nat /\ y = x + q
    BY <2>1, <2>2, <2>3
  <2> HIDE DEF x, y
  <2> QED BY <1>1, <1>2, <2>4, <2>5
<1>9. Before(r, AccessedCols(r)) = Total(r)
  <2>1. CASE q = 0
    <3>1. Before(r, B) = B * q + B /\ B * q = 0 /\ q * D = 0
      BY <1>1, <1>2, <1>5, <2>1
    <3> QED BY <1>2, <1>4, <2>1, <3>1
  <2>2. CASE q # 0
    <3>1. Before(r, D) = D * q + B /\ D * q = q * D
      BY <1>1, <1>2, <1>5
    <3> QED BY <1>2, <1>4, <2>2, <3>1
  <2> QED BY <2>1, <2>2
<1> QED BY <1>6, <1>7, <1>8, <1>9 DEF D

LEMMA FrontsGrow ==
  ASSUME pool \in Pools, NEW r \in Requests, NEW m \in 0..dcols, NEW n \in 0..dcols, m <= n
  PROVE  Before(r, m) <= Before(r, n)
<1> DEFINE q == Quotient(r)
           B == BigCols(r)
           x == m * q
           y == n * q
<1>1. m \in Nat /\ n \in Nat /\ q \in Nat /\ B \in Nat
  BY Children, Shape
<1>2. x \in Nat /\ y \in Nat /\ x <= y
  <2> HIDE DEF q
  <2> QED BY <1>1, Products
<1>3. Before(r, m) = x + (IF m <= B THEN m ELSE B) /\ Before(r, n) = y + (IF n <= B THEN n ELSE B)
  BY DEF Before
<1> HIDE DEF x, y, B
<1> QED BY <1>1, <1>2, <1>3

LEMMA SumOfSizes ==
  ASSUME pool \in Pools, NEW r \in Requests, NEW lo \in 1..2, NEW hi \in 1..AccessedCols(r)
  PROVE  SizeSum(MapAlloc(r), lo..hi) = Before(r, hi) - Before(r, lo - 1)
<1> DEFINE A == AccessedCols(r)
           cs == MapAlloc(r)
           P == [n \in (lo - 1)..hi |-> Before(r, n) - Before(r, lo - 1)]
<1>1. A \in Nat /\ A >= 2 /\ A <= dcols /\ dcols \in Nat
  BY Accessed, Children
<1>2. \A c \in 0..A : Before(r, c) \in Nat
  BY <1>1, Fronts
<1>3. \A n \in 1..A : /\ cs[n].size \in Nat
                      /\ Before(r, n) = Before(r, n - 1) + cs[n].size
  <2>1. SUFFICES ASSUME NEW n \in 1..A
                 PROVE  cs[n].size \in Nat /\ Before(r, n) = Before(r, n - 1) + cs[n].size
    OBVIOUS
  <2>2. n - 1 \in 0..(dcols - 1) /\ (n - 1) + 1 = n
    BY <1>1
  <2>3. cs[n].size = ColSize(r, n - 1) /\ ColSize(r, n - 1) \in Nat
    BY <2>2, ColumnsOf, Sizes
  <2>4. Before(r, (n - 1) + 1) = Before(r, n - 1) + ColSize(r, n - 1)
    BY <2>2, Fronts
  <2> QED BY <2>2, <2>3, <2>4
<1>4. Before(r, 0) = 0
  BY Fronts
<1> HIDE DEF cs, A
<1>5. ASSUME NEW n \in (lo - 1)..hi PROVE P[n] \in Nat /\ P[n] = Before(r, n) - Before(r, lo - 1)
  <2>1. n \in 0..A /\ lo - 1 \in 0..A /\ Before(r, n) \in Nat /\ Before(r, lo - 1) \in Nat
    BY <1>1, <1>2 DEF A
  <2>2. Before(r, lo - 1) <= Before(r, n)
    <3>1. lo - 1 \in 0..dcols /\ n \in 0..dcols /\ lo - 1 <= n
      BY <1>1, <2>1 DEF A
    <3> QED BY <3>1, FrontsGrow
  <2> QED BY <2>1, <2>2
<1>6. P[lo - 1] = 0
  <2>1. lo - 1 \in (lo - 1)..hi
    OBVIOUS
  <2>2. Before(r, lo - 1) \in Nat
    BY <1>1, <1>2
  <2> QED BY <2>1, <2>2
<1>7. ASSUME NEW n \in lo..hi PROVE P[n] = P[n - 1] + cs[n].size
  <2>1. n \in (lo - 1)..hi /\ n - 1 \in (lo - 1)..hi /\ n \in 1..A /\ n - 1 \in 0..A /\ lo - 1 \in 0..A
    BY <1>1 DEF A
  <2>2. Before(r, n) \in Nat /\ Before(r, n - 1) \in Nat /\ Before(r, lo - 1) \in Nat /\ cs[n].size \in Nat
        /\ Before(r, n) = Before(r, n - 1) + cs[n].size
    <3>1. n \in 0..A
      BY <2>1
    <3> QED BY <1>2, <1>3, <2>1, <3>1
  <2>3. P[n] = Before(r, n) - Before(r, lo - 1) /\ P[n - 1] = Before(r, n - 1) - Before(r, lo - 1)
    BY <1>5, <2>1
  <2> HIDE DEF P
  <2> QED BY <2>2, <2>3
<1>8. \A n \in lo..hi : cs[n].size \in Nat
  <2>1. \A n \in lo..hi : n \in 1..A
    BY <1>1 DEF A
  <2> QED BY <1>3, <2>1
<1>9. SizeSum(cs, lo..hi) = P[hi]
  <2>1. Span(lo, hi)
    BY <1>1 DEF A, Span
  <2>2. \A n \in (lo - 1)..hi : P[n] \in Nat
    BY <1>5
  <2> HIDE DEF P
  <2>3. Running(P, lo, hi, [n \in lo..hi |-> cs[n].size])
    BY <1>6, <1>7, <2>2 DEF Running
  <2> QED BY <1>8, <2>1, <2>3, SizeSumIs
<1>10. hi \in (lo - 1)..hi
  BY <1>1 DEF A
<1> QED BY <1>5, <1>9, <1>10 DEF cs

(***************************************************************************)
(* The columns, each from its place alone.                                 *)
(***************************************************************************)

Dev(r, n)   == (r.b + PlaceOf(r, n)) % dcols
Off(r, n)   == (r.b + PlaceOf(r, n)) \div dcols
Col(r, n)   == [dev |-> Dev(r, n), off |-> Off(r, n), size |-> ColSize(r, n - 1)]
TheColumns(r) == [n \in 1..AccessedCols(r) |-> Col(r, n)]

LEMMA Places ==
  ASSUME pool \in Pools, NEW r \in Requests
  PROVE  /\ \A n \in 1..AccessedCols(r) :
              /\ PlaceOf(r, n) \in 0..(AccessedCols(r) - 1)
              /\ ColSize(r, PlaceOf(r, n)) = ColSize(r, n - 1)
              /\ Dev(r, n) \in 0..(dcols - 1) /\ Off(r, n) \in Nat
              /\ Off(r, n) * dcols + Dev(r, n) = r.b + PlaceOf(r, n)
         /\ \A c \in 0..(AccessedCols(r) - 1) : \E n \in 1..AccessedCols(r) : PlaceOf(r, n) = c
         /\ ColSize(r, 0) = ColSize(r, 1)
<1> DEFINE A == AccessedCols(r)
           D == dcols
<1>1. A \in Nat /\ A >= 2 /\ A <= D /\ D \in Nat
  BY Accessed, Children
<1>2. ColSize(r, 0) = ColSize(r, 1)
  <2>1. 0 \in 0..(D - 1) /\ 1 \in 0..(D - 1)
    BY <1>1
  <2>2. ColSize(r, 0) = Quotient(r) + (IF 0 < BigCols(r) THEN 1 ELSE 0)
    BY <2>1, Sizes
  <2>3. ColSize(r, 1) = Quotient(r) + (IF 1 < BigCols(r) THEN 1 ELSE 0)
    BY <2>1, Sizes
  <2>4. BigCols(r) \in 0..(D - 1) /\ BigCols(r) # 1
    BY Shape
  <2>5. 0 < BigCols(r) <=> 1 < BigCols(r)
    BY <1>1, <2>4
  <2> QED BY <2>2, <2>3, <2>5
<1>3. r.b \in Nat
  BY Shape
<1>4. ASSUME NEW n \in 1..A
      PROVE  /\ PlaceOf(r, n) \in 0..(A - 1)
             /\ ColSize(r, PlaceOf(r, n)) = ColSize(r, n - 1)
             /\ Dev(r, n) \in 0..(D - 1) /\ Off(r, n) \in Nat
             /\ Off(r, n) * D + Dev(r, n) = r.b + PlaceOf(r, n)
  <2>1. PlaceOf(r, n) \in 0..(A - 1)
    BY ColumnsOf
  <2>2. ColSize(r, PlaceOf(r, n)) = ColSize(r, n - 1)
    <3>1. CASE Swapped(r) /\ n <= 2
      <4>1. n = 1 \/ n = 2
        BY <3>1
      <4>2. n = 1 => PlaceOf(r, n) = 1 /\ n - 1 = 0
        BY <3>1 DEF PlaceOf
      <4>3. n = 2 => PlaceOf(r, n) = 0 /\ n - 1 = 1
        BY <3>1 DEF PlaceOf
      <4> QED BY <1>2, <4>1, <4>2, <4>3
    <3>2. CASE ~(Swapped(r) /\ n <= 2)
      BY <3>2 DEF PlaceOf
    <3> QED BY <3>1, <3>2
  <2> DEFINE a == r.b + PlaceOf(r, n)
  <2>3. a \in Nat
    BY <1>1, <1>3, <2>1
  <2>4. D \in Nat \ {0}
    BY <1>1
  <2> HIDE DEF a, D
  <2>5. a % D \in 0..(D - 1) /\ a \div D \in Nat /\ (a \div D) * D + (a % D) = a
    BY <2>3, <2>4, DivMod
  <2> QED BY <2>1, <2>2, <2>5 DEF Dev, Off, a, D
<1>5. ASSUME NEW c \in 0..(A - 1) PROVE \E n \in 1..A : PlaceOf(r, n) = c
  <2>1. CASE Swapped(r) /\ c < 2
    <3>1. 2 - c \in 1..A /\ 2 - c <= 2 /\ 2 - (2 - c) = c
      BY <1>1, <2>1
    <3>2. PlaceOf(r, 2 - c) = c
      BY <2>1, <3>1 DEF PlaceOf
    <3> QED BY <3>1, <3>2
  <2>2. CASE ~(Swapped(r) /\ c < 2)
    <3>1. c + 1 \in 1..A /\ (c < 2 <=> c + 1 <= 2) /\ (c + 1) - 1 = c
      BY <1>1
    <3>2. PlaceOf(r, c + 1) = c
      BY <2>2, <3>1 DEF PlaceOf
    <3> QED BY <3>1, <3>2
  <2> QED BY <2>1, <2>2
<1> QED BY <1>2, <1>4, <1>5

LEMMA TheMap ==
  ASSUME pool \in Pools, NEW r \in Requests
  PROVE  /\ MapAlloc(r) = TheColumns(r) /\ Len(TheColumns(r)) = AccessedCols(r)
         /\ DOMAIN TheColumns(r) = 1..AccessedCols(r)
         /\ \A n \in 1..AccessedCols(r) : TheColumns(r)[n] = Col(r, n) /\ Col(r, n) \in ColumnType
<1> DEFINE A == AccessedCols(r)
           M == MapAlloc(r)
           D == dcols
<1>1. A \in Nat /\ D \in Nat \ {0}
  BY Accessed, Children
<1>2. ASSUME NEW n \in 1..A PROVE M[n] = Col(r, n) /\ Col(r, n) \in ColumnType
  <2>1. M[n] \in ColumnType /\ M[n].size = ColSize(r, n - 1) /\ M[n].off * D + M[n].dev = r.b + PlaceOf(r, n)
    BY ColumnsOf
  <2> DEFINE x == M[n].off
             y == M[n].dev
  <2>2. x \in Nat /\ y \in 0..(D - 1) /\ M[n] = [dev |-> y, off |-> x, size |-> ColSize(r, n - 1)]
    BY <2>1 DEF ColumnType
  <2>3. x * D + y = r.b + PlaceOf(r, n)
    BY <2>1
  <2> HIDE DEF x, y, M, D
  <2>4. (x * D + y) \div D = x /\ (x * D + y) % D = y
    BY <1>1, <2>2, OneQuotient
  <2>5. M[n] = Col(r, n)
    BY <2>2, <2>3, <2>4 DEF Col, Dev, Off, D
  <2> QED BY <2>1, <2>5
<1>3. M \in Seq(ColumnType) /\ Len(M) = A
  BY ColumnsOf
<1>4. M \in [1..A -> ColumnType]
  <2> HIDE DEF M, A
  <2> QED BY <1>3, LenProperties
<1>5. M = TheColumns(r)
  <2> HIDE DEF M
  <2> QED BY <1>2, <1>4 DEF TheColumns
<1> QED BY <1>2, <1>3, <1>5 DEF TheColumns

\* Sector k of the whole device is in one place of one column, when it is of the block.
Sectors(cs, n) == {(cs[n].off + j) * dcols + cs[n].dev : j \in 0..(cs[n].size - 1)}

LEMMA AllSectors ==
  ASSUME pool \in Pools, NEW r \in Requests
  PROVE  UNION {Sectors(TheColumns(r), n) : n \in 1..AccessedCols(r)} = r.b..(r.b + Total(r) - 1)
<1> DEFINE A == AccessedCols(r)
           D == dcols
           T == Total(r)
           b == r.b
           S(n) == Sectors(TheColumns(r), n)
<1>1. A \in Nat /\ A >= 2 /\ A <= D /\ D \in Nat \ {0} /\ b \in Nat /\ T \in Nat
  <2>1. Before(r, A) \in Nat /\ Before(r, A) = T
    <3>1. A \in 0..dcols
      BY Accessed, Children
    <3> QED BY <3>1, Fronts
  <2> QED BY <2>1, Accessed, Children, Shape
<1>2. ASSUME NEW n \in 1..A, NEW j \in Nat
      PROVE  /\ (Off(r, n) + j) * D + Dev(r, n) = b + (PlaceOf(r, n) + j * D)
             /\ PlaceOf(r, n) + j * D < T <=> j < ColSize(r, n - 1)
  <2>1. /\ PlaceOf(r, n) \in 0..(A - 1) /\ ColSize(r, PlaceOf(r, n)) = ColSize(r, n - 1)
        /\ Off(r, n) * D + Dev(r, n) = b + PlaceOf(r, n)
        /\ Off(r, n) \in Nat /\ Dev(r, n) \in Nat
    BY <1>1, Places
  <2>2. PlaceOf(r, n) + j * D < T <=> j < ColSize(r, PlaceOf(r, n))
    <3>1. PlaceOf(r, n) \in 0..(D - 1)
      BY <1>1, <2>1
    <3> QED BY <3>1, Sizes
  <2>3. (Off(r, n) + j) * D = Off(r, n) * D + j * D /\ j * D \in Nat /\ Off(r, n) * D \in Nat
    <3> DEFINE x == Off(r, n)
    <3>1. x \in Nat
      BY <2>1
    <3> HIDE DEF x, D
    <3>2. (x + j) * D = x * D + j * D /\ j * D \in Nat /\ x * D \in Nat
      BY <1>1, <3>1, Products
    <3> QED BY <3>2 DEF x
  <2> QED BY <1>1, <2>1, <2>2, <2>3
<1>3. ASSUME NEW n \in 1..A
      PROVE  /\ ColSize(r, n - 1) \in Nat
             /\ \A x : x \in S(n) <=> \E j \in 0..(ColSize(r, n - 1) - 1) : x = b + (PlaceOf(r, n) + j * D)
  <2>1. TheColumns(r)[n].size = ColSize(r, n - 1) /\ TheColumns(r)[n].off = Off(r, n)
        /\ TheColumns(r)[n].dev = Dev(r, n)
    <3>1. TheColumns(r)[n] = Col(r, n)
      BY TheMap
    <3> QED BY <3>1 DEF Col
  <2>2. ColSize(r, n - 1) \in Nat
    <3>1. n - 1 \in 0..(D - 1)
      BY <1>1
    <3> QED BY <3>1, Sizes
  <2>3. S(n) = {(Off(r, n) + j) * D + Dev(r, n) : j \in 0..(ColSize(r, n - 1) - 1)}
    BY <2>1 DEF Sectors
  <2>4. \A j \in 0..(ColSize(r, n - 1) - 1) : (Off(r, n) + j) * D + Dev(r, n) = b + (PlaceOf(r, n) + j * D)
    BY <1>2, <2>2
  <2> HIDE DEF S
  <2> QED BY <2>2, <2>3, <2>4
<1>4. ASSUME NEW n \in 1..A, NEW x \in S(n) PROVE x \in b..(b + T - 1)
  <2>1. PICK j \in 0..(ColSize(r, n - 1) - 1) : x = b + (PlaceOf(r, n) + j * D)
    BY <1>3, <1>4
  <2>2. j \in Nat /\ j < ColSize(r, n - 1) /\ PlaceOf(r, n) \in Nat
    <3>1. PlaceOf(r, n) \in 0..(A - 1)
      BY Places
    <3> QED BY <1>1, <1>3, <3>1
  <2>3. PlaceOf(r, n) + j * D < T /\ j * D \in Nat
    BY <1>1, <1>2, <2>2, Products
  <2> QED BY <1>1, <2>1, <2>2, <2>3
<1>5. ASSUME NEW x \in b..(b + T - 1) PROVE \E n \in 1..A : x \in S(n)
  <2> DEFINE y == x - b
             c == y % D
             j == y \div D
  <2>1. y \in Nat /\ y < T /\ x = b + y
    BY <1>1
  <2>2. c \in 0..(D - 1) /\ j \in Nat /\ y = j * D + c
    <3> HIDE DEF y, D
    <3> QED BY <1>1, <2>1, DivMod
  <2> HIDE DEF y, c, j
  <2>3. j * D \in Nat
    BY <1>1, <2>2, Products
  <2>4. c + j * D < T
    BY <1>1, <2>1, <2>2, <2>3
  <2>5. ColSize(r, c) \in Nat /\ j < ColSize(r, c) /\ c < A
    <3>1. ColSize(r, c) \in Nat /\ j < ColSize(r, c)
      BY <2>2, <2>4, Sizes
    <3>2. ColSize(r, c) > 0
      BY <2>2, <3>1
    <3> QED BY <2>2, <3>1, <3>2, Sizes
  <2>6. PICK n \in 1..A : PlaceOf(r, n) = c
    <3>1. c \in 0..(A - 1)
      BY <1>1, <2>2, <2>5
    <3> QED BY <3>1, Places
  <2>7. ColSize(r, n - 1) = ColSize(r, c)
    BY <2>6, Places
  <2>8. x = b + (PlaceOf(r, n) + j * D) /\ j \in 0..(ColSize(r, n - 1) - 1)
    <3>1. y = c + j * D
      BY <1>1, <2>2, <2>3
    <3>2. j \in 0..(ColSize(r, c) - 1)
      BY <2>2, <2>5
    <3> QED BY <2>1, <2>6, <2>7, <3>1, <3>2
  <2> HIDE DEF S
  <2> QED BY <1>3, <2>8
<1> HIDE DEF S
<1>6. UNION {S(n) : n \in 1..A} = b..(b + T - 1)
  BY <1>4, <1>5
<1> QED BY <1>6 DEF S

LEMMA Allocated ==
  ASSUME table \in Tables, pool \in Pools, NEW r \in Requests, req = r, cols = TheColumns(r)
  PROVE  ColumnsAreTheAllocation
<1> DEFINE A == AccessedCols(r)
           T == Total(r)
<1>1. A \in Nat /\ A >= 2 /\ A <= ScannedCols(r) /\ NParity = 1 /\ dcols \in Nat
  BY Accessed, Children
<1>2. DOMAIN cols = 1..A /\ Len(cols) = A
  BY TheMap
<1>3. UNION {Sectors(cols, n) : n \in DOMAIN cols} = r.b..(r.b + T - 1)
  BY <1>2, AllSectors
<1>4. SizeSum(cols, 1..A) = T
  <2>1. SizeSum(MapAlloc(r), 1..A) = Before(r, A) - Before(r, 1 - 1)
    BY <1>1, SumOfSizes
  <2>2. Before(r, 1 - 1) = 0 /\ Before(r, A) = T /\ Before(r, A) \in Nat
    <3>1. A \in 0..dcols
      BY Accessed, Children
    <3>2. 1 - 1 = 0
      OBVIOUS
    <3> QED BY <3>1, <3>2, Fronts
  <2> QED BY <2>1, <2>2, TheMap
<1>5. Roundup(T, NParity + 1) - T <= NParity
  <2>1. T \in Nat
    <3>1. A \in 0..dcols
      BY Accessed, Children
    <3> QED BY <3>1, Fronts
  <2>2. Roundup(T, 2) = 2 * ((T + 2 - 1) \div 2)
    BY DEF Roundup
  <2> HIDE DEF T
  <2>3. 2 * ((T + 2 - 1) \div 2) - T <= 1
    BY <2>1
  <2> QED BY <1>1, <2>2, <2>3
<1>6. cols[1].size = cols[2].size
  <2>1. 1 \in 1..A /\ 2 \in 1..A /\ 1 - 1 = 0 /\ 2 - 1 = 1
    BY <1>1
  <2>2. cols[1].size = ColSize(r, 0) /\ cols[2].size = ColSize(r, 1)
    <3>1. cols[1] = Col(r, 1) /\ cols[2] = Col(r, 2)
      <4> HIDE DEF A
      <4> QED BY <2>1, TheMap DEF A
    <3> QED BY <2>1, <3>1 DEF Col
  <2> QED BY <2>2, Places
<1> QED BY <1>1, <1>2, <1>3, <1>4, <1>5, <1>6 DEF ColumnsAreTheAllocation, Sectors, SizeSum

(***************************************************************************)
(* What does not change while the pool and the table do not.               *)
(***************************************************************************)

LEMMA SameShape ==
  ASSUME pool' = pool, NEW r
  PROVE  /\ dcols' = dcols
         /\ AccessedCols(r)' = AccessedCols(r)
         /\ \A c : ColSize(r, c)' = ColSize(r, c)
         /\ \A n : Col(r, n)' = Col(r, n)
         /\ TheColumns(r)' = TheColumns(r)
<1>1. dcols' = dcols
  BY DEF dcols
<1>2. Quotient(r)' = Quotient(r)
  BY <1>1 DEF Quotient
<1>3. Remainder(r)' = Remainder(r)
  BY <1>1, <1>2 DEF Remainder
<1>4. BigCols(r)' = BigCols(r)
  BY <1>3 DEF BigCols
<1>5. AccessedCols(r)' = AccessedCols(r)
  BY <1>1, <1>2, <1>4 DEF AccessedCols
<1>6. \A c : ColSize(r, c)' = ColSize(r, c)
  BY <1>2, <1>4, <1>5 DEF ColSize
<1>7. ASSUME NEW n PROVE Col(r, n)' = Col(r, n)
  <2>1. PlaceOf(r, n)' = PlaceOf(r, n)
    BY DEF PlaceOf, Swapped
  <2>2. Dev(r, n)' = Dev(r, n) /\ Off(r, n)' = Off(r, n)
    BY <1>1, <2>1 DEF Dev, Off
  <2> QED BY <1>6, <2>2 DEF Col
<1>8. TheColumns(r)' = TheColumns(r)
  BY <1>5, <1>7 DEF TheColumns
<1> QED BY <1>1, <1>5, <1>6, <1>7, <1>8

(***************************************************************************)
(* The columns of the block that is read, and the files that are open.     *)
(***************************************************************************)

Reading ==
  /\ table \in Tables /\ pool \in Pools
  /\ req # None => /\ req \in Requests /\ cols = TheColumns(req)
                   /\ pieces \in 0..Len(cols)

Opened ==
  \A key \in DOMAIN handles :
    /\ key[2] \in Nat
    /\ key[1] \in DOMAIN table => handles[key] = PartOf(key[1], key[2] * Part)

LEMMA InitReading == Init => Reading /\ Opened
BY DEF Init, FilesInit, Reading, Opened

\* The column that is read next.
LEMMA NextColumn ==
  ASSUME Reading, req # None, pieces < Len(cols)
  PROVE  /\ pieces + 1 \in 1..AccessedCols(req) /\ Len(cols) = AccessedCols(req)
         /\ cols[pieces + 1] = Col(req, pieces + 1) /\ cols[pieces + 1] \in ColumnType
         /\ cols[pieces + 1].off + Reserve \in Nat
<1>1. req \in Requests /\ cols = TheColumns(req) /\ pieces \in 0..Len(cols) /\ pool \in Pools
  BY DEF Reading
<1>2. Len(cols) = AccessedCols(req) /\ AccessedCols(req) \in Nat
  BY <1>1, TheMap, Accessed
<1>3. pieces + 1 \in 1..AccessedCols(req)
  BY <1>1, <1>2
<1>4. cols[pieces + 1] = Col(req, pieces + 1) /\ cols[pieces + 1] \in ColumnType
  BY <1>1, <1>3, TheMap
<1>5. cols[pieces + 1].off \in Nat
  BY <1>4 DEF ColumnType
<1> QED BY <1>2, <1>3, <1>4, <1>5, RaidzAssumption

LEMMA NextReading ==
  ASSUME Reading, [Next]_vars
  PROVE  Reading'
<1>1. CASE UNCHANGED vars
  <2>1. /\ table' = table /\ pool' = pool /\ req' = req /\ cols' = cols /\ pieces' = pieces
    BY <1>1 DEF vars, files
  <2> QED BY <2>1, SameShape DEF Reading
<1>2. ASSUME NEW r \in Requests, Issue(r) PROVE Reading'
  <2>1. /\ table' = table /\ pool' = pool /\ req' = r /\ cols' = MapAlloc(r) /\ pieces' = 0
    BY <1>2 DEF Issue, files
  <2>2. MapAlloc(r) = TheColumns(r) /\ Len(TheColumns(r)) = AccessedCols(r) /\ AccessedCols(r) \in Nat
    BY TheMap, Accessed DEF Reading
  <2>3. cols' = TheColumns(r)' /\ pieces' \in 0..Len(cols')
    BY <2>1, <2>2, SameShape
  <2> QED BY <2>1, <2>3 DEF Reading
<1>3. ASSUME NEW r \in Requests, TooFar(r) PROVE Reading'
  <2>1. /\ table' = table /\ pool' = pool /\ req' = req /\ cols' = cols /\ pieces' = pieces
    BY <1>3 DEF TooFar, files
  <2> QED BY <2>1, SameShape DEF Reading
<1>4. CASE ReadPiece
  <2>1. req # None /\ pieces < Len(cols) /\ table' = table /\ pool' = pool /\ req' = req /\ cols' = cols
        /\ pieces' = pieces + 1
    BY <1>4 DEF ReadPiece, ReadFile
  <2>2. pieces + 1 \in 0..Len(cols)
    BY <2>1, NextColumn
  <2> QED BY <2>1, <2>2, SameShape DEF Reading
<1>5. CASE ReadPieceRaises
  <2>1. table' = table /\ pool' = pool /\ req' = None
    BY <1>5 DEF ReadPieceRaises, ReadFileRaises, Answer, files
  <2> QED BY <2>1 DEF Reading
<1>6. CASE ReadEnds
  <2>1. table' = table /\ pool' = pool /\ req' = None
    BY <1>6 DEF ReadEnds, Answer, files
  <2> QED BY <2>1 DEF Reading
<1> QED BY <1>1, <1>2, <1>3, <1>4, <1>5, <1>6 DEF Next

\* The file that is read: the part of a device that the table has.
LEMMA FileOfPart ==
  ASSUME table \in Tables, Opened, NEW dev \in DOMAIN table, NEW a \in Nat,
         NEW file \in (IF Key(dev, a) \in DOMAIN handles THEN {handles[Key(dev, a)]}
                       ELSE Translated(dev, a) \intersect DOMAIN Length)
  PROVE  file = PartOf(dev, a) /\ file = PartOf(dev, Key(dev, a)[2] * Part)
<1> DEFINE k == IF UseParts THEN a \div Part ELSE 0
<1>1. Part \in Nat \ {0} /\ a \div Part \in Nat
  <2>1. Part \in Nat \ {0}
    BY FilesAssumption
  <2> QED BY <2>1, DivMod
<1>2. Key(dev, a) = <<dev, k>> /\ k \in Nat
  BY <1>1 DEF Key
<1>3. PartOf(dev, k * Part) = PartOf(dev, a)
  <2>1. CASE UseParts
    <3> DEFINE q == a \div Part
    <3>1. k = q
      BY <2>1
    <3>2. q \in Nat
      BY <1>1
    <3> HIDE DEF q
    <3>3. (q * Part + 0) \div Part = q /\ q * Part \in Nat
      <4>1. 0 \in 0..(Part - 1)
        BY <1>1
      <4>2. (q * Part + 0) \div Part = q
        BY <1>1, <3>2, <4>1, OneQuotient
      <4> QED BY <1>1, <3>2, <4>2, Products
    <3>4. q * Part + 0 = q * Part
      BY <3>3
    <3>5. (q * Part) \div Part = q
      BY <3>3, <3>4
    <3> HIDE DEF k
    <3> QED BY <3>1, <3>5 DEF PartOf, q
  <2>2. CASE ~UseParts
    <3>1. table[dev].kind = "path"
      BY <2>2, FilesAssumption DEF UseParts
    <3> QED BY <3>1 DEF PartOf
  <2> QED BY <2>1, <2>2
<1>4. file = PartOf(dev, a)
  <2>1. CASE Key(dev, a) \in DOMAIN handles
    <3>1. file = handles[Key(dev, a)]
      BY <2>1
    <3> HIDE DEF k
    <3>2. <<dev, k>>[1] = dev /\ <<dev, k>>[2] = k
      OBVIOUS
    <3>3. handles[<<dev, k>>] = PartOf(dev, k * Part)
      BY <1>2, <2>1, <3>2 DEF Opened
    <3> QED BY <1>2, <1>3, <3>1, <3>3
  <2>2. CASE Key(dev, a) \notin DOMAIN handles
    <3>1. file \in Translated(dev, a)
      BY <2>2
    <3>2. CASE ~UseParts
      <4>1. table[dev].kind = "path"
        BY <3>2, FilesAssumption DEF UseParts
      <4> QED BY <3>1, <3>2, <4>1 DEF PartOf, Translated
    <3>3. CASE UseParts
      <4>1. table[dev].kind = "parts" /\ file = table[dev].files[a \div Part + 1]
        BY <3>1, <3>3 DEF Translated
      <4> QED BY <4>1 DEF PartOf
    <3> QED BY <3>2, <3>3
  <2> QED BY <2>1, <2>2
<1> HIDE DEF k
<1> QED BY <1>2, <1>3, <1>4

LEMMA NextOpened ==
  ASSUME Reading, Opened, [Next]_vars
  PROVE  Opened'
<1>1. ASSUME table' = table, handles' = handles PROVE Opened'
  BY <1>1 DEF Opened, PartOf
<1>2. CASE ReadPiece
  <2> DEFINE col == cols[pieces + 1]
             dev == pool.devs[col.dev + 1]
             a == col.off + Reserve
  <2>1. a \in Nat
    BY <1>2, NextColumn DEF ReadPiece
  <2>2. PICK cells : ReadFile(dev, a, col.size, cells)
    BY <1>2 DEF ReadPiece
  <2>3. table' = table
    BY <2>2 DEF ReadFile
  <2> HIDE DEF dev, a, col
  <2>4. PICK file \in (IF Key(dev, a) \in DOMAIN handles THEN {handles[Key(dev, a)]}
                       ELSE Translated(dev, a) \intersect DOMAIN Length) :
          handles' = [key \in DOMAIN handles \union {Key(dev, a)} |->
                        IF key = Key(dev, a) THEN file ELSE handles[key]]
    BY <2>2 DEF ReadFile
  <2>5. Key(dev, a)[1] = dev /\ Key(dev, a)[2] \in Nat
    <3>1. a \div Part \in Nat
      BY <2>1, DivMod, FilesAssumption
    <3> QED BY <3>1 DEF Key
  <2>6. dev \in DOMAIN table => file = PartOf(dev, Key(dev, a)[2] * Part)
    BY <2>1, <2>4, FileOfPart DEF Reading
  <2>7. ASSUME NEW key \in DOMAIN handles'
        PROVE  /\ key[2] \in Nat
               /\ key[1] \in DOMAIN table => handles'[key] = PartOf(key[1], key[2] * Part)
    <3>1. CASE key = Key(dev, a)
      <4>1. handles'[key] = file
        BY <2>4, <3>1
      <4> QED BY <2>5, <2>6, <3>1, <4>1
    <3>2. CASE key # Key(dev, a)
      <4>1. key \in DOMAIN handles /\ handles'[key] = handles[key]
        BY <2>4, <2>7, <3>2
      <4> QED BY <4>1 DEF Opened
    <3> QED BY <3>1, <3>2
  <2>8. \A d, s : PartOf(d, s)' = PartOf(d, s)
    BY <2>3 DEF PartOf
  <2> QED BY <2>3, <2>7, <2>8 DEF Opened
<1>3. CASE UNCHANGED vars
  BY <1>1, <1>3 DEF vars, files
<1>4. ASSUME NEW r \in Requests, Issue(r) \/ TooFar(r) PROVE Opened'
  BY <1>1, <1>4 DEF Issue, TooFar, files
<1>5. CASE ReadPieceRaises
  BY <1>1, <1>5 DEF ReadPieceRaises, ReadFileRaises, files
<1>6. CASE ReadEnds
  BY <1>1, <1>6 DEF ReadEnds, files
<1> QED BY <1>2, <1>3, <1>4, <1>5, <1>6 DEF Next

\* A file that stays open is read only for the part it holds: the device, the
\* part and the place in it agree for every place a column can have.
THEOREM HandlesHoldTheParts == Spec => []HandlesAreTheParts
<1>1. Init => Reading /\ Opened
  BY InitReading
<1>2. Reading /\ Opened /\ [Next]_vars => Reading' /\ Opened'
  BY NextReading, NextOpened
<1>3. Opened => HandlesAreTheParts
  BY DEF Opened, HandlesAreTheParts
<1> QED BY <1>1, <1>2, <1>3, PTL DEF Spec

\* The columns of a block are what RAID-Z allocated for it, each sector once.
THEOREM ColumnsAreAllocated == Spec => []ColumnsAreTheAllocation
<1>1. Init => Reading
  BY InitReading
<1>2. Reading /\ [Next]_vars => Reading'
  BY NextReading
<1>3. Reading => ColumnsAreTheAllocation
  <2>1. CASE req = None
    BY <2>1 DEF ColumnsAreTheAllocation
  <2>2. CASE req # None
    BY <2>2, Allocated DEF Reading
  <2> QED BY <2>1, <2>2
<1> QED BY <1>1, <1>2, <1>3, PTL DEF Spec

(***************************************************************************)
(* What the disks hold.                                                    *)
(***************************************************************************)

LEMMA StripeSize ==
  ASSUME pool \in Pools, NEW r \in Requests, NEW c \in 0..(dcols - 1)
  PROVE  /\ Stripe(r, c) = 0..(ColSize(r, c) - 1)
         /\ Cardinality(Stripe(r, c)) = ColSize(r, c)
<1> DEFINE z == ColSize(r, c)
           T == Total(r)
           D == dcols
<1>1. z \in Nat /\ D \in Nat /\ D >= 2 /\ c \in Nat
  BY Sizes, Children
<1>2. T \in Nat
  <2>1. AccessedCols(r) \in 0..dcols
    BY Accessed, Children
  <2> QED BY <2>1, Fronts
<1>3. \A j \in Nat : c + j * D < T <=> j < z
  BY Sizes
<1>4. \A j \in Nat : j <= j * D
  <2>1. ASSUME NEW j \in Nat PROVE j <= j * D
    <3>1. 1 * j <= D * j
      <4> HIDE DEF D
      <4> QED BY <1>1, Products
    <3> QED BY <1>1, <3>1
  <2> QED BY <2>1
<1>5. Stripe(r, c) = {j \in 0..T : c + j * D < T}
  BY DEF Stripe
<1>6. ASSUME NEW j PROVE j \in Stripe(r, c) <=> j \in 0..(z - 1)
  <2>1. j \in Stripe(r, c) <=> j \in 0..T /\ c + j * D < T
    BY <1>5
  <2> HIDE DEF z, T, D
  <2>2. j \in 0..T /\ c + j * D < T => j \in 0..(z - 1)
    BY <1>1, <1>2, <1>3
  <2>3. ASSUME j \in 0..(z - 1) PROVE j \in 0..T /\ c + j * D < T
    <3>1. j \in Nat /\ j < z
      BY <1>1, <2>3
    <3>2. c + j * D < T /\ j <= j * D /\ j * D \in Nat
      BY <1>1, <1>3, <1>4, <3>1, Products
    <3> QED BY <1>1, <1>2, <3>1, <3>2
  <2> QED BY <2>1, <2>2, <2>3
<1>7. Stripe(r, c) = 0..(z - 1)
  BY <1>6
<1>8. Cardinality(0..(z - 1)) = z
  <2> HIDE DEF z
  <2>1. 0 \in Int /\ z - 1 \in Int
    BY <1>1
  <2>2. Cardinality(0..(z - 1)) = IF 0 > z - 1 THEN 0 ELSE (z - 1) - 0 + 1
    BY <2>1, FS_Interval
  <2> QED BY <1>1, <2>2
<1> QED BY <1>7, <1>8

\* The data sectors in front of column c are those of the columns 1 to c - 1.
LEMMA Index ==
  ASSUME pool \in Pools, NEW r \in Requests, NEW c \in 1..(dcols - 1), NEW j \in Nat
  PROVE  DataIndex(r, c, j) = j + (Before(r, c) - Before(r, 1))
<1> DEFINE hi == c - 1
           F == [d \in 1..hi |-> Cardinality(Stripe(r, d))]
           P == [n \in 0..hi |-> Before(r, n + 1) - Before(r, 1)]
           Step(f) == [s \in SUBSET (1..hi) |->
                         IF s = {} THEN 0
                         ELSE LET x == CHOOSE x \in s : TRUE
                              IN  Cardinality(Stripe(r, x)) + f[s \ {x}]]
           h == CHOOSE f : f = Step(f)
<1>1. dcols \in Nat /\ dcols >= 2 /\ hi \in Nat /\ hi + 1 <= dcols - 1 /\ hi + 1 = c
  BY Children
<1>2. DataIndex(r, c, j) = j + h[1..hi]
  BY DEF DataIndex, MapThenSumSet, MapThenFoldSet
<1>3. \A d \in 1..hi : F[d] = ColSize(r, d) /\ ColSize(r, d) \in Nat
                       /\ F[d] = Cardinality(Stripe(r, d))
  <2>1. ASSUME NEW d \in 1..hi PROVE Cardinality(Stripe(r, d)) = ColSize(r, d) /\ ColSize(r, d) \in Nat
    <3>1. d \in 0..(dcols - 1)
      BY <1>1
    <3> QED BY <3>1, StripeSize, Sizes
  <2> QED BY <2>1
<1>4. \A n \in 0..hi : /\ Before(r, n + 1) \in Nat /\ Before(r, 1) \in Nat
                       /\ Before(r, 1) <= Before(r, n + 1)
  <2>1. ASSUME NEW n \in 0..hi
        PROVE  /\ Before(r, n + 1) \in Nat /\ Before(r, 1) \in Nat
               /\ Before(r, 1) <= Before(r, n + 1)
    <3>1. n + 1 \in 0..dcols /\ 1 \in 0..dcols /\ 1 <= n + 1
      BY <1>1
    <3> QED BY <3>1, Fronts, FrontsGrow
  <2> QED BY <2>1
<1>5. \A n \in 0..hi : P[n] = Before(r, n + 1) - Before(r, 1) /\ P[n] \in Nat
  BY <1>4
<1>6. Running(P, 1, hi, F) /\ Span(1, hi) /\ F \in [1..hi -> Nat]
  <2>1. P[1 - 1] = 0
    <3>1. 1 - 1 \in 0..hi /\ (1 - 1) + 1 = 1
      BY <1>1
    <3> HIDE DEF P
    <3> QED BY <1>4, <1>5, <3>1
  <2>2. ASSUME NEW n \in 1..hi PROVE P[n] = P[n - 1] + F[n]
    <3>1. n \in 0..hi /\ n - 1 \in 0..hi /\ (n - 1) + 1 = n /\ n \in 0..(dcols - 1)
      BY <1>1
    <3>2. Before(r, n + 1) = Before(r, n) + ColSize(r, n)
      BY <3>1, Fronts
    <3>3. P[n] = Before(r, n + 1) - Before(r, 1) /\ P[n - 1] = Before(r, n) - Before(r, 1)
      <4> HIDE DEF P
      <4>1. P[n - 1] = Before(r, (n - 1) + 1) - Before(r, 1)
        BY <1>5, <3>1
      <4> QED BY <1>5, <3>1, <4>1
    <3>4. Before(r, n) \in Nat /\ Before(r, 1) \in Nat /\ F[n] = ColSize(r, n) /\ ColSize(r, n) \in Nat
      <4>1. n \in 0..dcols
        BY <1>1
      <4> QED BY <1>3, <1>4, <3>1, <4>1, Fronts
    <3> HIDE DEF P, F
    <3> QED BY <3>2, <3>3, <3>4
  <2>3. \A n \in (1 - 1)..hi : P[n] \in Nat
    BY <1>5
  <2>4. F \in [1..hi -> Nat]
    BY <1>3
  <2> HIDE DEF P, F, hi
  <2> QED BY <1>1, <2>1, <2>2, <2>3, <2>4 DEF Running, Span
<1>7. (\E f : f = SumStep(f, 1..hi, F)) /\ \A f : f = SumStep(f, 1..hi, F) => f[1..hi] = P[hi]
  <2> DEFINE lo == 1
  <2>1. Running(P, lo, hi, F) /\ Span(lo, hi) /\ F \in [lo..hi -> Nat]
    BY <1>6
  <2> HIDE DEF lo, hi, F, P
  <2>2. (\E f : f = SumStep(f, lo..hi, F)) /\ \A f : f = SumStep(f, lo..hi, F) => f[lo..hi] = P[hi]
    BY <2>1, SumOver
  <2> QED BY <2>2 DEF lo
<1> HIDE DEF F, hi
<1>8. ASSUME NEW f PROVE Step(f) = SumStep(f, 1..hi, F)
  <2>1. ASSUME NEW s \in SUBSET (1..hi), s # {}
        PROVE  Cardinality(Stripe(r, CHOOSE x \in s : TRUE)) = F[CHOOSE x \in s : TRUE]
    <3>1. (CHOOSE x \in s : TRUE) \in 1..hi
      BY <2>1
    <3> QED BY <1>3, <3>1
  <2> QED BY <2>1 DEF SumStep
<1>9. h = Step(h)
  <2>1. \E f : f = Step(f)
    <3> HIDE DEF Step
    <3> QED BY <1>7, <1>8
  <2> HIDE DEF Step
  <2> QED BY <2>1
<1> HIDE DEF h, Step
<1>10. h[1..hi] = P[hi]
  BY <1>7, <1>8, <1>9
<1>11. P[hi] = Before(r, c) - Before(r, 1)
  <2>1. hi \in 0..hi
    BY <1>1
  <2> HIDE DEF P
  <2> QED BY <1>1, <1>5, <2>1
<1> QED BY <1>2, <1>10, <1>11

\* No two data sectors of a block have the same number.
LEMMA OneIndex ==
  ASSUME pool \in Pools, NEW r \in Requests, NEW c \in 1..(dcols - 1), NEW d \in 1..(dcols - 1),
         NEW j \in Nat, j < ColSize(r, c), NEW i \in Nat, i < ColSize(r, d),
         DataIndex(r, c, j) = DataIndex(r, d, i)
  PROVE  c = d
<1>1. dcols \in Nat /\ \A n \in 0..dcols : Before(r, n) \in Nat
  BY Children, Fronts
<1>2. DataIndex(r, c, j) = j + (Before(r, c) - Before(r, 1))
  BY Index
<1>3. DataIndex(r, d, i) = i + (Before(r, d) - Before(r, 1))
  BY Index
<1>4. c \in 0..dcols /\ d \in 0..dcols /\ c + 1 \in 0..dcols /\ d + 1 \in 0..dcols /\ 1 \in 0..dcols
      /\ c \in 0..(dcols - 1) /\ d \in 0..(dcols - 1)
  BY <1>1
<1>5. /\ Before(r, c) \in Nat /\ Before(r, d) \in Nat /\ Before(r, 1) \in Nat
      /\ Before(r, c + 1) = Before(r, c) + ColSize(r, c) /\ ColSize(r, c) \in Nat
      /\ Before(r, d + 1) = Before(r, d) + ColSize(r, d) /\ ColSize(r, d) \in Nat
  BY <1>1, <1>4, Fronts, Sizes
<1>6. j + Before(r, c) = i + Before(r, d)
  <2> DEFINE x == Before(r, c)
             y == Before(r, d)
             z == Before(r, 1)
  <2>1. j + (x - z) = i + (y - z) /\ x \in Nat /\ y \in Nat /\ z \in Nat
    BY <1>2, <1>3, <1>5
  <2> HIDE DEF x, y, z
  <2>2. j + x = i + y
    BY <2>1
  <2> QED BY <2>2 DEF x, y
<1>7. CASE c < d
  <2>1. c + 1 <= d
    BY <1>4, <1>7
  <2>2. Before(r, c + 1) <= Before(r, d)
    BY <1>4, <2>1, FrontsGrow
  <2> QED BY <1>5, <1>6, <2>2
<1>8. CASE d < c
  <2>1. d + 1 <= c
    BY <1>4, <1>8
  <2>2. Before(r, d + 1) <= Before(r, c)
    BY <1>4, <2>1, FrontsGrow
  <2> QED BY <1>5, <1>6, <2>2
<1> QED BY <1>4, <1>7, <1>8

LEMMA ContentType ==
  ASSUME pool \in Pools, NEW r \in Requests, NEW c \in 0..(dcols - 1), NEW j \in Nat
  PROVE  Content(r, c, j) \in SUBSET Int
<1>1. ASSUME NEW d \in 1..(dcols - 1) PROVE DataIndex(r, d, j) \in Int
  <2>1. d \in 0..dcols /\ 1 \in 0..dcols
    BY Children
  <2>2. Before(r, d) \in Nat /\ Before(r, 1) \in Nat
    BY <2>1, Fronts
  <2>3. DataIndex(r, d, j) = j + (Before(r, d) - Before(r, 1))
    BY Index
  <2> QED BY <2>2, <2>3
<1>2. CASE c > 0
  <2>1. c \in 1..(dcols - 1)
    BY <1>2, Children
  <2> QED BY <1>1, <1>2, <2>1 DEF Content
<1>3. CASE ~(c > 0)
  BY <1>1, <1>3 DEF Content
<1> QED BY <1>2, <1>3

LEMMA OnDiskType ==
  ASSUME pool \in Pools, NEW r \in Requests, NEW d \in 0..(dcols - 1), NEW a \in Nat
  PROVE  OnDisk(r, d, a) \in SUBSET Int
<1> DEFINE D == dcols
           p == (a - Reserve) * D + d - r.b
           c == p % D
           e == IF Swapped(r) /\ c < 2 THEN 1 - c ELSE c
<1>1. D \in Nat \ {0} /\ D >= 2 /\ Reserve \in Nat /\ r.b \in Nat
  BY Children, Shape, RaidzAssumption
<1>2. -1 \in Int
  OBVIOUS
<1>3. OnDisk(r, d, a) = IF pool.gone = d \/ a < Reserve \/ p < 0 \/ p >= Total(r) THEN {-1}
                        ELSE Content(r, e, p \div D)
  BY DEF OnDisk
<1>4. ASSUME ~(a < Reserve), ~(p < 0) PROVE e \in 0..(D - 1) /\ p \div D \in Nat
  <2> DEFINE x == a - Reserve
  <2>1. x \in Nat /\ d \in Nat
    BY <1>1, <1>4
  <2>2. x * D \in Nat
    <3> HIDE DEF x, D
    <3> QED BY <1>1, <2>1, Products
  <2>3. p \in Nat
    <3> DEFINE y == x * D
    <3>1. p = y + d - r.b /\ y \in Nat
      BY <2>2
    <3> HIDE DEF y
    <3>2. y + d - r.b \in Int
      BY <1>1, <2>1, <3>1
    <3> QED BY <1>4, <3>1, <3>2
  <2> HIDE DEF p, D
  <2>4. c \in 0..(D - 1) /\ p \div D \in Nat
    BY <1>1, <2>3, DivMod
  <2> HIDE DEF c
  <2> QED BY <1>1, <2>4
<1> HIDE DEF p, e
<1> QED BY <1>2, <1>3, <1>4, ContentType

\* Sector k of column n, counted from 1, is sector k of what the column is for.
LEMMA OnDiskIs ==
  ASSUME pool \in Pools, NEW r \in Requests, NEW n \in 1..AccessedCols(r),
         NEW k \in 1..ColSize(r, n - 1), NEW a, a = Off(r, n) + Reserve + (k - 1)
  PROVE  OnDisk(r, Dev(r, n), a) = IF pool.gone = Dev(r, n) THEN {-1} ELSE Content(r, n - 1, k - 1)
<1> DEFINE D == dcols
           A == AccessedCols(r)
           d == Dev(r, n)
           o == Off(r, n)
           u == PlaceOf(r, n)
           j == k - 1
           p == (a - Reserve) * D + d - r.b
           c == p % D
           e == IF Swapped(r) /\ c < 2 THEN 1 - c ELSE c
<1>1. D \in Nat \ {0} /\ D >= 2 /\ Reserve \in Nat /\ r.b \in Nat /\ A \in Nat /\ A <= D
      /\ n \in 1..A
  <2>1. D \in Nat /\ D >= 2 /\ r.b \in Nat /\ A \in 2..D
    BY Children, Shape, Accessed
  <2>2. Reserve \in Nat
    BY RaidzAssumption
  <2>3. n \in 1..A
    OBVIOUS
  <2> HIDE DEF D, A
  <2> QED BY <2>1, <2>2, <2>3
<1>2. /\ d \in 0..(D - 1) /\ o \in Nat /\ o * D + d = r.b + u /\ u \in 0..(A - 1)
      /\ ColSize(r, u) = ColSize(r, n - 1)
  BY Places
<1>3. j \in Nat /\ j < ColSize(r, u)
  <2>1. n - 1 \in 0..(D - 1)
    BY <1>1
  <2>2. ColSize(r, n - 1) \in Nat
    BY <2>1, Sizes
  <2> QED BY <1>2, <2>2
<1>4. u \in 0..(D - 1)
  BY <1>1, <1>2
<1>5. p = j * D + u /\ j * D \in Nat
  <2> HIDE DEF d, o, u, j
  <2>1. a - Reserve = o + j
    BY <1>1, <1>2, <1>3 DEF j, o
  <2>2. (o + j) * D = o * D + j * D /\ j * D \in Nat /\ o * D \in Nat
    <3> HIDE DEF D
    <3> QED BY <1>1, <1>2, <1>3, Products
  <2> DEFINE x == o * D
             y == j * D
  <2>3. p = x + y + d - r.b /\ x \in Nat /\ y \in Nat /\ x + d = r.b + u
    BY <1>2, <2>1, <2>2
  <2> HIDE DEF x, y, p
  <2>4. d \in Int /\ u \in Int /\ r.b \in Int
    BY <1>1, <1>2
  <2>5. p = y + u
    BY <2>3, <2>4
  <2> QED BY <2>2, <2>5 DEF y
<1>6. p \div D = j /\ c = u
  <2> HIDE DEF D, u, j, p
  <2>1. (j * D + u) \div D = j /\ (j * D + u) % D = u
    BY <1>1, <1>3, <1>4, OneQuotient
  <2> QED BY <1>5, <2>1
<1>7. p < Total(r) /\ ~(p < 0) /\ ~(a < Reserve)
  <2>1. u + j * D < Total(r)
    BY <1>3, <1>4, Sizes
  <2>2. ~(a < Reserve)
    <3> HIDE DEF d, o, u
    <3> QED BY <1>1, <1>2, <1>3 DEF o
  <2> HIDE DEF d, o, u, j, p
  <2> DEFINE y == j * D
  <2>3. p = y + u /\ y \in Nat /\ u + y < Total(r)
    BY <1>5, <2>1
  <2> HIDE DEF y
  <2>4. p \in Nat /\ p = u + y
    BY <1>4, <2>3
  <2> QED BY <2>2, <2>3, <2>4
<1>8. Total(r) \in Nat
  <2>1. A \in 0..dcols
    BY <1>1
  <2> QED BY <2>1, Fronts
<1>9. e = n - 1
  <2>1. CASE Swapped(r) /\ n <= 2
    <3>1. u = 2 - n
      BY <2>1 DEF PlaceOf
    <3> HIDE DEF u, c
    <3> QED BY <1>1, <1>6, <2>1, <3>1
  <2>2. CASE ~(Swapped(r) /\ n <= 2)
    <3>1. u = n - 1
      BY <2>2 DEF PlaceOf
    <3> HIDE DEF u, c
    <3> QED BY <1>1, <1>6, <2>2, <3>1
  <2> QED BY <2>1, <2>2
<1>10. OnDisk(r, d, a) = IF pool.gone = d \/ a < Reserve \/ p < 0 \/ p >= Total(r) THEN {-1}
                         ELSE Content(r, e, p \div D)
  BY DEF OnDisk
<1>11. ~(p >= Total(r))
  <2>1. p \in Nat
    <3> HIDE DEF p, j, D, u
    <3> QED BY <1>4, <1>5
  <2> HIDE DEF p
  <2> QED BY <1>7, <1>8, <2>1
<1> HIDE DEF p, e, D
<1>12. OnDisk(r, d, a) = IF pool.gone = d THEN {-1} ELSE Content(r, n - 1, j)
  BY <1>6, <1>7, <1>9, <1>10, <1>11
<1> QED BY <1>12

(***************************************************************************)
(* The cells of a column.                                                  *)
(***************************************************************************)

Child(r, n) == pool.devs[Dev(r, n) + 1]
First(r, n) == Off(r, n) + Reserve
Cell(r, n, k) == <<PartOf(Child(r, n), First(r, n)), Seek(First(r, n)) + (k - 1)>>
WholeAt(r, n) == Whole(Col(r, n))

LEMMA WholeIs ==
  ASSUME NEW r, NEW n, WholeAt(r, n)
  PROVE  LET dev == Child(r, n)
             a == First(r, n)
         IN  /\ dev \in DOMAIN table
             /\ table[dev].kind = "parts" => a \div Part < Len(table[dev].files)
             /\ UseParts => table[dev].kind = "parts"
             /\ PartOf(dev, a) \in DOMAIN Length
             /\ Seek(a) + ColSize(r, n - 1) <= Length[PartOf(dev, a)]
BY DEF WholeAt, Whole, Col, Child, First, Seek

\* The one part that a file is, with the sectors it has of its device.
LEMMA OnePart ==
  ASSUME table \in Tables, pool \in Pools, NEW d \in 0..(dcols - 1), pool.devs[d + 1] \in DOMAIN table,
         NEW k \in DOMAIN table[pool.devs[d + 1]].files
  PROVE  PartsIn(table[pool.devs[d + 1]].files[k]) = {<<d, k>>}
<1> DEFINE dev(e) == pool.devs[e + 1]
           file == table[dev(d)].files[k]
<1>1. ASSUME NEW x \in PartsIn(file) PROVE x = <<d, k>>
  <2>1. PICK e \in {e \in 0..(dcols - 1) : pool.devs[e + 1] \in DOMAIN table} :
          x \in (LET of == table[pool.devs[e + 1]].files
                 IN  {<<e, l>> : l \in {l \in DOMAIN of : of[l] = file}})
    BY <1>1 DEF PartsIn
  <2>2. PICK l \in DOMAIN table[dev(e)].files : x = <<e, l>> /\ table[dev(e)].files[l] = file
    BY <2>1
  <2>3. dev(e) = dev(d) /\ l = k
    <3> DEFINE g == dev(e)
               h == dev(d)
    <3>1. g \in DOMAIN table /\ h \in DOMAIN table /\ l \in DOMAIN table[g].files
          /\ k \in DOMAIN table[h].files /\ table[g].files[l] = table[h].files[k]
      BY <2>1, <2>2
    <3> HIDE DEF g, h
    <3>2. g = h /\ l = k
      BY <3>1, TablesAssumption
    <3> QED BY <3>2 DEF g, h
  <2>4. e = d
    BY <2>1, <2>3, Children
  <2> QED BY <2>2, <2>3, <2>4
<1>2. <<d, k>> \in PartsIn(file)
  BY DEF PartsIn
<1> QED BY <1>1, <1>2

LEMMA CellAt ==
  ASSUME table \in Tables, pool \in Pools, NEW r, NEW cell, NEW d, NEW k, PartsIn(cell[1]) = {<<d, k>>}
  PROVE  Holds(r, cell) = OnDisk(r, d, (k - 1) * Part + cell[2])
<1> DEFINE x == CHOOSE x \in PartsIn(cell[1]) : TRUE
<1>1. x = <<d, k>> /\ PartsIn(cell[1]) # {}
  OBVIOUS
<1>2. Holds(r, cell) = OnDisk(r, x[1], (x[2] - 1) * Part + cell[2])
  BY <1>1 DEF Holds
<1> HIDE DEF x
<1> QED BY <1>1, <1>2

\* Sector k of a column that is whole, where the files have it.
LEMMA HoldsIs ==
  ASSUME table \in Tables, pool \in Pools, NEW r \in Requests, NEW n \in 1..AccessedCols(r),
         WholeAt(r, n), NEW k \in 1..ColSize(r, n - 1)
  PROVE  Holds(r, Cell(r, n, k)) = IF pool.gone = Dev(r, n) THEN {-1} ELSE Content(r, n - 1, k - 1)
<1> DEFINE d == Dev(r, n)
           dev == Child(r, n)
           a == First(r, n)
           i == IF table[dev].kind = "path" THEN 1 ELSE a \div Part + 1
           j == k - 1
           cell == Cell(r, n, k)
<1>1. d \in 0..(dcols - 1) /\ Off(r, n) \in Nat /\ Reserve \in Nat /\ Part \in Nat \ {0}
  BY Places, RaidzAssumption, FilesAssumption
<1>2. a = Off(r, n) + Reserve /\ a \in Nat /\ dev = pool.devs[d + 1]
  BY <1>1 DEF First, Child
<1>3. /\ dev \in DOMAIN table
      /\ table[dev].kind = "parts" => a \div Part < Len(table[dev].files)
      /\ UseParts => table[dev].kind = "parts"
  BY WholeIs
<1>4. j \in Nat
  <2>1. n - 1 \in 0..(dcols - 1)
    BY Accessed, Children
  <2>2. ColSize(r, n - 1) \in Nat
    BY <2>1, Sizes
  <2> QED BY <2>2
<1>5. cell[1] = PartOf(dev, a) /\ cell[2] = Seek(a) + j
  BY DEF Cell
<1> HIDE DEF d, dev, a, j, cell
<1>6. a \div Part \in Nat /\ a % Part \in Nat /\ a = (a \div Part) * Part + (a % Part)
  BY <1>1, <1>2, DivMod
<1>7. table[dev].kind \in {"path", "parts"} /\ table[dev].files \in Seq(Range(table[dev].files))
      /\ Len(table[dev].files) > 0
  BY <1>3, FilesAssumption
<1>8. DOMAIN table[dev].files = 1..Len(table[dev].files) /\ Len(table[dev].files) \in Nat
  <2> DEFINE s == table[dev].files
  <2>1. s \in Seq(Range(s))
    BY <1>7
  <2> HIDE DEF s
  <2>2. DOMAIN s = 1..Len(s) /\ Len(s) \in Nat
    BY <2>1, LenProperties
  <2> QED BY <2>2 DEF s
<1>9. i \in DOMAIN table[dev].files /\ cell[1] = table[dev].files[i]
  <2>1. CASE table[dev].kind = "path"
    <3>1. i = 1 /\ 1 \in 1..Len(table[dev].files)
      BY <1>7, <1>8, <2>1
    <3> QED BY <1>5, <1>8, <2>1, <3>1 DEF PartOf
  <2>2. CASE table[dev].kind = "parts"
    <3>1. i = a \div Part + 1 /\ a \div Part < Len(table[dev].files)
      BY <1>3, <2>2
    <3>2. i \in 1..Len(table[dev].files)
      <4> DEFINE q == a \div Part
      <4>1. q \in Nat /\ i = q + 1 /\ q < Len(table[dev].files)
        BY <1>6, <3>1
      <4> HIDE DEF q, i
      <4> QED BY <1>8, <4>1
    <3> QED BY <1>5, <1>8, <2>2, <3>1, <3>2 DEF PartOf
  <2> QED BY <1>7, <2>1, <2>2
<1>10. PartsIn(cell[1]) = {<<d, i>>}
  <2> HIDE DEF i
  <2>1. pool.devs[d + 1] \in DOMAIN table /\ i \in DOMAIN table[pool.devs[d + 1]].files
    BY <1>2, <1>3, <1>9
  <2>2. PartsIn(table[pool.devs[d + 1]].files[i]) = {<<d, i>>}
    BY <1>1, <2>1, OnePart
  <2> QED BY <1>2, <1>9, <2>2
<1>11. Holds(r, cell) = OnDisk(r, d, (i - 1) * Part + cell[2])
  <2> HIDE DEF i
  <2> QED BY <1>10, CellAt
<1>12. (i - 1) * Part + cell[2] = Off(r, n) + Reserve + j
  <2>1. CASE UseParts
    <3> DEFINE q == a \div Part
               m == a % Part
               v == q * Part
    <3>1. i - 1 = q /\ Seek(a) = m
      <4>1. i = q + 1
        BY <1>3, <2>1
      <4> HIDE DEF i, q
      <4>2. q \in Nat
        BY <1>6 DEF q
      <4> QED BY <2>1, <4>1, <4>2 DEF Seek
    <3>2. v \in Nat /\ m \in Nat /\ a = v + m
      <4>1. q * Part \in Nat
        <5> HIDE DEF q
        <5> QED BY <1>1, <1>6, Products DEF q
      <4> QED BY <1>6, <4>1
    <3>3. (i - 1) * Part = v
      <4> HIDE DEF i
      <4> QED BY <3>1
    <3> HIDE DEF i, v, m
    <3> QED BY <1>2, <1>4, <1>5, <3>1, <3>2, <3>3
  <2>2. CASE ~UseParts
    <3>1. i = 1 /\ Seek(a) = a
      BY <1>3, <1>7, <2>2 DEF UseParts, Seek
    <3>2. (i - 1) * Part = 0
      <4> HIDE DEF i
      <4> QED BY <1>1, <3>1
    <3> HIDE DEF i
    <3> QED BY <1>2, <1>4, <1>5, <3>1, <3>2
  <2> QED BY <2>1, <2>2
<1> DEFINE b == (i - 1) * Part + cell[2]
<1> HIDE DEF i
<1>13. OnDisk(r, Dev(r, n), b) = IF pool.gone = Dev(r, n) THEN {-1} ELSE Content(r, n - 1, k - 1)
  <2>1. b = Off(r, n) + Reserve + (k - 1)
    BY <1>12 DEF j
  <2> HIDE DEF b
  <2> QED BY <2>1, OnDiskIs
<1> QED BY <1>11, <1>13 DEF cell, d

LEMMA HoldsType ==
  ASSUME table \in Tables, pool \in Pools, NEW r \in Requests, NEW cell, cell[2] \in Nat
  PROVE  Holds(r, cell) \in SUBSET Int
<1>1. CASE PartsIn(cell[1]) = {}
  <2>1. Holds(r, cell) = {-1}
    BY <1>1 DEF Holds
  <2> QED BY <2>1
<1>2. CASE PartsIn(cell[1]) # {}
  <2>1. PICK x \in PartsIn(cell[1]) : TRUE
    BY <1>2
  <2>2. PICK d \in {d \in 0..(dcols - 1) : pool.devs[d + 1] \in DOMAIN table} :
          x \in (LET of == table[pool.devs[d + 1]].files
                 IN  {<<d, l>> : l \in {l \in DOMAIN of : of[l] = cell[1]}})
    BY <2>1 DEF PartsIn
  <2>3. PICK k \in DOMAIN table[pool.devs[d + 1]].files :
          table[pool.devs[d + 1]].files[k] = cell[1]
    BY <2>2
  <2>4. PartsIn(cell[1]) = {<<d, k>>}
    BY <2>2, <2>3, OnePart
  <2>5. Holds(r, cell) = OnDisk(r, d, (k - 1) * Part + cell[2])
    BY <2>4, CellAt
  <2>6. k - 1 \in Nat
    <3> DEFINE s == table[pool.devs[d + 1]].files
    <3>1. s \in Seq(Range(s))
      BY <2>2, FilesAssumption
    <3>2. k \in DOMAIN s
      BY <2>3
    <3> HIDE DEF s
    <3>3. k \in 1..Len(s)
      BY <3>1, <3>2, LenProperties
    <3> QED BY <3>3
  <2>7. (k - 1) * Part + cell[2] \in Nat
    <3> DEFINE j == k - 1
    <3>1. j \in Nat /\ Part \in Nat
      BY <2>6, FilesAssumption
    <3> HIDE DEF j
    <3>2. j * Part \in Nat
      BY <3>1, Products
    <3> DEFINE y == j * Part
    <3>3. y \in Nat
      BY <3>2
    <3> HIDE DEF y
    <3>4. y + cell[2] \in Nat
      BY <3>3
    <3> QED BY <3>4 DEF y, j
  <2> DEFINE a == (k - 1) * Part + cell[2]
  <2>8. a \in Nat
    BY <2>7
  <2> HIDE DEF a
  <2>9. OnDisk(r, d, a) \in SUBSET Int
    BY <2>2, <2>8, OnDiskType
  <2> QED BY <2>5, <2>9 DEF a
<1> QED BY <1>1, <1>2

(***************************************************************************)
(* What was read.                                                          *)
(***************************************************************************)

\* The columns up to n are whole.
Uncut(r, n) == \A m \in 1..n : WholeAt(r, m)

FileCells == (DOMAIN Length) \X Nat

\* Up to the first column that is cut, what was read is the cells of the columns.
Fed ==
  req # None =>
    /\ data \in Seq(FileCells)
    /\ \A n \in 0..pieces : Uncut(req, n) =>
         /\ Before(req, n) <= Len(data)
         /\ n = pieces => Len(data) = Before(req, n)
         /\ \A m \in 1..n : \A k \in 1..ColSize(req, m - 1) :
              data[Before(req, m - 1) + k] = Cell(req, m, k)

LEMMA SameFiles ==
  ASSUME pool' = pool, table' = table, NEW r, NEW n
  PROVE  /\ Before(r, n)' = Before(r, n)
         /\ WholeAt(r, n)' = WholeAt(r, n)
         /\ Uncut(r, n)' = Uncut(r, n)
         /\ \A k : Cell(r, n, k)' = Cell(r, n, k)
<1>1. dcols' = dcols
  BY SameShape
<1>2. Quotient(r)' = Quotient(r)
  BY <1>1 DEF Quotient
<1>3. Remainder(r)' = Remainder(r)
  BY <1>1, <1>2 DEF Remainder
<1>4. Before(r, n)' = Before(r, n)
  BY <1>2, <1>3 DEF Before, BigCols
<1>5. \A dev, a : PartOf(dev, a)' = PartOf(dev, a)
  BY DEF PartOf
<1>6. UseParts' = UseParts
  BY DEF UseParts
<1>7. \A m : Col(r, m)' = Col(r, m)
  BY SameShape
<1>8. \A m : Dev(r, m)' = Dev(r, m) /\ Off(r, m)' = Off(r, m)
  <2>1. \A m : PlaceOf(r, m)' = PlaceOf(r, m)
    BY DEF PlaceOf, Swapped
  <2> QED BY <1>1, <2>1 DEF Dev, Off
<1>9. \A k : Cell(r, n, k)' = Cell(r, n, k)
  <2>1. Child(r, n)' = Child(r, n) /\ First(r, n)' = First(r, n)
    BY <1>8 DEF Child, First
  <2>2. Seek(First(r, n))' = Seek(First(r, n))
    BY <1>6, <2>1 DEF Seek
  <2>3. PartOf(Child(r, n), First(r, n))' = PartOf(Child(r, n), First(r, n))
    BY <2>1 DEF PartOf
  <2> QED BY <2>2, <2>3 DEF Cell
<1>10. \A m : WholeAt(r, m)' = WholeAt(r, m)
  <2>1. ASSUME NEW m PROVE WholeAt(r, m)' = WholeAt(r, m)
    <3> DEFINE c == Col(r, m)
    <3>1. Col(r, m)' = c
      BY <1>7
    <3>2. UseParts' <=> UseParts
      BY <1>6
    <3>3. Whole(Col(r, m))' <=> Whole(c)
      BY <3>1, <3>2 DEF Whole, PartOf
    <3>4. Whole(Col(r, m))' \in BOOLEAN /\ Whole(c) \in BOOLEAN
      BY DEF Whole
    <3> QED BY <3>3, <3>4 DEF WholeAt
  <2> QED BY <2>1
<1>11. Uncut(r, n)' = Uncut(r, n)
  BY <1>10 DEF Uncut
<1> QED BY <1>4, <1>9, <1>10, <1>11

LEMMA CellsRead ==
  ASSUME NEW file \in DOMAIN Length, NEW a \in Nat, NEW n \in Nat
  PROVE  /\ CellsOf(file, a, n) \in Seq(FileCells)
         /\ Seek(a) \in Nat
         /\ Seek(a) + n <= Length[file] =>
              /\ Len(CellsOf(file, a, n)) = n
              /\ \A k \in 1..n : CellsOf(file, a, n)[k] = <<file, Seek(a) + (k - 1)>>
<1> DEFINE s == Seek(a)
           last == IF s + n <= Length[file] THEN s + n ELSE Length[file]
           m == IF last > s THEN last - s ELSE 0
           c == CellsOf(file, a, n)
<1>1. s \in Nat /\ Length[file] \in Nat
  <2>1. a % Part \in Nat
    BY DivMod, FilesAssumption
  <2> QED BY <2>1, FilesAssumption DEF Seek
<1>2. c = [k \in 1..m |-> <<file, s + k - 1>>]
  BY DEF CellsOf
<1> HIDE DEF s, c
<1>3. m \in Nat
  BY <1>1
<1>4. s + n <= Length[file] => m = n
  BY <1>1
<1> HIDE DEF last, m
<1>5. \A k \in 1..m : s + k - 1 = s + (k - 1) /\ <<file, s + k - 1>> \in FileCells
  BY <1>1, <1>3 DEF FileCells
<1>6. c \in [1..m -> FileCells]
  BY <1>2, <1>5
<1>7. c \in Seq(FileCells) /\ Len(c) = m
  BY <1>3, <1>6, SeqDef, LenProperties
<1>8. \A k \in 1..m : c[k] = <<file, s + (k - 1)>>
  BY <1>2, <1>5
<1> QED BY <1>1, <1>4, <1>7, <1>8 DEF s, c

LEMMA Joined ==
  ASSUME NEW S, NEW s \in Seq(S), NEW t \in Seq(S)
  PROVE  /\ s \o t \in Seq(S) /\ Len(s \o t) = Len(s) + Len(t)
         /\ Len(s) \in Nat /\ Len(t) \in Nat
         /\ \A i \in 1..Len(s) : (s \o t)[i] = s[i]
         /\ \A i \in 1..Len(t) : (s \o t)[Len(s) + i] = t[i]
<1>1. s \o t \in Seq(S) /\ Len(s \o t) = Len(s) + Len(t) /\ Len(s) \in Nat /\ Len(t) \in Nat
  BY ConcatProperties, LenProperties
<1>2. \A i \in 1..(Len(s) + Len(t)) : (s \o t)[i] = IF i <= Len(s) THEN s[i] ELSE t[i - Len(s)]
  BY ConcatProperties
<1>3. ASSUME NEW i \in 1..Len(s) PROVE (s \o t)[i] = s[i]
  BY <1>1, <1>2
<1>4. ASSUME NEW i \in 1..Len(t) PROVE (s \o t)[Len(s) + i] = t[i]
  <2>1. Len(s) + i \in 1..(Len(s) + Len(t)) /\ ~(Len(s) + i <= Len(s)) /\ (Len(s) + i) - Len(s) = i
    BY <1>1
  <2> QED BY <1>2, <2>1
<1> QED BY <1>1, <1>3, <1>4

\* Reading a column that is whole opens the file of its part.
LEMMA WholeOpens ==
  ASSUME table \in Tables, NEW r, NEW n, WholeAt(r, n)
  PROVE  PartOf(Child(r, n), First(r, n)) \in Translated(Child(r, n), First(r, n)) \intersect DOMAIN Length
<1> DEFINE dev == Child(r, n)
           a == First(r, n)
<1>1. /\ dev \in DOMAIN table /\ PartOf(dev, a) \in DOMAIN Length
      /\ table[dev].kind = "parts" => a \div Part < Len(table[dev].files)
      /\ UseParts => table[dev].kind = "parts"
  BY WholeIs
<1>2. table[dev].kind \in {"path", "parts"}
  BY <1>1, FilesAssumption
<1> HIDE DEF dev, a
<1>3. PartOf(dev, a) \in Translated(dev, a)
  <2>1. CASE UseParts
    BY <1>1, <2>1 DEF Translated, PartOf
  <2>2. CASE ~UseParts
    <3>1. table[dev].kind = "path"
      BY <1>1, <1>2, <2>2 DEF UseParts
    <3> QED BY <1>1, <2>2, <3>1 DEF Translated, PartOf
  <2> QED BY <2>1, <2>2
<1> QED BY <1>1, <1>3 DEF dev, a

\* The cells of the column that is read are put behind the others.
LEMMA PieceFed ==
  ASSUME Reading, Opened, Fed, ReadPiece
  PROVE  Fed'
<1> DEFINE r == req
           p == pieces
           col == cols[p + 1]
           dev == Child(r, p + 1)
           a == First(r, p + 1)
           z == ColSize(r, p)
<1>1. /\ r # None /\ p < Len(cols) /\ table' = table /\ pool' = pool /\ req' = r
      /\ pieces' = p + 1 /\ r \in Requests /\ pool \in Pools /\ table \in Tables
  BY DEF ReadPiece, ReadFile, Reading
<1>2. /\ p + 1 \in 1..AccessedCols(r) /\ p \in Nat /\ col = Col(r, p + 1) /\ a \in Nat
      /\ AccessedCols(r) <= dcols /\ dcols \in Nat /\ p + 1 \in 0..dcols /\ p \in 0..(dcols - 1)
      /\ (p + 1) - 1 = p
  <2>1. p + 1 \in 1..AccessedCols(r) /\ col = Col(r, p + 1) /\ col.off + Reserve \in Nat
    BY <1>1, NextColumn
  <2>2. p \in Nat
    BY <1>1 DEF Reading
  <2>3. AccessedCols(r) \in 2..dcols /\ dcols \in Nat
    BY <1>1, Accessed, Children
  <2>4. a = col.off + Reserve
    BY <2>1 DEF First, Col
  <2> HIDE DEF a, col, p
  <2> QED BY <2>1, <2>2, <2>3, <2>4
<1>3. z \in Nat /\ Before(r, p + 1) = Before(r, p) + z /\ Before(r, p) \in Nat
  <2>1. p \in 0..dcols
    BY <1>2
  <2> QED BY <1>1, <1>2, <2>1, Fronts, Sizes
<1>4. pool.devs[col.dev + 1] = dev /\ col.off + Reserve = a /\ col.size = z
  BY <1>2 DEF Child, First, Col
<1>5. PICK file \in DOMAIN Length : /\ data' = data \o CellsOf(file, a, z)
                                    /\ ReadFile(dev, a, z, CellsOf(file, a, z))
  BY <1>4 DEF ReadPiece
<1> DEFINE cells == CellsOf(file, a, z)
<1> HIDE DEF r, p, col, dev, a, z
<1>6. cells \in Seq(FileCells)
  BY <1>2, <1>3, CellsRead
<1>7. ASSUME WholeAt(r, p + 1)
      PROVE  Len(cells) = z /\ \A k \in 1..z : cells[k] = Cell(r, p + 1, k)
  <2> DEFINE part == PartOf(dev, a)
  <2>1. dev \in DOMAIN table /\ part \in DOMAIN Length /\ Seek(a) + z <= Length[part]
    BY <1>2, <1>7, WholeIs DEF dev, a, z
  <2>2. PICK g \in (IF Key(dev, a) \in DOMAIN handles THEN {handles[Key(dev, a)]}
                    ELSE Translated(dev, a) \intersect DOMAIN Length) : cells = CellsOf(g, a, z)
    BY <1>5 DEF ReadFile
  <2>3. g = part
    BY <1>1, <1>2, <2>1, FileOfPart
  <2>4. cells = CellsOf(part, a, z)
    BY <2>2, <2>3
  <2>5. \A k : Cell(r, p + 1, k) = <<part, Seek(a) + (k - 1)>>
    BY DEF Cell, dev, a
  <2> HIDE DEF part
  <2>6. part \in DOMAIN Length /\ a \in Nat /\ z \in Nat /\ Seek(a) + z <= Length[part]
    BY <1>2, <1>3, <2>1
  <2>7. /\ Len(CellsOf(part, a, z)) = z
        /\ \A k \in 1..z : CellsOf(part, a, z)[k] = <<part, Seek(a) + (k - 1)>>
    BY <2>6, CellsRead
  <2> HIDE DEF cells
  <2> QED BY <2>4, <2>5, <2>7
<1> HIDE DEF cells
<1>8. data \in Seq(FileCells) /\ data' = data \o cells
  BY <1>1, <1>5 DEF Fed, r, cells
<1>9. /\ data' \in Seq(FileCells) /\ Len(data') = Len(data) + Len(cells)
      /\ Len(data) \in Nat /\ Len(cells) \in Nat
      /\ \A i \in 1..Len(data) : data'[i] = data[i]
      /\ \A i \in 1..Len(cells) : data'[Len(data) + i] = cells[i]
  BY <1>6, <1>8, Joined
<1>10. ASSUME NEW n \in 0..p, Uncut(r, n)
       PROVE  /\ Before(r, n) <= Len(data) /\ (n = p => Len(data) = Before(r, n))
              /\ \A m \in 1..n : \A k \in 1..ColSize(r, m - 1) :
                   /\ data[Before(r, m - 1) + k] = Cell(r, m, k)
                   /\ Before(r, m - 1) + k \in 1..Len(data)
  <2>1. /\ Before(r, n) <= Len(data) /\ (n = p => Len(data) = Before(r, n))
        /\ \A m \in 1..n : \A k \in 1..ColSize(r, m - 1) : data[Before(r, m - 1) + k] = Cell(r, m, k)
    BY <1>1, <1>10 DEF Fed, r, p
  <2>2. ASSUME NEW m \in 1..n, NEW k \in 1..ColSize(r, m - 1)
        PROVE  Before(r, m - 1) + k \in 1..Len(data)
    <3>1. m - 1 \in 0..(dcols - 1) /\ (m - 1) + 1 = m /\ m \in 0..dcols /\ n \in 0..dcols /\ m <= n
          /\ m - 1 \in 0..dcols
      BY <1>2
    <3>2. /\ Before(r, m) = Before(r, m - 1) + ColSize(r, m - 1) /\ Before(r, m - 1) \in Nat
          /\ ColSize(r, m - 1) \in Nat /\ Before(r, m) <= Before(r, n) /\ Before(r, n) \in Nat
      <4>1. Before(r, (m - 1) + 1) = Before(r, m - 1) + ColSize(r, m - 1)
        BY <1>1, <3>1, Fronts
      <4> QED BY <1>1, <3>1, <4>1, Fronts, FrontsGrow, Sizes
    <3> QED BY <1>9, <2>1, <3>2
  <2> QED BY <2>1, <2>2
<1>11. ASSUME NEW n \in 0..(p + 1), Uncut(r, n)
       PROVE  /\ Before(r, n) <= Len(data') /\ (n = p + 1 => Len(data') = Before(r, n))
              /\ \A m \in 1..n : \A k \in 1..ColSize(r, m - 1) :
                   data'[Before(r, m - 1) + k] = Cell(r, m, k)
  <2>1. CASE n # p + 1
    <3>1. n \in 0..p /\ Before(r, n) \in Nat
      <4>1. n \in 0..p /\ n \in 0..dcols
        BY <1>2, <2>1
      <4> QED BY <1>1, <4>1, Fronts
    <3>2. Before(r, n) <= Len(data')
      BY <1>9, <1>10, <1>11, <3>1
    <3> QED BY <1>9, <1>10, <1>11, <2>1, <3>1, <3>2
  <2>2. CASE n = p + 1
    <3>1. Uncut(r, p) /\ WholeAt(r, p + 1) /\ p \in 0..p
      BY <1>2, <1>11, <2>2 DEF Uncut
    <3>2. Len(data) = Before(r, p) /\ Len(cells) = z
      BY <1>7, <1>10, <3>1
    <3>3. Len(data') = Before(r, n)
      BY <1>3, <1>9, <2>2, <3>2
    <3>4. ASSUME NEW m \in 1..n, NEW k \in 1..ColSize(r, m - 1)
          PROVE  data'[Before(r, m - 1) + k] = Cell(r, m, k)
      <4>1. CASE m = p + 1
        <5>1. m - 1 = p /\ k \in 1..z
          BY <1>2, <4>1 DEF z
        <5>2. data'[Len(data) + k] = cells[k]
          BY <1>9, <3>2, <5>1
        <5>3. cells[k] = Cell(r, p + 1, k)
          BY <1>7, <3>1, <5>1
        <5> QED BY <3>2, <4>1, <5>1, <5>2, <5>3
      <4>2. CASE m # p + 1
        <5>1. m \in 1..p
          BY <1>2, <2>2, <4>2
        <5> QED BY <1>9, <1>10, <3>1, <5>1
      <4> QED BY <4>1, <4>2
    <3> QED BY <1>3, <2>2, <3>3, <3>4
  <2> QED BY <2>1, <2>2
<1>12. \A n : /\ Before(r, n)' = Before(r, n) /\ Uncut(r, n)' = Uncut(r, n)
              /\ ColSize(r, n)' = ColSize(r, n) /\ \A k : Cell(r, n, k)' = Cell(r, n, k)
  <2>1. pool' = pool /\ table' = table /\ r' = r
    BY <1>1 DEF r
  <2> QED BY <2>1, SameFiles, SameShape
<1> QED BY <1>1, <1>9, <1>11, <1>12 DEF Fed, r, p

LEMMA NextFed ==
  ASSUME Reading, Opened, Fed, [Next]_vars
  PROVE  Fed'
<1>1. ASSUME pool' = pool, table' = table, req' = req, pieces' = pieces, data' = data PROVE Fed'
  <2>1. ASSUME NEW r, NEW n
        PROVE  /\ Before(r, n)' = Before(r, n) /\ Uncut(r, n)' = Uncut(r, n)
               /\ ColSize(r, n)' = ColSize(r, n) /\ \A k : Cell(r, n, k)' = Cell(r, n, k)
    BY <1>1, SameFiles, SameShape
  <2> QED BY <1>1, <2>1 DEF Fed
<1>2. ASSUME req' = None PROVE Fed'
  BY <1>2 DEF Fed
<1>3. CASE UNCHANGED vars
  BY <1>1, <1>3 DEF vars, files
<1>4. ASSUME NEW r \in Requests, Issue(r) PROVE Fed'
  <2>1. pool' = pool /\ table' = table /\ req' = r /\ pieces' = 0 /\ data' = <<>>
    BY <1>4 DEF Issue, files
  <2>2. Before(r, 0)' = 0
    <3>1. Before(r, 0) = 0
      BY Fronts DEF Reading
    <3> QED BY <2>1, <3>1, SameFiles
  <2>3. data' \in Seq(FileCells) /\ Len(data') = 0
    BY <2>1
  <2> QED BY <2>1, <2>2, <2>3 DEF Fed
<1>5. ASSUME NEW r \in Requests, TooFar(r) PROVE Fed'
  BY <1>1, <1>5 DEF TooFar, files
<1>6. CASE ReadPiece
  BY <1>6, PieceFed
<1>7. CASE ReadPieceRaises
  BY <1>2, <1>7 DEF ReadPieceRaises, Answer
<1>8. CASE ReadEnds
  BY <1>2, <1>8 DEF ReadEnds, Answer
<1> QED BY <1>3, <1>4, <1>5, <1>6, <1>7, <1>8 DEF Next

(***************************************************************************)
(* The loops over the columns: folds that take the greatest number last.   *)
(***************************************************************************)

LEMMA GreatestOf ==
  ASSUME NEW N \in Nat
  PROVE  /\ \A s \in SUBSET (1..N) : s # {} => Max(s) \in s
         /\ \A m \in 1..N : Max(1..m) = m /\ (1..m) \ {m} = 1..(m - 1) /\ 1..m # {}
<1>1. ASSUME NEW s \in SUBSET (1..N), s # {} PROVE Max(s) \in s
  <2>1. IsFiniteSet(s) /\ s \subseteq Int
    <3> DEFINE S == 1..N
    <3>1. IsFiniteSet(S) /\ S \subseteq Int /\ s \in SUBSET S
      BY FS_Interval
    <3> HIDE DEF S
    <3>2. IsFiniteSet(s)
      BY <3>1, FS_Subset
    <3> QED BY <3>1, <3>2
  <2>2. \E x \in s : \A y \in s : x >= y
    <3>1. PICK x \in s : \A y \in s : y <= x
      BY <1>1, <2>1, FiniteGreatest
    <3> QED BY <2>1, <3>1
  <2> QED BY <2>2 DEF Max
<1>2. ASSUME NEW m \in 1..N PROVE Max(1..m) = m /\ (1..m) \ {m} = 1..(m - 1) /\ 1..m # {}
  <2>1. m \in 1..m /\ \A y \in 1..m : m >= y
    OBVIOUS
  <2>2. \A x \in 1..m : (\A y \in 1..m : x >= y) => x = m
    OBVIOUS
  <2>3. Max(1..m) = m
    BY <2>1, <2>2 DEF Max
  <2>4. ASSUME NEW x PROVE x \in (1..m) \ {m} <=> x \in 1..(m - 1)
    OBVIOUS
  <2>5. (1..m) \ {m} = 1..(m - 1)
    BY <2>4
  <2> QED BY <2>1, <2>3, <2>5
<1> QED BY <1>1, <1>2

LoopOf(f, N, a, G) ==
  \A s \in SUBSET (1..N) : f[s] = IF s = {} THEN a ELSE G[Max(s)][f[s \ {Max(s)}]]

LEMMA LoopExists ==
  ASSUME NEW N \in Nat, NEW D, NEW a \in D, NEW G, G \in [1..N -> [D -> D]]
  PROVE  \E f \in [SUBSET (1..N) -> D] : LoopOf(f, N, a, G)
<1> DEFINE S == 1..N
           ch == [s \in SUBSET S |-> Max(s)]
<1>1. IsFiniteSet(S)
  BY FS_Interval
<1>2. Takes(ch, S) /\ \A s \in SUBSET S : ch[s] = Max(s)
  <2>1. \A s \in SUBSET S : s # {} => Max(s) \in s
    BY GreatestOf
  <2> HIDE DEF S
  <2> QED BY <2>1 DEF Takes
<1>3. G \in [S -> [D -> D]] /\ Takes(ch, S)
  BY <1>2
<1> HIDE DEF S, ch
<1>4. PICK f \in [SUBSET S -> D] : FoldOf(f, S, a, ch, G)
  BY <1>1, <1>3, FoldExists
<1>5. \A s \in SUBSET S : f[s] = IF s = {} THEN a ELSE G[Max(s)][f[s \ {Max(s)}]]
  BY <1>2, <1>4 DEF FoldOf
<1> QED BY <1>4, <1>5 DEF S, LoopOf

\* What a loop has come to after m turns.
LEMMA LoopIs ==
  ASSUME NEW N \in Nat, NEW h, NEW P, h[{}] = P[0],
         \A m \in 1..N : h[1..(m - 1)] = P[m - 1] => h[1..m] = P[m]
  PROVE  h[1..N] = P[N]
<1> DEFINE T == {m \in Nat : m <= N => h[1..m] = P[m]}
<1>1. 0 \in T
  <2>1. 1..0 = {}
    OBVIOUS
  <2> QED BY <2>1
<1>2. ASSUME NEW m \in Nat, m < N, m \in T PROVE m + 1 \in T
  <2> DEFINE n == m + 1
  <2>1. n \in 1..N /\ n - 1 = m /\ h[1..m] = P[m]
    BY <1>2
  <2> HIDE DEF n
  <2>2. h[1..n] = P[n]
    BY <2>1
  <2> QED BY <2>2 DEF n
<1>3. N \in T
  <2> HIDE DEF T
  <2>1. 0..N \subseteq T
    BY <1>1, <1>2, UpToInduction
  <2> QED BY <2>1
<1> QED BY <1>3

(***************************************************************************)
(* The pieces, when all columns were read.                                 *)
(***************************************************************************)

Ended == Reading /\ Fed /\ req # None /\ pieces = Len(cols)

LEMMA AtEnd ==
  ASSUME Ended
  PROVE  LET A == AccessedCols(req) IN
         /\ table \in Tables /\ pool \in Pools /\ req \in Requests
         /\ cols = TheColumns(req) /\ DOMAIN cols = 1..A /\ Len(cols) = A /\ pieces = A
         /\ A \in Nat /\ A >= 2 /\ A <= dcols /\ dcols \in Nat
         /\ \A n \in 1..A : /\ cols[n].size = ColSize(req, n - 1) /\ ColSize(req, n - 1) \in Nat
                            /\ cols[n].dev = Dev(req, n)
                            /\ ColSize(req, n - 1) <= ColSize(req, 0)
                            /\ Before(req, n - 1) \in Nat /\ Before(req, n) \in Nat
                            /\ Before(req, n) = Before(req, n - 1) + ColSize(req, n - 1)
<1> DEFINE r == req
           A == AccessedCols(r)
<1>1. table \in Tables /\ pool \in Pools /\ r \in Requests /\ cols = TheColumns(r) /\ pieces = Len(cols)
  BY DEF Ended, Reading
<1> HIDE DEF r
<1>2. DOMAIN cols = 1..A /\ Len(cols) = A /\ \A n \in 1..A : cols[n] = Col(r, n)
  BY <1>1, TheMap
<1>3. A \in Nat /\ A >= 2 /\ A <= dcols /\ dcols \in Nat
  BY <1>1, Accessed, Children
<1>4. ASSUME NEW n \in 1..A
      PROVE  /\ cols[n].size = ColSize(r, n - 1) /\ ColSize(r, n - 1) \in Nat
             /\ cols[n].dev = Dev(r, n)
             /\ ColSize(r, n - 1) <= ColSize(r, 0)
             /\ Before(r, n - 1) \in Nat /\ Before(r, n) \in Nat
             /\ Before(r, n) = Before(r, n - 1) + ColSize(r, n - 1)
  <2>1. n - 1 \in 0..(dcols - 1) /\ 0 \in 0..(dcols - 1) /\ n - 1 \in 0..dcols /\ n \in 0..dcols
        /\ (n - 1) + 1 = n
    BY <1>3
  <2>2. cols[n].size = ColSize(r, n - 1) /\ cols[n].dev = Dev(r, n)
    BY <1>2 DEF Col
  <2>3. ColSize(r, n - 1) \in Nat /\ ColSize(r, n - 1) <= ColSize(r, 0)
    <3>1. ColSize(r, n - 1) = Quotient(r) + IF n - 1 < BigCols(r) THEN 1 ELSE 0
      BY <1>1, <2>1, Sizes
    <3>2. ColSize(r, 0) = Quotient(r) + IF 0 < BigCols(r) THEN 1 ELSE 0
      BY <1>1, <2>1, Sizes
    <3>3. Quotient(r) \in Nat /\ BigCols(r) \in Nat
      BY <1>1, <1>3, Shape
    <3> QED BY <3>1, <3>2, <3>3
  <2>4. Before(r, (n - 1) + 1) = Before(r, n - 1) + ColSize(r, n - 1)
    BY <1>1, <2>1, Fronts
  <2> QED BY <1>1, <2>1, <2>2, <2>3, <2>4, Fronts
<1> QED BY <1>1, <1>2, <1>3, <1>4 DEF r

\* ptr, in front of column n
LEMMA Pointer ==
  ASSUME Ended, NEW n \in 1..AccessedCols(req)
  PROVE  FoldLeftDomain(LAMBDA x, k : IF k < n THEN x + cols[k].size ELSE x, 0, cols) = Before(req, n - 1)
<1> DEFINE A == AccessedCols(req)
           I == [i \in DOMAIN cols |-> i]
           Step(f) == [s \in SUBSET (DOMAIN I) |->
                         IF s = {} THEN 0
                         ELSE LET x == Max(s)
                              IN  IF I[x] < n THEN f[s \ {x}] + cols[I[x]].size ELSE f[s \ {x}]]
           h == CHOOSE f : f = Step(f)
           P == [m \in 0..A |-> Before(req, IF m < n THEN m ELSE n - 1)]
           G == [k \in 1..A |-> [x \in Nat |-> IF k < n THEN x + cols[k].size ELSE x]]
<1>1. FoldLeftDomain(LAMBDA x, k : IF k < n THEN x + cols[k].size ELSE x, 0, cols) = h[DOMAIN I]
  BY DEF FoldLeftDomain, FoldLeft, MapThenFoldSet
<1>2. A \in Nat /\ DOMAIN I = 1..A /\ n \in 1..A /\ \A k \in 1..A : I[k] = k /\ cols[k].size \in Nat
  BY AtEnd
<1>3. Step(h) = h
  <2>1. PICK f \in [SUBSET (1..A) -> Nat] : LoopOf(f, A, 0, G)
    <3> DEFINE N == Nat
               a == 0
    <3>1. a \in N /\ G \in [1..A -> [N -> N]]
      BY <1>2
    <3> HIDE DEF N, a, G, A
    <3>2. \E f \in [SUBSET (1..A) -> N] : LoopOf(f, A, a, G)
      <4>1. A \in Nat
        BY <1>2
      <4> QED BY <3>1, <4>1, LoopExists
    <3> QED BY <3>2 DEF N, a
  <2>2. ASSUME NEW s \in SUBSET (1..A)
        PROVE  f[s] = IF s = {} THEN 0
                      ELSE LET x == Max(s)
                           IN  IF I[x] < n THEN f[s \ {x}] + cols[I[x]].size ELSE f[s \ {x}]
    <3>1. CASE s = {}
      BY <2>1, <3>1 DEF LoopOf
    <3>2. CASE s # {}
      <4> DEFINE x == Max(s)
                 y == f[s \ {x}]
      <4>1. x \in 1..A /\ f[s] = G[x][y]
        <5>1. x \in s
          <6> HIDE DEF A
          <6> QED BY <1>2, <3>2, GreatestOf
        <5> QED BY <2>1, <3>2, <5>1 DEF LoopOf
      <4>2. y \in Nat
        BY <2>1
      <4> HIDE DEF x, y
      <4>3. G[x][y] = IF x < n THEN y + cols[x].size ELSE y
        BY <4>1, <4>2
      <4>4. I[x] = x
        BY <1>2, <4>1
      <4> HIDE DEF G, I
      <4>5. f[s] = IF I[x] < n THEN y + cols[I[x]].size ELSE y
        BY <4>1, <4>3, <4>4
      <4> QED BY <3>2, <4>5 DEF x, y
    <3> QED BY <3>1, <3>2
  <2>3. f = Step(f)
    <3> HIDE DEF I, A
    <3> QED BY <1>2, <2>1, <2>2
  <2> HIDE DEF Step
  <2> QED BY <2>3
<1> HIDE DEF h
<1>4. \A s \in SUBSET (1..A) :
        h[s] = IF s = {} THEN 0
               ELSE LET x == Max(s)
                    IN  IF I[x] < n THEN h[s \ {x}] + cols[I[x]].size ELSE h[s \ {x}]
  <2> HIDE DEF I, A
  <2> QED BY <1>2, <1>3
<1> HIDE DEF I, Step
<1>5. h[{}] = P[0]
  <2>1. Before(req, 0) = 0 /\ 0 \in 0..A /\ 0 < n
    BY <1>2, AtEnd, Fronts
  <2>2. P[0] = 0
    BY <2>1
  <2> HIDE DEF A, P
  <2> QED BY <1>4, <2>2
<1>6. ASSUME NEW m \in 1..A, h[1..(m - 1)] = P[m - 1] PROVE h[1..m] = P[m]
  <2>1. Max(1..m) = m /\ (1..m) \ {m} = 1..(m - 1) /\ 1..m # {} /\ 1..m \in SUBSET (1..A)
    <3> HIDE DEF A
    <3>1. Max(1..m) = m /\ (1..m) \ {m} = 1..(m - 1) /\ 1..m # {}
      BY <1>2, GreatestOf
    <3>2. 1..m \in SUBSET (1..A)
      BY <1>2
    <3> QED BY <3>1, <3>2
  <2>2. h[1..m] = IF m < n THEN h[1..(m - 1)] + cols[m].size ELSE h[1..(m - 1)]
    <3> HIDE DEF A
    <3>1. h[1..m] = IF I[m] < n THEN h[(1..m) \ {m}] + cols[I[m]].size ELSE h[(1..m) \ {m}]
      BY <1>4, <2>1
    <3> QED BY <1>2, <2>1, <3>1
  <2>3. Before(req, m) = Before(req, m - 1) + cols[m].size
    BY AtEnd
  <2>4. P[m] = Before(req, IF m < n THEN m ELSE n - 1) /\ P[m - 1] = Before(req, IF m - 1 < n THEN m - 1 ELSE n - 1)
    BY <1>2
  <2> HIDE DEF P, A
  <2>5. CASE m < n
    <3>1. m - 1 < n
      BY <1>2, <2>5
    <3> QED BY <1>6, <2>2, <2>3, <2>4, <2>5, <3>1
  <2>6. CASE ~(m < n)
    <3>1. m - 1 < n => m - 1 = n - 1
      BY <1>2, <2>6
    <3> QED BY <1>6, <2>2, <2>4, <2>6, <3>1
  <2> QED BY <2>5, <2>6
<1>7. h[1..A] = P[A]
  <2> HIDE DEF A, P
  <2> QED BY <1>2, <1>5, <1>6, LoopIs
<1>8. P[A] = Before(req, n - 1)
  <2>1. A \in 0..A /\ (A < n => FALSE)
    BY <1>2
  <2> QED BY <2>1
<1> QED BY <1>1, <1>2, <1>7, <1>8

LEMMA PieceIs ==
  ASSUME Ended, NEW n \in 1..AccessedCols(req)
  PROVE  /\ Piece(n) \in Seq(SUBSET Int)
         /\ Len(Piece(n)) \in Nat /\ Len(Piece(n)) <= ColSize(req, n - 1)
         /\ Uncut(req, n) =>
              Piece(n) = [k \in 1..ColSize(req, n - 1) |->
                            IF pool.gone = Dev(req, n) THEN {-1} ELSE Content(req, n - 1, k - 1)]
<1> DEFINE ptr == Before(req, n - 1)
           z == ColSize(req, n - 1)
           L == Len(data)
           last == IF ptr + z <= L THEN ptr + z ELSE L
           m == IF last > ptr THEN last - ptr ELSE 0
           p == Piece(n)
<1>1. /\ ptr \in Nat /\ z \in Nat /\ Before(req, n) = ptr + z /\ cols[n].size = z
      /\ table \in Tables /\ pool \in Pools /\ req \in Requests /\ pieces = AccessedCols(req)
      /\ AccessedCols(req) \in Nat
  BY AtEnd
<1>2. data \in Seq(FileCells) /\ L \in Nat
  <2>1. data \in Seq(FileCells)
    BY DEF Fed, Ended
  <2> QED BY <2>1, LenProperties
<1>3. p = [k \in 1..m |-> Holds(req, data[ptr + k])]
  BY <1>1, Pointer DEF Piece
<1> HIDE DEF ptr, z, L, p
<1>4. m \in Nat /\ m <= z
  BY <1>1, <1>2
<1>5. \A k \in 1..m : ptr + k \in 1..L
  BY <1>1, <1>2
<1>6. ptr + z <= L => m = z
  BY <1>1, <1>2
<1> HIDE DEF last, m
<1>7. ASSUME NEW k \in 1..m PROVE Holds(req, data[ptr + k]) \in SUBSET Int
  <2>1. data[ptr + k] \in FileCells
    <3> DEFINE i == ptr + k
    <3>1. i \in 1..L
      BY <1>5
    <3> HIDE DEF i
    <3>2. data[i] \in FileCells
      BY <1>2, <3>1, ElementOfSeq DEF L
    <3> QED BY <3>2 DEF i
  <2>2. data[ptr + k][2] \in Nat
    BY <2>1 DEF FileCells
  <2> QED BY <1>1, <2>2, HoldsType
<1>8. p \in Seq(SUBSET Int) /\ Len(p) = m
  <2> DEFINE U == SUBSET Int
  <2>1. p \in [1..m -> U]
    BY <1>3, <1>7
  <2> HIDE DEF U
  <2>2. p \in Seq(U) /\ Len(p) = m
    BY <1>4, <2>1, SeqDef, LenProperties
  <2> QED BY <2>2 DEF U
<1>9. ASSUME Uncut(req, n)
      PROVE  p = [k \in 1..z |-> IF pool.gone = Dev(req, n) THEN {-1} ELSE Content(req, n - 1, k - 1)]
  <2>1. n \in 0..pieces
    BY <1>1
  <2>2. Before(req, n) <= Len(data) /\ \A k \in 1..z : data[ptr + k] = Cell(req, n, k)
    <3>1. /\ Before(req, n) <= Len(data)
          /\ \A q \in 1..n : \A k \in 1..ColSize(req, q - 1) :
               data[Before(req, q - 1) + k] = Cell(req, q, k)
      BY <1>9, <2>1 DEF Fed, Ended
    <3>2. n \in 1..n
      BY <1>1
    <3> QED BY <3>1, <3>2 DEF ptr, z
  <2>3. m = z
    BY <1>1, <1>6, <2>2 DEF L
  <2>4. WholeAt(req, n)
    BY <1>1, <1>9 DEF Uncut
  <2>5. ASSUME NEW k \in 1..z
        PROVE  Holds(req, data[ptr + k]) = IF pool.gone = Dev(req, n) THEN {-1} ELSE Content(req, n - 1, k - 1)
    <3>1. data[ptr + k] = Cell(req, n, k)
      BY <2>2
    <3> QED BY <1>1, <2>4, <3>1, HoldsIs DEF z
  <2> QED BY <1>3, <2>3, <2>5
<1> QED BY <1>4, <1>8, <1>9 DEF z, p

LEMMA DataOfColumns ==
  ASSUME Ended
  PROVE  LET A == AccessedCols(req) IN
         /\ ColData \in Seq(Seq(SUBSET Int)) /\ Len(ColData) = A /\ DOMAIN ColData = 1..A
         /\ \A n \in 1..A : ColData[n] = Piece(n)
<1> DEFINE A == AccessedCols(req)
           U == SUBSET Int
<1>1. A \in Nat /\ DOMAIN cols = 1..A
  BY AtEnd
<1>2. \A n \in 1..A : ColData[n] = Piece(n) /\ Piece(n) \in Seq(U)
  BY <1>1, PieceIs DEF ColData
<1>3. ColData = [n \in 1..A |-> Piece(n)]
  BY <1>1 DEF ColData
<1> HIDE DEF A, U
<1>4. ColData \in [1..A -> Seq(U)]
  BY <1>2, <1>3
<1>5. ColData \in Seq(Seq(U)) /\ Len(ColData) = A
  BY <1>1, <1>4, SeqDef, LenProperties
<1> QED BY <1>2, <1>3, <1>5 DEF A, U

\* The column that is repaired, if there is one.
LEMMA BadIs ==
  ASSUME Ended
  PROVE  /\ BadColumn = 0 \/ /\ BadColumn \in 2..AccessedCols(req) /\ pool.repair
                             /\ pool.bad = <<Dev(req, BadColumn)>>
         /\ BadColumn = 0 => ~pool.repair \/ \A n \in 2..AccessedCols(req) : pool.bad # <<Dev(req, n)>>
         /\ \A m, n \in 1..AccessedCols(req) : Dev(req, m) = Dev(req, n) => m = n
<1> DEFINE A == AccessedCols(req)
           D == dcols
           I == {i \in 1..Len(cols) : <<cols[i].dev>> = pool.bad}
           first == IF I # {} THEN Min(I) ELSE 0
<1>1. /\ A \in Nat /\ A >= 2 /\ A <= D /\ D \in Nat /\ Len(cols) = A
      /\ \A n \in 1..A : cols[n].dev = Dev(req, n)
      /\ pool \in Pools /\ req \in Requests
  BY AtEnd
<1>2. I = {i \in 1..A : <<Dev(req, i)>> = pool.bad}
  BY <1>1
<1>3. BadColumn = IF pool.repair /\ first > 1 THEN first ELSE 0
  BY DEF BadColumn, SelectInSeq
<1>4. ASSUME NEW m \in 1..A, NEW n \in 1..A, Dev(req, m) = Dev(req, n) PROVE m = n
  <2> DEFINE d == Dev(req, m)
             o == Off(req, m)
             x == Off(req, n)
             u == PlaceOf(req, m)
             v == PlaceOf(req, n)
             b == req.b
  <2>1. /\ o \in Nat /\ x \in Nat /\ d \in 0..(D - 1) /\ u \in 0..(D - 1) /\ v \in 0..(D - 1)
        /\ o * D + d = b + u /\ x * D + d = b + v /\ b \in Nat
    <3>1. /\ u \in 0..(A - 1) /\ v \in 0..(A - 1) /\ o \in Nat /\ x \in Nat /\ d \in 0..(D - 1)
          /\ o * D + d = b + u /\ x * D + Dev(req, n) = b + v
      BY <1>1, Places
    <3>2. b \in Nat
      BY <1>1, Shape
    <3> HIDE DEF d, o, x, u, v, b, D
    <3> QED BY <1>1, <1>4, <3>1, <3>2 DEF d
  <2> HIDE DEF d, o, x, u, v, b
  <2>2. ASSUME NEW i \in Nat, NEW j \in Nat, i < j PROVE i * D + D <= j * D /\ i * D \in Nat /\ j * D \in Nat
    <3>1. i + 1 \in Nat /\ i + 1 <= j
      BY <2>2
    <3> HIDE DEF D
    <3>2. (i + 1) * D <= j * D /\ (i + 1) * D = i * D + D /\ i * D \in Nat /\ j * D \in Nat
      BY <1>1, <2>2, <3>1, Products
    <3> QED BY <3>2
  <2>3. ~(o < x)
    <3> SUFFICES ASSUME o < x PROVE FALSE
      OBVIOUS
    <3>1. o * D + D <= x * D /\ o * D \in Nat /\ x * D \in Nat
      BY <2>1, <2>2
    <3> HIDE DEF D
    <3> QED BY <1>1, <2>1, <3>1
  <2>4. ~(x < o)
    <3> SUFFICES ASSUME x < o PROVE FALSE
      OBVIOUS
    <3>1. x * D + D <= o * D /\ o * D \in Nat /\ x * D \in Nat
      BY <2>1, <2>2
    <3> HIDE DEF D
    <3> QED BY <1>1, <2>1, <3>1
  <2>5. o = x
    BY <2>1, <2>3, <2>4
  <2>6. u = v
    <3>1. b + u = b + v
      BY <2>1, <2>5
    <3> QED BY <2>1, <3>1
  <2> QED BY <1>1, <2>6 DEF u, v, PlaceOf
<1>5. I # {} => first \in I
  <2>1. ASSUME I # {} PROVE \E x \in I : \A y \in I : x <= y
    <3>1. I \subseteq Nat
      BY <1>2
    <3> HIDE DEF I
    <3> QED BY <2>1, <3>1, NatLeast
  <2> HIDE DEF I
  <2> QED BY <2>1 DEF Min
<1> HIDE DEF I, first, A
<1>6. BadColumn = 0 \/ (BadColumn \in 2..A /\ pool.repair /\ pool.bad = <<Dev(req, BadColumn)>>)
  <2>1. CASE pool.repair /\ first > 1
    <3>1. I # {}
      <4>1. first = 0 => FALSE
        BY <2>1
      <4> QED BY <4>1 DEF first
    <3>2. first \in 1..A /\ pool.bad = <<Dev(req, first)>>
      BY <1>2, <1>5, <3>1
    <3> QED BY <1>1, <1>3, <2>1, <3>2
  <2>2. CASE ~(pool.repair /\ first > 1)
    BY <1>3, <2>2
  <2> QED BY <2>1, <2>2
<1>7. ASSUME BadColumn = 0, pool.repair, NEW n \in 2..A, pool.bad = <<Dev(req, n)>> PROVE FALSE
  <2>1. n \in I
    BY <1>2, <1>7
  <2>2. first \in 1..A /\ pool.bad = <<Dev(req, first)>>
    BY <1>2, <1>5, <2>1
  <2>3. Dev(req, first) = Dev(req, n)
    BY <1>7, <2>2
  <2>4. first = n
    <3>1. n \in 1..A
      OBVIOUS
    <3> QED BY <1>4, <2>2, <2>3, <3>1
  <2> QED BY <1>3, <1>7, <2>4
<1> QED BY <1>4, <1>6, <1>7 DEF A

(***************************************************************************)
(* The repair.                                                             *)
(***************************************************************************)

LEMMA XorType ==
  ASSUME NEW p, p \in Seq(SUBSET Int), NEW d, d \in Seq(SUBSET Int)
  PROVE  Xor(p, d) \in Seq(SUBSET Int) /\ Len(Xor(p, d)) = Len(p)
<1> DEFINE U == SUBSET Int
           x == Xor(p, d)
<1>1. DOMAIN p = 1..Len(p) /\ Len(p) \in Nat /\ \A k \in 1..Len(p) : p[k] \in U
  <2> HIDE DEF U
  <2>1. p \in Seq(U)
    BY DEF U
  <2> QED BY <2>1, LenProperties, ElementOfSeq
<1>2. Len(d) \in Nat /\ \A k \in 1..Len(d) : d[k] \in U
  <2> HIDE DEF U
  <2>1. d \in Seq(U)
    BY DEF U
  <2> QED BY <2>1, LenProperties, ElementOfSeq
<1>3. \A s, t \in U : SymDiff(s, t) \in U
  BY DEF SymDiff
<1>4. x = [k \in 1..Len(p) |-> IF k <= Len(d) THEN SymDiff(p[k], d[k]) ELSE p[k]]
  BY <1>1 DEF Xor
<1> HIDE DEF U, x
<1>5. ASSUME NEW k \in 1..Len(p) PROVE x[k] \in U
  <2>1. CASE k <= Len(d)
    <3>1. k \in 1..Len(d)
      BY <1>2, <2>1
    <3>2. x[k] = SymDiff(p[k], d[k])
      BY <1>4, <2>1
    <3> QED BY <1>1, <1>2, <1>3, <3>1, <3>2
  <2>2. CASE ~(k <= Len(d))
    BY <1>1, <1>4, <2>2
  <2> QED BY <2>1, <2>2
<1>6. x \in [1..Len(p) -> U]
  BY <1>4, <1>5
<1>7. x \in Seq(U) /\ Len(x) = Len(p)
  BY <1>1, <1>6, SeqDef, LenProperties
<1> QED BY <1>7 DEF U, x

Parity(cd, b) ==
  FoldLeftDomain(LAMBDA p, k : IF k \in AllButBad(b) THEN Xor(p, cd[k]) ELSE p, cd[1], cd)

Loops(h, cd, b) ==
  /\ Parity(cd, b) = h[1..AccessedCols(req)]
  /\ h[{}] = cd[1]
  /\ \A m \in 1..AccessedCols(req) :
       h[1..m] = IF m \in AllButBad(b) THEN Xor(h[1..(m - 1)], cd[m]) ELSE h[1..(m - 1)]

\* What the loop over the columns comes to that xors them into the parity.
LEMMA ParityLoop ==
  ASSUME Ended, NEW cd, cd \in Seq(Seq(SUBSET Int)), Len(cd) = AccessedCols(req), NEW b
  PROVE  \E h : Loops(h, cd, b)
<1> DEFINE A == AccessedCols(req)
           U == Seq(SUBSET Int)
           I == [i \in DOMAIN cd |-> i]
           Step(f) == [s \in SUBSET (DOMAIN I) |->
                         IF s = {} THEN cd[1]
                         ELSE LET x == Max(s)
                              IN  IF I[x] \in AllButBad(b) THEN Xor(f[s \ {x}], cd[I[x]]) ELSE f[s \ {x}]]
           h == CHOOSE f : f = Step(f)
           G == [k \in 1..A |-> [p \in U |-> IF k \in AllButBad(b) THEN Xor(p, cd[k]) ELSE p]]
<1>1. Parity(cd, b) = h[DOMAIN I]
  BY DEF Parity, FoldLeftDomain, FoldLeft, MapThenFoldSet
<1>2. A \in Nat /\ A >= 2 /\ DOMAIN cd = 1..A /\ \A k \in 1..A : cd[k] \in U
  <2>1. A \in Nat /\ A >= 2
    BY AtEnd
  <2> HIDE DEF U, A
  <2>2. cd \in Seq(U) /\ Len(cd) = A
    BY DEF U, A
  <2> QED BY <2>1, <2>2, LenProperties, ElementOfSeq
<1>3. DOMAIN I = 1..A /\ \A k \in 1..A : I[k] = k
  BY <1>2
<1>4. ASSUME NEW k \in 1..A, NEW p \in U
      PROVE  (IF k \in AllButBad(b) THEN Xor(p, cd[k]) ELSE p) \in U
  BY <1>2, XorType
<1>5. G \in [1..A -> [U -> U]]
      /\ \A k \in 1..A : \A p \in U : G[k][p] = IF k \in AllButBad(b) THEN Xor(p, cd[k]) ELSE p
  <2> HIDE DEF U, A
  <2> QED BY <1>4
<1> HIDE DEF G, I, U, A
<1>6. h = Step(h)
  <2>1. PICK f \in [SUBSET (1..A) -> U] : LoopOf(f, A, cd[1], G)
    <3> DEFINE a == cd[1]
    <3>1. a \in U
      BY <1>2
    <3> HIDE DEF a
    <3>2. \E f \in [SUBSET (1..A) -> U] : LoopOf(f, A, a, G)
      BY <1>2, <1>5, <3>1, LoopExists
    <3> QED BY <3>2 DEF a
  <2>2. ASSUME NEW s \in SUBSET (1..A)
        PROVE  f[s] = IF s = {} THEN cd[1]
                      ELSE LET x == Max(s)
                           IN  IF I[x] \in AllButBad(b) THEN Xor(f[s \ {x}], cd[I[x]]) ELSE f[s \ {x}]
    <3>1. CASE s = {}
      BY <2>1, <3>1 DEF LoopOf
    <3>2. CASE s # {}
      <4> DEFINE x == Max(s)
                 y == f[s \ {x}]
      <4>1. x \in 1..A /\ f[s] = G[x][y]
        <5>1. x \in s
          BY <1>2, <3>2, GreatestOf
        <5> QED BY <2>1, <3>2, <5>1 DEF LoopOf
      <4>2. y \in U
        BY <2>1
      <4> HIDE DEF x, y
      <4>3. G[x][y] = IF x \in AllButBad(b) THEN Xor(y, cd[x]) ELSE y
        BY <1>5, <4>1, <4>2
      <4>4. I[x] = x
        BY <1>3, <4>1
      <4>5. f[s] = IF I[x] \in AllButBad(b) THEN Xor(y, cd[I[x]]) ELSE y
        BY <4>1, <4>3, <4>4
      <4> QED BY <3>2, <4>5 DEF x, y
    <3> QED BY <3>1, <3>2
  <2>3. f = Step(f)
    BY <1>3, <2>1, <2>2
  <2> HIDE DEF Step
  <2> QED BY <2>3
<1> HIDE DEF h
<1>7. ASSUME NEW s \in SUBSET (1..A)
      PROVE  h[s] = IF s = {} THEN cd[1]
                    ELSE LET x == Max(s)
                         IN  IF I[x] \in AllButBad(b) THEN Xor(h[s \ {x}], cd[I[x]]) ELSE h[s \ {x}]
  BY <1>3, <1>6
<1> HIDE DEF Step
<1>8. h[{}] = cd[1]
  BY <1>7
<1>9. ASSUME NEW m \in 1..A
      PROVE  h[1..m] = IF m \in AllButBad(b) THEN Xor(h[1..(m - 1)], cd[m]) ELSE h[1..(m - 1)]
  <2>1. Max(1..m) = m /\ (1..m) \ {m} = 1..(m - 1) /\ 1..m # {}
    BY <1>2, GreatestOf
  <2>2. 1..m \in SUBSET (1..A)
    BY <1>2
  <2> DEFINE s == 1..m
             t == 1..(m - 1)
  <2>3. s \in SUBSET (1..A) /\ s # {} /\ Max(s) = m /\ s \ {m} = t
    BY <2>1, <2>2
  <2> HIDE DEF s, t
  <2>4. h[s] = IF I[m] \in AllButBad(b) THEN Xor(h[t], cd[I[m]]) ELSE h[t]
    BY <1>7, <2>3
  <2> QED BY <1>3, <2>4 DEF s, t
<1> QED BY <1>1, <1>3, <1>8, <1>9 DEF A, Loops

LEMMA RepairedIs ==
  ASSUME NEW cd, NEW b
  PROVE  Repaired(cd, b) =
           IF b = 0 THEN cd
           ELSE [cd EXCEPT ![b] = SubSeq(Parity(cd, b), 1,
                                         IF Len(Parity(cd, b)) <= cols[b].size
                                           THEN Len(Parity(cd, b)) ELSE cols[b].size)]
BY DEF Repaired, Parity

LEMMA Cut ==
  ASSUME NEW S, NEW s, s \in Seq(S), NEW n \in Nat, n <= Len(s)
  PROVE  /\ SubSeq(s, 1, n) \in Seq(S) /\ Len(SubSeq(s, 1, n)) = n
         /\ SubSeq(s, 1, n) = [k \in 1..n |-> s[k]]
<1>1. Len(s) \in Nat /\ \A k \in 1..Len(s) : s[k] \in S
  BY LenProperties, ElementOfSeq
<1>2. \A k \in 1..n : k \in 1..Len(s) /\ 1 + k - 1 = k
  BY <1>1
<1>3. SubSeq(s, 1, n) = [k \in 1..n |-> s[k]]
  <2>1. SubSeq(s, 1, n) = [k \in 1..(1 + n - 1) |-> s[1 + k - 1]]
    BY <1>1
  <2>2. 1 + n - 1 = n
    OBVIOUS
  <2> QED BY <1>2, <2>1, <2>2
<1>4. SubSeq(s, 1, n) \in [1..n -> S]
  BY <1>1, <1>2, <1>3
<1> QED BY <1>3, <1>4, SeqDef, LenProperties

\* The data stays a sequence of sequences, whatever was lost.
LEMMA RepairedType ==
  ASSUME Ended, NEW cd, cd \in Seq(Seq(SUBSET Int)), Len(cd) = AccessedCols(req),
         NEW b \in 0..AccessedCols(req)
  PROVE  /\ Repaired(cd, b) \in Seq(Seq(SUBSET Int)) /\ Len(Repaired(cd, b)) = AccessedCols(req)
         /\ Parity(cd, b) \in Seq(SUBSET Int) /\ Len(Parity(cd, b)) = Len(cd[1])
         /\ \A n \in 1..AccessedCols(req) : n # b => Repaired(cd, b)[n] = cd[n]
<1> DEFINE A == AccessedCols(req)
           U == Seq(SUBSET Int)
           par == Parity(cd, b)
           R == Repaired(cd, b)
<1>1. A \in Nat /\ A >= 2 /\ DOMAIN cd = 1..A /\ \A k \in 1..A : cd[k] \in U
  <2>1. A \in Nat /\ A >= 2
    BY AtEnd
  <2> HIDE DEF U, A
  <2>2. cd \in Seq(U) /\ Len(cd) = A
    BY DEF U, A
  <2> QED BY <2>1, <2>2, LenProperties, ElementOfSeq
<1>2. par \in U /\ Len(par) = Len(cd[1])
  <2>1. PICK h : /\ par = h[1..A] /\ h[{}] = cd[1]
                 /\ \A m \in 1..A : h[1..m] = IF m \in AllButBad(b) THEN Xor(h[1..(m - 1)], cd[m]) ELSE h[1..(m - 1)]
    <3> HIDE DEF par
    <3>1. PICK h : Loops(h, cd, b)
      BY ParityLoop
    <3> QED BY <3>1 DEF Loops, par
  <2> DEFINE T == {m \in Nat : m <= A => h[1..m] \in U /\ Len(h[1..m]) = Len(cd[1])}
  <2> HIDE DEF A, par
  <2>2. 0 \in T
    <3>1. 1..0 = {} /\ 1 \in 1..A
      BY <1>1
    <3> HIDE DEF U
    <3> QED BY <1>1, <2>1, <3>1
  <2>3. ASSUME NEW m \in Nat, m < A, m \in T PROVE m + 1 \in T
    <3> DEFINE n == m + 1
    <3>1. n \in 1..A /\ n - 1 = m /\ h[1..m] \in U /\ Len(h[1..m]) = Len(cd[1])
      BY <1>1, <2>3
    <3> HIDE DEF n
    <3>2. h[1..n] = IF n \in AllButBad(b) THEN Xor(h[1..m], cd[n]) ELSE h[1..m]
      BY <2>1, <3>1
    <3>3. h[1..n] \in U /\ Len(h[1..n]) = Len(cd[1])
      <4> DEFINE s == h[1..m]
                 d == cd[n]
      <4>1. s \in Seq(SUBSET Int) /\ d \in Seq(SUBSET Int)
        BY <1>1, <3>1
      <4> HIDE DEF s, d
      <4>2. Xor(s, d) \in U /\ Len(Xor(s, d)) = Len(s)
        BY <4>1, XorType
      <4> HIDE DEF U
      <4> QED BY <3>1, <3>2, <4>2 DEF s, d
    <3> HIDE DEF U
    <3> QED BY <3>3 DEF n
  <2>4. A \in T
    <3> HIDE DEF T
    <3>1. 0..A \subseteq T
      BY <1>1, <2>2, <2>3, UpToInduction
    <3> QED BY <1>1, <3>1
  <2> HIDE DEF U
  <2> QED BY <1>1, <2>1, <2>4
<1>3. CASE b = 0
  <2>1. R = cd
    BY <1>3, RepairedIs
  <2> QED BY <1>2, <2>1
<1>4. CASE b # 0
  <2> DEFINE z == cols[b].size
             n == IF Len(par) <= z THEN Len(par) ELSE z
             s == SubSeq(par, 1, n)
  <2>1. b \in 1..A /\ z \in Nat
    <3>1. b \in 1..A
      BY <1>1, <1>4
    <3> QED BY <3>1, AtEnd
  <2>2. Len(par) \in Nat
    BY <1>2
  <2>3. s \in U
    <3>1. n \in Nat /\ n <= Len(par)
      BY <2>1, <2>2
    <3> HIDE DEF n, par
    <3> QED BY <1>2, <3>1, Cut
  <2>4. R = [cd EXCEPT ![b] = s]
    BY <1>4, RepairedIs
  <2> HIDE DEF s, z, R, A, U
  <2>5. cd = [k \in 1..A |-> cd[k]]
    <3>1. cd \in Seq(U)
      BY DEF U
    <3>2. cd \in [1..Len(cd) -> U]
      BY <3>1, LenProperties
    <3> QED BY <3>2 DEF A
  <2>6. R \in [1..A -> U] /\ \A k \in 1..A : k # b => R[k] = cd[k]
    BY <1>1, <2>1, <2>3, <2>4, <2>5
  <2>7. R \in Seq(U) /\ Len(R) = A
    BY <1>1, <2>6, SeqDef, LenProperties
  <2> QED BY <1>2, <2>6, <2>7 DEF U, A, R
<1> QED BY <1>3, <1>4

\* Column n as it was written, n > 1.
Right(r, n) == [k \in 1..ColSize(r, n - 1) |-> {DataIndex(r, n - 1, k - 1)}]
RightParity(r) == [k \in 1..ColSize(r, 0) |-> Content(r, 0, k - 1)]

\* What is left in sector k of the parity when the columns up to q are xored
\* into it, but not column b.
Left(r, b, q, k) ==
  {d \in 1..(AccessedCols(r) - 1) : k - 1 < ColSize(r, d) /\ (d + 1 <= q => d + 1 = b)}
LeftIn(r, b, q, k) == {DataIndex(r, d, k - 1) : d \in Left(r, b, q, k)}

LEMMA LeftTurn ==
  ASSUME pool \in Pools, NEW r \in Requests, NEW b \in 2..AccessedCols(r),
         NEW m \in 1..AccessedCols(r), NEW k \in Nat \ {0}
  PROVE  /\ (m = 1 \/ m = b) => LeftIn(r, b, m, k) = LeftIn(r, b, m - 1, k)
         /\ m # 1 /\ m # b /\ ~(k <= ColSize(r, m - 1)) => LeftIn(r, b, m, k) = LeftIn(r, b, m - 1, k)
         /\ m # 1 /\ m # b /\ k <= ColSize(r, m - 1) =>
              LeftIn(r, b, m, k) = SymDiff(LeftIn(r, b, m - 1, k), {DataIndex(r, m - 1, k - 1)})
<1> DEFINE A == AccessedCols(r)
           j == k - 1
           E == Left(r, b, m, k)
           F == Left(r, b, m - 1, k)
<1>1. A \in Nat /\ A >= 2 /\ A <= dcols /\ dcols \in Nat /\ j \in Nat
  BY Accessed, Children
<1>2. \A d \in 1..(A - 1) : d \in 1..(dcols - 1) /\ ColSize(r, d) \in Nat
  <2>1. ASSUME NEW d \in 1..(A - 1) PROVE d \in 1..(dcols - 1) /\ ColSize(r, d) \in Nat
    <3>1. d \in 1..(dcols - 1) /\ d \in 0..(dcols - 1)
      BY <1>1
    <3> QED BY <3>1, Sizes
  <2> QED BY <2>1
<1>3. \A d \in 1..(A - 1) : /\ d \in E <=> j < ColSize(r, d) /\ (d + 1 <= m => d + 1 = b)
                            /\ d \in F <=> j < ColSize(r, d) /\ (d + 1 <= m - 1 => d + 1 = b)
  BY DEF Left
<1>4. E \subseteq 1..(A - 1) /\ F \subseteq 1..(A - 1)
  BY DEF Left
<1>5. LeftIn(r, b, m, k) = {DataIndex(r, d, j) : d \in E} /\ LeftIn(r, b, m - 1, k) = {DataIndex(r, d, j) : d \in F}
  BY DEF LeftIn
<1> HIDE DEF E, F, A, j
<1>6. ASSUME m = 1 \/ m = b PROVE E = F
  <2>1. ASSUME NEW d \in 1..(A - 1) PROVE (d + 1 <= m => d + 1 = b) <=> (d + 1 <= m - 1 => d + 1 = b)
    BY <1>1, <1>6 DEF A
  <2> QED BY <1>3, <1>4, <2>1
<1>7. ASSUME m # 1, m # b PROVE m - 1 \in 1..(A - 1) /\ (m - 1) + 1 = m
  BY <1>1, <1>7 DEF A
<1>8. ASSUME m # 1, m # b, ~(k <= ColSize(r, m - 1)) PROVE E = F
  <2>1. ASSUME NEW d \in 1..(A - 1), d # m - 1
        PROVE  (d + 1 <= m => d + 1 = b) <=> (d + 1 <= m - 1 => d + 1 = b)
    BY <1>1, <2>1 DEF A
  <2>2. ~(j < ColSize(r, m - 1))
    BY <1>2, <1>7, <1>8 DEF j
  <2>3. m - 1 \notin E /\ m - 1 \notin F
    BY <1>3, <1>7, <1>8, <2>2
  <2>4. ASSUME NEW d PROVE d \in E <=> d \in F
    <3>1. CASE d = m - 1
      BY <2>3, <3>1
    <3>2. CASE d # m - 1
      BY <1>3, <1>4, <2>1, <3>2
    <3> QED BY <3>1, <3>2
  <2> QED BY <2>4
<1>9. ASSUME m # 1, m # b, k <= ColSize(r, m - 1)
      PROVE  LeftIn(r, b, m, k) = SymDiff(LeftIn(r, b, m - 1, k), {DataIndex(r, m - 1, j)})
  <2> DEFINE c == m - 1
  <2>1. c \in 1..(A - 1) /\ c + 1 = m
    BY <1>7, <1>9
  <2>2. j < ColSize(r, c)
    BY <1>2, <1>9, <2>1 DEF j
  <2>3. ASSUME NEW d \in 1..(A - 1), d # c
        PROVE  (d + 1 <= m => d + 1 = b) <=> (d + 1 <= m - 1 => d + 1 = b)
    BY <1>1, <2>3 DEF A
  <2>4. c \in F
    <3>1. ~(c + 1 <= m - 1)
      BY <2>1
    <3> HIDE DEF c
    <3> QED BY <1>3, <2>1, <2>2, <3>1
  <2>5. c \notin E
    <3>1. c + 1 <= m /\ c + 1 # b
      BY <1>9, <2>1
    <3> HIDE DEF c
    <3> QED BY <1>3, <2>1, <3>1
  <2> HIDE DEF c
  <2>6. E = F \ {c}
    <3>1. ASSUME NEW d PROVE d \in E <=> d \in F \ {c}
      <4>1. CASE d = c
        BY <2>5, <4>1
      <4>2. CASE d # c
        BY <1>3, <1>4, <2>3, <4>2
      <4> QED BY <4>1, <4>2
    <3> QED BY <3>1
  <2>7. ASSUME NEW d \in F, DataIndex(r, d, j) = DataIndex(r, c, j) PROVE d = c
    <3>1. d \in 1..(dcols - 1) /\ j < ColSize(r, d) /\ c \in 1..(dcols - 1)
      BY <1>2, <1>3, <1>4, <2>1
    <3> QED BY <1>1, <2>2, <2>7, <3>1, OneIndex
  <2>8. {DataIndex(r, d, j) : d \in E}
          = SymDiff({DataIndex(r, d, j) : d \in F}, {DataIndex(r, c, j)})
    BY <2>4, <2>6, <2>7 DEF SymDiff
  <2> QED BY <1>5, <2>8 DEF c
<1> QED BY <1>5, <1>6, <1>8, <1>9 DEF j

LEMMA LeftEnds ==
  ASSUME pool \in Pools, NEW r \in Requests, NEW b \in 2..AccessedCols(r), NEW k \in Nat \ {0}
  PROVE  /\ Content(r, 0, k - 1) = LeftIn(r, b, 0, k)
         /\ k <= ColSize(r, b - 1) => LeftIn(r, b, AccessedCols(r), k) = {DataIndex(r, b - 1, k - 1)}
<1> DEFINE A == AccessedCols(r)
           j == k - 1
           D == dcols
<1>1. A \in Nat /\ A >= 2 /\ A <= D /\ D \in Nat /\ j \in Nat
  BY Accessed, Children
<1>2. ASSUME NEW d \in 1..(D - 1)
      PROVE  ColSize(r, d) \in Nat /\ (j \in Stripe(r, d) <=> j < ColSize(r, d)) /\ (j < ColSize(r, d) => d < A)
  <2>1. d \in 0..(D - 1)
    BY <1>1
  <2>2. ColSize(r, d) \in Nat /\ (ColSize(r, d) > 0 <=> d < A) /\ Stripe(r, d) = 0..(ColSize(r, d) - 1)
    BY <2>1, Sizes, StripeSize
  <2> HIDE DEF j
  <2> QED BY <1>1, <2>2
<1>3. {e \in 1..(D - 1) : j \in Stripe(r, e)} = Left(r, b, 0, k)
  <2>1. ASSUME NEW d PROVE d \in {e \in 1..(D - 1) : j \in Stripe(r, e)} <=> d \in Left(r, b, 0, k)
    <3>1. d \in Left(r, b, 0, k) <=> d \in 1..(A - 1) /\ j < ColSize(r, d)
      <4>1. \A e \in 1..(A - 1) : ~(e + 1 <= 0)
        BY <1>1
      <4> HIDE DEF A
      <4> QED BY <4>1 DEF Left, A
    <3>2. d \in 1..(A - 1) => d \in 1..(D - 1)
      BY <1>1
    <3>3. d \in 1..(D - 1) /\ d < A => d \in 1..(A - 1)
      BY <1>1
    <3> HIDE DEF A, D, j
    <3> QED BY <1>2, <3>1, <3>2, <3>3
  <2> QED BY <2>1
<1>4. Content(r, 0, j) = LeftIn(r, b, 0, k)
  <2>1. Content(r, 0, j) = {DataIndex(r, d, j) : d \in {e \in 1..(dcols - 1) : j \in Stripe(r, e)}}
    BY DEF Content
  <2> QED BY <1>3, <2>1 DEF LeftIn
<1>5. ASSUME k <= ColSize(r, b - 1) PROVE LeftIn(r, b, A, k) = {DataIndex(r, b - 1, j)}
  <2> DEFINE c == b - 1
  <2>1. c \in 1..(A - 1) /\ c + 1 = b /\ c \in 1..(D - 1)
    BY <1>1
  <2>2. j < ColSize(r, c)
    BY <1>2, <1>5, <2>1
  <2>3. Left(r, b, A, k) = {c}
    <3>1. ASSUME NEW d \in 1..(A - 1) PROVE (d + 1 <= A => d + 1 = b) <=> d = c
      BY <1>1
    <3> HIDE DEF c
    <3> QED BY <2>1, <2>2, <3>1 DEF Left
  <2> QED BY <2>3 DEF LeftIn
<1> QED BY <1>4, <1>5

\* A sector of a loop's outcome and of its next turn.
LEMMA RepairTurn ==
  ASSUME Ended, NEW b \in 2..AccessedCols(req), NEW m \in 1..AccessedCols(req),
         NEW p, p = [k \in 1..ColSize(req, 0) |-> LeftIn(req, b, m - 1, k)]
  PROVE  (IF m \in AllButBad(b) THEN Xor(p, Right(req, m)) ELSE p)
            = [k \in 1..ColSize(req, 0) |-> LeftIn(req, b, m, k)]
<1> DEFINE A == AccessedCols(req)
           z == ColSize(req, 0)
           y == ColSize(req, m - 1)
           d == Right(req, m)
<1>1. /\ pool \in Pools /\ req \in Requests /\ A \in Nat /\ A >= 2 /\ Len(cols) = A
      /\ z \in Nat /\ y \in Nat
  <2>1. /\ pool \in Pools /\ req \in Requests /\ A \in Nat /\ A >= 2 /\ Len(cols) = A
        /\ y \in Nat /\ dcols \in Nat /\ dcols >= 2
    BY AtEnd
  <2>2. z \in Nat
    BY <2>1, Sizes
  <2> QED BY <2>1, <2>2
<1>2. m \in AllButBad(b) <=> m # 1 /\ m # b
  BY <1>1 DEF AllButBad
<1>3. DOMAIN p = 1..z /\ \A k \in 1..z : p[k] = LeftIn(req, b, m - 1, k)
  OBVIOUS
<1>4. Len(d) = y /\ \A k \in 1..y : d[k] = {DataIndex(req, m - 1, k - 1)}
  <2>1. d = [k \in 1..y |-> {DataIndex(req, m - 1, k - 1)}]
    BY DEF Right
  <2> HIDE DEF y, d
  <2> QED BY <1>1, <2>1, LenProperties
<1> HIDE DEF A, z, y, d
<1>5. CASE ~(m \in AllButBad(b))
  <2>1. ASSUME NEW k \in 1..z PROVE LeftIn(req, b, m, k) = LeftIn(req, b, m - 1, k)
    <3>1. k \in Nat \ {0}
      BY <1>1
    <3> QED BY <1>1, <1>2, <1>5, <3>1, LeftTurn
  <2> QED BY <1>5, <2>1 DEF z
<1>6. CASE m \in AllButBad(b)
  <2>1. ASSUME NEW k \in 1..z
        PROVE  (IF k <= Len(d) THEN SymDiff(p[k], d[k]) ELSE p[k]) = LeftIn(req, b, m, k)
    <3>1. k \in Nat \ {0}
      BY <1>1
    <3>2. CASE k <= y
      <4>1. LeftIn(req, b, m, k) = SymDiff(LeftIn(req, b, m - 1, k), {DataIndex(req, m - 1, k - 1)})
        BY <1>1, <1>2, <1>6, <3>1, <3>2, LeftTurn DEF y
      <4>2. k \in 1..y
        BY <1>1, <3>1, <3>2
      <4>3. d[k] = {DataIndex(req, m - 1, k - 1)} /\ k <= Len(d)
        BY <1>4, <3>2, <4>2
      <4> QED BY <1>3, <4>1, <4>3
    <3>3. CASE ~(k <= y)
      <4>1. LeftIn(req, b, m, k) = LeftIn(req, b, m - 1, k)
        BY <1>1, <1>2, <1>6, <3>1, <3>3, LeftTurn DEF y
      <4> QED BY <1>3, <1>4, <3>3, <4>1
    <3> QED BY <3>2, <3>3
  <2>2. Xor(p, d) = [k \in 1..z |-> IF k <= Len(d) THEN SymDiff(p[k], d[k]) ELSE p[k]]
    BY <1>3 DEF Xor
  <2>3. Xor(p, d) = [k \in 1..z |-> LeftIn(req, b, m, k)]
    BY <2>1, <2>2
  <2> QED BY <1>6, <2>3 DEF d, z
<1> QED BY <1>5, <1>6

\* The parity and the other columns give the one column that is missing.
LEMMA Repairs ==
  ASSUME Ended, NEW cd, cd \in Seq(Seq(SUBSET Int)), Len(cd) = AccessedCols(req),
         NEW b \in 2..AccessedCols(req), cd[1] = RightParity(req),
         \A n \in 2..AccessedCols(req) : n # b => cd[n] = Right(req, n)
  PROVE  Repaired(cd, b)[b] = Right(req, b)
<1> DEFINE A == AccessedCols(req)
           z == ColSize(req, 0)
           y == ColSize(req, b - 1)
           P == [q \in 0..A |-> [k \in 1..z |-> LeftIn(req, b, q, k)]]
<1>1. /\ pool \in Pools /\ req \in Requests /\ A \in Nat /\ A >= 2 /\ Len(cols) = A
      /\ z \in Nat /\ y \in Nat /\ y <= z /\ cols[b].size = y
  <2>1. b \in 1..A
    BY AtEnd
  <2>2. /\ pool \in Pools /\ req \in Requests /\ A \in Nat /\ A >= 2 /\ Len(cols) = A
        /\ dcols \in Nat /\ dcols >= 2
    BY AtEnd
  <2>3. y \in Nat /\ y <= z /\ cols[b].size = y
    BY <2>1, AtEnd
  <2>4. z \in Nat
    BY <2>2, Sizes
  <2> QED BY <2>2, <2>3, <2>4
<1>2. PICK h : Loops(h, cd, b)
  BY ParityLoop
<1>3. \A q \in 0..A : P[q] = [k \in 1..z |-> LeftIn(req, b, q, k)]
  OBVIOUS
<1> HIDE DEF A, z, y, P
<1>4. h[{}] = P[0]
  <2>1. ASSUME NEW k \in 1..z PROVE Content(req, 0, k - 1) = LeftIn(req, b, 0, k)
    <3>1. k \in Nat \ {0}
      BY <1>1
    <3> QED BY <1>1, <3>1, LeftEnds
  <2>2. cd[1] = [k \in 1..z |-> LeftIn(req, b, 0, k)]
    BY <2>1 DEF RightParity, z
  <2>3. 0 \in 0..A
    BY <1>1
  <2> QED BY <1>2, <1>3, <2>2, <2>3 DEF Loops
<1>5. ASSUME NEW m \in 1..A, h[1..(m - 1)] = P[m - 1] PROVE h[1..m] = P[m]
  <2> DEFINE p == P[m - 1]
             t == h[1..m]
  <2>1. m - 1 \in 0..A /\ m \in 0..A
    BY <1>1
  <2>2. t = IF m \in AllButBad(b) THEN Xor(p, cd[m]) ELSE p
    BY <1>2, <1>5 DEF Loops, A
  <2>3. m \in AllButBad(b) => cd[m] = Right(req, m)
    BY <1>1 DEF AllButBad, A
  <2>4. p = [k \in 1..z |-> LeftIn(req, b, m - 1, k)]
    BY <1>3, <2>1
  <2> HIDE DEF p, t
  <2>5. t = IF m \in AllButBad(b) THEN Xor(p, Right(req, m)) ELSE p
    BY <2>2, <2>3
  <2>6. t = [k \in 1..z |-> LeftIn(req, b, m, k)]
    BY <1>1, <2>4, <2>5, RepairTurn DEF A, z
  <2> QED BY <1>3, <2>1, <2>6 DEF t
<1>6. h[1..A] = P[A]
  <2>1. A \in Nat
    BY <1>1
  <2> QED BY <1>4, <1>5, <2>1, LoopIs
<1> DEFINE par == Parity(cd, b)
<1>7. par = [k \in 1..z |-> LeftIn(req, b, A, k)]
  <2>1. A \in 0..A
    BY <1>1
  <2> QED BY <1>2, <1>3, <1>6, <2>1 DEF Loops, A
<1>8. par \in Seq(SUBSET Int) /\ Len(par) = z
  <2>1. b \in 0..AccessedCols(req)
    BY <1>1
  <2>2. par \in Seq(SUBSET Int)
    BY <2>1, RepairedType
  <2> HIDE DEF par
  <2> QED BY <1>1, <1>7, <2>2, LenProperties
<1>9. Repaired(cd, b)[b] = SubSeq(par, 1, y)
  <2>1. (IF Len(par) <= cols[b].size THEN Len(par) ELSE cols[b].size) = y
    BY <1>1, <1>8
  <2>2. b # 0
    BY <1>1
  <2>3. Repaired(cd, b) = [cd EXCEPT ![b] = SubSeq(par, 1, y)]
    BY <2>1, <2>2, RepairedIs
  <2>4. b \in DOMAIN cd
    <3> DEFINE U == Seq(SUBSET Int)
    <3>1. cd \in Seq(U)
      OBVIOUS
    <3> HIDE DEF U
    <3>2. DOMAIN cd = 1..Len(cd)
      BY <3>1, LenProperties
    <3> QED BY <1>1, <3>2
  <2> QED BY <2>3, <2>4
<1> HIDE DEF par
<1>10. SubSeq(par, 1, y) = [k \in 1..y |-> par[k]]
  <2> DEFINE U == SUBSET Int
  <2>1. par \in Seq(U) /\ y <= Len(par)
    BY <1>1, <1>8
  <2> HIDE DEF U
  <2> QED BY <1>1, <2>1, Cut
<1>11. ASSUME NEW k \in 1..y PROVE par[k] = {DataIndex(req, b - 1, k - 1)}
  <2>1. k \in Nat \ {0} /\ k \in 1..z /\ k <= y
    BY <1>1
  <2>2. LeftIn(req, b, A, k) = {DataIndex(req, b - 1, k - 1)}
    BY <1>1, <2>1, LeftEnds DEF A, y
  <2> QED BY <1>7, <2>1, <2>2
<1> QED BY <1>9, <1>10, <1>11 DEF Right, y

(***************************************************************************)
(* The columns put together.                                               *)
(***************************************************************************)

Flat(e, q) ==
  /\ FlattenSeq(q) = e[Len(q)] /\ e[0] = <<>>
  /\ \A i \in 1..Len(q) : e[i] = e[i - 1] \o q[i]

LEMMA FlatLoop ==
  ASSUME NEW U, NEW q \in Seq(Seq(U)), Len(q) >= 1
  PROVE  \E e \in [0..Len(q) -> Seq(U)] : Flat(e, q)
<1> DEFINE V == Seq(U)
           N == Len(q)
           G == [k \in 1..N |-> [x \in V |-> x \o q[k]]]
           Step(f) == [i \in 1..N |-> IF i = 1 THEN q[i] ELSE f[i-1] \o q[i]]
           h == CHOOSE f : f = Step(f)
<1>1. N \in Nat /\ N >= 1 /\ \A k \in 1..N : q[k] \in V
  <2> HIDE DEF V
  <2>1. q \in Seq(V) /\ Len(q) >= 1
    BY DEF V
  <2> QED BY <2>1, LenProperties, ElementOfSeq
<1>2. ASSUME NEW k \in 1..N, NEW x \in V PROVE x \o q[k] \in V
  <2>1. q[k] \in Seq(U)
    BY <1>1
  <2> DEFINE y == q[k]
  <2> HIDE DEF y
  <2>2. x \o y \in Seq(U)
    BY <2>1, Joined DEF y
  <2> QED BY <2>2 DEF y
<1>3. <<>> \in V
  BY EmptySeq
<1>4. ASSUME NEW k \in 1..N PROVE <<>> \o q[k] = q[k]
  <2>1. q[k] \in Seq(U)
    BY <1>1
  <2> DEFINE y == q[k]
  <2> HIDE DEF y
  <2>2. <<>> \o y = y
    BY <2>1, ConcatEmptySeq DEF y
  <2> QED BY <2>2 DEF y
<1>5. FlattenSeq(q) = h[N]
  <2>1. ~(Len(q) = 0)
    BY <1>1
  <2> QED BY <2>1 DEF FlattenSeq
<1> HIDE DEF V, N, G
<1>6. G \in [1..N -> [V -> V]] /\ \A k \in 1..N : \A x \in V : G[k][x] = x \o q[k]
  BY <1>2 DEF G
<1>7. PICK g \in [SUBSET (1..N) -> V] : LoopOf(g, N, <<>>, G)
  <2> DEFINE a == <<>>
  <2>1. a \in V
    BY <1>3
  <2> HIDE DEF a
  <2>2. \E g \in [SUBSET (1..N) -> V] : LoopOf(g, N, a, G)
    BY <1>1, <1>6, <2>1, LoopExists
  <2> QED BY <2>2 DEF a
<1> DEFINE e == [i \in 0..N |-> g[1..i]]
<1>8. e \in [0..N -> V] /\ \A i \in 0..N : e[i] = g[1..i]
  <2>1. \A i \in 0..N : 1..i \in SUBSET (1..N)
    BY <1>1
  <2> QED BY <1>7, <2>1
<1> HIDE DEF e
<1>9. e[0] = <<>>
  <2>1. 1..0 = {} /\ 0 \in 0..N
    BY <1>1
  <2>2. {} \in SUBSET (1..N)
    OBVIOUS
  <2> QED BY <1>7, <1>8, <2>1, <2>2 DEF LoopOf
<1>10. ASSUME NEW i \in 1..N PROVE e[i] = e[i - 1] \o q[i]
  <2> DEFINE s == 1..i
             t == 1..(i - 1)
  <2>1. s \in SUBSET (1..N) /\ s # {} /\ Max(s) = i /\ s \ {i} = t /\ i \in 0..N /\ i - 1 \in 0..N
    <3>1. Max(s) = i /\ s \ {i} = t /\ s # {}
      BY <1>1, GreatestOf
    <3>2. s \in SUBSET (1..N) /\ i \in 0..N /\ i - 1 \in 0..N
      BY <1>1
    <3> HIDE DEF s, t
    <3> QED BY <3>1, <3>2
  <2>2. e[i] = g[s] /\ e[i - 1] = g[t]
    BY <1>8, <2>1
  <2> HIDE DEF s, t
  <2>3. g[s] = G[i][g[t]]
    BY <1>7, <2>1 DEF LoopOf
  <2>4. g[t] \in V
    BY <1>8, <2>1, <2>2
  <2> QED BY <1>6, <2>2, <2>3, <2>4
<1>11. h = Step(h)
  <2> DEFINE w == [i \in 1..N |-> e[i]]
  <2>1. w = Step(w)
    <3>1. ASSUME NEW i \in 1..N
          PROVE  w[i] = IF i = 1 THEN q[i] ELSE w[i-1] \o q[i]
      <4>1. CASE i = 1
        <5>1. e[1] = e[0] \o q[1]
          <6>1. 1 \in 1..N /\ 1 - 1 = 0
            BY <1>1
          <6>2. e[1] = e[1 - 1] \o q[1]
            BY <1>10, <6>1
          <6> QED BY <6>1, <6>2
        <5> QED BY <1>4, <1>9, <4>1, <5>1
      <4>2. CASE i # 1
        <5>1. i - 1 \in 1..N
          BY <1>1, <4>2
        <5> QED BY <1>10, <4>2, <5>1
      <4> QED BY <4>1, <4>2
    <3> HIDE DEF w
    <3>2. w = [i \in 1..N |-> w[i]]
      BY DEF w
    <3> QED BY <3>1, <3>2
  <2> HIDE DEF w, Step
  <2> QED BY <2>1
<1> HIDE DEF h
<1>12. ASSUME NEW i \in 1..N PROVE h[i] = IF i = 1 THEN q[i] ELSE h[i-1] \o q[i]
  BY <1>11
<1> HIDE DEF Step
<1>13. h[N] = e[N]
  <2> DEFINE T == {i \in Nat : i < N => h[i + 1] = e[i + 1]}
             M == N - 1
  <2>1. M \in Nat /\ M + 1 = N
    BY <1>1
  <2>2. 0 \in T
    <3>1. 1 \in 1..N /\ 1 - 1 = 0 /\ 0 + 1 = 1
      BY <1>1
    <3>2. h[1] = q[1]
      BY <1>12, <3>1
    <3>3. e[1] = e[1 - 1] \o q[1]
      BY <1>10, <3>1
    <3> QED BY <1>4, <1>9, <3>1, <3>2, <3>3
  <2>3. ASSUME NEW i \in Nat, i < M, i \in T PROVE i + 1 \in T
    <3> DEFINE m == i + 1
               n == m + 1
    <3>1. n \in 1..N /\ n # 1 /\ n - 1 = m /\ m \in Nat /\ h[m] = e[m]
      BY <1>1, <2>1, <2>3
    <3> HIDE DEF n
    <3>2. h[n] = h[n - 1] \o q[n] /\ e[n] = e[n - 1] \o q[n]
      BY <1>10, <1>12, <3>1
    <3>3. h[n] = e[n]
      BY <3>1, <3>2
    <3> QED BY <3>1, <3>3 DEF n
  <2>4. M \in T
    <3> HIDE DEF T, M
    <3>1. 0..M \subseteq T
      BY <2>1, <2>2, <2>3, UpToInduction
    <3> QED BY <2>1, <3>1
  <2>5. M < N
    BY <1>1
  <2>6. h[M + 1] = e[M + 1]
    <3> HIDE DEF M
    <3> QED BY <2>4, <2>5
  <2> HIDE DEF M
  <2> QED BY <2>1, <2>6
<1>14. Flat(e, q)
  BY <1>5, <1>9, <1>10, <1>13 DEF Flat, N
<1> QED BY <1>8, <1>14 DEF N, V

\* F[i] sectors are in the first i pieces, numbered one after the other.
Counts(F, q, n) ==
  /\ F[0] = 0 /\ \A i \in 0..n : F[i] \in Nat
  /\ \A i \in 1..n : /\ F[i] = F[i - 1] + Len(q[i])
                     /\ \A k \in 1..Len(q[i]) : q[i][k] = {F[i - 1] + (k - 1)}

Starts(v, l) == l <= Len(v) /\ \A x \in 1..l : v[x] = {x - 1}

LEMMA FlatCounts ==
  ASSUME NEW U, NEW q \in Seq(Seq(U)), Len(q) >= 1, NEW n \in 0..Len(q), NEW F, Counts(F, q, n)
  PROVE  /\ FlattenSeq(q) \in Seq(U) /\ Starts(FlattenSeq(q), F[n])
         /\ n = Len(q) => Len(FlattenSeq(q)) = F[n]
<1> DEFINE V == Seq(U)
           N == Len(q)
           low(i) == IF i <= n THEN i ELSE n
<1>1. N \in Nat /\ N >= 1 /\ \A k \in 1..N : q[k] \in V
  <2> HIDE DEF V
  <2>1. q \in Seq(V) /\ Len(q) >= 1
    BY DEF V
  <2> QED BY <2>1, LenProperties, ElementOfSeq
<1>2. PICK e \in [0..N -> V] : Flat(e, q)
  BY FlatLoop
<1>3. e[0] = <<>> /\ FlattenSeq(q) = e[N] /\ \A i \in 1..N : e[i] = e[i - 1] \o q[i]
  BY <1>2 DEF Flat
<1>4. n \in Nat /\ n <= N
  BY <1>1
<1> HIDE DEF N, V
<1> DEFINE T == {i \in Nat : i <= N => Starts(e[i], F[low(i)]) /\ (i <= n => Len(e[i]) = F[i])}
<1>5. 0 \in T
  <2>1. low(0) = 0 /\ F[0] = 0 /\ Len(e[0]) = 0
    BY <1>3, <1>4 DEF Counts
  <2> HIDE DEF low
  <2> QED BY <2>1 DEF Starts
<1>6. ASSUME NEW j \in Nat, j < N, j \in T PROVE j + 1 \in T
  <2> DEFINE i == j + 1
             s == e[j]
             t == q[i]
  <2>1. i \in 1..N /\ i - 1 = j /\ j \in 0..N /\ i \in Nat
    BY <1>1, <1>6
  <2>2. s \in Seq(U) /\ t \in Seq(U)
    BY <1>1, <1>2, <2>1 DEF V
  <2>3. e[i] = s \o t
    <3> HIDE DEF i
    <3> QED BY <1>3, <2>1 DEF i
  <2>4. Starts(s, F[low(j)]) /\ (j <= n => Len(s) = F[j])
    <3>1. j <= N
      BY <1>1, <1>6
    <3> HIDE DEF low, s
    <3>2. Starts(e[j], F[low(j)]) /\ (j <= n => Len(e[j]) = F[j])
      BY <1>6, <3>1
    <3> QED BY <3>2 DEF s
  <2> HIDE DEF s, t
  <2>5. /\ Len(s \o t) = Len(s) + Len(t) /\ Len(s) \in Nat /\ Len(t) \in Nat
        /\ \A x \in 1..Len(s) : (s \o t)[x] = s[x]
        /\ \A x \in 1..Len(t) : (s \o t)[Len(s) + x] = t[x]
    BY <2>2, Joined
  <2>6. CASE i <= n
    <3>1. low(i) = i /\ low(j) = j /\ j <= n /\ i \in 1..n /\ i \in 0..n /\ j \in 0..n
      BY <1>4, <2>1, <2>6
    <3> HIDE DEF i, low
    <3>2. F[i] \in Nat /\ F[j] \in Nat /\ F[i] = F[j] + Len(t)
          /\ \A k \in 1..Len(t) : t[k] = {F[j] + (k - 1)}
      BY <2>1, <3>1 DEF Counts, t
    <3>3. Len(s) = F[j] /\ \A x \in 1..F[j] : s[x] = {x - 1}
      BY <2>4, <3>1 DEF Starts
    <3> DEFINE l == F[i]
               m == F[j]
               u == s \o t
    <3>4. l \in Nat /\ m \in Nat /\ l = m + Len(t) /\ Len(s) = m /\ Len(u) = l
      BY <2>5, <3>2, <3>3
    <3>5. /\ \A k \in 1..Len(t) : t[k] = {m + (k - 1)}
          /\ \A x \in 1..m : s[x] = {x - 1}
      BY <3>2, <3>3
    <3>6. /\ \A x \in 1..m : u[x] = s[x]
          /\ \A x \in 1..Len(t) : u[m + x] = t[x]
      BY <2>5, <3>4
    <3> HIDE DEF l, m, u
    <3>7. ASSUME NEW x \in 1..l PROVE u[x] = {x - 1}
      <4>1. CASE x <= m
        <5>1. x \in 1..m
          BY <3>4, <4>1
        <5> QED BY <3>5, <3>6, <5>1
      <4>2. CASE ~(x <= m)
        <5> DEFINE k == x - m
        <5>1. k \in 1..Len(t) /\ m + k = x /\ m + (k - 1) = x - 1
          BY <2>5, <3>4, <4>2
        <5> HIDE DEF k
        <5>2. u[m + k] = t[k] /\ t[k] = {m + (k - 1)}
          BY <3>5, <3>6, <5>1
        <5> QED BY <5>1, <5>2
      <4> QED BY <4>1, <4>2
    <3>8. Starts(u, l) /\ Len(u) = l
      BY <3>4, <3>7 DEF Starts
    <3>9. Starts(e[i], F[low(i)]) /\ Len(e[i]) = F[i]
      BY <2>3, <3>1, <3>8 DEF u, l
    <3>10. i \in T
      BY <2>1, <3>9
    <3> QED BY <3>10 DEF i
  <2>7. CASE ~(i <= n)
    <3>1. low(i) = n /\ low(j) = n
      BY <1>4, <2>1, <2>7
    <3> HIDE DEF i, low
    <3> DEFINE l == F[n]
               u == s \o t
    <3>2. l \in Nat
      <4>1. n \in 0..n
        BY <1>4
      <4> QED BY <4>1 DEF Counts
    <3>3. l <= Len(s) /\ \A x \in 1..l : s[x] = {x - 1}
      BY <2>4, <3>1 DEF Starts
    <3>4. Len(u) = Len(s) + Len(t) /\ \A x \in 1..Len(s) : u[x] = s[x]
      BY <2>5
    <3> HIDE DEF l, u
    <3>5. l <= Len(u) /\ \A x \in 1..l : x \in 1..Len(s)
      BY <2>5, <3>2, <3>3, <3>4
    <3>6. Starts(u, l)
      BY <3>3, <3>4, <3>5 DEF Starts
    <3>7. Starts(e[i], F[low(i)])
      BY <2>3, <3>1, <3>6 DEF u, l
    <3>8. i \in T
      BY <2>1, <2>7, <3>7
    <3> QED BY <3>8 DEF i
  <2> QED BY <2>6, <2>7
<1>7. N \in T
  <2> HIDE DEF T
  <2>1. 0..N \subseteq T
    BY <1>1, <1>5, <1>6, UpToInduction
  <2> QED BY <1>1, <2>1
<1>8. low(N) = n
  BY <1>1, <1>4
<1> HIDE DEF low
<1>9. Starts(e[N], F[n]) /\ (N <= n => Len(e[N]) = F[N])
  BY <1>1, <1>7, <1>8
<1>10. e[N] \in V /\ (n = N => N <= n)
  BY <1>1, <1>2
<1> QED BY <1>3, <1>9, <1>10 DEF V, N

LEMMA PutTogether ==
  ASSUME Ended, NEW R, R \in Seq(Seq(SUBSET Int)), Len(R) = AccessedCols(req),
         NEW n \in 1..AccessedCols(req), \A m \in 2..n : R[m] = Right(req, m)
  PROVE  /\ FlattenSeq(Tail(R)) \in Seq(SUBSET Int)
         /\ Starts(FlattenSeq(Tail(R)), Before(req, n) - Before(req, 1))
         /\ n = AccessedCols(req) =>
              Len(FlattenSeq(Tail(R))) = Before(req, n) - Before(req, 1)
<1> DEFINE A == AccessedCols(req)
           U == SUBSET Int
           q == Tail(R)
           b == Before(req, 1)
           F == [i \in 0..(A - 1) |-> Before(req, i + 1) - b]
           l == n - 1
<1>1. /\ A \in Nat /\ A >= 2 /\ A <= dcols /\ dcols \in Nat /\ pool \in Pools /\ req \in Requests
      /\ \A m \in 1..A : ColSize(req, m - 1) \in Nat /\ Before(req, m) \in Nat
                         /\ Before(req, m - 1) \in Nat
                         /\ Before(req, m) = Before(req, m - 1) + ColSize(req, m - 1)
  BY AtEnd
<1>2. b \in Nat
  <2>1. 1 \in 1..A
    BY <1>1
  <2> QED BY <1>1, <2>1
<1>3. q \in Seq(Seq(U)) /\ Len(q) = A - 1 /\ \A i \in 1..(A - 1) : q[i] = R[i + 1]
  <2> DEFINE V == Seq(U)
  <2>1. R \in Seq(V) /\ Len(R) = A
    OBVIOUS
  <2> HIDE DEF V, A, q
  <2>2. R # <<>>
    <3> SUFFICES ASSUME R = <<>> PROVE FALSE
      OBVIOUS
    <3>1. Len(R) = 0
      OBVIOUS
    <3> QED BY <1>1, <2>1, <3>1
  <2>3. Tail(R) \in Seq(V) /\ Len(Tail(R)) = Len(R) - 1 /\ \A i \in 1..Len(Tail(R)) : Tail(R)[i] = R[i + 1]
    BY <2>1, <2>2, HeadTailProperties
  <2> QED BY <2>1, <2>3 DEF q, V
<1> HIDE DEF A, q, b
<1>4. \A i \in 0..(A - 1) : F[i] = Before(req, i + 1) - b /\ F[i] \in Nat
  <2>1. ASSUME NEW i \in 0..(A - 1) PROVE Before(req, i + 1) - b \in Nat
    <3>1. i + 1 \in 1..A
      BY <1>1
    <3>2. Before(req, 1) <= Before(req, i + 1)
      <4>1. 1 \in 0..dcols /\ i + 1 \in 0..dcols /\ 1 <= i + 1
        BY <1>1, <3>1
      <4> QED BY <1>1, <4>1, FrontsGrow
    <3>3. Before(req, i + 1) \in Nat
      BY <1>1, <3>1
    <3> QED BY <1>2, <3>2, <3>3 DEF b
  <2> QED BY <2>1
<1> HIDE DEF F
<1>5. l \in 0..(A - 1) /\ l + 1 = n /\ l \in Nat
  BY <1>1 DEF A
<1>6. F[0] = 0
  <2>1. 0 \in 0..(A - 1) /\ 0 + 1 = 1
    BY <1>1
  <2>2. F[0] = b - b
    BY <1>4, <2>1 DEF b
  <2> QED BY <1>2, <2>2
<1>7. ASSUME NEW i \in 1..l
      PROVE  F[i] = F[i - 1] + Len(q[i]) /\ \A k \in 1..Len(q[i]) : q[i][k] = {F[i - 1] + (k - 1)}
  <2> DEFINE z == ColSize(req, i)
             x == Before(req, i)
             y == Before(req, i + 1)
  <2>1. i \in 1..(A - 1) /\ i + 1 \in 2..n /\ (i + 1) - 1 = i /\ i + 1 \in 1..A /\ i \in 1..(dcols - 1)
    BY <1>1, <1>5
  <2>2. z \in Nat /\ x \in Nat /\ y = x + z
    <3> DEFINE m == i + 1
    <3>1. m \in 1..A /\ m - 1 = i
      BY <2>1
    <3> HIDE DEF m
    <3>2. ColSize(req, m - 1) \in Nat /\ Before(req, m - 1) \in Nat
          /\ Before(req, m) = Before(req, m - 1) + ColSize(req, m - 1)
      BY <1>1, <3>1
    <3> QED BY <3>1, <3>2 DEF m
  <2>3. q[i] = [k \in 1..z |-> {DataIndex(req, i, k - 1)}]
    <3>1. q[i] = R[i + 1]
      BY <1>3, <2>1
    <3>2. R[i + 1] = Right(req, i + 1)
      BY <2>1
    <3> DEFINE m == i + 1
    <3>3. m - 1 = i /\ q[i] = Right(req, m)
      BY <2>1, <3>1, <3>2
    <3> HIDE DEF m
    <3> QED BY <3>3 DEF Right
  <2>4. ASSUME NEW k \in 1..z PROVE DataIndex(req, i, k - 1) = (k - 1) + (x - b)
    <3>1. k - 1 \in Nat
      BY <2>2
    <3> QED BY <1>1, <2>1, <3>1, Index DEF b
  <2>5. F[i] = y - b /\ F[i - 1] = x - b
    <3>1. i \in 0..(A - 1) /\ i - 1 \in 0..(A - 1) /\ (i - 1) + 1 = i
      BY <2>1, <1>1
    <3> DEFINE m == i - 1
    <3>2. m \in 0..(A - 1) /\ m + 1 = i
      BY <3>1
    <3> HIDE DEF m
    <3>3. F[m] = Before(req, m + 1) - b
      BY <1>4, <3>2
    <3>4. F[m] = x - b
      BY <3>2, <3>3
    <3> QED BY <1>4, <3>1, <3>4 DEF m
  <2> HIDE DEF x, y, z
  <2>6. Len(q[i]) = z
    BY <2>2, <2>3
  <2>7. F[i] = F[i - 1] + Len(q[i])
    BY <1>2, <2>2, <2>5, <2>6
  <2>8. ASSUME NEW k \in 1..z PROVE q[i][k] = {F[i - 1] + (k - 1)}
    <3>1. q[i][k] = {(k - 1) + (x - b)}
      BY <2>3, <2>4
    <3>2. (k - 1) + (x - b) = (x - b) + (k - 1)
      BY <1>2, <2>2
    <3> QED BY <2>5, <3>1, <3>2
  <2> QED BY <2>6, <2>7, <2>8
<1>8. Counts(F, q, l)
  <2>1. \A i \in 0..l : F[i] \in Nat
    <3>1. \A i \in 0..l : i \in 0..(A - 1)
      BY <1>1, <1>5
    <3> QED BY <1>4, <3>1
  <2> HIDE DEF l
  <2> QED BY <1>6, <1>7, <2>1 DEF Counts
<1>9. F[l] = Before(req, n) - b
  <2> HIDE DEF l
  <2> QED BY <1>4, <1>5
<1> HIDE DEF l, U
<1>10. /\ FlattenSeq(q) \in Seq(U) /\ Starts(FlattenSeq(q), F[l])
       /\ l = Len(q) => Len(FlattenSeq(q)) = F[l]
  <2>1. Len(q) >= 1 /\ l \in 0..Len(q)
    BY <1>1, <1>3, <1>5
  <2> QED BY <1>3, <1>8, <2>1, FlatCounts
<1>11. n = A => l = Len(q)
  BY <1>1, <1>3, <1>5
<1> QED BY <1>9, <1>10, <1>11 DEF A, U, q, b

\* All sectors but the parity's are data.
LEMMA DataSize ==
  ASSUME pool \in Pools, NEW r \in Requests
  PROVE  Before(r, AccessedCols(r)) - Before(r, 1) = r.s
<1> DEFINE q == Quotient(r)
           m == Remainder(r)
           B == BigCols(r)
           z == ColSize(r, 0)
<1>1. /\ r.s \in Nat /\ q \in Nat /\ m \in Nat /\ B = (IF m > 0 THEN m + 1 ELSE 0)
      /\ NParity = 1 /\ dcols \in Nat /\ dcols >= 2
  BY Shape, Children
<1>2. 0 \in 0..(dcols - 1) /\ 0 + 1 = 1
  BY <1>1
<1>3. z = q + IF 0 < B THEN 1 ELSE 0
  BY <1>2, Sizes
<1>4. Total(r) = r.s + NParity * (q + IF m > 0 THEN 1 ELSE 0)
  BY DEF Total
<1>5. Before(r, 0 + 1) = Before(r, 0) + z /\ Before(r, 0) = 0 /\ Before(r, AccessedCols(r)) = Total(r)
  BY <1>2, Fronts
<1> HIDE DEF q, m, B, z
<1>6. Total(r) - z = r.s /\ z \in Nat
  BY <1>1, <1>3, <1>4
<1> QED BY <1>2, <1>5, <1>6

(***************************************************************************)
(* The answer.                                                             *)
(***************************************************************************)

\* No data is lost with the disk that is lost.
Mended(r) ==
  \/ pool.gone = None
  \/ pool.repair /\ pool.bad = <<pool.gone>>
  \/ /\ \A n \in 2..AccessedCols(r) : Dev(r, n) # pool.gone
     /\ pool.repair /\ pool.bad # <<>> => Dev(r, 1) # pool.gone

\* What a column that is not cut comes to.
LEMMA WholePiece ==
  ASSUME Ended, NEW n \in 1..AccessedCols(req), Uncut(req, n)
  PROVE  /\ Len(ColData[n]) = ColSize(req, n - 1)
         /\ pool.gone # Dev(req, n) =>
              /\ n > 1 => ColData[n] = Right(req, n)
              /\ n = 1 => ColData[n] = RightParity(req)
<1> DEFINE z == ColSize(req, n - 1)
           p == ColData[n]
<1>1. z \in Nat /\ n \in Nat
  BY AtEnd
<1>2. p = [k \in 1..z |-> IF pool.gone = Dev(req, n) THEN {-1} ELSE Content(req, n - 1, k - 1)]
  BY PieceIs, DataOfColumns
<1>3. n > 1 => \A k : Content(req, n - 1, k - 1) = {DataIndex(req, n - 1, k - 1)}
  <2>1. n > 1 => n - 1 > 0
    BY <1>1
  <2> QED BY <2>1 DEF Content
<1>4. n = 1 => n - 1 = 0
  BY <1>1
<1> HIDE DEF p
<1>5. Len(p) = z
  <2> HIDE DEF z
  <2> QED BY <1>1, <1>2
<1>6. ASSUME pool.gone # Dev(req, n), n > 1 PROVE p = Right(req, n)
  BY <1>2, <1>3, <1>6 DEF Right
<1>7. ASSUME pool.gone # Dev(req, n), n = 1 PROVE p = RightParity(req)
  BY <1>2, <1>4, <1>7 DEF RightParity
<1> QED BY <1>5, <1>6, <1>7 DEF p, z

LEMMA UncutTo ==
  ASSUME NEW r, NEW n \in Nat, NEW m \in Nat, m <= n, Uncut(r, n)
  PROVE  Uncut(r, m)
BY DEF Uncut

\* The pieces the data is put together from, and the parity where it is needed.
LEMMA GoodPieces ==
  ASSUME Ended, Uncut(req, AccessedCols(req)), Mended(req)
  PROVE  /\ \A n \in 2..AccessedCols(req) : n # BadColumn => ColData[n] = Right(req, n)
         /\ BadColumn # 0 => ColData[1] = RightParity(req)
<1> DEFINE A == AccessedCols(req)
           b == BadColumn
<1>1. A \in Nat /\ A >= 2 /\ pool \in Pools /\ req \in Requests
  BY AtEnd
<1>2. /\ b = 0 \/ (b \in 2..A /\ pool.repair /\ pool.bad = <<Dev(req, b)>>)
      /\ b = 0 => ~pool.repair \/ \A n \in 2..A : pool.bad # <<Dev(req, n)>>
      /\ \A m, n \in 1..A : Dev(req, m) = Dev(req, n) => m = n
  BY BadIs
<1>3. ASSUME NEW n \in 1..A PROVE Dev(req, n) # None /\ Uncut(req, n)
  <2>1. Dev(req, n) \in 0..(dcols - 1) /\ dcols \in Nat
    BY <1>1, Places, Children
  <2>2. n \in Nat /\ n <= A
    BY <1>1
  <2> QED BY <1>1, <2>1, <2>2, UncutTo, RaidzAssumption
<1> HIDE DEF A, b
<1>4. ASSUME NEW n \in 2..A, n # b PROVE pool.gone # Dev(req, n)
  <2>1. n \in 1..A
    BY <1>1
  <2>2. CASE pool.gone = None
    BY <1>3, <2>1, <2>2
  <2>3. CASE pool.repair /\ pool.bad = <<pool.gone>>
    <3>1. CASE b = 0
      BY <1>2, <2>3, <3>1
    <3>2. CASE b # 0
      <4>1. b \in 1..A /\ <<Dev(req, b)>> = <<pool.gone>>
        BY <1>1, <1>2, <2>3, <3>2
      <4>2. Dev(req, b) = pool.gone
        BY <4>1
      <4> QED BY <1>2, <1>4, <2>1, <4>1, <4>2
    <3> QED BY <3>1, <3>2
  <2>4. CASE \A m \in 2..A : Dev(req, m) # pool.gone
    BY <2>4
  <2> QED BY <2>2, <2>3, <2>4 DEF Mended, A
<1>5. ASSUME b # 0 PROVE pool.gone # Dev(req, 1)
  <2>1. b \in 2..A /\ b \in 1..A /\ 1 \in 1..A /\ b # 1 /\ pool.repair /\ pool.bad = <<Dev(req, b)>>
    BY <1>1, <1>2, <1>5
  <2>2. CASE pool.gone = None
    BY <1>3, <2>1, <2>2
  <2>3. CASE pool.repair /\ pool.bad = <<pool.gone>>
    <3>1. <<Dev(req, b)>> = <<pool.gone>>
      BY <2>1, <2>3
    <3>2. Dev(req, b) = pool.gone
      BY <3>1
    <3> QED BY <1>2, <2>1, <3>2
  <2>4. CASE pool.repair /\ pool.bad # <<>> => Dev(req, 1) # pool.gone
    <3>1. pool.bad # <<>>
      BY <2>1
    <3> QED BY <2>1, <2>4, <3>1
  <2> QED BY <2>2, <2>3, <2>4 DEF Mended
<1>6. ASSUME NEW n \in 2..A, n # b PROVE ColData[n] = Right(req, n)
  <2>1. n \in 1..A /\ n > 1
    BY <1>1
  <2> QED BY <1>3, <1>4, <1>6, <2>1, WholePiece DEF A
<1>7. ASSUME b # 0 PROVE ColData[1] = RightParity(req)
  <2>1. 1 \in 1..A
    BY <1>1
  <2> QED BY <1>3, <1>5, <1>7, <2>1, WholePiece DEF A
<1> QED BY <1>6, <1>7 DEF A, b

\* The answer val to the request r.
RightAnswer(r, val) ==
  /\ val = Raised => ~Uncut(r, AccessedCols(r))
  /\ val # Raised =>
       /\ val \in Seq(SUBSET Int)
       /\ pool.gone = None /\ ~pool.repair =>
            \A n \in 1..AccessedCols(r) :
              Uncut(r, n) => Starts(val, Before(r, n) - Before(r, 1))
       /\ Uncut(r, AccessedCols(r)) /\ Mended(r) =>
            Starts(val, r.s) /\ Len(val) = r.s

Answers ==
  Answered =>
    \/ result.of.b > OffsetLimit /\ result.val = None
    \/ result.of \in Requests /\ RightAnswer(result.of, result.val)

\* A parity that is too short is that of a block that is cut.
LEMMA RaisesOnCut ==
  ASSUME Ended, Uncut(req, AccessedCols(req))
  PROVE  \A n \in DOMAIN cols : Fits(ColData[1], ColData[n])
<1> DEFINE A == AccessedCols(req)
<1>1. A \in Nat /\ A >= 2 /\ DOMAIN cols = 1..A
      /\ \A n \in 1..A : ColSize(req, n - 1) <= ColSize(req, 0)
  BY AtEnd
<1>2. ASSUME NEW n \in 1..A PROVE Len(ColData[n]) = ColSize(req, n - 1)
  <2>1. n \in Nat /\ n <= A
    BY <1>1
  <2>2. Uncut(req, n)
    BY <1>1, <2>1, UncutTo
  <2> QED BY <2>2, WholePiece
<1>3. Len(ColData[1]) = ColSize(req, 0)
  <2>1. 1 \in 1..A /\ 1 - 1 = 0
    BY <1>1
  <2>2. Len(ColData[1]) = ColSize(req, 1 - 1)
    BY <1>2, <2>1
  <2> QED BY <2>1, <2>2
<1> HIDE DEF A
<1> QED BY <1>1, <1>2, <1>3 DEF Fits

LEMMA EndsRight ==
  ASSUME Ended
  PROVE  RightAnswer(req, FlattenSeq(Tail(Repaired(ColData, BadColumn))))
<1> DEFINE A == AccessedCols(req)
           b == BadColumn
           cd == ColData
           R == Repaired(cd, b)
           val == FlattenSeq(Tail(R))
           W == Seq(Seq(SUBSET Int))
<1>1. A \in Nat /\ A >= 2 /\ pool \in Pools /\ req \in Requests
  BY AtEnd
<1>2. cd \in W /\ Len(cd) = A
  BY DataOfColumns
<1>3. b \in 0..A /\ (b # 0 => b \in 2..A /\ pool.repair)
  <2>1. b = 0 \/ (b \in 2..A /\ pool.repair)
    BY BadIs
  <2> HIDE DEF b, A
  <2> QED BY <1>1, <2>1
<1> HIDE DEF cd, b
<1>4. R \in W /\ Len(R) = A /\ \A n \in 1..A : n # b => R[n] = cd[n]
  BY <1>2, <1>3, RepairedType
<1> HIDE DEF R
<1>5. ASSUME NEW n \in 1..A, \A m \in 2..n : R[m] = Right(req, m)
      PROVE  /\ val \in Seq(SUBSET Int) /\ Starts(val, Before(req, n) - Before(req, 1))
             /\ n = A => Len(val) = Before(req, n) - Before(req, 1)
  BY <1>4, <1>5, PutTogether
<1>6. val \in Seq(SUBSET Int)
  <2> DEFINE n == 1
  <2>1. n \in 1..A /\ \A m \in 2..n : R[m] = Right(req, m)
    BY <1>1
  <2> HIDE DEF n
  <2> QED BY <1>5, <2>1
<1>7. val # Raised
  BY <1>6, RaidzAssumption
<1>8. ASSUME pool.gone = None, ~pool.repair, NEW n \in 1..A, Uncut(req, n)
      PROVE  Starts(val, Before(req, n) - Before(req, 1))
  <2>1. b = 0
    BY <1>3, <1>8
  <2>2. ASSUME NEW m \in 2..n PROVE R[m] = Right(req, m)
    <3>1. m \in 1..A /\ m > 1 /\ m # 0 /\ m \in Nat /\ m <= n /\ n \in Nat
      BY <1>1
    <3>2. Uncut(req, m)
      BY <1>8, <3>1, UncutTo
    <3>3. pool.gone # Dev(req, m)
      <4>1. Dev(req, m) \in 0..(dcols - 1) /\ dcols \in Nat
        BY <1>1, <3>1, Places, Children
      <4> QED BY <1>8, <4>1, RaidzAssumption
    <3>4. cd[m] = Right(req, m)
      BY <3>1, <3>2, <3>3, WholePiece DEF cd
    <3> QED BY <1>4, <2>1, <3>1, <3>4
  <2> HIDE DEF val
  <2> QED BY <1>5, <2>2
<1>9. ASSUME Uncut(req, A), Mended(req) PROVE Starts(val, req.s) /\ Len(val) = req.s
  <2>1. \A m \in 2..A : m # b => cd[m] = Right(req, m)
    BY <1>9, GoodPieces DEF cd, b
  <2>2. b # 0 => cd[1] = RightParity(req)
    BY <1>9, GoodPieces DEF cd, b
  <2>3. b # 0 => R[b] = Right(req, b)
    <3> SUFFICES ASSUME b # 0 PROVE R[b] = Right(req, b)
      OBVIOUS
    <3>1. b \in 2..A
      BY <1>3
    <3> QED BY <1>2, <2>1, <2>2, <3>1, Repairs DEF R
  <2>4. ASSUME NEW m \in 2..A PROVE R[m] = Right(req, m)
    <3>1. m \in 1..A /\ m # 0
      BY <1>1
    <3>2. CASE m = b
      BY <2>3, <3>1, <3>2
    <3>3. CASE m # b
      BY <1>4, <2>1, <3>1, <3>3
    <3> QED BY <3>2, <3>3
  <2>5. A \in 1..A
    BY <1>1
  <2>6. Before(req, A) - Before(req, 1) = req.s
    BY <1>1, DataSize
  <2> HIDE DEF val, A
  <2> QED BY <1>5, <2>4, <2>5, <2>6
<1> HIDE DEF val
<1>10. RightAnswer(req, val)
  BY <1>6, <1>7, <1>8, <1>9 DEF RightAnswer
<1> QED BY <1>10 DEF val, R, cd, b

\* What an answer is measured by does not change.
LEMMA SameAnswer ==
  ASSUME pool' = pool, table' = table, NEW r, NEW val
  PROVE  RightAnswer(r, val)' <=> RightAnswer(r, val')
<1>1. AccessedCols(r)' = AccessedCols(r)
  BY SameShape
<1>2. \A n : Before(r, n)' = Before(r, n) /\ Uncut(r, n)' = Uncut(r, n)
  BY SameFiles
<1>3. Mended(r)' <=> Mended(r)
  <2>1. \A n : Dev(r, n)' = Dev(r, n)
    <3>1. dcols' = dcols
      BY SameShape
    <3>2. \A n : PlaceOf(r, n)' = PlaceOf(r, n)
      BY DEF PlaceOf, Swapped
    <3> QED BY <3>1, <3>2 DEF Dev
  <2> QED BY <1>1, <2>1 DEF Mended
<1> QED BY <1>1, <1>2, <1>3 DEF RightAnswer, Starts

LEMMA NextAnswers ==
  ASSUME Reading, Opened, Fed, Answers, [Next]_vars
  PROVE  Answers'
<1>1. ASSUME NEW r, NEW val, pool' = pool, table' = table, RightAnswer(r, val)
      PROVE  RightAnswer(r, val)'
  BY <1>1, SameAnswer
<1>2. ASSUME pool' = pool, table' = table, result' = result PROVE Answers'
  BY <1>1, <1>2 DEF Answers, Answered
<1>3. ASSUME NEW r \in Requests, NEW val, pool' = pool, table' = table,
             result' = [of |-> r, val |-> val], RightAnswer(r, val)
      PROVE  Answers'
  <2>1. RightAnswer(r, val)'
    BY <1>1, <1>3
  <2>2. result'.of = r /\ result'.val = val
    BY <1>3
  <2> QED BY <2>1, <2>2 DEF Answers
<1>4. CASE UNCHANGED vars
  BY <1>2, <1>4 DEF vars, files
<1>5. ASSUME NEW r \in Requests, Issue(r) PROVE Answers'
  BY <1>5 DEF Issue, Answers, Answered
<1>6. ASSUME NEW r \in Requests, TooFar(r) PROVE Answers'
  <2>1. result' = [of |-> r, val |-> None] /\ r.b > OffsetLimit
    BY <1>6 DEF TooFar
  <2> QED BY <2>1 DEF Answers
<1>7. CASE ReadPiece
  BY <1>2, <1>7 DEF ReadPiece, ReadFile
<1>8. CASE ReadPieceRaises
  <2> DEFINE n == pieces + 1
             A == AccessedCols(req)
  <2>1. req # None /\ pool' = pool /\ table' = table /\ result' = [of |-> req, val |-> Raised]
        /\ req \in Requests /\ table \in Tables
    BY <1>8 DEF ReadPieceRaises, ReadFileRaises, Answer, Reading, files
  <2>2. n \in 1..A /\ cols[n] = Col(req, n) /\ A \in Nat
    <3>1. n \in 1..A /\ cols[n] = Col(req, n)
      BY <1>8, NextColumn DEF ReadPieceRaises
    <3>2. A \in Nat
      BY <2>1, Accessed, Children DEF Reading
    <3> QED BY <3>1, <3>2
  <2>3. Translated(Child(req, n), First(req, n)) \intersect DOMAIN Length = {}
    <3>1. pool.devs[cols[n].dev + 1] = Child(req, n) /\ cols[n].off + Reserve = First(req, n)
      BY <2>2 DEF Child, First, Col
    <3>2. ReadFileRaises(Child(req, n), First(req, n))
      BY <1>8, <3>1 DEF ReadPieceRaises
    <3> QED BY <3>2 DEF ReadFileRaises
  <2> HIDE DEF n, A
  <2>4. ~WholeAt(req, n)
    BY <2>1, <2>3, WholeOpens
  <2>5. ~Uncut(req, A)
    BY <2>2, <2>4 DEF Uncut
  <2>6. RightAnswer(req, Raised)
    BY <2>5 DEF RightAnswer, A
  <2> QED BY <1>3, <2>1, <2>6
<1>9. CASE ReadEnds
  <2>1. Ended
    BY <1>9 DEF ReadEnds, Ended
  <2>2. pool' = pool /\ table' = table /\ req \in Requests
    BY <1>9 DEF ReadEnds, Answer, Reading, files
  <2>3. CASE \A n \in DOMAIN cols : Fits(ColData[1], ColData[n])
    <3> DEFINE val == FlattenSeq(Tail(Repaired(ColData, BadColumn)))
    <3>1. result' = [of |-> req, val |-> val]
      BY <1>9, <2>3 DEF ReadEnds, Answer
    <3>2. RightAnswer(req, val)
      BY <2>1, EndsRight
    <3> HIDE DEF val
    <3> QED BY <1>3, <2>2, <3>1, <3>2
  <2>4. CASE ~(\A n \in DOMAIN cols : Fits(ColData[1], ColData[n]))
    <3>1. result' = [of |-> req, val |-> Raised]
      BY <1>9, <2>4 DEF ReadEnds, Answer
    <3>2. RightAnswer(req, Raised)
      BY <2>1, <2>4, RaisesOnCut DEF RightAnswer
    <3> QED BY <1>3, <2>2, <3>1, <3>2
  <2> QED BY <2>3, <2>4
<1> QED BY <1>4, <1>5, <1>6, <1>7, <1>8, <1>9 DEF Next

(***************************************************************************)
(* What a read gives.                                                      *)
(***************************************************************************)

LEMMA StartsRight ==
  ASSUME NEW n \in Nat, result.val \in Seq(SUBSET Int), Starts(result.val, n)
  PROVE  Correct(n)
<1> DEFINE U == SUBSET Int
           v == result.val
           s == [k \in 1..n |-> {k - 1}]
<1>1. s \in Seq(U) /\ Len(s) = n
  <2>1. s \in [1..n -> U]
    OBVIOUS
  <2> HIDE DEF s, U
  <2> QED BY <2>1, SeqDef, LenProperties
<1>2. v \in Seq(U) /\ n <= Len(v) /\ \A k \in 1..n : v[k] = {k - 1}
  BY DEF Starts
<1>3. \A k \in 1..n : s[k] = {k - 1}
  OBVIOUS
<1> HIDE DEF U, v, s
<1>4. SubSeq(v, 1, n) = [k \in 1..n |-> v[k]] /\ SubSeq(s, 1, n) = [k \in 1..n |-> s[k]]
  <2>1. n <= Len(s)
    BY <1>1
  <2> QED BY <1>1, <1>2, <2>1, Cut
<1>5. SubSeq(s, 1, n) = SubSeq(v, 1, n)
  BY <1>2, <1>3, <1>4
<1>6. IsPrefix(s, v)
  BY <1>1, <1>2, <1>5 DEF IsPrefix
<1> QED BY <1>6 DEF Correct, s, v

\* The columns of the request that was answered.
LEMMA AnsweredColumns ==
  ASSUME pool \in Pools, result.of \in Requests
  PROVE  LET r == result.of IN
         /\ DOMAIN Columns = 1..AccessedCols(r) /\ Len(Columns) = AccessedCols(r)
         /\ AccessedCols(r) \in Nat
         /\ \A n \in 1..AccessedCols(r) :
              /\ Columns[n].dev = Dev(r, n)
              /\ Whole(Columns[n]) <=> WholeAt(r, n)
              /\ MapThenSumSet(LAMBDA m : Columns[m].size, 2..n) = Before(r, n) - Before(r, 1)
              /\ Before(r, n) - Before(r, 1) \in Nat
<1> DEFINE r == result.of
           A == AccessedCols(r)
<1>1. r \in Requests /\ Columns = MapAlloc(r)
  BY DEF Columns
<1> HIDE DEF r
<1>2. A \in Nat /\ A >= 2 /\ A <= dcols /\ dcols \in Nat
  BY <1>1, Accessed, Children
<1>3. DOMAIN Columns = 1..A /\ Len(Columns) = A /\ \A n \in 1..A : Columns[n] = Col(r, n)
  BY <1>1, TheMap
<1>4. ASSUME NEW n \in 1..A
      PROVE  Columns[n].dev = Dev(r, n) /\ (Whole(Columns[n]) <=> WholeAt(r, n))
  BY <1>3 DEF Col, WholeAt
<1>5. ASSUME NEW n \in 1..A
      PROVE  MapThenSumSet(LAMBDA m : Columns[m].size, 2..n) = Before(r, n) - Before(r, 1)
  <2>1. SizeSum(MapAlloc(r), 2..n) = Before(r, n) - Before(r, 1)
    <3> DEFINE lo == 2
    <3>1. lo \in 1..2 /\ lo - 1 = 1 /\ lo = 2
      OBVIOUS
    <3> HIDE DEF lo
    <3>2. SizeSum(MapAlloc(r), lo..n) = Before(r, n) - Before(r, lo - 1)
      BY <1>1, <3>1, SumOfSizes
    <3> QED BY <3>1, <3>2
  <2>2. SizeSum(Columns, 2..n) = MapThenSumSet(LAMBDA m : Columns[m].size, 2..n)
    BY DEF SizeSum
  <2> QED BY <1>1, <2>1, <2>2
<1>6. ASSUME NEW n \in 1..A PROVE Before(r, n) - Before(r, 1) \in Nat
  <2>1. n \in 0..dcols /\ 1 \in 0..dcols /\ 1 <= n
    BY <1>2
  <2>2. Before(r, n) \in Nat /\ Before(r, 1) \in Nat /\ Before(r, 1) <= Before(r, n)
    BY <1>1, <2>1, Fronts, FrontsGrow
  <2> QED BY <2>2
<1> QED BY <1>2, <1>3, <1>4, <1>5, <1>6 DEF r

LEMMA AnswersAreRight ==
  ASSUME Reading, Answers
  PROVE  RightUpToTheCut /\ ReadRestoresData
<1> DEFINE r == result.of
           A == AccessedCols(r)
           v == result.val
<1>1. pool \in Pools
  BY DEF Reading
<1>2. ASSUME Answered, r \in Requests
      PROVE  /\ DOMAIN Columns = 1..A /\ Len(Columns) = A /\ A \in Nat
             /\ \A n \in 1..A :
                  /\ Columns[n].dev = Dev(r, n)
                  /\ Whole(Columns[n]) <=> WholeAt(r, n)
                  /\ MapThenSumSet(LAMBDA m : Columns[m].size, 2..n) = Before(r, n) - Before(r, 1)
                  /\ Before(r, n) - Before(r, 1) \in Nat
  BY <1>1, <1>2, AnsweredColumns
<1>3. \A n : Uncut(r, n) <=> \A m \in 1..n : WholeAt(r, m)
  BY DEF Uncut
<1>4. ASSUME Answered, v # None
      PROVE  IF v = Raised THEN \E n \in DOMAIN Columns : ~ Whole(Columns[n])
             ELSE pool.gone = None /\ ~ pool.repair =>
                    \A n \in DOMAIN Columns :
                      (\A m \in 1..n : Whole(Columns[m])) =>
                        Correct(MapThenSumSet(LAMBDA m : Columns[m].size, 2..n))
  <2>1. r \in Requests /\ RightAnswer(r, v)
    BY <1>4 DEF Answers
  <2> HIDE DEF r
  <2>2. CASE v = Raised
    <3>1. ~Uncut(r, A)
      BY <2>1, <2>2 DEF RightAnswer
    <3>2. PICK n \in 1..A : ~WholeAt(r, n)
      BY <1>3, <3>1
    <3> QED BY <1>2, <1>4, <2>1, <2>2, <3>2
  <2>3. CASE v # Raised
    <3>1. ASSUME pool.gone = None, ~pool.repair, NEW n \in DOMAIN Columns,
                 \A m \in 1..n : Whole(Columns[m])
          PROVE  Correct(MapThenSumSet(LAMBDA m : Columns[m].size, 2..n))
      <4> DEFINE l == Before(r, n) - Before(r, 1)
                 S == MapThenSumSet(LAMBDA m : Columns[m].size, 2..n)
      <4>1. n \in 1..A /\ S = l /\ l \in Nat
        BY <1>2, <1>4, <2>1, <3>1
      <4>2. A \in Nat /\ \A m \in 1..A : Whole(Columns[m]) <=> WholeAt(r, m)
        BY <1>2, <1>4, <2>1
      <4>3. Uncut(r, n)
        <5>1. ASSUME NEW m \in 1..n PROVE WholeAt(r, m)
          <6>1. m \in 1..A
            BY <4>1, <4>2
          <6> QED BY <3>1, <4>2, <6>1
        <5> QED BY <1>3, <5>1
      <4>4. v \in Seq(SUBSET Int) /\ Starts(v, l)
        BY <2>1, <2>3, <3>1, <4>1, <4>3 DEF RightAnswer
      <4> HIDE DEF l, S
      <4>5. Correct(l)
        BY <4>1, <4>4, StartsRight
      <4>6. Correct(S)
        BY <4>1, <4>5
      <4> QED BY <4>6 DEF S
    <3> QED BY <2>3, <3>1
  <2> QED BY <2>2, <2>3
<1>5. ASSUME Answered
      PROVE  \/ r.b > OffsetLimit
             \/ \E n \in DOMAIN Columns : ~ Whole(Columns[n])
             \/ /\ pool.gone # None
                /\ ~ (pool.repair /\ pool.bad = <<pool.gone>>)
                /\ \/ \E n \in 2..Len(Columns) : Columns[n].dev = pool.gone
                   \/ pool.repair /\ pool.bad # <<>> /\ Columns[1].dev = pool.gone
             \/ v # Raised /\ Len(v) = r.s /\ Correct(r.s)
  <2> HIDE DEF r
  <2>1. SUFFICES ASSUME r \in Requests, RightAnswer(r, v),
                        \A n \in DOMAIN Columns : Whole(Columns[n]),
                        ~ (/\ pool.gone # None
                           /\ ~ (pool.repair /\ pool.bad = <<pool.gone>>)
                           /\ \/ \E n \in 2..Len(Columns) : Columns[n].dev = pool.gone
                              \/ pool.repair /\ pool.bad # <<>> /\ Columns[1].dev = pool.gone)
                 PROVE  v # Raised /\ Len(v) = r.s /\ Correct(r.s)
    BY <1>5 DEF Answers, r
  <2>2. DOMAIN Columns = 1..A /\ Len(Columns) = A /\ A \in Nat
        /\ \A n \in 1..A : Columns[n].dev = Dev(r, n) /\ (Whole(Columns[n]) <=> WholeAt(r, n))
    BY <1>2, <1>5, <2>1
  <2>3. Uncut(r, A)
    BY <1>3, <2>1, <2>2
  <2>4. A >= 2
    BY <1>1, <2>1, Accessed, Children
  <2>5. Mended(r)
    <3>1. CASE pool.gone = None \/ (pool.repair /\ pool.bad = <<pool.gone>>)
      BY <3>1 DEF Mended
    <3>2. CASE ~(pool.gone = None \/ (pool.repair /\ pool.bad = <<pool.gone>>))
      <4>1. \A n \in 2..A : n \in 1..A
        BY <2>2
      <4>2. 1 \in 1..A
        BY <2>2, <2>4
      <4>3. \A n \in 2..A : Dev(r, n) # pool.gone
        BY <2>1, <2>2, <3>2, <4>1
      <4>4. pool.repair /\ pool.bad # <<>> => Dev(r, 1) # pool.gone
        BY <2>1, <2>2, <3>2, <4>2
      <4> QED BY <4>3, <4>4 DEF Mended
    <3> QED BY <3>1, <3>2
  <2>6. v # Raised /\ v \in Seq(SUBSET Int) /\ Starts(v, r.s) /\ Len(v) = r.s
    BY <2>1, <2>3, <2>5 DEF RightAnswer
  <2>7. r.s \in Nat
    BY <1>1, <2>1, Shape
  <2> QED BY <2>6, <2>7, StartsRight
<1> QED BY <1>4, <1>5 DEF RightUpToTheCut, ReadRestoresData

LEMMA ReadsInvariant == Spec => [](Reading /\ Opened /\ Fed /\ Answers)
<1>1. Init => Reading /\ Opened /\ Fed /\ Answers
  BY InitReading DEF Init, Fed, Answers, Answered
<1>2. Reading /\ Opened /\ Fed /\ Answers /\ [Next]_vars => (Reading /\ Opened /\ Fed /\ Answers)'
  BY NextReading, NextOpened, NextFed, NextAnswers
<1> QED BY <1>1, <1>2, PTL DEF Spec

\* A block none of whose columns is cut comes back as it was written when no
\* disk is lost, when the lost disk is the one to repair, and when it has only
\* the parity of the block.
THEOREM BlocksAreRestored == Spec => []ReadRestoresData
<1>1. Reading /\ Answers => ReadRestoresData
  BY AnswersAreRight
<1> QED BY <1>1, ReadsInvariant, PTL

\* A column that is cut spoils no data in front of it, and only a block with
\* such a column raises.
THEOREM ReadsAreRightToTheCut == Spec => []RightUpToTheCut
<1>1. Reading /\ Answers => RightUpToTheCut
  BY AnswersAreRight
<1> QED BY <1>1, ReadsInvariant, PTL
=============================================================================
