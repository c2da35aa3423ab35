-------------------------- MODULE ObjectSetProofs ---------------------------
(***************************************************************************)
(* Proofs about ObjectSet: for every number of levels, pointers to a block *)
(* and dnodes to a block, every pool (any kind of pointer to any block)    *)
(* and every sequence of failures of the copies.                           *)
(***************************************************************************)
EXTENDS ObjectSet, DataInduction, SequenceTheorems

TypeOK ==
  /\ levels \in 1..MaxLevels
  /\ medium \in [Blocks -> [Dva -> Media]]
  /\ os \in {"new", "open", "broken", "raised"}
  /\ root \in {None, Junk, <<>>}
  /\ trie \in [Nodes -> Paths \union {Junk, None}]
  /\ cache \in [BlockIds -> Paths \union {Junk, None, Unread}]
  /\ \/ walk = Idle
     \/ walk \in [pc : {"walk"}, id : Ids, at : Paths \union {Junk}, path : Paths]

\* The tree is there exactly while the object set is open, and nothing was
\* read before.
OpenInv ==
  /\ os = "open" <=> root # None
  /\ os # "open" => trie = EmptyTrie /\ cache = EmptyCache /\ walk = Idle

\* Where a lookup is: at the node of its path, or in junk; and the trie has
\* the way to there.
WalkInv ==
  walk.pc = "walk" =>
    /\ cache[BlockOf(walk.id)] = Unread
    /\ Len(walk.path) = 0 \/ Len(walk.path) <= Depth - 1
    /\ walk.at \in {walk.path, Junk}
    /\ walk.path = <<>> => walk.at = root
    /\ \A n \in 1..Len(walk.path) : trie[Prefix(walk.path, n)] # None
    /\ walk.at = walk.path =>
         /\ root = <<>>
         /\ \A n \in 1..Len(walk.path) :
              trie[Prefix(walk.path, n)] = Prefix(walk.path, n)

\* What is remembered of a block, and answered, is the block of the indices.
CacheInv ==
  /\ \A b \in BlockIds : cache[b] \in Paths => cache[b] = LevelIndices(b)
  /\ answer.val \in Paths => /\ answer.id \in Ids
                             /\ answer.val = LevelIndices(BlockOf(answer.id))
                             /\ answer.slot = answer.id % PerBlock

Inv == TypeOK /\ OpenInv /\ WalkInv /\ TrieIsTheTree /\ CacheInv

-----------------------------------------------------------------------------
\* Paths and indices

USE ConstantsAssumption

LEMMA PathType ==
  /\ \A p \in Paths : /\ p \in Seq(Index) /\ Len(p) \in Nat /\ Len(p) <= MaxLevels - 1
                      /\ p \in [1..Len(p) -> Index] /\ p \in Blocks
                      /\ p \notin {Junk, None, Unread, Raised}
  /\ <<>> \in Paths
  /\ Nodes \subseteq Paths
  /\ \A p \in Nodes : Len(p) \in 1..(MaxLevels - 2)
  /\ \A p \in Paths : Len(p) \in 1..(MaxLevels - 2) => p \in Nodes
  /\ \A n \in 0..(MaxLevels - 1) : [1..n -> Index] \subseteq Paths
<1>1. ASSUME NEW n \in Nat, NEW p \in [1..n -> Index]
      PROVE  p \in Seq(Index) /\ Len(p) = n
  BY SeqDef, LenProperties
<1>2. \A n \in 0..(MaxLevels - 1) : [1..n -> Index] \subseteq Paths
  BY DEF Paths
<1>3. \A p \in Paths : /\ p \in Seq(Index) /\ Len(p) \in Nat /\ Len(p) <= MaxLevels - 1
                       /\ p \in [1..Len(p) -> Index]
  BY <1>1 DEF Paths
<1>4. \A p \in Nodes : /\ Len(p) \in 1..(MaxLevels - 2) /\ p \in Paths
  BY <1>1, <1>2 DEF Nodes
<1>5. \A p \in Paths : Len(p) \in 1..(MaxLevels - 2) => p \in Nodes
  BY <1>3 DEF Nodes
<1>6. <<>> \in Paths
  <2>1. <<>> \in [1..0 -> Index]
    OBVIOUS
  <2>2. 0 \in 0..(MaxLevels - 1)
    OBVIOUS
  <2>3. [1..0 -> Index] \subseteq Paths
    BY <1>2, <2>2
  <2> QED BY <2>1, <2>3
<1> QED BY <1>2, <1>3, <1>4, <1>5, <1>6 DEF Blocks

LEMMA PrefixFacts ==
  ASSUME NEW p \in Paths
  PROVE  /\ Prefix(p, Len(p)) = p
         /\ \A n \in 0..Len(p) : Prefix(p, n) \in Paths /\ Len(Prefix(p, n)) = n
         /\ \A n \in 0..Len(p) : \A m \in 0..n : Prefix(Prefix(p, n), m) = Prefix(p, m)
<1>1. /\ p \in [1..Len(p) -> Index] /\ Len(p) \in Nat /\ Len(p) <= MaxLevels - 1
  BY PathType
<1>2. Prefix(p, Len(p)) = p
  BY <1>1 DEF Prefix
<1>3. ASSUME NEW n \in 0..Len(p)
      PROVE  Prefix(p, n) \in [1..n -> Index]
  BY <1>1 DEF Prefix
<1>4. ASSUME NEW n \in 0..Len(p)
      PROVE  Prefix(p, n) \in Paths /\ Len(Prefix(p, n)) = n
  <2>1. n \in 0..(MaxLevels - 1) /\ n \in Nat
    BY <1>1
  <2>2. Prefix(p, n) \in Paths
    BY <1>3, <2>1, PathType
  <2> HIDE DEF Prefix
  <2>3. Len(Prefix(p, n)) = n
    BY <1>3, <2>1, LenProperties, SeqDef
  <2> QED BY <2>2, <2>3
<1>5. \A n \in 0..Len(p) : \A m \in 0..n : Prefix(Prefix(p, n), m) = Prefix(p, m)
  BY <1>1 DEF Prefix
<1> QED BY <1>2, <1>4, <1>5

LEMMA PrefixOfAppend ==
  ASSUME NEW p \in Paths, NEW x \in Index, Len(p) < MaxLevels - 1
  PROVE  /\ Append(p, x) \in Paths
         /\ Len(Append(p, x)) = Len(p) + 1
         /\ \A n \in 0..Len(p) : Prefix(Append(p, x), n) = Prefix(p, n)
         /\ Append(p, x) # <<>>
<1>1. p \in Seq(Index) /\ Len(p) \in Nat
  BY PathType
<1>2. /\ Append(p, x) \in Seq(Index) /\ Len(Append(p, x)) = Len(p) + 1
      /\ \A i \in 1..Len(p) : Append(p, x)[i] = p[i]
  BY <1>1, AppendProperties
<1>3. Append(p, x) \in [1..(Len(p) + 1) -> Index]
  BY <1>2, LenProperties
<1>4. Append(p, x) \in Paths
  <2>1. Len(p) + 1 \in 0..(MaxLevels - 1)
    BY <1>1
  <2>2. [1..(Len(p) + 1) -> Index] \subseteq Paths
    BY <2>1, PathType
  <2> QED BY <1>3, <2>2
<1>5. \A n \in 0..Len(p) : Prefix(Append(p, x), n) = Prefix(p, n)
  BY <1>1, <1>2 DEF Prefix
<1>6. Len(<<>>) = 0
  OBVIOUS
<1> QED BY <1>1, <1>2, <1>4, <1>5, <1>6

LEMMA DivMod ==
  ASSUME NEW a \in Nat, NEW b \in Nat \ {0}
  PROVE  /\ a \div b \in Nat /\ a % b \in 0..(b - 1)
         /\ a = ((a \div b) * b) + (a % b)
  OBVIOUS

\* The rounds of _get_level_indices: the function Quotients is what its
\* recursive definition says.
LEMMA QuotientsDef ==
  ASSUME levels \in 1..MaxLevels, NEW b \in Nat
  PROVE  /\ Depth \in Nat
         /\ Quotients(b) \in [0..Depth -> Nat]
         /\ Quotients(b)[0] = b
         /\ \A i \in 1..Depth : Quotients(b)[i] = Quotients(b)[i - 1] \div Bpl
<1>1. Depth \in Nat
  BY DEF Depth
<1> DEFINE Step(q) == [i \in 0..Depth |-> IF i = 0 THEN b ELSE q[i - 1] \div Bpl]
           G == [n \in Nat |-> [x \in Nat |-> x \div Bpl]]
<1>2. G \in [Nat -> [Nat -> Nat]]
  BY DivMod
<1>3. PICK f \in [0..Depth -> Nat] : Solves(f, Depth, b, G)
  <2> DEFINE N == Depth
  <2>1. N \in Nat /\ G \in [Nat -> [Nat -> Nat]]
    BY <1>1, <1>2
  <2> HIDE DEF G, N
  <2>2. \E f \in [0..N -> Nat] : Solves(f, N, b, G)
    BY <2>1, RecursionUpTo
  <2> QED BY <2>2 DEF N
<1>4. ASSUME NEW n \in 1..Depth PROVE f[n] = f[n - 1] \div Bpl
  <2>1. n \in Nat /\ f[n - 1] \in Nat /\ f[n] = G[n][f[n - 1]]
    <3> HIDE DEF G
    <3> QED BY <1>1, <1>3 DEF Solves
  <2> QED BY <2>1
<1>5. f = Step(f)
  BY <1>1, <1>3, <1>4 DEF Solves
<1>6. Quotients(b) = CHOOSE q : q = Step(q)
  BY DEF Quotients
<1>7. Quotients(b) = Step(Quotients(b))
  <2> HIDE DEF Step
  <2> QED BY <1>5, <1>6
<1> DEFINE Q == Quotients(b)
<1> HIDE DEF Q
<1>8. Q = Step(Q)
  BY <1>7 DEF Q
<1>9. Q[0] = b /\ \A i \in 1..Depth : Q[i] = Q[i - 1] \div Bpl
  BY <1>1, <1>8
<1>10. \A i \in 0..Depth : Q[i] \in Nat
  <2> DEFINE S == {i \in Nat : i <= Depth => Q[i] \in Nat}
  <2>1. 0 \in S
    BY <1>9
  <2>2. ASSUME NEW i \in Nat, i \in S PROVE i + 1 \in S
    <3>1. SUFFICES ASSUME i + 1 <= Depth PROVE Q[i + 1] \in Nat
      OBVIOUS
    <3>2. Q[i] \in Nat /\ Q[i + 1] = Q[i] \div Bpl
      BY <1>1, <1>9, <2>2, <3>1
    <3> QED BY <3>2, DivMod
  <2>3. Nat \subseteq S
    <3> HIDE DEF S
    <3> QED BY <2>1, <2>2, NatSetInduction
  <2>4. ASSUME NEW i \in 0..Depth PROVE Q[i] \in Nat
    <3>1. i \in Nat /\ i <= Depth
      BY <1>1
    <3>2. i \in S
      BY <2>3, <3>1
    <3> QED BY <3>1, <3>2
  <2> QED BY <2>4
<1>11. Q \in [0..Depth -> Nat]
  BY <1>8, <1>10
<1> QED BY <1>1, <1>9, <1>11 DEF Q

LEMMA IndicesType ==
  ASSUME levels \in 1..MaxLevels, NEW b \in Nat
  PROVE  /\ LevelIndices(b) \in [1..Depth -> Index]
         /\ LevelIndices(b) \in Paths
         /\ Len(LevelIndices(b)) = Depth
<1>1. Depth \in 0..(MaxLevels - 1)
  BY DEF Depth
<1>2. ASSUME NEW j \in 1..Depth PROVE Quotients(b)[Depth - j] % Bpl \in Index
  <2>1. Quotients(b)[Depth - j] \in Nat
    BY <1>1, QuotientsDef
  <2> QED BY <2>1, DivMod DEF Index
<1>3. LevelIndices(b) \in [1..Depth -> Index]
  BY <1>2 DEF LevelIndices
<1>4. LevelIndices(b) \in Paths
  BY <1>1, <1>3, PathType
<1>5. Len(LevelIndices(b)) = Depth
  <2> DEFINE p == LevelIndices(b)
  <2>1. p \in [1..Depth -> Index] /\ Depth \in Nat
    BY <1>1, <1>3
  <2> HIDE DEF p
  <2>2. Len(p) = Depth
    BY <2>1, LenProperties, SeqDef
  <2> QED BY <2>2 DEF p
<1> QED BY <1>3, <1>4, <1>5

\* Of a block number the tree has room for, the loop leaves nothing.
LEMMA NothingLeft ==
  ASSUME levels \in 1..MaxLevels, NEW b \in Nat, b < Room
  PROVE  Quotients(b)[Depth] = 0
<1>1. Depth \in Nat
  BY QuotientsDef
<1> DEFINE Step(r) == [i \in 0..Depth |-> IF i = 0 THEN 1 ELSE r[i - 1] * Bpl]
           room == CHOOSE r : r = Step(r)
           G == [n \in Nat |-> [x \in Nat |-> x * Bpl]]
<1>2. Room = room[Depth]
  BY DEF Room
<1>3. room = Step(room)
  <2>1. PICK f \in [0..Depth -> Nat] : Solves(f, Depth, 1, G)
    <3>1. G \in [Nat -> [Nat -> Nat]]
      OBVIOUS
    <3> HIDE DEF G
    <3> QED BY <1>1, <3>1, RecursionUpTo
  <2>2. ASSUME NEW n \in 1..Depth PROVE f[n] = f[n - 1] * Bpl
    <3>1. n \in Nat /\ f[n - 1] \in Nat /\ f[n] = G[n][f[n - 1]]
      <4> HIDE DEF G
      <4> QED BY <1>1, <2>1 DEF Solves
    <3> QED BY <3>1
  <2>3. f = Step(f)
    BY <1>1, <2>1, <2>2 DEF Solves
  <2> HIDE DEF Step
  <2> QED BY <2>3
<1> HIDE DEF room
<1>4. room[0] = 1 /\ \A i \in 1..Depth : room[i] = room[i - 1] * Bpl
  BY <1>1, <1>3
<1> HIDE DEF Step
<1> DEFINE Q == Quotients(b)
<1>5. /\ Q \in [0..Depth -> Nat] /\ Q[0] = b
      /\ \A i \in 1..Depth : Q[i] = Q[i - 1] \div Bpl
  BY QuotientsDef
<1> HIDE DEF Q
<1> DEFINE S == {i \in Nat : i <= Depth => room[i] \in Nat}
<1>6. \A i \in 0..Depth : room[i] \in Nat
  <2>1. 0 \in S
    BY <1>4
  <2>2. ASSUME NEW i \in Nat, i \in S PROVE i + 1 \in S
    <3>1. SUFFICES ASSUME i + 1 <= Depth PROVE room[i + 1] \in Nat
      OBVIOUS
    <3>2. room[i] \in Nat /\ room[i + 1] = room[i] * Bpl
      BY <1>1, <1>4, <2>2, <3>1
    <3> QED BY <3>2
  <2>3. Nat \subseteq S
    <3> HIDE DEF S
    <3> QED BY <2>1, <2>2, NatSetInduction
  <2> QED BY <1>1, <2>3
<1> DEFINE T == {i \in Nat : i <= Depth => Q[i] < room[Depth - i]}
<1>7. 0 \in T
  BY <1>1, <1>2, <1>5
<1>8. ASSUME NEW i \in Nat, i \in T PROVE i + 1 \in T
  <2>1. SUFFICES ASSUME i + 1 <= Depth PROVE Q[i + 1] < room[Depth - (i + 1)]
    OBVIOUS
  <2> DEFINE q == Q[i]
             m == room[Depth - (i + 1)]
  <2>2. q \in Nat /\ m \in Nat
    BY <1>1, <1>5, <1>6, <2>1
  <2>3. q < m * Bpl
    <3>1. room[Depth - i] = room[Depth - i - 1] * Bpl
      BY <1>1, <1>4, <2>1
    <3>2. q < room[Depth - i]
      <4>1. i <= Depth
        BY <1>1, <2>1
      <4> QED BY <1>8, <4>1
    <3> QED BY <1>1, <3>1, <3>2
  <2>4. Q[i + 1] = q \div Bpl
    BY <1>1, <1>5, <2>1
  <2> HIDE DEF q, m
  <2>5. q \div Bpl < m
    <3>1. q \div Bpl \in Nat /\ q = ((q \div Bpl) * Bpl) + (q % Bpl) /\ q % Bpl >= 0
      BY <2>2, DivMod
    <3>2. SUFFICES ASSUME q \div Bpl >= m PROVE FALSE
      BY <2>2, <3>1
    <3> DEFINE k == q \div Bpl
    <3>3. k * Bpl >= m * Bpl
      <4>1. k \in Nat /\ k >= m
        BY <3>1, <3>2
      <4> HIDE DEF k
      <4> QED BY <2>2, <4>1
    <3> QED BY <2>2, <2>3, <3>1, <3>3
  <2> QED BY <2>4, <2>5 DEF m
<1>9. Q[Depth] < room[0]
  <2>1. Nat \subseteq T
    <3> HIDE DEF T
    <3> QED BY <1>7, <1>8, NatSetInduction
  <2>2. Q[Depth] < room[Depth - Depth]
    BY <1>1, <2>1
  <2> QED BY <1>1, <2>2
<1> QED BY <1>1, <1>4, <1>5, <1>9 DEF Q

\* Counting the place of a path back gives the block number it was cut from.
LEMMA NumberOfIndices ==
  ASSUME levels \in 1..MaxLevels, NEW b \in Nat, b < Room
  PROVE  Number(LevelIndices(b)) = b
<1> DEFINE p == LevelIndices(b)
           Q == Quotients(b)
<1>1. Depth \in Nat /\ Len(p) = Depth
  BY QuotientsDef, IndicesType
<1>2. /\ Q \in [0..Depth -> Nat] /\ Q[0] = b
      /\ \A i \in 1..Depth : Q[i] = Q[i - 1] \div Bpl
  BY QuotientsDef
<1>3. Q[Depth] = 0
  BY NothingLeft
<1>4. \A j \in 1..Depth : p[j] = Q[Depth - j] % Bpl
  BY DEF LevelIndices
<1> HIDE DEF p, Q
<1> DEFINE Step(f) == [n \in 0..Len(p) |-> IF n = 0 THEN 0 ELSE f[n - 1] * Bpl + p[n]]
           number == CHOOSE f : f = Step(f)
           back == [n \in 0..Depth |-> Q[Depth - n]]
<1>5. back = Step(back)
  <2>1. ASSUME NEW n \in 0..Depth, n # 0
        PROVE  back[n] = back[n - 1] * Bpl + p[n]
    <3> DEFINE q == Q[Depth - n]
    <3>1. n \in 1..Depth /\ n - 1 \in 0..Depth /\ Depth - n \in 0..Depth
          /\ Depth - (n - 1) \in 1..Depth /\ Depth - (n - 1) - 1 = Depth - n
      BY <1>1, <2>1
    <3>2. q \in Nat /\ back[n] = q /\ back[n - 1] = Q[Depth - (n - 1)]
      BY <1>2, <3>1
    <3>3. back[n - 1] = q \div Bpl /\ p[n] = q % Bpl
      BY <1>2, <1>4, <3>1, <3>2
    <3> HIDE DEF q, back
    <3>4. q = ((q \div Bpl) * Bpl) + (q % Bpl)
      BY <3>2, DivMod
    <3> QED BY <3>2, <3>3, <3>4
  <2>2. back[0] = 0
    BY <1>1, <1>3
  <2> HIDE DEF back
  <2>3. \A n \in 0..Depth : back[n] = IF n = 0 THEN 0 ELSE back[n - 1] * Bpl + p[n]
    BY <2>1, <2>2
  <2>4. back = [n \in 0..Depth |-> back[n]]
    BY DEF back
  <2> QED BY <1>1, <2>3, <2>4
<1>6. number = Step(number)
  <2> HIDE DEF Step, back
  <2> QED BY <1>5
<1>7. Number(p) = number[Depth]
  BY <1>1 DEF Number
<1> HIDE DEF number
<1>8. \A n \in 0..Depth : number[n] = back[n]
  <2> DEFINE S == {n \in Nat : n <= Depth => number[n] = back[n]}
  <2>1. \A n \in 0..Depth : /\ number[n] = IF n = 0 THEN 0 ELSE number[n - 1] * Bpl + p[n]
                            /\ back[n] = IF n = 0 THEN 0 ELSE back[n - 1] * Bpl + p[n]
    <3> HIDE DEF back
    <3> QED BY <1>1, <1>5, <1>6
  <2> HIDE DEF back
  <2>2. 0 \in S
    BY <1>1, <2>1
  <2>3. ASSUME NEW n \in Nat, n \in S PROVE n + 1 \in S
    BY <1>1, <2>1, <2>3
  <2>4. Nat \subseteq S
    <3> HIDE DEF S
    <3> QED BY <2>2, <2>3, NatSetInduction
  <2> QED BY <1>1, <2>4
<1>9. back[Depth] = b
  BY <1>1, <1>2
<1> QED BY <1>1, <1>7, <1>8, <1>9 DEF p

-----------------------------------------------------------------------------
\* Reading a block

\* A reading gives the right content, junk, nothing or an exception.
LEMMA ReadBlockType ==
  ASSUME medium \in [Blocks -> [Dva -> Media]], NEW b \in Blocks, NEW d \in Dva
  PROVE  ReadBlock(b, d).data \in {b, Junk, None}
<1>1. \A m \in Media : Decoded(b, m) \in {b, Junk, None}
  BY DEF Decoded
<1>2. medium[b][d] \in Media
  OBVIOUS
<1>3. Decoded(b, "intact") \in {b, Junk, None}
  BY <1>1 DEF Media
<1> QED BY <1>1, <1>2, <1>3 DEF ReadBlock, Got, Exception

\* What a loop over the copies gives is what one of its turns gave: the last
\* one, if none before it left the loop.
LEMMA LoopTurn ==
  ASSUME NEW b, NEW dvas \in Seq(Dva), dvas # <<>>, NEW verify \in BOOLEAN
  PROVE  LET read(i) == ReadBlock(b, dvas[i])
             Leaves(i) == read(i).raised \/ (read(i).data # None /\ (verify => read(i).c))
         IN  \E i \in DOMAIN dvas :
               /\ LoopOver(b, dvas, verify) = read(i)
               /\ \A j \in DOMAIN dvas : j < i => ~Leaves(j)
               /\ Leaves(i) \/ \A j \in DOMAIN dvas : ~Leaves(j)
<1> DEFINE read(i) == ReadBlock(b, dvas[i])
           Leaves(i) == read(i).raised \/ (read(i).data # None /\ (verify => read(i).c))
           L == {i \in DOMAIN dvas : Leaves(i)}
<1>1. DOMAIN dvas = 1..Len(dvas) /\ Len(dvas) \in Nat /\ Len(dvas) > 0
  BY EmptySeq, LenProperties
<1>2. LoopOver(b, dvas, verify) =
        IF L = {} THEN read(Len(dvas)) ELSE read(CHOOSE i \in L : \A j \in L : i <= j)
  BY DEF LoopOver
<1>3. CASE L = {}
  <2>1. Len(dvas) \in DOMAIN dvas
    BY <1>1
  <2>2. \A j \in DOMAIN dvas : ~Leaves(j)
    BY <1>3
  <2> HIDE DEF L, Leaves, read
  <2>3. LoopOver(b, dvas, verify) = read(Len(dvas))
    BY <1>2, <1>3
  <2>4. \E i \in DOMAIN dvas :
           /\ LoopOver(b, dvas, verify) = read(i)
           /\ \A j \in DOMAIN dvas : j < i => ~Leaves(j)
           /\ Leaves(i) \/ \A j \in DOMAIN dvas : ~Leaves(j)
    BY <2>1, <2>2, <2>3
  <2> QED BY <2>4 DEF read, Leaves
<1>4. CASE L # {}
  <2>1. L \subseteq Nat
    BY <1>1
  <2>2. PICK k \in L : \A j \in L : k <= j
    <3> HIDE DEF L
    <3> QED BY <1>4, <2>1, NatLeast
  <2> DEFINE i == CHOOSE i \in L : \A j \in L : i <= j
  <2>3. i \in L /\ \A j \in L : i <= j
    <3> HIDE DEF L
    <3> QED BY <2>2
  <2>4. LoopOver(b, dvas, verify) = read(i)
    <3> HIDE DEF L
    <3> QED BY <1>2, <1>4
  <2> HIDE DEF i
  <2>5. i \in DOMAIN dvas /\ Leaves(i) /\ \A j \in DOMAIN dvas : j < i => ~Leaves(j)
    <3>1. \A j \in DOMAIN dvas : Leaves(j) => j \in L
      OBVIOUS
    <3>2. i \in DOMAIN dvas /\ Leaves(i)
      BY <2>3
    <3> HIDE DEF L, Leaves, read
    <3> QED BY <1>1, <2>1, <2>3, <3>1, <3>2
  <2> HIDE DEF Leaves, read
  <2>6. \E x \in DOMAIN dvas :
           /\ LoopOver(b, dvas, verify) = read(x)
           /\ \A j \in DOMAIN dvas : j < x => ~Leaves(j)
           /\ Leaves(x) \/ \A j \in DOMAIN dvas : ~Leaves(j)
    BY <2>4, <2>5
  <2> QED BY <2>6 DEF read, Leaves
<1> QED BY <1>3, <1>4

LEMMA LoopType ==
  ASSUME medium \in [Blocks -> [Dva -> Media]], NEW b \in Blocks,
         NEW dvas \in Seq(Dva), dvas # <<>>, NEW verify \in BOOLEAN
  PROVE  LoopOver(b, dvas, verify).data \in {b, Junk, None}
<1>1. PICK i \in DOMAIN dvas : LoopOver(b, dvas, verify) = ReadBlock(b, dvas[i])
  BY LoopTurn
<1>2. dvas[i] \in Dva
  BY <1>1
<1> QED BY <1>1, <1>2, ReadBlockType

LEMMA AllDvasType ==
  /\ AllDvas \in Seq(Dva) /\ AllDvas # <<>>
  /\ DOMAIN AllDvas = 1..3
  /\ \A i \in 1..3 : AllDvas[i] = i - 1
  BY DEF AllDvas, Dva

\* BlockTree's and ObjectSet's readings from a right node or from junk.
LEMMA ReadsType ==
  ASSUME medium \in [Blocks -> [Dva -> Media]], NEW from, NEW p \in Blocks,
         NEW r \in TreeReads(from, p) \union BlockReads(from, p)
  PROVE  /\ r.data \in {p, Junk, None}
         /\ from = Junk => r.data \in {Junk, None}
<1>1. CASE from = Junk
  <2>1. r \in Anything
    BY <1>1 DEF TreeReads, BlockReads
  <2>2. \/ r = [raised |-> TRUE, data |-> None, c |-> FALSE]
        \/ r = [raised |-> FALSE, data |-> None, c |-> FALSE]
        \/ r = [raised |-> FALSE, data |-> Junk, c |-> FALSE]
    BY <2>1 DEF Anything, Got, Exception
  <2>3. r.data \in {Junk, None}
    BY <2>2
  <2> QED BY <2>3
<1>2. CASE from # Junk
  <2>1. r \in {LoopOver(p, AllDvas, TRUE), LoopOver(p, AllDvas, FALSE)}
    BY <1>2 DEF TreeReads, BlockReads
  <2>2. \A v \in BOOLEAN : LoopOver(p, AllDvas, v).data \in {p, Junk, None}
    BY AllDvasType, LoopType
  <2> QED BY <1>2, <2>1, <2>2
<1> QED BY <1>1, <1>2

\* A block with a copy that reads right, and none before it that raises, is
\* read; and read right by a loop that minds the checksum.
LEMMA ReachableRead ==
  ASSUME medium \in [Blocks -> [Dva -> Media]], NEW b \in Blocks, Reachable(b),
         NEW verify \in BOOLEAN
  PROVE  /\ ~LoopOver(b, AllDvas, verify).raised
         /\ LoopOver(b, AllDvas, verify).data # None
         /\ verify => LoopOver(b, AllDvas, verify).data = b
<1> DEFINE read(i) == ReadBlock(b, AllDvas[i])
           Leaves(i) == read(i).raised \/ (read(i).data # None /\ (verify => read(i).c))
<1>1. PICK i \in DOMAIN AllDvas :
        /\ LoopOver(b, AllDvas, verify) = read(i)
        /\ \A j \in DOMAIN AllDvas : j < i => ~Leaves(j)
        /\ Leaves(i) \/ \A j \in DOMAIN AllDvas : ~Leaves(j)
  BY LoopTurn, AllDvasType
<1>2. PICK d \in Dva : /\ medium[b][d] = "intact"
                       /\ \A e \in 0..(d - 1) : medium[b][e] # "error"
  BY DEF Reachable
<1>3. b # None /\ b # Junk
  OBVIOUS
<1>4. ASSUME NEW e \in Dva, medium[b][e] # "error"
      PROVE  /\ ~ReadBlock(b, e).raised
             /\ ReadBlock(b, e).c => medium[b][e] = "intact"
             /\ medium[b][e] = "intact" => ReadBlock(b, e).c /\ ReadBlock(b, e).data = b
  BY <1>3, <1>4 DEF ReadBlock, Reachable, Got, Decoded
<1>5. d + 1 \in DOMAIN AllDvas /\ AllDvas[d + 1] = d
  BY AllDvasType DEF Dva
<1>6. Leaves(d + 1)
  BY <1>2, <1>3, <1>4, <1>5
<1>7. Leaves(i) /\ i <= d + 1
  <2> HIDE DEF Leaves, read
  <2> QED BY <1>1, <1>5, <1>6, AllDvasType DEF Dva
<1>8. AllDvas[i] \in Dva /\ medium[b][AllDvas[i]] # "error"
  BY <1>1, <1>2, <1>7, AllDvasType DEF Dva
<1> QED BY <1>1, <1>4, <1>7, <1>8

-----------------------------------------------------------------------------
\* The invariant

LEMMA InitInv == Init => Inv
<1> SUFFICES ASSUME Init PROVE Inv
  OBVIOUS
<1>1. TypeOK
  <2>1. PICK unused \in {"garbled", "undecodable"} :
          medium = [b \in Blocks |-> [d \in Dva |->
                      IF d < Copies THEN "intact" ELSE unused]]
    BY DEF Init
  <2>2. medium \in [Blocks -> [Dva -> Media]]
    BY <2>1 DEF Media
  <2> QED BY <2>2 DEF Init, TypeOK, EmptyTrie, EmptyCache
<1>2. OpenInv
  BY DEF Init, OpenInv
<1>3. WalkInv
  BY DEF Init, WalkInv, Idle
<1>4. TrieIsTheTree
  BY DEF Init, TrieIsTheTree, EmptyTrie
<1>5. CacheInv
  <2>1. None \notin Paths /\ Unread \notin Paths
    BY PathType
  <2> QED BY <2>1 DEF Init, CacheInv, EmptyCache
<1> QED BY <1>1, <1>2, <1>3, <1>4, <1>5 DEF Inv

\* CacheInv depends on the levels only, and they never change.
LEMMA OpenedInv ==
  ASSUME Inv, Opening, NEW status \in {"open", "broken", "raised"}, NEW r,
         Opened(status, r), r \in {None, Junk, <<>>}, status = "open" <=> r # None
  PROVE  Inv' /\ UNCHANGED <<cache, answer, walk>>
<1> USE DEF Inv
<1>1. walk = Idle /\ os # "open"
  BY DEF Opening, TypeOK
<1>2. /\ os' = status /\ root' = r /\ trie' = EmptyTrie /\ cache' = EmptyCache
      /\ UNCHANGED <<levels, medium, faults, walk, answer>>
  BY DEF Opened
<1>3. cache' = cache
  BY <1>1, <1>2 DEF OpenInv
<1>4. TypeOK'
  BY <1>2, <1>3 DEF TypeOK, EmptyTrie
<1>5. OpenInv'
  BY <1>1, <1>2 DEF OpenInv
<1>6. WalkInv'
  BY <1>1, <1>2 DEF WalkInv, Idle
<1>7. TrieIsTheTree'
  BY <1>2 DEF TrieIsTheTree, EmptyTrie
<1>8. CacheInv'
  BY <1>2, <1>3 DEF CacheInv, LevelIndices, Quotients, Depth
<1> QED BY <1>2, <1>3, <1>4, <1>5, <1>6, <1>7, <1>8

LEMMA OpeningStep ==
  ASSUME Inv, NEW dvas \in DvaChoices,
         OpenRaises(dvas) \/ OpenBroken(dvas) \/ OpenJunk(dvas) \/ OpenRoot(dvas)
  PROVE  Inv' /\ UNCHANGED <<cache, answer, walk>>
<1>1. CASE OpenRaises(dvas)
  BY <1>1, OpenedInv DEF OpenRaises
<1>2. CASE OpenBroken(dvas)
  BY <1>2, OpenedInv DEF OpenBroken
<1>3. CASE OpenJunk(dvas)
  BY <1>3, OpenedInv DEF OpenJunk
<1>4. CASE OpenRoot(dvas)
  <2>1. Opening
    BY <1>4 DEF OpenRoot
  <2>2. <<>> # None
    BY PathType
  <2>3. CASE levels = 1
    BY <1>4, <2>1, <2>2, <2>3, OpenedInv DEF OpenRoot
  <2>4. CASE levels # 1
    <3>1. PICK r \in TreeReads(<<>>, <<>>) :
            IF r.raised \/ r.data = None THEN Opened("raised", None)
                                         ELSE Opened("open", r.data)
      BY <1>4, <2>4 DEF OpenRoot
    <3>2. r.data \in {<<>>, Junk, None}
      <4>1. <<>> \in Blocks
        BY PathType
      <4> QED BY <4>1, ReadsType DEF Inv, TypeOK
    <3> QED BY <2>1, <3>1, <3>2, OpenedInv
  <2> QED BY <2>3, <2>4
<1> QED BY <1>1, <1>2, <1>3, <1>4

LEMMA IdsType ==
  ASSUME NEW id \in Ids
  PROVE  /\ id \in Nat /\ BlockOf(id) \in Nat /\ BlockOf(id) \in BlockIds
         /\ Store!Block(id) = BlockOf(id)
  BY DivMod DEF BlockOf, BlockIds, Store!Block

\* A step that ends a lookup: the block is answered as it is remembered, or
\* with an exception.
LEMMA ReplyStep ==
  ASSUME Inv, os = "open", NEW id \in Ids, NEW val, Reply(id, val),
         UNCHANGED <<levels, medium, faults, os, root, trie>>,
         \/ cache' = cache
         \/ /\ cache[BlockOf(id)] = Unread
            /\ \E v \in {LevelIndices(BlockOf(id)), Junk, None} :
                 cache' = [cache EXCEPT ![BlockOf(id)] = v],
         \/ val = Raised
         \/ val = cache'[BlockOf(id)] /\ val # Unread
  PROVE  Inv' /\ Store!Next
<1> USE DEF Inv
<1> DEFINE b == BlockOf(id)
<1>1. walk' = Idle /\ answer' = [id |-> id, val |-> val, slot |-> id % PerBlock]
  BY DEF Reply
<1>2. /\ id \in Nat /\ b \in Nat /\ b \in BlockIds /\ Store!Block(id) = b
      /\ LevelIndices(b) \in Paths
      /\ Unread \notin Paths /\ Raised \notin Paths /\ None \notin Paths /\ Junk \notin Paths
  BY IdsType, IndicesType, PathType DEF TypeOK
<1>3. cache \in [BlockIds -> Paths \union {Junk, None, Unread}]
  BY DEF TypeOK
<1>4. /\ cache' \in [BlockIds -> Paths \union {Junk, None, Unread}]
      /\ \A c \in BlockIds : c # b => cache'[c] = cache[c]
      /\ \/ cache' = cache
         \/ cache'[b] \in {LevelIndices(b), Junk, None}
  BY <1>2, <1>3
<1>5. TypeOK'
  BY <1>1, <1>4 DEF TypeOK
<1>6. OpenInv'
  BY DEF OpenInv
<1>7. WalkInv' /\ TrieIsTheTree'
  BY <1>1 DEF WalkInv, Idle, TrieIsTheTree
<1>8. CacheInv'
  <2>1. \A c \in BlockIds : LevelIndices(c)' = LevelIndices(c)
    BY DEF LevelIndices, Quotients, Depth
  <2>2. LevelIndices(b)' = LevelIndices(b)
    BY DEF LevelIndices, Quotients, Depth
  <2>3. ASSUME NEW c \in BlockIds, cache'[c] \in Paths PROVE cache'[c] = LevelIndices(c)
    BY <1>2, <1>4, <2>3 DEF CacheInv
  <2>4. val \in Paths => val = LevelIndices(b)
    BY <1>2, <2>3
  <2>5. BlockOf(answer.id)' = b
    BY <1>1 DEF BlockOf
  <2>6. LevelIndices(BlockOf(answer.id))' = LevelIndices(b)'
    BY <2>5 DEF LevelIndices, Quotients
  <2>7. answer'.val \in Paths => /\ answer'.id \in Ids
                                /\ answer'.val = LevelIndices(BlockOf(answer.id))'
                                /\ answer'.slot = answer'.id % PerBlock
    BY <1>1, <2>2, <2>4, <2>6
  <2>8. \A c \in BlockIds : cache'[c] \in Paths => cache'[c] = LevelIndices(c)'
    BY <2>1, <2>3
  <2> QED BY <2>7, <2>8 DEF CacheInv
<1>9. Store!Next
  <2>1. \/ cache' = cache
        \/ \E v \in Contents : Store!Learn(b, v)
    BY <1>2 DEF Contents, Store!Learn
  <2>2. CASE val = Raised
    <3>1. Store!Fail(id)
      BY <1>1, <1>2, <2>1, <2>2 DEF Store!Fail
    <3> QED BY <3>1 DEF Store!Next
  <2>3. CASE val = cache'[b] /\ val # Unread
    <3>1. Store!Serve(id)
      BY <1>1, <1>2, <2>1, <2>3 DEF Store!Serve
    <3> QED BY <3>1 DEF Store!Next
  <2> QED BY <2>2, <2>3
<1> QED BY <1>5, <1>6, <1>7, <1>8, <1>9

LEMMA LookupBrokenStep ==
  ASSUME Inv, NEW id \in Ids, LookupBroken(id) PROVE Inv' /\ Store!Next
<1> USE DEF Inv
<1>1. /\ os = "broken" /\ walk' = Idle
      /\ answer' = [id |-> id, val |-> None, slot |-> id % PerBlock]
      /\ UNCHANGED <<levels, medium, faults, os, root, trie, cache>>
  BY DEF LookupBroken, Reply
<1>2. cache = EmptyCache
  BY <1>1 DEF OpenInv
<1>3. Store!Refuse(id)
  BY <1>1, <1>2 DEF Store!Refuse, EmptyCache
<1>4. TypeOK'
  BY <1>1 DEF TypeOK
<1>5. OpenInv' /\ WalkInv' /\ TrieIsTheTree'
  BY <1>1 DEF OpenInv, WalkInv, Idle, TrieIsTheTree
<1>6. CacheInv'
  <2>1. None \notin Paths
    BY PathType
  <2> QED BY <1>1, <2>1 DEF CacheInv, LevelIndices, Quotients, Depth
<1> QED BY <1>3, <1>4, <1>5, <1>6 DEF Store!Next

LEMMA LookupCachedStep ==
  ASSUME Inv, NEW id \in Ids, LookupCached(id) PROVE Inv' /\ Store!Next
<1>1. /\ os = "open" /\ cache[BlockOf(id)] # Unread
      /\ UNCHANGED <<levels, medium, faults, os, root, trie, cache>>
      /\ \E val \in {cache[BlockOf(id)], Raised} : Reply(id, val)
  BY DEF LookupCached, Cut
<1> QED BY <1>1, ReplyStep

LEMMA LookupStep ==
  ASSUME Inv, NEW id \in Ids, Lookup(id) PROVE Inv' /\ UNCHANGED <<cache, answer>>
<1> USE DEF Inv
<1>1. /\ walk.pc = "idle" /\ os = "open" /\ cache[BlockOf(id)] = Unread
      /\ walk' = [pc |-> "walk", id |-> id, at |-> root, path |-> <<>>]
      /\ UNCHANGED <<levels, medium, faults, os, root, trie, cache, answer>>
  BY DEF Lookup
<1>2. root \in {Junk, <<>>} /\ <<>> \in Paths /\ <<>> # Junk
  BY <1>1, PathType DEF OpenInv, TypeOK
<1>3. TypeOK'
  BY <1>1, <1>2 DEF TypeOK
<1>4. OpenInv' /\ TrieIsTheTree'
  BY <1>1 DEF OpenInv, TrieIsTheTree
<1>5. WalkInv'
  <2>1. walk'.path = <<>> /\ walk'.at = root /\ walk'.id = id
    BY <1>1
  <2>2. Len(<<>>) = 0 /\ 1..0 = {}
    OBVIOUS
  <2> QED BY <1>1, <1>2, <2>1, <2>2 DEF WalkInv
<1>6. CacheInv'
  BY <1>1 DEF CacheInv, LevelIndices, Quotients, Depth
<1> QED BY <1>1, <1>3, <1>4, <1>5, <1>6

LEMMA ChangeStep ==
  ASSUME Inv, NEW b \in Faulty, NEW d \in 0..(Copies - 1), NEW m \in Media, Change(b, d, m)
  PROVE  Inv' /\ UNCHANGED <<cache, answer>>
<1> USE DEF Inv
<1>1. /\ medium' = [medium EXCEPT ![b][d] = m]
      /\ UNCHANGED <<levels, os, root, trie, cache, walk, answer>>
  BY DEF Change
<1>2. b \in Blocks /\ d \in Dva
  BY DEF Dva
<1>3. medium' \in [Blocks -> [Dva -> Media]]
  BY <1>1, <1>2 DEF TypeOK
<1>4. TypeOK'
  BY <1>1, <1>3 DEF TypeOK
<1>5. OpenInv' /\ TrieIsTheTree'
  BY <1>1 DEF OpenInv, TrieIsTheTree
<1>6. WalkInv'
  BY <1>1 DEF WalkInv, Depth
<1>7. CacheInv'
  BY <1>1 DEF CacheInv, LevelIndices, Quotients, Depth
<1> QED BY <1>1, <1>4, <1>5, <1>6, <1>7

LEMMA StutterStep ==
  ASSUME Inv, UNCHANGED vars PROVE Inv'
<1> USE DEF Inv, vars
<1>1. TypeOK'
  BY DEF TypeOK
<1>2. OpenInv' /\ TrieIsTheTree'
  BY DEF OpenInv, TrieIsTheTree
<1>3. WalkInv'
  BY DEF WalkInv, Depth
<1>4. CacheInv'
  BY DEF CacheInv, LevelIndices, Quotients, Depth
<1> QED BY <1>1, <1>2, <1>3, <1>4

\* What a lookup under way has: its block was not read, and at a node the next
\* place of the trie is one level below the one it has come to.
LEMMA WalkType ==
  ASSUME Inv, walk.pc = "walk"
  PROVE  /\ walk \in [pc : {"walk"}, id : Ids, at : Paths \union {Junk}, path : Paths]
         /\ os = "open" /\ root # None
         /\ BlockOf(walk.id) \in Nat /\ BlockOf(walk.id) \in BlockIds
         /\ cache[BlockOf(walk.id)] = Unread
         /\ Leaf = LevelIndices(BlockOf(walk.id)) /\ Leaf \in Paths /\ Len(Leaf) = Depth
         /\ Depth \in 0..(MaxLevels - 1)
<1>1. walk \in [pc : {"walk"}, id : Ids, at : Paths \union {Junk}, path : Paths]
      /\ walk # Idle
  BY DEF Inv, TypeOK, Idle
<1>2. walk.id \in Ids
  BY <1>1
<1>3. BlockOf(walk.id) \in Nat /\ BlockOf(walk.id) \in BlockIds
  BY <1>2, IdsType
<1>4. os = "open" /\ root # None /\ cache[BlockOf(walk.id)] = Unread
  BY <1>1 DEF Inv, OpenInv, WalkInv
<1>5. levels \in 1..MaxLevels
  BY DEF Inv, TypeOK
<1>6. Leaf = LevelIndices(BlockOf(walk.id)) /\ Leaf \in Paths /\ Len(Leaf) = Depth
  BY <1>3, <1>5, IndicesType DEF Leaf
<1>7. Depth \in 0..(MaxLevels - 1)
  BY <1>5 DEF Depth
<1> QED BY <1>1, <1>3, <1>4, <1>6, <1>7

LEMMA NextNode ==
  ASSUME Inv, AtNode
  PROVE  /\ Next1 \in Nodes /\ Next1 \in Paths /\ Next1 \in Blocks
         /\ Next1 # <<>> /\ Next1 \notin {Junk, None, Unread, Raised}
         /\ Len(walk.path) \in Nat
         /\ Len(Next1) = Len(walk.path) + 1 /\ Len(Next1) <= Depth - 1
         /\ Prefix(Next1, Len(Next1)) = Next1
         /\ \A n \in 1..Len(walk.path) : Prefix(Next1, n) = Prefix(walk.path, n)
         /\ \A p \in Nodes : \A n \in 1..(Len(p) - 1) :
              Prefix(p, n) \in Nodes
         /\ \A n \in 1..Len(walk.path) :
              Prefix(walk.path, n) \in Nodes /\ Prefix(walk.path, n) # Next1
<1>1. /\ walk.path \in Paths /\ Depth \in 0..(MaxLevels - 1)
      /\ Len(walk.path) \in Nat /\ Len(walk.path) < Depth - 1
      /\ LevelIndices(BlockOf(walk.id)) \in [1..Depth -> Index]
  BY WalkType, PathType, IndicesType DEF AtNode, Inv, TypeOK
<1> DEFINE x == LevelIndices(BlockOf(walk.id))[Len(walk.path) + 1]
<1>2. x \in Index /\ Next1 = Append(walk.path, x)
  BY <1>1 DEF Next1
<1>3. /\ Next1 \in Paths /\ Len(Next1) = Len(walk.path) + 1 /\ Next1 # <<>>
      /\ \A n \in 0..Len(walk.path) : Prefix(Next1, n) = Prefix(walk.path, n)
  BY <1>1, <1>2, PrefixOfAppend
<1>4. Next1 \in Nodes /\ Next1 \in Blocks /\ Next1 \notin {Junk, None, Unread, Raised}
  <2>1. Len(Next1) \in 1..(MaxLevels - 2)
    BY <1>1, <1>3
  <2>2. Next1 \in Paths
    BY <1>3
  <2> QED BY <2>1, <2>2, PathType
<1>5. Prefix(Next1, Len(Next1)) = Next1
  BY <1>3, PrefixFacts
<1>6. ASSUME NEW p \in Nodes, NEW n \in 1..(Len(p) - 1)
      PROVE  Prefix(p, n) \in Nodes
  <2>1. p \in Paths /\ Len(p) \in 1..(MaxLevels - 2)
    BY PathType
  <2>2. Prefix(p, n) \in Paths /\ Len(Prefix(p, n)) = n
    BY <2>1, PrefixFacts
  <2>3. n \in 1..(MaxLevels - 2)
    BY <2>1
  <2> QED BY <2>2, <2>3, PathType
<1>7. ASSUME NEW n \in 1..Len(walk.path)
      PROVE  Prefix(walk.path, n) \in Nodes /\ Prefix(walk.path, n) # Next1
  <2>1. Prefix(walk.path, n) \in Paths /\ Len(Prefix(walk.path, n)) = n
    BY <1>1, PrefixFacts
  <2>2. n \in 1..(MaxLevels - 2) /\ n # Len(Next1)
    BY <1>1, <1>3
  <2> QED BY <2>1, <2>2, PathType
<1> QED BY <1>1, <1>3, <1>4, <1>5, <1>6, <1>7

\* A step down the tree, by the trie or by a reading.
LEMMA DownStep ==
  ASSUME Inv, AtNode, NEW at \in {Next1, Junk},
         walk' = [walk EXCEPT !.at = at, !.path = Next1],
         \/ trie[Next1] = at /\ trie' = trie
         \/ /\ trie[Next1] = None /\ trie' = [trie EXCEPT ![Next1] = at]
            /\ walk.at = Junk => at = Junk,
         UNCHANGED <<levels, medium, faults, os, root, cache, answer>>
  PROVE  Inv'
<1> USE DEF Inv
<1>1. walk.pc = "walk"
  BY DEF AtNode
<1>2. /\ walk' \in [pc : {"walk"}, id : Ids, at : Paths \union {Junk}, path : Paths]
      /\ walk'.pc = "walk" /\ walk'.at = at /\ walk'.path = Next1 /\ walk'.id = walk.id
  BY <1>1, WalkType, NextNode
<1>3. /\ trie \in [Nodes -> Paths \union {Junk, None}]
      /\ trie' \in [Nodes -> Paths \union {Junk, None}]
      /\ trie'[Next1] = at /\ at # None
      /\ \A p \in Nodes : p # Next1 => trie'[p] = trie[p]
  BY NextNode DEF TypeOK
<1>4. TypeOK'
  BY <1>2, <1>3 DEF TypeOK
<1>5. OpenInv'
  BY <1>1, WalkType DEF OpenInv
<1>6. CacheInv'
  BY DEF CacheInv, LevelIndices, Quotients, Depth
<1>7. /\ root # None
      /\ \A n \in 1..Len(walk.path) : trie[Prefix(walk.path, n)] # None
      /\ walk.at \in {walk.path, Junk}
      /\ walk.at = walk.path =>
           /\ root = <<>>
           /\ \A n \in 1..Len(walk.path) :
                trie[Prefix(walk.path, n)] = Prefix(walk.path, n)
  BY <1>1, WalkType DEF WalkInv
\* the way to the new node
<1>8. /\ \A n \in 1..Len(walk.path) : trie'[Prefix(Next1, n)] # None
      /\ at = Next1 =>
           /\ root = <<>>
           /\ \A n \in 1..Len(walk.path) : trie'[Prefix(Next1, n)] = Prefix(Next1, n)
  <2>1. \A n \in 1..Len(walk.path) :
          /\ Prefix(Next1, n) = Prefix(walk.path, n)
          /\ trie'[Prefix(Next1, n)] = trie[Prefix(walk.path, n)]
    BY <1>3, NextNode
  <2>2. CASE trie[Next1] = at /\ trie' = trie
    <3>1. at = Next1 =>
           /\ root = <<>>
           /\ \A n \in 1..(Len(Next1) - 1) : trie[Prefix(Next1, n)] = Prefix(Next1, n)
      BY <1>3, <2>2, NextNode DEF TrieIsTheTree
    <3>2. 1..(Len(Next1) - 1) = 1..Len(walk.path)
      BY NextNode
    <3> QED BY <1>7, <2>1, <2>2, <3>1, <3>2
  <2>3. CASE trie[Next1] = None /\ (walk.at = Junk => at = Junk)
    <3>1. at = Next1 => walk.at = walk.path
      BY <1>7, <2>3, NextNode
    <3> QED BY <1>7, <2>1, <3>1
  <2> QED BY <2>2, <2>3
<1>9. WalkInv'
  <2>1. 1..Len(Next1) = 1..Len(walk.path) \union {Len(Next1)}
    BY NextNode
  <2>2. trie'[Prefix(Next1, Len(Next1))] = at /\ Prefix(Next1, Len(Next1)) = Next1
    BY <1>3, NextNode
  <2>3. \A n \in 1..Len(Next1) : trie'[Prefix(Next1, n)] # None
    BY <1>3, <1>8, <2>1, <2>2
  <2>4. at = Next1 => /\ root = <<>>
                      /\ \A n \in 1..Len(Next1) :
                           trie'[Prefix(Next1, n)] = Prefix(Next1, n)
    BY <1>8, <2>1, <2>2
  <2>5. cache[BlockOf(walk.id)] = Unread /\ Len(Next1) <= Depth - 1 /\ Next1 # <<>>
    BY <1>1, WalkType, NextNode
  <2> QED BY <1>2, <2>3, <2>4, <2>5 DEF WalkInv, Prefix, BlockOf, Depth
<1>10. TrieIsTheTree'
  <2>1. ASSUME NEW p \in Nodes, trie'[p] # None
        PROVE  /\ trie'[p] \in {p, Junk}
               /\ \A n \in 1..(Len(p) - 1) : trie'[Prefix(p, n)] # None
               /\ trie'[p] = p =>
                    /\ root = <<>>
                    /\ \A n \in 1..(Len(p) - 1) : trie'[Prefix(p, n)] = Prefix(p, n)
    <3>1. CASE p = Next1
      <4>1. 1..(Len(p) - 1) = 1..Len(walk.path)
        BY <3>1, NextNode
      <4> QED BY <1>3, <1>8, <3>1, <4>1
    <3>2. CASE p # Next1
      <4>1. trie[p] # None /\ trie'[p] = trie[p]
        BY <1>3, <2>1, <3>2
      <4>2. /\ trie[p] \in {p, Junk}
            /\ \A n \in 1..(Len(p) - 1) : trie[Prefix(p, n)] # None
            /\ trie[p] = p =>
                 /\ root = <<>>
                 /\ \A n \in 1..(Len(p) - 1) : trie[Prefix(p, n)] = Prefix(p, n)
        BY <4>1 DEF TrieIsTheTree
      <4>3. ASSUME NEW n \in 1..(Len(p) - 1)
            PROVE  trie'[Prefix(p, n)] = trie[Prefix(p, n)]
        <5>1. Prefix(p, n) \in Nodes
          BY NextNode
        <5>2. CASE trie' = trie
          BY <5>2
        <5>3. CASE trie[Next1] = None
          BY <1>3, <4>2, <5>1, <5>3
        <5> QED BY <5>2, <5>3
      <4> QED BY <4>1, <4>2, <4>3
    <3> QED BY <3>1, <3>2
  <2> QED BY <1>7, <2>1 DEF TrieIsTheTree, Prefix
<1> QED BY <1>4, <1>5, <1>6, <1>9, <1>10

LEMMA DescendCachedStep ==
  ASSUME Inv, DescendCached PROVE Inv' /\ UNCHANGED <<cache, answer>>
<1>1. /\ AtNode /\ trie[Next1] # None
      /\ walk' = [walk EXCEPT !.at = trie[Next1], !.path = Next1]
      /\ UNCHANGED <<levels, medium, faults, os, root, trie, cache, answer>>
  BY DEF DescendCached
<1>2. trie[Next1] \in {Next1, Junk}
  BY <1>1, NextNode DEF Inv, TrieIsTheTree
<1> QED BY <1>1, <1>2, DownStep

LEMMA DescendStep ==
  ASSUME Inv, Descend PROVE Inv' /\ (Store!Next \/ UNCHANGED <<cache, answer>>)
<1>1. PICK r \in TreeReads(walk.at, Next1) :
        IF r.raised \/ r.data = None
          THEN /\ Reply(walk.id, IF r.raised THEN Raised ELSE None)
               /\ cache' = [cache EXCEPT ![BlockOf(walk.id)] =
                              IF r.raised THEN @ ELSE None]
               /\ UNCHANGED trie
          ELSE /\ trie' = [trie EXCEPT ![Next1] = r.data]
               /\ walk' = [walk EXCEPT !.at = r.data, !.path = Next1]
               /\ UNCHANGED <<cache, answer>>
  BY DEF Descend
<1>2. /\ AtNode /\ trie[Next1] = None /\ walk.pc = "walk"
      /\ UNCHANGED <<levels, medium, faults, os, root>>
  BY DEF Descend, AtNode
<1>3. r.data \in {Next1, Junk, None} /\ (walk.at = Junk => r.data \in {Junk, None})
  BY <1>2, NextNode, ReadsType DEF Inv, TypeOK
<1>4. /\ walk.id \in Ids /\ os = "open" /\ cache[BlockOf(walk.id)] = Unread
      /\ BlockOf(walk.id) \in BlockIds /\ cache \in [BlockIds -> Paths \union {Junk, None, Unread}]
  BY <1>2, WalkType DEF Inv, TypeOK
<1>5. CASE r.raised
  <2>1. Reply(walk.id, Raised) /\ cache' = cache /\ UNCHANGED trie
    BY <1>1, <1>4, <1>5
  <2> QED BY <1>2, <1>4, <2>1, ReplyStep
<1>6. CASE ~r.raised /\ r.data = None
  <2>1. /\ Reply(walk.id, None) /\ UNCHANGED trie
        /\ cache' = [cache EXCEPT ![BlockOf(walk.id)] = None]
    BY <1>1, <1>6
  <2>2. None = cache'[BlockOf(walk.id)] /\ None # Unread
    BY <1>4, <2>1
  <2> QED BY <1>2, <1>4, <2>1, <2>2, ReplyStep
<1>7. CASE ~r.raised /\ r.data # None
  <2>1. /\ trie' = [trie EXCEPT ![Next1] = r.data]
        /\ walk' = [walk EXCEPT !.at = r.data, !.path = Next1]
        /\ UNCHANGED <<cache, answer>>
    BY <1>1, <1>7
  <2>2. r.data \in {Next1, Junk} /\ (walk.at = Junk => r.data = Junk)
    BY <1>3, <1>7
  <2> QED BY <1>2, <2>1, <2>2, DownStep
<1> QED BY <1>5, <1>6, <1>7

LEMMA NoSuchBlockStep ==
  ASSUME Inv, NoSuchBlock PROVE Inv' /\ Store!Next
<1>1. /\ walk.pc = "walk"
      /\ cache' = [cache EXCEPT ![BlockOf(walk.id)] = None]
      /\ Reply(walk.id, None)
      /\ UNCHANGED <<levels, medium, faults, os, root, trie>>
  BY DEF NoSuchBlock, AtLeaf
<1>2. /\ walk.id \in Ids /\ os = "open" /\ cache[BlockOf(walk.id)] = Unread
      /\ BlockOf(walk.id) \in BlockIds /\ cache \in [BlockIds -> Paths \union {Junk, None, Unread}]
  BY <1>1, WalkType DEF Inv, TypeOK
<1>3. None = cache'[BlockOf(walk.id)] /\ None # Unread
  BY <1>1, <1>2
<1> QED BY <1>1, <1>2, <1>3, ReplyStep

LEMMA ReadLeafStep ==
  ASSUME Inv, ReadLeaf PROVE Inv' /\ Store!Next
<1>1. PICK r \in BlockReads(walk.at, Leaf) :
        IF r.raised
          THEN Reply(walk.id, Raised) /\ UNCHANGED cache
          ELSE /\ cache' = [cache EXCEPT ![BlockOf(walk.id)] = r.data]
               /\ Cut(walk.id, r.data)
  BY DEF ReadLeaf
<1>2. walk.pc = "walk" /\ UNCHANGED <<levels, medium, faults, os, root, trie>>
  BY DEF ReadLeaf, AtLeaf
<1>3. /\ walk.id \in Ids /\ os = "open" /\ cache[BlockOf(walk.id)] = Unread
      /\ BlockOf(walk.id) \in BlockIds /\ cache \in [BlockIds -> Paths \union {Junk, None, Unread}]
      /\ Leaf = LevelIndices(BlockOf(walk.id)) /\ Leaf \in Blocks /\ Leaf # Unread
  BY <1>2, WalkType, PathType DEF Inv, TypeOK
<1>4. r.data \in {Leaf, Junk, None}
  BY <1>3, ReadsType DEF Inv, TypeOK
<1>5. CASE r.raised
  BY <1>1, <1>2, <1>3, <1>5, ReplyStep
<1>6. CASE ~r.raised
  <2>1. /\ cache' = [cache EXCEPT ![BlockOf(walk.id)] = r.data]
        /\ \E val \in {r.data, Raised} : Reply(walk.id, val)
    BY <1>1, <1>6 DEF Cut
  <2>2. r.data = cache'[BlockOf(walk.id)] /\ r.data # Unread
    BY <1>3, <1>4, <2>1
  <2> QED BY <1>2, <1>3, <1>4, <2>1, <2>2, ReplyStep
<1> QED BY <1>5, <1>6

-----------------------------------------------------------------------------
\* The theorems

LEMMA NextStep ==
  ASSUME Inv, [Next]_vars
  PROVE  Inv' /\ (Store!Next \/ UNCHANGED <<cache, answer>>)
<1>1. ASSUME NEW dvas \in DvaChoices,
             OpenRaises(dvas) \/ OpenBroken(dvas) \/ OpenJunk(dvas) \/ OpenRoot(dvas)
      PROVE  Inv' /\ UNCHANGED <<cache, answer>>
  BY <1>1, OpeningStep
<1>2. ASSUME NEW id \in Ids, LookupBroken(id) PROVE Inv' /\ Store!Next
  BY <1>2, LookupBrokenStep
<1>3. ASSUME NEW id \in Ids, LookupCached(id) PROVE Inv' /\ Store!Next
  BY <1>3, LookupCachedStep
<1>4. ASSUME NEW id \in Ids, Lookup(id) PROVE Inv' /\ UNCHANGED <<cache, answer>>
  BY <1>4, LookupStep
<1>5. CASE DescendCached
  BY <1>5, DescendCachedStep
<1>6. CASE Descend
  BY <1>6, DescendStep
<1>7. CASE NoSuchBlock
  BY <1>7, NoSuchBlockStep
<1>8. CASE ReadLeaf
  BY <1>8, ReadLeafStep
<1>9. ASSUME NEW b \in Faulty, NEW d \in 0..(Copies - 1), NEW m \in Media,
             Change(b, d, m)
      PROVE  Inv' /\ UNCHANGED <<cache, answer>>
  BY <1>9, ChangeStep
<1>10. CASE UNCHANGED vars
  <2>1. UNCHANGED <<cache, answer>>
    BY <1>10 DEF vars
  <2> QED BY <1>10, <2>1, StutterStep
<1> QED BY <1>1, <1>2, <1>3, <1>4, <1>5, <1>6, <1>7, <1>8, <1>9, <1>10 DEF Next

LEMMA Invariant == Spec => []Inv
<1>1. Init => Inv
  BY InitInv
<1>2. Inv /\ [Next]_vars => Inv'
  BY NextStep
<1> QED BY <1>1, <1>2, PTL DEF Spec

\* The trie mirrors the tree: a place of it holds its own node or junk, a right
\* one under right ones only, for trees of any height (BlockTree.__getitem__).
THEOREM TrieMirrorsTree == Spec => []TrieIsTheTree
<1>1. Inv => TrieIsTheTree
  BY DEF Inv
<1> QED BY <1>1, Invariant, PTL

\* A dnode that is found lies where its number says, for every number the tree
\* has room for (BlockTree._get_level_indices, ObjectSet._get_dnode).
THEOREM DnodesDoNotAlias == Spec => []IdsDoNotAlias
<1>1. Inv => IdsDoNotAlias
  <2> DEFINE b == BlockOf(answer.id)
  <2>1. SUFFICES ASSUME Inv, answer.val \in Paths, b < Room
                 PROVE  /\ Len(answer.val) = Depth
                        /\ Number(answer.val) * PerBlock + answer.slot = answer.id
    BY DEF IdsDoNotAlias
  <2>2. /\ answer.id \in Ids /\ answer.val = LevelIndices(b)
        /\ answer.slot = answer.id % PerBlock
        /\ levels \in 1..MaxLevels
    BY <2>1 DEF Inv, CacheInv, TypeOK
  <2>3. answer.id \in Nat /\ b \in Nat
    BY <2>2, IdsType
  <2>4. Len(answer.val) = Depth /\ Number(answer.val) = b
    BY <2>1, <2>2, <2>3, IndicesType, NumberOfIndices
  <2>5. answer.id = ((answer.id \div PerBlock) * PerBlock) + (answer.id % PerBlock)
    BY <2>3, DivMod
  <2> QED BY <2>2, <2>4, <2>5 DEF BlockOf
<1> QED BY <1>1, Invariant, PTL

\* A step down the tree uses a copy that verifies, when it can be reached, also
\* after copies that do not (BlockTree's `if bpa_data and c: break`).
THEOREM GoodCopiesAreUsed == Spec => GoodCopyIsUsed
<1> DEFINE A == (AtNode /\ walk.at # Junk /\ trie[Next1] = None /\ Reachable(Next1)
                   /\ walk' # walk)
                => /\ walk'.pc = "walk" /\ walk'.at = walk'.path
                   /\ trie'[walk'.path] = walk'.path
<1>1. Inv /\ [Next]_vars => [A]_vars
  <2> SUFFICES ASSUME Inv, Next, AtNode, walk.at # Junk, trie[Next1] = None,
                      Reachable(Next1), walk' # walk
               PROVE  /\ walk'.pc = "walk" /\ walk'.at = walk'.path
                      /\ trie'[walk'.path] = walk'.path
    BY DEF vars
  <2>1. walk.pc = "walk" /\ ~AtLeaf
    BY WalkType, NextNode DEF AtNode, AtLeaf
  <2>2. Descend
    BY <2>1 DEF Next, Opening, OpenRaises, OpenBroken, OpenJunk, OpenRoot,
                LookupBroken, LookupCached, Lookup, DescendCached, NoSuchBlock,
                ReadLeaf, Change
  <2> DEFINE r == LoopOver(Next1, AllDvas, TRUE)
  <2>3. ~r.raised /\ r.data # None /\ r.data = Next1
    BY <2>1, NextNode, ReachableRead DEF Inv, TypeOK
  <2>4. TreeReads(walk.at, Next1) = {r}
    BY DEF TreeReads
  <2> HIDE DEF r
  <2>5. trie' = [trie EXCEPT ![Next1] = r.data]
        /\ walk' = [walk EXCEPT !.at = r.data, !.path = Next1]
    BY <2>2, <2>3, <2>4 DEF Descend
  <2>6. /\ walk \in [pc : {"walk"}, id : Ids, at : Paths \union {Junk}, path : Paths]
        /\ trie \in [Nodes -> Paths \union {Junk, None}] /\ Next1 \in Nodes
    BY <2>1, WalkType, NextNode DEF Inv, TypeOK
  <2> QED BY <2>3, <2>5, <2>6
<1>2. QED BY <1>1, Invariant, PTL DEF Spec, GoodCopyIsUsed

\* A block is remembered as unreadable only where no intact copy could be
\* reached (ObjectSet._block_cache is never cleared of a loss).
THEOREM NoBlockIsLostFalsely == Spec => NoFalseLoss
<1> DEFINE A == (walk.pc = "walk" /\ cache'[BlockOf(walk.id)] = None /\ walk.at # Junk)
                => IF AtNode THEN ~Reachable(Next1)
                   ELSE (levels = 1 /\ BlockOf(walk.id) # 0) \/ ~Reachable(Leaf)
<1>1. Inv /\ [Next]_vars => [A]_vars
  <2> SUFFICES ASSUME Inv, Next, walk.pc = "walk",
                      cache'[BlockOf(walk.id)] = None, walk.at # Junk
               PROVE  IF AtNode THEN ~Reachable(Next1)
                      ELSE (levels = 1 /\ BlockOf(walk.id) # 0) \/ ~Reachable(Leaf)
    BY DEF vars
  <2>1. /\ cache[BlockOf(walk.id)] = Unread /\ cache' # cache
        /\ cache \in [BlockIds -> Paths \union {Junk, None, Unread}]
        /\ BlockOf(walk.id) \in BlockIds
        /\ medium \in [Blocks -> [Dva -> Media]]
    BY WalkType DEF Inv, TypeOK
  <2>2. Descend \/ NoSuchBlock \/ ReadLeaf
    BY <2>1 DEF Next, Opening, OpenRaises, OpenBroken, OpenJunk, OpenRoot,
                LookupBroken, LookupCached, Lookup, DescendCached, Change
  <2>3. CASE Descend
    <3>1. AtNode
      BY <2>3 DEF Descend
    <3> DEFINE r == LoopOver(Next1, AllDvas, TRUE)
    <3>2. TreeReads(walk.at, Next1) = {r}
      BY DEF TreeReads
    <3>3. Reachable(Next1) => ~r.raised /\ r.data # None
      BY <2>1, <3>1, NextNode, ReachableRead
    <3> HIDE DEF r
    <3>4. r.raised \/ r.data = None
      BY <2>1, <2>3, <3>2 DEF Descend
    <3> QED BY <3>1, <3>3, <3>4
  <2>4. CASE NoSuchBlock
    <3>1. ~AtNode /\ levels = 1 /\ BlockOf(walk.id) # 0
      BY <2>4, WalkType, NextNode DEF NoSuchBlock, AtLeaf, Depth, AtNode
    <3> QED BY <3>1
  <2>5. CASE ReadLeaf
    <3> DEFINE r == LoopOver(Leaf, AllDvas, FALSE)
    <3>1. AtLeaf /\ ~AtNode
      BY <2>5, NextNode, WalkType DEF ReadLeaf, AtLeaf, AtNode
    <3>2. BlockReads(walk.at, Leaf) = {r}
      BY DEF BlockReads
    <3>3. Leaf \in Blocks
      BY WalkType, PathType
    <3>4. Reachable(Leaf) => ~r.raised /\ r.data # None
      BY <2>1, <3>3, ReachableRead
    <3> HIDE DEF r
    <3>5. IF r.raised THEN UNCHANGED cache
                      ELSE cache' = [cache EXCEPT ![BlockOf(walk.id)] = r.data]
      BY <2>5, <3>2 DEF ReadLeaf
    <3>6. r.data = None \/ r.raised
      BY <2>1, <3>5
    <3> QED BY <3>1, <3>4, <3>6
  <2> QED BY <2>2, <2>3, <2>4, <2>5
<1>2. QED BY <1>1, Invariant, PTL DEF Spec, NoFalseLoss

\* The object set implements its abstract specification: the dnodes of a block
\* are answered from one reading of it, through failures, recoveries, exceptions
\* and constructors that are tried again (ObjectSet._get_dnode, __init__).
THEOREM ObjectSetImplementsStore == Spec => ImplementsStore
<1>1. Init => Store!Init
  BY DEF Init, Store!Init, EmptyCache, BlockIds, BlockOf, Store!Block
<1>2. Inv /\ [Next]_vars => [Store!Next]_<<cache, answer>>
  BY NextStep
<1> QED BY <1>1, <1>2, Invariant, PTL DEF Spec, ImplementsStore, Store!Spec
=============================================================================
