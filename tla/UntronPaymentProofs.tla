------------------------ MODULE UntronPaymentProofs ------------------------
(***************************************************************************)
(* Proofs about what the ZK program counts, for every value of its         *)
(* constants: the root of a block determines its transactions, the votes   *)
(* and the inflows are sums over the transactions of final blocks.         *)
(***************************************************************************)
EXTENDS UntronProgramProofs

(***************************************************************************)
(* The root of a list of transactions, which is a tree over their hashes.  *)
(*                                                                         *)
(* A node of the tree says how high it is: as often as one can go to the   *)
(* left.  On level k all nodes but the last are k high, and the last is at *)
(* most that high, as it may have come up as it is.  So the nodes of a     *)
(* level say which of them is a pair, and determine the level below.       *)
(***************************************************************************)

\* The leaves of the tree.
TxHashes == {hash(tx) : tx \in Tx}

\* A way down to the left from a node to a leaf.
IsDescent(d, node, k) ==
  /\ DOMAIN d = 0..k /\ d[0] \in TxHashes /\ d[k] = node
  /\ \A i \in 1..k : \E right : d[i] = combine_hashes(d[i - 1], right)

IsHigh(node, k) == \E d : IsDescent(d, node, k)

\* Hashes of transactions, pairs and the root of no transactions are different.
LEMMA HashesDiffer ==
  ASSUME NEW l, NEW r
  PROVE  /\ combine_hashes(l, r) \notin TxHashes
         /\ \A l2, r2 : combine_hashes(l, r) = combine_hashes(l2, r2) => l = l2 /\ r = r2
         /\ combine_hashes(l, r) # ZeroHash
         /\ ZeroHash \notin TxHashes
<1>1. \A data : DOMAIN hash(data) = {"sha256"} /\ hash(data).sha256 = data
  BY DEF hash
<1>2. DOMAIN ZeroHash = {"zeros"}
  BY DEF ZeroHash
<1>3. \A data : hash(data) # ZeroHash
  <2>1. "sha256" \notin DOMAIN ZeroHash /\ \A data : "sha256" \in DOMAIN hash(data)
    BY <1>1, <1>2
  <2>2. QED
    BY <2>1
<1>. DEFINE pair == [left |-> l, right |-> r]
<1>4. DOMAIN pair = {"left", "right"} /\ pair.left = l /\ pair.right = r
  OBVIOUS
<1>5. ASSUME NEW l2, NEW r2, combine_hashes(l, r) = combine_hashes(l2, r2)
      PROVE  l = l2 /\ r = r2
  <2>. DEFINE other == [left |-> l2, right |-> r2]
  <2>1. hash(pair) = hash(other)
    BY <1>5 DEF combine_hashes
  <2>2. hash(pair).sha256 = pair /\ hash(other).sha256 = other
    BY <1>1
  <2>3. other.left = l2 /\ other.right = r2
    OBVIOUS
  <2>. HIDE DEF pair, other
  <2>4. pair = other
    BY <2>1, <2>2
  <2>5. QED
    BY <1>4, <2>3, <2>4
<1>6. \A tx \in Tx : "left" \notin DOMAIN tx
  <2>1. \A tx \in Tx : DOMAIN tx = {"to", "value", "success"}
    BY DEF Tx
  <2>2. QED
    BY <2>1
<1>7. pair \notin Tx
  BY <1>4, <1>6
<1>8. combine_hashes(l, r) \notin TxHashes
  <2>1. ASSUME NEW tx \in Tx, combine_hashes(l, r) = hash(tx) PROVE FALSE
    <3>1. pair = tx
      BY <1>1, <2>1, Zenon DEF combine_hashes
    <3>2. QED
      BY <1>7, <2>1, <3>1
  <2>2. QED
    BY <2>1, Zenon DEF TxHashes
<1>9. combine_hashes(l, r) # ZeroHash /\ ZeroHash \notin TxHashes
  BY <1>3, Zenon DEF combine_hashes, TxHashes
<1>10. QED
  BY <1>5, <1>8, <1>9

\* A leaf is 0 high.
LEMMA LeafHeight ==
  ASSUME NEW tx \in TxHashes
  PROVE  IsHigh(tx, 0)
<1>. DEFINE d == [i \in 0..0 |-> tx]
<1>1. DOMAIN d = 0..0 /\ d[0] = tx
  OBVIOUS
<1>. HIDE DEF d
<1>2. IsDescent(d, tx, 0)
  BY <1>1 DEF IsDescent
<1>3. QED
  BY <1>2 DEF IsHigh

\* A pair is one higher than what is on its left.
LEMMA PairHeight ==
  ASSUME NEW l, NEW r, NEW k \in Nat, IsHigh(l, k)
  PROVE  IsHigh(combine_hashes(l, r), k + 1)
<1>1. PICK d : IsDescent(d, l, k)
  BY DEF IsHigh
<1>. DEFINE pair == combine_hashes(l, r)
            e == [i \in 0..k + 1 |-> IF i = k + 1 THEN pair ELSE d[i]]
<1>2. DOMAIN e = 0..k + 1 /\ e[k + 1] = pair /\ \A i \in 0..k : e[i] = d[i]
  OBVIOUS
<1>. HIDE DEF e
<1>3. /\ DOMAIN d = 0..k /\ d[0] \in TxHashes /\ d[k] = l
      /\ \A i \in 1..k : \E right : d[i] = combine_hashes(d[i - 1], right)
  BY <1>1 DEF IsDescent
<1>4. ASSUME NEW i \in 1..k + 1 PROVE \E right : e[i] = combine_hashes(e[i - 1], right)
  <2>1. CASE i = k + 1
    <3>1. e[i] = pair /\ e[i - 1] = l
      BY <1>2, <1>3, <2>1
    <3>2. QED
      BY <3>1
  <2>2. CASE i # k + 1
    <3>1. i \in 1..k /\ i - 1 \in 0..k /\ i \in 0..k
      BY <2>2
    <3>2. e[i] = d[i] /\ e[i - 1] = d[i - 1]
      BY <1>2, <3>1
    <3>3. QED
      BY <1>3, <3>1, <3>2
  <2>3. QED
    BY <2>1, <2>2
<1>5. e[0] \in TxHashes
  BY <1>2, <1>3
<1>. HIDE DEF pair
<1>6. IsDescent(e, pair, k + 1)
  BY <1>2, <1>4, <1>5 DEF IsDescent
<1>7. QED
  BY <1>6 DEF IsHigh, pair

\* What is more than 0 high is a pair.
LEMMA HeightOfPair ==
  ASSUME NEW node, NEW k \in Nat, IsHigh(node, k)
  PROVE  /\ k = 0 => node \in TxHashes
         /\ k # 0 => \E l, r : node = combine_hashes(l, r) /\ IsHigh(l, k - 1)
<1>1. PICK d : IsDescent(d, node, k)
  BY DEF IsHigh
<1>2. CASE k = 0
  BY <1>1, <1>2 DEF IsDescent
<1>3. CASE k # 0
  <2>. DEFINE e == [i \in 0..k - 1 |-> d[i]]
  <2>1. DOMAIN e = 0..k - 1 /\ \A i \in 0..k - 1 : e[i] = d[i]
    OBVIOUS
  <2>. HIDE DEF e
  <2>2. k \in 1..k /\ k - 1 \in Nat
    BY <1>3
  <2>3. PICK r : node = combine_hashes(d[k - 1], r)
    BY <1>1, <2>2 DEF IsDescent
  <2>4. ASSUME NEW i \in 1..k - 1 PROVE \E right : e[i] = combine_hashes(e[i - 1], right)
    <3>1. i \in 1..k /\ i \in 0..k - 1 /\ i - 1 \in 0..k - 1
      BY <2>2
    <3>2. QED
      BY <1>1, <2>1, <3>1 DEF IsDescent
  <2>5. e[0] \in TxHashes /\ e[k - 1] = d[k - 1]
    BY <1>1, <2>1, <2>2 DEF IsDescent
  <2>6. IsDescent(e, d[k - 1], k - 1)
    BY <2>1, <2>4, <2>5 DEF IsDescent
  <2>7. QED
    BY <1>3, <2>3, <2>6 DEF IsHigh
<1>4. QED
  BY <1>2, <1>3

\* A node has one height.
LEMMA OneHeight ==
  ASSUME NEW node, NEW j \in Nat, NEW k \in Nat, IsHigh(node, j), IsHigh(node, k)
  PROVE  j = k
<1>. DEFINE T == {m \in Nat : \A x : \A n \in Nat : IsHigh(x, m) /\ IsHigh(x, n) => m = n}
<1>1. 0 \in T
  <2>1. ASSUME NEW x, NEW n \in Nat, IsHigh(x, 0), IsHigh(x, n) PROVE n = 0
    <3>1. x \in TxHashes
      BY <2>1, HeightOfPair
    <3>2. CASE n # 0
      <4>1. PICK l, r : x = combine_hashes(l, r)
        BY <2>1, <3>2, HeightOfPair
      <4>2. QED
        BY <3>1, <4>1, HashesDiffer
    <3>3. QED
      BY <3>2
  <2>2. QED
    BY <2>1
<1>2. ASSUME NEW m \in Nat, m \in T PROVE m + 1 \in T
  <2>1. ASSUME NEW x, NEW n \in Nat, IsHigh(x, m + 1), IsHigh(x, n) PROVE m + 1 = n
    <3>0. m + 1 \in Nat /\ m + 1 # 0 /\ (m + 1) - 1 = m
      OBVIOUS
    <3>1. PICK l, r : x = combine_hashes(l, r) /\ IsHigh(l, (m + 1) - 1)
      BY <2>1, <3>0, HeightOfPair
    <3>2. IsHigh(l, m)
      BY <3>0, <3>1
    <3>3. n # 0
      <4>1. n = 0 => x \in TxHashes
        BY <2>1, HeightOfPair
      <4>2. QED
        BY <3>1, <4>1, HashesDiffer
    <3>4. PICK l2, r2 : x = combine_hashes(l2, r2) /\ IsHigh(l2, n - 1)
      BY <2>1, <3>3, HeightOfPair
    <3>5. l = l2
      BY <3>1, <3>4, HashesDiffer
    <3>6. n - 1 \in Nat
      BY <3>3
    <3>7. m = n - 1
      BY <1>2, <3>2, <3>4, <3>5, <3>6
    <3>8. QED
      BY <3>7
  <2>2. QED
    BY <2>1
<1>3. Nat \subseteq T
  <2>. HIDE DEF T
  <2>. QED
    BY <1>1, <1>2, NaturalsByInduction
<1>4. QED
  BY <1>3

\* The nodes of level k.
IsLevel(level, k) ==
  /\ \E S : level \in Seq(S)
  /\ Len(level) \in Nat \ {0} /\ DOMAIN level = 1..Len(level)
  /\ \A i \in 1..Len(level) - 1 : IsHigh(level[i], k)
  /\ \E h \in 0..k : IsHigh(level[Len(level)], h)

\* How many nodes the next level has, and what they are.
LEMMA NextLevel ==
  ASSUME NEW level, NEW m \in Nat \ {0}, Len(level) = m, DOMAIN level = 1..m
  PROVE  LET n == Len(next_level(level)) IN
         /\ \E S : next_level(level) \in Seq(S)
         /\ n \in Nat \ {0} /\ DOMAIN next_level(level) = 1..n
         /\ m = 2 * n \/ m = 2 * n - 1
         /\ \A i \in 1..n - 1 :
              /\ 2 * i <= m
              /\ next_level(level)[i] = combine_hashes(level[2 * i - 1], level[2 * i])
         /\ m = 2 * n => next_level(level)[n] = combine_hashes(level[m - 1], level[m])
         /\ m = 2 * n - 1 => next_level(level)[n] = level[m]
<1>. DEFINE n == (m + 1) \div 2
            node(i) == IF 2 * i <= m THEN combine_hashes(level[2 * i - 1], level[2 * i])
                                     ELSE level[2 * i - 1]
            next == [i \in 1..n |-> node(i)]
            S == {node(i) : i \in 1..n}
<1>1. n \in Nat \ {0} /\ (m = 2 * n \/ m = 2 * n - 1)
  OBVIOUS
<1>2. next_level(level) = next
  BY DEF next_level
<1>. HIDE DEF n
<1>3. \A i \in 1..n : node(i) \in S
  OBVIOUS
<1>4. next \in Seq(S)
  <2>. HIDE DEF S, node
  <2>. QED
    BY <1>1, <1>3, IsASeq
<1>5. Len(next) = n /\ DOMAIN next = 1..n
  <2>1. DOMAIN next = 1..n
    OBVIOUS
  <2>2. Len(next) \in Nat /\ DOMAIN next = 1..Len(next)
    <3>. HIDE DEF next, S
    <3>. QED
      BY <1>4, LenProperties
  <2>. HIDE DEF next
  <2>3. QED
    BY <1>1, <2>1, <2>2
<1>6. ASSUME NEW i \in 1..n - 1
      PROVE  2 * i <= m /\ next[i] = combine_hashes(level[2 * i - 1], level[2 * i])
  BY <1>1
<1>7. m = 2 * n => next[n] = combine_hashes(level[m - 1], level[m])
  BY <1>1
<1>8. m = 2 * n - 1 => next[n] = level[m]
  BY <1>1
<1>. HIDE DEF next, S
<1>9. QED
  BY <1>1, <1>2, <1>4, <1>5, <1>6, <1>7, <1>8

\* The next level is a level.
LEMMA NextIsLevel ==
  ASSUME NEW level, NEW k \in Nat, IsLevel(level, k)
  PROVE  IsLevel(next_level(level), k + 1)
<1>. DEFINE m == Len(level)
            next == next_level(level)
            n == Len(next)
<1>1. m \in Nat \ {0} /\ DOMAIN level = 1..m
  BY DEF IsLevel
<1>2. /\ \E S : next \in Seq(S)
      /\ n \in Nat \ {0} /\ DOMAIN next = 1..n
      /\ m = 2 * n \/ m = 2 * n - 1
      /\ \A i \in 1..n - 1 :
           2 * i <= m /\ next[i] = combine_hashes(level[2 * i - 1], level[2 * i])
      /\ m = 2 * n => next[n] = combine_hashes(level[m - 1], level[m])
      /\ m = 2 * n - 1 => next[n] = level[m]
  BY <1>1, NextLevel
<1>3. /\ \A i \in 1..m - 1 : IsHigh(level[i], k)
      /\ \E h \in 0..k : IsHigh(level[m], h)
  BY DEF IsLevel
<1>. HIDE DEF m, next, n
<1>4. ASSUME NEW i \in 1..n - 1 PROVE IsHigh(next[i], k + 1)
  <2>1. 2 * i - 1 \in 1..m - 1
    BY <1>1, <1>2
  <2>2. IsHigh(level[2 * i - 1], k)
    BY <1>3, <2>1
  <2>3. QED
    BY <1>2, <2>2, PairHeight
<1>5. \E h \in 0..k + 1 : IsHigh(next[n], h)
  <2>1. CASE m = 2 * n
    <3>1. m - 1 \in 1..m - 1
      BY <1>1, <1>2, <2>1
    <3>2. IsHigh(level[m - 1], k)
      BY <1>3, <3>1
    <3>3. IsHigh(next[n], k + 1)
      BY <1>2, <2>1, <3>2, PairHeight
    <3>4. QED
      BY <3>3
  <2>2. CASE m = 2 * n - 1
    BY <1>2, <1>3, <2>2
  <2>3. QED
    BY <1>2, <2>1, <2>2
<1>6. QED
  BY <1>2, <1>4, <1>5 DEF IsLevel, next, n

\* Levels with the same next level are the same.
LEMMA LevelBelow ==
  ASSUME NEW a, NEW b, NEW k \in Nat, IsLevel(a, k), IsLevel(b, k),
         \E S : a \in Seq(S) /\ b \in Seq(S),
         NEW next, next_level(a) = next, next_level(b) = next
  PROVE  a = b
<1>. DEFINE m == Len(a)
            p == Len(b)
            n == Len(next)
<1>1. m \in Nat \ {0} /\ DOMAIN a = 1..m /\ p \in Nat \ {0} /\ DOMAIN b = 1..p
  BY DEF IsLevel
<1>2. /\ n \in Nat \ {0}
      /\ m = 2 * n \/ m = 2 * n - 1
      /\ \A i \in 1..n - 1 :
           2 * i <= m /\ next[i] = combine_hashes(a[2 * i - 1], a[2 * i])
      /\ m = 2 * n => next[n] = combine_hashes(a[m - 1], a[m])
      /\ m = 2 * n - 1 => next[n] = a[m]
  <2>. DEFINE up == next_level(a)
              q == Len(up)
  <2>1. /\ q \in Nat \ {0}
        /\ m = 2 * q \/ m = 2 * q - 1
        /\ \A i \in 1..q - 1 :
             2 * i <= m /\ up[i] = combine_hashes(a[2 * i - 1], a[2 * i])
        /\ m = 2 * q => up[q] = combine_hashes(a[m - 1], a[m])
        /\ m = 2 * q - 1 => up[q] = a[m]
    BY <1>1, NextLevel
  <2>2. up = next /\ q = n
    OBVIOUS
  <2>. HIDE DEF up, q, n, m
  <2>3. QED
    BY <2>1, <2>2
<1>3. /\ p = 2 * n \/ p = 2 * n - 1
      /\ \A i \in 1..n - 1 :
           2 * i <= p /\ next[i] = combine_hashes(b[2 * i - 1], b[2 * i])
      /\ p = 2 * n => next[n] = combine_hashes(b[p - 1], b[p])
      /\ p = 2 * n - 1 => next[n] = b[p]
  <2>. DEFINE up == next_level(b)
              q == Len(up)
  <2>1. /\ p = 2 * q \/ p = 2 * q - 1
        /\ \A i \in 1..q - 1 :
             2 * i <= p /\ up[i] = combine_hashes(b[2 * i - 1], b[2 * i])
        /\ p = 2 * q => up[q] = combine_hashes(b[p - 1], b[p])
        /\ p = 2 * q - 1 => up[q] = b[p]
    BY <1>1, NextLevel
  <2>2. up = next /\ q = n
    OBVIOUS
  <2>. HIDE DEF up, q, n, p
  <2>3. QED
    BY <2>1, <2>2
<1>4. /\ \A i \in 1..m - 1 : IsHigh(a[i], k)
      /\ \E h \in 0..k : IsHigh(a[m], h)
      /\ \A i \in 1..p - 1 : IsHigh(b[i], k)
      /\ \E h \in 0..k : IsHigh(b[p], h)
  BY DEF IsLevel
<1>. HIDE DEF m, p, n
<1>5. ASSUME NEW l, NEW r, NEW x, NEW h \in 0..k, IsHigh(l, k), IsHigh(x, h)
      PROVE  x # combine_hashes(l, r)
  <2>1. IsHigh(combine_hashes(l, r), k + 1)
    BY <1>5, PairHeight
  <2>2. k + 1 \in Nat /\ h \in Nat /\ k + 1 # h
    OBVIOUS
  <2>3. QED
    BY <1>5, <2>1, <2>2, OneHeight
<1>6. m = p
  <2>1. CASE m = 2 * n /\ p = 2 * n - 1
    <3>1. m - 1 \in 1..m - 1
      BY <1>1, <1>2, <2>1
    <3>2. IsHigh(a[m - 1], k)
      BY <1>4, <3>1
    <3>3. b[p] = combine_hashes(a[m - 1], a[m])
      BY <1>2, <1>3, <2>1
    <3>4. QED
      BY <1>4, <1>5, <3>2, <3>3
  <2>2. CASE m = 2 * n - 1 /\ p = 2 * n
    <3>1. p - 1 \in 1..p - 1
      BY <1>1, <1>2, <2>2
    <3>2. IsHigh(b[p - 1], k)
      BY <1>4, <3>1
    <3>3. a[m] = combine_hashes(b[p - 1], b[p])
      BY <1>2, <1>3, <2>2
    <3>4. QED
      BY <1>4, <1>5, <3>2, <3>3
  <2>3. QED
    BY <1>2, <1>3, <2>1, <2>2
<1>7. ASSUME NEW i \in 1..n - 1
      PROVE  a[2 * i - 1] = b[2 * i - 1] /\ a[2 * i] = b[2 * i]
  <2>1. combine_hashes(a[2 * i - 1], a[2 * i]) = combine_hashes(b[2 * i - 1], b[2 * i])
    BY <1>2, <1>3
  <2>2. QED
    BY <2>1, HashesDiffer
<1>8. m = 2 * n => a[m - 1] = b[m - 1] /\ a[m] = b[m]
  BY <1>2, <1>3, <1>6, HashesDiffer
<1>9. m = 2 * n - 1 => a[m] = b[m]
  BY <1>2, <1>3, <1>6
<1>10. ASSUME NEW i \in 1..m PROVE a[i] = b[i]
  <2>1. CASE i = m
    BY <1>2, <1>8, <1>9, <2>1
  <2>2. CASE i = m - 1 /\ m = 2 * n
    BY <1>8, <2>2
  <2>3. CASE i # m /\ ~(i = m - 1 /\ m = 2 * n)
    <3>1. PICK j \in 1..n - 1 : i = 2 * j - 1 \/ i = 2 * j
      <4>1. \E j \in 0..n : i = 2 * j - 1 \/ i = 2 * j
        <5>1. (i + 1) \div 2 \in 0..n
          BY <1>1, <1>2
        <5>2. i = 2 * ((i + 1) \div 2) - 1 \/ i = 2 * ((i + 1) \div 2)
          OBVIOUS
        <5>3. QED
          BY <5>1, <5>2
      <4>2. PICK j \in 0..n : i = 2 * j - 1 \/ i = 2 * j
        BY <4>1
      <4>3. j # 0
        BY <4>2
      <4>4. j # n
        BY <1>1, <1>2, <2>3, <4>2
      <4>5. j \in 1..n - 1
        BY <1>2, <4>3, <4>4
      <4>6. QED
        BY <4>2, <4>5
    <3>2. QED
      BY <1>7, <3>1
  <2>4. QED
    BY <2>1, <2>2, <2>3
<1>11. QED
  BY <1>6, <1>10, SeqEqual DEF m, p

\* The levels from the list of leaves up.
AreLevels(v, leaves, top) ==
  /\ DOMAIN v = 0..top /\ v[0] = leaves
  /\ \A k \in 1..top : v[k] = next_level(v[k - 1])

\* There are levels up to any height.
LEMMA LevelsExist ==
  ASSUME NEW leaves, NEW top \in Nat
  PROVE  \E v : AreLevels(v, leaves, top)
<1>. DEFINE T == {n \in Nat : \E v : AreLevels(v, leaves, n)}
<1>1. 0 \in T
  <2>. DEFINE v == [k \in 0..0 |-> leaves]
  <2>1. DOMAIN v = 0..0 /\ v[0] = leaves
    OBVIOUS
  <2>. HIDE DEF v
  <2>2. AreLevels(v, leaves, 0)
    BY <2>1 DEF AreLevels
  <2>3. QED
    BY <2>2
<1>2. ASSUME NEW n \in Nat, n \in T PROVE n + 1 \in T
  <2>1. PICK u : AreLevels(u, leaves, n)
    BY <1>2
  <2>. DEFINE v == [k \in 0..n + 1 |-> IF k = n + 1 THEN next_level(u[n]) ELSE u[k]]
  <2>2. DOMAIN v = 0..n + 1 /\ v[n + 1] = next_level(u[n]) /\ \A k \in 0..n : v[k] = u[k]
    OBVIOUS
  <2>. HIDE DEF v
  <2>3. ASSUME NEW k \in 1..n + 1 PROVE v[k] = next_level(v[k - 1])
    <3>1. CASE k = n + 1
      BY <2>2, <3>1
    <3>2. CASE k # n + 1
      <4>1. k \in 1..n /\ k \in 0..n /\ k - 1 \in 0..n
        BY <3>2
      <4>2. QED
        BY <2>1, <2>2, <4>1 DEF AreLevels
    <3>3. QED
      BY <3>1, <3>2
  <2>4. AreLevels(v, leaves, n + 1)
    BY <2>1, <2>2, <2>3 DEF AreLevels
  <2>5. QED
    BY <2>4
<1>. HIDE DEF T
<1>3. Nat \subseteq T
  BY <1>1, <1>2, NaturalsByInduction
<1>4. QED
  BY <1>3 DEF T

\* Every level of a tree is one, and after as many levels as there are
\* leaves there is one node left.
LEMMA LevelsOfTree ==
  ASSUME NEW leaves \in Seq(TxHashes), leaves # <<>>, NEW top \in Nat, NEW v,
         AreLevels(v, leaves, top)
  PROVE  \A k \in 0..top :
           /\ IsLevel(v[k], k)
           /\ Len(v[k]) = 1 \/ Len(v[k]) + k <= Len(leaves)
<1>. DEFINE size == Len(leaves)
            Fine(k) == IsLevel(v[k], k) /\ (Len(v[k]) = 1 \/ Len(v[k]) + k <= size)
            T == {k \in Nat : k \in 0..top => Fine(k)}
<1>1. size \in Nat \ {0} /\ DOMAIN leaves = 1..size /\ \A i \in 1..size : leaves[i] \in TxHashes
  BY EmptySeq, LenProperties, ElementOfSeq
<1>2. 0 \in T
  <2>1. v[0] = leaves
    BY DEF AreLevels
  <2>2. \A i \in 1..size : IsHigh(leaves[i], 0)
    BY <1>1, LeafHeight
  <2>3. IsLevel(leaves, 0)
    BY <1>1, <2>2 DEF IsLevel
  <2>4. QED
    BY <1>1, <2>1, <2>3
<1>3. ASSUME NEW k \in Nat, k \in T PROVE k + 1 \in T
  <2>. HIDE DEF Fine
  <2>. SUFFICES ASSUME k + 1 \in 0..top PROVE Fine(k + 1)
    OBVIOUS
  <2>. DEFINE level == v[k]
              m == Len(level)
              next == next_level(level)
              n == Len(next)
  <2>1. v[k + 1] = next
    <3>1. k + 1 \in 1..top /\ (k + 1) - 1 = k
      OBVIOUS
    <3>2. QED
      BY <3>1 DEF AreLevels
  <2>2. IsLevel(level, k) /\ (m = 1 \/ m + k <= size)
    <3>1. Fine(k)
      BY <1>3
    <3>2. QED
      BY <3>1 DEF Fine
  <2>3. IsLevel(next, k + 1)
    BY <2>2, NextIsLevel
  <2>4. m \in Nat \ {0} /\ DOMAIN level = 1..m
    BY <2>2 DEF IsLevel
  <2>5. n \in Nat \ {0} /\ (m = 2 * n \/ m = 2 * n - 1)
    BY <2>4, NextLevel
  <2>. HIDE DEF level, m, next, n, size
  <2>6. n = 1 \/ n + (k + 1) <= size
    BY <1>1, <2>2, <2>4, <2>5
  <2>7. QED
    BY <2>1, <2>3, <2>6 DEF n, Fine
<1>. HIDE DEF T
<1>4. Nat \subseteq T
  BY <1>2, <1>3, NaturalsByInduction
<1>5. QED
  BY <1>4 DEF T, size

\* A level of one node is its own next level.
LEMMA TopStays ==
  ASSUME NEW level, Len(level) = 1, DOMAIN level = 1..1
  PROVE  Len(next_level(level)) = 1 /\ next_level(level)[1] = level[1]
<1>. DEFINE n == Len(next_level(level))
            m == Len(level)
<1>0. m = 1 /\ m \in Nat \ {0} /\ DOMAIN level = 1..m
  OBVIOUS
<1>1. n \in Nat \ {0} /\ (m = 2 * n \/ m = 2 * n - 1)
      /\ (m = 2 * n - 1 => next_level(level)[n] = level[m])
  BY <1>0, NextLevel
<1>. HIDE DEF n, m
<1>2. n = 1
  BY <1>0, <1>1
<1>3. QED
  BY <1>0, <1>1, <1>2 DEF n

\* The tables that the fold may look up: one round for each position in a set.
IsRounds(g, leaves) ==
  g = [s \in SUBSET DOMAIN leaves |->
         IF s = {} THEN leaves ELSE next_level(g[s \ {Max(s)}])]

Rounds(leaves) == CHOOSE g : IsRounds(g, leaves)

\* The root is what is left after a round for each leaf.
LEMMA RootIsLookup ==
  ASSUME NEW leaves, leaves # <<>>
  PROVE  create_merkle_tree(leaves) = Rounds(leaves)[DOMAIN leaves][1]
BY DEF create_merkle_tree, FoldLeft, MapThenFoldSet, Rounds, IsRounds

\* There is such a table: it says as many rounds as there are positions.
LEMMA RoundsExist ==
  ASSUME NEW leaves \in Seq(TxHashes)
  PROVE  IsRounds(Rounds(leaves), leaves)
<1>. DEFINE size == Len(leaves)
<1>1. size \in Nat /\ DOMAIN leaves = 1..size
  BY LenProperties
<1>2. PICK v : AreLevels(v, leaves, size)
  BY <1>1, LevelsExist
<1>. HIDE DEF size
<1>. DEFINE D == 1..size
            g == [s \in SUBSET D |-> v[Cardinality(s)]]
<1>3. IsFiniteSet(D) /\ Cardinality(D) = size
  BY <1>1, FS_Interval
<1>4. ASSUME NEW s \in SUBSET D
      PROVE  g[s] = IF s = {} THEN leaves ELSE next_level(g[s \ {Max(s)}])
  <2>1. IsFiniteSet(s) /\ Cardinality(s) <= size /\ Cardinality(s) \in Nat
    BY <1>3, FS_Subset, FS_CardinalityType
  <2>2. CASE s = {}
    <3>1. Cardinality(s) = 0
      BY <2>2, FS_EmptySet
    <3>2. g[s] = v[0]
      BY <3>1
    <3>3. QED
      BY <1>2, <2>2, <3>2 DEF AreLevels
  <2>3. CASE s # {}
    <3>1. s \in SUBSET (0..size)
      BY <1>1
    <3>2. Max(s) \in s
      BY <1>1, <2>3, <3>1, MaxExists
    <3>. DEFINE t == s \ {Max(s)}
                c == Cardinality(s)
    <3>3. Cardinality(t) = c - 1 /\ t \in SUBSET D
      BY <2>1, <3>2, FS_RemoveElement
    <3>4. c \in Nat /\ c # 0 /\ c <= size
      <4>1. c # 0
        BY <2>1, <2>3, FS_EmptySet
      <4>2. QED
        BY <2>1, <4>1
    <3>5. g[s] = v[c] /\ g[t] = v[c - 1]
      BY <3>3
    <3>. HIDE DEF g, c, t
    <3>6. c \in 1..size
      BY <1>1, <3>4
    <3>7. v[c] = next_level(v[c - 1])
      BY <1>2, <3>6 DEF AreLevels
    <3>8. QED
      BY <2>3, <3>5, <3>7 DEF t
  <2>4. QED
    BY <2>2, <2>3
<1>5. g = [s \in SUBSET D |-> IF s = {} THEN leaves ELSE next_level(g[s \ {Max(s)}])]
  <2>. DEFINE h == [s \in SUBSET D |->
                      IF s = {} THEN leaves ELSE next_level(g[s \ {Max(s)}])]
  <2>1. DOMAIN g = SUBSET D /\ DOMAIN h = SUBSET D /\ \A s \in SUBSET D : g[s] = h[s]
    BY <1>4
  <2>2. g = [s \in SUBSET D |-> g[s]] /\ h = [s \in SUBSET D |-> h[s]]
    OBVIOUS
  <2>. HIDE DEF g
  <2>3. QED
    BY <2>1, <2>2
<1>. HIDE DEF g
<1>6. IsRounds(g, leaves)
  BY <1>1, <1>5 DEF IsRounds
<1>7. QED
  BY <1>6 DEF Rounds

\* The table holds the levels.
LEMMA RoundsAreLevels ==
  ASSUME NEW leaves \in Seq(TxHashes), NEW top \in Nat, NEW v, AreLevels(v, leaves, top)
  PROVE  \A k \in 0..top : k <= Len(leaves) => Rounds(leaves)[1..k] = v[k]
<1>. DEFINE size == Len(leaves)
            g == Rounds(leaves)
            Same(k) == k <= size => g[1..k] = v[k]
            T == {k \in Nat : k \in 0..top => Same(k)}
<1>1. size \in Nat /\ DOMAIN leaves = 1..size
  BY LenProperties
<1>2. ASSUME NEW s \in SUBSET (1..size)
      PROVE  g[s] = IF s = {} THEN leaves ELSE next_level(g[s \ {Max(s)}])
  <2>1. IsRounds(g, leaves)
    BY RoundsExist
  <2>. HIDE DEF g
  <2>2. QED
    BY <1>1, <2>1 DEF IsRounds
<1>. HIDE DEF size, g
<1>3. 0 \in T
  <2>1. 1..0 = {} /\ {} \in SUBSET (1..size)
    OBVIOUS
  <2>2. g[1..0] = leaves
    BY <1>2, <2>1
  <2>3. v[0] = leaves
    BY DEF AreLevels
  <2>4. Same(0)
    BY <2>2, <2>3
  <2>5. QED
    BY <2>4
<1>4. ASSUME NEW k \in Nat, k \in T PROVE k + 1 \in T
  <2>1. SUFFICES ASSUME k + 1 \in 0..top, k + 1 <= size PROVE g[1..k + 1] = v[k + 1]
    OBVIOUS
  <2>2. g[1..k] = v[k]
    BY <1>1, <1>4, <2>1
  <2>. DEFINE s == 1..k + 1
  <2>3. s \in SUBSET (1..size) /\ s # {} /\ s \in SUBSET (0..k + 1) /\ k + 1 \in s
    <3>1. k + 1 \in s
      OBVIOUS
    <3>2. s \in SUBSET (0..k + 1)
      OBVIOUS
    <3>3. s \in SUBSET (1..size)
      BY <1>1, <2>1
    <3>4. QED
      BY <3>1, <3>2, <3>3
  <2>4. Max(s) = k + 1
    <3>1. Max(s) \in s /\ \A y \in s : y <= Max(s)
      <4>1. PICK b \in Nat : b = k + 1
        OBVIOUS
      <4>2. s \in SUBSET (0..b) /\ s # {}
        BY <2>3, <4>1
      <4>. HIDE DEF s
      <4>3. QED
        BY <4>1, <4>2, MaxExists
    <3>. DEFINE x == Max(s)
    <3>2. x \in 1..k + 1 /\ k + 1 <= x
      BY <2>3, <3>1
    <3>. HIDE DEF x
    <3>3. x = k + 1
      BY <3>2
    <3>4. QED
      BY <3>3 DEF x
  <2>5. s \ {Max(s)} = 1..k
    BY <2>4
  <2>6. g[s] = next_level(g[1..k])
    BY <1>2, <2>3, <2>5
  <2>7. v[k + 1] = next_level(v[k])
    <3>1. k + 1 \in 1..top /\ (k + 1) - 1 = k
      BY <2>1
    <3>2. QED
      BY <3>1 DEF AreLevels
  <2>8. QED
    BY <2>2, <2>6, <2>7
<1>5. Nat \subseteq T
  <2>. HIDE DEF T
  <2>. QED
    BY <1>3, <1>4, NaturalsByInduction
<1>6. QED
  BY <1>5 DEF size, g

\* The root is the one node of all levels from the number of leaves on.
LEMMA RootIsTop ==
  ASSUME NEW leaves \in Seq(TxHashes), leaves # <<>>, NEW top \in Nat, Len(leaves) <= top,
         NEW v, AreLevels(v, leaves, top)
  PROVE  /\ DOMAIN v[top] = 1..1 /\ v[top][1] = create_merkle_tree(leaves)
         /\ \E h \in 0..top : IsHigh(create_merkle_tree(leaves), h)
<1>. DEFINE size == Len(leaves)
            root == create_merkle_tree(leaves)
            One(k) == Len(v[k]) = 1 /\ v[k][1] = root
            T == {k \in Nat : size + k <= top => One(size + k)}
<1>1. size \in Nat \ {0} /\ DOMAIN leaves = 1..size
  BY EmptySeq, LenProperties
<1>2. \A k \in 0..top : IsLevel(v[k], k) /\ (Len(v[k]) = 1 \/ Len(v[k]) + k <= size)
  BY LevelsOfTree
<1>3. root = Rounds(leaves)[1..size][1]
  BY <1>1, RootIsLookup
<1>4. size \in 0..top /\ Rounds(leaves)[1..size] = v[size]
  BY <1>1, RoundsAreLevels
<1>. HIDE DEF size, root
<1>5. Len(v[size]) = 1
  <2>. DEFINE m == Len(v[size])
  <2>1. m \in Nat \ {0} /\ (m = 1 \/ m + size <= size)
    BY <1>2, <1>4 DEF IsLevel
  <2>. HIDE DEF m
  <2>2. m = 1
    BY <1>1, <2>1
  <2>3. QED
    BY <2>2 DEF m
<1>6. 0 \in T
  <2>1. size + 0 = size
    BY <1>1
  <2>2. One(size)
    BY <1>3, <1>4, <1>5
  <2>3. QED
    BY <2>1, <2>2
<1>7. ASSUME NEW k \in Nat, k \in T PROVE k + 1 \in T
  <2>1. SUFFICES ASSUME size + (k + 1) <= top PROVE One(size + (k + 1))
    OBVIOUS
  <2>. DEFINE l == size + k
  <2>2. l \in 0..top /\ l + 1 \in 1..top /\ size + (k + 1) = l + 1 /\ (l + 1) - 1 = l /\ l <= top
    BY <1>1, <2>1
  <2>3. One(l)
    BY <1>7, <2>2
  <2>. HIDE DEF l
  <2>4. v[l + 1] = next_level(v[l])
    BY <2>2 DEF AreLevels
  <2>5. DOMAIN v[l] = 1..1
    BY <1>2, <2>2, <2>3 DEF IsLevel
  <2>6. One(l + 1)
    BY <2>3, <2>4, <2>5, TopStays
  <2>7. QED
    BY <2>2, <2>6
<1>8. Nat \subseteq T
  <2>. HIDE DEF T
  <2>. QED
    BY <1>6, <1>7, NaturalsByInduction
<1>9. One(top)
  <2>1. top - size \in Nat /\ size + (top - size) = top
    BY <1>1 DEF size
  <2>2. QED
    BY <1>8, <2>1
<1>10. top \in 0..top /\ IsLevel(v[top], top)
  BY <1>2
<1>11. DOMAIN v[top] = 1..1 /\ \E h \in 0..top : IsHigh(root, h)
  BY <1>9, <1>10 DEF IsLevel
<1>12. QED
  BY <1>9, <1>11 DEF root

\* The levels of lists of leaves are sequences of the same nodes.
LEMMA LevelsAreSequences ==
  ASSUME NEW a, NEW b, NEW k, IsLevel(a, k), IsLevel(b, k)
  PROVE  \E S : a \in Seq(S) /\ b \in Seq(S)
<1>1. PICK R : a \in Seq(R)
  BY DEF IsLevel
<1>2. PICK T : b \in Seq(T)
  BY DEF IsLevel
<1>3. a \in Seq(R \cup T) /\ b \in Seq(R \cup T)
  BY <1>1, <1>2, SeqMonotonic
<1>4. QED
  BY <1>3

\* Lists of leaves that have the same root are the same.
LEMMA RootDetermines ==
  ASSUME NEW a \in Seq(TxHashes), NEW b \in Seq(TxHashes), create_merkle_tree(a) = create_merkle_tree(b)
  PROVE  a = b
<1>1. ASSUME NEW l \in Seq(TxHashes), l # <<>> PROVE create_merkle_tree(l) # ZeroHash
  <2>. DEFINE n == Len(l)
  <2>1. n \in Nat
    BY LenProperties
  <2>2. PICK v : AreLevels(v, l, n)
    BY <2>1, LevelsExist
  <2>3. PICK h \in 0..n : IsHigh(create_merkle_tree(l), h)
    <3>1. n <= n
      BY <2>1
    <3>2. QED
      BY <1>1, <2>1, <2>2, <3>1, RootIsTop
  <2>4. h \in Nat
    BY <2>1, <2>3
  <2>5. QED
    BY <2>3, <2>4, HeightOfPair, HashesDiffer
<1>2. \A l : l = <<>> => create_merkle_tree(l) = ZeroHash
  BY DEF create_merkle_tree
<1>3. CASE a = <<>> \/ b = <<>>
  BY <1>1, <1>2, <1>3
<1>4. CASE a # <<>> /\ b # <<>>
  <2>. DEFINE top == Len(a) + Len(b)
  <2>1. Len(a) \in Nat /\ Len(b) \in Nat
    BY LenProperties
  <2>2. top \in Nat /\ Len(a) <= top /\ Len(b) <= top
    BY <2>1
  <2>. HIDE DEF top
  <2>3. PICK v : AreLevels(v, a, top)
    BY <2>2, LevelsExist
  <2>4. PICK u : AreLevels(u, b, top)
    BY <2>2, LevelsExist
  <2>5. \A k \in 0..top : IsLevel(v[k], k) /\ IsLevel(u[k], k)
    BY <1>4, <2>2, <2>3, <2>4, LevelsOfTree
  <2>6. v[top] = u[top]
    <3>1. DOMAIN v[top] = 1..1 /\ v[top][1] = create_merkle_tree(a)
      BY <1>4, <2>2, <2>3, RootIsTop
    <3>2. DOMAIN u[top] = 1..1 /\ u[top][1] = create_merkle_tree(b)
      BY <1>4, <2>2, <2>4, RootIsTop
    <3>3. IsLevel(v[top], top) /\ IsLevel(u[top], top)
      BY <2>2, <2>5
    <3>4. PICK S : v[top] \in Seq(S) /\ u[top] \in Seq(S)
      BY <3>3, LevelsAreSequences
    <3>5. Len(v[top]) = 1 /\ Len(u[top]) = 1
      <4>1. ASSUME NEW x, IsLevel(x, top), DOMAIN x = 1..1 PROVE Len(x) = 1
        <5>. DEFINE m == Len(x)
        <5>1. m \in Nat \ {0} /\ 1..m = 1..1
          BY <4>1 DEF IsLevel
        <5>. HIDE DEF m
        <5>2. m \in 1..m
          BY <5>1
        <5>3. m \in 1..1
          BY <5>1, <5>2
        <5>4. QED
          BY <5>3 DEF m
      <4>2. QED
        BY <3>1, <3>2, <3>3, <4>1
    <3>6. \A i \in 1..1 : v[top][i] = u[top][i]
      BY <3>1, <3>2
    <3>7. QED
      BY <3>4, <3>5, <3>6, SeqEqual
  <2>. DEFINE T == {n \in Nat : n <= top => v[top - n] = u[top - n]}
  <2>7. 0 \in T
    BY <2>2, <2>6
  <2>8. ASSUME NEW n \in Nat, n \in T PROVE n + 1 \in T
    <3>1. SUFFICES ASSUME n + 1 <= top PROVE v[top - (n + 1)] = u[top - (n + 1)]
      OBVIOUS
    <3>. DEFINE k == top - (n + 1)
    <3>2. /\ k \in 0..top /\ k \in Nat /\ n <= top
          /\ k + 1 \in 1..top /\ (k + 1) - 1 = k /\ top - n = k + 1
      BY <2>2, <3>1
    <3>3. v[k + 1] = u[k + 1]
      BY <2>8, <3>2
    <3>. HIDE DEF k
    <3>4. v[k + 1] = next_level(v[k]) /\ u[k + 1] = next_level(u[k])
      BY <2>3, <2>4, <3>2 DEF AreLevels
    <3>5. IsLevel(v[k], k) /\ IsLevel(u[k], k)
      BY <2>5, <3>2
    <3>6. v[k] = u[k]
      <4>1. PICK x : x = v[k]
        OBVIOUS
      <4>2. PICK y : y = u[k]
        OBVIOUS
      <4>3. PICK next : next_level(x) = next /\ next_level(y) = next
        BY <3>3, <3>4, <4>1, <4>2
      <4>4. IsLevel(x, k) /\ IsLevel(y, k)
        BY <3>5, <4>1, <4>2
      <4>5. \E S : x \in Seq(S) /\ y \in Seq(S)
        BY <4>4, LevelsAreSequences
      <4>6. x = y
        BY <3>2, <4>3, <4>4, <4>5, LevelBelow
      <4>7. QED
        BY <4>1, <4>2, <4>6
    <3>7. QED
      BY <3>6 DEF k
  <2>9. Nat \subseteq T
    <3>. HIDE DEF T
    <3>. QED
      BY <2>7, <2>8, NaturalsByInduction
  <2>10. v[0] = u[0]
    <3>1. top \in T
      BY <2>2, <2>9
    <3>2. top <= top /\ top - top = 0
      BY <2>2
    <3>3. QED
      BY <3>1, <3>2
  <2>11. QED
    BY <2>3, <2>4, <2>10 DEF AreLevels
<1>5. QED
  BY <1>3, <1>4

\* Lists of transactions with the same root are the same.
LEMMA TxRootDetermines ==
  ASSUME NEW a \in Seq(Tx), NEW b \in Seq(Tx), tx_root(a) = tx_root(b)
  PROVE  a = b
<1>. DEFINE x == [i \in DOMAIN a |-> hash(a[i])]
            y == [i \in DOMAIN b |-> hash(b[i])]
<1>1. Len(a) \in Nat /\ DOMAIN a = 1..Len(a) /\ Len(b) \in Nat /\ DOMAIN b = 1..Len(b)
  BY LenProperties
<1>2. ASSUME NEW l \in Seq(Tx) PROVE [i \in DOMAIN l |-> hash(l[i])] \in Seq(TxHashes)
  <2>1. DOMAIN l = 1..Len(l) /\ Len(l) \in Nat
    BY LenProperties
  <2>2. \A i \in 1..Len(l) : hash(l[i]) \in TxHashes
    BY ElementOfSeq DEF TxHashes
  <2>. DEFINE leaf(i) == hash(l[i])
  <2>. HIDE DEF leaf
  <2>3. \A i \in 1..Len(l) : leaf(i) \in TxHashes
    BY <2>2 DEF leaf
  <2>4. [i \in 1..Len(l) |-> leaf(i)] \in Seq(TxHashes)
    BY <2>1, <2>3, IsASeq
  <2>5. QED
    BY <2>1, <2>4 DEF leaf
<1>3. x \in Seq(TxHashes) /\ y \in Seq(TxHashes)
  BY <1>2
<1>4. create_merkle_tree(x) = create_merkle_tree(y)
  BY DEF tx_root
<1>5. DOMAIN x = DOMAIN a /\ DOMAIN y = DOMAIN b
      /\ (\A i \in DOMAIN a : x[i] = hash(a[i])) /\ \A i \in DOMAIN b : y[i] = hash(b[i])
  OBVIOUS
<1>. HIDE DEF x, y
<1>6. x = y
  BY <1>3, <1>4, RootDetermines
<1>7. DOMAIN a = DOMAIN b /\ \A i \in DOMAIN a : hash(a[i]) = hash(b[i])
  BY <1>5, <1>6
<1>8. \A data : hash(data).sha256 = data
  BY DEF hash
<1>9. \A i \in DOMAIN a : a[i] = b[i]
  BY <1>7, <1>8, Zenon
<1>10. Len(a) = Len(b)
  <2>. DEFINE m == Len(a)
              n == Len(b)
  <2>1. m \in Nat /\ n \in Nat /\ 1..m = 1..n
    BY <1>1, <1>7
  <2>. HIDE DEF m, n
  <2>2. \A i \in 1..m : i \in 1..n
    BY <2>1
  <2>3. \A i \in 1..n : i \in 1..m
    BY <2>1
  <2>4. m <= n /\ n <= m
    BY <2>1, <2>2, <2>3
  <2>5. m = n
    BY <2>1, <2>4
  <2>6. QED
    BY <2>5 DEF m, n
<1>11. QED
  BY <1>1, <1>9, <1>10, SeqEqual

(***************************************************************************)
(* The transactions that are walked through.                               *)
(***************************************************************************)

\* The list ends as the other one does.
Ends(s, t) ==
  Len(s) <= Len(t) /\ \A i \in 1..Len(s) : s[i] = t[Len(t) - Len(s) + i]

\* A sequence that is a suffix of another one, element by element.
LEMMA SuffixProperties ==
  ASSUME NEW S, NEW s \in Seq(S), NEW t \in Seq(S), Ends(s, t)
  PROVE  IsSuffix(s, t)
<1>. DEFINE m == Len(s)
            n == Len(t)
            r == Reverse(s)
            u == Reverse(t)
<1>1. m \in Nat /\ n \in Nat /\ \A i \in 1..m : s[i] \in S /\ \A j \in 1..n : t[j] \in S
  BY LenProperties, ElementOfSeq
<1>2. m <= n /\ \A i \in 1..m : s[i] = t[n - m + i]
  BY DEF Ends
<1>3. (\A i \in 1..m : s[i] \in S) /\ \A j \in 1..n : t[j] \in S
  BY ElementOfSeq
<1>4. r = [i \in 1..m |-> s[m - i + 1]] /\ u = [i \in 1..n |-> t[n - i + 1]]
  BY DEF Reverse
<1>. HIDE DEF m, n, r, u
<1>5. r \in [1..m -> S] /\ u \in [1..n -> S]
  <2>1. \A i \in 1..m : m - i + 1 \in 1..m
    BY <1>1
  <2>2. \A i \in 1..n : n - i + 1 \in 1..n
    BY <1>1
  <2>3. QED
    BY <1>3, <1>4, <2>1, <2>2
<1>6. r \in Seq(S) /\ u \in Seq(S) /\ Len(r) = m /\ Len(u) = n
  BY <1>1, <1>5, SeqDef
<1>7. ASSUME NEW i \in 1..m PROVE r[i] = u[i]
  <2>1. m - i + 1 \in 1..m /\ i \in 1..n /\ n - m + (m - i + 1) = n - i + 1
    BY <1>1, <1>2
  <2>2. r[i] = s[m - i + 1] /\ u[i] = t[n - i + 1]
    BY <1>4, <2>1
  <2>3. QED
    BY <1>2, <2>1, <2>2
<1>8. IsPrefix(r, u)
  BY <1>2, <1>6, <1>7, PrefixProperties
<1>9. QED
  BY <1>8 DEF IsSuffix, r, u

\* What is left of a list after its head ends as it did.
LEMMA TailEnds ==
  ASSUME NEW S, NEW s \in Seq(S), s # <<>>, NEW t \in Seq(S), Ends(s, t)
  PROVE  /\ Ends(Tail(s), t)
         /\ Head(s) = t[Len(t) - Len(Tail(s))] /\ Len(t) - Len(Tail(s)) \in 1..Len(t)
<1>. DEFINE m == Len(s)
            n == Len(t)
            rest == Tail(s)
            l == Len(rest)
<1>1. m \in Nat \ {0} /\ n \in Nat /\ l = m - 1 /\ Head(s) = s[1]
      /\ \A i \in 1..l : rest[i] = s[i + 1]
  BY EmptySeq, LenProperties, HeadTailProperties
<1>2. m <= n /\ \A i \in 1..m : s[i] = t[n - m + i]
  BY DEF Ends
<1>. HIDE DEF m, n, rest, l
<1>3. l <= n /\ n - l \in 1..n /\ n - m + 1 = n - l /\ 1 \in 1..m
  BY <1>1, <1>2
<1>4. ASSUME NEW i \in 1..l PROVE rest[i] = t[n - l + i]
  <2>1. i + 1 \in 1..m /\ n - m + (i + 1) = n - l + i
    BY <1>1
  <2>2. QED
    BY <1>1, <1>2, <2>1
<1>5. Head(s) = t[n - l]
  BY <1>1, <1>2, <1>3
<1>6. QED
  BY <1>3, <1>4, <1>5 DEF Ends, m, n, rest, l

\* What is still to be walked through are the last transactions of the block.
OwnInv == pc = "txs" => Ends(txs, Last(work.latest).txs)

\* The block whose contents are looked at, and its transactions.
LEMMA LatestBlock ==
  ASSUME TypeInv, pc \in {"actions", "txs"}
  PROVE  /\ work.latest \in Seq(Block) /\ Len(work.latest) \in Nat \ {0}
         /\ Last(work.latest) = work.latest[Len(work.latest)]
         /\ Last(work.latest) \in Block /\ Last(work.latest).txs \in Seq(Tx)
<1>1. work.latest \in Seq(Block) /\ work.latest # <<>>
  BY DEF TypeInv, RunTyped, IsState
<1>. DEFINE latest == work.latest
<1>. HIDE DEF latest
<1>2. Len(latest) \in Nat \ {0}
  BY <1>1, EmptySeq DEF latest
<1>3. latest[Len(latest)] \in Block
  BY <1>1, <1>2, ElementOfSeq DEF latest
<1>4. QED
  BY <1>1, <1>2, <1>3 DEF latest, Last, Block

\* A list that has the root of the block is the block's own.
LEMMA WalkIsOwn ==
  ASSUME TypeInv, WalkThrough
  PROVE  txs' = Last(work.latest).txs
<1>. DEFINE own == Last(work.latest).txs
<1>1. own \in Seq(Tx) /\ Last(work.latest) \in Block
  BY LatestBlock DEF WalkThrough
<1>2. txs' \in PassedLists \cup {own} /\ tx_root(txs') = tx_root(own)
  BY DEF WalkThrough
<1>3. txs' \in Seq(Tx)
  BY <1>1, <1>2, ProgramAssumption
<1>4. PICK list : list = txs'
  OBVIOUS
<1>5. PICK block : block = own
  OBVIOUS
<1>. HIDE DEF own
<1>6. list \in Seq(Tx) /\ block \in Seq(Tx) /\ tx_root(list) = tx_root(block)
  BY <1>1, <1>2, <1>3, <1>4, <1>5
<1>7. list = block
  BY <1>6, TxRootDetermines
<1>8. QED
  BY <1>4, <1>5, <1>7 DEF own

\* A step of a run walks on, or leaves the transactions alone.
LEMMA StepIsOwn ==
  ASSUME TypeInv, OwnInv, RunStep
  PROVE  OwnInv'
<1>1. CASE WalkThrough
  <2>. DEFINE own == Last(work.latest).txs
  <2>1. own \in Seq(Tx)
    BY <1>1, LatestBlock DEF WalkThrough
  <2>2. txs' = own /\ work' = work
    BY <1>1, WalkIsOwn DEF WalkThrough
  <2>3. Ends(own, own)
    <3>. HIDE DEF own
    <3>1. Len(own) \in Nat
      BY <2>1, LenProperties
    <3>2. QED
      BY <3>1 DEF Ends
  <2>4. QED
    BY <2>2, <2>3 DEF OwnInv
<1>2. CASE IgnoreTx \/ CountTransfer \/ CountVote
  <2>. DEFINE own == Last(work.latest).txs
  <2>1. pc = "txs" /\ txs # <<>> /\ txs \in Seq(Tx) /\ txs' = Tail(txs)
    BY <1>2 DEF IgnoreTx, CountTransfer, CountVote, NextTx, TypeInv, RunTyped
  <2>2. own \in Seq(Tx)
    BY <2>1, LatestBlock
  <2>3. work'.latest = work.latest
    BY <1>2, TransferFields, VoteFields DEF IgnoreTx, TypeInv, RunTyped
  <2>4. Ends(txs, own)
    BY <2>1 DEF OwnInv
  <2>. HIDE DEF own
  <2>5. Ends(Tail(txs), own)
    BY <2>1, <2>2, <2>4, TailEnds
  <2>6. QED
    BY <2>1, <2>3, <2>5 DEF OwnInv, own
<1>3. CASE VerifyBlock \/ OpenOrder \/ CloseOrder \/ FinishBlock
  <2>1. pc' # "txs"
    BY <1>3 DEF VerifyBlock, OpenOrder, CloseOrder, FinishBlock, Goto
  <2>2. QED
    BY <2>1 DEF OwnInv
<1>4. QED
  BY <1>1, <1>2, <1>3 DEF RunStep

\* Every step keeps it.
LEMMA OwnNext ==
  ASSUME TypeInv, OwnInv, [Next]_vars
  PROVE  OwnInv'
<1>1. CASE RunStep
  BY <1>1, StepIsOwn
<1>2. CASE Environment
  BY <1>2 DEF Environment, AppendAction, ProduceBlock, Reorganize, run, OwnInv
<1>3. ASSUME NEW skipped \in 0..MaxActions, NEW actionCount \in 0..MaxActions,
             NEW blockCount \in 1..MaxBlocks, Start(skipped, actionCount, blockCount)
      PROVE  OwnInv'
  BY <1>3 DEF Start, StartOn, Goto, OwnInv
<1>4. CASE Commit \/ Abort
  BY <1>4 DEF Commit, Abort, Forget, Goto, OwnInv
<1>5. CASE UNCHANGED vars
  BY <1>5 DEF vars, run, OwnInv
<1>6. QED
  BY <1>1, <1>2, <1>3, <1>4, <1>5 DEF Next, Program, RunStep

\* What is left to walk through is the end of the block's own list in every state.
LEMMA AlwaysOwn == Spec => []OwnInv
<1>1. Init => OwnInv
  BY DEF Init, OwnInv
<1>2. TypeInv /\ OwnInv /\ [Next]_vars => OwnInv'
  BY OwnNext
<1>3. QED
  BY <1>1, <1>2, AlwaysTyped, PTL DEF Spec

\* Whatever lists of Tron transactions may be passed with a block, those that are
\* counted are the block's own, in their order and each once: the Merkle tree of a
\* block determines its list, though its levels may have any number of nodes.  What
\* is hashed as a leaf is a transaction, longer than the two hashes of a pair.
THEOREM OnlyOwnTransactions == Spec => []OwnTransactions
<1>1. TypeInv /\ OwnInv => OwnTransactions
  <2>1. SUFFICES ASSUME TypeInv, OwnInv, pc = "txs"
                 PROVE  IsSuffix(txs, Last(work.latest).txs)
    BY DEF OwnTransactions
  <2>. DEFINE own == Last(work.latest).txs
  <2>2. txs \in Seq(Tx) /\ own \in Seq(Tx) /\ Ends(txs, own)
    BY <2>1, LatestBlock DEF TypeInv, RunTyped, OwnInv
  <2>. HIDE DEF own
  <2>3. QED
    BY <2>2, SuffixProperties DEF own
<1>2. QED
  BY <1>1, AlwaysTyped, AlwaysOwn, PTL

(***************************************************************************)
(* Sums over the transactions of a list of blocks.                         *)
(***************************************************************************)

\* Where the transactions of a list of blocks are: the block and the place there.
Places(latest) == UNION {{n} \X DOMAIN latest[n].txs : n \in DOMAIN latest}

TxAt(latest, p) == latest[p[1]].txs[p[2]]

\* What the transactions at some places are worth together.
Total(latest, worth, S) ==
  SumFunctionOnSet([p \in Places(latest) |-> worth[TxAt(latest, p)]], S)

\* The places are finitely many, and there is a transaction at each.
LEMMA PlacesType ==
  ASSUME NEW latest \in Seq(Block)
  PROVE  /\ IsFiniteSet(Places(latest))
         /\ \A n, k : <<n, k>> \in Places(latest) <=>
              n \in 1..Len(latest) /\ k \in 1..Len(latest[n].txs)
         /\ \A p \in Places(latest) :
              /\ p = <<p[1], p[2]>> /\ p[1] \in 1..Len(latest)
              /\ p[2] \in 1..Len(latest[p[1]].txs) /\ TxAt(latest, p) \in Tx
<1>. DEFINE at == [n \in DOMAIN latest |-> {n} \X DOMAIN latest[n].txs]
            all == {at[n] : n \in DOMAIN latest}
<1>1. DOMAIN latest = 1..Len(latest) /\ Len(latest) \in Nat
  BY LenProperties
<1>2. ASSUME NEW n \in DOMAIN latest
      PROVE  latest[n].txs \in Seq(Tx) /\ DOMAIN latest[n].txs = 1..Len(latest[n].txs)
             /\ Len(latest[n].txs) \in Nat
  <2>1. latest[n] \in Block
    BY <1>1, ElementOfSeq
  <2>2. latest[n].txs \in Seq(Tx)
    BY <2>1 DEF Block
  <2>3. QED
    BY <2>2, LenProperties
<1>3. Places(latest) = UNION all
  BY DEF Places
<1>4. IsFiniteSet(DOMAIN latest)
  BY <1>1, FS_Interval
<1>5. IsFiniteSet(all)
  <2>. DEFINE D == DOMAIN latest
  <2>. HIDE DEF at, D
  <2>1. IsFiniteSet({at[n] : n \in D})
    BY <1>4, ImageIsFinite DEF D
  <2>2. QED
    BY <2>1 DEF D
<1>6. ASSUME NEW T \in all PROVE IsFiniteSet(T)
  <2>1. PICK n \in DOMAIN latest : T = {n} \X DOMAIN latest[n].txs
    OBVIOUS
  <2>2. IsFiniteSet({n})
    BY FS_Singleton
  <2>3. IsFiniteSet(DOMAIN latest[n].txs)
    BY <1>2, FS_Interval
  <2>4. QED
    BY <2>1, <2>2, <2>3, FS_Product
<1>7. IsFiniteSet(Places(latest))
  <2>. HIDE DEF all
  <2>1. QED
    BY <1>3, <1>5, <1>6, FS_UNION
<1>8. \A n, k : <<n, k>> \in Places(latest) <=>
        n \in 1..Len(latest) /\ k \in 1..Len(latest[n].txs)
  BY <1>1, <1>2 DEF Places
<1>9. ASSUME NEW p \in Places(latest)
      PROVE  /\ p = <<p[1], p[2]>> /\ p[1] \in 1..Len(latest)
             /\ p[2] \in 1..Len(latest[p[1]].txs) /\ TxAt(latest, p) \in Tx
  <2>1. PICK n \in DOMAIN latest : p \in {n} \X DOMAIN latest[n].txs
    BY DEF Places
  <2>2. p = <<p[1], p[2]>> /\ p[1] = n /\ p[2] \in DOMAIN latest[n].txs
    BY <2>1
  <2>3. latest[n].txs[p[2]] \in Tx
    BY <1>2, <2>2, ElementOfSeq
  <2>4. QED
    BY <1>1, <1>2, <2>2, <2>3 DEF TxAt
<1>10. QED
  BY <1>7, <1>8, <1>9

\* The laws of these totals: nothing is worth 0, more is not worth less, and one
\* more transaction adds its own worth.
LEMMA TotalLaws ==
  ASSUME NEW latest \in Seq(Block), NEW worth \in [Tx -> Nat]
  PROVE  /\ Total(latest, worth, {}) = 0
         /\ \A S \in SUBSET Places(latest) : Total(latest, worth, S) \in Nat
         /\ \A S \in SUBSET Places(latest) : \A R \in SUBSET S :
              Total(latest, worth, R) <= Total(latest, worth, S)
         /\ \A S \in SUBSET Places(latest) : \A p \in Places(latest) \ S :
              Total(latest, worth, S \cup {p})
                = Total(latest, worth, S) + worth[TxAt(latest, p)]
<1>. DEFINE P == Places(latest)
            f == [p \in P |-> worth[TxAt(latest, p)]]
<1>1. IsFiniteSet(P) /\ \A p \in P : TxAt(latest, p) \in Tx
  BY PlacesType
<1>2. \A p \in P : f[p] \in Nat /\ f[p] \in Int /\ f[p] = worth[TxAt(latest, p)]
  BY <1>1
<1>3. \A S : Total(latest, worth, S) = SumFunctionOnSet(f, S)
  BY DEF Total
<1>. HIDE DEF f, P
<1>4. SumFunctionOnSet(f, {}) = 0
  BY SumEmpty
<1>5. ASSUME NEW S \in SUBSET P PROVE SumFunctionOnSet(f, S) \in Nat
  <2>1. IsFiniteSet(S) /\ \A p \in S : f[p] \in Nat
    BY <1>1, <1>2, FS_Subset
  <2>2. QED
    BY <2>1, SumNat
<1>6. ASSUME NEW S \in SUBSET P, NEW R \in SUBSET S
      PROVE  SumFunctionOnSet(f, R) <= SumFunctionOnSet(f, S)
  <2>1. IsFiniteSet(S) /\ \A p \in S : f[p] \in Int
    BY <1>1, <1>2, FS_Subset
  <2>2. SumFunctionOnSet(f, S) = SumFunctionOnSet(f, R) + SumFunctionOnSet(f, S \ R)
    BY <2>1, SumUnion
  <2>3. R \in SUBSET P /\ S \ R \in SUBSET P
    OBVIOUS
  <2>. DEFINE a == SumFunctionOnSet(f, R)
              b == SumFunctionOnSet(f, S \ R)
  <2>4. a \in Nat /\ b \in Nat
    BY <1>5, <2>3
  <2>. HIDE DEF a, b
  <2>5. a <= a + b
    BY <2>4
  <2>6. QED
    BY <2>2, <2>5 DEF a, b
<1>7. ASSUME NEW S \in SUBSET P, NEW p \in P \ S
      PROVE  SumFunctionOnSet(f, S \cup {p}) = SumFunctionOnSet(f, S) + f[p]
  <2>1. \A q \in P : f[q] \in Int
    BY <1>2
  <2>. DEFINE a == SumFunctionOnSet(f, S)
              v == f[p]
  <2>2. SumFunctionOnSet(f, S \cup {p}) = v + a
    BY <1>1, <2>1, SumAdd
  <2>3. a \in Nat /\ v \in Nat
    BY <1>2, <1>5
  <2>. HIDE DEF a, v
  <2>4. v + a = a + v
    BY <2>3
  <2>5. QED
    BY <2>2, <2>4 DEF a, v
<1>8. QED
  BY <1>2, <1>3, <1>4, <1>5, <1>6, <1>7 DEF P

\* More blocks change nothing about those that were there.
LEMMA MoreBlocks ==
  ASSUME NEW latest \in Seq(Block), NEW longer \in Seq(Block), Len(latest) <= Len(longer),
         \A n \in 1..Len(latest) : longer[n] = latest[n]
  PROVE  /\ Places(latest) \subseteq Places(longer)
         /\ \A p \in Places(latest) : TxAt(longer, p) = TxAt(latest, p)
         /\ \A p \in Places(longer) : p[1] <= Len(latest) => p \in Places(latest)
         /\ \A worth \in [Tx -> Nat] : \A S \in SUBSET Places(latest) :
              Total(longer, worth, S) = Total(latest, worth, S)
<1>0. Len(latest) \in Nat /\ Len(longer) \in Nat
  BY LenProperties
<1>1. ASSUME NEW p \in Places(latest)
      PROVE  p \in Places(longer) /\ TxAt(longer, p) = TxAt(latest, p)
  <2>1. /\ p = <<p[1], p[2]>> /\ p[1] \in 1..Len(latest)
        /\ p[2] \in 1..Len(latest[p[1]].txs)
    BY PlacesType
  <2>2. p[1] \in 1..Len(longer) /\ longer[p[1]] = latest[p[1]]
    BY <1>0, <2>1
  <2>3. <<p[1], p[2]>> \in Places(longer)
    BY <2>1, <2>2, PlacesType
  <2>4. QED
    BY <2>1, <2>2, <2>3 DEF TxAt
<1>2. ASSUME NEW p \in Places(longer), p[1] <= Len(latest) PROVE p \in Places(latest)
  <2>1. /\ p = <<p[1], p[2]>> /\ p[1] \in 1..Len(longer)
        /\ p[2] \in 1..Len(longer[p[1]].txs)
    BY PlacesType
  <2>2. p[1] \in 1..Len(latest) /\ longer[p[1]] = latest[p[1]]
    BY <1>0, <1>2, <2>1
  <2>3. <<p[1], p[2]>> \in Places(latest)
    BY <2>1, <2>2, PlacesType
  <2>4. QED
    BY <2>1, <2>3
<1>3. ASSUME NEW worth \in [Tx -> Nat], NEW S \in SUBSET Places(latest)
      PROVE  Total(longer, worth, S) = Total(latest, worth, S)
  <2>. DEFINE f == [p \in Places(latest) |-> worth[TxAt(latest, p)]]
              g == [p \in Places(longer) |-> worth[TxAt(longer, p)]]
  <2>1. IsFiniteSet(S)
    BY PlacesType, FS_Subset
  <2>2. \A p \in S : f[p] \in Int /\ g[p] = f[p]
    BY <1>1, PlacesType
  <2>3. Total(longer, worth, S) = SumFunctionOnSet(g, S)
        /\ Total(latest, worth, S) = SumFunctionOnSet(f, S)
    BY DEF Total
  <2>. HIDE DEF f, g
  <2>4. SumFunctionOnSet(g, S) = SumFunctionOnSet(f, S)
    BY <2>1, <2>2, SumSame
  <2>5. QED
    BY <2>3, <2>4
<1>4. QED
  BY <1>1, <1>2, <1>3

\* The places that a run has been at: all the blocks but the latest, and as much
\* of that as was walked through.
Walked(latest, label, todo) ==
  {p \in Places(latest) :
     \/ label \in {"idle", "verify"}
     \/ p[1] # Len(latest)
     \/ label = "txs" /\ p[2] + Len(todo) <= Len(latest[p[1]].txs)}

\* Between blocks everything was walked through, and so it is when no transaction
\* of a block is left.
LEMMA AllWalked ==
  ASSUME NEW latest \in Seq(Block), NEW todo
  PROVE  /\ Walked(latest, "idle", todo) = Places(latest)
         /\ Walked(latest, "verify", todo) = Places(latest)
         /\ Walked(latest, "txs", <<>>) = Places(latest)
<1>1. ASSUME NEW p \in Places(latest), NEW none, none = <<>>
      PROVE  p[2] + Len(none) <= Len(latest[p[1]].txs)
  <2>1. p[1] \in 1..Len(latest) /\ p[2] \in 1..Len(latest[p[1]].txs)
    BY PlacesType
  <2>2. latest[p[1]] \in Block
    BY <2>1, ElementOfSeq
  <2>3. latest[p[1]].txs \in Seq(Tx)
    BY <2>2 DEF Block
  <2>. DEFINE m == Len(latest[p[1]].txs)
              k == p[2]
              z == Len(none)
  <2>4. m \in Nat /\ k \in 1..m /\ z = 0
    BY <1>1, <2>1, <2>3, LenProperties, EmptySeq
  <2>. HIDE DEF m, k, z
  <2>5. k + z <= m
    BY <2>4
  <2>6. QED
    BY <2>5 DEF m, k, z
<1>2. QED
  BY <1>1 DEF Walked

\* A new block is not walked through when its actions are looked at, nor when its
\* transactions are about to be.
LEMMA NoneWalked ==
  ASSUME NEW latest \in Seq(Block), Len(latest) \in Nat \ {0}, NEW todo
  PROVE  Walked(latest, "txs", Last(latest).txs) = Walked(latest, "actions", todo)
<1>. DEFINE own == Last(latest).txs
<1>1. Last(latest) = latest[Len(latest)]
  BY EmptySeq DEF Last
<1>2. ASSUME NEW p \in Places(latest), p[1] = Len(latest)
      PROVE  ~(p[2] + Len(own) <= Len(latest[p[1]].txs))
  <2>1. p[2] \in 1..Len(own) /\ latest[p[1]] \in Block /\ own = latest[p[1]].txs
    BY <1>1, <1>2, PlacesType, ElementOfSeq
  <2>2. own \in Seq(Tx)
    BY <2>1 DEF Block
  <2>. DEFINE m == Len(own)
              k == p[2]
  <2>3. m \in Nat /\ k \in 1..m /\ Len(latest[p[1]].txs) = m
    BY <2>1, <2>2, LenProperties
  <2>. HIDE DEF m, k
  <2>4. ~(k + m <= m)
    BY <2>3
  <2>5. QED
    BY <2>3, <2>4 DEF m, k
<1>. HIDE DEF own
<1>3. QED
  BY <1>2 DEF Walked, own

\* When a block is taken in, what was walked through are the blocks before it.
LEMMA WalkedBefore ==
  ASSUME NEW latest \in Seq(Block), NEW block \in Block, NEW todo,
         NEW more, more = Append(latest, block)
  PROVE  /\ more \in Seq(Block) /\ Len(more) = Len(latest) + 1 /\ Len(latest) \in Nat
         /\ more[Len(more)] = block /\ Last(more) = block
         /\ \A n \in 1..Len(latest) : more[n] = latest[n]
         /\ Walked(more, "actions", todo) = Places(latest)
<1>1. /\ more \in Seq(Block) /\ Len(more) = Len(latest) + 1 /\ more[Len(latest) + 1] = block
      /\ \A n \in 1..Len(latest) : more[n] = latest[n]
  BY AppendProperties
<1>2. Len(latest) \in Nat
  BY LenProperties
<1>3. more # <<>>
  BY <1>1, <1>2, EmptySeq
<1>4. Last(more) = block
  BY <1>1, <1>3 DEF Last
<1>5. Len(latest) <= Len(more)
  BY <1>1, <1>2
<1>6. /\ Places(latest) \subseteq Places(more)
      /\ \A p \in Places(more) : p[1] <= Len(latest) => p \in Places(latest)
  BY <1>1, <1>5, MoreBlocks
<1>7. \A p \in Places(more) : p[1] \in 1..Len(more)
  BY <1>1, PlacesType
<1>8. \A p \in Places(latest) : p[1] \in 1..Len(latest)
  BY PlacesType
<1>9. \A p \in Places(more) : p[1] # Len(more) <=> p \in Places(latest)
  <2>. DEFINE a == Len(latest)
              b == Len(more)
  <2>1. a \in Nat /\ b = a + 1
    BY <1>1, <1>2
  <2>2. /\ \A p \in Places(more) : p[1] \in 1..b
        /\ \A p \in Places(latest) : p[1] \in 1..a
        /\ \A p \in Places(more) : p[1] <= a => p \in Places(latest)
    BY <1>6, <1>7, <1>8
  <2>. HIDE DEF a, b
  <2>3. \A p \in Places(more) : p[1] # b <=> p \in Places(latest)
    BY <2>1, <2>2
  <2>4. QED
    BY <2>3 DEF b
<1>10. Walked(more, "actions", todo) = {p \in Places(more) : p[1] # Len(more)}
  BY DEF Walked
<1>11. QED
  BY <1>1, <1>2, <1>4, <1>6, <1>9, <1>10

\* A transaction is walked through.
LEMMA WalkOne ==
  ASSUME NEW latest \in Seq(Block), Len(latest) \in Nat \ {0},
         NEW todo \in Seq(Tx), todo # <<>>, Ends(todo, Last(latest).txs)
  PROVE  \E p \in Places(latest) \ Walked(latest, "txs", todo) :
           /\ p[1] = Len(latest) /\ TxAt(latest, p) = Head(todo)
           /\ Walked(latest, "txs", Tail(todo)) = Walked(latest, "txs", todo) \cup {p}
<1>. DEFINE own == Last(latest).txs
            height == Len(latest)
            m == Len(own)
            l == Len(todo)
            k == m - Len(Tail(todo))
            p == <<height, k>>
<1>1. own = latest[height].txs /\ latest[height] \in Block
  BY EmptySeq, ElementOfSeq DEF Last
<1>2. own \in Seq(Tx)
  BY <1>1 DEF Block
<1>3. l \in Nat \ {0} /\ Len(Tail(todo)) = l - 1 /\ m \in Nat
  BY <1>2, EmptySeq, LenProperties, HeadTailProperties
<1>4. Ends(todo, own)
  OBVIOUS
<1>5. Head(todo) = own[k] /\ k \in 1..m
  <2>. HIDE DEF own
  <2>1. QED
    BY <1>2, <1>4, TailEnds
<1>6. k = m - (l - 1)
  BY <1>3
<1>7. <<height, k>> \in Places(latest)
  BY <1>1, <1>5, PlacesType
<1>8. p[1] = height /\ p[2] = k /\ TxAt(latest, p) = Head(todo)
  BY <1>1, <1>5 DEF TxAt
<1>9. ASSUME NEW q \in Places(latest)
      PROVE  /\ q[1] = height => latest[q[1]].txs = own
             /\ q[2] \in Nat /\ q = <<q[1], q[2]>>
  BY <1>1, PlacesType
<1>. HIDE DEF own, m, l, k, height
<1>10. ASSUME NEW q \in Places(latest), q[1] = height
       PROVE  /\ q[2] + (l - 1) <= m <=> q[2] + l <= m \/ q[2] = k
              /\ q[2] = k => ~(q[2] + l <= m)
  BY <1>3, <1>6, <1>9
<1>11. \A q \in Places(latest) : q[1] = height /\ q[2] = k <=> q = p
  BY <1>8, <1>9
<1>12. \A q \in Places(latest) :
         /\ q \in Walked(latest, "txs", todo) <=> q[1] # height \/ q[2] + l <= m
         /\ q \in Walked(latest, "txs", Tail(todo)) <=> q[1] # height \/ q[2] + (l - 1) <= m
  BY <1>3, <1>9 DEF Walked, height, m, l
<1>13. Walked(latest, "txs", todo) \subseteq Places(latest)
       /\ Walked(latest, "txs", Tail(todo)) \subseteq Places(latest)
  BY DEF Walked
<1>14. p \in Places(latest) /\ p \notin Walked(latest, "txs", todo)
  BY <1>7, <1>8, <1>10, <1>12
<1>15. Walked(latest, "txs", Tail(todo)) = Walked(latest, "txs", todo) \cup {p}
  <2>1. \A q \in Places(latest) :
          q \in Walked(latest, "txs", Tail(todo)) <=> q \in Walked(latest, "txs", todo) \/ q = p
    BY <1>10, <1>11, <1>12
  <2>. HIDE DEF p
  <2>2. QED
    BY <1>13, <1>14, <2>1
<1>16. QED
  BY <1>8, <1>14, <1>15 DEF height

(***************************************************************************)
(* The votes.                                                              *)
(*                                                                         *)
(* At every step of a run the votes are those that were walked through     *)
(* since the last maintenance block; a block that is not finished yet has  *)
(* had no maintenance.                                                     *)
(***************************************************************************)

VoteWorth == [tx \in Tx |-> tx.value]

\* The blocks that no maintenance block up to the last one follows or is.
Since(last) == {n \in Nat : \A m \in n..last : ~IsMaintenance(m)}

VotesFor(p, latest, last, S) ==
  {q \in S : TxAt(latest, q).to = p /\ TxAt(latest, q).success /\ q[1] \in Since(last)}

VotesCounted(votes, latest, last, S) ==
  \A p \in Producers :
    VotesOf(votes, p) = Total(latest, VoteWorth, VotesFor(p, latest, last, S))

\* The latest block that is finished.
Finished(latest, label) ==
  IF label \in {"actions", "txs"} THEN Len(latest) - 1 ELSE Len(latest)

RunVotes ==
  VotesCounted(work.votes, work.latest, Finished(work.latest, pc), Walked(work.latest, pc, txs))

VotesInv ==
  /\ VotesCounted(state.votes, state.latest, Len(state.latest), Places(state.latest))
  /\ RunVotes

\* The votes of blocks stay what they are when blocks are added.
LEMMA VotesStay ==
  ASSUME NEW latest \in Seq(Block), NEW longer \in Seq(Block), Len(latest) <= Len(longer),
         \A n \in 1..Len(latest) : longer[n] = latest[n],
         NEW votes, NEW last, NEW S \in SUBSET Places(latest),
         VotesCounted(votes, latest, last, S)
  PROVE  VotesCounted(votes, longer, last, S)
<1>1. VoteWorth \in [Tx -> Nat]
  BY DEF VoteWorth, Tx
<1>2. /\ \A p \in Places(latest) : TxAt(longer, p) = TxAt(latest, p)
      /\ \A T \in SUBSET Places(latest) :
           Total(longer, VoteWorth, T) = Total(latest, VoteWorth, T)
  BY <1>1, MoreBlocks
<1>3. ASSUME NEW p \in Producers
      PROVE  VotesOf(votes, p) = Total(longer, VoteWorth, VotesFor(p, longer, last, S))
  <2>1. VotesFor(p, longer, last, S) = VotesFor(p, latest, last, S)
    BY <1>2 DEF VotesFor
  <2>2. VotesFor(p, latest, last, S) \in SUBSET Places(latest)
    BY DEF VotesFor
  <2>3. QED
    BY <1>2, <2>1, <2>2 DEF VotesCounted
<1>4. QED
  BY <1>3 DEF VotesCounted

\* A transaction is walked through, and counted when it is a vote.
LEMMA VotesOfOneMore ==
  ASSUME NEW latest \in Seq(Block), NEW last, NEW S \in SUBSET Places(latest),
         NEW q \in Places(latest) \ S, NEW votes, NEW next,
         VotesCounted(votes, latest, last, S),
         ParsesAsVote(TxAt(latest, q)) =>
           /\ q[1] \in Since(last)
           /\ next = With(votes, TxAt(latest, q).to,
                          VotesOf(votes, TxAt(latest, q).to) + TxAt(latest, q).value),
         ~ParsesAsVote(TxAt(latest, q)) => next = votes
  PROVE  VotesCounted(next, latest, last, S \cup {q})
<1>. DEFINE tx == TxAt(latest, q)
            for(p) == VotesFor(p, latest, last, S)
            more(p) == VotesFor(p, latest, last, S \cup {q})
<1>1. VoteWorth \in [Tx -> Nat]
  BY DEF VoteWorth, Tx
<1>2. tx \in Tx /\ VoteWorth[tx] = tx.value /\ tx.value \in Nat
  <2>1. tx \in Tx
    BY PlacesType
  <2>2. QED
    BY <2>1 DEF VoteWorth, Tx
<1>3. ASSUME NEW p \in Producers
      PROVE  VotesOf(next, p) = Total(latest, VoteWorth, more(p))
  <2>0. for(p) \in SUBSET Places(latest) /\ q \in Places(latest) \ for(p)
    BY DEF VotesFor
  <2>1. VotesOf(votes, p) = Total(latest, VoteWorth, for(p))
    BY DEF VotesCounted
  <2>2. CASE ParsesAsVote(tx) /\ tx.to = p
    <3>1. more(p) = for(p) \cup {q}
      BY <2>2 DEF VotesFor, ParsesAsVote
    <3>2. Total(latest, VoteWorth, for(p) \cup {q})
            = Total(latest, VoteWorth, for(p)) + VoteWorth[tx]
      BY <1>1, <2>0, TotalLaws
    <3>3. VotesOf(next, p) = VotesOf(votes, p) + tx.value
      BY <2>2 DEF VotesOf, With
    <3>4. QED
      BY <1>2, <2>1, <3>1, <3>2, <3>3
  <2>3. CASE ~(ParsesAsVote(tx) /\ tx.to = p)
    <3>1. more(p) = for(p)
      BY <2>3 DEF VotesFor, ParsesAsVote
    <3>2. VotesOf(next, p) = VotesOf(votes, p)
      BY <2>3 DEF VotesOf, With
    <3>3. QED
      BY <2>1, <3>1, <3>2
  <2>4. QED
    BY <2>2, <2>3
<1>4. QED
  BY <1>3 DEF VotesCounted

\* A block is taken in: none of its votes is counted yet.
LEMMA VerifyVotes ==
  ASSUME TypeInv, RunVotes, VerifyBlock
  PROVE  RunVotes'
<1>1. IsState(work) /\ blocks \in Seq(Block) /\ blocks # <<>> /\ pc = "verify"
  BY DEF TypeInv, RunTyped, VerifyBlock
<1>2. PICK latest : latest = work.latest
  OBVIOUS
<1>3. PICK votes : votes = work.votes
  OBVIOUS
<1>4. PICK block : block = Head(blocks)
  OBVIOUS
<1>5. latest \in Seq(Block) /\ block \in Block
  BY <1>1, <1>2, <1>4, HeadTailProperties DEF IsState
<1>6. VotesCounted(votes, latest, Len(latest), Places(latest))
  BY <1>1, <1>2, <1>3, <1>5, AllWalked DEF RunVotes, Finished
<1>7. txs' = txs /\ work'.votes = votes
  BY <1>1, <1>3, VerifyFields DEF VerifyBlock
<1>8. CASE IsUnfinalized(blocks)
  <2>1. work'.latest = latest /\ pc' = "verify"
    BY <1>1, <1>2, <1>8, VerifyFields DEF VerifyBlock
  <2>2. QED
    BY <1>1, <1>2, <1>3, <1>7, <2>1 DEF RunVotes
<1>9. CASE ~IsUnfinalized(blocks)
  <2>1. PICK more : more = Append(latest, block)
    OBVIOUS
  <2>2. work'.latest = more /\ pc' = "actions"
    BY <1>1, <1>2, <1>4, <1>9, <2>1, VerifyFields DEF VerifyBlock, Goto
  <2>3. /\ more \in Seq(Block) /\ Len(more) = Len(latest) + 1 /\ Len(latest) \in Nat
        /\ \A n \in 1..Len(latest) : more[n] = latest[n]
        /\ Walked(more, "actions", txs) = Places(latest)
    <3>1. PICK todo : todo = txs
      OBVIOUS
    <3>2. Walked(more, "actions", todo) = Places(latest)
      BY <1>5, <2>1, WalkedBefore
    <3>3. QED
      BY <1>5, <2>1, <3>1, <3>2, WalkedBefore
  <2>4. Len(latest) <= Len(more) /\ Len(more) - 1 = Len(latest)
    BY <2>3
  <2>5. VotesCounted(votes, more, Len(latest), Places(latest))
    BY <1>5, <1>6, <2>3, <2>4, VotesStay
  <2>6. Finished(more, "actions") = Len(latest)
    BY <2>4 DEF Finished
  <2>7. QED
    BY <1>7, <2>2, <2>3, <2>5, <2>6 DEF RunVotes
<1>10. QED
  BY <1>8, <1>9

\* Before the transactions of a block are walked through no vote is counted.
LEMMA ActionsVotes ==
  ASSUME TypeInv, RunVotes, OpenOrder \/ CloseOrder \/ WalkThrough
  PROVE  RunVotes'
<1>1. IsState(work) /\ pc = "actions"
  BY DEF TypeInv, RunTyped, OpenOrder, CloseOrder, WalkThrough
<1>2. work'.latest = work.latest /\ work'.votes = work.votes
  BY <1>1, OpenFields, CloseFields DEF WalkThrough
<1>3. CASE OpenOrder \/ CloseOrder
  <2>1. pc' = pc /\ txs' = txs
    BY <1>3 DEF OpenOrder, CloseOrder
  <2>2. QED
    BY <1>2, <2>1 DEF RunVotes
<1>4. CASE WalkThrough
  <2>1. pc' = "txs" /\ txs' = Last(work.latest).txs
    BY <1>4, WalkIsOwn DEF WalkThrough, Goto
  <2>2. PICK latest : latest = work.latest
    OBVIOUS
  <2>3. latest \in Seq(Block) /\ Len(latest) \in Nat \ {0}
    BY <1>1, <2>2, LatestBlock
  <2>4. Walked(latest, "txs", txs') = Walked(latest, "actions", txs)
    BY <2>1, <2>2, <2>3, NoneWalked
  <2>5. Finished(latest, "txs") = Finished(latest, "actions")
    BY DEF Finished
  <2>6. QED
    BY <1>1, <1>2, <2>1, <2>2, <2>4, <2>5 DEF RunVotes
<1>5. QED
  BY <1>3, <1>4

\* A transaction is walked through: if it is a vote, it is counted.
LEMMA WalkVotes ==
  ASSUME TypeInv, OwnInv, RunVotes, IgnoreTx \/ CountTransfer \/ CountVote
  PROVE  RunVotes'
<1>1. /\ IsState(work) /\ pc = "txs" /\ pc' = "txs" /\ txs \in Seq(Tx) /\ txs # <<>>
      /\ txs' = Tail(txs)
  BY DEF IgnoreTx, CountTransfer, CountVote, NextTx, TypeInv, RunTyped
<1>2. PICK latest : latest = work.latest
  OBVIOUS
<1>3. PICK votes : votes = work.votes
  OBVIOUS
<1>4. PICK next : next = work'.votes
  OBVIOUS
<1>5. PICK todo : todo = txs
  OBVIOUS
<1>6. latest \in Seq(Block) /\ Len(latest) \in Nat \ {0} /\ Ends(todo, Last(latest).txs)
  BY <1>1, <1>2, <1>5, LatestBlock DEF OwnInv
<1>. DEFINE S == Walked(latest, "txs", todo)
            last == Len(latest) - 1
<1>7. PICK q \in Places(latest) \ S :
        /\ q[1] = Len(latest) /\ TxAt(latest, q) = Head(todo)
        /\ Walked(latest, "txs", Tail(todo)) = S \cup {q}
  BY <1>1, <1>5, <1>6, WalkOne
<1>8. VotesCounted(votes, latest, last, S)
  BY <1>1, <1>2, <1>3, <1>5 DEF RunVotes, Finished
<1>9. work'.latest = latest
  BY <1>1, <1>2, TransferFields, VoteFields DEF IgnoreTx
<1>10. q[1] \in Since(last)
  <2>1. last \in Int /\ q[1] = last + 1 /\ q[1] \in Nat
    BY <1>6, <1>7
  <2>. HIDE DEF last
  <2>2. q[1]..last = {}
    BY <2>1
  <2>3. QED
    BY <2>1, <2>2 DEF Since
<1>11. ParsesAsVote(Head(todo)) =>
         next = With(votes, Head(todo).to, VotesOf(votes, Head(todo).to) + Head(todo).value)
  <2>1. CASE CountVote
    BY <1>1, <1>3, <1>4, <1>5, <2>1, VoteFields
  <2>2. CASE IgnoreTx
    BY <1>5, <2>2 DEF IgnoreTx
  <2>3. CASE CountTransfer
    BY <1>5, <2>3, ProgramAssumption DEF CountTransfer, ParsesAsTransfer, ParsesAsVote
  <2>4. QED
    BY <2>1, <2>2, <2>3
<1>12. ~ParsesAsVote(Head(todo)) => next = votes
  <2>1. CASE CountVote
    BY <1>5, <2>1 DEF CountVote
  <2>2. CASE IgnoreTx
    BY <1>3, <1>4, <2>2 DEF IgnoreTx
  <2>3. CASE CountTransfer
    BY <1>1, <1>3, <1>4, <2>3, TransferFields
  <2>4. QED
    BY <2>1, <2>2, <2>3
<1>13. S \in SUBSET Places(latest)
  BY DEF Walked
<1>14. VotesCounted(next, latest, last, S \cup {q})
  <2>. HIDE DEF S, last
  <2>1. QED
    BY <1>6, <1>7, <1>8, <1>10, <1>11, <1>12, <1>13, VotesOfOneMore
<1>15. QED
  BY <1>1, <1>4, <1>5, <1>7, <1>9, <1>14 DEF RunVotes, Finished

\* A block is finished: its votes join the others, or it starts them anew.
LEMMA FinishVotes ==
  ASSUME TypeInv, RunVotes, FinishBlock
  PROVE  RunVotes'
<1>1. /\ IsState(work) /\ pc = "txs" /\ pc' = "verify" /\ txs = <<>> /\ txs' = txs
  BY DEF FinishBlock, TypeInv, RunTyped, Goto
<1>2. PICK latest : latest = work.latest
  OBVIOUS
<1>3. PICK votes : votes = work.votes
  OBVIOUS
<1>4. latest \in Seq(Block) /\ Len(latest) \in Nat \ {0}
  BY <1>1, <1>2, LatestBlock
<1>. DEFINE height == Len(latest)
<1>5. VotesCounted(votes, latest, height - 1, Places(latest))
  BY <1>1, <1>2, <1>3, <1>4, AllWalked DEF RunVotes, Finished
<1>6. work'.latest = latest
  BY <1>1, <1>2, FinishFields
<1>7. \A q \in Places(latest) : q[1] \in 1..height
  BY <1>4, PlacesType
<1>8. VotesCounted(work'.votes, latest, height, Places(latest))
  <2>1. CASE IsMaintenance(height)
    <3>1. work'.votes = Nothing
      BY <1>2, <2>1 DEF FinishBlock, AfterMaintenance, IsState, TypeInv, RunTyped
    <3>2. ASSUME NEW q \in Places(latest) PROVE q[1] \notin Since(height)
      <4>1. height \in q[1]..height
        <5>1. height \in Nat /\ q[1] \in 1..height
          BY <1>4, <1>7
        <5>. HIDE DEF height
        <5>2. QED
          BY <5>1
      <4>2. QED
        BY <2>1, <4>1 DEF Since
    <3>3. \A p \in Producers : VotesFor(p, latest, height, Places(latest)) = {}
      BY <3>2 DEF VotesFor
    <3>4. Total(latest, VoteWorth, {}) = 0
      BY <1>4, TotalLaws DEF VoteWorth, Tx
    <3>5. \A p \in Producers : VotesOf(Nothing, p) = 0
      BY DEF VotesOf, Nothing
    <3>6. QED
      BY <3>1, <3>3, <3>4, <3>5 DEF VotesCounted
  <2>2. CASE ~IsMaintenance(height)
    <3>1. work'.votes = votes
      BY <1>2, <1>3, <2>2 DEF FinishBlock
    <3>2. ASSUME NEW q \in Places(latest)
          PROVE  q[1] \in Since(height) <=> q[1] \in Since(height - 1)
      <4>1. q[1] \in 1..height /\ height \in Nat
        BY <1>4, <1>7
      <4>. HIDE DEF height
      <4>2. q[1]..height = q[1]..height - 1 \cup {height}
        BY <4>1
      <4>3. QED
        BY <2>2, <4>1, <4>2 DEF Since
    <3>3. \A p \in Producers : VotesFor(p, latest, height, Places(latest))
                                = VotesFor(p, latest, height - 1, Places(latest))
      BY <3>2 DEF VotesFor
    <3>4. QED
      BY <1>5, <3>1, <3>3 DEF VotesCounted
  <2>3. QED
    BY <2>1, <2>2
<1>9. QED
  BY <1>1, <1>4, <1>6, <1>8, AllWalked DEF RunVotes, Finished

\* At the start there is nothing to count.
LEMMA VotesInit == Init => VotesInv
<1>. SUFFICES ASSUME Init PROVE VotesInv
  OBVIOUS
<1>1. state.latest = <<>> /\ state.votes = Nothing /\ work = state /\ pc = "idle"
  BY DEF Init
<1>2. PICK latest : latest = state.latest
  OBVIOUS
<1>3. latest = <<>> /\ latest \in Seq(Block)
  BY <1>1, <1>2
<1>4. Places(latest) = {}
  BY <1>3 DEF Places
<1>5. Total(latest, VoteWorth, {}) = 0
  BY <1>3, TotalLaws DEF VoteWorth, Tx
<1>6. \A last : VotesCounted(Nothing, latest, last, {})
  BY <1>5 DEF VotesCounted, VotesFor, VotesOf, Nothing
<1>7. Walked(latest, "idle", txs) = {}
  BY <1>4 DEF Walked
<1>8. QED
  BY <1>1, <1>2, <1>4, <1>6, <1>7 DEF VotesInv, RunVotes

\* Every step keeps count of the votes.
LEMMA VotesNext ==
  ASSUME TypeInv, LedgerInv, OwnInv, VotesInv, [Next]_vars
  PROVE  VotesInv'
<1>1. CASE Environment
  BY <1>1 DEF Environment, AppendAction, ProduceBlock, Reorganize, run, VotesInv, RunVotes
<1>2. ASSUME NEW skipped \in 0..MaxActions, NEW actionCount \in 0..MaxActions,
             NEW blockCount \in 1..MaxBlocks, Start(skipped, actionCount, blockCount)
      PROVE  VotesInv'
  <2>1. PICK from : from = state
    OBVIOUS
  <2>2. /\ IsState(from) /\ StartOn(from, skipped, actionCount, blockCount) /\ state' = state
        /\ skipped \in Nat /\ actionCount \in Nat /\ blockCount \in Nat
    BY <1>2, <2>1, ProgramAssumption DEF Start, TypeInv
  <2>0. work'.latest = from.latest /\ work'.votes = from.votes
    BY <2>2, StartFields
  <2>3. work'.latest = state.latest /\ work'.votes = state.votes /\ pc' = "verify"
    BY <2>0, <2>1, <2>2 DEF StartOn, Goto
  <2>4. state.latest \in Seq(Block)
    BY DEF TypeInv, IsState
  <2>5. Walked(state.latest, "verify", txs') = Places(state.latest)
    BY <2>4, AllWalked
  <2>6. QED
    BY <2>2, <2>3, <2>5 DEF VotesInv, RunVotes, Finished
<1>3. CASE RunStep
  <2>1. RunVotes'
    BY <1>3, VerifyVotes, ActionsVotes, WalkVotes, FinishVotes DEF VotesInv, RunStep
  <2>2. state' = state
    BY <1>3 DEF RunStep, VerifyBlock, OpenOrder, CloseOrder, WalkThrough, IgnoreTx, CountTransfer,
           CountVote, FinishBlock
  <2>3. QED
    BY <2>1, <2>2 DEF VotesInv
<1>4. CASE Commit \/ Abort
  <2>1. PICK proven : proven = state'
    OBVIOUS
  <2>2. IsState(proven) /\ work' = proven /\ pc' = "idle"
    BY <1>4, <2>1 DEF Commit, Abort, Forget, Goto, TypeInv, RunTyped
  <2>3. VotesCounted(proven.votes, proven.latest, Len(proven.latest), Places(proven.latest))
    <3>1. CASE Commit
      <4>1. proven = work /\ pc = "verify"
        BY <2>1, <3>1 DEF Commit
      <4>2. work.latest \in Seq(Block)
        BY DEF TypeInv, RunTyped, IsState
      <4>3. QED
        BY <4>1, <4>2, AllWalked DEF VotesInv, RunVotes, Finished
    <3>2. CASE Abort
      BY <2>1, <3>2 DEF Abort, VotesInv
    <3>3. QED
      BY <1>4, <3>1, <3>2
  <2>4. Walked(proven.latest, "idle", txs') = Places(proven.latest)
    <3>1. proven.latest \in Seq(Block)
      BY <2>2 DEF IsState
    <3>2. QED
      BY <3>1, AllWalked
  <2>5. QED
    BY <2>1, <2>2, <2>3, <2>4 DEF VotesInv, RunVotes, Finished
<1>5. CASE UNCHANGED vars
  BY <1>5 DEF vars, run, VotesInv, RunVotes
<1>6. QED
  BY <1>1, <1>2, <1>3, <1>4, <1>5 DEF Next, Program, RunStep

\* The votes are counted right in every state.
LEMMA AlwaysCounted == Spec => []VotesInv
<1>1. TypeInv /\ LedgerInv /\ OwnInv /\ VotesInv /\ [Next]_vars => VotesInv'
  BY VotesNext
<1>2. QED
  BY <1>1, VotesInit, AlwaysTyped, AlwaysLedger, AlwaysOwn, PTL DEF Spec

\* The transactions of some of the blocks.
LEMMA PlacesIn ==
  ASSUME NEW latest \in Seq(Block), NEW heights \in SUBSET (1..Len(latest))
  PROVE  UNION {{n} \X DOMAIN latest[n].txs : n \in heights}
           = {p \in Places(latest) : p[1] \in heights}
<1>1. DOMAIN latest = 1..Len(latest)
  BY LenProperties
<1>2. QED
  BY <1>1 DEF Places

\* A sum over transactions is a total.
LEMMA SumIsTotal ==
  ASSUME NEW latest \in Seq(Block), NEW worth \in [Tx -> Nat],
         NEW S \in SUBSET Places(latest), NEW g, DOMAIN g = S,
         \A p \in S : g[p] = worth[TxAt(latest, p)]
  PROVE  SumFunction(g) = Total(latest, worth, S)
<1>. DEFINE f == [p \in Places(latest) |-> worth[TxAt(latest, p)]]
<1>1. IsFiniteSet(S)
  BY PlacesType, FS_Subset
<1>2. \A p \in S : f[p] \in Int /\ g[p] = f[p]
  BY PlacesType
<1>3. Total(latest, worth, S) = SumFunctionOnSet(f, S)
  BY DEF Total
<1>4. SumFunction(g) = SumFunctionOnSet(g, S)
  BY DEF SumFunction
<1>. HIDE DEF f
<1>5. SumFunctionOnSet(g, S) = SumFunctionOnSet(f, S)
  BY <1>1, <1>2, SumSame
<1>6. QED
  BY <1>3, <1>4, <1>5

\* The votes that the next election will count are those of the final blocks since
\* the last maintenance block, each once, however the blocks were cut into runs and
\* whichever of PassedLists were passed with them.
THEOREM VotesAreTrons == Spec => []VotesMatchTron
<1>1. TypeInv /\ VotesInv => VotesMatchTron
  <2>. SUFFICES ASSUME TypeInv, VotesInv PROVE VotesMatchTron
    OBVIOUS
  <2>1. PICK latest : latest = state.latest
    OBVIOUS
  <2>. DEFINE height == Len(latest)
              since == {n \in 1..height : \A m \in n..height : ~IsMaintenance(m)}
  <2>2. latest \in Seq(Block) /\ height \in Nat
    BY <2>1, LenProperties DEF TypeInv, IsState
  <2>3. VoteWorth \in [Tx -> Nat] /\ \A tx \in Tx : VoteWorth[tx] = tx.value
    BY DEF VoteWorth, Tx
  <2>4. ASSUME NEW p \in Producers
        PROVE  SumTo(p, since, LAMBDA tx : tx.value) = VotesOf(state.votes, p)
    <3>. DEFINE S == VotesFor(p, latest, height, Places(latest))
                g == [q \in TxsTo(p, since) |-> latest[q[1]].txs[q[2]].value]
    <3>1. TxsTo(p, since) = S
      <4>1. UNION {{n} \X DOMAIN latest[n].txs : n \in since}
              = {q \in Places(latest) : q[1] \in since}
        <5>1. since \in SUBSET (1..height)
          OBVIOUS
        <5>. HIDE DEF since
        <5>2. QED
          BY <2>2, <5>1, PlacesIn
      <4>2. TxsTo(p, since) = {q \in {r \in Places(latest) : r[1] \in since} :
                 TxAt(latest, q).to = p /\ TxAt(latest, q).success}
        <5>. HIDE DEF since
        <5>1. QED
          BY <2>1, <4>1 DEF TxsTo, TxAt
      <4>3. \A q \in Places(latest) : q[1] \in since <=> q[1] \in Since(height)
        <5>1. \A q \in Places(latest) : q[1] \in 1..height
          BY <2>2, PlacesType
        <5>2. QED
          BY <5>1 DEF Since
      <4>. HIDE DEF since
      <4>4. QED
        BY <4>2, <4>3 DEF VotesFor
    <3>2. S \in SUBSET Places(latest)
      BY DEF VotesFor
    <3>3. DOMAIN g = S /\ \A q \in S : g[q] = VoteWorth[TxAt(latest, q)]
      BY <2>2, <2>3, <3>1, <3>2, PlacesType DEF TxAt
    <3>4. SumTo(p, since, LAMBDA tx : tx.value) = SumFunction(g)
      BY <2>1 DEF SumTo
    <3>. HIDE DEF g, S, since
    <3>5. SumFunction(g) = Total(latest, VoteWorth, S)
      BY <2>2, <2>3, <3>2, <3>3, SumIsTotal
    <3>6. VotesOf(state.votes, p) = Total(latest, VoteWorth, S)
      BY <2>1 DEF VotesInv, VotesCounted, S
    <3>7. QED
      BY <3>4, <3>5, <3>6
  <2>5. QED
    BY <2>1, <2>4 DEF VotesMatchTron
<1>2. QED
  BY <1>1, AlwaysTyped, AlwaysCounted, PTL

(***************************************************************************)
(* The inflows.                                                            *)
(*                                                                         *)
(* An order lives from the first block that reaches its action to the      *)
(* first that reaches the next action on its address that was not left     *)
(* out, by the times that the program reads.  What is counted for it are   *)
(* payments in these blocks: an address that is listened to stands for the *)
(* last such action on it behind the state, and every action that a block  *)
(* has reached is behind the state when the payments of that block are     *)
(* counted.  When more actions are left out lives get longer.              *)
(***************************************************************************)

\* The n-th block is in the life of an order.
InLife(acts, missed, id, latest, n) ==
  /\ ReachedBy(latest, n, acts[id].timestamp)
  /\ \A j \in DOMAIN acts \ missed : j > id /\ acts[j].address = acts[id].address =>
       ~ReachedBy(latest, n, acts[j].timestamp)

PayWorth == [tx \in Tx |-> ParsedValue(tx)]

\* The payments to the address of an order during its life, and their sum.
PaymentsFor(acts, missed, id, latest, S) ==
  {p \in S : /\ TxAt(latest, p).to = acts[id].address /\ TxAt(latest, p).success
             /\ InLife(acts, missed, id, latest, p[1])}

PaidFor(acts, missed, id, latest, S) == Total(latest, PayWorth, PaymentsFor(acts, missed, id, latest, S))

\* The reports that the payments at some places cover.
CoveredBy(acts, missed, latest, S) ==
  {r \in [id : Ids, inflow : Nat] :
     r.id \in DOMAIN acts /\ r.inflow <= PaidFor(acts, missed, r.id, latest, S)}

\* The payments cover what is counted for the open orders and for the closed ones.
Covered(acts, missed, orders, reports, latest, S) ==
  /\ \A id \in DOMAIN orders : Report(id, orders[id]) \in CoveredBy(acts, missed, latest, S)
  /\ reports \in Seq(CoveredBy(acts, missed, latest, S))

\* The actions behind a state that were not left out were reached by its blocks.
Waited(s) ==
  \A i \in DOMAIN chain \ s.missed : i <= Behind(s) =>
    ReachedBy(s.latest, Len(s.latest), chain[i].timestamp)

\* The actions that one of the first blocks of a state has reached are behind it.
Settled(s, last) ==
  \A m \in 1..last :
    /\ read_varint(s.latest[m].timestamp) < now
    /\ \A i \in DOMAIN chain :
         chain[i].timestamp <= read_varint(s.latest[m].timestamp) => i <= Behind(s)

\* The latest block whose actions were looked at.
Looked(latest, label) == IF label = "actions" THEN Len(latest) - 1 ELSE Len(latest)

\* No later action on an active address is behind the state, of those not left out.
ListensToLast ==
  \A a \in Addresses : active[a] # NoId =>
    \A j \in DOMAIN chain \ work.missed : active[a] < j /\ j <= Behind(work) => chain[j].address # a

RunClock == Waited(work) /\ Settled(work, Looked(work.latest, pc)) /\ ListensToLast

RunPayments ==
  Covered(chain, work.missed, work.orders, closed, work.latest, Walked(work.latest, pc, txs))

PaymentInv ==
  /\ Waited(state) /\ Settled(state, Len(state.latest))
  /\ Covered(chain, state.missed, state.orders, reported, state.latest, Places(state.latest))
  /\ state.missed \subseteq work.missed
  /\ RunClock /\ RunPayments

\* A payment is worth a natural number.
LEMMA PayWorthType ==
  PayWorth \in [Tx -> Nat] /\ \A tx \in Tx : PayWorth[tx] = ParsedValue(tx)
<1>1. ASSUME NEW tx \in Tx PROVE ParsedValue(tx) \in Nat
  <2>1. tx.value \in Nat
    BY DEF Tx
  <2>2. QED
    BY <2>1, ValueIsNat DEF ParsedValue
<1>2. QED
  BY <1>1 DEF PayWorth

\* The payments for an order grow with the blocks and with what is walked through.
LEMMA PaidGrows ==
  ASSUME NEW latest \in Seq(Block), NEW longer \in Seq(Block), Len(latest) <= Len(longer),
         \A n \in 1..Len(latest) : longer[n] = latest[n],
         NEW S \in SUBSET Places(latest), NEW T \in SUBSET Places(longer), S \subseteq T,
         NEW acts, NEW missed, NEW id
  PROVE  /\ PaidFor(acts, missed, id, latest, S) \in Nat /\ PaidFor(acts, missed, id, longer, T) \in Nat
         /\ PaidFor(acts, missed, id, latest, S) <= PaidFor(acts, missed, id, longer, T)
<1>. DEFINE A == PaymentsFor(acts, missed, id, latest, S)
            B == PaymentsFor(acts, missed, id, longer, T)
<1>0. PayWorth \in [Tx -> Nat]
  BY PayWorthType
<1>1. \A p \in Places(latest) : TxAt(longer, p) = TxAt(latest, p)
  BY MoreBlocks
<1>2. ASSUME NEW n \in 1..Len(latest)
      PROVE  InLife(acts, missed, id, latest, n) = InLife(acts, missed, id, longer, n)
  <2>1. \A m \in 1..n : m \in 1..Len(latest)
    BY LenProperties
  <2>2. \A time : ReachedBy(latest, n, time) = ReachedBy(longer, n, time)
    BY <2>1 DEF ReachedBy
  <2>3. QED
    BY <2>2 DEF InLife
<1>3. \A p \in Places(latest) : p[1] \in 1..Len(latest)
  BY PlacesType
<1>4. A \subseteq B /\ A \in SUBSET Places(latest) /\ B \in SUBSET Places(longer)
  BY <1>1, <1>2, <1>3 DEF PaymentsFor
<1>5. PaidFor(acts, missed, id, latest, S) = Total(latest, PayWorth, A)
      /\ PaidFor(acts, missed, id, longer, T) = Total(longer, PayWorth, B)
  BY DEF PaidFor
<1>. HIDE DEF A, B
<1>6. Total(longer, PayWorth, A) = Total(latest, PayWorth, A)
  BY <1>0, <1>4, MoreBlocks
<1>7. /\ Total(latest, PayWorth, A) \in Nat /\ Total(longer, PayWorth, B) \in Nat
      /\ Total(longer, PayWorth, A) <= Total(longer, PayWorth, B)
  BY <1>0, <1>4, TotalLaws
<1>8. QED
  BY <1>5, <1>6, <1>7

\* What is covered stays covered.
LEMMA CoveredGrows ==
  ASSUME NEW latest \in Seq(Block), NEW longer \in Seq(Block), Len(latest) <= Len(longer),
         \A n \in 1..Len(latest) : longer[n] = latest[n],
         NEW S \in SUBSET Places(latest), NEW T \in SUBSET Places(longer), S \subseteq T,
         NEW acts, NEW missed
  PROVE  /\ CoveredBy(acts, missed, latest, S) \subseteq CoveredBy(acts, missed, longer, T)
         /\ \A orders, reports :
              Covered(acts, missed, orders, reports, latest, S) => Covered(acts, missed, orders, reports, longer, T)
<1>1. ASSUME NEW r \in CoveredBy(acts, missed, latest, S) PROVE r \in CoveredBy(acts, missed, longer, T)
  <2>. DEFINE a == PaidFor(acts, missed, r.id, latest, S)
              b == PaidFor(acts, missed, r.id, longer, T)
              v == r.inflow
  <2>1. a \in Nat /\ b \in Nat /\ a <= b
    BY PaidGrows
  <2>2. r \in [id : Ids, inflow : Nat] /\ v \in Nat /\ v <= a /\ r.id \in DOMAIN acts
    BY DEF CoveredBy
  <2>. HIDE DEF a, b, v
  <2>3. v <= b
    BY <2>1, <2>2
  <2>4. QED
    BY <2>2, <2>3 DEF CoveredBy, b, v
<1>2. ASSUME NEW reports \in Seq(CoveredBy(acts, missed, latest, S))
      PROVE  reports \in Seq(CoveredBy(acts, missed, longer, T))
  BY <1>1, SeqMonotonic
<1>3. QED
  BY <1>1, <1>2 DEF Covered

\* What is covered stays covered when more actions are left out.
LEMMA CoveredOutlastsGaps ==
  ASSUME NEW latest \in Seq(Block), NEW S \in SUBSET Places(latest), NEW acts,
         NEW few, NEW missed, few \subseteq missed
  PROVE  /\ CoveredBy(acts, few, latest, S) \subseteq CoveredBy(acts, missed, latest, S)
         /\ \A orders, reports :
              Covered(acts, few, orders, reports, latest, S)
                => Covered(acts, missed, orders, reports, latest, S)
<1>1. \A id, n : InLife(acts, few, id, latest, n) => InLife(acts, missed, id, latest, n)
  BY DEF InLife
<1>2. ASSUME NEW id
      PROVE  /\ PaidFor(acts, few, id, latest, S) \in Nat
             /\ PaidFor(acts, missed, id, latest, S) \in Nat
             /\ PaidFor(acts, few, id, latest, S) <= PaidFor(acts, missed, id, latest, S)
  <2>. DEFINE A == PaymentsFor(acts, few, id, latest, S)
              B == PaymentsFor(acts, missed, id, latest, S)
  <2>1. A \subseteq B /\ A \in SUBSET Places(latest) /\ B \in SUBSET Places(latest)
    BY <1>1 DEF PaymentsFor
  <2>2. PaidFor(acts, few, id, latest, S) = Total(latest, PayWorth, A)
        /\ PaidFor(acts, missed, id, latest, S) = Total(latest, PayWorth, B)
    BY DEF PaidFor
  <2>. HIDE DEF A, B
  <2>3. /\ Total(latest, PayWorth, A) \in Nat /\ Total(latest, PayWorth, B) \in Nat
        /\ Total(latest, PayWorth, A) <= Total(latest, PayWorth, B)
    BY <2>1, PayWorthType, TotalLaws
  <2>4. QED
    BY <2>2, <2>3
<1>3. ASSUME NEW r \in CoveredBy(acts, few, latest, S)
      PROVE  r \in CoveredBy(acts, missed, latest, S)
  <2>. DEFINE a == PaidFor(acts, few, r.id, latest, S)
              b == PaidFor(acts, missed, r.id, latest, S)
              v == r.inflow
  <2>1. a \in Nat /\ b \in Nat /\ a <= b
    BY <1>2
  <2>2. r \in [id : Ids, inflow : Nat] /\ v \in Nat /\ v <= a /\ r.id \in DOMAIN acts
    BY DEF CoveredBy
  <2>. HIDE DEF a, b, v
  <2>3. v <= b
    BY <2>1, <2>2
  <2>4. QED
    BY <2>2, <2>3 DEF CoveredBy, b, v
<1>4. ASSUME NEW reports \in Seq(CoveredBy(acts, few, latest, S))
      PROVE  reports \in Seq(CoveredBy(acts, missed, latest, S))
  BY <1>3, SeqMonotonic
<1>5. QED
  BY <1>3, <1>4 DEF Covered

\* New actions are later than all that was read, and change no life.
LEMMA CoveredOutlastsActions ==
  ASSUME NEW acts \in Seq(Action), NEW more \in Seq(Action), NEW time \in Nat,
         NEW missed,
         DOMAIN acts \subseteq DOMAIN more, \A i \in DOMAIN acts : more[i] = acts[i],
         \A i \in DOMAIN more : i \notin DOMAIN acts => time <= more[i].timestamp,
         NEW latest \in Seq(Block), NEW S \in SUBSET Places(latest),
         \A m \in 1..Len(latest) : read_varint(latest[m].timestamp) < time
  PROVE  /\ CoveredBy(acts, missed, latest, S) \subseteq CoveredBy(more, missed, latest, S)
         /\ \A orders, reports :
              Covered(acts, missed, orders, reports, latest, S) => Covered(more, missed, orders, reports, latest, S)
<1>1. \A i \in DOMAIN more : more[i].timestamp \in Nat
  <2>1. \A i \in DOMAIN more : more[i] \in Action
    OBVIOUS
  <2>2. QED
    BY <2>1 DEF Action
<1>2. ASSUME NEW n \in 1..Len(latest), NEW i \in DOMAIN more, i \notin DOMAIN acts
      PROVE  ~ReachedBy(latest, n, more[i].timestamp)
  <2>1. SUFFICES ASSUME NEW m \in 1..n, more[i].timestamp <= read_varint(latest[m].timestamp)
                 PROVE  FALSE
    BY DEF ReachedBy
  <2>2. m \in 1..Len(latest)
    BY LenProperties
  <2>3. latest[m].timestamp \in Nat
    <3>1. latest[m] \in Block
      BY <2>2, ElementOfSeq
    <3>2. QED
      BY <3>1 DEF Block
  <2>. DEFINE read == read_varint(latest[m].timestamp)
              t == more[i].timestamp
  <2>4. read \in Nat /\ read < time /\ t <= read /\ time <= t /\ t \in Nat
    BY <1>1, <1>2, <2>1, <2>2, <2>3, ReadIsNat
  <2>. HIDE DEF read, t
  <2>5. QED
    BY <2>4
<1>3. ASSUME NEW id \in DOMAIN acts, NEW n \in 1..Len(latest)
      PROVE  InLife(more, missed, id, latest, n) <=> InLife(acts, missed, id, latest, n)
  <2>1. more[id] = acts[id]
    OBVIOUS
  <2>2. \A j \in DOMAIN acts : j \in DOMAIN more /\ more[j] = acts[j]
    OBVIOUS
  <2>3. QED
    BY <1>2, <2>1, <2>2 DEF InLife
<1>4. ASSUME NEW id \in DOMAIN acts
      PROVE  PaidFor(more, missed, id, latest, S) = PaidFor(acts, missed, id, latest, S)
  <2>1. \A p \in S : p[1] \in 1..Len(latest)
    BY PlacesType
  <2>2. PaymentsFor(more, missed, id, latest, S) = PaymentsFor(acts, missed, id, latest, S)
    BY <1>3, <2>1 DEF PaymentsFor
  <2>3. QED
    BY <2>2 DEF PaidFor
<1>5. CoveredBy(acts, missed, latest, S) \subseteq CoveredBy(more, missed, latest, S)
  BY <1>4 DEF CoveredBy
<1>6. ASSUME NEW orders, NEW reports, Covered(acts, missed, orders, reports, latest, S)
      PROVE  Covered(more, missed, orders, reports, latest, S)
  <2>1. reports \in Seq(CoveredBy(more, missed, latest, S))
    BY <1>5, <1>6, SeqMonotonic DEF Covered
  <2>2. QED
    BY <1>5, <1>6, <2>1 DEF Covered
<1>7. QED
  BY <1>5, <1>6

\* A block is taken in: what was reached stays so, and its actions come next.
LEMMA VerifyClock ==
  ASSUME TypeInv, RunClock, VerifyBlock
  PROVE  RunClock'
<1>1. IsState(work) /\ blocks \in Seq(Block) /\ blocks # <<>> /\ pc = "verify"
  BY DEF TypeInv, RunTyped, VerifyBlock
<1>2. UNCHANGED <<chain, now, active>>
  BY DEF VerifyBlock, env
<1>3. Behind(work)' = Behind(work) /\ work'.missed = work.missed
  BY <1>1, VerifyFields DEF Behind
<1>4. PICK latest : latest = work.latest
  OBVIOUS
<1>5. PICK block : block = Head(blocks)
  OBVIOUS
<1>6. latest \in Seq(Block) /\ block \in Block /\ Len(latest) \in Nat
  BY <1>1, <1>4, <1>5, HeadTailProperties, LenProperties DEF IsState
<1>7. ListensToLast'
  BY <1>2, <1>3 DEF RunClock, ListensToLast
<1>8. CASE IsUnfinalized(blocks)
  <2>1. work'.latest = latest /\ pc' = "verify"
    BY <1>1, <1>4, <1>8, VerifyFields DEF VerifyBlock
  <2>2. Waited(work)' /\ Settled(work, Looked(work.latest, pc))'
    BY <1>1, <1>2, <1>3, <1>4, <2>1 DEF RunClock, Waited, Settled, ReachedBy, Looked
  <2>3. QED
    BY <1>7, <2>2 DEF RunClock
<1>9. CASE ~IsUnfinalized(blocks)
  <2>1. PICK more : more = Append(latest, block)
    OBVIOUS
  <2>2. work'.latest = more /\ pc' = "actions"
    BY <1>1, <1>4, <1>5, <1>9, <2>1, VerifyFields DEF VerifyBlock, Goto
  <2>3. /\ Len(more) = Len(latest) + 1 /\ Len(more) - 1 = Len(latest)
        /\ \A n \in 1..Len(latest) : n \in 1..Len(more) /\ more[n] = latest[n]
    BY <1>6, <2>1, WalkedBefore
  <2>4. \A time : ReachedBy(latest, Len(latest), time) => ReachedBy(more, Len(more), time)
    BY <2>3 DEF ReachedBy
  <2>5. Waited(work)'
    <3>1. ASSUME NEW i \in DOMAIN chain \ work.missed, i <= Behind(work)
          PROVE  ReachedBy(more, Len(more), chain[i].timestamp)
      BY <1>4, <2>4, <3>1 DEF RunClock, Waited
    <3>2. QED
      BY <1>2, <1>3, <2>2, <3>1 DEF Waited, ReachedBy
  <2>6. Settled(work, Looked(work.latest, pc))'
    <3>1. Looked(work.latest, pc)' = Len(latest) /\ Looked(work.latest, pc) = Len(latest)
      BY <1>1, <1>4, <2>2, <2>3 DEF Looked
    <3>2. Settled(work, Len(latest))
      BY <3>1 DEF RunClock
    <3>3. \A m \in 1..Len(latest) : work'.latest[m] = work.latest[m]
      BY <1>4, <2>2, <2>3
    <3>4. QED
      BY <1>2, <1>3, <3>1, <3>2, <3>3 DEF Settled
  <2>7. QED
    BY <1>7, <2>5, <2>6 DEF RunClock
<1>10. QED
  BY <1>8, <1>9

\* An action is looked at when the latest block reaches it.
LEMMA ActionClock ==
  ASSUME TypeInv, Ledger(work), RunReasons, RunClock, OpenOrder \/ CloseOrder
  PROVE  RunClock'
<1>1. IsState(work) /\ pc = "actions" /\ pc' = pc /\ work.pending # <<>>
  BY DEF TypeInv, RunTyped, OpenOrder, CloseOrder, IsDue
<1>2. UNCHANGED <<chain, now>>
  BY DEF OpenOrder, CloseOrder, env
<1>. DEFINE behind == Behind(work)
            after == Behind(work)'
            id == Head(work.pending)
            missed == work.missed
<1>3. behind \in Nat /\ id = behind + 1 /\ id \notin missed
  BY <1>1, BehindType, HeadIsNext
<1>4. /\ after \in Nat /\ behind + 1 <= after /\ work'.missed = missed
      /\ \A i \in behind + 2..after : i \in missed
  <2>1. PICK t : t = work'
    OBVIOUS
  <2>2. /\ t.pending = Tail(work.pending) /\ t.action_chain = work.action_chain
        /\ t.missed = work.missed
    BY <1>1, <2>1, OpenFields, CloseFields
  <2>3. /\ Behind(t) \in Nat /\ Behind(work) + 1 <= Behind(t)
        /\ \A i \in Behind(work) + 2..Behind(t) : i \in work.missed
    BY <1>1, <2>2, NextBehind
  <2>4. QED
    BY <2>1, <2>2, <2>3 DEF Behind
<1>5. PICK latest : latest = work.latest
  OBVIOUS
<1>6. latest \in Seq(Block) /\ Len(latest) \in Nat \ {0} /\ Last(latest) = latest[Len(latest)]
  BY <1>1, <1>5, LatestBlock
<1>7. work'.latest = latest
  BY <1>1, <1>5, OpenFields, CloseFields
<1>8. chain[id].timestamp <= read_varint(latest[Len(latest)].timestamp)
  BY <1>1, <1>5, <1>6 DEF OpenOrder, CloseOrder, IsDue, RunReasons
<1>9. \A i \in DOMAIN chain : i \in Nat
  BY LenProperties DEF TypeInv, EnvTyped
<1>10. PICK height : height = Len(latest)
  OBVIOUS
<1>11. Waited(work)'
  <2>1. ASSUME NEW i \in DOMAIN chain \ missed, i <= after
        PROVE  ReachedBy(latest, height, chain[i].timestamp)
    <3>1. CASE i <= behind
      BY <1>5, <1>10, <3>1 DEF RunClock, Waited
    <3>2. CASE i = behind + 1
      <4>1. height \in 1..height
        BY <1>6, <1>10
      <4>2. QED
        BY <1>3, <1>8, <1>10, <3>2, <4>1 DEF ReachedBy
    <3>3. i <= behind \/ i = behind + 1
      <4>. HIDE DEF behind, after, missed
      <4>1. i \notin behind + 2..after
        BY <1>4, <2>1
      <4>2. QED
        BY <1>3, <1>4, <1>9, <2>1, <4>1
    <3>4. QED
      BY <3>1, <3>2, <3>3
  <2>2. QED
    BY <1>2, <1>4, <1>7, <1>10, <2>1 DEF Waited, ReachedBy
<1>12. Settled(work, Looked(work.latest, pc))'
  <2>1. PICK last : last = Looked(latest, pc)
    OBVIOUS
  <2>2. Settled(work, last)
    BY <1>5, <2>1 DEF RunClock
  <2>3. \A i \in DOMAIN chain : i <= behind => i <= after
    <3>. HIDE DEF behind, after
    <3>1. QED
      BY <1>3, <1>4, <1>9
  <2>4. Settled(work, last)'
    BY <1>2, <1>4, <1>5, <1>7, <2>2, <2>3 DEF Settled
  <2>5. Looked(work.latest, pc)' = last
    BY <1>1, <1>7, <2>1 DEF Looked
  <2>6. QED
    BY <2>4, <2>5 DEF Settled
<1>13. ListensToLast'
  <2>. DEFINE address == chain[id].address
  <2>1. active \in [Addresses -> {NoId} \cup Ids]
    BY DEF TypeInv, RunTyped
  <2>2. \A a \in Addresses : active[a] \in Nat
    BY <2>1 DEF NoId, Ids
  <2>3. active' = [active EXCEPT ![address] = id] \/ active' = [active EXCEPT ![address] = NoId]
    BY DEF OpenOrder, CloseOrder
  <2>. HIDE DEF behind, after, id, missed
  <2>4. ASSUME NEW a \in Addresses, active'[a] # NoId, NEW j \in DOMAIN chain \ missed,
               active'[a] < j, j <= after
        PROVE  chain[j].address # a
    <3>0. j <= behind + 1
      <4>1. j \notin behind + 2..after
        BY <1>4, <2>4
      <4>2. QED
        BY <1>3, <1>4, <1>9, <2>4, <4>1
    <3>1. CASE a = address
      <4>1. active'[a] = behind + 1
        BY <1>3, <2>1, <2>3, <2>4, <3>1
      <4>2. QED
        BY <1>3, <1>9, <2>4, <3>0, <4>1
    <3>2. CASE a # address
      <4>1. active'[a] = active[a]
        BY <2>1, <2>3, <3>2
      <4>2. CASE j = behind + 1
        BY <1>3, <3>2, <4>2
      <4>3. CASE j # behind + 1
        <5>1. j <= behind
          BY <1>3, <1>9, <3>0, <4>3
        <5>2. QED
          BY <2>4, <4>1, <5>1 DEF RunClock, ListensToLast, behind, missed
      <4>4. QED
        BY <4>2, <4>3
    <3>3. QED
      BY <3>1, <3>2
  <2>5. QED
    BY <1>2, <1>4, <2>4 DEF ListensToLast, after, missed
<1>14. QED
  BY <1>11, <1>12, <1>13 DEF RunClock

\* The transactions of a block are walked through when every action that the block
\* reaches is behind the state.
LEMMA WalkClock ==
  ASSUME TypeInv, ChainInOrder, Ledger(work), RunReasons, RunClock, WalkThrough
  PROVE  RunClock'
<1>1. pc = "actions" /\ pc' = "txs" /\ UNCHANGED <<chain, now, active, work>>
  BY DEF WalkThrough, Goto, env
<1>2. UpToDate(work)
  BY DoneIsUpToDate DEF WalkThrough
<1>3. PICK latest : latest = work.latest
  OBVIOUS
<1>4. latest \in Seq(Block) /\ Len(latest) \in Nat \ {0} /\ Last(latest) = latest[Len(latest)]
  BY <1>1, <1>3, LatestBlock
<1>5. work.timestamp = read_varint(latest[Len(latest)].timestamp)
  BY <1>1, <1>3, <1>4 DEF RunReasons
<1>6. Settled(work, Len(latest) - 1)
  BY <1>1, <1>3 DEF RunClock, Looked
<1>7. Settled(work, Len(latest))
  <2>1. ASSUME NEW m \in 1..Len(latest)
        PROVE  /\ read_varint(latest[m].timestamp) < now
               /\ \A i \in DOMAIN chain :
                    chain[i].timestamp <= read_varint(latest[m].timestamp) => i <= Behind(work)
    <3>1. CASE m = Len(latest)
      BY <1>2, <1>5, <3>1 DEF UpToDate
    <3>2. CASE m # Len(latest)
      <4>1. m \in 1..Len(latest) - 1
        BY <1>4, <3>2
      <4>2. QED
        BY <1>3, <1>6, <4>1 DEF Settled
    <3>3. QED
      BY <3>1, <3>2
  <2>2. QED
    BY <1>3, <2>1 DEF Settled
<1>8. Looked(work.latest, pc)' = Len(latest)
  BY <1>1, <1>3 DEF Looked
<1>9. Waited(work)' /\ ListensToLast'
  BY <1>1 DEF RunClock, Waited, ListensToLast, ReachedBy, Behind
<1>10. Settled(work, Len(latest))'
  BY <1>1, <1>3, <1>7 DEF Settled, Behind
<1>11. QED
  BY <1>8, <1>9, <1>10 DEF RunClock, Settled

\* The transactions change nothing about times and actions.
LEMMA QuietClock ==
  ASSUME TypeInv, RunClock, IgnoreTx \/ CountTransfer \/ CountVote \/ FinishBlock
  PROVE  RunClock'
<1>1. IsState(work) /\ pc = "txs" /\ pc' # "actions" /\ UNCHANGED <<chain, now, active>>
  BY DEF TypeInv, RunTyped, IgnoreTx, CountTransfer, CountVote, FinishBlock, env, Goto
<1>2. /\ work'.latest = work.latest /\ work'.pending = work.pending
      /\ work'.action_chain = work.action_chain /\ work'.missed = work.missed
  BY <1>1, TransferFields, VoteFields, FinishFields DEF IgnoreTx
<1>3. Behind(work)' = Behind(work)
  BY <1>2 DEF Behind
<1>4. QED
  BY <1>1, <1>2, <1>3 DEF RunClock, Waited, Settled, ListensToLast, ReachedBy, Looked

\* Every step of a run keeps its clock.
LEMMA StepClock ==
  ASSUME TypeInv, ChainInOrder, Ledger(work), RunReasons, RunClock, RunStep
  PROVE  RunClock'
BY VerifyClock, ActionClock, WalkClock, QuietClock DEF RunStep

\* What the payments for an order come to is a natural number.
LEMMA PaidType ==
  ASSUME NEW latest \in Seq(Block), NEW S \in SUBSET Places(latest), NEW acts, NEW missed, NEW id
  PROVE  PaidFor(acts, missed, id, latest, S) \in Nat
<1>1. Len(latest) \in Nat
  BY LenProperties
<1>2. Len(latest) <= Len(latest)
  BY <1>1
<1>3. QED
  BY <1>2, PaidGrows

\* A block is taken in: its payments are still to be counted.
LEMMA VerifyPayments ==
  ASSUME TypeInv, RunPayments, VerifyBlock
  PROVE  RunPayments'
<1>1. IsState(work) /\ blocks \in Seq(Block) /\ blocks # <<>> /\ pc = "verify"
  BY DEF TypeInv, RunTyped, VerifyBlock
<1>2. PICK latest : latest = work.latest
  OBVIOUS
<1>3. PICK orders : orders = work.orders
  OBVIOUS
<1>4. PICK reports : reports = closed
  OBVIOUS
<1>5. PICK block : block = Head(blocks)
  OBVIOUS
<1>6. PICK acts : acts = chain
  OBVIOUS
<1>7. PICK todo : todo = txs
  OBVIOUS
<1>8. latest \in Seq(Block) /\ block \in Block
  BY <1>1, <1>2, <1>5, HeadTailProperties DEF IsState
<1>0. PICK missed : missed = work.missed
  OBVIOUS
<1>9. /\ work'.orders = orders /\ closed' = reports /\ txs' = todo /\ chain' = acts
      /\ work'.missed = missed
  BY <1>0, <1>1, <1>3, <1>4, <1>6, <1>7, VerifyFields DEF VerifyBlock, env
<1>10. Covered(acts, missed, orders, reports, latest, Places(latest))
  BY <1>0, <1>1, <1>2, <1>3, <1>4, <1>6, <1>8, AllWalked DEF RunPayments
<1>11. CASE IsUnfinalized(blocks)
  <2>1. work'.latest = latest /\ pc' = "verify"
    BY <1>1, <1>2, <1>11, VerifyFields DEF VerifyBlock
  <2>2. Walked(latest, "verify", todo) = Places(latest)
    BY <1>8, AllWalked
  <2>3. QED
    BY <1>9, <1>10, <2>1, <2>2 DEF RunPayments
<1>12. CASE ~IsUnfinalized(blocks)
  <2>1. PICK more : more = Append(latest, block)
    OBVIOUS
  <2>2. work'.latest = more /\ pc' = "actions"
    BY <1>1, <1>2, <1>5, <1>12, <2>1, VerifyFields DEF VerifyBlock, Goto
  <2>3. Walked(more, "actions", todo) = Places(latest)
    BY <1>8, <2>1, WalkedBefore
  <2>4. /\ more \in Seq(Block) /\ Len(more) = Len(latest) + 1 /\ Len(latest) \in Nat
        /\ \A n \in 1..Len(latest) : more[n] = latest[n]
    BY <1>8, <2>1, WalkedBefore
  <2>5. Len(latest) <= Len(more)
    BY <2>4
  <2>6. Places(latest) \in SUBSET Places(more)
    BY <1>8, <2>4, <2>5, MoreBlocks
  <2>7. Covered(acts, missed, orders, reports, more, Places(latest))
    BY <1>8, <1>10, <2>4, <2>5, <2>6, CoveredGrows
  <2>8. QED
    BY <1>9, <2>2, <2>3, <2>7 DEF RunPayments
<1>13. QED
  BY <1>11, <1>12

\* One more report that is covered.
LEMMA CoveredOneMore ==
  ASSUME NEW acts, NEW missed, NEW latest, NEW S, NEW reports \in Seq(CoveredBy(acts, missed, latest, S)),
         NEW report \in CoveredBy(acts, missed, latest, S)
  PROVE  Append(reports, report) \in Seq(CoveredBy(acts, missed, latest, S))
<1>. DEFINE T == CoveredBy(acts, missed, latest, S)
<1>1. reports \in Seq(T) /\ report \in T
  OBVIOUS
<1>. HIDE DEF T
<1>2. Append(reports, report) \in Seq(T)
  BY <1>1, AppendProperties
<1>3. QED
  BY <1>2 DEF T

\* An order is opened with nothing, or closed with what was counted for it.
LEMMA ActionPayments ==
  ASSUME TypeInv, Ledger(work), Listens, RunPayments, OpenOrder \/ CloseOrder
  PROVE  RunPayments'
<1>1. IsState(work) /\ pc = "actions" /\ pc' = pc /\ work.pending # <<>>
  BY DEF TypeInv, RunTyped, OpenOrder, CloseOrder, IsDue
<1>2. PICK latest : latest = work.latest
  OBVIOUS
<1>3. PICK orders : orders = work.orders
  OBVIOUS
<1>4. PICK reports : reports = closed
  OBVIOUS
<1>5. PICK acts : acts = chain
  OBVIOUS
<1>6. PICK todo : todo = txs
  OBVIOUS
<1>7. PICK S : S = Walked(latest, "actions", todo)
  OBVIOUS
<1>8. PICK id : id = Head(work.pending)
  OBVIOUS
<1>9. latest \in Seq(Block) /\ S \in SUBSET Places(latest)
  BY <1>1, <1>2, <1>7 DEF IsState, Walked
<1>0. PICK missed : missed = work.missed
  OBVIOUS
<1>10. Covered(acts, missed, orders, reports, latest, S)
  BY <1>0, <1>1, <1>2, <1>3, <1>4, <1>5, <1>6, <1>7 DEF RunPayments
<1>11. work'.latest = latest /\ txs' = todo /\ chain' = acts /\ work'.missed = missed
  BY <1>0, <1>1, <1>2, <1>5, <1>6, OpenFields, CloseFields DEF OpenOrder, CloseOrder, env
<1>12. Walked(work'.latest, pc', txs') = S
  BY <1>1, <1>7, <1>11
<1>13. ASSUME NEW some, NEW all, work'.orders = some, closed' = all,
              Covered(acts, missed, some, all, latest, S)
       PROVE  RunPayments'
  BY <1>11, <1>12, <1>13 DEF RunPayments
<1>14. CASE OpenOrder
  <2>1. PICK some : some = With(orders, id, 0)
    OBVIOUS
  <2>2. work'.orders = some /\ closed' = reports
    BY <1>1, <1>3, <1>4, <1>8, <1>14, <2>1, OpenFields DEF OpenOrder
  <2>3. DOMAIN some = DOMAIN orders \cup {id} /\ some[id] = 0
        /\ \A i \in DOMAIN orders \ {id} : some[i] = orders[i]
    BY <2>1 DEF With
  <2>4. id \in Ids /\ id \in DOMAIN acts
    <3>1. id = Behind(work) + 1 /\ Behind(work) + 1 <= work.action_chain
      BY <1>1, <1>8, HeadIsNext
    <3>2. Behind(work) \in Nat /\ work.action_chain \in Nat /\ work.action_chain <= Len(chain)
      BY <1>1, BehindType DEF Ledger
    <3>3. Len(chain) \in Nat /\ DOMAIN chain = 1..Len(chain) /\ Len(chain) <= MaxActions
      BY LenProperties DEF TypeInv, EnvTyped
    <3>4. QED
      BY <1>5, <3>1, <3>2, <3>3, ProgramAssumption DEF Ids
  <2>5. Report(id, 0) \in CoveredBy(acts, missed, latest, S)
    <3>1. PaidFor(acts, missed, id, latest, S) \in Nat
      BY <1>9, PaidType
    <3>2. 0 <= PaidFor(acts, missed, id, latest, S)
      BY <3>1
    <3>3. QED
      BY <2>4, <3>2 DEF CoveredBy, Report
  <2>6. Covered(acts, missed, some, reports, latest, S)
    <3>1. ASSUME NEW i \in DOMAIN some PROVE Report(i, some[i]) \in CoveredBy(acts, missed, latest, S)
      <4>1. CASE i = id
        BY <2>3, <2>5, <4>1
      <4>2. CASE i # id
        BY <1>10, <2>3, <4>2 DEF Covered
      <4>3. QED
        BY <4>1, <4>2
    <3>2. QED
      BY <1>10, <3>1 DEF Covered
  <2>7. QED
    BY <1>13, <2>2, <2>6
<1>15. CASE CloseOrder
  <2>1. PICK old : old = active[chain[id].address]
    OBVIOUS
  <2>2. PICK some : some = Without(orders, old)
    OBVIOUS
  <2>3. PICK all : all = IF old \in DOMAIN orders THEN Append(reports, Report(old, orders[old]))
                         ELSE reports
    OBVIOUS
  <2>4. work'.orders = some /\ closed' = all
    BY <1>1, <1>3, <1>4, <1>8, <1>15, <2>1, <2>2, <2>3, CloseFields DEF CloseOrder
  <2>5. DOMAIN some = DOMAIN orders \ {old} /\ \A i \in DOMAIN orders \ {old} : some[i] = orders[i]
    BY <2>2, WithoutProperties
  <2>6. all \in Seq(CoveredBy(acts, missed, latest, S))
    <3>1. CASE old \in DOMAIN orders
      BY <1>10, <2>3, <3>1, CoveredOneMore DEF Covered
    <3>2. CASE old \notin DOMAIN orders
      BY <1>10, <2>3, <3>2 DEF Covered
    <3>3. QED
      BY <3>1, <3>2
  <2>7. Covered(acts, missed, some, all, latest, S)
    BY <1>10, <2>5, <2>6 DEF Covered
  <2>8. QED
    BY <1>13, <2>4, <2>7
<1>16. QED
  BY <1>14, <1>15

\* Nothing of a block is walked through yet when its transactions come next.
LEMMA WalkPayments ==
  ASSUME TypeInv, RunPayments, WalkThrough
  PROVE  RunPayments'
<1>1. IsState(work) /\ pc = "actions" /\ pc' = "txs" /\ txs' = Last(work.latest).txs
  BY WalkIsOwn DEF TypeInv, RunTyped, WalkThrough, Goto
<1>2. UNCHANGED <<chain, work, closed>>
  BY DEF WalkThrough, env
<1>3. PICK latest : latest = work.latest
  OBVIOUS
<1>4. latest \in Seq(Block) /\ Len(latest) \in Nat \ {0}
  BY <1>1, <1>3, LatestBlock
<1>5. Walked(latest, "txs", txs') = Walked(latest, "actions", txs)
  BY <1>1, <1>3, <1>4, NoneWalked
<1>6. QED
  BY <1>1, <1>2, <1>3, <1>5 DEF RunPayments

\* At the end of a block all of it was walked through.
LEMMA FinishPayments ==
  ASSUME TypeInv, RunPayments, FinishBlock
  PROVE  RunPayments'
<1>1. /\ IsState(work) /\ pc = "txs" /\ pc' = "verify" /\ txs = <<>> /\ txs' = txs
      /\ UNCHANGED <<chain, closed>>
  BY DEF FinishBlock, TypeInv, RunTyped, Goto, env
<1>2. PICK latest : latest = work.latest
  OBVIOUS
<1>3. latest \in Seq(Block)
  BY <1>1, <1>2 DEF IsState
<1>4. work'.latest = latest /\ work'.orders = work.orders /\ work'.missed = work.missed
  BY <1>1, <1>2, FinishFields
<1>5. Walked(latest, "verify", txs) = Walked(latest, "txs", <<>>)
  BY <1>3, AllWalked
<1>6. QED
  BY <1>1, <1>2, <1>4, <1>5 DEF RunPayments

\* While transactions are walked through, the latest block is in the life of the
\* order that an active address stands for.
LEMMA ActiveIsAlive ==
  ASSUME TypeInv, Listens, RunClock, pc = "txs", NEW a \in Addresses, active[a] \in Ids
  PROVE  /\ active[a] \in DOMAIN chain /\ chain[active[a]].address = a
         /\ InLife(chain, work.missed, active[a], work.latest, Len(work.latest))
<1>1. PICK id : id = active[a]
  OBVIOUS
<1>2. id # NoId
  BY <1>1 DEF Ids, NoId
<1>3. id \in DOMAIN chain \ work.missed /\ id <= Behind(work) /\ chain[id].address = a
  BY <1>1, <1>2 DEF Listens
<1>4. PICK latest : latest = work.latest
  OBVIOUS
<1>5. ReachedBy(latest, Len(latest), chain[id].timestamp)
  BY <1>3, <1>4 DEF RunClock, Waited
<1>6. ASSUME NEW j \in DOMAIN chain \ work.missed, j > id, chain[j].address = a,
             ReachedBy(latest, Len(latest), chain[j].timestamp)
      PROVE  FALSE
  <2>1. PICK m \in 1..Len(latest) : chain[j].timestamp <= read_varint(latest[m].timestamp)
    BY <1>6 DEF ReachedBy
  <2>2. Settled(work, Len(latest))
    BY <1>4 DEF RunClock, Looked
  <2>3. j <= Behind(work)
    BY <1>4, <2>1, <2>2 DEF Settled
  <2>4. j \in Nat /\ id \in Nat
    BY <1>3, LenProperties DEF TypeInv, EnvTyped
  <2>5. id < j
    BY <1>6, <2>4
  <2>6. QED
    BY <1>1, <1>2, <1>6, <2>3, <2>5 DEF RunClock, ListensToLast
<1>7. InLife(chain, work.missed, id, latest, Len(latest))
  BY <1>3, <1>5, <1>6 DEF InLife
<1>8. QED
  BY <1>1, <1>3, <1>4, <1>7

\* A payment for an order adds its value to what covers the order.
LEMMA PaymentIsCovered ==
  ASSUME NEW latest \in Seq(Block), NEW S \in SUBSET Places(latest),
         NEW q \in Places(latest) \ S, NEW acts, NEW missed, NEW id, NEW inflow \in Nat,
         Report(id, inflow) \in CoveredBy(acts, missed, latest, S),
         TxAt(latest, q).to = acts[id].address, TxAt(latest, q).success,
         InLife(acts, missed, id, latest, q[1])
  PROVE  Report(id, inflow + ParsedValue(TxAt(latest, q)))
           \in CoveredBy(acts, missed, latest, S \cup {q})
<1>. DEFINE A == PaymentsFor(acts, missed, id, latest, S)
            tx == TxAt(latest, q)
            paid == PaidFor(acts, missed, id, latest, S)
            more == PaidFor(acts, missed, id, latest, S \cup {q})
            v == ParsedValue(tx)
<1>1. A \in SUBSET Places(latest) /\ q \in Places(latest) \ A
  BY DEF PaymentsFor
<1>2. PaymentsFor(acts, missed, id, latest, S \cup {q}) = A \cup {q}
  BY DEF PaymentsFor
<1>3. PayWorth \in [Tx -> Nat] /\ tx \in Tx /\ PayWorth[tx] = v
  BY PayWorthType, PlacesType
<1>4. v \in Nat
  BY <1>3
<1>5. Total(latest, PayWorth, A \cup {q}) = Total(latest, PayWorth, A) + PayWorth[tx]
  <2>. HIDE DEF A
  <2>1. QED
    BY <1>1, <1>3, TotalLaws
<1>6. more = paid + v
  BY <1>2, <1>3, <1>5 DEF PaidFor
<1>7. /\ Report(id, inflow).id = id /\ Report(id, inflow).inflow = inflow
      /\ Report(id, inflow + v).id = id /\ Report(id, inflow + v).inflow = inflow + v
  BY DEF Report
<1>8. id \in Ids /\ id \in DOMAIN acts /\ inflow <= paid
  BY <1>7 DEF CoveredBy, Report
<1>9. paid \in Nat
  BY PaidType
<1>. HIDE DEF paid, more, v
<1>10. inflow + v \in Nat /\ inflow + v <= more
  BY <1>4, <1>6, <1>8, <1>9
<1>11. Report(id, inflow + v) \in [id : Ids, inflow : Nat]
  BY <1>8, <1>10 DEF Report
<1>12. QED
  BY <1>7, <1>8, <1>10, <1>11 DEF CoveredBy, more, v

\* A transaction is walked through: a payment is counted for the order whose life
\* it falls in.
LEMMA TransactionPayments ==
  ASSUME TypeInv, OwnInv, Listens, RunClock, RunPayments,
         IgnoreTx \/ CountTransfer \/ CountVote
  PROVE  RunPayments'
<1>1. /\ IsState(work) /\ pc = "txs" /\ pc' = "txs" /\ txs \in Seq(Tx) /\ txs # <<>>
      /\ txs' = Tail(txs) /\ UNCHANGED chain
  BY DEF IgnoreTx, CountTransfer, CountVote, NextTx, TypeInv, RunTyped, env
<1>2. PICK latest : latest = work.latest
  OBVIOUS
<1>3. PICK orders : orders = work.orders
  OBVIOUS
<1>4. PICK reports : reports = closed
  OBVIOUS
<1>5. PICK acts : acts = chain
  OBVIOUS
<1>6. PICK todo : todo = txs
  OBVIOUS
<1>7. latest \in Seq(Block) /\ Len(latest) \in Nat \ {0} /\ Ends(todo, Last(latest).txs)
  BY <1>1, <1>2, <1>6, LatestBlock DEF OwnInv
<1>8. PICK S : S = Walked(latest, "txs", todo)
  OBVIOUS
<1>9. PICK q \in Places(latest) \ S :
        /\ q[1] = Len(latest) /\ TxAt(latest, q) = Head(todo)
        /\ Walked(latest, "txs", Tail(todo)) = S \cup {q}
  BY <1>1, <1>6, <1>7, <1>8, WalkOne
<1>10. PICK T : T = S \cup {q}
  OBVIOUS
<1>11. S \in SUBSET Places(latest) /\ T \in SUBSET Places(latest) /\ S \subseteq T
  BY <1>8, <1>9, <1>10 DEF Walked
<1>0. PICK missed : missed = work.missed
  OBVIOUS
<1>12. Covered(acts, missed, orders, reports, latest, S)
  BY <1>0, <1>1, <1>2, <1>3, <1>4, <1>5, <1>6, <1>8 DEF RunPayments
<1>13. work'.latest = latest /\ work'.missed = missed
  BY <1>0, <1>1, <1>2, TransferFields, VoteFields DEF IgnoreTx
<1>14. Walked(work'.latest, pc', txs') = T
  BY <1>1, <1>6, <1>9, <1>10, <1>13
<1>15. ASSUME NEW some, NEW all, work'.orders = some, closed' = all,
              Covered(acts, missed, some, all, latest, T)
       PROVE  RunPayments'
  BY <1>1, <1>5, <1>13, <1>14, <1>15 DEF RunPayments
<1>16. CoveredBy(acts, missed, latest, S) \subseteq CoveredBy(acts, missed, latest, T)
       /\ Covered(acts, missed, orders, reports, latest, T)
  <2>1. Len(latest) <= Len(latest)
    BY <1>7
  <2>2. QED
    BY <1>7, <1>11, <1>12, <2>1, CoveredGrows
<1>17. CASE IgnoreTx \/ CountVote
  <2>1. work'.orders = orders /\ closed' = reports
    BY <1>1, <1>3, <1>4, <1>17, VoteFields DEF IgnoreTx, CountVote
  <2>2. QED
    BY <1>15, <1>16, <2>1
<1>18. CASE CountTransfer
  <2>1. PICK id : id = active[Head(todo).to]
    OBVIOUS
  <2>2. PICK inflow : inflow = orders[id] + ParsedValue(Head(todo))
    OBVIOUS
  <2>3. id \in DOMAIN orders /\ Head(todo).success /\ Head(todo).to \in Addresses
    BY <1>3, <1>6, <1>18, <2>1 DEF CountTransfer, ParsesAsTransfer
  <2>4. id \in Ids /\ orders[id] \in Nat
    BY <1>1, <1>3, <2>3 DEF IsState
  <2>5. /\ id \in DOMAIN acts /\ acts[id].address = Head(todo).to
        /\ InLife(acts, missed, id, latest, Len(latest))
    BY <1>0, <1>1, <1>2, <1>5, <2>1, <2>3, <2>4, ActiveIsAlive
  <2>6. Report(id, inflow) \in CoveredBy(acts, missed, latest, T)
    <3>1. Report(id, orders[id]) \in CoveredBy(acts, missed, latest, S)
      BY <1>12, <2>3 DEF Covered
    <3>2. QED
      BY <1>7, <1>9, <1>10, <1>11, <2>2, <2>3, <2>4, <2>5, <3>1, PaymentIsCovered
  <2>7. CASE IsFilled(id, inflow)
    <3>1. PICK some : some = Without(orders, id)
      OBVIOUS
    <3>2. PICK all : all = Append(reports, Report(id, inflow))
      OBVIOUS
    <3>3. work'.orders = some /\ closed' = all
      BY <1>1, <1>3, <1>4, <1>6, <1>18, <2>1, <2>2, <2>7, <3>1, <3>2, TransferFields
    <3>4. DOMAIN some = DOMAIN orders \ {id} /\ \A i \in DOMAIN orders \ {id} : some[i] = orders[i]
      BY <3>1, WithoutProperties
    <3>5. all \in Seq(CoveredBy(acts, missed, latest, T))
      BY <1>16, <2>6, <3>2, CoveredOneMore DEF Covered
    <3>6. Covered(acts, missed, some, all, latest, T)
      BY <1>16, <3>4, <3>5 DEF Covered
    <3>7. QED
      BY <1>15, <3>3, <3>6
  <2>8. CASE ~IsFilled(id, inflow)
    <3>1. PICK some : some = [orders EXCEPT ![id] = inflow]
      OBVIOUS
    <3>2. work'.orders = some /\ closed' = reports
      BY <1>1, <1>3, <1>4, <1>6, <1>18, <2>1, <2>2, <2>8, <3>1, TransferFields
    <3>3. /\ DOMAIN some = DOMAIN orders /\ some[id] = inflow
          /\ \A i \in DOMAIN orders \ {id} : some[i] = orders[i]
      BY <1>1, <1>3, <2>3, <3>1 DEF IsState
    <3>4. \A i \in DOMAIN some : Report(i, some[i]) \in CoveredBy(acts, missed, latest, T)
      <4>1. ASSUME NEW i \in DOMAIN some PROVE Report(i, some[i]) \in CoveredBy(acts, missed, latest, T)
        <5>1. CASE i = id
          BY <2>6, <3>3, <5>1
        <5>2. CASE i # id
          BY <1>16, <3>3, <5>2 DEF Covered
        <5>3. QED
          BY <5>1, <5>2
      <4>2. QED
        BY <4>1
    <3>5. Covered(acts, missed, some, reports, latest, T)
      BY <1>16, <3>4 DEF Covered
    <3>6. QED
      BY <1>15, <3>2, <3>5
  <2>9. QED
    BY <2>7, <2>8
<1>19. QED
  BY <1>17, <1>18

\* Every step of a run counts no more than was paid.
LEMMA StepPayments ==
  ASSUME TypeInv, OwnInv, RunLedger, RunClock, RunPayments, RunStep
  PROVE  RunPayments'
BY VerifyPayments, ActionPayments, WalkPayments, TransactionPayments, FinishPayments
   DEF RunStep, RunLedger

\* Nothing that a state has waited for or settled changes when the contract appends
\* actions.
LEMMA ClockOutlastsActions ==
  ASSUME TypeInv, ChainGrows, now' \in Nat, chain' \in Seq(Action),
         NEW s, IsState(s), Ledger(s), NEW last, last = Len(s.latest),
         Waited(s), Settled(s, last)
  PROVE  Waited(s)' /\ Settled(s, last)'
<1>1. Len(chain) \in Nat /\ DOMAIN chain = 1..Len(chain)
  BY LenProperties DEF TypeInv, EnvTyped
<1>2. \A i \in DOMAIN chain' : i \in Nat \ {0}
  <2>1. DOMAIN chain' = 1..Len(chain')
    BY LenProperties
  <2>2. QED
    BY <2>1
<1>3. Behind(s) \in Nat /\ Behind(s) <= Len(chain)
  <2>1. Behind(s) \in Nat /\ s.action_chain \in Nat /\ Behind(s) <= s.action_chain
    BY BehindType
  <2>2. s.action_chain <= Len(chain)
    BY DEF Ledger
  <2>. DEFINE behind == Behind(s)
              known == s.action_chain
  <2>3. behind \in Nat /\ known \in Nat /\ behind <= known /\ known <= Len(chain)
    BY <2>1, <2>2
  <2>. HIDE DEF behind, known
  <2>4. behind <= Len(chain)
    BY <1>1, <2>3
  <2>5. QED
    BY <2>1, <2>4 DEF behind
<1>4. ASSUME NEW i \in DOMAIN chain' \ s.missed, i <= Behind(s)
      PROVE  ReachedBy(s.latest, Len(s.latest), chain'[i].timestamp)
  <2>1. i \in DOMAIN chain
    <3>. DEFINE behind == Behind(s)
    <3>1. behind \in Nat /\ i <= behind /\ behind <= Len(chain)
      BY <1>3, <1>4
    <3>. HIDE DEF behind
    <3>2. QED
      BY <1>1, <1>2, <3>1
  <2>2. QED
    BY <1>4, <2>1 DEF Waited, ChainGrows
<1>5. ASSUME NEW m \in 1..last
      PROVE  /\ read_varint(s.latest[m].timestamp) < now'
             /\ \A i \in DOMAIN chain' :
                  chain'[i].timestamp <= read_varint(s.latest[m].timestamp) => i <= Behind(s)
  <2>1. s.latest[m] \in Block
    <3>1. s.latest \in Seq(Block) /\ m \in 1..Len(s.latest)
      BY DEF IsState
    <3>2. QED
      BY <3>1, ElementOfSeq
  <2>2. s.latest[m].timestamp \in Nat
    BY <2>1 DEF Block
  <2>. DEFINE read == read_varint(s.latest[m].timestamp)
  <2>3. read \in Nat /\ read < now
    BY <2>2, ReadIsNat DEF Settled
  <2>4. now \in Nat /\ now <= now'
    BY ProgramAssumption DEF TypeInv, EnvTyped, ChainGrows
  <2>5. ASSUME NEW i \in DOMAIN chain', chain'[i].timestamp <= read PROVE i <= Behind(s)
    <3>1. CASE i \in DOMAIN chain
      BY <2>5, <3>1 DEF Settled, ChainGrows
    <3>2. CASE i \notin DOMAIN chain
      <4>1. now' <= read
        BY <2>5, <3>2 DEF ChainGrows
      <4>. HIDE DEF read
      <4>2. QED
        BY <2>3, <2>4, <4>1
    <3>3. QED
      BY <3>1, <3>2
  <2>6. read < now'
    <3>. HIDE DEF read
    <3>1. QED
      BY <2>3, <2>4
  <2>7. QED
    BY <2>5, <2>6
<1>6. Waited(s)'
  BY <1>4 DEF Waited
<1>7. Settled(s, last)'
  BY <1>5 DEF Settled
<1>8. QED
  BY <1>6, <1>7

\* When no run is under way, what holds of the state and of what is on record holds
\* of the run.
LEMMA RestPayments ==
  ASSUME NEW s, IsState(s), NEW acts, NEW all,
         state' = s, work' = s, chain' = acts, reported' = all,
         closed' = <<>>, active' = NoneActive, pc' = "idle",
         Waited(s)', Settled(s, Len(s.latest))',
         Covered(acts, s.missed, s.orders, all, s.latest, Places(s.latest))
  PROVE  PaymentInv'
<1>1. s.latest \in Seq(Block)
  BY DEF IsState
<1>2. Waited(state)' /\ Waited(work)'
  BY DEF Waited, Behind
<1>3. Settled(state, Len(state.latest))' /\ Settled(work, Looked(work.latest, pc))'
  BY DEF Settled, Behind, Looked
<1>4. ListensToLast'
  BY DEF ListensToLast, NoneActive
<1>5. Covered(acts, s.missed, s.orders, <<>>, s.latest, Places(s.latest))
  <2>1. <<>> \in Seq(CoveredBy(acts, s.missed, s.latest, Places(s.latest)))
    OBVIOUS
  <2>2. QED
    BY <2>1 DEF Covered
<1>6. Walked(s.latest, "idle", txs') = Places(s.latest)
  BY <1>1, AllWalked
<1>7. RunPayments'
  BY <1>5, <1>6 DEF RunPayments
<1>8. Covered(chain, state.missed, state.orders, reported, state.latest, Places(state.latest))'
  OBVIOUS
<1>9. QED
  BY <1>2, <1>3, <1>4, <1>7, <1>8 DEF PaymentInv, RunClock

\* At the start nothing is counted.
LEMMA PaymentInit == Init => PaymentInv
<1>. SUFFICES ASSUME Init PROVE PaymentInv
  OBVIOUS
<1>1. /\ chain = <<>> /\ state.latest = <<>> /\ state.orders = Nothing /\ reported = <<>>
      /\ work = state /\ pc = "idle" /\ active = NoneActive /\ closed = <<>>
  BY DEF Init
<1>2. DOMAIN chain = {} /\ Len(<<>>) = 0 /\ 1..0 = {}
  BY <1>1
<1>3. Waited(state) /\ Waited(work)
  BY <1>1, <1>2 DEF Waited
<1>4. Settled(state, Len(state.latest)) /\ Settled(work, Looked(work.latest, pc))
  BY <1>1, <1>2 DEF Settled, Looked
<1>5. ListensToLast
  BY <1>1 DEF ListensToLast, NoneActive
<1>6. \A missed, latest, S : Covered(chain, missed, Nothing, <<>>, latest, S)
  <2>1. \A X : <<>> \in Seq(X)
    OBVIOUS
  <2>2. DOMAIN Nothing = {}
    BY DEF Nothing
  <2>3. QED
    BY <2>1, <2>2 DEF Covered
<1>7. QED
  BY <1>1, <1>3, <1>4, <1>5, <1>6 DEF PaymentInv, RunClock, RunPayments

\* The environment adds actions and blocks while no run is under way: what is counted
\* stays covered.
LEMMA EnvironmentPayments ==
  ASSUME TypeInv, TypeInv', LedgerInv, PaymentInv, Environment
  PROVE  PaymentInv'
<1>1. ChainGrows /\ now' \in Nat /\ chain' \in Seq(Action)
  BY EnvironmentGrows
<1>2. UNCHANGED <<state, reported, run>> /\ pc = "idle"
  BY DEF Environment, AppendAction, ProduceBlock, Reorganize
<1>3. PICK s : s = state
  OBVIOUS
<1>4. PICK last : last = Len(s.latest)
  OBVIOUS
<1>5. PICK latest : latest = s.latest
  OBVIOUS
<1>6. PICK acts : acts = chain
  OBVIOUS
<1>7. PICK more : more = chain'
  OBVIOUS
<1>8. PICK time : time = now'
  OBVIOUS
<1>9. PICK all : all = reported
  OBVIOUS
<1>10. IsState(s) /\ Ledger(s) /\ Waited(s) /\ Settled(s, last)
  BY <1>3, <1>4 DEF TypeInv, LedgerInv, PaymentInv
<1>11. Waited(s)' /\ Settled(s, last)'
  BY <1>1, <1>4, <1>10, ClockOutlastsActions
<1>12. latest \in Seq(Block)
  BY <1>5, <1>10 DEF IsState
<1>13. \A m \in 1..Len(latest) : read_varint(latest[m].timestamp) < time
  BY <1>4, <1>5, <1>8, <1>11 DEF Settled
<1>14. /\ acts \in Seq(Action) /\ more \in Seq(Action) /\ time \in Nat
       /\ DOMAIN acts \subseteq DOMAIN more /\ \A i \in DOMAIN acts : more[i] = acts[i]
  BY <1>1, <1>6, <1>7, <1>8 DEF TypeInv, EnvTyped, ChainGrows
<1>15. \A i \in DOMAIN more : i \notin DOMAIN acts => time <= more[i].timestamp
  BY <1>1, <1>6, <1>7, <1>8, <1>14 DEF ChainGrows
<1>16. Covered(acts, s.missed, s.orders, all, latest, Places(latest))
  BY <1>3, <1>5, <1>6, <1>9 DEF PaymentInv
<1>17. Covered(more, s.missed, s.orders, all, latest, Places(latest))
  BY <1>12, <1>13, <1>14, <1>15, <1>16, CoveredOutlastsActions
<1>18. /\ state' = s /\ work' = s /\ chain' = more /\ reported' = all
       /\ closed' = <<>> /\ active' = NoneActive /\ pc' = "idle"
  BY <1>2, <1>3, <1>7, <1>9 DEF LedgerInv, run
<1>19. Settled(s, Len(s.latest))'
  BY <1>4, <1>11
<1>20. Covered(more, s.missed, s.orders, all, s.latest, Places(s.latest))
  BY <1>5, <1>17
<1>21. QED
  BY <1>10, <1>11, <1>18, <1>19, <1>20, RestPayments

\* A run starts with what the state has counted.
LEMMA StartPayments ==
  ASSUME TypeInv, LedgerInv, PaymentInv, NEW skipped \in Nat, NEW actionCount \in Nat,
         NEW blockCount \in Nat, Start(skipped, actionCount, blockCount)
  PROVE  PaymentInv'
<1>1. UNCHANGED <<chain, now, state, reported, active, closed>> /\ pc = "idle" /\ pc' = "verify"
  BY DEF Start, StartOn, env, Goto
<1>2. PICK from : from = state
  OBVIOUS
<1>3. IsState(from) /\ Ledger(from) /\ StartOn(from, skipped, actionCount, blockCount)
  BY <1>2 DEF Start, TypeInv, LedgerInv
<1>4. work'.latest = from.latest /\ work'.orders = from.orders
  BY <1>3, StartFields
<1>. DEFINE behind == Behind(from)
            after == Behind(work)'
            missed == work'.missed
<1>5. /\ behind \in Nat /\ after \in Nat /\ behind <= after /\ from.missed \subseteq missed
      /\ \A i \in behind + 1..after : i \in missed
  BY <1>3, BehindType, StartBehind
<1>6. active = NoneActive /\ closed = <<>>
  BY <1>1 DEF LedgerInv
<1>16. \A i \in DOMAIN chain : i \in Nat
  BY LenProperties DEF TypeInv, EnvTyped
<1>7. Waited(state)' /\ Waited(work)'
  <2>1. Waited(from)
    BY <1>2 DEF PaymentInv
  <2>2. Waited(state)'
    BY <1>1, <1>2, <2>1 DEF Waited, Behind
  <2>3. ASSUME NEW i \in DOMAIN chain \ missed, i <= after
        PROVE  i \in DOMAIN chain \ from.missed /\ i <= behind
    <3>. HIDE DEF behind, after, missed
    <3>1. i \notin behind + 1..after
      BY <1>5, <2>3
    <3>2. QED
      BY <1>5, <1>16, <2>3, <3>1
  <2>4. Waited(work)'
    BY <1>1, <1>4, <2>1, <2>3 DEF Waited, ReachedBy
  <2>5. QED
    BY <2>2, <2>4
<1>8. Settled(state, Len(state.latest))' /\ Settled(work, Looked(work.latest, pc))'
  <2>1. Settled(from, Len(from.latest))
    BY <1>2 DEF PaymentInv
  <2>2. Settled(state, Len(state.latest))'
    BY <1>1, <1>2, <2>1 DEF Settled, Behind
  <2>3. \A i \in DOMAIN chain : i <= behind => i <= after
    <3>. HIDE DEF behind, after
    <3>1. QED
      BY <1>5, <1>16
  <2>4. Looked(work.latest, pc)' = Len(from.latest)
    BY <1>1, <1>4 DEF Looked
  <2>5. Settled(work, Len(from.latest))'
    BY <1>1, <1>4, <2>1, <2>3 DEF Settled
  <2>6. QED
    BY <2>2, <2>4, <2>5 DEF Settled
<1>9. ListensToLast'
  BY <1>1, <1>6 DEF ListensToLast, NoneActive
<1>10. Walked(from.latest, "verify", txs') = Places(from.latest)
  <2>1. from.latest \in Seq(Block)
    BY <1>3 DEF IsState
  <2>2. QED
    BY <2>1, AllWalked
<1>11. Covered(chain, from.missed, from.orders, reported, from.latest, Places(from.latest))
  BY <1>2 DEF PaymentInv
<1>12. Covered(chain, missed, from.orders, <<>>, from.latest, Places(from.latest))
  <2>1. \A X : <<>> \in Seq(X)
    OBVIOUS
  <2>2. Covered(chain, from.missed, from.orders, <<>>, from.latest, Places(from.latest))
    BY <1>11, <2>1 DEF Covered
  <2>3. from.latest \in Seq(Block)
    BY <1>3 DEF IsState
  <2>. HIDE DEF missed
  <2>4. QED
    BY <1>5, <2>2, <2>3, CoveredOutlastsGaps
<1>13. RunPayments'
  BY <1>1, <1>4, <1>6, <1>10, <1>12 DEF RunPayments
<1>14. Covered(chain, state.missed, state.orders, reported, state.latest, Places(state.latest))'
  BY <1>1, <1>2, <1>11
<1>17. state'.missed \subseteq work'.missed
  BY <1>1, <1>2, <1>5
<1>15. QED
  BY <1>7, <1>8, <1>9, <1>13, <1>14, <1>17 DEF PaymentInv, RunClock

\* The reports of two lists are covered by what covers each.
LEMMA CoveredBoth ==
  ASSUME NEW T, NEW recorded \in Seq(T), NEW reports \in Seq(T)
  PROVE  recorded \o reports \in Seq(T)
BY ConcatProperties

\* The end of a run: what it counted joins what is on record.
LEMMA CommitPayments ==
  ASSUME TypeInv, LedgerInv, FinalityInv, PaymentInv, Commit
  PROVE  PaymentInv'
<1>1. PICK s : s = work
  OBVIOUS
<1>2. PICK acts : acts = chain
  OBVIOUS
<1>3. PICK recorded : recorded = reported
  OBVIOUS
<1>4. PICK reports : reports = closed
  OBVIOUS
<1>5. PICK old : old = state.latest
  OBVIOUS
<1>6. PICK all : all = recorded \o reports
  OBVIOUS
<1>7. PICK latest : latest = s.latest
  OBVIOUS
<1>8. /\ state' = s /\ work' = s /\ chain' = acts /\ reported' = all /\ now' = now
      /\ closed' = <<>> /\ active' = NoneActive /\ pc' = "idle" /\ pc = "verify"
  BY <1>1, <1>2, <1>3, <1>4, <1>6 DEF Commit, Forget, Goto, env
<1>9. IsState(s) /\ latest \in Seq(Block) /\ old \in Seq(Block)
  BY <1>1, <1>5, <1>7 DEF TypeInv, RunTyped, IsState
<1>10. Waited(s) /\ Settled(s, Len(s.latest))
  BY <1>1, <1>8 DEF PaymentInv, RunClock, Looked
<1>11. Waited(s)' /\ Settled(s, Len(s.latest))'
  BY <1>2, <1>8, <1>10 DEF Waited, Settled
<1>12. Covered(acts, s.missed, s.orders, reports, latest, Places(latest))
  BY <1>1, <1>2, <1>4, <1>7, <1>8, <1>9, AllWalked DEF PaymentInv, RunPayments
<1>13. PICK orders : orders = state.orders
  OBVIOUS
<1>0. PICK few : few = state.missed
  OBVIOUS
<1>14. Covered(acts, few, orders, recorded, old, Places(old)) /\ few \subseteq s.missed
  BY <1>0, <1>1, <1>2, <1>3, <1>5, <1>13 DEF PaymentInv
<1>15. RunGrows
  BY <1>8 DEF FinalityInv, RunFinality
<1>16. Len(old) <= Len(latest) /\ \A n \in 1..Len(old) : latest[n] = old[n]
  BY <1>1, <1>5, <1>7, <1>15 DEF RunGrows
<1>17. Places(old) \in SUBSET Places(latest)
  BY <1>9, <1>16, MoreBlocks
<1>18. Covered(acts, s.missed, orders, recorded, latest, Places(latest))
  <2>1. Covered(acts, few, orders, recorded, latest, Places(latest))
    BY <1>9, <1>14, <1>16, <1>17, CoveredGrows
  <2>2. QED
    BY <1>9, <1>14, <2>1, CoveredOutlastsGaps
<1>19. all \in Seq(CoveredBy(acts, s.missed, latest, Places(latest)))
  BY <1>6, <1>12, <1>18, CoveredBoth DEF Covered
<1>20. Covered(acts, s.missed, s.orders, all, s.latest, Places(s.latest))
  BY <1>7, <1>12, <1>19 DEF Covered
<1>21. QED
  BY <1>8, <1>9, <1>11, <1>20, RestPayments

\* A run that is cut short changes nothing.
LEMMA AbortPayments ==
  ASSUME TypeInv, PaymentInv, Abort
  PROVE  PaymentInv'
<1>1. PICK s : s = state
  OBVIOUS
<1>2. PICK acts : acts = chain
  OBVIOUS
<1>3. PICK all : all = reported
  OBVIOUS
<1>4. /\ state' = s /\ work' = s /\ chain' = acts /\ reported' = all /\ now' = now
      /\ closed' = <<>> /\ active' = NoneActive /\ pc' = "idle"
  BY <1>1, <1>2, <1>3 DEF Abort, Forget, Goto, env
<1>5. IsState(s) /\ Waited(s) /\ Settled(s, Len(s.latest))
  BY <1>1 DEF TypeInv, PaymentInv
<1>6. Waited(s)' /\ Settled(s, Len(s.latest))'
  BY <1>2, <1>4, <1>5 DEF Waited, Settled
<1>7. Covered(acts, s.missed, s.orders, all, s.latest, Places(s.latest))
  BY <1>1, <1>2, <1>3 DEF PaymentInv
<1>8. QED
  BY <1>4, <1>5, <1>6, <1>7, RestPayments

\* Every step keeps what is counted covered by payments.
LEMMA PaymentNext ==
  ASSUME TypeInv, LedgerInv, FinalityInv, ReasonInv, OwnInv, PaymentInv, [Next]_vars
  PROVE  PaymentInv'
<1>0. TypeInv'
  BY TypedNext
<1>1. CASE Environment
  BY <1>0, <1>1, EnvironmentPayments
<1>2. ASSUME NEW skipped \in 0..MaxActions, NEW actionCount \in 0..MaxActions,
             NEW blockCount \in 1..MaxBlocks, Start(skipped, actionCount, blockCount)
      PROVE  PaymentInv'
  <2>1. skipped \in Nat /\ actionCount \in Nat /\ blockCount \in Nat
    BY ProgramAssumption
  <2>2. QED
    BY <1>2, <2>1, StartPayments
<1>3. CASE RunStep
  <2>1. RunClock'
    BY <1>3, StepClock DEF LedgerInv, RunLedger, ReasonInv, PaymentInv
  <2>2. RunPayments'
    BY <1>3, StepPayments DEF LedgerInv, PaymentInv
  <2>3. UNCHANGED <<chain, now, state, reported>>
    BY <1>3 DEF RunStep, VerifyBlock, OpenOrder, CloseOrder, WalkThrough, IgnoreTx, CountTransfer,
           CountVote, FinishBlock, env
  <2>4. Waited(state)' /\ Settled(state, Len(state.latest))'
    BY <2>3 DEF PaymentInv, Waited, Settled, Behind
  <2>5. Covered(chain, state.missed, state.orders, reported, state.latest, Places(state.latest))'
    BY <2>3 DEF PaymentInv
  <2>6. work'.missed = work.missed
    BY <1>3, VerifyFields, OpenFields, CloseFields, TransferFields, VoteFields, FinishFields
       DEF RunStep, WalkThrough, IgnoreTx, TypeInv, RunTyped
  <2>7. state'.missed \subseteq work'.missed
    BY <2>3, <2>6 DEF PaymentInv
  <2>8. QED
    BY <2>1, <2>2, <2>4, <2>5, <2>7 DEF PaymentInv
<1>4. CASE Commit
  BY <1>4, CommitPayments
<1>5. CASE Abort
  BY <1>5, AbortPayments
<1>6. CASE UNCHANGED vars
  <2>1. Waited(state)' /\ Waited(work)'
    BY <1>6 DEF vars, env, run, PaymentInv, RunClock, Waited, Behind
  <2>2. Settled(state, Len(state.latest))' /\ Settled(work, Looked(work.latest, pc))'
    BY <1>6 DEF vars, env, run, PaymentInv, RunClock, Settled, Behind
  <2>3. ListensToLast'
    BY <1>6 DEF vars, env, run, PaymentInv, RunClock, ListensToLast, Behind
  <2>4. RunPayments'
    BY <1>6 DEF vars, env, run, PaymentInv, RunPayments
  <2>5. Covered(chain, state.missed, state.orders, reported, state.latest, Places(state.latest))'
        /\ state'.missed \subseteq work'.missed
    BY <1>6 DEF vars, env, run, PaymentInv
  <2>6. QED
    BY <2>1, <2>2, <2>3, <2>4, <2>5 DEF PaymentInv, RunClock
<1>7. QED
  BY <1>1, <1>2, <1>3, <1>4, <1>5, <1>6 DEF Next, Program, RunStep

\* The reasons for which orders are closed hold in every state.
LEMMA AlwaysReasons == Spec => []ReasonInv
<1>1. TypeInv /\ LedgerInv /\ FinalityInv /\ ReasonInv /\ [Next]_vars => ReasonInv'
  BY ReasonNext
<1>2. QED
  BY <1>1, ReasonInit, AlwaysTyped, AlwaysLedger, AlwaysFinality, PTL DEF Spec

\* What is counted is covered by payments in every state.
LEMMA AlwaysPaid == Spec => []PaymentInv
<1>1. /\ TypeInv /\ LedgerInv /\ FinalityInv /\ ReasonInv /\ OwnInv /\ PaymentInv /\ [Next]_vars
      => PaymentInv'
  BY PaymentNext
<1>2. QED
  BY <1>1, PaymentInit, AlwaysTyped, AlwaysLedger, AlwaysFinality, AlwaysReasons, AlwaysOwn, PTL
     DEF Spec

\* The payments to somebody in some blocks, and what was read from them.
PaidAt(latest, to, heights) ==
  {p \in UNION {{n} \X DOMAIN latest[n].txs : n \in heights} :
     LET tx == latest[p[1]].txs[p[2]] IN tx.to = to /\ tx.success}

ReadAt(latest, T) == [p \in T |-> ParsedValue(latest[p[1]].txs[p[2]])]

\* They are at places of those blocks.
LEMMA PaidAtPlaces ==
  ASSUME NEW latest \in Seq(Block), NEW to, NEW heights \in SUBSET (1..Len(latest)), NEW p
  PROVE  p \in PaidAt(latest, to, heights)
           <=> /\ p \in Places(latest) /\ p[1] \in heights
               /\ TxAt(latest, p).to = to /\ TxAt(latest, p).success
<1>1. UNION {{n} \X DOMAIN latest[n].txs : n \in heights}
        = {q \in Places(latest) : q[1] \in heights}
  BY PlacesIn
<1>2. QED
  BY <1>1 DEF TxAt, PaidAt

\* What was read from some payments is a total.
LEMMA ReadIsTotal ==
  ASSUME NEW latest \in Seq(Block), NEW T \in SUBSET Places(latest)
  PROVE  SumFunction(ReadAt(latest, T)) = Total(latest, PayWorth, T)
<1>1. PICK g : g = ReadAt(latest, T)
  OBVIOUS
<1>2. \A p \in T : TxAt(latest, p) \in Tx
  BY PlacesType
<1>3. DOMAIN g = T
  BY <1>1 DEF ReadAt
<1>4. \A p \in T : g[p] = PayWorth[TxAt(latest, p)]
  BY <1>1, <1>2 DEF ReadAt, TxAt, PayWorth
<1>5. PayWorth \in [Tx -> Nat]
  BY PayWorthType
<1>6. SumFunction(g) = Total(latest, PayWorth, T)
  BY <1>3, <1>4, <1>5, SumIsTotal
<1>7. QED
  BY <1>1, <1>6

\* What is covered was paid in the blocks of the life of the order, or in more.
LEMMA CoveredIsPaid ==
  ASSUME NEW latest \in Seq(Block), NEW acts, NEW missed, NEW r \in CoveredBy(acts, missed, latest, Places(latest)),
         NEW heights \in SUBSET (1..Len(latest)),
         \A n \in 1..Len(latest) : InLife(acts, missed, r.id, latest, n) => n \in heights
  PROVE  r.inflow <= SumFunction(ReadAt(latest, PaidAt(latest, acts[r.id].address, heights)))
<1>. DEFINE R == PaymentsFor(acts, missed, r.id, latest, Places(latest))
            T == PaidAt(latest, acts[r.id].address, heights)
            paid == Total(latest, PayWorth, R)
            all == Total(latest, PayWorth, T)
<1>1. \A p \in Places(latest) : p[1] \in 1..Len(latest)
  BY PlacesType
<1>2. T \in SUBSET Places(latest)
  BY PaidAtPlaces
<1>3. R \subseteq T
  BY <1>1, PaidAtPlaces DEF PaymentsFor
<1>4. SumFunction(ReadAt(latest, T)) = all
  <2>. HIDE DEF T
  <2>1. QED
    BY <1>2, ReadIsTotal
<1>5. paid \in Nat /\ all \in Nat /\ paid <= all
  <2>. HIDE DEF R, T
  <2>1. QED
    BY <1>2, <1>3, PayWorthType, TotalLaws
<1>6. r.inflow \in Nat /\ r.inflow <= paid
  BY DEF CoveredBy, PaidFor
<1>. HIDE DEF paid, all
<1>7. r.inflow <= all
  BY <1>5, <1>6
<1>8. QED
  BY <1>4, <1>7

\* The orders that are open and those on record were paid, by the times that the
\* program reads.
LEMMA ReportsAreCovered ==
  ASSUME NEW acts, NEW missed, NEW orders, NEW reports, NEW latest, NEW S,
         Covered(acts, missed, orders, reports, latest, S)
  PROVE  /\ \A i \in DOMAIN reports : reports[i] \in CoveredBy(acts, missed, latest, S)
         /\ \A id \in DOMAIN orders :
              /\ Report(id, orders[id]) \in CoveredBy(acts, missed, latest, S)
              /\ Report(id, orders[id]).id = id /\ Report(id, orders[id]).inflow = orders[id]
<1>1. ASSUME NEW i \in DOMAIN reports PROVE reports[i] \in CoveredBy(acts, missed, latest, S)
  <2>. DEFINE T == CoveredBy(acts, missed, latest, S)
  <2>1. reports \in Seq(T)
    BY DEF Covered
  <2>. HIDE DEF T
  <2>2. reports[i] \in T
    BY <1>1, <2>1, LenProperties, ElementOfSeq
  <2>3. QED
    BY <2>2 DEF T
<1>2. QED
  BY <1>1 DEF Covered, Report

\* The blocks of the life of an order by the times that are read, and what was read
\* from the payments in them.
ReadLife(acts, missed, latest, id) == {n \in DOMAIN latest : InLife(acts, missed, id, latest, n)}

ReadOver(acts, missed, latest, id) ==
  SumFunction(ReadAt(latest, PaidAt(latest, acts[id].address, ReadLife(acts, missed, latest, id))))

PaidByClock(acts, missed, orders, reports, latest) ==
  /\ \A i \in DOMAIN reports : reports[i].inflow <= ReadOver(acts, missed, latest, reports[i].id)
  /\ \A id \in DOMAIN orders : orders[id] <= ReadOver(acts, missed, latest, id)

\* What is covered was paid by those times.
LEMMA CoveredWasRead ==
  ASSUME NEW latest \in Seq(Block), NEW acts, NEW missed, NEW orders, NEW reports,
         Covered(acts, missed, orders, reports, latest, Places(latest))
  PROVE  PaidByClock(acts, missed, orders, reports, latest)
<1>1. DOMAIN latest = 1..Len(latest)
  BY LenProperties
<1>2. ASSUME NEW r \in CoveredBy(acts, missed, latest, Places(latest))
      PROVE  r.inflow <= ReadOver(acts, missed, latest, r.id)
  <2>1. PICK heights : heights = ReadLife(acts, missed, latest, r.id)
    OBVIOUS
  <2>2. /\ heights \in SUBSET (1..Len(latest))
        /\ \A n \in 1..Len(latest) : InLife(acts, missed, r.id, latest, n) => n \in heights
    BY <1>1, <2>1 DEF ReadLife
  <2>3. r.inflow <= SumFunction(ReadAt(latest, PaidAt(latest, acts[r.id].address, heights)))
    BY <2>2, CoveredIsPaid
  <2>4. QED
    BY <2>1, <2>3 DEF ReadOver
<1>3. ASSUME NEW i \in DOMAIN reports
      PROVE  reports[i].inflow <= ReadOver(acts, missed, latest, reports[i].id)
  <2>1. reports[i] \in CoveredBy(acts, missed, latest, Places(latest))
    BY ReportsAreCovered
  <2>2. QED
    BY <1>2, <2>1
<1>4. ASSUME NEW id \in DOMAIN orders PROVE orders[id] <= ReadOver(acts, missed, latest, id)
  <2>1. PICK r : r = Report(id, orders[id])
    OBVIOUS
  <2>2. r \in CoveredBy(acts, missed, latest, Places(latest)) /\ r.id = id /\ r.inflow = orders[id]
    BY <2>1, ReportsAreCovered
  <2>3. QED
    BY <1>2, <2>2
<1>5. QED
  BY <1>3, <1>4 DEF PaidByClock

\* Whatever the word makes of the times of blocks, and whichever actions were left
\* out, each transfer is counted for the one order that lives by the times that are
\* read and by the actions that were not left out, once, or for none: in every state,
\* for every width of a word.
THEOREM InflowsWereRead == Spec => []InflowWasRead
<1>1. TypeInv /\ PaymentInv => InflowWasRead
  <2>. SUFFICES ASSUME TypeInv, PaymentInv PROVE InflowWasRead
    OBVIOUS
  <2>1. PICK latest : latest = state.latest
    OBVIOUS
  <2>2. PICK acts : acts = chain
    OBVIOUS
  <2>3. latest \in Seq(Block)
    BY <2>1 DEF TypeInv, IsState
  <2>4. PICK orders : orders = state.orders
    OBVIOUS
  <2>5. PICK reports : reports = reported
    OBVIOUS
  <2>0. PICK missed : missed = state.missed
    OBVIOUS
  <2>6. Covered(acts, missed, orders, reports, latest, Places(latest))
    BY <2>0, <2>1, <2>2, <2>4, <2>5 DEF PaymentInv
  <2>7. PaidByClock(acts, missed, orders, reports, latest)
    BY <2>3, <2>6, CoveredWasRead
  <2>8. ASSUME NEW id PROVE PaidIn(id, LifeAsRead(id)) = ReadOver(acts, missed, latest, id)
    <3>1. LifeAsRead(id) = ReadLife(acts, missed, latest, id)
      BY <2>0, <2>1, <2>2 DEF LifeAsRead, ReadLife, InLife
    <3>2. PICK heights : heights = LifeAsRead(id)
      OBVIOUS
    <3>3. TxsTo(acts[id].address, heights) = PaidAt(latest, acts[id].address, heights)
      BY <2>1 DEF TxsTo, PaidAt
    <3>4. PaidIn(id, heights) = SumFunction(ReadAt(latest, TxsTo(acts[id].address, heights)))
      BY <2>1, <2>2 DEF PaidIn, SumTo, ReadAt
    <3>5. QED
      BY <3>1, <3>2, <3>3, <3>4 DEF ReadOver
  <2>9. QED
    BY <2>4, <2>5, <2>7, <2>8 DEF PaidByClock, InflowWasRead
<1>2. QED
  BY <1>1, AlwaysTyped, AlwaysPaid, PTL
=============================================================================
