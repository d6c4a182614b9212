----------------------------- MODULE UntronSums -----------------------------
(***************************************************************************)
(* What the proofs need of sums.  SumFunctionOnSet(f, S) is the fold of    *)
(* the community modules: it takes the elements of S one by one, in an     *)
(* order that CHOOSE leaves open.  The lemmas below say that the order     *)
(* does not matter.                                                        *)
(*                                                                         *)
(* They are proved by induction over the natural numbers, in the form that *)
(* needs no operator as a parameter: a set of numbers that holds 0 and the *)
(* successor of each of its members holds them all.                        *)
(***************************************************************************)
EXTENDS Integers, FiniteSets, Functions, FiniteSetTheorems, WellFoundedInduction, TLAPS

\* Induction over the natural numbers.
LEMMA NaturalsByInduction ==
  ASSUME NEW T, 0 \in T, \A n \in Nat : n \in T => n + 1 \in T
  PROVE  Nat \subseteq T
<1>. SUFFICES ASSUME NEW m \in Nat, m \notin T PROVE FALSE
  OBVIOUS
<1>. DEFINE U == Nat \ T
            R == OpToRel(<, Nat)
<1>1. IsWellFoundedOn(R, Nat)
  BY NatLessThanWellFounded
<1>2. U \subseteq Nat /\ U # {}
  OBVIOUS
<1>. HIDE DEF R
<1>3. PICK x \in U : \A y \in U : ~(<<y, x>> \in R)
  BY <1>1, <1>2, WFMin
<1>4. x \in Nat /\ x # 0 /\ x - 1 \in Nat
  OBVIOUS
<1>5. x - 1 \in U
  <2>1. x - 1 \in T => (x - 1) + 1 \in T
    BY <1>4
  <2>2. (x - 1) + 1 = x
    BY <1>4
  <2>3. QED
    BY <1>4, <2>1, <2>2
<1>6. <<x - 1, x>> \in R
  BY <1>4 DEF R, OpToRel
<1>7. QED
  BY <1>3, <1>5, <1>6

-----------------------------------------------------------------------------
(***************************************************************************)
(* The fold is a function on the subsets of S, defined by recursion.       *)
(***************************************************************************)
Pick(s) == CHOOSE x \in s : TRUE

Rest(s) == s \ {Pick(s)}

\* The table that the fold looks up: the sum over each subset.
IsTable(g, f, S) ==
  g = [s \in SUBSET S |-> IF s = {} THEN 0 ELSE f[Pick(s)] + g[Rest(s)]]

Table(f, S) == CHOOSE g : IsTable(g, f, S)

\* The subsets of S with at most n elements.
UpTo(n, S) == {s \in SUBSET S : Cardinality(s) <= n}

\* A table for these, of integers.
IsTableUpTo(g, n, f, S) ==
  /\ g \in [UpTo(n, S) -> Int]
  /\ \A s \in UpTo(n, S) : g[s] = IF s = {} THEN 0 ELSE f[Pick(s)] + g[Rest(s)]

\* The rest of a set is a smaller subset.
LEMMA RestType ==
  ASSUME NEW S, IsFiniteSet(S), NEW s \in SUBSET S, s # {}
  PROVE  /\ Pick(s) \in s /\ Rest(s) \in SUBSET S /\ s = Rest(s) \cup {Pick(s)}
         /\ Pick(s) \notin Rest(s)
         /\ IsFiniteSet(s) /\ IsFiniteSet(Rest(s))
         /\ Cardinality(s) \in Nat /\ Cardinality(Rest(s)) \in Nat
         /\ Cardinality(s) = Cardinality(Rest(s)) + 1
<1>1. Pick(s) \in s
  BY DEF Pick
<1>2. IsFiniteSet(s)
  BY FS_Subset
<1>3. IsFiniteSet(Rest(s)) /\ Cardinality(Rest(s)) = Cardinality(s) - 1
  BY <1>1, <1>2, FS_RemoveElement DEF Rest
<1>4. Cardinality(s) \in Nat /\ Cardinality(Rest(s)) \in Nat
  BY <1>2, <1>3, FS_CardinalityType
<1>5. QED
  BY <1>1, <1>2, <1>3, <1>4 DEF Rest

\* There is a table for the subsets of every size.
LEMMA TablesExist ==
  ASSUME NEW S, IsFiniteSet(S), NEW f, \A x \in S : f[x] \in Int
  PROVE  \A n \in Nat : \E g : IsTableUpTo(g, n, f, S)
<1>. DEFINE T == {n \in Nat : \E g : IsTableUpTo(g, n, f, S)}
<1>0. ASSUME NEW s \in SUBSET S, s # {} PROVE Cardinality(s) \in Nat /\ Cardinality(s) # 0
  <2>1. /\ Cardinality(s) \in Nat /\ Cardinality(Rest(s)) \in Nat
        /\ Cardinality(s) = Cardinality(Rest(s)) + 1
    BY <1>0, RestType
  <2>. DEFINE c == Cardinality(s)
              d == Cardinality(Rest(s))
  <2>. HIDE DEF c, d
  <2>2. c \in Nat /\ d \in Nat /\ c = d + 1
    BY <2>1 DEF c, d
  <2>3. c # 0
    BY <2>2
  <2>4. QED
    BY <2>2, <2>3 DEF c
<1>1. 0 \in T
  <2>. DEFINE g == [s \in UpTo(0, S) |-> 0]
  <2>1. \A s \in UpTo(0, S) : s = {}
    BY <1>0 DEF UpTo
  <2>2. IsTableUpTo(g, 0, f, S)
    BY <2>1 DEF IsTableUpTo
  <2>3. QED
    BY <2>2
<1>2. ASSUME NEW n \in Nat, n \in T PROVE n + 1 \in T
  <2>1. PICK g : IsTableUpTo(g, n, f, S)
    BY <1>2
  <2>. DEFINE h == [s \in UpTo(n + 1, S) |->
                      IF s = {} THEN 0 ELSE f[Pick(s)] + g[Rest(s)]]
  <2>2. \A s \in UpTo(n + 1, S) : s # {} => Rest(s) \in UpTo(n, S) /\ Pick(s) \in S
    BY RestType DEF UpTo
  <2>3. g \in [UpTo(n, S) -> Int]
        /\ \A s \in UpTo(n, S) : g[s] = IF s = {} THEN 0 ELSE f[Pick(s)] + g[Rest(s)]
    BY <2>1 DEF IsTableUpTo
  <2>4. h \in [UpTo(n + 1, S) -> Int]
    BY <2>2, <2>3
  <2>5. \A s \in UpTo(n, S) : s \in UpTo(n + 1, S) /\ h[s] = g[s]
    <3>1. UpTo(n, S) \subseteq UpTo(n + 1, S)
      <4>1. \A s \in SUBSET S : Cardinality(s) \in Nat
        BY FS_Subset, FS_CardinalityType
      <4>2. QED
        BY <4>1 DEF UpTo
    <3>2. QED
      BY <2>3, <3>1
  <2>6. \A s \in UpTo(n + 1, S) : h[s] = IF s = {} THEN 0 ELSE f[Pick(s)] + h[Rest(s)]
    BY <2>2, <2>5
  <2>. HIDE DEF h
  <2>7. IsTableUpTo(h, n + 1, f, S)
    BY <2>4, <2>6 DEF IsTableUpTo
  <2>8. QED
    BY <2>7
<1>. HIDE DEF T
<1>3. Nat \subseteq T
  BY <1>1, <1>2, NaturalsByInduction
<1>4. QED
  BY <1>3 DEF T

\* What the fold looks up is a table of integers.
LEMMA TableFound ==
  ASSUME NEW S, IsFiniteSet(S), NEW f, \A x \in S : f[x] \in Int
  PROVE  /\ Table(f, S) \in [SUBSET S -> Int]
         /\ Table(f, S)[{}] = 0
         /\ \A s \in SUBSET S :
              s # {} => Table(f, S)[s] = f[Pick(s)] + Table(f, S)[Rest(s)]
<1>. DEFINE n == Cardinality(S)
<1>1. n \in Nat /\ \A s \in SUBSET S : Cardinality(s) <= n
  BY FS_Subset, FS_CardinalityType
<1>2. UpTo(n, S) = SUBSET S
  BY <1>1 DEF UpTo
<1>3. PICK g : IsTableUpTo(g, n, f, S)
  BY <1>1, TablesExist
<1>4. g \in [SUBSET S -> Int]
      /\ \A s \in SUBSET S : g[s] = IF s = {} THEN 0 ELSE f[Pick(s)] + g[Rest(s)]
  BY <1>2, <1>3 DEF IsTableUpTo
<1>5. IsTable(g, f, S)
  BY <1>4 DEF IsTable
<1>. DEFINE t == Table(f, S)
<1>6. IsTable(t, f, S)
  BY <1>5 DEF Table
<1>. HIDE DEF t
<1>7. /\ DOMAIN t = SUBSET S
      /\ \A s \in SUBSET S : t[s] = IF s = {} THEN 0 ELSE f[Pick(s)] + t[Rest(s)]
      /\ t = [s \in SUBSET S |-> t[s]]
  BY <1>6 DEF IsTable
<1>8. \A m \in Nat : \A s \in UpTo(m, S) : t[s] \in Int
  <2>. DEFINE T == {m \in Nat : \A s \in UpTo(m, S) : t[s] \in Int}
  <2>1. 0 \in T
    <3>1. \A s \in UpTo(0, S) : s = {}
      BY RestType DEF UpTo
    <3>2. t[{}] = 0
      BY <1>7
    <3>3. QED
      BY <3>1, <3>2
  <2>2. ASSUME NEW m \in Nat, m \in T PROVE m + 1 \in T
    <3>. SUFFICES ASSUME NEW s \in UpTo(m + 1, S) PROVE t[s] \in Int
      OBVIOUS
    <3>0. s \in SUBSET S
      BY DEF UpTo
    <3>1. CASE s = {}
      <4>1. t[s] = 0
        BY <1>7, <3>0, <3>1
      <4>2. QED
        BY <4>1
    <3>2. CASE s # {}
      <4>1. s \in SUBSET S /\ Rest(s) \in UpTo(m, S) /\ Pick(s) \in S
        BY <3>2, RestType DEF UpTo
      <4>2. t[Rest(s)] \in Int /\ f[Pick(s)] \in Int
        BY <2>2, <4>1
      <4>3. t[s] = f[Pick(s)] + t[Rest(s)]
        BY <1>7, <3>0, <3>2
      <4>4. QED
        BY <4>2, <4>3
    <3>3. QED
      BY <3>1, <3>2
  <2>. HIDE DEF T
  <2>3. Nat \subseteq T
    BY <2>1, <2>2, NaturalsByInduction
  <2>4. QED
    BY <2>3 DEF T
<1>9. \A s \in SUBSET S : t[s] \in Int
  BY <1>1, <1>2, <1>8
<1>10. t \in [SUBSET S -> Int]
  BY <1>7, <1>9
<1>11. QED
  BY <1>7, <1>10 DEF t

\* The fold looks up its whole set.
LEMMA SumIsLookup ==
  ASSUME NEW f, NEW S
  PROVE  SumFunctionOnSet(f, S) = Table(f, S)[S]
BY DEF SumFunctionOnSet, FoldFunctionOnSet, MapThenFoldSet, Table, IsTable, Pick, Rest

\* A subset has the same sum in every table.
LEMMA TablesAgree ==
  ASSUME NEW S, IsFiniteSet(S), NEW f, \A x \in S : f[x] \in Int, NEW A \in SUBSET S
  PROVE  \A s \in SUBSET A : Table(f, A)[s] = Table(f, S)[s]
<1>. DEFINE t == Table(f, S)
            a == Table(f, A)
            T == {m \in Nat : \A s \in UpTo(m, A) : a[s] = t[s]}
<1>1. IsFiniteSet(A) /\ Cardinality(A) \in Nat
      /\ \A s \in SUBSET A : Cardinality(s) <= Cardinality(A)
  BY FS_Subset, FS_CardinalityType
<1>2. t[{}] = 0 /\ \A s \in SUBSET S : s # {} => t[s] = f[Pick(s)] + t[Rest(s)]
  BY TableFound
<1>3. a[{}] = 0 /\ \A s \in SUBSET A : s # {} => a[s] = f[Pick(s)] + a[Rest(s)]
  BY <1>1, TableFound
<1>. HIDE DEF t, a
<1>4. 0 \in T
  <2>1. ASSUME NEW s \in UpTo(0, A) PROVE s = {}
    <3>1. s \in SUBSET A /\ Cardinality(s) <= 0
      BY DEF UpTo
    <3>2. SUFFICES ASSUME s # {} PROVE FALSE
      OBVIOUS
    <3>3. Cardinality(Rest(s)) \in Nat /\ Cardinality(s) = Cardinality(Rest(s)) + 1
      BY <1>1, <3>1, <3>2, RestType
    <3>. DEFINE c == Cardinality(s)
                d == Cardinality(Rest(s))
    <3>4. d \in Nat /\ c = d + 1 /\ c <= 0
      BY <3>1, <3>3
    <3>. HIDE DEF c, d
    <3>5. QED
      BY <3>4
  <2>2. QED
    BY <1>2, <1>3, <2>1
<1>5. ASSUME NEW m \in Nat, m \in T PROVE m + 1 \in T
  <2>. SUFFICES ASSUME NEW s \in UpTo(m + 1, A) PROVE a[s] = t[s]
    OBVIOUS
  <2>1. s \in SUBSET A /\ s \in SUBSET S
    BY DEF UpTo
  <2>2. CASE s = {}
    BY <1>2, <1>3, <2>2
  <2>3. CASE s # {}
    <3>1. Rest(s) \in UpTo(m, A)
      BY <1>1, <2>1, <2>3, RestType DEF UpTo
    <3>2. a[Rest(s)] = t[Rest(s)]
      BY <1>5, <3>1
    <3>3. QED
      BY <1>2, <1>3, <2>1, <2>3, <3>2
  <2>4. QED
    BY <2>2, <2>3
<1>. HIDE DEF T
<1>6. Nat \subseteq T
  BY <1>4, <1>5, NaturalsByInduction
<1>7. ASSUME NEW s \in SUBSET A PROVE a[s] = t[s]
  <2>1. s \in UpTo(Cardinality(A), A)
    BY <1>1 DEF UpTo
  <2>2. Cardinality(A) \in T
    BY <1>1, <1>6
  <2>3. QED
    BY <2>1, <2>2 DEF T
<1>8. QED
  BY <1>7 DEF a, t

\* Any element may be taken first.
LEMMA AnyFirst ==
  ASSUME NEW S, IsFiniteSet(S), NEW f, \A x \in S : f[x] \in Int
  PROVE  \A s \in SUBSET S : \A x \in s :
           Table(f, S)[s] = f[x] + Table(f, S)[s \ {x}]
<1>. DEFINE t == Table(f, S)
            T == {m \in Nat : \A s \in UpTo(m, S) : \A x \in s : t[s] = f[x] + t[s \ {x}]}
<1>1. Cardinality(S) \in Nat /\ \A s \in SUBSET S : Cardinality(s) <= Cardinality(S)
  BY FS_Subset, FS_CardinalityType
<1>2. t \in [SUBSET S -> Int]
      /\ \A s \in SUBSET S : s # {} => t[s] = f[Pick(s)] + t[Rest(s)]
  BY TableFound
<1>. HIDE DEF t
<1>3. ASSUME NEW m \in Nat, NEW s \in UpTo(m + 1, S), NEW x \in s
      PROVE  s \in SUBSET S /\ s \ {x} \in UpTo(m, S)
  <2>1. s \in SUBSET S /\ Cardinality(s) <= m + 1
    BY DEF UpTo
  <2>2. IsFiniteSet(s)
    BY <2>1, FS_Subset
  <2>3. Cardinality(s \ {x}) = Cardinality(s) - 1
    BY <2>2, FS_RemoveElement
  <2>4. Cardinality(s) \in Nat
    BY <2>2, FS_CardinalityType
  <2>. DEFINE c == Cardinality(s)
              d == Cardinality(s \ {x})
  <2>5. c \in Nat /\ d = c - 1 /\ c <= m + 1
    BY <2>1, <2>3, <2>4
  <2>. HIDE DEF c, d
  <2>6. d <= m
    BY <2>5
  <2>7. QED
    BY <2>1, <2>6 DEF d, UpTo
<1>4. 0 \in T
  <2>1. ASSUME NEW s \in UpTo(0, S), NEW x \in s PROVE FALSE
    <3>1. s \in SUBSET S /\ Cardinality(s) <= 0
      BY DEF UpTo
    <3>2. Cardinality(Rest(s)) \in Nat /\ Cardinality(s) = Cardinality(Rest(s)) + 1
      BY <3>1, RestType
    <3>. DEFINE c == Cardinality(s)
                d == Cardinality(Rest(s))
    <3>3. d \in Nat /\ c = d + 1 /\ c <= 0
      BY <3>1, <3>2
    <3>. HIDE DEF c, d
    <3>4. QED
      BY <3>3
  <2>2. QED
    BY <2>1
<1>5. ASSUME NEW m \in Nat, m \in T PROVE m + 1 \in T
  <2>. SUFFICES ASSUME NEW s \in UpTo(m + 1, S), NEW x \in s
                PROVE  t[s] = f[x] + t[s \ {x}]
    OBVIOUS
  <2>. DEFINE p == Pick(s)
  <2>1. p \in s /\ s \in SUBSET S /\ s # {} /\ p \in S /\ x \in S
    BY <1>3 DEF Pick
  <2>2. t[s] = f[p] + t[s \ {p}]
    BY <1>2, <2>1 DEF Rest
  <2>. HIDE DEF p
  <2>3. CASE x = p
    BY <2>2, <2>3
  <2>4. CASE x # p
    <3>. DEFINE rest == s \ {p, x}
    <3>1. (s \ {p}) \ {x} = rest /\ (s \ {x}) \ {p} = rest
          /\ x \in s \ {p} /\ p \in s \ {x} /\ rest \in SUBSET S
      BY <2>1, <2>4
    <3>2. s \ {p} \in UpTo(m, S) /\ s \ {x} \in UpTo(m, S)
      BY <1>3, <2>1
    <3>3. t[s \ {p}] = f[x] + t[rest]
      BY <1>5, <3>1, <3>2
    <3>4. t[s \ {x}] = f[p] + t[rest]
      <4>1. p \in s \ {x} /\ s \ {x} \in UpTo(m, S) /\ (s \ {x}) \ {p} = rest
        BY <3>1, <3>2
      <4>. HIDE DEF rest, T
      <4>2. \A q \in UpTo(m, S) : \A y \in q : t[q] = f[y] + t[q \ {y}]
        BY <1>5 DEF T
      <4>. HIDE DEF t
      <4>3. QED
        BY <4>1, <4>2
    <3>. DEFINE r == t[rest]
                u == f[p]
                v == f[x]
    <3>5. r \in Int /\ u \in Int /\ v \in Int
      BY <1>2, <2>1, <3>1
    <3>6. t[s] = u + (v + r) /\ t[s \ {x}] = u + r
      BY <2>2, <3>3, <3>4
    <3>. HIDE DEF r, u, v
    <3>7. t[s] = v + t[s \ {x}]
      BY <3>5, <3>6
    <3>8. QED
      BY <3>7 DEF v
  <2>5. QED
    BY <2>3, <2>4
<1>. HIDE DEF T
<1>6. Nat \subseteq T
  BY <1>4, <1>5, NaturalsByInduction
<1>7. ASSUME NEW s \in SUBSET S, NEW x \in s PROVE t[s] = f[x] + t[s \ {x}]
  <2>1. s \in UpTo(Cardinality(S), S)
    BY <1>1 DEF UpTo
  <2>2. Cardinality(S) \in T
    BY <1>1, <1>6
  <2>3. QED
    BY <2>1, <2>2 DEF T
<1>8. QED
  BY <1>7 DEF t

-----------------------------------------------------------------------------
(***************************************************************************)
(* The laws of sums.                                                       *)
(***************************************************************************)

\* The sum over no elements is 0, and a sum of integers is an integer.
LEMMA SumEmpty ==
  ASSUME NEW f
  PROVE  SumFunctionOnSet(f, {}) = 0
<1>1. IsFiniteSet({})
  BY FS_EmptySet
<1>2. Table(f, {})[{}] = 0
  BY <1>1, TableFound
<1>3. QED
  BY <1>2, SumIsLookup

\* A sum of integers over a finite set is an integer.
LEMMA SumType ==
  ASSUME NEW S, IsFiniteSet(S), NEW f, \A x \in S : f[x] \in Int
  PROVE  SumFunctionOnSet(f, S) \in Int
BY TableFound, SumIsLookup

\* A sum is one of its terms and the sum of the others.
LEMMA SumRemove ==
  ASSUME NEW S, IsFiniteSet(S), NEW f, \A x \in S : f[x] \in Int, NEW x \in S
  PROVE  SumFunctionOnSet(f, S) = f[x] + SumFunctionOnSet(f, S \ {x})
<1>1. Table(f, S)[S] = f[x] + Table(f, S)[S \ {x}]
  BY AnyFirst
<1>2. S \ {x} \in SUBSET S
  OBVIOUS
<1>3. Table(f, S \ {x})[S \ {x}] = Table(f, S)[S \ {x}]
  BY <1>2, TablesAgree
<1>4. QED
  BY <1>1, <1>3, SumIsLookup

\* Induction over the subsets of a finite set.
LEMMA SubsetsByInduction ==
  ASSUME NEW S, IsFiniteSet(S), NEW T, {} \in T,
         \A s \in SUBSET S : \A x \in S \ s : s \in T => s \cup {x} \in T
  PROVE  SUBSET S \subseteq T
<1>. DEFINE N == {m \in Nat : UpTo(m, S) \subseteq T}
<1>1. ASSUME NEW m \in Nat, NEW s \in UpTo(m, S), s # {}
      PROVE  /\ s \in SUBSET S /\ Rest(s) \in SUBSET S /\ Pick(s) \in S \ Rest(s)
             /\ s = Rest(s) \cup {Pick(s)} /\ m # 0 /\ Rest(s) \in UpTo(m - 1, S)
  <2>1. s \in SUBSET S /\ Cardinality(s) <= m
    BY DEF UpTo
  <2>2. /\ Pick(s) \in s /\ Rest(s) \in SUBSET S /\ s = Rest(s) \cup {Pick(s)}
        /\ Pick(s) \notin Rest(s)
    BY <1>1, <2>1, RestType
  <2>3. Cardinality(Rest(s)) \in Nat /\ Cardinality(s) = Cardinality(Rest(s)) + 1
    BY <1>1, <2>1, RestType
  <2>. DEFINE c == Cardinality(s)
              d == Cardinality(Rest(s))
  <2>4. d \in Nat /\ c = d + 1 /\ c <= m
    BY <2>1, <2>3
  <2>. HIDE DEF c, d
  <2>5. m # 0 /\ d <= m - 1
    BY <2>4
  <2>6. QED
    BY <2>1, <2>2, <2>5 DEF d, UpTo
<1>2. 0 \in N
  <2>1. \A s \in UpTo(0, S) : s = {}
    BY <1>1
  <2>2. QED
    BY <2>1
<1>3. ASSUME NEW m \in Nat, m \in N PROVE m + 1 \in N
  <2>1. m + 1 \in Nat /\ (m + 1) - 1 = m
    OBVIOUS
  <2>2. SUFFICES ASSUME NEW s \in UpTo(m + 1, S) PROVE s \in T
    BY <2>1
  <2>3. CASE s = {}
    BY <2>3
  <2>4. CASE s # {}
    <3>1. /\ Rest(s) \in SUBSET S /\ Pick(s) \in S \ Rest(s)
          /\ s = Rest(s) \cup {Pick(s)} /\ Rest(s) \in UpTo(m, S)
      BY <1>1, <2>1, <2>4
    <3>2. Rest(s) \in T
      BY <1>3, <3>1
    <3>3. QED
      BY <3>1, <3>2
  <2>5. QED
    BY <2>3, <2>4
<1>. HIDE DEF N
<1>4. Nat \subseteq N
  BY <1>2, <1>3, NaturalsByInduction
<1>5. Cardinality(S) \in Nat /\ \A s \in SUBSET S : Cardinality(s) <= Cardinality(S)
  BY FS_Subset, FS_CardinalityType
<1>6. Cardinality(S) \in N
  BY <1>4, <1>5
<1>7. QED
  BY <1>5, <1>6 DEF N, UpTo

\* A sum over one more element.
LEMMA SumAdd ==
  ASSUME NEW S, IsFiniteSet(S), NEW f, \A y \in S : f[y] \in Int,
         NEW s \in SUBSET S, NEW x \in S \ s
  PROVE  /\ SumFunctionOnSet(f, s) \in Int
         /\ SumFunctionOnSet(f, s \cup {x}) = f[x] + SumFunctionOnSet(f, s)
<1>. DEFINE u == s \cup {x}
<1>1. IsFiniteSet(s)
  BY FS_Subset
<1>2. IsFiniteSet(u) /\ x \in u /\ u \ {x} = s /\ \A y \in u : f[y] \in Int
  BY <1>1, FS_Subset
<1>. HIDE DEF u
<1>3. SumFunctionOnSet(f, u) = f[x] + SumFunctionOnSet(f, u \ {x})
  BY <1>2, SumRemove
<1>4. SumFunctionOnSet(f, s) \in Int
  BY <1>1, SumType
<1>5. QED
  BY <1>2, <1>3, <1>4 DEF u

\* The sum of naturals is a natural.
LEMMA SumNat ==
  ASSUME NEW S, IsFiniteSet(S), NEW f, \A x \in S : f[x] \in Nat
  PROVE  SumFunctionOnSet(f, S) \in Nat
<1>. DEFINE T == {s \in SUBSET S : SumFunctionOnSet(f, s) \in Nat}
<1>1. {} \in T
  BY SumEmpty
<1>2. ASSUME NEW s \in SUBSET S, NEW x \in S \ s, s \in T PROVE s \cup {x} \in T
  <2>1. SumFunctionOnSet(f, s \cup {x}) = f[x] + SumFunctionOnSet(f, s)
    BY SumAdd
  <2>2. f[x] \in Nat /\ SumFunctionOnSet(f, s) \in Nat
    BY <1>2
  <2>3. QED
    BY <2>1, <2>2
<1>. HIDE DEF T
<1>3. SUBSET S \subseteq T
  BY <1>1, <1>2, SubsetsByInduction
<1>4. QED
  BY <1>3 DEF T

\* A sum is determined by the values on its set.
LEMMA SumSame ==
  ASSUME NEW S, IsFiniteSet(S), NEW f, NEW g, \A x \in S : f[x] \in Int /\ g[x] = f[x]
  PROVE  SumFunctionOnSet(g, S) = SumFunctionOnSet(f, S)
<1>. DEFINE T == {s \in SUBSET S : SumFunctionOnSet(g, s) = SumFunctionOnSet(f, s)}
<1>0. \A x \in S : f[x] \in Int /\ g[x] \in Int
  OBVIOUS
<1>1. {} \in T
  BY SumEmpty
<1>2. ASSUME NEW s \in SUBSET S, NEW x \in S \ s, s \in T PROVE s \cup {x} \in T
  <2>1. SumFunctionOnSet(f, s \cup {x}) = f[x] + SumFunctionOnSet(f, s)
    BY <1>0, SumAdd
  <2>2. SumFunctionOnSet(g, s \cup {x}) = g[x] + SumFunctionOnSet(g, s)
    BY <1>0, SumAdd
  <2>3. QED
    BY <1>2, <2>1, <2>2
<1>. HIDE DEF T
<1>3. SUBSET S \subseteq T
  BY <1>1, <1>2, SubsetsByInduction
<1>4. QED
  BY <1>3 DEF T

\* Sums grow with their terms.
LEMMA SumLeq ==
  ASSUME NEW S, IsFiniteSet(S), NEW f, NEW g,
         \A x \in S : f[x] \in Int /\ g[x] \in Int /\ f[x] <= g[x]
  PROVE  SumFunctionOnSet(f, S) <= SumFunctionOnSet(g, S)
<1>. DEFINE T == {s \in SUBSET S : SumFunctionOnSet(f, s) <= SumFunctionOnSet(g, s)}
<1>0. (\A x \in S : f[x] \in Int) /\ (\A x \in S : g[x] \in Int)
  OBVIOUS
<1>1. {} \in T
  BY SumEmpty
<1>2. ASSUME NEW s \in SUBSET S, NEW x \in S \ s, s \in T PROVE s \cup {x} \in T
  <2>. DEFINE a == SumFunctionOnSet(f, s)
              b == SumFunctionOnSet(g, s)
              v == f[x]
              w == g[x]
  <2>1. a \in Int /\ SumFunctionOnSet(f, s \cup {x}) = v + a
    BY <1>0, SumAdd
  <2>2. b \in Int /\ SumFunctionOnSet(g, s \cup {x}) = w + b
    BY <1>0, SumAdd
  <2>3. v \in Int /\ w \in Int /\ v <= w /\ a <= b
    BY <1>2
  <2>. HIDE DEF a, b, v, w
  <2>4. v + a <= w + b
    BY <2>1, <2>2, <2>3
  <2>5. QED
    BY <2>1, <2>2, <2>4
<1>. HIDE DEF T
<1>3. SUBSET S \subseteq T
  BY <1>1, <1>2, SubsetsByInduction
<1>4. QED
  BY <1>3 DEF T

\* The sum of sums.
LEMMA SumPlus ==
  ASSUME NEW S, IsFiniteSet(S), NEW f, NEW g, NEW h,
         \A x \in S : f[x] \in Int /\ g[x] \in Int /\ h[x] = f[x] + g[x]
  PROVE  SumFunctionOnSet(h, S) = SumFunctionOnSet(f, S) + SumFunctionOnSet(g, S)
<1>. DEFINE T == {s \in SUBSET S :
            SumFunctionOnSet(h, s) = SumFunctionOnSet(f, s) + SumFunctionOnSet(g, s)}
<1>0. (\A x \in S : f[x] \in Int) /\ (\A x \in S : g[x] \in Int)
      /\ (\A x \in S : h[x] \in Int)
  OBVIOUS
<1>1. {} \in T
  BY SumEmpty
<1>2. ASSUME NEW s \in SUBSET S, NEW x \in S \ s, s \in T PROVE s \cup {x} \in T
  <2>. DEFINE a == SumFunctionOnSet(f, s)
              b == SumFunctionOnSet(g, s)
              v == f[x]
              w == g[x]
  <2>1. a \in Int /\ SumFunctionOnSet(f, s \cup {x}) = v + a
    BY <1>0, SumAdd, SMTT(30)
  <2>2. b \in Int /\ SumFunctionOnSet(g, s \cup {x}) = w + b
    BY <1>0, SumAdd, SMTT(30)
  <2>3. SumFunctionOnSet(h, s \cup {x}) = h[x] + SumFunctionOnSet(h, s)
    BY <1>0, SumAdd, SMTT(30)
  <2>4. v \in Int /\ w \in Int /\ h[x] = v + w /\ SumFunctionOnSet(h, s) = a + b
    BY <1>2
  <2>. HIDE DEF a, b, v, w
  <2>5. (v + w) + (a + b) = (v + a) + (w + b)
    BY <2>1, <2>2, <2>4
  <2>6. SumFunctionOnSet(h, s \cup {x})
          = SumFunctionOnSet(f, s \cup {x}) + SumFunctionOnSet(g, s \cup {x})
    BY <2>1, <2>2, <2>3, <2>4, <2>5
  <2>7. QED
    BY <2>6
<1>. HIDE DEF T
<1>3. SUBSET S \subseteq T
  BY <1>1, <1>2, SubsetsByInduction
<1>4. QED
  BY <1>3 DEF T

\* The sum of nothing but zeros.
LEMMA SumZero ==
  ASSUME NEW S, IsFiniteSet(S), NEW f, \A x \in S : f[x] = 0
  PROVE  SumFunctionOnSet(f, S) = 0
<1>. DEFINE a == SumFunctionOnSet(f, S)
<1>1. \A x \in S : f[x] \in Int /\ f[x] = f[x] + f[x]
  OBVIOUS
<1>2. a \in Int
  BY <1>1, SumType
<1>3. a = a + a
  BY <1>1, SumPlus
<1>. HIDE DEF a
<1>4. a = 0
  BY <1>2, <1>3
<1>5. QED
  BY <1>4 DEF a

\* The sum over two sets that have nothing in common.
LEMMA SumUnion ==
  ASSUME NEW S, IsFiniteSet(S), NEW f, \A x \in S : f[x] \in Int, NEW A \in SUBSET S
  PROVE  /\ SumFunctionOnSet(f, A) \in Int /\ SumFunctionOnSet(f, S \ A) \in Int
         /\ SumFunctionOnSet(f, S) = SumFunctionOnSet(f, A) + SumFunctionOnSet(f, S \ A)
<1>. DEFINE B == S \ A
            T == {s \in SUBSET B :
                    SumFunctionOnSet(f, A \cup s)
                      = SumFunctionOnSet(f, A) + SumFunctionOnSet(f, s)}
<1>0. IsFiniteSet(A) /\ IsFiniteSet(B)
      /\ \A x \in A : f[x] \in Int /\ \A y \in B : f[y] \in Int
  BY FS_Subset
<1>1. SumFunctionOnSet(f, A) \in Int /\ SumFunctionOnSet(f, B) \in Int
  <2>1. \A x \in A : f[x] \in Int
    OBVIOUS
  <2>2. \A x \in B : f[x] \in Int
    OBVIOUS
  <2>3. QED
    BY <1>0, <2>1, <2>2, SumType
<1>2. {} \in T
  BY <1>1, SumEmpty
<1>3. ASSUME NEW s \in SUBSET B, NEW x \in B \ s, s \in T PROVE s \cup {x} \in T
  <2>. DEFINE a == SumFunctionOnSet(f, A)
              b == SumFunctionOnSet(f, s)
              v == f[x]
  <2>1. s \in SUBSET S /\ x \in S \ s /\ A \cup s \in SUBSET S /\ x \in S \ (A \cup s)
        /\ (A \cup s) \cup {x} = A \cup (s \cup {x})
    OBVIOUS
  <2>2. b \in Int /\ SumFunctionOnSet(f, s \cup {x}) = v + b
    BY <2>1, SumAdd
  <2>3. SumFunctionOnSet(f, A \cup (s \cup {x})) = v + SumFunctionOnSet(f, A \cup s)
    <3>. DEFINE w == A \cup s
    <3>1. w \in SUBSET S /\ x \in S \ w
      BY <2>1
    <3>. HIDE DEF w
    <3>2. SumFunctionOnSet(f, w \cup {x}) = f[x] + SumFunctionOnSet(f, w)
      BY <3>1, SumAdd
    <3>3. QED
      BY <2>1, <3>2 DEF w
  <2>4. SumFunctionOnSet(f, A \cup s) = a + b /\ a \in Int /\ v \in Int
    BY <1>1, <1>3, <2>1
  <2>. HIDE DEF a, b, v
  <2>5. SumFunctionOnSet(f, A \cup (s \cup {x})) = a + SumFunctionOnSet(f, s \cup {x})
    BY <2>2, <2>3, <2>4
  <2>6. QED
    BY <2>5 DEF a
<1>4. B \in SUBSET B /\ A \cup B = S
  OBVIOUS
<1>. HIDE DEF T, B
<1>5. SUBSET B \subseteq T
  BY <1>0, <1>2, <1>3, SubsetsByInduction
<1>6. QED
  BY <1>1, <1>4, <1>5 DEF T, B

\* When a function changes on A only, so does its sum.
LEMMA SumChange ==
  ASSUME NEW S, IsFiniteSet(S), NEW f, NEW g,
         \A x \in S : f[x] \in Int /\ g[x] \in Int, NEW A \in SUBSET S,
         \A x \in S \ A : g[x] = f[x]
  PROVE  SumFunctionOnSet(g, S)
           = SumFunctionOnSet(f, S) + SumFunctionOnSet(g, A) - SumFunctionOnSet(f, A)
<1>. DEFINE B == S \ A
            ga == SumFunctionOnSet(g, A)
            fa == SumFunctionOnSet(f, A)
            b == SumFunctionOnSet(f, B)
<1>1. (\A x \in S : f[x] \in Int) /\ (\A x \in S : g[x] \in Int)
  OBVIOUS
<1>2. fa \in Int /\ b \in Int /\ SumFunctionOnSet(f, S) = fa + b
  BY <1>1, SumUnion
<1>3. ga \in Int /\ SumFunctionOnSet(g, S) = ga + SumFunctionOnSet(g, B)
  BY <1>1, SumUnion
<1>4. IsFiniteSet(B) /\ \A x \in B : f[x] \in Int /\ g[x] = f[x]
  BY FS_Subset
<1>5. SumFunctionOnSet(g, B) = b
  BY <1>4, SumSame
<1>. HIDE DEF ga, fa, b, B
<1>6. ga + b = (fa + b) + ga - fa
  BY <1>2, <1>3
<1>7. QED
  BY <1>2, <1>3, <1>5, <1>6 DEF ga, fa, b

\* When a function changes at x only.
LEMMA SumUpdate ==
  ASSUME NEW S, IsFiniteSet(S), NEW f, NEW g,
         \A y \in S : f[y] \in Int /\ g[y] \in Int, NEW x \in S,
         \A y \in S \ {x} : g[y] = f[y]
  PROVE  SumFunctionOnSet(g, S) = SumFunctionOnSet(f, S) + g[x] - f[x]
<1>. DEFINE B == S \ {x}
            b == SumFunctionOnSet(f, B)
            v == f[x]
            w == g[x]
<1>1. (\A y \in S : f[y] \in Int) /\ (\A y \in S : g[y] \in Int)
  OBVIOUS
<1>2. SumFunctionOnSet(f, S) = v + b
  BY <1>1, SumRemove
<1>3. SumFunctionOnSet(g, S) = w + SumFunctionOnSet(g, B)
  BY <1>1, SumRemove
<1>4. IsFiniteSet(B) /\ \A y \in B : f[y] \in Int /\ g[y] = f[y]
  BY FS_Subset
<1>5. SumFunctionOnSet(g, B) = b /\ b \in Int
  BY <1>4, SumSame, SumType
<1>6. v \in Int /\ w \in Int
  OBVIOUS
<1>. HIDE DEF b, v, w, B
<1>7. w + b = (v + b) + w - v
  BY <1>5, <1>6
<1>8. QED
  BY <1>2, <1>3, <1>5, <1>7 DEF v, w

\* The image of a finite set is finite.
LEMMA ImageIsFinite ==
  ASSUME NEW S, IsFiniteSet(S), NEW c
  PROVE  IsFiniteSet({c[x] : x \in S})
<1>. DEFINE im(s) == {c[x] : x \in s}
            T == {s \in SUBSET S : IsFiniteSet(im(s))}
<1>1. {} \in T
  <2>1. im({}) = {}
    OBVIOUS
  <2>2. IsFiniteSet(im({}))
    BY <2>1, FS_EmptySet
  <2>3. QED
    BY <2>2
<1>2. ASSUME NEW s \in SUBSET S, NEW x \in S \ s, s \in T PROVE s \cup {x} \in T
  <2>. DEFINE m == im(s)
              z == c[x]
              n == im(s \cup {x})
  <2>1. n = m \cup {z}
    OBVIOUS
  <2>2. IsFiniteSet(m)
    BY <1>2
  <2>. HIDE DEF m, z, n
  <2>3. IsFiniteSet(n)
    BY <2>1, <2>2, FS_AddElement
  <2>4. QED
    BY <2>3 DEF n
<1>. HIDE DEF T
<1>3. SUBSET S \subseteq T
  BY <1>1, <1>2, SubsetsByInduction
<1>4. QED
  BY <1>3 DEF T

\* Distinct indices sum what they point at.
LEMMA SumImage ==
  ASSUME NEW S, IsFiniteSet(S), NEW c, \A x, y \in S : x # y => c[x] # c[y],
         NEW f, NEW h, \A x \in S : f[c[x]] \in Int /\ h[x] = f[c[x]]
  PROVE  /\ IsFiniteSet({c[x] : x \in S})
         /\ SumFunctionOnSet(h, S) = SumFunctionOnSet(f, {c[x] : x \in S})
<1>. DEFINE im(s) == {c[x] : x \in s}
            T == {s \in SUBSET S : SumFunctionOnSet(h, s) = SumFunctionOnSet(f, im(s))}
<1>1. IsFiniteSet(im(S))
  BY ImageIsFinite
<1>2. (\A x \in S : h[x] \in Int) /\ \A z \in im(S) : f[z] \in Int
  OBVIOUS
<1>3. {} \in T
  <2>1. im({}) = {}
    OBVIOUS
  <2>2. SumFunctionOnSet(h, {}) = SumFunctionOnSet(f, im({}))
    BY <2>1, SumEmpty
  <2>3. QED
    BY <2>2
<1>4. ASSUME NEW s \in SUBSET S, NEW x \in S \ s, s \in T PROVE s \cup {x} \in T
  <2>. DEFINE z == c[x]
              m == im(s)
  <2>1. m \in SUBSET im(S) /\ z \in im(S) \ m /\ im(s \cup {x}) = m \cup {z}
    OBVIOUS
  <2>2. SumFunctionOnSet(h, s \cup {x}) = h[x] + SumFunctionOnSet(h, s)
    BY <1>2, SumAdd
  <2>3. SumFunctionOnSet(h, s) = SumFunctionOnSet(f, m) /\ h[x] = f[z]
    BY <1>4
  <2>. DEFINE I == im(S)
  <2>. HIDE DEF z, m, I
  <2>4. IsFiniteSet(I) /\ (\A y \in I : f[y] \in Int) /\ m \in SUBSET I /\ z \in I \ m
    BY <1>1, <1>2, <2>1 DEF I
  <2>5. SumFunctionOnSet(f, m \cup {z}) = f[z] + SumFunctionOnSet(f, m)
    BY <2>4, SumAdd
  <2>6. SumFunctionOnSet(h, s \cup {x}) = SumFunctionOnSet(f, im(s \cup {x}))
    BY <2>1, <2>2, <2>3, <2>5
  <2>7. QED
    BY <2>6
<1>. HIDE DEF T
<1>5. SUBSET S \subseteq T
  BY <1>3, <1>4, SubsetsByInduction
<1>6. QED
  BY <1>1, <1>5 DEF T

\* Summing class by class: r[p] is the sum over the class K[p], and U is made of
\* the classes.
LEMMA SumClasses ==
  ASSUME NEW S, IsFiniteSet(S), NEW f, \A x \in S : f[x] \in Int,
         NEW P, IsFiniteSet(P), NEW K, NEW r, NEW U \in SUBSET S,
         \A p \in P : K[p] \in SUBSET S /\ r[p] = SumFunctionOnSet(f, K[p]),
         \A p, q \in P : \A x \in S : x \in K[p] /\ x \in K[q] => p = q,
         \A x \in S : x \in U <=> \E p \in P : x \in K[p]
  PROVE  SumFunctionOnSet(r, P) = SumFunctionOnSet(f, U)
<1>. DEFINE in(q) == {x \in S : \E p \in q : x \in K[p]}
            T == {q \in SUBSET P : SumFunctionOnSet(r, q) = SumFunctionOnSet(f, in(q))}
<1>1. \A p \in P : r[p] \in Int
  <2>1. SUFFICES ASSUME NEW p \in P PROVE r[p] \in Int
    OBVIOUS
  <2>2. IsFiniteSet(K[p]) /\ \A x \in K[p] : f[x] \in Int
    BY FS_Subset
  <2>3. QED
    BY <2>2, SumType
<1>2. {} \in T
  <2>1. in({}) = {}
    OBVIOUS
  <2>2. SumFunctionOnSet(r, {}) = SumFunctionOnSet(f, in({}))
    BY <2>1, SumEmpty
  <2>3. QED
    BY <2>2
<1>3. ASSUME NEW q \in SUBSET P, NEW p \in P \ q, q \in T PROVE q \cup {p} \in T
  <2>. DEFINE A == K[p]
              V == in(q \cup {p})
              b == SumFunctionOnSet(f, A)
              a == SumFunctionOnSet(f, in(q))
  <2>1. V \in SUBSET S /\ A \in SUBSET V /\ V \ A = in(q) /\ \A x \in V : f[x] \in Int
    OBVIOUS
  <2>2. IsFiniteSet(V)
    BY <2>1, FS_Subset
  <2>. HIDE DEF A, V
  <2>3. /\ SumFunctionOnSet(f, A) \in Int /\ SumFunctionOnSet(f, V \ A) \in Int
        /\ SumFunctionOnSet(f, V) = SumFunctionOnSet(f, A) + SumFunctionOnSet(f, V \ A)
    BY <2>1, <2>2, SumUnion
  <2>4. b \in Int /\ a \in Int /\ SumFunctionOnSet(f, V) = b + a
    BY <2>1, <2>3
  <2>5. SumFunctionOnSet(r, q \cup {p}) = r[p] + SumFunctionOnSet(r, q)
    BY <1>1, SumAdd
  <2>6. r[p] = b /\ SumFunctionOnSet(r, q) = a
    BY <1>3 DEF A
  <2>7. SumFunctionOnSet(r, q \cup {p}) = SumFunctionOnSet(f, in(q \cup {p}))
    BY <2>4, <2>5, <2>6 DEF V
  <2>8. QED
    BY <2>7
<1>4. in(P) = U
  OBVIOUS
<1>. HIDE DEF T, in
<1>5. SUBSET P \subseteq T
  BY <1>2, <1>3, SubsetsByInduction
<1>6. QED
  BY <1>4, <1>5 DEF T
=============================================================================
