------------------------------ MODULE Recursion ------------------------------
(***************************************************************************)
(* Facts about natural numbers that the proofs of several modules rest on. *)
(* The induction theorems of the library take a predicate as a parameter;  *)
(* here a set, or a function, stands in its place.  A proof by induction   *)
(* takes the least number of the set of counterexamples, and a recursive   *)
(* function exists because there is one up to each number.                 *)
(***************************************************************************)
EXTENDS Integers, WellFoundedInduction, TLAPS

\* Every non-empty set of natural numbers has a least element.
THEOREM LeastElement ==
  ASSUME NEW S, S \subseteq Nat, S # {}
  PROVE  \E x \in S : \A y \in S : x <= y
<1> DEFINE R == OpToRel(<, Nat)
<1>1. IsWellFoundedOn(R, Nat)
  BY NatLessThanWellFounded
<1>2. R = {p \in Nat \X Nat : p[1] < p[2]}
  BY DEF OpToRel
<1>. HIDE DEF R
<1>3. PICK x \in S : \A y \in S : ~(<<y, x>> \in R)
  BY <1>1, WFMin
<1>4. ASSUME NEW y \in S PROVE x <= y
  <2>1. x \in Nat /\ y \in Nat
    OBVIOUS
  <2>2. <<y, x>> \notin R
    BY <1>3
  <2>3. <<y, x>> \in Nat \X Nat /\ <<y, x>>[1] = y /\ <<y, x>>[2] = x
    BY <2>1
  <2>4. ~(y < x)
    BY <1>2, <2>2, <2>3
  <2>. QED BY <2>1, <2>4
<1>. QED BY <1>4

\* A set that has 0, and with each number the next one, has all of them.
THEOREM AllNumbers ==
  ASSUME NEW P, 0 \in P, \A n \in Nat : n \in P => n + 1 \in P
  PROVE  \A n \in Nat : n \in P
<1>. SUFFICES ASSUME NEW n \in Nat, n \notin P PROVE FALSE
  OBVIOUS
<1> DEFINE Missing == {k \in Nat : k \notin P}
<1>1. PICK m \in Missing : \A k \in Missing : m <= k
  <2>1. Missing \subseteq Nat /\ Missing # {}
    OBVIOUS
  <2>. HIDE DEF Missing
  <2>. QED BY <2>1, LeastElement
<1>2. m \in Nat /\ m \notin P /\ m # 0 /\ m - 1 \in Nat
  OBVIOUS
<1>3. m - 1 \in P
  BY <1>1, <1>2
<1>4. m - 1 + 1 = m
  BY <1>2
<1>. QED BY <1>2, <1>3, <1>4

-----------------------------------------------------------------------------
(***************************************************************************)
(* Recursive functions.  rank measures the arguments, D[g, s] is what the  *)
(* definition gives for s when g is the function: it looks at g for        *)
(* arguments of a lower rank only.                                         *)
(***************************************************************************)

LooksDown(S, T, rank, D) ==
  /\ rank \in [S -> Nat]
  /\ D \in [[S -> T] \X S -> T]
  /\ \A g, h \in [S -> T], s \in S :
       (\A t \in S : rank[t] < rank[s] => g[t] = h[t]) => D[<<g, s>>] = D[<<h, s>>]

\* g obeys the definition for the arguments of a rank below n.
ObeysBelow(S, rank, D, g, n) == \A s \in S : rank[s] < n => g[s] = D[<<g, s>>]

\* Below n there is only one function.
LEMMA SameBelow ==
  ASSUME NEW S, NEW T, NEW rank, NEW D, LooksDown(S, T, rank, D),
         NEW n \in Nat, NEW g \in [S -> T], NEW h \in [S -> T],
         ObeysBelow(S, rank, D, g, n), ObeysBelow(S, rank, D, h, n)
  PROVE  \A s \in S : rank[s] < n => g[s] = h[s]
<1>. DEFINE Apart == {rank[s] : s \in {t \in S : rank[t] < n /\ g[t] # h[t]}}
<1>1. Apart \subseteq Nat
  BY DEF LooksDown
<1>2. CASE Apart = {}
  BY <1>2
<1>3. CASE Apart # {}
  <2>1. PICK r \in Apart : \A k \in Apart : r <= k
    <3>. HIDE DEF Apart
    <3>. QED BY <1>1, <1>3, LeastElement
  <2>2. PICK s \in S : rank[s] = r /\ rank[s] < n /\ g[s] # h[s]
    BY <2>1
  <2>3. \A t \in S : rank[t] < rank[s] => g[t] = h[t]
    <3>1. SUFFICES ASSUME NEW t \in S, rank[t] < rank[s], g[t] # h[t] PROVE FALSE
      OBVIOUS
    <3>2. rank[t] \in Nat /\ rank[s] \in Nat
      BY DEF LooksDown
    <3>3. rank[t] \in Apart
      BY <2>2, <3>1, <3>2
    <3>4. r <= rank[t]
      BY <2>1, <3>3
    <3>. QED BY <2>2, <3>1, <3>2, <3>4
  <2>4. D[<<g, s>>] = D[<<h, s>>]
    BY <2>3 DEF LooksDown
  <2>5. g[s] = D[<<g, s>>] /\ h[s] = D[<<h, s>>]
    BY <2>2 DEF ObeysBelow
  <2>. QED BY <2>2, <2>4, <2>5
<1>. QED BY <1>2, <1>3

\* A function that obeys the definition below n can be made to obey it at n.
LEMMA OneMore ==
  ASSUME NEW S, NEW T, NEW rank, NEW D, LooksDown(S, T, rank, D),
         NEW n \in Nat, NEW g \in [S -> T], ObeysBelow(S, rank, D, g, n)
  PROVE  \E h \in [S -> T] : ObeysBelow(S, rank, D, h, n + 1)
<1>. DEFINE h == [s \in S |-> IF rank[s] < n THEN g[s] ELSE D[<<g, s>>]]
<1>1. \A s \in S : D[<<g, s>>] \in T
  BY DEF LooksDown
<1>2. h \in [S -> T]
  BY <1>1
<1>3. ASSUME NEW s \in S, rank[s] < n + 1
      PROVE  h[s] = D[<<h, s>>]
  <2>1. rank[s] \in Nat
    BY DEF LooksDown
  <2>2. \A t \in S : rank[t] < rank[s] => h[t] = g[t]
    <3>1. \A t \in S : rank[t] \in Nat
      BY DEF LooksDown
    <3>. QED BY <1>3, <2>1, <3>1
  <2>3. D[<<h, s>>] = D[<<g, s>>]
    <3>. HIDE DEF h
    <3>. QED BY <1>2, <2>2 DEF LooksDown
  <2>4. h[s] = D[<<g, s>>]
    BY DEF ObeysBelow
  <2>. QED BY <2>3, <2>4
<1>. HIDE DEF h
<1>. QED BY <1>2, <1>3 DEF ObeysBelow

\* The function exists.
THEOREM RecursiveExists ==
  ASSUME NEW S, NEW T, NEW rank, NEW D, LooksDown(S, T, rank, D), T # {}
  PROVE  \E f \in [S -> T] : \A s \in S : f[s] = D[<<f, s>>]
<1>. DEFINE P == {n \in Nat : \E g \in [S -> T] : ObeysBelow(S, rank, D, g, n)}
<1>1. 0 \in P
  <2>1. PICK t \in T : TRUE
    OBVIOUS
  <2>2. [s \in S |-> t] \in [S -> T]
    OBVIOUS
  <2>3. \A s \in S : ~(rank[s] < 0)
    BY DEF LooksDown
  <2>. QED BY <2>2, <2>3 DEF ObeysBelow
<1>2. ASSUME NEW n \in Nat, n \in P PROVE n + 1 \in P
  BY <1>2, OneMore
<1>3. \A n \in Nat : n \in P
  <2>. HIDE DEF P
  <2>. QED BY <1>1, <1>2, AllNumbers
<1>. DEFINE upto == [n \in Nat |-> CHOOSE g \in [S -> T] : ObeysBelow(S, rank, D, g, n)]
            f == [s \in S |-> upto[rank[s] + 1][s]]
<1>4. \A n \in Nat : upto[n] \in [S -> T] /\ ObeysBelow(S, rank, D, upto[n], n)
  BY <1>3
<1>. HIDE DEF P, upto
<1>5. \A s \in S : rank[s] \in Nat /\ rank[s] + 1 \in Nat
  BY DEF LooksDown
<1>6. f \in [S -> T]
  BY <1>4, <1>5
<1>7. ASSUME NEW s \in S PROVE f[s] = D[<<f, s>>]
  <2>. DEFINE n == rank[s] + 1
  <2>1. n \in Nat /\ rank[s] < n /\ upto[n] \in [S -> T] /\ ObeysBelow(S, rank, D, upto[n], n)
    BY <1>4, <1>5
  <2>2. f[s] = D[<<upto[n], s>>]
    BY <2>1 DEF ObeysBelow
  <2>3. ASSUME NEW t \in S, rank[t] < rank[s] PROVE upto[n][t] = f[t]
    <3>. DEFINE m == rank[t] + 1
    <3>1. m \in Nat /\ rank[t] < m /\ upto[m] \in [S -> T] /\ ObeysBelow(S, rank, D, upto[m], m)
      BY <1>4, <1>5
    <3>2. rank[s] \in Nat /\ rank[t] \in Nat
      BY <1>5
    <3>3. ObeysBelow(S, rank, D, upto[n], m)
      <4>1. m <= n
        BY <2>3, <3>2
      <4>2. SUFFICES ASSUME NEW x \in S, rank[x] < m PROVE upto[n][x] = D[<<upto[n], x>>]
        BY DEF ObeysBelow
      <4>3. rank[x] < n
        BY <1>5, <2>1, <3>1, <4>1, <4>2
      <4>. QED BY <2>1, <4>3 DEF ObeysBelow
    <3>. HIDE DEF n, m, f
    <3>4. \A x \in S : rank[x] < m => upto[n][x] = upto[m][x]
      BY <2>1, <3>1, <3>3, SameBelow
    <3>5. f[t] = upto[m][t]
      BY DEF f, m
    <3>. QED BY <3>1, <3>4, <3>5
  <2>. HIDE DEF n, f
  <2>4. D[<<upto[n], s>>] = D[<<f, s>>]
    BY <1>6, <2>1, <2>3 DEF LooksDown
  <2>. QED BY <2>2, <2>4
<1>. HIDE DEF f
<1>. QED BY <1>6, <1>7
=============================================================================
