------------------------ MODULE DisjointIntvs_proofs ------------------------
(***************************************************************************)
(* Proofs about DisjointIntvs for every range of coordinates: the vector   *)
(* of intervals stays sorted and disjoint, so each binary search of the    *)
(* class is made on a vector it is meaningful on, the class implements the *)
(* set of intervals that IntvSet describes, and the objects it returns     *)
(* cover what they should.                                                 *)
(***************************************************************************)
EXTENDS DisjointIntvs, Recursion, SequenceTheorems, FiniteSetTheorems, TLAPS

Pair == Int \X Int

\* The inductive invariant: the binary searches say where the key lies only
\* when the intervals are not empty.
Proper(s) == s \in Seq(Pair) /\ (\A i \in 1 .. Len(s) : NonEmpty(s[i])) /\ Sorted(s)

-----------------------------------------------------------------------------
(***************************************************************************)
(* Splice.                                                                 *)
(***************************************************************************)

\* What Splice(s, lo, hi, r) holds at each index: an insert, erase or overwrite
\* moves the elements outside lo+1..hi and changes none of them.
LEMMA SpliceElements ==
  ASSUME NEW s \in Seq(Pair), NEW r \in Seq(Pair),
         NEW lo \in 0 .. Len(s), NEW hi \in lo .. Len(s)
  PROVE  /\ Splice(s, lo, hi, r) \in Seq(Pair)
         /\ Len(Splice(s, lo, hi, r)) = lo + Len(r) + Len(s) - hi
         /\ \A i \in 1 .. lo : Splice(s, lo, hi, r)[i] = s[i]
         /\ \A i \in 1 .. Len(r) : Splice(s, lo, hi, r)[lo + i] = r[i]
         /\ \A i \in lo + Len(r) + 1 .. lo + Len(r) + Len(s) - hi :
              Splice(s, lo, hi, r)[i] = s[i - lo - Len(r) + hi]
<1> DEFINE a == SubSeq(s, 1, lo)
           c == SubSeq(s, hi + 1, Len(s))
<1>1. /\ a \in Seq(Pair) /\ Len(a) = lo
      /\ \A i \in 1 .. lo : a[i] = s[i]
  OBVIOUS
<1>2. /\ c \in Seq(Pair) /\ Len(c) = Len(s) - hi
      /\ \A i \in 1 .. Len(s) - hi : c[i] = s[i + hi]
  OBVIOUS
<1>. HIDE DEF a, c
<1> DEFINE u == a \o r
<1>3. /\ u \in Seq(Pair) /\ Len(u) = lo + Len(r)
      /\ \A i \in 1 .. lo : u[i] = s[i]
      /\ \A i \in 1 .. Len(r) : u[lo + i] = r[i]
  <2>1. /\ u \in Seq(Pair) /\ Len(u) = lo + Len(r)
        /\ \A i \in 1 .. lo + Len(r) : u[i] = IF i <= lo THEN a[i] ELSE r[i - lo]
    BY <1>1, ConcatProperties
  <2>. HIDE DEF u
  <2>2. \A i \in 1 .. lo : u[i] = s[i]
    <3>1. TAKE i \in 1 .. lo
    <3>2. i \in 1 .. lo + Len(r) /\ i <= lo
      BY <3>1
    <3>. QED BY <2>1, <1>1, <3>2
  <2>3. ASSUME NEW i \in 1 .. Len(r) PROVE u[lo + i] = r[i]
    <3>1. lo + i \in 1 .. lo + Len(r) /\ ~(lo + i <= lo) /\ lo + i - lo = i
      BY <2>3
    <3>. QED BY <2>1, <3>1
  <2>. QED BY <2>1, <2>2, <2>3
<1>4. Splice(s, lo, hi, r) = u \o c
  BY DEF Splice, a, c
<1>. HIDE DEF u
<1>5. /\ u \o c \in Seq(Pair) /\ Len(u \o c) = Len(u) + Len(c)
      /\ \A i \in 1 .. Len(u) : (u \o c)[i] = u[i]
      /\ \A i \in Len(u) + 1 .. Len(u) + Len(c) : (u \o c)[i] = c[i - Len(u)]
  <2>. u \in Seq(Pair) /\ c \in Seq(Pair)
    BY <1>2, <1>3
  <2>1. /\ u \o c \in Seq(Pair) /\ Len(u \o c) = Len(u) + Len(c)
        /\ \A i \in 1 .. Len(u) + Len(c) :
             (u \o c)[i] = IF i <= Len(u) THEN u[i] ELSE c[i - Len(u)]
    BY ConcatProperties
  <2>2. Len(u) \in Nat /\ Len(c) \in Nat
    OBVIOUS
  <2>3. ASSUME NEW i \in 1 .. Len(u) PROVE (u \o c)[i] = u[i]
    BY <2>1, <2>2
  <2>4. ASSUME NEW i \in Len(u) + 1 .. Len(u) + Len(c)
        PROVE  (u \o c)[i] = c[i - Len(u)]
    BY <2>1, <2>2
  <2>. QED BY <2>1, <2>3, <2>4
<1>6. Len(r) \in Nat /\ Len(s) \in Nat
  OBVIOUS
<1>7. \A i \in lo + Len(r) + 1 .. lo + Len(r) + Len(s) - hi :
        (u \o c)[i] = s[i - lo - Len(r) + hi]
  <2>1. TAKE i \in lo + Len(r) + 1 .. lo + Len(r) + Len(s) - hi
  <2>2. i - Len(u) \in 1 .. Len(s) - hi /\ i - Len(u) + hi = i - lo - Len(r) + hi
    BY <1>3, <1>6
  <2>. QED BY <2>2, <1>2, <1>3, <1>5, <1>6
<1>8. \A i \in 1 .. lo : (u \o c)[i] = s[i]
  BY <1>3, <1>5, <1>6
<1>9. \A i \in 1 .. Len(r) : (u \o c)[lo + i] = r[i]
  <2>1. TAKE i \in 1 .. Len(r)
  <2>2. lo + i \in 1 .. Len(u)
    BY <1>3, <1>6
  <2>. QED BY <2>2, <1>3, <1>5
<1>10. Len(u \o c) = lo + Len(r) + Len(s) - hi
  BY <1>2, <1>3, <1>5, <1>6
<1>. QED
  BY <1>4, <1>5, <1>7, <1>8, <1>9, <1>10

\* Replacing a run of a proper vector by a proper vector that fits between the
\* elements before and after the run gives a proper vector.
LEMMA SpliceProper ==
  ASSUME NEW s, Proper(s), NEW r, Proper(r),
         NEW lo \in 0 .. Len(s), NEW hi \in lo .. Len(s),
         \A i \in 1 .. lo, j \in 1 .. Len(r) : Comp(s[i], r[j]),
         \A i \in hi + 1 .. Len(s), j \in 1 .. Len(r) : Comp(r[j], s[i])
  PROVE  Proper(Splice(s, lo, hi, r))
<1> DEFINE t == Splice(s, lo, hi, r)
           m == lo + Len(r)
<1>1. s \in Seq(Pair) /\ r \in Seq(Pair)
  BY DEF Proper
<1>2. /\ t \in Seq(Pair) /\ Len(t) = m + Len(s) - hi
      /\ \A i \in 1 .. lo : t[i] = s[i]
      /\ \A i \in lo + 1 .. m : t[i] = r[i - lo]
      /\ \A i \in m + 1 .. Len(t) : t[i] = s[i - m + hi]
  <2>1. /\ t \in Seq(Pair) /\ Len(t) = lo + Len(r) + Len(s) - hi
        /\ \A i \in 1 .. lo : t[i] = s[i]
        /\ \A i \in 1 .. Len(r) : t[lo + i] = r[i]
        /\ \A i \in lo + Len(r) + 1 .. lo + Len(r) + Len(s) - hi :
             t[i] = s[i - lo - Len(r) + hi]
    BY <1>1, SpliceElements
  <2>. HIDE DEF t
  <2>2. Len(r) \in Nat /\ Len(s) \in Nat
    BY <1>1
  <2>3. ASSUME NEW i \in lo + 1 .. m PROVE t[i] = r[i - lo]
    <3>1. i - lo \in 1 .. Len(r) /\ lo + (i - lo) = i
      BY <2>2
    <3>. QED BY <3>1, <2>1
  <2>4. ASSUME NEW i \in m + 1 .. Len(t) PROVE t[i] = s[i - m + hi]
    <3>1. i \in lo + Len(r) + 1 .. lo + Len(r) + Len(s) - hi /\ i - lo - Len(r) + hi = i - m + hi
      BY <2>1, <2>2
    <3>. QED BY <3>1, <2>1
  <2>. QED BY <2>1, <2>2, <2>3, <2>4
<1>. HIDE DEF t
<1>3. ASSUME NEW i \in 1 .. Len(t) PROVE NonEmpty(t[i])
  <2>1. CASE i \in 1 .. lo
    BY <2>1, <1>1, <1>2 DEF Proper
  <2>2. CASE i \in lo + 1 .. m
    <3>1. i - lo \in 1 .. Len(r)
      BY <2>2, <1>1
    <3>. QED BY <3>1, <2>2, <1>2 DEF Proper
  <2>3. CASE i \in m + 1 .. Len(t)
    <3>1. i - m + hi \in 1 .. Len(s)
      BY <2>3, <1>1, <1>2
    <3>. QED BY <3>1, <2>3, <1>2 DEF Proper
  <2>. QED BY <2>1, <2>2, <2>3, <1>1, <1>2
<1>4. ASSUME NEW i \in 1 .. Len(t), NEW j \in 1 .. Len(t), i < j
      PROVE  Comp(t[i], t[j])
  <2>1. CASE j \in 1 .. lo
    <3>1. i \in 1 .. lo
      BY <2>1, <1>4
    <3>. QED BY <3>1, <2>1, <1>1, <1>2, <1>4 DEF Proper, Sorted
  <2>2. CASE i \in 1 .. lo /\ j \in lo + 1 .. m
    <3>1. j - lo \in 1 .. Len(r)
      BY <2>2, <1>1
    <3>. QED BY <3>1, <2>2, <1>2
  <2>3. CASE i \in lo + 1 .. m /\ j \in lo + 1 .. m
    <3>1. i - lo \in 1 .. Len(r) /\ j - lo \in 1 .. Len(r) /\ i - lo < j - lo
      BY <2>3, <1>1, <1>4
    <3>. QED BY <3>1, <2>3, <1>2 DEF Proper, Sorted
  <2>4. CASE j \in m + 1 .. Len(t)
    <3>1. j - m + hi \in hi + 1 .. Len(s) /\ t[j] = s[j - m + hi]
      BY <2>4, <1>1, <1>2
    <3>2. CASE i \in 1 .. lo
      <4>1. i \in 1 .. Len(s) /\ i < j - m + hi /\ t[i] = s[i]
        BY <3>2, <3>1, <1>2
      <4>. QED BY <4>1, <3>1, <1>1 DEF Proper, Sorted
    <3>3. CASE i \in lo + 1 .. m
      <4>1. i - lo \in 1 .. Len(r) /\ t[i] = r[i - lo]
        BY <3>3, <1>1, <1>2
      <4>. QED BY <4>1, <3>1
    <3>4. CASE i \in m + 1 .. Len(t)
      <4>1. /\ i - m + hi \in 1 .. Len(s) /\ t[i] = s[i - m + hi]
            /\ j - m + hi \in 1 .. Len(s) /\ i - m + hi < j - m + hi
        BY <3>4, <3>1, <1>1, <1>2, <1>4
      <4>. QED BY <4>1, <3>1 DEF Proper, Sorted
    <3>. QED BY <3>2, <3>3, <3>4, <1>1, <1>2
  <2>. QED BY <2>1, <2>2, <2>3, <2>4, <1>1, <1>2, <1>4
<1>. QED BY <1>2, <1>3, <1>4 DEF Proper, Sorted, t

\* Erasing a run of a proper vector gives a proper vector.
LEMMA EraseProper ==
  ASSUME NEW s, Proper(s), NEW lo \in 0 .. Len(s), NEW hi \in lo .. Len(s)
  PROVE  Proper(Splice(s, lo, hi, << >>))
<1>1. Proper(<< >>)
  BY DEF Proper, Sorted
<1>. QED BY <1>1, SpliceProper

\* Replacing a run by one interval that fits.
LEMMA OverwriteProper ==
  ASSUME NEW s, Proper(s), NEW x \in Pair, NonEmpty(x),
         NEW lo \in 0 .. Len(s), NEW hi \in lo .. Len(s),
         \A i \in 1 .. lo : Comp(s[i], x),
         \A i \in hi + 1 .. Len(s) : Comp(x, s[i])
  PROVE  Proper(Splice(s, lo, hi, <<x>>))
<1>1. Proper(<<x>>)
  BY DEF Proper, Sorted
<1>2. Len(<<x>>) = 1 /\ <<x>>[1] = x
  OBVIOUS
<1>. QED BY <1>1, <1>2, SpliceProper

-----------------------------------------------------------------------------
(***************************************************************************)
(* The mutators, one lemma each.                                           *)
(***************************************************************************)

\* emplace with a proper item keeps the vector proper, whether the item is new,
\* refused or merged, and although the search key of an abutting merge is wider
\* than the item.
LEMMA EmplaceProper ==
  ASSUME Proper(data), NEW item \in Coord \X Coord, NEW merge \in BOOLEAN,
         NEW abut \in BOOLEAN, Emplace(item, merge, abut)
  PROVE  Proper(data')
<1> DEFINE key == IF abut /\ merge THEN <<Start(item) - 1, Stop(item) + 1>> ELSE item
<1>1. CASE EmplaceInvalid(item)
  BY <1>1 DEF EmplaceInvalid
<1>2. CASE NonEmpty(item) /\ ~EmplaceInvalid(item)
  <2>0. PICK lo \in 0 .. Len(data) : \E hi \in lo .. Len(data) :
          /\ EqualRange(data, key, lo, hi)
          /\ \/ lo = hi /\ EmplaceNew(item)
             \/ lo < hi /\ merge /\ EmplaceMerge(item, lo, hi)
             \/ lo < hi /\ ~merge /\ ret' = "false" /\ UNCHANGED data
    BY <1>2 DEF Emplace
  <2>1. PICK hi \in lo .. Len(data) :
          /\ EqualRange(data, key, lo, hi)
          /\ \/ lo = hi /\ EmplaceNew(item)
             \/ lo < hi /\ merge /\ EmplaceMerge(item, lo, hi)
             \/ lo < hi /\ ~merge /\ ret' = "false" /\ UNCHANGED data
    BY <2>0
  <2>2. /\ item \in Pair /\ key \in Pair
        /\ Start(item) \in Int /\ Stop(item) \in Int /\ Start(item) < Stop(item)
        /\ Start(key) \in Int /\ Stop(key) \in Int
        /\ Start(key) <= Start(item) /\ Stop(item) <= Stop(key)
    BY <1>2, CoordAssumption DEF Coord, Pair, Start, Stop, NonEmpty
  <2>. HIDE DEF key
  <2>3. /\ data \in Seq(Pair) /\ Len(data) \in Nat
        /\ \A i \in 1 .. Len(data) :
             Start(data[i]) \in Int /\ Stop(data[i]) \in Int /\ Start(data[i]) < Stop(data[i])
    BY DEF Proper, Pair, NonEmpty, Start, Stop
  <2>4. /\ \A i \in 1 .. lo : Stop(data[i]) <= Start(key)
        /\ \A i \in hi + 1 .. Len(data) : Stop(key) <= Start(data[i])
    BY <2>1 DEF EqualRange, IsLowerBound, IsUpperBound, Comp
  <2>5. CASE lo = hi /\ EmplaceNew(item)
    <3>1. PICK p \in 0 .. Len(data) : /\ IsLowerBound(data, item, p)
                                     /\ data' = Splice(data, p, p, <<item>>)
      BY <2>5 DEF EmplaceNew
    <3>2. ASSUME NEW i \in 1 .. lo PROVE Comp(data[i], item)
      <4>1. i \in 1 .. Len(data) /\ Stop(data[i]) \in Int /\ Stop(data[i]) <= Start(key)
        BY <2>3, <2>4
      <4>. QED BY <4>1, <2>2 DEF Comp
    <3>3. \A i \in lo + 1 .. Len(data) : Comp(item, data[i])
      <4>1. TAKE i \in lo + 1 .. Len(data)
      <4>2. i \in hi + 1 .. Len(data) /\ i \in 1 .. Len(data)
        BY <2>3, <2>5
      <4>3. Stop(key) <= Start(data[i]) /\ Start(data[i]) \in Int
        BY <2>3, <2>4, <4>2
      <4>. QED BY <2>2, <4>3 DEF Comp
    <3>4. lo <= p
      <4>1. SUFFICES ASSUME p < lo PROVE FALSE
        OBVIOUS
      <4>2. p + 1 \in 1 .. lo /\ p + 1 \in p + 1 .. Len(data)
        BY <4>1, <2>3
      <4>. QED BY <4>2, <3>1, <3>2 DEF IsLowerBound
    <3>5. \A i \in 1 .. p : Comp(data[i], item)
      BY <3>1 DEF IsLowerBound
    <3>6. \A i \in p + 1 .. Len(data) : Comp(item, data[i])
      BY <3>3, <3>4, <2>3
    <3>7. p \in p .. Len(data)
      BY <2>3
    <3>. QED BY <1>2, <2>2, <3>1, <3>5, <3>6, <3>7, OverwriteProper
  <2>6. CASE lo < hi /\ EmplaceMerge(item, lo, hi)
    <3> DEFINE hull == <<MinOf2(Start(item), Start(data[lo + 1])),
                         MaxOf2(Stop(item), Stop(data[hi]))>>
    <3>1. lo + 1 \in 1 .. Len(data) /\ hi \in 1 .. Len(data)
      BY <2>3, <2>6
    <3>2. /\ hull \in Pair /\ NonEmpty(hull)
          /\ Start(hull) = Start(item) \/ Start(hull) = Start(data[lo + 1])
          /\ Stop(hull) = Stop(item) \/ Stop(hull) = Stop(data[hi])
      <4> DEFINE a == MinOf2(Start(item), Start(data[lo + 1]))
                 b == MaxOf2(Stop(item), Stop(data[hi]))
      <4>1. /\ Start(item) \in Int /\ Stop(item) \in Int /\ Start(item) < Stop(item)
            /\ Start(data[lo + 1]) \in Int /\ Stop(data[hi]) \in Int
        BY <2>2, <2>3, <3>1
      <4>2. /\ a \in Int /\ a <= Start(item)
            /\ a = Start(item) \/ a = Start(data[lo + 1])
        BY <4>1 DEF MinOf2
      <4>3. /\ b \in Int /\ Stop(item) <= b
            /\ b = Stop(item) \/ b = Stop(data[hi])
        BY <4>1 DEF MaxOf2
      <4>4. a < b
        <5>. HIDE DEF a, b
        <5>. QED BY <4>1, <4>2, <4>3
      <4>5. hull = <<a, b>>
        OBVIOUS
      <4>. HIDE DEF a, b, hull
      <4>6. hull \in Pair /\ Start(hull) = a /\ Stop(hull) = b
        BY <4>2, <4>3, <4>5 DEF Pair, Start, Stop
      <4>. QED BY <4>2, <4>3, <4>4, <4>6 DEF NonEmpty
    <3>3. data' = Splice(data, lo, hi, <<hull>>)
      BY <2>6 DEF EmplaceMerge
    <3>. HIDE DEF hull
    <3>4. ASSUME NEW i \in 1 .. lo PROVE Comp(data[i], hull)
      <4>1. i \in 1 .. Len(data) /\ i < lo + 1 /\ Stop(data[i]) \in Int
            /\ Stop(data[i]) <= Start(key)
        BY <2>3, <2>4
      <4>2. Stop(data[i]) <= Start(data[lo + 1])
        BY <3>1, <4>1 DEF Proper, Sorted, Comp
      <4>. QED BY <2>2, <3>2, <4>1, <4>2 DEF Comp
    <3>5. ASSUME NEW i \in hi + 1 .. Len(data) PROVE Comp(hull, data[i])
      <4>1. i \in 1 .. Len(data) /\ hi < i
        BY <2>3
      <4>2. Stop(data[hi]) <= Start(data[i])
        BY <3>1, <4>1 DEF Proper, Sorted, Comp
      <4>. QED BY <2>2, <2>3, <2>4, <3>2, <4>1, <4>2 DEF Comp
    <3>. QED BY <3>2, <3>3, <3>4, <3>5, OverwriteProper
  <2>7. CASE UNCHANGED data
    BY <2>7
  <2>. QED BY <2>1, <2>5, <2>6, <2>7
<1>. QED BY <1>1, <1>2 DEF Emplace

\* An erase keeps the vector proper.
LEMMA RemoveProper ==
  ASSUME Proper(data), NEW k \in Key, Remove(k)
  PROVE  Proper(data')
<1>1. CASE UNCHANGED data
  BY <1>1
<1>2. ASSUME NEW lo \in 0 .. Len(data), FoundAfter(data, k, lo),
             data' = Splice(data, lo, lo + 1, << >>)
      PROVE  Proper(data')
  <2>1. lo + 1 \in lo .. Len(data)
    BY <1>2 DEF FoundAfter, Proper
  <2>. QED BY <1>2, <2>1, EraseProper
<1>. QED BY <1>1, <1>2 DEF Remove

\* The erase of a whole run keeps it proper too.
LEMMA RemoveOverlapsProper ==
  ASSUME Proper(data), NEW k \in Key, RemoveOverlaps(k)
  PROVE  Proper(data')
BY EraseProper DEF RemoveOverlaps

\* The four ways subtract cuts the run of intervals that meet the key.
LEMMA SubtractProper ==
  ASSUME Proper(data), NEW k \in Key, Subtract(k)
  PROVE  Proper(data')
<1>1. CASE UNCHANGED data
  BY <1>1
<1>2. ASSUME NEW lo \in 0 .. Len(data), NEW hi \in lo .. Len(data),
             EqualRange(data, k, lo, hi), lo < hi, SubtractRange(k, lo, hi)
      PROVE  Proper(data')
  <2> DEFINE first == <<Start(data[lo + 1]), Start(k)>>
             last  == <<Stop(k), Stop(data[hi])>>
  <2>1. /\ k \in Pair /\ Start(k) \in Int /\ Stop(k) \in Int /\ Start(k) <= Stop(k)
    BY CoordAssumption DEF Key, Coord, Pair, Start, Stop
  <2>2. /\ data \in Seq(Pair) /\ Len(data) \in Nat
        /\ \A i \in 1 .. Len(data) :
             Start(data[i]) \in Int /\ Stop(data[i]) \in Int /\ Start(data[i]) < Stop(data[i])
    BY DEF Proper, Pair, NonEmpty, Start, Stop
  <2>3. lo + 1 \in 1 .. Len(data) /\ hi \in 1 .. Len(data)
    BY <1>2, <2>2
  <2>4. /\ first \in Pair /\ Start(first) = Start(data[lo + 1]) /\ Stop(first) = Start(k)
        /\ last \in Pair /\ Start(last) = Stop(k) /\ Stop(last) = Stop(data[hi])
    BY <2>1, <2>2, <2>3 DEF Pair, Start, Stop
  <2>. HIDE DEF first, last
  <2>5. ASSUME NEW i \in 1 .. lo
        PROVE  Comp(data[i], first) /\ Comp(data[i], last)
    <3>1. i \in 1 .. Len(data) /\ i < lo + 1
      BY <2>2
    <3>2. Stop(data[i]) <= Start(data[lo + 1]) /\ Stop(data[i]) <= Start(k)
      BY <1>2, <2>3, <3>1 DEF Proper, Sorted, Comp, EqualRange, IsLowerBound
    <3>. QED BY <2>1, <2>2, <2>4, <3>1, <3>2 DEF Comp
  <2>6. ASSUME NEW i \in hi + 1 .. Len(data)
        PROVE  Comp(first, data[i]) /\ Comp(last, data[i])
    <3>1. i \in 1 .. Len(data) /\ hi < i
      BY <2>2
    <3>2. Stop(data[hi]) <= Start(data[i]) /\ Stop(k) <= Start(data[i])
      BY <1>2, <2>3, <3>1 DEF Proper, Sorted, Comp, EqualRange, IsUpperBound
    <3>. QED BY <2>1, <2>2, <2>4, <3>1, <3>2 DEF Comp
  <2>7. Comp(first, last)
    BY <2>1, <2>4 DEF Comp
  <2>8. CASE Start(data[lo + 1]) < Start(k) /\ data' = Splice(data, lo, hi, <<first>>)
    <3>1. NonEmpty(first)
      BY <2>8, <2>4 DEF NonEmpty
    <3>. QED BY <2>8, <3>1, <2>4, <2>5, <2>6, OverwriteProper
  <2>9. CASE Stop(k) < Stop(data[hi]) /\ data' = Splice(data, lo, hi, <<last>>)
    <3>1. NonEmpty(last)
      BY <2>9, <2>4 DEF NonEmpty
    <3>. QED BY <2>9, <3>1, <2>4, <2>5, <2>6, OverwriteProper
  <2>10. CASE /\ Start(data[lo + 1]) < Start(k) /\ Stop(k) < Stop(data[hi])
              /\ data' = Splice(data, lo, hi, <<first, last>>)
    <3>1. NonEmpty(first) /\ NonEmpty(last)
      BY <2>10, <2>4 DEF NonEmpty
    <3>2. /\ <<first, last>> \in Seq(Pair) /\ Len(<<first, last>>) = 2
          /\ <<first, last>>[1] = first /\ <<first, last>>[2] = last
      BY <2>4
    <3>3. Proper(<<first, last>>)
      BY <3>1, <3>2, <2>7 DEF Proper, Sorted
    <3>. QED BY <2>10, <3>2, <3>3, <2>5, <2>6, SpliceProper
  <2>11. CASE data' = Splice(data, lo, hi, << >>)
    BY <2>11, EraseProper
  <2>. QED BY <1>2, <2>8, <2>9, <2>10, <2>11 DEF SubtractRange, first, last
<1>. QED BY <1>1, <1>2 DEF Subtract

-----------------------------------------------------------------------------
(***************************************************************************)
(* The theorem.                                                            *)
(***************************************************************************)

IInv == Proper(data)

\* The inductive invariant holds of the empty vector and is kept by every call:
\* the mutators by the lemmas above, the others leave the vector alone.
LEMMA ProperInit == Init => IInv
BY DEF Init, IInv, Proper, Sorted

\* One step per call of the class.
LEMMA ProperStep == IInv /\ [Next]_vars => IInv'
<1>. SUFFICES ASSUME Proper(data), [Next]_vars PROVE Proper(data')
  BY DEF IInv
<1>1. CASE \E item \in Coord \X Coord, merge, abut \in BOOLEAN : Emplace(item, merge, abut)
  BY <1>1, EmplaceProper
<1>2. CASE \E k \in Key : Remove(k)
  BY <1>2, RemoveProper
<1>3. CASE \E k \in Key : RemoveOverlaps(k)
  BY <1>3, RemoveOverlapsProper
<1>4. CASE \E k \in Key : Subtract(k)
  BY <1>4, SubtractProper
<1>5. CASE Clear
  BY <1>5 DEF Clear, Proper, Sorted
<1>6. CASE \/ GetCopy
           \/ \E k \in Key : GetComplement(k) \/ GetComplementOutOfRange(k)
           \/ \E other \in Others : GetIntersection(other)
           \/ \E scale \in Scales, shift \in Shifts : GetTransform(scale, shift)
           \/ UNCHANGED vars
  BY <1>6 DEF GetCopy, GetComplement, GetComplementOutOfRange, GetIntersection,
              GetTransform, vars
<1>. QED BY <1>1, <1>2, <1>3, <1>4, <1>5, <1>6 DEF Next

\* In every reachable state the vector of disjoint_intvs is sorted by intv_comp
\* and its intervals are disjoint, so the binary searches of the class find the
\* intervals that meet a key: for every range of coordinates, any number of
\* intervals and any sequence of calls.
THEOREM AlwaysSortedDisjoint == Spec => []SortedDisjoint
<1>1. IInv => SortedDisjoint
  BY DEF IInv, Proper, SortedDisjoint
<1>. QED BY <1>1, ProperInit, ProperStep, PTL DEF Spec

-----------------------------------------------------------------------------
(***************************************************************************)
(* The refinement of IntvSet.  A proper vector is determined by the set of *)
(* its intervals; the run that a binary search finds holds the intervals   *)
(* that meet the key, and no other.                                        *)
(***************************************************************************)

Elems(s) == {s[n] : n \in 1 .. Len(s)}
MetBy(s, k) == {i \in Elems(s) : Abs!Meets(i, k)}

\* The ends of the intervals of a proper vector, and their order.
LEMMA ProperEnds ==
  ASSUME NEW s, Proper(s)
  PROVE  /\ s \in Seq(Pair) /\ Len(s) \in Nat
         /\ \A n \in 1 .. Len(s) :
              s[n] \in Pair /\ s[n][1] \in Int /\ s[n][2] \in Int /\ s[n][1] < s[n][2]
         /\ \A m, n \in 1 .. Len(s) : m < n => s[m][2] <= s[n][1]
<1>1. s \in Seq(Pair) /\ Len(s) \in Nat
  BY DEF Proper
<1>2. ASSUME NEW n \in 1 .. Len(s)
      PROVE  s[n] \in Pair /\ s[n][1] \in Int /\ s[n][2] \in Int /\ s[n][1] < s[n][2]
  BY <1>1 DEF Proper, Pair, NonEmpty, Start, Stop
<1>3. ASSUME NEW m \in 1 .. Len(s), NEW n \in 1 .. Len(s), m < n
      PROVE  s[m][2] <= s[n][1]
  BY <1>3 DEF Proper, Sorted, Comp, Start, Stop
<1>. QED BY <1>1, <1>2, <1>3

\* A binary search finds the run of the intervals that meet the key.
LEMMA RunMeets ==
  ASSUME NEW s, Proper(s), NEW k \in Pair,
         NEW lo \in 0 .. Len(s), NEW hi \in lo .. Len(s), EqualRange(s, k, lo, hi)
  PROVE  \A n \in 1 .. Len(s) : Abs!Meets(s[n], k) <=> n \in lo + 1 .. hi
<1>1. k[1] \in Int /\ k[2] \in Int
  BY DEF Pair
<1>2. TAKE n \in 1 .. Len(s)
<1>3. s[n][1] \in Int /\ s[n][2] \in Int /\ Len(s) \in Nat
  BY ProperEnds
<1>4. CASE n \in 1 .. lo
  <2>1. s[n][2] <= k[1]
    BY <1>4 DEF EqualRange, IsLowerBound, Comp, Start, Stop
  <2>. QED BY <2>1, <1>1, <1>3, <1>4 DEF Abs!Meets
<1>5. CASE n \in hi + 1 .. Len(s)
  <2>1. k[2] <= s[n][1]
    BY <1>5 DEF EqualRange, IsUpperBound, Comp, Start, Stop
  <2>. QED BY <2>1, <1>1, <1>3, <1>5 DEF Abs!Meets
<1>6. CASE n \in lo + 1 .. hi
  <2>1. ~(s[n][2] <= k[1])
    <3>1. n \in lo + 1 .. Len(s)
      BY <1>3, <1>6
    <3>. QED BY <3>1 DEF EqualRange, IsLowerBound, Comp, Start, Stop
  <2>2. ~(k[2] <= s[n][1])
    <3>1. n \in 1 .. hi
      BY <1>3, <1>6
    <3>. QED BY <3>1 DEF EqualRange, IsUpperBound, Comp, Start, Stop
  <2>. QED BY <2>1, <2>2, <1>1, <1>3, <1>6 DEF Abs!Meets
<1>. QED BY <1>3, <1>4, <1>5, <1>6

\* The set that a splice leaves: r, and what is outside the run.
LEMMA SpliceElems ==
  ASSUME NEW s, Proper(s), NEW r \in Seq(Pair),
         NEW lo \in 0 .. Len(s), NEW hi \in lo .. Len(s)
  PROVE  Elems(Splice(s, lo, hi, r))
           = {s[n] : n \in {m \in 1 .. Len(s) : m \notin lo + 1 .. hi}} \cup Elems(r)
<1> DEFINE t == Splice(s, lo, hi, r)
           kept == {m \in 1 .. Len(s) : m \notin lo + 1 .. hi}
<1>1. Len(s) \in Nat /\ Len(r) \in Nat /\ s \in Seq(Pair)
  BY ProperEnds
<1>2. /\ Len(t) = lo + Len(r) + Len(s) - hi
      /\ \A i \in 1 .. lo : t[i] = s[i]
      /\ \A i \in 1 .. Len(r) : t[lo + i] = r[i]
      /\ \A i \in lo + Len(r) + 1 .. lo + Len(r) + Len(s) - hi :
           t[i] = s[i - lo - Len(r) + hi]
  BY <1>1, SpliceElements
<1>. HIDE DEF t
<1>3. ASSUME NEW i \in 1 .. Len(t)
      PROVE  (\E n \in kept : t[i] = s[n]) \/ \E n \in 1 .. Len(r) : t[i] = r[n]
  <2>1. CASE i \in 1 .. lo
    <3>1. i \in kept
      BY <2>1, <1>1
    <3>. QED BY <3>1, <2>1, <1>2
  <2>2. CASE i \in lo + 1 .. lo + Len(r)
    <3>1. i - lo \in 1 .. Len(r) /\ lo + (i - lo) = i
      BY <2>2, <1>1
    <3>2. t[i] = r[i - lo]
      BY <3>1, <1>2
    <3>. QED BY <3>1, <3>2
  <2>3. CASE i \in lo + Len(r) + 1 .. lo + Len(r) + Len(s) - hi
    <3>1. i - lo - Len(r) + hi \in kept
      BY <2>3, <1>1
    <3>. QED BY <3>1, <2>3, <1>2
  <2>4. \/ i \in 1 .. lo
        \/ i \in lo + 1 .. lo + Len(r)
        \/ i \in lo + Len(r) + 1 .. lo + Len(r) + Len(s) - hi
    BY <1>1, <1>2, <1>3
  <2>. QED BY <2>1, <2>2, <2>3, <2>4
<1>4. ASSUME NEW n \in kept
      PROVE  \E i \in 1 .. Len(t) : t[i] = s[n]
  <2>1. CASE n \in 1 .. lo
    <3>1. n \in 1 .. Len(t)
      BY <2>1, <1>1, <1>2
    <3>. QED BY <3>1, <2>1, <1>2
  <2>2. CASE n \in hi + 1 .. Len(s)
    <3> DEFINE i == n - hi + lo + Len(r)
    <3>1. /\ i \in lo + Len(r) + 1 .. lo + Len(r) + Len(s) - hi
          /\ i \in 1 .. Len(t) /\ i - lo - Len(r) + hi = n
      BY <2>2, <1>1, <1>2
    <3>2. t[i] = s[i - lo - Len(r) + hi]
      BY <3>1, <1>2
    <3>. HIDE DEF i
    <3>. QED BY <3>1, <3>2
  <2>. QED BY <2>1, <2>2, <1>1
<1>5. ASSUME NEW n \in 1 .. Len(r)
      PROVE  \E i \in 1 .. Len(t) : t[i] = r[n]
  <2>1. lo + n \in 1 .. Len(t)
    BY <1>1, <1>2
  <2>. QED BY <2>1, <1>2
<1>. HIDE DEF kept
<1>6. Elems(t) \subseteq {s[n] : n \in kept} \cup Elems(r)
  BY <1>3 DEF Elems
<1>7. {s[n] : n \in kept} \cup Elems(r) \subseteq Elems(t)
  BY <1>4, <1>5 DEF Elems
<1>. QED BY <1>6, <1>7 DEF t, kept

\* The run holds the intervals met, so it is empty when none is met.
LEMMA RunSet ==
  ASSUME NEW s, Proper(s), NEW k \in Pair,
         NEW lo \in 0 .. Len(s), NEW hi \in lo .. Len(s), EqualRange(s, k, lo, hi)
  PROVE  /\ MetBy(s, k) = {s[n] : n \in lo + 1 .. hi}
         /\ lo < hi <=> MetBy(s, k) # {}
<1>1. \A n \in 1 .. Len(s) : Abs!Meets(s[n], k) <=> n \in lo + 1 .. hi
  BY RunMeets
<1>2. Len(s) \in Nat /\ \A n \in lo + 1 .. hi : n \in 1 .. Len(s)
  BY ProperEnds
<1>3. MetBy(s, k) = {s[n] : n \in lo + 1 .. hi}
  BY <1>1, <1>2 DEF Elems, MetBy
<1>4. lo < hi => lo + 1 \in lo + 1 .. hi
  BY <1>2
<1>5. \A n \in lo + 1 .. hi : lo < hi
  BY <1>2
<1>. QED BY <1>3, <1>4, <1>5

\* Replacing the run replaces the intervals met in the set, and no other.
LEMMA ReplaceRun ==
  ASSUME NEW s, Proper(s), NEW k \in Pair, NEW r \in Seq(Pair),
         NEW lo \in 0 .. Len(s), NEW hi \in lo .. Len(s), EqualRange(s, k, lo, hi)
  PROVE  Elems(Splice(s, lo, hi, r)) = (Elems(s) \ MetBy(s, k)) \cup Elems(r)
<1>1. \A n \in 1 .. Len(s) : Abs!Meets(s[n], k) <=> n \in lo + 1 .. hi
  BY RunMeets
<1>2. {s[n] : n \in {m \in 1 .. Len(s) : m \notin lo + 1 .. hi}} = Elems(s) \ MetBy(s, k)
  BY <1>1 DEF Elems, MetBy
<1>. QED BY <1>2, SpliceElems

\* A singleton and the empty vector as sets of intervals.
LEMMA SmallElems ==
  /\ Elems(<< >>) = {}
  /\ \A i : Elems(<<i>>) = {i}
  /\ \A i, j : Elems(<<i, j>>) = {i, j}
<1>1. Elems(<< >>) = {}
  BY DEF Elems
<1>2. \A i : Elems(<<i>>) = {i}
  BY DEF Elems
<1>3. ASSUME NEW i, NEW j PROVE Elems(<<i, j>>) = {i, j}
  <2>1. Len(<<i, j>>) = 2 /\ <<i, j>>[1] = i /\ <<i, j>>[2] = j
    OBVIOUS
  <2>2. \A n : n \in 1 .. 2 <=> n = 1 \/ n = 2
    OBVIOUS
  <2>. QED BY <2>1, <2>2 DEF Elems
<1>. QED BY <1>1, <1>2, <1>3

\* An element of a set of integers that is least, or greatest, is the one chosen.
LEMMA MinOfIs ==
  ASSUME NEW S, S \subseteq Int, NEW a \in S, \A y \in S : a <= y
  PROVE  Abs!MinOf(S) = a
<1>1. PICK x \in S : x = Abs!MinOf(S) /\ \A y \in S : x <= y
  BY DEF Abs!MinOf
<1>2. x <= a /\ a <= x /\ x \in Int /\ a \in Int
  BY <1>1
<1>. QED BY <1>1, <1>2

LEMMA MaxOfIs ==
  ASSUME NEW S, S \subseteq Int, NEW a \in S, \A y \in S : y <= a
  PROVE  Abs!MaxOf(S) = a
<1>1. PICK x \in S : x = Abs!MaxOf(S) /\ \A y \in S : x >= y
  BY DEF Abs!MaxOf
<1>2. x <= a /\ a <= x /\ x \in Int /\ a \in Int
  BY <1>1
<1>. QED BY <1>1, <1>2

\* The ends that emplace takes for the merged interval, the start of the first one
\* met and the stop of the last, are the least start and the greatest stop of all.
LEMMA HullOfRun ==
  ASSUME NEW s, Proper(s), NEW k \in Pair, NEW item \in Pair,
         NEW lo \in 0 .. Len(s), NEW hi \in lo .. Len(s), EqualRange(s, k, lo, hi), lo < hi
  PROVE  Abs!Hull(item, MetBy(s, k))
           = <<MinOf2(Start(item), Start(s[lo + 1])), MaxOf2(Stop(item), Stop(s[hi]))>>
<1> DEFINE M == MetBy(s, k)
           starts == {item[1]} \cup {i[1] : i \in M}
           stops == {item[2]} \cup {i[2] : i \in M}
           a == MinOf2(Start(item), Start(s[lo + 1]))
           b == MaxOf2(Stop(item), Stop(s[hi]))
<1>1. M = {s[n] : n \in lo + 1 .. hi}
  BY RunSet
<1>2. /\ lo + 1 \in lo + 1 .. hi /\ hi \in lo + 1 .. hi /\ Len(s) \in Nat
      /\ \A n \in lo + 1 .. hi : n \in 1 .. Len(s)
  BY ProperEnds
<1>3. item[1] \in Int /\ item[2] \in Int
  BY DEF Pair
<1>4. \A n \in lo + 1 .. hi :
        /\ s[n][1] \in Int /\ s[n][2] \in Int
        /\ s[lo + 1][1] <= s[n][1] /\ s[n][2] <= s[hi][2]
  <2>1. TAKE n \in lo + 1 .. hi
  <2>2. /\ n \in 1 .. Len(s) /\ lo + 1 \in 1 .. Len(s) /\ hi \in 1 .. Len(s)
        /\ lo + 1 <= n /\ n <= hi /\ n \in Int /\ lo + 1 \in Int /\ hi \in Int
    BY <1>2, <2>1
  <2>3. /\ s[n][1] \in Int /\ s[n][2] \in Int /\ s[n][1] < s[n][2]
        /\ s[lo + 1][1] \in Int /\ s[lo + 1][2] \in Int /\ s[lo + 1][1] < s[lo + 1][2]
        /\ s[hi][1] \in Int /\ s[hi][2] \in Int /\ s[hi][1] < s[hi][2]
    BY <2>2, ProperEnds
  <2>4. lo + 1 < n => s[lo + 1][2] <= s[n][1]
    BY <2>2, ProperEnds
  <2>5. n < hi => s[n][2] <= s[hi][1]
    BY <2>2, ProperEnds
  <2>6. s[lo + 1][1] <= s[n][1]
    BY <2>2, <2>3, <2>4
  <2>7. s[n][2] <= s[hi][2]
    BY <2>2, <2>3, <2>5
  <2>. QED BY <2>3, <2>6, <2>7
<1>5. starts \subseteq Int /\ stops \subseteq Int
  BY <1>1, <1>3, <1>4
<1>6. a \in starts /\ \A y \in starts : a <= y
  <2>1. s[lo + 1][1] \in Int /\ \A y \in starts : y = item[1] \/ s[lo + 1][1] <= y
    BY <1>1, <1>2, <1>4
  <2>2. s[lo + 1][1] \in starts /\ item[1] \in starts
    BY <1>1, <1>2
  <2>3. /\ a \in Int /\ a <= item[1] /\ a <= s[lo + 1][1]
        /\ a = item[1] \/ a = s[lo + 1][1]
    BY <2>1, <1>3 DEF MinOf2, Start
  <2>. HIDE DEF a, starts
  <2>. QED BY <2>1, <2>2, <2>3, <1>3, <1>5
<1>7. b \in stops /\ \A y \in stops : y <= b
  <2>1. s[hi][2] \in Int /\ \A y \in stops : y = item[2] \/ y <= s[hi][2]
    BY <1>1, <1>2, <1>4
  <2>2. s[hi][2] \in stops /\ item[2] \in stops
    BY <1>1, <1>2
  <2>3. /\ b \in Int /\ item[2] <= b /\ s[hi][2] <= b
        /\ b = item[2] \/ b = s[hi][2]
    BY <2>1, <1>3 DEF MaxOf2, Stop
  <2>. HIDE DEF b, stops
  <2>. QED BY <2>1, <2>2, <2>3, <1>3, <1>5
<1>. HIDE DEF a, b
<1>8. Abs!MinOf(starts) = a
  <2>. HIDE DEF starts
  <2>. QED BY <1>5, <1>6, MinOfIs
<1>9. Abs!MaxOf(stops) = b
  <2>. HIDE DEF stops
  <2>. QED BY <1>5, <1>7, MaxOfIs
<1>10. Abs!Hull(item, M) = <<a, b>>
  BY <1>8, <1>9 DEF Abs!Hull
<1>. QED BY <1>10 DEF a, b

\* Nothing met: the hull is the item.
LEMMA HullOfNone ==
  ASSUME NEW item \in Pair
  PROVE  Abs!Hull(item, {}) = item
<1>1. item[1] \in Int /\ item[2] \in Int /\ item = <<item[1], item[2]>>
  BY DEF Pair
<1>2. Abs!MinOf({item[1]}) = item[1]
  BY <1>1, MinOfIs
<1>3. Abs!MaxOf({item[2]}) = item[2]
  BY <1>1, MaxOfIs
<1>4. /\ {item[1]} \cup {i[1] : i \in {}} = {item[1]}
      /\ {item[2]} \cup {i[2] : i \in {}} = {item[2]}
  OBVIOUS
<1>. QED BY <1>1, <1>2, <1>3, <1>4 DEF Abs!Hull

\* emplace, in its four outcomes, has the effect and the result of AbsEmplace.
LEMMA EmplaceRefines ==
  ASSUME Proper(data), NEW item \in Coord \X Coord, NEW merge \in BOOLEAN,
         NEW abut \in BOOLEAN, Emplace(item, merge, abut)
  PROVE  Abs!AbsEmplace(item, merge, abut)
<1> DEFINE key == IF merge /\ abut THEN <<item[1] - 1, item[2] + 1>> ELSE item
<1>1. CASE EmplaceInvalid(item)
  BY <1>1 DEF EmplaceInvalid, NonEmpty, Start, Stop, Abs!AbsEmplace, Coord
<1>2. CASE NonEmpty(item) /\ ~EmplaceInvalid(item)
  <2>1. item \in Pair /\ key \in Pair /\ item[1] < item[2]
    BY <1>2, CoordAssumption DEF Coord, Pair, NonEmpty, Start, Stop
  <2>2. key = IF abut /\ merge THEN <<Start(item) - 1, Stop(item) + 1>> ELSE item
    BY DEF Start, Stop
  <2>. HIDE DEF key
  <2>3. PICK lo \in 0 .. Len(data) : \E hi \in lo .. Len(data) :
          /\ EqualRange(data, key, lo, hi)
          /\ \/ lo = hi /\ EmplaceNew(item)
             \/ lo < hi /\ merge /\ EmplaceMerge(item, lo, hi)
             \/ lo < hi /\ ~merge /\ ret' = "false" /\ UNCHANGED data
    BY <1>2, <2>2 DEF Emplace
  <2>4. PICK hi \in lo .. Len(data) :
          /\ EqualRange(data, key, lo, hi)
          /\ \/ lo = hi /\ EmplaceNew(item)
             \/ lo < hi /\ merge /\ EmplaceMerge(item, lo, hi)
             \/ lo < hi /\ ~merge /\ ret' = "false" /\ UNCHANGED data
    BY <2>3
  <2>5. /\ MetBy(data, key) = {data[n] : n \in lo + 1 .. hi}
        /\ (lo < hi) <=> MetBy(data, key) # {}
        /\ \A r \in Seq(Pair) :
             Elems(Splice(data, lo, hi, r)) = (Elems(data) \ MetBy(data, key)) \cup Elems(r)
    BY <2>1, <2>4, RunSet, ReplaceRun
  <2>6. CASE lo = hi /\ EmplaceNew(item)
    <3>1. MetBy(data, key) = {}
      BY <2>5, <2>6, ProperEnds
    <3>2. PICK p \in 0 .. Len(data) : data' = Splice(data, p, p, <<item>>)
      BY <2>6 DEF EmplaceNew
    <3>3. Elems(data') = Elems(data) \cup {item}
      <4> DEFINE r == <<item>>
      <4>1. r \in Seq(Pair) /\ p \in p .. Len(data) /\ Len(data) \in Nat
        BY <2>1, ProperEnds
      <4>0. Elems(r) = {item} /\ data' = Splice(data, p, p, r)
        BY <3>2, SmallElems
      <4>. HIDE DEF r
      <4>2. {m \in 1 .. Len(data) : m \notin p + 1 .. p} = 1 .. Len(data)
        BY <4>1
      <4>5. p \in 0 .. Len(data) /\ data \in Seq(Pair)
        BY <3>2, ProperEnds
      <4>3. Elems(Splice(data, p, p, r))
              = {data[n] : n \in {m \in 1 .. Len(data) : m \notin p + 1 .. p}} \cup Elems(r)
        BY <4>1, <4>5, SpliceElems
      <4>4. {data[n] : n \in {m \in 1 .. Len(data) : m \notin p + 1 .. p}} = Elems(data)
        BY <4>2 DEF Elems
      <4>. QED BY <4>0, <4>3, <4>4
    <3>4. Elems(data') = (Elems(data) \ MetBy(data, key)) \cup {Abs!Hull(item, MetBy(data, key))}
      BY <3>1, <3>3, <2>1, HullOfNone
    <3>. QED BY <2>1, <2>6, <3>1, <3>4 DEF EmplaceNew, Abs!AbsEmplace, Elems, MetBy, key
  <2>7. CASE lo < hi /\ merge /\ EmplaceMerge(item, lo, hi)
    <3> DEFINE hull == <<MinOf2(Start(item), Start(data[lo + 1])),
                         MaxOf2(Stop(item), Stop(data[hi]))>>
    <3>1. hull = Abs!Hull(item, MetBy(data, key))
      BY <2>1, <2>4, <2>7, HullOfRun
    <3>2. data' = Splice(data, lo, hi, <<hull>>) /\ ret' = "true"
      BY <2>7 DEF EmplaceMerge
    <3>3. hull \in Pair
      <4>1. lo + 1 \in 1 .. Len(data) /\ hi \in 1 .. Len(data)
        BY <2>7, ProperEnds
      <4>2. data[lo + 1][1] \in Int /\ data[hi][2] \in Int
        BY <4>1, ProperEnds
      <4>. QED BY <4>2, <2>1 DEF MinOf2, MaxOf2, Start, Stop, Pair
    <3>. HIDE DEF hull
    <3>4. <<hull>> \in Seq(Pair)
      BY <3>3
    <3>5. Elems(data') = (Elems(data) \ MetBy(data, key)) \cup {Abs!Hull(item, MetBy(data, key))}
      BY <3>1, <3>2, <3>4, <2>5, SmallElems
    <3>. QED BY <2>1, <2>7, <3>2, <3>5 DEF Abs!AbsEmplace, Elems, MetBy, key
  <2>8. CASE lo < hi /\ ~merge /\ ret' = "false" /\ UNCHANGED data
    BY <2>1, <2>5, <2>8 DEF Abs!AbsEmplace, Elems, MetBy, key
  <2>. QED BY <2>4, <2>6, <2>7, <2>8
<1>. QED BY <1>1, <1>2 DEF Emplace

\* remove finds the key exactly when it is in the set, and erases nothing else.
LEMMA RemoveRefines ==
  ASSUME Proper(data), NEW k \in Key, Remove(k)
  PROVE  Abs!AbsRemove(k)
<1>1. /\ data \in Seq(Pair) /\ Len(data) \in Nat
      /\ \A n \in 1 .. Len(data) :
           data[n][1] \in Int /\ data[n][2] \in Int /\ data[n][1] < data[n][2]
      /\ \A m, n \in 1 .. Len(data) : m < n => data[m][2] <= data[n][1]
  BY ProperEnds
<1>2. \A m, n \in 1 .. Len(data) : data[m] = data[n] => m = n
  <2>1. SUFFICES ASSUME NEW m \in 1 .. Len(data), NEW n \in 1 .. Len(data), m < n
                 PROVE  data[m] # data[n]
    BY <1>1
  <2>. QED BY <1>1, <2>1
<1>3. ASSUME NEW lo \in 0 .. Len(data), FoundAfter(data, k, lo),
             data' = Splice(data, lo, lo + 1, << >>), ret' = "true"
      PROVE  Abs!AbsRemove(k)
  <2>1. lo + 1 \in 1 .. Len(data) /\ lo + 1 \in lo .. Len(data) /\ data[lo + 1] = k
    BY <1>1, <1>3 DEF FoundAfter
  <2>2. Elems(data')
          = {data[n] : n \in {m \in 1 .. Len(data) : m \notin lo + 1 .. lo + 1}} \cup Elems(<< >>)
    <3> DEFINE r == << >>
    <3>1. r \in Seq(Pair) /\ data' = Splice(data, lo, lo + 1, r)
      BY <1>3
    <3>. HIDE DEF r
    <3>2. Elems(data')
            = {data[n] : n \in {m \in 1 .. Len(data) : m \notin lo + 1 .. lo + 1}} \cup Elems(r)
      BY <2>1, <3>1, SpliceElems
    <3>. QED BY <3>2 DEF r
  <2>3. \A m \in 1 .. Len(data) : m \notin lo + 1 .. lo + 1 <=> data[m] # k
    BY <1>1, <1>2, <2>1
  <2>4. {data[n] : n \in {m \in 1 .. Len(data) : m \notin lo + 1 .. lo + 1}} = Elems(data) \ {k}
    BY <2>3 DEF Elems
  <2>5. k \in Elems(data)
    BY <2>1 DEF Elems
  <2>6. Elems(data') = Elems(data) \ {k}
    BY <2>2, <2>4, SmallElems
  <2>. QED BY <1>3, <2>5, <2>6 DEF Abs!AbsRemove, Abs!Bool, Elems
<1>4. ASSUME ~\E lo \in 0 .. Len(data) : FoundAfter(data, k, lo), ret' = "false", data' = data
      PROVE  Abs!AbsRemove(k)
  <2>1. ASSUME NEW n \in 1 .. Len(data), data[n] = k PROVE FALSE
    <3>1. n - 1 \in 0 .. Len(data) /\ n - 1 < Len(data) /\ (n - 1) + 1 = n
      BY <1>1
    <3>2. \A i \in 1 .. n - 1 : Comp(data[i], k)
      BY <1>1, <2>1 DEF Comp, Start, Stop
    <3>3. \A i \in n .. Len(data) : ~Comp(data[i], k)
      BY <1>1, <2>1 DEF Comp, Start, Stop
    <3>4. FoundAfter(data, k, n - 1)
      BY <2>1, <3>1, <3>2, <3>3 DEF FoundAfter, IsLowerBound
    <3>. QED BY <1>4, <3>1, <3>4
  <2>2. k \notin Elems(data) /\ Elems(data) \ {k} = Elems(data)
    BY <2>1 DEF Elems
  <2>. QED BY <1>4, <2>2 DEF Abs!AbsRemove, Abs!Bool, Elems
<1>. QED BY <1>3, <1>4 DEF Remove

\* A key of a query is a pair of integers.
LEMMA KeyPair == \A k \in Key : k \in Pair /\ k[1] \in Int /\ k[2] \in Int /\ k[1] <= k[2]
BY CoordAssumption DEF Key, Coord, Pair

\* remove_overlaps erases the intervals that meet the key.
LEMMA RemoveOverlapsRefines ==
  ASSUME Proper(data), NEW k \in Key, RemoveOverlaps(k)
  PROVE  Abs!AbsRemoveOverlaps(k)
<1>1. PICK lo \in 0 .. Len(data) : \E hi \in lo .. Len(data) :
        EqualRange(data, k, lo, hi) /\ data' = Splice(data, lo, hi, << >>) /\ ret' = Bool(lo < hi)
  BY DEF RemoveOverlaps
<1>2. PICK hi \in lo .. Len(data) :
        EqualRange(data, k, lo, hi) /\ data' = Splice(data, lo, hi, << >>) /\ ret' = Bool(lo < hi)
  BY <1>1
<1> DEFINE r == << >>
<1>3. r \in Seq(Pair) /\ Elems(r) = {} /\ data' = Splice(data, lo, hi, r)
  BY <1>2, SmallElems
<1>. HIDE DEF r
<1>4. Elems(data') = Elems(data) \ MetBy(data, k)
  BY <1>2, <1>3, KeyPair, ReplaceRun
<1>5. lo < hi <=> MetBy(data, k) # {}
  BY <1>2, KeyPair, RunSet
<1>6. ret' = Abs!Bool(\E i \in Elems(data) : Abs!Meets(i, k))
  BY <1>2, <1>5 DEF Abs!Bool, Bool, MetBy
<1>. QED BY <1>4, <1>6 DEF Abs!AbsRemoveOverlaps, Elems, MetBy

\* Only the first interval of a run can start before the key, and only the last one
\* can end after it: the others leave nothing.
LEMMA RemaindersOfRun ==
  ASSUME NEW s, Proper(s), NEW k \in Pair, k[1] <= k[2],
         NEW lo \in 0 .. Len(s), NEW hi \in lo .. Len(s), EqualRange(s, k, lo, hi), lo < hi
  PROVE  UNION {Abs!Remainder(i, k) : i \in MetBy(s, k)}
           = (IF s[lo + 1][1] < k[1] THEN {<<s[lo + 1][1], k[1]>>} ELSE {})
             \cup (IF k[2] < s[hi][2] /\ ~(s[lo + 1][1] < k[1] /\ hi - lo = 1)
                   THEN {<<k[2], s[hi][2]>>} ELSE {})
<1>1. k[1] \in Int /\ k[2] \in Int
  BY DEF Pair
<1>2. /\ lo + 1 \in lo + 1 .. hi /\ hi \in lo + 1 .. hi /\ Len(s) \in Nat
      /\ lo \in Int /\ hi \in Int /\ hi - lo = 1 <=> hi = lo + 1
      /\ \A n \in lo + 1 .. hi : n \in 1 .. Len(s)
  BY ProperEnds
<1>3. MetBy(s, k) = {s[n] : n \in lo + 1 .. hi}
  BY RunSet
<1>4. ASSUME NEW n \in lo + 1 .. hi
      PROVE  Abs!Remainder(s[n], k)
               = IF n = lo + 1 /\ s[lo + 1][1] < k[1] THEN {<<s[lo + 1][1], k[1]>>}
                 ELSE IF n = hi /\ k[2] < s[hi][2] THEN {<<k[2], s[hi][2]>>} ELSE {}
  <2>1. /\ n \in 1 .. Len(s) /\ lo + 1 \in 1 .. Len(s) /\ hi \in 1 .. Len(s)
        /\ lo + 1 <= n /\ n <= hi /\ n \in Int
    BY <1>2, <1>4
  <2>2. /\ s[n][1] \in Int /\ s[n][2] \in Int
        /\ s[lo + 1][2] \in Int /\ s[hi][1] \in Int
    BY <2>1, ProperEnds
  <2>3. Abs!Meets(s[lo + 1], k) /\ Abs!Meets(s[hi], k)
    BY <1>2, <2>1, RunMeets
  <2>4. s[lo + 1][2] > k[1] /\ k[2] > s[hi][1]
    BY <2>3 DEF Abs!Meets
  <2>5. lo + 1 < n => s[lo + 1][2] <= s[n][1]
    BY <2>1, ProperEnds
  <2>6. n < hi => s[n][2] <= s[hi][1]
    BY <2>1, ProperEnds
  <2>7. n # lo + 1 => ~(s[n][1] < k[1])
    BY <1>1, <1>2, <2>1, <2>2, <2>4, <2>5
  <2>8. n # hi => ~(k[2] < s[n][2])
    BY <1>1, <1>2, <2>1, <2>2, <2>4, <2>6
  <2>. QED BY <2>7, <2>8 DEF Abs!Remainder
<1>5. UNION {Abs!Remainder(i, k) : i \in MetBy(s, k)}
        = UNION {Abs!Remainder(s[n], k) : n \in lo + 1 .. hi}
  BY <1>3
<1>6. CASE hi = lo + 1
  <2>1. \A n : n \in lo + 1 .. hi <=> n = hi
    BY <1>2, <1>6
  <2>2. UNION {Abs!Remainder(s[n], k) : n \in lo + 1 .. hi} = Abs!Remainder(s[hi], k)
    BY <2>1
  <2>3. Abs!Remainder(s[hi], k)
          = IF s[lo + 1][1] < k[1] THEN {<<s[lo + 1][1], k[1]>>}
            ELSE IF k[2] < s[hi][2] THEN {<<k[2], s[hi][2]>>} ELSE {}
    BY <1>2, <1>4, <1>6
  <2>4. hi - lo = 1
    BY <1>2, <1>6
  <2>. QED BY <1>5, <2>2, <2>3, <2>4
<1>7. CASE hi # lo + 1
  <2>1. Abs!Remainder(s[lo + 1], k)
          = IF s[lo + 1][1] < k[1] THEN {<<s[lo + 1][1], k[1]>>} ELSE {}
    BY <1>2, <1>4, <1>7
  <2>2. Abs!Remainder(s[hi], k) = IF k[2] < s[hi][2] THEN {<<k[2], s[hi][2]>>} ELSE {}
    BY <1>2, <1>4, <1>7
  <2>3. \A n \in lo + 1 .. hi : n # lo + 1 /\ n # hi => Abs!Remainder(s[n], k) = {}
    BY <1>4
  <2>4. UNION {Abs!Remainder(s[n], k) : n \in lo + 1 .. hi}
          = Abs!Remainder(s[lo + 1], k) \cup Abs!Remainder(s[hi], k)
    BY <1>2, <2>3
  <2>. QED BY <1>2, <1>5, <1>7, <2>1, <2>2, <2>4
<1>. QED BY <1>6, <1>7

\* subtract, by its four ways to cut the run, leaves what AbsSubtract keeps of each
\* interval met.
LEMMA SubtractRefines ==
  ASSUME Proper(data), NEW k \in Key, Subtract(k)
  PROVE  Abs!AbsSubtract(k)
<1> DEFINE rest == UNION {Abs!Remainder(i, k) : i \in MetBy(data, k)}
<1>1. PICK lo \in 0 .. Len(data) : \E hi \in lo .. Len(data) :
        /\ EqualRange(data, k, lo, hi) /\ ret' = Bool(lo < hi)
        /\ \/ lo < hi /\ SubtractRange(k, lo, hi)
           \/ lo = hi /\ UNCHANGED data
  BY DEF Subtract
<1>2. PICK hi \in lo .. Len(data) :
        /\ EqualRange(data, k, lo, hi) /\ ret' = Bool(lo < hi)
        /\ \/ lo < hi /\ SubtractRange(k, lo, hi)
           \/ lo = hi /\ UNCHANGED data
  BY <1>1
<1>3. k \in Pair /\ k[1] \in Int /\ k[2] \in Int /\ k[1] <= k[2]
  BY KeyPair
<1>4. lo < hi <=> MetBy(data, k) # {}
  BY <1>2, <1>3, RunSet
<1>5. ret' = Abs!Bool(\E i \in Elems(data) : Abs!Meets(i, k))
  BY <1>2, <1>4 DEF Abs!Bool, Bool, MetBy
<1>6. Elems(data') = (Elems(data) \ MetBy(data, k)) \cup rest
  <2>1. CASE lo = hi /\ UNCHANGED data
    <3>1. MetBy(data, k) = {}
      BY <1>4, <2>1, ProperEnds
    <3>. QED BY <2>1, <3>1
  <2>2. CASE lo < hi /\ SubtractRange(k, lo, hi)
    <3> DEFINE first == <<data[lo + 1][1], k[1]>>
               last == <<k[2], data[hi][2]>>
               cutFirst == data[lo + 1][1] < k[1]
               cutLast == k[2] < data[hi][2]
    <3>1. lo + 1 \in 1 .. Len(data) /\ hi \in 1 .. Len(data) /\ lo \in Int /\ hi \in Int
      BY <2>2, ProperEnds
    <3>2. rest = (IF cutFirst THEN {first} ELSE {})
                   \cup (IF cutLast /\ ~(cutFirst /\ hi - lo = 1) THEN {last} ELSE {})
      BY <1>2, <1>3, <2>2, RemaindersOfRun
    <3>3. first \in Pair /\ last \in Pair
      BY <1>3, <3>1, ProperEnds DEF Pair
    <3>4. PICK r \in {<< >>, <<first>>, <<last>>, <<first, last>>} :
            data' = Splice(data, lo, hi, r) /\ Elems(r) = rest
      <4>1. \/ cutFirst /\ (hi - lo = 1 \/ ~cutLast) /\ data' = Splice(data, lo, hi, <<first>>)
            \/ cutFirst /\ hi - lo > 1 /\ cutLast /\ data' = Splice(data, lo, hi, <<first, last>>)
            \/ ~cutFirst /\ cutLast /\ data' = Splice(data, lo, hi, <<last>>)
            \/ ~cutFirst /\ ~cutLast /\ data' = Splice(data, lo, hi, << >>)
        BY <2>2 DEF SubtractRange, Start, Stop
      <4>2. Elems(<< >>) = {} /\ Elems(<<first>>) = {first} /\ Elems(<<last>>) = {last}
            /\ Elems(<<first, last>>) = {first, last}
        BY SmallElems
      <4>. HIDE DEF first, last, cutFirst, cutLast, rest
      <4>3. CASE cutFirst /\ (hi - lo = 1 \/ ~cutLast) /\ data' = Splice(data, lo, hi, <<first>>)
        BY <3>2, <4>2, <4>3
      <4>4. CASE cutFirst /\ hi - lo > 1 /\ cutLast /\ data' = Splice(data, lo, hi, <<first, last>>)
        <5>1. hi - lo # 1
          BY <3>1, <4>4
        <5>2. rest = {first, last}
          BY <3>2, <4>4, <5>1
        <5>. QED BY <4>2, <4>4, <5>2
      <4>5. CASE ~cutFirst /\ cutLast /\ data' = Splice(data, lo, hi, <<last>>)
        BY <3>2, <4>2, <4>5
      <4>6. CASE ~cutFirst /\ ~cutLast /\ data' = Splice(data, lo, hi, << >>)
        BY <3>2, <4>2, <4>6
      <4>. QED BY <4>1, <4>3, <4>4, <4>5, <4>6
    <3>. HIDE DEF rest
    <3>5. r \in Seq(Pair)
      <4>. HIDE DEF first, last
      <4>1. << >> \in Seq(Pair) /\ <<first>> \in Seq(Pair) /\ <<last>> \in Seq(Pair)
        BY <3>3
      <4>2. <<first, last>> \in Seq(Pair)
        BY <3>3
      <4>. QED BY <4>1, <4>2, <3>4
    <3>6. Elems(Splice(data, lo, hi, r)) = (Elems(data) \ MetBy(data, k)) \cup Elems(r)
      BY <1>2, <1>3, <3>5, ReplaceRun
    <3>. QED BY <3>4, <3>6
  <2>. QED BY <1>2, <2>1, <2>2
<1>. QED BY <1>5, <1>6 DEF Abs!AbsSubtract, Elems, MetBy

\* get_complement refuses a key that some interval of the set exceeds: the first or
\* the last one, as the vector is sorted.
LEMMA OutOfRangeRefines ==
  ASSUME Proper(data), NEW k \in Key, GetComplementOutOfRange(k)
  PROVE  Abs!AbsOutOfRange(k)
<1>1. 1 \in 1 .. Len(data) /\ Len(data) \in 1 .. Len(data)
  BY ProperEnds DEF GetComplementOutOfRange, Exceeds
<1>2. \E i \in Elems(data) : i[1] < k[1] \/ k[2] < i[2]
  BY <1>1 DEF GetComplementOutOfRange, Exceeds, Elems, Start, Stop
<1>. QED BY <1>2 DEF GetComplementOutOfRange, Abs!AbsOutOfRange, Elems

\* Every step of the class is a step of IntvSet, or leaves its variables alone.
LEMMA StepRefines == IInv /\ [Next]_vars => [Abs!AbsNext]_(Abs!absVars)
<1>. SUFFICES ASSUME Proper(data), [Next]_vars PROVE [Abs!AbsNext]_(Abs!absVars)
  BY DEF IInv
<1>1. ASSUME NEW item \in Coord \X Coord, NEW merge \in BOOLEAN, NEW abut \in BOOLEAN,
             Emplace(item, merge, abut)
      PROVE  Abs!AbsNext
  BY <1>1, EmplaceRefines DEF Abs!AbsNext, Abs!Coord, Coord
<1>2. ASSUME NEW k \in Key, Remove(k) PROVE Abs!AbsNext
  BY <1>2, RemoveRefines DEF Abs!AbsNext, Abs!Key, Key, Abs!Coord, Coord
<1>3. ASSUME NEW k \in Key, RemoveOverlaps(k) PROVE Abs!AbsNext
  BY <1>3, RemoveOverlapsRefines DEF Abs!AbsNext, Abs!Key, Key, Abs!Coord, Coord
<1>4. ASSUME NEW k \in Key, Subtract(k) PROVE Abs!AbsNext
  BY <1>4, SubtractRefines DEF Abs!AbsNext, Abs!Key, Key, Abs!Coord, Coord
<1>5. ASSUME NEW k \in Key, GetComplementOutOfRange(k) PROVE Abs!AbsNext
  BY <1>5, OutOfRangeRefines DEF Abs!AbsNext, Abs!Key, Key, Abs!Coord, Coord
<1>6. ASSUME Clear PROVE Abs!AbsNext
  BY <1>6 DEF Clear, Abs!AbsNext, Abs!AbsClear
<1>7. CASE \/ GetCopy
           \/ \E k \in Key : GetComplement(k)
           \/ \E other \in Others : GetIntersection(other)
           \/ \E scale \in Scales, shift \in Shifts : GetTransform(scale, shift)
           \/ UNCHANGED vars
  <2>1. data' = data /\ ret' = ret
    BY <1>7 DEF GetCopy, GetComplement, GetIntersection, GetTransform, vars
  <2>. QED BY <2>1 DEF Abs!absVars
<1>. QED BY <1>1, <1>2, <1>3, <1>4, <1>5, <1>6, <1>7 DEF Next

\* disjoint_intvs implements IntvSet: every call has the effect and the result that
\* looking at every interval would give, although emplace, remove and subtract
\* search by bisection and write through iterators.  For every range of coordinates.
THEOREM RefinesIntvSet == Spec => ImplementsIntvSet
<1>1. Init => Abs!AbsInit
  BY DEF Init, Abs!AbsInit
<1>. QED BY <1>1, ProperInit, ProperStep, StepRefines, PTL DEF Spec, ImplementsIntvSet, Abs!AbsSpec

-----------------------------------------------------------------------------
(***************************************************************************)
(* What the calls that return a new object make.                           *)
(***************************************************************************)

\* Intervals of which some may be empty, the others in order.
Ordered(s) ==
  \A i, j \in 1 .. Len(s) : i < j /\ NonEmpty(s[i]) /\ NonEmpty(s[j]) => Comp(s[i], s[j])

\* What has been pushed back when the intervals of s up to n have been looked at.
PushedUpTo(s, r, n) ==
  /\ Proper(r)
  /\ Elems(r) = {s[m] : m \in {i \in 1 .. n : NonEmpty(s[i])}}

LEMMA AppendProper ==
  ASSUME NEW r, Proper(r), NEW i \in Pair, NonEmpty(i), \A e \in Elems(r) : Comp(e, i)
  PROVE  Proper(Append(r, i)) /\ Elems(Append(r, i)) = Elems(r) \cup {i}
<1> DEFINE t == Append(r, i)
<1>1. r \in Seq(Pair) /\ Len(r) \in Nat
  BY ProperEnds
<1>2. /\ t \in Seq(Pair) /\ Len(t) = Len(r) + 1 /\ t[Len(r) + 1] = i
      /\ \A n \in 1 .. Len(r) : t[n] = r[n]
  BY <1>1, AppendProperties
<1>. HIDE DEF t
<1>3. ASSUME NEW n \in 1 .. Len(t) PROVE n \in 1 .. Len(r) \/ n = Len(r) + 1
  BY <1>1, <1>2
<1>4. \A n \in 1 .. Len(t) : NonEmpty(t[n])
  BY <1>2, <1>3 DEF Proper
<1>5. ASSUME NEW m \in 1 .. Len(t), NEW n \in 1 .. Len(t), m < n PROVE Comp(t[m], t[n])
  <2>1. m \in 1 .. Len(r) /\ t[m] = r[m]
    BY <1>1, <1>2, <1>5
  <2>2. CASE n \in 1 .. Len(r)
    BY <2>1, <2>2, <1>2, <1>5 DEF Proper, Sorted
  <2>3. CASE n = Len(r) + 1
    BY <2>1, <2>3, <1>2 DEF Elems
  <2>. QED BY <2>2, <2>3, <1>3
<1>6. Proper(t)
  BY <1>2, <1>4, <1>5 DEF Proper, Sorted
<1>7. Elems(t) \subseteq Elems(r) \cup {i}
  BY <1>2, <1>3 DEF Elems
<1>8. Elems(r) \cup {i} \subseteq Elems(t)
  <2>1. Len(r) + 1 \in 1 .. Len(t) /\ \A n \in 1 .. Len(r) : n \in 1 .. Len(t)
    BY <1>1, <1>2
  <2>. QED BY <2>1, <1>2 DEF Elems
<1>. QED BY <1>6, <1>7, <1>8 DEF t

\* push_back is called for the intervals that are not empty, in order, so that it never
\* throws, and keeps them all.
LEMMA PushedExact ==
  ASSUME NEW s \in Seq(Pair), Ordered(s)
  PROVE  PushedUpTo(s, Pushed(s), Len(s))
<1> DEFINE S == 0 .. Len(s)
           T == Seq(Pair)
           Body(g, n) == IF n = 0 THEN << >>
                         ELSE IF NonEmpty(s[n]) THEN Append(g[n - 1], s[n]) ELSE g[n - 1]
           rank == [n \in S |-> n]
           D == [p \in [S -> T] \X S |-> Body(p[1], p[2])]
           F == CHOOSE f : f = [n \in S |-> Body(f, n)]
<1>1. Pushed(s) = F[Len(s)]
  BY DEF Pushed
<1>2. Len(s) \in Nat /\ \A n \in 1 .. Len(s) : s[n] \in Pair
  OBVIOUS
<1>3. \A g \in [S -> T], n \in S : Body(g, n) \in T /\ D[<<g, n>>] = Body(g, n)
  <2>1. TAKE g \in [S -> T], n \in S
  <2>2. CASE n = 0
    BY <2>2
  <2>3. CASE n # 0
    <3>1. n - 1 \in S /\ n \in 1 .. Len(s)
      BY <2>3, <1>2
    <3>2. g[n - 1] \in Seq(Pair) /\ s[n] \in Pair
      BY <3>1, <1>2
    <3>3. Append(g[n - 1], s[n]) \in Seq(Pair)
      BY <3>2, AppendProperties
    <3>. QED BY <2>3, <3>2, <3>3
  <2>. QED BY <2>2, <2>3
<1>4. LooksDown(S, T, rank, D)
  <2>1. rank \in [S -> Nat] /\ \A n \in S : rank[n] = n
    BY <1>2
  <2>2. D \in [[S -> T] \X S -> T]
    BY <1>3
  <2>3. ASSUME NEW g \in [S -> T], NEW h \in [S -> T], NEW n \in S,
               \A t \in S : rank[t] < rank[n] => g[t] = h[t]
        PROVE  D[<<g, n>>] = D[<<h, n>>]
    <3>1. n # 0 => n - 1 \in S /\ n - 1 < n
      BY <1>2
    <3>. HIDE DEF rank
    <3>2. n # 0 => g[n - 1] = h[n - 1]
      BY <3>1, <2>1, <2>3
    <3>3. Body(g, n) = Body(h, n)
      BY <3>2
    <3>. HIDE DEF D, Body, S, T
    <3>. QED BY <3>3, <1>3
  <2>. HIDE DEF rank, D, Body, S, T
  <2>. QED BY <2>1, <2>2, <2>3 DEF LooksDown
<1>5. T # {}
  <2>1. << >> \in Seq(Pair)
    OBVIOUS
  <2>. QED BY <2>1
<1>6. F = [n \in S |-> Body(F, n)]
  <2>1. PICK f \in [S -> T] : \A n \in S : f[n] = D[<<f, n>>]
    <3>. HIDE DEF S, T, rank, D
    <3>. QED BY <1>4, <1>5, RecursiveExists
  <2>2. \A n \in S : f[n] = Body(f, n)
    <3>. HIDE DEF S, T, D, Body
    <3>. QED BY <2>1, <1>3
  <2>3. f = [n \in S |-> Body(f, n)]
    <3>. HIDE DEF S, T, D, Body
    <3>. QED BY <2>2, <2>1
  <2>. HIDE DEF Body, S
  <2>. QED BY <2>3
<1>7. \A n \in S : F[n] = Body(F, n)
  <2>. HIDE DEF Body, S, F
  <2>. QED BY <1>6
<1>. HIDE DEF F, D, rank
<1> DEFINE P == {n \in Nat : n <= Len(s) => PushedUpTo(s, F[n], n)}
<1>8. 0 \in P
  <2>1. 0 \in S /\ F[0] = << >>
    BY <1>2, <1>7
  <2>2. Elems(<< >>) = {} /\ \A i : i \notin 1 .. 0
    BY SmallElems
  <2>3. Proper(<< >>)
    BY DEF Proper, Sorted
  <2>. QED BY <2>1, <2>2, <2>3 DEF PushedUpTo
<1>9. ASSUME NEW n \in Nat, n \in P PROVE n + 1 \in P
  <2>1. SUFFICES ASSUME n + 1 <= Len(s) PROVE PushedUpTo(s, F[n + 1], n + 1)
    OBVIOUS
  <2>2. /\ n \in S /\ n + 1 \in S /\ n + 1 # 0 /\ n + 1 - 1 = n /\ n + 1 \in 1 .. Len(s)
        /\ n <= Len(s)
    BY <2>1, <1>2
  <2>3. PushedUpTo(s, F[n], n)
    BY <1>9, <2>2
  <2>4. F[n + 1] = IF NonEmpty(s[n + 1]) THEN Append(F[n], s[n + 1]) ELSE F[n]
    BY <1>7, <2>2
  <2>5. \A m : m \in 1 .. n + 1 <=> m \in 1 .. n \/ m = n + 1
    OBVIOUS
  <2>. HIDE DEF P, S, Body
  <2>6. CASE ~NonEmpty(s[n + 1])
    <3>1. F[n + 1] = F[n]
      BY <2>4, <2>6
    <3>2. {i \in 1 .. n + 1 : NonEmpty(s[i])} = {i \in 1 .. n : NonEmpty(s[i])}
      BY <2>5, <2>6
    <3>. QED BY <3>1, <3>2, <2>3 DEF PushedUpTo
  <2>7. CASE NonEmpty(s[n + 1])
    <3>1. F[n + 1] = Append(F[n], s[n + 1])
      BY <2>4, <2>7
    <3>2. ASSUME NEW e \in Elems(F[n]) PROVE Comp(e, s[n + 1])
      <4>1. PICK m \in 1 .. n : NonEmpty(s[m]) /\ e = s[m]
        BY <2>3, <3>2 DEF PushedUpTo
      <4>2. m \in 1 .. Len(s) /\ m < n + 1
        BY <2>1, <1>2, <4>1
      <4>. QED BY <4>1, <4>2, <2>2, <2>7 DEF Ordered
    <3>3. Proper(F[n + 1]) /\ Elems(F[n + 1]) = Elems(F[n]) \cup {s[n + 1]}
      BY <3>1, <3>2, <2>2, <2>3, <2>7, <1>2, AppendProper DEF PushedUpTo
    <3>4. {i \in 1 .. n + 1 : NonEmpty(s[i])} = {i \in 1 .. n : NonEmpty(s[i])} \cup {n + 1}
      BY <2>5, <2>7
    <3>5. {s[m] : m \in {i \in 1 .. n + 1 : NonEmpty(s[i])}}
            = {s[m] : m \in {i \in 1 .. n : NonEmpty(s[i])}} \cup {s[n + 1]}
      BY <3>4
    <3>. QED BY <3>3, <3>5, <2>3 DEF PushedUpTo
  <2>. QED BY <2>6, <2>7
<1>10. \A n \in Nat : n \in P
  <2>. HIDE DEF P
  <2>. QED BY <1>8, <1>9, AllNumbers
<1>. QED BY <1>1, <1>2, <1>10

\* Coverage looks at the set of intervals; empty ones cover nothing.
LEMMA CoveredBy ==
  ASSUME NEW s
  PROVE  \A x : x \in Covered(s) <=> \E e \in Elems(s) : x \in Points(e)
BY DEF Covered, Elems

LEMMA PushedCovers ==
  ASSUME NEW s \in Seq(Pair), Ordered(s)
  PROVE  Proper(Pushed(s)) /\ Covered(Pushed(s)) = Covered(s)
<1>1. /\ Proper(Pushed(s))
      /\ Elems(Pushed(s)) = {s[m] : m \in {i \in 1 .. Len(s) : NonEmpty(s[i])}}
  BY PushedExact DEF PushedUpTo
<1>2. ASSUME NEW n \in 1 .. Len(s), NEW x \in Points(s[n]) PROVE NonEmpty(s[n])
  <2>1. s[n] \in Pair /\ s[n][1] \in Int /\ s[n][2] \in Int
    BY DEF Pair
  <2>. QED BY <2>1, <1>2 DEF NonEmpty, Points, Start, Stop
<1>3. ASSUME NEW x PROVE x \in Covered(Pushed(s)) <=> x \in Covered(s)
  <2>1. x \in Covered(Pushed(s)) <=> \E m \in 1 .. Len(s) : NonEmpty(s[m]) /\ x \in Points(s[m])
    BY <1>1, CoveredBy
  <2>2. x \in Covered(s) <=> \E m \in 1 .. Len(s) : x \in Points(s[m])
    BY DEF Covered
  <2>. QED BY <2>1, <2>2, <1>2
<1>. QED BY <1>1, <1>3


\* The ends of the intervals of a proper vector are in order.
LEMMA EndsInOrder ==
  ASSUME NEW s, Proper(s), NEW m \in 1 .. Len(s), NEW n \in 1 .. Len(s), m <= n
  PROVE  s[m][1] <= s[n][1] /\ s[m][2] <= s[n][2]
<1>1. /\ s[m][1] \in Int /\ s[m][2] \in Int /\ s[m][1] < s[m][2]
      /\ s[n][1] \in Int /\ s[n][2] \in Int /\ s[n][1] < s[n][2]
      /\ m < n => s[m][2] <= s[n][1]
      /\ m = n \/ m < n
  BY ProperEnds
<1>. QED BY <1>1

\* get_complement: a coordinate of the key that the vector does not cover is in the gap after
\* the last interval that ends before it.
LEMMA GapsExact ==
  ASSUME Proper(data), NEW k \in Key, ~Exceeds(data, k)
  PROVE  /\ Complement(data, k) \in Seq(Pair) /\ Sorted(Complement(data, k))
         /\ Covered(Complement(data, k)) = Points(k) \ Covered(data)
<1>1. k \in Pair /\ k[1] \in Int /\ k[2] \in Int /\ k[1] <= k[2]
  BY KeyPair
<1>2. Len(data) \in Nat /\ data \in Seq(Pair)
  BY ProperEnds
<1>3. CASE data = << >>
  <2>1. Complement(data, k) = <<k>> /\ <<k>> \in Seq(Pair) /\ Sorted(<<k>>)
    BY <1>1, <1>3 DEF Complement, Sorted
  <2>2. Covered(data) = {} /\ Covered(<<k>>) = Points(k)
    BY <1>3 DEF Covered
  <2>. QED BY <2>1, <2>2
<1>4. CASE data # << >>
  <2> DEFINE G == [n \in 1 .. Len(data) + 1 |-> Gap(data, k, n - 1)]
             L == Len(data)
  <2>1. L \in Nat \ {0} /\ 1 \in 1 .. L /\ L \in 1 .. L
    BY <1>2, <1>4, EmptySeq
  <2>2. k[1] <= data[1][1] /\ data[L][2] <= k[2]
    <3>1. data[1][1] \in Int /\ data[L][2] \in Int
      BY <2>1, ProperEnds
    <3>. QED BY <3>1, <1>1, <1>4 DEF Exceeds, Start, Stop
  <2>3. ASSUME NEW n \in 1 .. L + 1
        PROVE  /\ G[n] \in Pair /\ G[n][1] \in Int /\ G[n][2] \in Int
               /\ G[n][1] = IF n = 1 THEN k[1] ELSE data[n - 1][2]
               /\ G[n][2] = IF n = L + 1 THEN k[2] ELSE data[n][1]
               /\ n # 1 => n - 1 \in 1 .. L
               /\ n # L + 1 => n \in 1 .. L
    <3>1. /\ n # 1 => n - 1 \in 1 .. L
          /\ n # L + 1 => n \in 1 .. L
          /\ n - 1 + 1 = n /\ (n - 1 = 0 <=> n = 1) /\ (n - 1 = L <=> n = L + 1)
      BY <2>1, <2>3
    <3>2. G[n] = <<IF n = 1 THEN k[1] ELSE data[n - 1][2], IF n = L + 1 THEN k[2] ELSE data[n][1]>>
      BY <3>1 DEF Gap, Start, Stop
    <3>3. /\ n # 1 => data[n - 1][2] \in Int
          /\ n # L + 1 => data[n][1] \in Int
      BY <3>1, ProperEnds
    <3>. HIDE DEF G, L
    <3>. QED BY <3>1, <3>2, <3>3, <1>1 DEF Pair
  <2>4. G \in Seq(Pair) /\ Len(G) = L + 1
    <3>1. \A n \in 1 .. L + 1 : G[n] \in Pair
      BY <2>3
    <3>2. L + 1 \in Nat /\ DOMAIN G = 1 .. L + 1
      BY <2>1
    <3>3. G \in [1 .. L + 1 -> Pair]
      BY <3>1
    <3>. HIDE DEF G, L
    <3>. QED BY <3>2, <3>3
  <2>5. Complement(data, k) = Pushed(G)
    BY <1>4 DEF Complement
  <2>. HIDE DEF G
  <2>6. Ordered(G)
    <3>1. SUFFICES ASSUME NEW i \in 1 .. L + 1, NEW j \in 1 .. L + 1, i < j PROVE G[i][2] <= G[j][1]
      BY <2>4 DEF Ordered, Comp, Start, Stop
    <3>2. i # L + 1 /\ j # 1 /\ i <= j - 1 /\ i \in 1 .. L /\ j - 1 \in 1 .. L
      BY <3>1, <2>1
    <3>3. G[i][2] = data[i][1] /\ G[j][1] = data[j - 1][2]
      BY <3>2, <2>3
    <3>4. data[i][2] <= data[j - 1][2]
      BY <3>2, EndsInOrder
    <3>5. /\ data[i][1] \in Int /\ data[i][2] \in Int /\ data[i][1] < data[i][2]
          /\ data[j - 1][2] \in Int
      BY <3>2, ProperEnds
    <3>. QED BY <3>3, <3>4, <3>5
  <2>7. ASSUME NEW x, x \in Covered(G) PROVE x \in Points(k) /\ x \notin Covered(data)
    <3>1. PICK n \in 1 .. L + 1 : x \in Points(G[n])
      BY <2>4, <2>7 DEF Covered
    <3>2. x \in Int /\ G[n][1] <= x /\ x < G[n][2]
      BY <3>1, <2>3 DEF Points, Start, Stop
    <3>3. k[1] <= x
      <4>1. n # 1 => data[1][2] <= data[n - 1][2] /\ data[n - 1][2] \in Int
        BY <2>1, <2>3, EndsInOrder, ProperEnds
      <4>2. data[1][1] \in Int /\ data[1][2] \in Int /\ data[1][1] < data[1][2]
        BY <2>1, ProperEnds
      <4>3. CASE n = 1
        <5>1. G[n][1] = k[1]
          BY <4>3, <2>3
        <5>. QED BY <5>1, <3>2
      <4>4. CASE n # 1
        <5>1. G[n][1] = data[n - 1][2]
          BY <4>4, <2>3
        <5>. QED BY <5>1, <4>1, <4>2, <4>4, <3>2, <2>2, <1>1
      <4>. QED BY <4>3, <4>4
    <3>4. x < k[2]
      <4>1. n # L + 1 => data[n][1] <= data[L][1] /\ data[n][1] \in Int
        BY <2>1, <2>3, EndsInOrder, ProperEnds
      <4>2. data[L][1] \in Int /\ data[L][2] \in Int /\ data[L][1] < data[L][2]
        BY <2>1, ProperEnds
      <4>3. CASE n = L + 1
        <5>1. G[n][2] = k[2]
          BY <4>3, <2>3
        <5>. QED BY <5>1, <3>2
      <4>4. CASE n # L + 1
        <5>1. G[n][2] = data[n][1]
          BY <4>4, <2>3
        <5>. QED BY <5>1, <4>1, <4>2, <4>4, <3>2, <2>2, <1>1
      <4>. QED BY <4>3, <4>4
    <3>5. ASSUME NEW m \in 1 .. L, x \in Points(data[m]) PROVE FALSE
      <4>1. data[m][1] \in Int /\ data[m][2] \in Int /\ data[m][1] <= x /\ x < data[m][2]
        <5>1. data[m][1] \in Int /\ data[m][2] \in Int
          BY ProperEnds
        <5>. QED BY <5>1, <3>5 DEF Points, Start, Stop
      <4>2. CASE m < n
        <5>1. n # 1 /\ m <= n - 1 /\ n - 1 \in 1 .. L
          BY <4>2, <2>1, <2>3
        <5>2. data[m][2] <= data[n - 1][2] /\ data[n - 1][2] \in Int
          BY <5>1, EndsInOrder, ProperEnds
        <5>3. G[n][1] = data[n - 1][2]
          BY <5>1, <2>3
        <5>. QED BY <5>2, <5>3, <4>1, <3>2
      <4>3. CASE n <= m
        <5>1. n # L + 1 /\ n \in 1 .. L
          BY <4>3, <2>1
        <5>2. data[n][1] <= data[m][1] /\ data[n][1] \in Int
          BY <5>1, <4>3, EndsInOrder, ProperEnds
        <5>3. G[n][2] = data[n][1]
          BY <5>1, <2>3
        <5>. QED BY <5>2, <5>3, <4>1, <3>2
      <4>. QED BY <4>2, <4>3, <2>1
    <3>6. x \in Points(k)
      BY <3>2, <3>3, <3>4, <1>1 DEF Points, Start, Stop
    <3>. QED BY <3>5, <3>6 DEF Covered
  <2>8. ASSUME NEW x \in Points(k), x \notin Covered(data) PROVE x \in Covered(G)
    <3>1. x \in Int /\ k[1] <= x /\ x < k[2]
      BY <1>1, <2>8 DEF Points, Start, Stop
    <3> DEFINE Ends == {n \in 1 .. L + 1 : n = L + 1 \/ x < data[n][1]}
    <3>2. Ends \subseteq Nat /\ L + 1 \in Ends
      BY <2>1
    <3>3. PICK n \in Ends : \A m \in Ends : n <= m
      <4>. HIDE DEF Ends
      <4>. QED BY <3>2, LeastElement
    <3>4. n \in 1 .. L + 1 /\ (n = L + 1 \/ x < data[n][1])
      OBVIOUS
    <3>5. n # 1 => data[n - 1][2] <= x
      <4>1. SUFFICES ASSUME n # 1 PROVE data[n - 1][2] <= x
        OBVIOUS
      <4>2. n - 1 \in 1 .. L /\ n - 1 \in 1 .. L + 1 /\ n - 1 # L + 1 /\ ~(n <= n - 1)
        BY <3>4, <4>1, <2>1
      <4>3. ~(x < data[n - 1][1])
        BY <3>3, <4>2
      <4>4. x \notin Points(data[n - 1]) /\ data[n - 1][1] \in Int /\ data[n - 1][2] \in Int
        BY <2>8, <4>2, ProperEnds DEF Covered
      <4>. QED BY <4>3, <4>4, <3>1 DEF Points, Start, Stop
    <3>6. G[n][1] <= x /\ x < G[n][2]
      <4>1. G[n][1] <= x
        <5>1. n = 1 => G[n][1] = k[1]
          BY <3>4, <2>3
        <5>2. n # 1 => G[n][1] = data[n - 1][2]
          BY <3>4, <2>3
        <5>. QED BY <5>1, <5>2, <3>1, <3>5
      <4>2. x < G[n][2]
        <5>1. n = L + 1 => G[n][2] = k[2]
          BY <3>4, <2>3
        <5>2. n # L + 1 => G[n][2] = data[n][1]
          BY <3>4, <2>3
        <5>. QED BY <5>1, <5>2, <3>1, <3>4
      <4>. QED BY <4>1, <4>2
    <3>7. x \in Points(G[n])
      BY <3>1, <3>4, <3>6, <2>3 DEF Points, Start, Stop
    <3>. QED BY <3>4, <3>7, <2>4 DEF Covered
  <2>9. Covered(G) = Points(k) \ Covered(data)
    BY <2>7, <2>8
  <2>. QED BY <2>4, <2>5, <2>6, <2>9, PushedCovers DEF Proper
<1>. QED BY <1>3, <1>4

LEMMA Scaled ==
  ASSUME NEW a \in Int, NEW b \in Int, NEW c \in Int, a <= b
  PROVE  (c >= 0 => c * a <= c * b) /\ (c <= 0 => c * b <= c * a)
OBVIOUS

\* get_transform: what is scaled and shifted is in order, backwards under a negative scale.
LEMMA TransformSorted ==
  ASSUME Proper(data), NEW scale \in Scales, NEW shift \in Shifts, GetTransform(scale, shift)
  PROVE  aux' \in Seq(Pair) /\ Sorted(aux')
<1> DEFINE L == Len(data)
           at(n) == IF scale > 0 THEN n ELSE L + 1 - n
           t == [n \in 1 .. L |-> Transform(data[at(n)], scale, shift)]
<1>1. L \in Nat /\ scale \in Int /\ shift \in Int
  BY ProperEnds, CoordAssumption
<1>2. CASE scale = 0
  BY <1>2 DEF GetTransform, Sorted
<1>3. CASE scale # 0
  <2>1. aux' = t
    BY <1>3 DEF GetTransform
  <2>2. ASSUME NEW n \in 1 .. L
        PROVE  /\ at(n) \in 1 .. L
               /\ t[n] = <<scale * data[at(n)][IF scale > 0 THEN 1 ELSE 2] + shift,
                           scale * data[at(n)][IF scale > 0 THEN 2 ELSE 1] + shift>>
    BY <1>1, <1>3 DEF Transform, Start, Stop
  <2>3. \A n \in 1 .. L : data[at(n)][1] \in Int /\ data[at(n)][2] \in Int
    BY <2>2, ProperEnds
  <2>. HIDE DEF at
  <2>4. \A n \in 1 .. L : t[n] \in Pair
    <3>1. TAKE n \in 1 .. L
    <3>2. \A c \in Int : c * data[at(n)][1] + shift \in Int /\ c * data[at(n)][2] + shift \in Int
      <4>1. \A x, y, z \in Int : x * y + z \in Int
        OBVIOUS
      <4>. QED BY <4>1, <2>3, <1>1
    <3>3. /\ scale * data[at(n)][IF scale > 0 THEN 1 ELSE 2] + shift \in Int
          /\ scale * data[at(n)][IF scale > 0 THEN 2 ELSE 1] + shift \in Int
      BY <3>2, <1>1
    <3>. QED BY <3>3, <2>2 DEF Pair
  <2>5. t \in Seq(Pair) /\ Len(t) = L
    <3>1. DOMAIN t = 1 .. L /\ t \in [1 .. L -> Pair]
      BY <2>4
    <3>. HIDE DEF t, L
    <3>. QED BY <3>1, <1>1
  <2>. HIDE DEF t
  <2>6. ASSUME NEW m \in 1 .. L, NEW n \in 1 .. L, m < n PROVE t[m][2] <= t[n][1]
    <3>1. at(m) \in 1 .. L /\ at(n) \in 1 .. L
      BY <2>2
    <3>2. CASE scale > 0
      <4>1. at(m) < at(n)
        BY <3>2, <2>6 DEF at
      <4>2. data[at(m)][2] <= data[at(n)][1]
        BY <3>1, <4>1, ProperEnds
      <4>3. scale * data[at(m)][2] <= scale * data[at(n)][1]
        BY <4>2, <2>3, <1>1, <3>2, Scaled
      <4>4. t[m][2] = scale * data[at(m)][2] + shift /\ t[n][1] = scale * data[at(n)][1] + shift
        BY <3>2, <2>2
      <4>5. scale * data[at(m)][2] \in Int /\ scale * data[at(n)][1] \in Int
        BY <2>3, <1>1
      <4>. QED BY <4>3, <4>4, <4>5, <1>1
    <3>3. CASE scale < 0
      <4>1. at(n) < at(m)
        BY <3>3, <2>6, <1>1 DEF at
      <4>2. data[at(n)][2] <= data[at(m)][1]
        BY <3>1, <4>1, ProperEnds
      <4>3. scale * data[at(m)][1] <= scale * data[at(n)][2]
        <5>1. scale <= 0 /\ data[at(n)][2] \in Int /\ data[at(m)][1] \in Int
          BY <2>3, <1>1, <3>3
        <5>. QED BY <5>1, <4>2, <1>1, Scaled
      <4>4. t[m][2] = scale * data[at(m)][1] + shift /\ t[n][1] = scale * data[at(n)][2] + shift
        BY <3>3, <2>2, <1>1
      <4>5. scale * data[at(m)][1] \in Int /\ scale * data[at(n)][2] \in Int
        BY <2>3, <1>1
      <4>. QED BY <4>3, <4>4, <4>5, <1>1
    <3>. QED BY <3>2, <3>3, <1>1, <1>3
  <2>7. Sorted(t)
    BY <2>5, <2>6 DEF Sorted, Comp, Start, Stop
  <2>. QED BY <2>1, <2>5, <2>7
<1>. QED BY <1>2, <1>3

\* subtract covers no coordinate of the key afterwards, and none it did not cover before.
LEMMA SubtractCovers ==
  ASSUME Proper(data), NEW k \in Key, Subtract(k)
  PROVE  Covered(data') \subseteq Covered(data) \ Points(k)
<1>1. Elems(data') = (Elems(data) \ MetBy(data, k)) \cup UNION {Abs!Remainder(i, k) : i \in MetBy(data, k)}
  <2>1. Abs!AbsSubtract(k)
    BY SubtractRefines
  <2>. QED BY <2>1 DEF Abs!AbsSubtract, Elems, MetBy
<1>2. k[1] \in Int /\ k[2] \in Int /\ k[1] <= k[2]
  BY KeyPair
<1>3. SUFFICES ASSUME NEW e \in Elems(data'), NEW x \in Points(e)
               PROVE  (\E i \in Elems(data) : x \in Points(i)) /\ x \notin Points(k)
  BY CoveredBy
<1>4. \A i \in Elems(data) : i[1] \in Int /\ i[2] \in Int /\ i[1] < i[2]
  BY ProperEnds DEF Elems
<1>5. CASE e \in Elems(data) /\ ~Abs!Meets(e, k)
  BY <1>2, <1>3, <1>4, <1>5 DEF Abs!Meets, Points, Start, Stop
<1>6. ASSUME NEW i \in Elems(data), e \in Abs!Remainder(i, k), Abs!Meets(i, k)
      PROVE  (\E j \in Elems(data) : x \in Points(j)) /\ x \notin Points(k)
  <2>1. i[1] \in Int /\ i[2] \in Int /\ i[1] < i[2]
    BY <1>4
  <2>2. \/ e = <<i[1], k[1]>> /\ i[1] < k[1]
        \/ e = <<k[2], i[2]>> /\ k[2] < i[2]
    BY <1>6 DEF Abs!Remainder
  <2>3. x \in Points(i) /\ x \notin Points(k)
    BY <2>1, <2>2, <1>2, <1>3, <1>6 DEF Abs!Meets, Points, Start, Stop
  <2>. QED BY <2>3
<1>. QED BY <1>1, <1>3, <1>5, <1>6 DEF MetBy

\* The coordinates that the intervals of s from n on cover.
CoveredFrom(s, n) == UNION {Points(s[m]) : m \in n .. Len(s)}

\* From n on: the intervals before a end before the key, those from a to b - 1 meet it, the
\* others come after it.
IsRunFrom(s, n, k, a, b) ==
  /\ \A m \in n .. a - 1 : Comp(s[m], k)
  /\ \A m \in a .. b - 1 : ~Comp(s[m], k) /\ ~Comp(k, s[m])
  /\ \A m \in b .. Len(s) : ~Comp(s[m], k) /\ Comp(k, s[m])

LEMMA RunFromExists ==
  ASSUME NEW s, Proper(s), NEW n \in 1 .. Len(s) + 1, NEW k \in Pair, NonEmpty(k)
  PROVE  \E a \in n .. Len(s) + 1 : \E b \in a .. Len(s) + 1 : IsRunFrom(s, n, k, a, b)
<1> DEFINE L == Len(s)
           Late == {m \in n .. L + 1 : m = L + 1 \/ ~Comp(s[m], k)}
<1>1. L \in Nat /\ n \in Nat /\ k[1] \in Int /\ k[2] \in Int /\ k[1] < k[2]
  BY ProperEnds DEF Pair, NonEmpty, Start, Stop
<1>2. PICK a \in Late : \A m \in Late : a <= m
  <2>1. Late \subseteq Nat /\ L + 1 \in Late
    BY <1>1
  <2>. HIDE DEF Late
  <2>. QED BY <2>1, LeastElement
<1>3. a \in n .. L + 1 /\ a \in Nat /\ n <= a /\ (a = L + 1 \/ ~Comp(s[a], k))
  BY <1>1, <1>2
<1> DEFINE After == {m \in a .. L + 1 : m = L + 1 \/ Comp(k, s[m])}
<1>4. PICK b \in After : \A m \in After : b <= m
  <2>1. After \subseteq Nat /\ L + 1 \in After
    BY <1>1, <1>3
  <2>. HIDE DEF After
  <2>. QED BY <2>1, LeastElement
<1>5. b \in a .. L + 1 /\ b \in Nat /\ a <= b /\ (b = L + 1 \/ Comp(k, s[b]))
  BY <1>1, <1>3, <1>4
<1>6. \A m \in n .. a - 1 : Comp(s[m], k)
  <2>1. TAKE m \in n .. a - 1
  <2>2. m \in n .. L + 1 /\ m # L + 1 /\ ~(a <= m)
    BY <1>1, <1>3, <2>1
  <2>. QED BY <2>2, <1>2
<1>7. \A m \in a .. L : ~Comp(s[m], k)
  <2>1. TAKE m \in a .. L
  <2>2. a # L + 1 /\ a \in 1 .. L /\ m \in 1 .. L /\ a <= m
    BY <1>1, <1>3, <2>1
  <2>3. s[a][2] <= s[m][2] /\ s[a][2] \in Int /\ s[m][2] \in Int
    BY <2>2, EndsInOrder, ProperEnds
  <2>. QED BY <2>2, <2>3, <1>1, <1>3 DEF Comp, Start, Stop
<1>8. \A m \in a .. b - 1 : ~Comp(k, s[m])
  <2>1. TAKE m \in a .. b - 1
  <2>2. m \in a .. L + 1 /\ m # L + 1 /\ ~(b <= m)
    BY <1>1, <1>3, <1>5, <2>1
  <2>. QED BY <2>2, <1>4
<1>9. \A m \in b .. L : Comp(k, s[m])
  <2>1. TAKE m \in b .. L
  <2>2. b # L + 1 /\ b \in 1 .. L /\ m \in 1 .. L /\ b <= m
    BY <1>1, <1>3, <1>5, <2>1
  <2>3. s[b][1] <= s[m][1] /\ s[b][1] \in Int /\ s[m][1] \in Int
    BY <2>2, EndsInOrder, ProperEnds
  <2>. QED BY <2>2, <2>3, <1>1, <1>5 DEF Comp, Start, Stop
<1>10. (\A m \in a .. b - 1 : m \in a .. L) /\ (\A m \in b .. L : m \in a .. L)
  BY <1>1, <1>3, <1>5
<1>11. IsRunFrom(s, n, k, a, b)
  BY <1>6, <1>7, <1>8, <1>9, <1>10 DEF IsRunFrom
<1>. QED BY <1>3, <1>5, <1>11

\* What the counts of intersect_helper come to.
LEMMA RunCounts ==
  ASSUME NEW s, Proper(s), NEW n \in 1 .. Len(s) + 1, NEW k \in Pair,
         NEW a \in n .. Len(s) + 1, NEW b \in a .. Len(s) + 1, IsRunFrom(s, n, k, a, b)
  PROVE  /\ Before(s, n, k) = a - n /\ Met(s, n, k) = b - a
         /\ NextFirst(s, n, k) = IF a < b THEN b - 1 ELSE a
<1>1. Len(s) \in Nat /\ n \in Nat /\ a \in Nat /\ b \in Nat
  BY ProperEnds
<1>2. {m \in n .. Len(s) : Comp(s[m], k)} = n .. a - 1
  <2>1. \A m \in n .. Len(s) : m \in n .. a - 1 \/ m \in a .. b - 1 \/ m \in b .. Len(s)
    BY <1>1
  <2>2. \A m \in n .. a - 1 : m \in n .. Len(s)
    BY <1>1
  <2>. QED BY <2>1, <2>2 DEF IsRunFrom
<1>3. {m \in n .. Len(s) : ~Comp(s[m], k) /\ ~Comp(k, s[m])} = a .. b - 1
  <2>1. \A m \in n .. Len(s) : m \in n .. a - 1 \/ m \in a .. b - 1 \/ m \in b .. Len(s)
    BY <1>1
  <2>2. \A m \in a .. b - 1 : m \in n .. Len(s)
    BY <1>1
  <2>. QED BY <2>1, <2>2 DEF IsRunFrom
<1>4. Cardinality(n .. a - 1) = a - n
  <2>1. a - 1 \in Int /\ n \in Int
    BY <1>1
  <2>2. Cardinality(n .. a - 1) = IF n > a - 1 THEN 0 ELSE a - 1 - n + 1
    BY <2>1, FS_Interval
  <2>. QED BY <2>2, <1>1
<1>5. Cardinality(a .. b - 1) = b - a
  <2>1. b - 1 \in Int /\ a \in Int
    BY <1>1
  <2>2. Cardinality(a .. b - 1) = IF a > b - 1 THEN 0 ELSE b - 1 - a + 1
    BY <2>1, FS_Interval
  <2>. QED BY <2>2, <1>1
<1>6. Before(s, n, k) = a - n /\ Met(s, n, k) = b - a
  BY <1>2, <1>3, <1>4, <1>5 DEF Before, Met
<1>. QED BY <1>1, <1>6 DEF NextFirst

\* Two proper vectors of which the first ends before the second begins.
LEMMA JoinProper ==
  ASSUME NEW c, Proper(c), NEW r, Proper(r), \A e \in Elems(c), f \in Elems(r) : Comp(e, f)
  PROVE  Proper(c \o r) /\ Elems(c \o r) = Elems(c) \cup Elems(r)
<1> DEFINE t == c \o r
<1>1. c \in Seq(Pair) /\ r \in Seq(Pair) /\ Len(c) \in Nat /\ Len(r) \in Nat
  BY ProperEnds
<1>2. /\ t \in Seq(Pair) /\ Len(t) = Len(c) + Len(r)
      /\ \A i \in 1 .. Len(c) + Len(r) : t[i] = IF i <= Len(c) THEN c[i] ELSE r[i - Len(c)]
  BY <1>1, ConcatProperties
<1>. HIDE DEF t
<1>3. ASSUME NEW i \in 1 .. Len(t)
      PROVE  \/ i \in 1 .. Len(c) /\ t[i] = c[i]
             \/ i > Len(c) /\ i - Len(c) \in 1 .. Len(r) /\ t[i] = r[i - Len(c)]
  BY <1>1, <1>2, <1>3
<1>4. \A i \in 1 .. Len(t) : NonEmpty(t[i])
  BY <1>3 DEF Proper
<1>5. ASSUME NEW i \in 1 .. Len(t), NEW j \in 1 .. Len(t), i < j PROVE Comp(t[i], t[j])
  <2>1. CASE j \in 1 .. Len(c) /\ t[j] = c[j]
    <3>1. i \in 1 .. Len(c) /\ t[i] = c[i]
      BY <2>1, <1>1, <1>3, <1>5
    <3>. QED BY <2>1, <3>1, <1>5 DEF Proper, Sorted
  <2>2. CASE j > Len(c) /\ j - Len(c) \in 1 .. Len(r) /\ t[j] = r[j - Len(c)]
    <3>1. CASE i \in 1 .. Len(c) /\ t[i] = c[i]
      BY <2>2, <3>1 DEF Elems
    <3>2. CASE i > Len(c) /\ i - Len(c) \in 1 .. Len(r) /\ t[i] = r[i - Len(c)]
      <4>1. i - Len(c) < j - Len(c)
        BY <1>1, <1>5
      <4>. QED BY <2>2, <3>2, <4>1 DEF Proper, Sorted
    <3>. QED BY <3>1, <3>2, <1>3
  <2>. QED BY <2>1, <2>2, <1>3
<1>6. Proper(t)
  BY <1>2, <1>4, <1>5 DEF Proper, Sorted
<1>7. Elems(t) \subseteq Elems(c) \cup Elems(r)
  BY <1>3 DEF Elems
<1>8. ASSUME NEW i \in 1 .. Len(c) PROVE c[i] \in Elems(t)
  <2>1. i \in 1 .. Len(t) /\ t[i] = c[i]
    BY <1>1, <1>2, <1>8
  <2>. QED BY <2>1 DEF Elems
<1>9. ASSUME NEW i \in 1 .. Len(r) PROVE r[i] \in Elems(t)
  <2>1. Len(c) + i \in 1 .. Len(t) /\ t[Len(c) + i] = r[i]
    BY <1>1, <1>2, <1>9
  <2>. QED BY <2>1 DEF Elems
<1>10. Elems(c) \cup Elems(r) \subseteq Elems(t)
  BY <1>8, <1>9 DEF Elems
<1>. QED BY <1>6, <1>7, <1>10 DEF t

\* The coordinates of an interval, and of the intervals from n on.
LEMMA InPoints ==
  ASSUME NEW i \in Pair
  PROVE  \A x : x \in Points(i) <=> x \in Int /\ i[1] <= x /\ x < i[2]
BY DEF Points, Start, Stop, Pair

\* What intersect_helper pushes back: the parts of the key that the vector covers from n on.
LEMMA CutOutExact ==
  ASSUME NEW s, Proper(s), NEW n \in 1 .. Len(s) + 1, NEW k \in Pair, NonEmpty(k)
  PROVE  /\ Proper(CutOut(s, n, k))
         /\ Covered(CutOut(s, n, k)) = Points(k) \cap CoveredFrom(s, n)
<1>1. PICK a \in n .. Len(s) + 1 : \E b \in a .. Len(s) + 1 : IsRunFrom(s, n, k, a, b)
  BY RunFromExists
<1>2. PICK b \in a .. Len(s) + 1 : IsRunFrom(s, n, k, a, b)
  BY <1>1
<1>3. Before(s, n, k) = a - n /\ Met(s, n, k) = b - a
  BY <1>2, RunCounts
<1>4. /\ Len(s) \in Nat /\ n \in Nat /\ a \in Nat /\ b \in Nat /\ n <= a /\ a <= b
      /\ k[1] \in Int /\ k[2] \in Int /\ k[1] < k[2]
  BY ProperEnds DEF Pair, NonEmpty, Start, Stop
<1> DEFINE c == CutOut(s, n, k)
<1>5. c = [m \in 1 .. b - a |-> Common(k, s[n + (a - n) + m - 1])]
  BY <1>3 DEF CutOut
<1>. HIDE DEF c
<1>6. ASSUME NEW m \in 1 .. b - a
      PROVE  /\ a + m - 1 \in a .. b - 1 /\ a + m - 1 \in 1 .. Len(s)
             /\ c[m] = <<MaxOf2(k[1], s[a + m - 1][1]), MinOf2(k[2], s[a + m - 1][2])>>
  <2>1. n + (a - n) + m - 1 = a + m - 1 /\ a + m - 1 \in a .. b - 1 /\ a + m - 1 \in 1 .. Len(s)
    BY <1>4, <1>6
  <2>2. c[m] = Common(k, s[n + (a - n) + m - 1])
    BY <1>5
  <2>. QED BY <2>1, <2>2 DEF Common, Start, Stop
<1>7. ASSUME NEW j \in 1 .. Len(s), NEW d, d = <<MaxOf2(k[1], s[j][1]), MinOf2(k[2], s[j][2])>>
      PROVE  /\ d \in Pair /\ s[j][1] <= d[1] /\ d[2] <= s[j][2]
             /\ ~Comp(s[j], k) /\ ~Comp(k, s[j]) => NonEmpty(d)
             /\ Points(d) = Points(k) \cap Points(s[j])
  <2>1. s[j] \in Pair /\ s[j][1] \in Int /\ s[j][2] \in Int /\ s[j][1] < s[j][2]
    BY ProperEnds
  <2>2. /\ d \in Pair /\ d[1] \in Int /\ d[2] \in Int
        /\ d[1] = k[1] \/ d[1] = s[j][1]
        /\ d[2] = k[2] \/ d[2] = s[j][2]
        /\ k[1] <= d[1] /\ s[j][1] <= d[1] /\ d[2] <= k[2] /\ d[2] <= s[j][2]
    BY <2>1, <1>4, <1>7 DEF MaxOf2, MinOf2, Pair
  <2>3. ~Comp(s[j], k) /\ ~Comp(k, s[j]) => NonEmpty(d)
    BY <2>1, <2>2, <1>4 DEF Comp, NonEmpty, Start, Stop
  <2>4. ASSUME NEW x PROVE x \in Points(d) <=> x \in Points(k) /\ x \in Points(s[j])
    <3>1. x \in Points(d) <=> x \in Int /\ d[1] <= x /\ x < d[2]
      BY <2>2, InPoints
    <3>2. x \in Points(k) <=> x \in Int /\ k[1] <= x /\ x < k[2]
      BY InPoints
    <3>3. x \in Points(s[j]) <=> x \in Int /\ s[j][1] <= x /\ x < s[j][2]
      BY <2>1, InPoints
    <3>4. ASSUME x \in Int
          PROVE  d[1] <= x /\ x < d[2]
                   <=> k[1] <= x /\ x < k[2] /\ s[j][1] <= x /\ x < s[j][2]
      <4>1. d[1] <= x <=> k[1] <= x /\ s[j][1] <= x
        BY <2>1, <2>2, <1>4, <3>4
      <4>2. x < d[2] <=> x < k[2] /\ x < s[j][2]
        BY <2>1, <2>2, <1>4, <3>4
      <4>. QED BY <4>1, <4>2
    <3>. QED BY ONLY <3>1, <3>2, <3>3, <3>4
  <2>. QED BY <2>2, <2>3, <2>4
<1>8. b - a \in Nat /\ c \in Seq(Pair) /\ Len(c) = b - a
  <2>1. b - a \in Nat
    BY <1>4
  <2>2. \A m \in 1 .. b - a : c[m] \in Pair
    BY <1>6, <1>7
  <2>3. DOMAIN c = 1 .. b - a /\ c \in [1 .. b - a -> Pair]
    BY <1>5, <2>2
  <2>. QED BY <2>1, <2>3
<1>9. \A m \in 1 .. b - a : NonEmpty(c[m])
  <2>1. TAKE m \in 1 .. b - a
  <2>2. ~Comp(s[a + m - 1], k) /\ ~Comp(k, s[a + m - 1])
    BY <1>2, <1>6 DEF IsRunFrom
  <2>. QED BY <2>2, <1>6, <1>7
<1>10. ASSUME NEW i \in 1 .. b - a, NEW j \in 1 .. b - a, i < j PROVE Comp(c[i], c[j])
  <2>1. a + i - 1 < a + j - 1 /\ a + i - 1 \in 1 .. Len(s) /\ a + j - 1 \in 1 .. Len(s)
    BY <1>4, <1>6, <1>10
  <2>2. s[a + i - 1][2] <= s[a + j - 1][1]
    BY <2>1, ProperEnds
  <2>3. c[i] \in Pair /\ c[j] \in Pair /\ c[i][2] <= s[a + i - 1][2] /\ s[a + j - 1][1] <= c[j][1]
    BY <2>1, <1>6, <1>7
  <2>4. s[a + i - 1][2] \in Int /\ s[a + j - 1][1] \in Int
    BY <2>1, ProperEnds
  <2>5. c[i][2] \in Int /\ c[j][1] \in Int
    BY <2>3 DEF Pair
  <2>6. c[i][2] <= s[a + i - 1][2] /\ s[a + j - 1][1] <= c[j][1]
    BY <2>3
  <2>7. c[i][2] <= c[j][1]
    <3>1. \A x, y, z, w \in Int : x <= y /\ y <= z /\ z <= w => x <= w
      OBVIOUS
    <3>. QED BY ONLY <3>1, <2>2, <2>4, <2>5, <2>6
  <2>. QED BY <2>7 DEF Comp, Start, Stop
<1>11. Proper(c)
  BY <1>8, <1>9, <1>10 DEF Proper, Sorted
<1>12. ASSUME NEW x PROVE x \in Covered(c) <=> x \in Points(k) /\ x \in CoveredFrom(s, n)
  <2>1. x \in Covered(c) <=> \E m \in 1 .. b - a : x \in Points(c[m])
    BY <1>8 DEF Covered
  <2>2. ASSUME NEW m \in 1 .. b - a, x \in Points(c[m])
        PROVE  x \in Points(k) /\ x \in CoveredFrom(s, n)
    <3>1. a + m - 1 \in n .. Len(s) /\ a + m - 1 \in 1 .. Len(s)
      BY <1>4, <1>6
    <3>2. Points(c[m]) = Points(k) \cap Points(s[a + m - 1])
      BY <1>6, <1>7
    <3>. QED BY <3>1, <3>2, <2>2 DEF CoveredFrom
  <2>3. ASSUME x \in Points(k), NEW j \in n .. Len(s), x \in Points(s[j])
        PROVE  \E m \in 1 .. b - a : x \in Points(c[m])
    <3>1. j \in 1 .. Len(s)
      BY <1>4, <2>3
    <3>2. ~Comp(s[j], k) /\ ~Comp(k, s[j])
      <4>1. s[j] \in Pair /\ s[j][1] \in Int /\ s[j][2] \in Int
        BY <3>1, ProperEnds
      <4>. QED BY <4>1, <2>3, <1>4, InPoints DEF Comp, Start, Stop
    <3>3. j \in a .. b - 1
      <4>1. j \in n .. a - 1 \/ j \in a .. b - 1 \/ j \in b .. Len(s)
        BY <1>4, <2>3
      <4>. QED BY <4>1, <3>2, <1>2 DEF IsRunFrom
    <3>4. j - a + 1 \in 1 .. b - a /\ a + (j - a + 1) - 1 = j
      BY <3>3, <1>4
    <3>5. Points(c[j - a + 1]) = Points(k) \cap Points(s[j])
      BY <3>1, <3>4, <1>6, <1>7
    <3>. QED BY <3>4, <3>5, <2>3
  <2>. QED BY <2>1, <2>2, <2>3 DEF CoveredFrom
<1>. QED BY <1>11, <1>12 DEF c

\* The interval that is looked at next has not been passed over: what is passed ends before
\* the next interval of the other vector begins.
LEMMA NextFirstPasses ==
  ASSUME NEW s, Proper(s), NEW n \in 1 .. Len(s) + 1, NEW k \in Pair, NonEmpty(k)
  PROVE  /\ NextFirst(s, n, k) \in n .. Len(s) + 1
         /\ \A x \in Int : k[2] <= x =>
              (x \in CoveredFrom(s, n) <=> x \in CoveredFrom(s, NextFirst(s, n, k)))
<1>1. PICK a \in n .. Len(s) + 1 : \E b \in a .. Len(s) + 1 : IsRunFrom(s, n, k, a, b)
  BY RunFromExists
<1>2. PICK b \in a .. Len(s) + 1 : IsRunFrom(s, n, k, a, b)
  BY <1>1
<1> DEFINE f == NextFirst(s, n, k)
<1>3. f = IF a < b THEN b - 1 ELSE a
  BY <1>2, RunCounts
<1>. HIDE DEF f
<1>4. /\ Len(s) \in Nat /\ n \in Nat /\ a \in Nat /\ b \in Nat /\ n <= a /\ a <= b
      /\ k[1] \in Int /\ k[2] \in Int /\ k[1] < k[2]
  BY ProperEnds DEF Pair, NonEmpty, Start, Stop
<1>5. f \in n .. Len(s) + 1
  BY <1>3, <1>4
<1>6. ASSUME NEW m \in n .. f - 1 PROVE s[m][2] <= k[2] /\ m \in 1 .. Len(s)
  <2>1. m \in 1 .. Len(s) /\ m \in Int
    BY <1>4, <1>5, <1>6
  <2>2. s[m][2] \in Int
    BY <2>1, ProperEnds
  <2>3. CASE m <= a - 1
    <3>1. Comp(s[m], k)
      BY <2>1, <2>3, <1>2, <1>4, <1>6 DEF IsRunFrom
    <3>. QED BY <2>1, <2>2, <3>1, <1>4 DEF Comp, Start, Stop
  <2>4. CASE ~(m <= a - 1)
    <3>1. a < b /\ f = b - 1 /\ m < b - 1 /\ b - 1 \in a .. b - 1 /\ b - 1 \in 1 .. Len(s)
      BY <2>1, <2>4, <1>3, <1>4, <1>6
    <3>2. ~Comp(k, s[b - 1])
      BY <3>1, <1>2 DEF IsRunFrom
    <3>3. s[m][2] <= s[b - 1][1] /\ s[b - 1][1] \in Int
      BY <2>1, <3>1, ProperEnds
    <3>. QED BY <2>1, <2>2, <3>2, <3>3, <1>4 DEF Comp, Start, Stop
  <2>. QED BY <2>1, <2>3, <2>4
<1>7. ASSUME NEW x \in Int, k[2] <= x, x \in CoveredFrom(s, n) PROVE x \in CoveredFrom(s, f)
  <2>1. PICK m \in n .. Len(s) : x \in Points(s[m])
    BY <1>7 DEF CoveredFrom
  <2>2. m \in 1 .. Len(s) /\ s[m] \in Pair /\ s[m][2] \in Int
    BY <1>4, ProperEnds
  <2>3. x < s[m][2]
    BY <2>1, <2>2, InPoints
  <2>4. m \notin n .. f - 1
    BY <2>2, <2>3, <1>4, <1>6, <1>7
  <2>5. m \in f .. Len(s)
    BY <2>4, <1>4, <1>5
  <2>. QED BY <2>1, <2>5 DEF CoveredFrom
<1>8. CoveredFrom(s, f) \subseteq CoveredFrom(s, n)
  <2>1. \A m \in f .. Len(s) : m \in n .. Len(s)
    BY <1>4, <1>5
  <2>. QED BY <2>1 DEF CoveredFrom
<1>. QED BY <1>5, <1>7, <1>8 DEF f

\* One round of get_intersection: the interval n of s is cut out of t, the rest of both is cut
\* by the rounds that follow.
LEMMA RoundExact ==
  ASSUME NEW s, Proper(s), NEW t, Proper(t), NEW n \in 1 .. Len(s), NEW m \in 1 .. Len(t) + 1,
         NEW r, Proper(r),
         Covered(r) = CoveredFrom(s, n + 1) \cap CoveredFrom(t, NextFirst(t, m, s[n]))
  PROVE  /\ Proper(CutOut(t, m, s[n]) \o r)
         /\ Covered(CutOut(t, m, s[n]) \o r) = CoveredFrom(s, n) \cap CoveredFrom(t, m)
<1> DEFINE k == s[n]
           c == CutOut(t, m, k)
<1>1. k \in Pair /\ NonEmpty(k) /\ k[1] \in Int /\ k[2] \in Int /\ Len(s) \in Nat
  BY ProperEnds DEF NonEmpty, Start, Stop
<1>2. Proper(c) /\ Covered(c) = Points(k) \cap CoveredFrom(t, m)
  BY <1>1, CutOutExact
<1>3. \A x \in Int : k[2] <= x =>
        (x \in CoveredFrom(t, m) <=> x \in CoveredFrom(t, NextFirst(t, m, k)))
  BY <1>1, NextFirstPasses
<1>4. ASSUME NEW x \in CoveredFrom(s, n + 1) PROVE x \in Int /\ k[2] <= x
  <2>1. PICK j \in n + 1 .. Len(s) : x \in Points(s[j])
    BY DEF CoveredFrom
  <2>2. j \in 1 .. Len(s) /\ n < j
    BY <1>1
  <2>3. k[2] <= s[j][1] /\ s[j] \in Pair /\ s[j][1] \in Int
    BY <2>2, ProperEnds
  <2>4. x \in Int /\ s[j][1] <= x
    BY <2>1, <2>3, InPoints
  <2>. QED BY <2>3, <2>4, <1>1
<1>5. ASSUME NEW x PROVE x \in CoveredFrom(s, n) <=> x \in Points(k) \/ x \in CoveredFrom(s, n + 1)
  <2>1. \A j : j \in n .. Len(s) <=> j = n \/ j \in n + 1 .. Len(s)
    BY <1>1
  <2>. QED BY <2>1 DEF CoveredFrom
<1>. HIDE DEF c, k
<1>6. ASSUME NEW e \in Elems(c), NEW f \in Elems(r) PROVE Comp(e, f)
  <2>1. /\ e \in Pair /\ e[1] \in Int /\ e[2] \in Int /\ e[1] < e[2]
        /\ f \in Pair /\ f[1] \in Int /\ f[2] \in Int /\ f[1] < f[2]
    BY <1>2, ProperEnds DEF Elems
  <2>2. e[2] - 1 \in Points(e) /\ f[1] \in Points(f)
    BY <2>1, InPoints
  <2>3. e[2] - 1 \in Points(k) /\ f[1] \in CoveredFrom(s, n + 1)
    <3>1. e[2] - 1 \in Covered(c) /\ f[1] \in Covered(r)
      BY <2>2, CoveredBy
    <3>. QED BY <3>1, <1>2
  <2>4. e[2] - 1 < k[2] /\ k[2] <= f[1]
    BY <2>3, <1>1, <1>4, InPoints
  <2>. QED BY <2>1, <2>4, <1>1 DEF Comp, Start, Stop
<1>7. Proper(c \o r) /\ Elems(c \o r) = Elems(c) \cup Elems(r)
  BY <1>2, <1>6, JoinProper
<1>8. ASSUME NEW x PROVE x \in Covered(c \o r) <=> x \in CoveredFrom(s, n) /\ x \in CoveredFrom(t, m)
  <2>1. x \in Covered(c \o r) <=> x \in Covered(c) \/ x \in Covered(r)
    BY <1>7, CoveredBy
  <2>2. x \in Covered(c) <=> x \in Points(k) /\ x \in CoveredFrom(t, m)
    BY <1>2
  <2>3. x \in Covered(r) <=> x \in CoveredFrom(s, n + 1) /\ x \in CoveredFrom(t, NextFirst(t, m, k))
    BY DEF k
  <2>. QED BY <2>1, <2>2, <2>3, <1>3, <1>4, <1>5
<1>. QED BY <1>7, <1>8 DEF c, k

\* get_intersection returns intervals in order that cover what both vectors cover.
LEMMA IntersectionExact ==
  ASSUME NEW s, Proper(s), NEW t, Proper(t)
  PROVE  /\ Proper(Intersection(s, t))
         /\ Covered(Intersection(s, t)) = Covered(s) \cap Covered(t)
<1> DEFINE S == (1 .. Len(s) + 1) \X (1 .. Len(t) + 1)
           T == Seq(Pair)
           Next1(p) == <<p[1] + 1, NextFirst(t, p[2], s[p[1]])>>
           Next2(p) == <<NextFirst(s, p[1], t[p[2]]), p[2] + 1>>
           Over(p) == p[1] > Len(s) \/ p[2] > Len(t)
           First(p) == Len(s) - p[1] <= Len(t) - p[2]
           Cut1(p) == CutOut(t, p[2], s[p[1]])
           Cut2(p) == CutOut(s, p[1], t[p[2]])
           Body(g, p) == IF Over(p) THEN << >>
                         ELSE IF First(p) THEN Cut1(p) \o g[Next1(p)] ELSE Cut2(p) \o g[Next2(p)]
           rank == [p \in S |-> (Len(s) + 1 - p[1]) + (Len(t) + 1 - p[2])]
           D == [q \in [S -> T] \X S |-> Body(q[1], q[2])]
           F == CHOOSE f : f = [p \in S |-> Body(f, p)]
<1>1. Intersection(s, t) = Pushed(F[<<1, 1>>])
  BY DEF Intersection
<1>2. Len(s) \in Nat /\ Len(t) \in Nat
  BY ProperEnds
<1>3. ASSUME NEW p \in S
      PROVE  p[1] \in 1 .. Len(s) + 1 /\ p[2] \in 1 .. Len(t) + 1 /\ rank[p] \in Nat
  BY <1>2, <1>3
<1>4. ASSUME NEW p \in S, ~Over(p)
      PROVE  /\ p[1] \in 1 .. Len(s) /\ p[2] \in 1 .. Len(t)
             /\ s[p[1]] \in Pair /\ NonEmpty(s[p[1]]) /\ t[p[2]] \in Pair /\ NonEmpty(t[p[2]])
             /\ Next1(p) \in S /\ rank[Next1(p)] < rank[p]
             /\ Next2(p) \in S /\ rank[Next2(p)] < rank[p]
  <2>1. p[1] \in 1 .. Len(s) /\ p[2] \in 1 .. Len(t)
    BY <1>2, <1>3, <1>4
  <2>2. s[p[1]] \in Pair /\ NonEmpty(s[p[1]]) /\ t[p[2]] \in Pair /\ NonEmpty(t[p[2]])
    BY <2>1, ProperEnds DEF NonEmpty, Start, Stop
  <2>3. NextFirst(t, p[2], s[p[1]]) \in p[2] .. Len(t) + 1
    BY <2>2, <1>3, NextFirstPasses
  <2>4. NextFirst(s, p[1], t[p[2]]) \in p[1] .. Len(s) + 1
    BY <2>2, <1>3, NextFirstPasses
  <2>5. Next1(p) \in S /\ Next2(p) \in S
    BY <1>2, <2>1, <2>3, <2>4
  <2>6. /\ rank[p] = (Len(s) + 1 - p[1]) + (Len(t) + 1 - p[2])
        /\ rank[Next1(p)] = (Len(s) + 1 - (p[1] + 1)) + (Len(t) + 1 - NextFirst(t, p[2], s[p[1]]))
        /\ rank[Next2(p)] = (Len(s) + 1 - NextFirst(s, p[1], t[p[2]])) + (Len(t) + 1 - (p[2] + 1))
    BY <2>5
  <2>7. rank[Next1(p)] < rank[p] /\ rank[Next2(p)] < rank[p]
    <3>1. p[1] \in Int /\ p[2] \in Int /\ Len(s) \in Int /\ Len(t) \in Int
      BY <2>1, <1>2
    <3>2. NextFirst(t, p[2], s[p[1]]) \in Int /\ p[2] <= NextFirst(t, p[2], s[p[1]])
      BY <2>1, <2>3, <1>2
    <3>3. NextFirst(s, p[1], t[p[2]]) \in Int /\ p[1] <= NextFirst(s, p[1], t[p[2]])
      BY <2>1, <2>4, <1>2
    <3> DEFINE a == NextFirst(t, p[2], s[p[1]])
               b == NextFirst(s, p[1], t[p[2]])
    <3>. HIDE DEF rank, Next1, Next2, a, b
    <3>4. a \in Int /\ p[2] <= a /\ b \in Int /\ p[1] <= b
      BY <3>2, <3>3 DEF a, b
    <3>5. /\ rank[Next1(p)] = (Len(s) + 1 - (p[1] + 1)) + (Len(t) + 1 - a)
          /\ rank[Next2(p)] = (Len(s) + 1 - b) + (Len(t) + 1 - (p[2] + 1))
          /\ rank[p] = (Len(s) + 1 - p[1]) + (Len(t) + 1 - p[2])
      BY <2>6 DEF a, b
    <3>6. \A x, y, l, m, c \in Int :
            /\ y <= c => (l + 1 - (x + 1)) + (m + 1 - c) < (l + 1 - x) + (m + 1 - y)
            /\ x <= c => (l + 1 - c) + (m + 1 - (y + 1)) < (l + 1 - x) + (m + 1 - y)
      OBVIOUS
    <3>7. /\ (Len(s) + 1 - (p[1] + 1)) + (Len(t) + 1 - a) < (Len(s) + 1 - p[1]) + (Len(t) + 1 - p[2])
          /\ (Len(s) + 1 - b) + (Len(t) + 1 - (p[2] + 1)) < (Len(s) + 1 - p[1]) + (Len(t) + 1 - p[2])
      BY <3>1, <3>4, <3>6
    <3>. QED BY <3>5, <3>7
  <2>. QED BY <2>1, <2>2, <2>5, <2>7
<1>5. ASSUME NEW p \in S, ~Over(p) PROVE Proper(Cut1(p)) /\ Proper(Cut2(p))
  BY <1>3, <1>4, <1>5, CutOutExact
<1>. HIDE DEF rank, Next1, Next2, Over, First, Cut1, Cut2
<1>6. \A g \in [S -> T], p \in S : Body(g, p) \in T /\ D[<<g, p>>] = Body(g, p)
  <2>1. TAKE g \in [S -> T], p \in S
  <2>. HIDE DEF S
  <2>2. ~Over(p) => /\ Cut1(p) \in Seq(Pair) /\ Cut2(p) \in Seq(Pair)
                    /\ g[Next1(p)] \in Seq(Pair) /\ g[Next2(p)] \in Seq(Pair)
    BY <1>4, <1>5 DEF Proper
  <2>3. ~Over(p) => Cut1(p) \o g[Next1(p)] \in Seq(Pair) /\ Cut2(p) \o g[Next2(p)] \in Seq(Pair)
    BY <2>2, ConcatProperties
  <2>4. Body(g, p) \in T
    BY <2>3
  <2>. QED BY <2>4
<1>7. LooksDown(S, T, rank, D)
  <2>. HIDE DEF S
  <2>1. rank \in [S -> Nat]
    BY <1>3 DEF rank
  <2>2. D \in [[S -> T] \X S -> T]
    BY <1>6
  <2>3. ASSUME NEW g \in [S -> T], NEW h \in [S -> T], NEW p \in S,
               \A q \in S : rank[q] < rank[p] => g[q] = h[q]
        PROVE  D[<<g, p>>] = D[<<h, p>>]
    <3>1. ~Over(p) => g[Next1(p)] = h[Next1(p)] /\ g[Next2(p)] = h[Next2(p)]
      BY <1>4, <2>3
    <3>2. Body(g, p) = Body(h, p)
      BY <3>1
    <3>. HIDE DEF D, Body, T
    <3>. QED BY <3>2, <1>6
  <2>. HIDE DEF D, Body, T
  <2>. QED BY <2>1, <2>2, <2>3 DEF LooksDown
<1>8. \A p \in S : F[p] = Body(F, p)
  <2>1. << >> \in T
    OBVIOUS
  <2>. HIDE DEF S, T, D, Body
  <2>2. PICK f \in [S -> T] : \A p \in S : f[p] = D[<<f, p>>]
    BY <2>1, <1>7, RecursiveExists
  <2>3. f = [p \in S |-> Body(f, p)]
    BY <2>2, <1>6
  <2>4. F = [p \in S |-> Body(F, p)]
    BY <2>3
  <2>. HIDE DEF F
  <2>. QED BY <2>4
<1>. HIDE DEF F, D
<1> DEFINE Exact(p) == /\ Proper(F[p])
                       /\ Covered(F[p]) = CoveredFrom(s, p[1]) \cap CoveredFrom(t, p[2])
           Wrong == {p \in S : ~Exact(p)}
<1>9. ASSUME NEW p \in S, \A q \in S : rank[q] < rank[p] => Exact(q)
      PROVE  Exact(p)
  <2>1. CASE Over(p)
    <3>1. F[p] = << >>
      BY <2>1, <1>8
    <3>2. CoveredFrom(s, p[1]) = {} \/ CoveredFrom(t, p[2]) = {}
      <4>1. (\A m : m \notin p[1] .. Len(s)) \/ (\A m : m \notin p[2] .. Len(t))
        BY <2>1, <1>2, <1>3 DEF Over
      <4>. QED BY <4>1 DEF CoveredFrom
    <3>3. Proper(<< >>) /\ Covered(<< >>) = {}
      BY DEF Proper, Sorted, Covered
    <3>. QED BY <3>1, <3>2, <3>3
  <2>2. CASE ~Over(p)
    <3>1. /\ p[1] \in 1 .. Len(s) /\ p[2] \in 1 .. Len(t)
          /\ Next1(p) \in S /\ rank[Next1(p)] < rank[p]
          /\ Next2(p) \in S /\ rank[Next2(p)] < rank[p]
      BY <2>2, <1>4
    <3>2. Exact(Next1(p)) /\ Exact(Next2(p))
      BY <3>1, <1>9
    <3>3. F[p] = IF First(p) THEN Cut1(p) \o F[Next1(p)] ELSE Cut2(p) \o F[Next2(p)]
      BY <2>2, <1>8
    <3>4. p[1] \in 1 .. Len(s) + 1 /\ p[2] \in 1 .. Len(t) + 1
      BY <1>3
    <3>. HIDE DEF S
    <3>5. CASE First(p)
      <4>1. Proper(F[Next1(p)])
        BY <3>2
      <4>2. Covered(F[Next1(p)]) = CoveredFrom(s, p[1] + 1) \cap CoveredFrom(t, NextFirst(t, p[2], s[p[1]]))
        BY <3>2 DEF Next1
      <4>3. /\ Proper(Cut1(p) \o F[Next1(p)])
            /\ Covered(Cut1(p) \o F[Next1(p)]) = CoveredFrom(s, p[1]) \cap CoveredFrom(t, p[2])
        <5> DEFINE n == p[1]
                   m == p[2]
                   r == F[Next1(p)]
        <5>. HIDE DEF n, m, r
        <5>1. n \in 1 .. Len(s) /\ m \in 1 .. Len(t) + 1 /\ Proper(r)
          BY <4>1, <3>1, <3>4 DEF n, m, r
        <5>2. Covered(r) = CoveredFrom(s, n + 1) \cap CoveredFrom(t, NextFirst(t, m, s[n]))
          BY <4>2 DEF n, m, r
        <5>3. /\ Proper(CutOut(t, m, s[n]) \o r)
              /\ Covered(CutOut(t, m, s[n]) \o r) = CoveredFrom(s, n) \cap CoveredFrom(t, m)
          BY <5>1, <5>2, RoundExact
        <5>. QED BY <5>3 DEF Cut1, n, m, r
      <4>. QED BY <4>3, <3>3, <3>5
    <3>6. CASE ~First(p)
      <4>1. Proper(F[Next2(p)])
        BY <3>2
      <4>2. Covered(F[Next2(p)]) = CoveredFrom(t, p[2] + 1) \cap CoveredFrom(s, NextFirst(s, p[1], t[p[2]]))
        BY <3>2 DEF Next2
      <4>3. /\ Proper(Cut2(p) \o F[Next2(p)])
            /\ Covered(Cut2(p) \o F[Next2(p)]) = CoveredFrom(t, p[2]) \cap CoveredFrom(s, p[1])
        <5> DEFINE n == p[2]
                   m == p[1]
                   r == F[Next2(p)]
        <5>. HIDE DEF n, m, r
        <5>1. n \in 1 .. Len(t) /\ m \in 1 .. Len(s) + 1 /\ Proper(r)
          BY <4>1, <3>1, <3>4 DEF n, m, r
        <5>2. Covered(r) = CoveredFrom(t, n + 1) \cap CoveredFrom(s, NextFirst(s, m, t[n]))
          BY <4>2 DEF n, m, r
        <5>3. /\ Proper(CutOut(s, m, t[n]) \o r)
              /\ Covered(CutOut(s, m, t[n]) \o r) = CoveredFrom(t, n) \cap CoveredFrom(s, m)
          BY <5>1, <5>2, RoundExact
        <5>. QED BY <5>3 DEF Cut2, n, m, r
      <4>. QED BY <4>3, <3>3, <3>6
    <3>. QED BY <3>5, <3>6
  <2>. QED BY <2>1, <2>2
<1>. HIDE DEF Exact, S
<1>10. Wrong = {}
  <2>1. SUFFICES ASSUME Wrong # {} PROVE FALSE
    OBVIOUS
  <2> DEFINE Ranks == {rank[p] : p \in Wrong}
  <2>2. Ranks \subseteq Nat /\ Ranks # {}
    BY <1>3, <2>1
  <2>3. PICK r \in Ranks : \A k \in Ranks : r <= k
    <3>. HIDE DEF Ranks
    <3>. QED BY <2>2, LeastElement
  <2>4. PICK p \in Wrong : rank[p] = r
    BY <2>3
  <2>5. ASSUME NEW q \in S, rank[q] < rank[p], ~Exact(q) PROVE FALSE
    <3>1. q \in Wrong /\ rank[q] \in Ranks
      BY <2>5
    <3>2. r <= rank[q] /\ r \in Nat /\ rank[q] \in Nat
      BY <3>1, <2>2, <2>3
    <3>. QED BY <3>2, <2>4, <2>5
  <2>. QED BY <2>4, <2>5, <1>9
<1>11. Proper(F[<<1, 1>>]) /\ Covered(F[<<1, 1>>]) = Covered(s) \cap Covered(t)
  <2>1. <<1, 1>> \in S
    BY <1>2 DEF S
  <2>2. Exact(<<1, 1>>)
    BY <2>1, <1>10
  <2>3. CoveredFrom(s, 1) = Covered(s) /\ CoveredFrom(t, 1) = Covered(t)
    BY DEF CoveredFrom, Covered
  <2>. QED BY <2>2, <2>3 DEF Exact
<1>12. F[<<1, 1>>] \in Seq(Pair) /\ Ordered(F[<<1, 1>>])
  BY <1>11 DEF Proper, Ordered, Sorted
<1>. QED BY <1>1, <1>11, <1>12, PushedCovers

LEMMA OthersProper == \A other \in Others : Proper(other)
BY OthersAssumption DEF Proper, Pair

\* What get_complement and get_intersection return.
LEMMA ComplementCovers ==
  ASSUME Proper(data), NEW k \in Key, GetComplement(k)
  PROVE  /\ aux' \in Seq(Pair) /\ Sorted(aux')
         /\ Covered(aux') = Points(k) \ Covered(data)
BY GapsExact DEF GetComplement

LEMMA IntersectionCovers ==
  ASSUME Proper(data), NEW other \in Others, GetIntersection(other)
  PROVE  /\ aux' \in Seq(Pair) /\ Sorted(aux')
         /\ Covered(aux') = Covered(data) \cap Covered(other)
BY OthersProper, IntersectionExact DEF GetIntersection, Proper

\* Every call returns intervals in order, or none.
LEMMA NewObjects ==
  ASSUME Proper(data), Next
  PROVE  aux' \in Seq(Pair) /\ Sorted(aux')
<1>1. << >> \in Seq(Pair) /\ Sorted(<< >>)
  BY DEF Sorted
<1>2. CASE \/ \E item \in Coord \X Coord, merge, abut \in BOOLEAN : Emplace(item, merge, abut)
           \/ \E k \in Key : Remove(k)
           \/ \E k \in Key : RemoveOverlaps(k)
           \/ \E k \in Key : Subtract(k)
           \/ Clear
           \/ \E k \in Key : GetComplementOutOfRange(k)
  BY <1>1, <1>2 DEF Emplace, Remove, RemoveOverlaps, Subtract, Clear, GetComplementOutOfRange
<1>3. CASE GetCopy
  BY <1>3 DEF GetCopy, Proper
<1>4. CASE \E k \in Key : GetComplement(k)
  BY <1>4, ComplementCovers
<1>5. CASE \E other \in Others : GetIntersection(other)
  BY <1>5, IntersectionCovers
<1>6. CASE \E scale \in Scales, shift \in Shifts : GetTransform(scale, shift)
  BY <1>6, TransformSorted
<1>. QED BY <1>2, <1>3, <1>4, <1>5, <1>6 DEF Next

\* In every reachable state the vector holds intervals that are not empty, and what was
\* returned is a vector or a flag or one of the two exceptions: emplace refuses empty
\* intervals and subtract leaves none.
THEOREM AlwaysTypeOK == Spec => []TypeOK
<1> DEFINE Typed == IInv /\ aux \in Seq(Pair) /\ ret \in Result
<1>1. Init => Typed
  BY ProperInit DEF Init, Result
<1>2. Typed /\ [Next]_vars => Typed'
  <2>1. SUFFICES ASSUME Typed, [Next]_vars PROVE Typed'
    OBVIOUS
  <2>2. IInv' /\ Proper(data)
    BY <2>1, ProperStep DEF IInv
  <2>3. CASE UNCHANGED vars
    BY <2>1, <2>2, <2>3 DEF vars
  <2>4. CASE Next
    <3>1. aux' \in Seq(Pair)
      BY <2>2, <2>4, NewObjects
    <3>2. ret' \in Result
      BY <2>1, <2>4 DEF Next, Result, Bool, Emplace, EmplaceInvalid, EmplaceNew, EmplaceMerge,
                        Remove, RemoveOverlaps, Subtract, Clear, GetCopy, GetComplement,
                        GetComplementOutOfRange, GetIntersection, GetTransform
    <3>. QED BY <2>2, <3>1, <3>2
  <2>. QED BY <2>1, <2>3, <2>4
<1>3. Typed => TypeOK
  BY DEF TypeOK, IInv, Proper, Pair
<1>. QED BY <1>1, <1>2, <1>3, PTL DEF Spec

\* subtract leaves no coordinate of the key and adds none, get_complement returns what the key
\* has and the set has not, get_intersection what both have, and whatever is returned is in
\* order, for any coordinates, any number of intervals and any other containers: the walk of
\* get_intersection over two vectors, of which each round takes the shorter rest, passes
\* over nothing.
THEOREM AlwaysCoversExact == Spec => CoverExact
<1> DEFINE Covers ==
      /\ Sorted(aux')
      /\ \A k \in Key : Subtract(k) => Covered(data') \subseteq Covered(data) \ Points(k)
      /\ \A k \in Key : GetComplement(k) => Covered(aux') = Points(k) \ Covered(data)
      /\ \A other \in Others :
           GetIntersection(other) => Covered(aux') = Covered(data) \cap Covered(other)
<1>1. IInv /\ [Next]_vars => [Covers]_vars
  <2>1. SUFFICES ASSUME Proper(data), Next PROVE Covers
    BY DEF IInv
  <2>2. Sorted(aux')
    BY <2>1, NewObjects
  <2>3. \A k \in Key : Subtract(k) => Covered(data') \subseteq Covered(data) \ Points(k)
    BY <2>1, SubtractCovers
  <2>4. \A k \in Key : GetComplement(k) => Covered(aux') = Points(k) \ Covered(data)
    BY <2>1, ComplementCovers
  <2>5. \A other \in Others :
          GetIntersection(other) => Covered(aux') = Covered(data) \cap Covered(other)
    BY <2>1, IntersectionCovers
  <2>. QED BY <2>2, <2>3, <2>4, <2>5
<1>. HIDE DEF Covers
<1>2. Spec => [][Covers]_vars
  BY <1>1, ProperInit, ProperStep, PTL DEF Spec
<1>. QED BY <1>2 DEF CoverExact, Covers
=============================================================================
