--------------------------- MODULE DisjointIntvs ---------------------------
(***************************************************************************)
(* cbag::util::disjoint_intvs: disjoint half-open intervals kept in a      *)
(* sorted_vector ordered by intv_comp.  Every query is a binary search     *)
(* that is meaningful only while the vector is sorted and its intervals    *)
(* are disjoint, and no mutator but emplace_unique and push_back checks    *)
(* that: subtract and emplace write through iterators.                     *)
(*                                                                         *)
(* `aux` is the object the last call returned, for the calls that make a   *)
(* new one (get_copy, get_complement, get_intersection, get_transform).    *)
(***************************************************************************)
EXTENDS Integers, Sequences, FiniteSets

CONSTANTS
  MinCoord, MaxCoord,  \* the coordinates of items and keys
  Scales, Shifts,      \* the arguments of get_transform
  Others               \* the vectors of the other objects that get_intersection is given

ASSUME CoordAssumption ==
  /\ MinCoord \in Int /\ MaxCoord \in Int /\ MinCoord < MaxCoord
  /\ Scales \subseteq Int /\ Shifts \subseteq Int

VARIABLES
  data,  \* the vector of the object under study
  aux,   \* the vector of the object the last call returned, << >> if it returned none
  ret    \* the result of the last call that returned no object

vars == <<data, aux, ret>>

Coord == MinCoord .. MaxCoord
Start(i) == i[1]
Stop(i) == i[2]
NonEmpty(i) == Start(i) < Stop(i)
Interval == {i \in Coord \X Coord : NonEmpty(i)}
Key == {k \in Coord \X Coord : k[1] <= k[2]}

Result == {"true", "false", "invalid_argument", "out_of_range"}
Bool(b) == IF b THEN "true" ELSE "false"

\* intv_comp: `lhs` ends before `rhs` starts.
Comp(lhs, rhs) == Stop(lhs) <= Start(rhs)
Sorted(s) == \A i, j \in 1 .. Len(s) : i < j => Comp(s[i], s[j])

\* The other objects are containers too.
ASSUME OthersAssumption ==
  \A other \in Others :
    /\ other \in Seq(Int \X Int) /\ \A i \in 1 .. Len(other) : NonEmpty(other[i])
    /\ Sorted(other)

(***************************************************************************)
(* std::lower_bound and std::equal_range on the vector s: lo elements come *)
(* before the key, and the elements lo+1..hi are equivalent to it.         *)
(***************************************************************************)
IsLowerBound(s, k, lo) ==
  /\ \A i \in 1 .. lo : Comp(s[i], k)
  /\ \A i \in lo + 1 .. Len(s) : ~Comp(s[i], k)

IsUpperBound(s, k, hi) ==
  /\ \A i \in 1 .. hi : ~Comp(k, s[i])
  /\ \A i \in hi + 1 .. Len(s) : Comp(k, s[i])

EqualRange(s, k, lo, hi) == IsLowerBound(s, k, lo) /\ IsUpperBound(s, k, hi)

\* The vector s with its elements lo+1..hi replaced by those of r: an insert,
\* an erase or an overwrite through iterators.
Splice(s, lo, hi, r) == SubSeq(s, 1, lo) \o r \o SubSeq(s, hi + 1, Len(s))

MinOf2(a, b) == IF a <= b THEN a ELSE b
MaxOf2(a, b) == IF a >= b THEN a ELSE b

-----------------------------------------------------------------------------
(***************************************************************************)
(* Mutators.                                                               *)
(***************************************************************************)

EmplaceInvalid(item) ==
  /\ ~NonEmpty(item)
  /\ ret' = "invalid_argument"
  /\ UNCHANGED data

\* Nothing overlaps or abuts: emplace_unique searches again, with the item.
EmplaceNew(item) ==
  /\ \E p \in 0 .. Len(data) :
       /\ IsLowerBound(data, item, p)
       /\ data' = Splice(data, p, p, <<item>>)
  /\ ret' = "true"

\* Slips the properties must catch: the erase forgotten, or the hull's stop.
EmplaceMerge_NoErase(item, lo, hi) ==
  /\ data' = Splice(data, lo, lo + 1,
                    << <<MinOf2(Start(item), Start(data[lo + 1])),
                         MaxOf2(Stop(item), Stop(data[hi]))>> >>)
  /\ ret' = "true"

EmplaceMerge_ItemStop(item, lo, hi) ==
  /\ data' = Splice(data, lo, hi, << <<MinOf2(Start(item), Start(data[lo + 1])), Stop(item)>> >>)
  /\ ret' = "true"

\* The first interval met becomes the hull, the others are erased.
EmplaceMerge(item, lo, hi) ==
  /\ data' = Splice(data, lo, hi,
                    << <<MinOf2(Start(item), Start(data[lo + 1])),
                         MaxOf2(Stop(item), Stop(data[hi]))>> >>)
  /\ ret' = "true"

Emplace(item, merge, abut) ==
  /\ \/ EmplaceInvalid(item)
     \/ /\ NonEmpty(item)
        /\ LET key == IF abut /\ merge THEN <<Start(item) - 1, Stop(item) + 1>> ELSE item
           IN  \E lo \in 0 .. Len(data) : \E hi \in lo .. Len(data) :
                 /\ EqualRange(data, key, lo, hi)
                 /\ \/ lo = hi /\ EmplaceNew(item)
                    \/ lo < hi /\ merge /\ EmplaceMerge(item, lo, hi)
                    \/ lo < hi /\ ~merge /\ ret' = "false" /\ UNCHANGED data
  /\ aux' = << >>

\* find_exact: the lower bound, if it equals the key.
FoundAfter(s, k, lo) == lo < Len(s) /\ IsLowerBound(s, k, lo) /\ s[lo + 1] = k

Remove(k) ==
  /\ \/ \E lo \in 0 .. Len(data) :
          /\ FoundAfter(data, k, lo)
          /\ data' = Splice(data, lo, lo + 1, << >>)
          /\ ret' = "true"
     \/ /\ ~\E lo \in 0 .. Len(data) : FoundAfter(data, k, lo)
        /\ ret' = "false"
        /\ UNCHANGED data
  /\ aux' = << >>

RemoveOverlaps(k) ==
  /\ \E lo \in 0 .. Len(data) : \E hi \in lo .. Len(data) :
       /\ EqualRange(data, k, lo, hi)
       /\ data' = Splice(data, lo, hi, << >>)
       /\ ret' = Bool(lo < hi)
  /\ aux' = << >>

\* Slips: `<` read as `<=`, and the last interval not cut.
SubtractRange_Empty(k, lo, hi) ==
  /\ Start(data[lo + 1]) <= Start(k)
  /\ data' = Splice(data, lo, hi, << <<Start(data[lo + 1]), Start(k)>> >>)

SubtractRange_KeepLast(k, lo, hi) ==
  data' = Splice(data, lo, hi - 1,
                 IF Start(data[lo + 1]) < Start(k) /\ hi - lo > 1
                 THEN << <<Start(data[lo + 1]), Start(k)>> >> ELSE << >>)

(***************************************************************************)
(* subtract cuts the first interval met when it starts before the key, and *)
(* returns at once when it was the only one; otherwise it cuts the last    *)
(* one when it ends after the key, and erases what is left between.        *)
(***************************************************************************)
SubtractRange(k, lo, hi) ==
  LET first == <<Start(data[lo + 1]), Start(k)>>
      last  == <<Stop(k), Stop(data[hi])>>
      cutFirst == Start(data[lo + 1]) < Start(k)
      cutLast  == Stop(k) < Stop(data[hi])
  IN  \/ /\ cutFirst /\ (hi - lo = 1 \/ ~cutLast)
         /\ data' = Splice(data, lo, hi, <<first>>)
      \/ /\ cutFirst /\ hi - lo > 1 /\ cutLast
         /\ data' = Splice(data, lo, hi, <<first, last>>)
      \/ /\ ~cutFirst /\ cutLast
         /\ data' = Splice(data, lo, hi, <<last>>)
      \/ /\ ~cutFirst /\ ~cutLast
         /\ data' = Splice(data, lo, hi, << >>)

Subtract(k) ==
  /\ \E lo \in 0 .. Len(data) : \E hi \in lo .. Len(data) :
       /\ EqualRange(data, k, lo, hi)
       /\ ret' = Bool(lo < hi)
       /\ \/ lo < hi /\ SubtractRange(k, lo, hi)
          \/ lo = hi /\ UNCHANGED data
  /\ aux' = << >>

Clear ==
  /\ data' = << >>
  /\ aux' = << >>
  /\ UNCHANGED ret

-----------------------------------------------------------------------------
(***************************************************************************)
(* Calls that return a new object and leave this one alone.                *)
(***************************************************************************)

GetCopy ==
  /\ aux' = data
  /\ UNCHANGED <<data, ret>>

\* The gap before the element n+1: between the element n, or the lower end of
\* the key, and the element n+1, or the upper end of the key.
Gap(s, k, n) ==
  <<IF n = 0 THEN Start(k) ELSE Stop(s[n]),
    IF n = Len(s) THEN Stop(k) ELSE Start(s[n + 1])>>

\* The intervals of s that are not empty, pushed back one after the other.
Pushed(s) ==
  LET upto[n \in 0 .. Len(s)] ==
        IF n = 0 THEN << >>
        ELSE IF NonEmpty(s[n]) THEN Append(upto[n - 1], s[n]) ELSE upto[n - 1]
  IN  upto[Len(s)]

\* A slip: the gap after the last interval forgotten.
Complement_NoTail(s, k) ==
  IF s = << >> THEN <<k>>
  ELSE Pushed([n \in 1 .. Len(s) |-> Gap(s, k, n - 1)])

\* The gaps of s in the key, in order; an empty set has the whole key as its
\* gap, empty or not.
Complement(s, k) ==
  IF s = << >> THEN <<k>>
  ELSE Pushed([n \in 1 .. Len(s) + 1 |-> Gap(s, k, n - 1)])

\* The set has a part outside the key.
Exceeds(s, k) == s # << >> /\ (Start(s[1]) < Start(k) \/ Stop(k) < Stop(s[Len(s)]))

GetComplement(k) ==
  /\ ~Exceeds(data, k)
  /\ aux' = Complement(data, k)
  /\ UNCHANGED <<data, ret>>

\* std::out_of_range.
GetComplementOutOfRange(k) ==
  /\ Exceeds(data, k)
  /\ ret' = "out_of_range"
  /\ aux' = << >>
  /\ UNCHANGED data

(***************************************************************************)
(* get_intersection takes the next interval of the vector that has fewer   *)
(* left, and cuts what it meets of the other one out of it.  The last      *)
(* interval met stays, as the next interval may meet it too.               *)
(***************************************************************************)
Common(i, k) == <<MaxOf2(Start(i), Start(k)), MinOf2(Stop(i), Stop(k))>>

\* The elements of s from n on that k meets: Before of them end before k starts.
Before(s, n, k) == Cardinality({m \in n .. Len(s) : Comp(s[m], k)})
Met(s, n, k) == Cardinality({m \in n .. Len(s) : ~Comp(s[m], k) /\ ~Comp(k, s[m])})
CutOut(s, n, k) ==
  [m \in 1 .. Met(s, n, k) |-> Common(k, s[n + Before(s, n, k) + m - 1])]

\* A slip: the last interval met passed over.
NextFirst_Past(s, n, k) == n + Before(s, n, k) + Met(s, n, k)

NextFirst(s, n, k) ==
  n + Before(s, n, k) + IF Met(s, n, k) > 0 THEN Met(s, n, k) - 1 ELSE 0

\* p: the intervals of s and of t that are looked at next.
Intersection(s, t) ==
  LET from[p \in (1 .. Len(s) + 1) \X (1 .. Len(t) + 1)] ==
        LET n == p[1]
            m == p[2]
        IN  IF n > Len(s) \/ m > Len(t) THEN << >>
            ELSE IF Len(s) - n <= Len(t) - m
                 THEN CutOut(t, m, s[n]) \o from[<<n + 1, NextFirst(t, m, s[n])>>]
                 ELSE CutOut(s, n, t[m]) \o from[<<NextFirst(s, n, t[m]), m + 1>>]
  IN  Pushed(from[<<1, 1>>])

GetIntersection(other) ==
  /\ aux' = Intersection(data, other)
  /\ UNCHANGED <<data, ret>>

\* transform: the ends change places under a negative scale.
Transform(i, scale, shift) ==
  IF scale >= 0 THEN <<scale * Start(i) + shift, scale * Stop(i) + shift>>
  ELSE <<scale * Stop(i) + shift, scale * Start(i) + shift>>

\* A slip: the vector walked forwards under any scale.
GetTransform_Forwards(scale, shift) ==
  /\ aux' = IF scale = 0 THEN << >>
            ELSE [n \in 1 .. Len(data) |-> Transform(data[n], scale, shift)]
  /\ UNCHANGED <<data, ret>>

\* get_transform walks the vector backwards under a negative scale.
GetTransform(scale, shift) ==
  /\ aux' = IF scale = 0 THEN << >>
            ELSE [n \in 1 .. Len(data) |->
                    Transform(data[IF scale > 0 THEN n ELSE Len(data) + 1 - n], scale, shift)]
  /\ UNCHANGED <<data, ret>>

-----------------------------------------------------------------------------
Init == data = << >> /\ aux = << >> /\ ret = "true"

Next ==
  \/ \E item \in Coord \X Coord, merge, abut \in BOOLEAN : Emplace(item, merge, abut)
  \/ \E k \in Key : Remove(k)
  \/ \E k \in Key : RemoveOverlaps(k)
  \/ \E k \in Key : Subtract(k)
  \/ Clear
  \/ GetCopy
  \/ \E k \in Key : GetComplement(k)
  \/ \E k \in Key : GetComplementOutOfRange(k)
  \/ \E other \in Others : GetIntersection(other)
  \/ \E scale \in Scales, shift \in Shifts : GetTransform(scale, shift)

Spec == Init /\ [][Next]_vars

-----------------------------------------------------------------------------
(***************************************************************************)
(* Properties.                                                             *)
(***************************************************************************)

\* The shape of the variables; an interval in the vector is never empty, which
\* emplace checks and subtract must preserve.
TypeOK ==
  /\ data \in Seq(Int \X Int) /\ \A i \in 1 .. Len(data) : NonEmpty(data[i])
  /\ aux \in Seq(Int \X Int)
  /\ ret \in Result

\* The vector is sorted and its intervals are disjoint, although subtract and
\* emplace write through iterators that sorted_vector does not check.
SortedDisjoint == Sorted(data)

\* The vector implements the set of intervals: every call has the effect and the
\* result it would have by looking at every interval instead of a binary search.
Abs == INSTANCE IntvSet WITH ivs <- {data[n] : n \in 1 .. Len(data)}
ImplementsIntvSet == Abs!AbsSpec

\* The coordinates that an interval, or a vector of intervals, covers.
Points(i) == Start(i) .. Stop(i) - 1
Covered(s) == UNION {Points(s[n]) : n \in 1 .. Len(s)}

\* subtract leaves nothing of the key and adds nothing.  The containers built by
\* push_back are sorted, so push_back never throws, and cover what they should:
\* get_complement what the key has and the set has not, and get_intersection, which
\* changes the one it walks as it goes, what both have.
CoverExact ==
  [][/\ Sorted(aux')
     /\ \A k \in Key : Subtract(k) => Covered(data') \subseteq Covered(data) \ Points(k)
     /\ \A k \in Key : GetComplement(k) => Covered(aux') = Points(k) \ Covered(data)
     /\ \A other \in Others :
          GetIntersection(other) => Covered(aux') = Covered(data) \cap Covered(other)]_vars

\* What the name and the comments of subtract say: it removes the coordinates of
\* the key and nothing else.  The code loses the part of an interval after a key
\* that lies inside it.
SubtractExact ==
  [][\A k \in Key :
       Subtract(k) => Covered(data') = Covered(data) \ Points(k)]_vars
=============================================================================
