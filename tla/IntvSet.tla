------------------------------ MODULE IntvSet ------------------------------
(***************************************************************************)
(* What cbag::util::disjoint_intvs promises its users: a set of disjoint   *)
(* half-open intervals of layout coordinates, without the vector that      *)
(* stores it, its order or the binary searches on it.  An interval is a    *)
(* pair <<start, stop>>.                                                   *)
(***************************************************************************)
EXTENDS Integers

CONSTANTS
  MinCoord,  \* the smallest coordinate an interval or a key may have
  MaxCoord   \* the largest one

VARIABLES
  ivs,       \* the set of intervals
  ret        \* the result of the last call that returned no object

absVars == <<ivs, ret>>

Coord == MinCoord .. MaxCoord

Bool(b) == IF b THEN "true" ELSE "false"

\* Keys of queries: start <= stop, so the empty key is included.
Key == {k \in Coord \X Coord : k[1] <= k[2]}

\* intv_comp calls two intervals equivalent when neither ends before the other.
Meets(i, k) == i[2] > k[1] /\ k[2] > i[1]

MinOf(S) == CHOOSE x \in S : \A y \in S : x <= y
MaxOf(S) == CHOOSE x \in S : \A y \in S : x >= y

(***************************************************************************)
(* The one interval that stands for `item` and every interval of M.        *)
(***************************************************************************)
Hull(item, M) ==
  <<MinOf({item[1]} \cup {i[1] : i \in M}), MaxOf({item[2]} \cup {i[2] : i \in M})>>

(***************************************************************************)
(* What subtract(k) keeps of an interval that meets k: the part before k   *)
(* when there is one, otherwise the part after k.  An interval with parts  *)
(* on both sides of k keeps the first only.                                *)
(***************************************************************************)
Remainder(i, k) ==
  IF i[1] < k[1] THEN {<<i[1], k[1]>>}
  ELSE IF k[2] < i[2] THEN {<<k[2], i[2]>>} ELSE {}

AbsEmplace(item, merge, abut) ==
  LET key == IF merge /\ abut THEN <<item[1] - 1, item[2] + 1>> ELSE item
      met == {i \in ivs : Meets(i, key)}
  IN  \/ /\ item[1] >= item[2]
         /\ ret' = "invalid_argument"
         /\ UNCHANGED ivs
      \/ /\ item[1] < item[2]
         /\ met = {} \/ merge
         /\ ivs' = (ivs \ met) \cup {Hull(item, met)}
         /\ ret' = "true"
      \/ /\ item[1] < item[2]
         /\ met # {} /\ ~merge
         /\ ret' = "false"
         /\ UNCHANGED ivs

AbsRemove(k) ==
  /\ ret' = Bool(k \in ivs)
  /\ ivs' = ivs \ {k}

AbsRemoveOverlaps(k) ==
  /\ ret' = Bool(\E i \in ivs : Meets(i, k))
  /\ ivs' = {i \in ivs : ~Meets(i, k)}

AbsSubtract(k) ==
  /\ ret' = Bool(\E i \in ivs : Meets(i, k))
  /\ ivs' = {i \in ivs : ~Meets(i, k)}
              \cup UNION {Remainder(i, k) : i \in {j \in ivs : Meets(j, k)}}

AbsClear ==
  /\ ivs' = {}
  /\ UNCHANGED ret

\* get_complement(k) refuses a key that does not cover the set.
AbsOutOfRange(k) ==
  /\ \E i \in ivs : i[1] < k[1] \/ k[2] < i[2]
  /\ ret' = "out_of_range"
  /\ UNCHANGED ivs

AbsInit == ivs = {} /\ ret = "true"

AbsNext ==
  \/ \E item \in Coord \X Coord, merge, abut \in BOOLEAN : AbsEmplace(item, merge, abut)
  \/ \E k \in Key : AbsRemove(k) \/ AbsRemoveOverlaps(k) \/ AbsSubtract(k)
                  \/ AbsOutOfRange(k)
  \/ AbsClear

AbsSpec == AbsInit /\ [][AbsNext]_absVars
=============================================================================
