----------------------------- MODULE SortedMap -----------------------------
(***************************************************************************)
(* cbag::util::sorted_map: a map kept as a vector of [key, val] in order   *)
(* of the keys (sorted_vector).  Every call finds its place by binary      *)
(* search and moves the elements after it; replace_key moves one element   *)
(* by rotating the part of the vector that it passes.  A call is here the  *)
(* vector it leaves; MapOf is the dictionary that a vector stands for, and *)
(* Dict has what each call must do to it.  Keys are compared by their rank.*)
(***************************************************************************)
EXTENDS Integers, Sequences, FiniteSets, Dict

CONSTANTS MapKeys, MapVals   \* the keys, by rank, and the values that the properties try

ASSUME MapAssumption == MapKeys \subseteq Int

Elem(k, x) == [key |-> k, val |-> x]
KeySet(v) == {v[i].key : i \in 1 .. Len(v)}
InOrder(v) == \A i, j \in 1 .. Len(v) : i < j => v[i].key < v[j].key

\* The dictionary the vector stands for, when its keys are in order.
MapOf(v) == [k \in KeySet(v) |-> v[CHOOSE i \in 1 .. Len(v) : v[i].key = k].val]

-----------------------------------------------------------------------------
(***************************************************************************)
(* sorted_vector.  A position is the number of elements before it.         *)
(***************************************************************************)

IsLowerPos(v, k, p) ==
  /\ \A i \in 1 .. p : v[i].key < k
  /\ \A i \in p + 1 .. Len(v) : ~(v[i].key < k)

IsUpperPos(v, k, p) ==
  /\ \A i \in 1 .. p : ~(k < v[i].key)
  /\ \A i \in p + 1 .. Len(v) : k < v[i].key

LowerPos(v, k) == CHOOSE p \in 0 .. Len(v) : IsLowerPos(v, k, p)
UpperPos(v, k) == CHOOSE p \in 0 .. Len(v) : IsUpperPos(v, k, p)

InsertAfter(v, p, e) ==
  [i \in 1 .. Len(v) + 1 |-> IF i <= p THEN v[i] ELSE IF i = p + 1 THEN e ELSE v[i - 1]]

EraseRange(v, lo, hi) ==
  [i \in 1 .. Len(v) - (hi - lo) |-> IF i <= lo THEN v[i] ELSE v[i + (hi - lo)]]

\* circ_shift of the elements after `start` up to `stop`: the last one comes first, or
\* the first one last.
CircShift(v, start, stop, up) ==
  [i \in 1 .. Len(v) |->
     IF i <= start \/ i > stop THEN v[i]
     ELSE IF up THEN IF i = start + 1 THEN v[stop] ELSE v[i - 1]
          ELSE IF i = stop THEN v[start + 1] ELSE v[i + 1]]

-----------------------------------------------------------------------------
(***************************************************************************)
(* sorted_map.                                                             *)
(***************************************************************************)

\* find: the element at the lower bound, if its key is not greater.
HasAt(v, k, p) == p < Len(v) /\ ~(k < v[p + 1].key)
Contains(v, k) == HasAt(v, k, LowerPos(v, k))

\* emplace, insert: an element that is there stays.
EmplaceUnique(v, k, x) ==
  LET p == LowerPos(v, k) IN IF HasAt(v, k, p) THEN v ELSE InsertAfter(v, p, Elem(k, x))

AssignKey(v, k, x) ==
  LET p == LowerPos(v, k)
  IN  IF HasAt(v, k, p) THEN [v EXCEPT ![p + 1].val = x] ELSE InsertAfter(v, p, Elem(k, x))

EraseKey(v, k) == EraseRange(v, LowerPos(v, k), UpperPos(v, k))

\* emplace_back: refused when the key is before the last one.
CanPushBack(v, k) == v = << >> \/ ~(k < v[Len(v)].key)
PushBack(v, k, x) == Append(v, Elem(k, x))

\* A slip: the same direction for both.
Moved_Up(v, i, new_key) ==
  IF v[i].key < new_key
  THEN LET pos == LowerPos(v, new_key)
       IN  [CircShift(v, i - 1, pos, TRUE) EXCEPT ![pos].key = new_key]
  ELSE LET pos == UpperPos(v, new_key)
       IN  [CircShift(v, pos, i, TRUE) EXCEPT ![pos + 1].key = new_key]

\* Element i moved to where new_key belongs: down the vector or up.
Moved(v, i, new_key) ==
  IF v[i].key < new_key
  THEN LET pos == LowerPos(v, new_key)
       IN  [CircShift(v, i - 1, pos, FALSE) EXCEPT ![pos].key = new_key]
  ELSE LET pos == UpperPos(v, new_key)
       IN  [CircShift(v, pos, i, TRUE) EXCEPT ![pos + 1].key = new_key]

\* replace_key: refused without the old key or when another element has the new one.
CanReplace(v, old_key, new_key) ==
  Contains(v, old_key) /\ (old_key = new_key \/ ~Contains(v, new_key))

ReplaceKeyIn(v, old_key, new_key) ==
  IF ~CanReplace(v, old_key, new_key) \/ old_key = new_key THEN v
  ELSE Moved(v, LowerPos(v, old_key) + 1, new_key)

-----------------------------------------------------------------------------
(***************************************************************************)
(* Properties.                                                             *)
(***************************************************************************)

\* The dictionary after replace_key.
Replaced(f, old_key, new_key) ==
  IF Has(f, old_key) /\ (old_key = new_key \/ ~Has(f, new_key))
  THEN ReplaceKey(f, old_key, new_key) ELSE f

\* The vector w is in order and stands for f.
Holds(w, f) == InOrder(w) /\ MapOf(w) = f

\* What the calls with a key, another key and a value leave of v.
CallsExact(v, k, n, x) ==
  /\ Contains(v, k) = Has(MapOf(v), k)
  /\ Holds(EmplaceUnique(v, k, x), Emplace(MapOf(v), k, x))
  /\ Holds(AssignKey(v, k, x), InsertOrAssign(MapOf(v), k, x))
  /\ Holds(EraseKey(v, k), Erase(MapOf(v), k))
  /\ CanPushBack(v, k) /\ ~Contains(v, k) => Holds(PushBack(v, k, x), Emplace(MapOf(v), k, x))
  /\ Holds(ReplaceKeyIn(v, k, n), Replaced(MapOf(v), k, n))

Vectors ==
  {v \in UNION {[1 .. n -> [key : MapKeys, val : MapVals]] : n \in 0 .. Cardinality(MapKeys)} :
     InOrder(v)}

\* From every vector with the keys S in order, each call leaves a vector in order that
\* stands for the dictionary Dict says: nothing is lost, doubled or given another's value
\* when replace_key rotates a part of the vector, in either direction and over any distance.
CallsExactOn(S) ==
  \A v \in {u \in Vectors : KeySet(u) = S} :
    \A k, n \in MapKeys : \A x \in MapVals : CallsExact(v, k, n, x)
=============================================================================
