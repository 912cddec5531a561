----------------------------- MODULE Transforms -----------------------------
(***************************************************************************)
(* cbag::transformation and the functions on it: an orientation, which     *)
(* mirrors and turns about the origin, followed by a move.                 *)
(***************************************************************************)
EXTENDS Integers

Point == Int \X Int
Origin == <<0, 0>>
Plus(p, q) == <<p[1] + q[1], p[2] + q[2]>>
Minus(p, q) == <<p[1] - q[1], p[2] - q[2]>>

Orientation == {"R0", "R90", "R180", "R270", "MX", "MY", "MXR90", "MYR90"}
Xform == [orient : Orientation, loc : Point]

\* Whether an orientation exchanges the axes (the bit 0b100 of its code), and the
\* sign of each coordinate of the result.
FlipsXY(o) == o \in {"R90", "R270", "MXR90", "MYR90"}
Sign(o) ==
  CASE o = "R0" -> <<1, 1>>      [] o = "R180" -> <<-1, -1>>
    [] o = "MX" -> <<1, -1>>     [] o = "MY" -> <<-1, 1>>
    [] o = "MXR90" -> <<1, 1>>   [] o = "MYR90" -> <<-1, -1>>
    [] o = "R90" -> <<-1, 1>>    [] o = "R270" -> <<1, -1>>

Turn(o, p) ==
  IF FlipsXY(o) THEN <<Sign(o)[1] * p[2], Sign(o)[2] * p[1]>>
  ELSE <<Sign(o)[1] * p[1], Sign(o)[2] * p[2]>>

MakeXform(p, o) == [orient |-> o, loc |-> p]
MoveBy(x, d) == [x EXCEPT !.loc = Plus(@, d)]
Apply(x, p) == Plus(Turn(x.orient, p), x.loc)

\* The orientation q that turns every point like o and then r.
Then(o, r) == CHOOSE q \in Orientation : \A p \in {<<1, 0>>, <<0, 1>>} : Turn(q, p) = Turn(r, Turn(o, p))
Opposite(o) == CHOOSE q \in Orientation : Then(o, q) = "R0"

\* transform_by: x, then y.
TransformBy(x, y) == [orient |-> Then(x.orient, y.orient), loc |-> Apply(y, x.loc)]

InverseOf(x) ==
  LET o == Opposite(x.orient) IN [orient |-> o, loc |-> Turn(o, Minus(Origin, x.loc))]

-----------------------------------------------------------------------------
(***************************************************************************)
(* Arrays.  BAG counts columns and rows after the instance is turned, GDS  *)
(* before.  Both conversions move the pitch like a point.                  *)
(***************************************************************************)

Swapped(o, n) == IF FlipsXY(o) THEN <<n[2], n[1]>> ELSE n

ConvertArray(x, n, sp) == [n |-> Swapped(x.orient, n), sp |-> Apply(InverseOf(x), sp)]
ConvertGdsArray(x, n, sp) == [n |-> Swapped(x.orient, n), sp |-> Apply(x, sp)]
=============================================================================
