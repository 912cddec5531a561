--------------------------- MODULE MCLayoutIndex ---------------------------
(***************************************************************************)
(* LayoutIndex on three cells: a box with a wide margin on one side, two   *)
(* wires of which the second has no margins, a POLY45 shape, and a layer   *)
(* that is not indexed; turned and mirrored instances, one an array; and   *)
(* queries that meet a part of them, or touch them only.                   *)
(***************************************************************************)
EXTENDS LayoutIndex

Wire == [name |-> "wire", level |-> TRUE]
Other == [name |-> "other", level |-> FALSE]
Box(a, b, c, d) == <<<<a, b>>, <<c, d>>>>
Shape(lay, kind, box, sp) == [lay |-> lay, kind |-> kind, box |-> box, sp |-> sp]

MCShapeSeqs ==
  {<<Shape(Wire, 0, Box(0, 0, 4, 1), <<2, 0>>)>>,
   <<Shape(Wire, 0, Box(0, 2, 1, 3), <<0, 0>>), Shape(Wire, 0, Box(2, 2, 3, 3), None)>>,
   <<Shape(Other, 1, Box(1, 1, 2, 2), <<0, 0>>), Shape(Wire, 0, Box(6, 0, 7, 4), <<0, 1>>)>>}

Inst(master, o, at, n) == [master |-> master, xform |-> MakeXform(at, o), n |-> n, sp |-> <<7, 9>>]
MCInsts ==
  {Inst(1, "R90", <<3, -2>>, <<1, 1>>), Inst(1, "MX", <<0, 1>>, <<2, 2>>),
   Inst(2, "R90", <<3, -2>>, <<1, 1>>), Inst(2, "MYR90", <<-1, 0>>, <<1, 2>>),
   Inst(None, "R0", <<0, 0>>, <<1, 1>>)}

MCQueries ==
  {[box |-> Box(-1, -6, 2, 2), sp |-> <<1, 0>>], [box |-> Box(3, 7, 9, 12), sp |-> <<0, 3>>]}
=============================================================================
