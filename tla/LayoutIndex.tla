---------------------------- MODULE LayoutIndex ----------------------------
(***************************************************************************)
(* Layout cellviews and the spatial index of one routing level: what the   *)
(* calls on a cellview put into its geometries and into its index, and how *)
(* a geo_iterator walks the indices of a hierarchy.  The index of a master *)
(* is shared by all its instances, but the box an instance is filed under  *)
(* is the one the master had when the instance was added.                  *)
(*                                                                         *)
(* Every shape stands for its box; its kind only matters for the geometry  *)
(* mode.  Equal boxes in one geometry are not merged.  The order in which  *)
(* the R-tree returns its objects is that of their insertion.              *)
(***************************************************************************)
EXTENDS Transforms, Sequences, SequencesExt, FiniteSetsExt, Dict

CONSTANTS
  NCells,    \* cell n may only instantiate cells below n
  ShapeSeqs, \* what one call adds: sequences of [lay, kind, box, sp]
  Insts,     \* [master, xform, n, sp], the master None for one known by name only
  Queries,   \* [box, sp]
  MaxCalls,  \* bound on the calls that change the cells
  None

\* The kinds of shapes and the geometry modes: 0 for boxes and POLY90, 1 for POLY45,
\* 2 for POLY.  A geometry takes the shapes of its mode and those below.
Modes == 0 .. 2

Cells == 1 .. NCells

\* A layer without a level is not indexed; a shape whose margins the technology does
\* not define has sp = None.
ASSUME IndexAssumption ==
  /\ NCells \in Nat /\ MaxCalls \in Nat
  /\ \A shapes \in ShapeSeqs : \A i \in DOMAIN shapes :
       shapes[i].kind \in Modes /\ (shapes[i].sp = None \/ shapes[i].sp \in Nat \X Nat)
  /\ \A inst \in Insts : inst.master \in Cells \cup {None} /\ inst.xform \in Xform

VARIABLES
  cells,     \* mode, geo, insts, others (whether there are others), and the index
  calls,     \* the number of calls so far
  query,     \* the query and the cell it is made in, or None
  iters,     \* the iterators of the query, the inner ones last
  found,     \* what the query returned
  late       \* the cells that were changed after they were instantiated

vars == <<cells, calls, query, iters, found, late>>

-----------------------------------------------------------------------------
(***************************************************************************)
(* Boxes are pairs of corners.                                             *)
(***************************************************************************)

Lower(p, q) == <<Min({p[1], q[1]}), Min({p[2], q[2]})>>
Upper(p, q) == <<Max({p[1], q[1]}), Max({p[2], q[2]})>>
BoxBy(b, x) ==
  LET p == Apply(x, b[1])  q == Apply(x, b[2]) IN <<Lower(p, q), Upper(p, q)>>
Expand(b, sp) == <<Minus(b[1], sp), Plus(b[2], sp)>>
Hull(boxes) ==
  <<<<Min({b[1][1] : b \in boxes}), Min({b[1][2] : b \in boxes})>>,
    <<Max({b[2][1] : b \in boxes}), Max({b[2][2] : b \in boxes})>>>>

\* With the border, as the R-tree compares; without it, as the shapes are intersected.
Meets(a, b) == \A k \in 1 .. 2 : a[1][k] <= b[2][k] /\ b[1][k] <= a[2][k]
Overlaps(a, b) == \A k \in 1 .. 2 : a[1][k] < b[2][k] /\ b[1][k] < a[2][k]

Bounds(index) == Hull({o.bnd : o \in ToSet(index)})

-----------------------------------------------------------------------------
(***************************************************************************)
(* Calls on a cellview.                                                    *)
(***************************************************************************)

NewCell == [mode |-> 0, geo |-> EmptyDict, insts |-> << >>, others |-> FALSE, index |-> << >>]
Empty(cell) == cell.geo = EmptyDict /\ cell.insts = << >> /\ ~cell.others

\* reset_to_mode: the polygon set of the mode, without shapes.
NewGeometry(mode) == [mode |-> mode, shapes |-> << >>]
MakeGeometry(cell, lay) ==
  [cell EXCEPT !.geo = Emplace(@, lay, NewGeometry(cell.mode))]

Refused(cell, s) == s.kind > MakeGeometry(cell, s.lay).geo[s.lay].mode
Indexed(s) == s.lay.level /\ s.sp # None
ShapeObj(s) == [type |-> "shape", shape |-> s, bnd |-> Expand(s.box, s.sp)]

\* A slip: the geometry takes every shape.
PutShape_AnyKind(cell, s) ==
  [MakeGeometry(cell, s.lay) EXCEPT
     !.geo[s.lay].shapes = Append(@, s),
     !.index = IF Indexed(s) THEN Append(@, ShapeObj(s)) ELSE @]

\* add_shape as far as it gets: a shape of the wrong kind leaves an empty geometry, one
\* without margins is in its geometry and not in the index.
PutShape(cell, s) ==
  IF Refused(cell, s) THEN MakeGeometry(cell, s.lay)
  ELSE [MakeGeometry(cell, s.lay) EXCEPT
          !.geo[s.lay].shapes = Append(@, s),
          !.index = IF Indexed(s) THEN Append(@, ShapeObj(s)) ELSE @]

Throws(cell, s) == Refused(cell, s) \/ (s.lay.level /\ s.sp = None)

\* The shapes of one call, up to the one that throws.
PutShapes(cell, shapes) ==
  LET step(acc, s) ==
        IF acc.thrown THEN acc
        ELSE [cell |-> PutShape(acc.cell, s), thrown |-> Throws(acc.cell, s)]
  IN  FoldLeft(step, [cell |-> cell, thrown |-> FALSE], shapes).cell

Placed(c) == \E d \in Cells : \E i \in DOMAIN cells[d].insts : cells[d].insts[i].master = c
Change(c, cell) ==
  /\ calls < MaxCalls /\ query = None
  /\ calls' = calls + 1
  /\ cells' = [cells EXCEPT ![c] = cell]
  /\ late' = IF Placed(c) THEN late \cup {c} ELSE late
  /\ UNCHANGED <<query, iters, found>>

\* add_shape, with one shape, and add_warr, with the wires of an array.
AddShapes(c) == \E shapes \in ShapeSeqs : Change(c, PutShapes(cells[c], shapes))

\* add_object of a via: its two metal layers may be drawn as well, unless the
\* technology does not know the via, which throws when it is already in the list.
AddVia(c) ==
  LET cell == [cells[c] EXCEPT !.others = TRUE]
  IN  \/ \E shapes \in ShapeSeqs : Len(shapes) = 2 /\ Change(c, PutShapes(cell, shapes))
      \/ Change(c, cell)

\* Pins, blockages and boundaries; labels leave the cellview as empty as it was.
AddOther(c) == \E others \in {cells[c].others, TRUE} : Change(c, [cells[c] EXCEPT !.others = others])

Places(inst) ==
  [k \in 1 .. inst.n[1] * inst.n[2] |->
     LET ix == (k - 1) \div inst.n[2]  iy == (k - 1) % inst.n[2]
     IN  MoveBy(inst.xform, <<ix * inst.sp[1], iy * inst.sp[2]>>)]

InstObj(m, x) == [type |-> "inst", master |-> m, xform |-> x, bnd |-> BoxBy(Bounds(cells[m].index), x)]

\* A slip: the box of the array's first element for all.
AddInstance_FirstBox(c) ==
  \E inst \in {i \in Insts : i.master = None \/ i.master < c} :
    LET m == inst.master
        new == IF m = None THEN << >>
               ELSE IF cells[m].index = << >> THEN << >>
               ELSE [k \in DOMAIN Places(inst) |->
                       [InstObj(m, Places(inst)[k]) EXCEPT !.bnd = InstObj(m, inst.xform).bnd]]
    IN  Change(c, [cells[c] EXCEPT !.insts = Append(@, inst), !.index = @ \o new])

\* add_object of an instance: an object in the index for each element of the array.
\* A master with an empty index is not filed at all.
AddInstance(c) ==
  \E inst \in {i \in Insts : i.master = None \/ i.master < c} :
    LET m == inst.master
        new == IF m = None THEN << >>
               ELSE IF cells[m].index = << >> THEN << >>
               ELSE [k \in DOMAIN Places(inst) |-> InstObj(m, Places(inst)[k])]
    IN  Change(c, [cells[c] EXCEPT !.insts = Append(@, inst), !.index = @ \o new])

\* A slip: an instance does not make a cellview non-empty, nor does a geometry.
SetGeometryMode_NoGeo(c) ==
  /\ ~cells[c].others
  /\ \E mode \in Modes : Change(c, [cells[c] EXCEPT !.mode = mode])

SetGeometryMode(c) ==
  /\ Empty(cells[c])
  /\ \E mode \in Modes : Change(c, [cells[c] EXCEPT !.mode = mode])

-----------------------------------------------------------------------------
(***************************************************************************)
(* The iterator.  box and sp are those of the query in the coordinates of  *)
(* the cell, todo are the objects that the R-tree returns for them.        *)
(***************************************************************************)

Iter(c, box, sp, xform) ==
  [box |-> box, sp |-> sp, xform |-> xform,
   todo |-> SelectSeq(cells[c].index, LAMBDA o : Meets(o.bnd, Expand(box, sp)))]

Swap(x, sp) == IF FlipsXY(x.orient) THEN <<sp[2], sp[1]>> ELSE sp

\* A slip: the margins not turned with the box.
Enter_SameMargins(it, o) == Iter(o.master, BoxBy(it.box, InverseOf(o.xform)), it.sp, o.xform)

\* begin_intersect of an instance.
Enter(it, o) == Iter(o.master, BoxBy(it.box, InverseOf(o.xform)), Swap(o.xform, it.sp), o.xform)

\* A slip: the two margins added.
Hit_Sum(it, s) == Overlaps(s.box, Expand(it.box, Plus(it.sp, s.sp)))

\* The larger of the two margins counts.
Hit(it, s) == Overlaps(s.box, Expand(it.box, Upper(it.sp, s.sp)))

\* The transformations of the iterators, the innermost first.
InTop(box) == FoldRight(LAMBDA it, b : BoxBy(b, it.xform), iters, box)

Begin ==
  /\ query = None
  /\ \E c \in Cells, q \in Queries :
       /\ query' = [cell |-> c, box |-> q.box, sp |-> q.sp]
       /\ iters' = <<Iter(c, q.box, q.sp, MakeXform(Origin, "R0"))>>
  /\ UNCHANGED <<cells, calls, found, late>>

Top == Last(iters)
Cur == Head(Top.todo)
Advance(its) == [its EXCEPT ![Len(its)].todo = Tail(@)]

Inner ==
  /\ iters # << >> /\ Top.todo # << >> /\ Cur.type = "inst"
  /\ iters' = Append(iters, Enter(Top, Cur))
  /\ UNCHANGED <<cells, calls, query, found, late>>

Yield ==
  /\ iters # << >> /\ Top.todo # << >> /\ Cur.type = "shape" /\ Hit(Top, Cur.shape)
  /\ found' = Append(found, InTop(Cur.shape.box))
  /\ iters' = Advance(iters)
  /\ UNCHANGED <<cells, calls, query, late>>

Skip ==
  /\ iters # << >> /\ Top.todo # << >> /\ Cur.type = "shape" /\ ~Hit(Top, Cur.shape)
  /\ iters' = Advance(iters)
  /\ UNCHANGED <<cells, calls, query, found, late>>

\* The outer iterator goes on behind the instance.
Outer ==
  /\ iters # << >> /\ Top.todo = << >>
  /\ iters' = IF Len(iters) = 1 THEN << >> ELSE Advance(Front(iters))
  /\ UNCHANGED <<cells, calls, query, found, late>>

-----------------------------------------------------------------------------
Init ==
  /\ cells = [c \in Cells |-> NewCell]
  /\ calls = 0 /\ query = None /\ iters = << >> /\ found = << >> /\ late = {}

Edit(c) == AddShapes(c) \/ AddVia(c) \/ AddOther(c) \/ AddInstance(c) \/ SetGeometryMode(c)
Next == (\E c \in Cells : Edit(c)) \/ Begin \/ Inner \/ Yield \/ Skip \/ Outer

Spec == Init /\ [][Next]_vars

-----------------------------------------------------------------------------
(***************************************************************************)
(* Properties.                                                             *)
(***************************************************************************)

\* The shape of the variables; whatever calls failed, a geometry has the mode of its
\* cellview, and only shapes that this mode takes.
TypeOK ==
  /\ \A c \in Cells :
       /\ cells[c].mode \in Modes
       /\ \A lay \in DOMAIN cells[c].geo : \A s \in ToSet(cells[c].geo[lay].shapes) :
            s.lay = lay /\ s.kind <= cells[c].geo[lay].mode
       /\ \A lay \in DOMAIN cells[c].geo : cells[c].geo[lay].mode = cells[c].mode
       /\ ToSet(cells[c].insts) \subseteq Insts
       /\ \A o \in ToSet(cells[c].index) : o.bnd \in Point \X Point
  /\ calls \in 0 .. MaxCalls
  /\ query = None => iters = << >> /\ found = << >>
  /\ Len(iters) <= NCells
  /\ late \subseteq Cells

\* The indexed shapes of a cell and all below it, moved to its coordinates, as its
\* geometries and instances have them: no index is looked at.
At(e, x) == [box |-> BoxBy(e.box, x), sp |-> Swap(x, e.sp)]
Flat ==
  LET flat[c \in Cells] ==
        LET own == FlattenSeq(SetToSeq({cells[c].geo[lay].shapes : lay \in DOMAIN cells[c].geo}))
            Below(inst) ==
              IF inst.master = None THEN << >>
              ELSE FlattenSeq([k \in DOMAIN Places(inst) |->
                     [j \in DOMAIN flat[inst.master] |-> At(flat[inst.master][j], Places(inst)[k])]])
        IN  [k \in DOMAIN SelectSeq(own, Indexed) |->
               [box |-> SelectSeq(own, Indexed)[k].box, sp |-> SelectSeq(own, Indexed)[k].sp]]
              \o FlattenSeq([i \in DOMAIN cells[c].insts |-> Below(cells[c].insts[i])])
  IN  flat

Expected ==
  SelectSeq(Flat[query.cell],
            LAMBDA e : Overlaps(e.box, Expand(query.box, Upper(query.sp, e.sp))))
Count(boxes, b) == Cardinality({k \in DOMAIN boxes : boxes[k] = b})
Times(entries, b) == Cardinality({k \in DOMAIN entries : entries[k].box = b})

\* A query returns only shapes that are in the layout now, at their place, once each,
\* and nearer to the query than the margins ask for; also when boxes are outdated.
QuerySound ==
  query # None => LET expected == Expected IN
                  \A b \in ToSet(found) : Count(found, b) <= Times(expected, b)

\* The cells a cell is built of.
Under ==
  LET under[c \in Cells] ==
        {c} \cup UNION {IF inst.master = None THEN {} ELSE under[inst.master] : inst \in ToSet(cells[c].insts)}
  IN  under

\* When every cell was complete before it was instantiated, a query returns all of them.
QueryComplete ==
  query # None /\ iters = << >> /\ late \cap Under[query.cell] = {} =>
    LET expected == Expected IN
    \A k \in DOMAIN expected : Count(found, expected[k].box) = Times(expected, expected[k].box)
=============================================================================
